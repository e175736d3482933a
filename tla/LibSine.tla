------------------------------ MODULE LibSine -------------------------------
(***************************************************************************)
(* sine_sendto_conmgr() of libsine.c, called by several threads of one     *)
(* process: a global datagram socket, opened on first use and closed after *)
(* any error, over which a thread sends its message and waits for the      *)
(* connection manager's acknowledgement.  Nothing serializes the calls.    *)
(* A step is one system call or one access of lib_sock.                    *)
(***************************************************************************)
EXTENDS Naturals, Sequences, FiniteSets

CONSTANTS Threads,     \* the threads that call it
          Conns,       \* the connections they report
          Pids,        \* the processes the connections belong to
          Fds,         \* descriptor numbers of the process
          MaxSocks,    \* bound on the sockets created for lib_sock
          QueueCap     \* datagrams the connection manager's socket buffers

ASSUME LibSineAssumption ==
    /\ Threads # {} /\ Pids # {} /\ Fds # {}
    /\ MaxSocks \in Nat /\ QueueCap \in Nat

Socks == 1..MaxSocks

NoSock == 0

Closed == "closed"      \* lib_sock = -1

\* -1 is no descriptor number.
ASSUME FdsAssumption == Closed \notin Fds /\ "none" \notin Fds

Keys == Pids \X Fds

\* A conmsg_t; conn is the connection it is about (history).
Message == [cmd : {"add", "remove"}, key : Keys, conn : Conns]

\* What lies in the connection manager's buffer: a message, and whether the
\* socket it was sent from had a name.
Datagram == [msg : Message, named : BOOLEAN]

\* Before a descriptor, a connection or a message is known.
NoFd == "none"
NoConn == "none"
NoKey == <<"none", "none">>
NoMessage == [cmd |-> "none", key |-> NoKey, conn |-> NoConn]

VARIABLES
    fds,        \* what each descriptor number refers to
    lib_sock,   \* the global: a descriptor number, or Closed
    made,       \* number of sockets created so far
    bound,      \* the sockets that were bound to the process's path
    timed,      \* the sockets with a receive timeout
    addressed,  \* conmgr_addr has been filled in
    path,       \* the socket the path leads to
    acks,       \* acknowledgements waiting at each socket
    queue,      \* datagrams waiting at the connection manager
    registry,   \* the connection manager's table
    call,       \* the call each thread is in
    failed      \* history: a call has failed

libVars == <<lib_sock, made, bound, timed, path, addressed>>
mgrVars == <<queue, registry>>
netVars == <<fds, libVars, acks, mgrVars, call, failed>>

(***************************************************************************)
(* phase is the statement the call is at: the test of lib_sock, socket(),  *)
(* bind(), setsockopt(), the filling in of conmgr_addr, sendto(),          *)
(* recvfrom(); "wait" is inside recvfrom() on socket sock, with a timeout  *)
(* when patient is FALSE; "stray" is inside recvfrom() on a descriptor     *)
(* that is not a lib_sock; "close" and "reset" are the error path.         *)
(***************************************************************************)
Phases == {"idle", "check", "socket", "bind", "option", "address", "send", "recv", "wait",
           "stray", "close", "reset", "done"}

Call == [phase : Phases, msg : Message \cup {NoMessage}, sock : Socks \cup {NoSock},
         patient : BOOLEAN]

NoCall == [phase |-> "idle", msg |-> NoMessage, sock |-> NoSock, patient |-> FALSE]

Free == <<"free">>
LibFd(s) == <<"lib", s>>

LibTypeOK ==
    /\ DOMAIN fds = Fds
    /\ \A f \in Fds : \/ fds[f] = Free
                       \/ fds[f] \in {"lib"} \X Socks
                       \/ fds[f] \in {"cli", "rem"} \X Conns
    /\ lib_sock \in Fds \cup {Closed}
    /\ made \in 0..MaxSocks
    /\ bound \subseteq Socks
    /\ timed \subseteq Socks
    /\ path \in Socks \cup {NoSock}
    /\ acks \in [Socks -> Nat]
    /\ queue \in Seq(Datagram)
    /\ registry \subseteq Conns \X Keys
    /\ call \in [Threads -> Call]
    /\ addressed \in BOOLEAN
    /\ failed \in BOOLEAN

LibInit ==
    /\ fds = [f \in Fds |-> Free]
    /\ lib_sock = Closed
    /\ made = 0
    /\ bound = {} /\ timed = {}
    /\ path = NoSock
    /\ addressed = FALSE
    /\ acks = [s \in Socks |-> 0]
    /\ queue = <<>>
    /\ registry = {}
    /\ call = [t \in Threads |-> NoCall]
    /\ failed = FALSE

\* The socket lib_sock refers to now.
IsLibSock == lib_sock # Closed /\ fds[lib_sock][1] = "lib"
LibSock == fds[lib_sock][2]

\* lib_sock is some open descriptor.
IsOpen == lib_sock # Closed /\ fds[lib_sock] # Free

At(t, p) == call[t].phase = p
Goto(t, p) == call' = [call EXCEPT ![t].phase = p]

\* The call of t with message m begins.
Begin(t, m) == [NoCall EXCEPT !.phase = "check", !.msg = m]

(***************************************************************************)
(* The caller.                                                             *)
(***************************************************************************)
Check(t) ==
    /\ At(t, "check")
    /\ Goto(t, IF lib_sock = Closed THEN "socket" ELSE "send")
    /\ UNCHANGED <<fds, libVars, acks, mgrVars, failed>>

\* socket() when every number is taken: lib_sock stays -1.
CreateFails(t) ==
    /\ At(t, "socket")
    /\ \A f \in Fds : fds[f] # Free
    /\ lib_sock' = Closed
    /\ failed' = TRUE
    /\ Goto(t, "close")
    /\ UNCHANGED <<fds, made, bound, timed, path, addressed, acks, mgrVars>>

CreateSocket(t, f) ==
    /\ At(t, "socket")
    /\ fds[f] = Free
    /\ made < MaxSocks
    /\ made' = made + 1
    /\ fds' = [fds EXCEPT ![f] = LibFd(made + 1)]
    /\ lib_sock' = f
    /\ Goto(t, "bind")
    /\ UNCHANGED <<bound, timed, path, addressed, acks, mgrVars, failed>>

\* unlink() and bind(): a socket that has a name already cannot be bound.
Bind(t) ==
    /\ At(t, "bind")
    /\ \/ /\ IsLibSock /\ LibSock \notin bound
          /\ bound' = bound \cup {LibSock}
          /\ path' = LibSock
          /\ Goto(t, "option")
          /\ UNCHANGED failed
       \/ /\ ~(IsLibSock /\ LibSock \notin bound)
          /\ path' = NoSock
          /\ failed' = TRUE
          /\ Goto(t, "close")
          /\ UNCHANGED bound
    /\ UNCHANGED <<fds, lib_sock, made, timed, addressed, acks, mgrVars>>

\* Mutant: the option is not set.
SetTimeoutForgotten(t) ==
    /\ At(t, "option")
    /\ Goto(t, "address")
    /\ UNCHANGED <<fds, libVars, acks, mgrVars, failed>>

\* setsockopt(SO_RCVTIMEO)
SetTimeout(t) ==
    /\ At(t, "option")
    /\ IF IsOpen
       THEN Goto(t, "address") /\ UNCHANGED failed
       ELSE Goto(t, "close") /\ failed' = TRUE
    /\ timed' = IF IsLibSock THEN timed \cup {LibSock} ELSE timed
    /\ UNCHANGED <<fds, lib_sock, made, bound, path, addressed, acks, mgrVars>>

FillAddress(t) ==
    /\ At(t, "address")
    /\ addressed' = TRUE
    /\ Goto(t, "send")
    /\ UNCHANGED <<fds, lib_sock, made, bound, timed, path, acks, mgrVars, failed>>

\* sendto(), blocking while the connection manager's buffer is full; it fails
\* while conmgr_addr is empty.  On a descriptor that has meanwhile become a
\* client's or a remote TCP socket the bytes go there.
Send(t) ==
    /\ At(t, "send")
    /\ \/ /\ IsLibSock /\ addressed
          /\ Len(queue) < QueueCap
          /\ queue' = Append(queue, [msg |-> call[t].msg, named |-> LibSock \in bound])
          /\ Goto(t, "recv")
          /\ UNCHANGED failed
       \/ /\ IsOpen /\ ~IsLibSock
          /\ Goto(t, "recv")
          /\ failed' = TRUE
          /\ UNCHANGED queue
       \/ /\ ~IsOpen \/ (IsLibSock /\ ~addressed)
          /\ Goto(t, "close")
          /\ failed' = TRUE
          /\ UNCHANGED queue
    /\ UNCHANGED <<fds, libVars, acks, registry>>

\* recvfrom() reads lib_sock again; the timeout is the one set by then.
Receive(t) ==
    /\ At(t, "recv")
    /\ \/ /\ IsLibSock
          /\ call' = [call EXCEPT ![t] = [@ EXCEPT !.phase = "wait", !.sock = LibSock,
                                                   !.patient = LibSock \notin timed]]
          /\ UNCHANGED failed
       \/ /\ IsOpen /\ ~IsLibSock
          /\ Goto(t, "stray")
          /\ failed' = TRUE
       \/ /\ ~IsOpen
          /\ Goto(t, "close")
          /\ failed' = TRUE
    /\ UNCHANGED <<fds, libVars, acks, mgrVars>>

TakeAck(t) ==
    /\ At(t, "wait")
    /\ acks[call[t].sock] > 0
    /\ acks' = [acks EXCEPT ![call[t].sock] = @ - 1]
    /\ call' = [call EXCEPT ![t] = [@ EXCEPT !.phase = "done", !.sock = NoSock]]
    /\ UNCHANGED <<fds, libVars, mgrVars, failed>>

ReceiveTimeout(t) ==
    /\ At(t, "wait")
    /\ ~call[t].patient
    /\ acks[call[t].sock] = 0
    /\ call' = [call EXCEPT ![t] = [@ EXCEPT !.phase = "close", !.sock = NoSock]]
    /\ failed' = TRUE
    /\ UNCHANGED <<fds, libVars, acks, mgrVars>>

\* The TCP peer sends something or closes, if it ever does.
StrayReturns(t) ==
    /\ At(t, "stray")
    /\ \E p \in {"done", "close"} : Goto(t, p)
    /\ UNCHANGED <<fds, libVars, acks, mgrVars, failed>>

\* The error path: close(lib_sock), whatever the number refers to by now.
CloseLibSock(t) ==
    /\ At(t, "close")
    /\ Goto(t, IF lib_sock = Closed THEN "done" ELSE "reset")
    /\ fds' = IF lib_sock = Closed THEN fds ELSE [fds EXCEPT ![lib_sock] = Free]
    /\ UNCHANGED <<libVars, acks, mgrVars, failed>>

ResetLibSock(t) ==
    /\ At(t, "reset")
    /\ lib_sock' = Closed
    /\ Goto(t, "done")
    /\ UNCHANGED <<fds, made, bound, timed, path, addressed, acks, mgrVars, failed>>

CallStep(t) ==
    \/ Check(t) \/ (\E f \in Fds : CreateSocket(t, f)) \/ CreateFails(t)
    \/ Bind(t) \/ SetTimeout(t) \/ FillAddress(t) \/ Send(t) \/ Receive(t)
    \/ TakeAck(t) \/ ReceiveTimeout(t) \/ StrayReturns(t)
    \/ CloseLibSock(t) \/ ResetLibSock(t)

(***************************************************************************)
(* The connection manager handles one datagram and answers to the name it  *)
(* came from; a sender without a name gets no answer, and a name without a *)
(* socket behind it loses the answer.                                      *)
(***************************************************************************)
Table == INSTANCE ConTable WITH Nodes <- Conns, tbl <- registry, covered <- {}

\* A socket lives while a descriptor or a blocked recvfrom() refers to it.
Alive(s) ==
    \/ \E f \in Fds : fds[f] = LibFd(s)
    \/ \E t \in Threads : call[t].phase = "wait" /\ call[t].sock = s

ConmgrHandle ==
    /\ queue # <<>>
    /\ queue' = Tail(queue)
    /\ LET d == Head(queue)
           s == IF d.named /\ path # NoSock /\ Alive(path) THEN path ELSE NoSock IN
       /\ IF d.msg.cmd = "add"
          THEN registry' = registry \cup {<<d.msg.conn, d.msg.key>>}
          ELSE Table!Remove(d.msg.key)
       /\ acks' = IF s = NoSock THEN acks ELSE [acks EXCEPT ![s] = @ + 1]
    /\ UNCHANGED <<fds, libVars, call, failed>>
=============================================================================
