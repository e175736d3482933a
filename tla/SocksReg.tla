------------------------------ MODULE SocksReg ------------------------------
(***************************************************************************)
(* The SOCKS server of sined, its connections, and how it registers them.  *)
(* The server's thread accepts a client, connects to the destination,      *)
(* reports the connection to the connection manager and starts a thread    *)
(* that forwards; that thread closes both sockets at the end and reports   *)
(* the removal.  A connection is identified to the connection manager by   *)
(* the client's pid and the number of the remote socket.                   *)
(***************************************************************************)
EXTENDS LibSine

ASSUME SocksAssumption == Threads = Conns \cup {"socks"} /\ "socks" \notin Conns

VARIABLES
    server,   \* control state of socks_main_loop()
    current,  \* the connection it is establishing
    conn,     \* state of each connection
    key,      \* the (pid, rem_sock) each connection was reported with
    cli,      \* the number of its client socket
    removed,  \* history: connections whose removal was handled
    reused    \* history: a removal took out another connection's entry

histVars == <<removed, reused>>
vars == <<netVars, server, current, conn, key, cli, histVars>>

ConnStates == {"none", "negotiate", "report", "open", "removing", "gone"}

TypeOK ==
    /\ LibTypeOK
    /\ server \in {"select", "negotiate", "call", "exit"}
    /\ current \in Conns \cup {NoConn}
    /\ conn \in [Conns -> ConnStates]
    /\ key \in [Conns -> Keys \cup {NoKey}]
    /\ cli \in [Conns -> Fds \cup {NoFd}]
    /\ removed \subseteq Conns
    /\ reused \in BOOLEAN

Init ==
    /\ LibInit
    /\ server = "select"
    /\ current = NoConn
    /\ conn = [c \in Conns |-> "none"]
    /\ key = [c \in Conns |-> NoKey]
    /\ cli = [c \in Conns |-> NoFd]
    /\ removed = {} /\ reused = FALSE

sockVars == <<server, current, conn, key, cli>>

\* accept(), and the lookup of the client's process; a client whose process
\* is not found is closed again, which leaves nothing behind.
Accept(c, f) ==
    /\ server = "select"
    /\ conn[c] = "none"
    /\ fds[f] = Free
    /\ fds' = [fds EXCEPT ![f] = <<"cli", c>>]
    /\ server' = "negotiate"
    /\ current' = c
    /\ conn' = [conn EXCEPT ![c] = "negotiate"]
    /\ cli' = [cli EXCEPT ![c] = f]
    /\ UNCHANGED <<libVars, acks, mgrVars, call, failed, key, histVars>>

\* close() of the numbers in S, whatever they refer to by now.
CloseFds(S) == [f \in Fds |-> IF f \in S THEN Free ELSE fds[f]]

\* socks_establish() gives up before or after connect(), or the reply to the
\* client cannot be sent.
EstablishFails ==
    /\ server = "negotiate"
    /\ fds' = CloseFds({cli[current]})
    /\ server' = "select"
    /\ conn' = [conn EXCEPT ![current] = "gone"]
    /\ UNCHANGED <<libVars, acks, mgrVars, call, failed, current, key, cli, histVars>>

\* Mutant: the descriptor is not filled in.
AddMessageNoFd(c, k) == [cmd |-> "add", key |-> <<k[1], NoFd>>, conn |-> c]

AddMessage(c, k) == [cmd |-> "add", key |-> k, conn |-> c]

\* Mutant: the removal names the client's socket.
RemoveMessageOfClient(c) == [cmd |-> "remove", key |-> <<key[c][1], cli[c]>>, conn |-> c]

RemoveMessage(c) == [cmd |-> "remove", key |-> key[c], conn |-> c]

\* Mutant: the connection is reported before connect() has succeeded.
EstablishReportsFirst(pid, f) ==
    /\ server = "negotiate"
    /\ fds[f] = Free
    /\ At("socks", "idle")
    /\ key' = [key EXCEPT ![current] = <<pid, f>>]
    /\ call' = [call EXCEPT !["socks"] = Begin("socks", AddMessage(current, <<pid, f>>))]
    /\ UNCHANGED <<fds, libVars, acks, mgrVars, failed, server, current, conn, cli, histVars>>

\* connect() succeeded and the client was told: report the connection.
Establish(pid, f) ==
    /\ server = "negotiate"
    /\ fds[f] = Free
    /\ fds' = [fds EXCEPT ![f] = <<"rem", current>>]
    /\ key' = [key EXCEPT ![current] = <<pid, f>>]
    /\ conn' = [conn EXCEPT ![current] = "report"]
    /\ server' = "call"
    /\ call' = [call EXCEPT !["socks"] = Begin("socks", AddMessage(current, <<pid, f>>))]
    /\ UNCHANGED <<libVars, acks, mgrVars, failed, current, cli, histVars>>

\* Mutant: the forwarding thread is started before the report.
StartForwardingEarly ==
    /\ server = "call"
    /\ \/ /\ conn[current] = "report"
          /\ conn' = [conn EXCEPT ![current] = "open"]
          /\ UNCHANGED <<call, server>>
       \/ /\ At("socks", "done") /\ conn[current] # "report"
          /\ call' = [call EXCEPT !["socks"] = NoCall]
          /\ server' = "select"
          /\ UNCHANGED conn
    /\ UNCHANGED <<fds, libVars, acks, mgrVars, failed, current, key, cli, histVars>>

\* The call has returned, with or without success: pthread_create().
StartForwarding ==
    /\ server = "call"
    /\ At("socks", "done")
    /\ call' = [call EXCEPT !["socks"] = NoCall]
    /\ conn' = [conn EXCEPT ![current] = "open"]
    /\ server' = "select"
    /\ UNCHANGED <<fds, libVars, acks, mgrVars, failed, current, key, cli, histVars>>

\* The end of forward_loop(): both sockets are closed, then the removal is
\* reported.
StopForwarding(c) ==
    /\ conn[c] = "open"
    /\ fds' = CloseFds({cli[c], key[c][2]})
    /\ conn' = [conn EXCEPT ![c] = "removing"]
    /\ call' = [call EXCEPT ![c] = Begin(c, RemoveMessage(c))]
    /\ UNCHANGED <<libVars, acks, mgrVars, failed, server, current, key, cli, histVars>>

ForwarderExits(c) ==
    /\ conn[c] = "removing"
    /\ At(c, "done")
    /\ call' = [call EXCEPT ![c] = NoCall]
    /\ conn' = [conn EXCEPT ![c] = "gone"]
    /\ UNCHANGED <<fds, libVars, acks, mgrVars, failed, server, current, key, cli, histVars>>

\* libsine_exit(): the path is removed and lib_sock closed, but not reset.
ServerExits ==
    /\ server = "select"
    /\ server' = "exit"
    /\ path' = IF lib_sock = Closed THEN path ELSE NoSock
    /\ fds' = IF lib_sock = Closed THEN fds ELSE [fds EXCEPT ![lib_sock] = Free]
    /\ UNCHANGED <<lib_sock, made, bound, timed, addressed, acks, mgrVars, call, failed,
                   current, conn, key, cli, histVars>>

\* The connection manager; a removal by one connection of the entry of
\* another is noted.
Conmgr ==
    /\ ConmgrHandle
    /\ LET m == Head(queue).msg
           gone == IF m.cmd = "remove" THEN { e \in registry : e[2] = m.key } ELSE {} IN
       /\ removed' = IF m.cmd = "remove" THEN removed \cup {m.conn} ELSE removed
       /\ reused' = (reused \/ \E e \in gone : e[1] # m.conn)
    /\ UNCHANGED sockVars

Calls(t) == CallStep(t) /\ UNCHANGED <<sockVars, histVars>>

Next ==
    \/ \E c \in Conns, f \in Fds : Accept(c, f)
    \/ EstablishFails
    \/ \E pid \in Pids, f \in Fds : Establish(pid, f)
    \/ StartForwarding
    \/ \E c \in Conns : StopForwarding(c) \/ ForwarderExits(c)
    \/ ServerExits
    \/ Conmgr
    \/ \E t \in Threads : Calls(t)

Spec == Init /\ [][Next]_vars

(***************************************************************************)
(* Properties.                                                             *)
(***************************************************************************)
\* Only connections that were established are registered, under their own key.
RegisteredWereEstablished ==
    \A e \in registry : conn[e[1]] \notin {"none", "negotiate"} /\ e[2] = key[e[1]]

\* A connection is not registered again after its removal was handled, however
\* late its registration is: the reports of a connection stay in order.
RemovedStaysRemoved == \A e \in registry : e[1] \notin removed

Quiet == queue = <<>> /\ \A t \in Threads : At(t, "idle")

\* Between reports the table is the set of open connections, as long as no
\* call has failed and no descriptor number came back before its removal.
QuietRegistryIsExact ==
    Quiet /\ ~failed /\ ~reused => { e[1] : e \in registry } = { c \in Conns : conn[c] = "open" }

\* "remove connection from conneciton manager" (socks.c:225): what a removal
\* takes out of the table is the connection that ended.
RemovalIsOwn ==
    [][\A e \in registry : e \notin registry' => conn[e[1]] \in {"removing", "gone"}]_vars

\* Nobody waits on lib_sock without its timeout (libsine.c:35) as long as no
\* call has failed: the first call, which opens the socket, is over before a
\* second thread exists.  After an error a thread may find lib_sock open
\* between socket() and setsockopt() of another, and wait without one.
UntimedOnlyAfterFailure ==
    \A t \in Threads : At(t, "wait") /\ call[t].patient => failed
=============================================================================
