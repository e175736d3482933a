--------------------------- MODULE SocksRegProofs ---------------------------
(***************************************************************************)
(* What the SOCKS server's registrations keep true, for any number of      *)
(* connections, threads, descriptors and buffered datagrams.  The          *)
(* inductive invariant has four parts.  ControlInv relates the server's    *)
(* state, a connection's state and the call that is made for it.           *)
(* ReportsInv says what is still on its way to the connection manager: the *)
(* reports of a connection are in order and carry the key it is registered *)
(* with.  DeliveredInv, as long as no call has failed, says that whatever  *)
(* has been sent is either still waiting or has been handled.  SocketInv,  *)
(* as long as no call has failed, says that lib_sock is opened once, by    *)
(* the server, before another thread exists.                               *)
(***************************************************************************)
EXTENDS SocksReg, TLAPS

Reported == {"report", "open", "removing"}

\* The phases of a call after sendto().
Sent == {"recv", "wait", "done"}

ErrorPath == {"stray", "close", "reset"}

ControlInv ==
    /\ server \in {"negotiate", "call"} => current \in Conns
    /\ IF server = "call"
       THEN call["socks"].phase # "idle" /\ call["socks"].msg = AddMessage(current, key[current])
       ELSE call["socks"] = NoCall
    /\ \A c \in Conns :
          /\ conn[c] = "negotiate" <=> server = "negotiate" /\ current = c
          /\ conn[c] = "report" <=> server = "call" /\ current = c
          /\ conn[c] \in Reported => key[c] \in Keys
          /\ conn[c] \in {"none", "negotiate"} => key[c] = NoKey
          /\ conn[c] \in Reported \cup {"negotiate"} => cli[c] \in Fds
          /\ IF conn[c] = "removing"
             THEN call[c].phase # "idle" /\ call[c].msg = RemoveMessage(c)
             ELSE call[c] = NoCall

Report(i, cmd, c) == queue[i].msg.cmd = cmd /\ queue[i].msg.conn = c

Queued(cmd, c) == \E i \in DOMAIN queue : Report(i, cmd, c)

ReportsInv ==
    /\ \A i \in DOMAIN queue :
          LET m == queue[i].msg IN
          /\ m.key = key[m.conn]
          /\ conn[m.conn] \in Reported \cup {"gone"}
          /\ m.cmd = "remove" => conn[m.conn] \in {"removing", "gone"}
    /\ \A i, j \in DOMAIN queue : \A c \in Conns :
          Report(i, "remove", c) /\ Report(j, "add", c) => j < i
    /\ \A c \in removed : conn[c] \in {"removing", "gone"} /\ ~Queued("add", c)
    /\ RegisteredWereEstablished
    /\ RemovedStaysRemoved

DeliveredInv ==
    ~failed =>
    /\ \A t \in Threads : call[t].phase \notin ErrorPath
    /\ \A c \in Conns :
          /\ conn[c] = "open" \/ (conn[c] = "report" /\ call["socks"].phase \in Sent)
                => reused \/ Queued("add", c) \/ \E e \in registry : e[1] = c
          /\ (conn[c] = "removing" /\ call[c].phase \in Sent) \/ (conn[c] = "gone" /\ key[c] # NoKey)
                => Queued("remove", c) \/ c \in removed

Forwarding(c) == conn[c] \in {"open", "removing"}

SocketInv ==
    ~failed =>
    /\ lib_sock = Closed => /\ \A c \in Conns : ~Forwarding(c)
                            /\ call["socks"].phase \in {"idle", "check", "socket"}
    /\ call["socks"].phase = "socket" => lib_sock = Closed
    /\ call["socks"].phase \in {"bind", "option"} => \A c \in Conns : ~Forwarding(c)
    /\ lib_sock # Closed => \/ fds[lib_sock] = Free /\ server = "exit"
                            \/ \E s \in Socks : /\ fds[lib_sock] = LibFd(s)
                                                /\ s \in timed \/ call["socks"].phase \in {"bind", "option"}
    /\ \A c \in Conns :
          /\ call[c].phase \notin {"socket", "bind", "option", "address"}
          /\ conn[c] \in {"negotiate", "report", "open"} => fds[cli[c]] = <<"cli", c>>
          /\ conn[c] \in {"report", "open"} => fds[key[c][2]] = <<"rem", c>>
    /\ \A t \in Threads : At(t, "wait") => ~call[t].patient

RegInv == TypeOK /\ ControlInv /\ ReportsInv /\ DeliveredInv /\ SocketInv

\* What a descriptor refers to is one thing only.
LEMMA FdFacts ==
    /\ \A s : LibFd(s) # Free /\ LibFd(s)[1] = "lib" /\ LibFd(s)[2] = s
    /\ \A c : <<"cli", c>> # Free /\ <<"rem", c>> # Free
    /\ \A c, s : <<"cli", c>> # LibFd(s) /\ <<"rem", c>> # LibFd(s)
    /\ \A c, d : <<"cli", c>> # <<"rem", d>>
    /\ \A c, d : <<"cli", c>> = <<"cli", d>> => c = d
    /\ \A c, d : <<"rem", c>> = <<"rem", d>> => c = d
    /\ NoKey \notin Keys
BY FdsAssumption, Zenon DEF LibFd, Free, NoKey, Keys

\* A step of sine_sendto_conmgr() moves its own call only, keeps the message
\* and the table, and puts that message into the queue exactly when it passes
\* sendto(), unless a call fails.
CallMoves(t) ==
    /\ call' = [call EXCEPT ![t] = call'[t]] /\ call'[t] \in Call
    /\ call'[t].msg = call[t].msg
    /\ call[t].phase # "idle" /\ call'[t].phase # "idle"
    /\ registry' = registry /\ (failed => failed') /\ failed' \in BOOLEAN
    /\ \/ /\ queue' = queue
          /\ ~failed' /\ call[t].phase \notin ErrorPath
                => (call[t].phase \in Sent <=> call'[t].phase \in Sent)
       \/ /\ call[t].phase = "send" /\ call'[t].phase = "recv"
          /\ \E b \in BOOLEAN : queue' = Append(queue, [msg |-> call[t].msg, named |-> b])
    /\ ~failed' /\ call[t].phase \notin ErrorPath => call'[t].phase \notin ErrorPath

\* A jump to another statement changes nothing else of the call.
LEMMA Jump ==
    ASSUME NEW t \in Threads, call \in [Threads -> Call], NEW p \in Phases, Goto(t, p)
    PROVE  /\ call' = [call EXCEPT ![t] = call'[t]] /\ call'[t] \in Call
           /\ call'[t].msg = call[t].msg /\ call'[t].phase = p
           /\ call'[t].sock = call[t].sock /\ call'[t].patient = call[t].patient
BY Zenon DEF Goto, Call

\* Every step of a call is such a move.
LEMMA CallEffect ==
    ASSUME NEW t \in Threads, LibTypeOK, CallStep(t)
    PROVE  CallMoves(t)
<1>0. call[t] \in Call /\ call \in [Threads -> Call] /\ failed \in BOOLEAN
  BY Zenon DEF LibTypeOK
<1>. DEFINE Moves(p, q) == /\ call[t].phase = p /\ Goto(t, q)
                           /\ queue' = queue /\ registry' = registry /\ failed' = failed
            Fails == /\ call[t].phase # "idle" /\ \E q \in Phases \ {"idle"} : Goto(t, q)
                     /\ queue' = queue /\ registry' = registry /\ failed' = TRUE
<1>. USE <1>0 DEF At
<1>1. ASSUME NEW p \in Phases \ {"idle"}, NEW q \in Phases \ {"idle"}, Moves(p, q),
             p \in ErrorPath \/ (q \notin ErrorPath /\ (p \in Sent <=> q \in Sent))
      PROVE  CallMoves(t)
  BY <1>1, Jump, Zenon DEF CallMoves
<1>2. ASSUME Fails PROVE CallMoves(t)
  BY <1>2, Jump, Zenon DEF CallMoves
<1>. USE DEF Phases, Sent, ErrorPath, mgrVars, libVars
<1>3. CASE Check(t)
  <2>1. Moves("check", "socket") \/ Moves("check", "send")
    BY <1>3, Zenon DEF Check
  <2>. QED
    BY <1>1, <2>1, Zenon
<1>4. ASSUME NEW f \in Fds, CreateSocket(t, f) PROVE CallMoves(t)
  <2>1. Moves("socket", "bind")
    BY <1>4, Zenon DEF CreateSocket
  <2>. QED
    BY <1>1, <2>1, Zenon
<1>5. CASE CreateFails(t)
  BY <1>2, <1>5, Zenon DEF CreateFails
<1>6. CASE Bind(t)
  <2>1. Moves("bind", "option") \/ Fails
    BY <1>6, Zenon DEF Bind
  <2>. QED
    BY <1>1, <1>2, <2>1, Zenon
<1>7. CASE SetTimeout(t)
  <2>1. Moves("option", "address") \/ Fails
    BY <1>7, Zenon DEF SetTimeout
  <2>. QED
    BY <1>1, <1>2, <2>1, Zenon
<1>8. CASE FillAddress(t)
  <2>1. Moves("address", "send")
    BY <1>8, Zenon DEF FillAddress
  <2>. QED
    BY <1>1, <2>1, Zenon
<1>9. CASE Send(t)
  <2>. DEFINE p == LibSock \in bound
  <2>1. CASE Fails
    BY <1>2, <2>1, Zenon
  <2>2. CASE ~Fails
    <3>1. /\ queue' = Append(queue, [msg |-> call[t].msg, named |-> p]) /\ Goto(t, "recv")
          /\ failed' = failed /\ registry' = registry /\ call[t].phase = "send"
      BY <1>9, <2>2, Zenon DEF Send
    <3>2. p \in BOOLEAN
      OBVIOUS
    <3>. HIDE DEF p
    <3>3. /\ call' = [call EXCEPT ![t] = call'[t]] /\ call'[t] \in Call
          /\ call'[t].msg = call[t].msg /\ call'[t].phase = "recv"
      BY <3>1, Jump, Zenon
    <3>. QED
      BY <3>1, <3>2, <3>3, Zenon DEF CallMoves
  <2>. QED
    BY <2>1, <2>2, Zenon
<1>10. CASE Receive(t)
  <2>1. CASE Fails
    BY <1>2, <2>1, Zenon
  <2>2. CASE ~Fails
    <3>. DEFINE p == LibSock \notin timed
    <3>1. /\ call' = [call EXCEPT ![t] = [@ EXCEPT !.phase = "wait", !.sock = LibSock, !.patient = p]]
          /\ IsLibSock /\ failed' = failed /\ queue' = queue /\ registry' = registry
          /\ call[t].phase = "recv"
      BY <1>10, <2>2, Zenon DEF Receive
    <3>2. p \in BOOLEAN /\ LibSock \in Socks
      BY <3>1 DEF LibTypeOK, IsLibSock, LibSock, Free
    <3>3. call' = [call EXCEPT ![t] = call'[t]] /\ call'[t] \in Call
          /\ call'[t].msg = call[t].msg /\ call'[t].phase = "wait"
      <4>. HIDE DEF p
      <4>. QED
        BY <3>1, <3>2, Zenon DEF Call
    <3>. QED
      BY <3>1, <3>3, Zenon DEF CallMoves
  <2>. QED
    BY <2>1, <2>2, Zenon
<1>11. CASE TakeAck(t)
  BY <1>11, Zenon DEF TakeAck, CallMoves, Call
<1>12. CASE ReceiveTimeout(t)
  BY <1>12, Zenon DEF ReceiveTimeout, CallMoves, Call
<1>13. CASE StrayReturns(t)
  <2>1. Moves("stray", "done") \/ Moves("stray", "close")
    BY <1>13, Zenon DEF StrayReturns
  <2>. QED
    BY <1>1, <2>1, Zenon
<1>14. CASE CloseLibSock(t)
  <2>1. Moves("close", "done") \/ Moves("close", "reset")
    BY <1>14, Zenon DEF CloseLibSock
  <2>. QED
    BY <1>1, <2>1, Zenon
<1>15. CASE ResetLibSock(t)
  <2>1. Moves("reset", "done")
    BY <1>15, Zenon DEF ResetLibSock
  <2>. QED
    BY <1>1, <2>1, Zenon
<1>. QED
  BY <1>3, <1>4, <1>5, <1>6, <1>7, <1>8, <1>9, <1>10, <1>11, <1>12, <1>13, <1>14, <1>15, Zenon
  DEF CallStep

\* A call keeps the types.
LEMMA CallTypes ==
    ASSUME NEW t \in Threads, LibTypeOK, CallStep(t), call[t].msg \in Message
    PROVE  LibTypeOK'
<1>. DEFINE SocketTypes == /\ DOMAIN fds = Fds
                           /\ \A f \in Fds : \/ fds[f] = Free
                                              \/ fds[f] \in {"lib"} \X Socks
                                              \/ fds[f] \in {"cli", "rem"} \X Conns
                           /\ lib_sock \in Fds \cup {Closed}
                           /\ made \in 0..MaxSocks
            NameTypes == /\ bound \subseteq Socks
                         /\ timed \subseteq Socks
                         /\ path \in Socks \cup {NoSock}
                         /\ acks \in [Socks -> Nat]
                         /\ addressed \in BOOLEAN
<1>0. SocketTypes /\ NameTypes
  BY Zenon DEF LibTypeOK
<1>1. queue' \in Seq(Datagram) /\ registry' \subseteq Conns \X Keys
  <2>1. queue \in Seq(Datagram) /\ registry \subseteq Conns \X Keys
    BY Zenon DEF LibTypeOK
  <2>2. /\ registry' = registry
        /\ \/ queue' = queue
           \/ \E b \in BOOLEAN : queue' = Append(queue, [msg |-> call[t].msg, named |-> b])
    BY CallEffect, Zenon DEF CallMoves
  <2>3. \A b \in BOOLEAN : [msg |-> call[t].msg, named |-> b] \in Datagram
    BY Zenon DEF Datagram
  <2>4. CASE queue' = queue
    BY <2>1, <2>2, <2>4, Zenon
  <2>5. ASSUME NEW b \in BOOLEAN, queue' = Append(queue, [msg |-> call[t].msg, named |-> b])
        PROVE  queue' \in Seq(Datagram)
    BY <2>1, <2>3, <2>5
  <2>. QED
    BY <2>1, <2>2, <2>4, <2>5, Zenon
<1>2. call' \in [Threads -> Call] /\ failed' \in BOOLEAN
  BY CallEffect DEF CallMoves, LibTypeOK
<1>3. IsLibSock => LibSock \in Socks
  <2>1. ASSUME IsLibSock PROVE lib_sock \in Fds /\ fds[lib_sock][1] = "lib"
    BY <2>1, Zenon DEF LibTypeOK, IsLibSock
  <2>2. /\ Free[1] # "lib"
        /\ \A p \in {"lib"} \X Socks : p[2] \in Socks
        /\ \A p \in {"cli", "rem"} \X Conns : p[1] # "lib"
    BY DEF Free
  <2>. QED
    BY <2>1, <2>2, Zenon DEF LibTypeOK, LibSock
<1>4. SocketTypes' /\ NameTypes'
  <2>. USE <1>0, <1>3 DEF libVars, mgrVars
  <2>1. CASE UNCHANGED <<fds, libVars, acks>>
    BY <2>1, Zenon
  <2>2. ASSUME NEW f \in Fds, CreateSocket(t, f) PROVE SocketTypes' /\ NameTypes'
    BY <2>2, LibSineAssumption DEF CreateSocket, Socks, LibFd
  <2>3. CASE CreateFails(t) \/ ResetLibSock(t)
    BY <2>3, Zenon DEF CreateFails, ResetLibSock
  <2>4. CASE Bind(t)
    BY <2>4, Zenon DEF Bind
  <2>5. CASE SetTimeout(t)
    BY <2>5, Zenon DEF SetTimeout
  <2>6. CASE FillAddress(t)
    BY <2>6, Zenon DEF FillAddress
  <2>7. CASE TakeAck(t)
    <3>1. SocketTypes' /\ UNCHANGED <<bound, timed, path, addressed>>
      BY <2>7, Zenon DEF TakeAck
    <3>2. acks' \in [Socks -> Nat]
      <4>1. PICK s : acks[s] > 0 /\ acks' = [acks EXCEPT ![s] = acks[s] - 1]
        BY <2>7, Zenon DEF TakeAck
      <4>2. \A x \in Socks : acks'[x] = IF x = s THEN acks[s] - 1 ELSE acks[x]
        BY <4>1, Zenon
      <4>3. \A x \in Socks : acks[x] \in Nat
        BY Zenon
      <4>4. \A x \in Socks : acks'[x] \in Nat
        BY <4>1, <4>2, <4>3
      <4>. QED
        BY <4>1, <4>4, Zenon
    <3>. QED
      BY <3>1, <3>2, Zenon
  <2>8. CASE CloseLibSock(t)
    BY <2>8, Zenon DEF CloseLibSock
  <2>9. CASE Check(t) \/ Send(t) \/ Receive(t) \/ ReceiveTimeout(t) \/ StrayReturns(t)
    BY <2>1, <2>9, Zenon DEF Check, Send, Receive, ReceiveTimeout, StrayReturns
  <2>. QED
    BY <2>2, <2>3, <2>4, <2>5, <2>6, <2>7, <2>8, <2>9, Zenon DEF CallStep
<1>. QED
  BY <1>1, <1>2, <1>4, Zenon DEF LibTypeOK

\* The connection manager's step: it takes the first datagram and does to the
\* table what that datagram's report asks for.
ConmgrMoves ==
    LET m == queue[1].msg IN
    /\ queue # <<>> /\ queue' = Tail(queue)
    /\ m.cmd = "add" => registry' = registry \cup {<<m.conn, m.key>>}
    /\ m.cmd = "remove" => registry' = { e \in registry : e[2] # m.key }
    /\ removed' = IF m.cmd = "remove" THEN removed \cup {m.conn} ELSE removed
    /\ ~reused' => ~reused
    /\ ~reused' /\ m.cmd = "remove" => \A e \in registry : e[2] = m.key => e[1] = m.conn
    /\ UNCHANGED <<fds, libVars, call, failed, server, current, conn, key, cli>>

\* Conmgr is such a step.
LEMMA ConmgrEffect ==
    ASSUME TypeOK, Conmgr
    PROVE  /\ ConmgrMoves /\ queue[1].msg \in Message
           /\ acks' \in [Socks -> Nat] /\ reused' \in BOOLEAN
<1>. DEFINE m == queue[1].msg
            gone == IF m.cmd = "remove" THEN { e \in registry : e[2] = m.key } ELSE {}
<1>1. /\ queue \in Seq(Datagram) /\ queue # <<>>
      /\ acks \in [Socks -> Nat] /\ path \in Socks \cup {NoSock} /\ reused \in BOOLEAN
  BY Zenon DEF TypeOK, LibTypeOK, Conmgr, ConmgrHandle
<1>2. Head(queue) = queue[1] /\ queue[1] \in Datagram
  BY <1>1
<1>3. m \in Message /\ m.cmd \in {"add", "remove"}
  BY <1>2, Zenon DEF Message, Datagram
<1>4. /\ removed' = IF m.cmd = "remove" THEN removed \cup {m.conn} ELSE removed
      /\ reused' = (reused \/ \E e \in gone : e[1] # m.conn)
      /\ UNCHANGED <<server, current, conn, key, cli>>
  BY <1>2, Zenon DEF Conmgr, sockVars
<1>5. /\ queue' = Tail(queue)
      /\ m.cmd = "add" => registry' = registry \cup {<<m.conn, m.key>>}
      /\ m.cmd # "add" => registry' = { e \in registry : e[2] # m.key }
      /\ UNCHANGED <<fds, libVars, call, failed>>
  BY <1>2, Zenon DEF Conmgr, ConmgrHandle, Table!Remove
<1>6. acks' \in [Socks -> Nat]
  <2>. DEFINE s == IF Head(queue).named /\ path # NoSock /\ Alive(path) THEN path ELSE NoSock
  <2>0. acks' = IF s = NoSock THEN acks ELSE [acks EXCEPT ![s] = @ + 1]
    BY Zenon DEF Conmgr, ConmgrHandle
  <2>1. s = NoSock \/ s = path
    BY Zenon
  <2>. HIDE DEF s
  <2>. QED
    BY <1>1, <2>0, <2>1
<1>. QED
  BY <1>1, <1>3, <1>4, <1>5, <1>6, Zenon DEF ConmgrMoves

\* Only the server and the threads of ending connections are in a call: the
\* one registers the connection it has just established, the others remove
\* theirs.
LEMMA WhoCalls ==
    ASSUME ControlInv, NEW t \in Threads, call[t].phase # "idle"
    PROVE  LET m == call[t].msg IN
           /\ m \in Message /\ m.conn \in Conns /\ m.key = key[m.conn] /\ key[m.conn] \in Keys
           /\ \/ /\ t = "socks" /\ server = "call" /\ current = m.conn
                 /\ m.cmd = "add" /\ conn[m.conn] = "report"
              \/ /\ t \in Conns /\ t = m.conn
                 /\ m.cmd = "remove" /\ conn[m.conn] = "removing"
<1>1. CASE t = "socks"
  <2>1. /\ server = "call" /\ current \in Conns /\ conn[current] = "report" /\ key[current] \in Keys
        /\ call[t].msg = AddMessage(current, key[current])
    BY <1>1 DEF ControlInv, NoCall, Reported
  <2>. QED
    BY <1>1, <2>1 DEF AddMessage, Message
<1>2. CASE t \in Conns
  <2>1. conn[t] = "removing" /\ key[t] \in Keys /\ call[t].msg = RemoveMessage(t)
    BY <1>2 DEF ControlInv, NoCall, Reported
  <2>. QED
    BY <1>2, <2>1 DEF RemoveMessage, Message
<1>. QED
  BY <1>1, <1>2, SocksAssumption, Zenon

\* Every operation of the SOCKS server keeps the types.
LEMMA TypesKept ==
    ASSUME TypeOK, ControlInv, Next
    PROVE  TypeOK'
<1>. DEFINE FdTypes == /\ DOMAIN fds = Fds
                       /\ \A f \in Fds : \/ fds[f] = Free
                                          \/ fds[f] \in {"lib"} \X Socks
                                          \/ fds[f] \in {"cli", "rem"} \X Conns
            ServerTypes == /\ server \in {"select", "negotiate", "call", "exit"}
                           /\ current \in Conns \cup {NoConn}
                           /\ conn \in [Conns -> ConnStates]
                           /\ key \in [Conns -> Keys \cup {NoKey}]
                           /\ cli \in [Conns -> Fds \cup {NoFd}]
            Rest == <<libVars, acks, mgrVars, failed, histVars>>
<1>0. LibTypeOK /\ FdTypes /\ ServerTypes /\ call \in [Threads -> Call]
      /\ removed \subseteq Conns /\ reused \in BOOLEAN
  BY Zenon DEF TypeOK, LibTypeOK
<1>1. ASSUME FdTypes', ServerTypes', call' \in [Threads -> Call], UNCHANGED Rest
      PROVE  TypeOK'
  BY <1>1, <1>0, Zenon DEF TypeOK, LibTypeOK, libVars, mgrVars, histVars
<1>2. /\ \A c \in Conns, k \in Keys : Begin("socks", AddMessage(c, k)) \in Call
      /\ \A c \in Conns : key[c] \in Keys => Begin(c, RemoveMessage(c)) \in Call
      /\ NoCall \in Call
  BY Zenon DEF Begin, NoCall, AddMessage, RemoveMessage, Call, Message, Phases
<1>4. ASSUME NEW c \in Conns, NEW f \in Fds, Accept(c, f) PROVE TypeOK'
  <2>1. FdTypes' /\ ServerTypes'
    BY <1>0, <1>4, Zenon DEF Accept, ConnStates
  <2>. QED
    BY <1>0, <1>1, <1>4, <2>1, Zenon DEF Accept
<1>5. CASE EstablishFails
  <2>1. FdTypes' /\ ServerTypes'
    BY <1>0, <1>5, Zenon DEF EstablishFails, CloseFds, ConnStates
  <2>. QED
    BY <1>0, <1>1, <1>5, <2>1, Zenon DEF EstablishFails
<1>6. ASSUME NEW pid \in Pids, NEW f \in Fds, Establish(pid, f) PROVE TypeOK'
  <2>0. current \in Conns /\ <<pid, f>> \in Keys
    BY <1>6, Zenon DEF Establish, ControlInv, Keys
  <2>1. FdTypes' /\ ServerTypes'
    BY <1>0, <1>6, <2>0, Zenon DEF Establish, ConnStates
  <2>2. call' \in [Threads -> Call]
    BY <1>0, <1>2, <1>6, <2>0, Zenon DEF Establish
  <2>. QED
    BY <1>1, <1>6, <2>1, <2>2, Zenon DEF Establish
<1>7. CASE StartForwarding
  <2>1. FdTypes' /\ ServerTypes' /\ call' \in [Threads -> Call]
    BY <1>0, <1>2, <1>7, Zenon DEF StartForwarding, ConnStates
  <2>. QED
    BY <1>1, <1>7, <2>1, Zenon DEF StartForwarding
<1>8. ASSUME NEW c \in Conns, StopForwarding(c) PROVE TypeOK'
  <2>0. key[c] \in Keys
    BY <1>8, Zenon DEF StopForwarding, ControlInv, Reported
  <2>1. FdTypes' /\ ServerTypes'
    BY <1>0, <1>8, Zenon DEF StopForwarding, CloseFds, ConnStates
  <2>2. call' \in [Threads -> Call]
    BY <1>0, <1>2, <1>8, <2>0, Zenon DEF StopForwarding
  <2>. QED
    BY <1>1, <1>8, <2>1, <2>2, Zenon DEF StopForwarding
<1>9. ASSUME NEW c \in Conns, ForwarderExits(c) PROVE TypeOK'
  <2>1. FdTypes' /\ ServerTypes' /\ call' \in [Threads -> Call]
    BY <1>0, <1>2, <1>9, Zenon DEF ForwarderExits, ConnStates
  <2>. QED
    BY <1>1, <1>9, <2>1, Zenon DEF ForwarderExits
<1>10. CASE ServerExits
  <2>1. FdTypes' /\ ServerTypes'
    BY <1>0, <1>10, Zenon DEF ServerExits
  <2>2. path' \in Socks \cup {NoSock}
    BY <1>0, <1>10, Zenon DEF ServerExits, LibTypeOK
  <2>. QED
    BY <1>0, <1>10, <2>1, <2>2, Zenon DEF ServerExits, TypeOK, LibTypeOK, mgrVars, histVars
<1>11. CASE Conmgr
  <2>. DEFINE m == queue[1].msg
  <2>0. /\ ConmgrMoves /\ m.cmd \in {"add", "remove"} /\ m.conn \in Conns /\ m.key \in Keys
        /\ queue \in Seq(Datagram) /\ registry \subseteq Conns \X Keys
    BY <1>0, <1>11, ConmgrEffect, Zenon DEF Message, LibTypeOK
  <2>1. queue' \in Seq(Datagram)
    BY <2>0 DEF ConmgrMoves
  <2>2. registry' \subseteq Conns \X Keys /\ removed' \subseteq Conns
    BY <1>0, <2>0 DEF ConmgrMoves
  <2>. QED
    BY <1>0, <1>11, <2>1, <2>2, ConmgrEffect, Zenon DEF ConmgrMoves, LibTypeOK, TypeOK, libVars
<1>12. ASSUME NEW t \in Threads, Calls(t) PROVE TypeOK'
  <2>1. call[t].msg \in Message
    <3>1. call[t].phase # "idle"
      BY <1>0, <1>12, CallEffect, Zenon DEF Calls, CallMoves
    <3>. QED
      BY <3>1, WhoCalls, Zenon
  <2>. QED
    BY <1>0, <1>12, <2>1, CallTypes, Zenon DEF Calls, TypeOK, sockVars, histVars
<1>. QED
  BY <1>4, <1>5, <1>6, <1>7, <1>8, <1>9, <1>10, <1>11, <1>12, Zenon DEF Next

\* The control states stay related.
LEMMA ControlKept ==
    ASSUME TypeOK, ControlInv, Next
    PROVE  ControlInv'
<1>0. /\ call \in [Threads -> Call] /\ conn \in [Conns -> ConnStates] /\ current \in Conns \cup {NoConn}
      /\ key \in [Conns -> Keys \cup {NoKey}] /\ cli \in [Conns -> Fds \cup {NoFd}]
      /\ "socks" \in Threads /\ "socks" \notin Conns /\ Conns \subseteq Threads
  BY SocksAssumption, Zenon DEF TypeOK, LibTypeOK
<1>. USE <1>0 DEF ControlInv, Reported
<1>1. ASSUME NEW c \in Conns, NEW f \in Fds, Accept(c, f) PROVE ControlInv'
  BY <1>1, Zenon DEF Accept, RemoveMessage
<1>2. CASE EstablishFails
  BY <1>2, Zenon DEF EstablishFails, RemoveMessage
<1>3. ASSUME NEW pid \in Pids, NEW f \in Fds, Establish(pid, f) PROVE ControlInv'
  <2>1. <<pid, f>> \in Keys
    BY Zenon DEF Keys
  <2>. QED
    BY <1>3, <2>1, Zenon DEF Establish, RemoveMessage, AddMessage, Begin, NoCall
<1>4. CASE StartForwarding
  BY <1>4, Zenon DEF StartForwarding, RemoveMessage
<1>5. ASSUME NEW c \in Conns, StopForwarding(c) PROVE ControlInv'
  BY <1>5, Zenon DEF StopForwarding, RemoveMessage, Begin, NoCall
<1>6. ASSUME NEW c \in Conns, ForwarderExits(c) PROVE ControlInv'
  BY <1>6, Zenon DEF ForwarderExits, RemoveMessage
<1>7. CASE ServerExits
  BY <1>7, Zenon DEF ServerExits, RemoveMessage
<1>8. CASE Conmgr
  BY <1>8, ConmgrEffect, Zenon DEF ConmgrMoves, RemoveMessage, AddMessage
<1>9. ASSUME NEW t \in Threads, Calls(t) PROVE ControlInv'
  <2>1. CallMoves(t) /\ UNCHANGED sockVars
    BY <1>9, CallEffect, Zenon DEF Calls, TypeOK
  <2>2. /\ call'[t].msg = call[t].msg /\ call[t].phase # "idle" /\ call'[t].phase # "idle"
        /\ \A u \in Threads \ {t} : call'[u] = call[u]
        /\ UNCHANGED <<server, current, conn, key, cli>>
    BY <2>1, Zenon DEF CallMoves, sockVars
  <2>3. /\ t = "socks" => server = "call"
        /\ t \in Conns => conn[t] = "removing"
    BY <2>2 DEF NoCall
  <2>. QED
    BY <2>2, <2>3 DEF RemoveMessage, AddMessage
<1>. QED
  BY <1>1, <1>2, <1>3, <1>4, <1>5, <1>6, <1>7, <1>8, <1>9, Zenon DEF Next

\* What waits at the connection manager are reports of connections.
LEMMA QueueTypes ==
    ASSUME TypeOK
    PROVE  /\ queue \in Seq(Datagram) /\ Len(queue) \in Nat /\ DOMAIN queue = 1..Len(queue)
           /\ \A i \in DOMAIN queue : /\ queue[i] \in Datagram
                                      /\ queue[i].msg.cmd \in {"add", "remove"}
                                      /\ queue[i].msg.conn \in Conns /\ queue[i].msg.key \in Keys
<1>1. /\ queue \in Seq(Datagram) /\ Len(queue) \in Nat /\ DOMAIN queue = 1..Len(queue)
      /\ \A i \in DOMAIN queue : queue[i] \in Datagram
  BY DEF TypeOK, LibTypeOK
<1>. QED
  BY <1>1, Zenon DEF Datagram, Message

\* A connection that is accepted, established or given up has not been
\* reported yet, so no report of it is on its way and it is in no table.
LEMMA Unreported ==
    ASSUME TypeOK, ReportsInv, NEW c \in Conns, conn[c] \in {"none", "negotiate"}
    PROVE  /\ c \notin removed /\ \A e \in registry : e[1] # c
           /\ \A i \in DOMAIN queue : queue[i].msg.conn # c
BY Zenon DEF ReportsInv, RegisteredWereEstablished, Reported

\* The reports stay in order, through every operation but those of the
\* connection manager and of sendto().
LEMMA ReportsStay ==
    ASSUME TypeOK, ReportsInv, UNCHANGED <<queue, registry, removed>>,
           \A c \in Conns : \/ conn[c] \in {"none", "negotiate"}
                            \/ key'[c] = key[c] /\ conn'[c] \in Reported \cup {"gone"}
                                 /\ (conn[c] \in {"removing", "gone"} => conn'[c] \in {"removing", "gone"})
    PROVE  ReportsInv'
<1>1. /\ registry \subseteq Conns \X Keys /\ removed \subseteq Conns
      /\ \A i \in DOMAIN queue : queue[i].msg.conn \in Conns
  BY QueueTypes, Zenon DEF TypeOK, LibTypeOK
<1>. USE <1>1 DEF Reported
<1>2. RegisteredWereEstablished' /\ RemovedStaysRemoved'
  BY Unreported, Zenon DEF ReportsInv, RegisteredWereEstablished, RemovedStaysRemoved
<1>3. ASSUME NEW i \in DOMAIN queue
      PROVE  /\ queue[i].msg.key = key'[queue[i].msg.conn]
             /\ conn'[queue[i].msg.conn] \in Reported \cup {"gone"}
             /\ queue[i].msg.cmd = "remove" => conn'[queue[i].msg.conn] \in {"removing", "gone"}
  BY <1>3, Unreported, Zenon DEF ReportsInv
<1>4. \A c \in removed : conn'[c] \in {"removing", "gone"} /\ ~Queued("add", c)
  BY Unreported, Zenon DEF ReportsInv
<1>5. \A i, j \in DOMAIN queue : \A c \in Conns :
          Report(i, "remove", c) /\ Report(j, "add", c) => j < i
  BY Zenon DEF ReportsInv
<1>. QED
  BY <1>2, <1>3, <1>4, <1>5, Zenon DEF ReportsInv, Report, Queued

\* sendto() puts a report behind those of its connection: the registration
\* before the forwarding thread exists, the removal after it.
LEMMA ReportsSent ==
    ASSUME TypeOK, ControlInv, ReportsInv, NEW t \in Threads, Calls(t)
    PROVE  ReportsInv'
<1>. DEFINE m == call[t].msg
<1>0. CallMoves(t) /\ UNCHANGED <<server, current, conn, key, cli, removed, reused>>
  BY CallEffect, Zenon DEF Calls, TypeOK, sockVars, histVars
<1>1. CASE queue' = queue
  <2>1. \A c \in Conns : \/ conn[c] \in {"none", "negotiate"}
                         \/ conn[c] \in Reported \cup {"gone"}
    BY Zenon DEF TypeOK, ConnStates, Reported
  <2>. QED
    BY <1>0, <1>1, <2>1, ReportsStay, Zenon DEF CallMoves
<1>2. ASSUME NEW b \in BOOLEAN, queue' = Append(queue, [msg |-> m, named |-> b])
      PROVE  ReportsInv'
  <2>1. /\ m.conn \in Conns /\ m.key = key[m.conn]
        /\ \/ m.cmd = "add" /\ conn[m.conn] = "report"
           \/ m.cmd = "remove" /\ conn[m.conn] = "removing"
    BY <1>0, WhoCalls, Zenon DEF CallMoves
  <2>2. /\ DOMAIN queue' = 1..(Len(queue) + 1) /\ queue'[Len(queue) + 1].msg = m
        /\ \A i \in DOMAIN queue : queue'[i] = queue[i] /\ i \in 1..Len(queue)
        /\ \A i \in DOMAIN queue' : i = Len(queue) + 1 \/ i \in DOMAIN queue
    BY <1>2, QueueTypes
  <2>3. \A i \in DOMAIN queue' :
          LET n == queue'[i].msg IN
          /\ n.key = key[n.conn]
          /\ conn[n.conn] \in Reported \cup {"gone"}
          /\ n.cmd = "remove" => conn[n.conn] \in {"removing", "gone"}
    BY <2>1, <2>2 DEF ReportsInv, Reported
  <2>4. ASSUME NEW i \in DOMAIN queue', NEW j \in DOMAIN queue', NEW c \in Conns,
               Report(i, "remove", c)', Report(j, "add", c)'
        PROVE  j < i
    <3>1. CASE i \in DOMAIN queue /\ j \in DOMAIN queue
      BY <2>2, <2>4, <3>1, Zenon DEF ReportsInv, Report
    <3>2. CASE i = Len(queue) + 1
      BY <2>2, <2>4, <3>2, QueueTypes DEF Report
    <3>3. CASE i \in DOMAIN queue /\ j = Len(queue) + 1
      BY <2>1, <2>2, <2>4, <3>3 DEF ReportsInv, Report
    <3>. QED
      BY <2>2, <3>1, <3>2, <3>3, Zenon
  <2>5. \A c \in removed : conn[c] \in {"removing", "gone"} /\ ~Queued("add", c)'
    BY <2>1, <2>2 DEF ReportsInv, Queued, Report
  <2>6. RegisteredWereEstablished' /\ RemovedStaysRemoved'
    BY <1>0, Zenon DEF CallMoves, ReportsInv, RegisteredWereEstablished, RemovedStaysRemoved
  <2>. QED
    BY <1>0, <2>3, <2>4, <2>5, <2>6, Zenon DEF ReportsInv
<1>. QED
  BY <1>0, <1>1, <1>2, Zenon DEF CallMoves

\* The connection manager handles a removal after the registration, and takes
\* out every entry of that connection.
LEMMA ReportsHandled ==
    ASSUME TypeOK, ReportsInv, Conmgr
    PROVE  ReportsInv'
<1>. DEFINE m == queue[1].msg
<1>0. ConmgrMoves
  BY ConmgrEffect, Zenon
<1>1. /\ 1 \in DOMAIN queue
      /\ \A i \in DOMAIN queue' : i + 1 \in DOMAIN queue /\ queue'[i] = queue[i + 1] /\ i + 1 > 1
      /\ DOMAIN queue' \subseteq Nat
  BY <1>0, QueueTypes DEF ConmgrMoves
<1>2. /\ m.conn \in Conns /\ m.cmd \in {"add", "remove"}
      /\ m.key = key[m.conn] /\ conn[m.conn] \in Reported \cup {"gone"}
      /\ m.cmd = "remove" => conn[m.conn] \in {"removing", "gone"}
      /\ m.cmd = "add" => m.conn \notin removed
  BY <1>1, QueueTypes, Zenon DEF ReportsInv, Queued, Report
<1>3. \A i \in DOMAIN queue' :
          LET n == queue'[i].msg IN
          /\ n.key = key[n.conn]
          /\ conn[n.conn] \in Reported \cup {"gone"}
          /\ n.cmd = "remove" => conn[n.conn] \in {"removing", "gone"}
  BY <1>1 DEF ReportsInv
<1>4. ASSUME NEW i \in DOMAIN queue', NEW j \in DOMAIN queue', NEW c \in Conns,
             Report(i, "remove", c)', Report(j, "add", c)'
      PROVE  j < i
  <2>1. j + 1 < i + 1
    BY <1>1, <1>4, Zenon DEF ReportsInv, Report
  <2>. QED
    BY <1>1, <2>1
<1>5. ASSUME NEW c \in removed' PROVE conn[c] \in {"removing", "gone"} /\ ~Queued("add", c)'
  <2>1. CASE c \in removed
    BY <1>1, <2>1 DEF ReportsInv, Queued, Report
  <2>2. CASE m.cmd = "remove" /\ c = m.conn
    <3>1. \A j \in DOMAIN queue' : ~Report(j + 1, "add", c)
      BY <1>1, <1>2, <2>2 DEF ReportsInv, Report
    <3>. QED
      BY <1>1, <1>2, <2>2, <3>1, Zenon DEF Queued, Report
  <2>. QED
    BY <1>0, <1>5, <2>1, <2>2, Zenon DEF ConmgrMoves
<1>6. RegisteredWereEstablished' /\ RemovedStaysRemoved'
  <2>1. CASE m.cmd = "add"
    BY <1>0, <1>2, <2>1 DEF ConmgrMoves, ReportsInv, RegisteredWereEstablished, RemovedStaysRemoved, Reported
  <2>2. CASE m.cmd = "remove"
    BY <1>0, <1>2, <2>2, Zenon DEF ConmgrMoves, ReportsInv, RegisteredWereEstablished, RemovedStaysRemoved
  <2>. QED
    BY <1>2, <2>1, <2>2, Zenon
<1>. QED
  BY <1>0, <1>3, <1>4, <1>5, <1>6, Zenon DEF ConmgrMoves, ReportsInv

\* The reports of every connection stay in order.
LEMMA ReportsKept ==
    ASSUME TypeOK, ControlInv, ReportsInv, Next
    PROVE  ReportsInv'
<1>0. conn \in [Conns -> ConnStates] /\ key \in [Conns -> Keys \cup {NoKey}]
  BY Zenon DEF TypeOK
<1>. USE <1>0 DEF ConnStates, Reported, mgrVars, histVars
<1>1. ASSUME NEW c \in Conns, NEW f \in Fds, Accept(c, f) PROVE ReportsInv'
  BY <1>1, ReportsStay, Zenon DEF Accept
<1>2. CASE EstablishFails
  BY <1>2, ReportsStay, Zenon DEF EstablishFails, ControlInv
<1>3. ASSUME NEW pid \in Pids, NEW f \in Fds, Establish(pid, f) PROVE ReportsInv'
  BY <1>3, ReportsStay, Zenon DEF Establish, ControlInv
<1>4. CASE StartForwarding
  BY <1>4, ReportsStay, Zenon DEF StartForwarding, ControlInv
<1>5. ASSUME NEW c \in Conns, StopForwarding(c) PROVE ReportsInv'
  BY <1>5, ReportsStay, Zenon DEF StopForwarding
<1>6. ASSUME NEW c \in Conns, ForwarderExits(c) PROVE ReportsInv'
  BY <1>6, ReportsStay, Zenon DEF ForwarderExits
<1>7. CASE ServerExits
  BY <1>7, ReportsStay, Zenon DEF ServerExits
<1>8. CASE Conmgr
  BY <1>8, ReportsHandled, Zenon
<1>9. ASSUME NEW t \in Threads, Calls(t) PROVE ReportsInv'
  BY <1>9, ReportsSent, Zenon
<1>. QED
  BY <1>1, <1>2, <1>3, <1>4, <1>5, <1>6, <1>7, <1>8, <1>9, Zenon DEF Next

\* A report that was sent waits at the connection manager or was handled.
Registered(c) == reused \/ Queued("add", c) \/ \E e \in registry : e[1] = c
Removed(c) == Queued("remove", c) \/ c \in removed

\* sendto() makes a report wait, and nothing else of a call changes what is
\* waiting.
LEMMA DeliveredSent ==
    ASSUME TypeOK, ControlInv, DeliveredInv, NEW t \in Threads, Calls(t)
    PROVE  DeliveredInv'
<1>0. CallMoves(t) /\ UNCHANGED <<server, current, conn, key, cli, removed, reused>>
  BY CallEffect, Zenon DEF Calls, TypeOK, sockVars, histVars
<1>. SUFFICES ASSUME ~failed' PROVE DeliveredInv'
  BY Zenon DEF DeliveredInv
<1>1. /\ ~failed /\ registry' = registry /\ call[t].phase # "idle" /\ call[t].phase \notin ErrorPath
      /\ \A u \in Threads \ {t} : call'[u] = call[u]
      /\ call'[t].phase \notin ErrorPath
  BY <1>0, Zenon DEF CallMoves, DeliveredInv, TypeOK, LibTypeOK
<1>2. \A cmd, c : Queued(cmd, c) => Queued(cmd, c)'
  <2>1. CASE queue' = queue
    BY <2>1, Zenon DEF Queued, Report
  <2>2. ASSUME NEW d, queue' = Append(queue, d) PROVE \A cmd, c : Queued(cmd, c) => Queued(cmd, c)'
    BY <2>2, QueueTypes DEF Queued, Report
  <2>. QED
    BY <1>0, <2>1, <2>2, Zenon DEF CallMoves
<1>3. ASSUME NEW cmd, NEW c, call[t].msg.cmd = cmd, call[t].msg.conn = c, call'[t].phase \in Sent
      PROVE  call[t].phase \in Sent \/ Queued(cmd, c)'
  <2>1. CASE call[t].phase \in Sent <=> call'[t].phase \in Sent
    BY <1>3, <2>1, Zenon
  <2>2. ASSUME NEW b \in BOOLEAN, queue' = Append(queue, [msg |-> call[t].msg, named |-> b])
        PROVE  Queued(cmd, c)'
    <3>1. Len(queue) + 1 \in DOMAIN queue' /\ queue'[Len(queue) + 1].msg = call[t].msg
      BY <2>2, QueueTypes
    <3>. QED
      BY <1>3, <3>1, Zenon DEF Queued, Report
  <2>. QED
    BY <1>0, <1>1, <2>1, <2>2, Zenon DEF CallMoves
<1>4. ASSUME NEW c \in Conns, conn[c] = "open" \/ (conn[c] = "report" /\ call'["socks"].phase \in Sent)
      PROVE  Registered(c)'
  <2>1. Registered(c) => Registered(c)'
    BY <1>0, <1>1, <1>2, Zenon DEF Registered
  <2>2. CASE t = "socks" /\ conn[c] = "report"
    <3>1. call[t].msg.cmd = "add" /\ call[t].msg.conn = c
      <4>1. call[t].msg.cmd = "add" /\ call[t].msg.conn = current
        BY <1>1, <2>2, WhoCalls, SocksAssumption, Zenon
      <4>. QED
        BY <2>2, <4>1, Zenon DEF ControlInv
    <3>2. CASE call[t].phase \in Sent
      BY <1>1, <2>1, <2>2, <3>2, Zenon DEF DeliveredInv, Registered
    <3>. QED
      BY <1>3, <1>4, <2>2, <3>1, <3>2, Zenon DEF Registered
  <2>3. CASE ~(t = "socks" /\ conn[c] = "report")
    BY <1>1, <1>4, <2>1, <2>3, SocksAssumption, Zenon DEF DeliveredInv, Registered
  <2>. QED
    BY <2>2, <2>3, Zenon
<1>5. ASSUME NEW c \in Conns, \/ conn[c] = "removing" /\ call'[c].phase \in Sent
                              \/ conn[c] = "gone" /\ key[c] # NoKey
      PROVE  Removed(c)'
  <2>1. Removed(c) => Removed(c)'
    BY <1>0, <1>1, <1>2, Zenon DEF Removed
  <2>2. CASE t = c /\ conn[c] = "removing"
    <3>1. call[t].msg.cmd = "remove" /\ call[t].msg.conn = c
      BY <1>1, <2>2, WhoCalls, SocksAssumption, Zenon
    <3>2. CASE call[t].phase \in Sent
      BY <1>1, <2>1, <2>2, <3>2, Zenon DEF DeliveredInv, Removed
    <3>. QED
      BY <1>3, <1>5, <2>2, <3>1, <3>2, Zenon DEF Removed
  <2>3. CASE ~(t = c /\ conn[c] = "removing")
    BY <1>1, <1>5, <2>1, <2>3, SocksAssumption, Zenon DEF DeliveredInv, Removed
  <2>. QED
    BY <2>2, <2>3, Zenon
<1>6. \A u \in Threads : call'[u].phase \notin ErrorPath
  BY <1>1, Zenon DEF DeliveredInv
<1>. QED
  BY <1>0, <1>4, <1>5, <1>6, Zenon DEF DeliveredInv, Registered, Removed

\* What the connection manager takes from its buffer it does to the table; a
\* removal takes out another's entry only if the key was used twice.
LEMMA DeliveredHandled ==
    ASSUME TypeOK, ReportsInv, DeliveredInv, Conmgr
    PROVE  DeliveredInv'
<1>. DEFINE m == queue[1].msg
<1>0. ConmgrMoves
  BY ConmgrEffect, Zenon
<1>. SUFFICES ASSUME ~failed' PROVE DeliveredInv'
  BY Zenon DEF DeliveredInv
<1>1. ~failed /\ UNCHANGED <<call, conn, key>>
  BY <1>0, Zenon DEF ConmgrMoves
<1>2. /\ 1 \in DOMAIN queue /\ m.cmd \in {"add", "remove"}
      /\ \A i \in DOMAIN queue : i = 1 \/ (i - 1 \in DOMAIN queue' /\ queue'[i - 1] = queue[i])
  BY <1>0, QueueTypes DEF ConmgrMoves
<1>3. \A cmd, c : Queued(cmd, c) => Queued(cmd, c)' \/ (m.cmd = cmd /\ m.conn = c)
  BY <1>2, Zenon DEF Queued, Report
<1>4. ASSUME NEW c \in Conns, conn[c] \notin {"removing", "gone"}, Registered(c)
      PROVE  Registered(c)'
  <2>. SUFFICES ASSUME ~reused' PROVE Queued("add", c)' \/ \E e \in registry' : e[1] = c
    BY Zenon DEF Registered
  <2>1. CASE m.cmd = "add"
    BY <1>0, <1>3, <1>4, <2>1, Zenon DEF ConmgrMoves, Registered
  <2>2. CASE m.cmd = "remove"
    <3>1. m.conn # c
      BY <1>2, <1>4, <2>2, Zenon DEF ReportsInv
    <3>. QED
      BY <1>0, <1>3, <1>4, <2>2, <3>1, Zenon DEF ConmgrMoves, Registered
  <2>. QED
    BY <1>2, <2>1, <2>2, Zenon
<1>5. ASSUME NEW c \in Conns, Removed(c) PROVE Removed(c)'
  BY <1>0, <1>3, <1>5, Zenon DEF ConmgrMoves, Removed
<1>. QED
  BY <1>1, <1>4, <1>5, Zenon DEF DeliveredInv, Registered, Removed

\* As long as no call fails, whatever was sent is waiting or was handled.
LEMMA DeliveredKept ==
    ASSUME TypeOK, ControlInv, ReportsInv, DeliveredInv, Next
    PROVE  DeliveredInv'
<1>0. /\ call \in [Threads -> Call] /\ conn \in [Conns -> ConnStates] /\ current \in Conns \cup {NoConn}
      /\ key \in [Conns -> Keys \cup {NoKey}]
      /\ "socks" \in Threads /\ "socks" \notin Conns /\ Conns \subseteq Threads
  BY SocksAssumption, Zenon DEF TypeOK, LibTypeOK
<1>1. ASSUME UNCHANGED <<queue, registry, failed, removed, reused>>,
             \A t \in Threads : call'[t].phase \notin ErrorPath \/ call'[t] = call[t],
             \A c \in Conns :
                /\ conn'[c] = "open" \/ (conn'[c] = "report" /\ call'["socks"].phase \in Sent)
                      => conn[c] = "open" \/ (conn[c] = "report" /\ call["socks"].phase \in Sent)
                /\ (conn'[c] = "removing" /\ call'[c].phase \in Sent) \/ (conn'[c] = "gone" /\ key'[c] # NoKey)
                      => (conn[c] = "removing" /\ call[c].phase \in Sent) \/ (conn[c] = "gone" /\ key[c] # NoKey)
      PROVE  DeliveredInv'
  BY <1>1, Zenon DEF DeliveredInv, Queued, Report
<1>. USE <1>0 DEF Sent, ErrorPath, NoCall, Begin, At, mgrVars, histVars
<1>2. ASSUME NEW c \in Conns, NEW f \in Fds, Accept(c, f) PROVE DeliveredInv'
  BY <1>1, <1>2, Zenon DEF Accept
<1>3. CASE EstablishFails
  <2>1. current \in Conns /\ conn[current] = "negotiate" /\ key[current] = NoKey
    BY <1>3, Zenon DEF EstablishFails, ControlInv
  <2>. QED
    BY <1>1, <1>3, <2>1, Zenon DEF EstablishFails
<1>4. ASSUME NEW pid \in Pids, NEW f \in Fds, Establish(pid, f) PROVE DeliveredInv'
  <2>1. current \in Conns /\ conn[current] = "negotiate"
        /\ \A c \in Conns : conn[c] # "report"
    BY <1>4, Zenon DEF Establish, ControlInv
  <2>. QED
    BY <1>1, <1>4, <2>1, Zenon DEF Establish
<1>5. CASE StartForwarding
  <2>1. current \in Conns /\ conn[current] = "report"
        /\ \A c \in Conns : conn[c] = "report" => c = current
    BY <1>5, Zenon DEF StartForwarding, ControlInv
  <2>. QED
    BY <1>1, <1>5, <2>1, Zenon DEF StartForwarding
<1>6. ASSUME NEW c \in Conns, StopForwarding(c) PROVE DeliveredInv'
  BY <1>1, <1>6, Zenon DEF StopForwarding
<1>7. ASSUME NEW c \in Conns, ForwarderExits(c) PROVE DeliveredInv'
  BY <1>1, <1>7, Zenon DEF ForwarderExits
<1>8. CASE ServerExits
  BY <1>1, <1>8, Zenon DEF ServerExits
<1>9. CASE Conmgr
  BY <1>9, DeliveredHandled, Zenon
<1>10. ASSUME NEW t \in Threads, Calls(t) PROVE DeliveredInv'
  BY <1>10, DeliveredSent, Zenon
<1>. QED
  BY <1>2, <1>3, <1>4, <1>5, <1>6, <1>7, <1>8, <1>9, <1>10, Zenon DEF Next

\* The operations of the server and of the forwarding threads open and close
\* descriptors of their own, never lib_sock.
LEMMA SocketStays ==
    ASSUME TypeOK, ControlInv, SocketInv, ~failed,
           \/ \E c \in Conns, f \in Fds : Accept(c, f)
           \/ EstablishFails
           \/ \E pid \in Pids, f \in Fds : Establish(pid, f)
           \/ StartForwarding
           \/ \E c \in Conns : StopForwarding(c) \/ ForwarderExits(c)
           \/ ServerExits
    PROVE  SocketInv'
<1>0. /\ call \in [Threads -> Call] /\ conn \in [Conns -> ConnStates] /\ current \in Conns \cup {NoConn}
      /\ key \in [Conns -> Keys \cup {NoKey}] /\ cli \in [Conns -> Fds \cup {NoFd}]
      /\ DOMAIN fds = Fds /\ lib_sock \in Fds \cup {Closed}
      /\ "socks" \in Threads /\ "socks" \notin Conns /\ Conns \subseteq Threads
  BY SocksAssumption, Zenon DEF TypeOK, LibTypeOK
<1>. DEFINE Cli(c) == conn[c] \in {"negotiate", "report", "open"}
            Rem(c) == conn[c] \in {"report", "open"}
            Own == \A c \in Conns : /\ Cli(c) => fds[cli[c]] = <<"cli", c>>
                                    /\ Rem(c) => fds[key[c][2]] = <<"rem", c>>
            Lib == lib_sock # Closed =>
                      \/ fds[lib_sock] = Free /\ server = "exit"
                      \/ \E s \in Socks : /\ fds[lib_sock] = LibFd(s)
                                          /\ s \in timed \/ call["socks"].phase \in {"bind", "option"}
            Phase == /\ lib_sock = Closed => /\ \A c \in Conns : ~Forwarding(c)
                                             /\ call["socks"].phase \in {"idle", "check", "socket"}
                     /\ call["socks"].phase = "socket" => lib_sock = Closed
                     /\ call["socks"].phase \in {"bind", "option"} => \A c \in Conns : ~Forwarding(c)
                     /\ \A c \in Conns : call[c].phase \notin {"socket", "bind", "option", "address"}
                     /\ \A t \in Threads : At(t, "wait") => ~call[t].patient
<1>1. Own /\ Lib /\ Phase
  BY Zenon DEF SocketInv
<1>2. ASSUME Own', Lib', Phase' PROVE SocketInv'
  BY <1>2, Zenon DEF SocketInv
<1>3. /\ \A c \in Conns : /\ Cli(c) => cli[c] \in Fds
                          /\ Rem(c) => key[c] \in Keys /\ key[c][2] \in Fds
      /\ \A c \in Conns : Rem(c) => Cli(c)
  BY Zenon DEF ControlInv, Reported, Keys
<1>. USE <1>0 DEF At, libVars
<1>4. ASSUME NEW c \in Conns, NEW f \in Fds, Accept(c, f) PROVE SocketInv'
  <2>1. Own'
    BY <1>1, <1>3, <1>4, FdFacts DEF Accept
  <2>2. Lib' /\ Phase'
    BY <1>1, <1>4, FdFacts, Zenon DEF Accept, Forwarding
  <2>. QED
    BY <1>2, <2>1, <2>2, Zenon
<1>5. CASE EstablishFails
  <2>0. current \in Conns /\ Cli(current)
    BY <1>5, Zenon DEF EstablishFails, ControlInv
  <2>1. Own'
    BY <1>1, <1>3, <1>5, <2>0, FdFacts DEF EstablishFails, CloseFds
  <2>2. lib_sock # Closed => fds'[lib_sock] = fds[lib_sock]
    BY <1>1, <1>5, <2>0, FdFacts DEF EstablishFails, CloseFds
  <2>3. Lib' /\ Phase'
    BY <1>1, <1>5, <2>2, Zenon DEF EstablishFails, Forwarding
  <2>. QED
    BY <1>2, <2>1, <2>3, Zenon
<1>6. ASSUME NEW pid \in Pids, NEW f \in Fds, Establish(pid, f) PROVE SocketInv'
  <2>0. current \in Conns /\ Cli(current) /\ call["socks"] = NoCall
    BY <1>6, Zenon DEF Establish, ControlInv
  <2>1. Own'
    BY <1>1, <1>3, <1>6, <2>0, FdFacts DEF Establish
  <2>2. /\ server = "negotiate" /\ fds[f] = Free /\ fds' = [fds EXCEPT ![f] = <<"rem", current>>]
        /\ UNCHANGED <<lib_sock, timed>> /\ conn' = [conn EXCEPT ![current] = "report"]
        /\ call' = [call EXCEPT !["socks"] = Begin("socks", AddMessage(current, <<pid, f>>))]
    BY <1>6, Zenon DEF Establish
  <2>3. lib_sock # Closed => fds[lib_sock] # Free
    BY <1>1, <2>2, FdFacts, Zenon
  <2>4. call'["socks"].phase = "check" /\ \A t \in Threads \ {"socks"} : call'[t] = call[t]
    BY <2>2, Zenon DEF Begin, NoCall
  <2>5. call["socks"].phase = "idle"
    BY <2>0 DEF NoCall
  <2>6. Lib'
    BY <1>1, <2>2, <2>3, <2>5, Zenon
  <2>7. Phase'
    BY <1>1, <2>2, <2>4, Zenon DEF Forwarding
  <2>. QED
    BY <1>2, <2>1, <2>6, <2>7, Zenon
<1>7. CASE StartForwarding
  BY <1>7, Zenon DEF StartForwarding, SocketInv, ControlInv, NoCall, Forwarding
<1>8. ASSUME NEW c \in Conns, StopForwarding(c) PROVE SocketInv'
  <2>0. Cli(c) /\ Rem(c)
    BY <1>8, Zenon DEF StopForwarding
  <2>1. Own'
    BY <1>1, <1>3, <1>8, <2>0, FdFacts DEF StopForwarding, CloseFds
  <2>2. lib_sock # Closed => fds'[lib_sock] = fds[lib_sock]
    BY <1>1, <1>8, <2>0, FdFacts DEF StopForwarding, CloseFds
  <2>3. Lib' /\ Phase'
    BY <1>1, <1>8, <2>2, Zenon DEF StopForwarding, Forwarding, Begin, NoCall
  <2>. QED
    BY <1>2, <2>1, <2>3, Zenon
<1>9. ASSUME NEW c \in Conns, ForwarderExits(c) PROVE SocketInv'
  BY <1>9, Zenon DEF ForwarderExits, SocketInv, NoCall, Forwarding
<1>10. CASE ServerExits
  BY <1>10, FdFacts DEF ServerExits, SocketInv, ControlInv, Reported, Forwarding
<1>. QED
  BY <1>4, <1>5, <1>6, <1>7, <1>8, <1>9, <1>10, Zenon

\* A call that does not fail opens lib_sock only when it is the first, made by
\* the server before any connection is forwarded, and sets its timeout before
\* the server goes on; so whoever waits on lib_sock waits with the timeout.
LEMMA SocketCalls ==
    ASSUME TypeOK, ControlInv, DeliveredInv, SocketInv, NEW t \in Threads, Calls(t), ~failed'
    PROVE  SocketInv'
<1>0. /\ call \in [Threads -> Call] /\ conn \in [Conns -> ConnStates]
      /\ DOMAIN fds = Fds /\ lib_sock \in Fds \cup {Closed}
      /\ "socks" \in Threads /\ "socks" \notin Conns /\ Conns \subseteq Threads
  BY SocksAssumption, Zenon DEF TypeOK, LibTypeOK
<1>1. /\ CallMoves(t) /\ CallStep(t) /\ UNCHANGED <<server, current, conn, key, cli>>
  BY CallEffect, Zenon DEF Calls, TypeOK, sockVars
<1>2. /\ ~failed /\ call[t].phase \notin ErrorPath
      /\ \A u \in Threads \ {t} : call'[u] = call[u]
  BY <1>0, <1>1, Zenon DEF CallMoves, DeliveredInv
<1>3. \/ t = "socks" /\ server = "call"
      \/ t \in Conns /\ Forwarding(t)
  BY <1>1, WhoCalls, Zenon DEF CallMoves, Forwarding
<1>4. call[t].phase \notin {"check", "socket"} => lib_sock # Closed
  BY <1>1, <1>2, <1>3, Zenon DEF SocketInv, CallMoves
<1>. DEFINE Harmless ==
              /\ UNCHANGED <<fds, lib_sock>> /\ timed \subseteq timed' /\ lib_sock # Closed
              /\ call'[t].phase # "socket" /\ (call'[t].phase = "wait" => ~call'[t].patient)
              /\ call'[t].phase \in {"bind", "option", "address"} => t = "socks"
              /\ call'[t].phase \in {"bind", "option"} => call[t].phase \in {"bind", "option"}
              /\ call[t].phase \in {"bind", "option"} =>
                   \/ call'[t].phase \in {"bind", "option"}
                   \/ \A s \in Socks : fds[lib_sock] = LibFd(s) => s \in timed'
<1>5. ASSUME Harmless PROVE SocketInv'
  <2>1. \A u \in Threads : u # t => call'[u] = call[u]
    BY <1>2, Zenon
  <2>2. \A c \in Conns : Forwarding(c)' <=> Forwarding(c)
    BY <1>1, Zenon DEF Forwarding
  <2>3. \/ fds[lib_sock] = Free /\ server = "exit"
        \/ \E s \in Socks : /\ fds[lib_sock] = LibFd(s)
                            /\ s \in timed' \/ call'["socks"].phase \in {"bind", "option"}
    BY <1>0, <1>2, <1>3, <1>5, <2>1, Zenon DEF SocketInv
  <2>4. call'["socks"].phase \in {"bind", "option"} => \A c \in Conns : ~Forwarding(c)
    BY <1>0, <1>2, <1>3, <1>5, <2>1, Zenon DEF SocketInv
  <2>5. call'["socks"].phase # "socket"
    BY <1>0, <1>2, <1>3, <1>5, <2>1, Zenon DEF SocketInv
  <2>6. \A c \in Conns : call'[c].phase \notin {"socket", "bind", "option", "address"}
    BY <1>0, <1>2, <1>3, <1>5, <2>1, Zenon DEF SocketInv
  <2>7. \A u \in Threads : call'[u].phase = "wait" => ~call'[u].patient
    BY <1>0, <1>2, <1>5, <2>1, Zenon DEF SocketInv, At
  <2>. QED
    BY <1>1, <1>2, <1>5, <2>2, <2>3, <2>4, <2>5, <2>6, <2>7, Zenon DEF SocketInv, At
<1>. USE <1>0, <1>2, <1>3 DEF At, libVars
<1>6. CASE Check(t)
  BY <1>1, <1>6 DEF Check, Goto, SocketInv, Forwarding
<1>7. ASSUME NEW f \in Fds, CreateSocket(t, f) PROVE SocketInv'
  <2>1. /\ t = "socks" /\ lib_sock = Closed /\ \A c \in Conns : ~Forwarding(c) /\ ~Forwarding(c)'
    BY <1>1, <1>7, Zenon DEF CreateSocket, SocketInv, Forwarding
  <2>2. call'[t].phase = "bind" /\ UNCHANGED timed /\ lib_sock' = f /\ fds[f] = Free
        /\ fds' = [fds EXCEPT ![f] = LibFd(made + 1)] /\ made + 1 \in Socks
    <3>1. /\ Goto(t, "bind") /\ UNCHANGED timed /\ lib_sock' = f /\ fds[f] = Free
          /\ fds' = [fds EXCEPT ![f] = LibFd(made + 1)] /\ made < MaxSocks
      BY <1>7, Zenon DEF CreateSocket
    <3>2. call'[t].phase = "bind"
      BY <3>1, Jump, Zenon DEF Phases
    <3>3. made + 1 \in Socks
      BY <3>1, LibSineAssumption DEF Socks, TypeOK, LibTypeOK
    <3>. QED
      BY <3>1, <3>2, <3>3, Zenon
  <2>3. \A c \in Conns : /\ conn[c] \in {"negotiate", "report", "open"} => fds'[cli[c]] = <<"cli", c>>
                         /\ conn[c] \in {"report", "open"} => fds'[key[c][2]] = <<"rem", c>>
    <3>1. \A c \in Conns : /\ conn[c] \in {"negotiate", "report", "open"} => cli[c] \in Fds
                           /\ conn[c] \in {"report", "open"} => key[c][2] \in Fds
      BY Zenon DEF ControlInv, Reported, Keys
    <3>2. \A x \in Fds : fds[x] # Free => fds'[x] = fds[x]
      BY <2>2, Zenon
    <3>3. \A c \in Conns : /\ conn[c] \in {"negotiate", "report", "open"} => fds[cli[c]] = <<"cli", c>>
                           /\ conn[c] \in {"report", "open"} => fds[key[c][2]] = <<"rem", c>>
      BY Zenon DEF SocketInv
    <3>. QED
      BY <3>1, <3>2, <3>3, FdFacts, Zenon
  <2>4. /\ \A c \in Conns : call'[c].phase \notin {"socket", "bind", "option", "address"}
        /\ \A u \in Threads : call'[u].phase = "wait" => ~call'[u].patient
    BY <2>1, <2>2, Zenon DEF SocketInv
  <2>5. lib_sock' # Closed /\ fds'[lib_sock'] = LibFd(made + 1)
    BY <2>2, FdsAssumption, Zenon
  <2>. QED
    BY <1>1, <2>1, <2>2, <2>3, <2>4, <2>5, Zenon DEF SocketInv
<1>8. CASE Bind(t)
  <2>1. call'[t].phase = "option" /\ call[t].phase = "bind" /\ UNCHANGED <<fds, lib_sock, timed>>
    BY <1>8, Jump, Zenon DEF Bind, Phases
  <2>2. t = "socks"
    BY <2>1, Zenon DEF SocketInv
  <2>3. Harmless
    BY <1>4, <2>1, <2>2, Zenon
  <2>. QED
    BY <1>5, <2>3, Zenon
<1>9. CASE SetTimeout(t)
  <2>1. /\ call'[t].phase = "address" /\ call[t].phase = "option" /\ UNCHANGED <<fds, lib_sock>>
        /\ timed' = IF IsLibSock THEN timed \cup {LibSock} ELSE timed
    BY <1>9, Jump, Zenon DEF SetTimeout, Phases
  <2>2. t = "socks" /\ lib_sock # Closed
    BY <1>4, <2>1, Zenon DEF SocketInv
  <2>3. \A s \in Socks : fds[lib_sock] = LibFd(s) => s \in timed'
    BY <2>1, <2>2, FdFacts DEF IsLibSock, LibSock
  <2>4. Harmless
    BY <2>1, <2>2, <2>3, Zenon
  <2>. QED
    BY <1>5, <2>4, Zenon
<1>10. CASE FillAddress(t) \/ Send(t)
  <2>1. /\ call'[t].phase \in {"send", "recv"} /\ call[t].phase \in {"address", "send"}
        /\ UNCHANGED <<fds, lib_sock, timed>>
    BY <1>10, Jump, Zenon DEF FillAddress, Send, Phases
  <2>2. Harmless
    BY <1>4, <2>1, Zenon
  <2>. QED
    BY <1>5, <2>2, Zenon
<1>11. CASE Receive(t)
  <2>1. /\ call[t].phase = "recv" /\ UNCHANGED <<fds, lib_sock, timed>> /\ IsLibSock
        /\ call'[t].phase = "wait" /\ call'[t].patient = (LibSock \notin timed)
    BY <1>11, Zenon DEF Receive, Call
  <2>2. LibSock \in timed
    BY <1>4, <2>1, FdFacts DEF SocketInv, IsLibSock, LibSock, Free
  <2>3. Harmless
    BY <1>4, <2>1, <2>2, Zenon
  <2>. QED
    BY <1>5, <2>3, Zenon
<1>12. CASE TakeAck(t)
  <2>1. /\ call'[t].phase = "done" /\ call[t].phase = "wait" /\ UNCHANGED <<fds, lib_sock, timed>>
    BY <1>12 DEF TakeAck, Call
  <2>2. Harmless
    BY <1>4, <2>1, Zenon
  <2>. QED
    BY <1>5, <2>2, Zenon
<1>13. CASE CreateFails(t) \/ ReceiveTimeout(t) \/ StrayReturns(t) \/ CloseLibSock(t) \/ ResetLibSock(t)
  BY <1>13, Zenon DEF CreateFails, ReceiveTimeout, StrayReturns, CloseLibSock, ResetLibSock, ErrorPath
<1>. QED
  BY <1>1, <1>6, <1>7, <1>8, <1>9, <1>10, <1>11, <1>12, <1>13, Zenon DEF CallStep

\* lib_sock is the server's, opened once and with its timeout, as long as no
\* call fails.
LEMMA SocketKept ==
    ASSUME TypeOK, ControlInv, DeliveredInv, SocketInv, Next
    PROVE  SocketInv'
<1>. SUFFICES ASSUME ~failed' PROVE SocketInv'
  BY Zenon DEF SocketInv
<1>1. ~failed
  <2>1. ASSUME NEW t \in Threads, Calls(t) PROVE ~failed
    BY <2>1, CallEffect, Zenon DEF Calls, TypeOK, CallMoves
  <2>2. CASE UNCHANGED failed
    BY <2>2, Zenon
  <2>. QED
    BY <2>1, <2>2, Zenon
    DEF Next, Accept, EstablishFails, Establish, StartForwarding, StopForwarding, ForwarderExits,
        ServerExits, Conmgr, ConmgrHandle
<1>2. CASE Conmgr
  <2>1. UNCHANGED <<fds, lib_sock, timed, call, server, conn, key, cli>>
    BY <1>2, ConmgrEffect, Zenon DEF ConmgrMoves, libVars
  <2>. QED
    BY <1>1, <2>1, Zenon DEF SocketInv, Forwarding, At
<1>3. ASSUME NEW t \in Threads, Calls(t) PROVE SocketInv'
  BY <1>3, SocketCalls, Zenon
<1>. QED
  BY <1>1, <1>2, <1>3, SocketStays, Zenon DEF Next

\* The inductive invariant holds in every reachable state.
THEOREM RegInvariant == Spec => []RegInv
<1>1. Init => RegInv
  <2>. SUFFICES ASSUME Init PROVE RegInv
    BY Zenon
  <2>. USE LibSineAssumption, SocksAssumption DEF Init, LibInit
  <2>1. TypeOK
    <3>1. NoCall \in Call
      BY Zenon DEF Call, Phases, NoCall
    <3>2. LibTypeOK
      <4>1. /\ acks \in [Socks -> Nat] /\ call \in [Threads -> Call] /\ made \in 0..MaxSocks
            /\ queue \in Seq(Datagram)
        BY <3>1
      <4>2. /\ DOMAIN fds = Fds /\ \A f \in Fds : fds[f] = Free
            /\ lib_sock = Closed /\ path = NoSock
            /\ bound = {} /\ timed = {} /\ registry = {} /\ addressed = FALSE /\ failed = FALSE
        BY Zenon
      <4>. QED
        BY <4>1, <4>2, Zenon DEF LibTypeOK
    <3>. QED
      BY <3>2, Zenon DEF TypeOK, ConnStates
  <2>2. ControlInv
    BY Zenon DEF ControlInv, Reported
  <2>3. ReportsInv
    BY DEF ReportsInv, Queued, RegisteredWereEstablished, RemovedStaysRemoved
  <2>4. DeliveredInv
    BY Zenon DEF DeliveredInv, NoCall, ErrorPath
  <2>5. SocketInv
    BY Zenon DEF SocketInv, Forwarding, At, NoCall
  <2>. QED
    BY <2>1, <2>2, <2>3, <2>4, <2>5, Zenon DEF RegInv
<1>2. RegInv /\ [Next]_vars => RegInv'
  <2>. SUFFICES ASSUME RegInv, [Next]_vars PROVE RegInv'
    BY Zenon
  <2>1. CASE Next
    BY <2>1, TypesKept, ControlKept, ReportsKept, DeliveredKept, SocketKept, Zenon DEF RegInv
  <2>2. CASE UNCHANGED vars
    <3>. USE <2>2 DEF vars, netVars, libVars, mgrVars, histVars
    <3>1. TypeOK' /\ ControlInv'
      BY Zenon DEF RegInv, TypeOK, LibTypeOK, ControlInv, RemoveMessage, AddMessage
    <3>2. ReportsInv' /\ DeliveredInv'
      BY DEF RegInv, ReportsInv, DeliveredInv, Queued, Report, RegisteredWereEstablished, RemovedStaysRemoved
    <3>3. SocketInv'
      BY Zenon DEF RegInv, SocketInv, Forwarding, At
    <3>. QED
      BY <3>1, <3>2, <3>3, Zenon DEF RegInv
  <2>. QED
    BY <2>1, <2>2, Zenon
<1>. QED
  BY <1>1, <1>2, PTL DEF Spec

\* Every variable keeps its type.
THEOREM RegTypes == Spec => []TypeOK
<1>1. RegInv => TypeOK
  BY Zenon DEF RegInv
<1>. QED
  BY <1>1, RegInvariant, PTL

\* Only connections that were established are registered, under their own key.
THEOREM OnlyEstablished == Spec => []RegisteredWereEstablished
<1>1. RegInv => RegisteredWereEstablished
  BY Zenon DEF RegInv, ReportsInv
<1>. QED
  BY <1>1, RegInvariant, PTL

\* A connection whose removal was handled never comes back into the table, in
\* whatever order the calls of the threads interleave or fail.
THEOREM RemovedForGood == Spec => []RemovedStaysRemoved
<1>1. RegInv => RemovedStaysRemoved
  BY Zenon DEF RegInv, ReportsInv
<1>. QED
  BY <1>1, RegInvariant, PTL

\* Between reports the table is the set of the open connections, unless a call
\* failed or a descriptor number came back before its removal was handled.
THEOREM RegistryExact == Spec => []QuietRegistryIsExact
<1>1. RegInv => QuietRegistryIsExact
  <2>. SUFFICES ASSUME RegInv, Quiet, ~failed, ~reused
                PROVE  { e[1] : e \in registry } = { c \in Conns : conn[c] = "open" }
    BY Zenon DEF QuietRegistryIsExact
  <2>1. queue = <<>> /\ DOMAIN queue = {} /\ \A t \in Threads : call[t].phase = "idle"
    BY DEF Quiet, At
  <2>2. /\ registry \subseteq Conns \X Keys /\ conn \in [Conns -> ConnStates]
        /\ "socks" \in Threads /\ Conns \subseteq Threads
    BY SocksAssumption, Zenon DEF RegInv, TypeOK, LibTypeOK
  <2>3. ASSUME NEW e \in registry PROVE e[1] \in Conns /\ conn[e[1]] = "open"
    <3>1. e[1] \in Conns /\ e[2] \in Keys /\ e[2] = key[e[1]] /\ conn[e[1]] \notin {"none", "negotiate"}
      BY <2>2, Zenon DEF RegInv, ReportsInv, RegisteredWereEstablished
    <3>2. conn[e[1]] \notin {"report", "removing"}
      BY <2>1, <2>2, <3>1, Zenon DEF RegInv, ControlInv
    <3>3. conn[e[1]] # "gone"
      BY <2>1, <3>1, FdFacts DEF RegInv, DeliveredInv, Queued, ReportsInv, RemovedStaysRemoved
    <3>. QED
      BY <2>2, <3>1, <3>2, <3>3, Zenon DEF ConnStates
  <2>4. ASSUME NEW c \in Conns, conn[c] = "open" PROVE \E e \in registry : e[1] = c
    BY <2>1, <2>4, Zenon DEF RegInv, DeliveredInv, Queued
  <2>. QED
    BY <2>3, <2>4, Zenon
<1>. QED
  BY <1>1, RegInvariant, PTL

\* Nobody waits on lib_sock without its timeout before a call has failed.
THEOREM WaitsAreTimed == Spec => []UntimedOnlyAfterFailure
<1>1. RegInv => UntimedOnlyAfterFailure
  BY Zenon DEF RegInv, SocketInv, UntimedOnlyAfterFailure
<1>. QED
  BY <1>1, RegInvariant, PTL
=============================================================================
