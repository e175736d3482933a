----------------------------- MODULE HipProofs ------------------------------
(***************************************************************************)
(* For any number of addresses, interfaces, associations, changes,         *)
(* commands and waiting notifications: my_addr_head is what the host has   *)
(* once the notifications are handled, an association keeps no source      *)
(* address the host has lost and switches to another when there is one,    *)
(* none lies at or above max_hip_assoc; and the listener of hip_sine.c     *)
(* loses neither a command nor a hand-over.                                *)
(***************************************************************************)
EXTENDS HipSine, HipListLemmas

-----------------------------------------------------------------------------
(***************************************************************************)
(* The inductive invariant of HipAddr.  Host and Daemon are its types,     *)
(* with each of my addresses in the list once; Daemon holds for any queue. *)
(***************************************************************************)
Host ==
    /\ kernel \subseteq Addrs /\ changes \in 0..MaxChanges
    /\ netlink \in Seq(Note)

Daemon ==
    /\ Lists(my_addr_head, MyAddrs)
    /\ need_select \in BOOLEAN
    /\ TableOK(table, max_hip_assoc)
    /\ switched \subseteq Slots /\ refused \subseteq Slots

QueueInv == Queue(netlink, MyAddrs, kernel)

SourceInv ==
    \A s \in Slots : table[s].state # "UNASSOCIATED" /\ s \notin switched \cup refused
       => Follows(table[s].addrs, MyAddrs)

\* The types, and the place of the associations.
LEMMA InvTypes == Host /\ Daemon => AddrTypeOK /\ LiveBelowMax
  BY Zenon DEF Host, Daemon, AddrTypeOK, LiveBelowMax, Note, Lists, TableOK, Assoc

\* An address is announced (handle_local_address_change(), add).
LEMMA NewAddrStep ==
    ASSUME Daemon, NEW a \in Addrs, HandleNewAddr(a), UNCHANGED max_hip_assoc
    PROVE  /\ Daemon' /\ MyAddrs' = MyAddrs \cup {a}
           /\ \A s \in Live : table'[s] = AssociationAddAddress(table[s], a)
           /\ \A s \in Slots : table'[s].state = table[s].state
<1>. DEFINE changed == [s \in Live |-> AssociationAddAddress(table[s], a)]
<1>1. \A s \in Live : s \in Slots /\ table[s] \in Assoc /\ table[s].addrs # <<>>
  BY LiveIsAll, Zenon DEF Daemon
<1>2. \A s \in Live : /\ changed[s] \in Assoc /\ changed[s].addrs # <<>>
                      /\ changed[s].state = table[s].state
  BY <1>1, AddEffect, Zenon
<1>3. table' = OnLive(changed)
  BY Zenon DEF HandleNewAddr
<1>4. \A s \in Live : changed[s] = AssociationAddAddress(table[s], a)
  BY Zenon
<1>. HIDE DEF changed
<1>5. /\ TableOK(table', max_hip_assoc) /\ \A s \in Live : table'[s] = changed[s]
      /\ \A s \in Slots : table'[s].state = table[s].state
  BY <1>2, <1>3, OnLiveKeeps, Zenon DEF Daemon
<1>6. Lists(my_addr_head', MyAddrs \cup {a})
  BY AddToMineFacts, Zenon DEF Daemon, HandleNewAddr
<1>7. MyAddrs' = MyAddrs \cup {a}
  BY <1>6, Zenon DEF Lists, MyAddrs
<1>8. need_select' \in BOOLEAN /\ switched' \subseteq Slots /\ refused' \subseteq Slots
  BY <1>1, Zenon DEF Daemon, HandleNewAddr
<1>9. Daemon'
  BY <1>5, <1>6, <1>7, <1>8, Zenon DEF Daemon
<1>. QED
  BY <1>4, <1>5, <1>7, <1>9, Zenon

\* An address is taken back (handle_local_address_change(), delete).
LEMMA DelAddrStep ==
    ASSUME Daemon, NEW x \in Addrs, HandleDelAddr(x), UNCHANGED max_hip_assoc
    PROVE  /\ Daemon' /\ MyAddrs' = MyAddrs \ {x}
           /\ \A s \in Live : table'[s] = AssociationDelAddress(table[s], x, my_addr_head')
           /\ \A s \in Slots : table'[s].state = table[s].state
<1>. DEFINE S == { i \in DOMAIN my_addr_head : my_addr_head[i].addr # x }
            left == Kept(my_addr_head, S)
            changed == [s \in Live |-> AssociationDelAddress(table[s], x, my_addr_head')]
<1>1. my_addr_head' = left \/ my_addr_head' = SelectPreferred(left)
  BY Zenon DEF HandleDelAddr
<1>2. /\ table' = OnLive(changed) /\ UNCHANGED need_select
      /\ switched' = switched \cup { s \in Live : Switches(s, x, table') }
      /\ refused' = refused \cup { s \in Live : Refuses(s, x) }
  BY Zenon DEF HandleDelAddr
<1>3. /\ DOMAIN my_addr_head = 1..Len(my_addr_head)
      /\ \A i \in 1..Len(my_addr_head) : my_addr_head[i].addr \in MyAddrs
      /\ \A a \in MyAddrs : \E i \in 1..Len(my_addr_head) : my_addr_head[i].addr = a
  BY ListsFacts, Zenon DEF Daemon
<1>4. S \subseteq 1..Len(my_addr_head) /\ { my_addr_head[i].addr : i \in S } = MyAddrs \ {x}
  BY <1>3, Zenon
<1>5. Lists(left, MyAddrs \ {x})
  <2>. HIDE DEF S
  <2>1. Lists(left, { my_addr_head[i].addr : i \in S })
    BY <1>4, KeptLists, Zenon DEF Daemon
  <2>. QED
    BY <2>1, <1>4, Zenon
<1>6. Lists(my_addr_head', MyAddrs \ {x})
  BY <1>1, <1>5, SelectFacts, Zenon
<1>7. MyAddrs' = MyAddrs \ {x} /\ my_addr_head' \in Seq(MyAddr)
  BY <1>6, Zenon DEF Lists, MyAddrs
<1>8. \A s \in Live : s \in Slots /\ table[s] \in Assoc /\ table[s].addrs # <<>>
  BY LiveIsAll, Zenon DEF Daemon
<1>9. ASSUME NEW s \in Live
      PROVE  changed[s] \in Assoc /\ changed[s].addrs # <<>> /\ changed[s].state = table[s].state
  <2>. DEFINE h == table[s]
              my == my_addr_head'
  <2>1. h \in Assoc /\ h.addrs # <<>> /\ my \in Seq(MyAddr) /\ changed[s] = AssociationDelAddress(h, x, my)
    BY <1>7, <1>8, Zenon
  <2>. HIDE DEF h, my, changed
  <2>2. LET R == AssociationDelAddress(h, x, my) IN R \in Assoc /\ R.state = h.state /\ R.addrs # <<>>
    BY <2>1, DelEffect
  <2>. QED
    BY <2>1, <2>2, Zenon DEF h
<1>10. \A s \in Live : changed[s] = AssociationDelAddress(table[s], x, my_addr_head')
  BY Zenon
<1>. HIDE DEF changed
<1>11. /\ TableOK(table', max_hip_assoc) /\ \A s \in Live : table'[s] = changed[s]
       /\ \A s \in Slots : table'[s].state = table[s].state
  BY <1>2, <1>9, OnLiveKeeps, Zenon DEF Daemon
<1>12. need_select' \in BOOLEAN /\ switched' \subseteq Slots /\ refused' \subseteq Slots
  BY <1>2, <1>8, Zenon DEF Daemon
<1>13. Daemon'
  BY <1>6, <1>7, <1>11, <1>12, Zenon DEF Daemon
<1>. QED
  BY <1>7, <1>10, <1>11, <1>13, Zenon

\* An interface is gone (hip_handle_netlink(), RTM_DELLINK).
LEMMA DelLinkStep ==
    ASSUME Daemon, NEW i, HandleDelLink(i), UNCHANGED max_hip_assoc
    PROVE  Daemon' /\ MyAddrs' = { a \in MyAddrs : IfOf[a] # i }
<1>. DEFINE S == { k \in DOMAIN my_addr_head : IfOf[my_addr_head[k].addr] # i }
            M == { a \in MyAddrs : IfOf[a] # i }
<1>1. /\ DOMAIN my_addr_head = 1..Len(my_addr_head)
      /\ \A k \in 1..Len(my_addr_head) : my_addr_head[k].addr \in MyAddrs
      /\ \A a \in MyAddrs : \E k \in 1..Len(my_addr_head) : my_addr_head[k].addr = a
  BY ListsFacts, Zenon DEF Daemon
<1>2. S \subseteq 1..Len(my_addr_head) /\ { my_addr_head[k].addr : k \in S } = M
  BY <1>1, Zenon
<1>3. my_addr_head' = Kept(my_addr_head, S)
  BY Zenon DEF HandleDelLink
<1>. HIDE DEF S, M
<1>4. Lists(my_addr_head', { my_addr_head[k].addr : k \in S })
  BY <1>2, <1>3, KeptLists, Zenon DEF Daemon
<1>5. Lists(my_addr_head', M)
  BY <1>2, <1>4, Zenon
<1>6. MyAddrs' = M
  BY <1>5, Zenon DEF Lists, MyAddrs
<1>7. Daemon'
  BY <1>5, <1>6, Zenon DEF Daemon, HandleDelLink
<1>. QED
  BY <1>6, <1>7, Zenon DEF M

\* A selection in an idle cycle changes no address (select_preferred_address()).
LEMMA SelectStep ==
    ASSUME Daemon, SelectWhenIdle
    PROVE  Daemon' /\ MyAddrs' = MyAddrs
<1>1. Lists(my_addr_head', MyAddrs)
  BY SelectFacts, Zenon DEF SelectWhenIdle, Daemon
<1>2. MyAddrs' = MyAddrs
  BY <1>1, Zenon DEF Lists, MyAddrs
<1>. QED
  BY <1>1, <1>2, Zenon DEF SelectWhenIdle, Daemon

\* An association is made with my addresses (init_hip_assoc()).
LEMMA InitStep ==
    ASSUME Daemon, NEW n, NEW a, NEW state \in {"EXCHANGE", "CLOSING"}, NEW tbl, NEW max,
           TableOK(tbl, max), InitHipAssoc(n, a, state, tbl, max)
    PROVE  /\ Daemon' /\ MyAddrs' = MyAddrs
           /\ n \in Slots /\ Follows(table'[n].addrs, MyAddrs)
           /\ \A s \in Slots : s # n => table'[s] = tbl[s]
<1>. DEFINE h == [state |-> state, addrs |-> InitialAddrs(a)]
<1>1. /\ n \in Slots /\ a \in MyAddrs /\ table' = [tbl EXCEPT ![n] = h]
      /\ max_hip_assoc' = (IF n > max THEN n ELSE max)
      /\ switched' = switched \ {n} /\ refused' = refused \ {n}
      /\ UNCHANGED <<my_addr_head, need_select>>
  BY Zenon DEF InitHipAssoc
<1>2. /\ InitialAddrs(a) \in Seq(Entry) /\ InitialAddrs(a) # <<>>
      /\ Follows(InitialAddrs(a), MyAddrs)
  BY <1>1, InitialFacts, Zenon DEF Daemon
<1>3. h \in Assoc /\ h.addrs = InitialAddrs(a) /\ h.state # "UNASSOCIATED"
  BY <1>2, Zenon DEF Assoc, States
<1>. HIDE DEF h
<1>4. TableOK(table', max_hip_assoc')
  BY <1>1, <1>2, <1>3, PutKeeps, Zenon
<1>5. table'[n] = h /\ \A s \in Slots : s # n => table'[s] = tbl[s]
  BY <1>1, Zenon DEF TableOK
<1>6. MyAddrs' = MyAddrs
  BY <1>1, Zenon DEF MyAddrs
<1>7. Daemon'
  BY <1>1, <1>4, <1>6, Zenon DEF Daemon
<1>. QED
  BY <1>1, <1>2, <1>3, <1>5, <1>6, <1>7, Zenon

\* The state of an association changes, its addresses do not.
LEMMA StateStep ==
    ASSUME Daemon, NEW s \in Slots, Establish(s) \/ Close(s)
    PROVE  /\ Daemon' /\ MyAddrs' = MyAddrs
           /\ table[s].state # "UNASSOCIATED"
           /\ table'[s].addrs = table[s].addrs
           /\ \A t \in Slots : t # s => table'[t] = table[t]
<1>. DEFINE state == IF Establish(s) THEN "ESTABLISHED" ELSE "CLOSING"
            h == [table[s] EXCEPT !.state = state]
<1>1. /\ table[s].state # "UNASSOCIATED" /\ table' = [table EXCEPT ![s] = h]
      /\ UNCHANGED <<my_addr_head, need_select, max_hip_assoc, switched, refused>>
  <2>1. CASE Establish(s)
    BY <2>1, Zenon DEF Establish
  <2>2. CASE ~Establish(s) /\ Close(s)
    BY <2>2, Zenon DEF Close
  <2>. QED
    BY <2>1, <2>2, Zenon
<1>2. table \in [Slots -> Assoc] /\ table[s] \in Assoc /\ table[s].addrs # <<>>
  BY <1>1, Zenon DEF Daemon, TableOK
<1>3. state \in States /\ state # "UNASSOCIATED"
  BY Zenon DEF States
<1>. HIDE DEF state
<1>4. h \in Assoc /\ h.state # "UNASSOCIATED" /\ h.addrs = table[s].addrs
  BY <1>2, <1>3, Zenon DEF Assoc
<1>. HIDE DEF h
<1>5. TableOK([table EXCEPT ![s] = h], IF s > max_hip_assoc THEN s ELSE max_hip_assoc)
  BY <1>2, <1>4, PutKeeps, Zenon DEF Daemon
<1>6. (IF s > max_hip_assoc THEN s ELSE max_hip_assoc) = max_hip_assoc
  BY <1>1, Zenon DEF Daemon, TableOK
<1>7. TableOK(table', max_hip_assoc')
  BY <1>1, <1>5, <1>6, Zenon
<1>8. table'[s] = h /\ \A t \in Slots : t # s => table'[t] = table[t]
  BY <1>1, <1>2, Zenon
<1>9. MyAddrs' = MyAddrs
  BY <1>1, Zenon DEF MyAddrs
<1>10. Daemon'
  BY <1>1, <1>7, <1>9, Zenon DEF Daemon
<1>. QED
  BY <1>1, <1>4, <1>8, <1>9, <1>10, Zenon

\* The steps of the main loop that read no message.
LEMMA OwnSteps ==
    ASSUME Daemon, Main, ~HandleNetlink
    PROVE  Daemon' /\ MyAddrs' = MyAddrs /\ UNCHANGED <<kernel, changes, netlink>>
<1>1. CASE SelectWhenIdle
  BY <1>1, SelectStep, Zenon DEF SelectWhenIdle
<1>2. ASSUME NEW a \in Addrs, StartBaseExchange(a)
      PROVE  Daemon' /\ MyAddrs' = MyAddrs /\ UNCHANGED <<kernel, changes, netlink>>
  <2>1. TableOK(table, max_hip_assoc)
    BY Zenon DEF Daemon
  <2>. QED
    BY <1>2, <2>1, InitStep, Zenon DEF StartBaseExchange, InitHipAssoc
<1>3. ASSUME NEW s \in Slots, NEW a \in Addrs, RestartBaseExchange(s, a)
      PROVE  Daemon' /\ MyAddrs' = MyAddrs /\ UNCHANGED <<kernel, changes, netlink>>
  <2>1. table[s].state # "UNASSOCIATED"
    BY <1>3, Zenon DEF RestartBaseExchange
  <2>2. TableOK(Freed(s), MaxWithout(s))
    BY <2>1, FreedKeeps, Zenon DEF Daemon
  <2>. QED
    BY <1>3, <2>2, InitStep, Zenon DEF RestartBaseExchange, InitHipAssoc
<1>4. ASSUME NEW s \in Slots, Establish(s) \/ Close(s)
      PROVE  Daemon' /\ MyAddrs' = MyAddrs /\ UNCHANGED <<kernel, changes, netlink>>
  BY <1>4, StateStep, Zenon DEF Establish, Close
<1>5. ASSUME NEW s \in Slots, FreeHipAssoc(s)
      PROVE  Daemon' /\ MyAddrs' = MyAddrs /\ UNCHANGED <<kernel, changes, netlink>>
  <2>1. /\ table' = Freed(s) /\ max_hip_assoc' = MaxWithout(s) /\ table[s].state # "UNASSOCIATED"
        /\ UNCHANGED <<kernel, changes, netlink, my_addr_head, need_select, switched, refused>>
    BY <1>5, Zenon DEF FreeHipAssoc
  <2>2. TableOK(table', max_hip_assoc') /\ MyAddrs' = MyAddrs
    BY <2>1, FreedKeeps, Zenon DEF Daemon, MyAddrs
  <2>. QED
    BY <2>1, <2>2, Zenon DEF Daemon
<1>. QED
  BY <1>1, <1>2, <1>3, <1>4, <1>5, Zenon DEF Main

\* What the head of the queue is about.
LEMMA HeadFacts ==
    ASSUME NEW nl \in Seq(Note), nl # <<>>
    PROVE  /\ Head(nl) = nl[1] /\ nl[1] \in Note /\ 1 \in 1..Len(nl)
           /\ Tail(nl) \in Seq(Note)
           /\ nl[1].type \in {"NEWADDR", "DELADDR"} => nl[1].of \in Addrs
<1>1. Head(nl) = nl[1] /\ nl[1] \in Note /\ 1 \in 1..Len(nl) /\ Tail(nl) \in Seq(Note)
  OBVIOUS
<1>. QED
  BY <1>1, Zenon DEF Note, NoteAddr, NoteLink, Dump

\* hip_handle_netlink() keeps the types, whatever waits at the socket, and
\* follows an announcement.
LEMMA NetlinkStep ==
    ASSUME Host, Daemon, HandleNetlink
    PROVE  /\ Host' /\ Daemon'
           /\ netlink # <<>> /\ netlink' = Tail(netlink) /\ UNCHANGED <<kernel, changes>>
           /\ LET m == netlink[1] IN
              \/ m.type = "NEWADDR" /\ MyAddrs' = MyAddrs \cup {m.of}
              \/ m.type = "DELADDR" /\ MyAddrs' = MyAddrs \ {m.of}
              \/ m.type = "DELLINK" /\ MyAddrs' = { a \in MyAddrs : IfOf[a] # m.of }
              \/ m.type \in {"LINKS", "DONE"} /\ MyAddrs' = MyAddrs
<1>. DEFINE m == netlink[1]
<1>1. /\ netlink # <<>> /\ netlink' = Tail(netlink) /\ UNCHANGED <<kernel, changes, max_hip_assoc>>
      /\ \/ Head(netlink).type = "NEWADDR" /\ HandleNewAddr(Head(netlink).of)
         \/ Head(netlink).type = "DELADDR" /\ HandleDelAddr(Head(netlink).of)
         \/ Head(netlink).type = "DELLINK" /\ HandleDelLink(Head(netlink).of)
         \/ /\ Head(netlink).type \in {"LINKS", "DONE"}
            /\ UNCHANGED <<my_addr_head, need_select, table, switched, refused>>
  BY Zenon DEF HandleNetlink
<1>2. /\ Head(netlink) = m /\ Tail(netlink) \in Seq(Note)
      /\ m.type \in {"NEWADDR", "DELADDR"} => m.of \in Addrs
  BY <1>1, HeadFacts, Zenon DEF Host
<1>. HIDE DEF m
<1>3. Host'
  BY <1>1, <1>2, Zenon DEF Host
<1>4. CASE m.type = "NEWADDR" /\ HandleNewAddr(m.of)
  BY <1>1, <1>2, <1>3, <1>4, NewAddrStep, Zenon DEF m
<1>5. CASE m.type = "DELADDR" /\ HandleDelAddr(m.of)
  BY <1>1, <1>2, <1>3, <1>5, DelAddrStep, Zenon DEF m
<1>6. CASE m.type = "DELLINK" /\ HandleDelLink(m.of)
  BY <1>1, <1>2, <1>3, <1>6, DelLinkStep, Zenon DEF m
<1>7. CASE m.type \in {"LINKS", "DONE"} /\ UNCHANGED <<my_addr_head, need_select, table, switched, refused>>
  <2>1. MyAddrs' = MyAddrs /\ Daemon'
    BY <1>1, <1>7, Zenon DEF Daemon, MyAddrs
  <2>. QED
    BY <2>1, <1>1, <1>3, <1>7, Zenon DEF m
<1>. QED
  BY <1>1, <1>2, <1>4, <1>5, <1>6, <1>7, Zenon

\* The queue goes on to lead to what the host has.  A DELLINK takes no address
\* away: those of its interface were deleted before.
LEMMA NetlinkQueue ==
    ASSUME Host, Daemon, QueueInv, HandleNetlink
    PROVE  QueueInv' /\ (netlink[1].type = "DELLINK" => MyAddrs' = MyAddrs)
<1>. DEFINE m == netlink[1]
<1>1. /\ netlink # <<>> /\ netlink' = Tail(netlink) /\ kernel' = kernel
      /\ \/ m.type = "NEWADDR" /\ MyAddrs' = MyAddrs \cup {m.of}
         \/ m.type = "DELADDR" /\ MyAddrs' = MyAddrs \ {m.of}
         \/ m.type = "DELLINK" /\ MyAddrs' = { a \in MyAddrs : IfOf[a] # m.of }
         \/ m.type \in {"LINKS", "DONE"} /\ MyAddrs' = MyAddrs
  BY NetlinkStep, Zenon
<1>2. netlink \in Seq(Note) /\ 1 \in 1..Len(netlink) /\ \A q \in 1..Len(netlink) : q = 1 \/ 1 < q
  BY <1>1 DEF Host
<1>3. MyAddrs \subseteq Addrs
  BY ListsFacts, Zenon DEF Daemon
<1>. HIDE DEF m
<1>4. ASSUME m.type = "DELLINK" PROVE MyAddrs' = MyAddrs
  <2>1. ASSUME NEW a \in MyAddrs, IfOf[a] = m.of PROVE FALSE
    <3>1. Unlinks(netlink[1], a) /\ ~Of(netlink[1], a)
      BY <1>4, <2>1, Zenon DEF Unlinks, Of, m
    <3>2. a \notin kernel /\ \A q \in 1..Len(netlink) : ~Of(netlink[q], a)
      BY <3>1, <1>2, <1>3, Zenon DEF QueueInv, Queue
    <3>. QED
      BY <3>2, <1>3, Zenon DEF QueueInv, Queue
  <2>. QED
    BY <2>1, <1>1, <1>4, Zenon
<1>5. ASSUME NEW a \in Addrs, ~Of(m, a) PROVE a \in MyAddrs <=> a \in MyAddrs'
  <2>1. CASE m.type \in {"NEWADDR", "DELADDR"}
    BY <2>1, <1>1, <1>5, Zenon DEF Of
  <2>2. CASE m.type \notin {"NEWADDR", "DELADDR"}
    BY <2>2, <1>1, <1>4, Zenon
  <2>. QED
    BY <2>1, <2>2, Zenon
<1>6. \A a \in Addrs : Of(m, a) => (m.type = "NEWADDR" <=> a \in MyAddrs')
  BY <1>1, Zenon DEF Of
<1>7. Queue(Tail(netlink), MyAddrs', kernel)
  BY <1>1, <1>2, <1>5, <1>6, QueueTail, Zenon DEF QueueInv, m
<1>. QED
  BY <1>1, <1>4, <1>7, Zenon DEF QueueInv, m

\* The kernel announces what it changes.
LEMMA KernelStep ==
    ASSUME Host, Daemon, Kernel
    PROVE  Host' /\ Daemon' /\ MyAddrs' = MyAddrs /\ (QueueInv => QueueInv')
<1>1. UNCHANGED daemonVars /\ Daemon' /\ MyAddrs' = MyAddrs
  <2>1. UNCHANGED daemonVars
    BY Zenon DEF Kernel, KernelAdd, KernelDel, KernelUnplug, daemonVars
  <2>. QED
    BY <2>1, Zenon DEF daemonVars, Daemon, MyAddrs
<1>2. netlink \in Seq(Note) /\ changes \in 0..MaxChanges /\ kernel \subseteq Addrs
  BY Zenon DEF Host
<1>3. ASSUME NEW m \in Note, Announce(<<m>>)
      PROVE  netlink' = Append(netlink, m) /\ netlink' \in Seq(Note) /\ changes' \in 0..MaxChanges
  <2>1. netlink' = netlink \o <<m>> /\ changes' = changes + 1 /\ changes < MaxChanges
    BY <1>3, Zenon DEF Announce
  <2>2. netlink \o <<m>> = Append(netlink, m) /\ Append(netlink, m) \in Seq(Note)
    BY <1>2
  <2>. QED
    BY <2>1, <2>2, <1>2, HipAddrAssumption
<1>4. ASSUME NEW a \in Addrs, KernelAdd(a) PROVE Host' /\ (QueueInv => QueueInv')
  <2>. DEFINE m == [type |-> "NEWADDR", of |-> a]
  <2>1. m \in Note /\ \A b \in Addrs : ~Unlinks(m, b) /\ (Of(m, b) <=> b = a) /\ m.type = "NEWADDR"
    BY Zenon DEF Note, NoteAddr, Unlinks, Of
  <2>2. kernel' = kernel \cup {a} /\ Announce(<<m>>)
    BY <1>4, Zenon DEF KernelAdd
  <2>3. \A p \in 1..Len(netlink) : ~Unlinks(netlink[p], a)
    <3>1. ASSUME NEW e \in Note, Unlinks(e, a) PROVE e = [type |-> "DELLINK", of |-> IfOf[a]]
      BY <3>1, Zenon DEF Note, NoteAddr, NoteLink, Dump, Unlinks
    <3>2. \A p \in 1..Len(netlink) : netlink[p] \in Note /\ netlink[p] # [type |-> "DELLINK", of |-> IfOf[a]]
      BY <1>2, <1>4 DEF KernelAdd
    <3>. QED
      BY <3>1, <3>2, Zenon
  <2>. HIDE DEF m
  <2>4. netlink' = Append(netlink, m) /\ Host'
    BY <1>2, <1>3, <2>1, <2>2, Zenon DEF Host
  <2>5. ASSUME QueueInv PROVE Queue(Append(netlink, m), MyAddrs, kernel')
    BY <2>5, <1>2, <2>1, <2>2, <2>3, QueueAppend, Zenon DEF QueueInv
  <2>. QED
    BY <2>4, <2>5, <1>1, Zenon DEF QueueInv
<1>5. ASSUME NEW a \in Addrs, KernelDel(a) PROVE Host' /\ (QueueInv => QueueInv')
  <2>. DEFINE m == [type |-> "DELADDR", of |-> a]
  <2>1. m \in Note /\ \A b \in Addrs : ~Unlinks(m, b) /\ (Of(m, b) <=> b = a) /\ m.type # "NEWADDR"
    BY Zenon DEF Note, NoteAddr, Unlinks, Of
  <2>2. kernel' = kernel \ {a} /\ Announce(<<m>>) /\ a \in kernel
    BY <1>5, Zenon DEF KernelDel
  <2>3. ASSUME QueueInv, NEW p \in 1..Len(netlink) PROVE ~Unlinks(netlink[p], a)
    BY <2>2, <2>3, Zenon DEF QueueInv, Queue
  <2>. HIDE DEF m
  <2>4. netlink' = Append(netlink, m) /\ Host'
    BY <1>2, <1>3, <2>1, <2>2, Zenon DEF Host
  <2>5. ASSUME QueueInv PROVE Queue(Append(netlink, m), MyAddrs, kernel')
    BY <2>5, <1>2, <2>1, <2>2, <2>3, QueueAppend, Zenon DEF QueueInv
  <2>. QED
    BY <2>4, <2>5, <1>1, Zenon DEF QueueInv
<1>6. ASSUME NEW i \in Ifaces, KernelUnplug(i) PROVE Host' /\ (QueueInv => QueueInv')
  <2>. DEFINE m == [type |-> "DELLINK", of |-> i]
  <2>1. m \in Note /\ \A b \in Addrs : ~Of(m, b) /\ (Unlinks(m, b) => IfOf[b] = i)
    BY Zenon DEF Note, NoteLink, Unlinks, Of
  <2>2. kernel' = kernel /\ Announce(<<m>>) /\ \A a \in kernel : IfOf[a] # i
    BY <1>6, Zenon DEF KernelUnplug
  <2>. HIDE DEF m
  <2>3. netlink' = Append(netlink, m) /\ Host'
    BY <1>2, <1>3, <2>1, <2>2, Zenon DEF Host
  <2>4. ASSUME QueueInv PROVE Queue(Append(netlink, m), MyAddrs, kernel')
    BY <2>4, <1>2, <2>1, <2>2, QueueAppend, Zenon DEF QueueInv
  <2>. QED
    BY <2>3, <2>4, <1>1, Zenon DEF QueueInv
<1>. QED
  BY <1>1, <1>4, <1>5, <1>6, Zenon DEF Kernel

-----------------------------------------------------------------------------
(***************************************************************************)
(* The lists of the associations follow my addresses.                      *)
(***************************************************************************)
\* An announced address reaches every association that keeps its family and
\* whose readdressing is not refused (association_add_address()).
LEMMA NewAddrSource ==
    ASSUME Daemon, SourceInv, NEW a \in Addrs, HandleNewAddr(a), UNCHANGED max_hip_assoc
    PROVE  SourceInv'
<1>1. /\ MyAddrs' = MyAddrs \cup {a}
      /\ \A s \in Live : table'[s] = AssociationAddAddress(table[s], a)
      /\ \A s \in Slots : table'[s].state = table[s].state
  BY NewAddrStep, Zenon
<1>2. /\ Live = { s \in Slots : table[s].state # "UNASSOCIATED" }
      /\ \A s \in Live : table[s] \in Assoc /\ table[s].addrs # <<>>
  BY LiveIsAll, Zenon DEF Daemon
<1>3. ASSUME NEW s \in Slots, table'[s].state # "UNASSOCIATED", s \notin switched' \cup refused'
      PROVE  Follows(table'[s].addrs, MyAddrs')
  <2>1. s \in Live /\ table'[s] = AssociationAddAddress(table[s], a)
    BY <1>1, <1>2, <1>3, Zenon
  <2>2. s \notin switched \cup refused
    BY <1>3, Zenon DEF HandleNewAddr
  <2>3. FamilyOf[table'[s].addrs[1].addr] = FamilyOf[table[s].addrs[1].addr]
    BY <2>1, <1>3, Zenon DEF HandleNewAddr
  <2>4. ~ /\ table[s].addrs[1].status = "DELETED" /\ table[s].addrs[1].addr # a
          /\ table[s].state # "ESTABLISHED"
    BY <2>1, <1>3, Zenon DEF HandleNewAddr
  <2>5. Follows(table[s].addrs, MyAddrs)
    BY <2>2, <1>1, <1>3, Zenon DEF SourceInv
  <2>6. Follows(AssociationAddAddress(table[s], a).addrs, MyAddrs \cup {a})
    BY <2>1, <2>3, <2>4, <2>5, <1>2, AddFollows, Zenon
  <2>. QED
    BY <2>1, <2>6, <1>1, Zenon
<1>. QED
  BY <1>3, Zenon DEF SourceInv

\* A deleted address leaves every association that keeps its family and whose
\* readdressing is not refused (association_del_address()).
LEMMA DelAddrSource ==
    ASSUME Daemon, SourceInv, NEW x \in Addrs, HandleDelAddr(x), UNCHANGED max_hip_assoc
    PROVE  SourceInv'
<1>1. /\ MyAddrs' = MyAddrs \ {x} /\ Daemon'
      /\ \A s \in Live : table'[s] = AssociationDelAddress(table[s], x, my_addr_head')
      /\ \A s \in Slots : table'[s].state = table[s].state
  BY DelAddrStep, Zenon
<1>2. /\ Live = { s \in Slots : table[s].state # "UNASSOCIATED" }
      /\ \A s \in Live : table[s] \in Assoc /\ table[s].addrs # <<>>
  BY LiveIsAll, Zenon DEF Daemon
<1>3. my_addr_head' \in Seq(MyAddr) /\ AddrsOf(my_addr_head') = MyAddrs \ {x}
  BY <1>1, Zenon DEF Daemon, Lists
<1>4. /\ switched' = switched \cup { s \in Live : Switches(s, x, table') }
      /\ refused' = refused \cup { s \in Live : Refuses(s, x) }
  BY Zenon DEF HandleDelAddr
<1>5. ASSUME NEW s \in Slots, table'[s].state # "UNASSOCIATED", s \notin switched' \cup refused'
      PROVE  Follows(table'[s].addrs, MyAddrs')
  <2>1. s \in Live /\ table'[s] = AssociationDelAddress(table[s], x, my_addr_head')
    BY <1>1, <1>2, <1>5, Zenon
  <2>2. ~Switches(s, x, table') /\ ~Refuses(s, x) /\ s \notin switched \cup refused
    BY <2>1, <1>4, <1>5, Zenon
  <2>3. Follows(table[s].addrs, MyAddrs)
    BY <2>2, <1>1, <1>5, Zenon DEF SourceInv
  <2>4. ASSUME table[s].addrs[1].addr = x PROVE Position(table[s], x) = 1
    <3>1. table[s] \in Assoc /\ table[s].addrs # <<>>
      BY <2>1, <1>2, Zenon
    <3>2. LET l == table[s].addrs
              k == Position(table[s], x) IN
          /\ k = 0 => \A i \in 1..Len(l) : l[i].addr # x
          /\ k # 0 => k \in 1..Len(l) /\ \A i \in 1..(k - 1) : l[i].addr # x
      BY <3>1, MarkedFacts, Zenon
    <3>. QED
      BY <3>1, <3>2, <2>4 DEF Assoc
  <2>5. table[s].addrs[1].addr = x =>
           /\ table[s].state = "ESTABLISHED"
           /\ FamilyOf[AssociationDelAddress(table[s], x, my_addr_head').addrs[1].addr] = FamilyOf[x]
    BY <2>1, <2>2, <2>4, Zenon DEF Switches, Refuses
  <2>6. Follows(AssociationDelAddress(table[s], x, my_addr_head').addrs, MyAddrs \ {x})
    BY <2>1, <2>3, <2>5, <1>2, <1>3, DelFollows, Zenon
  <2>. QED
    BY <2>1, <2>6, <1>1, Zenon
<1>. QED
  BY <1>5, Zenon DEF SourceInv

\* The main loop.
LEMMA MainSource ==
    ASSUME Host, Daemon, QueueInv, SourceInv, Main
    PROVE  SourceInv'
<1>1. CASE HandleNetlink
  <2>. DEFINE m == netlink[1]
  <2>1. /\ netlink # <<>> /\ UNCHANGED max_hip_assoc
        /\ \/ Head(netlink).type = "NEWADDR" /\ HandleNewAddr(Head(netlink).of)
           \/ Head(netlink).type = "DELADDR" /\ HandleDelAddr(Head(netlink).of)
           \/ Head(netlink).type = "DELLINK" /\ HandleDelLink(Head(netlink).of)
           \/ /\ Head(netlink).type \in {"LINKS", "DONE"}
              /\ UNCHANGED <<my_addr_head, table, switched, refused>>
    BY <1>1, Zenon DEF HandleNetlink
  <2>2. Head(netlink) = m /\ (m.type \in {"NEWADDR", "DELADDR"} => m.of \in Addrs)
    BY <2>1, HeadFacts, Zenon DEF Host
  <2>. HIDE DEF m
  <2>3. CASE m.type = "NEWADDR" /\ HandleNewAddr(m.of)
    BY <2>1, <2>2, <2>3, NewAddrSource, Zenon
  <2>4. CASE m.type = "DELADDR" /\ HandleDelAddr(m.of)
    BY <2>1, <2>2, <2>4, DelAddrSource, Zenon
  <2>5. CASE m.type = "DELLINK" /\ HandleDelLink(m.of)
    <3>1. MyAddrs' = MyAddrs
      BY <2>5, <1>1, NetlinkQueue, Zenon DEF m
    <3>. QED
      BY <3>1, <2>5, Zenon DEF HandleDelLink, SourceInv
  <2>6. CASE UNCHANGED <<my_addr_head, table, switched, refused>>
    BY <2>6, Zenon DEF SourceInv, MyAddrs
  <2>. QED
    BY <2>1, <2>2, <2>3, <2>4, <2>5, <2>6, Zenon
<1>2. CASE SelectWhenIdle
  <2>1. MyAddrs' = MyAddrs
    BY <1>2, SelectStep, Zenon
  <2>. QED
    BY <2>1, <1>2, Zenon DEF SelectWhenIdle, SourceInv
<1>3. ASSUME NEW a \in Addrs, StartBaseExchange(a) PROVE SourceInv'
  <2>. DEFINE n == NewSlot(table, max_hip_assoc)
  <2>1. InitHipAssoc(n, a, "EXCHANGE", table, max_hip_assoc) /\ TableOK(table, max_hip_assoc)
    BY <1>3, Zenon DEF StartBaseExchange, Daemon
  <2>. HIDE DEF n
  <2>2. /\ MyAddrs' = MyAddrs /\ Follows(table'[n].addrs, MyAddrs)
        /\ \A s \in Slots : s # n => table'[s] = table[s]
    <3>1. "EXCHANGE" \in {"EXCHANGE", "CLOSING"}
      BY Zenon
    <3>2. Daemon
      BY Zenon
    <3>. QED
      BY ONLY <2>1, <3>1, <3>2, InitStep
  <2>3. switched' = switched \ {n} /\ refused' = refused \ {n}
    BY <2>1, Zenon DEF InitHipAssoc
  <2>4. ASSUME NEW t \in Slots, table'[t].state # "UNASSOCIATED", t \notin switched' \cup refused', t # n
        PROVE  Follows(table'[t].addrs, MyAddrs)
    <3>1. t \notin switched \cup refused /\ table'[t] = table[t]
      BY <2>2, <2>3, <2>4, Zenon
    <3>. QED
      BY <3>1, <2>4, Zenon DEF SourceInv
  <2>. QED
    BY <2>2, <2>4, Zenon DEF SourceInv
<1>4. ASSUME NEW s \in Slots, NEW a \in Addrs, RestartBaseExchange(s, a) PROVE SourceInv'
  <2>. DEFINE tbl == Freed(s)
              max == MaxWithout(s)
              n == NewSlot(tbl, max)
  <2>1. InitHipAssoc(n, a, "CLOSING", tbl, max) /\ table[s].state # "UNASSOCIATED"
    BY <1>4, Zenon DEF RestartBaseExchange
  <2>2. /\ TableOK(tbl, max) /\ tbl[s].state = "UNASSOCIATED"
        /\ \A t \in Slots : t # s => tbl[t] = table[t]
    BY <2>1, FreedKeeps, Zenon DEF Daemon
  <2>. HIDE DEF n, tbl, max
  <2>3. /\ MyAddrs' = MyAddrs /\ Follows(table'[n].addrs, MyAddrs)
        /\ \A t \in Slots : t # n => table'[t] = tbl[t]
    <3>1. "CLOSING" \in {"EXCHANGE", "CLOSING"}
      BY Zenon
    <3>2. TableOK(tbl, max) /\ InitHipAssoc(n, a, "CLOSING", tbl, max)
      BY <2>1, <2>2, Zenon
    <3>. QED
      BY <3>1, <3>2, InitStep
  <2>4. switched' = switched \ {n} /\ refused' = refused \ {n}
    BY <2>1, Zenon DEF InitHipAssoc
  <2>5. ASSUME NEW t \in Slots, table'[t].state # "UNASSOCIATED", t \notin switched' \cup refused', t # n
        PROVE  Follows(table'[t].addrs, MyAddrs)
    <3>1. t \notin switched \cup refused /\ table'[t] = table[t]
      BY <2>2, <2>3, <2>4, <2>5, Zenon
    <3>. QED
      BY <3>1, <2>5, Zenon DEF SourceInv
  <2>. QED
    BY <2>3, <2>5, Zenon DEF SourceInv
<1>5. ASSUME NEW s \in Slots, Establish(s) \/ Close(s) PROVE SourceInv'
  <2>1. /\ MyAddrs' = MyAddrs /\ table[s].state # "UNASSOCIATED" /\ table'[s].addrs = table[s].addrs
        /\ \A t \in Slots : t # s => table'[t] = table[t]
    BY <1>5, StateStep, Zenon
  <2>2. UNCHANGED <<switched, refused>>
    BY <1>5, Zenon DEF Establish, Close
  <2>. QED
    BY <2>1, <2>2, Zenon DEF SourceInv
<1>6. ASSUME NEW s \in Slots, FreeHipAssoc(s) PROVE SourceInv'
  <2>1. /\ table' = Freed(s) /\ table[s].state # "UNASSOCIATED"
        /\ UNCHANGED <<my_addr_head, switched, refused>>
    BY <1>6, Zenon DEF FreeHipAssoc
  <2>2. table'[s].state = "UNASSOCIATED" /\ \A t \in Slots : t # s => table'[t] = table[t]
    BY <2>1, FreedKeeps, Zenon DEF Daemon
  <2>. QED
    BY <2>1, <2>2, Zenon DEF SourceInv, MyAddrs
<1>. QED
  BY <1>1, <1>2, <1>3, <1>4, <1>5, <1>6, Zenon DEF Main

-----------------------------------------------------------------------------
(***************************************************************************)
(* What holds of the daemon without the listener.                          *)
(***************************************************************************)
AddrInv == Host /\ Daemon /\ QueueInv /\ SourceInv

\* The daemon starts without addresses and without associations.
LEMMA AddrStarts == AddrInit => AddrInv
<1>. SUFFICES ASSUME AddrInit PROVE AddrInv
  BY Zenon
<1>1. /\ kernel = {} /\ changes = 0 /\ netlink = <<>> /\ my_addr_head = <<>> /\ need_select = FALSE
      /\ max_hip_assoc = 0 /\ switched = {} /\ refused = {}
      /\ table = [s \in Slots |-> Unassociated]
  BY Zenon DEF AddrInit
<1>2. Unassociated \in Assoc /\ Unassociated.state = "UNASSOCIATED" /\ Unassociated.addrs = <<>>
  BY DEF Unassociated, Assoc, States
<1>3. 0 \in 0..MaxChanges /\ 0 \in 0..MaxAssocs /\ <<>> \in Seq(Note) /\ <<>> \in Seq(MyAddr)
  BY HipAddrAssumption
<1>4. AddrsOf(<<>>) = {} /\ Distinct(<<>>)
  BY DEF AddrsOf, Distinct
<1>5. Host
  BY <1>1, <1>3, Zenon DEF Host
<1>6. TableOK(table, max_hip_assoc) /\ \A s \in Slots : table[s].state = "UNASSOCIATED"
  BY <1>1, <1>2, <1>3, Zenon DEF TableOK
<1>7. MyAddrs = {}
  BY <1>1, <1>4, Zenon DEF MyAddrs
<1>8. Daemon
  BY <1>1, <1>3, <1>4, <1>6, <1>7, Zenon DEF Daemon, Lists
<1>9. 1..Len(netlink) = {}
  BY <1>1
<1>10. QueueInv
  BY <1>1, <1>7, <1>9, Zenon DEF QueueInv, Queue
<1>. QED
  BY <1>5, <1>6, <1>8, <1>10, Zenon DEF AddrInv, SourceInv

\* One step of the kernel or of the main loop.
LEMMA AddrKeeps == AddrInv /\ [AddrNext]_addrVars => AddrInv'
<1>. SUFFICES ASSUME AddrInv, [AddrNext]_addrVars PROVE AddrInv'
  BY Zenon
<1>. USE DEF AddrInv
<1>1. CASE Kernel
  <2>1. Host' /\ Daemon' /\ MyAddrs' = MyAddrs /\ QueueInv'
    BY <1>1, KernelStep, Zenon
  <2>2. UNCHANGED <<table, switched, refused>>
    BY <1>1, Zenon DEF Kernel, KernelAdd, KernelDel, KernelUnplug, daemonVars
  <2>. QED
    BY <2>1, <2>2, Zenon DEF SourceInv
<1>2. CASE Main
  <2>1. SourceInv'
    BY <1>2, MainSource, Zenon
  <2>2. CASE HandleNetlink
    BY <2>1, <2>2, NetlinkStep, NetlinkQueue, Zenon
  <2>3. CASE ~HandleNetlink
    <3>1. Daemon' /\ MyAddrs' = MyAddrs /\ UNCHANGED <<kernel, changes, netlink>>
      BY <1>2, <2>3, OwnSteps, Zenon
    <3>. QED
      BY <2>1, <3>1, Zenon DEF Host, QueueInv
  <2>. QED
    BY <2>2, <2>3, Zenon
<1>3. CASE UNCHANGED addrVars
  <2>1. /\ UNCHANGED <<kernel, changes, netlink, my_addr_head, need_select, table, max_hip_assoc>>
        /\ UNCHANGED <<switched, refused>>
    BY <1>3, Zenon DEF addrVars
  <2>. QED
    BY <2>1, Zenon DEF Host, Daemon, QueueInv, SourceInv, MyAddrs
<1>. QED
  BY <1>1, <1>2, <1>3, Zenon DEF AddrNext

\* With no notification waiting, the list is the host's addresses.
LEMMA QuietList ==
    ASSUME Host, Daemon, QueueInv, netlink = <<>>
    PROVE  MyAddrs = kernel /\ Len(my_addr_head) = Cardinality(kernel)
<1>1. 1..Len(netlink) = {}
  OBVIOUS
<1>2. \A a \in Addrs : a \in MyAddrs <=> a \in kernel
  BY <1>1, Zenon DEF QueueInv, Queue
<1>3. MyAddrs \subseteq Addrs /\ kernel \subseteq Addrs /\ Len(my_addr_head) = Cardinality(MyAddrs)
  BY ListsFacts, Zenon DEF Host, Daemon
<1>4. MyAddrs = kernel
  BY <1>2, <1>3, Zenon
<1>. QED
  BY <1>3, <1>4, Zenon

\* The invariant, for any addresses, interfaces, families of the peers, number
\* of associations and bounds.
THEOREM AddrInvariant == AddrSpec => []AddrInv
  BY AddrStarts, AddrKeeps, PTL DEF AddrSpec

\* The types of the daemon's addresses and associations: an association has an
\* address list as long as it exists.
THEOREM AddrTypes == AddrSpec => []AddrTypeOK
<1>1. AddrInv => AddrTypeOK
  BY InvTypes, Zenon DEF AddrInv
<1>. QED
  BY <1>1, AddrInvariant, PTL

\* Every association lies below max_hip_assoc (init_hip_assoc(),
\* free_hip_assoc()).
THEOREM AssociationsBelowMax == AddrSpec => []LiveBelowMax
<1>1. AddrInv => LiveBelowMax
  BY InvTypes, Zenon DEF AddrInv
<1>. QED
  BY <1>1, AddrInvariant, PTL

\* Once the notifications are handled my_addr_head is what the host has, each
\* address once (hip_handle_netlink()).
THEOREM ListIsCurrent == AddrSpec => []MyAddrsAreCurrent
<1>1. AddrInv => MyAddrsAreCurrent
  BY QuietList, Zenon DEF AddrInv, MyAddrsAreCurrent
<1>. QED
  BY <1>1, AddrInvariant, PTL

\* An association whose family never changed and that was refused no
\* readdressing has no source the host has lost (association_del_address()).
THEOREM NoLostSource == AddrSpec => []SourceIsMine
<1>1. AddrInv => SourceIsMine
  <2>. SUFFICES ASSUME AddrInv, netlink = <<>>, NEW s \in Live \ (switched \cup refused),
                       table[s].addrs[1].status # "DELETED"
                PROVE  table[s].addrs[1].addr \in kernel
    BY Zenon DEF SourceIsMine
  <2>. USE DEF AddrInv
  <2>1. s \in Slots /\ table[s].state # "UNASSOCIATED" /\ table[s] \in Assoc /\ table[s].addrs # <<>>
    BY LiveIsAll, Zenon DEF Daemon
  <2>2. 1 \in 1..Len(table[s].addrs)
    BY <2>1 DEF Assoc
  <2>3. Follows(table[s].addrs, MyAddrs) /\ MyAddrs = kernel
    BY <2>1, QuietList, Zenon DEF SourceInv
  <2>. QED
    BY <2>2, <2>3, Zenon DEF Follows
<1>. QED
  BY <1>1, AddrInvariant, PTL

\* Such an association, when established, is without a source only while the
\* host has no address of its family: "switch to another address if possible".
THEOREM SourceIfPossible == AddrSpec => []SwitchesIfPossible
<1>1. AddrInv => SwitchesIfPossible
  <2>. SUFFICES ASSUME AddrInv, netlink = <<>>, NEW s \in Live \ (switched \cup refused),
                       table[s].addrs[1].status = "DELETED"
                PROVE  \A a \in kernel : FamilyOf[a] # FamilyOf[table[s].addrs[1].addr]
    BY Zenon DEF SwitchesIfPossible
  <2>. USE DEF AddrInv
  <2>1. s \in Slots /\ table[s].state # "UNASSOCIATED"
    BY LiveIsAll, Zenon DEF Daemon
  <2>2. Follows(table[s].addrs, MyAddrs) /\ MyAddrs = kernel
    BY <2>1, QuietList, Zenon DEF SourceInv
  <2>. QED
    BY <2>2, Zenon DEF Follows
<1>. QED
  BY <1>1, AddrInvariant, PTL

-----------------------------------------------------------------------------
(***************************************************************************)
(* The daemon with the listener.  Until the listener has read a            *)
(* notification the queue leads to what the host has; and of the commands, *)
(* the last one waiting is the last one sent, or the one the preferred     *)
(* interface comes from.                                                   *)
(***************************************************************************)
SineTypes ==
    /\ sent \in 0..MaxCommands /\ commands \in Seq(Ifaces)
    /\ listener \in {"select", "index", "found", "done", "missed"}
    /\ hip_preferred_ifname \in Ifaces \cup {NoIface}
    /\ l_new \in BOOLEAN /\ prefer_changed \in BOOLEAN /\ fault \in BOOLEAN
    /\ last \in Ifaces \cup {NoIface} /\ served \in Ifaces \cup {NoIface}
    /\ swallowed \in BOOLEAN

CommandInv ==
    /\ commands # <<>> => last = commands[Len(commands)]
    /\ commands = <<>> => hip_preferred_ifname \in {last, NoIface}

SineInv ==
    /\ Host /\ Daemon /\ SineTypes
    /\ ~swallowed => QueueInv
    /\ CommandInv
    /\ HandoverNotLost

\* These parts of the invariant are about the daemon's variables only.
LEMMA AddrParts ==
    ASSUME UNCHANGED addrVars
    PROVE  (Host => Host') /\ (Daemon => Daemon') /\ (QueueInv => QueueInv')
<1>1. /\ UNCHANGED <<kernel, changes, netlink, my_addr_head, need_select, table, max_hip_assoc>>
      /\ UNCHANGED <<switched, refused>>
  BY Zenon DEF addrVars
<1>. QED
  BY <1>1, Zenon DEF Host, Daemon, QueueInv, MyAddrs

\* These parts are about the listener's variables only.
LEMMA SineParts ==
    ASSUME UNCHANGED sineVars
    PROVE  /\ SineTypes => SineTypes'
           /\ CommandInv => CommandInv'
           /\ HandoverNotLost => HandoverNotLost'
           /\ swallowed' = swallowed
<1>1. /\ UNCHANGED <<sent, commands, listener, hip_preferred_ifname, l_new, prefer_changed, fault>>
      /\ UNCHANGED <<last, served, swallowed>>
  BY Zenon DEF sineVars
<1>. QED
  BY <1>1, Zenon DEF SineTypes, CommandInv, HandoverNotLost

\* A change of the queue alone touches no address the daemon knows.
LEMMA QueueParts ==
    ASSUME UNCHANGED daemonVars
    PROVE  (Daemon => Daemon') /\ MyAddrs' = MyAddrs
<1>1. UNCHANGED <<my_addr_head, need_select, table, max_hip_assoc, switched, refused>>
  BY Zenon DEF daemonVars
<1>. QED
  BY <1>1, Zenon DEF Daemon, MyAddrs

\* A step of the daemon's main loop or of the kernel.
LEMMA DaemonKeeps ==
    ASSUME SineInv, Kernel \/ Main, UNCHANGED sineVars
    PROVE  SineInv'
<1>. USE DEF SineInv
<1>1. SineTypes' /\ CommandInv' /\ HandoverNotLost' /\ swallowed' = swallowed
  BY SineParts, Zenon
<1>2. CASE Kernel
  <2>1. Host' /\ Daemon' /\ (QueueInv => QueueInv')
    BY <1>2, KernelStep, Zenon
  <2>. QED
    BY <2>1, <1>1, Zenon
<1>3. CASE Main /\ HandleNetlink
  <2>1. Host' /\ Daemon'
    BY <1>3, NetlinkStep, Zenon
  <2>2. QueueInv => QueueInv'
    BY <1>3, NetlinkQueue, Zenon
  <2>. QED
    BY <2>1, <2>2, <1>1, Zenon
<1>4. CASE Main /\ ~HandleNetlink
  <2>1. Daemon' /\ MyAddrs' = MyAddrs /\ UNCHANGED <<kernel, changes, netlink>>
    BY <1>4, OwnSteps, Zenon
  <2>2. Host' /\ (QueueInv => QueueInv')
    BY <2>1, Zenon DEF Host, QueueInv
  <2>. QED
    BY <2>1, <2>2, <1>1, Zenon
<1>. QED
  BY <1>2, <1>3, <1>4, Zenon

\* The last of the commands stays the last when the first is read.
LEMMA LastStays ==
    ASSUME NEW T, NEW c \in Seq(T), c # <<>>
    PROVE  /\ Head(c) \in T /\ Tail(c) \in Seq(T)
           /\ Tail(c) = <<>> => Head(c) = c[Len(c)]
           /\ Tail(c) # <<>> => Tail(c)[Len(Tail(c))] = c[Len(c)]
<1>1. /\ Head(c) = c[1] /\ Head(c) \in T /\ Tail(c) \in Seq(T) /\ Len(c) \in Nat \ {0}
      /\ Len(Tail(c)) = Len(c) - 1 /\ \A k \in 1..Len(Tail(c)) : Tail(c)[k] = c[k + 1]
  OBVIOUS
<1>. DEFINE t == Tail(c)
<1>. HIDE DEF t
<1>2. ASSUME t = <<>> PROVE Len(c) = 1
  BY <1>1, <1>2 DEF t
<1>3. ASSUME t # <<>> PROVE t[Len(t)] = c[Len(c)]
  <2>1. Len(t) \in 1..Len(t) /\ Len(t) + 1 = Len(c)
    BY <1>1, <1>3 DEF t
  <2>. QED
    BY <2>1, <1>1, Zenon DEF t
<1>. QED
  BY <1>1, <1>2, <1>3, Zenon DEF t

\* A command is sent (send_hipd()).
LEMMA SendKeeps ==
    ASSUME SineInv, NEW i \in Ifaces, SendHipd(i)
    PROVE  SineInv'
<1>. USE DEF SineInv
<1>1. /\ sent < MaxCommands /\ sent' = sent + 1 /\ commands' = Append(commands, i) /\ last' = i
      /\ UNCHANGED addrVars
      /\ UNCHANGED <<listener, hip_preferred_ifname, l_new, prefer_changed, fault, served, swallowed>>
  BY Zenon DEF SendHipd
<1>2. Host' /\ Daemon' /\ (QueueInv => QueueInv')
  BY <1>1, AddrParts, Zenon
<1>3. commands' \in Seq(Ifaces) /\ commands' # <<>> /\ commands'[Len(commands')] = i
  BY <1>1 DEF SineTypes
<1>4. sent' \in 0..MaxCommands
  BY <1>1, HipSineAssumption DEF SineTypes
<1>5. SineTypes'
  BY <1>1, <1>3, <1>4, Zenon DEF SineTypes
<1>6. CommandInv' /\ HandoverNotLost'
  BY <1>1, <1>3, Zenon DEF CommandInv, HandoverNotLost
<1>. QED
  BY <1>1, <1>2, <1>5, <1>6, Zenon

\* The interface of the command is preferred already (hip_pref_listener()).
LEMMA AlreadyKeeps ==
    ASSUME SineInv, AlreadyOn
    PROVE  SineInv'
<1>. USE DEF SineInv
<1>1. /\ commands # <<>> /\ Head(commands) = hip_preferred_ifname /\ commands' = Tail(commands)
      /\ prefer_changed' = TRUE /\ UNCHANGED addrVars
      /\ UNCHANGED <<sent, listener, hip_preferred_ifname, l_new, fault, last, served, swallowed>>
  BY Zenon DEF AlreadyOn
<1>2. Host' /\ Daemon' /\ (QueueInv => QueueInv')
  BY <1>1, AddrParts, Zenon
<1>3. /\ commands' \in Seq(Ifaces)
      /\ commands' = <<>> => Head(commands) = commands[Len(commands)]
      /\ commands' # <<>> => commands'[Len(commands')] = commands[Len(commands)]
  BY <1>1, LastStays, Zenon DEF SineTypes
<1>4. SineTypes'
  BY <1>1, <1>3, Zenon DEF SineTypes
<1>5. CommandInv'
  BY <1>1, <1>3, Zenon DEF CommandInv
<1>6. HandoverNotLost'
  BY <1>1, Zenon DEF HandoverNotLost
<1>. QED
  BY <1>1, <1>2, <1>4, <1>5, <1>6, Zenon

\* Another interface: the answer of the kernel is no announcement.
LEMMA AskKeeps ==
    ASSUME SineInv, AskIndex
    PROVE  SineInv'
<1>. USE DEF SineInv
<1>. DEFINE links == [type |-> "LINKS", of |-> "dump"]
            done == [type |-> "DONE", of |-> "dump"]
<1>1. /\ commands # <<>> /\ commands' = Tail(commands)
      /\ hip_preferred_ifname' = Head(commands) /\ listener' = "index"
      /\ netlink' = netlink \o <<links, done>>
      /\ UNCHANGED daemonVars
      /\ UNCHANGED <<kernel, changes, sent, l_new, prefer_changed, fault, last, served, swallowed>>
  BY Zenon DEF AskIndex
<1>2. /\ links \in Note /\ done \in Note
      /\ \A a \in Addrs : ~Of(links, a) /\ ~Of(done, a) /\ ~Unlinks(links, a) /\ ~Unlinks(done, a)
  BY Zenon DEF Note, Dump, Of, Unlinks
<1>. HIDE DEF links, done
<1>3. netlink \in Seq(Note)
  BY Zenon DEF Host
<1>4. netlink' = Append(Append(netlink, links), done)
  BY <1>1, <1>2, <1>3
<1>5. netlink' \in Seq(Note)
  BY <1>2, <1>3, <1>4
<1>6. Host' /\ Daemon' /\ MyAddrs' = MyAddrs
  BY <1>1, <1>5, QueueParts, Zenon DEF Host
<1>7. ASSUME QueueInv PROVE QueueInv'
  <2>1. Append(netlink, links) \in Seq(Note) /\ Queue(Append(netlink, links), MyAddrs, kernel)
    BY <1>2, <1>3, <1>7, QueueAppend, Zenon DEF QueueInv
  <2>2. Queue(Append(Append(netlink, links), done), MyAddrs, kernel)
    BY <2>1, <1>2, QueueAppend, Zenon
  <2>. QED
    BY <2>2, <1>1, <1>4, <1>6, Zenon DEF QueueInv
<1>8. /\ Head(commands) \in Ifaces /\ commands' \in Seq(Ifaces)
      /\ commands' = <<>> => Head(commands) = commands[Len(commands)]
      /\ commands' # <<>> => commands'[Len(commands')] = commands[Len(commands)]
  BY <1>1, LastStays, Zenon DEF SineTypes
<1>9. SineTypes'
  BY <1>1, <1>8, Zenon DEF SineTypes
<1>10. CommandInv'
  BY <1>1, <1>8, Zenon DEF CommandInv
<1>11. HandoverNotLost'
  BY <1>1, Zenon DEF HandoverNotLost
<1>. QED
  BY <1>1, <1>6, <1>7, <1>9, <1>10, <1>11, Zenon

\* The listener reads the netlink socket (devname_to_index()): what it takes
\* away of the queue, as long as it has read no notification, is no announcement.
LEMMA ReadKeeps ==
    ASSUME SineInv, ReadNetlink
    PROVE  SineInv'
<1>. USE DEF SineInv
<1>. DEFINE m == netlink[1]
<1>1. /\ listener \in {"index", "found"} /\ netlink # <<>> /\ netlink' = Tail(netlink)
      /\ UNCHANGED daemonVars
      /\ UNCHANGED <<kernel, changes, sent, commands, hip_preferred_ifname, l_new, prefer_changed>>
      /\ UNCHANGED <<last, served>>
  BY Zenon DEF ReadNetlink
<1>2. netlink \in Seq(Note) /\ Head(netlink) = m /\ Tail(netlink) \in Seq(Note)
  BY <1>1, HeadFacts, Zenon DEF Host
<1>3. listener' \in {"index", "found", "done", "missed"}
  <2>1. listener' \in CASE Head(netlink).type = "LINKS" -> {listener, "found"}
                        [] Head(netlink).type = "DONE" -> {IF listener = "found" THEN "done" ELSE "missed"}
                        [] OTHER -> {IF NamesPreferred(Head(netlink)) THEN "found" ELSE listener}
    BY Zenon DEF ReadNetlink
  <2>. QED
    BY <1>1, <2>1, Zenon
<1>4. swallowed' = (swallowed \/ m.type \notin {"LINKS", "DONE"}) /\ fault' = NamesNothing(m)
  BY <1>2, Zenon DEF ReadNetlink
<1>. HIDE DEF m
<1>5. swallowed' \in BOOLEAN /\ fault' \in BOOLEAN
  BY <1>4, Zenon DEF NamesNothing
<1>6. Host' /\ Daemon' /\ MyAddrs' = MyAddrs
  BY <1>1, <1>2, QueueParts, Zenon DEF Host
<1>7. ASSUME ~swallowed' PROVE QueueInv'
  <2>1. QueueInv /\ m.type \in {"LINKS", "DONE"}
    BY <1>4, <1>7, Zenon
  <2>2. \A a \in Addrs : ~Of(m, a)
    BY <2>1, Zenon DEF Of
  <2>3. Queue(Tail(netlink), MyAddrs, kernel)
    BY <2>1, <2>2, <1>1, <1>2, QueueTail, Zenon DEF QueueInv, m
  <2>. QED
    BY <2>3, <1>1, <1>6, Zenon DEF QueueInv
<1>8. SineTypes'
  BY <1>1, <1>3, <1>5, Zenon DEF SineTypes
<1>9. CommandInv' /\ HandoverNotLost'
  BY <1>1, <1>3, Zenon DEF CommandInv, HandoverNotLost
<1>. QED
  BY <1>6, <1>7, <1>8, <1>9, Zenon

\* The preference is noted or given up (hip_pref_listener()).
LEMMA PreferKeeps ==
    ASSUME SineInv, Prefer
    PROVE  SineInv'
<1>. USE DEF SineInv
<1>1. /\ listener' = "select" /\ prefer_changed' = TRUE /\ UNCHANGED addrVars
      /\ UNCHANGED <<sent, commands, fault, last, served, swallowed>>
  BY Zenon DEF Prefer
<1>2. hip_preferred_ifname' \in {hip_preferred_ifname, NoIface}
  BY Zenon DEF Prefer
<1>3. l_new' \in BOOLEAN
  <2>1. PICK suits \in BOOLEAN : l_new' = (l_new \/ suits)
    BY Zenon DEF Prefer
  <2>. QED
    BY <2>1, Zenon
<1>4. Host' /\ Daemon' /\ (QueueInv => QueueInv')
  BY <1>1, AddrParts, Zenon
<1>5. SineTypes'
  BY <1>1, <1>2, <1>3, Zenon DEF SineTypes
<1>6. CommandInv' /\ HandoverNotLost'
  BY <1>1, <1>2, Zenon DEF CommandInv, HandoverNotLost
<1>. QED
  BY <1>1, <1>4, <1>5, <1>6, Zenon

\* Every association is moved to one of my addresses (hip_handoff()).
LEMMA HandoffKeeps ==
    ASSUME SineInv, NEW i \in DOMAIN my_addr_head, Handoff(i)
    PROVE  SineInv'
<1>. USE DEF SineInv
<1>1. UNCHANGED <<sent, commands, listener, hip_preferred_ifname, l_new, last, swallowed>>
  BY Zenon DEF Handoff
<1>2. CASE \E s \in 1..max_hip_assoc : table[s].state = "UNASSOCIATED"
  <2>1. fault' = TRUE /\ UNCHANGED addrVars /\ UNCHANGED <<prefer_changed, served>>
    BY <1>2, Zenon DEF Handoff
  <2>2. Host' /\ Daemon' /\ (QueueInv => QueueInv')
    BY <2>1, AddrParts, Zenon
  <2>3. SineTypes' /\ CommandInv' /\ HandoverNotLost'
    BY <1>1, <2>1, Zenon DEF SineTypes, CommandInv, HandoverNotLost
  <2>. QED
    BY <1>1, <2>2, <2>3, Zenon
<1>3. CASE ~\E s \in 1..max_hip_assoc : table[s].state = "UNASSOCIATED"
  <2>. DEFINE a == my_addr_head[i].addr
              q == [k \in DOMAIN my_addr_head |-> [my_addr_head[k] EXCEPT !.preferred = (k = i)]]
              changed == [s \in Live |-> Readdress(table[s], a, IfOf[a])]
  <2>1. /\ prefer_changed' = FALSE /\ served' = hip_preferred_ifname
        /\ my_addr_head' = q /\ table' = OnLive(changed)
        /\ switched' = switched \cup { s \in Live : table[s].state = "ESTABLISHED" }
        /\ UNCHANGED <<kernel, changes, netlink, need_select, max_hip_assoc, refused, fault>>
    BY <1>3, Zenon DEF Handoff
  <2>2. /\ DOMAIN my_addr_head = 1..Len(my_addr_head) /\ Len(my_addr_head) \in Nat
        /\ \A k \in 1..Len(my_addr_head) : my_addr_head[k] \in MyAddr /\ my_addr_head[k].addr \in Addrs
    BY ListsFacts, Zenon DEF Daemon
  <2>3. a \in Addrs /\ IfOf[a] \in Ifaces
    BY <2>2, EntryTypes, Zenon
  <2>4. \A k \in 1..Len(my_addr_head) : q[k] \in MyAddr /\ q[k].addr = my_addr_head[k].addr
    BY <2>2, Zenon DEF MyAddr
  <2>5. q \in Seq(MyAddr) /\ Len(q) = Len(my_addr_head)
    BY <2>2, <2>4
  <2>6. \A s \in Live : s \in Slots /\ table[s] \in Assoc /\ table[s].addrs # <<>>
    BY LiveIsAll, Zenon DEF Daemon
  <2>7. ASSUME NEW s \in Live
        PROVE  changed[s] \in Assoc /\ changed[s].addrs # <<>> /\ changed[s].state = table[s].state
    <3>. DEFINE h == table[s]
    <3>1. h \in Assoc /\ h.addrs # <<>> /\ changed[s] = Readdress(h, a, IfOf[a])
      BY <2>6, Zenon
    <3>. HIDE DEF h, a, changed
    <3>2. /\ Readdress(h, a, IfOf[a]) \in Assoc /\ Readdress(h, a, IfOf[a]).state = h.state
          /\ h.state # "ESTABLISHED" => Readdress(h, a, IfOf[a]) = h
          /\ h.state = "ESTABLISHED" =>
                Replaced(h.addrs, Readdress(h, a, IfOf[a]).addrs, 1,
                         [addr |-> a, if_index |-> IfOf[a], status |-> "USABLE"])
      BY <2>3, <3>1, ReaddressFacts, Zenon
    <3>3. CASE h.state # "ESTABLISHED"
      BY <3>1, <3>2, <3>3, Zenon DEF h
    <3>4. CASE h.state = "ESTABLISHED"
      <4>1. Len(changed[s].addrs) = Len(h.addrs) /\ changed[s] \in Assoc
        BY <3>1, <3>2, <3>4, Zenon DEF Replaced
      <4>2. changed[s].addrs # <<>>
        BY <4>1, <3>1 DEF Assoc
      <4>. QED
        BY <4>1, <4>2, <3>1, <3>2, Zenon DEF h
    <3>. QED
      BY <3>3, <3>4, Zenon
  <2>. HIDE DEF q, changed
  <2>8. Lists(my_addr_head', MyAddrs)
    BY <2>1, <2>4, <2>5, SameAddrs, Zenon DEF Daemon
  <2>9. MyAddrs' = MyAddrs
    BY <2>8, Zenon DEF Lists, MyAddrs
  <2>10. TableOK(table', max_hip_assoc)
    BY <2>1, <2>7, OnLiveKeeps, Zenon DEF Daemon
  <2>11. Daemon'
    BY <2>1, <2>6, <2>8, <2>9, <2>10, Zenon DEF Daemon
  <2>12. Host' /\ (QueueInv => QueueInv')
    BY <2>1, <2>9, Zenon DEF Host, QueueInv
  <2>13. SineTypes' /\ CommandInv' /\ HandoverNotLost'
    BY <1>1, <2>1, Zenon DEF SineTypes, CommandInv, HandoverNotLost
  <2>. QED
    BY <1>1, <2>11, <2>12, <2>13, Zenon
<1>. QED
  BY <1>2, <1>3, Zenon

\* The invariant, for any addresses, interfaces, number of associations and of
\* commands, and bounds.
THEOREM SineInvariant == Spec => []SineInv
<1>1. Init => SineInv
  <2>. SUFFICES ASSUME Init PROVE SineInv
    BY Zenon
  <2>1. Host /\ Daemon /\ QueueInv
    BY AddrStarts, Zenon DEF Init, AddrInv
  <2>2. 0 \in 0..MaxCommands /\ <<>> \in Seq(Ifaces)
    BY HipSineAssumption
  <2>3. SineTypes /\ CommandInv /\ HandoverNotLost
    BY <2>2, Zenon DEF Init, SineTypes, CommandInv, HandoverNotLost
  <2>. QED
    BY <2>1, <2>3, Zenon DEF SineInv
<1>2. SineInv /\ [Next]_vars => SineInv'
  <2>. SUFFICES ASSUME SineInv, [Next]_vars PROVE SineInv'
    BY Zenon
  <2>1. CASE (Kernel \/ Main) /\ UNCHANGED sineVars
    BY <2>1, DaemonKeeps, Zenon
  <2>2. CASE Listener
    BY <2>2, AlreadyKeeps, AskKeeps, ReadKeeps, PreferKeeps, Zenon DEF Listener
  <2>3. ASSUME NEW i \in Ifaces, SendHipd(i) PROVE SineInv'
    BY <2>3, SendKeeps, Zenon
  <2>4. ASSUME NEW i \in DOMAIN my_addr_head, Handoff(i) PROVE SineInv'
    BY <2>4, HandoffKeeps, Zenon
  <2>5. CASE UNCHANGED vars
    <3>1. UNCHANGED addrVars /\ UNCHANGED sineVars
      BY <2>5, Zenon DEF vars
    <3>. QED
      BY <3>1, AddrParts, SineParts, Zenon DEF SineInv
  <2>. QED
    BY <2>1, <2>2, <2>3, <2>4, <2>5, Zenon DEF Next
<1>. QED
  BY <1>1, <1>2, PTL DEF Spec

\* The types of the daemon with its listener.
THEOREM ListenerTypes == Spec => []TypeOK
<1>1. SineInv => TypeOK
  BY InvTypes, Zenon DEF SineInv, SineTypes, TypeOK
<1>. QED
  BY <1>1, SineInvariant, PTL

\* The daemon has missed a change of the host's addresses only if the listener
\* has read a notification (devname_to_index()).
THEOREM MissedOnlyIfSwallowed == Spec => []OnlySwallowedAreMissed
<1>1. SineInv => OnlySwallowedAreMissed
  BY QuietList, Zenon DEF SineInv, OnlySwallowedAreMissed, MyAddrsAreCurrent
<1>. QED
  BY <1>1, SineInvariant, PTL

\* A listener that has read all commands prefers the interface named last, or
\* none (hip_pref_listener()).
THEOREM CommandsInOrder == Spec => []LastCommandWins
<1>1. SineInv => LastCommandWins
  BY Zenon DEF SineInv, CommandInv, LastCommandWins
<1>. QED
  BY <1>1, SineInvariant, PTL

\* No preference is forgotten between the listener and hip_handoff().
THEOREM EveryPreferenceServed == Spec => []HandoverNotLost
<1>1. SineInv => HandoverNotLost
  BY Zenon DEF SineInv
<1>. QED
  BY <1>1, SineInvariant, PTL
=============================================================================
