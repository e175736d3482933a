------------------------------ MODULE HipAddr -------------------------------
(***************************************************************************)
(* The addresses of the HIP daemon (hip_addr.c): my_addr_head, which       *)
(* follows the kernel's notifications on the netlink socket, and the       *)
(* address list of every association, whose first entry is the source      *)
(* address of its packets.  The list of an association is its own copy; it *)
(* is kept up to date, and the association readdressed, one notification   *)
(* at a time.  The daemon's main loop is one thread: each of its actions   *)
(* is one message or one idle cycle.                                       *)
(***************************************************************************)
EXTENDS Naturals, Sequences, FiniteSets

CONSTANTS Addrs,         \* addresses the host may have
          IfOf,          \* the interface each belongs to
          FamilyOf,      \* its family, "inet" or "inet6"
          PeerFamilies,  \* families the peers have addresses of
          MaxAssocs,     \* MAX_CONNECTIONS
          MaxChanges,    \* bound on the changes of the host's addresses
          NetlinkCap     \* bound on the notifications not read yet

Ifaces == { IfOf[a] : a \in Addrs }

ASSUME HipAddrAssumption ==
    /\ DOMAIN IfOf = Addrs
    /\ FamilyOf \in [Addrs -> {"inet", "inet6"}]
    /\ PeerFamilies \subseteq {"inet", "inet6"}
    /\ MaxAssocs \in Nat /\ MaxChanges \in Nat /\ NetlinkCap \in Nat

Slots == 1..MaxAssocs

VARIABLES
    kernel,         \* the addresses the host has
    changes,        \* number of times they changed
    netlink,        \* messages waiting at s_net
    my_addr_head,
    need_select,    \* need_select_preferred of the main loop
    table,          \* hip_assoc_table
    max_hip_assoc,
    switched,       \* history: associations that changed family or were handed off
    refused         \* history: associations a readdressing of which was refused

addrVars == <<kernel, changes, netlink, my_addr_head, need_select, table, max_hip_assoc,
              switched, refused>>

MyAddr == [addr : Addrs, preferred : BOOLEAN]

\* A sockaddr_list entry of an association; USABLE is ACTIVE or UNVERIFIED (not
\* yet announced to the peer).
Entry == [addr : Addrs, if_index : Ifaces, status : {"USABLE", "DELETED"}]

\* hip_assoc: UNASSOCIATED slots have no hi, and so no addresses.
States == {"UNASSOCIATED", "EXCHANGE", "ESTABLISHED", "CLOSING"}

Unassociated == [state |-> "UNASSOCIATED", addrs |-> <<>>]

NoteAddr == [type : {"NEWADDR", "DELADDR"}, of : Addrs]
NoteLink == [type : {"DELLINK"}, of : Ifaces]
Dump == [type : {"LINKS", "DONE"}, of : {"dump"}]

AddrTypeOK ==
    /\ kernel \subseteq Addrs /\ changes \in 0..MaxChanges
    /\ netlink \in Seq(NoteAddr \cup NoteLink \cup Dump)
    /\ my_addr_head \in Seq(MyAddr)
    /\ need_select \in BOOLEAN
    /\ table \in [Slots -> [state : States, addrs : Seq(Entry)]]
    /\ \A s \in Slots : table[s].state = "UNASSOCIATED" <=> table[s].addrs = <<>>
    /\ max_hip_assoc \in 0..MaxAssocs
    /\ switched \subseteq Slots /\ refused \subseteq Slots

AddrInit ==
    /\ kernel = {} /\ changes = 0 /\ netlink = <<>>
    /\ my_addr_head = <<>>
    /\ need_select = FALSE
    /\ table = [s \in Slots |-> Unassociated]
    /\ max_hip_assoc = 0
    /\ switched = {} /\ refused = {}

(***************************************************************************)
(* Lists.                                                                  *)
(***************************************************************************)
\* The first of a set of positions, or 0.
First(S) == IF S = {} THEN 0 ELSE CHOOSE i \in S : \A j \in S : i <= j

\* delete_address_entry_from_list()
Without(l, i) == [j \in 1..(Len(l) - 1) |-> IF j < i THEN l[j] ELSE l[j + 1]]

\* What is left of l when only the positions S stay, in their order: the k-th
\* entry is the one that has k of them up to itself.
Kept(l, S) ==
    [k \in 1..Cardinality(S) |-> l[CHOOSE i \in S : Cardinality({ j \in S : j <= i }) = k]]

AddrsOf(my) == { my[i].addr : i \in DOMAIN my }

MyAddrs == AddrsOf(my_addr_head)

UsableEntry(a) == [addr |-> a, if_index |-> IfOf[a], status |-> "USABLE"]

\* add_address_to_list(); its callers give the entry a status that is usable.
AddToList(l, a) ==
    LET i == First({ j \in DOMAIN l : l[j].addr = a /\ l[j].if_index = IfOf[a] }) IN
    IF i > 0 THEN [l EXCEPT ![i] = UsableEntry(a)] ELSE Append(l, UsableEntry(a))

\* Mutant: an address is added again when it is announced again.
AddToMineTwice(l, a) == Append(l, [addr |-> a, preferred |-> FALSE])

AddToMine(l, a) ==
    IF \E i \in DOMAIN l : l[i].addr = a THEN l
    ELSE Append(l, [addr |-> a, preferred |-> FALSE])

\* select_preferred_address() without a preference in the configuration: the
\* first IPv4 address; the flags of the others stay as they are.
SelectPreferred(my) ==
    LET i == First({ j \in DOMAIN my : FamilyOf[my[j].addr] = "inet" }) IN
    IF i = 0 THEN my ELSE [my EXCEPT ![i].preferred = TRUE]

(***************************************************************************)
(* One association: a is the address added, x the address deleted.         *)
(***************************************************************************)
\* readdress_association(): the first entry is replaced.
Readdress(hip_a, a, if) ==
    IF hip_a.state # "ESTABLISHED" THEN hip_a
    ELSE [hip_a EXCEPT !.addrs[1] = [addr |-> a, if_index |-> if, status |-> "USABLE"]]

\* Mutant: a new address is only added to the list.
AssociationAddAddressLater(hip_a, a) ==
    IF hip_a.addrs[1].status = "DELETED" /\ hip_a.addrs[1].addr = a
    THEN [hip_a EXCEPT !.addrs[1].status = "USABLE"]
    ELSE [hip_a EXCEPT !.addrs = AddToList(@, a)]

AssociationAddAddress(hip_a, a) ==
    LET source == hip_a.addrs[1] IN
    CASE source.status = "DELETED" /\ source.addr = a ->
            [hip_a EXCEPT !.addrs[1].status = "USABLE"]
      [] source.status = "DELETED" /\ source.addr # a -> Readdress(hip_a, a, IfOf[a])
      [] source.status # "DELETED" -> [hip_a EXCEPT !.addrs = AddToList(@, a)]

\* Where the association has x, or 0.
Position(hip_a, x) == First({ i \in DOMAIN hip_a.addrs : hip_a.addrs[i].addr = x })

Marked(hip_a, x) == [hip_a EXCEPT !.addrs[Position(hip_a, x)].status = "DELETED"]

\* Mutant: an entry that was deleted is chosen.
SameFamilyDeleted(l, x) ==
    First({ i \in 2..Len(l) : FamilyOf[l[i].addr] = FamilyOf[x] })

\* Where the first usable entry of (not of) x's family is, or 0.
SameFamily(l, x) ==
    First({ i \in DOMAIN l : l[i].status # "DELETED" /\ FamilyOf[l[i].addr] = FamilyOf[x] })

OtherFamily(l, x) ==
    First({ i \in DOMAIN l : l[i].status # "DELETED" /\ FamilyOf[l[i].addr] # FamilyOf[x] })

\* The source of the association is deleted and nothing in its own list has
\* the family: my_addr_head is consulted, after a new selection.
ConsultsMine(hip_a, x) ==
    Position(hip_a, x) = 1 /\ SameFamily(Marked(hip_a, x).addrs, x) = 0

\* readdress_association_x2() is given the interface of the deleted address.
SwitchFamily(hip_a, x, a) ==
    IF FamilyOf[a] \notin PeerFamilies THEN hip_a ELSE Readdress(hip_a, a, IfOf[x])

FromMine(hip_a, x, my) ==
    LET pref == First({ i \in DOMAIN my : my[i].preferred /\ FamilyOf[my[i].addr] = FamilyOf[x] })
        own == OtherFamily(hip_a.addrs, x)
        mine == First({ i \in DOMAIN my : FamilyOf[my[i].addr] # FamilyOf[x] }) IN
    CASE pref > 0 -> Readdress(hip_a, my[pref].addr, IfOf[my[pref].addr])
      [] pref = 0 /\ own > 0 ->
            LET entry == hip_a.addrs[own]
                moved == SwitchFamily(hip_a, x, entry.addr) IN
            IF FamilyOf[entry.addr] \notin PeerFamilies THEN hip_a
            ELSE [moved EXCEPT !.addrs = Without(@, own)]
      [] pref = 0 /\ own = 0 /\ mine > 0 -> SwitchFamily(hip_a, x, my[mine].addr)
      [] OTHER -> hip_a

AssociationDelAddress(hip_a, x, my) ==
    LET m == Marked(hip_a, x)
        same == SameFamily(m.addrs, x) IN
    CASE Position(hip_a, x) = 0 -> hip_a
      [] Position(hip_a, x) > 1 -> m
      [] Position(hip_a, x) = 1 /\ same > 0 ->
            [Readdress(m, m.addrs[same].addr, m.addrs[same].if_index)
                EXCEPT !.addrs = Without(@, same)]
      [] OTHER -> FromMine(m, x, my)

(***************************************************************************)
(* handle_local_address_change(): every association in the table.          *)
(***************************************************************************)
Live == { s \in 1..max_hip_assoc : table[s].state # "UNASSOCIATED" }

OnLive(changed) == [s \in Slots |-> IF s \in Live THEN changed[s] ELSE table[s]]

\* What the histories record of the deletion of x.
Refuses(s, x) == Position(table[s], x) = 1 /\ table[s].state # "ESTABLISHED"
Switches(s, x, tbl) ==
    /\ Position(table[s], x) = 1
    /\ FamilyOf[tbl[s].addrs[1].addr] # FamilyOf[x]

HandleNewAddr(a) ==
    /\ my_addr_head' = AddToMine(my_addr_head, a)
    /\ need_select' = TRUE
    /\ table' = OnLive([s \in Live |-> AssociationAddAddress(table[s], a)])
    /\ switched' = switched \cup { s \in Live : FamilyOf[table'[s].addrs[1].addr]
                                               # FamilyOf[table[s].addrs[1].addr] }
    /\ refused' = refused \cup { s \in Live : /\ table[s].addrs[1].status = "DELETED"
                                             /\ table[s].addrs[1].addr # a
                                             /\ table[s].state # "ESTABLISHED" }

\* The associations are walked in order, but a selection made for one of them
\* is made from the same list as for the next.
HandleDelAddr(x) ==
    LET left == Kept(my_addr_head, { i \in DOMAIN my_addr_head : my_addr_head[i].addr # x })
        asks == \E s \in Live : ConsultsMine(table[s], x)
        my == IF asks THEN SelectPreferred(left) ELSE left IN
    /\ my_addr_head' = my
    /\ table' = OnLive([s \in Live |-> AssociationDelAddress(table[s], x, my)])
    /\ switched' = switched \cup { s \in Live : Switches(s, x, table') }
    /\ refused' = refused \cup { s \in Live : Refuses(s, x) }
    /\ UNCHANGED need_select

HandleDelLink(i) ==
    /\ my_addr_head' = Kept(my_addr_head,
                            { k \in DOMAIN my_addr_head : IfOf[my_addr_head[k].addr] # i })
    /\ UNCHANGED <<need_select, table, switched, refused>>

\* hip_handle_netlink(): messages of other types are skipped.
HandleNetlink ==
    /\ netlink # <<>>
    /\ netlink' = Tail(netlink)
    /\ LET m == Head(netlink) IN
       \/ m.type = "NEWADDR" /\ HandleNewAddr(m.of)
       \/ m.type = "DELADDR" /\ HandleDelAddr(m.of)
       \/ m.type = "DELLINK" /\ HandleDelLink(m.of)
       \/ /\ m.type \in {"LINKS", "DONE"}
          /\ UNCHANGED <<my_addr_head, need_select, table, switched, refused>>
    /\ UNCHANGED <<kernel, changes, max_hip_assoc>>

\* An idle cycle of the main loop.
SelectWhenIdle ==
    /\ need_select /\ netlink = <<>>
    /\ need_select' = FALSE
    /\ my_addr_head' = SelectPreferred(my_addr_head)
    /\ UNCHANGED <<kernel, changes, netlink, table, max_hip_assoc, switched, refused>>

(***************************************************************************)
(* The association table.                                                  *)
(***************************************************************************)
\* init_hip_assoc(): the first unused slot below the maximum, or the next one.
NewSlot(tbl, max) ==
    LET holes == { s \in 1..max : tbl[s].state = "UNASSOCIATED" } IN
    IF holes = {} THEN max + 1 ELSE First(holes)

\* add_other_addresses_to_hi(): my addresses behind the source address a, each
\* of them once.
InitialAddrs(a) ==
    LET others == Kept(my_addr_head,
                       { i \in DOMAIN my_addr_head :
                           /\ my_addr_head[i].addr # a
                           /\ \A j \in 1..(i - 1) : my_addr_head[j].addr # my_addr_head[i].addr }) IN
    <<UsableEntry(a)>> \o [k \in DOMAIN others |-> UsableEntry(others[k].addr)]

\* The association in slot n, with source address a.
InitHipAssoc(n, a, state, tbl, max) ==
    /\ a \in MyAddrs
    /\ n \in Slots
    /\ table' = [tbl EXCEPT ![n] = [state |-> state, addrs |-> InitialAddrs(a)]]
    /\ max_hip_assoc' = IF n > max THEN n ELSE max
    /\ switched' = switched \ {n} /\ refused' = refused \ {n}
    /\ UNCHANGED <<kernel, changes, netlink, my_addr_head, need_select>>

\* Mutant: the addresses of a freed association stay.
FreedKeepsAddrs(s) == [table EXCEPT ![s].state = "UNASSOCIATED"]

\* free_hip_assoc()
Freed(s) == [table EXCEPT ![s] = Unassociated]

\* Mutant: every freed entry lowers the maximum.
MaxWithoutAlways(s) == max_hip_assoc - 1

MaxWithout(s) == IF s = max_hip_assoc THEN max_hip_assoc - 1 ELSE max_hip_assoc

\* start_base_exchange() for a peer without an association, and for one whose
\* association is being closed: that one is freed and another made.
StartBaseExchange(a) ==
    InitHipAssoc(NewSlot(table, max_hip_assoc), a, "EXCHANGE", table, max_hip_assoc)

RestartBaseExchange(s, a) ==
    /\ table[s].state = "CLOSING"
    /\ InitHipAssoc(NewSlot(Freed(s), MaxWithout(s)), a, "CLOSING", Freed(s), MaxWithout(s))

\* A packet of the peer completes the exchange.
Establish(s) ==
    /\ table[s].state = "EXCHANGE"
    /\ table' = [table EXCEPT ![s].state = "ESTABLISHED"]
    /\ UNCHANGED <<kernel, changes, netlink, my_addr_head, need_select, max_hip_assoc, switched, refused>>

\* Unused for too long, or closed by the peer.
Close(s) ==
    /\ table[s].state = "ESTABLISHED"
    /\ table' = [table EXCEPT ![s].state = "CLOSING"]
    /\ UNCHANGED <<kernel, changes, netlink, my_addr_head, need_select, max_hip_assoc, switched, refused>>

\* The exchange or a rekeying failed, or the closing is over.
FreeHipAssoc(s) ==
    /\ table[s].state # "UNASSOCIATED"
    /\ table' = Freed(s)
    /\ max_hip_assoc' = MaxWithout(s)
    /\ UNCHANGED <<kernel, changes, netlink, my_addr_head, need_select, switched, refused>>

Main ==
    \/ HandleNetlink
    \/ SelectWhenIdle
    \/ \E a \in Addrs : StartBaseExchange(a)
    \/ \E s \in Slots, a \in Addrs : RestartBaseExchange(s, a)
    \/ \E s \in Slots : Establish(s) \/ Close(s) \/ FreeHipAssoc(s)

(***************************************************************************)
(* The kernel: an address is added, confirmed again or deleted, or an      *)
(* interface without addresses disappears, and whoever listens is told.    *)
(* An interface that comes back has another index, so no address of it is  *)
(* announced behind its DELLINK.                                           *)
(***************************************************************************)
daemonVars == <<my_addr_head, need_select, table, max_hip_assoc, switched, refused>>

Announce(msgs) ==
    /\ changes < MaxChanges
    /\ changes' = changes + 1
    /\ Len(netlink) + Len(msgs) <= NetlinkCap
    /\ netlink' = netlink \o msgs

KernelAdd(a) ==
    /\ \A p \in DOMAIN netlink : netlink[p] # [type |-> "DELLINK", of |-> IfOf[a]]
    /\ kernel' = kernel \cup {a}
    /\ Announce(<<[type |-> "NEWADDR", of |-> a]>>)
    /\ UNCHANGED daemonVars

KernelDel(a) ==
    /\ a \in kernel
    /\ kernel' = kernel \ {a}
    /\ Announce(<<[type |-> "DELADDR", of |-> a]>>)
    /\ UNCHANGED daemonVars

KernelUnplug(i) ==
    /\ \A a \in kernel : IfOf[a] # i
    /\ Announce(<<[type |-> "DELLINK", of |-> i]>>)
    /\ UNCHANGED <<kernel, daemonVars>>

Kernel ==
    \/ \E a \in Addrs : KernelAdd(a) \/ KernelDel(a)
    \/ \E i \in Ifaces : KernelUnplug(i)

AddrNext == Kernel \/ Main

AddrSpec == AddrInit /\ [][AddrNext]_addrVars

-----------------------------------------------------------------------------
(***************************************************************************)
(* Properties.                                                             *)
(***************************************************************************)
\* Once the notifications are handled my_addr_head is what the host has, in
\* whatever order addresses came, went and were announced again
\* (hip_handle_netlink()).
MyAddrsAreCurrent ==
    netlink = <<>> => MyAddrs = kernel /\ Len(my_addr_head) = Cardinality(kernel)

\* An association does not go on with a source address the host has lost
\* (association_del_address()), unless it has changed family or a readdressing
\* of it was refused: a refusal loses an entry of its list all the same, and an
\* address announced again may come to be in the list twice.
SourceIsMine ==
    netlink = <<>> => \A s \in Live \ (switched \cup refused) :
        table[s].addrs[1].status # "DELETED" => table[s].addrs[1].addr \in kernel

\* "switch to another address if possible" (hip_addr.c:1676): an established
\* association is left without a source address only while the host has none
\* of the family, unless a readdressing was refused before it was established.
SwitchesIfPossible ==
    netlink = <<>> => \A s \in Live \ (switched \cup refused) :
        table[s].state = "ESTABLISHED" /\ table[s].addrs[1].status = "DELETED"
            => \A a \in kernel : FamilyOf[a] # FamilyOf[table[s].addrs[1].addr]

\* Every association lies below max_hip_assoc, where the daemon's loops find it
\* (init_hip_assoc(), free_hip_assoc()).
LiveBelowMax == \A s \in Slots : s > max_hip_assoc => table[s].state = "UNASSOCIATED"
=============================================================================
