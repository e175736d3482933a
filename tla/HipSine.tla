------------------------------ MODULE HipSine -------------------------------
(***************************************************************************)
(* The hand-over of HIP associations on the command of the network manager *)
(* (hip_sine.c): the thread hip_pref_listener(), which notes the interface *)
(* to prefer and asks the kernel for its index on the netlink socket the   *)
(* main loop reads too, and hip_handoff(), which moves every association   *)
(* to an address.  A command is a datagram of the MIH user's send_hipd(),  *)
(* whose sender waits ten seconds for the answer; one given up stays in    *)
(* the listener's socket.                                                  *)
(***************************************************************************)
EXTENDS HipAddr

CONSTANTS MaxCommands,  \* bound on the commands sent
          Family        \* IP_VERSION of the build: "inet" or "inet6"

ASSUME HipSineAssumption == MaxCommands \in Nat /\ Family \in {"inet", "inet6"}

NoIface == "none"

VARIABLES
    sent,                   \* number of commands sent
    commands,               \* "pref" datagrams waiting at the listener's port
    listener,               \* "select", or in devname_to_index(): "index", "found" once the
                            \* name was read; then "done", or "missed" without it
    hip_preferred_ifname,
    l_new,                  \* the listener's l_new is not NULL
    prefer_changed,
    fault,                  \* the daemon followed NULL
    last,                   \* history: the interface named last
    served,                 \* history: the one preferred at the last hand-off
    swallowed               \* history: the listener read a notification

sineVars == <<sent, commands, listener, hip_preferred_ifname, l_new, prefer_changed, fault, last,
              served, swallowed>>
vars == <<addrVars, sineVars>>

TypeOK ==
    /\ AddrTypeOK
    /\ sent \in 0..MaxCommands /\ commands \in Seq(Ifaces)
    /\ listener \in {"select", "index", "found", "done", "missed"}
    /\ hip_preferred_ifname \in Ifaces \cup {NoIface}
    /\ l_new \in BOOLEAN /\ prefer_changed \in BOOLEAN /\ fault \in BOOLEAN
    /\ last \in Ifaces \cup {NoIface} /\ served \in Ifaces \cup {NoIface}
    /\ swallowed \in BOOLEAN

Init ==
    /\ AddrInit
    /\ sent = 0 /\ commands = <<>>
    /\ listener = "select"
    /\ hip_preferred_ifname = NoIface
    /\ l_new = FALSE /\ prefer_changed = FALSE /\ fault = FALSE
    /\ last = NoIface /\ served = NoIface
    /\ swallowed = FALSE

\* send_hipd() of the MIH user.
SendHipd(i) ==
    /\ sent < MaxCommands
    /\ sent' = sent + 1
    /\ commands' = Append(commands, i)
    /\ last' = i
    /\ UNCHANGED <<addrVars, listener, hip_preferred_ifname, l_new, prefer_changed, fault,
                   served, swallowed>>

(***************************************************************************)
(* hip_pref_listener()                                                     *)
(***************************************************************************)
\* The interface that is preferred already.
AlreadyOn ==
    /\ listener = "select" /\ commands # <<>>
    /\ Head(commands) = hip_preferred_ifname
    /\ commands' = Tail(commands)
    /\ prefer_changed' = TRUE
    /\ UNCHANGED <<addrVars, sent, listener, hip_preferred_ifname, l_new, fault, last, served, swallowed>>

\* Mutant: an interface that is preferred stays.
AskIndexOnce ==
    /\ listener = "select" /\ commands # <<>>
    /\ Head(commands) # hip_preferred_ifname
    /\ commands' = Tail(commands)
    /\ hip_preferred_ifname' = IF hip_preferred_ifname = NoIface THEN Head(commands)
                               ELSE hip_preferred_ifname
    /\ listener' = "index"
    /\ netlink' = netlink \o << [type |-> "LINKS", of |-> "dump"], [type |-> "DONE", of |-> "dump"] >>
    /\ UNCHANGED <<kernel, changes, daemonVars, sent, l_new, prefer_changed, fault, last, served,
                   swallowed>>

\* Another one: the request of devname_to_index(), which the kernel answers at
\* once, behind the notifications that wait already.
AskIndex ==
    /\ listener = "select" /\ commands # <<>>
    /\ Head(commands) # hip_preferred_ifname
    /\ commands' = Tail(commands)
    /\ hip_preferred_ifname' = Head(commands)
    /\ listener' = "index"
    /\ netlink' = netlink \o << [type |-> "LINKS", of |-> "dump"], [type |-> "DONE", of |-> "dump"] >>
    /\ UNCHANGED <<kernel, changes, daemonVars, sent, l_new, prefer_changed, fault, last, served, swallowed>>

\* The kernel's message gives the interface its name: the type of a message is not
\* looked at, and IFA_LABEL of an IPv4 address has the number of IFLA_IFNAME.
NamesPreferred(m) ==
    \/ m.type = "DELLINK" /\ m.of = hip_preferred_ifname
    \/ m.type \in {"NEWADDR", "DELADDR"} /\ IfOf[m.of] = hip_preferred_ifname

\* An IPv6 address has no label, and strcmp() is given an address next to NULL.
NamesNothing(m) == m.type \in {"NEWADDR", "DELADDR"} /\ FamilyOf[m.of] = "inet6"

\* The receiving loop of devname_to_index(); an interface that was unplugged is
\* not among the links.
ReadNetlink ==
    /\ listener \in {"index", "found"}
    /\ netlink # <<>>
    /\ netlink' = Tail(netlink)
    /\ LET m == Head(netlink) IN
       /\ listener' \in CASE m.type = "LINKS" -> {listener, "found"}
                          [] m.type = "DONE" -> {IF listener = "found" THEN "done" ELSE "missed"}
                          [] OTHER -> {IF NamesPreferred(m) THEN "found" ELSE listener}
       /\ swallowed' = (swallowed \/ m.type \notin {"LINKS", "DONE"})
       /\ fault' = NamesNothing(m)
    /\ UNCHANGED <<kernel, changes, daemonVars, sent, commands, hip_preferred_ifname, l_new, prefer_changed,
                   last, served>>

\* Mutant: only a repeated command sets prefer_changed.
PreferNoFlag ==
    /\ listener \in {"done", "missed"}
    /\ listener' = "select"
    /\ l_new' = TRUE
    /\ UNCHANGED <<addrVars, sent, commands, hip_preferred_ifname, prefer_changed, fault, last,
                   served, swallowed>>

\* The rest of the handler, under pref_mutex: l_new is set when the interface
\* has an address that will do, and keeps its value otherwise.
Prefer ==
    /\ listener \in {"done", "missed"}
    /\ listener' = "select"
    /\ prefer_changed' = TRUE
    /\ LET suits == listener = "done" /\ \E a \in MyAddrs : /\ IfOf[a] = hip_preferred_ifname
                                                         /\ FamilyOf[a] = Family IN
       /\ l_new' = (l_new \/ suits)
       /\ hip_preferred_ifname' = IF l_new' THEN hip_preferred_ifname ELSE NoIface
    /\ UNCHANGED <<addrVars, sent, commands, fault, last, served, swallowed>>

Listener == AlreadyOn \/ AskIndex \/ ReadNetlink \/ Prefer

(***************************************************************************)
(* hip_handoff() with the i-th of my addresses; its caller is not part of  *)
(* the repository, so i is any of them.                                    *)
(***************************************************************************)
Handoff(i) ==
    /\ prefer_changed
    /\ IF \E s \in 1..max_hip_assoc : table[s].state = "UNASSOCIATED"
       THEN /\ fault' = TRUE
            /\ UNCHANGED <<addrVars, prefer_changed, served>>
       ELSE LET a == my_addr_head[i].addr IN
            /\ prefer_changed' = FALSE
            /\ served' = hip_preferred_ifname
            /\ my_addr_head' = [k \in DOMAIN my_addr_head |->
                                   [my_addr_head[k] EXCEPT !.preferred = (k = i)]]
            /\ table' = OnLive([s \in Live |-> Readdress(table[s], a, IfOf[a])])
            /\ switched' = switched \cup { s \in Live : table[s].state = "ESTABLISHED" }
            /\ UNCHANGED <<kernel, changes, netlink, need_select, max_hip_assoc, refused, fault>>
    /\ UNCHANGED <<sent, commands, listener, hip_preferred_ifname, l_new, last, swallowed>>

Next ==
    \/ Kernel /\ UNCHANGED sineVars
    \/ Main /\ ~fault /\ UNCHANGED sineVars
    \/ Listener /\ ~fault
    \/ \E i \in Ifaces : SendHipd(i)
    \/ \E i \in DOMAIN my_addr_head : Handoff(i) /\ ~fault

Spec == Init /\ [][Next]_vars

-----------------------------------------------------------------------------
(***************************************************************************)
(* Properties.                                                             *)
(***************************************************************************)
\* my_addr_head follows the kernel also with the listener on the same socket, as
\* long as the listener has read no notification (devname_to_index()).
OnlySwallowedAreMissed == ~swallowed => MyAddrsAreCurrent

\* Commands are carried out in order: a listener that has read them all prefers
\* the interface named last, or none (hip_pref_listener()).
LastCommandWins ==
    commands = <<>> /\ listener = "select" => hip_preferred_ifname \in {last, NoIface}

\* No preference is forgotten between the listener and hip_handoff(): with no
\* hand-off due, the last one was made for the interface that is preferred.
HandoverNotLost ==
    listener = "select" /\ ~prefer_changed => served = hip_preferred_ifname
=============================================================================
