---------------------------- MODULE PolicyEngine ----------------------------
(***************************************************************************)
(* The core of the sined daemon in normal operation: the connection        *)
(* manager's thread registering and removing connections, the policy       *)
(* engine's thread re-evaluating all of them when it is triggered, the     *)
(* location and network managers that trigger it, the main thread loading  *)
(* the policy file, and the request/answer exchange with the MIH user      *)
(* process that an evaluation consists of.                                 *)
(*                                                                         *)
(* A step is what a thread does between two points where another thread or *)
(* process can interfere: a mutex operation, a blocking receive, a write   *)
(* of a shared variable.                                                   *)
(***************************************************************************)
EXTENDS PolicyRules

CONSTANTS Pids,        \* processes that register connections
          Fds,         \* their socket descriptors
          DescOf,      \* [Pids -> AppDescs]: the executable of a process
          Kinds,       \* the kinds of remote address they connect to
          Home,        \* the location the daemon starts with
          Ppp,         \* the interfaces whose name begins with "ppp"
          MaxConns,    \* bound on the connection table
          InfoCap,     \* datagrams the MIH user's socket buffers
          EventCap     \* datagrams the network manager's event socket buffers

\* What is_hip_addr() and the address family tell apart.
AddrKinds == {"hip", "ipv6", "ipv4"}

ASSUME EngineAssumption ==
    /\ Pids # {} /\ Fds # {}
    /\ DescOf \in [Pids -> AppDescs]
    /\ Kinds \subseteq AddrKinds
    /\ Home \in Locations
    /\ Ppp \subseteq Interfaces
    /\ MaxConns \in Nat /\ InfoCap \in Nat /\ EventCap \in Nat

Evaluators == {"conmgr", "pe"}

Nobody == "nobody"

\* seen is the location buffer of the connection's latest evaluate() call.
Connection == [pid : Pids, fd : Fds, kind : AddrKinds,
               active_rule : Nat, seen : Locations]

\* A connection before its first evaluation.
NewConnection(pid, fd, kind) ==
    [pid |-> pid, fd |-> fd, kind |-> kind, active_rule |-> 0, seen |-> Home]

Key == Pids \X Fds

\* The values of the locals below while they are not in use.
AnyKey == CHOOSE k \in Key : TRUE

AnyConnection == NewConnection(AnyKey[1], AnyKey[2], "ipv4")

NoIface == "none"

\* What the MIH user tells the HIP and MIPv6 daemons to prefer for an
\* interface: the IPv6 tunnel when it is a modem.
Device(i) == IF i \in Ppp THEN "sixxs" ELSE i

Devices == { Device(i) : i \in Interfaces }

VARIABLES
    con_tbl,          \* the connection table, in list order
    con_tbl_mutex,    \* its holder
    policies_loaded,  \* policy_list holds the rules of the policy file
    policy_mutex,     \* its holder
    need_evaluation,
    location,
    main,             \* control state of init_policy_engine()
    conmgr,           \* control state of the connection manager's thread
    new_conn,         \* the connection add_connection() is building
    victim,           \* the key remove_connection() is looking for
    pe,               \* control state of the policy engine's thread
    cursor,           \* the table entry evaluate_all() is at
    locmgr,           \* control state of the location manager's thread
    frame,            \* the evaluate() call each thread is in
    info_sock,        \* the info socket is open
    requests,         \* datagrams waiting at the MIH user
    answers,          \* datagrams waiting at the info socket
    events,           \* number of datagrams waiting at the event socket
    links,            \* the interfaces the MIH user holds to be up
    hip_if, mip_if,   \* the device named in the last command to HIP and to MIPv6
    swallowed         \* history: a trigger was overwritten, nothing evaluated since

tblVars  == <<con_tbl, con_tbl_mutex, conmgr, new_conn, victim>>
polVars  == <<policies_loaded, policy_mutex, main>>
trigVars == <<need_evaluation, swallowed>>
peVars   == <<pe, cursor>>
locVars  == <<location, locmgr>>
infoVars == <<info_sock, requests, answers>>
mihVars  == <<events, links, hip_if, mip_if>>
vars     == <<tblVars, polVars, trigVars, peVars, locVars, infoVars, mihVars, frame>>

(***************************************************************************)
(* An evaluate() call: phase is where it stands.  "location" and "policy"  *)
(* are before the location is read and before policy_mutex is taken; "e",  *)
(* "h", "g" and "m" wait for the answer to that request about rule pos;    *)
(* "done" is after policy_mutex was released.  old and calm are history:   *)
(* active_rule when the call began, and whether no link changed and no     *)
(* request went unanswered since.                                          *)
(***************************************************************************)
Waiting == {"e", "h", "g", "m"}

Phases == {"none", "location", "policy", "done"} \cup Waiting

Frame == [phase : Phases, pos : Positions \cup {NoRule}, old : Nat, calm : BOOLEAN]

NoFrame == [phase |-> "none", pos |-> NoRule, old |-> 0, calm |-> TRUE]

Request == [cmd : Waiting, iface : Interfaces, live : BOOLEAN]

Answer == [cmd : Waiting, iface : Interfaces, text : {"up", "down", "ack"}]

TypeOK ==
    /\ con_tbl \in Seq(Connection)
    /\ con_tbl_mutex \in Evaluators \cup {Nobody}
    /\ policies_loaded \in BOOLEAN
    /\ policy_mutex \in Evaluators \cup {Nobody}
    /\ need_evaluation \in BOOLEAN
    /\ location \in Locations
    /\ main \in {"parse", "dump", "trigger", "unlock", "start", "wait"}
    /\ conmgr \in {"select", "add", "remove"}
    /\ new_conn \in Connection
    /\ victim \in Key
    /\ pe \in {"none", "idle", "lock", "evaluate", "clear"}
    /\ cursor \in Nat
    /\ locmgr \in {"select", "trigger", "dump"}
    /\ frame \in [Evaluators -> Frame]
    /\ info_sock \in BOOLEAN
    /\ requests \in Seq(Request)
    /\ answers \in Seq(Answer)
    /\ events \in Nat
    /\ links \in SUBSET Interfaces
    /\ hip_if \in Devices \cup {NoIface}
    /\ mip_if \in Devices \cup {NoIface}
    /\ swallowed \in BOOLEAN

Init ==
    /\ con_tbl = <<>>
    /\ con_tbl_mutex = Nobody
    /\ policies_loaded = FALSE
    /\ policy_mutex = Nobody
    /\ need_evaluation = FALSE
    /\ location = Home
    /\ main = "parse"
    /\ conmgr = "select"
    /\ new_conn = AnyConnection
    /\ victim = AnyKey
    /\ pe = "none"
    /\ cursor = 1
    /\ locmgr = "select"
    /\ frame = [t \in Evaluators |-> NoFrame]
    /\ info_sock = FALSE
    /\ requests = <<>>
    /\ answers = <<>>
    /\ events = 0
    /\ links \in SUBSET Interfaces
    /\ hip_if = NoIface
    /\ mip_if = NoIface
    /\ swallowed = FALSE

(***************************************************************************)
(* netmgr_send_info(): the socket is opened when there is none, the        *)
(* request is one datagram to the MIH user, dropped when the receiving     *)
(* socket's buffer is full; the caller then blocks for the answer.         *)
(***************************************************************************)
SendInfo(cmd, ifname, queue) ==
    /\ info_sock' = TRUE
    /\ requests' = IF Len(queue) < InfoCap
                    THEN Append(queue, [cmd |-> cmd, iface |-> ifname, live |-> TRUE])
                    ELSE queue

\* Mutant: the socket stays open after a timeout.
OrphanedNotClosed(queue) == queue

\* What closing the socket does to the requests still queued: they will be
\* answered to a port nobody listens on.
Orphaned(queue) == [i \in DOMAIN queue |-> [queue[i] EXCEPT !.live = FALSE]]

(***************************************************************************)
(* evaluate(conn), called by add_connection() for the connection it is     *)
(* about to link and by evaluate_all() for every entry of the table.       *)
(***************************************************************************)
Conn(t) == IF t = "pe" THEN con_tbl[cursor] ELSE new_conn

\* Write c to the connection thread t is evaluating.
SetConn(t, c) ==
    /\ con_tbl' = IF t = "pe" THEN [con_tbl EXCEPT ![cursor] = c] ELSE con_tbl
    /\ new_conn' = IF t = "conmgr" THEN c ELSE new_conn

\* History: something an evaluation in progress may already have read changes.
Disturb ==
    frame' = [t \in Evaluators |-> [frame[t] EXCEPT !.calm = (frame[t].phase = "none")]]

EnterEvaluate(t, conn) ==
    frame' = [frame EXCEPT ![t] = [phase |-> "location", pos |-> NoRule,
                                   old |-> conn.active_rule, calm |-> TRUE]]

Candidates(t) ==
    IF policies_loaded THEN Matching(DescOf[Conn(t).pid], Conn(t).seen) ELSE {}

\* Wait for the answer to cmd about rule x.
Await(t, x, cmd) ==
    frame' = [frame EXCEPT ![t] = [@ EXCEPT !.pos = x, !.phase = cmd]]

\* Go on with the rules in S: ask whether the first one's interface is up,
\* or release policy_mutex when none is left.  f is the call's frame so far.
TryRules(t, f, S, open, queue) ==
    \/ /\ S = {}
       /\ policy_mutex' = Nobody
       /\ frame' = [frame EXCEPT ![t] = [f EXCEPT !.phase = "done"]]
       /\ info_sock' = open /\ requests' = queue
    \/ /\ S # {}
       /\ policy_mutex' = policy_mutex
       /\ frame' = [frame EXCEPT ![t] = [f EXCEPT !.phase = "e", !.pos = FirstOf(S)]]
       /\ SendInfo("e", IfaceAt(FirstOf(S)), queue)

EvaluateLocation(t) ==
    /\ frame[t].phase = "location"
    /\ SetConn(t, [Conn(t) EXCEPT !.seen = location])
    /\ frame' = [frame EXCEPT ![t].phase = "policy"]
    /\ UNCHANGED <<con_tbl_mutex, conmgr, victim, polVars, trigVars, peVars,
                   locVars, infoVars, mihVars>>

EvaluatePolicies(t) ==
    /\ frame[t].phase = "policy"
    /\ policy_mutex = Nobody
    /\ \/ /\ Candidates(t) = {}
          /\ frame' = [frame EXCEPT ![t].phase = "done"]
          /\ UNCHANGED <<policy_mutex, info_sock, requests>>
       \/ /\ Candidates(t) # {}
          /\ policy_mutex' = t
          /\ Await(t, FirstOf(Candidates(t)), "e")
          /\ SendInfo("e", IfaceAt(FirstOf(Candidates(t))), requests)
    /\ UNCHANGED <<tblVars, policies_loaded, main, trigVars, peVars, locVars,
                   answers, mihVars>>

Answered(t) == frame[t].phase \in Waiting /\ answers # <<>>

\* netmgr_interface_on() returned 0.
RuleDown(t) ==
    /\ Answered(t)
    /\ frame[t].phase = "e"
    /\ Head(answers).text # "up"
    /\ answers' = Tail(answers)
    /\ TryRules(t, frame[t], AfterRefused(frame[t].pos, Candidates(t)), info_sock, requests)
    /\ UNCHANGED <<tblVars, policies_loaded, main, trigVars, peVars, locVars, mihVars>>

\* netmgr_set_interface() succeeded: the rule is recorded and the walk goes
\* on with the next policy.
Activate(t) ==
    /\ SetConn(t, [Conn(t) EXCEPT !.active_rule = RuleID(frame[t].pos)])
    /\ TryRules(t, frame[t], AfterActivated(frame[t].pos, Candidates(t)), info_sock, requests)

\* netmgr_interface_on() returned 1 and netmgr_set_interface() is called.
RuleUp(t) ==
    /\ Answered(t)
    /\ frame[t].phase = "e"
    /\ Head(answers).text = "up"
    /\ answers' = Tail(answers)
    /\ LET x == frame[t].pos IN
       \/ /\ Conn(t).kind = "hip"
          /\ Await(t, x, "h") /\ SendInfo("h", IfaceAt(x), requests)
          /\ UNCHANGED <<con_tbl, new_conn, policy_mutex>>
       \/ /\ Conn(t).kind = "ipv6"
          /\ Await(t, x, "m") /\ SendInfo("m", IfaceAt(x), requests)
          /\ UNCHANGED <<con_tbl, new_conn, policy_mutex>>
       \/ /\ Conn(t).kind = "ipv4"
          /\ Activate(t)
    /\ UNCHANGED <<con_tbl_mutex, conmgr, victim, policies_loaded, main, trigVars,
                   peVars, locVars, mihVars>>

\* HIP was told the interface; the second request confirms it.
HipConfirm(t) ==
    /\ Answered(t)
    /\ frame[t].phase = "h"
    /\ answers' = Tail(answers)
    /\ Await(t, frame[t].pos, "g")
    /\ SendInfo("g", IfaceAt(frame[t].pos), requests)
    /\ UNCHANGED <<tblVars, polVars, trigVars, peVars, locVars, mihVars>>

InterfaceSet(t) ==
    /\ Answered(t)
    /\ frame[t].phase \in {"g", "m"}
    /\ answers' = Tail(answers)
    /\ Activate(t)
    /\ UNCHANGED <<con_tbl_mutex, conmgr, victim, policies_loaded, main, trigVars,
                   peVars, locVars, mihVars>>

\* Mutant: the receive has no timeout.
NoAnswerBlocks(t) == FALSE

\* The receive timed out: the socket is closed with whatever it holds, and
\* the rule is refused, whichever of its requests went unanswered.
NoAnswer(t) ==
    /\ frame[t].phase \in Waiting
    /\ answers = <<>>
    /\ TryRules(t, [frame[t] EXCEPT !.calm = FALSE],
                AfterRefused(frame[t].pos, Candidates(t)), FALSE, Orphaned(requests))
    /\ UNCHANGED <<tblVars, policies_loaded, main, trigVars, peVars, locVars,
                   answers, mihVars>>

EvaluateStep(t) ==
    \/ EvaluateLocation(t) \/ EvaluatePolicies(t)
    \/ RuleDown(t) \/ RuleUp(t) \/ HipConfirm(t) \/ InterfaceSet(t)
    \/ NoAnswer(t)

(***************************************************************************)
(* The connection manager's thread: one datagram at a time.                *)
(***************************************************************************)
\* Mutant: evaluate() is called before the lock is taken.
AddConnectionUnlocked(pid, fd, kind) ==
    /\ conmgr = "select"
    /\ Len(con_tbl) < MaxConns
    /\ conmgr' = "add"
    /\ new_conn' = NewConnection(pid, fd, kind)
    /\ EnterEvaluate("conmgr", new_conn')
    /\ UNCHANGED <<con_tbl, con_tbl_mutex, victim, polVars, trigVars, peVars, locVars, infoVars,
                   mihVars>>

\* add_connection() up to the call of evaluate().
AddConnection(pid, fd, kind) ==
    /\ conmgr = "select"
    /\ con_tbl_mutex = Nobody
    /\ Len(con_tbl) < MaxConns
    /\ con_tbl_mutex' = "conmgr"
    /\ conmgr' = "add"
    /\ new_conn' = NewConnection(pid, fd, kind)
    /\ EnterEvaluate("conmgr", new_conn')
    /\ UNCHANGED <<con_tbl, victim, polVars, trigVars, peVars, locVars, infoVars, mihVars>>

\* evaluate() returned: the connection is linked at the tail.
LinkConnection ==
    /\ conmgr = "add"
    /\ frame["conmgr"].phase = "done"
    /\ con_tbl' = Append(con_tbl, new_conn)
    /\ con_tbl_mutex' = Nobody
    /\ conmgr' = "select"
    /\ new_conn' = AnyConnection
    /\ frame' = [frame EXCEPT !["conmgr"] = NoFrame]
    /\ UNCHANGED <<victim, polVars, trigVars, peVars, locVars, infoVars, mihVars>>

\* Mutant: the table is searched without the lock.
RemoveConnectionUnlocked(k) ==
    /\ conmgr = "select"
    /\ conmgr' = "remove"
    /\ victim' = k
    /\ UNCHANGED <<con_tbl, con_tbl_mutex, new_conn, polVars, trigVars, peVars, locVars, infoVars,
                   mihVars, frame>>

RemoveConnection(k) ==
    /\ conmgr = "select"
    /\ con_tbl_mutex = Nobody
    /\ con_tbl_mutex' = "conmgr"
    /\ conmgr' = "remove"
    /\ victim' = k
    /\ UNCHANGED <<con_tbl, new_conn, polVars, trigVars, peVars, locVars, infoVars,
                   mihVars, frame>>

IsVictim(i) == <<con_tbl[i].pid, con_tbl[i].fd>> = victim

Without(s, i) == SubSeq(s, 1, i - 1) \o SubSeq(s, i + 1, Len(s))

\* The loop of remove_connection(): every entry with the key is unlinked.
UnlinkConnection ==
    /\ conmgr = "remove"
    /\ \E i \in DOMAIN con_tbl :
          /\ IsVictim(i)
          /\ \A j \in 1..(i-1) : ~IsVictim(j)
          /\ con_tbl' = Without(con_tbl, i)
    /\ UNCHANGED <<con_tbl_mutex, conmgr, new_conn, victim, polVars, trigVars, peVars,
                   locVars, infoVars, mihVars, frame>>

\* Mutant: the break at the last entry skips the unlock.
RemoveDoneLocked ==
    /\ conmgr = "remove"
    /\ \A i \in DOMAIN con_tbl : ~IsVictim(i)
    /\ conmgr' = "select"
    /\ victim' = AnyKey
    /\ UNCHANGED <<con_tbl, con_tbl_mutex, new_conn, polVars, trigVars, peVars, locVars, infoVars,
                   mihVars, frame>>

RemoveDone ==
    /\ conmgr = "remove"
    /\ \A i \in DOMAIN con_tbl : ~IsVictim(i)
    /\ con_tbl_mutex' = Nobody
    /\ conmgr' = "select"
    /\ victim' = AnyKey
    /\ UNCHANGED <<con_tbl, new_conn, polVars, trigVars, peVars, locVars, infoVars,
                   mihVars, frame>>

(***************************************************************************)
(* The policy engine's thread.                                             *)
(***************************************************************************)
PeCheck ==
    /\ pe = "idle"
    /\ need_evaluation
    /\ pe' = "lock"
    /\ UNCHANGED <<tblVars, polVars, trigVars, cursor, locVars, infoVars, mihVars, frame>>

\* Go on with entry i of the table, or release the mutex after the last one.
EvaluateEntry(i) ==
    \/ /\ i \in DOMAIN con_tbl
       /\ pe' = "evaluate" /\ cursor' = i
       /\ con_tbl_mutex' = "pe"
       /\ EnterEvaluate("pe", con_tbl[i])
    \/ /\ i \notin DOMAIN con_tbl
       /\ pe' = "clear" /\ cursor' = 1
       /\ con_tbl_mutex' = Nobody
       /\ frame' = [frame EXCEPT !["pe"] = NoFrame]

PeLock ==
    /\ pe = "lock"
    /\ con_tbl_mutex = Nobody
    /\ EvaluateEntry(1)
    /\ swallowed' = FALSE
    /\ UNCHANGED <<con_tbl, conmgr, new_conn, victim, polVars, need_evaluation, locVars,
                   infoVars, mihVars>>

PeNext ==
    /\ pe = "evaluate"
    /\ frame["pe"].phase = "done"
    /\ EvaluateEntry(cursor + 1)
    /\ UNCHANGED <<con_tbl, conmgr, new_conn, victim, polVars, trigVars, locVars,
                   infoVars, mihVars>>

PeClear ==
    /\ pe = "clear"
    /\ need_evaluation' = FALSE
    /\ pe' = "idle"
    /\ UNCHANGED <<tblVars, polVars, swallowed, cursor, locVars, infoVars, mihVars, frame>>

\* trigger_policy_engine(); a trigger set after the table was locked for an
\* evaluation is the one PeClear is going to overwrite.
Trigger ==
    /\ need_evaluation' = TRUE
    /\ swallowed' = (swallowed \/ pe \in {"evaluate", "clear"})

(***************************************************************************)
(* The location manager's thread: a line read from standard input.         *)
(***************************************************************************)
SetLocation(l) ==
    /\ locmgr = "select"
    /\ location' = l
    /\ locmgr' = "trigger"
    /\ UNCHANGED <<tblVars, polVars, trigVars, peVars, infoVars, mihVars, frame>>

\* The line "l": conmgr_dump_connections() waits for the table, and with it
\* the location manager.
DumpRequest ==
    /\ locmgr = "select"
    /\ locmgr' = "dump"
    /\ UNCHANGED <<tblVars, polVars, trigVars, peVars, location, infoVars, mihVars, frame>>

DumpConnections ==
    /\ locmgr = "dump"
    /\ con_tbl_mutex = Nobody
    /\ locmgr' = "select"
    /\ UNCHANGED <<tblVars, polVars, trigVars, peVars, location, infoVars, mihVars, frame>>

\* Mutant: a new location does not trigger the policy engine.
LocationTriggerForgotten ==
    /\ locmgr = "trigger"
    /\ locmgr' = "select"
    /\ UNCHANGED <<tblVars, polVars, trigVars, peVars, location, infoVars, mihVars, frame>>

LocationTrigger ==
    /\ locmgr = "trigger"
    /\ Trigger
    /\ locmgr' = "select"
    /\ UNCHANGED <<tblVars, polVars, peVars, location, infoVars, mihVars, frame>>

(***************************************************************************)
(* The network manager's thread: an event datagram from the MIH user.      *)
(***************************************************************************)
\* Mutant: the socket is read whether or not select() reported it.
NetworkEventUnready ==
    /\ events' = events - 1
    /\ Trigger
    /\ UNCHANGED <<tblVars, polVars, peVars, locVars, infoVars, links, hip_if, mip_if, frame>>

NetworkEvent ==
    /\ events > 0
    /\ events' = events - 1
    /\ Trigger
    /\ UNCHANGED <<tblVars, polVars, peVars, locVars, infoVars, links, hip_if, mip_if, frame>>

(***************************************************************************)
(* The main thread in init_policy_engine().  On success parse_policies()   *)
(* runs on into its error label and unlocks policy_mutex a second time;    *)
(* unlocking a default mutex releases it whoever holds it.                 *)
(***************************************************************************)
ParsePolicies ==
    /\ main = "parse"
    /\ policy_mutex = Nobody
    /\ \/ policies_loaded' = TRUE /\ main' = "dump"
       \/ policies_loaded' = FALSE /\ main' = "start"
    /\ Disturb
    /\ UNCHANGED <<tblVars, policy_mutex, trigVars, peVars, locVars, infoVars, mihVars>>

DumpPolicies ==
    /\ main = "dump"
    /\ policy_mutex = Nobody
    /\ main' = "trigger"
    /\ UNCHANGED <<tblVars, policies_loaded, policy_mutex, trigVars, peVars, locVars,
                   infoVars, mihVars, frame>>

ParseTrigger ==
    /\ main = "trigger"
    /\ Trigger
    /\ main' = "unlock"
    /\ UNCHANGED <<tblVars, policies_loaded, policy_mutex, peVars, locVars, infoVars,
                   mihVars, frame>>

UnlockAgain ==
    /\ main = "unlock"
    /\ policy_mutex' = Nobody
    /\ main' = "start"
    /\ UNCHANGED <<tblVars, policies_loaded, trigVars, peVars, locVars, infoVars, mihVars, frame>>

StartPolicyEngine ==
    /\ main = "start"
    /\ main' = "wait"
    /\ pe' = "idle"
    /\ UNCHANGED <<tblVars, policies_loaded, policy_mutex, trigVars, cursor, locVars,
                   infoVars, mihVars, frame>>

(***************************************************************************)
(* The MIH user process (protocols/mih/odtone/app/mih_usr): one thread     *)
(* serves the requests one after the other, in the order of arrival; link  *)
(* indications change the set of links and notify the daemon.              *)
(***************************************************************************)
Reply(r) ==
    [cmd |-> r.cmd, iface |-> r.iface,
     text |-> CASE r.cmd # "e" -> "ack"
                [] r.cmd = "e" /\ r.iface \in links -> "up"
                [] OTHER -> "down"]

\* Mutant: "h" is acknowledged and not passed on.
MihServeNoHandover ==
    /\ requests # <<>>
    /\ LET r == Head(requests) IN
       /\ requests' = Tail(requests)
       /\ answers' = IF r.live THEN Append(answers, Reply(r)) ELSE answers
       /\ mip_if' = IF r.cmd = "m" THEN Device(r.iface) ELSE mip_if
    /\ UNCHANGED <<tblVars, polVars, trigVars, peVars, locVars, info_sock, events, links, hip_if, frame>>

\* The acknowledgement of "h" and "m" follows the call of send_hipd() or
\* send_mip6d(), whether or not the command reached the daemon.
MihServe ==
    /\ requests # <<>>
    /\ LET r == Head(requests) IN
       /\ requests' = Tail(requests)
       /\ answers' = IF r.live THEN Append(answers, Reply(r)) ELSE answers
       /\ hip_if' = IF r.cmd = "h" THEN Device(r.iface) ELSE hip_if
       /\ mip_if' = IF r.cmd = "m" THEN Device(r.iface) ELSE mip_if
    /\ UNCHANGED <<tblVars, polVars, trigVars, peVars, locVars, info_sock, events, links, frame>>

LinkChange(i) ==
    /\ links' = IF i \in links THEN links \ {i} ELSE links \cup {i}
    /\ events' = IF events < EventCap THEN events + 1 ELSE events
    /\ Disturb
    /\ UNCHANGED <<tblVars, polVars, trigVars, peVars, locVars, infoVars, hip_if, mip_if>>

-----------------------------------------------------------------------------
ConmgrStep == LinkConnection \/ UnlinkConnection \/ RemoveDone

LocmgrStep == DumpRequest \/ DumpConnections \/ LocationTrigger

PeStep == PeCheck \/ PeLock \/ PeNext \/ PeClear

MainStep == ParsePolicies \/ DumpPolicies \/ ParseTrigger \/ UnlockAgain \/ StartPolicyEngine

Next ==
    \/ \E t \in Evaluators : EvaluateStep(t)
    \/ \E pid \in Pids, fd \in Fds, kind \in Kinds : AddConnection(pid, fd, kind)
    \/ \E k \in Key : RemoveConnection(k)
    \/ ConmgrStep
    \/ PeStep
    \/ MainStep
    \/ \E l \in Locations : SetLocation(l)
    \/ LocmgrStep
    \/ NetworkEvent
    \/ MihServe
    \/ \E i \in Interfaces : LinkChange(i)

Spec == Init /\ [][Next]_vars

\* Every thread that can go on does: an evaluation waits for an answer at
\* most until its receive timeout.
FairSpec ==
    /\ Spec
    /\ \A t \in Evaluators : WF_vars(EvaluateStep(t))
    /\ WF_vars(ConmgrStep)
    /\ WF_vars(PeNext)

-----------------------------------------------------------------------------
(***************************************************************************)
(* Properties                                                              *)
(***************************************************************************)
\* evaluate() is "not thread safe, need con_tbl_mutex to be locked": whoever
\* is in it holds con_tbl_mutex, so the two threads that evaluate are never
\* in netmgr_send_info(), which has no lock of its own, at the same time.
EvaluationSerialized ==
    \A t \in Evaluators : frame[t].phase # "none" => con_tbl_mutex = t

\* The entry evaluate_all() is at stays in the table until it has been
\* evaluated, although the connection manager adds and removes entries.
CursorInTable == pe = "evaluate" => cursor \in DOMAIN con_tbl

\* An answer waiting at the info socket belongs to the request that the
\* evaluating thread is waiting for, never to an earlier one that timed out;
\* and nothing is left there between evaluations.
AnswerMatchesRequest ==
    \A i \in DOMAIN answers :
        /\ Len(answers) = 1
        /\ \E t \in Evaluators :
              /\ frame[t].phase = answers[i].cmd
              /\ IfaceAt(frame[t].pos) = answers[i].iface

\* When a rule is recorded as active for a HIP or an IPv6 connection, its
\* interface's device is the one the MIH user's last command to the HIP or MIPv6
\* daemon names, although "h" and "m" requests that timed out may still have been
\* queued.
RecordedRuleIsApplied ==
    [][\A t \in Evaluators :
          InterfaceSet(t) =>
              Device(IfaceAt(frame[t].pos)) =
                  IF Conn(t).kind = "hip" THEN hip_if ELSE mip_if]_vars

\* An evaluation during which no link changed and every request was answered
\* leaves the first usable rule of the last policy that has a usable one in
\* active_rule, and the previous value when there is none.
EvaluationChooses ==
    \A t \in Evaluators :
        frame[t].phase = "done" /\ frame[t].calm =>
            Conn(t).active_rule =
                IF policies_loaded
                THEN ChosenRule(DescOf[Conn(t).pid], Conn(t).seen, links, frame[t].old)
                ELSE frame[t].old

\* When all threads are back in their loops and no trigger is pending, the
\* latest evaluation of every connection saw the current location, unless
\* a trigger was set while evaluate_all() ran and then cleared with it.
QuietTableIsCurrent ==
    (pe = "idle" /\ ~need_evaluation /\ locmgr = "select" /\ conmgr = "select" /\ ~swallowed) =>
        \A i \in DOMAIN con_tbl : con_tbl[i].seen = location

\* con_tbl_mutex is always released again: an evaluation ends even when the
\* MIH user never answers.
TableMutexReleased ==
    \A t \in Evaluators : con_tbl_mutex = t ~> con_tbl_mutex # t

\* "only one metux to protect all policy evaluation" (pe.c:46): a thread that
\* walks the policy list holds policy_mutex.
PolicyWalkLocked ==
    \A t \in Evaluators : frame[t].phase \in Waiting => policy_mutex = t

-----------------------------------------------------------------------------
(***************************************************************************)
(* The inductive invariant behind EvaluationSerialized, CursorInTable,     *)
(* AnswerMatchesRequest and RecordedRuleIsApplied.                         *)
(***************************************************************************)
\* Who holds con_tbl_mutex is told by the threads' control states, and a
\* thread is in evaluate() exactly where its caller says so; the policy
\* engine's thread runs once the main thread has started it.
MutexInv ==
    /\ con_tbl_mutex = "conmgr" <=> conmgr # "select"
    /\ con_tbl_mutex = "pe" <=> pe = "evaluate"
    /\ frame["conmgr"].phase # "none" <=> conmgr = "add"
    /\ frame["pe"].phase # "none" <=> pe = "evaluate"
    /\ pe = "none" <=> main # "wait"

\* A request is only made about a rule of the list, and only to the daemon
\* that the connection's address calls for.
KindInv ==
    \A t \in Evaluators :
        /\ frame[t].phase \in Waiting => frame[t].pos \in Positions
        /\ frame[t].phase \in {"h", "g"} => Conn(t).kind = "hip"
        /\ frame[t].phase = "m" => Conn(t).kind = "ipv6"

\* Thread t is waiting for the answer to a request like m.
Asks(t, m) == frame[t].phase = m.cmd /\ IfaceAt(frame[t].pos) = m.iface

\* At most the last request queued at the MIH user can still be answered, it
\* is the one being waited for, and once it is answered none is queued.
QueueInv ==
    /\ \A i \in DOMAIN requests :
          requests[i].live => /\ i = Len(requests)
                              /\ answers = <<>>
                              /\ \E t \in Evaluators : Asks(t, requests[i])
    /\ answers # <<>> => requests = <<>>
    /\ AnswerMatchesRequest

\* From the acknowledgement of a hand-over to the end of the rule's requests
\* no other hand-over can happen.
HandoverInv ==
    \A t \in Evaluators :
        /\ frame[t].phase = "h" /\ answers # <<>> => hip_if = Device(IfaceAt(frame[t].pos))
        /\ frame[t].phase = "g" => /\ hip_if = Device(IfaceAt(frame[t].pos))
                                   /\ \A i \in DOMAIN requests : requests[i].cmd # "h"
        /\ frame[t].phase = "m" /\ answers # <<>> => mip_if = Device(IfaceAt(frame[t].pos))

\* The invariant the proofs of PolicyEngineProofs are by: the mutex, the
\* table walk, the queue of requests and the hand-over, together.
EngineInv ==
    /\ TypeOK
    /\ MutexInv
    /\ CursorInTable
    /\ KindInv
    /\ QueueInv
    /\ HandoverInv
=============================================================================
