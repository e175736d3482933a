------------------------- MODULE PolicyEngineProofs -------------------------
(***************************************************************************)
(* Proofs about the policy engine, for every policy file, every set of     *)
(* processes, descriptors and interfaces, and every bound on the queues.   *)
(* EngineInv is inductive by itself; FreshInv, for the location the table  *)
(* was evaluated with, and ChoiceInv, for the rule an evaluation leaves,   *)
(* are inductive together with it.                                         *)
(***************************************************************************)
EXTENDS PolicyEngineLemmas

-----------------------------------------------------------------------------
(***************************************************************************)
(* The triggers, the main thread and the MIH user.                         *)
(***************************************************************************)
\* A trigger sets two flags; whatever else the thread does, it leaves the
\* table and the evaluations alone.
LEMMA TriggerKeeps ==
    ASSUME EngineInv,
           \/ \E l \in Locations : SetLocation(l)
           \/ LocmgrStep \/ NetworkEvent
    PROVE  EngineInv'
<1>. USE DEF EngineInv
<1>1. UNCHANGED <<tblVars, polVars, peVars, infoVars, links, hip_if, mip_if, frame>>
  BY Zenon DEF SetLocation, LocmgrStep, DumpRequest, DumpConnections, LocationTrigger, NetworkEvent, mihVars
<1>2. KindInv' /\ QueueInv' /\ HandoverInv'
  BY <1>1, QuietStep, Zenon DEF tblVars, peVars, infoVars
<1>3. MutexInv' /\ CursorInTable'
  BY <1>1, Zenon DEF MutexInv, CursorInTable, tblVars, polVars, peVars
<1>4. /\ location' \in Locations /\ locmgr' \in {"select", "trigger", "dump"} /\ events' \in Nat
      /\ need_evaluation' \in BOOLEAN /\ swallowed' \in BOOLEAN
  <2>1. CASE \E l \in Locations : SetLocation(l)
    BY <2>1, Zenon DEF TypeOK, SetLocation, mihVars, trigVars
  <2>2. CASE LocationTrigger
    BY <2>2, Zenon DEF TypeOK, LocationTrigger, Trigger, mihVars
  <2>3. CASE NetworkEvent
    <3>1. events' \in Nat
      BY <2>3, SMTT(40) DEF TypeOK, NetworkEvent
    <3>. QED
      BY <2>3, <3>1, Zenon DEF TypeOK, NetworkEvent, Trigger, locVars
  <2>4. CASE DumpRequest \/ DumpConnections
    BY <2>4, Zenon DEF TypeOK, DumpRequest, DumpConnections, mihVars, trigVars
  <2>. QED
    BY <2>1, <2>2, <2>3, <2>4, Zenon DEF LocmgrStep
<1>5. TypeOK'
  BY <1>1, <1>4, SMTT(40) DEF TypeOK, tblVars, polVars, peVars, infoVars
<1>. QED
  BY <1>2, <1>3, <1>5, Zenon

\* A change of what the evaluations read marks them as disturbed and leaves
\* them where they are.
LEMMA DisturbKeeps ==
    ASSUME EngineInv, Disturb, UNCHANGED <<tblVars, peVars, infoVars, hip_if, mip_if>>,
           pe = "none" <=> main' # "wait"
    PROVE  /\ frame' \in [Evaluators -> Frame]
           /\ MutexInv' /\ CursorInTable' /\ KindInv' /\ QueueInv' /\ HandoverInv'
<1>. USE DEF EngineInv
<1>1. frame \in [Evaluators -> Frame]
  BY Zenon DEF TypeOK
<1>2. \A t \in Evaluators :
          /\ frame'[t] = [frame[t] EXCEPT !.calm = (frame[t].phase = "none")]
          /\ frame[t] \in Frame
  BY <1>1, Zenon DEF Disturb
<1>3. \A t \in Evaluators :
          /\ frame'[t] \in Frame
          /\ frame'[t].phase = frame[t].phase /\ frame'[t].pos = frame[t].pos
  BY <1>2, Zenon DEF Frame
<1>4. frame' \in [Evaluators -> Frame]
  BY <1>3, Zenon DEF Disturb
<1>5. MutexInv' /\ CursorInTable'
  BY <1>3, Zenon DEF MutexInv, CursorInTable, tblVars, peVars, Evaluators
<1>6. \A t \in Evaluators : Conn(t)' = Conn(t)
  BY Zenon DEF Conn, tblVars, peVars
<1>7. KindInv'
  BY <1>3, <1>6, Zenon DEF KindInv
<1>8. QueueInv' /\ HandoverInv'
  BY <1>3, SMTT(40) DEF QueueInv, HandoverInv, AnswerMatchesRequest, Asks, infoVars
<1>. QED
  BY <1>4, <1>5, <1>7, <1>8, Zenon

\* The steps of init_policy_engine(), the second unlock included.
LEMMA MainKeeps ==
    ASSUME EngineInv, MainStep
    PROVE  EngineInv'
<1>. USE DEF EngineInv
<1>1. CASE ParsePolicies
  <2>1. pe = "none" <=> main' # "wait"
    BY <1>1, Zenon DEF ParsePolicies, MutexInv
  <2>2. /\ Disturb
        /\ UNCHANGED <<tblVars, policy_mutex, trigVars, peVars, locVars, infoVars, mihVars>>
        /\ policies_loaded' \in BOOLEAN /\ main' \in {"dump", "start"}
    BY <1>1, Zenon DEF ParsePolicies
  <2>3. UNCHANGED <<tblVars, peVars, infoVars, hip_if, mip_if>>
    BY <2>2, Zenon DEF mihVars
  <2>4. /\ frame' \in [Evaluators -> Frame]
        /\ MutexInv' /\ CursorInTable' /\ KindInv' /\ QueueInv' /\ HandoverInv'
    BY <2>1, <2>2, <2>3, DisturbKeeps, Zenon
  <2>5. TypeOK'
    BY <2>2, <2>4, SMTT(40) DEF TypeOK, tblVars, trigVars, peVars, locVars, infoVars, mihVars
  <2>. QED
    BY <2>4, <2>5, Zenon
<1>2. CASE DumpPolicies \/ ParseTrigger \/ UnlockAgain \/ StartPolicyEngine
  <2>1. UNCHANGED <<tblVars, policies_loaded, cursor, locVars, infoVars, mihVars, frame>>
    BY <1>2, Zenon DEF DumpPolicies, ParseTrigger, UnlockAgain, StartPolicyEngine, peVars
  <2>2. KindInv' /\ QueueInv' /\ HandoverInv'
    BY <2>1, QuietStep, Zenon DEF tblVars, infoVars, mihVars
  <2>3. pe' # "evaluate" /\ pe # "evaluate" /\ (pe' = "none" <=> main' # "wait")
    BY <1>2, Zenon DEF DumpPolicies, ParseTrigger, UnlockAgain, StartPolicyEngine, MutexInv, peVars
  <2>4. MutexInv' /\ CursorInTable'
    BY <2>1, <2>3, Zenon DEF MutexInv, CursorInTable, tblVars
  <2>5. /\ policy_mutex' \in Evaluators \cup {Nobody}
        /\ main' \in {"trigger", "unlock", "start", "wait"}
        /\ pe' \in {"none", "idle", "lock", "evaluate", "clear"}
        /\ need_evaluation' \in BOOLEAN /\ swallowed' \in BOOLEAN
    BY <1>2, Zenon DEF TypeOK, DumpPolicies, ParseTrigger, UnlockAgain, StartPolicyEngine, Trigger, trigVars,
                peVars
  <2>6. TypeOK'
    BY <2>1, <2>5, SMTT(40) DEF TypeOK, tblVars, locVars, infoVars, mihVars
  <2>. QED
    BY <2>2, <2>4, <2>6, Zenon
<1>. QED
  BY <1>1, <1>2, Zenon DEF MainStep

\* A link indication at the MIH user.
LEMMA LinkChangeKeeps ==
    ASSUME EngineInv, NEW i \in Interfaces, LinkChange(i)
    PROVE  EngineInv'
<1>. USE DEF EngineInv
<1>1. /\ Disturb /\ UNCHANGED <<tblVars, polVars, trigVars, peVars, locVars, infoVars, hip_if, mip_if>>
      /\ links' \in SUBSET Interfaces /\ events' \in Nat
  BY SMTT(40) DEF LinkChange, TypeOK
<1>2. pe = "none" <=> main' # "wait"
  BY <1>1, Zenon DEF MutexInv, polVars
<1>3. /\ frame' \in [Evaluators -> Frame]
      /\ MutexInv' /\ CursorInTable' /\ KindInv' /\ QueueInv' /\ HandoverInv'
  BY <1>1, <1>2, DisturbKeeps, Zenon
<1>4. TypeOK'
  BY <1>1, <1>3, SMTT(40) DEF TypeOK, tblVars, polVars, trigVars, peVars, locVars, infoVars
<1>. QED
  BY <1>3, <1>4, Zenon

\* The MIH user answers only the request that is waited for, and what it
\* hands over before that answer is what the request names.
LEMMA MihServeKeeps ==
    ASSUME EngineInv, MihServe
    PROVE  EngineInv'
<1>. USE DEF EngineInv
<1>. DEFINE r == Head(requests)
<1>1. /\ requests # <<>> /\ requests \in Seq(Request) /\ answers \in Seq(Answer)
      /\ answers = <<>>
  BY Zenon DEF MihServe, TypeOK, QueueInv
<1>2. /\ requests' = Tail(requests)
      /\ answers' = IF r.live THEN Append(answers, Reply(r)) ELSE answers
      /\ hip_if' = IF r.cmd = "h" THEN Device(r.iface) ELSE hip_if
      /\ mip_if' = IF r.cmd = "m" THEN Device(r.iface) ELSE mip_if
      /\ UNCHANGED <<tblVars, polVars, trigVars, peVars, locVars, info_sock, events, links, frame>>
  BY Zenon DEF MihServe
<1>3. /\ r \in Request /\ r = requests[1] /\ 1 \in DOMAIN requests
      /\ requests' \in Seq(Request) /\ Len(requests') = Len(requests) - 1
      /\ \A i \in DOMAIN requests' : /\ i + 1 \in DOMAIN requests
                                     /\ requests'[i] = requests[i + 1]
  BY <1>1, <1>2, HeadTailProperties, SMTT(40)
<1>4. Reply(r) \in Answer /\ Reply(r).cmd = r.cmd /\ Reply(r).iface = r.iface
  BY <1>3, Zenon DEF Reply, Answer, Request
<1>. HIDE DEF r
<1>5. MutexInv' /\ CursorInTable'
  BY <1>2, Zenon DEF MutexInv, CursorInTable, tblVars, polVars, peVars
<1>6. KindInv'
  <2>1. \A t \in Evaluators : Conn(t)' = Conn(t)
    BY <1>2, Zenon DEF Conn, tblVars, peVars
  <2>. QED
    BY <1>2, <2>1, Zenon DEF KindInv
<1>7. CASE r.live
  <2>1. /\ Len(requests) = 1
        /\ \E t \in Evaluators : Asks(t, r)
    BY <1>3, <1>7, Zenon DEF QueueInv
  <2>2. PICK t \in Evaluators : Asks(t, r)
    BY <2>1, Zenon
  <2>3. requests' = <<>>
    BY <1>3, <2>1, EmptySeq
  <2>4. /\ answers' = <<Reply(r)>> /\ answers' \in Seq(Answer)
        /\ Len(answers') = 1 /\ DOMAIN answers' = {1} /\ answers'[1] = Reply(r)
    BY <1>1, <1>2, <1>4, <1>7, SMTT(40)
  <2>5. QueueInv'
    <3>1. AnswerMatchesRequest'
      BY <1>2, <1>4, <2>2, <2>4, Zenon DEF AnswerMatchesRequest, Asks
    <3>. QED
      BY <2>3, <3>1 DEF QueueInv
  <2>6. \A u \in Evaluators : u # t => frame[u].phase = "none"
    BY <1>3, <2>2, OneEvaluation, Zenon DEF Asks, Request, Waiting
  <2>7. HandoverInv'
    <3>. SUFFICES ASSUME NEW u \in Evaluators, frame[u].phase \in Waiting
                  PROVE  /\ frame[u].phase = "h" => hip_if' = Device(IfaceAt(frame[u].pos))
                         /\ frame[u].phase = "g" => hip_if' = Device(IfaceAt(frame[u].pos))
                         /\ frame[u].phase = "m" => mip_if' = Device(IfaceAt(frame[u].pos))
      BY <1>2, <2>3, SMTT(40) DEF HandoverInv, Waiting
    <3>1. frame[u].phase = r.cmd /\ IfaceAt(frame[u].pos) = r.iface
      BY <2>2, <2>6, Zenon DEF Asks, Waiting
    <3>. QED
      BY <1>2, <3>1, Zenon DEF HandoverInv
  <2>8. TypeOK'
    <3>1. hip_if' \in Devices \cup {NoIface} /\ mip_if' \in Devices \cup {NoIface}
      BY <1>2, <1>3, Zenon DEF TypeOK, Request, Devices
    <3>2. TypeOK
      BY Zenon
    <3>. QED
      BY ONLY <1>2, <1>3, <2>4, <3>1, <3>2, SMTT(40) DEF TypeOK, tblVars, polVars, trigVars, peVars, locVars
  <2>. QED
    BY <1>5, <1>6, <2>5, <2>7, <2>8, Zenon
<1>8. CASE ~r.live
  <2>1. answers' = <<>> /\ answers' \in Seq(Answer)
    BY <1>1, <1>2, <1>8, Zenon
  <2>2. QueueInv'
    <3>1. AnswerMatchesRequest'
      BY <2>1 DEF AnswerMatchesRequest
    <3>2. ASSUME NEW i \in DOMAIN requests', requests'[i].live
          PROVE  i = Len(requests') /\ \E t \in Evaluators : Asks(t, requests[i])'
      <4>1. i + 1 = Len(requests) /\ \E t \in Evaluators : Asks(t, requests[i + 1])
        BY <1>3, <3>2, Zenon DEF QueueInv
      <4>2. i = Len(requests')
        BY <1>1, <1>3, <4>1
      <4>3. PICK t \in Evaluators : Asks(t, requests[i + 1])
        BY <4>1, Zenon
      <4>4. frame' = frame /\ requests'[i] = requests[i + 1]
        BY <1>2, <1>3, Zenon
      <4>5. Asks(t, requests[i])'
        BY <4>3, <4>4, Zenon DEF Asks
      <4>. QED
        BY <4>2, <4>5, Zenon
    <3>. QED
      BY <2>1, <3>1, <3>2, Zenon DEF QueueInv
  <2>3. HandoverInv'
    <3>. SUFFICES ASSUME NEW u \in Evaluators, frame[u].phase = "g"
                  PROVE  /\ hip_if' = Device(IfaceAt(frame[u].pos))
                         /\ \A i \in DOMAIN requests' : requests'[i].cmd # "h"
      BY <1>2, <2>1, Zenon DEF HandoverInv
    <3>1. /\ hip_if = Device(IfaceAt(frame[u].pos))
          /\ \A i \in DOMAIN requests : requests[i].cmd # "h"
      BY Zenon DEF HandoverInv
    <3>. QED
      BY <1>2, <1>3, <3>1, Zenon
  <2>4. TypeOK'
    <3>1. hip_if' \in Devices \cup {NoIface} /\ mip_if' \in Devices \cup {NoIface}
      BY <1>2, <1>3, Zenon DEF TypeOK, Request, Devices
    <3>2. TypeOK
      BY Zenon
    <3>. QED
      BY ONLY <1>2, <1>3, <2>1, <3>1, <3>2, SMTT(40) DEF TypeOK, tblVars, polVars, trigVars, peVars, locVars
  <2>. QED
    BY <1>5, <1>6, <2>2, <2>3, <2>4, Zenon
<1>. QED
  BY <1>7, <1>8, Zenon

-----------------------------------------------------------------------------
(***************************************************************************)
(* The results.                                                            *)
(***************************************************************************)
\* The initial states satisfy the invariant.
LEMMA InitEstablishes == Init => EngineInv
<1>. SUFFICES ASSUME Init
              PROVE  EngineInv
  BY Zenon
<1>1. NoFrame \in Frame /\ NoFrame.phase = "none"
  BY Zenon DEF NoFrame, Frame, Phases
<1>2. \A t \in Evaluators : frame[t].phase = "none"
  BY <1>1, Zenon DEF Init
<1>3. TypeOK
  <2>1. frame \in [Evaluators -> Frame]
    BY <1>1, Zenon DEF Init
  <2>2. con_tbl \in Seq(Connection) /\ requests \in Seq(Request) /\ answers \in Seq(Answer)
    BY DEF Init
  <2>3. new_conn \in Connection /\ victim \in Key /\ location \in Locations
    BY AnyConnectionType, EngineAssumption, Zenon DEF Init
  <2>4. policies_loaded \in BOOLEAN /\ need_evaluation \in BOOLEAN /\ info_sock \in BOOLEAN
        /\ swallowed \in BOOLEAN
    BY Zenon DEF Init
  <2>5. cursor \in Nat /\ events \in Nat
    BY Zenon DEF Init
  <2>. QED
    BY <2>1, <2>2, <2>3, <2>4, <2>5, Zenon DEF Init, TypeOK
<1>4. MutexInv /\ CursorInTable
  BY <1>2, Zenon DEF Init, MutexInv, CursorInTable, Evaluators, Nobody
<1>5. KindInv /\ HandoverInv
  BY <1>2, Zenon DEF KindInv, HandoverInv, Waiting
<1>6. QueueInv
  BY SMTT(40) DEF Init, QueueInv, AnswerMatchesRequest
<1>. QED
  BY <1>3, <1>4, <1>5, <1>6, Zenon DEF EngineInv

\* Every step keeps the invariant.
LEMMA NextKeeps == EngineInv /\ [Next]_vars => EngineInv'
<1>. SUFFICES ASSUME EngineInv, [Next]_vars
              PROVE  EngineInv'
  BY Zenon
<1>1. CASE Next
  BY <1>1, EvaluateKeeps, AddConnectionKeeps, LinkConnectionKeeps, RemoveConnectionKeeps,
     UnlinkConnectionKeeps, RemoveDoneKeeps, PeKeeps, MainKeeps, TriggerKeeps, MihServeKeeps,
     LinkChangeKeeps, Zenon DEF Next, ConmgrStep
<1>2. CASE UNCHANGED vars
  <2>1. UNCHANGED <<con_tbl, con_tbl_mutex, policies_loaded, policy_mutex, need_evaluation, location,
                    main, conmgr, new_conn, victim, pe, cursor, locmgr, frame, info_sock, requests,
                    answers, events, links, hip_if, mip_if, swallowed>>
    BY <1>2, Zenon DEF vars, tblVars, polVars, trigVars, peVars, locVars, infoVars, mihVars
  <2>2. TypeOK'
    BY <2>1, SMTT(40) DEF EngineInv, TypeOK
  <2>3. MutexInv' /\ CursorInTable'
    BY <2>1, Zenon DEF EngineInv, MutexInv, CursorInTable
  <2>4. KindInv' /\ QueueInv' /\ HandoverInv'
    BY <2>1, QuietStep, Zenon DEF EngineInv
  <2>. QED
    BY <2>2, <2>3, <2>4, Zenon DEF EngineInv
<1>. QED
  BY <1>1, <1>2, Zenon

\* The invariant holds in every reachable state, whatever the policy file, the
\* number of processes, descriptors and interfaces, and the socket buffers.
THEOREM EngineInvariant == Spec => []EngineInv
<1>. QED
  BY InitEstablishes, NextKeeps, PTL DEF Spec

\* Whoever is in evaluate() holds con_tbl_mutex.
THEOREM Serialized == Spec => []EvaluationSerialized
<1>1. EngineInv => EvaluationSerialized
  BY Zenon DEF EngineInv, MutexInv, EvaluationSerialized, Evaluators
<1>. QED
  BY EngineInvariant, <1>1, PTL

\* evaluate_all() never stands at an entry that has been freed.
THEOREM CursorStays == Spec => []CursorInTable
<1>1. EngineInv => CursorInTable
  BY Zenon DEF EngineInv
<1>. QED
  BY EngineInvariant, <1>1, PTL

\* A late answer of the MIH user is never taken for the answer to a later
\* request.
THEOREM AnswersMatch == Spec => []AnswerMatchesRequest
<1>1. EngineInv => AnswerMatchesRequest
  BY Zenon DEF EngineInv, QueueInv
<1>. QED
  BY EngineInvariant, <1>1, PTL

\* The rule recorded as active is the one whose interface was handed over
\* last.
THEOREM RecordedApplied == Spec => RecordedRuleIsApplied
<1>1. ASSUME EngineInv, NEW t \in Evaluators, InterfaceSet(t)
      PROVE  Device(IfaceAt(frame[t].pos)) = IF Conn(t).kind = "hip" THEN hip_if ELSE mip_if
  <2>1. answers # <<>> /\ frame[t].phase \in {"g", "m"}
    BY <1>1, Zenon DEF InterfaceSet, Answered
  <2>. QED
    BY <1>1, <2>1, Zenon DEF EngineInv, KindInv, HandoverInv
<1>2. EngineInv => [\A t \in Evaluators :
          InterfaceSet(t) =>
              Device(IfaceAt(frame[t].pos)) = IF Conn(t).kind = "hip" THEN hip_if ELSE mip_if]_vars
  BY <1>1, Zenon
<1>. QED
  BY EngineInvariant, <1>2, PTL DEF RecordedRuleIsApplied

\* Every variable keeps its type; in particular the table stays a list of
\* connections and no queue holds anything but its own messages.
THEOREM EngineTypes == Spec => []TypeOK
<1>1. EngineInv => TypeOK
  BY Zenon DEF EngineInv
<1>. QED
  BY EngineInvariant, <1>1, PTL

-----------------------------------------------------------------------------
(***************************************************************************)
(* The location the connections were evaluated with.                       *)
(***************************************************************************)
\* A trigger the policy engine's thread has not acted on yet.
Pending == need_evaluation /\ pe \in {"none", "idle", "lock"}

\* No location has been set that an evaluation is still to come for.
Settled == ~swallowed /\ locmgr # "trigger" /\ ~Pending

HasRead(t) == frame[t].phase \notin {"none", "location"}

\* need_evaluation stays set until evaluate_all() has returned; and a settled
\* location is the one that all evaluations have read, those of a walk of the
\* table in progress up to where it is.
FreshInv ==
    /\ pe \in {"lock", "evaluate", "clear"} => need_evaluation
    /\ Settled =>
          /\ \A i \in DOMAIN con_tbl : (pe = "evaluate" => i < cursor) => con_tbl[i].seen = location
          /\ \A t \in Evaluators : HasRead(t) => Conn(t).seen = location

\* A step that neither moves the walk nor changes what was read.
LEMMA FreshStays ==
    ASSUME FreshInv,
           pe' \in {"lock", "evaluate", "clear"} => need_evaluation',
           Settled' => Settled /\ location' = location,
           cursor' = cursor, pe' = "evaluate" <=> pe = "evaluate",
           DOMAIN con_tbl' = DOMAIN con_tbl,
           \A i \in DOMAIN con_tbl : con_tbl'[i].seen = con_tbl[i].seen,
           \A t \in Evaluators : HasRead(t)' => HasRead(t) /\ Conn(t)'.seen = Conn(t).seen
    PROVE  FreshInv'
<1>1. ASSUME Settled' PROVE \A i \in DOMAIN con_tbl' : (pe' = "evaluate" => i < cursor') => con_tbl'[i].seen = location'
  BY <1>1, Zenon DEF FreshInv
<1>2. ASSUME Settled', NEW t \in Evaluators, HasRead(t)' PROVE Conn(t)'.seen = location'
  BY <1>2, Zenon DEF FreshInv
<1>. QED
  BY <1>1, <1>2, Zenon DEF FreshInv

\* A step of evaluate() is one of its own thread.
LEMMA OwnFrame ==
    ASSUME TypeOK, NEW t \in Evaluators, EvaluateStep(t)
    PROVE  \A u \in Evaluators : u # t => frame'[u] = frame[u]
<1>1. \E g : frame' = [frame EXCEPT ![t] = g]
  BY Zenon DEF EvaluateStep, EvaluateLocation, EvaluatePolicies, RuleDown, RuleUp, HipConfirm, InterfaceSet,
               NoAnswer, Activate, TryRules, Await
<1>. QED
  BY <1>1, Zenon DEF TypeOK

\* Recording a rule leaves the location of the evaluation.
LEMMA RecordingKeepsSeen ==
    ASSUME EngineInv, NEW t \in Evaluators, frame[t].phase # "none", frame[t].pos \in Positions,
           SetConn(t, [Conn(t) EXCEPT !.active_rule = RuleID(frame[t].pos)]), cursor' = cursor
    PROVE  /\ DOMAIN con_tbl' = DOMAIN con_tbl
           /\ \A i \in DOMAIN con_tbl : con_tbl'[i].seen = con_tbl[i].seen
           /\ Conn(t)' = [Conn(t) EXCEPT !.active_rule = RuleID(frame[t].pos)]
           /\ Conn(t)'.active_rule = RuleID(frame[t].pos)
           /\ Conn(t)'.seen = Conn(t).seen /\ Conn(t)'.pid = Conn(t).pid
<1>. DEFINE c == [Conn(t) EXCEPT !.active_rule = RuleID(frame[t].pos)]
<1>1. Conn(t) \in Connection
  BY ConnType, Zenon DEF EngineInv
<1>2. /\ c \in Connection /\ c.active_rule = RuleID(frame[t].pos)
      /\ c.seen = Conn(t).seen /\ c.pid = Conn(t).pid
  BY <1>1, PositionTypes, Zenon DEF Connection
<1>. HIDE DEF c
<1>3. DOMAIN con_tbl' = DOMAIN con_tbl /\ Conn(t)' = c
  BY <1>2, SetConnKeeps, Zenon DEF EngineInv, c
<1>4. CASE t = "pe"
  <2>1. con_tbl' = [con_tbl EXCEPT ![cursor] = c] /\ con_tbl[cursor] = Conn(t)
    BY <1>4, Zenon DEF SetConn, Conn, c
  <2>2. con_tbl'[cursor] = c
    BY <1>3, <1>4, Zenon DEF Conn
  <2>3. \A i \in DOMAIN con_tbl : i # cursor => con_tbl'[i] = con_tbl[i]
    BY <2>1, Zenon
  <2>4. \A i \in DOMAIN con_tbl : con_tbl'[i].seen = con_tbl[i].seen
    BY <1>2, <2>1, <2>2, <2>3, Zenon
  <2>. QED
    BY <1>2, <1>3, <2>4, Zenon DEF c
<1>5. CASE t # "pe"
  <2>1. con_tbl' = con_tbl
    BY <1>5, Zenon DEF SetConn
  <2>. QED
    BY <1>2, <1>3, <2>1, Zenon DEF c
<1>. QED
  BY <1>4, <1>5, Zenon

\* The steps of evaluate() behind the one that reads the location.
LEMMA FreshEvaluate ==
    ASSUME EngineInv, FreshInv, NEW t \in Evaluators, EvaluateStep(t), ~EvaluateLocation(t)
    PROVE  FreshInv'
<1>1. /\ HasRead(t) /\ frame[t].phase # "none"
      /\ UNCHANGED <<pe, cursor, need_evaluation, swallowed, location, locmgr>>
  BY Zenon DEF EvaluateStep, EvaluatePolicies, RuleDown, RuleUp, HipConfirm, InterfaceSet, NoAnswer, Answered,
               HasRead, Waiting, peVars, trigVars, locVars
<1>2. \A u \in Evaluators : HasRead(u)' => u = t
  BY <1>1, OneEvaluation, OwnFrame, Zenon DEF HasRead, EngineInv
<1>3. /\ DOMAIN con_tbl' = DOMAIN con_tbl
      /\ \A i \in DOMAIN con_tbl : con_tbl'[i].seen = con_tbl[i].seen
      /\ Conn(t)'.seen = Conn(t).seen
  <2>1. CASE UNCHANGED <<con_tbl, new_conn>>
    BY <1>1, <2>1, Zenon DEF Conn
  <2>2. CASE Activate(t) /\ frame[t].phase \in Waiting
    <3>1. frame[t].pos \in Positions
      BY <2>2, Zenon DEF EngineInv, KindInv
    <3>2. SetConn(t, [Conn(t) EXCEPT !.active_rule = RuleID(frame[t].pos)])
      BY <2>2, Zenon DEF Activate
    <3>. QED
      BY <1>1, <3>1, <3>2, RecordingKeepsSeen, Zenon
  <2>. QED
    BY <2>1, <2>2, Zenon DEF EvaluateStep, EvaluatePolicies, RuleDown, RuleUp, HipConfirm, InterfaceSet, NoAnswer,
                             Answered, tblVars
<1>4. Settled' => Settled
  BY <1>1, Zenon DEF Settled, Pending
<1>5. pe' \in {"lock", "evaluate", "clear"} => need_evaluation'
  BY <1>1, Zenon DEF FreshInv
<1>. QED
  BY <1>1, <1>2, <1>3, <1>4, <1>5, FreshStays, Zenon

\* evaluate() copies the location.
LEMMA FreshLocation ==
    ASSUME EngineInv, FreshInv, NEW t \in Evaluators, EvaluateLocation(t)
    PROVE  FreshInv'
<1>. DEFINE c == [Conn(t) EXCEPT !.seen = location]
<1>1. /\ frame[t].phase # "none" /\ SetConn(t, c)
      /\ UNCHANGED <<pe, cursor, need_evaluation, swallowed, location, locmgr>>
  BY Zenon DEF EvaluateLocation, peVars, trigVars, locVars
<1>2. c \in Connection /\ c.seen = location
  <2>1. Conn(t) \in Connection /\ location \in Locations
    BY <1>1, ConnType, Zenon DEF EngineInv, TypeOK
  <2>. QED
    BY <2>1, Zenon DEF Connection
<1>. HIDE DEF c
<1>3. DOMAIN con_tbl' = DOMAIN con_tbl /\ Conn(t)' = c
  BY <1>1, <1>2, SetConnKeeps, Zenon DEF EngineInv
<1>4. \A u \in Evaluators : HasRead(u)' => u = t
  BY <1>1, OneEvaluation, OwnFrame, Zenon DEF HasRead, EngineInv, EvaluateStep
<1>5. ASSUME NEW i \in DOMAIN con_tbl, pe = "evaluate" => i < cursor PROVE con_tbl'[i] = con_tbl[i]
  <2>1. CASE t = "pe"
    <3>1. con_tbl' = [con_tbl EXCEPT ![cursor] = c] /\ pe = "evaluate"
      BY <1>1, <2>1, OneEvaluation, Zenon DEF SetConn, EngineInv
    <3>2. i # cursor
      <4>1. i < cursor /\ cursor \in Nat
        BY <1>5, <3>1, Zenon DEF EngineInv, TypeOK
      <4>. QED
        BY <4>1
    <3>. QED
      BY <3>1, <3>2, Zenon
  <2>2. CASE t # "pe"
    BY <1>1, <2>2, Zenon DEF SetConn
  <2>. QED
    BY <2>1, <2>2, Zenon
<1>6. Settled' => Settled
  BY <1>1, Zenon DEF Settled, Pending
<1>7. ASSUME Settled', NEW i \in DOMAIN con_tbl', pe' = "evaluate" => i < cursor'
      PROVE  con_tbl'[i].seen = location'
  BY <1>1, <1>3, <1>5, <1>6, <1>7, Zenon DEF FreshInv
<1>8. \A u \in Evaluators : HasRead(u)' => Conn(u)'.seen = location'
  BY <1>1, <1>2, <1>3, <1>4, Zenon
<1>. QED
  BY <1>1, <1>7, <1>8, Zenon DEF FreshInv

\* add_connection() begins and ends, remove_connection() takes entries out: the
\* others keep what they have read.
LEMMA FreshConmgr ==
    ASSUME EngineInv, FreshInv,
           \/ \E pid \in Pids, fd \in Fds, kind \in Kinds : AddConnection(pid, fd, kind)
           \/ \E k \in Key : RemoveConnection(k)
           \/ ConmgrStep
    PROVE  FreshInv'
<1>1. /\ UNCHANGED <<pe, cursor, need_evaluation, swallowed, location, locmgr>>
      /\ con_tbl_mutex = Nobody \/ con_tbl_mutex = "conmgr"
  BY Zenon DEF AddConnection, RemoveConnection, ConmgrStep, LinkConnection, UnlinkConnection, RemoveDone,
               peVars, trigVars, locVars, EngineInv, MutexInv
<1>2. pe # "evaluate" /\ frame["pe"].phase = "none"
  BY <1>1, Zenon DEF EngineInv, MutexInv, Nobody
<1>3. Settled' => Settled
  BY <1>1, Zenon DEF Settled, Pending
<1>4. frame'["pe"] = frame["pe"]
  <2>1. frame \in [Evaluators -> Frame] /\ "pe" \in Evaluators /\ "pe" # "conmgr"
    BY Zenon DEF EngineInv, TypeOK, Evaluators
  <2>. QED
    BY <2>1, Zenon DEF AddConnection, RemoveConnection, ConmgrStep, LinkConnection, UnlinkConnection, RemoveDone,
               EnterEvaluate
<1>5. \A t \in Evaluators : HasRead(t)' => t = "conmgr"
  BY <1>2, <1>4, Zenon DEF HasRead, Evaluators
<1>6. SUFFICES /\ ~HasRead("conmgr")' \/ (HasRead("conmgr") /\ new_conn' = new_conn)
               /\ \A i \in DOMAIN con_tbl' : \/ \E j \in DOMAIN con_tbl : con_tbl'[i] = con_tbl[j]
                                             \/ con_tbl'[i] = new_conn /\ HasRead("conmgr")
  <2>1. ASSUME Settled PROVE /\ \A i \in DOMAIN con_tbl : con_tbl[i].seen = location
                             /\ HasRead("conmgr") => new_conn.seen = location
    <3>1. "conmgr" \in Evaluators /\ Conn("conmgr") = new_conn
      BY Zenon DEF Evaluators, Conn
    <3>. QED
      BY <1>2, <2>1, <3>1, Zenon DEF FreshInv
  <2>2. ASSUME Settled' PROVE \A i \in DOMAIN con_tbl' : con_tbl'[i].seen = location'
    BY <1>1, <1>3, <1>6, <2>1, <2>2, Zenon
  <2>3. ASSUME Settled', HasRead("conmgr")' PROVE Conn("conmgr")'.seen = location'
    <3>1. Conn("conmgr")' = new_conn'
      BY Zenon DEF Conn
    <3>. QED
      BY <1>1, <1>3, <1>6, <2>1, <2>3, <3>1, Zenon
  <2>4. pe' \in {"lock", "evaluate", "clear"} => need_evaluation'
    BY <1>1, Zenon DEF FreshInv
  <2>. QED
    BY <1>5, <2>2, <2>3, <2>4, Zenon DEF FreshInv
<1>7. CASE \E pid \in Pids, fd \in Fds, kind \in Kinds : AddConnection(pid, fd, kind)
  <2>1. con_tbl' = con_tbl /\ \E conn : EnterEvaluate("conmgr", conn)
    BY <1>7, Zenon DEF AddConnection
  <2>2. frame'["conmgr"].phase = "location"
    BY <2>1, CallBegins, Zenon DEF EngineInv, TypeOK, Evaluators
  <2>. QED
    BY <2>1, <2>2, Zenon DEF HasRead
<1>8. CASE (\E k \in Key : RemoveConnection(k)) \/ RemoveDone
  BY <1>8, Zenon DEF RemoveConnection, RemoveDone, HasRead
<1>9. CASE LinkConnection
  <2>1. /\ frame'["conmgr"].phase = "none" /\ frame["conmgr"].phase = "done"
        /\ con_tbl' = Append(con_tbl, new_conn) /\ con_tbl \in Seq(Connection)
    BY <1>9, Zenon DEF LinkConnection, EngineInv, TypeOK, Evaluators, NoFrame
  <2>2. \A i \in DOMAIN con_tbl' : (i \in DOMAIN con_tbl /\ con_tbl'[i] = con_tbl[i]) \/ con_tbl'[i] = new_conn
    BY <2>1
  <2>. QED
    BY <2>1, <2>2, Zenon DEF HasRead
<1>10. CASE UnlinkConnection
  <2>1. PICK k \in DOMAIN con_tbl : con_tbl' = Without(con_tbl, k)
    BY <1>10, Zenon DEF UnlinkConnection
  <2>2. con_tbl \in Seq(Connection)
    BY Zenon DEF EngineInv, TypeOK
  <2>3. ASSUME NEW i \in DOMAIN con_tbl' PROVE \E j \in DOMAIN con_tbl : con_tbl'[i] = con_tbl[j]
    <3>1. i \in DOMAIN Without(con_tbl, k)
      BY <2>1, <2>3, Zenon
    <3>2. \E j \in DOMAIN con_tbl : Without(con_tbl, k)[i] = con_tbl[j]
      BY <2>1, <2>2, <3>1, WithoutEntries
    <3>. QED
      BY <2>1, <3>2, Zenon
  <2>4. UNCHANGED <<frame, new_conn>>
    BY <1>10, Zenon DEF UnlinkConnection
  <2>. QED
    BY <2>3, <2>4, Zenon DEF HasRead
<1>. QED
  BY <1>7, <1>8, <1>9, <1>10, Zenon DEF ConmgrStep

\* The policy engine's thread: an entry counts once it has been evaluated, and
\* a new round begins with none.
LEMMA FreshPe ==
    ASSUME EngineInv, FreshInv, PeStep
    PROVE  FreshInv'
<1>1. UNCHANGED <<con_tbl, new_conn, location, locmgr>>
  BY Zenon DEF PeStep, PeCheck, PeLock, PeNext, PeClear, tblVars, locVars
<1>2. CASE PeCheck \/ PeClear
  <2>1. /\ UNCHANGED <<cursor, frame, swallowed>> /\ pe # "evaluate" /\ pe' # "evaluate"
        /\ pe' \in {"lock", "evaluate", "clear"} => need_evaluation'
    <3>1. CASE PeCheck
      BY <3>1, Zenon DEF PeCheck, trigVars
    <3>2. CASE PeClear
      BY <3>2, Zenon DEF PeClear
    <3>. QED
      BY <1>2, <3>1, <3>2, Zenon
  <2>2. Pending' \/ ~Pending
    <3>1. CASE PeCheck
      <4>1. need_evaluation' /\ pe' = "lock"
        BY <3>1, Zenon DEF PeCheck, trigVars
      <4>. QED
        BY <4>1, Zenon DEF Pending
    <3>2. CASE PeClear
      BY <3>2, Zenon DEF PeClear, Pending
    <3>. QED
      BY <1>2, <3>1, <3>2, Zenon
  <2>3. Settled' => Settled
    BY <1>1, <2>1, <2>2, Zenon DEF Settled
  <2>. QED
    BY <1>1, <2>1, <2>3, FreshStays, Zenon DEF HasRead, Conn
<1>3. CASE PeLock \/ PeNext
  <2>1. PICK n \in Nat : /\ EvaluateEntry(n) /\ 1 <= n
                         /\ \A i \in DOMAIN con_tbl : i < n => pe = "evaluate" /\ i <= cursor
    <3>1. CASE PeLock
      <4>1. 1 <= 1 /\ \A i \in DOMAIN con_tbl : ~(i < 1)
        BY DEF EngineInv, TypeOK
      <4>. QED
        BY <3>1, <4>1, Zenon DEF PeLock
    <3>2. CASE PeNext
      <4>1. cursor + 1 \in Nat /\ 1 <= cursor + 1 /\ \A i \in DOMAIN con_tbl : i < cursor + 1 => i <= cursor
        BY DEF EngineInv, TypeOK
      <4>. QED
        BY <3>2, <4>1, Zenon DEF PeNext
    <3>. QED
      BY <1>3, <3>1, <3>2, Zenon
  <2>2. /\ need_evaluation' = need_evaluation /\ need_evaluation
        /\ frame["conmgr"].phase = "none"
        /\ pe = "evaluate" => frame["pe"].phase = "done" /\ swallowed' = swallowed
    BY <1>3, Zenon DEF PeLock, PeNext, FreshInv, EngineInv, MutexInv, trigVars, Nobody
  <2>3. /\ frame'["conmgr"] = frame["conmgr"] /\ frame'["pe"].phase \in {"none", "location"}
        /\ pe' \in {"evaluate", "clear"}
        /\ pe' = "evaluate" => cursor' = n
        /\ pe' = "clear" => n \notin DOMAIN con_tbl
    <3>1. frame \in [Evaluators -> Frame] /\ "pe" \in Evaluators /\ "conmgr" \in Evaluators
      BY Zenon DEF EngineInv, TypeOK, Evaluators
    <3>2. CASE EnterEvaluate("pe", con_tbl[n]) /\ pe' = "evaluate" /\ cursor' = n
      BY <3>1, <3>2, CallBegins, Zenon
    <3>3. CASE frame' = [frame EXCEPT !["pe"] = NoFrame] /\ pe' = "clear" /\ n \notin DOMAIN con_tbl
      BY <3>1, <3>3, Zenon DEF NoFrame
    <3>. QED
      BY <2>1, <3>2, <3>3, Zenon DEF EvaluateEntry
  <2>4. ASSUME Settled', NEW i \in DOMAIN con_tbl', pe' = "evaluate" => i < cursor'
        PROVE  con_tbl'[i].seen = location'
    <3>1. i < n
      <4>1. CASE pe' = "evaluate"
        BY <2>3, <2>4, <4>1, Zenon
      <4>2. CASE n \notin DOMAIN con_tbl
        BY <1>1, <2>1, <4>2 DEF EngineInv, TypeOK
      <4>. QED
        BY <2>3, <4>1, <4>2, Zenon
    <3>2. pe = "evaluate" /\ i <= cursor
      BY <1>1, <2>1, <3>1, Zenon
    <3>3. Settled
      <4>1. ~swallowed' /\ locmgr' # "trigger"
        BY <2>4, Zenon DEF Settled
      <4>2. ~swallowed
        BY <2>2, <3>2, <4>1
      <4>3. ~Pending
        BY <3>2, Zenon DEF Pending
      <4>. QED
        BY <1>1, <4>1, <4>2, <4>3, Zenon DEF Settled
    <3>4. CASE i = cursor
      <4>1. HasRead("pe") /\ "pe" \in Evaluators /\ Conn("pe") = con_tbl[cursor]
        BY <2>2, <3>2, Zenon DEF HasRead, Conn, Evaluators
      <4>. QED
        BY <1>1, <3>3, <3>4, <4>1, Zenon DEF FreshInv
    <3>5. CASE i < cursor
      BY <1>1, <3>3, <3>5, Zenon DEF FreshInv
    <3>6. i = cursor \/ i < cursor
      BY <1>1, <3>2 DEF EngineInv, TypeOK
    <3>. QED
      BY <3>4, <3>5, <3>6, Zenon
  <2>5. \A t \in Evaluators : ~HasRead(t)'
    BY <2>2, <2>3, Zenon DEF HasRead, Evaluators
  <2>. QED
    BY <2>2, <2>4, <2>5, Zenon DEF FreshInv
<1>. QED
  BY <1>2, <1>3, Zenon DEF PeStep

\* Whoever triggers the policy engine makes the location pending, or swallowed;
\* a new location is unsettled until then.
LEMMA FreshOther ==
    ASSUME EngineInv, FreshInv,
           \/ MainStep \/ LocmgrStep \/ NetworkEvent \/ MihServe
           \/ \E l \in Locations : SetLocation(l)
           \/ \E i \in Interfaces : LinkChange(i)
    PROVE  FreshInv'
<1>1. UNCHANGED <<con_tbl, new_conn, cursor>> /\ (frame' = frame \/ Disturb)
  BY Zenon DEF MainStep, ParsePolicies, DumpPolicies, ParseTrigger, UnlockAgain, StartPolicyEngine, LocmgrStep,
               DumpRequest, DumpConnections, LocationTrigger, NetworkEvent, MihServe, SetLocation, LinkChange,
               tblVars, peVars
<1>2. \A t \in Evaluators : HasRead(t)' => HasRead(t) /\ Conn(t)'.seen = Conn(t).seen
  <2>1. \A t \in Evaluators : frame'[t].phase = frame[t].phase
    <3>1. \A t \in Evaluators : frame[t] \in Frame
      BY Zenon DEF EngineInv, TypeOK
    <3>. QED
      BY <1>1, <3>1, Zenon DEF Disturb, Frame
  <2>. QED
    BY <1>1, <2>1, Zenon DEF HasRead, Conn
<1>3. /\ pe' = "evaluate" <=> pe = "evaluate"
      /\ pe' \in {"lock", "evaluate", "clear"} => need_evaluation'
      /\ Settled' => Settled /\ location' = location
  <2>1. CASE UNCHANGED <<need_evaluation, swallowed, location, pe>> /\ (locmgr' = "trigger" <=> locmgr = "trigger")
    BY <2>1, Zenon DEF FreshInv, Settled, Pending
  <2>2. CASE Trigger /\ UNCHANGED <<pe, location>>
    <3>1. pe \in {"none", "idle", "lock", "evaluate", "clear"}
      BY Zenon DEF EngineInv, TypeOK
    <3>. QED
      BY <2>2, <3>1, Zenon DEF Trigger, Settled, Pending
  <2>3. CASE locmgr' = "trigger" /\ UNCHANGED <<pe, need_evaluation>>
    BY <2>3, Zenon DEF FreshInv, Settled
  <2>4. CASE StartPolicyEngine
    <3>1. pe = "none" /\ pe' = "idle" /\ UNCHANGED <<need_evaluation, swallowed, location, locmgr>>
      BY <2>4, Zenon DEF StartPolicyEngine, EngineInv, MutexInv, trigVars, locVars
    <3>. QED
      BY <3>1, Zenon DEF Settled, Pending
  <2>5. CASE MainStep
    BY <2>1, <2>2, <2>4, <2>5, Zenon DEF MainStep, ParsePolicies, DumpPolicies, ParseTrigger, UnlockAgain,
               trigVars, peVars, locVars
  <2>6. CASE LocmgrStep \/ NetworkEvent \/ \E l \in Locations : SetLocation(l)
    BY <2>1, <2>2, <2>3, <2>6, Zenon DEF LocmgrStep, DumpRequest, DumpConnections, LocationTrigger, NetworkEvent,
               SetLocation, trigVars, peVars, locVars
  <2>7. CASE MihServe \/ \E i \in Interfaces : LinkChange(i)
    BY <2>1, <2>7, Zenon DEF MihServe, LinkChange, trigVars, peVars, locVars
  <2>. QED
    BY <2>5, <2>6, <2>7, Zenon
<1>. QED
  BY <1>1, <1>2, <1>3, FreshStays, Zenon

\* The invariant holds initially: the table is empty.
LEMMA FreshStarts == Init => FreshInv
<1>. SUFFICES ASSUME Init PROVE FreshInv
  BY Zenon
<1>1. con_tbl = <<>> /\ pe = "none" /\ \A t \in Evaluators : frame[t].phase = "none"
  BY Zenon DEF Init, NoFrame
<1>2. DOMAIN con_tbl = {}
  BY <1>1
<1>. QED
  BY <1>1, <1>2, Zenon DEF FreshInv, HasRead

\* Every step.
LEMMA FreshKeeps == EngineInv /\ FreshInv /\ [Next]_vars => FreshInv'
<1>. SUFFICES ASSUME EngineInv, FreshInv, [Next]_vars PROVE FreshInv'
  BY Zenon
<1>1. CASE UNCHANGED vars
  <2>1. UNCHANGED <<con_tbl, new_conn, pe, cursor, need_evaluation, swallowed, location, locmgr, frame>>
    BY <1>1, Zenon DEF vars, tblVars, peVars, trigVars, locVars
  <2>2. Settled' => Settled
    BY <2>1, Zenon DEF Settled, Pending
  <2>3. pe' \in {"lock", "evaluate", "clear"} => need_evaluation'
    BY <2>1, Zenon DEF FreshInv
  <2>4. \A t \in Evaluators : HasRead(t)' => HasRead(t) /\ Conn(t)'.seen = Conn(t).seen
    BY <2>1, Zenon DEF HasRead, Conn
  <2>. QED
    BY <2>1, <2>2, <2>3, <2>4, FreshStays, Zenon
<1>2. CASE \E t \in Evaluators : EvaluateStep(t)
  BY <1>2, FreshEvaluate, FreshLocation, Zenon
<1>3. CASE Next
  BY <1>2, <1>3, FreshConmgr, FreshPe, FreshOther, Zenon DEF Next
<1>. QED
  BY <1>1, <1>3, Zenon

\* The table is current when nothing is under way (pe_main_loop(), locmgr):
\* every connection's latest evaluation read the location the host is at.
THEOREM TableIsCurrent == Spec => []QuietTableIsCurrent
<1>1. FreshInv => QuietTableIsCurrent
  BY Zenon DEF FreshInv, QuietTableIsCurrent, Settled, Pending
<1>. QED
  BY EngineInvariant, FreshStarts, FreshKeeps, <1>1, PTL DEF Spec


-----------------------------------------------------------------------------
(***************************************************************************)
(* The rule an undisturbed evaluation leaves.                              *)
(***************************************************************************)
Usables(t) == Usable(DescOf[Conn(t).pid], Conn(t).seen, links)

\* How far the evaluation of thread t has come: active_rule is what the rules
\* behind it call for, and an answer says how the link is.
SoFar(t) ==
    /\ frame[t].phase \in {"location", "policy"} => Conn(t).active_rule = frame[t].old
    /\ frame[t].phase \in Waiting =>
          /\ frame[t].pos \in Candidates(t)
          /\ Reached(Usables(t), frame[t].pos, Conn(t).active_rule, frame[t].old)
    /\ frame[t].phase \in {"h", "g", "m"} => frame[t].pos \in Usables(t)
    /\ frame[t].phase = "e" /\ answers # <<>> =>
          (Head(answers).text = "up" <=> frame[t].pos \in Usables(t))
    /\ frame[t].phase = "done" =>
          Conn(t).active_rule = IF policies_loaded THEN Choice(Usables(t), frame[t].old)
                                ELSE frame[t].old

ChoiceInv == \A t \in Evaluators : frame[t].calm => SoFar(t)

\* A thread that is not in evaluate().
LEMMA ChoiceNone ==
    ASSUME NEW t, frame'[t].phase = "none"
    PROVE  SoFar(t)'
BY Zenon DEF SoFar, Waiting

\* A step that leaves the evaluation of t alone.
LEMMA ChoiceStays ==
    ASSUME NEW t, SoFar(t), frame'[t] = frame[t], UNCHANGED <<links, policies_loaded, answers>>,
           frame[t].phase # "none" => Conn(t)' = Conn(t)
    PROVE  SoFar(t)'
<1>1. CASE frame[t].phase = "none"
  BY <1>1, ChoiceNone, Zenon
<1>2. CASE frame[t].phase # "none"
  BY <1>2, Zenon DEF SoFar, Usables, Candidates
<1>. QED
  BY <1>1, <1>2, Zenon

\* What is usable is among what is asked for.
LEMMA UsableCandidates ==
    ASSUME NEW t
    PROVE  /\ Candidates(t) \subseteq Positions
           /\ policies_loaded => Usables(t) \subseteq Candidates(t)
           /\ \A x \in Candidates(t) : policies_loaded /\ (x \in Usables(t) <=> IfaceAt(x) \in links)
BY Zenon DEF Candidates, Usables, Usable, Matching

\* The walk goes on with the rules in S, or ends.
LEMMA ChoiceGoesOn ==
    ASSUME NEW t \in Evaluators, frame \in [Evaluators -> Frame], NEW f \in Frame, NEW S, NEW o, NEW q,
           TryRules(t, f, S, o, q), answers' = <<>>, policies_loaded',
           S \subseteq Positions, S \subseteq Candidates(t)',
           IF S = {} THEN Conn(t)'.active_rule = Choice(Usables(t)', f.old)
           ELSE Reached(Usables(t)', FirstOf(S), Conn(t)'.active_rule, f.old)
    PROVE  SoFar(t)'
<1>1. CASE S = {}
  <2>1. frame'[t].phase = "done" /\ frame'[t].old = f.old
    BY <1>1, CallGoesOn, Zenon
  <2>. QED
    BY <1>1, <2>1, Zenon DEF SoFar, Waiting
<1>2. CASE S # {}
  <2>1. frame'[t].phase = "e" /\ frame'[t].old = f.old /\ frame'[t].pos = FirstOf(S)
    BY <1>2, CallGoesOn, Zenon
  <2>2. FirstOf(S) \in Candidates(t)'
    BY <1>2, FirstOfMember, Zenon
  <2>. QED
    BY <1>2, <2>1, <2>2, Zenon DEF SoFar, Waiting
<1>. QED
  BY <1>1, <1>2, Zenon

\* The location is read.
LEMMA ChoiceLocation ==
    ASSUME EngineInv, NEW t \in Evaluators, SoFar(t), EvaluateLocation(t)
    PROVE  SoFar(t)'
<1>. DEFINE c == [Conn(t) EXCEPT !.seen = location]
<1>1. /\ frame[t].phase = "location" /\ SetConn(t, c) /\ cursor' = cursor
      /\ frame \in [Evaluators -> Frame] /\ frame' = [frame EXCEPT ![t].phase = "policy"]
  BY Zenon DEF EvaluateLocation, peVars, EngineInv, TypeOK
<1>2. c \in Connection /\ c.active_rule = Conn(t).active_rule
  <2>1. Conn(t) \in Connection /\ location \in Locations
    BY <1>1, ConnType, Zenon DEF EngineInv, TypeOK
  <2>. QED
    BY <2>1, Zenon DEF Connection
<1>. HIDE DEF c
<1>3. Conn(t)' = c
  BY <1>1, <1>2, SetConnKeeps, Zenon DEF EngineInv
<1>4. frame'[t].phase = "policy" /\ frame'[t].old = frame[t].old
  BY <1>1, Zenon DEF Frame
<1>5. Conn(t).active_rule = frame[t].old
  BY <1>1, Zenon DEF SoFar
<1>. QED
  BY <1>2, <1>3, <1>4, <1>5, Zenon DEF SoFar, Waiting

\* The walk begins.
LEMMA ChoicePolicies ==
    ASSUME EngineInv, NEW t \in Evaluators, SoFar(t), EvaluatePolicies(t)
    PROVE  SoFar(t)'
<1>1. /\ frame[t].phase = "policy" /\ frame \in [Evaluators -> Frame] /\ frame[t] \in Frame
      /\ UNCHANGED <<con_tbl, new_conn, cursor, policies_loaded, links, answers>>
  BY Zenon DEF EvaluatePolicies, tblVars, peVars, mihVars, EngineInv, TypeOK
<1>2. Conn(t)' = Conn(t) /\ Candidates(t)' = Candidates(t) /\ Usables(t)' = Usables(t)
  BY <1>1, Zenon DEF Conn, Candidates, Usables
<1>3. Conn(t).active_rule = frame[t].old
  BY <1>1, Zenon DEF SoFar
<1>4. answers = <<>>
  <2>1. \A u \in Evaluators : frame[u].phase \notin Waiting
    BY <1>1, OneEvaluation, Zenon DEF Waiting, EngineInv
  <2>. QED
    BY <2>1, IdleQueue, Zenon DEF EngineInv
<1>5. CASE Candidates(t) = {}
  <2>1. frame'[t].phase = "done" /\ frame'[t].old = frame[t].old
    <3>1. frame'[t] = [frame[t] EXCEPT !.phase = "done"]
      BY <1>1, <1>5, Zenon DEF EvaluatePolicies
    <3>. QED
      BY <1>1, <3>1, Zenon DEF Frame
  <2>2. policies_loaded => Usables(t) = {}
    BY <1>5, UsableCandidates, Zenon
  <2>3. Choice({}, frame[t].old) = frame[t].old
    BY Zenon DEF Choice
  <2>. QED
    BY <1>1, <1>2, <1>3, <2>1, <2>2, <2>3, Zenon DEF SoFar, Waiting
<1>6. CASE Candidates(t) # {}
  <2>. DEFINE x == FirstOf(Candidates(t))
  <2>1. frame'[t].phase = "e" /\ frame'[t].old = frame[t].old /\ frame'[t].pos = x
    <3>1. Await(t, x, "e")
      BY <1>1, <1>6, Zenon DEF EvaluatePolicies
    <3>2. frame \in [Evaluators -> Frame]
      BY <1>1, Zenon
    <3>. HIDE DEF x
    <3>. QED
      BY <3>1, <3>2, CallWaits, Zenon
  <2>2. /\ policies_loaded /\ Candidates(t) \subseteq Positions /\ Usables(t) \subseteq Candidates(t)
    BY <1>6, UsableCandidates, Zenon
  <2>3. x \in Candidates(t) /\ Reached(Usables(t), x, frame[t].old, frame[t].old)
    BY <1>6, <2>2, FirstOfMember, WalkBegins, Zenon
  <2>. HIDE DEF x
  <2>. QED
    BY <1>1, <1>2, <1>3, <1>4, <2>1, <2>3, Zenon DEF SoFar, Waiting
<1>. QED
  BY <1>5, <1>6, Zenon

\* A rule is refused.
LEMMA ChoiceDown ==
    ASSUME EngineInv, NEW t \in Evaluators, SoFar(t), RuleDown(t)
    PROVE  SoFar(t)'
<1>. DEFINE x == frame[t].pos
            S == AfterRefused(x, Candidates(t))
<1>1. /\ frame[t].phase = "e" /\ frame \in [Evaluators -> Frame] /\ frame[t] \in Frame
      /\ UNCHANGED <<con_tbl, new_conn, cursor, policies_loaded, links>>
      /\ TryRules(t, frame[t], S, info_sock, requests) /\ Answered(t) /\ answers' = Tail(answers)
  BY Zenon DEF RuleDown, tblVars, peVars, mihVars, EngineInv, TypeOK
<1>2. Conn(t)' = Conn(t) /\ Candidates(t)' = Candidates(t) /\ Usables(t)' = Usables(t)
  BY <1>1, Zenon DEF Conn, Candidates, Usables
<1>3. answers' = <<>>
  BY <1>1, AnsweredFacts, Zenon DEF EngineInv
<1>4. /\ x \in Candidates(t) /\ x \notin Usables(t)
      /\ Reached(Usables(t), x, Conn(t).active_rule, frame[t].old)
  BY <1>1, Zenon DEF SoFar, RuleDown, Answered, Waiting
<1>. HIDE DEF x
<1>5. /\ policies_loaded /\ Candidates(t) \subseteq Positions /\ Usables(t) \subseteq Candidates(t)
      /\ x \in Positions
  BY <1>4, UsableCandidates, Zenon
<1>6. S \subseteq Candidates(t)
  BY Zenon DEF AfterRefused
<1>7. IF S = {} THEN Conn(t).active_rule = Choice(Usables(t), frame[t].old)
      ELSE Reached(Usables(t), FirstOf(S), Conn(t).active_rule, frame[t].old)
  BY <1>4, <1>5, WalkRefused, Zenon
<1>. HIDE DEF S
<1>8. policies_loaded' /\ S \subseteq Positions /\ S \subseteq Candidates(t)'
  BY <1>1, <1>2, <1>5, <1>6, Zenon
<1>. QED
  BY <1>1, <1>2, <1>3, <1>7, <1>8, ChoiceGoesOn, Zenon

\* A rule is activated.
LEMMA ChoiceActivate ==
    ASSUME EngineInv, NEW t \in Evaluators, SoFar(t), Activate(t), Answered(t), answers' = Tail(answers),
           frame[t].pos \in Usables(t), UNCHANGED <<cursor, policies_loaded, links>>
    PROVE  SoFar(t)'
<1>. DEFINE x == frame[t].pos
            S == AfterActivated(x, Candidates(t))
<1>1. /\ frame[t].phase \in Waiting /\ frame[t].phase # "none"
      /\ frame \in [Evaluators -> Frame] /\ frame[t] \in Frame
      /\ TryRules(t, frame[t], S, info_sock, requests)
  BY Zenon DEF Activate, Answered, Waiting, EngineInv, TypeOK
<1>2. x \in Candidates(t) /\ Reached(Usables(t), x, Conn(t).active_rule, frame[t].old)
  BY <1>1, Zenon DEF SoFar
<1>3. answers' = <<>>
  BY AnsweredFacts, Zenon DEF EngineInv
<1>4. /\ policies_loaded /\ Candidates(t) \subseteq Positions /\ Usables(t) \subseteq Candidates(t)
      /\ x \in Positions
  BY <1>2, UsableCandidates, Zenon
<1>5. /\ Conn(t)'.active_rule = RuleID(x)
      /\ Conn(t)'.seen = Conn(t).seen /\ Conn(t)'.pid = Conn(t).pid
  BY <1>1, <1>4, RecordingKeepsSeen, Zenon DEF Activate
<1>6. Candidates(t)' = Candidates(t) /\ Usables(t)' = Usables(t)
  BY <1>5, Zenon DEF Candidates, Usables
<1>7. S \subseteq Candidates(t)
  BY Zenon DEF AfterActivated
<1>. HIDE DEF x
<1>8. IF S = {} THEN RuleID(x) = Choice(Usables(t), frame[t].old)
      ELSE Reached(Usables(t), FirstOf(S), RuleID(x), frame[t].old)
  BY <1>2, <1>4, WalkActivated, Zenon DEF x
<1>. HIDE DEF S
<1>9. policies_loaded' /\ S \subseteq Positions /\ S \subseteq Candidates(t)'
  BY <1>4, <1>6, <1>7, Zenon
<1>. QED
  BY <1>1, <1>3, <1>5, <1>6, <1>8, <1>9, ChoiceGoesOn, Zenon

\* The hand-over of a usable rule is asked for, or confirmed.
LEMMA ChoiceAsks ==
    ASSUME EngineInv, NEW t \in Evaluators, SoFar(t), Answered(t), answers' = Tail(answers),
           frame[t].pos \in Usables(t), NEW cmd \in {"h", "g", "m"}, Await(t, frame[t].pos, cmd),
           UNCHANGED <<con_tbl, new_conn, cursor, policies_loaded, links>>
    PROVE  SoFar(t)'
<1>1. frame[t].phase \in Waiting /\ frame \in [Evaluators -> Frame] /\ frame[t] \in Frame
  BY Zenon DEF Answered, EngineInv, TypeOK
<1>2. Conn(t)' = Conn(t) /\ Candidates(t)' = Candidates(t) /\ Usables(t)' = Usables(t)
  BY Zenon DEF Conn, Candidates, Usables
<1>3. frame'[t].phase = cmd /\ frame'[t].old = frame[t].old /\ frame'[t].pos = frame[t].pos
  <2>1. frame \in [Evaluators -> Frame]
    BY <1>1, Zenon
  <2>. QED
    BY <2>1, CallWaits, Zenon
<1>4. frame[t].pos \in Candidates(t) /\ Reached(Usables(t), frame[t].pos, Conn(t).active_rule, frame[t].old)
  BY <1>1, Zenon DEF SoFar
<1>5. cmd # "e" /\ cmd # "done" /\ cmd # "location" /\ cmd # "policy"
  BY Zenon
<1>. QED
  BY <1>2, <1>3, <1>4, <1>5, Zenon DEF SoFar

\* A step of evaluate() of thread t, unless the request timed out.
LEMMA ChoiceOwn ==
    ASSUME EngineInv, NEW t \in Evaluators, SoFar(t), EvaluateStep(t), ~NoAnswer(t)
    PROVE  SoFar(t)'
<1>1. CASE RuleUp(t)
  <2>1. /\ Answered(t) /\ answers' = Tail(answers) /\ UNCHANGED <<cursor, policies_loaded, links>>
        /\ frame[t].pos \in Usables(t)
    BY <1>1, Zenon DEF RuleUp, peVars, mihVars, SoFar, Answered
  <2>2. \/ Activate(t)
        \/ \E cmd \in {"h", "g", "m"} : Await(t, frame[t].pos, cmd) /\ UNCHANGED <<con_tbl, new_conn>>
    BY <1>1, Zenon DEF RuleUp
  <2>. QED
    BY <2>1, <2>2, ChoiceActivate, ChoiceAsks, Zenon
<1>2. CASE HipConfirm(t)
  <2>1. /\ Answered(t) /\ answers' = Tail(answers) /\ Await(t, frame[t].pos, "g")
        /\ UNCHANGED <<con_tbl, new_conn, cursor, policies_loaded, links>>
        /\ frame[t].pos \in Usables(t)
    BY <1>2, Zenon DEF HipConfirm, tblVars, polVars, peVars, mihVars, SoFar
  <2>2. "g" \in {"h", "g", "m"}
    BY Zenon
  <2>. QED
    BY <2>1, <2>2, ChoiceAsks, Zenon
<1>3. CASE InterfaceSet(t)
  <2>1. /\ Answered(t) /\ answers' = Tail(answers) /\ Activate(t)
        /\ UNCHANGED <<cursor, policies_loaded, links>> /\ frame[t].pos \in Usables(t)
    BY <1>3, Zenon DEF InterfaceSet, peVars, mihVars, SoFar
  <2>. QED
    BY <2>1, ChoiceActivate, Zenon
<1>. QED
  BY <1>1, <1>2, <1>3, ChoiceLocation, ChoicePolicies, ChoiceDown, Zenon DEF EvaluateStep

\* evaluate() with the other thread outside of it.
LEMMA ChoiceEvaluate ==
    ASSUME EngineInv, ChoiceInv, NEW t \in Evaluators, EvaluateStep(t)
    PROVE  ChoiceInv'
<1>1. frame[t].phase # "none" /\ frame \in [Evaluators -> Frame] /\ frame[t] \in Frame
  BY Zenon DEF EvaluateStep, EvaluateLocation, EvaluatePolicies, RuleDown, RuleUp, HipConfirm, InterfaceSet, NoAnswer,
               Answered, Waiting, EngineInv, TypeOK
<1>2. \A u \in Evaluators : u # t => SoFar(u)'
  BY <1>1, OneEvaluation, OwnFrame, ChoiceNone, Zenon DEF EngineInv
<1>3. CASE NoAnswer(t)
  <2>1. ~frame'[t].calm
    <3>. DEFINE f == [frame[t] EXCEPT !.calm = FALSE]
    <3>1. f \in Frame /\ ~f.calm
      BY <1>1, Zenon DEF Frame
    <3>2. \E S, o, q : TryRules(t, f, S, o, q)
      BY <1>3, Zenon DEF NoAnswer
    <3>. HIDE DEF f
    <3>. QED
      BY <1>1, <3>1, <3>2, CallGoesOn, Zenon
  <2>. QED
    BY <1>2, <2>1, Zenon DEF ChoiceInv
<1>4. CASE ~NoAnswer(t)
  <2>1. frame'[t].calm = frame[t].calm
    <3>1. \/ frame'[t] \in { [frame[t] EXCEPT !.phase = p] : p \in {"policy", "done"} }
          \/ \E x, cmd : Await(t, x, cmd)
          \/ \E S, o, q : TryRules(t, frame[t], S, o, q)
      <4>1. CASE EvaluateLocation(t) \/ EvaluatePolicies(t)
        <5>1. CASE \E p \in {"policy", "done"} : frame' = [frame EXCEPT ![t].phase = p]
          BY <1>1, <5>1, Zenon
        <5>2. CASE \E x, cmd : Await(t, x, cmd)
          BY <5>2, Zenon
        <5>. QED
          BY <4>1, <5>1, <5>2, Zenon DEF EvaluateLocation, EvaluatePolicies
      <4>2. CASE RuleDown(t) \/ RuleUp(t)
        BY <4>2, Zenon DEF RuleDown, RuleUp, Activate
      <4>3. CASE HipConfirm(t) \/ InterfaceSet(t)
        BY <4>3, Zenon DEF HipConfirm, InterfaceSet, Activate
      <4>. QED
        BY <1>1, <1>4, <4>1, <4>2, <4>3, Zenon DEF EvaluateStep
    <3>2. \A p \in {"policy", "done"} : [frame[t] EXCEPT !.phase = p].calm = frame[t].calm
      BY <1>1, Zenon DEF Frame
    <3>3. CASE \E x, cmd : Await(t, x, cmd)
      BY <1>1, <3>3, CallWaits, Zenon
    <3>4. CASE \E S, o, q : TryRules(t, frame[t], S, o, q)
      BY <1>1, <3>4, CallGoesOn, Zenon
    <3>. QED
      BY <3>1, <3>2, <3>3, <3>4, Zenon
  <2>. QED
    BY <1>2, <1>4, <2>1, ChoiceOwn, Zenon DEF ChoiceInv
<1>. QED
  BY <1>3, <1>4, Zenon

\* What the MIH user answers is how the link is.
LEMMA ChoiceServe ==
    ASSUME EngineInv, ChoiceInv, MihServe
    PROVE  ChoiceInv'
<1>. DEFINE r == Head(requests)
<1>1. /\ requests # <<>> /\ requests \in Seq(Request) /\ answers = <<>>
      /\ answers' = IF r.live THEN Append(answers, Reply(r)) ELSE answers
      /\ UNCHANGED <<con_tbl, new_conn, cursor, policies_loaded, links, frame>>
  BY Zenon DEF MihServe, tblVars, polVars, peVars, EngineInv, TypeOK, QueueInv
<1>2. r \in Request /\ r = requests[1] /\ 1 \in DOMAIN requests
  BY <1>1, HeadTailProperties
<1>3. Reply(r).text = "up" <=> r.cmd = "e" /\ r.iface \in links
  BY Zenon DEF Reply
<1>. HIDE DEF r
<1>4. ASSUME NEW t \in Evaluators, frame[t].calm PROVE SoFar(t)'
  <2>1. SoFar(t) /\ Conn(t)' = Conn(t) /\ Candidates(t)' = Candidates(t) /\ Usables(t)' = Usables(t)
    BY <1>1, <1>4, Zenon DEF ChoiceInv, Conn, Candidates, Usables
  <2>2. CASE ~r.live
    BY <1>1, <2>1, <2>2, ChoiceStays, Zenon
  <2>3. CASE r.live /\ frame[t].phase = "e"
    <3>1. PICK u \in Evaluators : Asks(u, r)
      BY <1>2, <2>3, Zenon DEF EngineInv, QueueInv
    <3>2. frame[u].phase # "none"
      BY <1>2, <3>1, Zenon DEF Asks, Request, Waiting
    <3>3. u = t
      BY <2>3, <3>2, OneEvaluation, Zenon DEF EngineInv
    <3>4. r.cmd = "e" /\ IfaceAt(frame[t].pos) = r.iface
      BY <2>3, <3>1, <3>3, Zenon DEF Asks
    <3>5. frame[t].pos \in Candidates(t)
      BY <2>1, <2>3, Zenon DEF SoFar, Waiting
    <3>6. frame[t].pos \in Usables(t) <=> r.iface \in links
      BY <3>4, <3>5, UsableCandidates, Zenon
    <3>7. Head(answers') = Reply(r)
      <4>1. answers' = Append(<<>>, Reply(r))
        BY <1>1, <2>3, Zenon
      <4>. QED
        BY <4>1
    <3>. QED
      BY <1>1, <1>3, <2>1, <2>3, <3>4, <3>6, <3>7, Zenon DEF SoFar, Waiting
  <2>4. CASE frame[t].phase # "e"
    BY <1>1, <2>1, <2>4, Zenon DEF SoFar
  <2>. QED
    BY <2>2, <2>3, <2>4, Zenon
<1>. QED
  BY <1>1, <1>4, Zenon DEF ChoiceInv

\* A change of the links or the policies disturbs the evaluations in progress.
LEMMA ChoiceDisturb ==
    ASSUME EngineInv, Disturb
    PROVE  ChoiceInv'
<1>1. \A t \in Evaluators : /\ frame'[t].calm => frame[t].phase = "none"
                            /\ frame'[t].phase = frame[t].phase
  <2>1. \A t \in Evaluators : frame[t] \in Frame
    BY Zenon DEF EngineInv, TypeOK
  <2>. QED
    BY <2>1, Zenon DEF Disturb, Frame
<1>. QED
  BY <1>1, ChoiceNone, Zenon DEF ChoiceInv

\* The callers of evaluate(): a call begins with the rule that is active, and
\* ends without a trace.
LEMMA ChoiceCallers ==
    ASSUME EngineInv, ChoiceInv,
           \/ \E pid \in Pids, fd \in Fds, kind \in Kinds : AddConnection(pid, fd, kind)
           \/ LinkConnection \/ PeLock \/ PeNext
    PROVE  ChoiceInv'
<1>1. UNCHANGED <<links, policies_loaded, answers>> /\ frame \in [Evaluators -> Frame]
  BY Zenon DEF AddConnection, LinkConnection, PeLock, PeNext, polVars, infoVars, mihVars, EngineInv, TypeOK
<1>2. CASE \E pid \in Pids, fd \in Fds, kind \in Kinds : AddConnection(pid, fd, kind)
  <2>1. /\ frame'["conmgr"].phase = "location" /\ frame'["conmgr"].old = new_conn'.active_rule
        /\ frame'["pe"] = frame["pe"] /\ con_tbl_mutex = Nobody
    <3>1. con_tbl_mutex = Nobody /\ EnterEvaluate("conmgr", new_conn')
      BY <1>2, Zenon DEF AddConnection
    <3>2. "pe" \in Evaluators /\ "conmgr" \in Evaluators /\ "pe" # "conmgr"
      BY Zenon DEF Evaluators
    <3>. QED
      BY <1>1, <3>1, <3>2, CallBegins, Zenon
  <2>2. SoFar("conmgr")'
    BY <2>1, Zenon DEF SoFar, Conn, Waiting
  <2>3. frame'["pe"].phase = "none"
    BY <2>1, Zenon DEF EngineInv, MutexInv, Nobody
  <2>. QED
    BY <2>2, <2>3, ChoiceNone, Zenon DEF ChoiceInv, Evaluators
<1>3. CASE LinkConnection
  <2>1. frame'["conmgr"].phase = "none" /\ frame'["pe"] = frame["pe"] /\ frame["pe"].phase = "none"
    BY <1>1, <1>3, Zenon DEF LinkConnection, NoFrame, Evaluators, EngineInv, MutexInv
  <2>. QED
    BY <2>1, ChoiceNone, Zenon DEF ChoiceInv, Evaluators
<1>4. CASE PeLock \/ PeNext
  <2>1. \E i : EvaluateEntry(i) /\ con_tbl' = con_tbl /\ frame["conmgr"].phase = "none"
    BY <1>4, Zenon DEF PeLock, PeNext, EngineInv, MutexInv, Nobody
  <2>2. frame'["conmgr"].phase = "none"
    BY <1>1, <2>1, Zenon DEF EvaluateEntry, EnterEvaluate, Evaluators
  <2>3. \/ frame'["pe"].phase = "none"
        \/ frame'["pe"].phase = "location" /\ frame'["pe"].old = con_tbl'[cursor'].active_rule
    <3>1. \/ EnterEvaluate("pe", con_tbl'[cursor'])
          \/ frame' = [frame EXCEPT !["pe"] = NoFrame]
      BY <2>1, Zenon DEF EvaluateEntry
    <3>2. "pe" \in Evaluators /\ NoFrame.phase = "none"
      BY Zenon DEF Evaluators, NoFrame
    <3>. QED
      BY <1>1, <3>1, <3>2, CallBegins, Zenon
  <2>4. SoFar("pe")'
    BY <2>3, Zenon DEF SoFar, Conn, Waiting
  <2>. QED
    BY <2>2, <2>4, ChoiceNone, Zenon DEF ChoiceInv, Evaluators
<1>. QED
  BY <1>2, <1>3, <1>4, Zenon

\* Everything else leaves the evaluations alone.
LEMMA ChoiceQuiet ==
    ASSUME EngineInv, ChoiceInv,
           UNCHANGED <<frame, new_conn, cursor, links, policies_loaded, answers>>,
           con_tbl' = con_tbl \/ con_tbl_mutex = "conmgr"
    PROVE  ChoiceInv'
<1>1. ASSUME NEW t \in Evaluators, frame[t].phase # "none" PROVE Conn(t)' = Conn(t)
  <2>1. CASE t = "pe"
    BY <1>1, <2>1, OneEvaluation, Zenon DEF Conn, EngineInv
  <2>2. CASE t # "pe"
    BY <2>2, Zenon DEF Conn
  <2>. QED
    BY <2>1, <2>2, Zenon
<1>2. \A t \in Evaluators : SoFar(t) => SoFar(t)'
  BY <1>1, ChoiceStays, Zenon
<1>. QED
  BY <1>2, Zenon DEF ChoiceInv

\* The invariant holds initially: nobody is in evaluate().
LEMMA ChoiceStarts == Init => ChoiceInv
<1>1. ASSUME Init PROVE \A t \in Evaluators : frame[t].phase = "none"
  BY <1>1, Zenon DEF Init, NoFrame
<1>. QED
  BY <1>1, Zenon DEF ChoiceInv, SoFar, Waiting

\* Every step.
LEMMA ChoiceKeeps == EngineInv /\ ChoiceInv /\ [Next]_vars => ChoiceInv'
<1>. SUFFICES ASSUME EngineInv, ChoiceInv, [Next]_vars PROVE ChoiceInv'
  BY Zenon
<1>1. CASE \E t \in Evaluators : EvaluateStep(t)
  BY <1>1, ChoiceEvaluate, Zenon
<1>2. CASE \/ \E pid \in Pids, fd \in Fds, kind \in Kinds : AddConnection(pid, fd, kind)
           \/ LinkConnection \/ PeLock \/ PeNext
  BY <1>2, ChoiceCallers, Zenon
<1>3. CASE ParsePolicies \/ \E i \in Interfaces : LinkChange(i)
  BY <1>3, ChoiceDisturb, Zenon DEF ParsePolicies, LinkChange
<1>4. CASE \/ \E k \in Key : RemoveConnection(k)
           \/ UnlinkConnection \/ RemoveDone \/ PeCheck \/ PeClear
           \/ DumpPolicies \/ ParseTrigger \/ UnlockAgain \/ StartPolicyEngine
           \/ LocmgrStep \/ NetworkEvent \/ \E l \in Locations : SetLocation(l)
           \/ UNCHANGED vars
  <2>1. UNCHANGED <<frame, new_conn, cursor, links, policies_loaded, answers>>
    BY <1>4, Zenon DEF RemoveConnection, UnlinkConnection, RemoveDone, PeCheck, PeClear, DumpPolicies, ParseTrigger,
               UnlockAgain, StartPolicyEngine, LocmgrStep, DumpRequest, DumpConnections, LocationTrigger, NetworkEvent,
               SetLocation, vars, tblVars, polVars, peVars, infoVars, mihVars
  <2>2. con_tbl' = con_tbl \/ con_tbl_mutex = "conmgr"
    BY <1>4, Zenon DEF RemoveConnection, UnlinkConnection, RemoveDone, PeCheck, PeClear, DumpPolicies, ParseTrigger,
               UnlockAgain, StartPolicyEngine, LocmgrStep, DumpRequest, DumpConnections, LocationTrigger, NetworkEvent,
               SetLocation, vars, tblVars, EngineInv, MutexInv
  <2>. QED
    BY <2>1, <2>2, ChoiceQuiet, Zenon
<1>. QED
  BY <1>1, <1>2, <1>3, <1>4, ChoiceServe, Zenon DEF Next, ConmgrStep, PeStep, MainStep

\* evaluate() leaves the rule its reference definition names, for any policy
\* file, unless a link changed or a request went unanswered meanwhile.
THEOREM RuleIsTheChosenOne == Spec => []EvaluationChooses
<1>1. ChoiceInv => EvaluationChooses
  BY Zenon DEF ChoiceInv, SoFar, EvaluationChooses, ChosenRule, Usables
<1>. QED
  BY EngineInvariant, ChoiceStarts, ChoiceKeeps, <1>1, PTL DEF Spec
=============================================================================
