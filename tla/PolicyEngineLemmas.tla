------------------------- MODULE PolicyEngineLemmas -------------------------
(***************************************************************************)
(* Lemmas for the proofs about the policy engine: the operators the model  *)
(* is built from, the steps of the connection manager, of the policy       *)
(* engine's thread and of evaluate() that keep EngineInv, and the walk of  *)
(* evaluate() against the definition of the rule it chooses.               *)
(***************************************************************************)
EXTENDS PolicyEngine, SequenceTheorems, WellFoundedInduction, TLAPS

-----------------------------------------------------------------------------
(***************************************************************************)
(* The operators the model is built from.                                  *)
(***************************************************************************)
\* A rule of the list is a pair of numbers, and evaluate_rule() finds one of
\* the interfaces in it.
LEMMA PositionTypes ==
    ASSUME NEW x \in Positions
    PROVE  /\ x \in Nat \X Nat
           /\ IfaceAt(x) \in Interfaces
           /\ RuleID(x) \in Nat
<1>1. PICK p \in DOMAIN PolicyFile : \E q \in DOMAIN PolicyFile[p].rules : x = <<p, q>>
  BY Zenon DEF Positions
<1>5. PICK r \in DOMAIN PolicyFile[p].rules : x = <<p, r>>
  BY <1>1, Zenon
<1>2. PolicyFile[p] \in Policy
  BY PolicyFileAssumption
<1>3. PolicyFile[p].rules \in Seq(Rule)
  BY <1>2, Zenon DEF Policy
<1>4. /\ p \in Nat /\ r \in Nat
      /\ PolicyFile[p].rules[r] \in Rule
  BY <1>5, <1>3, PolicyFileAssumption
<1>. QED
  BY <1>5, <1>4, Zenon DEF IfaceAt, RuleAt, RuleID, Rule

\* A nonempty set of natural numbers has a least element.
LEMMA LeastNat ==
    ASSUME NEW T, T \subseteq Nat, T # {}
    PROVE  \E n \in T : \A m \in T : n <= m
<1>1. PICK n \in T : \A m \in T : ~(<<m, n>> \in OpToRel(<, Nat))
  BY NatLessThanWellFounded, WFMin, Zenon
<1>2. \A m \in T : ~(m < n)
  BY <1>1, Zenon DEF OpToRel
<1>. QED
  BY <1>2

\* The two nested loops of evaluate() have a first rule to go on with
\* whenever there is one: the lexicographic order is total on the list.
LEMMA FirstOfMember ==
    ASSUME NEW S, S \subseteq Positions, S # {}
    PROVE  /\ FirstOf(S) \in S
           /\ \A y \in S : FirstOf(S) = y \/ Before(FirstOf(S), y)
<1>1. S \subseteq Nat \X Nat
  BY PositionTypes, Zenon
<1>. DEFINE Ps == {x[1] : x \in S}
<1>2. PICK p \in Ps : \A q \in Ps : p <= q
  <2>. Ps \subseteq Nat /\ Ps # {}
    BY <1>1, Zenon
  <2>. QED
    BY LeastNat, Zenon
<1>. DEFINE Rs == {x[2] : x \in {y \in S : y[1] = p}}
<1>3. PICK r \in Rs : \A q \in Rs : r <= q
  <2>. Rs \subseteq Nat /\ Rs # {}
    BY <1>1, Zenon
  <2>. QED
    BY LeastNat, Zenon
<1>4. PICK x \in S : x[1] = p /\ x[2] = r
  BY Zenon
<1>5. \A y \in S : x = y \/ Before(x, y)
  <2>. TAKE y \in S
  <2>1. y[1] \in Nat /\ y[2] \in Nat /\ p \in Nat /\ r \in Nat /\ p <= y[1]
    BY <1>1, <1>2, <1>4, Zenon
  <2>2. CASE y[1] = p
    <3>1. r <= y[2]
      BY <1>3, <2>2, Zenon
    <3>2. x = <<x[1], x[2]>> /\ y = <<y[1], y[2]>>
      BY <1>1
    <3>. QED
      BY <1>4, <2>1, <2>2, <3>1, <3>2 DEF Before
  <2>3. CASE y[1] # p
    BY <1>4, <2>1, <2>3 DEF Before
  <2>. QED
    BY <2>2, <2>3, Zenon
<1>. QED
  BY <1>4, <1>5, Zenon DEF FirstOf

\* The placeholders for locals that are not in use.
LEMMA AnyConnectionType == AnyKey \in Key /\ AnyConnection \in Connection
<1>1. AnyKey \in Key
  <2>1. PICK p \in Pids, f \in Fds : TRUE
    BY EngineAssumption, Zenon
  <2>2. <<p, f>> \in Key
    BY Zenon DEF Key
  <2>. QED
    BY <2>2, Zenon DEF AnyKey
<1>. QED
  BY <1>1, EngineAssumption, Zenon DEF Key, AnyConnection, NewConnection, Connection, AddrKinds

\* Taking an entry out of a sequence leaves a sequence over the same set.
LEMMA WithoutType ==
    ASSUME NEW T, NEW s \in Seq(T), NEW i \in DOMAIN s
    PROVE  Without(s, i) \in Seq(T)
<1>1. SubSeq(s, 1, i - 1) \in Seq(T) /\ SubSeq(s, i + 1, Len(s)) \in Seq(T)
  OBVIOUS
<1>. QED
  BY <1>1, ConcatProperties, Zenon DEF Without

\* What is left is entries that were there before.
LEMMA WithoutEntries ==
    ASSUME NEW T, NEW s \in Seq(T), NEW i \in DOMAIN s, NEW k \in DOMAIN Without(s, i)
    PROVE  \E j \in DOMAIN s : Without(s, i)[k] = s[j]
<1>. DEFINE R == { s[j] : j \in DOMAIN s }
<1>. HIDE DEF R
<1>1. s \in Seq(R)
  <2>1. DOMAIN s = 1..Len(s) /\ Len(s) \in Nat /\ s = [j \in DOMAIN s |-> s[j]]
    OBVIOUS
  <2>2. s \in [1..Len(s) -> R]
    BY <2>1, Zenon DEF R
  <2>. QED
    BY <2>1, <2>2
<1>2. Without(s, i) \in Seq(R)
  BY <1>1, WithoutType, Zenon
<1>3. Without(s, i)[k] \in R
  BY <1>2
<1>. QED
  BY <1>3, Zenon DEF R

\* Closing the info socket leaves the queued requests as they are, except
\* that none of them can be answered any more.
LEMMA OrphanedFacts ==
    ASSUME NEW queue \in Seq(Request)
    PROVE  /\ Orphaned(queue) \in Seq(Request)
           /\ \A i \in DOMAIN Orphaned(queue) : ~Orphaned(queue)[i].live
<1>1. \A i \in DOMAIN queue : queue[i] \in Request
  OBVIOUS
<1>2. \A i \in DOMAIN queue : [queue[i] EXCEPT !.live = FALSE] \in Request
  BY <1>1, Zenon DEF Request
<1>3. \A i \in DOMAIN queue : ~[queue[i] EXCEPT !.live = FALSE].live
  BY <1>1, Zenon DEF Request
<1>4. DOMAIN queue = 1..Len(queue) /\ Len(queue) \in Nat
  OBVIOUS
<1>5. Orphaned(queue) \in [1..Len(queue) -> Request]
  BY <1>2, <1>4, Zenon DEF Orphaned
<1>6. Orphaned(queue) \in Seq(Request)
  BY <1>4, <1>5, SeqDef, Zenon
<1>. QED
  BY <1>3, <1>6, Zenon DEF Orphaned

-----------------------------------------------------------------------------
(***************************************************************************)
(* What the parts of an evaluation step do to the invariant.               *)
(***************************************************************************)
\* While one thread is in evaluate(), the other is not.
LEMMA OneEvaluation ==
    ASSUME MutexInv, NEW t \in Evaluators, frame[t].phase # "none"
    PROVE  /\ con_tbl_mutex = t
           /\ \A u \in Evaluators : u # t => frame[u].phase = "none"
           /\ t = "pe" => pe = "evaluate"
BY Zenon DEF MutexInv, Evaluators

\* The connection being evaluated is one of the table or the new one.
LEMMA ConnType ==
    ASSUME TypeOK, MutexInv, CursorInTable, NEW t \in Evaluators, frame[t].phase # "none"
    PROVE  Conn(t) \in Connection
BY DEF TypeOK, MutexInv, CursorInTable, Evaluators, Conn

\* evaluate() writes to its connection in place.
LEMMA SetConnKeeps ==
    ASSUME TypeOK, MutexInv, CursorInTable, NEW t \in Evaluators, frame[t].phase # "none",
           NEW c \in Connection, SetConn(t, c), cursor' = cursor
    PROVE  /\ con_tbl' \in Seq(Connection)
           /\ DOMAIN con_tbl' = DOMAIN con_tbl
           /\ new_conn' \in Connection
           /\ Conn(t)' = c
<1>1. CASE t = "pe"
  <2>1. cursor \in DOMAIN con_tbl /\ con_tbl \in Seq(Connection)
    BY <1>1, Zenon DEF MutexInv, CursorInTable, TypeOK
  <2>2. con_tbl' = [con_tbl EXCEPT ![cursor] = c] /\ new_conn' = new_conn
    BY <1>1, Zenon DEF SetConn
  <2>3. con_tbl' \in Seq(Connection) /\ DOMAIN con_tbl' = DOMAIN con_tbl
    BY <2>1, <2>2, ExceptSeq
  <2>. QED
    BY <1>1, <2>1, <2>2, <2>3, Zenon DEF TypeOK, Conn
<1>2. CASE t = "conmgr"
  BY <1>2, Zenon DEF SetConn, TypeOK, Conn
<1>. QED
  BY <1>1, <1>2, Zenon DEF Evaluators

\* The rules an evaluation may still try are rules of the list.
LEMMA CandidatePositions ==
    ASSUME NEW t, NEW x
    PROVE  /\ Candidates(t) \subseteq Positions
           /\ AfterRefused(x, Candidates(t)) \subseteq Positions
           /\ AfterActivated(x, Candidates(t)) \subseteq Positions
BY Zenon DEF Candidates, Matching, AfterRefused, AfterActivated

\* A request sent when no other one can still be answered is the one that is
\* waited for.
LEMMA SendKeeps ==
    ASSUME NEW t \in Evaluators, NEW cmd \in Waiting, NEW x \in Positions,
           NEW queue \in Seq(Request), \A i \in DOMAIN queue : ~queue[i].live,
           SendInfo(cmd, IfaceAt(x), queue), answers' = <<>>,
           frame'[t].phase = cmd, frame'[t].pos = x
    PROVE  /\ info_sock' \in BOOLEAN
           /\ requests' \in Seq(Request)
           /\ QueueInv'
           /\ cmd # "h" /\ (\A i \in DOMAIN queue : queue[i].cmd # "h") =>
                 \A i \in DOMAIN requests' : requests'[i].cmd # "h"
<1>. DEFINE m == [cmd |-> cmd, iface |-> IfaceAt(x), live |-> TRUE]
<1>1. m \in Request
  BY PositionTypes, Zenon DEF Request
<1>2. requests' = Append(queue, m) \/ requests' = queue
  BY Zenon DEF SendInfo
<1>3. /\ Append(queue, m) \in Seq(Request)
      /\ Len(Append(queue, m)) = Len(queue) + 1
      /\ \A i \in 1..Len(queue) : Append(queue, m)[i] = queue[i]
      /\ Append(queue, m)[Len(queue) + 1] = m
  BY <1>1, AppendProperties
<1>4. Asks(t, m)'
  BY Zenon DEF Asks
<1>5. AnswerMatchesRequest'
  BY DEF AnswerMatchesRequest
<1>6. \A i \in DOMAIN requests' :
          requests'[i].live => i = Len(requests') /\ \E u \in Evaluators : Asks(u, requests[i])'
  BY <1>1, <1>2, <1>3, <1>4 DEF Asks
<1>7. QueueInv'
  BY <1>5, <1>6, Zenon DEF QueueInv
<1>. QED
  BY <1>1, <1>2, <1>3, <1>7 DEF SendInfo

\* A thread in evaluate() that sends a request and waits for its answer.
LEMMA AskKeeps ==
    ASSUME TypeOK, MutexInv, NEW t \in Evaluators, frame[t].phase # "none",
           UNCHANGED <<con_tbl_mutex, conmgr, pe, main>>,
           NEW cmd \in Waiting, NEW x \in Positions, NEW f \in Frame,
           f.phase = cmd, f.pos = x, frame' = [frame EXCEPT ![t] = f],
           NEW queue \in Seq(Request), \A i \in DOMAIN queue : ~queue[i].live,
           SendInfo(cmd, IfaceAt(x), queue), answers' = <<>>,
           cmd \in {"h", "g"} => Conn(t)'.kind = "hip",
           cmd = "m" => Conn(t)'.kind = "ipv6",
           cmd = "g" => /\ hip_if' = Device(IfaceAt(x))
                        /\ \A i \in DOMAIN queue : queue[i].cmd # "h"
    PROVE  /\ frame' \in [Evaluators -> Frame]
           /\ info_sock' \in BOOLEAN
           /\ requests' \in Seq(Request)
           /\ MutexInv' /\ KindInv' /\ QueueInv' /\ HandoverInv'
<1>1. frame \in [Evaluators -> Frame]
  BY Zenon DEF TypeOK
<1>2. /\ frame' \in [Evaluators -> Frame]
      /\ frame'[t] = f
      /\ \A u \in Evaluators : u # t => frame'[u] = frame[u]
  BY <1>1, Zenon
<1>3. \A u \in Evaluators : u # t => frame'[u].phase = "none"
  BY <1>2, OneEvaluation, Zenon
<1>4. MutexInv'
  BY <1>2, Zenon DEF MutexInv, Waiting, Evaluators
<1>5. KindInv'
  BY <1>2, <1>3, Zenon DEF KindInv, Waiting
<1>6. /\ info_sock' \in BOOLEAN /\ requests' \in Seq(Request) /\ QueueInv'
      /\ cmd = "g" => \A i \in DOMAIN requests' : requests'[i].cmd # "h"
  BY <1>2, SendKeeps
<1>7. HandoverInv'
  <2>. SUFFICES ASSUME NEW u \in Evaluators, frame'[u].phase = "g"
                PROVE  /\ hip_if' = Device(IfaceAt(frame'[u].pos))
                       /\ \A i \in DOMAIN requests' : requests'[i].cmd # "h"
    BY Zenon DEF HandoverInv
  <2>1. u = t /\ cmd = "g"
    BY <1>2, <1>3, Zenon
  <2>. QED
    BY <1>2, <1>6, <2>1, Zenon
<1>. QED
  BY <1>2, <1>4, <1>5, <1>6, <1>7, Zenon

\* A thread in evaluate() that goes on with the next rule, or is done.
LEMMA TryRulesKeeps ==
    ASSUME TypeOK, MutexInv, NEW t \in Evaluators, frame[t].phase # "none",
           UNCHANGED <<con_tbl_mutex, conmgr, pe, main>>,
           NEW f \in Frame, NEW S, S \subseteq Positions, NEW open \in BOOLEAN,
           NEW queue \in Seq(Request), \A i \in DOMAIN queue : ~queue[i].live,
           TryRules(t, f, S, open, queue), answers' = <<>>
    PROVE  /\ policy_mutex' \in Evaluators \cup {Nobody}
           /\ frame' \in [Evaluators -> Frame]
           /\ info_sock' \in BOOLEAN
           /\ requests' \in Seq(Request)
           /\ MutexInv' /\ KindInv' /\ QueueInv' /\ HandoverInv'
<1>1. policy_mutex' \in Evaluators \cup {Nobody}
  BY Zenon DEF TryRules, TypeOK
<1>2. CASE S = {}
  <2>. DEFINE g == [f EXCEPT !.phase = "done"]
  <2>1. g \in Frame /\ g.phase = "done"
    BY Zenon DEF Frame, Phases
  <2>2. frame' = [frame EXCEPT ![t] = g] /\ info_sock' = open /\ requests' = queue
    BY <1>2, Zenon DEF TryRules
  <2>. HIDE DEF g
  <2>3. /\ frame' \in [Evaluators -> Frame]
        /\ frame'[t] = g
        /\ \A u \in Evaluators : u # t => frame'[u] = frame[u]
    BY <2>1, <2>2, Zenon DEF TypeOK
  <2>4. \A u \in Evaluators : frame'[u].phase \in {"none", "done"}
    BY <2>1, <2>3, OneEvaluation, Zenon
  <2>5. MutexInv'
    BY <2>1, <2>3, Zenon DEF MutexInv, Evaluators
  <2>6. KindInv' /\ HandoverInv'
    BY <2>4, Zenon DEF KindInv, HandoverInv, Waiting
  <2>7. QueueInv'
    BY <2>2 DEF QueueInv, AnswerMatchesRequest
  <2>. QED
    BY <1>1, <2>2, <2>3, <2>5, <2>6, <2>7, Zenon
<1>3. CASE S # {}
  <2>. DEFINE x == FirstOf(S)
              g == [f EXCEPT !.phase = "e", !.pos = x]
  <2>1. x \in Positions
    BY <1>3, FirstOfMember, Zenon
  <2>2. g \in Frame /\ g.phase = "e" /\ g.pos = x
    BY <2>1, Zenon DEF Frame, Phases, Waiting
  <2>3. frame' = [frame EXCEPT ![t] = g] /\ SendInfo("e", IfaceAt(x), queue)
    BY <1>3, Zenon DEF TryRules
  <2>. HIDE DEF x, g
  <2>4. "e" \in Waiting
    BY Zenon DEF Waiting
  <2>. QED
    BY <1>1, <2>1, <2>2, <2>3, <2>4, AskKeeps, Zenon
<1>. QED
  BY <1>2, <1>3, Zenon

\* When the answer is there, it is the only one and no request is queued.
LEMMA AnsweredFacts ==
    ASSUME TypeOK, QueueInv, NEW t \in Evaluators, Answered(t)
    PROVE  /\ frame[t].phase # "none"
           /\ requests = <<>>
           /\ Tail(answers) = <<>>
<1>1. answers # <<>> /\ frame[t].phase \in Waiting
  BY Zenon DEF Answered
<1>2. answers \in Seq(Answer) /\ 1 \in DOMAIN answers
  BY <1>1 DEF TypeOK
<1>3. Len(answers) = 1
  BY <1>2, Zenon DEF QueueInv, AnswerMatchesRequest
<1>4. Tail(answers) = <<>>
  <2>1. Tail(answers) \in Seq(Answer) /\ Len(Tail(answers)) = 0
    BY <1>1, <1>2, <1>3, HeadTailProperties
  <2>. QED
    BY <2>1, EmptySeq, Zenon
<1>. QED
  BY <1>1, <1>4, Zenon DEF QueueInv, Waiting

\* While no thread waits, no queued request can be answered and no answer is
\* left over.
LEMMA IdleQueue ==
    ASSUME TypeOK, QueueInv, \A u \in Evaluators : frame[u].phase \notin Waiting
    PROVE  /\ \A i \in DOMAIN requests : ~requests[i].live
           /\ answers = <<>>
<1>1. \A i \in DOMAIN requests : ~requests[i].live
  <2>. SUFFICES ASSUME NEW i \in DOMAIN requests, requests[i].live
                PROVE  FALSE
    BY Zenon
  <2>1. requests[i] \in Request
    BY DEF TypeOK
  <2>2. PICK u \in Evaluators : Asks(u, requests[i])
    BY Zenon DEF QueueInv
  <2>. QED
    BY <2>1, <2>2, Zenon DEF Asks, Request
<1>2. answers = <<>>
  <2>. SUFFICES ASSUME answers # <<>>
                PROVE  FALSE
    BY Zenon
  <2>1. 1 \in DOMAIN answers /\ answers[1] \in Answer
    BY DEF TypeOK
  <2>. QED
    BY <2>1, Zenon DEF QueueInv, AnswerMatchesRequest, Answer
<1>. QED
  BY <1>1, <1>2, Zenon

\* Steps before and after which no thread waits for an answer.
LEMMA IdleStep ==
    ASSUME TypeOK, QueueInv, UNCHANGED <<requests, answers>>,
           \A u \in Evaluators : frame[u].phase \notin Waiting,
           \A u \in Evaluators : frame'[u].phase \notin Waiting
    PROVE  KindInv' /\ QueueInv' /\ HandoverInv'
<1>1. (\A i \in DOMAIN requests : ~requests[i].live) /\ answers = <<>>
  BY IdleQueue, Zenon
<1>2. KindInv' /\ HandoverInv'
  BY Zenon DEF KindInv, HandoverInv, Waiting
<1>3. QueueInv'
  BY <1>1 DEF QueueInv, AnswerMatchesRequest
<1>. QED
  BY <1>2, <1>3, Zenon

\* Steps that leave the evaluations and the exchange with the MIH user alone.
LEMMA QuietStep ==
    ASSUME KindInv, QueueInv, HandoverInv,
           UNCHANGED <<con_tbl, cursor, new_conn, frame, requests, answers, hip_if, mip_if>>
    PROVE  KindInv' /\ QueueInv' /\ HandoverInv'
BY Zenon DEF KindInv, QueueInv, HandoverInv, AnswerMatchesRequest, Asks, Conn

-----------------------------------------------------------------------------
(***************************************************************************)
(* The steps of the connection manager's and the policy engine's threads   *)
(* between evaluations keep the invariant of the policy engine.            *)
(***************************************************************************)
\* add_connection() locks the table and calls evaluate().
LEMMA AddConnectionKeeps ==
    ASSUME EngineInv, NEW pid \in Pids, NEW fd \in Fds, NEW kind \in Kinds,
           AddConnection(pid, fd, kind)
    PROVE  EngineInv'
<1>. USE DEF EngineInv
<1>1. new_conn' \in Connection /\ new_conn'.active_rule = 0
  BY EngineAssumption, Zenon DEF AddConnection, NewConnection, Connection
<1>2. \A u \in Evaluators : frame[u].phase = "none"
  BY Zenon DEF AddConnection, MutexInv, Evaluators, Nobody
<1>. DEFINE f == [phase |-> "location", pos |-> NoRule, old |-> new_conn'.active_rule,
                  calm |-> TRUE]
<1>3. f \in Frame /\ f.phase = "location"
  BY <1>1, SMTT(40) DEF Frame, Phases
<1>4. frame' = [frame EXCEPT !["conmgr"] = f]
  BY Zenon DEF AddConnection, EnterEvaluate
<1>. HIDE DEF f
<1>5. /\ frame' \in [Evaluators -> Frame] /\ frame'["conmgr"] = f /\ frame'["pe"] = frame["pe"]
  BY <1>3, <1>4, Zenon DEF TypeOK, Evaluators
<1>6. KindInv' /\ QueueInv' /\ HandoverInv'
  <2>1. \A u \in Evaluators : frame[u].phase \notin Waiting /\ frame'[u].phase \notin Waiting
    BY <1>2, <1>3, <1>5, Zenon DEF Waiting, Evaluators
  <2>. QED
    BY <2>1, IdleStep, Zenon DEF AddConnection, infoVars
<1>7. MutexInv' /\ CursorInTable'
  BY <1>2, <1>3, <1>5, Zenon DEF MutexInv, CursorInTable, AddConnection, polVars, peVars, Evaluators, Nobody
<1>8. TypeOK'
  BY <1>1, <1>5, SMTT(40) DEF TypeOK, AddConnection, polVars, trigVars, peVars, locVars, infoVars, mihVars,
                    Evaluators
<1>. QED
  BY <1>6, <1>7, <1>8, Zenon

\* add_connection() links the evaluated connection and unlocks the table.
LEMMA LinkConnectionKeeps ==
    ASSUME EngineInv, LinkConnection
    PROVE  EngineInv'
<1>. USE DEF EngineInv
<1>1. frame["conmgr"].phase = "done" /\ frame["pe"].phase = "none" /\ pe # "evaluate"
  BY Zenon DEF LinkConnection, MutexInv
<1>2. NoFrame \in Frame /\ NoFrame.phase = "none"
  BY Zenon DEF NoFrame, Frame, Phases
<1>3. /\ frame' \in [Evaluators -> Frame]
      /\ frame'["conmgr"] = NoFrame /\ frame'["pe"] = frame["pe"]
  BY <1>2, Zenon DEF LinkConnection, TypeOK, Evaluators
<1>4. con_tbl' \in Seq(Connection)
  BY AppendProperties, Zenon DEF LinkConnection, TypeOK
<1>5. AnyConnection \in Connection
  BY AnyConnectionType, Zenon
<1>6. KindInv' /\ QueueInv' /\ HandoverInv'
  <2>1. \A u \in Evaluators : frame[u].phase \notin Waiting /\ frame'[u].phase \notin Waiting
    BY <1>1, <1>2, <1>3, Zenon DEF Waiting, Evaluators
  <2>. QED
    BY <2>1, IdleStep, Zenon DEF LinkConnection, infoVars
<1>7. MutexInv' /\ CursorInTable'
  BY <1>1, <1>2, <1>3, Zenon DEF MutexInv, CursorInTable, LinkConnection, polVars, peVars, Evaluators, Nobody
<1>8. TypeOK'
  BY <1>3, <1>4, <1>5, SMTT(40) DEF TypeOK, LinkConnection, polVars, trigVars, peVars, locVars, infoVars,
                          mihVars, Evaluators
<1>. QED
  BY <1>6, <1>7, <1>8, Zenon

\* No thread is in evaluate() while the connection manager removes entries.
LEMMA RemoveConnectionKeeps ==
    ASSUME EngineInv, NEW k \in Key, RemoveConnection(k)
    PROVE  EngineInv'
<1>. USE DEF EngineInv
<1>1. KindInv' /\ QueueInv' /\ HandoverInv'
  BY QuietStep, Zenon DEF RemoveConnection, peVars, infoVars, mihVars
<1>2. MutexInv' /\ CursorInTable'
  BY Zenon DEF MutexInv, CursorInTable, RemoveConnection, polVars, peVars, Nobody
<1>3. TypeOK'
  BY SMTT(40) DEF TypeOK, RemoveConnection, polVars, trigVars, peVars, locVars, infoVars, mihVars, Evaluators
<1>. QED
  BY <1>1, <1>2, <1>3, Zenon

\* remove_connection() takes one entry out of the table it has locked.
LEMMA UnlinkConnectionKeeps ==
    ASSUME EngineInv, UnlinkConnection
    PROVE  EngineInv'
<1>. USE DEF EngineInv
<1>1. PICK i \in DOMAIN con_tbl : con_tbl' = Without(con_tbl, i)
  BY Zenon DEF UnlinkConnection
<1>2. con_tbl' \in Seq(Connection)
  BY <1>1, WithoutType, Zenon DEF TypeOK
<1>3. pe # "evaluate" /\ \A u \in Evaluators : frame[u].phase = "none"
  BY Zenon DEF UnlinkConnection, MutexInv, Evaluators
<1>4. KindInv' /\ QueueInv' /\ HandoverInv'
  <2>1. \A u \in Evaluators : frame[u].phase \notin Waiting /\ frame'[u].phase \notin Waiting
    BY <1>3, Zenon DEF Waiting, UnlinkConnection
  <2>. QED
    BY <2>1, IdleStep, Zenon DEF UnlinkConnection, infoVars
<1>5. MutexInv' /\ CursorInTable'
  BY <1>3, Zenon DEF MutexInv, CursorInTable, UnlinkConnection, polVars, peVars
<1>6. TypeOK'
  BY <1>2, SMTT(40) DEF TypeOK, UnlinkConnection, polVars, trigVars, peVars, locVars, infoVars, mihVars
<1>. QED
  BY <1>4, <1>5, <1>6, Zenon

\* remove_connection() unlocks the table.
LEMMA RemoveDoneKeeps ==
    ASSUME EngineInv, RemoveDone
    PROVE  EngineInv'
<1>. USE DEF EngineInv
<1>1. KindInv' /\ QueueInv' /\ HandoverInv'
  BY QuietStep, Zenon DEF RemoveDone, peVars, infoVars, mihVars
<1>2. MutexInv' /\ CursorInTable'
  BY Zenon DEF MutexInv, CursorInTable, RemoveDone, polVars, peVars, Nobody
<1>3. TypeOK'
  BY AnyConnectionType, SMTT(40) DEF TypeOK, RemoveDone, polVars, trigVars, peVars, locVars, infoVars, mihVars,
                           Evaluators
<1>. QED
  BY <1>1, <1>2, <1>3, Zenon

\* evaluate_all() goes on with an entry of the table, or unlocks it.
LEMMA EvaluateEntryKeeps ==
    ASSUME EngineInv, NEW i \in Nat, EvaluateEntry(i), pe # "none",
           conmgr = "select", \A u \in Evaluators : frame[u].phase \notin Waiting,
           frame["conmgr"].phase = "none",
           UNCHANGED <<con_tbl, conmgr, new_conn, victim, polVars, need_evaluation, locVars,
                       infoVars, mihVars>>,
           swallowed' \in BOOLEAN
    PROVE  EngineInv'
<1>. USE DEF EngineInv
<1>1. PICK f \in Frame :
          /\ frame' = [frame EXCEPT !["pe"] = f]
          /\ \/ /\ i \in DOMAIN con_tbl /\ f.phase = "location"
                /\ pe' = "evaluate" /\ cursor' = i /\ con_tbl_mutex' = "pe"
             \/ /\ f.phase = "none"
                /\ pe' = "clear" /\ cursor' = 1 /\ con_tbl_mutex' = Nobody
  <2>1. CASE i \in DOMAIN con_tbl
    <3>. DEFINE f == [phase |-> "location", pos |-> NoRule, old |-> con_tbl[i].active_rule,
                      calm |-> TRUE]
    <3>1. con_tbl[i] \in Connection
      BY <2>1, SMTT(40) DEF TypeOK
    <3>2. f \in Frame /\ f.phase = "location"
      BY <3>1, Zenon DEF Frame, Phases, Connection
    <3>. QED
      BY <2>1, <3>2, Zenon DEF EvaluateEntry, EnterEvaluate
  <2>2. CASE i \notin DOMAIN con_tbl
    <3>1. NoFrame \in Frame /\ NoFrame.phase = "none"
      BY Zenon DEF NoFrame, Frame, Phases
    <3>. QED
      BY <2>2, <3>1, Zenon DEF EvaluateEntry
  <2>. QED
    BY <2>1, <2>2, Zenon
<1>2. /\ frame' \in [Evaluators -> Frame]
      /\ frame'["pe"] = f /\ frame'["conmgr"] = frame["conmgr"]
  BY <1>1, Zenon DEF TypeOK, Evaluators
<1>3. KindInv' /\ QueueInv' /\ HandoverInv'
  <2>1. \A u \in Evaluators : frame'[u].phase \notin Waiting
    BY <1>1, <1>2, Zenon DEF Waiting, Evaluators
  <2>. QED
    BY <2>1, IdleStep, Zenon DEF infoVars
<1>4. MutexInv' /\ CursorInTable'
  BY <1>1, <1>2, Zenon DEF MutexInv, CursorInTable, polVars, Nobody
<1>5. TypeOK'
  BY <1>1, <1>2, SMTT(40) DEF TypeOK, polVars, locVars, infoVars, mihVars, Evaluators
<1>. QED
  BY <1>3, <1>4, <1>5, Zenon

\* The steps of the policy engine's thread outside evaluate().
LEMMA PeKeeps ==
    ASSUME EngineInv, PeStep
    PROVE  EngineInv'
<1>. USE DEF EngineInv
<1>1. CASE PeCheck
  <2>1. KindInv' /\ QueueInv' /\ HandoverInv'
    BY <1>1, QuietStep, Zenon DEF PeCheck, tblVars, infoVars, mihVars
  <2>2. MutexInv' /\ CursorInTable'
    BY <1>1, Zenon DEF MutexInv, CursorInTable, PeCheck, polVars, tblVars
  <2>3. TypeOK'
    BY <1>1, SMTT(40) DEF TypeOK, PeCheck, tblVars, polVars, trigVars, locVars, infoVars, mihVars
  <2>. QED
    BY <2>1, <2>2, <2>3, Zenon
<1>2. CASE PeLock
  <2>1. /\ conmgr = "select" /\ pe # "none" /\ swallowed' \in BOOLEAN /\ 1 \in Nat
        /\ \A u \in Evaluators : frame[u].phase = "none"
    BY <1>2, Zenon DEF PeLock, MutexInv, Evaluators, Nobody
  <2>2. \A u \in Evaluators : frame[u].phase \notin Waiting
    BY <2>1, Zenon DEF Waiting
  <2>3. /\ frame["conmgr"].phase = "none" /\ EvaluateEntry(1)
        /\ UNCHANGED <<con_tbl, conmgr, new_conn, victim, polVars, need_evaluation, locVars,
                       infoVars, mihVars>>
    BY <1>2, <2>1, Zenon DEF PeLock, Evaluators
  <2>. QED
    BY <2>1, <2>2, <2>3, EvaluateEntryKeeps, Zenon
<1>3. CASE PeNext
  <2>1. /\ conmgr = "select" /\ pe # "none" /\ swallowed' \in BOOLEAN /\ cursor + 1 \in Nat
        /\ frame["conmgr"].phase = "none" /\ frame["pe"].phase = "done"
    BY <1>3, SMTT(40) DEF PeNext, MutexInv, Evaluators, TypeOK, trigVars
  <2>2. \A u \in Evaluators : frame[u].phase \notin Waiting
    BY <2>1, Zenon DEF Waiting, Evaluators
  <2>3. /\ EvaluateEntry(cursor + 1)
        /\ UNCHANGED <<con_tbl, conmgr, new_conn, victim, polVars, need_evaluation, locVars,
                       infoVars, mihVars>>
    BY <1>3, Zenon DEF PeNext, trigVars
  <2>. QED
    BY <2>1, <2>2, <2>3, EvaluateEntryKeeps, Zenon
<1>4. CASE PeClear
  <2>1. KindInv' /\ QueueInv' /\ HandoverInv'
    BY <1>4, QuietStep, Zenon DEF PeClear, tblVars, infoVars, mihVars
  <2>2. MutexInv' /\ CursorInTable'
    BY <1>4, Zenon DEF MutexInv, CursorInTable, PeClear, polVars, tblVars
  <2>3. TypeOK'
    <3>1. need_evaluation' \in BOOLEAN /\ swallowed' \in BOOLEAN
      BY <1>4, Zenon DEF PeClear, TypeOK
    <3>2. /\ pe' = "idle"
          /\ UNCHANGED <<tblVars, polVars, cursor, locVars, infoVars, mihVars, frame>>
      BY <1>4, Zenon DEF PeClear
    <3>3. TypeOK
      BY Zenon
    <3>. QED
      BY ONLY <3>1, <3>2, <3>3, SMTT(40) DEF TypeOK, tblVars, polVars, locVars, infoVars, mihVars
  <2>. QED
    BY <2>1, <2>2, <2>3, Zenon
<1>. QED
  BY <1>1, <1>2, <1>3, <1>4, Zenon DEF PeStep

-----------------------------------------------------------------------------
(***************************************************************************)
(* Every step of evaluate() keeps the invariant of the policy engine.      *)
(***************************************************************************)
\* evaluate() copies the location into its own buffer.
LEMMA EvaluateLocationKeeps ==
    ASSUME EngineInv, NEW t \in Evaluators, EvaluateLocation(t)
    PROVE  EngineInv'
<1>. USE DEF EngineInv
<1>1. frame[t].phase = "location" /\ frame[t] \in Frame /\ frame \in [Evaluators -> Frame]
  BY Zenon DEF EvaluateLocation, TypeOK
<1>. DEFINE c == [Conn(t) EXCEPT !.seen = location]
<1>2. c \in Connection
  BY <1>1, ConnType, Zenon DEF Connection, TypeOK
<1>3. SetConn(t, c) /\ cursor' = cursor
  BY Zenon DEF EvaluateLocation, peVars
<1>. HIDE DEF c
<1>4. /\ con_tbl' \in Seq(Connection) /\ DOMAIN con_tbl' = DOMAIN con_tbl
      /\ new_conn' \in Connection
  BY <1>1, <1>2, <1>3, SetConnKeeps, Zenon
<1>5. /\ frame' \in [Evaluators -> Frame]
      /\ frame'[t].phase = "policy"
      /\ \A u \in Evaluators : u # t => frame'[u] = frame[u]
  BY <1>1, Zenon DEF EvaluateLocation, Frame, Phases
<1>6. \A u \in Evaluators : frame'[u].phase \in {"none", "policy"}
  BY <1>1, <1>5, OneEvaluation, Zenon
<1>7. TypeOK'
  BY <1>4, <1>5 DEF TypeOK, EvaluateLocation, polVars, trigVars, peVars, locVars, infoVars, mihVars
<1>8. MutexInv' /\ CursorInTable'
  BY <1>1, <1>4, <1>5, Zenon DEF MutexInv, CursorInTable, EvaluateLocation, peVars, polVars, Evaluators
<1>9. KindInv' /\ QueueInv' /\ HandoverInv'
  <2>1. \A u \in Evaluators : frame[u].phase \notin Waiting /\ frame'[u].phase \notin Waiting
    BY <1>1, <1>6, OneEvaluation, Zenon DEF Waiting
  <2>2. requests' = requests /\ answers' = answers
    BY Zenon DEF EvaluateLocation, infoVars
  <2>. QED
    BY <2>1, <2>2, IdleStep, Zenon
<1>. QED
  BY <1>7, <1>8, <1>9, Zenon

\* evaluate() takes policy_mutex and asks about its first rule, or has none.
LEMMA EvaluatePoliciesKeeps ==
    ASSUME EngineInv, NEW t \in Evaluators, EvaluatePolicies(t)
    PROVE  EngineInv'
<1>. USE DEF EngineInv
<1>1. frame[t].phase = "policy" /\ frame[t] \in Frame /\ frame \in [Evaluators -> Frame]
  BY Zenon DEF EvaluatePolicies, TypeOK
<1>2. \A u \in Evaluators : frame[u].phase \notin Waiting
  BY <1>1, OneEvaluation, Zenon DEF Waiting
<1>3. /\ \A i \in DOMAIN requests : ~requests[i].live
      /\ answers = <<>> /\ requests \in Seq(Request) /\ info_sock \in BOOLEAN
  BY <1>2, IdleQueue, Zenon DEF TypeOK
<1>4. UNCHANGED <<con_tbl, new_conn, con_tbl_mutex, conmgr, main, pe, cursor, answers>>
  BY Zenon DEF EvaluatePolicies, tblVars, peVars
<1>5. /\ policy_mutex' \in Evaluators \cup {Nobody}
      /\ frame' \in [Evaluators -> Frame]
      /\ info_sock' \in BOOLEAN /\ requests' \in Seq(Request)
      /\ MutexInv' /\ KindInv' /\ QueueInv' /\ HandoverInv'
  <2>1. CASE Candidates(t) = {}
    <3>1. /\ policy_mutex' = Nobody /\ info_sock' = info_sock /\ requests' = requests
          /\ frame' = [frame EXCEPT ![t].phase = "done"]
      BY <2>1, Zenon DEF EvaluatePolicies
    <3>2. frame' = [frame EXCEPT ![t] = [frame[t] EXCEPT !.phase = "done"]]
      BY <3>1, Zenon
    <3>3. TryRules(t, frame[t], {}, info_sock, requests)
      BY <3>1, <3>2, Zenon DEF TryRules
    <3>. QED
      BY <1>1, <1>3, <1>4, <3>3, TryRulesKeeps, Zenon
  <2>2. CASE Candidates(t) # {}
    <3>. DEFINE x == FirstOf(Candidates(t))
                f == [frame[t] EXCEPT !.pos = x, !.phase = "e"]
    <3>1. x \in Positions
      BY <2>2, CandidatePositions, FirstOfMember, Zenon
    <3>2. f \in Frame /\ f.phase = "e" /\ f.pos = x
      BY <1>1, <3>1, Zenon DEF Frame, Phases, Waiting
    <3>3. /\ frame' = [frame EXCEPT ![t] = f]
          /\ SendInfo("e", IfaceAt(x), requests) /\ policy_mutex' = t
      BY <2>2, Zenon DEF EvaluatePolicies, Await
    <3>. HIDE DEF x, f
    <3>4. "e" \in Waiting
      BY Zenon DEF Waiting
    <3>5. /\ frame' \in [Evaluators -> Frame]
          /\ info_sock' \in BOOLEAN /\ requests' \in Seq(Request)
          /\ MutexInv' /\ KindInv' /\ QueueInv' /\ HandoverInv'
      BY <1>1, <1>3, <1>4, <3>1, <3>2, <3>3, <3>4, AskKeeps, Zenon
    <3>. QED
      BY <3>3, <3>5, Zenon
  <2>. QED
    BY <2>1, <2>2, Zenon
<1>6. TypeOK'
  BY <1>4, <1>5 DEF TypeOK, EvaluatePolicies, tblVars, trigVars, peVars, locVars, mihVars
<1>7. CursorInTable'
  BY <1>4, Zenon DEF CursorInTable
<1>. QED
  BY <1>5, <1>6, <1>7, Zenon

\* The steps that end a rule, and possibly the evaluation, after an answer.
LEMMA RuleDownKeeps ==
    ASSUME EngineInv, NEW t \in Evaluators, RuleDown(t)
    PROVE  EngineInv'
<1>. USE DEF EngineInv
<1>. DEFINE S == AfterRefused(frame[t].pos, Candidates(t))
<1>1. /\ frame[t] \in Frame /\ info_sock \in BOOLEAN /\ requests = <<>>
      /\ frame[t].phase # "none" /\ answers' = <<>>
  BY AnsweredFacts, Zenon DEF RuleDown, TypeOK
<1>2. S \subseteq Positions
  BY CandidatePositions, Zenon
<1>3. TryRules(t, frame[t], S, info_sock, requests)
  BY Zenon DEF RuleDown
<1>4. UNCHANGED <<con_tbl, new_conn, con_tbl_mutex, conmgr, main, pe, cursor>>
  BY Zenon DEF RuleDown, tblVars, peVars
<1>5. requests \in Seq(Request) /\ \A i \in DOMAIN requests : ~requests[i].live
  BY <1>1
<1>. HIDE DEF S
<1>6. /\ policy_mutex' \in Evaluators \cup {Nobody}
      /\ frame' \in [Evaluators -> Frame]
      /\ info_sock' \in BOOLEAN /\ requests' \in Seq(Request)
      /\ MutexInv' /\ KindInv' /\ QueueInv' /\ HandoverInv'
  BY <1>1, <1>2, <1>3, <1>4, <1>5, TryRulesKeeps, Zenon
<1>7. TypeOK'
  <2>1. answers' \in Seq(Answer)
    BY <1>1
  <2>2. UNCHANGED <<tblVars, policies_loaded, main, trigVars, peVars, locVars, mihVars>>
    BY Zenon DEF RuleDown
  <2>. QED
    BY <1>6, <2>1, <2>2 DEF TypeOK, tblVars, trigVars, peVars, locVars, mihVars
<1>8. CursorInTable'
  BY <1>4, Zenon DEF CursorInTable
<1>. QED
  BY <1>6, <1>7, <1>8, Zenon

\* A timeout closes the socket, and no request can be answered any more.
LEMMA NoAnswerKeeps ==
    ASSUME EngineInv, NEW t \in Evaluators, NoAnswer(t)
    PROVE  EngineInv'
<1>. USE DEF EngineInv
<1>. DEFINE S == AfterRefused(frame[t].pos, Candidates(t))
            f == [frame[t] EXCEPT !.calm = FALSE]
<1>1. /\ frame[t] \in Frame /\ requests \in Seq(Request)
      /\ frame[t].phase # "none" /\ answers' = <<>>
  BY Zenon DEF NoAnswer, TypeOK, Waiting
<1>2. S \subseteq Positions /\ f \in Frame
  BY <1>1, CandidatePositions, Zenon DEF Frame
<1>3. TryRules(t, f, S, FALSE, Orphaned(requests))
  BY Zenon DEF NoAnswer
<1>4. UNCHANGED <<con_tbl, new_conn, con_tbl_mutex, conmgr, main, pe, cursor, answers>>
  BY Zenon DEF NoAnswer, tblVars, peVars
<1>5. /\ Orphaned(requests) \in Seq(Request)
      /\ \A i \in DOMAIN Orphaned(requests) : ~Orphaned(requests)[i].live
  BY <1>1, OrphanedFacts, Zenon
<1>. HIDE DEF S, f
<1>6. /\ policy_mutex' \in Evaluators \cup {Nobody}
      /\ frame' \in [Evaluators -> Frame]
      /\ info_sock' \in BOOLEAN /\ requests' \in Seq(Request)
      /\ MutexInv' /\ KindInv' /\ QueueInv' /\ HandoverInv'
  BY <1>1, <1>2, <1>3, <1>4, <1>5, TryRulesKeeps, Zenon
<1>7. TypeOK'
  BY <1>1, <1>4, <1>6 DEF TypeOK, NoAnswer, tblVars, trigVars, peVars, locVars, mihVars
<1>8. CursorInTable'
  BY <1>4, Zenon DEF CursorInTable
<1>. QED
  BY <1>6, <1>7, <1>8, Zenon

\* A rule is recorded and the walk goes on with the next policy.
LEMMA ActivateKeeps ==
    ASSUME EngineInv, NEW t \in Evaluators, Answered(t), frame[t].phase \in Waiting,
           Activate(t), answers' = Tail(answers),
           UNCHANGED <<con_tbl_mutex, conmgr, victim, policies_loaded, main, trigVars,
                       peVars, locVars, mihVars>>
    PROVE  EngineInv'
<1>. USE DEF EngineInv
<1>. DEFINE S == AfterActivated(frame[t].pos, Candidates(t))
            c == [Conn(t) EXCEPT !.active_rule = RuleID(frame[t].pos)]
<1>1. /\ frame[t] \in Frame /\ info_sock \in BOOLEAN /\ requests = <<>>
      /\ frame[t].phase # "none" /\ answers' = <<>>
  BY AnsweredFacts, Zenon DEF TypeOK
<1>2. S \subseteq Positions
  BY CandidatePositions, Zenon
<1>3. TryRules(t, frame[t], S, info_sock, requests) /\ SetConn(t, c)
  BY Zenon DEF Activate
<1>4. UNCHANGED <<con_tbl_mutex, conmgr, main, pe, cursor>>
  BY Zenon DEF peVars
<1>5. requests \in Seq(Request) /\ \A i \in DOMAIN requests : ~requests[i].live
  BY <1>1, SMTT(40)
<1>6. c \in Connection
  <2>1. frame[t].pos \in Positions
    BY Zenon DEF KindInv
  <2>. QED
    BY <1>1, <2>1, ConnType, PositionTypes, Zenon DEF Connection
<1>. HIDE DEF S, c
<1>7. /\ con_tbl' \in Seq(Connection) /\ DOMAIN con_tbl' = DOMAIN con_tbl
      /\ new_conn' \in Connection
  BY <1>1, <1>3, <1>4, <1>6, SetConnKeeps, Zenon
<1>8. /\ policy_mutex' \in Evaluators \cup {Nobody}
      /\ frame' \in [Evaluators -> Frame]
      /\ info_sock' \in BOOLEAN /\ requests' \in Seq(Request)
      /\ MutexInv' /\ KindInv' /\ QueueInv' /\ HandoverInv'
  BY <1>1, <1>2, <1>3, <1>4, <1>5, TryRulesKeeps, Zenon
<1>9. TypeOK'
  <2>1. answers' \in Seq(Answer)
    BY ONLY <1>1
  <2>2. UNCHANGED <<con_tbl_mutex, conmgr, victim, policies_loaded, main, need_evaluation,
                    swallowed, pe, cursor, location, locmgr, events, links, hip_if, mip_if>>
    BY Zenon DEF trigVars, peVars, locVars, mihVars
  <2>3. TypeOK
    BY Zenon
  <2>. QED
    BY ONLY <1>7, <1>8, <2>1, <2>2, <2>3, SMTT(40) DEF TypeOK
<1>10. CursorInTable'
  BY <1>4, <1>7, Zenon DEF CursorInTable
<1>. QED
  BY <1>8, <1>9, <1>10, Zenon

\* The interface is up: netmgr_set_interface() asks for the hand-over, or has
\* nothing to do.
LEMMA RuleUpKeeps ==
    ASSUME EngineInv, NEW t \in Evaluators, RuleUp(t)
    PROVE  EngineInv'
<1>. USE DEF EngineInv
<1>1. /\ Answered(t) /\ frame[t].phase = "e" /\ answers' = Tail(answers)
      /\ UNCHANGED <<con_tbl_mutex, conmgr, victim, policies_loaded, main, trigVars,
                     peVars, locVars, mihVars>>
  BY Zenon DEF RuleUp
<1>2. /\ frame[t] \in Frame /\ requests = <<>> /\ frame[t].phase # "none"
      /\ answers' = <<>> /\ frame[t].pos \in Positions
  BY <1>1, AnsweredFacts, SMTT(40) DEF TypeOK, KindInv, Waiting
<1>3. CASE Conn(t).kind = "ipv4"
  <2>1. Activate(t)
    BY <1>3, Zenon DEF RuleUp
  <2>. QED
    BY <1>1, <2>1, ActivateKeeps, Zenon DEF Waiting
<1>4. ASSUME NEW cmd \in {"h", "m"},
             Conn(t).kind = IF cmd = "h" THEN "hip" ELSE "ipv6",
             Await(t, frame[t].pos, cmd), SendInfo(cmd, IfaceAt(frame[t].pos), requests),
             UNCHANGED <<con_tbl, new_conn, policy_mutex>>
      PROVE  EngineInv'
  <2>. DEFINE x == frame[t].pos
              f == [frame[t] EXCEPT !.pos = x, !.phase = cmd]
  <2>1. f \in Frame /\ f.phase = cmd /\ f.pos = x /\ cmd \in Waiting
    BY <1>2, Zenon DEF Frame, Phases, Waiting
  <2>2. frame' = [frame EXCEPT ![t] = f]
    BY <1>4, Zenon DEF Await
  <2>3. requests \in Seq(Request) /\ \A i \in DOMAIN requests : ~requests[i].live
    BY <1>2
  <2>4. Conn(t)' = Conn(t) /\ UNCHANGED <<con_tbl_mutex, conmgr, main, pe, cursor>>
    BY <1>1, <1>4, Zenon DEF Conn, peVars
  <2>. HIDE DEF f
  <2>5. /\ frame' \in [Evaluators -> Frame]
        /\ info_sock' \in BOOLEAN /\ requests' \in Seq(Request)
        /\ MutexInv' /\ KindInv' /\ QueueInv' /\ HandoverInv'
    BY <1>2, <1>4, <2>1, <2>2, <2>3, <2>4, AskKeeps, Zenon
  <2>6. TypeOK'
    <3>1. answers' \in Seq(Answer)
      BY <1>2
    <3>2. TypeOK
      BY Zenon
    <3>. QED
      BY ONLY <1>1, <1>4, <2>5, <3>1, <3>2, SMTT(40) DEF TypeOK, trigVars, peVars, locVars, mihVars
  <2>7. CursorInTable'
    BY <1>4, <2>4, SMTT(40) DEF CursorInTable
  <2>. QED
    BY <2>5, <2>6, <2>7, Zenon
<1>5. CASE Conn(t).kind = "hip"
  BY <1>4, <1>5, Zenon DEF RuleUp
<1>6. CASE Conn(t).kind = "ipv6"
  BY <1>4, <1>6, Zenon DEF RuleUp
<1>7. Conn(t).kind \in AddrKinds
  BY <1>2, ConnType, Zenon DEF Connection
<1>. QED
  BY <1>3, <1>5, <1>6, <1>7, Zenon DEF AddrKinds

\* The hand-over was acknowledged, so it is the latest one, and no other one
\* is queued.
LEMMA HipConfirmKeeps ==
    ASSUME EngineInv, NEW t \in Evaluators, HipConfirm(t)
    PROVE  EngineInv'
<1>. USE DEF EngineInv
<1>1. /\ Answered(t) /\ frame[t].phase = "h" /\ answers' = Tail(answers)
      /\ UNCHANGED <<tblVars, polVars, trigVars, peVars, locVars, mihVars>>
  BY Zenon DEF HipConfirm
<1>. DEFINE x == frame[t].pos
            f == [frame[t] EXCEPT !.pos = x, !.phase = "g"]
<1>2. /\ frame[t] \in Frame /\ requests = <<>> /\ frame[t].phase # "none"
      /\ answers' = <<>> /\ x \in Positions
  BY <1>1, AnsweredFacts, Zenon DEF TypeOK, KindInv, Waiting
<1>3. f \in Frame /\ f.phase = "g" /\ f.pos = x /\ "g" \in Waiting
  BY <1>2, Zenon DEF Frame, Phases, Waiting
<1>4. frame' = [frame EXCEPT ![t] = f] /\ SendInfo("g", IfaceAt(x), requests)
  BY Zenon DEF HipConfirm, Await
<1>5. /\ requests \in Seq(Request)
      /\ \A i \in DOMAIN requests : ~requests[i].live
      /\ \A i \in DOMAIN requests : requests[i].cmd # "h"
  BY <1>2, SMTT(40)
<1>6. /\ Conn(t)' = Conn(t) /\ Conn(t).kind = "hip"
      /\ UNCHANGED <<con_tbl, con_tbl_mutex, conmgr, main, pe, cursor>>
  BY <1>1, SMTT(40) DEF Conn, tblVars, polVars, peVars, KindInv
<1>7. hip_if' = Device(IfaceAt(x))
  BY <1>1, Zenon DEF HandoverInv, Answered, mihVars
<1>. HIDE DEF f, x
<1>8. /\ frame' \in [Evaluators -> Frame]
      /\ info_sock' \in BOOLEAN /\ requests' \in Seq(Request)
      /\ MutexInv' /\ KindInv' /\ QueueInv' /\ HandoverInv'
  BY <1>2, <1>3, <1>4, <1>5, <1>6, <1>7, AskKeeps, Zenon
<1>9. TypeOK'
  <2>1. answers' \in Seq(Answer)
    BY <1>2
  <2>2. TypeOK
    BY Zenon
  <2>. QED
    BY ONLY <1>1, <1>8, <2>1, <2>2, SMTT(40) DEF TypeOK, tblVars, polVars, trigVars, peVars, locVars, mihVars
<1>10. CursorInTable'
  BY <1>6, Zenon DEF CursorInTable
<1>. QED
  BY <1>8, <1>9, <1>10, Zenon

\* The last acknowledgement arrived, so the rule is recorded.
LEMMA InterfaceSetKeeps ==
    ASSUME EngineInv, NEW t \in Evaluators, InterfaceSet(t)
    PROVE  EngineInv'
BY ActivateKeeps, Zenon DEF InterfaceSet, Waiting

\* All steps of evaluate().
LEMMA EvaluateKeeps ==
    ASSUME EngineInv, NEW t \in Evaluators, EvaluateStep(t)
    PROVE  EngineInv'
BY EvaluateLocationKeeps, EvaluatePoliciesKeeps, RuleDownKeeps, RuleUpKeeps, HipConfirmKeeps,
   InterfaceSetKeeps, NoAnswerKeeps, Zenon DEF EvaluateStep

-----------------------------------------------------------------------------
(***************************************************************************)
(* The walk of evaluate() and its reference definition.  U is the set of   *)
(* the usable rules, C that of the rules the walk may ask about.           *)
(***************************************************************************)
\* The walk is at rule x: the policies before x have given active_rule a, and
\* x is not behind a usable rule of its own policy.
Reached(U, x, a, old) ==
    /\ a = Choice({ y \in U : y[1] < x[1] }, old)
    /\ \A y \in U : y[1] = x[1] => x = y \/ Before(x, y)

\* How two rules of the list lie to each other.
LEMMA Order ==
    ASSUME NEW x \in Positions, NEW y \in Positions
    PROVE  /\ y[1] < x[1] \/ y[1] = x[1] \/ x[1] < y[1]
           /\ y[1] < x[1] => ~(y[1] = x[1]) /\ ~(x[1] < y[1])
           /\ x[1] < y[1] => ~(y[1] = x[1]) /\ ~(y[1] <= x[1])
           /\ y[1] <= x[1] <=> ~(x[1] < y[1])
           /\ Before(x, y) => ~Before(y, x) /\ x # y /\ ~(y[1] < x[1])
           /\ x[1] < y[1] => Before(x, y)
           /\ \A z \in Positions : x[1] < y[1] /\ y[1] < z[1] => x[1] < z[1]
<1>1. \A z \in Positions : z[1] \in Nat /\ z[2] \in Nat
  BY PositionTypes
<1>. QED
  BY <1>1 DEF Before

\* A usable rule that none of a later policy and none of its own policy
\* precedes is the choice.
LEMMA ChoiceIs ==
    ASSUME NEW U, U \subseteq Positions, NEW x \in U, NEW old,
           \A y \in U : ~(x[1] < y[1]),
           \A y \in U : y[1] = x[1] => x = y \/ Before(x, y)
    PROVE  Choice(U, old) = RuleID(x)
<1>. DEFINE L == { z \in U : \A y \in U : y[1] <= z[1] }
<1>1. x \in L /\ L \subseteq Positions
  BY Order, Zenon
<1>2. \A z \in L : z[1] = x[1]
  BY Order, Zenon
<1>3. FirstOf(L) \in L /\ \A y \in L : FirstOf(L) = y \/ Before(FirstOf(L), y)
  BY <1>1, FirstOfMember, Zenon
<1>. HIDE DEF L
<1>4. FirstOf(L) \in U
  BY <1>3, Zenon DEF L
<1>5. x = FirstOf(L) \/ Before(x, FirstOf(L))
  BY <1>2, <1>3, <1>4, Zenon
<1>6. FirstOf(L) = x
  BY <1>1, <1>3, <1>4, <1>5, Order, Zenon
<1>. QED
  BY <1>6, Zenon DEF Choice, L

\* The walk begins at the first rule.
LEMMA WalkBegins ==
    ASSUME NEW C, C \subseteq Positions, C # {}, NEW U, U \subseteq C, NEW old
    PROVE  Reached(U, FirstOf(C), old, old)
<1>. DEFINE x == FirstOf(C)
<1>1. x \in C /\ \A y \in C : x = y \/ Before(x, y)
  BY FirstOfMember, Zenon
<1>. HIDE DEF x
<1>2. { y \in U : y[1] < x[1] } = {}
  BY <1>1, Order, Zenon
<1>3. Choice({}, old) = old
  BY Zenon DEF Choice
<1>. QED
  BY <1>1, <1>2, <1>3, Zenon DEF Reached, x

\* A refused rule is followed by the next one, or the walk is over.
LEMMA WalkRefused ==
    ASSUME NEW C, C \subseteq Positions, NEW U, U \subseteq C, NEW x \in Positions, x \notin U,
           NEW a, NEW old, Reached(U, x, a, old)
    PROVE  IF AfterRefused(x, C) = {} THEN a = Choice(U, old)
           ELSE Reached(U, FirstOf(AfterRefused(x, C)), a, old)
<1>. DEFINE S == AfterRefused(x, C)
<1>1. S \subseteq Positions /\ \A y \in C : y \in S <=> Before(x, y)
  BY Zenon DEF AfterRefused
<1>2. \A y \in U : y[1] < x[1] \/ y \in S
  <2>. SUFFICES ASSUME NEW y \in U, ~(y[1] < x[1]) PROVE y \in S
    BY Zenon
  <2>1. y[1] = x[1] \/ x[1] < y[1]
    BY Order, Zenon
  <2>2. Before(x, y)
    BY <2>1, Order, Zenon DEF Reached
  <2>. QED
    BY <2>2, <1>1, Zenon
<1>3. \A y \in S : ~(y[1] < x[1])
  BY <1>1, Order, Zenon DEF S, AfterRefused
<1>4. a = Choice({ y \in U : y[1] < x[1] }, old)
  BY Zenon DEF Reached
<1>5. CASE S = {}
  <2>1. { y \in U : y[1] < x[1] } = U
    BY <1>2, <1>5, Zenon
  <2>. QED
    BY <2>1, <1>4, <1>5, Zenon
<1>6. CASE S # {}
  <2>. DEFINE z == FirstOf(S)
  <2>1. z \in S /\ \A y \in S : z = y \/ Before(z, y)
    BY <1>1, <1>6, FirstOfMember, Zenon
  <2>. HIDE DEF z, S
  <2>2. z \in Positions /\ ~(z[1] < x[1])
    BY <1>1, <1>3, <2>1, Zenon
  <2>3. \A y \in S : ~(y[1] < z[1])
    BY <1>1, <2>1, <2>2, Order, Zenon
  <2>4. ASSUME NEW y \in U PROVE y[1] < z[1] <=> y[1] < x[1]
    <3>1. y[1] < z[1] => y[1] < x[1]
      BY <1>2, <2>3, Zenon
    <3>2. y[1] < x[1] => y[1] < z[1]
      <4>1. z[1] = x[1] \/ x[1] < z[1]
        BY <2>2, Order, Zenon
      <4>. QED
        BY <4>1, <2>2, Order, Zenon
    <3>. QED
      BY <3>1, <3>2, Zenon
  <2>5. { y \in U : y[1] < z[1] } = { y \in U : y[1] < x[1] }
    BY <2>4, Zenon
  <2>6. ASSUME NEW y \in U, y[1] = z[1] PROVE z = y \/ Before(z, y)
    <3>1. ~(y[1] < x[1])
      BY <2>2, <2>6, Zenon
    <3>. QED
      BY <3>1, <1>2, <2>1, Zenon
  <2>7. Reached(U, z, a, old)
    BY <1>4, <2>5, <2>6, Zenon DEF Reached
  <2>. QED
    BY <1>6, <2>7, Zenon DEF S, z
<1>. QED
  BY <1>5, <1>6, Zenon

\* An activated rule is followed by the next policy's, or the walk is over.
LEMMA WalkActivated ==
    ASSUME NEW C, C \subseteq Positions, NEW U, U \subseteq C, NEW x \in U,
           NEW a, NEW old, Reached(U, x, a, old)
    PROVE  IF AfterActivated(x, C) = {} THEN RuleID(x) = Choice(U, old)
           ELSE Reached(U, FirstOf(AfterActivated(x, C)), RuleID(x), old)
<1>. DEFINE S == AfterActivated(x, C)
<1>1. S \subseteq Positions /\ \A y \in C : y \in S <=> x[1] < y[1]
  BY Zenon DEF AfterActivated
<1>2. \A y \in U : y[1] = x[1] => x = y \/ Before(x, y)
  BY Zenon DEF Reached
<1>3. CASE S = {}
  <2>1. \A y \in U : ~(x[1] < y[1])
    BY <1>1, <1>3, Zenon
  <2>2. Choice(U, old) = RuleID(x)
    BY <1>2, <2>1, ChoiceIs, Zenon
  <2>. QED
    BY <1>3, <2>2, Zenon
<1>4. CASE S # {}
  <2>. DEFINE z == FirstOf(S)
              V == { y \in U : y[1] < z[1] }
  <2>1. z \in S /\ \A y \in S : z = y \/ Before(z, y)
    BY <1>1, <1>4, FirstOfMember, Zenon
  <2>2. z \in Positions /\ x[1] < z[1]
    BY <2>1, Zenon DEF S, AfterActivated
  <2>. HIDE DEF z, S
  <2>3. \A y \in S : ~(y[1] < z[1])
    BY <1>1, <2>1, <2>2, Order, Zenon
  <2>4. V \subseteq Positions /\ x \in V
    BY <2>2, Zenon
  <2>5. \A y \in V : ~(x[1] < y[1])
    BY <1>1, <2>3, Zenon
  <2>6. \A y \in V : y[1] = x[1] => x = y \/ Before(x, y)
    BY <1>2, Zenon
  <2>. HIDE DEF V
  <2>7. Choice(V, old) = RuleID(x)
    BY <2>4, <2>5, <2>6, ChoiceIs, Zenon
  <2>8. ASSUME NEW y \in U, y[1] = z[1] PROVE z = y \/ Before(z, y)
    BY <1>1, <2>1, <2>2, <2>8, Zenon
  <2>9. Reached(U, z, RuleID(x), old)
    BY <2>7, <2>8, Zenon DEF Reached, V
  <2>. QED
    BY <1>4, <2>9, Zenon DEF S, z
<1>. QED
  BY <1>3, <1>4, Zenon

\* What a call of evaluate() does to its frame: it begins,
LEMMA CallBegins ==
    ASSUME frame \in [Evaluators -> Frame], NEW t \in Evaluators, NEW conn, EnterEvaluate(t, conn)
    PROVE  /\ frame'[t].phase = "location" /\ frame'[t].old = conn.active_rule
           /\ \A u \in Evaluators : u # t => frame'[u] = frame[u]
<1>. DEFINE g == [phase |-> "location", pos |-> NoRule, old |-> conn.active_rule, calm |-> TRUE]
<1>1. g.phase = "location" /\ g.old = conn.active_rule
  BY Zenon
<1>2. frame' = [frame EXCEPT ![t] = g]
  BY Zenon DEF EnterEvaluate
<1>. HIDE DEF g
<1>. QED
  BY <1>1, <1>2, Zenon

\* waits for an answer,
LEMMA CallWaits ==
    ASSUME frame \in [Evaluators -> Frame], NEW t \in Evaluators, NEW x, NEW cmd, Await(t, x, cmd)
    PROVE  /\ frame'[t].phase = cmd /\ frame'[t].pos = x
           /\ frame'[t].old = frame[t].old /\ frame'[t].calm = frame[t].calm
<1>1. frame'[t] = [frame[t] EXCEPT !.pos = x, !.phase = cmd] /\ frame[t] \in Frame
  BY Zenon DEF Await
<1>. QED
  BY <1>1, Zenon DEF Frame

\* and goes on with the rules that are left.
LEMMA CallGoesOn ==
    ASSUME frame \in [Evaluators -> Frame], NEW t \in Evaluators, NEW f \in Frame,
           NEW S, NEW o, NEW q, TryRules(t, f, S, o, q)
    PROVE  /\ frame'[t].old = f.old /\ frame'[t].calm = f.calm
           /\ S = {} => frame'[t].phase = "done"
           /\ S # {} => frame'[t].phase = "e" /\ frame'[t].pos = FirstOf(S)
<1>1. CASE S = {}
  <2>1. frame'[t] = [f EXCEPT !.phase = "done"]
    BY <1>1, Zenon DEF TryRules
  <2>. QED
    BY <1>1, <2>1, Zenon DEF Frame
<1>2. CASE S # {}
  <2>1. frame'[t] = [f EXCEPT !.phase = "e", !.pos = FirstOf(S)]
    BY <1>2, Zenon DEF TryRules
  <2>. QED
    BY <1>2, <2>1, Zenon DEF Frame
<1>. QED
  BY <1>1, <1>2, Zenon
=============================================================================
