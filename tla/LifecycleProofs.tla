-------------------------- MODULE LifecycleProofs ---------------------------
(***************************************************************************)
(* No child outlives main() unsignalled, and nobody walks a freed table,   *)
(* for any number of children, any number of signals from outside and any  *)
(* choice of the threads they are delivered to.  The argument for the      *)
(* children: whoever sets pids[i] to 0 has signalled child i, so a running *)
(* child is still in pids[]; an activation of sine_exit() has cleared all  *)
(* entries above its index; and the threads that activations run on are    *)
(* joined before main() returns.                                           *)
(***************************************************************************)
EXTENDS Lifecycle, TLAPS

\* The activation is past exit_flag = 1.
Busy(e) == run[e].pc \in {"write", "test", "kill"}

\* Nothing runs while the children are forked; main() starts threads in order.
StartInv ==
    /\ main = "fork" =>
           /\ ~exit_flag
           /\ \A e \in Executors : run[e] = Idle
           /\ \A t \in Threads : thread[t] = "none"
           /\ pipe = NoPipe
           /\ \A c \in Children : c > step => child[c] = "none"
    /\ main = "init" => \A i \in 1..5 : i > step => thread[InitOrder[i]] = "none"

\* The activations of sine_exit().
RunInv ==
    /\ run["main"] # Idle => main \in {"sine_exit", "forced"}
    /\ \A t \in Threads : run[t] # Idle => thread[t] \notin {"none", "exited"}
    /\ \A e \in Executors :
           /\ run[e].pc = "kill" => run[e].at > 0
           /\ Busy(e) => exit_flag
           /\ run[e].pc \in {"test", "kill"} =>
                  \A c \in Children : c > run[e].at => pids[c] # "pid"

\* The children: an entry is cleared by a kill(), and exit_flag means that an
\* activation has cleared them all or is about to.
ChildInv ==
    /\ \A c \in Children : child[c] = "running" => pids[c] = "pid"
    /\ exit_flag => (\A c \in Children : pids[c] # "pid") \/ \E e \in Executors : Busy(e)

\* What main() has joined.
JoinInv ==
    /\ main \in {"join", "returned"} => exit_flag
    /\ main = "join" => \A i \in 1..5 : i <= step => thread[InitOrder[i]] \in {"none", "exited"}
    /\ main = "returned" => /\ run["main_sig"] = Idle
                            /\ \A t \in Threads : thread[t] \in {"none", "exited"}

LifeInv == TypeOK /\ StartInv /\ RunInv /\ ChildInv /\ JoinInv /\ WalkedTableIsLive

\* The threads and the order they are started in.
LEMMA OrderFacts ==
    /\ Len(InitOrder) = 5 /\ DOMAIN InitOrder = 1..5
    /\ InitOrder[1] = "netmgr" /\ InitOrder[2] = "conmgr" /\ InitOrder[3] = "locmgr"
    /\ InitOrder[4] = "socks" /\ InitOrder[5] = "pe"
    /\ Threads = {"netmgr", "conmgr", "locmgr", "socks", "pe"}
    /\ \A i \in 1..5 : InitOrder[i] \in Threads
    /\ \A t \in Threads : \E i \in 1..5 : InitOrder[i] = t
    /\ TableUsers \subseteq Threads
    /\ Executors = {"main", "main_sig", "forwarder"} \cup Threads
<1>1. Len(InitOrder) = 5 /\ DOMAIN InitOrder = 1..5
  BY DEF InitOrder
<1>2. /\ InitOrder[1] = "netmgr" /\ InitOrder[2] = "conmgr" /\ InitOrder[3] = "locmgr"
      /\ InitOrder[4] = "socks" /\ InitOrder[5] = "pe"
  BY Zenon DEF InitOrder
<1>3. 1..5 = {1, 2, 3, 4, 5}
  OBVIOUS
<1>4. Threads = {"netmgr", "conmgr", "locmgr", "socks", "pe"}
  BY <1>1, <1>2, <1>3, Zenon DEF Threads
<1>5. \A i \in 1..5 : InitOrder[i] \in Threads
  BY <1>1, Zenon DEF Threads
<1>6. \A t \in Threads : \E i \in 1..5 : InitOrder[i] = t
  BY <1>1, Zenon DEF Threads
<1> QED BY <1>1, <1>2, <1>4, <1>5, <1>6 DEF TableUsers, Executors

\* The state of main() before it forks.
LEMMA InitEstablishes == Init => LifeInv
<1> SUFFICES ASSUME Init PROVE LifeInv
  BY Zenon
<1> USE OrderFacts
<1>0. Idle \in [pc : {"none", "flag", "write", "test", "kill"}, at : 0..NumChildren]
  BY LifecycleAssumption DEF Idle
<1>1. TypeOK
  <2>1. step \in 0..(NumChildren + Len(InitOrder)) /\ sent \in 0..MaxSignals
    BY LifecycleAssumption DEF Init
  <2>2. run \in [Executors -> [pc : {"none", "flag", "write", "test", "kill"}, at : 0..NumChildren]]
    BY <1>0, Zenon DEF Init
  <2> QED BY <2>1, <2>2, Zenon DEF Init, TypeOK
<1>2. StartInv /\ JoinInv /\ WalkedTableIsLive
  BY Zenon DEF Init, StartInv, JoinInv, WalkedTableIsLive
<1>3. RunInv /\ ChildInv
  BY Zenon DEF Init, RunInv, ChildInv, Busy, Idle
<1> QED BY <1>1, <1>2, <1>3, Zenon DEF LifeInv

(***************************************************************************)
(* The threads.                                                            *)
(***************************************************************************)
\* A step of a thread that runs disturbs nothing of the activations, of the
\* children and of what main() has started or joined.
LEMMA ThreadStepKeeps ==
    ASSUME LifeInv, NEW t \in Threads, NEW v,
           Runs(t), thread[t] \notin {"none", "exited"}, v # "none",
           thread' = [thread EXCEPT ![t] = v],
           UNCHANGED <<procVars, exitVars, sigVars>>
    PROVE  StartInv' /\ RunInv' /\ ChildInv' /\ JoinInv'
<1> USE OrderFacts
<1>0. /\ thread \in [Threads -> {"none", "loop", "lock", "use", "fault", "free", "exited"}]
      /\ UNCHANGED <<main, step, exit_flag, pipe, pids, child, run>>
  BY Zenon DEF LifeInv, TypeOK, procVars, exitVars
<1>1. thread' = [u \in Threads |-> IF u = t THEN v ELSE thread[u]]
  BY <1>0, Zenon
<1>2. main # "fork" /\ main # "returned" /\ run[t] = Idle
  BY Zenon DEF LifeInv, StartInv, JoinInv, Runs, Alive
<1>3. StartInv'
  BY <1>0, <1>1, <1>2 DEF LifeInv, StartInv
<1>4. RunInv'
  BY <1>0, <1>1, <1>2 DEF LifeInv, RunInv, Busy
<1>5. ChildInv'
  BY <1>0, Zenon DEF LifeInv, ChildInv, Busy
<1>6. JoinInv'
  BY <1>0, <1>1, <1>2, Zenon DEF LifeInv, JoinInv
<1> QED BY <1>3, <1>4, <1>5, <1>6

\* The types after such a step.
LEMMA ThreadStepTypes ==
    ASSUME LifeInv, NEW t \in Threads,
           NEW v \in {"loop", "lock", "use", "fault", "free", "exited"},
           thread' = [thread EXCEPT ![t] = v],
           table' \in {table, "freed"}, con_tbl_mutex' \in {con_tbl_mutex, t, "nobody"},
           need_evaluation' \in BOOLEAN,
           UNCHANGED <<procVars, exitVars, sigVars>>
    PROVE  TypeOK'
BY DEF LifeInv, TypeOK, procVars, exitVars, sigVars

\* What a loop goes on with.
LEMMA LoopTypes ==
    ASSUME NEW t
    PROVE  /\ AfterLoop(t) \in {"free", "exited"}
           /\ LoopAgain(t) \in {"loop", "free", "exited"}
BY Zenon DEF AfterLoop, LoopAgain

\* The steps that neither lock nor unlock the table.
LEMMA LoopStepKeeps ==
    ASSUME LifeInv, NEW t \in Threads,
           WantTable(t) \/ TriggerPolicyEngine(t) \/ LeaveLoop(t) \/ LeaveLoopEarly(t)
    PROVE  LifeInv'
<1> USE OrderFacts
<1>1. PICK v \in {"loop", "lock", "free", "exited"} : thread' = [thread EXCEPT ![t] = v]
  BY LoopTypes DEF WantTable, TriggerPolicyEngine, LeaveLoop, LeaveLoopEarly
<1>2. /\ Runs(t) /\ thread[t] = "loop"
      /\ UNCHANGED <<table, con_tbl_mutex, procVars, exitVars, sigVars>>
  BY Zenon DEF WantTable, TriggerPolicyEngine, LeaveLoop, LeaveLoopEarly
<1>3. need_evaluation' \in BOOLEAN
  BY Zenon DEF WantTable, TriggerPolicyEngine, LeaveLoop, LeaveLoopEarly, LifeInv, TypeOK
<1>4. StartInv' /\ RunInv' /\ ChildInv' /\ JoinInv'
  BY <1>1, <1>2, ThreadStepKeeps, Zenon
<1>5. TypeOK'
  BY <1>1, <1>2, <1>3, ThreadStepTypes, Zenon
<1>6. WalkedTableIsLive'
  BY <1>1, <1>2 DEF LifeInv, TypeOK, WalkedTableIsLive
<1> QED BY <1>4, <1>5, <1>6, Zenon DEF LifeInv

\* A thread in the table holds the mutex, so no other one is there.
LEMMA LockKeeps ==
    ASSUME LifeInv, NEW t \in TableUsers, LockTable(t) \/ UnlockTable(t)
    PROVE  LifeInv'
<1> USE OrderFacts
<1>1. CASE LockTable(t)
  <2>1. PICK v \in {"use", "fault"} : /\ thread' = [thread EXCEPT ![t] = v]
                                      /\ v = "use" => table = "live"
    BY <1>1, Zenon DEF LockTable
  <2>2. /\ Runs(t) /\ thread[t] = "lock" /\ con_tbl_mutex = "nobody" /\ con_tbl_mutex' = t
        /\ UNCHANGED <<table, need_evaluation, procVars, exitVars, sigVars>>
    BY <1>1, Zenon DEF LockTable
  <2>3. StartInv' /\ RunInv' /\ ChildInv' /\ JoinInv'
    BY <2>1, <2>2, ThreadStepKeeps, Zenon
  <2>4. need_evaluation' \in BOOLEAN
    BY <2>2, Zenon DEF LifeInv, TypeOK
  <2>5. TypeOK'
    BY <2>1, <2>2, <2>4, ThreadStepTypes, Zenon
  <2>6. WalkedTableIsLive'
    BY <2>1, <2>2, Zenon DEF LifeInv, TypeOK, WalkedTableIsLive
  <2> QED BY <2>3, <2>5, <2>6, Zenon DEF LifeInv
<1>2. CASE UnlockTable(t)
  <2>1. PICK v \in {"loop", "free", "exited"} : thread' = [thread EXCEPT ![t] = v]
    BY <1>2, LoopTypes, Zenon DEF UnlockTable
  <2>2. /\ Runs(t) /\ thread[t] = "use" /\ con_tbl_mutex' = "nobody"
        /\ UNCHANGED <<table, procVars, exitVars, sigVars>>
    BY <1>2, Zenon DEF UnlockTable
  <2>3. StartInv' /\ RunInv' /\ ChildInv' /\ JoinInv'
    BY <2>1, <2>2, ThreadStepKeeps, Zenon
  <2>4. need_evaluation' \in BOOLEAN
    BY <1>2, Zenon DEF UnlockTable
  <2>5. TypeOK'
    BY <2>1, <2>2, <2>4, ThreadStepTypes, Zenon
  <2>6. WalkedTableIsLive'
    BY <2>1, <2>2 DEF LifeInv, TypeOK, WalkedTableIsLive
  <2> QED BY <2>3, <2>5, <2>6, Zenon DEF LifeInv
<1> QED BY <1>1, <1>2

\* free_connection_table()
LEMMA FreeTableKeeps == LifeInv /\ FreeTable => LifeInv'
<1> SUFFICES ASSUME LifeInv, FreeTable PROVE LifeInv'
  BY Zenon
<1> USE OrderFacts
<1>1. /\ Runs("conmgr") /\ thread["conmgr"] = "free" /\ con_tbl_mutex = "nobody"
      /\ thread' = [thread EXCEPT !["conmgr"] = "exited"] /\ table' = "freed"
      /\ UNCHANGED <<con_tbl_mutex, need_evaluation, procVars, exitVars, sigVars>>
  BY Zenon DEF FreeTable
<1>2. StartInv' /\ RunInv' /\ ChildInv' /\ JoinInv'
  BY <1>1, ThreadStepKeeps, Zenon
<1>3. need_evaluation' \in BOOLEAN
  BY <1>1, Zenon DEF LifeInv, TypeOK
<1>4. TypeOK'
  BY <1>1, <1>3, ThreadStepTypes, Zenon
<1>5. WalkedTableIsLive'
  BY <1>1, Zenon DEF LifeInv, TypeOK, WalkedTableIsLive
<1> QED BY <1>2, <1>4, <1>5, Zenon DEF LifeInv

(***************************************************************************)
(* sine_exit() and the signals.                                            *)
(***************************************************************************)
\* A handler or a call begins: it has done nothing yet.
LEMMA StartRunKeeps ==
    ASSUME LifeInv, NEW e \in Executors, run[e] = Idle, main # "fork",
           e \in Threads => thread[e] \notin {"none", "exited"},
           main = "returned" => e # "main_sig",
           e = "main" => main' = "sine_exit",
           run' = [run EXCEPT ![e] = [pc |-> "flag", at |-> 0]]
    PROVE  /\ run' \in [Executors -> [pc : {"none", "flag", "write", "test", "kill"},
                                      at : 0..NumChildren]]
           /\ UNCHANGED <<exit_flag, pids, child, thread>> /\ (e # "main" => main' = main)
                  => RunInv' /\ ChildInv'
<1> USE OrderFacts
<1>1. [pc |-> "flag", at |-> 0] \in [pc : {"none", "flag", "write", "test", "kill"},
                                    at : 0..NumChildren]
  BY LifecycleAssumption
<1>2. run \in [Executors -> [pc : {"none", "flag", "write", "test", "kill"}, at : 0..NumChildren]]
  BY Zenon DEF LifeInv, TypeOK
<1>3. run' = [x \in Executors |-> IF x = e THEN [pc |-> "flag", at |-> 0] ELSE run[x]]
  BY <1>2, Zenon
<1>4. ASSUME UNCHANGED <<exit_flag, pids, child, thread>>, e # "main" => main' = main
      PROVE  RunInv' /\ ChildInv'
  <2>1. \A x \in Executors : Busy(x)' <=> Busy(x)
    BY <1>3 DEF Busy, Idle
  <2>2. RunInv'
    BY <1>3, <1>4, <2>1 DEF LifeInv, RunInv, Busy, Idle
  <2>3. ChildInv'
    BY <1>4, <2>1, Zenon DEF LifeInv, ChildInv
  <2> QED BY <2>2, <2>3
<1> QED BY <1>1, <1>2, <1>3, <1>4

\* sig_handler(), for a signal from outside and for a fault.
LEMMA HandlerKeeps ==
    ASSUME LifeInv, NEW e \in Executors, Deliver(e) \/ (e \in TableUsers /\ Fault(e))
    PROVE  LifeInv'
<1> USE OrderFacts
<1>1. /\ run[e] = Idle /\ e # "main" /\ Alive
      /\ run' = [run EXCEPT ![e] = [pc |-> "flag", at |-> 0]]
      /\ UNCHANGED <<main, step, thread, table, con_tbl_mutex, need_evaluation, exit_flag, pipe,
                     pids, child, sent>>
      /\ pending' \in BOOLEAN
  BY LifecycleAssumption, Zenon
     DEF Deliver, CanHandle, Fault, Runs, procVars, thrVars, sigVars, LifeInv, TypeOK
<1>2. main # "fork" /\ (e \in Threads => thread[e] \notin {"none", "exited"})
  BY Zenon DEF Deliver, CanHandle, Fault, LifeInv, StartInv, NoPipe
<1>3. /\ run' \in [Executors -> [pc : {"none", "flag", "write", "test", "kill"}, at : 0..NumChildren]]
      /\ RunInv' /\ ChildInv'
  BY <1>1, <1>2, StartRunKeeps, Zenon DEF Alive
<1>4. TypeOK'
  BY <1>1, <1>3, Zenon DEF LifeInv, TypeOK
<1>5. StartInv' /\ WalkedTableIsLive'
  BY <1>1, <1>2, Zenon DEF LifeInv, StartInv, WalkedTableIsLive
<1>6. JoinInv'
  BY <1>1, Zenon DEF LifeInv, JoinInv, Alive
<1> QED BY <1>3, <1>4, <1>5, <1>6, Zenon DEF LifeInv

\* exit_flag = 1
LEMMA SineFlagKeeps == ASSUME LifeInv, NEW e \in Executors, SineFlag(e) PROVE LifeInv'
<1> USE OrderFacts
<1>1. /\ run \in [Executors -> [pc : {"none", "flag", "write", "test", "kill"}, at : 0..NumChildren]]
      /\ run[e].pc = "flag" /\ exit_flag'
      /\ run' = [run EXCEPT ![e].pc = "write"]
      /\ UNCHANGED <<main, step, thread, table, con_tbl_mutex, need_evaluation, pipe, pids, child,
                     pending, sent>>
  BY Zenon DEF SineFlag, procVars, thrVars, sigVars, LifeInv, TypeOK
<1>2. /\ run' \in [Executors -> [pc : {"none", "flag", "write", "test", "kill"}, at : 0..NumChildren]]
      /\ run'[e].pc = "write" /\ run[e] # Idle
      /\ \A x \in Executors : x # e => run'[x] = run[x]
  BY <1>1 DEF Idle
<1>3. TypeOK'
  BY <1>1, <1>2 DEF LifeInv, TypeOK, SineFlag
<1>4. StartInv' /\ JoinInv' /\ WalkedTableIsLive'
  BY <1>1, <1>2 DEF LifeInv, StartInv, JoinInv, WalkedTableIsLive
<1>5. RunInv'
  BY <1>1, <1>2 DEF LifeInv, RunInv, Busy
<1>6. ChildInv'
  BY <1>1, <1>2, Zenon DEF LifeInv, ChildInv, Busy
<1> QED BY <1>3, <1>4, <1>5, <1>6, Zenon DEF LifeInv

\* write() to the exit pipe, or exit(1) when it fails.
LEMMA SineWriteKeeps == ASSUME LifeInv, NEW e \in Executors, Alive, SineWrite(e) PROVE LifeInv'
<1> USE OrderFacts
<1>1. /\ run \in [Executors -> [pc : {"none", "flag", "write", "test", "kill"}, at : 0..NumChildren]]
      /\ run[e].pc = "write" /\ run[e] # Idle
      /\ UNCHANGED <<step, thread, table, con_tbl_mutex, need_evaluation, exit_flag, pids, child,
                     pending, sent>>
  BY DEF SineWrite, thrVars, sigVars, LifeInv, TypeOK, Idle
<1>2. main # "fork"
  BY <1>1, Zenon DEF LifeInv, StartInv
<1>3. CASE run' = [run EXCEPT ![e] = [pc |-> "test", at |-> NumChildren]] /\ main' = main
  <2>0. pipe' \in {NoPipe} \cup 0..PipeCap
    BY <1>1, LifecycleAssumption DEF SineWrite, LifeInv, TypeOK, NoPipe
  <2>1. [pc |-> "test", at |-> NumChildren] \in
            [pc : {"none", "flag", "write", "test", "kill"}, at : 0..NumChildren]
    BY LifecycleAssumption
  <2>2. /\ run' \in [Executors -> [pc : {"none", "flag", "write", "test", "kill"},
                                   at : 0..NumChildren]]
        /\ run'[e] = [pc |-> "test", at |-> NumChildren]
        /\ \A x \in Executors : x # e => run'[x] = run[x]
    BY <1>1, <1>3, <2>1, Zenon
  <2>3. TypeOK'
    BY <1>1, <1>3, <2>0, <2>2, Zenon DEF LifeInv, TypeOK
  <2>4. StartInv' /\ WalkedTableIsLive'
    BY <1>1, <1>2, <1>3, Zenon DEF LifeInv, StartInv, WalkedTableIsLive
  <2>5. \A c \in Children : ~(c > NumChildren)
    BY LifecycleAssumption DEF Children
  <2>6. RunInv'
    BY <1>1, <1>3, <2>2, <2>5 DEF LifeInv, RunInv, Busy
  <2>7. ChildInv'
    BY <1>1, <2>2 DEF LifeInv, ChildInv, Busy
  <2>8. JoinInv'
    BY <1>1, <1>3, <2>2, Zenon DEF LifeInv, JoinInv, Alive
  <2> QED BY <2>3, <2>4, <2>6, <2>7, <2>8, Zenon DEF LifeInv
<1>4. CASE main' = "forced" /\ UNCHANGED <<pipe, run>>
  <2>1. TypeOK'
    BY <1>1, <1>4, Zenon DEF LifeInv, TypeOK
  <2>2. StartInv' /\ WalkedTableIsLive' /\ JoinInv'
    BY <1>1, <1>4, Zenon DEF LifeInv, StartInv, WalkedTableIsLive, JoinInv
  <2>3. RunInv' /\ ChildInv'
    BY <1>1, <1>4 DEF LifeInv, RunInv, ChildInv, Busy
  <2> QED BY <2>1, <2>2, <2>3, Zenon DEF LifeInv
<1> QED BY <1>3, <1>4 DEF SineWrite

\* if (pids[i]): an entry that is passed over is clear.
LEMMA SineTestKeeps == ASSUME LifeInv, NEW e \in Executors, SineTest(e) PROVE LifeInv'
<1> USE OrderFacts
<1>1. /\ run \in [Executors -> [pc : {"none", "flag", "write", "test", "kill"}, at : 0..NumChildren]]
      /\ run[e].pc = "test" /\ run[e].at > 0 /\ run[e] # Idle
      /\ UNCHANGED <<main, step, thread, table, con_tbl_mutex, need_evaluation, exit_flag, pipe,
                     pids, child, pending, sent>>
  BY DEF SineTest, procVars, thrVars, sigVars, LifeInv, TypeOK, Idle
<1>2. PICK r \in [pc : {"none", "flag", "write", "test", "kill"}, at : 0..NumChildren] :
         /\ run' = [run EXCEPT ![e] = r]
         /\ \/ pids[run[e].at] = "zero" /\ r.pc = "test" /\ r.at = run[e].at - 1
            \/ r.pc = "kill" /\ r.at = run[e].at
  <2>1. CASE pids[run[e].at] = "zero"
    <3> DEFINE q == [pc |-> "test", at |-> run[e].at - 1]
    <3>1. /\ q \in [pc : {"none", "flag", "write", "test", "kill"}, at : 0..NumChildren]
          /\ q.pc = "test" /\ q.at = run[e].at - 1
      BY <1>1, LifecycleAssumption
    <3>2. run' = [run EXCEPT ![e] = q]
      BY <2>1, Zenon DEF SineTest
    <3> HIDE DEF q
    <3> QED BY <2>1, <3>1, <3>2, Zenon
  <2>2. CASE pids[run[e].at] # "zero"
    <3> DEFINE q == [pc |-> "kill", at |-> run[e].at]
    <3>1. /\ q \in [pc : {"none", "flag", "write", "test", "kill"}, at : 0..NumChildren]
          /\ q.pc = "kill" /\ q.at = run[e].at
      BY <1>1, Zenon
    <3>2. run' = [run EXCEPT ![e] = q]
      BY <1>1, <2>2, Zenon DEF SineTest
    <3> HIDE DEF q
    <3> QED BY <2>2, <3>1, <3>2, Zenon
  <2> QED BY <2>1, <2>2
<1>3. /\ run' \in [Executors -> [pc : {"none", "flag", "write", "test", "kill"}, at : 0..NumChildren]]
      /\ run'[e] = r /\ \A x \in Executors : x # e => run'[x] = run[x]
  BY <1>1, <1>2, Zenon
<1>4. TypeOK'
  BY <1>1, <1>3 DEF LifeInv, TypeOK
<1>5. StartInv' /\ WalkedTableIsLive'
  BY <1>1, Zenon DEF LifeInv, StartInv, WalkedTableIsLive
<1>6. RunInv'
  <2>1. \A c \in Children : c > r.at => pids[c] # "pid"
    BY <1>1, <1>2, LifecycleAssumption DEF LifeInv, RunInv, Children
  <2> QED BY <1>1, <1>2, <1>3, <2>1 DEF LifeInv, RunInv, Busy
<1>7. ChildInv'
  BY <1>1, <1>2, <1>3, Zenon DEF LifeInv, ChildInv, Busy
<1>8. JoinInv'
  BY <1>1, <1>3 DEF LifeInv, JoinInv
<1> QED BY <1>4, <1>5, <1>6, <1>7, <1>8, Zenon DEF LifeInv

\* kill(pids[i], SIGINT); pids[i] = 0
LEMMA SineKillKeeps == ASSUME LifeInv, NEW e \in Executors, SineKill(e) PROVE LifeInv'
<1> USE OrderFacts
<1> DEFINE c == run[e].at
<1>1. /\ run \in [Executors -> [pc : {"none", "flag", "write", "test", "kill"}, at : 0..NumChildren]]
      /\ run[e].pc = "kill" /\ run[e] # Idle
      /\ pids \in [Children -> {"zero", "pid", "minus1"}]
      /\ child \in [Children -> {"none", "running", "signalled", "dead", "reaped"}]
      /\ UNCHANGED <<main, step, thread, table, con_tbl_mutex, need_evaluation, exit_flag, pipe,
                     sent>>
  BY DEF SineKill, procVars, thrVars, LifeInv, TypeOK, Idle
<1>0. c \in Children /\ c - 1 \in 0..NumChildren
  <2>1. c \in 0..NumChildren /\ c > 0
    BY <1>1, Zenon DEF LifeInv, RunInv
  <2> QED BY <2>1, LifecycleAssumption DEF Children
<1>2. /\ run' = [run EXCEPT ![e] = [pc |-> "test", at |-> c - 1]]
      /\ pids' = [pids EXCEPT ![c] = "zero"]
      /\ pending' \in BOOLEAN
  BY Zenon DEF SineKill, LifeInv, TypeOK
<1>3. child' = [k \in Children |->
                   IF k \in (IF pids[c] = "pid" THEN {c} ELSE Children) /\ child[k] = "running"
                   THEN "signalled" ELSE child[k]]
  BY Zenon DEF SineKill
<1> HIDE DEF c
<1>4. /\ run' \in [Executors -> [pc : {"none", "flag", "write", "test", "kill"}, at : 0..NumChildren]]
      /\ run'[e] = [pc |-> "test", at |-> c - 1]
      /\ \A x \in Executors : x # e => run'[x] = run[x]
  BY <1>0, <1>1, <1>2, Zenon
<1>5. /\ pids' \in [Children -> {"zero", "pid", "minus1"}]
      /\ pids'[c] = "zero" /\ \A k \in Children : k # c => pids'[k] = pids[k]
  BY <1>0, <1>1, <1>2, Zenon
<1>6. /\ child' \in [Children -> {"none", "running", "signalled", "dead", "reaped"}]
      /\ \A k \in Children : child'[k] = "running" => child[k] = "running" /\ k # c
      /\ \A k \in Children : child[k] = "none" => child'[k] = "none"
  BY <1>0, <1>1, <1>3, Zenon DEF LifeInv, ChildInv
<1>7. TypeOK'
  BY <1>1, <1>2, <1>4, <1>5, <1>6, Zenon DEF LifeInv, TypeOK
<1>8. StartInv' /\ WalkedTableIsLive'
  <2>1. main # "fork"
    BY <1>1, Zenon DEF LifeInv, StartInv
  <2> QED BY <1>1, <2>1 DEF LifeInv, StartInv, WalkedTableIsLive
<1>9. RunInv'
  <2>1. \A k \in Children : k > c - 1 => pids'[k] # "pid"
    <3> SUFFICES ASSUME NEW k \in Children, k > c - 1, k # c PROVE pids[k] # "pid"
      BY <1>5
    <3>1. k > c
      BY <1>0, LifecycleAssumption DEF Children
    <3> QED BY <1>1, <3>1 DEF c, LifeInv, RunInv
  <2>2. \A k \in Children : pids[k] # "pid" => pids'[k] # "pid"
    BY <1>0, <1>5, Zenon
  <2> QED BY <1>1, <1>4, <2>1, <2>2 DEF LifeInv, RunInv, Busy
<1>10. ChildInv'
  <2>1. Busy(e)'
    BY <1>4 DEF Busy
  <2> QED BY <1>5, <1>6, <2>1 DEF LifeInv, ChildInv
<1>11. JoinInv'
  BY <1>1, <1>4 DEF LifeInv, JoinInv
<1> QED BY <1>7, <1>8, <1>9, <1>10, <1>11, Zenon DEF LifeInv

\* The return from sine_exit(): every entry of pids[] is clear.
LEMMA SineReturnKeeps == ASSUME LifeInv, NEW e \in Executors, Alive, SineReturn(e) PROVE LifeInv'
<1> USE OrderFacts
<1>1. /\ run \in [Executors -> [pc : {"none", "flag", "write", "test", "kill"}, at : 0..NumChildren]]
      /\ run[e].pc = "test" /\ run[e].at = 0 /\ run[e] # Idle
      /\ run' = [run EXCEPT ![e] = Idle]
      /\ UNCHANGED <<thread, table, con_tbl_mutex, need_evaluation, exit_flag, pipe, pids, child,
                     pending, sent>>
  BY DEF SineReturn, thrVars, sigVars, LifeInv, TypeOK, Idle
<1>2. Idle \in [pc : {"none", "flag", "write", "test", "kill"}, at : 0..NumChildren]
  BY LifecycleAssumption DEF Idle
<1>3. /\ run' \in [Executors -> [pc : {"none", "flag", "write", "test", "kill"}, at : 0..NumChildren]]
      /\ run'[e] = Idle /\ \A x \in Executors : x # e => run'[x] = run[x]
  BY <1>1, <1>2, Zenon
<1>4. /\ exit_flag /\ main \notin {"fork", "returned", "forced"}
      /\ e = "main" => main = "sine_exit"
      /\ \A c \in Children : pids[c] # "pid"
  BY <1>1, LifecycleAssumption DEF LifeInv, StartInv, RunInv, Busy, Alive, Children
<1>5. \/ e = "main" /\ main' = "join" /\ step' = 0
      \/ e # "main" /\ main = "wait" /\ main' = "error" /\ step' = step
      \/ e # "main" /\ main' = main /\ step' = step
  BY DEF SineReturn
<1>6. TypeOK'
  BY <1>1, <1>3, <1>5, LifecycleAssumption DEF LifeInv, TypeOK
<1>7. StartInv' /\ WalkedTableIsLive'
  BY <1>1, <1>4, <1>5 DEF LifeInv, StartInv, WalkedTableIsLive
<1>8. RunInv'
  BY <1>1, <1>3, <1>4, <1>5 DEF LifeInv, RunInv, Busy, Idle
<1>9. ChildInv'
  BY <1>1, <1>4, Zenon DEF LifeInv, ChildInv
<1>10. JoinInv'
  BY <1>1, <1>3, <1>4, <1>5 DEF LifeInv, JoinInv
<1> QED BY <1>6, <1>7, <1>8, <1>9, <1>10, Zenon DEF LifeInv

\* The loop that forks the children.
LEMMA ForkKeeps == LifeInv /\ (ForkChild \/ ForkFails) => LifeInv'
<1> SUFFICES ASSUME LifeInv, ForkChild \/ ForkFails PROVE LifeInv'
  BY Zenon
<1> USE OrderFacts
<1> DEFINE c == step + 1
<1>1. /\ main = "fork" /\ step \in Nat /\ step < NumChildren
      /\ pids \in [Children -> {"zero", "pid", "minus1"}]
      /\ child \in [Children -> {"none", "running", "signalled", "dead", "reaped"}]
      /\ UNCHANGED <<exit_flag, pipe, run, thread, table, con_tbl_mutex, need_evaluation, pending,
                     sent>>
  BY LifecycleAssumption DEF ForkChild, ForkFails, thrVars, sigVars, LifeInv, TypeOK
<1>2. c \in Children /\ c \in 0..(NumChildren + 5)
  BY <1>1, LifecycleAssumption DEF Children
<1>3. ~exit_flag /\ (\A e \in Executors : run[e] = Idle) /\ \A t \in Threads : thread[t] = "none"
  BY <1>1, Zenon DEF LifeInv, StartInv
<1>4. CASE ForkChild
  <2>1. /\ pids' = [pids EXCEPT ![c] = "pid"] /\ child' = [child EXCEPT ![c] = "running"]
        /\ step' = c /\ main' = main
    BY <1>4, Zenon DEF ForkChild
  <2> HIDE DEF c
  <2>2. TypeOK'
    BY <1>1, <1>2, <2>1, Zenon DEF LifeInv, TypeOK
  <2>3. StartInv'
    <3>1. \A k \in Children : k > c => k > step /\ k # c
      BY <1>1 DEF c, Children
    <3> QED BY <1>1, <1>2, <2>1, <3>1 DEF LifeInv, StartInv
  <2>4. RunInv'
    BY <1>1, <1>3 DEF LifeInv, RunInv, Busy, Idle
  <2>5. ChildInv'
    BY <1>1, <1>2, <1>3, <2>1 DEF LifeInv, ChildInv
  <2>6. JoinInv' /\ WalkedTableIsLive'
    BY <1>1, <2>1, Zenon DEF LifeInv, JoinInv, WalkedTableIsLive
  <2> QED BY <2>2, <2>3, <2>4, <2>5, <2>6, Zenon DEF LifeInv
<1>5. CASE ForkFails
  <2>1. /\ pids' = [pids EXCEPT ![c] = "minus1"] /\ child' = child
        /\ step' = step /\ main' = "error"
    BY <1>5, Zenon DEF ForkFails
  <2>2. child[c] = "none"
    BY <1>1, <1>2 DEF LifeInv, StartInv
  <2> HIDE DEF c
  <2>3. TypeOK'
    BY <1>1, <1>2, <2>1, Zenon DEF LifeInv, TypeOK
  <2>4. StartInv' /\ JoinInv' /\ WalkedTableIsLive'
    BY <1>1, <2>1, Zenon DEF LifeInv, StartInv, JoinInv, WalkedTableIsLive
  <2>5. RunInv'
    BY <1>1, <1>3 DEF LifeInv, RunInv, Busy, Idle
  <2>6. ChildInv'
    BY <1>1, <1>2, <1>3, <2>1, <2>2, Zenon DEF LifeInv, ChildInv
  <2> QED BY <2>3, <2>4, <2>5, <2>6, Zenon DEF LifeInv
<1> QED BY <1>4, <1>5

\* pipe(), and the threads one after the other.
LEMMA StartKeeps == LifeInv /\ (MakePipe \/ InitManager) => LifeInv'
<1> SUFFICES ASSUME LifeInv, MakePipe \/ InitManager PROVE LifeInv'
  BY Zenon
<1> USE OrderFacts
<1>1. UNCHANGED <<exit_flag, pids, child, run, con_tbl_mutex, pending, sent>>
  BY Zenon DEF MakePipe, InitManager, thrVars, exitVars, sigVars
<1>2. ChildInv'
  BY <1>1, Zenon DEF LifeInv, ChildInv, Busy
<1>3. CASE MakePipe
  <2>1. /\ main = "fork" /\ main' \in {"init", "error"} /\ pipe' \in {NoPipe, 0} /\ step' = 0
        /\ UNCHANGED <<thread, table, need_evaluation>>
    BY <1>3, Zenon DEF MakePipe, thrVars
  <2>2. TypeOK'
    BY <1>1, <2>1, LifecycleAssumption DEF LifeInv, TypeOK
  <2>3. StartInv' /\ JoinInv' /\ WalkedTableIsLive'
    BY <1>1, <2>1, Zenon DEF LifeInv, StartInv, JoinInv, WalkedTableIsLive
  <2>4. RunInv'
    BY <1>1, <2>1 DEF LifeInv, StartInv, RunInv, Busy
  <2> QED BY <1>2, <2>2, <2>3, <2>4, Zenon DEF LifeInv
<1>4. CASE InitManager
  <2> DEFINE t == InitOrder[step + 1]
  <2>1. /\ main = "init" /\ step \in 0..4 /\ step + 1 \in 1..5 /\ pipe' = pipe
        /\ thread \in [Threads -> {"none", "loop", "lock", "use", "fault", "free", "exited"}]
    BY <1>4, LifecycleAssumption DEF InitManager, exitVars, LifeInv, TypeOK
  <2>2. t \in Threads /\ thread[t] = "none"
    BY <2>1 DEF LifeInv, StartInv
  <2>3. t = "conmgr" => \A u \in TableUsers : thread[u] = "none"
    <3>1. t = "conmgr" => step = 1
      BY <2>1
    <3> QED BY <2>1, <3>1 DEF TableUsers, LifeInv, StartInv
  <2>4. table' \in {"null", "live", "freed"} /\ (t # "conmgr" => table' = table)
    BY <1>4, Zenon DEF InitManager, LifeInv, TypeOK
  <2>5. CASE main' = "error" /\ UNCHANGED <<thread, need_evaluation, step>>
    <3>1. TypeOK'
      BY <1>1, <2>1, <2>4, <2>5, Zenon DEF LifeInv, TypeOK
    <3>2. StartInv' /\ RunInv' /\ JoinInv'
      BY <1>1, <2>1, <2>5 DEF LifeInv, StartInv, RunInv, Busy, JoinInv
    <3>3. WalkedTableIsLive'
      BY <1>1, <2>3, <2>4, <2>5, Zenon DEF LifeInv, WalkedTableIsLive
    <3> QED BY <1>2, <3>1, <3>2, <3>3, Zenon DEF LifeInv
  <2>6. CASE /\ thread' = [thread EXCEPT ![t] = "loop"] /\ main' = main /\ step' = step + 1
             /\ need_evaluation' = (need_evaluation \/ t = "pe")
    <3>1. /\ thread' \in [Threads -> {"none", "loop", "lock", "use", "fault", "free", "exited"}]
          /\ thread'[t] = "loop" /\ \A u \in Threads : u # t => thread'[u] = thread[u]
      BY <2>1, <2>2, <2>6, Zenon
    <3>2. TypeOK'
      BY <1>1, <2>1, <2>4, <2>6, <3>1, LifecycleAssumption DEF LifeInv, TypeOK
    <3>3. StartInv'
      <4>1. \A i \in 1..5 : i > step + 1 => i > step /\ InitOrder[i] # t
        BY <2>1
      <4> QED BY <1>1, <2>1, <2>6, <3>1, <4>1 DEF LifeInv, StartInv
    <3>4. RunInv' /\ JoinInv'
      BY <1>1, <2>1, <2>6, <3>1 DEF LifeInv, RunInv, Busy, JoinInv
    <3>5. WalkedTableIsLive'
      BY <1>1, <2>3, <2>4, <3>1 DEF LifeInv, WalkedTableIsLive
    <3> QED BY <1>2, <3>2, <3>3, <3>4, <3>5, Zenon DEF LifeInv
  <2> QED BY <1>4, <2>5, <2>6 DEF InitManager
<1> QED BY <1>3, <1>4

\* wait(), the deaths of children, the end of the start, and signals.
LEMMA WaitKeeps ==
    ASSUME LifeInv,
           InitDone \/ WaitChild \/ SendSignal \/ (\E c \in Children : ChildDies(c)) \/ UNCHANGED vars
    PROVE  LifeInv'
<1> USE OrderFacts
<1>1. /\ UNCHANGED <<step, exit_flag, pipe, pids, run, thread, table, con_tbl_mutex, need_evaluation>>
      /\ pending' \in BOOLEAN /\ sent' \in 0..MaxSignals
  <2>1. CASE SendSignal
    BY <2>1, LifecycleAssumption DEF SendSignal, procVars, thrVars, exitVars, LifeInv, TypeOK
  <2>2. CASE ~SendSignal
    BY <2>2 DEF InitDone, WaitChild, ChildDies, vars, procVars, thrVars, exitVars, sigVars, LifeInv,
       TypeOK
  <2> QED BY <2>1, <2>2
<1>2. \/ main' = main
      \/ main \in {"init", "wait"} /\ main' \in {"wait", "error"}
  BY Zenon DEF InitDone, WaitChild, SendSignal, ChildDies, vars, procVars, exitVars
<1>3. \/ child' = child
      \/ \E c \in Children, v \in {"reaped", "dead"} :
             child[c] # "none" /\ child' = [child EXCEPT ![c] = v]
  BY Zenon DEF InitDone, WaitChild, SendSignal, ChildDies, vars, procVars, exitVars
<1>4. /\ child' \in [Children -> {"none", "running", "signalled", "dead", "reaped"}]
      /\ \A c \in Children : child'[c] = "running" => child[c] = "running"
      /\ \A c \in Children : child[c] = "none" => child'[c] = "none"
  <2>1. child \in [Children -> {"none", "running", "signalled", "dead", "reaped"}]
    BY Zenon DEF LifeInv, TypeOK
  <2>2. ASSUME NEW c \in Children, NEW v \in {"reaped", "dead"},
               child[c] # "none", child' = [child EXCEPT ![c] = v]
        PROVE  <1>4!:
    BY <2>1, <2>2, Zenon
  <2> QED BY <1>3, <2>1, <2>2
<1>5. TypeOK'
  BY <1>1, <1>2, <1>4 DEF LifeInv, TypeOK
<1>6. StartInv' /\ WalkedTableIsLive'
  BY <1>1, <1>2, <1>4 DEF LifeInv, StartInv, WalkedTableIsLive
<1>7. RunInv' /\ JoinInv'
  BY <1>1, <1>2 DEF LifeInv, RunInv, Busy, JoinInv
<1>8. ChildInv'
  BY <1>1, <1>4 DEF LifeInv, ChildInv, Busy
<1> QED BY <1>5, <1>6, <1>7, <1>8, Zenon DEF LifeInv

\* The error label: sine_exit() unless exit_flag is set, then the joins.
LEMMA EndKeeps == LifeInv /\ (MainCleanup \/ JoinThread \/ MainReturns) => LifeInv'
<1> SUFFICES ASSUME LifeInv, MainCleanup \/ JoinThread \/ MainReturns PROVE LifeInv'
  BY Zenon
<1> USE OrderFacts
<1>1. /\ UNCHANGED <<exit_flag, pipe, pids, child, thread, table, con_tbl_mutex, need_evaluation,
                     pending, sent>>
      /\ main \in {"error", "join"} /\ run["main_sig"] = Idle
  BY Zenon DEF MainCleanup, JoinThread, MainReturns, MainRuns, thrVars, exitVars, sigVars
<1>2. CASE /\ ~exit_flag /\ main = "error" /\ main' = "sine_exit" /\ step' = step
           /\ run' = [run EXCEPT !["main"] = [pc |-> "flag", at |-> 0]]
  <2>1. run["main"] = Idle
    BY <1>2, Zenon DEF LifeInv, RunInv
  <2>2. /\ run' \in [Executors -> [pc : {"none", "flag", "write", "test", "kill"},
                                   at : 0..NumChildren]]
        /\ RunInv' /\ ChildInv'
    BY <1>1, <1>2, <2>1, StartRunKeeps, Zenon
  <2>3. TypeOK'
    BY <1>1, <1>2, <2>2, Zenon DEF LifeInv, TypeOK
  <2>4. StartInv' /\ WalkedTableIsLive' /\ JoinInv'
    <3>1. StartInv'
      BY <1>1, <1>2, Zenon DEF StartInv
    <3>2. WalkedTableIsLive'
      BY <1>1, Zenon DEF LifeInv, WalkedTableIsLive
    <3>3. JoinInv'
      BY <1>1, <1>2, Zenon DEF JoinInv
    <3> QED BY <3>1, <3>2, <3>3
  <2> QED BY <2>2, <2>3, <2>4, Zenon DEF LifeInv
<1>3. CASE run' = run /\ exit_flag /\ main' = "join" /\ step' \in 0..5
           /\ \A i \in 1..5 : i <= step' => thread[InitOrder[i]] \in {"none", "exited"}
  <2>1. run["main"] = Idle
    BY <1>1, Zenon DEF LifeInv, RunInv
  <2>2. TypeOK'
    BY <1>1, <1>3, LifecycleAssumption DEF LifeInv, TypeOK
  <2>3. StartInv' /\ WalkedTableIsLive' /\ JoinInv'
    <3>1. StartInv'
      BY <1>1, <1>3, Zenon DEF StartInv
    <3>2. WalkedTableIsLive'
      BY <1>1, Zenon DEF LifeInv, WalkedTableIsLive
    <3>3. JoinInv'
      BY <1>1, <1>3, Zenon DEF JoinInv
    <3> QED BY <3>1, <3>2, <3>3
  <2>4. RunInv' /\ ChildInv'
    BY <1>1, <1>3, <2>1 DEF LifeInv, RunInv, ChildInv, Busy
  <2> QED BY <2>2, <2>3, <2>4, Zenon DEF LifeInv
<1>4. CASE MainReturns
  <2>1. main = "join" /\ step = 5 /\ main' = "returned" /\ run' = run /\ step' = step
    BY <1>4, Zenon DEF MainReturns, exitVars
  <2>2. exit_flag /\ \A t \in Threads : thread[t] \in {"none", "exited"}
    <3>1. \A i \in 1..5 : thread[InitOrder[i]] \in {"none", "exited"}
      BY <2>1 DEF LifeInv, JoinInv
    <3> QED BY <2>1, <3>1 DEF LifeInv, JoinInv
  <2>3. TypeOK'
    BY <1>1, <2>1, Zenon DEF LifeInv, TypeOK
  <2>4. StartInv' /\ WalkedTableIsLive' /\ JoinInv'
    <3>1. StartInv'
      BY <1>1, <2>1, <2>2, Zenon DEF StartInv
    <3>2. WalkedTableIsLive'
      BY <1>1, Zenon DEF LifeInv, WalkedTableIsLive
    <3>3. JoinInv'
      BY <1>1, <2>1, <2>2, Zenon DEF JoinInv
    <3> QED BY <3>1, <3>2, <3>3
  <2>5. RunInv' /\ ChildInv'
    BY <1>1, <2>1 DEF LifeInv, RunInv, ChildInv, Busy
  <2> QED BY <2>3, <2>4, <2>5, Zenon DEF LifeInv
<1>5. CASE MainCleanup /\ exit_flag
  BY <1>3, <1>5 DEF MainCleanup
<1>6. CASE JoinThread
  <2>1. /\ run' = run /\ main' = "join" /\ main = "join" /\ step' = step + 1 /\ step \in 0..4
        /\ thread[InitOrder[step + 1]] \in {"none", "exited"}
    BY <1>6, LifecycleAssumption DEF JoinThread, exitVars, LifeInv, TypeOK
  <2>2. \A i \in 1..5 : i <= step + 1 => i <= step \/ i = step + 1
    BY <2>1
  <2> QED BY <1>3, <2>1, <2>2 DEF LifeInv, JoinInv
<1> QED BY <1>2, <1>4, <1>5, <1>6 DEF MainCleanup

\* Every step of the daemon, of its handlers and of its children preserves the
\* invariant.
LEMMA NextKeeps == LifeInv /\ [Next]_vars => LifeInv'
<1> SUFFICES ASSUME LifeInv, [Next]_vars PROVE LifeInv'
  BY Zenon
<1>1. CASE MainStep
  BY <1>1, ForkKeeps, StartKeeps, WaitKeeps, EndKeeps, Zenon DEF MainStep
<1>2. ASSUME NEW e \in Executors, SineExit(e) PROVE LifeInv'
  BY <1>2, SineFlagKeeps, SineWriteKeeps, SineTestKeeps, SineKillKeeps, SineReturnKeeps, Zenon DEF SineExit
<1>3. ASSUME NEW e \in Executors, Deliver(e) PROVE LifeInv'
  BY <1>3, HandlerKeeps, Zenon
<1>4. ASSUME NEW t \in TableUsers, WantTable(t) \/ LockTable(t) \/ UnlockTable(t) \/ Fault(t)
      PROVE  LifeInv'
  BY <1>4, OrderFacts, LoopStepKeeps, LockKeeps, HandlerKeeps, Zenon
<1>5. ASSUME NEW t \in Threads, TriggerPolicyEngine(t) \/ LeaveLoop(t) \/ LeaveLoopEarly(t)
      PROVE  LifeInv'
  BY <1>5, LoopStepKeeps, Zenon
<1>6. CASE FreeTable
  BY <1>6, FreeTableKeeps, Zenon
<1>7. CASE SendSignal \/ (\E c \in Children : ChildDies(c)) \/ UNCHANGED vars
  BY <1>7, WaitKeeps, Zenon
<1> QED BY <1>1, <1>2, <1>3, <1>4, <1>5, <1>6, <1>7, OrderFacts DEF Next

\* LifeInv holds in every state of the daemon's life.
THEOREM LifeInvariant == Spec => []LifeInv
<1> QED BY InitEstablishes, NextKeeps, PTL DEF Spec

\* When main() returns, every child has been sent SIGINT or has died, or a
\* handler on a forwarding thread, which is not joined, is still at it: for any
\* number of children, of signals and of activations of sine_exit() at once.
THEOREM NoChildIsLeft == Spec => []NoOrphans
<1>1. LifeInv => NoOrphans
  <2> SUFFICES ASSUME LifeInv, main = "returned", run["forwarder"] = Idle,
                      NEW c \in Children, child[c] = "running"
               PROVE  FALSE
    BY Zenon DEF NoOrphans
  <2>1. \A e \in Executors : run[e] = Idle
    BY OrderFacts, Zenon DEF LifeInv, RunInv, JoinInv
  <2>2. exit_flag /\ \A e \in Executors : ~Busy(e)
    BY <2>1 DEF LifeInv, JoinInv, Busy, Idle
  <2> QED BY <2>2 DEF LifeInv, ChildInv
<1> QED BY <1>1, LifeInvariant, PTL

\* conmgr never frees the connection table under a thread that walks it.
THEOREM TableStaysLive == Spec => []WalkedTableIsLive
<1>1. LifeInv => WalkedTableIsLive
  BY Zenon DEF LifeInv
<1> QED BY <1>1, LifeInvariant, PTL

\* Every variable keeps its type; in particular step stays within the two
\* loops of main() and the pipe within its capacity.
THEOREM LifeTypes == Spec => []TypeOK
<1>1. LifeInv => TypeOK
  BY Zenon DEF LifeInv
<1> QED BY <1>1, LifeInvariant, PTL
=============================================================================
