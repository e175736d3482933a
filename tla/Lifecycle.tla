----------------------------- MODULE Lifecycle -----------------------------
(***************************************************************************)
(* Start and end of the sined daemon (sined/src/main.c): the children it   *)
(* forks, the threads it starts, sine_exit() run by the main thread or by  *)
(* a signal handler on any thread, and the way every thread leaves its     *)
(* loop; conmgr frees the connection table as it leaves.                   *)
(***************************************************************************)
EXTENDS Integers, Sequences, FiniteSets

CONSTANTS NumChildren,  \* PID_NUM
          MaxSignals,   \* bound on the signals sent to the daemon from outside
          PipeCap,      \* bytes the exit pipe holds
          SignalTargets \* the executors that signals are delivered to

Children == 1..NumChildren

\* The threads in the order main() starts and joins them.
InitOrder == <<"netmgr", "conmgr", "locmgr", "socks", "pe">>

Threads == {InitOrder[i] : i \in DOMAIN InitOrder}

\* The threads that lock the connection table and follow con_tbl_head.
TableUsers == {"conmgr", "locmgr", "pe"}

\* Where sine_exit() can run: called by main(), in a handler that interrupted
\* the main thread or one of the managers' threads, or in a handler on one of
\* the threads that forward a SOCKS connection, which nobody joins.
Executors == {"main", "main_sig", "forwarder"} \cup Threads

ASSUME LifecycleAssumption ==
    /\ NumChildren \in Nat \ {0}
    /\ MaxSignals \in Nat
    /\ PipeCap \in Nat \ {0}
    /\ SignalTargets \subseteq Executors \ {"main"}

NoPipe == -1

VARIABLES
    main,             \* control state of main()
    step,             \* its loop index: children forked, threads started or joined
    exit_flag,
    pipe,             \* bytes in exit_pipe, NoPipe before pipe()
    pids,             \* what pids[] holds: 0, the child's pid or -1
    child,            \* the child processes
    thread,           \* control state of each thread
    table,            \* con_tbl_head: NULL before, allocated, NULL again
    con_tbl_mutex,
    need_evaluation,
    run,              \* the activation of sine_exit() on each executor
    pending,          \* a signal waits for delivery to the daemon
    sent              \* signals sent to the daemon from outside

procVars == <<main, step>>
thrVars  == <<thread, table, con_tbl_mutex, need_evaluation>>
exitVars == <<exit_flag, pipe, pids, child, run>>
sigVars  == <<pending, sent>>
vars     == <<procVars, thrVars, exitVars, sigVars>>

Idle == [pc |-> "none", at |-> 0]

TypeOK ==
    /\ main \in {"fork", "pipe", "init", "wait", "error", "sine_exit", "join", "returned", "forced"}
    /\ step \in 0..(NumChildren + Len(InitOrder))
    /\ exit_flag \in BOOLEAN
    /\ pipe \in {NoPipe} \cup 0..PipeCap
    /\ pids \in [Children -> {"zero", "pid", "minus1"}]
    /\ child \in [Children -> {"none", "running", "signalled", "dead", "reaped"}]
    /\ thread \in [Threads -> {"none", "loop", "lock", "use", "fault", "free", "exited"}]
    /\ table \in {"null", "live", "freed"}
    /\ con_tbl_mutex \in Threads \cup {"nobody"}
    /\ need_evaluation \in BOOLEAN
    /\ run \in [Executors -> [pc : {"none", "flag", "write", "test", "kill"}, at : 0..NumChildren]]
    /\ pending \in BOOLEAN
    /\ sent \in 0..MaxSignals

Init ==
    /\ main = "fork" /\ step = 0
    /\ exit_flag = FALSE
    /\ pipe = NoPipe
    /\ pids = [c \in Children |-> "zero"]
    /\ child = [c \in Children |-> "none"]
    /\ thread = [t \in Threads |-> "none"]
    /\ table = "null"
    /\ con_tbl_mutex = "nobody"
    /\ need_evaluation = FALSE
    /\ run = [e \in Executors |-> Idle]
    /\ pending = FALSE /\ sent = 0

\* exit() and the return from main() end every thread.
Alive == main \notin {"returned", "forced"}

\* The main thread is not in a handler.
MainRuns == run["main_sig"] = Idle

(***************************************************************************)
(* main()                                                                  *)
(***************************************************************************)
ForkChild ==
    /\ main = "fork" /\ step < NumChildren
    /\ pids' = [pids EXCEPT ![step + 1] = "pid"]
    /\ child' = [child EXCEPT ![step + 1] = "running"]
    /\ step' = step + 1
    /\ UNCHANGED <<main, exit_flag, pipe, run, thrVars, sigVars>>

ForkFails ==
    /\ main = "fork" /\ step < NumChildren
    /\ pids' = [pids EXCEPT ![step + 1] = "minus1"]
    /\ main' = "error"
    /\ UNCHANGED <<step, exit_flag, pipe, child, run, thrVars, sigVars>>

\* pipe() and the four sigaction() calls.
MakePipe ==
    /\ main = "fork" /\ step = NumChildren
    /\ \/ main' = "init" /\ pipe' = 0
       \/ main' = "error" /\ pipe' \in {NoPipe, 0}
    /\ step' = 0
    /\ UNCHANGED <<exit_flag, pids, child, run, thrVars, sigVars>>

\* init_connection_manager() allocates the table, and frees it when it fails;
\* init_policy_engine() loads the policies, which triggers an evaluation.
InitManager ==
    /\ main = "init" /\ MainRuns /\ step < Len(InitOrder)
    /\ LET t == InitOrder[step + 1] IN
       \/ /\ thread' = [thread EXCEPT ![t] = "loop"]
          /\ table' = IF t = "conmgr" THEN "live" ELSE table
          /\ need_evaluation' = (need_evaluation \/ t = "pe")
          /\ step' = step + 1 /\ main' = main
       \/ /\ table' = IF t = "conmgr" THEN "freed" ELSE table
          /\ main' = "error"
          /\ UNCHANGED <<thread, need_evaluation, step>>
    /\ UNCHANGED <<con_tbl_mutex, exitVars, sigVars>>

InitDone ==
    /\ main = "init" /\ MainRuns /\ step = Len(InitOrder)
    /\ main' = "wait"
    /\ UNCHANGED <<step, thrVars, exitVars, sigVars>>

\* wait(NULL) reaps one child that has died.
WaitChild ==
    /\ main = "wait" /\ MainRuns
    /\ \E c \in Children :
          /\ child[c] = "dead"
          /\ child' = [child EXCEPT ![c] = "reaped"]
    /\ main' = "error"
    /\ UNCHANGED <<step, thrVars, exit_flag, pipe, pids, run, sigVars>>

\* The error label.
MainCleanup ==
    /\ main = "error" /\ MainRuns
    /\ \/ /\ exit_flag
          /\ main' = "join" /\ step' = 0 /\ run' = run
       \/ /\ ~exit_flag
          /\ main' = "sine_exit" /\ step' = step
          /\ run' = [run EXCEPT !["main"] = [pc |-> "flag", at |-> 0]]
    /\ UNCHANGED <<thrVars, exit_flag, pipe, pids, child, sigVars>>

\* A thread that was never started is not joined.
JoinThread ==
    /\ main = "join" /\ MainRuns /\ step < Len(InitOrder)
    /\ thread[InitOrder[step + 1]] \in {"none", "exited"}
    /\ step' = step + 1
    /\ UNCHANGED <<main, thrVars, exitVars, sigVars>>

MainReturns ==
    /\ main = "join" /\ MainRuns /\ step = Len(InitOrder)
    /\ main' = "returned"
    /\ UNCHANGED <<step, thrVars, exitVars, sigVars>>

MainStep ==
    \/ ForkChild \/ ForkFails \/ MakePipe \/ InitManager \/ InitDone
    \/ WaitChild \/ MainCleanup \/ JoinThread \/ MainReturns

(***************************************************************************)
(* sine_exit() on executor e.                                              *)
(***************************************************************************)
SineFlag(e) ==
    /\ run[e].pc = "flag"
    /\ exit_flag' = TRUE
    /\ run' = [run EXCEPT ![e].pc = "write"]
    /\ UNCHANGED <<procVars, thrVars, pipe, pids, child, sigVars>>

\* Mutant: the byte is not written.
SineWriteNothing(e) ==
    /\ run[e].pc = "write"
    /\ run' = [run EXCEPT ![e] = [pc |-> "test", at |-> NumChildren]]
    /\ UNCHANGED <<procVars, thrVars, exit_flag, pipe, pids, child, sigVars>>

\* Nobody reads the pipe: it is full in the end, and then write() blocks.
\* Before pipe() the write goes to descriptor 0, and exit(1) follows when
\* that fails.
SineWrite(e) ==
    /\ run[e].pc = "write"
    /\ \/ /\ pipe < PipeCap
          /\ pipe' = IF pipe = NoPipe THEN pipe ELSE pipe + 1
          /\ run' = [run EXCEPT ![e] = [pc |-> "test", at |-> NumChildren]]
          /\ main' = main
       \/ /\ pipe = NoPipe
          /\ main' = "forced"
          /\ UNCHANGED <<pipe, run>>
    /\ UNCHANGED <<step, thrVars, exit_flag, pids, child, sigVars>>

\* Mutants: the loop stops before index 0, or goes on past it.
SineTestRunsPast(e) ==
    /\ run[e].pc = "test"
    /\ run' = [run EXCEPT ![e] = IF @.at > 0 /\ pids[@.at] # "zero" THEN [@ EXCEPT !.pc = "kill"]
                                                                   ELSE [@ EXCEPT !.at = @ - 1]]
    /\ UNCHANGED <<procVars, thrVars, exit_flag, pipe, pids, child, sigVars>>

SineTestStopsEarly(e) ==
    /\ run[e].pc = "test" /\ run[e].at > 0
    /\ run' = [run EXCEPT ![e] = IF @.at = 1 \/ pids[@.at] = "zero" THEN [@ EXCEPT !.at = @ - 1]
                                                                  ELSE [@ EXCEPT !.pc = "kill"]]
    /\ UNCHANGED <<procVars, thrVars, exit_flag, pipe, pids, child, sigVars>>

\* if (pids[i])
SineTest(e) ==
    /\ run[e].pc = "test" /\ run[e].at > 0
    /\ run' = [run EXCEPT ![e] = IF pids[@.at] = "zero" THEN [pc |-> "test", at |-> @.at - 1]
                                                        ELSE [pc |-> "kill", at |-> @.at]]
    /\ UNCHANGED <<procVars, thrVars, exit_flag, pipe, pids, child, sigVars>>

\* kill(pids[i], SIGINT): pids[i] is read again, and another activation may
\* have set it to 0 since it was tested, which makes the process group, the
\* daemon included, the target.
SineKill(e) ==
    /\ run[e].pc = "kill"
    /\ LET c == run[e].at
           hit == IF pids[c] = "pid" THEN {c} ELSE Children
       IN  /\ child' = [k \in Children |->
                           IF k \in hit /\ child[k] = "running" THEN "signalled" ELSE child[k]]
           /\ pids' = [pids EXCEPT ![c] = "zero"]
           /\ pending' = (pending \/ pids[c] = "zero")
           /\ run' = [run EXCEPT ![e] = [pc |-> "test", at |-> c - 1]]
    /\ UNCHANGED <<procVars, thrVars, exit_flag, pipe, sent>>

\* Return: a handler that interrupted wait() makes it fail.
SineReturn(e) ==
    /\ run[e].pc = "test" /\ run[e].at = 0
    /\ run' = [run EXCEPT ![e] = Idle]
    /\ main' = CASE e = "main" -> "join"
                 [] e = "main_sig" /\ main = "wait" -> "error"
                 [] OTHER -> main
    /\ step' = IF e = "main" THEN 0 ELSE step
    /\ UNCHANGED <<thrVars, exit_flag, pipe, pids, child, sigVars>>

SineExit(e) ==
    /\ Alive
    /\ e = "main" => MainRuns
    /\ SineFlag(e) \/ SineWrite(e) \/ SineTest(e) \/ SineKill(e) \/ SineReturn(e)

(***************************************************************************)
(* Signals from outside, and their delivery to some thread.                *)
(***************************************************************************)
SendSignal ==
    /\ Alive /\ pipe # NoPipe /\ sent < MaxSignals
    /\ pending' = TRUE /\ sent' = sent + 1
    /\ UNCHANGED <<procVars, thrVars, exitVars>>

CanHandle(e) ==
    /\ e \in SignalTargets
    /\ run[e] = Idle
    /\ \/ e = "main_sig"
       \/ e = "forwarder" /\ thread["socks"] # "none"
       \/ e \in Threads /\ thread[e] \notin {"none", "exited"}

Deliver(e) ==
    /\ Alive /\ pipe # NoPipe /\ pending /\ CanHandle(e)
    /\ pending' = FALSE
    /\ run' = [run EXCEPT ![e] = [pc |-> "flag", at |-> 0]]
    /\ UNCHANGED <<procVars, thrVars, exit_flag, pipe, pids, child, sent>>

(***************************************************************************)
(* The threads, while no handler runs on them.                             *)
(***************************************************************************)
Runs(t) == Alive /\ run[t] = Idle

AfterLoop(t) == IF t = "conmgr" THEN "free" ELSE "exited"

\* The condition of the loop, tested after the work is done.
LoopAgain(t) == IF exit_flag THEN AfterLoop(t) ELSE "loop"

\* Work that needs the table: select() reports a message for conmgr or the
\* line "l" for locmgr, and not the exit pipe; a trigger is pending for pe.
WantTable(t) ==
    /\ Runs(t) /\ thread[t] = "loop"
    /\ IF t = "pe" THEN need_evaluation /\ ~exit_flag ELSE pipe = 0
    /\ thread' = [thread EXCEPT ![t] = "lock"]
    /\ UNCHANGED <<table, con_tbl_mutex, need_evaluation, procVars, exitVars, sigVars>>

\* The head is followed once the lock is held; it is NULL after the table was
\* freed.
LockTable(t) ==
    /\ Runs(t) /\ thread[t] = "lock" /\ con_tbl_mutex = "nobody"
    /\ con_tbl_mutex' = t
    /\ thread' = [thread EXCEPT ![t] = IF table = "live" THEN "use" ELSE "fault"]
    /\ UNCHANGED <<table, need_evaluation, procVars, exitVars, sigVars>>

UnlockTable(t) ==
    /\ Runs(t) /\ thread[t] = "use"
    /\ con_tbl_mutex' = "nobody"
    /\ thread' = [thread EXCEPT ![t] = LoopAgain(t)]
    /\ need_evaluation' = (need_evaluation /\ t # "pe")
    /\ UNCHANGED <<table, procVars, exitVars, sigVars>>

\* SIGSEGV: the handler returns to the instruction that faulted.
Fault(t) ==
    /\ Runs(t) /\ thread[t] = "fault"
    /\ run' = [run EXCEPT ![t] = [pc |-> "flag", at |-> 0]]
    /\ UNCHANGED <<procVars, thrVars, exit_flag, pipe, pids, child, sigVars>>

\* An event or a new location.
TriggerPolicyEngine(t) ==
    /\ Runs(t) /\ thread[t] = "loop" /\ pipe = 0
    /\ need_evaluation' = TRUE
    /\ thread' = [thread EXCEPT ![t] = LoopAgain(t)]
    /\ UNCHANGED <<table, con_tbl_mutex, procVars, exitVars, sigVars>>

\* select() reports the exit pipe, or pe sees exit_flag in its busy loop.
LeaveLoop(t) ==
    /\ Runs(t) /\ thread[t] = "loop"
    /\ IF t = "pe" THEN exit_flag ELSE pipe > 0
    /\ thread' = [thread EXCEPT ![t] = AfterLoop(t)]
    /\ UNCHANGED <<table, con_tbl_mutex, need_evaluation, procVars, exitVars, sigVars>>

\* conmgr also leaves its loop when a message cannot be received; socks when
\* a connection arrives while exit_flag is set.
LeaveLoopEarly(t) ==
    /\ Runs(t) /\ thread[t] = "loop"
    /\ t = "conmgr" \/ (t = "socks" /\ exit_flag)
    /\ thread' = [thread EXCEPT ![t] = AfterLoop(t)]
    /\ UNCHANGED <<table, con_tbl_mutex, need_evaluation, procVars, exitVars, sigVars>>

\* Mutant: the table is freed without the lock.
FreeTableUnlocked ==
    /\ Runs("conmgr") /\ thread["conmgr"] = "free"
    /\ table' = "freed"
    /\ thread' = [thread EXCEPT !["conmgr"] = "exited"]
    /\ UNCHANGED <<con_tbl_mutex, need_evaluation, procVars, exitVars, sigVars>>

FreeTable ==
    /\ Runs("conmgr") /\ thread["conmgr"] = "free"
    /\ con_tbl_mutex = "nobody"
    /\ table' = "freed"
    /\ thread' = [thread EXCEPT !["conmgr"] = "exited"]
    /\ UNCHANGED <<con_tbl_mutex, need_evaluation, procVars, exitVars, sigVars>>

(***************************************************************************)
(* The children (external programs): each may stop at any time.            *)
(***************************************************************************)
ChildDies(c) ==
    /\ child[c] \in {"running", "signalled"}
    /\ child' = [child EXCEPT ![c] = "dead"]
    /\ UNCHANGED <<procVars, thrVars, exit_flag, pipe, pids, run, sigVars>>

-----------------------------------------------------------------------------
Next ==
    \/ MainStep
    \/ \E e \in Executors : SineExit(e) \/ Deliver(e)
    \/ SendSignal
    \/ \E t \in TableUsers : WantTable(t) \/ LockTable(t) \/ UnlockTable(t) \/ Fault(t)
    \/ \E t \in {"netmgr", "locmgr"} : TriggerPolicyEngine(t)
    \/ \E t \in Threads : LeaveLoop(t)
    \/ \E t \in {"conmgr", "socks"} : LeaveLoopEarly(t)
    \/ FreeTable
    \/ \E c \in Children : ChildDies(c)

Spec == Init /\ [][Next]_vars

\* Every thread that can run does, the scheduler sees to it; an evaluation
\* ends, see TableMutexReleased of PolicyEngine.
FairSpec ==
    /\ Spec
    /\ WF_vars(MainStep)
    /\ \A e \in Executors : WF_vars(SineExit(e))
    /\ \A t \in TableUsers : WF_vars(LockTable(t)) /\ WF_vars(UnlockTable(t)) /\ WF_vars(Fault(t))
    /\ \A t \in Threads : WF_vars(LeaveLoop(t))
    /\ WF_vars(FreeTable)

-----------------------------------------------------------------------------
(***************************************************************************)
(* Properties                                                              *)
(***************************************************************************)
\* When main() returns, every child has been sent SIGINT or has died, however
\* many activations of sine_exit() raced for pids[]; only a handler still
\* running on a forwarding thread, which main() does not join, is cut short.
NoOrphans ==
    main = "returned" =>
        (\A c \in Children : child[c] # "running") \/ run["forwarder"] # Idle

\* conmgr does not free the table under a thread that is walking it.
WalkedTableIsLive ==
    \A t \in TableUsers : thread[t] = "use" => table = "live" /\ con_tbl_mutex = t

Faulted == \E t \in TableUsers : thread[t] = "fault"

\* main() returns once a child has died while it waited, unless a thread
\* follows con_tbl_head after conmgr has freed the table.
DeathTerminatesOrFaults ==
    (main = "wait" /\ \E c \in Children : child[c] = "dead") ~> (main = "returned" \/ Faulted)

\* "terminate when any of the children has died" (main.c:168).
DeathTerminates ==
    (main = "wait" /\ \E c \in Children : child[c] = "dead") ~> (main = "returned")
=============================================================================
