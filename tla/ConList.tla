------------------------------ MODULE ConList -------------------------------
(***************************************************************************)
(* The connection table as conmgr.c keeps it: a singly linked list with a  *)
(* dummy head and a tail pointer, in a heap whose cells are reused.  A     *)
(* step is one statement group or one iteration of a loop; the list is     *)
(* changed and walked under con_tbl_mutex only.                            *)
(***************************************************************************)
EXTENDS Naturals, Sequences

CONSTANTS Nodes,    \* cells of the heap
          Keys,     \* (pid, fd) pairs
          Readers,  \* threads that walk the table: evaluate_all(), the dump
          NULL

Nobody == "nobody"

ASSUME ListAssumption ==
    /\ NULL \notin Nodes /\ NULL \notin Keys
    /\ "conmgr" \notin Readers /\ Nobody \notin Readers

VARIABLES
    head, tail,   \* con_tbl_head, con_tbl_tail
    next, key,    \* the fields of a cell
    alive,        \* the allocated cells
    mutex,        \* holder of con_tbl_mutex
    conmgr,       \* control state of the connection manager's thread
    conn,         \* the connection add_connection() has allocated
    victim,       \* the key remove_connection() looks for
    pred, curr,   \* the loop pointers of whoever holds the mutex
    list,         \* auxiliary: the cells from head on
    pos,          \* auxiliary: where the loop's pred (a reader's curr) is in list
    dropped,      \* auxiliary: entries unlinked since the mutex was taken
    visited,      \* auxiliary: entries the walk in progress has seen
    covered       \* auxiliary: entries the last complete walk has seen

heapVars == <<head, tail, next, key, alive>>
auxVars  == <<list, pos, dropped, visited, covered>>
vars     == <<heapVars, mutex, conmgr, conn, victim, pred, curr, auxVars>>

Entry(n) == <<n, key[n]>>

Linked == { Entry(list[i]) : i \in 2..Len(list) }

\* Take the element at position i out of s.
Without(s, i) == [j \in 1..(Len(s) - 1) |-> IF j < i THEN s[j] ELSE s[j + 1]]

Pointers == Nodes \cup {NULL}

TypeOK ==
    /\ head \in Pointers /\ tail \in Pointers
    /\ next \in [Nodes -> Pointers]
    /\ key \in [Nodes -> Keys \cup {NULL}]
    /\ alive \subseteq Nodes
    /\ mutex \in Readers \cup {"conmgr", Nobody}
    /\ conmgr \in {"init", "select", "add", "remove", "free", "exit"}
    /\ conn \in Pointers /\ pred \in Pointers /\ curr \in Pointers
    /\ victim \in Keys \cup {NULL}
    /\ list \in Seq(Nodes)
    /\ pos \in Nat
    /\ dropped \subseteq Nodes \X Keys
    /\ visited \subseteq Nodes \X Keys
    /\ covered \subseteq Nodes \X Keys

Init ==
    /\ head = NULL /\ tail = NULL
    /\ next = [n \in Nodes |-> NULL]
    /\ key = [n \in Nodes |-> NULL]
    /\ alive = {}
    /\ mutex = Nobody
    /\ conmgr = "init"
    /\ conn = NULL /\ pred = NULL /\ curr = NULL
    /\ victim = NULL
    /\ list = <<>> /\ pos = 0
    /\ dropped = {} /\ visited = {} /\ covered = {}

\* init_connection_table()
InitTable(n) ==
    /\ conmgr = "init"
    /\ mutex = Nobody
    /\ n \notin alive
    /\ head' = n /\ tail' = n
    /\ alive' = alive \cup {n}
    /\ next' = [next EXCEPT ![n] = NULL]
    /\ conmgr' = "select"
    /\ list' = <<n>>
    /\ UNCHANGED <<key, mutex, conn, victim, pred, curr, pos, dropped, visited, covered>>

(***************************************************************************)
(* add_connection(): the connection is built before the lock is taken.     *)
(***************************************************************************)
AddAlloc(n, k) ==
    /\ conmgr = "select"
    /\ n \notin alive
    /\ conmgr' = "add"
    /\ conn' = n
    /\ alive' = alive \cup {n}
    /\ key' = [key EXCEPT ![n] = k]
    /\ next' = [next EXCEPT ![n] = NULL]
    /\ UNCHANGED <<head, tail, mutex, victim, pred, curr, auxVars>>

\* Mutant: the error path does not return.
AddErrorGoesOn ==
    /\ conmgr = "add" /\ conn # NULL
    /\ alive' = alive \ {conn}
    /\ conn' = NULL
    /\ UNCHANGED <<head, tail, next, key, mutex, conmgr, victim, pred, curr, auxVars>>

\* No space for the address: the connection is freed again.
AddError ==
    /\ conmgr = "add"
    /\ conmgr' = "select"
    /\ alive' = alive \ {conn}
    /\ conn' = NULL
    /\ UNCHANGED <<head, tail, next, key, mutex, victim, pred, curr, auxVars>>

AddLink ==
    /\ conmgr = "add"
    /\ mutex = Nobody
    /\ next' = [next EXCEPT ![tail] = conn]
    /\ tail' = conn
    /\ conmgr' = "select"
    /\ conn' = NULL
    /\ list' = Append(list, conn)
    /\ UNCHANGED <<head, key, alive, mutex, victim, pred, curr, pos, dropped, visited, covered>>

(***************************************************************************)
(* remove_connection(): every entry with the key goes, one an iteration.   *)
(***************************************************************************)
RemoveLock(k) ==
    /\ conmgr = "select"
    /\ mutex = Nobody
    /\ conmgr' = "remove" /\ mutex' = "conmgr"
    /\ victim' = k
    /\ pred' = head /\ curr' = next[head]
    /\ pos' = 1
    /\ UNCHANGED <<heapVars, conn, list, dropped, visited, covered>>

\* Mutant: the tail is not updated when the last connection is removed.
RemoveMatchOldTail ==
    /\ conmgr = "remove"
    /\ curr # NULL /\ key[curr] = victim
    /\ next' = [next EXCEPT ![pred] = next[curr]]
    /\ alive' = alive \ {curr}
    /\ curr' = next'[pred]
    /\ list' = Without(list, pos + 1)
    /\ dropped' = dropped \cup {Entry(curr)}
    /\ UNCHANGED <<head, tail, key, mutex, conmgr, conn, victim, pred, pos, visited, covered>>

\* Mutant: the loop advances past the entry that follows a removed one.
RemoveMatchSkips ==
    /\ conmgr = "remove"
    /\ curr # NULL /\ key[curr] = victim
    /\ next' = [next EXCEPT ![pred] = next[curr]]
    /\ alive' = alive \ {curr}
    /\ pred' = IF next[curr] = NULL THEN pred ELSE next[curr]
    /\ curr' = IF next[curr] = NULL THEN NULL ELSE next[next[curr]]
    /\ tail' = IF next[curr] = NULL THEN pred ELSE tail
    /\ list' = Without(list, pos + 1)
    /\ pos' = IF next[curr] = NULL THEN pos ELSE pos + 1
    /\ dropped' = dropped \cup {Entry(curr)}
    /\ UNCHANGED <<head, key, mutex, conmgr, conn, victim, visited, covered>>

\* Mutant: the connection is freed but stays linked.
RemoveMatchLeavesLink ==
    /\ conmgr = "remove"
    /\ curr # NULL /\ key[curr] = victim
    /\ alive' = alive \ {curr}
    /\ pred' = curr /\ curr' = next[curr]
    /\ pos' = pos + 1
    /\ dropped' = dropped \cup {Entry(curr)}
    /\ UNCHANGED <<head, tail, next, key, mutex, conmgr, conn, victim, list, visited, covered>>

\* Mutant: the connection is unlinked but not freed.
RemoveMatchLeaks ==
    /\ conmgr = "remove"
    /\ curr # NULL /\ key[curr] = victim
    /\ next' = [next EXCEPT ![pred] = next[curr]]
    /\ curr' = next'[pred]
    /\ tail' = IF curr' = NULL THEN pred ELSE tail
    /\ list' = Without(list, pos + 1)
    /\ dropped' = dropped \cup {Entry(curr)}
    /\ UNCHANGED <<head, key, alive, mutex, conmgr, conn, victim, pred, pos, visited, covered>>

RemoveMatch ==
    /\ conmgr = "remove"
    /\ curr # NULL /\ key[curr] = victim
    /\ next' = [next EXCEPT ![pred] = next[curr]]
    /\ alive' = alive \ {curr}
    /\ curr' = next'[pred]
    /\ tail' = IF curr' = NULL THEN pred ELSE tail
    /\ list' = Without(list, pos + 1)
    /\ dropped' = dropped \cup {Entry(curr)}
    /\ UNCHANGED <<head, key, mutex, conmgr, conn, victim, pred, pos, visited, covered>>

\* Mutant: the loop stays on an entry that does not match.
RemoveSkipStays ==
    /\ conmgr = "remove"
    /\ curr # NULL /\ key[curr] # victim
    /\ UNCHANGED vars

RemoveSkip ==
    /\ conmgr = "remove"
    /\ curr # NULL /\ key[curr] # victim
    /\ pred' = curr /\ curr' = next[curr]
    /\ pos' = pos + 1
    /\ UNCHANGED <<heapVars, mutex, conmgr, conn, victim, list, dropped, visited, covered>>

RemoveUnlock ==
    /\ conmgr = "remove"
    /\ curr = NULL
    /\ conmgr' = "select" /\ mutex' = Nobody
    /\ victim' = NULL /\ pred' = NULL
    /\ pos' = 0
    /\ dropped' = {}
    /\ UNCHANGED <<heapVars, conn, curr, list, visited, covered>>

(***************************************************************************)
(* free_connection_table(), when the manager's loop ends.                  *)
(***************************************************************************)
FreeLock ==
    /\ conmgr = "select"
    /\ mutex = Nobody
    /\ conmgr' = "free" /\ mutex' = "conmgr"
    /\ UNCHANGED <<heapVars, conn, victim, pred, curr, auxVars>>

FreeFirst ==
    /\ conmgr = "free"
    /\ next[head] # NULL
    /\ next' = [next EXCEPT ![head] = next[next[head]]]
    /\ alive' = alive \ {next[head]}
    /\ list' = Without(list, 2)
    /\ dropped' = dropped \cup {Entry(next[head])}
    /\ UNCHANGED <<head, tail, key, mutex, conmgr, conn, victim, pred, curr, pos, visited, covered>>

FreeHead ==
    /\ conmgr = "free"
    /\ next[head] = NULL
    /\ alive' = alive \ {head}
    /\ head' = NULL /\ tail' = NULL
    /\ conmgr' = "exit" /\ mutex' = Nobody
    /\ list' = <<>>
    /\ dropped' = {}
    /\ UNCHANGED <<next, key, conn, victim, pred, curr, pos, visited, covered>>

(***************************************************************************)
(* A walk: for (conn = con_tbl_head->next; conn != NULL; conn = conn->next)*)
(* under the mutex.  One begun after the table is freed reads through a    *)
(* NULL head and ends the process; Lifecycle has that fault.               *)
(***************************************************************************)
WalkLock(r) ==
    /\ mutex = Nobody
    /\ head # NULL
    /\ mutex' = r
    /\ curr' = next[head]
    /\ pos' = 2
    /\ UNCHANGED <<heapVars, conmgr, conn, victim, pred, list, dropped, visited, covered>>

WalkNext(r) ==
    /\ mutex = r
    /\ curr # NULL
    /\ visited' = visited \cup {Entry(curr)}
    /\ curr' = next[curr]
    /\ pos' = pos + 1
    /\ UNCHANGED <<heapVars, mutex, conmgr, conn, victim, pred, list, dropped, covered>>

\* Mutant: the walk stops at the tail instead of after it.
WalkUnlockEarly(r) ==
    /\ mutex = r
    /\ curr = NULL \/ curr = tail
    /\ mutex' = Nobody
    /\ curr' = NULL
    /\ pos' = 0
    /\ covered' = visited /\ visited' = {}
    /\ UNCHANGED <<heapVars, conmgr, conn, victim, pred, list, dropped>>

WalkUnlock(r) ==
    /\ mutex = r
    /\ curr = NULL
    /\ mutex' = Nobody
    /\ curr' = NULL
    /\ pos' = 0
    /\ covered' = visited /\ visited' = {}
    /\ UNCHANGED <<heapVars, conmgr, conn, victim, pred, list, dropped>>

Remove == RemoveMatch \/ RemoveSkip \/ RemoveUnlock
Free   == FreeFirst \/ FreeHead
Walk(r) == WalkNext(r) \/ WalkUnlock(r)

Next ==
    \/ \E n \in Nodes : InitTable(n)
    \/ \E n \in Nodes, k \in Keys : AddAlloc(n, k)
    \/ AddError \/ AddLink
    \/ \E k \in Keys : RemoveLock(k)
    \/ Remove
    \/ FreeLock \/ Free
    \/ \E r \in Readers : WalkLock(r) \/ Walk(r)

Spec == Init /\ [][Next]_vars

\* A thread that holds the mutex is scheduled until it releases it.
Fairness == WF_vars(Remove) /\ WF_vars(Free) /\ \A r \in Readers : WF_vars(Walk(r))

FairSpec == Spec /\ Fairness

(***************************************************************************)
(* Properties.                                                             *)
(***************************************************************************)
\* The cells a thread can reach from con_tbl_head.
Reachable ==
    { n \in Nodes : \A S \in SUBSET Nodes :
        (head \in S /\ \A m \in S : next[m] # NULL => next[m] \in S) => n \in S }

\* Between two critical sections con_tbl_tail is the last cell of the list:
\* add_connection() never links a connection behind a cell that was removed.
TailIsLast ==
    mutex = Nobody /\ head # NULL => tail \in Reachable /\ next[tail] = NULL

\* No loop follows a pointer to a connection that was freed.
NoUseAfterFree ==
    /\ head # NULL => head \in alive /\ (conmgr # "free" => tail \in alive)
    /\ mutex # Nobody /\ conmgr # "free" /\ curr # NULL => curr \in alive
    /\ conmgr = "remove" => pred \in alive

\* Every allocated connection is in the table or about to be linked: removal
\* and exit leave nothing behind.
NoLeak ==
    mutex = Nobody =>
        alive = (IF head = NULL THEN {} ELSE Reachable) \cup ({conn} \ {NULL})

\* The list implements the table: what remove_connection() and a walk do
\* under the mutex is one step of ConTable.
Table == INSTANCE ConTable WITH tbl <- Linked \cup dropped

TableSpec == Table!Spec

\* remove_connection(), free_connection_table() and the walks end: the list
\* has no cycle.
MutexReleased == mutex # Nobody ~> mutex = Nobody
=============================================================================
