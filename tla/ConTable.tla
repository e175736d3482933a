------------------------------ MODULE ConTable ------------------------------
(***************************************************************************)
(* What the connection manager promises of its table, whatever the list it *)
(* is kept in: registering adds one entry, removing a key takes out every  *)
(* entry with that key and no other, a walk visits exactly the entries the *)
(* table holds, and the manager's exit leaves none.  Each is one step.     *)
(***************************************************************************)
CONSTANTS Nodes, Keys

VARIABLES tbl,      \* the entries: pairs of a connection and its (pid, fd)
          covered   \* the entries the last walk visited

Entries == Nodes \X Keys

Init == tbl = {} /\ covered = {}

Add(e) ==
    /\ e \notin tbl
    /\ tbl' = tbl \cup {e}
    /\ UNCHANGED covered

Remove(k) ==
    /\ tbl' = { e \in tbl : e[2] # k }
    /\ UNCHANGED covered

Walk == covered' = tbl /\ UNCHANGED tbl

Clear == tbl' = {} /\ UNCHANGED covered

Next ==
    \/ \E e \in Entries : Add(e)
    \/ \E k \in Keys : Remove(k)
    \/ Walk
    \/ Clear

Spec == Init /\ [][Next]_<<tbl, covered>>
=============================================================================
