--------------------------- MODULE ConListProofs ---------------------------
(***************************************************************************)
(* The linked list implements the connection table, for every heap, every  *)
(* set of keys and every set of walking threads.  ListInv, the inductive   *)
(* invariant, says that list is the chain of cells from con_tbl_head on,   *)
(* and that the loop pointers of the mutex's holder are at position pos of *)
(* it.                                                                     *)
(***************************************************************************)
EXTENDS ConList, WellFoundedInduction, TLAPS

Cells == { list[i] : i \in 1..Len(list) }

\* list follows the next pointers, without repetition, up to NULL.
ChainInv ==
    /\ \A i, j \in 1..Len(list) : list[i] = list[j] => i = j
    /\ \A i \in 1..Len(list) :
           next[list[i]] = IF i = Len(list) THEN NULL ELSE list[i + 1]
    /\ \A i \in 2..Len(list) : key[list[i]] \in Keys

\* head and tail are its ends.
EndsInv ==
    /\ head # NULL <=> conmgr \notin {"init", "exit"}
    /\ head = NULL => list = <<>>
    /\ head # NULL => Len(list) > 0 /\ list[1] = head
    /\ head # NULL /\ conmgr # "free" => tail = list[Len(list)]

\* Exactly the linked cells and the one being built are allocated.
HeapInv ==
    /\ alive = Cells \cup ({conn} \ {NULL})
    /\ conn # NULL <=> conmgr = "add"
    /\ conn # NULL => conn \notin Cells /\ next[conn] = NULL /\ key[conn] \in Keys

\* The loops of the manager's thread.
RemoveInv ==
    /\ mutex = "conmgr" <=> conmgr \in {"remove", "free"}
    /\ mutex # "conmgr" => dropped = {}
    /\ conmgr = "remove" =>
           /\ pos \in 1..Len(list) /\ pred = list[pos] /\ curr = next[list[pos]]
           /\ victim \in Keys
           /\ \A i \in 2..pos : key[list[i]] # victim
           /\ \A e \in dropped : e[2] = victim

\* The loop of a walking thread.
WalkInv ==
    mutex \in Readers =>
        /\ head # NULL
        /\ pos \in 2..(Len(list) + 1)
        /\ curr = IF pos = Len(list) + 1 THEN NULL ELSE list[pos]
        /\ visited = { Entry(list[i]) : i \in 2..(pos - 1) }

IdleInv == mutex \notin Readers => visited = {}

ListInv ==
    TypeOK /\ ChainInv /\ EndsInv /\ HeapInv /\ RemoveInv /\ WalkInv /\ IdleInv

\* Taking one element out of a sequence.
LEMMA WithoutFacts ==
    ASSUME NEW s \in Seq(Nodes), NEW i \in 1..Len(s)
    PROVE  /\ Without(s, i) \in Seq(Nodes)
           /\ Len(Without(s, i)) = Len(s) - 1
           /\ \A j \in 1..(Len(s) - 1) : Without(s, i)[j] = IF j < i THEN s[j] ELSE s[j + 1]
<1>1. Len(s) - 1 \in Nat
  OBVIOUS
<1>2. \A j \in 1..(Len(s) - 1) : (IF j < i THEN s[j] ELSE s[j + 1]) \in Nodes
  OBVIOUS
<1>. QED
  BY <1>1, <1>2 DEF Without

\* The initial state: no table yet.
LEMMA InitEstablishes == Init => ListInv
<1>. SUFFICES ASSUME Init PROVE ListInv
  BY Zenon
<1>1. TypeOK
  BY DEF Init, TypeOK, Pointers, Nobody
<1>2. ChainInv /\ EndsInv /\ HeapInv
  BY DEF Init, ChainInv, EndsInv, HeapInv, Cells
<1>3. RemoveInv /\ WalkInv /\ IdleInv
  BY ListAssumption, Zenon DEF Init, RemoveInv, WalkInv, IdleInv, Nobody
<1>. QED
  BY <1>1, <1>2, <1>3, Zenon DEF ListInv

\* init_connection_table() makes the list of the dummy head alone.
LEMMA InitTableKeeps ==
    ASSUME ListInv, NEW n \in Nodes, InitTable(n)
    PROVE  ListInv'
<1>. USE DEF ListInv
<1>1. TypeOK'
  BY DEF TypeOK, InitTable, Pointers
<1>2. Len(list') = 1 /\ list'[1] = n
  BY Zenon DEF InitTable
<1>3. ChainInv'
  BY <1>2 DEF ChainInv, InitTable, TypeOK
<1>4. EndsInv'
  BY <1>2, ListAssumption DEF EndsInv, InitTable
<1>5. HeapInv'
  BY <1>2 DEF HeapInv, EndsInv, InitTable, Cells
<1>6. RemoveInv' /\ WalkInv' /\ IdleInv'
  BY ListAssumption, Zenon DEF RemoveInv, WalkInv, IdleInv, InitTable, Nobody
<1>. QED
  BY <1>1, <1>3, <1>4, <1>5, <1>6, Zenon

\* add_connection() builds a connection in a cell outside the list.
LEMMA AddAllocKeeps ==
    ASSUME ListInv, NEW n \in Nodes, NEW k \in Keys, AddAlloc(n, k)
    PROVE  ListInv'
<1>. USE DEF ListInv
<1>1. TypeOK'
  BY Zenon DEF TypeOK, AddAlloc, Pointers, auxVars
<1>2. \A i \in 1..Len(list) : list[i] \in Nodes /\ list[i] # n
  BY Zenon DEF TypeOK, HeapInv, Cells, AddAlloc
<1>3. \A i \in 1..Len(list) : next'[list[i]] = next[list[i]] /\ key'[list[i]] = key[list[i]]
  BY <1>2, Zenon DEF AddAlloc, TypeOK
<1>4. list' = list /\ Cells' = Cells
  BY Zenon DEF AddAlloc, auxVars, Cells
<1>5. ChainInv'
  <2>1. \A i \in 1..Len(list) : next'[list[i]] = IF i = Len(list) THEN NULL ELSE list[i + 1]
    BY <1>3, Zenon DEF ChainInv
  <2>2. \A i \in 2..Len(list) : key'[list[i]] \in Keys
    BY <1>3 DEF ChainInv, TypeOK
  <2>. QED
    BY <2>1, <2>2, <1>4, Zenon DEF ChainInv
<1>6. EndsInv'
  BY <1>4, Zenon DEF EndsInv, AddAlloc
<1>7. HeapInv'
  BY <1>2, <1>4, ListAssumption, Zenon DEF HeapInv, AddAlloc, TypeOK, Cells
<1>8. RemoveInv' /\ IdleInv'
  BY Zenon DEF RemoveInv, IdleInv, AddAlloc, auxVars
<1>9. WalkInv'
  <2>1. CASE mutex \in Readers
    <3>1. \A i \in 2..(pos - 1) : i \in 1..Len(list)
      BY <2>1 DEF WalkInv, TypeOK
    <3>2. { Entry(list[i]) : i \in 2..(pos - 1) }' = { Entry(list[i]) : i \in 2..(pos - 1) }
      BY <1>3, <1>4, <3>1, Zenon DEF Entry, AddAlloc, auxVars
    <3>. QED
      BY <2>1, <3>2, <1>4, Zenon DEF WalkInv, AddAlloc, auxVars
  <2>2. CASE mutex \notin Readers
    BY <2>2, Zenon DEF WalkInv, AddAlloc
  <2>. QED
    BY <2>1, <2>2, Zenon
<1>. QED
  BY <1>1, <1>5, <1>6, <1>7, <1>8, <1>9, Zenon

\* add_connection() gives up: the cell it built is free again.
LEMMA AddErrorKeeps ==
    ASSUME ListInv, AddError
    PROVE  ListInv'
<1>. USE DEF ListInv
<1>1. TypeOK'
  BY Zenon DEF TypeOK, AddError, Pointers, auxVars
<1>2. ChainInv' /\ EndsInv'
  BY Zenon DEF ChainInv, EndsInv, AddError, auxVars
<1>3. HeapInv'
  BY Zenon DEF HeapInv, AddError, auxVars, Cells
<1>4. RemoveInv' /\ WalkInv' /\ IdleInv'
  BY Zenon DEF RemoveInv, WalkInv, IdleInv, AddError, auxVars, Entry
<1>. QED
  BY <1>1, <1>2, <1>3, <1>4, Zenon

\* add_connection() links the connection behind the tail.
LEMMA AddLinkKeeps ==
    ASSUME ListInv, AddLink
    PROVE  /\ ListInv'
           /\ conn \in Nodes /\ Entry(conn) \notin Linked
           /\ Linked' = Linked \cup {Entry(conn)}
           /\ dropped = {} /\ dropped' = {}
<1>. USE DEF ListInv
<1>1. /\ conn \in Nodes /\ conn \notin Cells /\ key[conn] \in Keys /\ next[conn] = NULL
      /\ head # NULL /\ Len(list) > 0 /\ Len(list) \in Nat /\ tail = list[Len(list)]
      /\ conmgr = "add" /\ mutex = Nobody
  BY DEF AddLink, HeapInv, EndsInv, TypeOK, Pointers
<1>2. /\ list' \in Seq(Nodes) /\ Len(list') = Len(list) + 1
      /\ \A i \in 1..Len(list) : list'[i] = list[i]
      /\ list'[Len(list) + 1] = conn
  BY <1>1 DEF AddLink, TypeOK
<1>3. \A i \in 1..Len(list) : list[i] \in Nodes /\ list[i] # conn
  BY <1>1 DEF TypeOK, Cells
<1>4. TypeOK'
  BY <1>1, <1>2, Zenon DEF TypeOK, AddLink, Pointers
<1>5. ChainInv'
  <2>1. \A i, j \in 1..Len(list') : list'[i] = list'[j] => i = j
    BY <1>1, <1>2, <1>3 DEF ChainInv
  <2>2. \A i \in 1..Len(list') : next'[list'[i]] = IF i = Len(list') THEN NULL ELSE list'[i + 1]
    <3>. SUFFICES ASSUME NEW i \in 1..Len(list')
                  PROVE  next'[list'[i]] = IF i = Len(list') THEN NULL ELSE list'[i + 1]
      BY Zenon
    <3>1. CASE i < Len(list)
      <4>1. list[i] # tail
        BY <1>1, <3>1 DEF ChainInv
      <4>. QED
        BY <3>1, <4>1, <1>1, <1>2, <1>3 DEF ChainInv, AddLink, TypeOK
    <3>2. CASE i = Len(list)
      BY <3>2, <1>1, <1>2, <1>3 DEF AddLink, TypeOK
    <3>3. CASE i = Len(list) + 1
      BY <3>3, <1>1, <1>2, <1>3 DEF AddLink, TypeOK
    <3>. QED
      BY <3>1, <3>2, <3>3, <1>1, <1>2
  <2>3. \A i \in 2..Len(list') : key'[list'[i]] \in Keys
    BY <1>1, <1>2 DEF ChainInv, AddLink
  <2>. QED
    BY <2>1, <2>2, <2>3, Zenon DEF ChainInv
<1>6. EndsInv'
  BY <1>1, <1>2 DEF EndsInv, AddLink
<1>7. Cells' = Cells \cup {conn}
  BY <1>1, <1>2 DEF Cells
<1>8. HeapInv'
  BY <1>1, <1>7, Zenon DEF HeapInv, AddLink
<1>9. RemoveInv' /\ WalkInv' /\ IdleInv'
  BY <1>1, ListAssumption, Zenon DEF RemoveInv, WalkInv, IdleInv, AddLink, Nobody
<1>10. Entry(conn) \notin Linked
  BY <1>3 DEF Linked, Entry
<1>11. Linked' = Linked \cup {Entry(conn)}
  <2>1. key' = key
    BY Zenon DEF AddLink
  <2>2. Linked' = { <<list'[i], key[list'[i]]>> : i \in 2..Len(list') }
    BY <2>1, Zenon DEF Linked, Entry
  <2>3. Linked = { <<list[i], key[list[i]]>> : i \in 2..Len(list) }
    BY Zenon DEF Linked, Entry
  <2>. QED
    BY <2>2, <2>3, <1>1, <1>2 DEF Entry
<1>12. dropped = {} /\ dropped' = {}
  BY <1>1, Zenon DEF RemoveInv, AddLink, Nobody
<1>. QED
  BY <1>1, <1>4, <1>5, <1>6, <1>8, <1>9, <1>10, <1>11, <1>12, Zenon

\* Unlinking and freeing the cell behind position p, as remove_connection()
\* and free_connection_table() do.
LEMMA UnlinkFacts ==
    ASSUME ListInv, NEW p \in 1..(Len(list) - 1),
           list' = Without(list, p + 1),
           next' = [next EXCEPT ![list[p]] = next[list[p + 1]]],
           alive' = alive \ {list[p + 1]},
           UNCHANGED <<key, conn, conmgr>>, conmgr # "add"
    PROVE  /\ list' \in Seq(Nodes) /\ Len(list') = Len(list) - 1
           /\ \A j \in 1..Len(list') : list'[j] = IF j < p + 1 THEN list[j] ELSE list[j + 1]
           /\ ChainInv' /\ HeapInv'
           /\ Linked = Linked' \cup {Entry(list[p + 1])}
           /\ Entry(list[p + 1]) \in Nodes \X Keys
           /\ next' \in [Nodes -> Pointers]
<1>. USE DEF ListInv
<1>1. /\ list \in Seq(Nodes) /\ Len(list) \in Nat /\ p \in Nat /\ p + 1 \in 1..Len(list)
      /\ \A i \in 1..Len(list) : list[i] \in Nodes
  BY DEF TypeOK
<1>2. /\ list' \in Seq(Nodes) /\ Len(list') = Len(list) - 1
      /\ \A j \in 1..Len(list') : list'[j] = IF j < p + 1 THEN list[j] ELSE list[j + 1]
  BY <1>1, WithoutFacts, Zenon
<1>. DEFINE At(j) == IF j < p + 1 THEN j ELSE j + 1
<1>3. \A j \in 1..Len(list') : At(j) \in 1..Len(list) /\ At(j) # p + 1 /\ list'[j] = list[At(j)]
  BY <1>1, <1>2
<1>4. \A i \in 1..Len(list) : i # p + 1 => \E j \in 1..Len(list') : At(j) = i
  <2>. SUFFICES ASSUME NEW i \in 1..Len(list), i # p + 1
                PROVE  \E j \in 1..Len(list') : At(j) = i
    BY Zenon
  <2>1. CASE i < p + 1
    BY <2>1, <1>1, <1>2
  <2>2. CASE i > p + 1
    <3>1. i - 1 \in 1..Len(list') /\ At(i - 1) = i
      BY <2>2, <1>1, <1>2
    <3>. QED
      BY <3>1, Zenon
  <2>. QED
    BY <2>1, <2>2, <1>1
<1>5. \A i, j \in 1..Len(list) : list[i] = list[j] => i = j
  BY Zenon DEF ChainInv
<1>6. \A i \in 1..Len(list) : next[list[i]] = IF i = Len(list) THEN NULL ELSE list[i + 1]
  BY Zenon DEF ChainInv
<1>7. next' \in [Nodes -> Pointers]
  BY <1>1, Zenon DEF TypeOK
<1>8. ChainInv'
  <2>1. \A i, j \in 1..Len(list') : list'[i] = list'[j] => i = j
    BY <1>1, <1>2, <1>3, <1>5
  <2>2. \A i \in 1..Len(list') : next'[list'[i]] = IF i = Len(list') THEN NULL ELSE list'[i + 1]
    <3>. SUFFICES ASSUME NEW i \in 1..Len(list')
                  PROVE  next'[list'[i]] = IF i = Len(list') THEN NULL ELSE list'[i + 1]
      BY Zenon
    <3>1. CASE i = p
      <4>1. list'[i] = list[p] /\ next'[list[p]] = next[list[p + 1]]
        BY <3>1, <1>1, <1>2 DEF TypeOK
      <4>2. CASE p + 1 = Len(list)
        BY <3>1, <4>1, <4>2, <1>1, <1>2, <1>6
      <4>3. CASE p + 1 # Len(list)
        <5>1. i # Len(list') /\ list'[i + 1] = list[p + 2]
          <6>1. Len(list') = Len(list) - 1
            BY <1>2, Zenon
          <6>2. i # Len(list') /\ i + 1 \in 1..Len(list') /\ ~(i + 1 < p + 1) /\ (i + 1) + 1 = p + 2
            BY <3>1, <4>3, <1>1, <6>1
          <6>. QED
            BY <1>2, <6>2, Zenon
        <5>2. p + 1 \in 1..Len(list) /\ (p + 1) + 1 = p + 2
          BY <1>1
        <5>3. next[list[p + 1]] = list[p + 2]
          BY <4>3, <5>2, <1>6, Zenon
        <5>. QED
          BY <4>1, <5>1, <5>3, Zenon
      <4>. QED
        BY <4>2, <4>3, Zenon
    <3>2. CASE i # p
      <4>1. list[At(i)] # list[p]
        BY <3>2, <1>1, <1>2, <1>3, <1>5
      <4>2. next'[list'[i]] = next[list[At(i)]]
        BY <4>1, <1>1, <1>3, Zenon DEF TypeOK
      <4>3. i = Len(list') <=> At(i) = Len(list)
        BY <3>2, <1>1, <1>2
      <4>4. i # Len(list') => list'[i + 1] = list[At(i) + 1]
        BY <3>2, <1>1, <1>2
      <4>. QED
        BY <4>2, <4>3, <4>4, <1>3, <1>6, Zenon
    <3>. QED
      BY <3>1, <3>2, Zenon
  <2>3. \A i \in 2..Len(list') : key'[list'[i]] \in Keys
    <3>1. \A i \in 2..Len(list') : At(i) \in 2..Len(list)
      BY <1>1, <1>2
    <3>. QED
      BY <3>1, <1>2, <1>3 DEF ChainInv
  <2>. QED
    BY <2>1, <2>2, <2>3, Zenon DEF ChainInv
<1>9. Cells' = Cells \ {list[p + 1]}
  <2>1. Cells' = { list'[j] : j \in 1..Len(list') }
    BY Zenon DEF Cells
  <2>2. ASSUME NEW c \in Cells' PROVE c \in Cells \ {list[p + 1]}
    <3>1. PICK j \in 1..Len(list') : c = list'[j]
      BY <2>1, <2>2, Zenon
    <3>. QED
      BY <3>1, <1>1, <1>3, <1>5, Zenon DEF Cells
  <2>3. ASSUME NEW c \in Cells \ {list[p + 1]} PROVE c \in Cells'
    <3>1. PICK i \in 1..Len(list) : c = list[i] /\ i # p + 1
      BY <2>3, Zenon DEF Cells
    <3>2. PICK j \in 1..Len(list') : At(j) = i
      BY <3>1, <1>4, Zenon
    <3>. QED
      BY <3>1, <3>2, <2>1, <1>3, Zenon
  <2>. QED
    BY <2>2, <2>3, Zenon
<1>10. HeapInv'
  BY <1>9, ListAssumption, Zenon DEF HeapInv
<1>11. Linked = Linked' \cup {Entry(list[p + 1])}
  <2>1. Linked = { <<list[i], key[list[i]]>> : i \in 2..Len(list) }
    BY Zenon DEF Linked, Entry
  <2>2. Linked' = { <<list'[i], key[list'[i]]>> : i \in 2..Len(list') }
    BY Zenon DEF Linked, Entry
  <2>3. \A i \in 2..Len(list') : At(i) \in 2..Len(list)
    BY <1>1, <1>2
  <2>4. \A i \in 2..Len(list) : i # p + 1 => \E j \in 2..Len(list') : At(j) = i
    <3>. SUFFICES ASSUME NEW i \in 2..Len(list), i # p + 1
                  PROVE  \E j \in 2..Len(list') : At(j) = i
      BY Zenon
    <3>1. PICK j \in 1..Len(list') : At(j) = i
      BY <1>1, <1>4
    <3>2. j \in 2..Len(list')
      BY <3>1, <1>1, <1>2
    <3>. QED
      BY <3>1, <3>2, Zenon
  <2>5. p + 1 \in 2..Len(list)
    BY <1>1
  <2>6. ASSUME NEW e \in Linked PROVE e \in Linked' \cup {Entry(list[p + 1])}
    <3>1. PICK i \in 2..Len(list) : e = <<list[i], key[list[i]]>>
      BY <2>1, <2>6, Zenon
    <3>2. CASE i = p + 1
      BY <3>1, <3>2, Zenon DEF Entry
    <3>3. CASE i # p + 1
      <4>1. PICK j \in 2..Len(list') : At(j) = i
        BY <3>3, <2>4, Zenon
      <4>2. list'[j] = list[i]
        BY <4>1, <1>2, <1>3
      <4>. QED
        BY <3>1, <4>2, <2>2, Zenon
    <3>. QED
      BY <3>2, <3>3, Zenon
  <2>7. ASSUME NEW e \in Linked' PROVE e \in Linked
    <3>1. PICK j \in 2..Len(list') : e = <<list'[j], key[list'[j]]>>
      BY <2>2, <2>7, Zenon
    <3>2. list'[j] = list[At(j)] /\ At(j) \in 2..Len(list)
      BY <3>1, <2>3, <1>2, <1>3
    <3>. QED
      BY <3>1, <3>2, <2>1, Zenon
  <2>8. Entry(list[p + 1]) \in Linked
    BY <2>1, <2>5, Zenon DEF Entry
  <2>. QED
    BY <2>6, <2>7, <2>8, Zenon
<1>12. Entry(list[p + 1]) \in Nodes \X Keys
  BY <1>1 DEF Entry, ChainInv
<1>. QED
  BY <1>2, <1>7, <1>8, <1>10, <1>11, <1>12, Zenon


\* remove_connection() takes the mutex and starts at the head.
LEMMA RemoveLockKeeps ==
    ASSUME ListInv, NEW k \in Keys, RemoveLock(k)
    PROVE  ListInv'
<1>. USE DEF ListInv
<1>1. head # NULL /\ Len(list) > 0 /\ list[1] = head /\ head \in Nodes /\ Len(list) \in Nat
  BY DEF RemoveLock, EndsInv, TypeOK, Pointers
<1>2. TypeOK'
  BY <1>1, Zenon DEF TypeOK, RemoveLock, Pointers, heapVars
<1>3. ChainInv' /\ EndsInv' /\ HeapInv'
  BY DEF ChainInv, EndsInv, HeapInv, Cells, RemoveLock, heapVars
<1>4. RemoveInv'
  BY <1>1 DEF RemoveInv, RemoveLock, heapVars, Nobody
<1>5. WalkInv' /\ IdleInv'
  BY ListAssumption, Zenon DEF WalkInv, IdleInv, RemoveLock, Nobody
<1>. QED
  BY <1>2, <1>3, <1>4, <1>5, Zenon

\* remove_connection() unlinks and frees a matching connection; the table
\* together with what was dropped stays the same.
LEMMA RemoveMatchKeeps ==
    ASSUME ListInv, RemoveMatch
    PROVE  /\ ListInv'
           /\ Linked' \cup dropped' = Linked \cup dropped
<1>. USE DEF ListInv
<1>1. /\ conmgr = "remove" /\ mutex = "conmgr" /\ Len(list) \in Nat
      /\ pos \in 1..Len(list) /\ pred = list[pos] /\ curr = next[list[pos]] /\ curr # NULL
      /\ head # NULL /\ list[1] = head /\ tail = list[Len(list)]
  BY DEF RemoveMatch, RemoveInv, EndsInv, TypeOK
<1>2. pos \in 1..(Len(list) - 1) /\ curr = list[pos + 1]
  BY <1>1 DEF ChainInv
<1>3. /\ list' \in Seq(Nodes) /\ Len(list') = Len(list) - 1
      /\ \A j \in 1..Len(list') : list'[j] = IF j < pos + 1 THEN list[j] ELSE list[j + 1]
      /\ ChainInv' /\ HeapInv'
      /\ Linked = Linked' \cup {Entry(curr)}
      /\ Entry(curr) \in Nodes \X Keys
      /\ next' \in [Nodes -> Pointers]
  BY <1>1, <1>2, UnlinkFacts, Zenon DEF RemoveMatch
<1>4. pred \in Nodes /\ curr' \in Pointers
  BY <1>1, <1>3 DEF TypeOK, RemoveMatch
<1>5. TypeOK'
  BY <1>3, <1>4, Zenon DEF TypeOK, RemoveMatch, Pointers
<1>6. pos \in 1..Len(list') /\ list'[pos] = list[pos] /\ list'[1] = list[1]
  BY <1>1, <1>2, <1>3
<1>7. curr' = next'[list'[pos]]
  BY <1>1, <1>6, Zenon DEF RemoveMatch
<1>8. EndsInv'
  <2>1. tail' = list'[Len(list')]
    <3>1. CASE curr' = NULL
      <4>1. pos = Len(list')
        BY <3>1, <1>6, <1>7, <1>3, ListAssumption DEF ChainInv
      <4>. QED
        BY <3>1, <4>1, <1>1, <1>6, Zenon DEF RemoveMatch
    <3>2. CASE curr' # NULL
      <4>1. pos # Len(list')
        BY <3>2, <1>6, <1>7, <1>3, Zenon DEF ChainInv
      <4>2. list'[Len(list')] = list[Len(list)]
        BY <4>1, <1>1, <1>2, <1>3
      <4>. QED
        BY <3>2, <4>2, <1>1, Zenon DEF RemoveMatch
    <3>. QED
      BY <3>1, <3>2, Zenon
  <2>. QED
    BY <2>1, <1>1, <1>3, <1>6 DEF EndsInv, RemoveMatch
<1>9. RemoveInv'
  <2>1. \A i \in 2..pos : key'[list'[i]] # victim'
    BY <1>1, <1>2, <1>3 DEF RemoveInv, RemoveMatch
  <2>2. \A e \in dropped' : e[2] = victim'
    BY <1>1 DEF RemoveInv, RemoveMatch, Entry
  <2>. QED
    BY <2>1, <2>2, <1>1, <1>6, <1>7, Zenon DEF RemoveInv, RemoveMatch
<1>10. WalkInv' /\ IdleInv'
  BY <1>1, ListAssumption, Zenon DEF WalkInv, IdleInv, RemoveMatch
<1>11. Linked' \cup dropped' = Linked \cup dropped
  BY <1>3, Zenon DEF RemoveMatch
<1>. QED
  BY <1>3, <1>5, <1>8, <1>9, <1>10, <1>11, Zenon

\* remove_connection() steps over a connection with another key.
LEMMA RemoveSkipKeeps ==
    ASSUME ListInv, RemoveSkip
    PROVE  ListInv'
<1>. USE DEF ListInv
<1>1. /\ conmgr = "remove" /\ mutex = "conmgr" /\ Len(list) \in Nat
      /\ pos \in 1..Len(list) /\ pred = list[pos] /\ curr = next[list[pos]] /\ curr # NULL
  BY DEF RemoveSkip, RemoveInv, TypeOK
<1>2. pos \in 1..(Len(list) - 1) /\ curr = list[pos + 1] /\ curr \in Nodes
  BY <1>1 DEF ChainInv, TypeOK
<1>3. TypeOK'
  BY <1>1, <1>2 DEF TypeOK, RemoveSkip, heapVars, Pointers
<1>4. ChainInv' /\ EndsInv' /\ HeapInv'
  BY DEF ChainInv, EndsInv, HeapInv, Cells, RemoveSkip, heapVars
<1>5. RemoveInv'
  BY <1>1, <1>2 DEF RemoveInv, RemoveSkip, heapVars
<1>6. WalkInv' /\ IdleInv'
  BY <1>1, ListAssumption, Zenon DEF WalkInv, IdleInv, RemoveSkip
<1>. QED
  BY <1>3, <1>4, <1>5, <1>6, Zenon

\* remove_connection() returns: what is left of the table is what does not
\* have the key.
LEMMA RemoveUnlockKeeps ==
    ASSUME ListInv, RemoveUnlock
    PROVE  /\ ListInv'
           /\ victim \in Keys
           /\ Linked' \cup dropped' = { e \in Linked \cup dropped : e[2] # victim }
<1>. USE DEF ListInv
<1>1. /\ conmgr = "remove" /\ mutex = "conmgr" /\ Len(list) \in Nat
      /\ pos \in 1..Len(list) /\ curr = next[list[pos]] /\ curr = NULL
      /\ victim \in Keys
      /\ \A i \in 2..pos : key[list[i]] # victim
      /\ \A e \in dropped : e[2] = victim
  BY DEF RemoveUnlock, RemoveInv, TypeOK
<1>2. pos = Len(list)
  <2>. SUFFICES ASSUME pos # Len(list) PROVE FALSE
    BY Zenon
  <2>1. next[list[pos]] = list[pos + 1]
    BY <1>1, Zenon DEF ChainInv
  <2>2. pos + 1 \in 1..Len(list)
    BY <1>1
  <2>3. list[pos + 1] \in Nodes
    BY <2>2 DEF TypeOK
  <2>. QED
    BY <2>1, <2>3, <1>1, ListAssumption, Zenon
<1>3. Linked' = Linked /\ dropped' = {}
  BY Zenon DEF RemoveUnlock, Linked, Entry, heapVars
<1>4. \A e \in Linked : e[2] # victim
  BY <1>1, <1>2 DEF Linked, Entry
<1>5. TypeOK'
  BY Zenon DEF TypeOK, RemoveUnlock, heapVars, Pointers
<1>6. ChainInv' /\ EndsInv' /\ HeapInv'
  BY DEF ChainInv, EndsInv, HeapInv, Cells, RemoveUnlock, heapVars
<1>7. RemoveInv' /\ WalkInv' /\ IdleInv'
  BY <1>1, ListAssumption, Zenon DEF RemoveInv, WalkInv, IdleInv, RemoveUnlock, Nobody
<1>. QED
  BY <1>1, <1>3, <1>4, <1>5, <1>6, <1>7, Zenon

\* free_connection_table() unlinks and frees the first connection.
LEMMA FreeFirstKeeps ==
    ASSUME ListInv, FreeFirst
    PROVE  /\ ListInv'
           /\ Linked' \cup dropped' = Linked \cup dropped
<1>. USE DEF ListInv
<1>1. /\ conmgr = "free" /\ mutex = "conmgr" /\ Len(list) \in Nat /\ Len(list) > 0
      /\ head # NULL /\ list[1] = head /\ next[head] # NULL
  BY DEF FreeFirst, RemoveInv, EndsInv, TypeOK
<1>2. 1 \in 1..(Len(list) - 1) /\ next[head] = list[2] /\ 1 + 1 = 2
  BY <1>1 DEF ChainInv
<1>3. /\ list' \in Seq(Nodes) /\ Len(list') = Len(list) - 1
      /\ \A j \in 1..Len(list') : list'[j] = IF j < 1 + 1 THEN list[j] ELSE list[j + 1]
      /\ ChainInv' /\ HeapInv'
      /\ Linked = Linked' \cup {Entry(list[2])}
      /\ Entry(list[2]) \in Nodes \X Keys
      /\ next' \in [Nodes -> Pointers]
  BY <1>1, <1>2, UnlinkFacts, Zenon DEF FreeFirst
<1>4. list'[1] = head
  BY <1>1, <1>2, <1>3
<1>5. TypeOK'
  BY <1>2, <1>3, Zenon DEF TypeOK, FreeFirst
<1>6. EndsInv'
  BY <1>1, <1>2, <1>3, <1>4 DEF EndsInv, FreeFirst
<1>7. RemoveInv' /\ WalkInv' /\ IdleInv'
  BY <1>1, ListAssumption, Zenon DEF RemoveInv, WalkInv, IdleInv, FreeFirst
<1>8. Linked' \cup dropped' = Linked \cup dropped
  BY <1>2, <1>3, Zenon DEF FreeFirst
<1>. QED
  BY <1>3, <1>5, <1>6, <1>7, <1>8, Zenon

\* free_connection_table() takes the mutex, and finally frees the head.
LEMMA FreeEndsKeep ==
    ASSUME ListInv
    PROVE  /\ FreeLock => ListInv'
           /\ FreeHead => ListInv' /\ Linked' \cup dropped' = {}
<1>. USE DEF ListInv
<1>1. ASSUME FreeLock PROVE ListInv'
  <2>1. TypeOK' /\ ChainInv' /\ EndsInv' /\ HeapInv'
    BY <1>1 DEF TypeOK, ChainInv, EndsInv, HeapInv, Cells, FreeLock, heapVars, auxVars
  <2>2. RemoveInv' /\ WalkInv' /\ IdleInv'
    BY <1>1, ListAssumption, Zenon DEF RemoveInv, WalkInv, IdleInv, FreeLock, heapVars, auxVars, Nobody
  <2>. QED
    BY <2>1, <2>2, Zenon
<1>2. ASSUME FreeHead PROVE ListInv' /\ Linked' \cup dropped' = {}
  <2>1. Len(list) = 1 /\ list[1] = head
    <3>1. Len(list) \in Nat /\ Len(list) > 0 /\ list[1] = head /\ next[head] = NULL
      BY <1>2 DEF FreeHead, EndsInv, TypeOK
    <3>. SUFFICES ASSUME Len(list) # 1 PROVE FALSE
      BY <3>1, Zenon
    <3>2. 1 \in 1..Len(list) /\ 2 \in 1..Len(list)
      <4>. DEFINE n == Len(list)
      <4>1. n \in Nat /\ n > 0 /\ n # 1
        BY <3>1, Zenon
      <4>. HIDE DEF n
      <4>2. 1 \in 1..n /\ 2 \in 1..n
        BY ONLY <4>1
      <4>. QED
        BY <4>2, Zenon DEF n
    <3>3. list[2] \in Nodes
      BY <3>2 DEF TypeOK
    <3>4. next[list[1]] = list[2]
      BY <3>2 DEF ChainInv
    <3>. QED
      BY <3>1, <3>3, <3>4, ListAssumption, Zenon
  <2>2. list' = <<>> /\ Len(list') = 0 /\ dropped' = {}
    BY <1>2, Zenon DEF FreeHead
  <2>3. TypeOK'
    BY <1>2, <2>2 DEF TypeOK, FreeHead, Pointers
  <2>4. ChainInv' /\ EndsInv'
    BY <1>2, <2>2 DEF ChainInv, EndsInv, FreeHead
  <2>5. HeapInv'
    BY <1>2, <2>1, <2>2 DEF HeapInv, FreeHead, Cells
  <2>6. RemoveInv' /\ WalkInv' /\ IdleInv'
    BY <1>2, ListAssumption, Zenon DEF RemoveInv, WalkInv, IdleInv, FreeHead, Nobody
  <2>7. Linked' = {}
    BY <2>2 DEF Linked
  <2>. QED
    BY <2>2, <2>3, <2>4, <2>5, <2>6, <2>7, Zenon
<1>. QED
  BY <1>1, <1>2, Zenon

\* The steps of a walk; when it ends, it has visited the table.
LEMMA WalkKeeps ==
    ASSUME ListInv, NEW r \in Readers
    PROVE  /\ WalkLock(r) => ListInv'
           /\ WalkNext(r) => ListInv'
           /\ WalkUnlock(r) => ListInv' /\ visited = Linked /\ dropped = {}
<1>. USE DEF ListInv
<1>1. ASSUME WalkLock(r) PROVE ListInv'
  <2>1. Len(list) \in Nat /\ Len(list) > 0 /\ list[1] = head /\ head \in Nodes
    BY <1>1 DEF WalkLock, EndsInv, TypeOK, Pointers
  <2>2. TypeOK'
    BY <1>1, <2>1, Zenon DEF TypeOK, WalkLock, heapVars
  <2>3. ChainInv' /\ EndsInv' /\ HeapInv'
    BY <1>1 DEF ChainInv, EndsInv, HeapInv, Cells, WalkLock, heapVars
  <2>4. RemoveInv' /\ IdleInv'
    BY <1>1, ListAssumption, Zenon DEF RemoveInv, IdleInv, WalkLock, Nobody
  <2>5. WalkInv'
    <3>1. curr' = IF 2 = Len(list) + 1 THEN NULL ELSE list[2]
      BY <1>1, <2>1 DEF WalkLock, ChainInv
    <3>2. visited = {} /\ visited' = {}
      BY <1>1, ListAssumption, Zenon DEF WalkLock, IdleInv
    <3>3. { Entry(list[i]) : i \in 2..(pos - 1) }' = {}
      BY <1>1 DEF WalkLock
    <3>4. pos' \in 2..(Len(list') + 1) /\ pos' = 2 /\ list' = list /\ head' # NULL
      BY <1>1, <2>1 DEF WalkLock, heapVars
    <3>. QED
      BY <3>1, <3>2, <3>3, <3>4, Zenon DEF WalkInv
  <2>. QED
    BY <2>2, <2>3, <2>4, <2>5, Zenon
<1>2. ASSUME WalkNext(r) PROVE ListInv'
  <2>1. /\ Len(list) \in Nat /\ pos \in 2..Len(list) /\ curr = list[pos] /\ curr \in Nodes
        /\ visited = { Entry(list[i]) : i \in 2..(pos - 1) }
    BY <1>2 DEF WalkNext, WalkInv, TypeOK
  <2>2. Entry(curr) \in Nodes \X Keys
    BY <2>1, Zenon DEF Entry, ChainInv
  <2>3. TypeOK'
    BY <1>2, <2>1, <2>2 DEF TypeOK, WalkNext, heapVars
  <2>4. ChainInv' /\ EndsInv' /\ HeapInv'
    BY <1>2 DEF ChainInv, EndsInv, HeapInv, Cells, WalkNext, heapVars
  <2>5. RemoveInv' /\ IdleInv'
    BY <1>2, ListAssumption, Zenon DEF RemoveInv, IdleInv, WalkNext
  <2>6. WalkInv'
    <3>1. curr' = IF pos + 1 = Len(list) + 1 THEN NULL ELSE list[pos + 1]
      BY <1>2, <2>1 DEF WalkNext, ChainInv
    <3>2. visited' = { <<list[i], key[list[i]]>> : i \in 2..(pos - 1) } \cup {<<list[pos], key[list[pos]]>>}
      BY <1>2, <2>1, Zenon DEF WalkNext, Entry
    <3>3. visited' = { <<list[i], key[list[i]]>> : i \in 2..pos }
      BY <3>2, <2>1
    <3>4. { Entry(list[i]) : i \in 2..(pos - 1) }' = { <<list[i], key[list[i]]>> : i \in 2..pos }
      BY <1>2, <2>1 DEF WalkNext, Entry, heapVars
    <3>5. pos' \in 2..(Len(list') + 1) /\ pos' = pos + 1 /\ list' = list /\ head' # NULL
      BY <1>2, <2>1 DEF WalkNext, heapVars, WalkInv
    <3>. QED
      BY <3>1, <3>3, <3>4, <3>5, Zenon DEF WalkInv
  <2>. QED
    BY <2>3, <2>4, <2>5, <2>6, Zenon
<1>3. ASSUME WalkUnlock(r) PROVE ListInv' /\ visited = Linked /\ dropped = {}
  <2>1. /\ Len(list) \in Nat /\ pos \in 2..(Len(list) + 1)
        /\ curr = IF pos = Len(list) + 1 THEN NULL ELSE list[pos]
        /\ curr = NULL
        /\ visited = { Entry(list[i]) : i \in 2..(pos - 1) }
    BY <1>3 DEF WalkUnlock, WalkInv, TypeOK
  <2>2. pos = Len(list) + 1
    <3>. SUFFICES ASSUME pos # Len(list) + 1 PROVE FALSE
      BY Zenon
    <3>1. list[pos] \in Nodes
      BY <2>1 DEF TypeOK
    <3>. QED
      BY <3>1, <2>1, ListAssumption, Zenon
  <2>3. visited = Linked
    BY <2>1, <2>2 DEF Linked
  <2>4. TypeOK' /\ ChainInv' /\ EndsInv' /\ HeapInv'
    BY <1>3 DEF TypeOK, ChainInv, EndsInv, HeapInv, Cells, WalkUnlock, heapVars, Pointers
  <2>5. RemoveInv' /\ WalkInv' /\ IdleInv' /\ dropped = {}
    BY <1>3, ListAssumption, Zenon DEF RemoveInv, WalkInv, IdleInv, WalkUnlock, Nobody
  <2>. QED
    BY <2>3, <2>4, <2>5, Zenon
<1>. QED
  BY <1>1, <1>2, <1>3, Zenon

\* A step that leaves the heap and the auxiliary sets alone keeps the table.
LEMMA SameTable ==
    ASSUME UNCHANGED <<key, list, dropped>>
    PROVE  Linked' \cup dropped' = Linked \cup dropped
  BY Zenon DEF Linked, Entry

\* Every step keeps the invariant and is a step of the table, or none.
LEMMA StepRefines ==
    ASSUME ListInv, [Next]_vars
    PROVE  /\ ListInv'
           /\ [Table!Next]_<<Linked \cup dropped, covered>>
<1>. USE DEF Table!Next, Table!Add, Table!Remove, Table!Walk, Table!Clear, Table!Entries
<1>1. ASSUME NEW n \in Nodes, InitTable(n)
      PROVE  ListInv' /\ Linked' \cup dropped' = Linked \cup dropped /\ covered' = covered
  <2>1. list = <<>> /\ list' = <<n>> /\ dropped' = dropped /\ covered' = covered
    BY <1>1, Zenon DEF ListInv, EndsInv, InitTable
  <2>2. Linked = {} /\ Linked' = {}
    BY <2>1 DEF Linked
  <2>. QED
    BY <1>1, <2>1, <2>2, InitTableKeeps, Zenon
<1>2. ASSUME NEW n \in Nodes, NEW k \in Keys, AddAlloc(n, k)
      PROVE  ListInv' /\ Linked' \cup dropped' = Linked \cup dropped /\ covered' = covered
  <2>1. list' = list /\ dropped' = dropped /\ covered' = covered
    BY <1>2, Zenon DEF AddAlloc, auxVars
  <2>2. \A i \in 2..Len(list) : key'[list[i]] = key[list[i]]
    BY <1>2 DEF AddAlloc, ListInv, HeapInv, Cells, TypeOK
  <2>3. Linked' = Linked
    BY <2>1, <2>2, Zenon DEF Linked, Entry
  <2>. QED
    BY <1>2, <2>1, <2>3, AddAllocKeeps, Zenon
<1>3. ASSUME AddLink PROVE ListInv' /\ \E e \in Nodes \X Keys : Table!Add(e)
  <2>1. Entry(conn) \in Nodes \X Keys
    BY <1>3, AddLinkKeeps, Zenon DEF ListInv, HeapInv, AddLink, Entry
  <2>2. covered' = covered
    BY <1>3, Zenon DEF AddLink
  <2>. QED
    BY <1>3, <2>1, <2>2, AddLinkKeeps, Zenon
<1>4. ASSUME RemoveUnlock PROVE ListInv' /\ \E k \in Keys : Table!Remove(k)
  <2>1. covered' = covered
    BY <1>4, Zenon DEF RemoveUnlock
  <2>. QED
    BY <1>4, <2>1, RemoveUnlockKeeps, Zenon
<1>5. ASSUME FreeHead PROVE ListInv' /\ Table!Clear
  BY <1>5, FreeEndsKeep, Zenon DEF FreeHead
<1>6. ASSUME NEW r \in Readers, WalkUnlock(r) PROVE ListInv' /\ Table!Walk
  <2>1. ListInv' /\ visited = Linked /\ dropped = {}
    BY <1>6, WalkKeeps, Zenon
  <2>2. covered' = visited /\ Linked' \cup dropped' = Linked \cup dropped
    BY <1>6, SameTable, Zenon DEF WalkUnlock, heapVars
  <2>. QED
    BY <2>1, <2>2, Zenon
<1>7. ASSUME RemoveMatch \/ FreeFirst
      PROVE  ListInv' /\ Linked' \cup dropped' = Linked \cup dropped /\ covered' = covered
  BY <1>7, RemoveMatchKeeps, FreeFirstKeeps, Zenon DEF RemoveMatch, FreeFirst
<1>8. ASSUME \/ AddError \/ RemoveSkip \/ FreeLock
             \/ \E k \in Keys : RemoveLock(k)
             \/ \E r \in Readers : WalkLock(r) \/ WalkNext(r)
      PROVE  ListInv' /\ Linked' \cup dropped' = Linked \cup dropped /\ covered' = covered
  <2>1. UNCHANGED <<key, list, dropped, covered>>
    BY <1>8, Zenon DEF AddError, RemoveSkip, FreeLock, RemoveLock, WalkLock, WalkNext, heapVars, auxVars
  <2>2. ListInv'
    BY <1>8, AddErrorKeeps, RemoveSkipKeeps, FreeEndsKeep, RemoveLockKeeps, WalkKeeps, Zenon
  <2>. QED
    BY <2>1, <2>2, SameTable, Zenon
<1>9. ASSUME UNCHANGED vars
      PROVE  ListInv' /\ Linked' \cup dropped' = Linked \cup dropped /\ covered' = covered
  <2>1. ListInv'
    <3>. USE <1>9 DEF vars, heapVars, auxVars, ListInv
    <3>1. TypeOK'
      BY Zenon DEF TypeOK
    <3>2. ChainInv' /\ EndsInv'
      BY Zenon DEF ChainInv, EndsInv
    <3>3. HeapInv' /\ RemoveInv'
      BY Zenon DEF HeapInv, RemoveInv, Cells
    <3>4. WalkInv' /\ IdleInv'
      BY Zenon DEF WalkInv, IdleInv, Entry
    <3>. QED
      BY <3>1, <3>2, <3>3, <3>4, Zenon
  <2>. QED
    BY <1>9, <2>1, SameTable, Zenon DEF vars, heapVars, auxVars
<1>. QED
  BY <1>1, <1>2, <1>3, <1>4, <1>5, <1>6, <1>7, <1>8, <1>9, Zenon DEF Next, Remove, Free, Walk

\* The inductive invariant of the list.
THEOREM ListInvariant == Spec => []ListInv
<1>1. Init => ListInv
  BY InitEstablishes, Zenon
<1>2. ListInv /\ [Next]_vars => ListInv'
  BY StepRefines, Zenon
<1>. QED
  BY <1>1, <1>2, PTL DEF Spec

\* conmgr.c's list implements the connection table: registering, removing,
\* walking and freeing have the effect ConTable promises, as one step each.
THEOREM ListImplementsTable == Spec => TableSpec
<1>1. Init => ListInv /\ Table!Init
  BY InitEstablishes DEF Init, Table!Init, Linked
<1>2. ListInv /\ [Next]_vars => ListInv' /\ [Table!Next]_<<Linked \cup dropped, covered>>
  BY StepRefines, Zenon
<1>. QED
  BY <1>1, <1>2, PTL DEF Spec, TableSpec, Table!Spec

\* A set of naturals has a least element.
LEMMA LeastNat ==
    ASSUME NEW T \in SUBSET Nat, T # {}
    PROVE  \E x \in T : \A y \in T : x <= y
<1>. DEFINE R == OpToRel(<, Nat)
<1>1. IsWellFoundedOn(R, Nat)
  BY NatLessThanWellFounded, Zenon
<1>2. \A x, y \in Nat : y < x => <<y, x>> \in R
  BY Zenon DEF OpToRel
<1>. HIDE DEF R
<1>3. PICK x \in T : \A y \in T : ~(<<y, x>> \in R)
  BY <1>1, WFMin, Zenon
<1>4. \A y \in T : ~(y < x)
  BY <1>2, <1>3, Zenon
<1>5. \A y \in T : x <= y
  BY <1>4
<1>. QED
  BY <1>5, Zenon

\* What a thread can reach from con_tbl_head is the chain.
LEMMA ReachableIsCells ==
    ASSUME ListInv, head # NULL
    PROVE  Reachable = Cells
<1>. USE DEF ListInv
<1>1. Len(list) \in Nat /\ Len(list) > 0 /\ list[1] = head /\ \A i \in 1..Len(list) : list[i] \in Nodes
  BY DEF EndsInv, TypeOK
<1>2. ASSUME NEW n \in Reachable PROVE n \in Cells
  <2>1. Cells \in SUBSET Nodes /\ head \in Cells
    BY <1>1 DEF Cells
  <2>2. \A m \in Cells : next[m] # NULL => next[m] \in Cells
    BY <1>1 DEF Cells, ChainInv
  <2>. QED
    BY <1>2, <2>1, <2>2, Zenon DEF Reachable
<1>3. ASSUME NEW n \in Cells PROVE n \in Reachable
  <2>. SUFFICES ASSUME NEW S \in SUBSET Nodes, head \in S,
                       \A m \in S : next[m] # NULL => next[m] \in S
                PROVE  Cells \subseteq S
    BY <1>1, <1>3, Zenon DEF Reachable, Cells
  <2>. DEFINE T == { i \in 1..Len(list) : list[i] \notin S }
  <2>1. CASE T = {}
    BY <2>1, Zenon DEF Cells
  <2>2. CASE T # {}
    <3>1. PICK i \in T : \A j \in T : i <= j
      <4>1. T \in SUBSET Nat
        BY <1>1
      <4>. HIDE DEF T
      <4>. QED
        BY <4>1, <2>2, LeastNat, Zenon
    <3>2. i \in 2..Len(list) /\ list[i] \notin S
      BY <3>1, <1>1
    <3>3. i - 1 \in 1..Len(list) /\ list[i - 1] \in S /\ i - 1 # Len(list)
      BY <3>1, <3>2, <1>1
    <3>4. next[list[i - 1]] = list[i]
      BY <3>2, <3>3 DEF ChainInv
    <3>5. list[i] # NULL
      BY <3>2, <1>1, ListAssumption, Zenon
    <3>. QED
      BY <3>2, <3>3, <3>4, <3>5, Zenon
  <2>. QED
    BY <2>1, <2>2, Zenon
<1>. QED
  BY <1>2, <1>3, Zenon

\* add_connection() never links behind a cell that was removed.
THEOREM TailStaysLast == Spec => []TailIsLast
<1>1. ListInv => TailIsLast
  <2>. SUFFICES ASSUME ListInv, mutex = Nobody, head # NULL
                PROVE  tail \in Reachable /\ next[tail] = NULL
    BY Zenon DEF TailIsLast
  <2>1. Len(list) \in Nat /\ Len(list) > 0 /\ tail = list[Len(list)]
    BY DEF ListInv, EndsInv, RemoveInv, TypeOK, Nobody
  <2>2. tail \in Cells /\ next[tail] = NULL
    BY <2>1 DEF Cells, ListInv, ChainInv
  <2>. QED
    BY <2>2, ReachableIsCells, Zenon
<1>. QED
  BY <1>1, ListInvariant, PTL

\* No loop over the table follows a pointer to a freed connection.
THEOREM PointersStayLive == Spec => []NoUseAfterFree
<1>1. ListInv => NoUseAfterFree
  <2>. SUFFICES ASSUME ListInv PROVE NoUseAfterFree
    BY Zenon
  <2>. USE DEF ListInv
  <2>1. Len(list) \in Nat /\ Cells \subseteq alive
    BY DEF TypeOK, HeapInv
  <2>2. head # NULL => head \in alive /\ (conmgr # "free" => tail \in alive)
    BY <2>1 DEF EndsInv, Cells
  <2>3. conmgr = "remove" => pred \in alive /\ (curr # NULL => curr \in alive)
    BY <2>1 DEF RemoveInv, ChainInv, Cells
  <2>4. mutex \in Readers /\ curr # NULL => curr \in alive
    BY <2>1 DEF WalkInv, Cells
  <2>5. mutex # Nobody /\ conmgr # "free" => conmgr = "remove" \/ mutex \in Readers
    BY Zenon DEF RemoveInv, TypeOK
  <2>. QED
    BY <2>2, <2>3, <2>4, <2>5, Zenon DEF NoUseAfterFree
<1>. QED
  BY <1>1, ListInvariant, PTL

\* Removal and exit free everything that add_connection() allocated.
THEOREM NothingLeaks == Spec => []NoLeak
<1>1. ListInv => NoLeak
  <2>. SUFFICES ASSUME ListInv
                PROVE  alive = (IF head = NULL THEN {} ELSE Reachable) \cup ({conn} \ {NULL})
    BY Zenon DEF NoLeak
  <2>1. CASE head = NULL
    <3>1. Cells = {}
      BY <2>1 DEF ListInv, EndsInv, Cells
    <3>. QED
      BY <2>1, <3>1, Zenon DEF ListInv, HeapInv
  <2>2. CASE head # NULL
    BY <2>2, ReachableIsCells, Zenon DEF ListInv, HeapInv
  <2>. QED
    BY <2>1, <2>2, Zenon
<1>. QED
  BY <1>1, ListInvariant, PTL

\* Every pointer of the table is NULL or a node, freed or not.
THEOREM ListTypes == Spec => []TypeOK
<1>1. ListInv => TypeOK
  BY Zenon DEF ListInv
<1>. QED
  BY <1>1, ListInvariant, PTL
=============================================================================
