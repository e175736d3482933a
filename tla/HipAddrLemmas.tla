--------------------------- MODULE HipAddrLemmas ----------------------------
(***************************************************************************)
(* Lemmas for the proofs about the HIP daemon: the list operators of       *)
(* HipAddr, and what the notification of an address does to one            *)
(* association (association_add_address(), association_del_address()).     *)
(***************************************************************************)
EXTENDS HipAddr, FiniteSetTheorems, WellFoundedInduction, TLAPS

-----------------------------------------------------------------------------
(***************************************************************************)
(* Lists.                                                                  *)
(***************************************************************************)
\* A nonempty set of natural numbers has a least element.
LEMMA LeastNat ==
    ASSUME NEW T, T \subseteq Nat, T # {}
    PROVE  \E n \in T : \A m \in T : n <= m
<1>1. PICK n \in T : \A m \in T : ~(<<m, n>> \in OpToRel(<, Nat))
  BY NatLessThanWellFounded, WFMin, Zenon
<1>2. \A m \in T : ~(m < n)
  BY <1>1, Zenon DEF OpToRel
<1>. QED
  BY <1>2

\* The walk along a list stops at the first position of S, or at none.
LEMMA FirstFacts ==
    ASSUME NEW S, S \subseteq Nat \ {0}
    PROVE  /\ First(S) \in Nat
           /\ First(S) = 0 <=> S = {}
           /\ First(S) # 0 => First(S) \in S
           /\ \A j \in S : First(S) <= j
<1>1. CASE S = {}
  BY <1>1, Zenon DEF First
<1>2. CASE S # {}
  <2>1. \E i \in S : \A j \in S : i <= j
    BY <1>2, LeastNat, Zenon
  <2>2. First(S) \in S /\ \A j \in S : First(S) <= j
    BY <2>1, <1>2, Zenon DEF First
  <2>. QED
    BY <2>2, <1>2, Zenon
<1>. QED
  BY <1>1, <1>2, Zenon

\* Taking one entry out of a list (delete_address_entry_from_list()).
LEMMA WithoutFacts ==
    ASSUME NEW T, NEW l \in Seq(T), NEW i \in 1..Len(l)
    PROVE  /\ Without(l, i) \in Seq(T)
           /\ Len(Without(l, i)) = Len(l) - 1
           /\ \A j \in 1..(Len(l) - 1) : Without(l, i)[j] = IF j < i THEN l[j] ELSE l[j + 1]
<1>1. Len(l) - 1 \in Nat
  OBVIOUS
<1>2. \A j \in 1..(Len(l) - 1) : (IF j < i THEN l[j] ELSE l[j + 1]) \in T
  OBVIOUS
<1>. QED
  BY <1>1, <1>2 DEF Without

\* The entries of q are those of l at the positions S, each once.
Selects(l, S, q) ==
    \E g \in Bijection(1..Len(q), S) : \A k \in 1..Len(q) : q[k] = l[g[k]]

\* What delete_address_from_list() leaves are the entries at the positions that
\* stay, each once.
LEMMA KeptFacts ==
    ASSUME NEW T, NEW l \in Seq(T), NEW S, S \subseteq 1..Len(l)
    PROVE  Kept(l, S) \in Seq(T) /\ Selects(l, S, Kept(l, S))
<1>. DEFINE n == Cardinality(S)
            Upto(i) == { j \in S : j <= i }
            rank == [i \in S |-> Cardinality(Upto(i))]
            g == [k \in 1..n |-> CHOOSE i \in S : Cardinality(Upto(i)) = k]
<1>1. IsFiniteSet(S) /\ n \in Nat
  <2>1. IsFiniteSet(1..Len(l))
    BY FS_Interval
  <2>. QED
    BY <2>1, FS_Subset, FS_CardinalityType, Zenon
<1>2. ASSUME NEW i \in S PROVE IsFiniteSet(Upto(i)) /\ rank[i] \in 1..n
  <2>1. IsFiniteSet(Upto(i)) /\ Cardinality(Upto(i)) <= n
    BY <1>1, FS_Subset, Zenon
  <2>2. Cardinality(Upto(i)) \in Nat /\ Upto(i) # {}
    BY <2>1, FS_CardinalityType
  <2>3. Cardinality(Upto(i)) # 0
    BY <2>1, <2>2, FS_EmptySet, Zenon
  <2>. QED
    BY <2>1, <2>2, <2>3, <1>1
<1>3. ASSUME NEW i \in S, NEW j \in S, i < j PROVE rank[i] # rank[j]
  <2>1. i \in Nat /\ j \in Nat /\ S \subseteq Nat
    OBVIOUS
  <2>3. Upto(i) \subseteq Upto(j) /\ j \notin Upto(i) /\ j \in Upto(j)
    <3>1. \A k \in S : k <= i => k <= j
      BY <1>3, <2>1
    <3>2. ~(j <= i) /\ j <= j
      BY <1>3, <2>1
    <3>. QED
      BY <3>1, <3>2, Zenon
  <2>2. Cardinality(Upto(i)) # Cardinality(Upto(j))
    BY <2>3, <1>2, FS_Subset, Zenon
  <2>. QED
    BY <2>2, Zenon
<1>4. rank \in Injection(S, 1..n)
  <2>1. rank \in [S -> 1..n]
    BY <1>2, Zenon
  <2>2. ASSUME NEW i \in S, NEW j \in S, rank[i] = rank[j] PROVE i = j
    <3>1. i \in Nat /\ j \in Nat
      OBVIOUS
    <3>2. ~(i < j) /\ ~(j < i)
      BY <1>3, <2>2, Zenon
    <3>. QED
      BY <3>1, <3>2
  <2>. QED
    BY <2>1, <2>2, Zenon DEF Injection, IsInjective
<1>5. rank \in Surjection(S, 1..n)
  <2>1. IsFiniteSet(1..n) /\ Cardinality(1..n) = n
    BY <1>1, FS_Interval
  <2>. QED
    BY <2>1, <1>4, FS_Injection, Zenon
<1>6. ASSUME NEW k \in 1..n PROVE g[k] \in S /\ rank[g[k]] = k
  <2>1. \E i \in S : rank[i] = k
    BY <1>5, Zenon DEF Surjection
  <2>2. \E i \in S : Cardinality(Upto(i)) = k
    BY <2>1, Zenon
  <2>. QED
    BY <2>2, Zenon
<1>7. g \in Bijection(1..n, S)
  <2>1. g \in [1..n -> S]
    BY <1>6, Zenon
  <2>2. \A j, k \in 1..n : g[j] = g[k] => j = k
    BY <1>6, Zenon
  <2>3. ASSUME NEW i \in S PROVE \E k \in 1..n : g[k] = i
    <3>1. rank[i] \in 1..n
      BY <1>2, Zenon
    <3>2. g[rank[i]] \in S /\ rank[g[rank[i]]] = rank[i]
      BY <3>1, <1>6, Zenon
    <3>3. g[rank[i]] = i
      BY <3>2, <1>4, Zenon DEF Injection, IsInjective
    <3>. QED
      BY <3>1, <3>3, Zenon
  <2>. QED
    BY <2>1, <2>2, <2>3, Zenon DEF Bijection, Injection, IsInjective, Surjection
<1>8. Kept(l, S) = [k \in 1..n |-> l[g[k]]]
  BY DEF Kept
<1>. HIDE DEF g, n, rank
<1>9. \A k \in 1..n : l[g[k]] \in T
  <2>1. \A k \in 1..n : g[k] \in 1..Len(l)
    BY <1>6, Zenon
  <2>2. \A i \in 1..Len(l) : l[i] \in T
    OBVIOUS
  <2>. QED
    BY <2>1, <2>2, Zenon
<1>10. Kept(l, S) \in Seq(T) /\ Len(Kept(l, S)) = n
  BY <1>8, <1>9, <1>1
<1>11. \A k \in 1..n : Kept(l, S)[k] = l[g[k]]
  BY <1>8, Zenon
<1>. QED
  BY <1>7, <1>10, <1>11, Zenon DEF Selects

-----------------------------------------------------------------------------
(***************************************************************************)
(* What a notification does to one association.                            *)
(***************************************************************************)
Assoc == [state : States, addrs : Seq(Entry)]

\* r is l with another entry at k.
Replaced(l, r, k, e) ==
    /\ Len(r) = Len(l)
    /\ \A i \in 1..Len(l) : r[i] = IF i = k THEN e ELSE l[i]

Deleted(e) == [addr |-> e.addr, if_index |-> e.if_index, status |-> "DELETED"]
Undeleted(e) == [addr |-> e.addr, if_index |-> e.if_index, status |-> "USABLE"]

\* Replacing an entry of a list.
LEMMA ReplaceFacts ==
    ASSUME NEW l \in Seq(Entry), NEW k \in 1..Len(l), NEW e \in Entry
    PROVE  [l EXCEPT ![k] = e] \in Seq(Entry) /\ Replaced(l, [l EXCEPT ![k] = e], k, e)
  BY DEF Replaced

\* The entries the model writes are entries.
LEMMA EntryTypes ==
    /\ \A a \in Addrs : UsableEntry(a) \in Entry /\ IfOf[a] \in Ifaces
    /\ \A a \in Addrs, i \in Ifaces : [addr |-> a, if_index |-> i, status |-> "USABLE"] \in Entry
    /\ \A e \in Entry : Deleted(e) \in Entry /\ Undeleted(e) \in Entry /\ e.addr \in Addrs
                        /\ e.if_index \in Ifaces /\ e.status \in {"USABLE", "DELETED"}
  BY Zenon DEF UsableEntry, Entry, Ifaces, Deleted, Undeleted

\* readdress_association() replaces the source of an established association.
LEMMA ReaddressFacts ==
    ASSUME NEW h \in Assoc, h.addrs # <<>>, NEW a \in Addrs, NEW if \in Ifaces
    PROVE  /\ Readdress(h, a, if) \in Assoc
           /\ Readdress(h, a, if).state = h.state
           /\ h.state # "ESTABLISHED" => Readdress(h, a, if) = h
           /\ h.state = "ESTABLISHED" =>
                 Replaced(h.addrs, Readdress(h, a, if).addrs, 1,
                          [addr |-> a, if_index |-> if, status |-> "USABLE"])
<1>. DEFINE e == [addr |-> a, if_index |-> if, status |-> "USABLE"]
<1>1. h.addrs \in Seq(Entry) /\ h.state \in States /\ 1 \in 1..Len(h.addrs)
  BY DEF Assoc
<1>2. [h.addrs EXCEPT ![1] = e] \in Seq(Entry) /\ Replaced(h.addrs, [h.addrs EXCEPT ![1] = e], 1, e)
  BY <1>1, ReplaceFacts, EntryTypes, Zenon
<1>3. h = [state |-> h.state, addrs |-> h.addrs]
  BY Zenon DEF Assoc
<1>4. CASE h.state # "ESTABLISHED"
  BY <1>4, Zenon DEF Readdress
<1>5. CASE h.state = "ESTABLISHED"
  <2>1. Readdress(h, a, if) = [state |-> h.state, addrs |-> [h.addrs EXCEPT ![1] = e]]
    BY <1>3, <1>5, Zenon DEF Readdress, Assoc
  <2>. QED
    BY <2>1, <1>1, <1>2, <1>5 DEF Assoc
<1>. QED
  BY <1>4, <1>5, Zenon

\* add_address_to_list() on the list of an association: the first entry with
\* address and interface becomes usable, or one is appended.
LEMMA AddToListFacts ==
    ASSUME NEW l \in Seq(Entry), NEW a \in Addrs
    PROVE  /\ AddToList(l, a) \in Seq(Entry) /\ Len(AddToList(l, a)) >= Len(l)
           /\ \/ \E k \in 1..Len(l) :
                    /\ l[k].addr = a
                    /\ \A i \in 1..(k - 1) : l[i].addr # a \/ l[i].if_index # IfOf[a]
                    /\ Replaced(l, AddToList(l, a), k, UsableEntry(a))
              \/ /\ \A i \in 1..Len(l) : l[i].addr # a \/ l[i].if_index # IfOf[a]
                 /\ AddToList(l, a) = Append(l, UsableEntry(a))
<1>. DEFINE S == { j \in DOMAIN l : l[j].addr = a /\ l[j].if_index = IfOf[a] }
<1>1. S \subseteq 1..Len(l) /\ S \subseteq Nat \ {0}
  OBVIOUS
<1>2. UsableEntry(a) \in Entry
  BY EntryTypes, Zenon
<1>3. CASE First(S) = 0
  <2>1. S = {}
    BY <1>1, <1>3, FirstFacts, Zenon
  <2>2. AddToList(l, a) = Append(l, UsableEntry(a))
    BY <1>3 DEF AddToList
  <2>. QED
    BY <2>1, <2>2, <1>2
<1>4. CASE First(S) # 0
  <2>1. First(S) \in S /\ First(S) \in Nat /\ \A j \in S : First(S) <= j
    BY <1>1, <1>4, FirstFacts, Zenon
  <2>. DEFINE k == First(S)
  <2>2. AddToList(l, a) = [l EXCEPT ![k] = UsableEntry(a)]
    BY <1>4, <2>1 DEF AddToList
  <2>3. k \in 1..Len(l) /\ l[k].addr = a
    BY <2>1, <1>1, Zenon
  <2>4. ASSUME NEW i \in 1..(k - 1) PROVE l[i].addr # a \/ l[i].if_index # IfOf[a]
    <3>1. i \in DOMAIN l /\ ~(k <= i)
      BY <2>1, <2>3
    <3>. QED
      BY <3>1, <2>1, Zenon
  <2>. HIDE DEF k
  <2>5. AddToList(l, a) \in Seq(Entry) /\ Replaced(l, AddToList(l, a), k, UsableEntry(a))
    <3>1. k \in 1..Len(l)
      BY <2>3, Zenon
    <3>2. /\ [l EXCEPT ![k] = UsableEntry(a)] \in Seq(Entry)
          /\ Replaced(l, [l EXCEPT ![k] = UsableEntry(a)], k, UsableEntry(a))
      BY <3>1, <1>2, ReplaceFacts, Zenon
    <3>. QED
      BY <2>2, <3>2, Zenon
  <2>6. Len(AddToList(l, a)) >= Len(l)
    BY <2>5 DEF Replaced
  <2>. QED
    BY <2>3, <2>4, <2>5, <2>6, Zenon
<1>. QED
  BY <1>3, <1>4, Zenon

\* association_add_address(), by the state of the source address.
LEMMA AddEffect ==
    ASSUME NEW h \in Assoc, h.addrs # <<>>, NEW a \in Addrs
    PROVE  LET l == h.addrs
               r == AssociationAddAddress(h, a).addrs IN
           /\ AssociationAddAddress(h, a) \in Assoc
           /\ AssociationAddAddress(h, a).state = h.state
           /\ r # <<>>
           /\ \/ /\ l[1].status = "DELETED" /\ l[1].addr = a
                 /\ Replaced(l, r, 1, Undeleted(l[1]))
              \/ /\ l[1].status = "DELETED" /\ l[1].addr # a /\ h.state = "ESTABLISHED"
                 /\ Replaced(l, r, 1, UsableEntry(a))
              \/ /\ l[1].status = "DELETED" /\ l[1].addr # a /\ h.state # "ESTABLISHED"
                 /\ r = l
              \/ l[1].status # "DELETED" /\ r = AddToList(l, a)
<1>. DEFINE l == h.addrs
            R == AssociationAddAddress(h, a)
<1>1. l \in Seq(Entry) /\ h.state \in States /\ 1 \in 1..Len(l) /\ l[1] \in Entry
  BY DEF Assoc
<1>2. h = [state |-> h.state, addrs |-> h.addrs]
  BY Zenon DEF Assoc
<1>3. CASE l[1].status = "DELETED" /\ l[1].addr = a
  <2>1. R = [state |-> h.state, addrs |-> [l EXCEPT ![1] = [l[1] EXCEPT !.status = "USABLE"]]]
    BY <1>2, <1>3, Zenon DEF AssociationAddAddress, Assoc
  <2>2. [l[1] EXCEPT !.status = "USABLE"] = Undeleted(l[1])
    BY <1>1 DEF Undeleted, Entry
  <2>3. [l EXCEPT ![1] = Undeleted(l[1])] \in Seq(Entry)
        /\ Replaced(l, [l EXCEPT ![1] = Undeleted(l[1])], 1, Undeleted(l[1]))
    BY <1>1, EntryTypes, ReplaceFacts, Zenon
  <2>. HIDE DEF l
  <2>. QED
    <3>. DEFINE q == [l EXCEPT ![1] = Undeleted(l[1])]
    <3>1. q \in Seq(Entry) /\ Replaced(l, q, 1, Undeleted(l[1])) /\ q # <<>>
      BY <2>3, <1>1 DEF Replaced
    <3>2. R = [state |-> h.state, addrs |-> q]
      BY <2>1, <2>2, Zenon
    <3>. HIDE DEF q, R
    <3>3. R.addrs = q /\ R.state = h.state /\ R \in Assoc
      BY <3>1, <3>2, <1>1, Zenon DEF Assoc
    <3>. QED
      BY <3>1, <3>3, <1>3, Zenon DEF R, l
<1>4. CASE l[1].status = "DELETED" /\ l[1].addr # a
  <2>1. R = Readdress(h, a, IfOf[a])
    BY <1>4, Zenon DEF AssociationAddAddress
  <2>2. IfOf[a] \in Ifaces
    BY EntryTypes, Zenon
  <2>3. CASE h.state = "ESTABLISHED"
    <3>1. R \in Assoc /\ R.state = h.state /\ Replaced(l, R.addrs, 1, UsableEntry(a))
      BY <2>1, <2>2, <2>3, ReaddressFacts DEF UsableEntry
    <3>. QED
      BY <3>1, <1>1, <1>4, <2>3 DEF Replaced, Assoc
  <2>4. CASE h.state # "ESTABLISHED"
    BY <2>1, <2>2, <2>4, <1>4, ReaddressFacts, Zenon
  <2>. QED
    BY <2>3, <2>4, Zenon
<1>5. CASE l[1].status # "DELETED"
  <2>1. R = [state |-> h.state, addrs |-> AddToList(l, a)]
    BY <1>2, <1>5, Zenon DEF AssociationAddAddress, Assoc
  <2>2. AddToList(l, a) \in Seq(Entry) /\ AddToList(l, a) # <<>>
    BY <1>1, AddToListFacts
  <2>. QED
    BY <2>1, <2>2, <1>1, <1>5 DEF Assoc
<1>. QED
  BY <1>3, <1>4, <1>5, Zenon

\* Where association_del_address() finds the address, and its mark there.
LEMMA MarkedFacts ==
    ASSUME NEW h \in Assoc, NEW x \in Addrs
    PROVE  LET l == h.addrs
               k == Position(h, x) IN
           /\ k = 0 => \A i \in 1..Len(l) : l[i].addr # x
           /\ k # 0 => /\ k \in 1..Len(l) /\ l[k].addr = x
                       /\ \A i \in 1..(k - 1) : l[i].addr # x
                       /\ Marked(h, x) \in Assoc /\ Marked(h, x).state = h.state
                       /\ Replaced(l, Marked(h, x).addrs, k, Deleted(l[k]))
<1>. DEFINE l == h.addrs
            k == Position(h, x)
            S == { i \in DOMAIN l : l[i].addr = x }
<1>1. l \in Seq(Entry) /\ h.state \in States /\ DOMAIN l = 1..Len(l)
  BY DEF Assoc
<1>2. S \subseteq 1..Len(l) /\ S \subseteq Nat \ {0} /\ k = First(S)
  BY <1>1 DEF Position
<1>3. CASE k = 0
  <2>1. S = {}
    BY <1>2, <1>3, FirstFacts, Zenon
  <2>. QED
    BY <2>1, <1>1, <1>3, Zenon
<1>4. CASE k # 0
  <2>1. k \in S /\ k \in Nat /\ \A j \in S : k <= j
    <3>1. First(S) # 0
      BY <1>2, <1>4, Zenon
    <3>2. First(S) \in S /\ First(S) \in Nat /\ \A j \in S : First(S) <= j
      BY <1>2, <3>1, FirstFacts, Zenon
    <3>. QED
      BY <1>2, <3>2, Zenon
  <2>2. k \in 1..Len(l) /\ l[k].addr = x
    BY <2>1, <1>2, Zenon
  <2>3. ASSUME NEW i \in 1..(k - 1) PROVE l[i].addr # x
    <3>1. i \in 1..Len(l) /\ ~(k <= i)
      BY <2>1, <2>2
    <3>2. DOMAIN l = 1..Len(l)
      BY <1>1, Zenon
    <3>. QED
      BY <3>1, <3>2, <2>1, Zenon
  <2>4. l[k] \in Entry
    BY <2>2, <1>1
  <2>5. h = [state |-> h.state, addrs |-> h.addrs]
    BY Zenon DEF Assoc
  <2>. DEFINE q == [l EXCEPT ![k] = Deleted(l[k])]
  <2>6. Marked(h, x) = [state |-> h.state, addrs |-> q]
    <3>1. [l[k] EXCEPT !.status = "DELETED"] = Deleted(l[k])
      BY <2>4 DEF Deleted, Entry
    <3>2. Marked(h, x) = [state |-> h.state, addrs |-> [l EXCEPT ![k] = [l[k] EXCEPT !.status = "DELETED"]]]
      BY <2>5 DEF Marked, Assoc
    <3>. QED
      BY <3>1, <3>2, Zenon
  <2>7. q \in Seq(Entry) /\ Replaced(l, q, k, Deleted(l[k]))
    BY <1>1, <2>2, <2>4, EntryTypes, ReplaceFacts, Zenon
  <2>. HIDE DEF q, k
  <2>8. Marked(h, x) \in Assoc /\ Marked(h, x).state = h.state /\ Marked(h, x).addrs = q
    BY <2>6, <2>7, <1>1 DEF Assoc
  <2>. QED
    BY <1>4, <2>2, <2>3, <2>7, <2>8, Zenon DEF k
<1>. QED
  BY <1>3, <1>4, Zenon

\* An entry other than the source is taken out of the list.
LEMMA TakenFacts ==
    ASSUME NEW h \in Assoc, NEW k \in 2..Len(h.addrs)
    PROVE  LET R == [h EXCEPT !.addrs = Without(@, k)] IN
           /\ R \in Assoc /\ R.state = h.state /\ R.addrs # <<>>
           /\ Len(R.addrs) = Len(h.addrs) - 1
           /\ R.addrs[1] = h.addrs[1]
           /\ \A j \in 2..(Len(h.addrs) - 1) :
                 R.addrs[j] = IF j < k THEN h.addrs[j] ELSE h.addrs[j + 1]
<1>. DEFINE R == [h EXCEPT !.addrs = Without(@, k)]
            w == Without(h.addrs, k)
<1>1. h.addrs \in Seq(Entry) /\ h.state \in States /\ k \in 1..Len(h.addrs) /\ Len(h.addrs) \in Nat
  BY DEF Assoc
<1>2. /\ w \in Seq(Entry) /\ Len(w) = Len(h.addrs) - 1
      /\ \A j \in 1..(Len(h.addrs) - 1) : w[j] = IF j < k THEN h.addrs[j] ELSE h.addrs[j + 1]
  BY <1>1, WithoutFacts, Zenon
<1>. HIDE DEF w
<1>3. R.addrs = w /\ R.state = h.state /\ R \in Assoc
  BY <1>1, <1>2, Zenon DEF Assoc, w
<1>4. w # <<>> /\ w[1] = h.addrs[1]
  BY <1>1, <1>2
<1>5. \A j \in 2..(Len(h.addrs) - 1) : w[j] = IF j < k THEN h.addrs[j] ELSE h.addrs[j + 1]
  BY <1>1, <1>2
<1>. HIDE DEF R
<1>. QED
  BY <1>2, <1>3, <1>4, <1>5, Zenon DEF R

\* k is the first usable entry of x's family, or a usable one of another.
FirstSame(l, x, k) ==
    /\ k \in 1..Len(l) /\ l[k].status # "DELETED" /\ FamilyOf[l[k].addr] = FamilyOf[x]
    /\ \A j \in 1..Len(l) : l[j].status # "DELETED" /\ FamilyOf[l[j].addr] = FamilyOf[x] => k <= j

NoneSame(l, x) ==
    \A j \in 1..Len(l) : ~(l[j].status # "DELETED" /\ FamilyOf[l[j].addr] = FamilyOf[x])

OfOther(l, x, k) ==
    k \in 1..Len(l) /\ l[k].status # "DELETED" /\ FamilyOf[l[k].addr] # FamilyOf[x]

\* The first usable entry of (not of) a family.
LEMMA FamilyFacts ==
    ASSUME NEW l \in Seq(Entry), NEW x
    PROVE  /\ SameFamily(l, x) \in Nat /\ OtherFamily(l, x) \in Nat
           /\ SameFamily(l, x) # 0 => FirstSame(l, x, SameFamily(l, x))
           /\ SameFamily(l, x) = 0 => NoneSame(l, x)
           /\ OtherFamily(l, x) # 0 => OfOther(l, x, OtherFamily(l, x))
<1>. DEFINE S == { i \in DOMAIN l : l[i].status # "DELETED" /\ FamilyOf[l[i].addr] = FamilyOf[x] }
            T == { i \in DOMAIN l : l[i].status # "DELETED" /\ FamilyOf[l[i].addr] # FamilyOf[x] }
<1>1. DOMAIN l = 1..Len(l) /\ 1..Len(l) \subseteq Nat \ {0}
  OBVIOUS
<1>2. S \subseteq Nat \ {0} /\ T \subseteq Nat \ {0}
  BY <1>1, Zenon
<1>3. SameFamily(l, x) = First(S) /\ OtherFamily(l, x) = First(T)
  BY Zenon DEF SameFamily, OtherFamily
<1>4. /\ First(S) \in Nat /\ (First(S) = 0 <=> S = {}) /\ (First(S) # 0 => First(S) \in S)
      /\ \A j \in S : First(S) <= j
  BY <1>2, FirstFacts, Zenon
<1>5. First(T) \in Nat /\ (First(T) # 0 => First(T) \in T)
  BY <1>2, FirstFacts, Zenon
<1>6. First(S) # 0 => FirstSame(l, x, First(S))
  BY <1>1, <1>4, Zenon DEF FirstSame
<1>7. First(S) = 0 => NoneSame(l, x)
  BY <1>1, <1>4, Zenon DEF NoneSame
<1>8. First(T) # 0 => OfOther(l, x, First(T))
  BY <1>1, <1>5, Zenon DEF OfOther
<1>. QED
  BY <1>3, <1>4, <1>5, <1>6, <1>7, <1>8, Zenon

\* A change of family is to an address of mine, and only with a peer address of
\* that family (readdress_association_x2()).
LEMMA SwitchFacts ==
    ASSUME NEW h \in Assoc, h.addrs # <<>>, NEW x \in Addrs, NEW a \in Addrs
    PROVE  /\ SwitchFamily(h, x, a) \in Assoc /\ SwitchFamily(h, x, a).state = h.state
           /\ Len(SwitchFamily(h, x, a).addrs) = Len(h.addrs)
           /\ \/ SwitchFamily(h, x, a) = h
              \/ h.state = "ESTABLISHED" /\ SwitchFamily(h, x, a).addrs[1].addr = a
<1>. DEFINE e == [addr |-> a, if_index |-> IfOf[x], status |-> "USABLE"]
<1>1. CASE FamilyOf[a] \notin PeerFamilies
  BY <1>1, Zenon DEF SwitchFamily
<1>2. CASE FamilyOf[a] \in PeerFamilies
  <2>1. SwitchFamily(h, x, a) = Readdress(h, a, IfOf[x])
    BY <1>2, Zenon DEF SwitchFamily
  <2>2. IfOf[x] \in Ifaces
    BY EntryTypes, Zenon
  <2>3. CASE h.state # "ESTABLISHED"
    BY <2>1, <2>2, <2>3, ReaddressFacts, Zenon
  <2>4. CASE h.state = "ESTABLISHED"
    <3>1. /\ SwitchFamily(h, x, a) \in Assoc /\ SwitchFamily(h, x, a).state = h.state
          /\ Replaced(h.addrs, SwitchFamily(h, x, a).addrs, 1, e)
      BY <2>1, <2>2, <2>4, ReaddressFacts
    <3>2. 1 \in 1..Len(h.addrs)
      BY DEF Assoc
    <3>3. SwitchFamily(h, x, a).addrs[1] = e /\ Len(SwitchFamily(h, x, a).addrs) = Len(h.addrs)
      BY <3>1, <3>2, Zenon DEF Replaced
    <3>. QED
      BY <3>1, <3>3, <2>4
  <2>. QED
    BY <2>3, <2>4, Zenon
<1>. QED
  BY <1>1, <1>2, Zenon

\* The end of association_del_address(), with nothing of the family in the
\* association's own list.
LEMMA FromMineFacts ==
    ASSUME NEW h \in Assoc, h.addrs # <<>>, h.addrs[1].status = "DELETED",
           NEW x \in Addrs, NEW my \in Seq(MyAddr)
    PROVE  LET R == FromMine(h, x, my) IN
           /\ R \in Assoc /\ R.state = h.state /\ R.addrs # <<>>
           /\ \/ R = h
              \/ h.state # "ESTABLISHED"
              \/ FamilyOf[R.addrs[1].addr] # FamilyOf[x]
              \/ \E i \in DOMAIN my : FamilyOf[my[i].addr] = FamilyOf[x]
<1>. DEFINE R == FromMine(h, x, my)
            P == { i \in DOMAIN my : my[i].preferred /\ FamilyOf[my[i].addr] = FamilyOf[x] }
            M == { i \in DOMAIN my : FamilyOf[my[i].addr] # FamilyOf[x] }
            pref == First(P)
            own == OtherFamily(h.addrs, x)
            mine == First(M)
<1>1. h.addrs \in Seq(Entry) /\ Len(h.addrs) \in Nat /\ 1 \in 1..Len(h.addrs)
  BY DEF Assoc
<1>2. DOMAIN my = 1..Len(my) /\ 1..Len(my) \subseteq Nat \ {0}
      /\ \A i \in DOMAIN my : my[i].addr \in Addrs
  <2>1. \A e \in MyAddr : e.addr \in Addrs
    BY Zenon DEF MyAddr
  <2>2. DOMAIN my = 1..Len(my) /\ 1..Len(my) \subseteq Nat \ {0} /\ \A i \in DOMAIN my : my[i] \in MyAddr
    OBVIOUS
  <2>. QED
    BY <2>1, <2>2, Zenon
<1>3. P \subseteq Nat \ {0} /\ M \subseteq Nat \ {0}
  BY <1>2, Zenon
<1>4. /\ pref \in Nat /\ (pref # 0 => pref \in P)
      /\ mine \in Nat /\ (mine # 0 => mine \in M)
  BY <1>3, FirstFacts, Zenon
<1>9. own \in Nat
  BY <1>1, FamilyFacts, Zenon
<1>. HIDE DEF P, M, pref, own, mine
<1>5. CASE pref > 0
  <2>1. pref \in P
    BY <1>4, <1>5
  <2>2. my[pref].addr \in Addrs /\ FamilyOf[my[pref].addr] = FamilyOf[x] /\ pref \in DOMAIN my
    BY <2>1, <1>2, Zenon DEF P
  <2>3. R = Readdress(h, my[pref].addr, IfOf[my[pref].addr])
    BY <1>5 DEF FromMine, pref, P
  <2>4. R \in Assoc /\ R.state = h.state /\ Len(R.addrs) = Len(h.addrs)
    <3>. HIDE DEF R
    <3>1. IfOf[my[pref].addr] \in Ifaces
      BY <2>2, EntryTypes, Zenon
    <3>. QED
      BY <2>2, <2>3, <3>1, ReaddressFacts, Zenon DEF Replaced
  <2>5. R.addrs # <<>>
    BY <2>4, <1>1
  <2>. QED
    BY <2>2, <2>4, <2>5, Zenon
<1>6. CASE pref = 0 /\ own > 0
  <2>. DEFINE entry == h.addrs[own]
              moved == SwitchFamily(h, x, entry.addr)
  <2>1. own # 0
    BY <1>9, <1>6
  <2>2. /\ own \in 1..Len(h.addrs) /\ entry.status # "DELETED"
        /\ FamilyOf[entry.addr] # FamilyOf[x]
    <3>1. OfOther(h.addrs, x, own)
      BY <2>1, <1>1, FamilyFacts, Zenon DEF own
    <3>. QED
      BY <3>1, Zenon DEF OfOther
  <2>3. entry.addr \in Addrs
    <3>1. h.addrs[own] \in Entry
      BY <2>2, <1>1
    <3>. QED
      BY <3>1, EntryTypes, Zenon
  <2>4. CASE FamilyOf[entry.addr] \notin PeerFamilies
    <3>1. R = h
      BY <1>6, <2>4 DEF FromMine, pref, P, own, mine, M
    <3>. QED
      BY <3>1, Zenon
  <2>5. CASE FamilyOf[entry.addr] \in PeerFamilies
    <3>1. R = [moved EXCEPT !.addrs = Without(@, own)]
      BY <1>6, <2>5 DEF FromMine, pref, P, own, mine, M
    <3>2. own \in 2..Len(h.addrs)
      <4>1. own # 1
        BY <2>2, Zenon
      <4>. QED
        BY <4>1, <2>2
    <3>3. /\ moved \in Assoc /\ moved.state = h.state /\ Len(moved.addrs) = Len(h.addrs)
          /\ (moved = h \/ (h.state = "ESTABLISHED" /\ moved.addrs[1].addr = entry.addr))
      BY <2>3, SwitchFacts, Zenon
    <3>. HIDE DEF moved, R
    <3>4. R \in Assoc /\ R.state = h.state /\ R.addrs # <<>> /\ R.addrs[1] = moved.addrs[1]
      BY <3>1, <3>2, <3>3, TakenFacts, Zenon
    <3>5. h.state # "ESTABLISHED" \/ moved.addrs[1].addr = entry.addr
      <4>1. ASSUME h.state = "ESTABLISHED" PROVE moved.addrs[1].addr = entry.addr
        <5>1. moved = Readdress(h, entry.addr, IfOf[x])
          BY <2>5, Zenon DEF SwitchFamily, moved
        <5>2. IfOf[x] \in Ifaces
          BY EntryTypes, Zenon
        <5>3. Replaced(h.addrs, moved.addrs, 1,
                       [addr |-> entry.addr, if_index |-> IfOf[x], status |-> "USABLE"])
          BY <4>1, <5>1, <5>2, <2>3, ReaddressFacts, Zenon
        <5>4. moved.addrs[1] = [addr |-> entry.addr, if_index |-> IfOf[x], status |-> "USABLE"]
          BY <5>3, <1>1, Zenon DEF Replaced
        <5>. QED
          BY <5>4
      <4>. QED
        BY <4>1, Zenon
    <3>. QED
      BY <3>4, <3>5, <2>2, Zenon DEF R
  <2>. QED
    BY <2>4, <2>5, Zenon
<1>7. CASE pref = 0 /\ own = 0 /\ mine > 0
  <2>1. mine \in M
    BY <1>4, <1>7
  <2>2. my[mine].addr \in Addrs /\ FamilyOf[my[mine].addr] # FamilyOf[x]
    BY <2>1, <1>2, Zenon DEF M
  <2>3. R = SwitchFamily(h, x, my[mine].addr)
    BY <1>7 DEF FromMine, pref, P, own, mine, M
  <2>4. /\ R \in Assoc /\ R.state = h.state /\ Len(R.addrs) = Len(h.addrs)
        /\ (R = h \/ R.addrs[1].addr = my[mine].addr)
    <3>. DEFINE b == my[mine].addr
    <3>1. b \in Addrs
      BY <2>2, Zenon
    <3>. HIDE DEF R, b
    <3>2. /\ SwitchFamily(h, x, b) \in Assoc /\ SwitchFamily(h, x, b).state = h.state
          /\ Len(SwitchFamily(h, x, b).addrs) = Len(h.addrs)
          /\ SwitchFamily(h, x, b) = h \/ SwitchFamily(h, x, b).addrs[1].addr = b
      BY <3>1, SwitchFacts, Zenon
    <3>. QED
      BY <2>3, <3>2, Zenon DEF b
  <2>5. R.addrs # <<>>
    BY <2>4, <1>1
  <2>. QED
    BY <2>2, <2>4, <2>5, Zenon
<1>8. CASE pref = 0 /\ own = 0 /\ mine = 0
  <2>1. R = h
    BY <1>8 DEF FromMine, pref, P, own, mine, M
  <2>. QED
    BY <2>1, Zenon
<1>. QED
  BY <1>4, <1>5, <1>6, <1>7, <1>8, <1>9

\* The entry would do in place of the deleted address x.
Suits(l, x, i) == l[i].status # "DELETED" /\ FamilyOf[l[i].addr] = FamilyOf[x]

\* What association_del_address() does to the list of h, by the place of x:
\* nothing when h does not have it,
Absent(h, x, R) == R = h /\ \A i \in 1..Len(h.addrs) : h.addrs[i].addr # x

\* a mark where it is, behind the source;
MarkedBehind(l, x, r) ==
    \E k \in 2..Len(l) : /\ l[k].addr = x /\ \A i \in 1..(k - 1) : l[i].addr # x
                         /\ Replaced(l, r, k, Deleted(l[k]))

\* of the source, a move to the first entry k that suits, which is taken out,
MovedTo(h, x, r) ==
    /\ h.addrs[1].addr = x
    /\ \E k \in 2..Len(h.addrs) :
          /\ Suits(h.addrs, x, k) /\ \A i \in 2..(k - 1) : ~Suits(h.addrs, x, i)
          /\ Len(r) = Len(h.addrs) - 1
          /\ h.state = "ESTABLISHED" => r[1] = Undeleted(h.addrs[k])
          /\ \A j \in 2..(Len(h.addrs) - 1) : r[j] = IF j < k THEN h.addrs[j] ELSE h.addrs[j + 1]

\* or, when none does, a mark, unless another address is found in my.
SourceGone(h, x, my, r) ==
    /\ h.addrs[1].addr = x
    /\ \A i \in 2..Len(h.addrs) : ~Suits(h.addrs, x, i)
    /\ \/ Replaced(h.addrs, r, 1, Deleted(h.addrs[1]))
       \/ h.state # "ESTABLISHED"
       \/ FamilyOf[r[1].addr] # FamilyOf[x]
       \/ \E i \in DOMAIN my : FamilyOf[my[i].addr] = FamilyOf[x]

\* association_del_address() does one of these.
LEMMA DelEffect ==
    ASSUME NEW h \in Assoc, h.addrs # <<>>, NEW x \in Addrs, NEW my \in Seq(MyAddr)
    PROVE  LET R == AssociationDelAddress(h, x, my) IN
           /\ R \in Assoc /\ R.state = h.state /\ R.addrs # <<>>
           /\ \/ Absent(h, x, R)
              \/ MarkedBehind(h.addrs, x, R.addrs)
              \/ MovedTo(h, x, R.addrs)
              \/ SourceGone(h, x, my, R.addrs)
<1>. DEFINE l == h.addrs
            R == AssociationDelAddress(h, x, my)
            m == Marked(h, x)
            pos == Position(h, x)
            same == SameFamily(m.addrs, x)
<1>1. l \in Seq(Entry) /\ Len(l) \in Nat /\ 1 \in 1..Len(l)
  BY DEF Assoc
<1>2. CASE pos = 0
  <2>1. R = h
    BY <1>2 DEF AssociationDelAddress
  <2>2. \A i \in 1..Len(l) : l[i].addr # x
    BY <1>2, MarkedFacts, Zenon
  <2>. QED
    BY <2>1, <2>2, Zenon DEF Absent
<1>3. ASSUME pos # 0
      PROVE  /\ pos \in 1..Len(l) /\ l[pos].addr = x
             /\ \A i \in 1..(pos - 1) : l[i].addr # x
             /\ m \in Assoc /\ m.state = h.state
             /\ Replaced(l, m.addrs, pos, Deleted(l[pos]))
  BY <1>3, MarkedFacts, Zenon
<1>. HIDE DEF m, pos
<1>4. CASE pos > 1
  <2>1. pos # 0 /\ pos \in 2..Len(l)
    BY <1>4, <1>3, <1>1
  <2>2. R = m
    BY <1>4 DEF AssociationDelAddress, m, pos
  <2>3. m.addrs # <<>>
    BY <2>1, <1>1, <1>3 DEF Replaced
  <2>. QED
    BY <2>1, <2>2, <2>3, <1>3, Zenon DEF MarkedBehind
<1>5. CASE pos = 1
  <2>1. /\ l[1].addr = x /\ m \in Assoc /\ m.state = h.state
        /\ Replaced(l, m.addrs, 1, Deleted(l[1]))
    BY <1>3, <1>5
  <2>2. /\ m.addrs \in Seq(Entry) /\ Len(m.addrs) = Len(l) /\ m.addrs # <<>>
        /\ m.addrs[1] = Deleted(l[1]) /\ \A i \in 2..Len(l) : m.addrs[i] = l[i]
    BY <2>1, <1>1 DEF Replaced, Assoc
  <2>3. m.addrs[1].status = "DELETED"
    BY <2>2 DEF Deleted
  <2>4. same \in Nat
    BY <2>2, FamilyFacts, Zenon
  <2>. HIDE DEF same
  <2>5. CASE same > 0
    <3>. DEFINE p == Readdress(m, m.addrs[same].addr, m.addrs[same].if_index)
    <3>1. R = [p EXCEPT !.addrs = Without(@, same)]
      BY <1>5, <2>5 DEF AssociationDelAddress, m, pos, same
    <3>2. /\ same \in 1..Len(m.addrs) /\ m.addrs[same].status # "DELETED"
          /\ FamilyOf[m.addrs[same].addr] = FamilyOf[x]
          /\ \A j \in 1..Len(m.addrs) :
                m.addrs[j].status # "DELETED" /\ FamilyOf[m.addrs[j].addr] = FamilyOf[x] => same <= j
      <4>1. same # 0
        BY <2>5
      <4>2. FirstSame(m.addrs, x, same)
        BY <4>1, <2>2, FamilyFacts, Zenon DEF same
      <4>. QED
        BY <4>2, Zenon DEF FirstSame
    <3>3. same \in 2..Len(l)
      <4>1. same # 1
        BY <2>3, <3>2, Zenon
      <4>. QED
        BY <4>1, <3>2, <2>2
    <3>4. m.addrs[same] = l[same] /\ Suits(l, x, same)
      BY <3>3, <3>2, <2>2, Zenon DEF Suits
    <3>5. ASSUME NEW i \in 2..(same - 1) PROVE ~Suits(l, x, i)
      <4>1. i \in 2..Len(l) /\ i \in 1..Len(m.addrs) /\ ~(same <= i)
        BY <3>3, <2>2, <1>1
      <4>. QED
        BY <4>1, <3>2, <2>2, Zenon DEF Suits
    <3>6. l[same] \in Entry
      BY <3>3, <1>1
    <3>7. l[same].addr \in Addrs /\ l[same].if_index \in Ifaces
      BY <3>6, EntryTypes, Zenon
    <3>8. /\ p \in Assoc /\ p.state = h.state
          /\ h.state # "ESTABLISHED" => p = m
          /\ h.state = "ESTABLISHED" => Replaced(m.addrs, p.addrs, 1, Undeleted(l[same]))
      <4>1. m.addrs[same].addr \in Addrs /\ m.addrs[same].if_index \in Ifaces
        BY <3>4, <3>7, Zenon
      <4>2. Undeleted(l[same]) = [addr |-> m.addrs[same].addr, if_index |-> m.addrs[same].if_index,
                                 status |-> "USABLE"]
        BY <3>4, Zenon DEF Undeleted
      <4>3. /\ p \in Assoc /\ p.state = m.state
            /\ m.state # "ESTABLISHED" => p = m
            /\ m.state = "ESTABLISHED" => Replaced(m.addrs, p.addrs, 1, Undeleted(l[same]))
        BY <4>1, <4>2, <2>1, <2>2, ReaddressFacts, Zenon
      <4>. QED
        BY <4>3, <2>1, Zenon
    <3>. HIDE DEF p, R
    <3>9. Len(p.addrs) = Len(l) /\ \A i \in 2..Len(l) : p.addrs[i] = l[i]
      <4>1. CASE h.state # "ESTABLISHED"
        BY <4>1, <3>8, <2>2, Zenon
      <4>2. CASE h.state = "ESTABLISHED"
        BY <4>2, <3>8, <2>2 DEF Replaced
      <4>. QED
        BY <4>1, <4>2, Zenon
    <3>10. h.state = "ESTABLISHED" => p.addrs[1] = Undeleted(l[same])
      BY <3>8, <2>2, <1>1, Zenon DEF Replaced
    <3>11. /\ R \in Assoc /\ R.state = p.state /\ R.addrs # <<>>
           /\ Len(R.addrs) = Len(l) - 1 /\ R.addrs[1] = p.addrs[1]
           /\ \A j \in 2..(Len(l) - 1) : R.addrs[j] = IF j < same THEN p.addrs[j] ELSE p.addrs[j + 1]
      <4>1. same \in 2..Len(p.addrs) /\ p \in Assoc
        BY <3>3, <3>8, <3>9, Zenon
      <4>2. /\ R \in Assoc /\ R.state = p.state /\ R.addrs # <<>>
            /\ Len(R.addrs) = Len(p.addrs) - 1 /\ R.addrs[1] = p.addrs[1]
            /\ \A j \in 2..(Len(p.addrs) - 1) :
                  R.addrs[j] = IF j < same THEN p.addrs[j] ELSE p.addrs[j + 1]
        BY <4>1, <3>1, TakenFacts, Zenon
      <4>. QED
        BY <4>2, <3>9, Zenon
    <3>12. \A j \in 2..(Len(l) - 1) : R.addrs[j] = IF j < same THEN l[j] ELSE l[j + 1]
      <4>1. \A j \in 2..(Len(l) - 1) : j \in 2..Len(l) /\ j + 1 \in 2..Len(l)
        BY <1>1
      <4>. QED
        BY <4>1, <3>9, <3>11, Zenon
    <3>. QED
      BY <2>1, <3>3, <3>4, <3>5, <3>8, <3>10, <3>11, <3>12, Zenon DEF R, MovedTo
  <2>6. CASE same = 0
    <3>1. R = FromMine(m, x, my)
      BY <1>5, <2>6 DEF AssociationDelAddress, m, pos, same
    <3>2. ASSUME NEW i \in 2..Len(l) PROVE ~Suits(l, x, i)
      <4>1. i \in 1..Len(m.addrs)
        BY <2>2
      <4>3. NoneSame(m.addrs, x)
        BY <2>2, <2>6, FamilyFacts, Zenon DEF same
      <4>2. ~(m.addrs[i].status # "DELETED" /\ FamilyOf[m.addrs[i].addr] = FamilyOf[x])
        BY <4>1, <4>3, Zenon DEF NoneSame
      <4>. QED
        BY <4>2, <2>2, Zenon DEF Suits
    <3>. HIDE DEF R
    <3>3. /\ R \in Assoc /\ R.state = h.state /\ R.addrs # <<>>
          /\ \/ R = m
             \/ h.state # "ESTABLISHED"
             \/ FamilyOf[R.addrs[1].addr] # FamilyOf[x]
             \/ \E i \in DOMAIN my : FamilyOf[my[i].addr] = FamilyOf[x]
      BY <3>1, <2>1, <2>2, <2>3, FromMineFacts
    <3>. QED
      BY <2>1, <3>2, <3>3, Zenon DEF R, SourceGone
  <2>. QED
    BY <2>4, <2>5, <2>6
<1>. QED
  <2>1. pos = 0 \/ pos > 1 \/ pos = 1
    BY <1>3
  <2>. QED
    BY <2>1, <1>2, <1>4, <1>5, Zenon
=============================================================================
