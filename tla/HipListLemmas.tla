--------------------------- MODULE HipListLemmas ----------------------------
(***************************************************************************)
(* The lists of the HIP daemon as a whole: the address list of an          *)
(* association against the addresses of the host (Follows), my_addr_head   *)
(* (Lists), the messages waiting at the netlink socket (Queue) and the     *)
(* table of associations (TableOK), and what the daemon's operations do to *)
(* each of them.                                                           *)
(***************************************************************************)
EXTENDS HipAddrLemmas

-----------------------------------------------------------------------------
(***************************************************************************)
(* The list of an association against my addresses M: its usable entries   *)
(* are the addresses of M, each usable once and at its first place; an     *)
(* entry has the interface of its address; and the source is deleted only  *)
(* when M has nothing of its family.                                       *)
(***************************************************************************)
Follows(l, M) ==
    /\ \A i \in 1..Len(l) : l[i].if_index = IfOf[l[i].addr]
    /\ \A i \in 1..Len(l) : l[i].status # "DELETED" => l[i].addr \in M
    /\ \A a \in M : \E i \in 1..Len(l) : l[i].addr = a /\ l[i].status # "DELETED"
    /\ \A i, j \in 1..Len(l) : i < j /\ l[i].addr = l[j].addr => l[j].status = "DELETED"
    /\ l[1].status = "DELETED" => \A a \in M : FamilyOf[a] # FamilyOf[l[1].addr]

\* An address is added to an association that neither changes family nor is
\* refused a readdressing (association_add_address()).
LEMMA AddFollows ==
    ASSUME NEW h \in Assoc, h.addrs # <<>>, NEW M, NEW a \in Addrs,
           Follows(h.addrs, M),
           ~(h.addrs[1].status = "DELETED" /\ h.addrs[1].addr # a /\ h.state # "ESTABLISHED"),
           FamilyOf[AssociationAddAddress(h, a).addrs[1].addr] = FamilyOf[h.addrs[1].addr]
    PROVE  Follows(AssociationAddAddress(h, a).addrs, M \cup {a})
<1>. DEFINE l == h.addrs
            r == AssociationAddAddress(h, a).addrs
            e == UsableEntry(a)
<1>1. l \in Seq(Entry) /\ Len(l) \in Nat /\ 1 \in 1..Len(l) /\ \A i \in 1..Len(l) : l[i] \in Entry
  BY DEF Assoc
<1>2. /\ \A i \in 1..Len(l) : l[i].if_index = IfOf[l[i].addr]
      /\ \A i \in 1..Len(l) : l[i].status # "DELETED" => l[i].addr \in M
      /\ \A b \in M : \E i \in 1..Len(l) : l[i].addr = b /\ l[i].status # "DELETED"
      /\ \A i, j \in 1..Len(l) : i < j /\ l[i].addr = l[j].addr => l[j].status = "DELETED"
      /\ l[1].status = "DELETED" => \A b \in M : FamilyOf[b] # FamilyOf[l[1].addr]
  BY Zenon DEF Follows
<1>3. e.addr = a /\ e.if_index = IfOf[a] /\ e.status = "USABLE"
  BY Zenon DEF UsableEntry
<1>. HIDE DEF e
\* a usable entry of a takes the place k of the list
<1>4. ASSUME NEW k \in 1..Len(l), Replaced(l, r, k, e),
             \A j \in 1..Len(l) : j < k => l[j].addr # a,
             \A j \in 1..Len(l) : k < j /\ l[j].addr = a => l[j].status = "DELETED",
             l[k].addr = a \/ l[k].status = "DELETED",
             k = 1 \/ l[1].status # "DELETED"
      PROVE  Follows(r, M \cup {a})
  <2>. HIDE DEF l, r
  <2>1. Len(r) = Len(l) /\ \A i \in 1..Len(l) : r[i] = IF i = k THEN e ELSE l[i]
    BY <1>4, Zenon DEF Replaced
  <2>2. \A i \in 1..Len(r) : r[i].if_index = IfOf[r[i].addr]
    BY <2>1, <1>2, <1>3
  <2>3. \A i \in 1..Len(r) : r[i].status # "DELETED" => r[i].addr \in M \cup {a}
    BY <2>1, <1>2, <1>3, Zenon
  <2>4. ASSUME NEW b \in M \cup {a} PROVE \E i \in 1..Len(r) : r[i].addr = b /\ r[i].status # "DELETED"
    <3>1. CASE b = a
      BY <3>1, <2>1, <1>3, Zenon
    <3>2. CASE b # a
      <4>1. PICK i \in 1..Len(l) : l[i].addr = b /\ l[i].status # "DELETED"
        BY <3>2, <1>2, Zenon
      <4>2. i # k
        BY <4>1, <3>2, <1>4, Zenon
      <4>. QED
        BY <4>1, <4>2, <2>1, Zenon
    <3>. QED
      BY <3>1, <3>2, Zenon
  <2>5. ASSUME NEW i \in 1..Len(r), NEW j \in 1..Len(r), i < j, r[i].addr = r[j].addr
        PROVE  r[j].status = "DELETED"
    <3>1. i # j /\ ~(j < i)
      BY <2>5
    <3>2. CASE i = k
      BY <2>1, <2>5, <3>1, <3>2, <1>3, <1>4, Zenon
    <3>3. CASE j = k
      BY <2>1, <2>5, <3>1, <3>3, <1>3, <1>4
    <3>4. CASE i # k /\ j # k
      BY <2>1, <2>5, <3>4, <1>2
    <3>. QED
      BY <3>2, <3>3, <3>4, Zenon
  <2>6. r[1].status # "DELETED"
    BY <2>1, <1>1, <1>3, <1>4, Zenon
  <2>. QED
    BY <2>2, <2>3, <2>4, <2>5, <2>6, Zenon DEF Follows
<1>5. CASE l[1].status = "DELETED" /\ l[1].addr = a /\ Replaced(l, r, 1, Undeleted(l[1]))
  <2>1. Undeleted(l[1]) = e
    BY <1>1, <1>2, <1>5, Zenon DEF Undeleted, UsableEntry, e
  <2>2. \A j \in 1..Len(l) : ~(j < 1) /\ (j = 1 \/ 1 < j)
    BY <1>1
  <2>3. \A j \in 1..Len(l) : 1 < j /\ l[j].addr = a => l[j].status = "DELETED"
    BY <1>1, <1>2, <1>5, Zenon
  <2>. QED
    BY <2>1, <2>2, <2>3, <1>1, <1>4, <1>5, Zenon
<1>6. CASE l[1].status = "DELETED" /\ l[1].addr # a /\ Replaced(l, r, 1, e)
  <2>1. r[1] = e
    BY <1>1, <1>6, Zenon DEF Replaced
  <2>2. FamilyOf[a] = FamilyOf[l[1].addr]
    BY <2>1, <1>3, Zenon
  <2>3. a \notin M
    BY <2>2, <1>2, <1>6, Zenon
  <2>4. \A j \in 1..Len(l) : l[j].addr = a => l[j].status = "DELETED"
    BY <2>3, <1>2, Zenon
  <2>5. \A j \in 1..Len(l) : ~(j < 1)
    BY <1>1
  <2>. QED
    BY <2>4, <2>5, <1>1, <1>4, <1>6, Zenon
<1>7. CASE l[1].status # "DELETED" /\ r = AddToList(l, a)
  <2>. HIDE DEF l, r
  <2>1. CASE \E k \in 1..Len(l) :
                    /\ l[k].addr = a
                    /\ \A i \in 1..(k - 1) : l[i].addr # a \/ l[i].if_index # IfOf[a]
                    /\ Replaced(l, AddToList(l, a), k, UsableEntry(a))
    <3>1. PICK k \in 1..Len(l) :
                    /\ l[k].addr = a
                    /\ \A i \in 1..(k - 1) : l[i].addr # a \/ l[i].if_index # IfOf[a]
                    /\ Replaced(l, r, k, e)
      BY <2>1, <1>7, Zenon DEF e
    <3>2. \A j \in 1..Len(l) : j < k => j \in 1..(k - 1)
      BY <1>1
    <3>3. \A j \in 1..Len(l) : j < k => l[j].addr # a
      BY <3>1, <3>2, <1>2
    <3>4. \A j \in 1..Len(l) : k < j /\ l[j].addr = a => l[j].status = "DELETED"
      BY <3>1, <1>2, Zenon
    <3>. QED
      BY <3>1, <3>3, <3>4, <1>4, <1>7, Zenon DEF r, l
  <2>2. CASE /\ \A i \in 1..Len(l) : l[i].addr # a \/ l[i].if_index # IfOf[a]
             /\ AddToList(l, a) = Append(l, UsableEntry(a))
    <3>1. \A i \in 1..Len(l) : l[i].addr # a
      BY <2>2, <1>2
    <3>. DEFINE n == Len(l) + 1
    <3>2. Len(r) = n /\ r[n] = e /\ \A i \in 1..Len(l) : r[i] = l[i]
      BY <2>2, <1>1, <1>7 DEF e
    <3>3. \A i \in 1..n : i = n \/ i \in 1..Len(l)
      BY <1>1
    <3>4. 1..Len(l) \subseteq 1..n /\ n \in 1..n /\ \A j \in 1..n : ~(n < j)
      BY <1>1
    <3>. HIDE DEF n
    <3>5. \A i \in 1..Len(r) : r[i].if_index = IfOf[r[i].addr]
      BY <3>2, <3>3, <1>2, <1>3
    <3>6. ASSUME NEW i \in 1..Len(r), r[i].status # "DELETED" PROVE r[i].addr \in M \cup {a}
      <4>1. CASE i = n
        BY <4>1, <3>2, <1>3, Zenon
      <4>2. CASE i \in 1..Len(l)
        BY <4>2, <3>2, <3>6, <1>2, Zenon
      <4>. QED
        BY <4>1, <4>2, <3>2, <3>3, Zenon
    <3>7. \A b \in M \cup {a} : \E i \in 1..Len(r) : r[i].addr = b /\ r[i].status # "DELETED"
      <4>1. ASSUME NEW b \in M PROVE \E i \in 1..n : r[i].addr = b /\ r[i].status # "DELETED"
        <5>1. PICK i \in 1..Len(l) : l[i].addr = b /\ l[i].status # "DELETED"
          BY <1>2, Zenon
        <5>. QED
          BY <5>1, <3>2, <3>4, Zenon
      <4>2. r[n].addr = a /\ r[n].status # "DELETED" /\ n \in 1..n
        BY <3>2, <3>4, <1>3, Zenon
      <4>. QED
        BY <4>1, <4>2, <3>2, Zenon
    <3>8. ASSUME NEW i \in 1..Len(r), NEW j \in 1..Len(r), i < j, r[i].addr = r[j].addr
          PROVE  r[j].status = "DELETED"
      <4>1. i \in 1..Len(l)
        BY <3>2, <3>3, <3>4, <3>8, Zenon
      <4>2. j # n
        BY <4>1, <3>1, <3>2, <3>8, <1>3, Zenon
      <4>. QED
        BY <4>1, <4>2, <3>2, <3>3, <3>8, <1>2
    <3>9. r[1].status # "DELETED"
      BY <3>2, <1>1, <1>7, Zenon
    <3>. QED
      BY <3>5, <3>6, <3>7, <3>8, <3>9, Zenon DEF Follows, r
  <2>. QED
    BY <1>1, <2>1, <2>2, AddToListFacts, Zenon
<1>. QED
  BY <1>5, <1>6, <1>7, AddEffect, Zenon DEF e

\* An address is deleted from an association that neither changes family nor is
\* refused a readdressing (association_del_address()).
LEMMA DelFollows ==
    ASSUME NEW h \in Assoc, h.addrs # <<>>, NEW M, NEW x \in Addrs, NEW my \in Seq(MyAddr),
           Follows(h.addrs, M), AddrsOf(my) = M \ {x},
           h.addrs[1].addr = x =>
              /\ h.state = "ESTABLISHED"
              /\ FamilyOf[AssociationDelAddress(h, x, my).addrs[1].addr] = FamilyOf[x]
    PROVE  Follows(AssociationDelAddress(h, x, my).addrs, M \ {x})
<1>. DEFINE l == h.addrs
            R == AssociationDelAddress(h, x, my)
            r == R.addrs
<1>1. l \in Seq(Entry) /\ Len(l) \in Nat /\ 1 \in 1..Len(l) /\ \A i \in 1..Len(l) : l[i] \in Entry
  BY DEF Assoc
<1>2. \A i \in 1..Len(l) : l[i].if_index = IfOf[l[i].addr]
  BY Zenon DEF Follows
<1>3. \A i \in 1..Len(l) : l[i].status # "DELETED" => l[i].addr \in M
  BY Zenon DEF Follows
<1>4. \A b \in M : \E i \in 1..Len(l) : l[i].addr = b /\ l[i].status # "DELETED"
  BY Zenon DEF Follows
<1>5. \A i, j \in 1..Len(l) : i < j /\ l[i].addr = l[j].addr => l[j].status = "DELETED"
  BY Zenon DEF Follows
<1>6. l[1].status = "DELETED" => \A b \in M : FamilyOf[b] # FamilyOf[l[1].addr]
  BY Zenon DEF Follows
\* the place k of x is marked, and it is the first
<1>7. ASSUME NEW k \in 1..Len(l), Replaced(l, r, k, Deleted(l[k])), l[k].addr = x,
             \A i \in 1..Len(l) : i < k => l[i].addr # x,
             k = 1 => \A b \in M \ {x} : FamilyOf[b] # FamilyOf[x]
      PROVE  Follows(r, M \ {x})
  <2>. DEFINE d == Deleted(l[k])
  <2>. HIDE DEF l, r
  <2>1. d.addr = x /\ d.if_index = IfOf[x] /\ d.status = "DELETED"
    BY <1>2, <1>7, Zenon DEF Deleted
  <2>. HIDE DEF d
  <2>2. Len(r) = Len(l) /\ \A i \in 1..Len(l) : r[i] = IF i = k THEN d ELSE l[i]
    BY <1>7, Zenon DEF Replaced, d
  <2>3. r[k] = d /\ \A i \in 1..Len(l) : i # k => r[i] = l[i]
    BY <2>2, Zenon
  <2>4. \A i \in 1..Len(r) : r[i].if_index = IfOf[r[i].addr]
    BY <2>1, <2>2, <2>3, <1>2, Zenon
  <2>5. ASSUME NEW i \in 1..Len(r), r[i].status # "DELETED" PROVE r[i].addr \in M \ {x}
    <3>1. i # k /\ r[i] = l[i]
      BY <2>1, <2>2, <2>3, <2>5, Zenon
    <3>2. i < k \/ k < i
      BY <3>1, <2>2
    <3>3. l[i].addr # x
      BY <3>1, <3>2, <2>2, <2>5, <1>5, <1>7, Zenon
    <3>. QED
      BY <3>1, <3>3, <2>2, <2>5, <1>3, Zenon
  <2>6. ASSUME NEW b \in M \ {x} PROVE \E i \in 1..Len(r) : r[i].addr = b /\ r[i].status # "DELETED"
    <3>1. PICK i \in 1..Len(l) : l[i].addr = b /\ l[i].status # "DELETED"
      BY <1>4, Zenon
    <3>2. i # k
      BY <3>1, <1>7, Zenon
    <3>. QED
      BY <3>1, <3>2, <2>2, <2>3, Zenon
  <2>7. ASSUME NEW i \in 1..Len(r), NEW j \in 1..Len(r), i < j, r[i].addr = r[j].addr
        PROVE  r[j].status = "DELETED"
    <3>1. CASE j = k
      BY <3>1, <2>1, <2>3, Zenon
    <3>2. CASE j # k
      <4>1. r[i].addr = l[i].addr /\ r[j] = l[j]
        BY <3>2, <2>1, <2>2, <2>3, <1>7, Zenon
      <4>. QED
        BY <4>1, <2>2, <2>7, <1>5, Zenon
    <3>. QED
      BY <3>1, <3>2, Zenon
  <2>8. ASSUME r[1].status = "DELETED", NEW b \in M \ {x} PROVE FamilyOf[b] # FamilyOf[r[1].addr]
    <3>1. CASE k = 1
      BY <3>1, <2>1, <2>3, <1>7, Zenon
    <3>2. CASE k # 1
      BY <3>2, <2>3, <2>8, <1>1, <1>6, Zenon DEF l
    <3>. QED
      BY <3>1, <3>2, Zenon
  <2>. QED
    BY <2>4, <2>5, <2>6, <2>7, <2>8, Zenon DEF Follows
<1>8. CASE R = h /\ \A i \in 1..Len(l) : l[i].addr # x
  <2>1. x \notin M
    BY <1>4, <1>8, Zenon
  <2>2. M \ {x} = M
    BY <2>1, Zenon
  <2>. QED
    BY <2>2, <1>8, Zenon
<1>9. CASE \E k \in 2..Len(l) : /\ l[k].addr = x /\ \A i \in 1..(k - 1) : l[i].addr # x
                                /\ Replaced(l, r, k, Deleted(l[k]))
  <2>1. PICK k \in 2..Len(l) : /\ l[k].addr = x /\ \A i \in 1..(k - 1) : l[i].addr # x
                               /\ Replaced(l, r, k, Deleted(l[k]))
    BY <1>9, Zenon
  <2>2. k \in 1..Len(l) /\ k # 1 /\ \A i \in 1..Len(l) : i < k => i \in 1..(k - 1)
    BY <1>1
  <2>. QED
    BY <2>1, <2>2, <1>7, Zenon
<1>10. CASE /\ l[1].addr = x
            /\ \A i \in 2..Len(l) : ~Suits(l, x, i)
            /\ \/ Replaced(l, r, 1, Deleted(l[1]))
               \/ h.state # "ESTABLISHED"
               \/ FamilyOf[r[1].addr] # FamilyOf[x]
               \/ \E i \in DOMAIN my : FamilyOf[my[i].addr] = FamilyOf[x]
  <2>1. ASSUME NEW b \in M \ {x} PROVE FamilyOf[b] # FamilyOf[x]
    <3>1. \A i \in 1..Len(l) : i = 1 \/ i \in 2..Len(l)
      BY <1>1
    <3>2. PICK i \in 1..Len(l) : l[i].addr = b /\ l[i].status # "DELETED"
      BY <1>4, Zenon
    <3>3. i \in 2..Len(l)
      BY <3>1, <3>2, <1>10, Zenon
    <3>4. ~Suits(l, x, i)
      BY <3>3, <1>10, Zenon
    <3>. QED
      BY <3>2, <3>4, Zenon DEF Suits
  <2>2. \A i \in DOMAIN my : FamilyOf[my[i].addr] # FamilyOf[x]
    BY <2>1, Zenon DEF AddrsOf
  <2>3. Replaced(l, r, 1, Deleted(l[1]))
    BY <2>2, <1>10, Zenon
  <2>4. \A i \in 1..Len(l) : ~(i < 1)
    BY <1>1
  <2>. QED
    BY <2>1, <2>3, <2>4, <1>1, <1>7, <1>10, Zenon
\* an entry of the same family, the k-th, becomes the source
<1>11. CASE /\ l[1].addr = x
            /\ \E k \in 2..Len(l) :
                  /\ Suits(l, x, k) /\ \A i \in 2..(k - 1) : ~Suits(l, x, i)
                  /\ Len(r) = Len(l) - 1
                  /\ h.state = "ESTABLISHED" => r[1] = Undeleted(l[k])
                  /\ \A j \in 2..(Len(l) - 1) : r[j] = IF j < k THEN l[j] ELSE l[j + 1]
  <2>1. PICK k \in 2..Len(l) :
                  /\ Suits(l, x, k) /\ \A i \in 2..(k - 1) : ~Suits(l, x, i)
                  /\ Len(r) = Len(l) - 1
                  /\ h.state = "ESTABLISHED" => r[1] = Undeleted(l[k])
                  /\ \A j \in 2..(Len(l) - 1) : r[j] = IF j < k THEN l[j] ELSE l[j + 1]
    BY <1>11, Zenon
  <2>2. h.state = "ESTABLISHED"
    BY <1>11, Zenon
  <2>3. Undeleted(l[k]) = l[k]
    <3>1. k \in 1..Len(l)
      BY <1>1
    <3>2. l[k] \in Entry /\ l[k].status # "DELETED"
      BY <3>1, <2>1, <1>1, Zenon DEF Suits
    <3>. QED
      BY <3>2, Zenon DEF Undeleted, Entry
  <2>. DEFINE n == Len(l) - 1
              g == [j \in 1..n |-> IF j = 1 THEN k ELSE IF j < k THEN j ELSE j + 1]
  <2>4. n \in Nat /\ 1 \in 1..n /\ Len(r) = n /\ \A j \in 1..n : j = 1 \/ j \in 2..n
    BY <2>1, <1>1
  <2>5. \A j \in 1..n : g[j] \in 2..Len(l) /\ g[j] \in 1..Len(l) /\ 1 < g[j]
    BY <1>1
  <2>6. ASSUME NEW i \in 1..Len(l), i # 1 PROVE \E j \in 1..n : g[j] = i
    <3>1. CASE i = k
      <4>1. 1 \in 1..n /\ g[1] = i
        BY <3>1, <2>4, Zenon
      <4>. QED
        BY <4>1, Zenon
    <3>2. CASE i < k
      <4>1. i \in 1..n /\ g[i] = i
        BY <3>2, <2>6, <1>1
      <4>. QED
        BY <4>1, Zenon
    <3>3. CASE k < i
      <4>1. i - 1 \in 1..n /\ g[i - 1] = i
        BY <3>3, <2>6, <1>1
      <4>. QED
        BY <4>1, Zenon
    <3>4. i = k \/ i < k \/ k < i
      BY <1>1
    <3>. QED
      BY <3>1, <3>2, <3>3, <3>4, Zenon
  <2>7. \A i, j \in 1..n : i < j => g[i] < g[j] \/ (i = 1 /\ g[1] = k /\ j \in 2..(k - 1) /\ g[j] = j)
    BY <1>1
  <2>8. ASSUME NEW j \in 1..n PROVE r[j] = l[g[j]]
    <3>1. CASE j = 1
      BY <3>1, <2>1, <2>2, <2>3, Zenon
    <3>2. CASE j \in 2..n
      BY <3>2, <2>1 DEF Suits
    <3>. QED
      BY <3>1, <3>2, <2>4, Zenon
  <2>9. r[1].status # "DELETED" /\ FamilyOf[r[1].addr] = FamilyOf[x]
    BY <2>1, <2>2, <2>3, Zenon DEF Suits
  <2>. HIDE DEF g, n, l, r
  <2>10. ASSUME NEW i \in 1..Len(r)
         PROVE  i \in 1..n /\ g[i] \in 1..Len(l) /\ 1 < g[i] /\ r[i] = l[g[i]]
    BY <2>4, <2>5, <2>8, Zenon
  <2>11. ASSUME NEW i \in 1..Len(r) PROVE r[i].if_index = IfOf[r[i].addr]
    BY <2>10, <1>2, Zenon
  <2>12. ASSUME NEW i \in 1..Len(r), r[i].status # "DELETED" PROVE r[i].addr \in M \ {x}
    <3>1. g[i] \in 1..Len(l) /\ 1 < g[i] /\ l[g[i]].status # "DELETED" /\ r[i].addr = l[g[i]].addr
      BY <2>10, <2>12, Zenon
    <3>2. l[g[i]].addr # x
      BY <3>1, <1>1, <1>5, <1>11, Zenon
    <3>. QED
      BY <3>1, <3>2, <1>3, Zenon
  <2>13. ASSUME NEW b \in M \ {x}
         PROVE  \E i \in 1..Len(r) : r[i].addr = b /\ r[i].status # "DELETED"
    <3>1. PICK i \in 1..Len(l) : l[i].addr = b /\ l[i].status # "DELETED"
      BY <1>4, Zenon
    <3>2. i # 1
      BY <3>1, <1>11, Zenon
    <3>3. PICK j \in 1..n : g[j] = i
      BY <3>2, <2>6, Zenon
    <3>. QED
      BY <3>1, <3>3, <2>4, <2>8, Zenon
  <2>14. ASSUME NEW i \in 1..Len(r), NEW j \in 1..Len(r), i < j, r[i].addr = r[j].addr
         PROVE  r[j].status = "DELETED"
    <3>0. /\ g[i] \in 1..Len(l) /\ r[i] = l[g[i]] /\ g[j] \in 1..Len(l) /\ r[j] = l[g[j]]
      BY <2>10, Zenon
    <3>1. CASE g[i] < g[j]
      BY <3>0, <3>1, <2>14, <1>5, Zenon
    <3>2. CASE i = 1 /\ j \in 2..(k - 1) /\ g[j] = j
      <4>1. ~Suits(l, x, j)
        BY <3>2, <2>1, Zenon
      <4>2. FamilyOf[l[j].addr] = FamilyOf[x]
        BY <3>0, <3>2, <2>9, <2>14, Zenon
      <4>. QED
        BY <3>0, <4>1, <4>2, <3>2, Zenon DEF Suits
    <3>. QED
      BY <3>1, <3>2, <2>4, <2>7, <2>14, Zenon
  <2>. QED
    BY <2>9, <2>11, <2>12, <2>13, <2>14, Zenon DEF Follows, r
<1>12. /\ Absent(h, x, R) => Follows(r, M \ {x})
       /\ MarkedBehind(l, x, r) => Follows(r, M \ {x})
  BY <1>8, <1>9, Zenon DEF Absent, MarkedBehind
<1>13. MovedTo(h, x, r) => Follows(r, M \ {x})
  BY <1>11, Zenon DEF MovedTo
<1>14. SourceGone(h, x, my, r) => Follows(r, M \ {x})
  BY <1>10, Zenon DEF SourceGone
<1>. QED
  BY <1>12, <1>13, <1>14, DelEffect, Zenon

-----------------------------------------------------------------------------
(***************************************************************************)
(* my_addr_head.                                                           *)
(***************************************************************************)
Distinct(my) == \A i, j \in 1..Len(my) : my[i].addr = my[j].addr => i = j

\* A list of my addresses, each of them in it once, that are the set M.
Lists(my, M) == my \in Seq(MyAddr) /\ Distinct(my) /\ AddrsOf(my) = M

\* Its entries, and how many there are.
LEMMA ListsFacts ==
    ASSUME NEW my, NEW M, Lists(my, M)
    PROVE  /\ DOMAIN my = 1..Len(my) /\ Len(my) \in Nat
           /\ \A i \in 1..Len(my) : my[i] \in MyAddr /\ my[i].addr \in M /\ my[i].addr \in Addrs
           /\ \A a \in M : \E i \in 1..Len(my) : my[i].addr = a
           /\ M \subseteq Addrs
           /\ Len(my) = Cardinality(M)
<1>1. my \in Seq(MyAddr) /\ AddrsOf(my) = M
  BY Zenon DEF Lists
<1>2. DOMAIN my = 1..Len(my) /\ Len(my) \in Nat /\ \A i \in 1..Len(my) : my[i] \in MyAddr
  BY <1>1
<1>3. \A e \in MyAddr : e.addr \in Addrs
  BY Zenon DEF MyAddr
<1>4. \A i \in 1..Len(my) : my[i].addr \in M
  BY <1>1, <1>2, Zenon DEF AddrsOf
<1>5. \A a \in M : \E i \in 1..Len(my) : my[i].addr = a
  BY <1>1, <1>2, Zenon DEF AddrsOf
<1>6. Len(my) = Cardinality(M)
  <2>. DEFINE f == [i \in 1..Len(my) |-> my[i].addr]
  <2>1. f \in Bijection(1..Len(my), M)
    BY <1>4, <1>5, Zenon DEF Lists, Distinct, Bijection, Injection, IsInjective, Surjection
  <2>2. ExistsBijection(1..Len(my), M)
    BY <2>1, Zenon DEF ExistsBijection
  <2>. QED
    BY <2>2, <1>2, FS_CountingElements, Zenon
<1>. QED
  BY <1>2, <1>3, <1>4, <1>5, <1>6, Zenon

\* An address is added when it is not in the list (add_address_to_list()).
LEMMA AddToMineFacts ==
    ASSUME NEW my, NEW M, Lists(my, M), NEW a \in Addrs
    PROVE  Lists(AddToMine(my, a), M \cup {a})
<1>1. /\ DOMAIN my = 1..Len(my) /\ Len(my) \in Nat
      /\ \A i \in 1..Len(my) : my[i] \in MyAddr /\ my[i].addr \in M /\ my[i].addr \in Addrs
      /\ \A b \in M : \E i \in 1..Len(my) : my[i].addr = b
  BY ListsFacts, Zenon
<1>2. CASE \E i \in DOMAIN my : my[i].addr = a
  <2>1. a \in M
    BY <1>1, <1>2, Zenon
  <2>2. M \cup {a} = M /\ AddToMine(my, a) = my
    BY <2>1, <1>2, Zenon DEF AddToMine
  <2>. QED
    BY <2>2, Zenon
<1>3. CASE ~ \E i \in DOMAIN my : my[i].addr = a
  <2>. DEFINE e == [addr |-> a, preferred |-> FALSE]
              q == Append(my, e)
              n == Len(my) + 1
  <2>1. AddToMine(my, a) = q
    BY <1>3, Zenon DEF AddToMine
  <2>2. my \in Seq(MyAddr) /\ e \in MyAddr /\ e.addr = a
    BY Zenon DEF Lists, MyAddr
  <2>. HIDE DEF e
  <2>3. q \in Seq(MyAddr) /\ Len(q) = n /\ q[n] = e /\ \A i \in 1..Len(my) : q[i] = my[i]
    BY <2>2
  <2>4. /\ \A i \in 1..n : i = n \/ i \in 1..Len(my)
        /\ n \in 1..n /\ 1..Len(my) \subseteq 1..n /\ DOMAIN q = 1..n
    BY <1>1, <2>3
  <2>. HIDE DEF q, n
  <2>5. ASSUME NEW i \in 1..n, NEW j \in 1..n, q[i].addr = q[j].addr PROVE i = j
    <3>1. CASE i = n
      BY <3>1, <2>2, <2>3, <2>4, <2>5, <1>1, <1>3, Zenon
    <3>2. CASE j = n
      BY <3>2, <2>2, <2>3, <2>4, <2>5, <1>1, <1>3, Zenon
    <3>3. CASE i \in 1..Len(my) /\ j \in 1..Len(my)
      BY <3>3, <2>3, <2>5, Zenon DEF Lists, Distinct
    <3>. QED
      BY <3>1, <3>2, <3>3, <2>4, Zenon
  <2>6. AddrsOf(q) = M \cup {a}
    <3>1. ASSUME NEW i \in 1..n PROVE q[i].addr \in M \cup {a}
      BY <2>2, <2>3, <2>4, <1>1, Zenon
    <3>2. ASSUME NEW b \in M \cup {a} PROVE \E i \in 1..n : q[i].addr = b
      BY <2>2, <2>3, <2>4, <1>1, Zenon
    <3>. QED
      BY <3>1, <3>2, <2>4, Zenon DEF AddrsOf
  <2>. QED
    BY <2>1, <2>3, <2>5, <2>6, Zenon DEF Lists, Distinct
<1>. QED
  BY <1>2, <1>3, Zenon

\* Changing no address changes no address.
LEMMA SameAddrs ==
    ASSUME NEW my, NEW M, Lists(my, M), NEW q \in Seq(MyAddr), Len(q) = Len(my),
           \A i \in 1..Len(my) : q[i].addr = my[i].addr
    PROVE  Lists(q, M)
<1>1. DOMAIN my = 1..Len(my) /\ DOMAIN q = 1..Len(my)
  BY ListsFacts
<1>2. Distinct(q)
  BY Zenon DEF Distinct, Lists
<1>3. AddrsOf(q) = AddrsOf(my)
  BY <1>1, Zenon DEF AddrsOf
<1>. QED
  BY <1>2, <1>3, Zenon DEF Lists

\* select_preferred_address() changes a flag.
LEMMA SelectFacts ==
    ASSUME NEW my, NEW M, Lists(my, M)
    PROVE  Lists(SelectPreferred(my), M)
<1>. DEFINE S == { j \in DOMAIN my : FamilyOf[my[j].addr] = "inet" }
            i == First(S)
<1>1. my \in Seq(MyAddr)
  BY Zenon DEF Lists
<1>2. S \subseteq Nat \ {0} /\ S \subseteq 1..Len(my)
  BY <1>1
<1>3. i # 0 => i \in 1..Len(my)
  BY <1>2, FirstFacts, Zenon
<1>4. SelectPreferred(my) = IF i = 0 THEN my ELSE [my EXCEPT ![i].preferred = TRUE]
  BY Zenon DEF SelectPreferred
<1>. HIDE DEF i
<1>5. CASE i = 0
  BY <1>4, <1>5, Zenon
<1>6. CASE i # 0
  <2>. DEFINE q == [my EXCEPT ![i] = [my[i] EXCEPT !.preferred = TRUE]]
  <2>1. my[i] \in MyAddr
    BY <1>1, <1>3, <1>6
  <2>2. [my[i] EXCEPT !.preferred = TRUE] \in MyAddr /\ [my[i] EXCEPT !.preferred = TRUE].addr = my[i].addr
    BY <2>1, Zenon DEF MyAddr
  <2>3. q \in Seq(MyAddr) /\ Len(q) = Len(my) /\ \A j \in 1..Len(my) : q[j].addr = my[j].addr
    BY <2>2, <1>1, <1>3, <1>6
  <2>4. SelectPreferred(my) = q
    BY <1>4, <1>6, Zenon
  <2>. QED
    BY <2>3, <2>4, SameAddrs, Zenon
<1>. QED
  BY <1>5, <1>6, Zenon

\* delete_address_from_list() leaves the addresses at the positions that stay.
LEMMA KeptLists ==
    ASSUME NEW my, NEW M, Lists(my, M), NEW S, S \subseteq 1..Len(my)
    PROVE  Lists(Kept(my, S), { my[i].addr : i \in S })
<1>. DEFINE q == Kept(my, S)
<1>1. my \in Seq(MyAddr)
  BY Zenon DEF Lists
<1>2. q \in Seq(MyAddr) /\ Selects(my, S, q)
  BY <1>1, KeptFacts, Zenon
<1>. HIDE DEF q
<1>3. PICK g \in Bijection(1..Len(q), S) : \A k \in 1..Len(q) : q[k] = my[g[k]]
  BY <1>2, Zenon DEF Selects
<1>4. /\ \A k \in 1..Len(q) : g[k] \in S
      /\ \A j, k \in 1..Len(q) : g[j] = g[k] => j = k
      /\ \A i \in S : \E k \in 1..Len(q) : g[k] = i
  <2>1. /\ g \in [1..Len(q) -> S] /\ IsInjective(g)
        /\ \A i \in S : \E k \in 1..Len(q) : g[k] = i
    BY Zenon DEF Bijection, Injection, Surjection
  <2>. QED
    BY <2>1, Zenon DEF IsInjective
<1>5. DOMAIN q = 1..Len(q)
  BY <1>2
<1>6. Distinct(q)
  <2>1. ASSUME NEW j \in 1..Len(q), NEW k \in 1..Len(q), q[j].addr = q[k].addr PROVE j = k
    <3>1. g[j] \in 1..Len(my) /\ g[k] \in 1..Len(my) /\ my[g[j]].addr = my[g[k]].addr
      BY <2>1, <1>3, <1>4, Zenon
    <3>2. g[j] = g[k]
      BY <3>1, Zenon DEF Distinct, Lists
    <3>. QED
      BY <3>2, <1>4, Zenon
  <2>. QED
    BY <2>1, Zenon DEF Distinct
<1>7. AddrsOf(q) = { my[i].addr : i \in S }
  <2>1. ASSUME NEW k \in 1..Len(q) PROVE \E i \in S : q[k].addr = my[i].addr
    <3>1. g[k] \in S /\ q[k] = my[g[k]]
      BY <1>3, <1>4, Zenon
    <3>. QED
      BY <3>1, Zenon
  <2>2. ASSUME NEW i \in S PROVE \E k \in 1..Len(q) : q[k].addr = my[i].addr
    <3>1. PICK k \in 1..Len(q) : g[k] = i
      BY <1>4, Zenon
    <3>. QED
      BY <3>1, <1>3, Zenon
  <2>. QED
    <3>1. ASSUME NEW b \in AddrsOf(q) PROVE b \in { my[i].addr : i \in S }
      <4>1. PICK k \in DOMAIN q : q[k].addr = b
        BY Zenon DEF AddrsOf
      <4>2. PICK i \in S : q[k].addr = my[i].addr
        BY <2>1, <1>5, Zenon
      <4>. QED
        BY <4>1, <4>2, Zenon
    <3>2. ASSUME NEW b \in { my[i].addr : i \in S } PROVE b \in AddrsOf(q)
      <4>1. PICK i \in S : b = my[i].addr
        BY Zenon
      <4>2. PICK k \in DOMAIN q : q[k].addr = b
        BY <4>1, <2>2, <1>5, Zenon
      <4>. QED
        BY <4>2, Zenon DEF AddrsOf
    <3>. QED
      BY <3>1, <3>2, Zenon
<1>. QED
  BY <1>2, <1>6, <1>7, Zenon DEF Lists, q

\* A new association has all my addresses (add_other_addresses_to_hi()).
LEMMA InitialFacts ==
    ASSUME NEW M, Lists(my_addr_head, M), NEW a \in M
    PROVE  /\ InitialAddrs(a) \in Seq(Entry) /\ InitialAddrs(a) # <<>>
           /\ Follows(InitialAddrs(a), M)
<1>. DEFINE my == my_addr_head
            S == { i \in DOMAIN my : /\ my[i].addr # a
                                     /\ \A j \in 1..(i - 1) : my[j].addr # my[i].addr }
            others == Kept(my, S)
            rest == [k \in DOMAIN others |-> UsableEntry(others[k].addr)]
            l == <<UsableEntry(a)>> \o rest
<1>1. /\ DOMAIN my = 1..Len(my) /\ Len(my) \in Nat /\ M \subseteq Addrs
      /\ \A i \in 1..Len(my) : my[i].addr \in M
      /\ \A b \in M : \E i \in 1..Len(my) : my[i].addr = b
  BY ListsFacts, Zenon
<1>2. InitialAddrs(a) = l
  BY Zenon DEF InitialAddrs
<1>3. ASSUME NEW i \in 1..Len(my) PROVE i \in S <=> my[i].addr # a
  <2>1. \A j \in 1..(i - 1) : j \in 1..Len(my) /\ j # i
    BY <1>1
  <2>2. \A j \in 1..(i - 1) : my[j].addr # my[i].addr
    BY <2>1, Zenon DEF Lists, Distinct
  <2>. QED
    BY <2>2, <1>1, Zenon
<1>4. S \subseteq 1..Len(my)
  BY <1>1, Zenon
<1>. HIDE DEF S
<1>5. { my[i].addr : i \in S } = M \ {a}
  <2>1. ASSUME NEW b \in { my[i].addr : i \in S } PROVE b \in M \ {a}
    BY <1>1, <1>3, <1>4, Zenon
  <2>2. ASSUME NEW b \in M \ {a} PROVE b \in { my[i].addr : i \in S }
    <3>1. PICK i \in 1..Len(my) : my[i].addr = b
      BY <1>1, Zenon
    <3>2. i \in S
      BY <3>1, <1>3, Zenon
    <3>. QED
      BY <3>1, <3>2, Zenon
  <2>. QED
    BY <2>1, <2>2, Zenon
<1>6. Lists(others, M \ {a})
  <2>1. Lists(my, M)
    BY Zenon
  <2>. HIDE DEF my
  <2>2. Lists(Kept(my, S), { my[i].addr : i \in S })
    BY <2>1, <1>4, KeptLists, Zenon
  <2>. QED
    BY <2>2, <1>5, Zenon
<1>. HIDE DEF others
<1>. DEFINE n == Len(others)
<1>7. /\ DOMAIN others = 1..n /\ n \in Nat
      /\ \A k \in 1..n : others[k].addr \in M \ {a} /\ others[k].addr \in Addrs
      /\ \A b \in M \ {a} : \E k \in 1..n : others[k].addr = b
  BY <1>6, ListsFacts, Zenon
<1>8. \A j, k \in 1..n : others[j].addr = others[k].addr => j = k
  BY <1>6, Zenon DEF Lists, Distinct
<1>9. \A b \in Addrs : /\ UsableEntry(b) \in Entry /\ UsableEntry(b).addr = b
                       /\ UsableEntry(b).if_index = IfOf[b] /\ UsableEntry(b).status # "DELETED"
  BY EntryTypes, Zenon DEF UsableEntry
<1>10. rest \in Seq(Entry) /\ Len(rest) = n
  <2>1. \A k \in 1..n : UsableEntry(others[k].addr) \in Entry
    BY <1>7, <1>9, Zenon
  <2>. QED
    BY <2>1, <1>7
<1>11. \A k \in 1..n : rest[k] = UsableEntry(others[k].addr)
  BY <1>7, Zenon
<1>. HIDE DEF n, rest
<1>12. UsableEntry(a) \in Entry /\ a \in Addrs
  BY <1>1, <1>9, Zenon
<1>. DEFINE e == UsableEntry(a)
<1>. HIDE DEF e
<1>13. /\ l \in Seq(Entry) /\ Len(l) = n + 1 /\ l[1] = e
       /\ \A i \in 2..(n + 1) : l[i] = rest[i - 1]
  BY <1>7, <1>10, <1>12 DEF e
<1>. HIDE DEF l
<1>14. /\ \A i \in 1..Len(l) : i = 1 \/ i \in 2..(n + 1)
       /\ \A i \in 2..(n + 1) : i - 1 \in 1..n /\ i # 1
       /\ \A k \in 1..n : k + 1 \in 2..(n + 1) /\ k + 1 \in 1..Len(l) /\ (k + 1) - 1 = k
       /\ 1 \in 1..Len(l) /\ \A i, j \in 2..(n + 1) : i - 1 = j - 1 => i = j
  BY <1>7, <1>13
\* what each entry is
<1>15. ASSUME NEW i \in 1..Len(l)
       PROVE  /\ l[i].if_index = IfOf[l[i].addr] /\ l[i].status # "DELETED" /\ l[i].addr \in M
              /\ i = 1 => l[i].addr = a
              /\ i # 1 => i \in 2..(n + 1) /\ l[i].addr = others[i - 1].addr
  <2>1. CASE i = 1
    BY <2>1, <1>9, <1>12, <1>13, Zenon DEF e
  <2>2. CASE i \in 2..(n + 1)
    <3>1. l[i] = UsableEntry(others[i - 1].addr) /\ others[i - 1].addr \in M /\ others[i - 1].addr \in Addrs
      BY <2>2, <1>7, <1>11, <1>13, <1>14, Zenon
    <3>. DEFINE b == others[i - 1].addr
    <3>2. b \in Addrs /\ b \in M /\ l[i] = UsableEntry(b) /\ i # 1
      BY <3>1, <2>2, <1>14, Zenon
    <3>. HIDE DEF b
    <3>3. l[i].if_index = IfOf[b] /\ l[i].status # "DELETED" /\ l[i].addr = b
      BY <3>2, <1>9, Zenon
    <3>. QED
      BY <3>2, <3>3, <2>2, Zenon DEF b
  <2>. QED
    BY <2>1, <2>2, <1>14, Zenon
<1>16. ASSUME NEW b \in M PROVE \E i \in 1..Len(l) : l[i].addr = b /\ l[i].status # "DELETED"
  <2>1. CASE b = a
    BY <2>1, <1>14, <1>15, Zenon
  <2>2. CASE b # a
    <3>1. PICK k \in 1..n : others[k].addr = b
      BY <2>2, <1>7, Zenon
    <3>2. k + 1 \in 1..Len(l) /\ k + 1 # 1 /\ (k + 1) - 1 = k
      BY <1>14, Zenon
    <3>3. l[k + 1].addr = b /\ l[k + 1].status # "DELETED"
      BY <3>1, <3>2, <1>15, Zenon
    <3>. QED
      BY <3>2, <3>3, Zenon
  <2>. QED
    BY <2>1, <2>2, Zenon
<1>17. ASSUME NEW i \in 1..Len(l), NEW j \in 1..Len(l), l[i].addr = l[j].addr PROVE i = j
  <2>0. ASSUME NEW k \in 1..Len(l), k # 1 PROVE l[k].addr # a
    <3>1. k - 1 \in 1..n /\ l[k].addr = others[k - 1].addr
      BY <2>0, <1>14, <1>15, Zenon
    <3>. QED
      BY <3>1, <1>7, Zenon
  <2>1. CASE i = 1
    BY <2>0, <2>1, <1>15, <1>17, Zenon
  <2>2. CASE j = 1
    BY <2>0, <2>2, <1>15, <1>17, Zenon
  <2>3. CASE i # 1 /\ j # 1
    <3>1. i \in 2..(n + 1) /\ j \in 2..(n + 1) /\ others[i - 1].addr = others[j - 1].addr
      BY <2>3, <1>15, <1>17, Zenon
    <3>2. i - 1 = j - 1
      BY <3>1, <1>8, <1>14, Zenon
    <3>. QED
      BY <3>1, <3>2, <1>14, Zenon
  <2>. QED
    BY <2>1, <2>2, <2>3, Zenon
<1>18. \A i, j \in 1..Len(l) : i < j => i # j
  BY <1>13, <1>7
<1>19. l # <<>>
  BY <1>13, <1>7
<1>20. Follows(l, M)
  <2>1. \A i \in 1..Len(l) : l[i].if_index = IfOf[l[i].addr] /\ l[i].status # "DELETED" /\ l[i].addr \in M
    BY <1>15, Zenon
  <2>2. \A i, j \in 1..Len(l) : ~(i < j /\ l[i].addr = l[j].addr)
    BY <1>17, <1>18, Zenon
  <2>3. l[1].status # "DELETED"
    BY <2>1, <1>14, Zenon
  <2>. QED
    BY <2>1, <2>2, <2>3, <1>16, Zenon DEF Follows
<1>. QED
  BY <1>2, <1>13, <1>19, <1>20, Zenon

-----------------------------------------------------------------------------
(***************************************************************************)
(* The messages waiting at the netlink socket, given the addresses M known *)
(* and the addresses K the host has: an address nobody announces is known  *)
(* when the host has it, the last announcement of an address says whether  *)
(* the host has it, and nothing of an interface comes behind its DELLINK.  *)
(***************************************************************************)
Note == NoteAddr \cup NoteLink \cup Dump

Of(m, a) == m.type \in {"NEWADDR", "DELADDR"} /\ m.of = a

Unlinks(m, a) == m.type = "DELLINK" /\ m.of = IfOf[a]

Queue(nl, M, K) ==
    /\ \A a \in Addrs : (\A p \in 1..Len(nl) : ~Of(nl[p], a)) => (a \in M <=> a \in K)
    /\ \A a \in Addrs, p \in 1..Len(nl) :
          Of(nl[p], a) /\ (\A q \in 1..Len(nl) : p < q => ~Of(nl[q], a))
             => (nl[p].type = "NEWADDR" <=> a \in K)
    /\ \A a \in Addrs, p \in 1..Len(nl) :
          Unlinks(nl[p], a) => a \notin K /\ \A q \in 1..Len(nl) : p < q => ~Of(nl[q], a)

\* A message is added to the queue: an announcement says what the host has.
LEMMA QueueAppend ==
    ASSUME NEW nl \in Seq(Note), NEW M, NEW K, NEW L, NEW m \in Note, Queue(nl, M, K),
           \A a \in Addrs : ~Of(m, a) => (a \in K <=> a \in L),
           \A a \in Addrs : Of(m, a) => (m.type = "NEWADDR" <=> a \in L),
           \A a \in Addrs : Of(m, a) => \A p \in 1..Len(nl) : ~Unlinks(nl[p], a),
           \A a \in Addrs : Unlinks(m, a) => a \notin L
    PROVE  Append(nl, m) \in Seq(Note) /\ Queue(Append(nl, m), M, L)
<1>. DEFINE r == Append(nl, m)
            n == Len(nl) + 1
<1>1. r \in Seq(Note) /\ Len(r) = n /\ r[n] = m /\ \A p \in 1..Len(nl) : r[p] = nl[p]
  OBVIOUS
<1>2. /\ \A p \in 1..n : p = n \/ p \in 1..Len(nl)
      /\ n \in 1..n /\ 1..Len(nl) \subseteq 1..n
      /\ \A p \in 1..Len(nl) : p < n
      /\ \A p \in 1..n : ~(n < p)
  OBVIOUS
<1>. HIDE DEF r, n
<1>3. ASSUME NEW a \in Addrs, \A p \in 1..n : ~Of(r[p], a) PROVE a \in M <=> a \in L
  <2>1. ~Of(m, a) /\ \A p \in 1..Len(nl) : ~Of(nl[p], a)
    BY <1>1, <1>2, <1>3, Zenon
  <2>. QED
    BY <2>1, Zenon DEF Queue
<1>4. ASSUME NEW a \in Addrs, NEW p \in 1..n, Of(r[p], a),
             \A q \in 1..n : p < q => ~Of(r[q], a)
      PROVE  r[p].type = "NEWADDR" <=> a \in L
  <2>1. CASE p = n
    BY <2>1, <1>1, <1>4, Zenon
  <2>2. CASE p \in 1..Len(nl)
    <3>1. ~Of(m, a)
      BY <2>2, <1>1, <1>2, <1>4, Zenon
    <3>2. Of(nl[p], a) /\ \A q \in 1..Len(nl) : p < q => ~Of(nl[q], a)
      BY <2>2, <1>1, <1>2, <1>4, Zenon
    <3>3. nl[p].type = "NEWADDR" <=> a \in K
      BY <3>2, <2>2, Zenon DEF Queue
    <3>. QED
      BY <3>1, <3>3, <2>2, <1>1, Zenon
  <2>. QED
    BY <2>1, <2>2, <1>2, Zenon
<1>5. ASSUME NEW a \in Addrs, NEW p \in 1..n, Unlinks(r[p], a)
      PROVE  a \notin L /\ \A q \in 1..n : p < q => ~Of(r[q], a)
  <2>1. CASE p = n
    BY <2>1, <1>1, <1>2, <1>5, Zenon
  <2>2. CASE p \in 1..Len(nl)
    <3>1. Unlinks(nl[p], a)
      BY <2>2, <1>1, <1>5, Zenon
    <3>2. ~Of(m, a)
      BY <3>1, <2>2, Zenon
    <3>3. a \notin K /\ \A q \in 1..Len(nl) : p < q => ~Of(nl[q], a)
      BY <3>1, <2>2, Zenon DEF Queue
    <3>4. ASSUME NEW q \in 1..n, p < q PROVE ~Of(r[q], a)
      BY <3>2, <3>3, <3>4, <1>1, <1>2, Zenon
    <3>. QED
      BY <3>2, <3>3, <3>4, Zenon
  <2>. QED
    BY <2>1, <2>2, <1>2, Zenon
<1>6. Queue(r, M, L)
  BY <1>1, <1>3, <1>4, <1>5, Zenon DEF Queue
<1>. QED
  BY <1>1, <1>6, Zenon DEF r

\* The first message is read: an announcement is followed.
LEMMA QueueTail ==
    ASSUME NEW nl \in Seq(Note), nl # <<>>, NEW M, NEW N, NEW K, Queue(nl, M, K),
           \A a \in Addrs : ~Of(nl[1], a) => (a \in M <=> a \in N),
           \A a \in Addrs : Of(nl[1], a) => (nl[1].type = "NEWADDR" <=> a \in N)
    PROVE  Tail(nl) \in Seq(Note) /\ Queue(Tail(nl), N, K)
<1>. DEFINE r == Tail(nl)
            n == Len(nl) - 1
<1>1. /\ r \in Seq(Note) /\ Len(r) = n /\ n \in Nat /\ \A p \in 1..n : r[p] = nl[p + 1]
      /\ 1 \in 1..Len(nl)
  OBVIOUS
<1>2. /\ \A p \in 1..n : p + 1 \in 1..Len(nl)
      /\ \A p \in 1..Len(nl) : p = 1 \/ (p - 1 \in 1..n /\ (p - 1) + 1 = p)
      /\ \A p \in 1..n, q \in 1..Len(nl) : p + 1 < q => q - 1 \in 1..n /\ (q - 1) + 1 = q /\ p < q - 1
      /\ \A p, q \in 1..n : p < q => p + 1 < q + 1
  OBVIOUS
<1>. HIDE DEF r, n
<1>3. ASSUME NEW a \in Addrs, \A p \in 1..n : ~Of(r[p], a) PROVE a \in N <=> a \in K
  <2>1. ASSUME NEW p \in 1..Len(nl), p # 1 PROVE ~Of(nl[p], a)
    <3>1. p - 1 \in 1..n /\ r[p - 1] = nl[p]
      BY <2>1, <1>1, <1>2, Zenon
    <3>. QED
      BY <3>1, <1>3, Zenon
  <2>2. CASE Of(nl[1], a)
    <3>1. \A q \in 1..Len(nl) : 1 < q => q # 1
      OBVIOUS
    <3>2. nl[1].type = "NEWADDR" <=> a \in K
      BY <3>1, <2>1, <2>2, <1>1, Zenon DEF Queue
    <3>. QED
      BY <3>2, <2>2, Zenon
  <2>3. CASE ~Of(nl[1], a)
    <3>1. \A p \in 1..Len(nl) : ~Of(nl[p], a)
      BY <2>1, <2>3, Zenon
    <3>. QED
      BY <3>1, <2>3, Zenon DEF Queue
  <2>. QED
    BY <2>2, <2>3, Zenon
<1>4. ASSUME NEW a \in Addrs, NEW p \in 1..n, \A q \in 1..n : p < q => ~Of(r[q], a),
             NEW q \in 1..Len(nl), p + 1 < q
      PROVE  ~Of(nl[q], a)
  <2>1. q - 1 \in 1..n /\ p < q - 1 /\ r[q - 1] = nl[q]
    BY <1>1, <1>2, <1>4, Zenon
  <2>. QED
    BY <2>1, <1>4, Zenon
<1>5. ASSUME NEW a \in Addrs, NEW p \in 1..n, Of(r[p], a),
             \A q \in 1..n : p < q => ~Of(r[q], a)
      PROVE  r[p].type = "NEWADDR" <=> a \in K
  <2>1. p + 1 \in 1..Len(nl) /\ r[p] = nl[p + 1]
    BY <1>1, <1>2, Zenon
  <2>2. Of(nl[p + 1], a) /\ \A q \in 1..Len(nl) : p + 1 < q => ~Of(nl[q], a)
    BY <2>1, <1>4, <1>5, Zenon
  <2>. QED
    BY <2>1, <2>2, Zenon DEF Queue
<1>6. ASSUME NEW a \in Addrs, NEW p \in 1..n, Unlinks(r[p], a)
      PROVE  a \notin K /\ \A q \in 1..n : p < q => ~Of(r[q], a)
  <2>1. p + 1 \in 1..Len(nl) /\ Unlinks(nl[p + 1], a)
    BY <1>1, <1>2, <1>6, Zenon
  <2>2. a \notin K /\ \A q \in 1..Len(nl) : p + 1 < q => ~Of(nl[q], a)
    BY <2>1, Zenon DEF Queue
  <2>3. ASSUME NEW q \in 1..n, p < q PROVE ~Of(r[q], a)
    <3>1. q + 1 \in 1..Len(nl) /\ p + 1 < q + 1 /\ r[q] = nl[q + 1]
      BY <2>3, <1>1, <1>2, Zenon
    <3>. QED
      BY <3>1, <2>2, Zenon
  <2>. QED
    BY <2>2, <2>3, Zenon
<1>7. Queue(r, N, K)
  BY <1>1, <1>3, <1>5, <1>6, Zenon DEF Queue
<1>. QED
  BY <1>1, <1>7, Zenon DEF r

-----------------------------------------------------------------------------
(***************************************************************************)
(* The table of associations: one has addresses as long as it exists, and  *)
(* lies below max.                                                         *)
(***************************************************************************)
TableOK(tbl, max) ==
    /\ tbl \in [Slots -> Assoc]
    /\ max \in 0..MaxAssocs
    /\ \A s \in Slots : tbl[s].state = "UNASSOCIATED" <=> tbl[s].addrs = <<>>
    /\ \A s \in Slots : s > max => tbl[s].state = "UNASSOCIATED"

\* With that the loops up to max_hip_assoc meet all of them.
LEMMA LiveIsAll ==
    ASSUME TableOK(table, max_hip_assoc)
    PROVE  /\ Live = { s \in Slots : table[s].state # "UNASSOCIATED" }
           /\ \A s \in Live : s \in Slots /\ table[s] \in Assoc /\ table[s].addrs # <<>>
<1>1. ASSUME NEW s \in Live PROVE s \in Slots /\ table[s].state # "UNASSOCIATED"
  BY HipAddrAssumption DEF Live, Slots, TableOK
<1>2. ASSUME NEW s \in Slots, table[s].state # "UNASSOCIATED" PROVE s \in Live
  BY <1>2, HipAddrAssumption DEF Live, Slots, TableOK
<1>. QED
  BY <1>1, <1>2, Zenon DEF TableOK

\* handle_local_address_change() keeps the table when it keeps each association.
LEMMA OnLiveKeeps ==
    ASSUME TableOK(table, max_hip_assoc), NEW changed,
           \A s \in Live : /\ changed[s] \in Assoc /\ changed[s].addrs # <<>>
                           /\ changed[s].state = table[s].state
    PROVE  /\ TableOK(OnLive(changed), max_hip_assoc)
           /\ \A s \in Live : OnLive(changed)[s] = changed[s]
           /\ \A s \in Slots : OnLive(changed)[s].state = table[s].state
<1>. DEFINE t == OnLive(changed)
<1>1. /\ Live = { s \in Slots : table[s].state # "UNASSOCIATED" }
      /\ \A s \in Live : s \in Slots /\ table[s].addrs # <<>>
  BY LiveIsAll, Zenon
<1>2. t = [s \in Slots |-> IF s \in Live THEN changed[s] ELSE table[s]]
  BY Zenon DEF OnLive
<1>. HIDE DEF t
<1>3. \A s \in Live : t[s] = changed[s]
  BY <1>1, <1>2, Zenon
<1>4. \A s \in Slots : s \notin Live => t[s] = table[s]
  BY <1>2, Zenon
<1>5. \A s \in Slots : t[s] \in Assoc /\ t[s].state = table[s].state
  BY <1>3, <1>4, Zenon DEF TableOK
<1>6. ASSUME NEW s \in Slots PROVE t[s].state = "UNASSOCIATED" <=> t[s].addrs = <<>>
  <2>1. CASE s \in Live
    BY <2>1, <1>1, <1>3, Zenon
  <2>2. CASE s \notin Live
    BY <2>2, <1>4, Zenon DEF TableOK
  <2>. QED
    BY <2>1, <2>2, Zenon
<1>7. t \in [Slots -> Assoc]
  <2>1. t = [s \in Slots |-> t[s]]
    BY <1>2, Zenon
  <2>. QED
    BY <2>1, <1>5, Zenon
<1>8. TableOK(t, max_hip_assoc)
  BY <1>5, <1>6, <1>7, Zenon DEF TableOK
<1>. QED
  BY <1>3, <1>5, <1>8, Zenon DEF t

\* An association is put into slot n (init_hip_assoc()).
LEMMA PutKeeps ==
    ASSUME NEW tbl, NEW max, TableOK(tbl, max), NEW n \in Slots,
           NEW h \in Assoc, h.addrs # <<>>, h.state # "UNASSOCIATED"
    PROVE  TableOK([tbl EXCEPT ![n] = h], IF n > max THEN n ELSE max)
<1>. DEFINE t == [tbl EXCEPT ![n] = h]
            top == IF n > max THEN n ELSE max
<1>1. t \in [Slots -> Assoc] /\ t[n] = h /\ \A s \in Slots : s # n => t[s] = tbl[s]
  BY Zenon DEF TableOK
<1>2. top \in 0..MaxAssocs /\ \A s \in Slots : s > top => s # n /\ s > max
  BY HipAddrAssumption DEF TableOK, Slots
<1>. HIDE DEF t, top
<1>3. TableOK(t, top)
  BY <1>1, <1>2, Zenon DEF TableOK
<1>. QED
  BY <1>3, Zenon DEF t, top

\* Freeing an association lowers the maximum only past that one
\* (free_hip_assoc()).
LEMMA FreedKeeps ==
    ASSUME TableOK(table, max_hip_assoc), NEW s \in Slots, table[s].state # "UNASSOCIATED"
    PROVE  /\ TableOK(Freed(s), MaxWithout(s))
           /\ Freed(s)[s].state = "UNASSOCIATED"
           /\ \A t \in Slots : t # s => Freed(s)[t] = table[t]
<1>1. s \in 1..max_hip_assoc /\ max_hip_assoc \in 1..MaxAssocs
  BY HipAddrAssumption DEF TableOK, Slots
<1>2. MaxWithout(s) \in 0..MaxAssocs
  BY <1>1, HipAddrAssumption DEF MaxWithout
<1>3. Unassociated \in Assoc /\ Unassociated.state = "UNASSOCIATED" /\ Unassociated.addrs = <<>>
  BY DEF Unassociated, Assoc, States
<1>4. /\ Freed(s) \in [Slots -> Assoc] /\ Freed(s)[s] = Unassociated
      /\ \A t \in Slots : t # s => Freed(s)[t] = table[t]
  BY <1>3, Zenon DEF Freed, TableOK
<1>5. ASSUME NEW t \in Slots, t > MaxWithout(s) PROVE t = s \/ table[t].state = "UNASSOCIATED"
  BY <1>1, <1>5, HipAddrAssumption DEF MaxWithout, TableOK, Slots
<1>. QED
  BY <1>2, <1>3, <1>4, <1>5, Zenon DEF TableOK
=============================================================================
