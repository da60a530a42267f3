---------------------------- MODULE Lists_proofs ----------------------------
(***************************************************************************)
(* What the lists of basic/list.h keep: an item is linked once, and a walk *)
(* finds the item it looks for.                                            *)
(***************************************************************************)
EXTENDS Lists, WellFoundedInduction, FunctionTheorems, FiniteSetTheorems, TLAPS

\* Every item of a list is linked at one place only.
LinkedOnce(l) == \A i, j \in DOMAIN l : l[i] = l[j] => i = j

\* Least number principle: the index at which a walk stops.
LEMMA LeastNatural ==
    ASSUME NEW T \in SUBSET Nat, T # {}
    PROVE  \E x \in T : \A y \in T : x <= y
<1>1. \E R : /\ IsWellFoundedOn(R, Nat)
             /\ \A x, y \in Nat : x < y => <<x, y>> \in R
  <2>1. \A x, y \in Nat : x < y => <<x, y>> \in OpToRel(<, Nat)
    BY DEF OpToRel
  <2> QED BY <2>1, NatLessThanWellFounded, Zenon
<1>2. PICK R : /\ IsWellFoundedOn(R, Nat)
               /\ \A x, y \in Nat : x < y => <<x, y>> \in R
  BY <1>1
<1>3. IsWellFoundedOn(R, Nat) /\ T \subseteq Nat
  BY <1>2
<1>4. \E x \in T : \A y \in T : ~ (<<y, x>> \in R)
  BY <1>3, WFMin, Zenon
<1>5. PICK x \in T : \A y \in T : ~ (<<y, x>> \in R)
  BY <1>4
<1>6. \A y \in T : ~ (y < x)
  BY <1>2, <1>5
<1> QED BY <1>6

\* LIST_FOREACH finds a member of the set, or nothing.
LEMMA FirstInMember ==
    ASSUME NEW l, NEW S
    PROVE  FirstIn(l, S) \in S \cup {Nil}
BY DEF FirstIn

\* What LIST_FOREACH finds is linked.
LEMMA FirstInLinked ==
    ASSUME NEW l, NEW S
    PROVE  FirstIn(l, S) # Nil => FirstIn(l, S) \in S \cap Linked(l)
BY DEF FirstIn, Linked

\* LIST_FOREACH finds something when there is something to find.
LEMMA FirstInFound ==
    ASSUME NEW A, NEW l \in Seq(A), NEW S, Linked(l) \cap S # {}
    PROVE  FirstIn(l, S) \in S \cap Linked(l)
<1> DEFINE T == {i \in DOMAIN l : l[i] \in S}
<1>1. \E i \in T : \A j \in T : i <= j
  <2>1. T \in SUBSET Nat
    OBVIOUS
  <2>2. T # {}
    BY DEF Linked
  <2> HIDE DEF T
  <2> QED BY <2>1, <2>2, LeastNatural
<1>2. \E i \in DOMAIN l : l[i] \in S /\ \A j \in 1 .. i - 1 : l[j] \notin S
  BY <1>1
<1> QED BY <1>2 DEF FirstIn, Linked

\* A new item is linked, once, before the others.
LEMMA Prepended ==
    ASSUME NEW A, NEW l \in Seq(A), NEW s \in A
    PROVE  /\ LIST_PREPEND(l, s) \in Seq(A)
           /\ Linked(LIST_PREPEND(l, s)) = Linked(l) \cup {s}
           /\ LinkedOnce(l) /\ s \notin Linked(l) => LinkedOnce(LIST_PREPEND(l, s))
<1> DEFINE m == LIST_PREPEND(l, s)
<1>1. m \in Seq(A) /\ Len(m) = Len(l) + 1
  BY DEF LIST_PREPEND
<1>2. \A i \in DOMAIN m : m[i] = IF i = 1 THEN s ELSE l[i - 1]
  BY DEF LIST_PREPEND
<1>3. DOMAIN m = 1 .. Len(l) + 1 /\ DOMAIN l = 1 .. Len(l) /\ Len(l) \in Nat
  BY <1>1
<1> HIDE DEF m
<1>4. Linked(m) = Linked(l) \cup {s}
  <2>1. Linked(m) \subseteq Linked(l) \cup {s}
    BY <1>2, <1>3 DEF Linked
  <2>2. s \in Linked(m)
    BY <1>2, <1>3 DEF Linked
  <2>3. ASSUME NEW i \in DOMAIN l PROVE l[i] \in Linked(m)
    <3>1. i + 1 \in DOMAIN m /\ m[i + 1] = l[i]
      BY <1>2, <1>3
    <3> QED BY <3>1 DEF Linked
  <2> QED BY <2>1, <2>2, <2>3 DEF Linked
<1>5. ASSUME LinkedOnce(l), s \notin Linked(l) PROVE LinkedOnce(m)
  BY <1>2, <1>3, <1>5 DEF LinkedOnce, Linked
<1> QED BY <1>1, <1>4, <1>5 DEF m

\* Removing an item unlinks it and keeps the others, in their order.
LEMMA Removed ==
    ASSUME NEW A, NEW l \in Seq(A), NEW s \in Linked(l), LinkedOnce(l)
    PROVE  /\ LIST_REMOVE(l, s) \in Seq(A)
           /\ Linked(LIST_REMOVE(l, s)) = Linked(l) \ {s}
           /\ LinkedOnce(LIST_REMOVE(l, s))
<1> DEFINE k == CHOOSE k \in DOMAIN l : l[k] = s
           m == LIST_REMOVE(l, s)
<1>1. k \in DOMAIN l /\ l[k] = s
  BY DEF Linked
<1>2. m = SubSeq(l, 1, k - 1) \o SubSeq(l, k + 1, Len(l))
  BY DEF LIST_REMOVE
<1> HIDE DEF k, m
<1>3. /\ m \in Seq(A) /\ Len(m) = Len(l) - 1
      /\ \A i \in DOMAIN m : m[i] = IF i < k THEN l[i] ELSE l[i + 1]
  <2> DEFINE p == SubSeq(l, 1, k - 1)
             q == SubSeq(l, k + 1, Len(l))
  <2>1. /\ p \in Seq(A) /\ Len(p) = k - 1
        /\ \A i \in 1 .. k - 1 : p[i] = l[i]
    BY <1>1
  <2>2. /\ q \in Seq(A) /\ Len(q) = Len(l) - k
        /\ \A i \in 1 .. Len(l) - k : q[i] = l[k + i]
    BY <1>1
  <2>3. k \in 1 .. Len(l)
    BY <1>1
  <2>4. m = p \o q
    BY <1>2
  <2> HIDE DEF p, q
  <2>5. m \in Seq(A) /\ Len(m) = Len(l) - 1
    <3>1. p \o q \in Seq(A) /\ Len(p \o q) = Len(p) + Len(q)
      <4>1. p \in Seq(A) /\ q \in Seq(A)
        BY <2>1, <2>2
      <4> QED BY <4>1
    <3>2. Len(p) + Len(q) = Len(l) - 1
      <4>1. Len(l) \in Nat
        OBVIOUS
      <4>2. \A x, y \in Nat : y \in 1 .. x => (y - 1) + (x - y) = x - 1
        OBVIOUS
      <4> QED BY <4>1, <4>2, <2>1, <2>2, <2>3
    <3> QED BY <3>1, <3>2, <2>4, Zenon
  <2>6. ASSUME NEW i \in 1 .. Len(l) - 1
        PROVE  m[i] = IF i < k THEN l[i] ELSE l[i + 1]
    <3>1. CASE i < k
      BY <3>1, <2>1, <2>2, <2>3, <2>4
    <3>2. CASE i >= k
      <4>1. m[i] = q[i - (k - 1)]
        BY <3>2, <2>1, <2>2, <2>3, <2>4
      <4> QED BY <4>1, <3>2, <2>2, <2>3
    <3> QED BY <3>1, <3>2, <2>3
  <2> QED BY <2>5, <2>6
<1>4. /\ DOMAIN m = 1 .. Len(l) - 1 /\ DOMAIN l = 1 .. Len(l)
      /\ Len(l) \in Nat /\ k \in 1 .. Len(l)
  BY <1>1, <1>3
<1>5. Linked(m) = Linked(l) \ {s}
  <2>1. ASSUME NEW i \in DOMAIN m PROVE m[i] \in Linked(l) \ {s}
    BY <1>1, <1>3, <1>4 DEF Linked, LinkedOnce
  <2>2. ASSUME NEW i \in DOMAIN l, i # k PROVE l[i] \in Linked(m)
    <3>1. CASE i < k
      BY <3>1, <1>3, <1>4 DEF Linked
    <3>2. CASE i > k
      <4>1. i - 1 \in DOMAIN m /\ m[i - 1] = l[i]
        BY <3>2, <1>3, <1>4
      <4> QED BY <4>1 DEF Linked
    <3> QED BY <2>2, <3>1, <3>2, <1>4
  <2> QED BY <2>1, <2>2, <1>1 DEF Linked
<1>6. LinkedOnce(m)
  BY <1>3, <1>4 DEF LinkedOnce
<1> QED BY <1>3, <1>5, <1>6 DEF m

\* A list that links every item once is as long as it has items.
LEMMA LinkedCount ==
    ASSUME NEW A, NEW l \in Seq(A), LinkedOnce(l)
    PROVE  IsFiniteSet(Linked(l)) /\ Cardinality(Linked(l)) = Len(l)
<1>1. Len(l) \in Nat /\ DOMAIN l = 1 .. Len(l)
  OBVIOUS
<1>2. l \in Bijection(1 .. Len(l), Linked(l))
  <2>1. l \in [1 .. Len(l) -> Linked(l)]
    BY <1>1 DEF Linked
  <2>2. l \in Injection(1 .. Len(l), Linked(l))
    BY <1>1, <2>1 DEF Injection, IsInjective, LinkedOnce
  <2>3. l \in Surjection(1 .. Len(l), Linked(l))
    BY <1>1, <2>1 DEF Surjection, Linked
  <2> QED BY <2>2, <2>3 DEF Bijection
<1>3. ExistsBijection(1 .. Len(l), Linked(l))
  BY <1>2 DEF ExistsBijection
<1> QED BY <1>1, <1>3, FS_CountingElements, FS_NatBijection
=============================================================================
