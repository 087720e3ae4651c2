-------------------------- MODULE FrameworkProofs --------------------------
(***************************************************************************)
(* The safety of the framework's parts that MCFramework puts together, for *)
(* any claims, tasks, capacity of a queue, values, events and blocks: each *)
(* part has an inductive invariant, and a step of one part is none of the  *)
(* others.                                                                 *)
(***************************************************************************)
EXTENDS MCFramework, SequenceTheorems, WellFoundedInduction, TLAPS

-----------------------------------------------------------------------------
(* Claimable. *)

(* There is a place to insert a claim: the first element of a lower        *)
(* priority, or the end.                                                   *)
LEMMA InsertProperties ==
  ASSUME NEW l \in Seq(Claims), NEW c \in Claims
  PROVE  /\ Insert(l, c) \in Seq(Claims)
         /\ Len(Insert(l, c)) = Len(l) + 1
         /\ \A d \in Claims :
              Member(Insert(l, c), d) <=> d = c \/ Member(l, d)
         /\ \E p \in 1..(Len(l) + 1) :
              /\ Insert(l, c) = [k \in 1..(Len(l) + 1) |->
                   IF k < p THEN l[k] ELSE IF k = p THEN c ELSE l[k - 1]]
              /\ p <= Len(l) => Prio[l[p]] > Prio[c]
              /\ \A j \in 1..(p - 1) : Prio[l[j]] <= Prio[c]
<1> USE ClaimAssumption DEF Member
<1> DEFINE Place(i) == /\ i <= Len(l) => Prio[l[i]] > Prio[c]
                       /\ \A j \in 1..(i - 1) : Prio[l[j]] <= Prio[c]
           P == CHOOSE i \in 1..(Len(l) + 1) : Place(i)
           More == {i \in 1..Len(l) : Prio[l[i]] > Prio[c]}
<1>1. \E i \in 1..(Len(l) + 1) : Place(i)
  <2>1. CASE More = {}
    <3>1. Place(Len(l) + 1)
      BY <2>1
    <3> QED
      BY <3>1
  <2>2. CASE More # {}
    <3>1. More \in SUBSET Nat
      OBVIOUS
    <3>2. PICK m \in More : \A n \in More : m <= n
      <4> DEFINE R == OpToRel(<, Nat)
      <4>1. IsWellFoundedOn(R, Nat)
        BY NatLessThanWellFounded
      <4>2. \A i, j \in Nat : i < j => <<i, j>> \in R
        BY DEF OpToRel
      <4> HIDE DEF R
      <4>3. \E m \in More : \A n \in More : <<n, m>> \notin R
        BY <2>2, <3>1, <4>1, WFMin
      <4>4. PICK m \in More : \A n \in More : <<n, m>> \notin R
        BY <4>3
      <4>5. ASSUME NEW n \in More PROVE m <= n
        <5>1. m \in Nat /\ n \in Nat
          BY <3>1
        <5>2. ~(n < m)
          BY <4>2, <4>4, <5>1
        <5> QED
          BY <5>1, <5>2
      <4> QED
        BY <4>5
    <3>3. Place(m)
      BY <3>2
    <3> QED
      BY <3>3
  <2> QED
    BY <2>1, <2>2
<1>2. P \in 1..(Len(l) + 1) /\ Place(P)
  BY <1>1
<1>3. Insert(l, c) = [k \in 1..(Len(l) + 1) |->
          IF k < P THEN l[k] ELSE IF k = P THEN c ELSE l[k - 1]]
  BY DEF Insert
<1> HIDE DEF P, Place
<1>4. Insert(l, c) \in Seq(Claims) /\ Len(Insert(l, c)) = Len(l) + 1
  BY <1>2, <1>3
<1>5. ASSUME NEW d \in Claims, NEW i \in 1..Len(l), l[i] = d
      PROVE  \E k \in 1..(Len(l) + 1) : Insert(l, c)[k] = d
  <2>1. CASE i < P
    BY <1>2, <1>3, <1>5, <2>1
  <2>2. CASE i >= P
    <3>1. Insert(l, c)[i + 1] = d
      BY <1>2, <1>3, <1>5, <2>2
    <3> QED
      BY <3>1
  <2> QED
    BY <1>2, <2>1, <2>2
<1>6. Insert(l, c)[P] = c
  BY <1>2, <1>3
<1>7. ASSUME NEW d \in Claims, NEW k \in 1..(Len(l) + 1), Insert(l, c)[k] = d
      PROVE  d = c \/ \E i \in 1..Len(l) : l[i] = d
  BY <1>2, <1>3, <1>7
<1>8. \E p \in 1..(Len(l) + 1) :
        /\ Insert(l, c) = [k \in 1..(Len(l) + 1) |->
             IF k < p THEN l[k] ELSE IF k = p THEN c ELSE l[k - 1]]
        /\ p <= Len(l) => Prio[l[p]] > Prio[c]
        /\ \A j \in 1..(p - 1) : Prio[l[j]] <= Prio[c]
  BY <1>2, <1>3 DEF Place
<1>9. \A d \in Claims : Member(Insert(l, c), d) <=> d = c \/ Member(l, d)
  BY <1>2, <1>4, <1>5, <1>6, <1>7
<1> QED
  BY <1>4, <1>8, <1>9

(* Removing a claim leaves the others in the list, in their order.         *)
LEMMA RemoveProperties ==
  ASSUME NEW l \in Seq(Claims), NEW c \in Claims, Member(l, c),
         \A i, j \in 1..Len(l) : i < j => l[i] # l[j]
  PROVE  /\ Remove(l, c) \in Seq(Claims)
         /\ \A d \in Claims : Member(Remove(l, c), d) <=> d # c /\ Member(l, d)
         /\ \E p \in 1..Len(l) : /\ l[p] = c
                                /\ Remove(l, c) = [k \in 1..(Len(l) - 1) |->
                                     IF k < p THEN l[k] ELSE l[k + 1]]
<1> USE DEF Member
<1> DEFINE P == CHOOSE i \in 1..Len(l) : l[i] = c
<1>1. P \in 1..Len(l) /\ l[P] = c
  OBVIOUS
<1>2. Remove(l, c) = [k \in 1..(Len(l) - 1) |->
                        IF k < P THEN l[k] ELSE l[k + 1]]
  BY DEF Remove
<1> HIDE DEF P
<1>3. Remove(l, c) \in Seq(Claims) /\ Len(Remove(l, c)) = Len(l) - 1
  BY <1>1, <1>2
<1>4. ASSUME NEW d \in Claims \ {c}, NEW i \in 1..Len(l), l[i] = d
      PROVE  \E k \in 1..(Len(l) - 1) : Remove(l, c)[k] = d
  <2>1. CASE i < P
    BY <1>1, <1>2, <1>4, <2>1
  <2>2. CASE i > P
    <3>1. Remove(l, c)[i - 1] = d
      BY <1>1, <1>2, <1>4, <2>2
    <3> QED
      BY <1>1, <2>2, <3>1
  <2> QED
    BY <1>1, <1>4, <2>1, <2>2
<1>5. ASSUME NEW k \in 1..(Len(l) - 1)
      PROVE  Remove(l, c)[k] # c /\ \E i \in 1..Len(l) : l[i] = Remove(l, c)[k]
  <2>1. CASE k < P
    BY <1>1, <1>2, <2>1
  <2>2. CASE k >= P
    <3>1. Remove(l, c)[k] = l[k + 1] /\ k + 1 \in 1..Len(l) /\ P < k + 1
      BY <1>1, <1>2, <2>2
    <3> QED
      BY <1>1, <3>1
  <2> QED
    BY <1>1, <2>1, <2>2
<1>6. \A d \in Claims : Member(Remove(l, c), d) <=> d # c /\ Member(l, d)
  BY <1>3, <1>4, <1>5
<1> QED
  BY <1>1, <1>2, <1>3, <1>6

(* If nobody has an Access, notify_head makes the head the only one.       *)
LEMMA NotifyProperties ==
  ASSUME NEW l \in Seq(Claims), NEW a \in [Claims -> Nat],
         \A c \in Claims : a[c] = 0
  PROVE  /\ NotifyHead(l, a) \in [Claims -> Nat]
         /\ \A c \in Claims : NotifyHead(l, a)[c] <= 1
         /\ \A c, d \in Claims :
              NotifyHead(l, a)[c] > 0 /\ NotifyHead(l, a)[d] > 0 => c = d
         /\ l # << >> => \E c \in Claims : NotifyHead(l, a)[c] > 0
         /\ \A c \in Claims : NotifyHead(l, a)[c] > 0 <=> l # << >> /\ c = l[1]
         /\ \A c \in Claims : NotifyHead(l, a)[c] > 0 => Member(l, c)
<1>1. CASE l = << >>
  BY <1>1 DEF NotifyHead
<1>2. CASE l # << >>
  <2>1. l[1] \in Claims /\ Member(l, l[1])
    BY <1>2 DEF Member
  <2>2. NotifyHead(l, a) = [a EXCEPT ![l[1]] = a[l[1]] + 1]
    BY <1>2 DEF NotifyHead
  <2> QED
    BY <1>2, <2>1, <2>2
<1> QED
  BY <1>1, <1>2

LEMMA InitIInv == Init => IInv
  BY DEF Init, IInv, TypeOK, MutualExclusion, HandedOver, HolderIsListed,
         Holders, InList, ListInOrder, HistoryInOrder

(* A claim comes into the list behind those it does not precede.           *)
LEMMA ClaimInOrder ==
  ASSUME IInv, NEW c \in Claims, Claim(c)
  PROVE  ListInOrder' /\ HistoryInOrder'
<1>1. /\ list \in Seq(Claims) /\ Len(list) \in Nat /\ ~InList(c)
      /\ earlier \in [Claims -> SUBSET Claims]
      /\ \A i \in 1..Len(list) : list[i] \in Claims
      /\ Prio \in [Claims -> Int]
  <2>1. list \in Seq(Claims) /\ earlier \in [Claims -> SUBSET Claims] /\ ~InList(c)
    BY DEF IInv, TypeOK, Claim
  <2>2. Len(list) \in Nat /\ \A i \in 1..Len(list) : list[i] \in Claims
    BY <2>1
  <2>3. Prio \in [Claims -> Int]
    BY ClaimAssumption
  <2> QED
    BY <2>1, <2>2, <2>3
<1>2. /\ list' = Insert(list, c)
      /\ \A d \in Claims : earlier'[d] = IF d = c THEN {e \in Claims : InList(e)}
                                                 ELSE earlier[d]
  BY <1>1 DEF Claim
<1>3. /\ list' \in Seq(Claims) /\ Len(list') = Len(list) + 1
      /\ \A d \in Claims : InList(d)' <=> d = c \/ InList(d)
  BY <1>1, <1>2, InsertProperties DEF InList
<1>4. PICK p \in 1..(Len(list) + 1) :
        /\ list' = [k \in 1..(Len(list) + 1) |->
             IF k < p THEN list[k] ELSE IF k = p THEN c ELSE list[k - 1]]
        /\ p <= Len(list) => Prio[list[p]] > Prio[c]
        /\ \A j \in 1..(p - 1) : Prio[list[j]] <= Prio[c]
  BY <1>1, <1>2, InsertProperties
<1> DEFINE n == Len(list)
<1>5. /\ \A k \in 1..(p - 1) : list'[k] = list[k] /\ k \in 1..n
      /\ list'[p] = c
      /\ \A k \in (p + 1)..(n + 1) : list'[k] = list[k - 1] /\ k - 1 \in 1..n
  BY <1>1, <1>4
<1>6. \A k \in 1..n : list[k] # c /\ InList(list[k])
  BY <1>1 DEF InList, Member
<1>7. ASSUME NEW i \in 1..n, NEW j \in 1..n, i < j
      PROVE  /\ list[i] # list[j] /\ Prio[list[i]] <= Prio[list[j]]
             /\ \/ Prio[list[i]] < Prio[list[j]]
                \/ Prio[list[i]] = Prio[list[j]] /\ list[i] \in earlier'[list[j]]
  <2>1. /\ list[i] # list[j]
        /\ \/ Prio[list[i]] < Prio[list[j]]
           \/ Prio[list[i]] = Prio[list[j]] /\ list[i] \in earlier[list[j]]
    BY <1>7 DEF IInv, ListInOrder
  <2>2. list[i] \in Claims /\ list[j] \in Claims /\ list[j] # c
    BY <1>1, <1>6
  <2>3. Prio[list[i]] \in Int /\ Prio[list[j]] \in Int
    BY <1>1, <2>2
  <2>4. Prio[list[i]] <= Prio[list[j]]
    BY <2>1, <2>3
  <2>5. earlier'[list[j]] = earlier[list[j]]
    BY <1>2, <2>2
  <2> QED
    BY <2>1, <2>4, <2>5
<1>8. \A k \in p..n : Prio[list[k]] > Prio[c]
  <2>1. ASSUME NEW k \in p..n PROVE Prio[list[k]] > Prio[c]
    <3>1. p \in 1..n /\ Prio[list[p]] > Prio[c] /\ Prio[list[p]] \in Int
      BY <1>1, <1>4, <2>1
    <3>2. k # p => Prio[list[p]] <= Prio[list[k]]
      BY <1>1, <1>7, <2>1, <3>1
    <3>3. Prio[c] \in Int /\ Prio[list[k]] \in Int
      BY <1>1, <2>1, <3>1
    <3> QED
      BY <3>1, <3>2, <3>3
  <2> QED
    BY <2>1
<1>9. ASSUME NEW i \in 1..(n + 1), NEW j \in 1..(n + 1), i < j
      PROVE  /\ list'[i] # list'[j]
             /\ \/ Prio[list'[i]] < Prio[list'[j]]
                \/ Prio[list'[i]] = Prio[list'[j]] /\ list'[i] \in earlier'[list'[j]]
  <2>1. CASE j < p
    <3>1. i \in 1..(p - 1) /\ j \in 1..(p - 1)
      BY <1>1, <1>9, <2>1
    <3> QED
      BY <1>5, <1>7, <1>9, <3>1
  <2>2. CASE j = p
    <3>1. i \in 1..(p - 1)
      BY <1>1, <1>9, <2>2
    <3>2. list'[i] = list[i] /\ list'[j] = c /\ i \in 1..n
      BY <1>5, <2>2, <3>1
    <3>3. list[i] \in earlier'[c]
      BY <1>1, <1>2, <1>6, <3>2
    <3>4. Prio[list[i]] <= Prio[c] /\ Prio[list[i]] \in Int /\ Prio[c] \in Int
      BY <1>1, <1>4, <3>1, <3>2
    <3> QED
      BY <1>6, <3>2, <3>3, <3>4
  <2>3. CASE i = p
    <3>1. j \in (p + 1)..(n + 1) /\ j - 1 \in p..n
      BY <1>1, <1>9, <2>3
    <3>2. list'[j] = list[j - 1] /\ list'[i] = c /\ j - 1 \in 1..n
      BY <1>5, <2>3, <3>1
    <3>3. Prio[list[j - 1]] > Prio[c] /\ list[j - 1] # c
      BY <1>6, <1>8, <3>1, <3>2
    <3>4. Prio[c] \in Int /\ Prio[list[j - 1]] \in Int
      BY <1>1, <3>2
    <3> QED
      BY <3>2, <3>3, <3>4
  <2>4. CASE i < p /\ j > p
    <3>1. i \in 1..(p - 1) /\ j \in (p + 1)..(n + 1) /\ i < j - 1
      BY <1>1, <1>9, <2>4
    <3> QED
      BY <1>5, <1>7, <3>1
  <2>5. CASE i > p
    <3>1. i \in (p + 1)..(n + 1) /\ j \in (p + 1)..(n + 1) /\ i - 1 < j - 1
      BY <1>1, <1>9, <2>5
    <3> QED
      BY <1>5, <1>7, <3>1
  <2> QED
    BY <1>1, <2>1, <2>2, <2>3, <2>4, <2>5
<1>10. ListInOrder'
  BY <1>1, <1>3, <1>9 DEF ListInOrder
<1>11. HistoryInOrder'
  <2>1. ASSUME NEW d \in Claims, NEW e \in Claims, d \in earlier'[e]
        PROVE  InList(d)' /\ InList(e)' /\ d # e /\ e \notin earlier'[d]
    <3>1. CASE e = c
      <4>1. InList(d) /\ d # c
        BY <1>1, <1>2, <2>1, <3>1
      <4>2. c \notin earlier[d]
        BY <1>1 DEF IInv, HistoryInOrder
      <4> QED
        BY <1>2, <1>3, <3>1, <4>1, <4>2
    <3>2. CASE e # c
      <4>1. d \in earlier[e]
        BY <1>2, <2>1, <3>2
      <4>2. InList(d) /\ InList(e) /\ d # e /\ e \notin earlier[d]
        BY <4>1 DEF IInv, HistoryInOrder
      <4>3. d # c
        BY <1>1, <4>2
      <4> QED
        BY <1>2, <1>3, <4>2, <4>3
    <3> QED
      BY <3>1, <3>2
  <2> QED
    BY <2>1 DEF HistoryInOrder
<1> QED
  BY <1>10, <1>11

(* The others stay in order when a claim leaves the list.                  *)
LEMMA RemovalInOrder ==
  ASSUME IInv, NEW c \in Claims, InList(c),
         list' = Remove(list, c), earlier' = Forget(c)
  PROVE  /\ list' \in Seq(Claims) /\ earlier' \in [Claims -> SUBSET Claims]
         /\ \A d \in Claims : InList(d)' <=> d # c /\ InList(d)
         /\ ListInOrder' /\ HistoryInOrder'
<1>1. /\ list \in Seq(Claims) /\ Len(list) \in Nat
      /\ earlier \in [Claims -> SUBSET Claims]
      /\ \A i \in 1..Len(list) : list[i] \in Claims
      /\ \A i, j \in 1..Len(list) : i < j => list[i] # list[j]
  <2>1. list \in Seq(Claims) /\ earlier \in [Claims -> SUBSET Claims]
    BY DEF IInv, TypeOK
  <2>2. Len(list) \in Nat /\ \A i \in 1..Len(list) : list[i] \in Claims
    BY <2>1
  <2>3. \A i, j \in 1..Len(list) : i < j => list[i] # list[j]
    BY DEF IInv, ListInOrder
  <2> QED
    BY <2>1, <2>2, <2>3
<1>2. /\ list' \in Seq(Claims)
      /\ \A d \in Claims : InList(d)' <=> d # c /\ InList(d)
  BY <1>1, RemoveProperties DEF InList
<1>3. PICK p \in 1..Len(list) :
        /\ list[p] = c
        /\ list' = [k \in 1..(Len(list) - 1) |-> IF k < p THEN list[k] ELSE list[k + 1]]
  BY <1>1, RemoveProperties DEF InList
<1>4. /\ earlier' \in [Claims -> SUBSET Claims]
      /\ \A d \in Claims : earlier'[d] = IF d = c THEN {} ELSE earlier[d] \ {c}
  BY <1>1 DEF Forget
<1> DEFINE n == Len(list)
           q(k) == IF k < p THEN k ELSE k + 1
<1>5. /\ Len(list') = n - 1
      /\ \A k \in 1..(n - 1) : q(k) \in 1..n /\ list'[k] = list[q(k)] /\ list'[k] # c
      /\ \A i, j \in 1..(n - 1) : i < j => q(i) < q(j)
  <2>1. Len(list') = n - 1
    BY <1>1, <1>2, <1>3
  <2>2. ASSUME NEW k \in 1..(n - 1)
        PROVE  q(k) \in 1..n /\ list'[k] = list[q(k)] /\ list'[k] # c
    <3>1. q(k) \in 1..n /\ list'[k] = list[q(k)] /\ q(k) # p
      BY <1>1, <1>3
    <3>2. q(k) < p \/ p < q(k)
      BY <1>1, <3>1
    <3> HIDE DEF q
    <3> QED
      BY <1>1, <1>3, <3>1, <3>2
  <2>3. \A i, j \in 1..(n - 1) : i < j => q(i) < q(j)
    BY <1>1, <1>3
  <2> QED
    BY <2>1, <2>2, <2>3
<1> HIDE DEF q
<1>6. ASSUME NEW i \in 1..(n - 1), NEW j \in 1..(n - 1), i < j
      PROVE  /\ list'[i] # list'[j]
             /\ \/ Prio[list'[i]] < Prio[list'[j]]
                \/ Prio[list'[i]] = Prio[list'[j]] /\ list'[i] \in earlier'[list'[j]]
  <2>1. q(i) \in 1..n /\ q(j) \in 1..n /\ q(i) < q(j)
    BY <1>5, <1>6
  <2>2. /\ list[q(i)] # list[q(j)]
        /\ \/ Prio[list[q(i)]] < Prio[list[q(j)]]
           \/ /\ Prio[list[q(i)]] = Prio[list[q(j)]]
              /\ list[q(i)] \in earlier[list[q(j)]]
    BY <2>1 DEF IInv, ListInOrder
  <2>3. list[q(i)] # c /\ list[q(j)] # c /\ list[q(j)] \in Claims
    BY <1>1, <1>5, <2>1
  <2> QED
    BY <1>4, <1>5, <2>2, <2>3
<1>7. ListInOrder'
  BY <1>5, <1>6 DEF ListInOrder
<1>8. HistoryInOrder'
  <2>1. ASSUME NEW d \in Claims, NEW e \in Claims, d \in earlier'[e]
        PROVE  InList(d)' /\ InList(e)' /\ d # e /\ e \notin earlier'[d]
    <3>1. d \in earlier[e] /\ d # c /\ e # c
      BY <1>4, <2>1
    <3> QED
      BY <1>2, <1>4, <3>1 DEF IInv, HistoryInOrder
  <2> QED
    BY <2>1 DEF HistoryInOrder
<1> QED
  BY <1>2, <1>4, <1>7, <1>8

LEMMA NextIInv == IInv /\ [Next]_vars => IInv'
<1> SUFFICES ASSUME IInv, [Next]_vars PROVE IInv'
  OBVIOUS
<1> USE DEF TypeOK, MutualExclusion, HandedOver, HolderIsListed, Holders
<1>0. /\ list \in Seq(Claims) /\ access \in [Claims -> Nat]
      /\ earlier \in [Claims -> SUBSET Claims]
      /\ MutualExclusion /\ HandedOver /\ HolderIsListed
  BY DEF IInv
<1>1. ASSUME NEW c \in Claims, Claim(c) PROVE IInv'
  <2>1. /\ list' \in Seq(Claims)
        /\ Len(list') = Len(list) + 1
        /\ \A d \in Claims : InList(d)' <=> d = c \/ InList(d)
    BY <1>0, <1>1, InsertProperties DEF Claim, InList
  <2>2. earlier' \in [Claims -> SUBSET Claims]
    BY <1>0, <1>1 DEF Claim
  <2>3. ListInOrder' /\ HistoryInOrder'
    BY <1>1, ClaimInOrder
  <2>4. CASE list = << >>
    <3>1. \A d \in Claims : access[d] = 0
      BY <1>0, <2>4 DEF Member, InList
    <3>2. access' = NotifyHead(list', access)
      BY <1>1, <2>4 DEF Claim
    <3>3. /\ access' \in [Claims -> Nat]
          /\ MutualExclusion' /\ HandedOver'
          /\ \A d \in Claims : access'[d] > 0 => InList(d)'
      BY <1>0, <2>1, <3>1, <3>2, NotifyProperties DEF InList
    <3> QED
      BY <2>1, <2>2, <2>3, <3>3 DEF IInv
  <2>5. CASE list # << >>
    <3>1. access' = access
      BY <1>1, <2>5 DEF Claim
    <3> QED
      BY <1>0, <2>1, <2>2, <2>3, <2>5, <3>1 DEF IInv
  <2> QED
    BY <2>4, <2>5
<1>2. ASSUME NEW c \in Claims, Withdraw(c) PROVE IInv'
  <2>1. /\ list' \in Seq(Claims) /\ earlier' \in [Claims -> SUBSET Claims]
        /\ \A d \in Claims : InList(d)' <=> d # c /\ InList(d)
        /\ ListInOrder' /\ HistoryInOrder'
    BY <1>2, RemovalInOrder DEF Withdraw
  <2>2. list # << >> /\ access' = access /\ access[c] = 0
    BY <1>2 DEF Withdraw, InList, Member
  <2> QED
    BY <1>0, <2>1, <2>2 DEF IInv
<1>3. ASSUME NEW c \in Claims, Release(c) PROVE IInv'
  <2>1. /\ list' \in Seq(Claims) /\ earlier' \in [Claims -> SUBSET Claims]
        /\ ListInOrder' /\ HistoryInOrder'
    BY <1>0, <1>3, RemovalInOrder DEF Release
  <2> DEFINE a == [access EXCEPT ![c] = access[c] - 1]
  <2>2. a \in [Claims -> Nat] /\ \A d \in Claims : a[d] = 0
    BY <1>0, <1>3 DEF Release
  <2>3. access' = NotifyHead(list', a)
    BY <1>3 DEF Release
  <2> HIDE DEF a
  <2>4. /\ access' \in [Claims -> Nat]
        /\ MutualExclusion' /\ HandedOver'
        /\ \A d \in Claims : access'[d] > 0 => InList(d)'
    BY <2>1, <2>2, <2>3, NotifyProperties DEF InList
  <2> QED
    BY <2>1, <2>4 DEF IInv
<1>4. CASE UNCHANGED vars
  BY <1>4 DEF vars, IInv, InList, ListInOrder, HistoryInOrder
<1> QED
  BY <1>1, <1>2, <1>3, <1>4 DEF Next

(* Who has the resource, seen as the holder of the lock.                   *)
HolderOf(a) ==
  IF {c \in Claims : a[c] > 0} = {} THEN None ELSE CHOOSE c \in Claims : a[c] > 0

LEMMA HolderIs ==
  ASSUME NEW a \in [Claims -> Nat],
         \A c, d \in Claims : a[c] > 0 /\ a[d] > 0 => c = d
  PROVE  /\ \A c \in Claims : a[c] > 0 => HolderOf(a) = c
         /\ (\A c \in Claims : a[c] = 0) => HolderOf(a) = None
<1>1. ASSUME NEW c \in Claims, a[c] > 0 PROVE HolderOf(a) = c
  <2>1. \A d \in Claims : a[d] > 0 => d = c
    BY <1>1
  <2> QED
    BY <1>1, <2>1 DEF HolderOf
<1>2. ASSUME \A c \in Claims : a[c] = 0 PROVE HolderOf(a) = None
  BY <1>2 DEF HolderOf
<1> QED
  BY <1>1, <1>2

Before(c) == IF c \in Waiting THEN earlier[c] \cap Waiting ELSE {}

(* Claimable::claim asks for the lock.                                     *)
LEMMA ClaimIsAsk ==
  ASSUME IInv, IInv', NEW c \in Claims, Claim(c)
  PROVE  Lock!Ask(c)
<1>1. /\ access \in [Claims -> Nat] /\ MutualExclusion /\ HandedOver /\ HolderIsListed
      /\ earlier \in [Claims -> SUBSET Claims] /\ HistoryInOrder
      /\ list \in Seq(Claims)
      /\ access' \in [Claims -> Nat] /\ MutualExclusion'
  BY DEF IInv, TypeOK
<1>7. /\ TheHolder = HolderOf(access) /\ TheHolder' = HolderOf(access')
      /\ \A d, e \in Claims : access[d] > 0 /\ access[e] > 0 => d = e
      /\ \A d, e \in Claims : access'[d] > 0 /\ access'[e] > 0 => d = e
  BY <1>1 DEF TheHolder, Holders, HolderOf, MutualExclusion
<1>2. /\ ~InList(c) /\ access[c] = 0 /\ list' = Insert(list, c)
      /\ access' = IF list = << >> THEN NotifyHead(list', access) ELSE access
      /\ \A d \in Claims : earlier'[d] = IF d = c THEN {e \in Claims : InList(e)}
                                                  ELSE earlier[d]
  BY <1>1 DEF Claim
<1>3. /\ list' \in Seq(Claims) /\ Len(list') = Len(list) + 1
      /\ \A d \in Claims : InList(d)' <=> d = c \/ InList(d)
  BY <1>1, <1>2, InsertProperties DEF InList
<1>4. c \notin Waiting /\ c # TheHolder
  <2>4. \A d \in Claims : access[d] > 0 => TheHolder = d
    BY <1>1, <1>7, HolderIs
  <2>5. access[c] = 0 /\ c \in Claims
    BY <1>2
  <2>1. \A d \in Claims : access[d] > 0 => d # c /\ TheHolder = d
    BY <2>4, <2>5
  <2>2. (\A d \in Claims : access[d] = 0) => TheHolder = None
    BY <1>1, <1>7, HolderIs
  <2>3. (\A d \in Claims : access[d] = 0) \/ \E d \in Claims : access[d] > 0
    BY <1>1
  <2> QED
    BY <1>2, <2>1, <2>2, <2>3, ClaimAssumption DEF Waiting
<1>5. CASE list = << >>
  <2>1. \A d \in Claims : ~InList(d) /\ access[d] = 0
    BY <1>1, <1>5 DEF InList, Member, HolderIsListed
  <2>2. TheHolder = None /\ Waiting = {}
    BY <1>1, <1>7, <2>1, HolderIs DEF Waiting
  <2>3. access'[c] > 0
    <3>1. list' # << >> /\ list'[1] = c
      <4>1. Len(list') = 1 /\ list'[1] \in Claims
        BY <1>3, <1>5
      <4> QED
        BY <1>3, <2>1, <4>1 DEF InList, Member
    <3> QED
      BY <1>1, <1>2, <1>3, <1>5, <2>1, <3>1, NotifyProperties
  <2>4. \A d \in Claims : access'[d] > 0 => d = c
    BY <1>1, <2>3 DEF MutualExclusion
  <2>5. Waiting' = {}
    BY <1>1, <1>3, <2>1, <2>3, <2>4 DEF Waiting
  <2>6. TheHolder' = c
    BY <1>1, <1>7, <2>3, HolderIs
  <2> QED
    BY <1>4, <2>2, <2>5, <2>6 DEF Lock!Ask
<1>6. CASE list # << >>
  <2>1. PICK h \in Claims : access[h] > 0
    BY <1>1, <1>6 DEF HandedOver, Holders
  <2>2. /\ access' = access /\ TheHolder' = TheHolder /\ TheHolder = h
        /\ TheHolder # None
    BY <1>1, <1>2, <1>6, <1>7, <2>1, HolderIs, ClaimAssumption
  <2>3. Waiting' = Waiting \cup {c}
    BY <1>2, <1>3, <2>2 DEF Waiting
  <2>4. ASSUME NEW d \in Claims
        PROVE  Before(d)' = IF d = c THEN Waiting ELSE Before(d)
    <3>1. CASE d = c
      BY <1>2, <1>4, <2>3, <3>1 DEF Before, Waiting
    <3>2. CASE d # c
      <4>1. c \notin earlier[d]
        BY <1>1, <1>2 DEF HistoryInOrder
      <4> QED
        BY <1>2, <2>3, <3>2, <4>1 DEF Before
    <3> QED
      BY <3>1, <3>2
  <2>5. [d \in Claims |-> Before(d)]' = [[d \in Claims |-> Before(d)] EXCEPT ![c] = Waiting]
    BY <2>4
  <2> QED
    BY <1>4, <2>2, <2>3, <2>5 DEF Lock!Ask, Before
<1> QED
  BY <1>5, <1>6

(* ~Claim of a claim that waits withdraws it from the lock.                *)
LEMMA WithdrawIsWithdraw ==
  ASSUME IInv, NEW c \in Claims, Withdraw(c)
  PROVE  Lock!Withdraw(c)
<1>1. /\ InList(c) /\ access[c] = 0 /\ access' = access
      /\ earlier \in [Claims -> SUBSET Claims]
  BY DEF Withdraw, IInv, TypeOK
<1>2. /\ \A d \in Claims : InList(d)' <=> d # c /\ InList(d)
      /\ \A d \in Claims : earlier'[d] = IF d = c THEN {} ELSE earlier[d] \ {c}
  BY <1>1, RemovalInOrder DEF Withdraw, Forget
<1>3. c \in Waiting /\ Waiting' = Waiting \ {c}
  BY <1>1, <1>2 DEF Waiting
<1>4. TheHolder' = TheHolder
  BY <1>1 DEF TheHolder, Holders
<1>5. \A d \in Claims : Before(d)' = IF d = c THEN {} ELSE Before(d) \ {c}
  BY <1>2, <1>3 DEF Before
<1>6. [d \in Claims |-> Before(d)]' =
        [d \in Claims |-> IF d = c THEN {} ELSE [e \in Claims |-> Before(e)][d] \ {c}]
  BY <1>5
<1> QED
  BY <1>3, <1>4, <1>6 DEF Lock!Withdraw, Lock!Leave, Before

(* ~Access hands the lock over to the best waiter.                         *)
LEMMA ReleaseIsHandOver ==
  ASSUME IInv, IInv', NEW c \in Claims, Release(c)
  PROVE  Lock!HandOver
<1>1. /\ access \in [Claims -> Nat] /\ MutualExclusion /\ HolderIsListed
      /\ earlier \in [Claims -> SUBSET Claims] /\ HistoryInOrder
      /\ list \in Seq(Claims) /\ list' \in Seq(Claims)
      /\ access' \in [Claims -> Nat] /\ MutualExclusion' /\ ListInOrder'
  BY DEF IInv, TypeOK
<1>2. /\ TheHolder = HolderOf(access) /\ TheHolder' = HolderOf(access')
      /\ \A d, e \in Claims : access[d] > 0 /\ access[e] > 0 => d = e
      /\ \A d, e \in Claims : access'[d] > 0 /\ access'[e] > 0 => d = e
  BY <1>1 DEF TheHolder, Holders, HolderOf, MutualExclusion
<1> DEFINE a == [access EXCEPT ![c] = access[c] - 1]
<1>3. /\ access[c] > 0 /\ list' = Remove(list, c)
      /\ access' = NotifyHead(list', a) /\ earlier' = Forget(c)
  BY DEF Release
<1>4. InList(c) /\ \A d \in Claims : d # c => access[d] = 0
  BY <1>1, <1>2, <1>3 DEF HolderIsListed
<1>5. a \in [Claims -> Nat] /\ \A d \in Claims : a[d] = 0
  BY <1>1, <1>3, <1>4 DEF MutualExclusion
<1> HIDE DEF a
<1>6. /\ \A d \in Claims : InList(d)' <=> d # c /\ InList(d)
      /\ \A d \in Claims : earlier'[d] = IF d = c THEN {} ELSE earlier[d] \ {c}
  BY <1>3, <1>4, RemovalInOrder DEF Forget
<1>7. TheHolder = c /\ TheHolder # None
  BY <1>1, <1>2, <1>3, HolderIs, ClaimAssumption
<1>8. Waiting = {d \in Claims : InList(d)'}
  BY <1>1, <1>3, <1>4, <1>6 DEF Waiting
<1>9. \A d \in Claims : access'[d] > 0 <=> list' # << >> /\ d = list'[1]
  BY <1>1, <1>3, <1>5, NotifyProperties
<1>10. CASE list' = << >>
  <2>1. Waiting = {} /\ \A d \in Claims : access'[d] = 0
    BY <1>1, <1>8, <1>9, <1>10 DEF InList, Member
  <2>2. TheHolder' = None
    BY <1>1, <1>2, <2>1, HolderIs
  <2>3. Waiting' = {}
    BY <1>1, <1>10 DEF Waiting, InList, Member
  <2> QED
    BY <1>7, <2>1, <2>2, <2>3 DEF Lock!HandOver
<1>11. CASE list' # << >>
  <2>11. 1 \in 1..Len(list') /\ list'[1] \in Claims
    BY <1>1, <1>11
  <2>12. PICK h \in Claims : h = list'[1]
    BY <2>11
  <2>1. h \in Claims /\ InList(h)'
    BY <2>11, <2>12 DEF InList, Member
  <2>2. h \in Waiting /\ access'[h] > 0 /\ \A d \in Claims : d # h => access'[d] = 0
    <3>1. access'[h] > 0 /\ \A d \in Claims : d # h => ~(access'[d] > 0)
      BY <1>9, <1>11, <2>12
    <3>2. \A d \in Claims : access'[d] \in Nat
      BY <1>1
    <3>3. h \in Waiting
      BY <1>8, <2>1
    <3> QED
      BY <3>1, <3>2, <3>3
  <2>3. TheHolder' = h
    BY <1>1, <1>2, <2>1, <2>2, HolderIs
  <2>4. Waiting' = Waiting \ {h}
    BY <1>8, <2>2 DEF Waiting
  <2>5. ASSUME NEW d \in Waiting, d # h
        PROVE  \/ Prio[h] < Prio[d]
               \/ Prio[h] = Prio[d] /\ d \notin Before(h)
    <3>1. PICK k \in 1..Len(list') : list'[k] = d
      BY <1>8, <2>5 DEF InList, Member
    <3>2. Len(list') \in Nat /\ 1 \in 1..Len(list') /\ 1 < k
      BY <1>1, <1>11, <2>5, <2>12, <3>1
    <3>3. \/ Prio[h] < Prio[d]
          \/ Prio[h] = Prio[d] /\ h \in earlier'[d]
      BY <1>1, <2>12, <3>1, <3>2 DEF ListInOrder
    <3>4. d \in Claims /\ (h \in earlier'[d] => h \in earlier[d])
      BY <1>6, <2>5 DEF Waiting
    <3>5. h \in earlier[d] => d \notin earlier[h]
      BY <1>1, <2>1, <3>4 DEF HistoryInOrder
    <3> QED
      BY <3>3, <3>4, <3>5 DEF Before
  <2>6. h \in Lock!Best
    <3>1. [d \in Claims |-> Before(d)][h] = Before(h)
      BY <2>1
    <3> QED
      BY <2>2, <2>5, <3>1 DEF Lock!Best, Before
  <2>7. \A d \in Claims : Before(d)' = IF d = h THEN {} ELSE Before(d) \ {h}
    <3>1. c \notin Waiting
      BY <1>8, <1>6
    <3> QED
      BY <1>6, <2>4, <3>1 DEF Before
  <2>8. [d \in Claims |-> Before(d)]' =
          [d \in Claims |-> IF d = h THEN {} ELSE [e \in Claims |-> Before(e)][d] \ {h}]
    BY <2>7
  <2>9. Lock!Leave(h)
    BY <2>4, <2>8 DEF Lock!Leave, Before
  <2>10. Waiting # {}
    BY <2>2
  <2> QED
    BY <1>7, <2>3, <2>6, <2>9, <2>10 DEF Lock!HandOver
<1> QED
  BY <1>10, <1>11

LEMMA LockInit == Init => Lock!Init
<1> SUFFICES ASSUME Init PROVE Lock!Init
  OBVIOUS
<1>1. Waiting = {} /\ Holders = {}
  BY DEF Init, Waiting, Holders, InList, Member
<1> QED
  BY <1>1 DEF Lock!Init, TheHolder

LEMMA LockNext ==
  IInv /\ IInv' /\ [Next]_vars =>
    [Lock!Next]_<<Waiting, [c \in Claims |-> Before(c)], TheHolder>>
<1> SUFFICES ASSUME IInv, IInv', [Next]_vars
             PROVE  [Lock!Next]_<<Waiting, [c \in Claims |-> Before(c)], TheHolder>>
  OBVIOUS
<1>1. ASSUME NEW c \in Claims, Claim(c) \/ Withdraw(c) \/ Release(c) PROVE Lock!Next
  BY <1>1, ClaimIsAsk, WithdrawIsWithdraw, ReleaseIsHandOver DEF Lock!Next
<1>2. CASE UNCHANGED vars
  <2>1. Waiting' = Waiting /\ TheHolder' = TheHolder
    BY <1>2 DEF vars, Waiting, TheHolder, Holders, InList
  <2>2. [c \in Claims |-> Before(c)]' = [c \in Claims |-> Before(c)]
    BY <1>2, <2>1 DEF vars, Before
  <2> QED
    BY <2>1, <2>2
<1> QED
  BY <1>1, <1>2 DEF Next

-----------------------------------------------------------------------------
(* Tasks. *)

Ids == Subtasks!Ids
Nobody == Subtasks!Nobody
Alive == Subtasks!Alive

TasksTypeOK ==
  /\ frame \in [Ids -> {"none", "body", "calls", "task", "event", "final", "gone"}]
  /\ parent \in [Ids -> Ids \cup {Nobody}]
  /\ handle \in [Ids -> Ids \cup {Nobody}]
  /\ result \in [Ids -> BOOLEAN]
  /\ runs \in Ids \cup {Nobody}
  /\ waits \in Ids \cup {Nobody}
  /\ flagged \in BOOLEAN
  /\ taken \in [Ids -> Nat]

Innermost(t) == \A u \in Alive : u <= t

(* The tasks are a chain: each is held by the last one before it.          *)
Chain ==
  /\ \A u \in Alive : parent[u] # Nobody => parent[u] \in Alive /\ parent[u] < u
  /\ \A t, u \in Alive : t < u => parent[u] # Nobody /\ t <= parent[u]
  /\ \A t, u \in Ids : frame[t] = "none" /\ t < u => frame[u] = "none"

(* Those that have called and not awaited are above the one that runs,     *)
(* with none between that is suspended; the last one does not call.        *)
CallStack ==
  /\ runs # Nobody => frame[runs] \in {"body", "calls", "gone"}
  /\ runs # Nobody /\ frame[runs] = "gone" =>
       \A t \in Ids : frame[t] \notin {"calls", "event"}
  /\ \A t \in Ids : frame[t] = "body" => runs = t
  /\ \A t \in Ids : frame[t] = "calls" => runs # Nobody /\ t <= runs
  /\ \A t \in Ids : frame[t] = "calls" =>
       \A u \in Alive : t < u /\ u <= runs => frame[u] \in {"calls", "body"}
  /\ \A t \in Ids : frame[t] = "calls" => \E c \in Alive : parent[c] = t
  /\ \A t \in Ids : frame[t] \in {"body", "event", "final"} => Innermost(t)

(* Who awaits a task is in its promise, and the last one's handle in the   *)
(* awaitable of the event. *)
Awaited ==
  /\ \A t \in Ids : frame[t] = "task" => \E c \in Alive : handle[c] = t
  /\ \A t \in Ids : handle[t] # Nobody =>
       t \in Alive /\ handle[t] = parent[t] /\ frame[parent[t]] = "task" /\ ~result[t]
  /\ \A t \in Ids : frame[t] = "event" => waits = t
  /\ waits \in Alive => frame[waits] = "event"
  /\ waits # Nobody => frame[waits] # "none"

(* A value is there from the end of a task to its destruction.             *)
Values ==
  /\ \A t \in Alive : (result[t] <=> frame[t] = "final") /\ taken[t] = 0
  /\ \A t \in Ids : frame[t] = "none" => ~result[t] /\ taken[t] = 0
  /\ \A t \in Ids : taken[t] <= 1

TasksInv == TasksTypeOK /\ Chain /\ CallStack /\ Awaited /\ Values
LEMMA TasksInit == Subtasks!Init => TasksInv
<1> SUFFICES ASSUME Subtasks!Init PROVE TasksInv
  OBVIOUS
<1>1. Alive = {}
  BY DEF Subtasks!Init, Alive, Subtasks!Alive, Ids
<1>2. /\ \A t \in Ids : frame[t] = "none" /\ handle[t] = Nobody
      /\ runs = Nobody /\ waits = Nobody
  BY DEF Subtasks!Init, Ids, Nobody
<1>3. TasksTypeOK
  BY DEF Subtasks!Init, TasksTypeOK, Ids, Nobody
<1>4. CallStack /\ Awaited
  BY <1>1, <1>2 DEF CallStack, Awaited
<1>5. Chain /\ Values
  BY <1>1, <1>2 DEF Subtasks!Init, Chain, Values, Ids
<1> QED
  BY <1>3, <1>4, <1>5 DEF TasksInv

(* What the proofs need of the numbers of tasks.                           *)
LEMMA TaskNumbers == /\ Ids \subseteq Nat /\ Nobody \in Nat /\ Nobody \notin Ids
                     /\ \A t \in Ids : t > Nobody
                     /\ Alive = {t \in Ids : frame[t] \notin {"none", "gone"}}
  BY TaskAssumption DEF Ids, Nobody, Alive, Subtasks!Ids, Subtasks!Nobody, Subtasks!Alive

(* A task holds one other at most, the next in the chain.                  *)
LEMMA OneChild ==
  ASSUME TasksInv, NEW t \in Ids, NEW c \in Alive, parent[c] = t
  PROVE  Subtasks!Child(t) = c /\ t \in Alive /\ t < c
<1>1. \A d \in Alive : parent[d] = t => d = c
  <2> SUFFICES ASSUME NEW d \in Alive, parent[d] = t, d # c PROVE FALSE
    OBVIOUS
  <2>1. c \in Ids /\ d \in Ids /\ c \in Nat /\ d \in Nat /\ t \in Nat
    BY TaskNumbers
  <2>2. t < c /\ t < d
    BY TaskNumbers DEF TasksInv, Chain
  <2>3. CASE c < d
    BY <2>1, <2>2, <2>3 DEF TasksInv, Chain
  <2>4. CASE d < c
    BY <2>1, <2>2, <2>4 DEF TasksInv, Chain
  <2> QED
    BY <2>1, <2>3, <2>4
<1>2. Subtasks!Child(t) = CHOOSE d \in Alive : parent[d] = t
  BY DEF Subtasks!Child, Alive
<1>3. t \in Alive /\ t < c
  BY TaskNumbers DEF TasksInv, Chain
<1> QED
  BY <1>1, <1>2, <1>3

(* The one that returns to its caller is directly above it, and then the   *)
(* last that is suspended.                                                 *)
LEMMA CallerIsNext ==
  ASSUME TasksInv, runs # Nobody, frame[runs] # "gone"
  PROVE  LET r == Subtasks!Caller(runs)
         IN /\ r \in Ids \cup {Nobody}
            /\ r # Nobody => r \in Alive /\ r < runs /\ frame[r] = "calls"
            /\ \A t \in Ids : frame[t] = "calls" /\ t # runs => r # Nobody /\ t <= r
<1> DEFINE r == Subtasks!Caller(runs)
           p == parent[runs]
<1>1. /\ runs \in Ids /\ runs \in Alive /\ runs \in Nat /\ p \in Ids \cup {Nobody}
      /\ frame[runs] \in {"body", "calls"}
  BY TaskNumbers DEF TasksInv, TasksTypeOK, CallStack
<1>2. r = IF p # Nobody /\ frame[p] = "calls" THEN p ELSE Nobody
  BY DEF Subtasks!Caller, Nobody
<1>3. p # Nobody => p \in Alive /\ p < runs
  BY <1>1 DEF TasksInv, Chain
<1>4. ASSUME NEW t \in Ids, frame[t] = "calls", t # runs
      PROVE  p # Nobody /\ t <= p /\ frame[p] = "calls"
  <2>1. t \in Alive /\ t <= runs /\ t \in Nat
    BY <1>4, TaskNumbers DEF TasksInv, CallStack
  <2>2. t < runs
    BY <1>1, <1>4, <2>1
  <2>3. p # Nobody /\ t <= p
    BY <1>1, <2>1, <2>2 DEF TasksInv, Chain
  <2>4. p \in Nat /\ p < runs /\ p \in Alive /\ p \in Ids
    BY <1>1, <1>3, <2>3, TaskNumbers
  <2>5. CASE t = p
    BY <1>4, <2>3, <2>5
  <2>6. CASE t < p
    <3>1. frame[p] \in {"calls", "body"}
      BY <1>1, <1>4, <2>4, <2>6 DEF TasksInv, CallStack
    <3>2. frame[p] = "body" => p = runs
      BY <2>4 DEF TasksInv, CallStack
    <3> QED
      BY <1>1, <2>3, <2>4, <3>1, <3>2
  <2> QED
    BY <2>1, <2>3, <2>4, <2>5, <2>6
<1> HIDE DEF r, p
<1> QED
  BY <1>1, <1>2, <1>3, <1>4 DEF r

(* The task that runs suspends or ends, and control returns to its caller. *)
LEMMA ReturnKeeps ==
  ASSUME TasksInv, runs # Nobody, NEW x \in {"event", "final", "task"},
         frame' = [frame EXCEPT ![runs] = x],
         runs' = Subtasks!Caller(runs), parent' = parent,
         IF x = "task" THEN frame[runs] = "calls" ELSE frame[runs] = "body"
  PROVE  /\ frame' \in [Ids -> {"none", "body", "calls", "task", "event", "final", "gone"}]
         /\ runs' \in Ids \cup {Nobody}
         /\ Alive' = Alive /\ runs \in Alive
         /\ Chain' /\ CallStack'
<1>1. runs \in Ids /\ runs \in Alive /\ runs \in Nat
  BY TaskNumbers DEF TasksInv, TasksTypeOK, CallStack
<1>2. /\ frame \in [Ids -> {"none", "body", "calls", "task", "event", "final", "gone"}]
      /\ frame' \in [Ids -> {"none", "body", "calls", "task", "event", "final", "gone"}]
      /\ \A t \in Ids : frame'[t] = IF t = runs THEN x ELSE frame[t]
  BY <1>1 DEF TasksInv, TasksTypeOK
<1>3. Alive' = Alive
  <2>1. Alive' = {t \in Ids : frame'[t] \notin {"none", "gone"}}
    BY TaskNumbers DEF Alive, Subtasks!Alive, Ids, Subtasks!Ids
  <2>2. \A t \in Ids : frame'[t] \in {"none", "gone"} <=> frame[t] \in {"none", "gone"}
    BY <1>1, <1>2, TaskNumbers
  <2> QED
    BY <2>1, <2>2, TaskNumbers
<1>4. /\ runs' \in Ids \cup {Nobody}
      /\ runs' # Nobody => runs' \in Alive /\ runs' < runs /\ frame[runs'] = "calls"
      /\ \A t \in Ids : frame[t] = "calls" /\ t # runs => runs' # Nobody /\ t <= runs'
  BY CallerIsNext
<1>5. Chain'
  <2>1. \A u \in Alive : parent[u] # Nobody => parent[u] \in Alive /\ parent[u] < u
    BY DEF TasksInv, Chain
  <2>2. \A t, u \in Alive : t < u => parent[u] # Nobody /\ t <= parent[u]
    BY DEF TasksInv, Chain
  <2>3. \A t, u \in Ids : frame'[t] = "none" /\ t < u => frame'[u] = "none"
    <3>1. \A t, u \in Ids : frame[t] = "none" /\ t < u => frame[u] = "none"
      BY DEF TasksInv, Chain
    <3>2. \A t \in Ids : frame'[t] = "none" <=> frame[t] = "none"
      BY <1>1, <1>2, TaskNumbers
    <3> QED
      BY <3>1, <3>2
  <2> QED
    BY <1>3, <2>1, <2>2, <2>3 DEF Chain, Ids, Nobody
<1>6. CallStack'
  <2>1. \A t \in Ids : frame[t] = "body" => runs = t
    BY DEF TasksInv, CallStack
  <2>2. \A t \in Ids : frame'[t] # "body"
    BY <1>2, <2>1
  <2>3. \A t \in Ids : frame'[t] = "calls" => frame[t] = "calls" /\ t # runs
    BY <1>2
  <2>4. runs' # Nobody => frame'[runs'] = "calls"
    BY <1>1, <1>2, <1>4, TaskNumbers
  <2>5. \A t \in Ids : frame'[t] = "calls" => runs' # Nobody /\ t <= runs'
    BY <1>4, <2>3
  <2>6. ASSUME NEW t \in Ids, frame'[t] = "calls", NEW u \in Alive, t < u, u <= runs'
        PROVE  frame'[u] \in {"calls", "body"}
    <3>1. frame[t] = "calls" /\ runs' # Nobody /\ runs' < runs
      BY <1>4, <2>3, <2>5, <2>6
    <3>2. u \in Nat /\ runs' \in Nat /\ u \in Ids
      BY <1>4, <2>6, TaskNumbers
    <3>3. u <= runs /\ u # runs
      BY <1>1, <2>6, <3>1, <3>2
    <3>4. frame[u] \in {"calls", "body"}
      BY <2>6, <3>1, <3>3 DEF TasksInv, CallStack
    <3> QED
      BY <1>2, <3>2, <3>3, <3>4
  <2>7. \A t \in Ids : frame'[t] = "calls" => \E c \in Alive : parent[c] = t
    BY <2>3 DEF TasksInv, CallStack
  <2>8. \A t \in Ids : frame'[t] \in {"body", "event", "final"} => Innermost(t)
    <3>1. \A t \in Ids : frame[t] \in {"body", "event", "final"} => Innermost(t)
      BY DEF TasksInv, CallStack
    <3> QED
      BY <1>2, <3>1
  <2> QED
    BY <1>3, <2>2, <2>4, <2>5, <2>6, <2>7, <2>8 DEF CallStack, Ids, Nobody, Innermost
<1> QED
  BY <1>1, <1>2, <1>3, <1>4, <1>5, <1>6

LEMMA AwaitEventKeeps == TasksInv /\ Subtasks!AwaitEvent => TasksInv'
<1> SUFFICES ASSUME TasksInv, Subtasks!AwaitEvent PROVE TasksInv'
  OBVIOUS
<1>1. /\ runs # Nobody /\ frame[runs] = "body"
      /\ frame' = [frame EXCEPT ![runs] = "event"]
      /\ waits' = runs /\ runs' = Subtasks!Caller(runs)
      /\ UNCHANGED <<parent, handle, result, flagged, taken>>
  BY DEF Subtasks!AwaitEvent, Nobody
<1>2. /\ frame' \in [Ids -> {"none", "body", "calls", "task", "event", "final", "gone"}]
      /\ runs' \in Ids \cup {Nobody}
      /\ Alive' = Alive /\ runs \in Alive /\ runs \in Ids
      /\ Chain' /\ CallStack'
  BY <1>1, ReturnKeeps, TaskNumbers
<1>3. TasksTypeOK'
  BY <1>1, <1>2 DEF TasksInv, TasksTypeOK, Ids, Nobody
<1>4. \A t \in Ids : frame'[t] = IF t = runs THEN "event" ELSE frame[t]
  BY <1>1, <1>2 DEF TasksInv, TasksTypeOK
<1>5. Innermost(runs) /\ \A t \in Ids : frame[t] = "event" => Innermost(t)
  BY <1>1, <1>2 DEF TasksInv, CallStack
<1>6. ASSUME NEW t \in Ids, frame[t] = "event" PROVE FALSE
  <2>1. t \in Alive /\ t \in Nat /\ runs \in Nat
    BY <1>2, <1>6, TaskNumbers
  <2>2. t = runs
    BY <1>2, <1>5, <1>6, <2>1 DEF Innermost
  <2> QED
    BY <1>1, <1>6, <2>2
<1>7. Awaited'
  <2>1. \A t \in Ids : frame'[t] = "task" => \E c \in Alive : handle[c] = t
    BY <1>4 DEF TasksInv, Awaited
  <2>2. ASSUME NEW t \in Ids, handle[t] # Nobody
        PROVE  /\ t \in Alive /\ handle[t] = parent[t] /\ ~result[t]
               /\ frame'[parent[t]] = "task"
    <3>1. /\ t \in Alive /\ handle[t] = parent[t] /\ ~result[t]
          /\ frame[parent[t]] = "task"
      BY <2>2 DEF TasksInv, Awaited
    <3>2. parent[t] \in Ids
      BY <2>2, <3>1 DEF TasksInv, TasksTypeOK
    <3> QED
      BY <1>1, <1>4, <3>1, <3>2
  <2>3. \A t \in Ids : frame'[t] = "event" => waits' = t
    BY <1>1, <1>4, <1>6
  <2>4. frame'[waits'] = "event"
    BY <1>1, <1>2, <1>4
  <2> QED
    BY <1>1, <1>2, <2>1, <2>2, <2>3, <2>4 DEF Awaited, Ids, Nobody
<1>8. Values'
  BY <1>1, <1>2, <1>4, TaskNumbers DEF TasksInv, Values, Ids
<1> QED
  BY <1>2, <1>3, <1>7, <1>8 DEF TasksInv

(* The task that runs empties the awaitable: nobody else is suspended in it. *)
LEMMA EmptyKeeps ==
  TasksInv /\ (Subtasks!AwaitPast \/ Subtasks!ClearEvent) => TasksInv'
<1> SUFFICES ASSUME TasksInv, Subtasks!AwaitPast \/ Subtasks!ClearEvent PROVE TasksInv'
  OBVIOUS
<1>1. /\ runs # Nobody /\ frame[runs] = "body" /\ flagged' = FALSE /\ waits' = Nobody
      /\ UNCHANGED <<frame, parent, handle, result, runs, taken>>
  BY DEF Subtasks!AwaitPast, Subtasks!ClearEvent, Nobody
<1>2. /\ Alive' = Alive /\ runs \in Alive /\ runs \in Ids
      /\ Chain' /\ CallStack' /\ Values'
  BY <1>1, TaskNumbers DEF TasksInv, TasksTypeOK, Chain, CallStack, Values, Innermost,
                           Ids, Nobody, Alive, Subtasks!Alive, Subtasks!Ids
<1>3. TasksTypeOK'
  BY <1>1 DEF TasksInv, TasksTypeOK, Ids, Nobody
<1>4. Innermost(runs) /\ \A t \in Ids : frame[t] = "event" => Innermost(t)
  BY <1>1, <1>2 DEF TasksInv, CallStack
<1>5. ASSUME NEW t \in Ids, frame[t] = "event" PROVE FALSE
  <2>1. t \in Alive /\ t \in Nat /\ runs \in Nat
    BY <1>2, <1>5, TaskNumbers
  <2>2. t = runs
    BY <1>2, <1>4, <1>5, <2>1 DEF Innermost
  <2> QED
    BY <1>1, <1>5, <2>2
<1>6. Awaited'
  BY <1>1, <1>2, <1>5, TaskNumbers DEF TasksInv, Awaited, Ids, Nobody
<1> QED
  BY <1>2, <1>3, <1>6 DEF TasksInv

LEMMA EndAloneKeeps == TasksInv /\ Subtasks!EndAlone => TasksInv'
<1> SUFFICES ASSUME TasksInv, Subtasks!EndAlone PROVE TasksInv'
  OBVIOUS
<1>1. /\ runs # Nobody /\ frame[runs] = "body" /\ handle[runs] = Nobody
      /\ frame' = [frame EXCEPT ![runs] = "final"]
      /\ result' = [result EXCEPT ![runs] = TRUE]
      /\ runs' = Subtasks!Caller(runs)
      /\ UNCHANGED <<parent, handle, waits, flagged, taken>>
  BY DEF Subtasks!EndAlone, Nobody
<1>2. /\ frame' \in [Ids -> {"none", "body", "calls", "task", "event", "final", "gone"}]
      /\ runs' \in Ids \cup {Nobody}
      /\ Alive' = Alive /\ runs \in Alive /\ runs \in Ids
      /\ Chain' /\ CallStack'
  BY <1>1, ReturnKeeps, TaskNumbers
<1>3. TasksTypeOK'
  BY <1>1, <1>2 DEF TasksInv, TasksTypeOK, Ids, Nobody
<1>4. \A t \in Ids : /\ frame'[t] = IF t = runs THEN "final" ELSE frame[t]
                     /\ result'[t] = IF t = runs THEN TRUE ELSE result[t]
  BY <1>1, <1>2 DEF TasksInv, TasksTypeOK
<1>5. Awaited'
  <2>1. \A t \in Ids : frame'[t] = "task" => \E c \in Alive : handle[c] = t
    BY <1>4 DEF TasksInv, Awaited
  <2>2. ASSUME NEW t \in Ids, handle[t] # Nobody
        PROVE  /\ t \in Alive /\ handle[t] = parent[t] /\ ~result'[t]
               /\ frame'[parent[t]] = "task"
    <3>1. /\ t \in Alive /\ handle[t] = parent[t] /\ ~result[t]
          /\ frame[parent[t]] = "task"
      BY <2>2 DEF TasksInv, Awaited
    <3>2. parent[t] \in Ids
      BY <2>2, <3>1 DEF TasksInv, TasksTypeOK
    <3> QED
      BY <1>1, <1>4, <2>2, <3>1, <3>2
  <2>3. \A t \in Ids : frame'[t] = "event" => waits = t
    BY <1>4 DEF TasksInv, Awaited
  <2>4. /\ waits \in Alive => frame'[waits] = "event"
        /\ waits # Nobody => frame'[waits] # "none"
    BY <1>1, <1>4, TaskNumbers DEF TasksInv, TasksTypeOK, Awaited
  <2> QED
    BY <1>1, <1>2, <2>1, <2>2, <2>3, <2>4 DEF Awaited, Ids, Nobody
<1>6. Values'
  BY <1>1, <1>2, <1>4, TaskNumbers DEF TasksInv, Values, Ids
<1> QED
  BY <1>2, <1>3, <1>5, <1>6 DEF TasksInv

LEMMA AwaitTaskKeeps == TasksInv /\ Subtasks!AwaitTask => TasksInv'
<1> SUFFICES ASSUME TasksInv, Subtasks!AwaitTask PROVE TasksInv'
  OBVIOUS
<1> DEFINE c == Subtasks!Child(runs)
<1>1. /\ runs # Nobody /\ frame[runs] = "calls" /\ ~result[c]
      /\ frame' = [frame EXCEPT ![runs] = "task"]
      /\ handle' = [handle EXCEPT ![c] = runs]
      /\ runs' = Subtasks!Caller(runs)
      /\ UNCHANGED <<parent, result, waits, flagged, taken>>
  BY DEF Subtasks!AwaitTask, Nobody
<1>2. /\ frame' \in [Ids -> {"none", "body", "calls", "task", "event", "final", "gone"}]
      /\ runs' \in Ids \cup {Nobody}
      /\ Alive' = Alive /\ runs \in Alive /\ runs \in Ids
      /\ Chain' /\ CallStack'
  BY <1>1, ReturnKeeps, TaskNumbers
<1>3. c \in Alive /\ parent[c] = runs
  <2>1. PICK d \in Alive : parent[d] = runs
    BY <1>1, <1>2 DEF TasksInv, CallStack
  <2> QED
    BY <1>2, <2>1, OneChild
<1> HIDE DEF c
<1>4. c \in Ids
  BY <1>3, TaskNumbers
<1>5. TasksTypeOK'
  BY <1>1, <1>2, <1>4 DEF TasksInv, TasksTypeOK, Ids, Nobody
<1>6. \A t \in Ids : /\ frame'[t] = IF t = runs THEN "task" ELSE frame[t]
                     /\ handle'[t] = IF t = c THEN runs ELSE handle[t]
  BY <1>1, <1>2, <1>4 DEF TasksInv, TasksTypeOK
<1>7. Awaited'
  <2>1. ASSUME NEW t \in Ids, frame'[t] = "task" PROVE \E d \in Alive : handle'[d] = t
    <3>1. CASE t = runs
      BY <1>3, <1>4, <1>6, <3>1
    <3>2. CASE t # runs
      <4>1. PICK d \in Alive : handle[d] = t
        BY <1>6, <2>1, <3>2 DEF TasksInv, Awaited
      <4>2. d \in Ids /\ t # Nobody
        BY TaskNumbers
      <4>3. parent[d] = t
        BY <4>1, <4>2 DEF TasksInv, Awaited
      <4> QED
        BY <1>3, <1>6, <3>2, <4>1, <4>2, <4>3
    <3> QED
      BY <3>1, <3>2
  <2>2. ASSUME NEW t \in Ids, handle'[t] # Nobody
        PROVE  /\ t \in Alive /\ handle'[t] = parent[t] /\ ~result[t]
               /\ frame'[parent[t]] = "task"
    <3>1. CASE t = c
      BY <1>1, <1>2, <1>3, <1>6, <3>1
    <3>2. CASE t # c
      <4>1. handle'[t] = handle[t]
        BY <1>6, <3>2
      <4>2. /\ t \in Alive /\ handle[t] = parent[t] /\ ~result[t]
            /\ frame[parent[t]] = "task"
        BY <2>2, <4>1 DEF TasksInv, Awaited
      <4>3. parent[t] \in Ids
        BY <2>2, <4>1, <4>2 DEF TasksInv, TasksTypeOK
      <4> QED
        BY <1>6, <4>1, <4>2, <4>3
    <3> QED
      BY <3>1, <3>2
  <2>3. \A t \in Ids : frame'[t] = "event" => waits = t
    BY <1>6 DEF TasksInv, Awaited
  <2>4. /\ waits \in Alive => frame'[waits] = "event"
        /\ waits # Nobody => frame'[waits] # "none"
    BY <1>1, <1>6, TaskNumbers DEF TasksInv, TasksTypeOK, Awaited
  <2> QED
    BY <1>1, <1>2, <2>1, <2>2, <2>3, <2>4 DEF Awaited, Ids, Nobody
<1>8. Values'
  BY <1>1, <1>2, <1>6, TaskNumbers DEF TasksInv, Values, Ids
<1> QED
  BY <1>2, <1>5, <1>7, <1>8 DEF TasksInv

(* The innermost task d is destroyed and the one that holds it runs on.    *)
LEMMA DestroyedKeeps ==
  ASSUME TasksInv, NEW d \in Alive, NEW h \in Ids, parent[d] = h, Innermost(d),
         frame' = [frame EXCEPT ![h] = "body", ![d] = "gone"],
         parent' = parent, runs' = h,
         \/ runs = h
         \/ runs = d /\ frame[h] = "task"
  PROVE  /\ frame' \in [Ids -> {"none", "body", "calls", "task", "event", "final", "gone"}]
         /\ \A t \in Ids : frame'[t] = IF t = d THEN "gone" ELSE IF t = h THEN "body" ELSE frame[t]
         /\ Alive' = Alive \ {d} /\ h \in Alive /\ h < d /\ d \in Ids
         /\ Chain' /\ CallStack'
<1>1. d \in Ids /\ d \in Nat /\ h \in Nat /\ h # Nobody /\ Ids \subseteq Nat
  BY TaskNumbers
<1>2. h \in Alive /\ h < d /\ \A c \in Alive : parent[c] = h => c = d
  BY <1>1, OneChild
<1>3. /\ frame \in [Ids -> {"none", "body", "calls", "task", "event", "final", "gone"}]
      /\ frame' \in [Ids -> {"none", "body", "calls", "task", "event", "final", "gone"}]
      /\ \A t \in Ids : frame'[t] = IF t = d THEN "gone" ELSE IF t = h THEN "body" ELSE frame[t]
  BY <1>1, <1>2 DEF TasksInv, TasksTypeOK
<1>4. Alive' = Alive \ {d}
  <2>1. Alive' = {t \in Ids : frame'[t] \notin {"none", "gone"}}
    BY TaskNumbers DEF Alive, Subtasks!Alive, Ids, Subtasks!Ids
  <2>2. \A t \in Ids : frame'[t] \in {"none", "gone"} <=>
                         t = d \/ frame[t] \in {"none", "gone"}
    BY <1>2, <1>3, TaskNumbers
  <2> QED
    BY <1>1, <2>1, <2>2, TaskNumbers
<1>5. \A u \in Alive : u # d => u <= h /\ u \in Nat /\ u \in Ids
  <2>1. ASSUME NEW u \in Alive, u # d PROVE u <= h /\ u \in Nat /\ u \in Ids
    <3>1. u \in Nat /\ u \in Ids /\ u <= d
      BY <2>1, TaskNumbers DEF Innermost
    <3>2. u < d
      BY <1>1, <2>1, <3>1
    <3> QED
      BY <3>1, <3>2 DEF TasksInv, Chain
  <2> QED
    BY <2>1
<1>6. Chain'
  <2>1. \A u \in Alive : parent[u] # Nobody => parent[u] \in Alive /\ parent[u] < u
    BY DEF TasksInv, Chain
  <2>2. \A t, u \in Alive : t < u => parent[u] # Nobody /\ t <= parent[u]
    BY DEF TasksInv, Chain
  <2>3. \A u \in Alive \ {d} : parent[u] # d
    <3> SUFFICES ASSUME NEW u \in Alive, u # d, parent[u] = d PROVE FALSE
      OBVIOUS
    <3>1. d < u /\ u <= h
      BY <1>1, <1>5, <2>1, TaskNumbers
    <3> QED
      BY <1>1, <1>2, <1>5, <3>1
  <2>4. \A t, u \in Ids : frame'[t] = "none" /\ t < u => frame'[u] = "none"
    <3>1. \A t, u \in Ids : frame[t] = "none" /\ t < u => frame[u] = "none"
      BY DEF TasksInv, Chain
    <3>2. \A t \in Ids : frame'[t] = "none" <=> frame[t] = "none"
      BY <1>1, <1>2, <1>3, TaskNumbers
    <3> QED
      BY <3>1, <3>2
  <2> QED
    BY <1>4, <2>1, <2>2, <2>3, <2>4 DEF Chain, Ids, Nobody
<1>7. CallStack'
  <2>1. \A t \in Ids : frame[t] = "body" => runs = t
    BY DEF TasksInv, CallStack
  <2>2. \A t \in Ids : frame'[t] = "body" => t = h
    <3>1. ASSUME NEW t \in Ids, frame'[t] = "body", t # h PROVE FALSE
      <4>1. t # d /\ frame[t] = "body"
        BY <1>3, <3>1
      <4> QED
        BY <2>1, <3>1, <4>1
    <3> QED
      BY <3>1
  <2>3. \A t \in Ids : frame'[t] = "calls" => frame[t] = "calls" /\ t # h /\ t # d
    BY <1>3
  <2>4. \A t \in Ids : frame'[t] = "calls" => t <= h /\ t \in Alive
    BY <1>5, <2>3, TaskNumbers
  <2>5. ASSUME NEW t \in Ids, frame'[t] = "calls", NEW u \in Alive, u # d, t < u, u <= h
        PROVE  frame'[u] \in {"calls", "body"}
    <3>1. u \in Nat /\ u \in Ids
      BY <1>5, <2>5
    <3>2. u <= runs
      BY <1>1, <1>2, <2>5, <3>1
    <3>3. frame[u] \in {"calls", "body"}
      BY <2>3, <2>5, <3>2 DEF TasksInv, CallStack
    <3> QED
      BY <1>3, <2>5, <3>1, <3>3
  <2>6. ASSUME NEW t \in Ids, frame'[t] = "calls"
        PROVE  \E c \in Alive \ {d} : parent[c] = t
    <3>1. PICK c \in Alive : parent[c] = t
      BY <2>3, <2>6 DEF TasksInv, CallStack
    <3> QED
      BY <2>3, <2>6, <3>1
  <2>7. ASSUME NEW t \in Ids, frame'[t] \in {"body", "event", "final"}
        PROVE  \A u \in Alive \ {d} : u <= t
    <3>1. CASE t = h
      BY <1>5, <3>1
    <3>2. CASE t # h
      <4>1. frame[t] \in {"body", "event", "final"} /\ t # d
        BY <1>3, <2>7, <3>2
      <4>2. Innermost(t) /\ t \in Alive
        BY <4>1, TaskNumbers DEF TasksInv, CallStack
      <4>3. d <= t /\ t <= d /\ t \in Nat
        BY <1>5, <4>1, <4>2 DEF Innermost
      <4> QED
        BY <1>1, <4>1, <4>3
    <3> QED
      BY <3>1, <3>2
  <2>8. \A t \in Ids : frame'[t] \in {"body", "event", "final"} => Innermost(t)'
    BY <1>4, <2>7 DEF Innermost
  <2>9. \A t \in Ids : frame'[t] = "calls" => \E c \in Alive' : parent'[c] = t
    BY <1>4, <2>6
  <2>10. \A t \in Ids : frame'[t] = "calls" =>
           \A u \in Alive' : t < u /\ u <= runs' => frame'[u] \in {"calls", "body"}
    BY <1>4, <2>5
  <2>11. runs' # Nobody /\ frame'[runs'] = "body" /\ runs' = h
    BY <1>1, <1>2, <1>3
  <2> HIDE DEF Innermost
  <2> QED
    BY <2>2, <2>4, <2>8, <2>9, <2>10, <2>11 DEF CallStack, Ids, Nobody
<1> QED
  BY <1>1, <1>2, <1>3, <1>4, <1>6, <1>7

LEMMA AwaitEndedKeeps == TasksInv /\ Subtasks!AwaitEnded => TasksInv'
<1> SUFFICES ASSUME TasksInv, Subtasks!AwaitEnded PROVE TasksInv'
  OBVIOUS
<1> DEFINE c == Subtasks!Child(runs)
<1>1. /\ runs # Nobody /\ frame[runs] = "calls" /\ result[c]
      /\ frame' = [frame EXCEPT ![runs] = "body", ![c] = "gone"]
      /\ result' = [result EXCEPT ![c] = FALSE]
      /\ taken' = [taken EXCEPT ![c] = taken[c] + 1]
      /\ UNCHANGED <<parent, handle, runs, waits, flagged>>
  BY DEF Subtasks!AwaitEnded, Nobody
<1>2. runs \in Ids
  BY <1>1 DEF TasksInv, TasksTypeOK
<1>3. c \in Alive /\ parent[c] = runs
  <2>1. PICK d \in Alive : parent[d] = runs
    BY <1>1, <1>2 DEF TasksInv, CallStack
  <2> QED
    BY <1>2, <2>1, OneChild
<1> HIDE DEF c
<1>4. c \in Ids /\ frame[c] = "final" /\ Innermost(c) /\ taken[c] = 0
  BY <1>1, <1>3, TaskNumbers DEF TasksInv, CallStack, Values
<1>5. /\ frame' \in [Ids -> {"none", "body", "calls", "task", "event", "final", "gone"}]
      /\ \A t \in Ids : frame'[t] = IF t = c THEN "gone" ELSE IF t = runs THEN "body" ELSE frame[t]
      /\ Alive' = Alive \ {c} /\ runs \in Alive /\ runs < c
      /\ Chain' /\ CallStack'
  BY <1>1, <1>2, <1>3, <1>4, DestroyedKeeps
<1>6. \A t \in Ids : /\ result'[t] = IF t = c THEN FALSE ELSE result[t]
                     /\ taken'[t] = IF t = c THEN 1 ELSE taken[t]
  BY <1>1, <1>4 DEF TasksInv, TasksTypeOK
<1>7. TasksTypeOK'
  <2>1. taken' \in [Ids -> Nat] /\ result' \in [Ids -> BOOLEAN]
    BY <1>1, <1>4 DEF TasksInv, TasksTypeOK
  <2> QED
    BY <1>1, <1>5, <2>1 DEF TasksInv, TasksTypeOK, Ids, Nobody
<1>8. Awaited'
  <2>1. handle[c] = Nobody
    BY <1>1, <1>4 DEF TasksInv, Awaited
  <2>2. ASSUME NEW t \in Ids, frame'[t] = "task"
        PROVE  \E d \in Alive \ {c} : handle[d] = t
    <3>1. PICK d \in Alive : handle[d] = t
      BY <1>5, <2>2 DEF TasksInv, Awaited
    <3> QED
      BY <2>1, <3>1, TaskNumbers
  <2>3. ASSUME NEW t \in Ids, handle[t] # Nobody
        PROVE  /\ t \in Alive \ {c} /\ handle[t] = parent[t] /\ ~result'[t]
               /\ frame'[parent[t]] = "task"
    <3>1. /\ t \in Alive /\ handle[t] = parent[t] /\ ~result[t]
          /\ frame[parent[t]] = "task" /\ t # c
      BY <2>1, <2>3 DEF TasksInv, Awaited
    <3>2. parent[t] \in Ids
      BY <2>3, <3>1 DEF TasksInv, TasksTypeOK
    <3> QED
      BY <1>1, <1>4, <1>5, <1>6, <3>1, <3>2
  <2>4. \A t \in Ids : frame'[t] = "event" => waits = t
    BY <1>5 DEF TasksInv, Awaited
  <2>5. /\ waits \in Alive \ {c} => frame'[waits] = "event"
        /\ waits # Nobody => frame'[waits] # "none"
    BY <1>1, <1>4, <1>5, TaskNumbers DEF TasksInv, TasksTypeOK, Awaited
  <2>6. \A t \in Ids : frame'[t] = "task" => \E d \in Alive' : handle'[d] = t
    BY <1>1, <1>5, <2>2
  <2>7. \A t \in Ids : handle'[t] # Nobody =>
          /\ t \in Alive' /\ handle'[t] = parent'[t] /\ ~result'[t]
          /\ frame'[parent'[t]] = "task"
    BY <1>1, <1>5, <2>3
  <2> QED
    BY <1>1, <1>5, <2>6, <2>7, <2>4, <2>5 DEF Awaited, Ids, Nobody
<1>9. Values'
  <2>1. \A t \in Alive \ {c} : (result'[t] <=> frame'[t] = "final") /\ taken'[t] = 0
    BY <1>1, <1>5, <1>6, TaskNumbers DEF TasksInv, Values
  <2>2. \A t \in Ids : frame'[t] = "none" => ~result'[t] /\ taken'[t] = 0
    BY <1>5, <1>6 DEF TasksInv, Values
  <2>3. \A t \in Ids : taken'[t] <= 1
    <3>1. \A t \in Ids : taken[t] \in Nat /\ taken[t] <= 1
      BY DEF TasksInv, TasksTypeOK, Values
    <3>2. \A t \in Ids : taken'[t] = 1 \/ taken'[t] = taken[t]
      BY <1>6
    <3> QED
      BY <3>1, <3>2
  <2> QED
    BY <1>5, <2>1, <2>2, <2>3 DEF Values, Ids
<1> QED
  BY <1>5, <1>7, <1>8, <1>9 DEF TasksInv

LEMMA EndAwaitedKeeps == TasksInv /\ Subtasks!EndAwaited => TasksInv'
<1> SUFFICES ASSUME TasksInv, Subtasks!EndAwaited PROVE TasksInv'
  OBVIOUS
<1> DEFINE h == handle[runs]
<1>1. /\ runs # Nobody /\ frame[runs] = "body" /\ h # Nobody
      /\ frame' = [frame EXCEPT ![runs] = "gone", ![h] = "body"]
      /\ handle' = [handle EXCEPT ![runs] = Nobody]
      /\ taken' = [taken EXCEPT ![runs] = taken[runs] + 1]
      /\ runs' = h
      /\ UNCHANGED <<parent, result, waits, flagged>>
  BY DEF Subtasks!EndAwaited, Nobody
<1>2. runs \in Ids
  BY <1>1 DEF TasksInv, TasksTypeOK
<1>3. /\ runs \in Alive /\ h = parent[runs] /\ frame[h] = "task" /\ h \in Ids
      /\ Innermost(runs) /\ taken[runs] = 0 /\ ~result[runs]
  BY <1>1, <1>2, TaskNumbers DEF TasksInv, TasksTypeOK, Awaited, CallStack, Values
<1>4. h # runs
  BY <1>1, <1>3
<1>5. frame' = [frame EXCEPT ![h] = "body", ![runs] = "gone"]
  BY <1>1, <1>2, <1>3, <1>4 DEF TasksInv, TasksTypeOK
<1>6. /\ frame' \in [Ids -> {"none", "body", "calls", "task", "event", "final", "gone"}]
      /\ \A t \in Ids : frame'[t] = IF t = runs THEN "gone" ELSE IF t = h THEN "body" ELSE frame[t]
      /\ Alive' = Alive \ {runs} /\ h \in Alive
      /\ Chain' /\ CallStack'
  BY <1>1, <1>2, <1>3, <1>5, DestroyedKeeps
<1>7. \A t \in Ids : /\ handle'[t] = IF t = runs THEN Nobody ELSE handle[t]
                     /\ taken'[t] = IF t = runs THEN 1 ELSE taken[t]
  BY <1>1, <1>2, <1>3 DEF TasksInv, TasksTypeOK
<1>8. TasksTypeOK'
  <2>1. taken' \in [Ids -> Nat] /\ handle' \in [Ids -> Ids \cup {Nobody}]
    BY <1>1, <1>2 DEF TasksInv, TasksTypeOK
  <2> QED
    BY <1>1, <1>3, <1>6, <2>1 DEF TasksInv, TasksTypeOK, Ids, Nobody
<1>9. \A d \in Alive : parent[d] = h => d = runs
  BY <1>2, <1>3, OneChild
<1> HIDE DEF h
<1>10. Awaited'
  <2>1. ASSUME NEW t \in Ids, frame'[t] = "task"
        PROVE  \E d \in Alive \ {runs} : handle'[d] = t
    <3>1. t # h /\ frame[t] = "task"
      BY <1>6, <2>1
    <3>2. PICK d \in Alive : handle[d] = t
      BY <3>1 DEF TasksInv, Awaited
    <3> QED
      BY <1>7, <3>1, <3>2, TaskNumbers DEF h
  <2>2. ASSUME NEW t \in Ids, handle'[t] # Nobody
        PROVE  /\ t \in Alive \ {runs} /\ handle'[t] = parent[t] /\ ~result[t]
               /\ frame'[parent[t]] = "task"
    <3>1. t # runs /\ handle'[t] = handle[t]
      BY <1>7, <2>2
    <3>2. /\ t \in Alive /\ handle[t] = parent[t] /\ ~result[t]
          /\ frame[parent[t]] = "task"
      BY <2>2, <3>1 DEF TasksInv, Awaited
    <3>3. parent[t] \in Ids /\ parent[t] # h
      BY <1>9, <2>2, <3>1, <3>2 DEF TasksInv, TasksTypeOK
    <3> QED
      BY <1>1, <1>6, <3>1, <3>2, <3>3
  <2>3. \A t \in Ids : frame'[t] = "event" => waits = t
    BY <1>6 DEF TasksInv, Awaited
  <2>4. /\ waits \in Alive \ {runs} => frame'[waits] = "event"
        /\ waits # Nobody => frame'[waits] # "none"
    BY <1>1, <1>3, <1>6, TaskNumbers DEF TasksInv, TasksTypeOK, Awaited
  <2>5. \A t \in Ids : frame'[t] = "task" => \E d \in Alive' : handle'[d] = t
    BY <1>6, <2>1
  <2>6. \A t \in Ids : handle'[t] # Nobody =>
          /\ t \in Alive' /\ handle'[t] = parent'[t] /\ ~result'[t]
          /\ frame'[parent'[t]] = "task"
    BY <1>1, <1>6, <2>2
  <2> QED
    BY <1>1, <1>6, <2>5, <2>6, <2>3, <2>4 DEF Awaited, Ids, Nobody
<1>11. Values'
  <2>1. \A t \in Alive \ {runs} : (result[t] <=> frame'[t] = "final") /\ taken'[t] = 0
    BY <1>3, <1>6, <1>7, TaskNumbers DEF TasksInv, Values
  <2>2. \A t \in Ids : frame'[t] = "none" => ~result[t] /\ taken'[t] = 0
    BY <1>6, <1>7 DEF TasksInv, Values
  <2>3. \A t \in Ids : taken'[t] <= 1
    BY <1>7 DEF TasksInv, Values
  <2> QED
    BY <1>1, <1>6, <2>1, <2>2, <2>3 DEF Values, Ids
<1> QED
  BY <1>6, <1>8, <1>10, <1>11 DEF TasksInv

(* The event resumes the innermost task, *)
LEMMA EventResumes == TasksInv /\ Subtasks!Event /\ waits \in Alive => TasksInv'
<1> SUFFICES ASSUME TasksInv, Subtasks!Event, waits \in Alive PROVE TasksInv'
  OBVIOUS
<1>0. waits # Nobody
  BY TaskNumbers
<1>1. /\ runs = Nobody /\ waits \in Alive
      /\ frame' = [frame EXCEPT ![waits] = "body"]
      /\ runs' = waits /\ waits' = Nobody
      /\ UNCHANGED <<parent, handle, result, flagged, taken>>
  BY <1>0 DEF Subtasks!Event, Nobody, Alive
<1>2. /\ waits \in Ids /\ frame[waits] = "event" /\ Innermost(waits)
      /\ waits # Nobody /\ Nobody \notin Ids
  BY <1>1, TaskNumbers DEF TasksInv, Awaited, CallStack
<1>3. /\ frame' \in [Ids -> {"none", "body", "calls", "task", "event", "final", "gone"}]
      /\ \A t \in Ids : frame'[t] = IF t = waits THEN "body" ELSE frame[t]
  BY <1>1, <1>2 DEF TasksInv, TasksTypeOK
<1>4. Alive' = Alive
  <2>1. Alive' = {t \in Ids : frame'[t] \notin {"none", "gone"}}
    BY TaskNumbers DEF Alive, Subtasks!Alive, Ids, Subtasks!Ids
  <2> QED
    BY <1>2, <1>3, <2>1, TaskNumbers
<1>5. TasksTypeOK'
  BY <1>1, <1>2, <1>3 DEF TasksInv, TasksTypeOK, Ids, Nobody
<1>6. Chain'
  <2>1. \A t, u \in Ids : frame'[t] = "none" /\ t < u => frame'[u] = "none"
    <3>1. \A t, u \in Ids : frame[t] = "none" /\ t < u => frame[u] = "none"
      BY DEF TasksInv, Chain
    <3>2. \A t \in Ids : frame'[t] = "none" <=> frame[t] = "none"
      BY <1>2, <1>3
    <3> QED
      BY <3>1, <3>2
  <2> QED
    BY <1>1, <1>4, <2>1 DEF TasksInv, Chain, Ids, Nobody
<1>7. CallStack'
  <2>1. \A t \in Ids : frame[t] \notin {"body", "calls"}
    BY <1>1, <1>2 DEF TasksInv, CallStack
  <2>2. \A t \in Ids : frame'[t] # "calls" /\ (frame'[t] = "body" => t = waits)
    BY <1>3, <2>1
  <2>3. \A t \in Ids : frame'[t] \in {"body", "event", "final"} => Innermost(t)
    BY <1>2, <1>3 DEF TasksInv, CallStack
  <2>4. frame'[runs'] = "body"
    BY <1>1, <1>2, <1>3
  <2> QED
    BY <1>1, <1>4, <2>2, <2>3, <2>4 DEF CallStack, Ids, Nobody, Innermost
<1>8. Awaited'
  <2>1. \A t \in Ids : frame'[t] = "task" => \E c \in Alive : handle[c] = t
    BY <1>3 DEF TasksInv, Awaited
  <2>2. ASSUME NEW t \in Ids, handle[t] # Nobody
        PROVE  /\ t \in Alive /\ handle[t] = parent[t] /\ ~result[t]
               /\ frame'[parent[t]] = "task"
    <3>1. /\ t \in Alive /\ handle[t] = parent[t] /\ ~result[t]
          /\ frame[parent[t]] = "task"
      BY <2>2 DEF TasksInv, Awaited
    <3>2. parent[t] \in Ids
      BY <2>2, <3>1 DEF TasksInv, TasksTypeOK
    <3> QED
      BY <1>2, <1>3, <3>1, <3>2
  <2>3. \A t \in Ids : frame'[t] # "event"
    <3>1. ASSUME NEW t \in Ids, frame'[t] = "event" PROVE FALSE
      <4>1. t # waits /\ frame[t] = "event"
        BY <1>3, <3>1
      <4> QED
        BY <4>1 DEF TasksInv, Awaited
    <3> QED
      BY <3>1
  <2> QED
    BY <1>1, <1>2, <1>4, <2>1, <2>2, <2>3, TaskNumbers DEF Awaited, Ids, Nobody
<1>9. Values'
  BY <1>1, <1>2, <1>3, <1>4, TaskNumbers DEF TasksInv, Values, Ids
<1> QED
  BY <1>5, <1>6, <1>7, <1>8, <1>9 DEF TasksInv

(* or nobody, *)
LEMMA EventFlags == TasksInv /\ Subtasks!Event /\ waits = Nobody => TasksInv'
<1> SUFFICES ASSUME TasksInv, Subtasks!Event, waits = Nobody PROVE TasksInv'
  OBVIOUS
<1>1. /\ flagged' = TRUE
      /\ UNCHANGED <<frame, parent, handle, result, runs, waits, taken>>
  BY DEF Subtasks!Event, Nobody
<1> QED
  BY <1>1 DEF TasksInv, TasksTypeOK, Chain, CallStack, Awaited, Values, Innermost,
              Ids, Nobody, Alive, Subtasks!Alive, Subtasks!Ids

(* or a frame that is gone, while no task is suspended in the event.       *)
LEMMA EventStrays == TasksInv /\ Subtasks!Event /\ waits \notin Alive \cup {Nobody} => TasksInv'
<1> SUFFICES ASSUME TasksInv, Subtasks!Event, waits \notin Alive \cup {Nobody}
             PROVE  TasksInv'
  OBVIOUS
<1>1. /\ runs = Nobody /\ runs' = waits /\ waits' = Nobody
      /\ UNCHANGED <<frame, parent, handle, result, flagged, taken>>
  BY DEF Subtasks!Event, Nobody, Alive
<1>2. waits \in Ids /\ frame[waits] = "gone" /\ waits # Nobody
  BY TaskNumbers DEF TasksInv, TasksTypeOK, Awaited
<1>3. \A t \in Ids : frame[t] # "event" /\ frame[t] # "body" /\ frame[t] # "calls"
  <2>1. \A t \in Ids : frame[t] # "event"
    BY <1>2 DEF TasksInv, Awaited
  <2>2. \A t \in Ids : frame[t] \notin {"body", "calls"}
    BY <1>1, TaskNumbers DEF TasksInv, CallStack
  <2> QED
    BY <2>1, <2>2
<1>4. Alive' = Alive /\ Chain' /\ Values'
  BY <1>1 DEF TasksInv, Chain, Values, Ids, Nobody, Alive, Subtasks!Alive, Subtasks!Ids
<1>5. TasksTypeOK'
  BY <1>1, <1>2 DEF TasksInv, TasksTypeOK, Ids, Nobody
<1>6. CallStack'
  <2>1. \A t \in Ids : frame[t] \in {"body", "event", "final"} => Innermost(t)
    BY DEF TasksInv, CallStack
  <2> QED
    BY <1>1, <1>2, <1>3, <1>4, <2>1 DEF CallStack, Innermost, Ids, Nobody
<1>7. Awaited'
  BY <1>1, <1>3, <1>4, TaskNumbers DEF TasksInv, Awaited, Ids, Nobody
<1> QED
  BY <1>4, <1>5, <1>6, <1>7 DEF TasksInv

LEMMA EventKeeps == TasksInv /\ Subtasks!Event => TasksInv'
BY EventResumes, EventFlags, EventStrays

LEMMA TerminateKeeps == TasksInv /\ Subtasks!Terminate => TasksInv'
<1> SUFFICES ASSUME TasksInv, Subtasks!Terminate PROVE TasksInv'
  OBVIOUS
<1>1. /\ runs = Nobody
      /\ frame' = [t \in Ids |-> IF t \in Alive THEN "gone" ELSE frame[t]]
      /\ handle' = [t \in Ids |-> Nobody]
      /\ UNCHANGED <<parent, result, runs, waits, flagged, taken>>
  BY DEF Subtasks!Terminate, Nobody, Alive, Ids
<1>2. /\ frame' \in [Ids -> {"none", "body", "calls", "task", "event", "final", "gone"}]
      /\ \A t \in Ids : frame'[t] \in {"none", "gone"}
      /\ \A t \in Ids : frame'[t] = "none" <=> frame[t] = "none"
      /\ \A t \in Ids : handle'[t] = Nobody
  BY <1>1, TaskNumbers DEF TasksInv, TasksTypeOK
<1>3. Alive' = {}
  <2>1. Alive' = {t \in Ids : frame'[t] \notin {"none", "gone"}}
    BY TaskNumbers DEF Alive, Subtasks!Alive, Ids, Subtasks!Ids
  <2> QED
    BY <1>2, <2>1
<1>4. TasksTypeOK'
  BY <1>1, <1>2 DEF TasksInv, TasksTypeOK, Ids, Nobody
<1>5. Chain'
  <2>1. \A t, u \in Ids : frame'[t] = "none" /\ t < u => frame'[u] = "none"
    BY <1>2 DEF TasksInv, Chain
  <2> QED
    BY <1>3, <2>1 DEF Chain, Ids
<1>6. CallStack'
  <2>1. \A t \in Ids : frame'[t] \notin {"body", "calls", "event", "final"}
    BY <1>2
  <2> QED
    BY <1>1, <2>1 DEF CallStack, Ids, Nobody
<1>7. Awaited'
  <2>1. \A t \in Ids : frame'[t] \notin {"task", "event"}
    BY <1>2
  <2>2. waits # Nobody => frame'[waits] # "none"
    BY <1>2 DEF TasksInv, TasksTypeOK, Awaited
  <2> QED
    BY <1>1, <1>2, <1>3, <2>1, <2>2 DEF Awaited, Ids, Nobody
<1>8. Values'
  BY <1>1, <1>2, <1>3 DEF TasksInv, Values, Ids
<1> QED
  BY <1>4, <1>5, <1>6, <1>7, <1>8 DEF TasksInv

(* A task is called by the one that runs, or by the worker if there is no  *)
(* other. *)
LEMMA StartKeeps ==
  ASSUME TasksInv, NEW by \in Ids \cup {Nobody}, Subtasks!Start(by),
         \/ by = Nobody /\ runs = Nobody /\ Alive = {}
         \/ by = runs /\ runs # Nobody /\ frame[runs] = "body"
  PROVE  TasksInv'
<1>1. PICK t \in Ids :
        /\ frame[t] = "none" /\ \A u \in 1..t-1 : frame[u] # "none"
        /\ frame' = [u \in Ids |-> CASE u = t -> "body" [] u = by -> "calls"
                                     [] OTHER -> frame[u]]
        /\ parent' = [parent EXCEPT ![t] = by]
        /\ runs' = t
        /\ UNCHANGED <<handle, result, waits, flagged, taken>>
  BY DEF Subtasks!Start, Ids
<1>2. t \in Nat /\ Ids \subseteq Nat /\ Nobody \notin Ids /\ t \notin Alive
  BY <1>1, TaskNumbers
<1>4. by # Nobody => by \in Alive /\ Innermost(by) /\ by # t /\ frame[by] = "body"
  BY <1>1, TaskNumbers DEF TasksInv, CallStack
<1>3. /\ frame' \in [Ids -> {"none", "body", "calls", "task", "event", "final", "gone"}]
      /\ \A u \in Ids : frame'[u] = IF u = t THEN "body" ELSE IF u = by THEN "calls" ELSE frame[u]
      /\ \A u \in Ids : parent'[u] = IF u = t THEN by ELSE parent[u]
  <2>1. \A u \in Ids : frame[u] \in {"none", "body", "calls", "task", "event", "final", "gone"}
    BY DEF TasksInv, TasksTypeOK
  <2>2. frame' = [u \in Ids |-> IF u = t THEN "body" ELSE IF u = by THEN "calls" ELSE frame[u]]
    <3> DEFINE f(u) == CASE u = t -> "body" [] u = by -> "calls" [] OTHER -> frame[u]
               g(u) == IF u = t THEN "body" ELSE IF u = by THEN "calls" ELSE frame[u]
    <3>1. \A u \in Ids : f(u) = g(u)
      BY <1>2, <1>4
    <3>2. frame' = [u \in Ids |-> f(u)]
      BY <1>1
    <3> HIDE DEF f, g
    <3>3. frame' = [u \in Ids |-> g(u)]
      BY <3>1, <3>2
    <3> QED
      BY <3>3 DEF g
  <2>3. \A u \in Ids : parent'[u] = IF u = t THEN by ELSE parent[u]
    BY <1>1 DEF TasksInv, TasksTypeOK
  <2> QED
    BY <2>1, <2>2, <2>3
<1>5. Alive' = Alive \cup {t}
  <2>1. Alive' = {u \in Ids : frame'[u] \notin {"none", "gone"}}
    BY TaskNumbers DEF Alive, Subtasks!Alive, Ids, Subtasks!Ids
  <2>2. \A u \in Ids : frame'[u] \in {"none", "gone"} <=>
                         u # t /\ frame[u] \in {"none", "gone"}
    BY <1>2, <1>3, <1>4, TaskNumbers
  <2> QED
    BY <1>1, <2>1, <2>2, TaskNumbers
<1>6. \A u \in Alive : u < t /\ u \in Ids /\ u \in Nat
  <2>1. ASSUME NEW u \in Alive PROVE u < t /\ u \in Ids /\ u \in Nat
    <3>1. u \in Ids /\ u \in Nat /\ frame[u] # "none"
      BY TaskNumbers
    <3>2. ~(t < u)
      BY <1>1, <3>1 DEF TasksInv, Chain
    <3> QED
      BY <1>1, <1>2, <3>1, <3>2
  <2> QED
    BY <2>1
<1>7. TasksTypeOK'
  <2>1. parent' \in [Ids -> Ids \cup {Nobody}]
    BY <1>1 DEF TasksInv, TasksTypeOK
  <2> QED
    BY <1>1, <1>3, <2>1 DEF TasksInv, TasksTypeOK, Ids, Nobody
<1>8. Chain'
  <2>1. \A u \in Alive \cup {t} :
          parent'[u] # Nobody => parent'[u] \in Alive \cup {t} /\ parent'[u] < u
    <3>1. \A u \in Alive : parent[u] # Nobody => parent[u] \in Alive /\ parent[u] < u
      BY DEF TasksInv, Chain
    <3> QED
      BY <1>2, <1>3, <1>4, <1>6, <3>1
  <2>2. ASSUME NEW s \in Alive \cup {t}, NEW u \in Alive \cup {t}, s < u
        PROVE  parent'[u] # Nobody /\ s <= parent'[u]
    <3>1. CASE u = t
      <4>1. s \in Alive
        BY <1>2, <2>2, <3>1
      <4>2. by # Nobody /\ s <= by
        BY <1>4, <4>1 DEF Innermost
      <4> QED
        BY <1>3, <3>1, <4>2
    <3>2. CASE u # t
      <4>1. u \in Alive /\ u \in Ids /\ u \in Nat /\ u < t
        BY <1>6, <3>2
      <4>4. s \in Alive
        BY <1>2, <2>2, <4>1
      <4>2. parent[u] # Nobody /\ s <= parent[u]
        BY <2>2, <4>1, <4>4 DEF TasksInv, Chain
      <4> QED
        BY <1>3, <3>2, <4>1, <4>2
    <3> QED
      BY <3>1, <3>2
  <2>3. ASSUME NEW s \in Ids, NEW u \in Ids, frame'[s] = "none", s < u
        PROVE  frame'[u] = "none"
    <3>1. frame[s] = "none" /\ s # t
      BY <1>3, <2>3
    <3>2. ~(s < t)
      <4> SUFFICES ASSUME s < t PROVE FALSE
        OBVIOUS
      <4>1. s \in 1..t-1
        BY <1>2, TaskNumbers, TaskAssumption DEF Ids, Subtasks!Ids
      <4> QED
        BY <1>1, <3>1, <4>1
    <3>3. frame[u] = "none" /\ u # t
      BY <1>2, <2>3, <3>1, <3>2 DEF TasksInv, Chain
    <3>4. u # by
      BY <1>2, <1>4, <3>3
    <3> QED
      BY <1>3, <3>3, <3>4
  <2> QED
    BY <1>5, <2>1, <2>2, <2>3 DEF Chain, Ids, Nobody
<1>9. CallStack'
  <2>1. \A u \in Ids : frame[u] = "body" => runs = u
    BY DEF TasksInv, CallStack
  <2>2. \A u \in Ids : frame'[u] = "body" => u = t
    <3>1. ASSUME NEW u \in Ids, frame'[u] = "body", u # t PROVE FALSE
      <4>1. frame[u] = "body" /\ u # by
        BY <1>3, <3>1
      <4> QED
        BY <1>2, <2>1, <4>1, TaskNumbers
    <3> QED
      BY <3>1
  <2>3. \A u \in Ids : frame'[u] = "calls" => u <= t /\ u \in Alive
    <3>1. ASSUME NEW u \in Ids, frame'[u] = "calls" PROVE u \in Alive
      BY <1>3, <1>4, <3>1, TaskNumbers
    <3> QED
      BY <1>2, <1>6, <3>1
  <2>4. ASSUME NEW s \in Ids, frame'[s] = "calls",
               NEW u \in Alive \cup {t}, s < u, u <= t
        PROVE  frame'[u] \in {"calls", "body"}
    <3>1. CASE u = t
      BY <1>3, <3>1
    <3>2. CASE u = by
      BY <1>2, <1>3, <1>4, <2>4, <3>2
    <3>3. CASE u # t /\ u # by
      <4>1. u \in Alive /\ u \in Ids /\ u \in Nat /\ s \in Nat
        BY <1>2, <1>6, <3>3
      <4>2. by # Nobody /\ by = runs /\ u <= by
        BY <1>4, <4>1 DEF Innermost
      <4>3. frame[s] = "calls"
        <5>1. s # by
          BY <1>2, <2>4, <4>1, <4>2, <3>3
        <5>2. s # t
          BY <1>6, <2>4, <4>1
        <5> QED
          BY <1>3, <2>4, <5>1, <5>2
      <4>4. frame[u] \in {"calls", "body"}
        BY <2>4, <4>1, <4>2, <4>3 DEF TasksInv, CallStack
      <4> QED
        BY <1>3, <3>3, <4>1, <4>4
    <3> QED
      BY <3>1, <3>2, <3>3
  <2>5. ASSUME NEW s \in Ids, frame'[s] = "calls"
        PROVE  \E c \in Alive \cup {t} : parent'[c] = s
    <3>1. CASE s = by
      BY <1>3, <3>1
    <3>2. CASE s # by
      <4>1. frame[s] = "calls"
        BY <1>3, <2>5, <3>2
      <4>2. PICK c \in Alive : parent[c] = s
        BY <4>1 DEF TasksInv, CallStack
      <4> QED
        BY <1>2, <1>3, <1>6, <4>2
    <3> QED
      BY <3>1, <3>2
  <2>6. ASSUME NEW s \in Ids, frame'[s] \in {"body", "event", "final"}
        PROVE  \A u \in Alive \cup {t} : u <= s
    <3>1. CASE s = t
      <4>1. t <= t /\ \A u \in Alive : u <= t
        BY <1>2, <1>6
      <4> QED
        BY <3>1, <4>1
    <3>2. CASE s # t
      <4>1. frame[s] \in {"event", "final"} /\ s # by
        BY <1>3, <2>2, <2>6, <3>2
      <4>2. s \in Alive /\ Innermost(s) /\ s \in Nat
        BY <1>2, <4>1, TaskNumbers DEF TasksInv, CallStack
      <4>3. by # Nobody /\ s <= by /\ by <= s
        BY <1>4, <4>2 DEF Innermost
      <4> QED
        BY <1>2, <4>1, <4>2, <4>3
    <3> QED
      BY <3>1, <3>2
  <2>7. \A u \in Ids : frame'[u] \in {"body", "event", "final"} => Innermost(u)'
    BY <1>5, <2>6 DEF Innermost
  <2>8. \A u \in Ids : frame'[u] = "calls" => \E c \in Alive' : parent'[c] = u
    BY <1>5, <2>5
  <2>9. \A s \in Ids : frame'[s] = "calls" =>
          \A u \in Alive' : s < u /\ u <= runs' => frame'[u] \in {"calls", "body"}
    BY <1>1, <1>5, <2>4
  <2>10. runs' = t /\ runs' # Nobody /\ frame'[runs'] = "body"
    BY <1>1, <1>2, <1>3
  <2> HIDE DEF Innermost
  <2> QED
    BY <2>2, <2>3, <2>7, <2>8, <2>9, <2>10 DEF CallStack, Ids, Nobody
<1>10. Awaited'
  <2>1. \A s \in Ids : frame'[s] = "task" => \E c \in Alive' : handle'[c] = s
    BY <1>1, <1>3, <1>5 DEF TasksInv, Awaited
  <2>2. ASSUME NEW s \in Ids, handle[s] # Nobody
        PROVE  /\ s \in Alive' /\ handle[s] = parent'[s] /\ ~result[s]
               /\ frame'[parent'[s]] = "task"
    <3>1. /\ s \in Alive /\ handle[s] = parent[s] /\ ~result[s]
          /\ frame[parent[s]] = "task"
      BY <2>2 DEF TasksInv, Awaited
    <3>2. parent[s] \in Ids
      BY <2>2, <3>1 DEF TasksInv, TasksTypeOK
    <3>3. s # t /\ parent[s] # t /\ parent[s] # by
      BY <1>1, <1>2, <1>4, <3>1, <3>2
    <3> QED
      BY <1>3, <1>5, <3>1, <3>2, <3>3
  <2>3. \A s \in Ids : frame'[s] = "event" => waits = s
    BY <1>3 DEF TasksInv, Awaited
  <2>4. waits \in Alive' => frame'[waits] = "event"
    <3>1. waits # t
      BY <1>1, <1>2 DEF TasksInv, Awaited, TasksTypeOK
    <3>2. waits \in Alive => frame[waits] = "event" /\ waits \in Ids
      BY TaskNumbers DEF TasksInv, Awaited
    <3> QED
      BY <1>2, <1>3, <1>4, <1>5, <3>1, <3>2
  <2>5. waits # Nobody => frame'[waits] # "none"
    BY <1>3 DEF TasksInv, Awaited, TasksTypeOK
  <2> QED
    BY <1>1, <2>1, <2>2, <2>3, <2>4, <2>5 DEF Awaited, Ids, Nobody
<1>11. Values'
  <2>1. ASSUME NEW s \in Alive' PROVE (result[s] <=> frame'[s] = "final") /\ taken[s] = 0
    <3>1. CASE s = t
      BY <1>1, <1>3, <3>1 DEF TasksInv, Values
    <3>2. CASE s # t
      <4>1. s \in Alive /\ s \in Ids /\ (result[s] <=> frame[s] = "final") /\ taken[s] = 0
        BY <1>5, <1>6, <3>2 DEF TasksInv, Values
      <4> QED
        BY <1>2, <1>3, <1>4, <3>2, <4>1
    <3> QED
      BY <3>1, <3>2
  <2> QED
    BY <1>1, <1>3, <2>1 DEF TasksInv, Values, Ids
<1> QED
  BY <1>7, <1>8, <1>9, <1>10, <1>11 DEF TasksInv

LEMMA TasksNext == TasksInv /\ [Subtasks!Next]_(Subtasks!vars) => TasksInv'
<1> SUFFICES ASSUME TasksInv, [Subtasks!Next]_(Subtasks!vars) PROVE TasksInv'
  OBVIOUS
<1>1. CASE Subtasks!StartSubtask
  BY <1>1, StartKeeps DEF Subtasks!StartSubtask, Nobody, Alive
<1>2. CASE Subtasks!CallTask
  BY <1>2, StartKeeps DEF Subtasks!CallTask, Nobody, TasksInv, TasksTypeOK
<1>3. CASE UNCHANGED Subtasks!vars
  <2>1. Alive' = Alive
    BY <1>3 DEF Alive, Subtasks!Alive, Subtasks!vars
  <2> QED
    BY <1>3, <2>1 DEF TasksInv, TasksTypeOK, Chain, CallStack, Awaited, Values,
                      Innermost, Subtasks!vars
<1> QED
  BY <1>1, <1>2, <1>3, AwaitEventKeeps, EmptyKeeps, AwaitEndedKeeps, AwaitTaskKeeps,
     EndAwaitedKeeps, EndAloneKeeps, EventKeeps, TerminateKeeps DEF Subtasks!Next

LEMMA TasksInvImplies == TasksInv => TasksReturn
<1> SUFFICES ASSUME TasksInv PROVE TasksReturn
  OBVIOUS
<1>1. \A t \in Alive : parent[t] # Nobody => parent[t] \in Alive
  BY DEF TasksInv, Chain
<1>2. \A t \in Alive : handle[t] # Nobody =>
        handle[t] = parent[t] /\ frame[handle[t]] = "task"
  BY TaskNumbers DEF TasksInv, Awaited
<1>3. \A t \in Ids : taken[t] <= 1
  BY DEF TasksInv, Values
<1>4. ASSUME runs = Nobody, NEW t \in Alive
      PROVE  \/ frame[t] = "task" /\ \E c \in Alive : handle[c] = t /\ ~result[c]
             \/ frame[t] = "event" /\ waits = t
             \/ frame[t] = "final" /\ parent[t] = Nobody
  <2>1. t \in Ids /\ t \in Nat /\ frame[t] \in {"body", "calls", "task", "event", "final"}
    BY TaskNumbers DEF TasksInv, TasksTypeOK
  <2>2. frame[t] \notin {"body", "calls"}
    BY <1>4, <2>1, TaskNumbers DEF TasksInv, CallStack
  <2>3. CASE frame[t] = "task"
    <3>1. PICK c \in Alive : handle[c] = t
      BY <2>1, <2>3 DEF TasksInv, Awaited
    <3>2. c \in Ids /\ handle[c] # Nobody
      BY <2>1, <3>1, TaskNumbers
    <3>3. ~result[c]
      BY <3>2 DEF TasksInv, Awaited
    <3> QED
      BY <2>3, <3>1, <3>3
  <2>4. CASE frame[t] = "event"
    BY <2>1, <2>4 DEF TasksInv, Awaited
  <2>5. CASE frame[t] = "final"
    <3> SUFFICES ASSUME parent[t] # Nobody PROVE FALSE
      BY <2>5
    <3> DEFINE p == parent[t]
    <3>1. p \in Alive /\ p < t /\ p \in Ids /\ p \in Nat
      BY TaskNumbers DEF TasksInv, Chain
    <3>2. ~Innermost(p)
      BY <2>1, <3>1 DEF Innermost
    <3>3. frame[p] = "task"
      BY <1>4, <3>1, <3>2, TaskNumbers DEF TasksInv, TasksTypeOK, CallStack
    <3>4. PICK c \in Alive : handle[c] = p
      BY <3>1, <3>3 DEF TasksInv, Awaited
    <3>5. c \in Ids /\ handle[c] # Nobody
      BY <3>1, <3>4, TaskNumbers
    <3>6. parent[c] = p /\ ~result[c]
      BY <3>4, <3>5 DEF TasksInv, Awaited
    <3>7. c = t
      BY <3>1, <3>6, OneChild
    <3> QED
      BY <2>5, <3>6, <3>7 DEF TasksInv, Values
  <2> QED
    BY <2>1, <2>2, <2>3, <2>4, <2>5
<1>5. runs \notin Alive \cup {Nobody} => \A t \in Alive : frame[t] # "event"
  <2>1. runs \in Ids \cup {Nobody} /\ (runs # Nobody => frame[runs] # "none")
    BY TaskNumbers DEF TasksInv, TasksTypeOK, CallStack
  <2> QED
    BY <2>1, TaskNumbers DEF TasksInv, CallStack
<1> QED
  BY <1>1, <1>2, <1>3, <1>4, <1>5 DEF TasksReturn, Subtasks!TasksReturn, Alive, Ids, Nobody

-----------------------------------------------------------------------------
(* QueuedAwaitable. *)

Readers == {"away", "ready", "suspend", "resume", "suspended"}

Rings == [arr : [0..N-1 -> Nat], start : 0..N-1, end : 0..N-1, count : Nat]

(* What FIFO keeps true of a ring r; the variant for void only counts.     *)
Sound(r) ==
  /\ r \in Rings
  /\ sort = "value" => r.count <= N /\ r.end = (r.start + r.count) % N

QueueTypeOK ==
  /\ sort \in {"value", "void"}
  /\ Sound(ring)
  /\ waiter \in BOOLEAN
  /\ reader \in Readers
  /\ puts \in Nat
  /\ kept \in Seq(Nat) /\ got \in Seq(Nat)

(* Events of the variant for void are numbered; who is about to take one   *)
(* finds one.                                                              *)
QueueInv ==
  /\ QueueTypeOK
  /\ Queued!QueueIsRead
  /\ sort = "void" => \A k \in 1..Len(kept) : kept[k] = k
  /\ reader = "resume" => ring.count > 0

(* Places of a ring: the remainder of what is less than two rounds.        *)
LEMMA RoundTheRing ==
  ASSUME NEW x \in 0..2*N-1
  PROVE  x % N = (IF x < N THEN x ELSE x - N)
<1>1. N \in Nat \ {0}
  BY RingAssumption
<1>2. CASE x < N
  BY <1>1, <1>2
<1>3. CASE x >= N
  BY <1>1, <1>3
<1> QED
  BY <1>1, <1>2, <1>3
(* The next place of a ring, and the places of those after the first n: a  *)
(* free one, as long as there are fewer than N.                            *)
LEMMA NextPlace ==
  ASSUME NEW s \in 0..N-1, NEW n \in 0..N-1
  PROVE  /\ (s + n) % N \in 0..N-1
         /\ (((s + n) % N) + 1) % N = (s + (n + 1)) % N
         /\ \A i \in 1..n : /\ (s + i - 1) % N \in 0..N-1
                            /\ (s + i - 1) % N # (s + n) % N
<1> USE RingAssumption
<1> DEFINE e == (s + n) % N
<1>1. e = (IF s + n < N THEN s + n ELSE s + n - N)
  BY RoundTheRing
<1> HIDE DEF e
<1>2. (s + (n + 1)) % N = (IF s + n + 1 < N THEN s + n + 1 ELSE s + n + 1 - N)
  BY RoundTheRing
<1>3. (e + 1) % N = (IF e + 1 < N THEN e + 1 ELSE 0)
  BY <1>1, RoundTheRing
<1>4. ASSUME NEW i \in 1..n
      PROVE  (s + i - 1) % N =
               (IF s + i - 1 < N THEN s + i - 1 ELSE s + i - 1 - N)
  BY RoundTheRing
<1>5. /\ e \in 0..N-1
      /\ (e + 1) % N = (s + (n + 1)) % N
      /\ \A i \in 1..n : (s + i - 1) % N \in 0..N-1 /\ (s + i - 1) % N # e
  BY <1>1, <1>2, <1>3, <1>4
<1> QED
  BY <1>5 DEF e

(* Without the first one the others keep their places.                     *)
LEMMA PlacesAfterFirst ==
  ASSUME NEW s \in 0..N-1, NEW n \in 1..N
  PROVE  LET q == (s + 1) % N
         IN \A i \in 1..n : (q + (i - 1)) % N = (s + i) % N
<1> USE RingAssumption
<1> DEFINE q == (s + 1) % N
<1>1. q = (IF s + 1 < N THEN s + 1 ELSE 0)
  BY RoundTheRing
<1> HIDE DEF q
<1>2. ASSUME NEW i \in 1..n
      PROVE  (q + (i - 1)) % N = (s + i) % N
  <2>1. (s + i) % N = (IF s + i < N THEN s + i ELSE s + i - N)
    BY RoundTheRing
  <2>2. (q + (i - 1)) % N =
          (IF q + (i - 1) < N THEN q + (i - 1) ELSE q + (i - 1) - N)
    BY <1>1, RoundTheRing
  <2> QED
    BY <1>1, <2>1, <2>2
<1> QED
  BY <1>2 DEF q

(* FIFO::put of an event that finds room: it follows those that are there. *)
LEMMA RingPut ==
  ASSUME Sound(ring), sort = "value", ring.count < N, NEW v \in Nat
  PROVE  LET r == Queued!Put(ring, v)
         IN /\ Sound(r)
            /\ r.start = ring.start /\ r.count = ring.count + 1
            /\ r.arr[(ring.start + ring.count) % N] = v
            /\ \A i \in 1..ring.count :
                 r.arr[(ring.start + i - 1) % N] = ring.arr[(ring.start + i - 1) % N]
<1> DEFINE r == Queued!Put(ring, v)
           s == ring.start
           n == ring.count
           e == ring.end
<1>1. /\ s \in 0..N-1 /\ n \in 0..N-1 /\ e = (s + n) % N
  BY RingAssumption DEF Sound, Rings
<1>2. ring.arr \in [0..N-1 -> Nat]
  BY DEF Sound, Rings
<1>3. r = [arr |-> [ring.arr EXCEPT ![e] = v], start |-> s,
           end |-> (e + 1) % N, count |-> n + 1]
  BY DEF Queued!Put, Queued!Room
<1> HIDE DEF r, s, n, e
<1>4. /\ e \in 0..N-1 /\ (e + 1) % N = (s + (n + 1)) % N
      /\ \A i \in 1..n : (s + i - 1) % N \in 0..N-1 /\ (s + i - 1) % N # e
  BY <1>1, NextPlace
<1>5. (e + 1) % N \in 0..N-1
  BY <1>4, RingAssumption
<1>6. /\ r.arr = [ring.arr EXCEPT ![e] = v] /\ r.start = s
      /\ r.end = (e + 1) % N /\ r.count = n + 1
  BY <1>3
<1>7. Sound(r)
  <2>1. r \in Rings
    BY <1>1, <1>2, <1>3, <1>4, <1>5 DEF Rings
  <2>2. r.count <= N /\ r.end = (r.start + r.count) % N
    BY <1>1, <1>4, <1>6, RingAssumption
  <2> QED
    BY <2>1, <2>2 DEF Sound
<1>8. r.arr[(s + n) % N] = v
  BY <1>1, <1>2, <1>4, <1>6
<1>9. \A i \in 1..n : r.arr[(s + i - 1) % N] = ring.arr[(s + i - 1) % N]
  BY <1>2, <1>4, <1>6
<1> QED
  BY <1>6, <1>7, <1>8, <1>9 DEF r, s, n

(* FIFO::pop: the oldest one goes, the others stay in their order.         *)
LEMMA RingPop ==
  ASSUME NEW r, Sound(r), r.count > 0
  PROVE  LET p == Queued!Pop(r)
         IN /\ Sound(p)
            /\ p.arr = r.arr /\ p.count = r.count - 1
            /\ sort = "value" =>
                 \A i \in 1..p.count : (p.start + i - 1) % N = (r.start + i) % N
            /\ r.start \in 0..N-1 /\ (r.start + 1 - 1) % N = r.start
<1> DEFINE p == Queued!Pop(r)
           s == r.start
           n == r.count
           q == (s + 1) % N
<1>1. s \in 0..N-1 /\ n \in Nat \ {0} /\ r \in Rings
  BY DEF Sound, Rings
<1>2. r.arr \in [0..N-1 -> Nat] /\ r.end \in 0..N-1
  BY DEF Sound, Rings
<1>3. p = [arr |-> r.arr, start |-> q, end |-> r.end, count |-> n - 1]
  BY DEF Queued!Pop
<1> HIDE DEF p, s, n
<1>4. p.arr = r.arr /\ p.start = q /\ p.end = r.end /\ p.count = n - 1
  BY <1>3
<1>5. q \in 0..N-1
  BY <1>1, RingAssumption
<1>6. p \in Rings
  BY <1>1, <1>2, <1>3, <1>5 DEF Rings
<1>7. ASSUME sort = "value"
      PROVE  /\ p.count <= N /\ p.end = (p.start + p.count) % N
             /\ \A i \in 1..p.count : (p.start + i - 1) % N = (s + i) % N
  <2>1. n \in 1..N /\ r.end = (s + n) % N
    BY <1>1, <1>7 DEF Sound, s, n
  <2>2. \A i \in 1..n : (q + (i - 1)) % N = (s + i) % N
    BY <1>1, <2>1, PlacesAfterFirst
  <2>3. \A i \in 1..n : q + (i - 1) = q + i - 1
    BY <1>5, <2>1
  <2>4. p.count \in 0..N-1 /\ \A i \in 1..p.count : i \in 1..n
    BY <1>4, <2>1, RingAssumption
  <2>5. (p.start + p.count) % N = (s + n) % N
    BY <1>4, <2>1, <2>2
  <2>6. \A i \in 1..p.count : (q + i - 1) % N = (s + i) % N
    BY <2>2, <2>3, <2>4
  <2> QED
    BY <1>4, <2>1, <2>4, <2>5, <2>6, RingAssumption
<1>8. (s + 1 - 1) % N = s
  <2>1. s + 1 - 1 = s
    BY <1>1
  <2> QED
    BY <1>1, <2>1, RoundTheRing, RingAssumption
<1> QED
  BY <1>1, <1>4, <1>6, <1>7, <1>8 DEF p, s, n, Sound

LEMMA QueueInit == Queued!Init => QueueInv
<1> SUFFICES ASSUME Queued!Init PROVE QueueInv
  OBVIOUS
<1> USE RingAssumption DEF Queued!Init
<1>1. QueueTypeOK
  <2>1. Sound(ring)
    <3>1. 0 % N = 0
      BY RoundTheRing
    <3> QED BY <3>1 DEF Sound, Rings
  <2> QED BY <2>1 DEF QueueTypeOK, Readers
<1>2. Queued!QueueIsRead
  BY DEF Queued!QueueIsRead
<1> QED
  BY <1>1, <1>2 DEF QueueInv

(* The events g were taken, those of ring r come next, k are all of them.  *)
Holds(r, k, g) ==
  /\ Len(g) + r.count = Len(k)
  /\ \A i \in DOMAIN g : g[i] = k[i]
  /\ sort = "value" =>
       \A i \in 1..r.count : r.arr[(r.start + i - 1) % N] = k[Len(g) + i]

Numbered(k) == sort = "void" => \A i \in 1..Len(k) : k[i] = i

(* What operator() notes is the last event of those that are not taken.    *)
LEMMA PutKeeps ==
  ASSUME QueueInv, Queued!Event
  PROVE  LET r == Queued!Put(ring, puts')
         IN /\ Sound(r) /\ Holds(r, kept', got)
            /\ kept' \in Seq(Nat) /\ Numbered(kept')
            /\ ring.count = 0 => r = ring \/ r.count = 1
<1> DEFINE r == Queued!Put(ring, puts')
<1>1. /\ Sound(ring) /\ Holds(ring, kept, got) /\ Numbered(kept)
      /\ puts \in Nat /\ kept \in Seq(Nat) /\ got \in Seq(Nat)
      /\ sort \in {"value", "void"}
  BY DEF QueueInv, QueueTypeOK, Queued!QueueIsRead, Holds, Numbered
<1>2. puts' \in Nat
  BY <1>1 DEF Queued!Event
<1> DEFINE m == Len(kept)
           n == Len(got)
<1>6. m \in Nat /\ n \in Nat /\ DOMAIN got = 1..n
  BY <1>1
<1>7. /\ n + ring.count = m
      /\ \A i \in 1..n : got[i] = kept[i]
      /\ ring.count \in Nat /\ ring.start \in Nat
  <2>1. ring.count \in Nat /\ ring.start \in Nat
    BY <1>1 DEF Sound, Rings
  <2> QED
    BY <1>1, <1>6, <2>1 DEF Holds
<1> HIDE DEF m, n
<1>3. CASE ~Queued!Room
  BY <1>1, <1>3 DEF Queued!Put, Queued!Event
<1>4. CASE sort = "void"
  <2>1. /\ Queued!Room
        /\ r = [arr |-> [ring.arr EXCEPT ![ring.end] = puts'],
                start |-> ring.start, end |-> (ring.end + 1) % N,
                count |-> ring.count + 1]
    BY <1>4 DEF Queued!Put, Queued!Room
  <2>2. /\ ring.arr \in [0..N-1 -> Nat] /\ ring.start \in 0..N-1
        /\ ring.end \in 0..N-1 /\ ring.count \in Nat
    BY <1>1 DEF Sound, Rings
  <2>3. (ring.end + 1) % N \in 0..N-1
    BY <2>2, RingAssumption
  <2>4. [ring.arr EXCEPT ![ring.end] = puts'] \in [0..N-1 -> Nat]
    BY <1>2, <2>2
  <2> HIDE DEF r
  <2>5. r \in Rings /\ r.count = ring.count + 1
    BY <2>1, <2>2, <2>3, <2>4 DEF Rings
  <2>6. kept' = Append(kept, Len(kept) + 1)
    BY <1>4, <2>1 DEF Queued!Event
  <2>7. /\ kept' \in Seq(Nat) /\ Len(kept') = m + 1
        /\ \A i \in 1..m : kept'[i] = kept[i]
        /\ kept'[m + 1] = m + 1
    BY <1>1, <2>6 DEF m
  <2>8. Numbered(kept')
    <3>1. \A i \in 1..m : kept[i] = i
      BY <1>1, <1>4 DEF Numbered, m
    <3>2. \A i \in 1..(m + 1) : kept'[i] = i
      BY <1>6, <2>7, <3>1
    <3> QED
      BY <2>7, <3>2 DEF Numbered
  <2>9. Holds(r, kept', got)
    <3>1. n + r.count = Len(kept') /\ \A i \in 1..n : got[i] = kept'[i]
      BY <1>6, <1>7, <2>5, <2>7
    <3> QED
      BY <1>4, <1>6, <3>1 DEF Holds, n
  <2> QED
    BY <1>4, <2>2, <2>5, <2>7, <2>8, <2>9 DEF Sound, r
<1>5. CASE sort = "value" /\ ring.count < N
  <2>1. kept' = Append(kept, puts')
    BY <1>5 DEF Queued!Event, Queued!Room
  <2>2. /\ kept' \in Seq(Nat) /\ Len(kept') = m + 1
        /\ \A i \in 1..m : kept'[i] = kept[i]
        /\ kept'[m + 1] = puts'
    BY <1>1, <1>2, <2>1 DEF m
  <2>3. /\ Sound(r)
        /\ r.start = ring.start /\ r.count = ring.count + 1
        /\ r.arr[(ring.start + ring.count) % N] = puts'
        /\ \A i \in 1..ring.count :
             r.arr[(ring.start + i - 1) % N] = ring.arr[(ring.start + i - 1) % N]
    BY <1>1, <1>2, <1>5, RingPut
  <2> HIDE DEF r
  <2>7. r.start = ring.start /\ r.count = ring.count + 1
    BY <2>3
  <2>4. n + r.count = Len(kept') /\ \A i \in 1..n : got[i] = kept'[i]
    <3>1. n + r.count = m + 1 /\ \A i \in 1..n : i \in 1..m
      BY <1>6, <1>7, <2>7
    <3> QED
      BY <1>7, <2>2, <3>1
  <2>5. ASSUME NEW i \in 1..r.count
        PROVE  r.arr[(r.start + i - 1) % N] = kept'[n + i]
    <3>1. CASE i = r.count
      <4>1. r.start + i - 1 = ring.start + ring.count /\ n + i = m + 1
        BY <1>6, <1>7, <2>7, <3>1
      <4> QED
        BY <2>2, <2>3, <4>1
    <3>2. CASE i \in 1..ring.count
      <4>1. ring.arr[(ring.start + i - 1) % N] = kept[n + i]
        BY <1>1, <1>5, <3>2 DEF Holds, n
      <4>2. n + i \in 1..m
        BY <1>6, <1>7, <3>2
      <4> QED
        BY <2>2, <2>3, <3>2, <4>1, <4>2
    <3> QED
      BY <1>7, <2>3, <3>1, <3>2
  <2>6. Holds(r, kept', got)
    BY <1>6, <2>4, <2>5 DEF Holds, n
  <2> QED
    BY <1>5, <1>7, <2>2, <2>3, <2>6 DEF Numbered, r
<1> QED
  BY <1>1, <1>3, <1>4, <1>5 DEF Queued!Room

(* The coroutine takes the oldest of those it has not taken.               *)
LEMMA PopKeeps ==
  ASSUME NEW r, NEW k \in Seq(Nat), got \in Seq(Nat), sort \in {"value", "void"},
         Sound(r), r.count > 0, Holds(r, k, got), Numbered(k)
  PROVE  LET p == Queued!Pop(r)
             g == Append(got, Queued!First(r))
         IN Sound(p) /\ p.count = r.count - 1 /\ g \in Seq(Nat) /\ Holds(p, k, g)
<1> DEFINE p == Queued!Pop(r)
           g == Append(got, Queued!First(r))
           n == Len(got)
<1>1. /\ Sound(p)
      /\ p.arr = r.arr /\ p.count = r.count - 1
      /\ sort = "value" =>
           \A i \in 1..p.count : (p.start + i - 1) % N = (r.start + i) % N
      /\ r.start \in 0..N-1 /\ (r.start + 1 - 1) % N = r.start
  BY RingPop
<1>2. r.count \in Nat \ {0} /\ n \in Nat /\ r.arr \in [0..N-1 -> Nat]
  BY DEF Sound, Rings
<1> HIDE DEF p
<1>9. n + r.count = Len(k) /\ DOMAIN got = 1..n /\ \A i \in 1..n : got[i] = k[i]
  BY DEF Holds
<1>3. n + 1 \in 1..Len(k)
  BY <1>2, <1>9
<1>4. Queued!First(r) = k[n + 1]
  <2>1. CASE sort = "value"
    <3>1. 1 \in 1..r.count
      BY <1>2
    <3>2. r.arr[(r.start + 1 - 1) % N] = k[n + 1]
      BY <2>1, <3>1 DEF Holds
    <3> QED
      BY <1>1, <2>1, <3>2 DEF Queued!First
  <2>2. CASE sort = "void"
    BY <1>3, <2>2 DEF Queued!First, Numbered
  <2> QED
    BY <2>1, <2>2
<1>5. /\ g \in Seq(Nat) /\ Len(g) = n + 1 /\ g[n + 1] = k[n + 1]
      /\ \A i \in 1..n : g[i] = got[i]
  BY <1>3, <1>4
<1> HIDE DEF g, n
<1>6. \A i \in DOMAIN g : g[i] = k[i]
  <2>1. DOMAIN got = 1..n /\ DOMAIN g = 1..(n + 1)
    BY <1>5, <1>9
  <2>2. \A i \in 1..(n + 1) : i \in 1..n \/ i = n + 1
    BY <1>2
  <2> QED
    BY <1>5, <1>9, <2>1, <2>2
<1>7. Len(g) + p.count = Len(k)
  BY <1>1, <1>2, <1>5, <1>9
<1>8. ASSUME sort = "value", NEW i \in 1..p.count
      PROVE  p.arr[(p.start + i - 1) % N] = k[Len(g) + i]
  <2>1. i + 1 \in 1..r.count /\ Len(g) + i = n + (i + 1)
    <3>1. p.count = r.count - 1 /\ r.count \in Nat /\ n \in Nat /\ Len(g) = n + 1
      BY <1>1, <1>2, <1>5
    <3> QED
      BY <3>1
  <2>2. r.arr[(r.start + (i + 1) - 1) % N] = k[n + (i + 1)]
    BY <1>8, <2>1 DEF Holds, n
  <2>3. r.start + (i + 1) - 1 = r.start + i
    BY <1>1
  <2> QED
    BY <1>1, <1>8, <2>1, <2>2, <2>3
<1> QED
  BY <1>1, <1>5, <1>6, <1>7, <1>8 DEF Holds, p, g

LEMMA QueueNext == QueueInv /\ [Queued!Next]_(Queued!vars) => QueueInv'
<1> SUFFICES ASSUME QueueInv, [Queued!Next]_(Queued!vars) PROVE QueueInv'
  OBVIOUS
<1>1. /\ Sound(ring) /\ Holds(ring, kept, got) /\ Numbered(kept)
      /\ puts \in Nat /\ kept \in Seq(Nat) /\ got \in Seq(Nat)
      /\ sort \in {"value", "void"} /\ waiter \in BOOLEAN /\ reader \in Readers
      /\ (reader = "suspended" <=> waiter) /\ (waiter => ring.count = 0)
      /\ (reader = "resume" => ring.count > 0)
  BY DEF QueueInv, QueueTypeOK, Queued!QueueIsRead, Holds, Numbered
<1>2. ring.count \in Nat
  BY <1>1 DEF Sound, Rings
<1>3. ASSUME sort' = sort, puts' \in Nat,
             Sound(ring'), Holds(ring', kept', got'), Numbered(kept'),
             kept' \in Seq(Nat), got' \in Seq(Nat),
             waiter' \in BOOLEAN, reader' \in Readers,
             reader' = "suspended" <=> waiter', waiter' => ring'.count = 0,
             reader' = "resume" => ring'.count > 0
      PROVE  QueueInv'
  BY <1>1, <1>3
     DEF QueueInv, QueueTypeOK, Queued!QueueIsRead, Sound, Holds, Numbered
<1>4. CASE Queued!IsrPut
  <2>1. /\ Sound(ring') /\ Holds(ring', kept', got)
        /\ kept' \in Seq(Nat) /\ Numbered(kept')
    BY <1>4, PutKeeps DEF Queued!IsrPut
  <2>2. puts' \in Nat /\ sort' = sort /\ UNCHANGED <<waiter, reader, got>> /\ ~waiter
    BY <1>1, <1>4 DEF Queued!IsrPut, Queued!Event
  <2>3. reader = "resume" => ring'.count > 0
    <3>1. ring' = ring \/ ring'.count = ring.count + 1
      BY <1>4 DEF Queued!IsrPut, Queued!Put
    <3> QED
      BY <1>1, <1>2, <3>1
  <2> QED
    BY <1>1, <1>3, <2>1, <2>2, <2>3
<1>5. CASE Queued!IsrPutResumes
  <2> DEFINE r == Queued!Put(ring, puts')
  <2>1. /\ Sound(r) /\ Holds(r, kept', got)
        /\ kept' \in Seq(Nat) /\ Numbered(kept')
    BY <1>5, PutKeeps DEF Queued!IsrPutResumes
  <2>2. ring' = Queued!Pop(r) /\ got' = Append(got, Queued!First(r))
    BY <1>5 DEF Queued!IsrPutResumes
  <2>3. /\ puts' \in Nat /\ sort' = sort /\ ring.count = 0
        /\ waiter' \in BOOLEAN /\ reader' \in {"away", "suspended"}
        /\ (reader' = "suspended" <=> waiter')
    BY <1>1, <1>5 DEF Queued!IsrPutResumes, Queued!Event
  <2>4. r.count = 1
    BY <2>3, RingAssumption DEF Queued!Put, Queued!Room
  <2> HIDE DEF r
  <2>5. Sound(ring') /\ ring'.count = 0 /\ got' \in Seq(Nat) /\ Holds(ring', kept', got')
    BY <1>1, <2>1, <2>2, <2>4, PopKeeps
  <2> QED
    BY <1>3, <2>1, <2>3, <2>5 DEF Readers
<1>6. CASE Queued!Arrives
  BY <1>1, <1>3, <1>6 DEF Queued!Arrives, Queued!UnchangedByReader, Readers
<1>7. CASE Queued!AwaitReady
  BY <1>1, <1>2, <1>3, <1>7 DEF Queued!AwaitReady, Queued!UnchangedByReader, Readers
<1>8. CASE Queued!AwaitSuspend
  <2>1. /\ UNCHANGED <<ring, kept, got, sort, puts>>
        /\ reader = "suspend"
        /\ \/ ring.count # 0 /\ reader' = "resume" /\ waiter' = waiter
           \/ ring.count = 0 /\ reader' = "suspended" /\ waiter' = TRUE
    BY <1>8 DEF Queued!AwaitSuspend, Queued!UnchangedByReader
  <2>2. ~waiter
    BY <1>1, <2>1
  <2>3. CASE ring.count # 0
    BY <1>1, <1>2, <1>3, <2>1, <2>2, <2>3 DEF Readers
  <2>4. CASE ring.count = 0
    BY <1>1, <1>3, <2>1, <2>4 DEF Readers
  <2> QED
    BY <2>3, <2>4
<1>9. CASE Queued!AwaitResume
  <2>1. /\ ring' = Queued!Pop(ring) /\ got' = Append(got, Queued!First(ring))
        /\ reader = "resume" /\ reader' = "away" /\ waiter' = FALSE
        /\ UNCHANGED <<kept, sort, puts>>
    BY <1>9 DEF Queued!AwaitResume, Queued!UnchangedByReader
  <2>2. Sound(ring') /\ got' \in Seq(Nat) /\ Holds(ring', kept, got')
    BY <1>1, <2>1, PopKeeps
  <2> QED
    BY <1>1, <1>3, <2>1, <2>2 DEF Readers
<1>10. CASE Queued!Clear
  <2>1. /\ ring' = [arr |-> ring.arr, start |-> 0, end |-> 0, count |-> 0]
        /\ reader' = "away" /\ waiter' = FALSE
        /\ kept' = got /\ UNCHANGED <<got, sort, puts>>
    BY <1>10 DEF Queued!Clear, Queued!UnchangedByReader
  <2>2. Sound(ring')
    <3>1. ring' \in Rings /\ ring'.end = 0 /\ ring'.start = 0 /\ ring'.count = 0
      BY <1>1, <2>1, RingAssumption DEF Sound, Rings
    <3>2. 0 % N = 0
      BY RoundTheRing, RingAssumption
    <3> QED
      BY <3>1, <3>2, RingAssumption DEF Sound
  <2>3. Holds(ring', kept', got') /\ Numbered(kept')
    <3>1. ASSUME sort = "void", NEW i \in 1..Len(got) PROVE got[i] = i
      <4>1. /\ Len(got) \in Nat /\ Len(kept) \in Nat /\ DOMAIN got = 1..Len(got)
            /\ Len(got) + ring.count = Len(kept)
        BY <1>1 DEF Holds
      <4>2. i \in 1..Len(kept)
        BY <1>2, <4>1
      <4> QED
        BY <1>1, <3>1, <4>1, <4>2 DEF Holds, Numbered
    <3> QED
      BY <1>1, <2>1, <3>1 DEF Holds, Numbered
  <2> QED
    BY <1>1, <1>3, <2>1, <2>2, <2>3 DEF Readers
<1>11. CASE UNCHANGED Queued!vars
  BY <1>1, <1>3, <1>11 DEF Queued!vars
<1> QED
  BY <1>4, <1>5, <1>6, <1>7, <1>8, <1>9, <1>10, <1>11 DEF Queued!Next

-----------------------------------------------------------------------------
(* AsyncGenerator. *)

GeneratorTypeOK ==
  /\ gen \in {"fresh", "runs", "event", "yield", "final", "gone", "dangling"}
  /\ more \in {"none", "yes", "no"}
  /\ value \in Nat
  /\ caller \in BOOLEAN
  /\ user \in {"away", "calls", "ready", "suspend", "resume", "suspended", "done", "gone"}
  /\ event \in [flag : BOOLEAN, handle : BOOLEAN]
  /\ made \in Nat
  /\ read \in Seq(Nat)
  /\ early \in Nat

(* What the promise holds while the generator is at a place of its own.    *)
PromiseTold ==
  /\ more = "yes" => /\ gen \in {"yield", "gone"}
                     /\ made = Len(read) + 1 /\ value = made
  /\ more # "yes" => made = Len(read)
  /\ more = "no" => gen \in {"final", "gone"}
  /\ gen = "final" => more = "no" \/ user = "done"

(* Where the generator may be while the reader is at a place of its own.   *)
Turns ==
  /\ user = "gone" <=> gen = "gone"
  /\ user = "away" => more = "none" /\ gen \in {"fresh", "yield"}
  /\ user = "calls" => more = "none" /\ gen = "runs"
  /\ gen = "runs" => more = "none" /\ user \in {"calls", "ready", "suspend", "suspended"}
  /\ user \in {"ready", "suspend", "suspended"} /\ more = "none" =>
       gen \in {"event", "runs"}
  /\ user = "suspended" => more = "none" /\ caller
  /\ caller => user \in {"suspended", "resume", "gone"}
  /\ user = "resume" => more # "none"
  /\ user = "done" => more = "none" /\ gen = "final"

GeneratorInv ==
  /\ GeneratorTypeOK
  /\ gen # "dangling"
  /\ event.handle <=> gen = "event"
  /\ \A i \in 1..Len(read) : read[i] = i
  /\ PromiseTold
  /\ Turns

LEMMA GeneratorInit == Generated!Init => GeneratorInv
<1> SUFFICES ASSUME Generated!Init PROVE GeneratorInv
  OBVIOUS
<1>1. read \in Seq(Nat) /\ Len(read) = 0
  BY DEF Generated!Init
<1>2. event \in [flag : BOOLEAN, handle : BOOLEAN] /\ event.handle = FALSE
  BY DEF Generated!Init
<1>3. GeneratorTypeOK
  BY <1>1, <1>2 DEF Generated!Init, GeneratorTypeOK
<1>4. \A i \in 1..Len(read) : read[i] = i
  BY <1>1
<1>5. PromiseTold /\ Turns
  BY <1>1 DEF Generated!Init, PromiseTold, Turns
<1>6. gen # "dangling" /\ (event.handle <=> gen = "event")
  BY <1>2 DEF Generated!Init
<1> QED
  BY <1>3, <1>4, <1>5, <1>6 DEF GeneratorInv

LEMMA GeneratorNext ==
  GeneratorInv /\ [Generated!Next]_(Generated!vars) => GeneratorInv'
<1> SUFFICES ASSUME GeneratorInv, [Generated!Next]_(Generated!vars)
             PROVE  GeneratorInv'
  OBVIOUS
<1> USE DEF GeneratorInv, GeneratorTypeOK, PromiseTold, Turns
<1>1. CASE Generated!Yield
  <2>1. /\ read' = read /\ event' = event /\ caller' = caller /\ early' = early
        /\ gen = "runs" /\ gen' = "yield" /\ more' = "yes"
        /\ made' = made + 1 /\ value' = made'
        /\ user' = CASE caller -> "resume" [] user = "calls" -> "ready" [] OTHER -> user
    BY <1>1 DEF Generated!Yield, Generated!Return
  <2> QED
    BY <2>1
<1>2. CASE Generated!End
  <2>1. /\ read' = read /\ event' = event /\ caller' = caller /\ early' = early
        /\ gen = "runs" /\ gen' = "final" /\ more' = "no"
        /\ made' = made /\ value' = value
        /\ user' = CASE caller -> "resume" [] user = "calls" -> "ready" [] OTHER -> user
    BY <1>2 DEF Generated!End, Generated!Return
  <2> QED
    BY <2>1
<1>3. CASE Generated!Await
  BY <1>3 DEF Generated!Await
<1>4. CASE Generated!AwaitPast
  BY <1>4 DEF Generated!AwaitPast
<1>5. CASE Generated!Resumes
  BY <1>5 DEF Generated!Resumes
<1>6. CASE Generated!ComesEarly
  <2>1. /\ event' = [event EXCEPT !.flag = TRUE] /\ early' = early + 1
        /\ UNCHANGED <<gen, more, value, caller, user, made, read>>
    BY <1>6 DEF Generated!ComesEarly
  <2>2. /\ event' \in [flag : BOOLEAN, handle : BOOLEAN]
        /\ event'.handle = event.handle
    BY <2>1
  <2> QED
    BY <2>1, <2>2
<1>7. CASE Generated!Advance
  BY <1>7 DEF Generated!Advance, Generated!At, Generated!UnchangedByUser
<1>8. CASE Generated!AwaitReady
  BY <1>8 DEF Generated!AwaitReady, Generated!At, Generated!UnchangedByUser
<1>9. CASE Generated!AwaitSuspend
  BY <1>9 DEF Generated!AwaitSuspend, Generated!At, Generated!UnchangedByUser
<1>10. CASE Generated!AwaitResume
  <2>1. CASE more = "yes"
    <3>1. /\ read' = Append(read, value) /\ user' = "away" /\ value = Len(read) + 1
          /\ more' = "none" /\ caller' = FALSE
          /\ UNCHANGED <<gen, value, event, made, early>>
      BY <1>10, <2>1 DEF Generated!AwaitResume, Generated!At, Generated!UnchangedByUser
    <3>2. /\ read' \in Seq(Nat) /\ Len(read') = Len(read) + 1
          /\ \A i \in 1..Len(read') : read'[i] = i
      BY <3>1
    <3> QED
      BY <1>10, <2>1, <3>1, <3>2 DEF Generated!AwaitResume, Generated!At
  <2>2. CASE more # "yes"
    BY <1>10, <2>2 DEF Generated!AwaitResume, Generated!At, Generated!UnchangedByUser
  <2> QED
    BY <2>1, <2>2
<1>11. CASE Generated!Destroy
  BY <1>11 DEF Generated!Destroy, Generated!At, Generated!UnchangedByUser
<1>12. CASE UNCHANGED Generated!vars
  BY <1>12 DEF Generated!vars
<1> QED
  BY <1>1, <1>2, <1>3, <1>4, <1>5, <1>6, <1>7, <1>8, <1>9, <1>10, <1>11, <1>12
     DEF Generated!Next, Generated!Generator, Generated!Reader

LEMMA GeneratorInvImplies == GeneratorInv => Generated!GeneratorInStep
<1> SUFFICES ASSUME GeneratorInv PROVE Generated!GeneratorInStep
  OBVIOUS
<1>1. DOMAIN read = 1..Len(read) /\ Len(read) \in Nat
  BY DEF GeneratorInv, GeneratorTypeOK
<1>2. made - Len(read) \in {0, 1}
  <2>1. made \in Nat /\ (made = Len(read) + 1 \/ made = Len(read))
    BY DEF GeneratorInv, GeneratorTypeOK, PromiseTold
  <2>2. Len(read) \in Nat
    BY <1>1
  <2> HIDE DEF GeneratorInv
  <2> QED
    BY <2>1, <2>2
<1> QED
  BY <1>1, <1>2
     DEF GeneratorInv, GeneratorTypeOK, PromiseTold, Turns, Generated!GeneratorInStep

-----------------------------------------------------------------------------
(* Heap. *)

Ops == {"none", "panic"} \cup DOMAIN Shared!Guards

HeapTypeOK ==
  /\ masked \in BOOLEAN
  /\ nest \in [Shared!Contexts -> Seq(BOOLEAN)]
  /\ job \in [Shared!Contexts -> [op : Ops, done : BOOLEAN, block : Blocks \cup {"none"}]]
  /\ seen \in [Shared!Contexts -> {Shared!NotSeen} \cup SUBSET Blocks]
  /\ inUse \in SUBSET Blocks

(* The outermost guard has saved that interrupts were enabled, and every   *)
(* other one that they were masked. *)
Stacked(s) ==
  /\ s # << >> => s[1] = FALSE
  /\ \A k \in 2..Len(s) : s[k] = TRUE

(* Who is within its guards, and what it has seen of the heap.             *)
GuardsHold(c) ==
  /\ Stacked(nest[c])
  /\ Shared!Idle(c) => nest[c] = << >> /\ ~job[c].done
  /\ job[c].op \in DOMAIN Shared!Guards => Len(nest[c]) <= Shared!Guards[job[c].op]
  /\ job[c].op = "panic" => nest[c] # << >>
  /\ job[c].done => nest[c] # << >>
  /\ seen[c] # Shared!NotSeen =>
       /\ seen[c] = inUse
       /\ ~job[c].done
       /\ nest[c] # << >>
       /\ job[c].op \in DOMAIN Shared!Guards => Shared!Inside(c)

(* What is to be freed is in use, and nobody else frees it.                *)
BlocksOwned ==
  /\ \A c \in Shared!Contexts : job[c].block # "none" => job[c].block \in inUse
  /\ \A c \in Shared!Contexts : job[c].op \in {"free", "delete", "terminate"} /\ ~job[c].done =>
       job[c].block # "none"
  /\ \A c, d \in Shared!Contexts : c # d /\ job[c].block # "none" => job[c].block # job[d].block
  /\ owners = [b \in Blocks |-> IF b \in inUse THEN 1 ELSE 0]

MaskHolds ==
  /\ masked <=> nest["thread"] # << >> \/ nest["isr"] # << >>
  /\ nest["thread"] # << >> => nest["isr"] = << >> /\ (Shared!Idle("isr") \/ Shared!Halted)

HeapInv ==
  /\ HeapTypeOK
  /\ \A c \in Shared!Contexts : GuardsHold(c)
  /\ BlocksOwned
  /\ MaskHolds

-----------------------------------------------------------------------------
(* What locking and unlocking do to the states that are saved.             *)

LEMMA Pushed ==
  ASSUME NEW S, NEW s \in Seq(S), NEW m \in S
  PROVE  /\ Append(s, m) \in Seq(S) /\ Append(s, m) # << >>
         /\ Len(s) \in Nat /\ Len(Append(s, m)) = Len(s) + 1
         /\ (s = << >> <=> Len(s) = 0)
         /\ \A k \in 1..Len(s) : Append(s, m)[k] = s[k]
         /\ Append(s, m)[Len(s) + 1] = m
  BY SMT

LEMMA Popped ==
  ASSUME NEW S, NEW s \in Seq(S), s # << >>
  PROVE  /\ Len(s) \in Nat \ {0}
         /\ Shared!Front(s) \in Seq(S) /\ Len(Shared!Front(s)) = Len(s) - 1
         /\ (Shared!Front(s) = << >> <=> Len(s) = 1)
         /\ \A k \in 1..(Len(s) - 1) : Shared!Front(s)[k] = s[k]
         /\ Shared!Last(s) = s[Len(s)] /\ Shared!Last(s) \in S
<1>1. Len(s) \in Nat \ {0}
  BY SMT
<1>2. \A i \in 1..(Len(s) - 1) : s[i] \in S
  BY <1>1, ElementOfSeq
<1>3. /\ Shared!Front(s) \in Seq(S) /\ Len(Shared!Front(s)) = Len(s) - 1
      /\ \A k \in 1..(Len(s) - 1) : Shared!Front(s)[k] = s[k]
  <2>1. Shared!Front(s) \in Seq(S)
    BY <1>1, <1>2, SubSeqProperties DEF Shared!Front
  <2>2. Len(Shared!Front(s)) = Len(s) - 1
    <3>1. Len(Shared!Front(s)) = IF 1 <= Len(s) - 1 THEN (Len(s) - 1) - 1 + 1 ELSE 0
      BY <1>1, <1>2, SubSeqProperties DEF Shared!Front
    <3>2. \A n \in Nat \ {0} : (IF 1 <= n - 1 THEN (n - 1) - 1 + 1 ELSE 0) = n - 1
      OBVIOUS
    <3> QED BY <1>1, <3>1, <3>2
  <2>3. \A k \in 1..(Len(s) - 1) : Shared!Front(s)[k] = s[k]
    BY <1>1, SMT DEF Shared!Front
  <2> QED BY <2>1, <2>2, <2>3
<1>4. Shared!Front(s) = << >> <=> Len(s) = 1
  BY <1>1, <1>3, SMT
<1> QED BY <1>1, <1>2, <1>3, <1>4, SMT DEF Shared!Last

LEMMA StackPush ==
  ASSUME NEW s \in Seq(BOOLEAN), Stacked(s), NEW m \in BOOLEAN, m = (s # << >>)
  PROVE  Stacked(Append(s, m))
<1> DEFINE t == Append(s, m)
<1>1. /\ Len(s) \in Nat /\ Len(t) = Len(s) + 1
      /\ (s = << >> <=> Len(s) = 0)
      /\ \A k \in 1..Len(s) : t[k] = s[k]
      /\ t[Len(s) + 1] = m
  BY Pushed
<1> HIDE DEF t
<1>2. t[1] = FALSE
  <2>1. CASE s = << >>
    <3>1. m = FALSE
      BY <2>1
    <3>2. t[1] = m
      BY <1>1, <2>1
    <3> QED BY <3>1, <3>2
  <2>2. CASE s # << >>
    <3>1. 1 \in 1..Len(s) /\ s[1] = FALSE
      BY <1>1, <2>2 DEF Stacked
    <3> QED BY <1>1, <3>1
  <2> QED BY <2>1, <2>2
<1>3. ASSUME NEW k \in 2..Len(t) PROVE t[k] = TRUE
  <2>1. CASE k \in 2..Len(s)
    <3>1. k \in 1..Len(s) /\ s[k] = TRUE
      BY <1>1, <2>1 DEF Stacked
    <3> QED BY <1>1, <3>1
  <2>2. CASE k = Len(s) + 1
    <3>1. s # << >>
      BY <1>1, <2>2
    <3>2. m = TRUE
      BY <3>1
    <3>3. t[k] = m
      BY <1>1, <2>2
    <3> QED BY <3>2, <3>3
  <2>3. k \in 2..Len(s) \/ k = Len(s) + 1
    BY <1>1
  <2> QED BY <2>1, <2>2, <2>3
<1> QED BY <1>2, <1>3 DEF Stacked, t

LEMMA StackPop ==
  ASSUME NEW s \in Seq(BOOLEAN), Stacked(s), s # << >>
  PROVE  Stacked(Shared!Front(s)) /\ Shared!Last(s) = (Shared!Front(s) # << >>)
<1> DEFINE f == Shared!Front(s)
<1>1. /\ Len(s) \in Nat \ {0} /\ Len(f) = Len(s) - 1
      /\ (f = << >> <=> Len(s) = 1)
      /\ \A k \in 1..(Len(s) - 1) : f[k] = s[k]
      /\ Shared!Last(s) = s[Len(s)]
  BY Popped
<1> HIDE DEF f
<1>2. f # << >> => f[1] = FALSE
  <2> SUFFICES ASSUME f # << >> PROVE f[1] = FALSE
    OBVIOUS
  <2>1. 1 \in 1..(Len(s) - 1)
    BY <1>1
  <2> QED BY <1>1, <2>1 DEF Stacked
<1>3. ASSUME NEW k \in 2..Len(f) PROVE f[k] = TRUE
  <2>1. k \in 1..(Len(s) - 1) /\ k \in 2..Len(s)
    BY <1>1
  <2> QED BY <1>1, <2>1 DEF Stacked
<1>4. CASE Len(s) = 1
  <2>1. s[Len(s)] = FALSE
    BY <1>4 DEF Stacked
  <2> QED BY <1>1, <1>2, <1>3, <1>4, <2>1 DEF Stacked, f
<1>5. CASE Len(s) # 1
  <2>1. Len(s) \in 2..Len(s)
    BY <1>1, <1>5
  <2>2. s[Len(s)] = TRUE
    BY <2>1 DEF Stacked
  <2> QED BY <1>1, <1>2, <1>3, <1>5, <2>2 DEF Stacked, f
<1> QED BY <1>4, <1>5

-----------------------------------------------------------------------------
(* The inductive invariant.                                                *)

LEMMA HeapInit == Shared!Init => HeapInv
<1> SUFFICES ASSUME Shared!Init PROVE HeapInv
  OBVIOUS
<1> USE DEF Shared!Init, Shared!NoJob, Shared!Idle
<1>1. HeapTypeOK
  <2>1. nest \in [Shared!Contexts -> Seq(BOOLEAN)]
    BY EmptySeq
  <2>2. masked \in BOOLEAN /\ Shared!NoJob \in [op : Ops, done : BOOLEAN, block : Blocks \cup {"none"}]
    BY DEF Ops
  <2>3. job \in [Shared!Contexts -> [op : Ops, done : BOOLEAN, block : Blocks \cup {"none"}]]
    BY <2>2
  <2> QED BY <2>1, <2>2, <2>3 DEF HeapTypeOK
<1>2. \A c \in Shared!Contexts : GuardsHold(c)
  BY DEF GuardsHold, Stacked, Shared!Guards, Shared!Contexts
<1>3. BlocksOwned
  BY DEF BlocksOwned, Shared!Contexts
<1>4. MaskHolds
  BY Zenon DEF MaskHolds, Shared!Contexts
<1> QED
  BY <1>1, <1>2, <1>3, <1>4 DEF HeapInv

(* Whoever runs and is not idle has the guards to itself.                  *)
LEMMA Alone ==
  ASSUME HeapInv, NEW c \in Shared!Contexts, NEW d \in Shared!Contexts, c # d, Shared!Runs(c), ~Shared!Idle(c)
  PROVE  /\ nest[d] = << >> /\ seen[d] = Shared!NotSeen
         /\ masked = (nest[c] # << >>)
         /\ (c = "thread" => Shared!Idle("isr"))
<1>1. ~Shared!Halted
  BY DEF Shared!Runs
<1>2. nest[d] = << >>
  <2>1. CASE c = "thread"
    <3>1. d = "isr" /\ Shared!Idle("isr")
      BY <2>1 DEF Shared!Contexts, Shared!Runs
    <3> QED BY <3>1 DEF HeapInv, GuardsHold
  <2>2. CASE c = "isr"
    BY <1>1, <2>2 DEF Shared!Contexts, HeapInv, MaskHolds
  <2> QED BY <2>1, <2>2 DEF Shared!Contexts
<1>3. seen[d] = Shared!NotSeen
  <2>1. GuardsHold(d)
    BY DEF HeapInv
  <2> QED BY <1>2, <2>1 DEF GuardsHold
<1>4. masked <=> nest[c] # << >>
  BY <1>2 DEF HeapInv, MaskHolds, Shared!Contexts
<1>5. masked \in BOOLEAN
  BY DEF HeapInv, HeapTypeOK
<1> QED
  BY <1>2, <1>3, <1>4, <1>5 DEF Shared!Runs

LEMMA GuardNumbers == \A op \in DOMAIN Shared!Guards : Shared!Guards[op] \in Nat \ {0}
  BY DEF Shared!Guards

LEMMA Busy ==
  ASSUME HeapInv, NEW c \in Shared!Contexts, Shared!Runs(c), ~Shared!Idle(c)
  PROVE  job[c].op \in DOMAIN Shared!Guards
  BY DEF HeapInv, HeapTypeOK, Ops, Shared!Runs, Shared!Halted, Shared!Idle

(* One step of the invariant that is the same for all actions: a context   *)
(* whose own variables stay as they are. *)
LEMMA OtherHolds ==
  ASSUME HeapInv, NEW d \in Shared!Contexts, nest'[d] = nest[d], job'[d] = job[d],
         seen'[d] = seen[d], seen[d] # Shared!NotSeen => inUse' = inUse
  PROVE  GuardsHold(d)'
<1>1. GuardsHold(d)
  BY DEF HeapInv
<1> QED
  BY <1>1 DEF GuardsHold, Shared!Idle, Shared!Inside

LEMMA CallStep ==
  ASSUME HeapInv, NEW c \in Shared!Contexts, Shared!Call(c)
  PROVE  HeapInv'
<1> USE HeapAssumption
<1>1. PICK op \in DOMAIN Shared!Guards, b \in Blocks :
        /\ ~Shared!Allocates(op) => owners[b] > 0 /\ \A d \in Shared!Contexts : job[d].block # b
        /\ job' = [job EXCEPT ![c] = [op |-> op, done |-> FALSE,
                     block |-> IF Shared!Allocates(op) THEN "none" ELSE b]]
  BY DEF Shared!Call
<1>2. Shared!Runs(c) /\ Shared!Idle(c) /\ UNCHANGED <<masked, nest, seen, inUse, owners>>
  BY DEF Shared!Call
<1>3. /\ job'[c] = [op |-> op, done |-> FALSE,
                    block |-> IF Shared!Allocates(op) THEN "none" ELSE b]
      /\ \A d \in Shared!Contexts \ {c} : job'[d] = job[d]
  BY <1>1 DEF HeapInv, HeapTypeOK
<1>4. nest[c] = << >> /\ seen[c] = Shared!NotSeen
  <2>1. GuardsHold(c)
    BY DEF HeapInv
  <2> QED BY <1>2, <2>1 DEF GuardsHold
<1>5. HeapTypeOK'
  BY <1>1, <1>2 DEF HeapInv, HeapTypeOK, Ops
<1>6. ASSUME NEW d \in Shared!Contexts PROVE GuardsHold(d)'
  <2>1. CASE d = c
    <3>1. job'[c].op = op /\ ~job'[c].done /\ op \notin {"none", "panic"}
      BY <1>3 DEF Shared!Guards
    <3>2. nest'[c] = << >> /\ seen'[c] = Shared!NotSeen
      BY <1>2, <1>4
    <3>3. Stacked(<< >>) /\ Len(<< >>) = 0
      BY DEF Stacked
    <3>4. 0 <= Shared!Guards[op]
      BY GuardNumbers
    <3> QED BY <2>1, <3>1, <3>2, <3>3, <3>4 DEF GuardsHold, Shared!Idle
  <2>2. CASE d # c
    BY <1>2, <1>3, <2>2, OtherHolds
  <2> QED BY <2>1, <2>2
<1>7. BlocksOwned'
  <2>1. ~Shared!Allocates(op) => b \in inUse
    BY <1>1 DEF HeapInv, BlocksOwned
  <2>2. b # "none" /\ owners' = owners /\ inUse' = inUse
    BY <1>2
  <2>3. job'[c].block # "none" => job'[c].block = b /\ ~Shared!Allocates(op)
    BY <1>3
  <2>4. op \in {"free", "delete", "terminate"} => ~Shared!Allocates(op)
    BY DEF Shared!Allocates
  <2>5. ASSUME NEW d \in Shared!Contexts, job'[d].block # "none" PROVE job'[d].block \in inUse'
    BY <1>3, <2>1, <2>2, <2>3, <2>5 DEF HeapInv, BlocksOwned
  <2>6. ASSUME NEW d \in Shared!Contexts, ~job'[d].done,
               job'[d].op \in {"free", "delete", "terminate"}
        PROVE  job'[d].block # "none"
    BY <1>3, <2>2, <2>4, <2>6 DEF HeapInv, BlocksOwned
  <2>7. ASSUME NEW d \in Shared!Contexts, NEW e \in Shared!Contexts, d # e, job'[d].block # "none"
        PROVE  job'[d].block # job'[e].block
    <3>1. CASE d = c
      BY <1>1, <1>3, <2>3, <2>7, <3>1
    <3>2. CASE e = c
      BY <1>1, <1>3, <2>3, <2>7, <3>2
    <3>3. CASE d # c /\ e # c
      BY <1>3, <2>7, <3>3 DEF HeapInv, BlocksOwned
    <3> QED BY <3>1, <3>2, <3>3
  <2>8. owners' = [x \in Blocks |-> IF x \in inUse' THEN 1 ELSE 0]
    BY <2>2 DEF HeapInv, BlocksOwned
  <2> QED BY <2>5, <2>6, <2>7, <2>8 DEF BlocksOwned
<1>8. MaskHolds'
  <2>1. nest["thread"] = << >>
    <3>1. CASE c = "thread"
      BY <1>4, <3>1
    <3>2. CASE c = "isr"
      BY <3>2 DEF Shared!Call, HeapInv, MaskHolds
    <3> QED BY <3>1, <3>2 DEF Shared!Contexts
  <2> QED BY <1>2, <2>1 DEF HeapInv, MaskHolds
<1> QED
  BY <1>5, <1>6, <1>7, <1>8 DEF HeapInv

(* The steps that leave blocks and jobs to their owners.                   *)
LEMMA BlocksKept ==
  ASSUME HeapInv, inUse' = inUse, owners' = owners,
         \A c \in Shared!Contexts :
           /\ job'[c].block \in {job[c].block, "none"}
           /\ job'[c].op \in {"free", "delete", "terminate"} /\ ~job'[c].done =>
                /\ job[c].op \in {"free", "delete", "terminate"} /\ ~job[c].done
                /\ job'[c].block = job[c].block
  PROVE  BlocksOwned'
  BY DEF HeapInv, BlocksOwned

LEMMA LockStep ==
  ASSUME HeapInv, NEW c \in Shared!Contexts, Shared!Lock(c)
  PROVE  HeapInv'
<1>1. /\ Shared!Runs(c) /\ ~Shared!Idle(c) /\ ~job[c].done /\ ~Shared!Inside(c)
      /\ nest' = [nest EXCEPT ![c] = Append(@, masked)]
      /\ masked' = TRUE
      /\ UNCHANGED <<job, seen, inUse, owners>>
  BY DEF Shared!Lock
<1>2. /\ nest[c] \in Seq(BOOLEAN) /\ masked \in BOOLEAN /\ GuardsHold(c)
      /\ job[c].op \in DOMAIN Shared!Guards
  BY <1>1, Busy DEF HeapInv, HeapTypeOK
<1>3. /\ nest'[c] = Append(nest[c], masked)
      /\ \A d \in Shared!Contexts \ {c} : nest'[d] = nest[d]
  BY <1>1 DEF HeapInv, HeapTypeOK
<1>4. /\ nest'[c] \in Seq(BOOLEAN) /\ nest'[c] # << >>
      /\ Len(nest[c]) \in Nat /\ Len(nest'[c]) = Len(nest[c]) + 1
  BY <1>2, <1>3, Pushed
<1>5. masked = (nest[c] # << >>)
  <2>1. \E d \in Shared!Contexts : d # c
    BY DEF Shared!Contexts
  <2> QED BY <1>1, <2>1, Alone
<1>6. HeapTypeOK'
  BY <1>1, <1>4 DEF HeapInv, HeapTypeOK
<1>7. ASSUME NEW d \in Shared!Contexts PROVE GuardsHold(d)'
  <2>1. CASE d = c
    <3>1. Stacked(nest'[c])
      BY <1>2, <1>3, <1>5, StackPush DEF GuardsHold
    <3>2. Len(nest[c]) <= Shared!Guards[job[c].op] /\ Len(nest[c]) # Shared!Guards[job[c].op]
      BY <1>1, <1>2 DEF GuardsHold, Shared!Inside
    <3>3. Len(nest'[c]) <= Shared!Guards[job[c].op]
      BY <1>2, <1>4, <3>2, GuardNumbers
    <3>4. seen[c] = Shared!NotSeen
      BY <1>1, <1>2 DEF GuardsHold
    <3> QED BY <1>1, <1>4, <2>1, <3>1, <3>3, <3>4 DEF GuardsHold, Shared!Idle
  <2>2. CASE d # c
    BY <1>1, <1>3, <2>2, OtherHolds
  <2> QED BY <2>1, <2>2
<1>8. BlocksOwned'
  BY <1>1, BlocksKept
<1>9. MaskHolds'
  <2>1. ASSUME NEW d \in Shared!Contexts, d # c PROVE nest'[d] = << >>
    BY <1>1, <1>3, <2>1, Alone
  <2>2. nest'["thread"] # << >> => nest'["isr"] = << >> /\ Shared!Idle("isr")'
    <3>1. CASE c = "thread"
      BY <1>1, <2>1, <3>1, Alone DEF Shared!Contexts, Shared!Idle, Shared!Runs
    <3>2. CASE c = "isr"
      BY <2>1, <3>2 DEF Shared!Contexts
    <3> QED BY <3>1, <3>2 DEF Shared!Contexts
  <2>3. nest'["thread"] # << >> \/ nest'["isr"] # << >>
    BY <1>4 DEF Shared!Contexts
  <2> QED BY <1>1, <2>2, <2>3 DEF MaskHolds
<1> QED
  BY <1>6, <1>7, <1>8, <1>9 DEF HeapInv

LEMMA LookStep ==
  ASSUME HeapInv, NEW c \in Shared!Contexts, Shared!Look(c)
  PROVE  HeapInv'
<1>1. /\ Shared!Runs(c) /\ Shared!Inside(c) /\ ~job[c].done
      /\ seen' = [seen EXCEPT ![c] = inUse]
      /\ UNCHANGED <<masked, nest, job, inUse, owners>>
  BY DEF Shared!Look
<1>2. /\ seen'[c] = inUse
      /\ \A d \in Shared!Contexts \ {c} : seen'[d] = seen[d]
  BY <1>1 DEF HeapInv, HeapTypeOK
<1>3. HeapTypeOK'
  BY <1>1 DEF HeapInv, HeapTypeOK
<1>4. ASSUME NEW d \in Shared!Contexts PROVE GuardsHold(d)'
  <2>1. CASE d = c
    <3>1. ~Shared!Idle(c) /\ Len(nest[c]) = Shared!Guards[job[c].op] /\ job[c].op \in DOMAIN Shared!Guards
      BY <1>1, Busy DEF Shared!Inside
    <3>2. nest[c] # << >>
      BY <3>1, GuardNumbers, EmptySeq
    <3>3. GuardsHold(c)
      BY DEF HeapInv
    <3> QED BY <1>1, <1>2, <2>1, <3>1, <3>2, <3>3 DEF GuardsHold, Shared!Idle, Shared!Inside
  <2>2. CASE d # c
    BY <1>1, <1>2, <2>2, OtherHolds
  <2> QED BY <2>1, <2>2
<1>5. BlocksOwned' /\ MaskHolds'
  BY <1>1 DEF HeapInv, BlocksOwned, MaskHolds, Shared!Idle, Shared!Halted
<1> QED
  BY <1>3, <1>4, <1>5 DEF HeapInv

LEMMA PanicStep ==
  ASSUME HeapInv, NEW c \in Shared!Contexts, Shared!Panic(c)
  PROVE  HeapInv'
<1> USE HeapAssumption
<1>1. /\ Shared!Runs(c) /\ seen[c] = Blocks /\ Shared!Allocates(job[c].op)
      /\ job' = [job EXCEPT ![c].op = "panic"]
      /\ UNCHANGED <<masked, nest, seen, inUse, owners>>
  BY DEF Shared!Panic
<1>2. /\ job'[c] = [job[c] EXCEPT !.op = "panic"]
      /\ job'[c].op = "panic" /\ job'[c].block = job[c].block /\ job'[c].done = job[c].done
      /\ \A d \in Shared!Contexts \ {c} : job'[d] = job[d]
  BY <1>1 DEF HeapInv, HeapTypeOK
<1>3. HeapTypeOK'
  BY <1>1 DEF HeapInv, HeapTypeOK, Ops
<1>4. nest[c] # << >> /\ ~job[c].done
  BY <1>1 DEF HeapInv, GuardsHold, Shared!NotSeen
<1>5. ASSUME NEW d \in Shared!Contexts PROVE GuardsHold(d)'
  <2>1. CASE d = c
    <3>1. GuardsHold(c) /\ "panic" \notin DOMAIN Shared!Guards
      BY DEF HeapInv, Shared!Guards
    <3> QED BY <1>1, <1>2, <1>4, <2>1, <3>1 DEF GuardsHold, Shared!Idle
  <2>2. CASE d # c
    BY <1>1, <1>2, <2>2, OtherHolds
  <2> QED BY <2>1, <2>2
<1>6. BlocksOwned'
  BY <1>1, <1>2, BlocksKept
<1>7. MaskHolds'
  <2>1. Shared!Halted'
    BY <1>2 DEF Shared!Halted
  <2> QED BY <1>1, <2>1 DEF HeapInv, MaskHolds
<1> QED
  BY <1>3, <1>5, <1>6, <1>7 DEF HeapInv

LEMMA ChangeStep ==
  ASSUME HeapInv, NEW c \in Shared!Contexts, Shared!Change(c)
  PROVE  HeapInv'
<1> USE HeapAssumption
<1>1. /\ Shared!Runs(c) /\ seen[c] # Shared!NotSeen
      /\ seen' = [seen EXCEPT ![c] = Shared!NotSeen]
      /\ job' = [job EXCEPT ![c].done = TRUE, ![c].block = "none"]
      /\ UNCHANGED <<masked, nest>>
  BY DEF Shared!Change
<1>2. GuardsHold(c) /\ seen[c] = inUse /\ ~job[c].done /\ nest[c] # << >>
  BY <1>1 DEF HeapInv, GuardsHold
<1>3. ~Shared!Idle(c) /\ job[c].op \in DOMAIN Shared!Guards
  BY <1>1, <1>2, Busy DEF GuardsHold
<1>4. PICK b \in Blocks :
        IF Shared!Allocates(job[c].op)
          THEN /\ b \notin inUse
               /\ inUse' = inUse \cup {b} /\ owners' = [owners EXCEPT ![b] = @ + 1]
          ELSE /\ b = job[c].block
               /\ inUse' = inUse \ {b} /\ owners' = [owners EXCEPT ![b] = @ - 1]
  BY <1>2 DEF Shared!Change
<1>5. /\ job'[c].op = job[c].op /\ job'[c].done = TRUE /\ job'[c].block = "none"
      /\ seen'[c] = Shared!NotSeen
      /\ \A d \in Shared!Contexts \ {c} : job'[d] = job[d] /\ seen'[d] = seen[d]
  BY <1>1 DEF HeapInv, HeapTypeOK
<1>6. HeapTypeOK'
  <2>1. inUse' \in SUBSET Blocks
    BY <1>4 DEF HeapInv, HeapTypeOK
  <2>2. job' \in [Shared!Contexts -> [op : Ops, done : BOOLEAN, block : Blocks \cup {"none"}]]
    BY <1>1 DEF HeapInv, HeapTypeOK
  <2>3. seen' \in [Shared!Contexts -> {Shared!NotSeen} \cup SUBSET Blocks]
    BY <1>1 DEF HeapInv, HeapTypeOK
  <2> QED BY <1>1, <2>1, <2>2, <2>3 DEF HeapInv, HeapTypeOK
<1>7. ASSUME NEW d \in Shared!Contexts PROVE GuardsHold(d)'
  <2>1. CASE d = c
    BY <1>1, <1>2, <1>3, <1>5, <2>1 DEF GuardsHold, Shared!Idle
  <2>2. CASE d # c
    <3>1. seen[d] = Shared!NotSeen
      BY <1>1, <1>3, <2>2, Alone
    <3> QED BY <1>1, <1>5, <2>2, <3>1, OtherHolds
  <2> QED BY <2>1, <2>2
<1>8. BlocksOwned'
  <2>1. ASSUME NEW d \in Shared!Contexts, job'[d].block # "none" PROVE job'[d].block \in inUse'
    <3>1. d # c /\ job[d].block \in inUse /\ job[d].block # job[c].block
      BY <1>5, <2>1 DEF HeapInv, BlocksOwned
    <3> QED BY <1>4, <1>5, <3>1
  <2>2. ASSUME NEW d \in Shared!Contexts, ~job'[d].done,
               job'[d].op \in {"free", "delete", "terminate"}
        PROVE  job'[d].block # "none"
    BY <1>5, <2>2 DEF HeapInv, BlocksOwned
  <2>3. ASSUME NEW d \in Shared!Contexts, NEW e \in Shared!Contexts, d # e, job'[d].block # "none"
        PROVE  job'[d].block # job'[e].block
    BY <1>5, <2>3 DEF HeapInv, BlocksOwned
  <2>4. owners' = [x \in Blocks |-> IF x \in inUse' THEN 1 ELSE 0]
    <3>1. owners = [x \in Blocks |-> IF x \in inUse THEN 1 ELSE 0]
      BY DEF HeapInv, BlocksOwned
    <3>2. ~Shared!Allocates(job[c].op) => job[c].block \in inUse
      BY <1>2, <1>3 DEF HeapInv, BlocksOwned, Shared!Allocates, Shared!Guards
    <3> QED BY <1>4, <3>1, <3>2
  <2> QED BY <2>1, <2>2, <2>3, <2>4 DEF BlocksOwned
<1>9. MaskHolds'
  <2>1. ASSUME NEW d \in Shared!Contexts PROVE job'[d].op = job[d].op
    BY <1>5
  <2>2. Shared!Halted' = Shared!Halted /\ Shared!Idle("isr")' = Shared!Idle("isr")
    BY <2>1 DEF Shared!Halted, Shared!Idle, Shared!Contexts
  <2> QED BY <1>1, <2>2 DEF HeapInv, MaskHolds
<1> QED
  BY <1>6, <1>7, <1>8, <1>9 DEF HeapInv

LEMMA UnlockStep ==
  ASSUME HeapInv, NEW c \in Shared!Contexts, Shared!Unlock(c)
  PROVE  HeapInv'
<1>1. /\ Shared!Runs(c) /\ job[c].done
      /\ masked' = Shared!Last(nest[c])
      /\ nest' = [nest EXCEPT ![c] = Shared!Front(@)]
      /\ job' = IF nest'[c] = << >> THEN [job EXCEPT ![c] = Shared!NoJob] ELSE job
      /\ UNCHANGED <<seen, inUse, owners>>
  BY DEF Shared!Unlock
<1>2. GuardsHold(c) /\ nest[c] # << >> /\ ~Shared!Idle(c) /\ nest[c] \in Seq(BOOLEAN)
  BY <1>1 DEF HeapInv, GuardsHold, HeapTypeOK
<1>3. job[c].op \in DOMAIN Shared!Guards
  BY <1>1, <1>2, Busy
<1>4. /\ nest'[c] = Shared!Front(nest[c])
      /\ \A d \in Shared!Contexts \ {c} : nest'[d] = nest[d]
  BY <1>1 DEF HeapInv, HeapTypeOK
<1>5. /\ nest'[c] \in Seq(BOOLEAN) /\ Len(nest[c]) \in Nat /\ Shared!Last(nest[c]) \in BOOLEAN
      /\ Len(nest'[c]) = Len(nest[c]) - 1
  BY <1>2, <1>4, Popped
<1>6. Stacked(nest'[c]) /\ masked' = (nest'[c] # << >>)
  BY <1>1, <1>2, <1>4, StackPop DEF GuardsHold
<1>7. /\ job'[c] = IF nest'[c] = << >> THEN Shared!NoJob ELSE job[c]
      /\ \A d \in Shared!Contexts \ {c} : job'[d] = job[d]
  BY <1>1 DEF HeapInv, HeapTypeOK
<1>8. HeapTypeOK'
  <2>1. masked' \in BOOLEAN /\ nest' \in [Shared!Contexts -> Seq(BOOLEAN)]
    BY <1>1, <1>5 DEF HeapInv, HeapTypeOK
  <2>2. Shared!NoJob \in [op : Ops, done : BOOLEAN, block : Blocks \cup {"none"}]
    BY DEF Shared!NoJob, Ops
  <2>3. job' \in [Shared!Contexts -> [op : Ops, done : BOOLEAN, block : Blocks \cup {"none"}]]
    BY <1>1, <2>2 DEF HeapInv, HeapTypeOK
  <2> QED BY <1>1, <2>1, <2>3 DEF HeapInv, HeapTypeOK
<1>9. ASSUME NEW d \in Shared!Contexts PROVE GuardsHold(d)'
  <2>1. CASE d = c
    <3>1. seen'[c] = Shared!NotSeen
      BY <1>1, <1>2 DEF GuardsHold
    <3>2. CASE nest'[c] = << >>
      BY <1>6, <1>7, <2>1, <3>1, <3>2 DEF GuardsHold, Shared!Idle, Shared!NoJob, Shared!Guards
    <3>3. CASE nest'[c] # << >>
      <4>1. Len(nest'[c]) <= Shared!Guards[job[c].op]
        BY <1>2, <1>3, <1>5, GuardNumbers DEF GuardsHold
      <4> QED BY <1>2, <1>6, <1>7, <2>1, <3>1, <3>3, <4>1 DEF GuardsHold, Shared!Idle
    <3> QED BY <3>2, <3>3
  <2>2. CASE d # c
    BY <1>1, <1>4, <1>7, <2>2, OtherHolds
  <2> QED BY <2>1, <2>2
<1>10. BlocksOwned'
  BY <1>1, <1>7, BlocksKept DEF Shared!NoJob
<1>11. MaskHolds'
  <2>1. ASSUME NEW d \in Shared!Contexts, d # c PROVE nest'[d] = << >>
    BY <1>1, <1>2, <1>4, <2>1, Alone
  <2>2. nest'["thread"] # << >> => nest'["isr"] = << >> /\ Shared!Idle("isr")'
    <3>1. CASE c = "thread"
      BY <1>1, <1>7, <2>1, <3>1 DEF Shared!Contexts, Shared!Idle, Shared!Runs
    <3>2. CASE c = "isr"
      BY <2>1, <3>2 DEF Shared!Contexts
    <3> QED BY <3>1, <3>2 DEF Shared!Contexts
  <2>3. masked' <=> nest'["thread"] # << >> \/ nest'["isr"] # << >>
    <3>1. CASE c = "thread"
      BY <1>6, <2>1, <3>1 DEF Shared!Contexts
    <3>2. CASE c = "isr"
      BY <1>6, <2>1, <3>2 DEF Shared!Contexts
    <3> QED BY <3>1, <3>2 DEF Shared!Contexts
  <2> QED BY <2>2, <2>3 DEF MaskHolds
<1> QED
  BY <1>8, <1>9, <1>10, <1>11 DEF HeapInv


LEMMA HeapNext == HeapInv /\ [Shared!Next]_(Shared!vars) => HeapInv'
<1> SUFFICES ASSUME HeapInv, [Shared!Next]_(Shared!vars) PROVE HeapInv'
  OBVIOUS
<1>1. ASSUME NEW c \in Shared!Contexts,
             \/ Shared!Call(c) \/ Shared!Lock(c) \/ Shared!Look(c)
             \/ Shared!Panic(c) \/ Shared!Change(c) \/ Shared!Unlock(c)
      PROVE  HeapInv'
  BY <1>1, CallStep, LockStep, LookStep, PanicStep, ChangeStep, UnlockStep
<1>2. CASE UNCHANGED Shared!vars
  BY <1>2 DEF Shared!vars, HeapInv, HeapTypeOK, GuardsHold, BlocksOwned, MaskHolds,
              Shared!Idle, Shared!Halted, Shared!Inside
<1> QED
  BY <1>1, <1>2 DEF Shared!Next

LEMMA HeapInvImplies == HeapInv => HeapAlone
<1> SUFFICES ASSUME HeapInv PROVE HeapAlone
  OBVIOUS
<1>1. nest["thread"] = << >> /\ Shared!Idle("isr") => ~masked
  BY DEF HeapInv, GuardsHold, MaskHolds, Shared!Contexts
<1>2. nest["thread"] # << >> => masked /\ (Shared!Idle("isr") \/ Shared!Halted)
  BY DEF HeapInv, MaskHolds
<1>3. \A b \in Blocks : owners[b] = (IF b \in inUse THEN 1 ELSE 0)
  BY DEF HeapInv, BlocksOwned
<1> QED
  BY <1>1, <1>2, <1>3 DEF HeapAlone, Shared!HeapAlone

-----------------------------------------------------------------------------
(* Awaitable: its invariant IInv is inductive as it stands.                *)

LEMMA AmountsPositive == ASSUME NEW n \in Woken!Amounts PROVE n \in Nat \ {0}
  BY EventsAssumption DEF Woken!Amounts

LEMMA EventsInit == Woken!Init => Woken!IInv
  BY EventsAssumption
  DEF Woken!Init, Woken!Kinds, Woken!IInv, Woken!TypeOK, Woken!NoLostWakeup,
      Woken!OneWakeup, Woken!ResumedByEvent, Woken!NothingStale

LEMMA EventsNext == Woken!IInv /\ [Woken!Next]_(Woken!vars) => Woken!IInv'
<1> SUFFICES ASSUME Woken!IInv, [Woken!Next]_(Woken!vars) PROVE Woken!IInv'
  OBVIOUS
<1> USE EventsAssumption
    DEF Woken!IInv, Woken!Kinds, Woken!TypeOK, Woken!NoLostWakeup,
        Woken!OneWakeup, Woken!ResumedByEvent, Woken!NothingStale
<1>1. CASE Woken!IsrFire
  <2>1. Woken!TypeOK'
    BY <1>1, AmountsPositive DEF Woken!IsrFire, Woken!Emplace
  <2>2. (Woken!NoLostWakeup /\ Woken!OneWakeup)'
    BY <1>1, AmountsPositive DEF Woken!IsrFire, Woken!Emplace
  <2>3. Woken!ResumedByEvent'
    BY <1>1, AmountsPositive DEF Woken!IsrFire, Woken!Emplace
  <2>4. Woken!NothingStale'
    BY <1>1, AmountsPositive DEF Woken!IsrFire, Woken!Emplace
  <2> QED
    BY <2>1, <2>2, <2>3, <2>4
<1>2. CASE Woken!IsrFireResumes
  <2>1. Woken!TypeOK'
    BY <1>2, AmountsPositive DEF Woken!IsrFireResumes, Woken!Emplace,
        Woken!SeenAfter
  <2>2. (Woken!NoLostWakeup /\ Woken!OneWakeup)'
    BY <1>2, AmountsPositive DEF Woken!IsrFireResumes, Woken!Emplace,
        Woken!SeenAfter
  <2>3. Woken!ResumedByEvent'
    BY <1>2, AmountsPositive DEF Woken!IsrFireResumes, Woken!Emplace,
        Woken!SeenAfter
  <2>4. Woken!NothingStale'
    BY <1>2, AmountsPositive DEF Woken!IsrFireResumes, Woken!Emplace,
        Woken!SeenAfter
  <2> QED
    BY <2>1, <2>2, <2>3, <2>4
<1>3. CASE Woken!IsrAwaitReady
  <2>1. Woken!TypeOK'
    BY <1>3 DEF Woken!IsrAwaitReady, Woken!SeenAfter
  <2>2. (Woken!NoLostWakeup /\ Woken!OneWakeup)'
    BY <1>3 DEF Woken!IsrAwaitReady, Woken!SeenAfter
  <2>3. Woken!ResumedByEvent'
    BY <1>3 DEF Woken!IsrAwaitReady, Woken!SeenAfter
  <2>4. Woken!NothingStale'
    BY <1>3 DEF Woken!IsrAwaitReady, Woken!SeenAfter
  <2> QED
    BY <2>1, <2>2, <2>3, <2>4
<1>4. CASE Woken!IsrAwaitSuspend
  BY <1>4 DEF Woken!IsrAwaitSuspend
<1>5. CASE Woken!MainArrives
  BY <1>5 DEF Woken!MainArrives
<1>6. CASE Woken!Clear
  BY <1>6 DEF Woken!Clear
<1>7. CASE Woken!AwaitReady
  <2>1. Woken!TypeOK'
    BY <1>7 DEF Woken!AwaitReady
  <2>2. (Woken!NoLostWakeup /\ Woken!OneWakeup)'
    BY <1>7 DEF Woken!AwaitReady
  <2>3. Woken!ResumedByEvent'
    BY <1>7 DEF Woken!AwaitReady
  <2>4. Woken!NothingStale'
    BY <1>7 DEF Woken!AwaitReady
  <2> QED
    BY <2>1, <2>2, <2>3, <2>4
<1>8. CASE Woken!AwaitSuspend
  <2>1. Woken!TypeOK'
    BY <1>8 DEF Woken!AwaitSuspend
  <2>2. (Woken!NoLostWakeup /\ Woken!OneWakeup)'
    BY <1>8 DEF Woken!AwaitSuspend
  <2>3. Woken!ResumedByEvent'
    BY <1>8 DEF Woken!AwaitSuspend
  <2>4. Woken!NothingStale'
    BY <1>8 DEF Woken!AwaitSuspend
  <2> QED
    BY <2>1, <2>2, <2>3, <2>4
<1>9. CASE Woken!AwaitResume
  <2>1. Woken!TypeOK'
    BY <1>9 DEF Woken!AwaitResume, Woken!SeenAfter
  <2>2. (Woken!NoLostWakeup /\ Woken!OneWakeup)'
    BY <1>9 DEF Woken!AwaitResume, Woken!SeenAfter
  <2>3. Woken!ResumedByEvent'
    BY <1>9 DEF Woken!AwaitResume, Woken!SeenAfter
  <2>4. Woken!NothingStale'
    BY <1>9 DEF Woken!AwaitResume, Woken!SeenAfter
  <2> QED
    BY <2>1, <2>2, <2>3, <2>4
<1>10. CASE Woken!MainFire
  <2>1. Woken!TypeOK'
    BY <1>10 DEF Woken!MainFire, Woken!Emplace
  <2>2. (Woken!NoLostWakeup /\ Woken!OneWakeup)'
    BY <1>10 DEF Woken!MainFire, Woken!Emplace
  <2>3. Woken!ResumedByEvent'
    BY <1>10 DEF Woken!MainFire, Woken!Emplace
  <2>4. Woken!NothingStale'
    BY <1>10 DEF Woken!MainFire, Woken!Emplace
  <2> QED
    BY <2>1, <2>2, <2>3, <2>4
<1>11. CASE Woken!MainCall
  <2>1. Woken!TypeOK'
    BY <1>11 DEF Woken!MainCall
  <2>2. (Woken!NoLostWakeup /\ Woken!OneWakeup)'
    BY <1>11 DEF Woken!MainCall
  <2>3. Woken!ResumedByEvent'
    BY <1>11 DEF Woken!MainCall
  <2>4. Woken!NothingStale'
    BY <1>11 DEF Woken!MainCall
  <2> QED
    BY <2>1, <2>2, <2>3, <2>4
<1>12. CASE UNCHANGED Woken!vars
  BY <1>12 DEF Woken!vars
<1> QED
  BY <1>1, <1>2, <1>3, <1>4, <1>5, <1>6, <1>7, <1>8, <1>9, <1>10, <1>11, <1>12
  DEF Woken!Next, Woken!Interrupt, Woken!Thread

-----------------------------------------------------------------------------
(* All parts: a step of one leaves the variables of the others.            *)

FrameworkInv ==
  IInv /\ TasksInv /\ QueueInv /\ GeneratorInv /\ HeapInv /\ Woken!IInv

LEMMA PartsStep ==
  [MCNext]_MCVars => /\ [Next]_vars
                     /\ [Subtasks!Next]_(Subtasks!vars)
                     /\ [Queued!Next]_(Queued!vars)
                     /\ [Generated!Next]_(Generated!vars)
                     /\ [Shared!Next]_(Shared!vars)
                     /\ [Woken!Next]_(Woken!vars)
<1> SUFFICES ASSUME [MCNext]_MCVars
             PROVE  /\ [Next]_vars
                    /\ [Subtasks!Next]_(Subtasks!vars)
                    /\ [Queued!Next]_(Queued!vars)
                    /\ [Generated!Next]_(Generated!vars)
                    /\ [Shared!Next]_(Shared!vars)
                    /\ [Woken!Next]_(Woken!vars)
  OBVIOUS
<1> USE DEF Subtasks!vars, Queued!vars, Generated!vars, Shared!vars,
            Woken!vars, taskVars, queueVars, generatorVars, heapVars, wakeVars
<1>1. CASE Claiming
  BY <1>1 DEF Claiming
<1>2. CASE Awaiting
  BY <1>2 DEF Awaiting
<1>3. CASE Queueing
  BY <1>3 DEF Queueing
<1>4. CASE Generating
  BY <1>4 DEF Generating
<1>5. CASE Allocating
  BY <1>5 DEF Allocating
<1>6. CASE Waking
  BY <1>6 DEF Waking
<1>7. CASE UNCHANGED MCVars
  BY <1>7 DEF MCVars
<1> QED
  BY <1>1, <1>2, <1>3, <1>4, <1>5, <1>6, <1>7 DEF MCNext

(* The inductive invariants of all parts hold together.                    *)
THEOREM FrameworkInvariant == MCSpec => []FrameworkInv
<1>1. MCInit => FrameworkInv
  BY InitIInv, TasksInit, QueueInit, GeneratorInit, HeapInit, EventsInit
  DEF MCInit, FrameworkInv
<1>2. FrameworkInv /\ [MCNext]_MCVars => FrameworkInv'
  BY PartsStep, NextIInv, TasksNext, QueueNext, GeneratorNext, HeapNext, EventsNext
  DEF FrameworkInv
<1>3. MCSpec => MCInit /\ [][MCNext]_MCVars
  BY PTL DEF MCSpec
<1> QED
  BY <1>1, <1>2, <1>3, PTL

(* The resource is in use whenever somebody waits for it, whatever the     *)
(* priorities and whoever withdraws (Claimable).                           *)
THEOREM ClaimHandedOver == MCSpec => []HandedOver
  BY FrameworkInvariant, PTL DEF FrameworkInv, IInv

(* Two clients never have the resource at a time.                          *)
THEOREM ClaimMutualExclusion == MCSpec => []MutualExclusion
  BY FrameworkInvariant, PTL DEF FrameworkInv, IInv

(* The list of claims implements the priority lock: each claim asks, each  *)
(* withdrawal is one, and a release hands the resource to the most         *)
(* important waiter, the first to come among equals.                       *)
THEOREM ClaimImplementsLock == MCSpec => ImplementsLock
<1>1. MCInit => Lock!Init
  BY LockInit DEF MCInit
<1>2. FrameworkInv /\ FrameworkInv' /\ [MCNext]_MCVars =>
        [Lock!Next]_<<Waiting, [c \in Claims |-> Before(c)], TheHolder>>
  BY PartsStep, LockNext DEF FrameworkInv
<1>3. MCSpec => MCInit /\ [][MCNext]_MCVars
  BY PTL DEF MCSpec
<1> QED
  BY <1>1, <1>2, <1>3, FrameworkInvariant, PTL DEF ImplementsLock, Lock!Spec, Before

(* Tasks that await tasks return to the one that awaits them, for any      *)
(* number of tasks and depth, wherever they are terminated: none is left   *)
(* without an owner or suspended with nobody to resume it, and an event    *)
(* that a task awaits resumes no other, although the handle of one that    *)
(* was terminated stays where it is (Task.h, Awaitable.h).                 *)
THEOREM TasksAreReturned == MCSpec => []TasksReturn
  BY FrameworkInvariant, TasksInvImplies, PTL DEF FrameworkInv

(* A queue of any capacity gives the coroutine every event it has kept,    *)
(* once and in order, and the reader of a generator every value; neither   *)
(* is left suspended with something to take (QueuedAwaitable,              *)
(* AsyncGenerator).                                                        *)
THEOREM EventsAreAllRead == MCSpec => []EventsAreRead
<1>1. FrameworkInv => EventsAreRead
  BY GeneratorInvImplies DEF FrameworkInv, QueueInv, EventsAreRead
<1> QED
  BY <1>1, FrameworkInvariant, PTL

(* Whoever holds a guard is not interrupted, interrupts are enabled again  *)
(* when the outermost is gone, and every block has one owner at most,      *)
(* whatever blocks there are and calls are made (Heap).                    *)
THEOREM HeapIsAlone == MCSpec => []HeapAlone
  BY FrameworkInvariant, HeapInvImplies, PTL DEF FrameworkInv

(* No event falls between await_ready, await_suspend and operator(), for   *)
(* any number of events (Awaitable).                                       *)
THEOREM AwaitableNoLostWakeup == MCSpec => []NoLostWakeup
  BY FrameworkInvariant, PTL DEF FrameworkInv, Woken!IInv, NoLostWakeup

(* A coroutine is only resumed while it is suspended here, and once.       *)
THEOREM AwaitableOneWakeup == MCSpec => []OneWakeup
  BY FrameworkInvariant, PTL DEF FrameworkInv, Woken!IInv, OneWakeup

(* await_resume always finds the value it moves from.                      *)
THEOREM AwaitableResumedByEvent == MCSpec => []Woken!ResumedByEvent
  BY FrameworkInvariant, PTL DEF FrameworkInv, Woken!IInv

(* No period of a delay is lost, whatever a timer reports at once, and     *)
(* only the latest value is kept.                                          *)
THEOREM AwaitableNothingStale == MCSpec => []NothingStale
  BY FrameworkInvariant, PTL DEF FrameworkInv, Woken!IInv, NothingStale
=============================================================================
