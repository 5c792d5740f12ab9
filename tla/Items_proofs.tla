---------------------------- MODULE Items_proofs ----------------------------
(* Proofs about Items, for any ids, types, characters, lists and bounds.    *)
EXTENDS Items, FiniteSetTheorems, SequenceTheorems, WellFoundedInduction, TLAPS

-----------------------------------------------------------------------------
(* What the invariant is made of.                                           *)

Nums == 1 .. MaxNumber
Things == {i \in [id : Ids, n : Amounts] : i.id \in Stocked => i.n > 0}
RowSet ==
  {r \in [num : Nums, id : Ids, n : Amounts, at : Chars \cup {NoChar}] :
     /\ Item(r.id, r.n) \in Things
     /\ r.at \in Chars => TypeOf[r.id] \in Types}
Slots == {Free} \cup [num : Nums, id : Ids, n : Amounts]

Writes ==
  {AddRow(num, i) : num \in Nums, i \in Things}
    \cup {RemoveRow(num) : num \in Nums}
    \cup {ReplaceRow(num, id) : num \in Nums, id \in Ids}
    \cup {AmountRow(num, n) : num \in Nums, n \in Amounts}
    \cup {EquipRow(num, c) : num \in Nums, c \in Chars}
    \cup {UnequipRow(num) : num \in Nums}
    \cup {SwapRows(off, on, c) : off \in Nums, on \in Nums, c \in Chars}

\* The inventory of a session, with what was replaced while it was worn.
Bare(s) == \A c \in Chars, t \in SetParts : s.worn[c][SetType].num = 0 \/ s.worn[c][t].num = 0
SessionOK(s) ==
  /\ DOMAIN s.items \subseteq Nums
  /\ s.items \in [DOMAIN s.items -> Things]
  /\ s.worn \in [Chars -> [Types -> Slots]]
  /\ \A c \in Chars, t \in Types : s.worn[c][t].num # 0 =>
       TypeOf[s.worn[c][t].id] = t /\ Lay(s.worn[c][t]) \in Things
  /\ s.replaced \subseteq Nums
  /\ s.drifted \in BOOLEAN
  /\ \A c \in Chars, t \in Types : s.worn[c][t].num \notin DOMAIN s.items
  /\ \A c, d \in Chars, t, u \in Types :
       s.worn[c][t].num # 0 /\ s.worn[c][t].num = s.worn[d][u].num => c = d /\ t = u
  /\ s.drifted \/ (s.replaced = {} /\ Bare(s))

Unlike(rs) == \A j, k \in DOMAIN rs : rs[j].num = rs[k].num => j = k

\* The row says of its item what the session says of it.
Describes(r, s) ==
  \/ /\ r.num \in DOMAIN s.items /\ s.items[r.num] = Item(r.id, r.n)
     /\ r.at = NoChar \/ r.num \in s.replaced
  \/ \E c \in Chars, t \in Types :
       /\ s.worn[c][t] = [num |-> r.num, id |-> r.id, n |-> r.n]
       /\ r.at = c \/ r.num \in s.replaced

Linked(rs, s) ==
  /\ SessionOK(s)
  /\ rs \in Seq(RowSet) /\ Unlike(rs)
  /\ \A k \in DOMAIN rs : Describes(rs[k], s)
  /\ \A num \in DOMAIN s.items : HasRow(rs, num)
  /\ \A c \in Chars, t \in Types : s.worn[c][t].num # 0 => HasRow(rs, s.worn[c][t].num)

\* What a login needs of the rows, whichever of the writes were run.
GoodRows(rs, hasDrifted) ==
  /\ rs \in Seq(RowSet) /\ Unlike(rs)
  /\ hasDrifted \/ \A j, k \in DOMAIN rs :
       rs[j].at \in Chars /\ rs[j].at = rs[k].at /\ TypeOf[rs[j].id] = SetType
         => TypeOf[rs[k].id] \notin SetParts

\* h[k] are the rows when the first k of the writes are run.
Run(h, rs, ws) ==
  /\ DOMAIN h = 0 .. Len(ws)
  /\ h[0] = rs
  /\ \A k \in 1 .. Len(ws) : h[k] = Applied(h[k - 1], ws[k])

Session == [items |-> items, worn |-> worn, replaced |-> replaced, drifted |-> drifted]
Slot == Chars \X Types
Occupied(w) == {at \in Slot : w[at[1]][at[2]].num # 0}
Counted(n, w) == n \in Nat /\ n >= Cardinality(Occupied(w))

\* There is such a run of the writes that wait: good at every step, and
\* at its end the rows and the session say the same.
History ==
  \E h : /\ Run(h, rows, queue)
         /\ \A k \in 0 .. Len(queue) : GoodRows(h[k], drifted)
         /\ online => Linked(h[Len(queue)], Session)

IInv ==
  /\ selected \in Chars /\ online \in BOOLEAN /\ drifted \in BOOLEAN
  /\ queue \in Seq(Writes) /\ Len(queue) <= MaxQueue
  /\ Counted(total, worn)
  /\ History
  /\ ~online => queue = <<>> /\ items = <<>> /\ worn = AllFree /\ replaced = {}

-----------------------------------------------------------------------------
(* Numbers and sequences.                                                   *)

LEMMA LeastNatural ==
  ASSUME NEW T \in SUBSET Nat, T # {}
  PROVE  \E m \in T : \A n \in T : m <= n
<1> DEFINE R == {ss \in Nat \X Nat : ss[1] < ss[2]}
<1>1. IsWellFoundedOn(R, Nat)
  BY NatLessThanWellFounded DEF OpToRel
<1>2. PICK m \in T : \A n \in T : ~(<<n, m>> \in R)
  <2> HIDE DEF R
  <2> QED
    BY <1>1, WFMin
<1>3. \A n \in T : ~(n < m)
  BY <1>2
<1> QED
  BY <1>3

\* s without some of its entries, in any order.
Thinned(s, t) ==
  \E f \in [DOMAIN t -> DOMAIN s] :
    /\ \A i, j \in DOMAIN t : f[i] = f[j] => i = j
    /\ \A i \in DOMAIN t : t[i] = s[f[i]]

\* The positions that stay are counted off in their order.
LEMMA KeptFacts ==
  ASSUME NEW R, NEW s \in Seq(R), NEW S, S \subseteq DOMAIN s
  PROVE  /\ Kept(s, S) \in Seq(R) /\ Thinned(s, Kept(s, S))
         /\ \A j \in DOMAIN Kept(s, S) : \E k \in S : Kept(s, S)[j] = s[k]
         /\ \A k \in S : \E j \in DOMAIN Kept(s, S) : Kept(s, S)[j] = s[k]
<1>1. /\ Len(s) \in Nat /\ DOMAIN s = 1 .. Len(s) /\ \A i \in DOMAIN s : s[i] \in R
      /\ S \subseteq Nat
  BY LenProperties
<1>2. IsFiniteSet(S)
  <2>1. Len(s) \in Int /\ 1 \in Int
    BY <1>1
  <2>2. IsFiniteSet(1 .. Len(s))
    BY <2>1, FS_Interval
  <2> QED
    BY <1>1, <2>2, FS_Subset
<1>3. PICK n \in Nat : n = Cardinality(S)
  BY <1>2, FS_CardinalityType
<1> DEFINE upTo(k) == {l \in S : l <= k}
           rank == [k \in S |-> Cardinality(upTo(k))]
<1>4. \A k \in S : IsFiniteSet(upTo(k)) /\ Cardinality(upTo(k)) \in 1 .. n
  <2> TAKE k \in S
  <2>1. upTo(k) \in SUBSET S /\ k \in upTo(k)
    BY <1>1
  <2> HIDE DEF upTo
  <2>2. IsFiniteSet(upTo(k)) /\ Cardinality(upTo(k)) <= n /\ Cardinality(upTo(k)) \in Nat
    BY <1>2, <1>3, <2>1, FS_Subset, FS_CardinalityType
  <2>3. Cardinality(upTo(k)) # 0
    BY <2>1, <2>2, FS_EmptySet
  <2> QED
    BY <2>2, <2>3
<1>5. ASSUME NEW k \in S, NEW m \in S, Cardinality(upTo(k)) = Cardinality(upTo(m))
      PROVE  k = m
  <2>1. ASSUME NEW x \in S, NEW y \in S, x < y, Cardinality(upTo(x)) = Cardinality(upTo(y))
        PROVE  FALSE
    <3>1. upTo(x) \in SUBSET upTo(y) /\ y \in upTo(y) /\ y \notin upTo(x)
      BY <1>1, <2>1
    <3> HIDE DEF upTo
    <3> QED
      BY <1>4, <2>1, <3>1, FS_Subset
  <2> QED
    BY <1>1, <1>5, <2>1
<1>6. rank \in Injection(S, 1 .. n)
  BY <1>4, <1>5 DEF Injection, IsInjective
<1>7. \A j \in 1 .. n : \E k \in S : Cardinality(upTo(k)) = j
  <2>1. IsFiniteSet(1 .. n) /\ Cardinality(1 .. n) = n
    <3>1. 1 \in Int /\ n \in Int
      OBVIOUS
    <3>2. IsFiniteSet(1 .. n) /\ Cardinality(1 .. n) = IF 1 > n THEN 0 ELSE n - 1 + 1
      BY <3>1, FS_Interval
    <3> QED
      BY <3>2
  <2> HIDE DEF rank
  <2>2. rank \in Surjection(S, 1 .. n)
    BY <1>3, <1>6, <2>1, FS_Injection
  <2> QED
    BY <2>2 DEF Surjection, rank
<1> HIDE DEF upTo
<1>8. PICK f : f = [j \in 1 .. n |-> CHOOSE k \in S : Cardinality(upTo(k)) = j]
  OBVIOUS
<1>9. \A j \in 1 .. n : f[j] \in S /\ Cardinality(upTo(f[j])) = j
  BY <1>7, <1>8
<1>10. PICK t : t = [j \in 1 .. n |-> s[f[j]]]
  OBVIOUS
<1>11. Kept(s, S) = t
  BY <1>3, <1>8, <1>10 DEF Kept, upTo
<1>12. t \in [1 .. n -> R]
  BY <1>1, <1>9, <1>10
<1>13. t \in Seq(R) /\ DOMAIN t = 1 .. n
  BY <1>12
<1>14. Thinned(s, t)
  <2>1. f \in [DOMAIN t -> DOMAIN s]
    BY <1>8, <1>9, <1>13
  <2>2. \A i, j \in DOMAIN t : f[i] = f[j] => i = j
    BY <1>9, <1>13
  <2> QED
    BY <1>10, <1>13, <2>1, <2>2 DEF Thinned
<1>15. \A j \in DOMAIN t : \E k \in S : t[j] = s[k]
  BY <1>9, <1>10, <1>13
<1>16. ASSUME NEW k \in S
       PROVE  \E j \in DOMAIN t : t[j] = s[k]
  <2>1. PICK j \in 1 .. n : j = Cardinality(upTo(k))
    BY <1>4
  <2>2. f[j] = k
    BY <1>5, <1>9, <2>1
  <2> QED
    BY <1>10, <1>13, <2>2
<1> QED
  BY <1>11, <1>13, <1>14, <1>15, <1>16

-----------------------------------------------------------------------------
(* What the writes do to the rows.                                          *)

LEMMA Numbered == Nums \subseteq Nat \ {0} /\ 0 \notin Nums
BY NumericAssumption DEF Nums

LEMMA RowFacts ==
  ASSUME NEW r \in RowSet
  PROVE  /\ r.num \in Nums /\ r.id \in Ids /\ r.n \in Amounts /\ r.at \in Chars \cup {NoChar}
         /\ r = [num |-> r.num, id |-> r.id, n |-> r.n, at |-> r.at]
         /\ DOMAIN r = {"num", "id", "n", "at"}
         /\ Item(r.id, r.n) \in Things
         /\ (r.at \in Chars => TypeOf[r.id] \in Types)
BY DEF RowSet

LEMMA PlacedIs ==
  ASSUME NEW rs, NEW num, NEW c
  PROVE  Placed(rs, num, c)
           = [k \in DOMAIN rs |-> IF rs[k].num = num THEN [rs[k] EXCEPT !.at = c] ELSE rs[k]]
BY DEF Placed, Updated

LEMMA AppliedAdd ==
  ASSUME NEW rs, NEW num, NEW i
  PROVE  Applied(rs, AddRow(num, i))
           = Append(rs, [num |-> num, id |-> i.id, n |-> i.n, at |-> NoChar])
BY DEF Applied, AddRow

LEMMA AppliedRemove ==
  ASSUME NEW rs, NEW num
  PROVE  Applied(rs, RemoveRow(num)) = Kept(rs, {k \in DOMAIN rs : rs[k].num # num})
BY DEF Applied, RemoveRow

LEMMA AppliedReplace ==
  ASSUME NEW rs, NEW num, NEW id
  PROVE  Applied(rs, ReplaceRow(num, id))
           = [k \in DOMAIN rs |->
                IF rs[k].num = num THEN [num |-> rs[k].num, id |-> id, n |-> 0, at |-> rs[k].at] ELSE rs[k]]
BY DEF Applied, ReplaceRow, Updated

LEMMA AppliedAmount ==
  ASSUME NEW rs, NEW num, NEW n
  PROVE  Applied(rs, AmountRow(num, n))
           = [k \in DOMAIN rs |-> IF rs[k].num = num THEN [rs[k] EXCEPT !.n = n] ELSE rs[k]]
BY DEF Applied, AmountRow, Updated

LEMMA AppliedEquip ==
  ASSUME NEW rs, NEW num, NEW c
  PROVE  /\ Applied(rs, EquipRow(num, c)) = Placed(rs, num, c)
         /\ Applied(rs, UnequipRow(num)) = Placed(rs, num, NoChar)
BY DEF Applied, EquipRow, UnequipRow

LEMMA AppliedSwap ==
  ASSUME NEW rs, NEW num, NEW off, NEW c
  PROVE  Applied(rs, SwapRows(off, num, c))
           = IF HasRow(rs, num) /\ HasRow(rs, off)
             THEN Placed(Placed(rs, num, c), off, NoChar) ELSE rs
BY DEF Applied, SwapRows

-----------------------------------------------------------------------------
(* One write and the move of the session that queued it.                    *)

\* What the two sessions have under other numbers than these is the same.
AgreeOutside(s, s2, N) ==
  /\ \A num \in DOMAIN s.items \ N : num \in DOMAIN s2.items /\ s2.items[num] = s.items[num]
  /\ DOMAIN s2.items \subseteq DOMAIN s.items \cup N
  /\ \A c \in Chars, t \in Types :
       /\ s.worn[c][t].num \notin N \cup {0} => s2.worn[c][t] = s.worn[c][t]
       /\ s2.worn[c][t].num \notin N \cup {0} => s2.worn[c][t] = s.worn[c][t]
  /\ s.replaced \subseteq s2.replaced

LEMMA StillDescribed ==
  ASSUME NEW s, NEW s2, NEW N, AgreeOutside(s, s2, N),
         NEW r \in RowSet, r.num \notin N, Describes(r, s)
  PROVE  Describes(r, s2)
<1>1. r.num \in Nums /\ r.num # 0
  BY RowFacts, Numbered
<1>2. CASE /\ r.num \in DOMAIN s.items /\ s.items[r.num] = Item(r.id, r.n)
           /\ r.at = NoChar \/ r.num \in s.replaced
  BY <1>2 DEF AgreeOutside, Describes
<1>3. CASE \E c \in Chars, t \in Types :
             /\ s.worn[c][t] = [num |-> r.num, id |-> r.id, n |-> r.n]
             /\ r.at = c \/ r.num \in s.replaced
  <2>1. PICK c \in Chars, t \in Types :
             /\ s.worn[c][t] = [num |-> r.num, id |-> r.id, n |-> r.n]
             /\ r.at = c \/ r.num \in s.replaced
    BY <1>3
  <2>2. s.worn[c][t].num = r.num
    BY <2>1
  <2>3. s2.worn[c][t] = s.worn[c][t]
    BY <1>1, <2>2 DEF AgreeOutside
  <2> QED
    BY <2>1, <2>3 DEF AgreeOutside, Describes
<1> QED
  BY <1>2, <1>3 DEF Describes

\* The rows stay linked when only those of some numbers change.
LEMMA Carried ==
  ASSUME NEW rs, NEW s, Linked(rs, s), NEW s2, SessionOK(s2), NEW N, AgreeOutside(s, s2, N),
         NEW rs2 \in Seq(RowSet), Unlike(rs2),
         \A k \in DOMAIN rs2 :
           IF rs2[k].num \in N THEN Describes(rs2[k], s2) ELSE \E j \in DOMAIN rs : rs2[k] = rs[j],
         \A j \in DOMAIN rs : rs[j].num \notin N => HasRow(rs2, rs[j].num),
         \A num \in N \cap DOMAIN s2.items : HasRow(rs2, num),
         \A c \in Chars, t \in Types :
           s2.worn[c][t].num \in N \ {0} => HasRow(rs2, s2.worn[c][t].num)
  PROVE  Linked(rs2, s2)
<1>1. rs \in Seq(RowSet) /\ \A k \in DOMAIN rs : rs[k] \in RowSet /\ Describes(rs[k], s)
  BY DEF Linked
<1>2. ASSUME NEW k \in DOMAIN rs2
      PROVE  Describes(rs2[k], s2)
  <2>1. CASE rs2[k].num \in N
    BY <2>1
  <2>2. CASE rs2[k].num \notin N
    <3>1. PICK j \in DOMAIN rs : rs2[k] = rs[j]
      BY <2>2
    <3> QED
      BY <1>1, <2>2, <3>1, StillDescribed
  <2> QED
    BY <2>1, <2>2
<1>3. ASSUME NEW num \in DOMAIN s2.items
      PROVE  HasRow(rs2, num)
  <2>1. CASE num \in N
    BY <2>1
  <2>2. CASE num \notin N
    <3>1. num \in DOMAIN s.items
      BY <2>2 DEF AgreeOutside
    <3>2. HasRow(rs, num)
      BY <3>1 DEF Linked
    <3>3. PICK j \in DOMAIN rs : rs[j].num = num
      BY <3>2 DEF HasRow
    <3> QED
      BY <2>2, <3>3
  <2> QED
    BY <2>1, <2>2
<1>4. ASSUME NEW c \in Chars, NEW t \in Types, s2.worn[c][t].num # 0
      PROVE  HasRow(rs2, s2.worn[c][t].num)
  <2>1. CASE s2.worn[c][t].num \in N
    BY <1>4, <2>1
  <2>2. CASE s2.worn[c][t].num \notin N
    <3>1. s2.worn[c][t] = s.worn[c][t]
      BY <1>4, <2>2 DEF AgreeOutside
    <3>2. HasRow(rs, s2.worn[c][t].num)
      BY <1>4, <3>1 DEF Linked
    <3>3. PICK j \in DOMAIN rs : rs[j].num = s2.worn[c][t].num
      BY <3>2 DEF HasRow
    <3> QED
      BY <2>2, <3>3
  <2> QED
    BY <2>1, <2>2
<1> QED
  BY <1>2, <1>3, <1>4 DEF Linked

\* Rows of which some are written over, under their old numbers.
LEMMA Rewritten ==
  ASSUME NEW rs, NEW s, Linked(rs, s), NEW s2, SessionOK(s2), NEW N, AgreeOutside(s, s2, N),
         NEW rs2, rs2 = [k \in DOMAIN rs |-> rs2[k]],
         \A k \in DOMAIN rs : rs2[k] \in RowSet /\ rs2[k].num = rs[k].num,
         \A k \in DOMAIN rs : rs[k].num \notin N => rs2[k] = rs[k],
         \A k \in DOMAIN rs : rs[k].num \in N => Describes(rs2[k], s2),
         \A num \in N \cap DOMAIN s2.items : HasRow(rs, num),
         \A c \in Chars, t \in Types :
           s2.worn[c][t].num \in N \ {0} => HasRow(rs, s2.worn[c][t].num)
  PROVE  Linked(rs2, s2)
<1>1. rs \in Seq(RowSet) /\ Unlike(rs)
  BY DEF Linked
<1>2. Len(rs) \in Nat /\ DOMAIN rs = 1 .. Len(rs)
  BY <1>1, LenProperties
<1>3. DOMAIN rs2 = DOMAIN rs /\ rs2 \in [1 .. Len(rs) -> RowSet]
  BY <1>2
<1>4. rs2 \in Seq(RowSet)
  BY <1>2, <1>3
<1>5. Unlike(rs2)
  BY <1>1, <1>3 DEF Unlike
<1>6. \A num : HasRow(rs, num) <=> HasRow(rs2, num)
  BY <1>3 DEF HasRow
<1>7. \A j \in DOMAIN rs : HasRow(rs, rs[j].num)
  BY DEF HasRow
<1> QED
  BY <1>3, <1>4, <1>5, <1>6, <1>7, Carried

-----------------------------------------------------------------------------
(* The moves: what one write says of the session.                           *)

SameHistory(s, s2) == s2.replaced = s.replaced /\ s2.drifted = s.drifted
Adds(s, s2, w) ==
  \E num \in Nums, i \in Things :
    /\ num \notin DOMAIN s.items
    /\ \A c \in Chars, t \in Types : s.worn[c][t].num # num
    /\ s2.items = With(s.items, num, i) /\ s2.worn = s.worn /\ SameHistory(s, s2)
    /\ w = AddRow(num, i)
Removes(s, s2, w) ==
  \E num \in Nums :
    /\ s2.items = Without(s.items, {num})
    /\ s2.worn = IF num \in DOMAIN s.items THEN s.worn ELSE Freed(s.worn, num)
    /\ SameHistory(s, s2)
    /\ w = RemoveRow(num)
Counts(s, s2, w) ==
  \E num \in DOMAIN s.items, n \in Amounts :
    /\ Item(s.items[num].id, n) \in Things
    /\ s2.items = [s.items EXCEPT ![num] = Item(s.items[num].id, n)]
    /\ s2.worn = s.worn /\ SameHistory(s, s2)
    /\ w = AmountRow(num, n)
CountsWorn(s, s2, w) ==
  \E c \in Chars, t \in Types, n \in Amounts :
    LET old == s.worn[c][t] IN
    /\ old.num # 0 /\ Item(old.id, n) \in Things
    /\ s2.items = s.items
    /\ s2.worn = [s.worn EXCEPT ![c][t] = Wear(old.num, Item(old.id, n))] /\ SameHistory(s, s2)
    /\ w = AmountRow(old.num, n)
Replaces(s, s2, w) ==
  \E num \in DOMAIN s.items, id \in Ids :
    /\ Item(id, 0) \in Things /\ TypeOf[id] = TypeOf[s.items[num].id]
    /\ s2.items = With(s.items, num, Item(id, 0)) /\ s2.worn = s.worn /\ SameHistory(s, s2)
    /\ w = ReplaceRow(num, id)
ReplacesWorn(s, s2, w) ==
  \E c \in Chars, t \in Types, id \in Ids :
    LET num == s.worn[c][t].num IN
    /\ num # 0 /\ Item(id, 0) \in Things /\ TypeOf[id] = t
    /\ s2.items = With(s.items, num, Item(id, 0)) /\ s2.worn = Freed(s.worn, num)
    /\ s2.replaced = s.replaced \cup {num} /\ s2.drifted = TRUE
    /\ w = ReplaceRow(num, id)
TakesOff(s, s2, w) ==
  \E c \in Chars, t \in Types :
    LET old == s.worn[c][t] IN
    /\ old.num # 0
    /\ s2.items = With(s.items, old.num, Lay(old))
    /\ s2.worn = [s.worn EXCEPT ![c][t] = Free] /\ SameHistory(s, s2)
    /\ w = UnequipRow(old.num)
HasRoom(s, c, t) ==
  /\ t = SetType => \A p \in SetParts : s.worn[c][p].num = 0
  /\ t \in SetParts => s.worn[c][SetType].num = 0
PutsOn(s, s2, w) ==
  \E c \in Chars, num \in DOMAIN s.items :
    LET i == s.items[num]
        t == TypeOf[i.id]
        old == s.worn[c][t]
    IN /\ t \in Types /\ HasRoom(s, c, t) /\ old.num = 0
       /\ s2.items = Without(s.items, {num})
       /\ s2.worn = [s.worn EXCEPT ![c][t] = Wear(num, i)] /\ SameHistory(s, s2)
       /\ w = EquipRow(num, c)
Swaps(s, s2, w) ==
  \E c \in Chars, num \in DOMAIN s.items :
    LET i == s.items[num]
        t == TypeOf[i.id]
        old == s.worn[c][t]
    IN /\ t \in Types /\ HasRoom(s, c, t) /\ old.num # 0
       /\ s2.items = With(Without(s.items, {num}), old.num, Lay(old))
       /\ s2.worn = [s.worn EXCEPT ![c][t] = Wear(num, i)] /\ SameHistory(s, s2)
       /\ w = SwapRows(old.num, num, c)
Move(s, s2, w) ==
  \/ Adds(s, s2, w) \/ Removes(s, s2, w) \/ Counts(s, s2, w) \/ CountsWorn(s, s2, w)
  \/ Replaces(s, s2, w) \/ ReplacesWorn(s, s2, w)
  \/ TakesOff(s, s2, w) \/ PutsOn(s, s2, w) \/ Swaps(s, s2, w)
Moved(rs, s, s2, w) ==
  Linked(Applied(rs, w), s2) /\ w \in Writes /\ (s.drifted => s2.drifted)

LEMMA WornFacts ==
  ASSUME NEW s, SessionOK(s), NEW c \in Chars, NEW t \in Types, s.worn[c][t].num # 0
  PROVE  /\ s.worn[c][t].num \in Nums /\ s.worn[c][t].id \in Ids /\ s.worn[c][t].n \in Amounts
         /\ s.worn[c][t]
              = [num |-> s.worn[c][t].num, id |-> s.worn[c][t].id, n |-> s.worn[c][t].n]
         /\ TypeOf[s.worn[c][t].id] = t /\ Lay(s.worn[c][t]) \in Things
         /\ Lay(s.worn[c][t]) = Item(s.worn[c][t].id, s.worn[c][t].n)
         /\ s.worn[c][t].num \notin DOMAIN s.items
BY DEF SessionOK, Slots, Free, Lay

LEMMA ThingFacts ==
  ASSUME NEW i \in Things
  PROVE  i.id \in Ids /\ i.n \in Amounts /\ i = Item(i.id, i.n)
BY DEF Things, Item

\* An item lying there has its row, and that row is what the session says.
LEMMA LyingRow ==
  ASSUME NEW rs, NEW s, Linked(rs, s), NEW k \in DOMAIN rs, rs[k].num \in DOMAIN s.items
  PROVE  /\ s.items[rs[k].num] = Item(rs[k].id, rs[k].n)
         /\ s.items[rs[k].num].id = rs[k].id /\ s.items[rs[k].num].n = rs[k].n
         /\ rs[k].at = NoChar \/ rs[k].num \in s.replaced
<1>1. Describes(rs[k], s)
  BY DEF Linked
<1>2. \A c \in Chars, t \in Types : s.worn[c][t].num # rs[k].num
  BY DEF Linked, SessionOK
<1>3. /\ s.items[rs[k].num] = Item(rs[k].id, rs[k].n)
      /\ rs[k].at = NoChar \/ rs[k].num \in s.replaced
  BY <1>1, <1>2 DEF Describes
<1> QED
  BY <1>3 DEF Item

LEMMA WornRow ==
  ASSUME NEW rs, NEW s, Linked(rs, s), NEW k \in DOMAIN rs,
         NEW c \in Chars, NEW t \in Types, s.worn[c][t].num # 0, rs[k].num = s.worn[c][t].num
  PROVE  /\ s.worn[c][t].id = rs[k].id /\ s.worn[c][t].n = rs[k].n
         /\ rs[k].at = c \/ rs[k].num \in s.replaced
<1>1. Describes(rs[k], s) /\ SessionOK(s)
  BY DEF Linked
<1>2. rs[k].num \notin DOMAIN s.items
  BY <1>1 DEF SessionOK
<1>3. PICK d \in Chars, u \in Types :
             /\ s.worn[d][u] = [num |-> rs[k].num, id |-> rs[k].id, n |-> rs[k].n]
             /\ rs[k].at = d \/ rs[k].num \in s.replaced
  BY <1>1, <1>2 DEF Describes
<1>4. s.worn[d][u].num = rs[k].num /\ s.worn[d][u].id = rs[k].id /\ s.worn[d][u].n = rs[k].n
  BY <1>3
<1>5. d = c /\ u = t
  BY <1>1, <1>4 DEF SessionOK
<1> QED
  BY <1>3, <1>4, <1>5

LEMMA AddsKeeps ==
  ASSUME NEW rs, NEW s, Linked(rs, s), NEW s2, NEW w, Adds(s, s2, w)
  PROVE  Moved(rs, s, s2, w)
<1>1. PICK num \in Nums, i \in Things :
        /\ num \notin DOMAIN s.items
        /\ \A c \in Chars, t \in Types : s.worn[c][t].num # num
        /\ s2.items = With(s.items, num, i) /\ s2.worn = s.worn /\ SameHistory(s, s2)
        /\ w = AddRow(num, i)
  BY DEF Adds
<1>2. SessionOK(s) /\ rs \in Seq(RowSet) /\ Unlike(rs) /\ \A k \in DOMAIN rs : Describes(rs[k], s)
  BY DEF Linked
<1>3. PICK f : f = s2.items
  OBVIOUS
<1>4. /\ DOMAIN f = DOMAIN s.items \cup {num}
      /\ f[num] = i
      /\ \A k \in DOMAIN s.items : f[k] = s.items[k]
      /\ f = [k \in DOMAIN f |-> f[k]]
  BY <1>1, <1>3 DEF With
<1>5. SessionOK(s2)
  <2>1. DOMAIN f \subseteq Nums /\ f \in [DOMAIN f -> Things]
    BY <1>1, <1>2, <1>4 DEF SessionOK
  <2>2. \A c \in Chars, t \in Types : s2.worn[c][t].num \notin DOMAIN f
    BY <1>1, <1>2, <1>4 DEF SessionOK
  <2> QED
    BY <1>1, <1>2, <1>3, <2>1, <2>2 DEF SessionOK, SameHistory, Bare
<1>6. AgreeOutside(s, s2, {num})
  BY <1>1, <1>3, <1>4 DEF AgreeOutside, SameHistory
<1> DEFINE row == [num |-> num, id |-> i.id, n |-> i.n, at |-> NoChar]
<1>7. row \in RowSet
  BY <1>1, ThingFacts, CharAssumption DEF RowSet
<1>8. Describes(row, s2)
  BY <1>3, <1>4, ThingFacts DEF Describes
<1> HIDE DEF row
<1>9. PICK rs2 : rs2 = Append(rs, row)
  OBVIOUS
<1>10. Applied(rs, w) = rs2
  BY <1>1, <1>9, AppliedAdd DEF row
<1>11. /\ rs2 \in Seq(RowSet) /\ Len(rs2) = Len(rs) + 1
       /\ \A k \in 1 .. Len(rs) : rs2[k] = rs[k]
       /\ rs2[Len(rs) + 1] = row
  BY <1>2, <1>7, <1>9, AppendProperties
<1>12. /\ Len(rs) \in Nat /\ DOMAIN rs = 1 .. Len(rs) /\ DOMAIN rs2 = 1 .. Len(rs) + 1
       /\ \A k \in DOMAIN rs : rs[k] \in RowSet
  BY <1>2, <1>11, LenProperties
<1>13. row.num = num
  BY DEF row
<1>14. \A k \in DOMAIN rs : rs[k].num # num
  <2>1. SUFFICES ASSUME NEW k \in DOMAIN rs, rs[k].num = num PROVE FALSE
    OBVIOUS
  <2>2. Describes(rs[k], s)
    BY <1>2
  <2> QED
    BY <1>1, <2>1, <2>2 DEF Describes
<1>15. Unlike(rs2)
  <2>1. ASSUME NEW j \in DOMAIN rs2, NEW k \in DOMAIN rs2, rs2[j].num = rs2[k].num
        PROVE  j = k
    <3>1. CASE j \in DOMAIN rs /\ k \in DOMAIN rs
      BY <1>2, <1>11, <1>12, <2>1, <3>1 DEF Unlike
    <3>2. CASE j = Len(rs) + 1 /\ k \in DOMAIN rs
      BY <1>11, <1>12, <1>13, <1>14, <2>1, <3>2
    <3>3. CASE k = Len(rs) + 1 /\ j \in DOMAIN rs
      BY <1>11, <1>12, <1>13, <1>14, <2>1, <3>3
    <3> QED
      BY <1>12, <3>1, <3>2, <3>3
  <2> QED
    BY <2>1 DEF Unlike
<1>16. ASSUME NEW k \in DOMAIN rs2
       PROVE  IF rs2[k].num \in {num} THEN Describes(rs2[k], s2) ELSE \E j \in DOMAIN rs : rs2[k] = rs[j]
  BY <1>8, <1>11, <1>12, <1>13, <1>14
<1>17. ASSUME NEW j \in DOMAIN rs
       PROVE  HasRow(rs2, rs[j].num)
  BY <1>11, <1>12 DEF HasRow
<1>18. HasRow(rs2, num)
  <2>1. Len(rs) + 1 \in DOMAIN rs2
    BY <1>12
  <2> QED
    BY <1>11, <1>13, <2>1 DEF HasRow
<1>19. Linked(rs2, s2)
  BY <1>5, <1>6, <1>11, <1>15, <1>16, <1>17, <1>18, Carried
<1>20. w \in Writes
  BY <1>1 DEF Writes
<1> QED
  BY <1>1, <1>10, <1>19, <1>20 DEF Moved, SameHistory

LEMMA RemovesKeeps ==
  ASSUME NEW rs, NEW s, Linked(rs, s), NEW s2, NEW w, Removes(s, s2, w)
  PROVE  Moved(rs, s, s2, w)
<1>1. PICK num \in Nums :
        /\ s2.items = Without(s.items, {num})
        /\ s2.worn = IF num \in DOMAIN s.items THEN s.worn ELSE Freed(s.worn, num)
        /\ SameHistory(s, s2)
        /\ w = RemoveRow(num)
  BY DEF Removes
<1>2. SessionOK(s) /\ rs \in Seq(RowSet) /\ Unlike(rs) /\ \A k \in DOMAIN rs : Describes(rs[k], s)
  BY DEF Linked
<1>3. PICK f : f = s2.items
  OBVIOUS
<1>4. /\ DOMAIN f = DOMAIN s.items \ {num}
      /\ \A k \in DOMAIN f : f[k] = s.items[k]
      /\ f = [k \in DOMAIN f |-> f[k]]
  BY <1>1, <1>3 DEF Without
<1>5. PICK g : g = s2.worn
  OBVIOUS
<1>6. /\ g \in [Chars -> [Types -> Slots]]
      /\ \A c \in Chars, t \in Types :
           /\ g[c][t].num # num
           /\ g[c][t] = s.worn[c][t] \/ (s.worn[c][t].num = num /\ g[c][t].num = 0)
  <2>1. CASE num \in DOMAIN s.items
    <3>1. g = s.worn
      BY <1>1, <1>5, <2>1
    <3> QED
      BY <1>2, <2>1, <3>1 DEF SessionOK
  <2>2. CASE num \notin DOMAIN s.items
    <3>1. g = Freed(s.worn, num)
      BY <1>1, <1>5, <2>2
    <3>2. s.worn \in [Chars -> [Types -> Slots]]
      BY <1>2 DEF SessionOK
    <3>3. num # 0 /\ Free \in Slots /\ Free.num = 0
      BY Numbered DEF Slots, Free
    <3>4. g \in [Chars -> [Types -> Slots]]
      BY <3>1, <3>2, <3>3 DEF Freed
    <3>5. \A c \in Chars, t \in Types : g[c][t] = IF s.worn[c][t].num = num THEN Free ELSE s.worn[c][t]
      BY <3>1 DEF Freed
    <3> QED
      BY <3>3, <3>4, <3>5
  <2> QED
    BY <2>1, <2>2
<1>7. SessionOK(s2)
  <2>1. DOMAIN f \subseteq Nums /\ f \in [DOMAIN f -> Things]
    BY <1>2, <1>4 DEF SessionOK
  <2>2. \A c \in Chars, t \in Types : g[c][t].num \notin DOMAIN f
    <3>1. 0 \notin DOMAIN f
      BY <2>1, Numbered
    <3> QED
      BY <1>2, <1>4, <1>6, <3>1 DEF SessionOK
  <2>3. \A c \in Chars, t \in Types : g[c][t].num # 0 =>
       TypeOf[g[c][t].id] = t /\ Lay(g[c][t]) \in Things
    BY <1>2, <1>6 DEF SessionOK
  <2>4. \A c, d \in Chars, t, u \in Types :
       g[c][t].num # 0 /\ g[c][t].num = g[d][u].num => c = d /\ t = u
    <3> TAKE c, d \in Chars, t, u \in Types
    <3> HAVE g[c][t].num # 0 /\ g[c][t].num = g[d][u].num
    <3>1. g[c][t] = s.worn[c][t] /\ g[d][u] = s.worn[d][u]
      BY <1>6
    <3> QED
      BY <1>2, <3>1 DEF SessionOK
  <2>5. s.drifted \/ (s.replaced = {} /\ \A c \in Chars, t \in SetParts : g[c][SetType].num = 0 \/ g[c][t].num = 0)
    BY <1>2, <1>6, PartsAssumption, TypeAssumption DEF SessionOK, Bare
  <2>6. s2.drifted \/ (s2.replaced = {} /\ Bare(s2))
    BY <1>1, <1>5, <2>5 DEF SameHistory, Bare
  <2>7. s2.replaced \subseteq Nums /\ s2.drifted \in BOOLEAN
    BY <1>1, <1>2 DEF SessionOK, SameHistory
  <2> QED
    BY <1>3, <1>5, <1>6, <2>1, <2>2, <2>3, <2>4, <2>6, <2>7 DEF SessionOK
<1>8. AgreeOutside(s, s2, {num})
  <2>1. \A c \in Chars, t \in Types :
       /\ s.worn[c][t].num \notin {num} \cup {0} => g[c][t] = s.worn[c][t]
       /\ g[c][t].num \notin {num} \cup {0} => g[c][t] = s.worn[c][t]
    BY <1>6
  <2> QED
    BY <1>1, <1>3, <1>4, <1>5, <2>1 DEF AgreeOutside, SameHistory
<1> DEFINE S == {k \in DOMAIN rs : rs[k].num # num}
<1>9. PICK rs2 : rs2 = Kept(rs, S)
  OBVIOUS
<1>10. Applied(rs, w) = rs2
  BY <1>1, <1>9, AppliedRemove
<1>11. /\ rs2 \in Seq(RowSet) /\ Thinned(rs, rs2)
       /\ \A j \in DOMAIN rs2 : \E k \in S : rs2[j] = rs[k]
       /\ \A k \in S : \E j \in DOMAIN rs2 : rs2[j] = rs[k]
  <2>1. S \subseteq DOMAIN rs
    OBVIOUS
  <2> HIDE DEF S
  <2> QED
    BY <1>2, <1>9, <2>1, KeptFacts
<1>12. Unlike(rs2)
  <2>1. PICK h \in [DOMAIN rs2 -> DOMAIN rs] :
          /\ \A i, j \in DOMAIN rs2 : h[i] = h[j] => i = j
          /\ \A i \in DOMAIN rs2 : rs2[i] = rs[h[i]]
    BY <1>11 DEF Thinned
  <2> QED
    BY <1>2, <2>1 DEF Unlike
<1>13. ASSUME NEW k \in DOMAIN rs2
       PROVE  IF rs2[k].num \in {num} THEN Describes(rs2[k], s2) ELSE \E j \in DOMAIN rs : rs2[k] = rs[j]
  BY <1>11
<1>14. ASSUME NEW j \in DOMAIN rs, rs[j].num \notin {num}
       PROVE  HasRow(rs2, rs[j].num)
  <2>1. j \in S
    BY <1>14
  <2>2. PICK k \in DOMAIN rs2 : rs2[k] = rs[j]
    BY <1>11, <2>1
  <2> QED
    BY <2>2 DEF HasRow
<1>15. num \notin DOMAIN s2.items /\ \A c \in Chars, t \in Types : s2.worn[c][t].num # num
  BY <1>3, <1>4, <1>5, <1>6
<1>16. Linked(rs2, s2)
  <2>1. \A n \in {num} \cap DOMAIN s2.items : HasRow(rs2, n)
    BY <1>15
  <2>2. \A c \in Chars, t \in Types : s2.worn[c][t].num \in {num} \ {0} => HasRow(rs2, s2.worn[c][t].num)
    BY <1>15
  <2> QED
    BY <1>7, <1>8, <1>11, <1>12, <1>13, <1>14, <2>1, <2>2, Carried
<1>17. w \in Writes
  BY <1>1 DEF Writes
<1> QED
  BY <1>1, <1>10, <1>16, <1>17 DEF Moved, SameHistory

LEMMA ItemFacts ==
  ASSUME NEW id, NEW n, Item(id, n) \in Things
  PROVE  id \in Ids /\ n \in Amounts /\ Item(id, n).id = id /\ Item(id, n).n = n
BY DEF Item, Things

LEMMA RowIs ==
  ASSUME NEW num \in Nums, NEW id, NEW n, Item(id, n) \in Things, NEW c \in Chars \cup {NoChar},
         c \in Chars => TypeOf[id] \in Types
  PROVE  [num |-> num, id |-> id, n |-> n, at |-> c] \in RowSet
BY ItemFacts DEF RowSet

LEMMA RowChanges ==
  ASSUME NEW r \in RowSet, NEW n, NEW c
  PROVE  /\ [r EXCEPT !.n = n] = [num |-> r.num, id |-> r.id, n |-> n, at |-> r.at]
         /\ [r EXCEPT !.at = c] = [num |-> r.num, id |-> r.id, n |-> r.n, at |-> c]
<1>1. PICK num, old, m, at : r = [num |-> num, id |-> old, n |-> m, at |-> at]
  BY RowFacts
<1> QED
  BY <1>1

LEMMA CountsKeeps ==
  ASSUME NEW rs, NEW s, Linked(rs, s), NEW s2, NEW w, Counts(s, s2, w)
  PROVE  Moved(rs, s, s2, w)
<1>1. PICK num \in DOMAIN s.items, n \in Amounts :
        /\ Item(s.items[num].id, n) \in Things
        /\ s2.items = [s.items EXCEPT ![num] = Item(s.items[num].id, n)]
        /\ s2.worn = s.worn /\ SameHistory(s, s2)
        /\ w = AmountRow(num, n)
  BY DEF Counts
<1>2. /\ SessionOK(s) /\ rs \in Seq(RowSet) /\ num \in Nums /\ HasRow(rs, num)
      /\ \A k \in DOMAIN rs : rs[k] \in RowSet
  BY <1>1 DEF Linked, SessionOK
<1>3. PICK f : f = s2.items
  OBVIOUS
<1>4. /\ DOMAIN f = DOMAIN s.items
      /\ f[num] = Item(s.items[num].id, n)
      /\ \A k \in DOMAIN s.items : k # num => f[k] = s.items[k]
      /\ f = [k \in DOMAIN f |-> f[k]]
  BY <1>1, <1>3
<1>5. SessionOK(s2)
  <2>1. DOMAIN f \subseteq Nums /\ f \in [DOMAIN f -> Things]
    BY <1>1, <1>2, <1>4 DEF SessionOK
  <2> QED
    BY <1>1, <1>2, <1>3, <1>4, <2>1 DEF SessionOK, SameHistory, Bare
<1>6. AgreeOutside(s, s2, {num})
  BY <1>1, <1>3, <1>4 DEF AgreeOutside, SameHistory
<1>7. PICK rs2 : rs2 = Applied(rs, w)
  OBVIOUS
<1>8. rs2 = [k \in DOMAIN rs |-> IF rs[k].num = num THEN [rs[k] EXCEPT !.n = n] ELSE rs[k]]
  BY <1>1, <1>7, AppliedAmount
<1>9. \A k \in DOMAIN rs : rs[k].num # num => rs2[k] = rs[k]
  BY <1>8
<1>10. ASSUME NEW k \in DOMAIN rs, rs[k].num = num
       PROVE  rs2[k] \in RowSet /\ rs2[k].num = num /\ Describes(rs2[k], s2)
  <2>1. PICK r : r = rs[k]
    OBVIOUS
  <2>2. r \in RowSet /\ r.num = num /\ s.items[num].id = r.id /\ (r.at = NoChar \/ num \in s.replaced)
    BY <1>1, <1>2, <1>10, <2>1, LyingRow
  <2>3. rs2[k] = [r EXCEPT !.n = n]
    BY <1>8, <1>10, <2>1
  <2>4. rs2[k] = [num |-> num, id |-> r.id, n |-> n, at |-> r.at]
    BY <2>2, <2>3, RowChanges
  <2>5. rs2[k] \in RowSet
    BY <1>1, <1>2, <2>2, <2>4, RowFacts, RowIs
  <2>6. Describes(rs2[k], s2)
    BY <1>1, <1>3, <1>4, <2>2, <2>4 DEF Describes, SameHistory
  <2> QED
    BY <2>4, <2>5, <2>6
<1>11. rs2 = [k \in DOMAIN rs |-> rs2[k]]
  BY <1>8
<1>12. \A c \in Chars, t \in Types : s2.worn[c][t].num # num
  BY <1>1, <1>2 DEF SessionOK
<1>13. Linked(rs2, s2)
  <2>1. \A k \in DOMAIN rs : rs2[k] \in RowSet /\ rs2[k].num = rs[k].num
    BY <1>2, <1>9, <1>10
  <2>2. \A k \in DOMAIN rs : rs[k].num \notin {num} => rs2[k] = rs[k]
    BY <1>9
  <2>3. \A k \in DOMAIN rs : rs[k].num \in {num} => Describes(rs2[k], s2)
    BY <1>10
  <2>4. \A m \in {num} \cap DOMAIN s2.items : HasRow(rs, m)
    BY <1>2
  <2>5. \A c \in Chars, t \in Types : s2.worn[c][t].num \in {num} \ {0} => HasRow(rs, s2.worn[c][t].num)
    BY <1>12
  <2> QED
    BY <1>5, <1>6, <1>11, <2>1, <2>2, <2>3, <2>4, <2>5, Rewritten
<1>14. w \in Writes
  BY <1>1, <1>2 DEF Writes
<1> QED
  BY <1>1, <1>7, <1>13, <1>14 DEF Moved, SameHistory

LEMMA ReplacesKeeps ==
  ASSUME NEW rs, NEW s, Linked(rs, s), NEW s2, NEW w, Replaces(s, s2, w)
  PROVE  Moved(rs, s, s2, w)
<1>1. PICK num \in DOMAIN s.items, id \in Ids :
        /\ Item(id, 0) \in Things /\ TypeOf[id] = TypeOf[s.items[num].id]
        /\ s2.items = With(s.items, num, Item(id, 0)) /\ s2.worn = s.worn /\ SameHistory(s, s2)
        /\ w = ReplaceRow(num, id)
  BY DEF Replaces
<1>2. /\ SessionOK(s) /\ rs \in Seq(RowSet) /\ num \in Nums /\ HasRow(rs, num)
      /\ \A k \in DOMAIN rs : rs[k] \in RowSet
  BY <1>1 DEF Linked, SessionOK
<1>3. PICK f : f = s2.items
  OBVIOUS
<1>4. /\ DOMAIN f = DOMAIN s.items
      /\ f[num] = Item(id, 0)
      /\ \A k \in DOMAIN s.items : k # num => f[k] = s.items[k]
      /\ f = [k \in DOMAIN f |-> f[k]]
  BY <1>1, <1>3 DEF With
<1>5. SessionOK(s2)
  <2>1. DOMAIN f \subseteq Nums /\ f \in [DOMAIN f -> Things]
    BY <1>1, <1>2, <1>4 DEF SessionOK
  <2> QED
    BY <1>1, <1>2, <1>3, <1>4, <2>1 DEF SessionOK, SameHistory, Bare
<1>6. AgreeOutside(s, s2, {num})
  BY <1>1, <1>3, <1>4 DEF AgreeOutside, SameHistory
<1>7. PICK rs2 : rs2 = Applied(rs, w)
  OBVIOUS
<1>8. rs2 = [k \in DOMAIN rs |-> IF rs[k].num = num THEN [num |-> rs[k].num, id |-> id, n |-> 0, at |-> rs[k].at] ELSE rs[k]]
  BY <1>1, <1>7, AppliedReplace
<1>9. \A k \in DOMAIN rs : rs[k].num # num => rs2[k] = rs[k]
  BY <1>8
<1>10. ASSUME NEW k \in DOMAIN rs, rs[k].num = num
       PROVE  rs2[k] \in RowSet /\ rs2[k].num = num /\ Describes(rs2[k], s2)
  <2>1. PICK r : r = rs[k]
    OBVIOUS
  <2>2. r \in RowSet /\ r.num = num /\ s.items[num].id = r.id /\ (r.at = NoChar \/ num \in s.replaced)
    BY <1>1, <1>2, <1>10, <2>1, LyingRow
  <2>3. rs2[k] = [num |-> r.num, id |-> id, n |-> 0, at |-> r.at]
    BY <1>8, <1>10, <2>1
  <2>4. rs2[k] = [num |-> num, id |-> id, n |-> 0, at |-> r.at]
    BY <2>2, <2>3, RowChanges
  <2>5. rs2[k] \in RowSet
    BY <1>1, <1>2, <2>2, <2>4, RowFacts, RowIs
  <2>6. Describes(rs2[k], s2)
    BY <1>1, <1>3, <1>4, <2>2, <2>4 DEF Describes, SameHistory
  <2> QED
    BY <2>4, <2>5, <2>6
<1>11. rs2 = [k \in DOMAIN rs |-> rs2[k]]
  BY <1>8
<1>12. \A c \in Chars, t \in Types : s2.worn[c][t].num # num
  BY <1>1, <1>2 DEF SessionOK
<1>13. Linked(rs2, s2)
  <2>1. \A k \in DOMAIN rs : rs2[k] \in RowSet /\ rs2[k].num = rs[k].num
    BY <1>2, <1>9, <1>10
  <2>2. \A k \in DOMAIN rs : rs[k].num \notin {num} => rs2[k] = rs[k]
    BY <1>9
  <2>3. \A k \in DOMAIN rs : rs[k].num \in {num} => Describes(rs2[k], s2)
    BY <1>10
  <2>4. \A m \in {num} \cap DOMAIN s2.items : HasRow(rs, m)
    BY <1>2
  <2>5. \A c \in Chars, t \in Types : s2.worn[c][t].num \in {num} \ {0} => HasRow(rs, s2.worn[c][t].num)
    BY <1>12
  <2> QED
    BY <1>5, <1>6, <1>11, <2>1, <2>2, <2>3, <2>4, <2>5, Rewritten
<1>14. w \in Writes
  BY <1>1, <1>2 DEF Writes
<1> QED
  BY <1>1, <1>7, <1>13, <1>14 DEF Moved, SameHistory

LEMMA CountsWornKeeps ==
  ASSUME NEW rs, NEW s, Linked(rs, s), NEW s2, NEW w, CountsWorn(s, s2, w)
  PROVE  Moved(rs, s, s2, w)
<1>1. PICK c \in Chars, t \in Types, n \in Amounts :
        LET old == s.worn[c][t] IN
        /\ old.num # 0 /\ Item(old.id, n) \in Things
        /\ s2.items = s.items
        /\ s2.worn = [s.worn EXCEPT ![c][t] = Wear(old.num, Item(old.id, n))] /\ SameHistory(s, s2)
        /\ w = AmountRow(old.num, n)
  BY DEF CountsWorn
<1>2. PICK num, id : num = s.worn[c][t].num /\ id = s.worn[c][t].id
  OBVIOUS
<1>3. /\ num # 0 /\ Item(id, n) \in Things
      /\ s2.items = s.items /\ s2.worn = [s.worn EXCEPT ![c][t] = Wear(num, Item(id, n))]
      /\ SameHistory(s, s2)
      /\ w = AmountRow(num, n)
  BY <1>1, <1>2
<1>4. /\ SessionOK(s) /\ rs \in Seq(RowSet) /\ HasRow(rs, num)
      /\ \A k \in DOMAIN rs : rs[k] \in RowSet
  BY <1>2, <1>3 DEF Linked
<1>5. num \in Nums /\ id \in Ids /\ TypeOf[id] = t /\ num \notin DOMAIN s.items
  <2>0. SessionOK(s)
    BY <1>4
  <2>1. s.worn[c][t].num # 0
    BY <1>2, <1>3
  <2>2. /\ s.worn[c][t].num \in Nums /\ s.worn[c][t].id \in Ids
        /\ TypeOf[s.worn[c][t].id] = t /\ s.worn[c][t].num \notin DOMAIN s.items
    BY <2>0, <2>1 DEF SessionOK, Slots, Free, Lay
  <2> QED
    BY <1>2, <2>2
<1>6. PICK v : v = [num |-> num, id |-> id, n |-> n]
  OBVIOUS
<1>7. /\ Wear(num, Item(id, n)) = v /\ Lay(v) \in Things
      /\ v \in Slots /\ v.num = num /\ v.id = id
  BY <1>3, <1>5, <1>6 DEF Wear, Item, Lay, Slots
<1>8. PICK g : g = s2.worn
  OBVIOUS
<1>9. /\ g \in [Chars -> [Types -> Slots]] /\ g[c][t] = v
      /\ \A d \in Chars, u \in Types : d # c \/ u # t => g[d][u] = s.worn[d][u]
  <2>1. s.worn \in [Chars -> [Types -> Slots]]
    BY <1>4 DEF SessionOK
  <2>2. g = [s.worn EXCEPT ![c][t] = v]
    BY <1>3, <1>7, <1>8
  <2> QED
    BY <1>7, <2>1, <2>2
<1>10. \A d \in Chars, u \in Types : g[d][u].num = s.worn[d][u].num
  BY <1>2, <1>7, <1>9
<1>11. SessionOK(s2)
  <2>1. \A d \in Chars, u \in Types : g[d][u].num # 0 =>
       TypeOf[g[d][u].id] = u /\ Lay(g[d][u]) \in Things
    <3> TAKE d \in Chars, u \in Types
    <3>1. CASE d = c /\ u = t
      BY <1>5, <1>7, <1>9, <3>1
    <3>2. CASE d # c \/ u # t
      BY <1>4, <1>9, <3>2 DEF SessionOK
    <3> QED
      BY <3>1, <3>2
  <2>2. s2.drifted \/ (s2.replaced = {} /\ Bare(s2))
    <3>1. s.drifted \/ (s.replaced = {} /\ Bare(s))
      BY <1>4 DEF SessionOK
    <3>2. Bare(s) => Bare(s2)
      BY <1>8, <1>10, PartsAssumption, TypeAssumption DEF Bare
    <3> QED
      BY <1>3, <3>1, <3>2 DEF SameHistory
  <2>3. s2.replaced \subseteq Nums /\ s2.drifted \in BOOLEAN
    BY <1>3, <1>4 DEF SessionOK, SameHistory
  <2>4. \A d \in Chars, u \in Types : g[d][u].num \notin DOMAIN s.items
    BY <1>4, <1>10 DEF SessionOK
  <2>5. \A d, e \in Chars, x, y \in Types :
       g[d][x].num # 0 /\ g[d][x].num = g[e][y].num => d = e /\ x = y
    BY <1>4, <1>10 DEF SessionOK
  <2>6. DOMAIN s.items \subseteq Nums /\ s.items \in [DOMAIN s.items -> Things]
    BY <1>4 DEF SessionOK
  <2> QED
    BY <1>3, <1>8, <1>9, <2>1, <2>2, <2>3, <2>4, <2>5, <2>6 DEF SessionOK
<1>12. AgreeOutside(s, s2, {num})
  <2>1. \A d \in Chars, u \in Types :
       /\ s.worn[d][u].num \notin {num} \cup {0} => g[d][u] = s.worn[d][u]
       /\ g[d][u].num \notin {num} \cup {0} => g[d][u] = s.worn[d][u]
    BY <1>2, <1>7, <1>9
  <2> QED
    BY <1>3, <1>8, <2>1 DEF AgreeOutside, SameHistory
<1>13. PICK rs2 : rs2 = Applied(rs, w)
  OBVIOUS
<1>14. rs2 = [k \in DOMAIN rs |-> IF rs[k].num = num THEN [rs[k] EXCEPT !.n = n] ELSE rs[k]]
  BY <1>3, <1>13, AppliedAmount
<1>15. \A k \in DOMAIN rs : rs[k].num # num => rs2[k] = rs[k]
  BY <1>14
<1>16. ASSUME NEW k \in DOMAIN rs, rs[k].num = num
       PROVE  rs2[k] \in RowSet /\ rs2[k].num = num /\ Describes(rs2[k], s2)
  <2>1. PICK r : r = rs[k]
    OBVIOUS
  <2>2. r \in RowSet /\ r.num = num /\ id = r.id /\ (r.at = c \/ num \in s.replaced)
    BY <1>2, <1>3, <1>4, <1>16, <2>1, WornRow
  <2>3. rs2[k] = [r EXCEPT !.n = n]
    BY <1>14, <1>16, <2>1
  <2>4. rs2[k] = [num |-> num, id |-> id, n |-> n, at |-> r.at]
    BY <2>2, <2>3, RowChanges
  <2>5. rs2[k] \in RowSet
    BY <1>3, <1>5, <2>2, <2>4, RowFacts, RowIs
  <2>6. Describes(rs2[k], s2)
    <3>1. s2.worn[c][t] = [num |-> rs2[k].num, id |-> rs2[k].id, n |-> rs2[k].n]
      BY <1>6, <1>8, <1>9, <2>4
    <3>2. rs2[k].at = c \/ rs2[k].num \in s2.replaced
      BY <1>3, <2>2, <2>4 DEF SameHistory
    <3> QED
      BY <3>1, <3>2 DEF Describes
  <2> QED
    BY <2>4, <2>5, <2>6
<1>17. rs2 = [k \in DOMAIN rs |-> rs2[k]]
  BY <1>14
<1>18. Linked(rs2, s2)
  <2>1. \A k \in DOMAIN rs : rs2[k] \in RowSet /\ rs2[k].num = rs[k].num
    BY <1>4, <1>15, <1>16
  <2>2. \A k \in DOMAIN rs : rs[k].num \notin {num} => rs2[k] = rs[k]
    BY <1>15
  <2>3. \A k \in DOMAIN rs : rs[k].num \in {num} => Describes(rs2[k], s2)
    BY <1>16
  <2>4. \A m \in {num} \cap DOMAIN s2.items : HasRow(rs, m)
    BY <1>4
  <2>5. \A d \in Chars, u \in Types : s2.worn[d][u].num \in {num} \ {0} => HasRow(rs, s2.worn[d][u].num)
    BY <1>4
  <2> QED
    BY <1>11, <1>12, <1>17, <2>1, <2>2, <2>3, <2>4, <2>5, Rewritten
<1>19. w \in Writes
  BY <1>3, <1>5 DEF Writes
<1> QED
  BY <1>3, <1>13, <1>18, <1>19 DEF Moved, SameHistory

LEMMA ReplacesWornKeeps ==
  ASSUME NEW rs, NEW s, Linked(rs, s), NEW s2, NEW w, ReplacesWorn(s, s2, w)
  PROVE  Moved(rs, s, s2, w)
<1>1. PICK c \in Chars, t \in Types, id \in Ids :
        LET num == s.worn[c][t].num IN
        /\ num # 0 /\ Item(id, 0) \in Things /\ TypeOf[id] = t
        /\ s2.items = With(s.items, num, Item(id, 0)) /\ s2.worn = Freed(s.worn, num)
        /\ s2.replaced = s.replaced \cup {num} /\ s2.drifted = TRUE
        /\ w = ReplaceRow(num, id)
  BY DEF ReplacesWorn
<1>2. PICK num : num = s.worn[c][t].num
  OBVIOUS
<1>3. /\ num # 0 /\ Item(id, 0) \in Things /\ TypeOf[id] = t
      /\ s2.items = With(s.items, num, Item(id, 0)) /\ s2.worn = Freed(s.worn, num)
      /\ s2.replaced = s.replaced \cup {num} /\ s2.drifted = TRUE
      /\ w = ReplaceRow(num, id)
  BY <1>1, <1>2
<1>4. /\ SessionOK(s) /\ rs \in Seq(RowSet) /\ HasRow(rs, num)
      /\ \A k \in DOMAIN rs : rs[k] \in RowSet
  BY <1>2, <1>3 DEF Linked
<1>5. num \in Nums /\ num \notin DOMAIN s.items
  BY <1>2, <1>3, <1>4, WornFacts
<1>6. PICK f : f = s2.items
  OBVIOUS
<1>7. /\ DOMAIN f = DOMAIN s.items \cup {num}
      /\ f[num] = Item(id, 0)
      /\ \A k \in DOMAIN s.items : f[k] = s.items[k]
      /\ f = [k \in DOMAIN f |-> f[k]]
  BY <1>3, <1>5, <1>6 DEF With
<1>8. PICK g : g = s2.worn
  OBVIOUS
<1>9. /\ g \in [Chars -> [Types -> Slots]]
      /\ \A d \in Chars, u \in Types :
           /\ g[d][u].num # num
           /\ g[d][u] = s.worn[d][u] \/ (s.worn[d][u].num = num /\ g[d][u].num = 0)
  <2>1. s.worn \in [Chars -> [Types -> Slots]]
    BY <1>4 DEF SessionOK
  <2>2. Free \in Slots /\ Free.num = 0
    BY DEF Slots, Free
  <2>3. g \in [Chars -> [Types -> Slots]]
    BY <1>3, <1>8, <2>1, <2>2 DEF Freed
  <2>4. \A d \in Chars, u \in Types : g[d][u] = IF s.worn[d][u].num = num THEN Free ELSE s.worn[d][u]
    BY <1>3, <1>8 DEF Freed
  <2> QED
    BY <1>3, <2>2, <2>3, <2>4
<1>10. SessionOK(s2)
  <2>1. DOMAIN f \subseteq Nums /\ f \in [DOMAIN f -> Things]
    BY <1>3, <1>4, <1>5, <1>7 DEF SessionOK
  <2>2. \A d \in Chars, u \in Types : g[d][u].num \notin DOMAIN f
    <3>1. 0 \notin DOMAIN f
      BY <2>1, Numbered
    <3> QED
      BY <1>4, <1>7, <1>9, <3>1 DEF SessionOK
  <2>3. \A d \in Chars, u \in Types : g[d][u].num # 0 =>
       TypeOf[g[d][u].id] = u /\ Lay(g[d][u]) \in Things
    BY <1>4, <1>9 DEF SessionOK
  <2>4. \A d, e \in Chars, x, y \in Types :
       g[d][x].num # 0 /\ g[d][x].num = g[e][y].num => d = e /\ x = y
    <3> TAKE d, e \in Chars, x, y \in Types
    <3> HAVE g[d][x].num # 0 /\ g[d][x].num = g[e][y].num
    <3>1. g[d][x] = s.worn[d][x] /\ g[e][y] = s.worn[e][y]
      BY <1>9
    <3> QED
      BY <1>4, <3>1 DEF SessionOK
  <2>5. s2.replaced \subseteq Nums /\ s2.drifted = TRUE
    BY <1>3, <1>4, <1>5 DEF SessionOK
  <2>6. s2.drifted \in BOOLEAN /\ (s2.drifted \/ (s2.replaced = {} /\ Bare(s2)))
    BY <2>5
  <2> QED
    BY <1>6, <1>8, <1>9, <2>1, <2>2, <2>3, <2>4, <2>5, <2>6 DEF SessionOK
<1>11. AgreeOutside(s, s2, {num})
  <2>1. \A d \in Chars, u \in Types :
       /\ s.worn[d][u].num \notin {num} \cup {0} => g[d][u] = s.worn[d][u]
       /\ g[d][u].num \notin {num} \cup {0} => g[d][u] = s.worn[d][u]
    BY <1>9
  <2> QED
    BY <1>3, <1>6, <1>7, <1>8, <2>1 DEF AgreeOutside
<1>12. PICK rs2 : rs2 = Applied(rs, w)
  OBVIOUS
<1>13. rs2 = [k \in DOMAIN rs |->
                IF rs[k].num = num THEN [num |-> rs[k].num, id |-> id, n |-> 0, at |-> rs[k].at] ELSE rs[k]]
  BY <1>3, <1>12, AppliedReplace
<1>14. \A k \in DOMAIN rs : rs[k].num # num => rs2[k] = rs[k]
  BY <1>13
<1>15. ASSUME NEW k \in DOMAIN rs, rs[k].num = num
       PROVE  rs2[k] \in RowSet /\ rs2[k].num = num /\ Describes(rs2[k], s2)
  <2>1. PICK r : r = rs[k]
    OBVIOUS
  <2>2. r \in RowSet /\ r.num = num
    BY <1>4, <1>15, <2>1
  <2>3. rs2[k] = [num |-> num, id |-> id, n |-> 0, at |-> r.at]
    BY <1>13, <1>15, <2>1
  <2>4. rs2[k] \in RowSet
    BY <1>3, <1>5, <2>2, <2>3, RowFacts, RowIs
  <2>5. Describes(rs2[k], s2)
    BY <1>3, <1>6, <1>7, <2>3 DEF Describes
  <2> QED
    BY <2>3, <2>4, <2>5
<1>16. rs2 = [k \in DOMAIN rs |-> rs2[k]]
  BY <1>13
<1>17. Linked(rs2, s2)
  <2>1. \A k \in DOMAIN rs : rs2[k] \in RowSet /\ rs2[k].num = rs[k].num
    BY <1>4, <1>14, <1>15
  <2>2. \A k \in DOMAIN rs : rs[k].num \notin {num} => rs2[k] = rs[k]
    BY <1>14
  <2>3. \A k \in DOMAIN rs : rs[k].num \in {num} => Describes(rs2[k], s2)
    BY <1>15
  <2>4. \A m \in {num} \cap DOMAIN s2.items : HasRow(rs, m)
    BY <1>4
  <2>5. \A d \in Chars, u \in Types : s2.worn[d][u].num \in {num} \ {0} => HasRow(rs, s2.worn[d][u].num)
    BY <1>4
  <2> QED
    BY <1>10, <1>11, <1>16, <2>1, <2>2, <2>3, <2>4, <2>5, Rewritten
<1>18. w \in Writes
  BY <1>3, <1>5 DEF Writes
<1> QED
  BY <1>3, <1>12, <1>17, <1>18 DEF Moved

LEMMA TakesOffKeeps ==
  ASSUME NEW rs, NEW s, Linked(rs, s), NEW s2, NEW w, TakesOff(s, s2, w)
  PROVE  Moved(rs, s, s2, w)
<1>1. PICK c \in Chars, t \in Types :
        LET old == s.worn[c][t] IN
        /\ old.num # 0
        /\ s2.items = With(s.items, old.num, Lay(old))
        /\ s2.worn = [s.worn EXCEPT ![c][t] = Free] /\ SameHistory(s, s2)
        /\ w = UnequipRow(old.num)
  BY DEF TakesOff
<1>2. PICK num, i : num = s.worn[c][t].num /\ i = Lay(s.worn[c][t])
  OBVIOUS
<1>3. /\ num # 0
      /\ s2.items = With(s.items, num, i)
      /\ s2.worn = [s.worn EXCEPT ![c][t] = Free] /\ SameHistory(s, s2)
      /\ w = UnequipRow(num)
  BY <1>1, <1>2
<1>4. /\ SessionOK(s) /\ rs \in Seq(RowSet) /\ HasRow(rs, num)
      /\ \A k \in DOMAIN rs : rs[k] \in RowSet
  BY <1>2, <1>3 DEF Linked
<1>5. /\ num \in Nums /\ num \notin DOMAIN s.items /\ i \in Things
      /\ i = Item(s.worn[c][t].id, s.worn[c][t].n)
  <2>0. SessionOK(s)
    BY <1>4
  <2>1. s.worn[c][t].num # 0
    BY <1>2, <1>3
  <2>2. /\ s.worn[c][t].num \in Nums /\ s.worn[c][t].num \notin DOMAIN s.items
        /\ Lay(s.worn[c][t]) \in Things
        /\ Lay(s.worn[c][t]) = Item(s.worn[c][t].id, s.worn[c][t].n)
    BY <2>0, <2>1 DEF SessionOK, Slots, Free, Lay
  <2> QED
    BY <1>2, <2>2
<1>6. PICK f : f = s2.items
  OBVIOUS
<1>7. /\ DOMAIN f = DOMAIN s.items \cup {num}
      /\ f[num] = i
      /\ \A k \in DOMAIN s.items : f[k] = s.items[k]
      /\ f = [k \in DOMAIN f |-> f[k]]
  BY <1>3, <1>5, <1>6 DEF With
<1>8. PICK g : g = s2.worn
  OBVIOUS
<1>9. /\ g \in [Chars -> [Types -> Slots]] /\ g[c][t].num = 0
      /\ \A d \in Chars, u \in Types : d # c \/ u # t => g[d][u] = s.worn[d][u]
  <2>1. s.worn \in [Chars -> [Types -> Slots]]
    BY <1>4 DEF SessionOK
  <2>2. Free \in Slots /\ Free.num = 0
    BY DEF Slots, Free
  <2>3. g = [s.worn EXCEPT ![c][t] = Free]
    BY <1>3, <1>8
  <2> QED
    BY <2>1, <2>2, <2>3
<1>10. \A d \in Chars, u \in Types : g[d][u].num # num
  <2> TAKE d \in Chars, u \in Types
  <2>1. CASE d = c /\ u = t
    BY <1>3, <1>9, <2>1
  <2>2. CASE d # c \/ u # t
    <3>1. g[d][u] = s.worn[d][u]
      BY <1>9, <2>2
    <3> QED
      BY <1>2, <1>3, <1>4, <2>2, <3>1 DEF SessionOK
  <2> QED
    BY <2>1, <2>2
<1>11. SessionOK(s2)
  <2>1. DOMAIN f \subseteq Nums /\ f \in [DOMAIN f -> Things]
    BY <1>4, <1>5, <1>7 DEF SessionOK
  <2>2. \A d \in Chars, u \in Types : g[d][u].num \notin DOMAIN f
    <3> TAKE d \in Chars, u \in Types
    <3>1. 0 \notin DOMAIN f
      BY <2>1, Numbered
    <3>2. g[d][u] = s.worn[d][u] \/ g[d][u].num = 0
      BY <1>9
    <3> QED
      BY <1>4, <1>7, <1>10, <3>1, <3>2 DEF SessionOK
  <2>3. \A d \in Chars, u \in Types : g[d][u].num # 0 =>
       TypeOf[g[d][u].id] = u /\ Lay(g[d][u]) \in Things
    <3> TAKE d \in Chars, u \in Types
    <3>1. g[d][u] = s.worn[d][u] \/ g[d][u].num = 0
      BY <1>9
    <3> QED
      BY <1>4, <3>1 DEF SessionOK
  <2>4. \A d, e \in Chars, x, y \in Types :
       g[d][x].num # 0 /\ g[d][x].num = g[e][y].num => d = e /\ x = y
    <3> TAKE d, e \in Chars, x, y \in Types
    <3> HAVE g[d][x].num # 0 /\ g[d][x].num = g[e][y].num
    <3>1. g[d][x] = s.worn[d][x] /\ g[e][y] = s.worn[e][y]
      BY <1>9
    <3> QED
      BY <1>4, <3>1 DEF SessionOK
  <2>5. s2.drifted \/ (s2.replaced = {} /\ Bare(s2))
    <3>1. s.drifted \/ (s.replaced = {} /\ Bare(s))
      BY <1>4 DEF SessionOK
    <3>2. Bare(s) => Bare(s2)
      BY <1>8, <1>9, PartsAssumption, TypeAssumption DEF Bare
    <3> QED
      BY <1>3, <3>1, <3>2 DEF SameHistory
  <2>6. s2.replaced \subseteq Nums /\ s2.drifted \in BOOLEAN
    BY <1>3, <1>4 DEF SessionOK, SameHistory
  <2> QED
    BY <1>6, <1>8, <1>9, <2>1, <2>2, <2>3, <2>4, <2>5, <2>6 DEF SessionOK
<1>12. AgreeOutside(s, s2, {num})
  <2>1. \A d \in Chars, u \in Types :
       /\ s.worn[d][u].num \notin {num} \cup {0} => g[d][u] = s.worn[d][u]
       /\ g[d][u].num \notin {num} \cup {0} => g[d][u] = s.worn[d][u]
    BY <1>2, <1>9
  <2> QED
    BY <1>3, <1>6, <1>7, <1>8, <2>1 DEF AgreeOutside, SameHistory
<1>13. PICK rs2 : rs2 = Applied(rs, w)
  OBVIOUS
<1>14. rs2 = [k \in DOMAIN rs |-> IF rs[k].num = num THEN [rs[k] EXCEPT !.at = NoChar] ELSE rs[k]]
  <2>1. Applied(rs, UnequipRow(num)) = Placed(rs, num, NoChar)
    BY AppliedEquip
  <2> QED
    BY <1>3, <1>13, <2>1, PlacedIs
<1>15. \A k \in DOMAIN rs : rs[k].num # num => rs2[k] = rs[k]
  BY <1>14
<1>16. ASSUME NEW k \in DOMAIN rs, rs[k].num = num
       PROVE  rs2[k] \in RowSet /\ rs2[k].num = num /\ Describes(rs2[k], s2)
  <2>1. PICK r : r = rs[k]
    OBVIOUS
  <2>2. r \in RowSet /\ r.num = num /\ s.worn[c][t].id = r.id /\ s.worn[c][t].n = r.n
    BY <1>2, <1>3, <1>4, <1>16, <2>1, WornRow
  <2>3. rs2[k] = [r EXCEPT !.at = NoChar]
    BY <1>14, <1>16, <2>1
  <2>4. rs2[k] = [num |-> num, id |-> r.id, n |-> r.n, at |-> NoChar]
    BY <2>2, <2>3, RowChanges
  <2>5. rs2[k] \in RowSet
    BY <1>5, <2>2, <2>4, RowFacts, RowIs, CharAssumption
  <2>6. Describes(rs2[k], s2)
    BY <1>5, <1>6, <1>7, <2>2, <2>4 DEF Describes
  <2> QED
    BY <2>4, <2>5, <2>6
<1>17. rs2 = [k \in DOMAIN rs |-> rs2[k]]
  BY <1>14
<1>18. Linked(rs2, s2)
  <2>1. \A k \in DOMAIN rs : rs2[k] \in RowSet /\ rs2[k].num = rs[k].num
    BY <1>4, <1>15, <1>16
  <2>2. \A k \in DOMAIN rs : rs[k].num \notin {num} => rs2[k] = rs[k]
    BY <1>15
  <2>3. \A k \in DOMAIN rs : rs[k].num \in {num} => Describes(rs2[k], s2)
    BY <1>16
  <2>4. \A m \in {num} \cap DOMAIN s2.items : HasRow(rs, m)
    BY <1>4
  <2>5. \A d \in Chars, u \in Types : s2.worn[d][u].num \in {num} \ {0} => HasRow(rs, s2.worn[d][u].num)
    BY <1>4
  <2> QED
    BY <1>11, <1>12, <1>17, <2>1, <2>2, <2>3, <2>4, <2>5, Rewritten
<1>19. w \in Writes
  BY <1>3, <1>5 DEF Writes
<1> QED
  BY <1>3, <1>13, <1>18, <1>19 DEF Moved, SameHistory

\* What a character puts on goes with what it wears.
LEMMA StillBare ==
  ASSUME NEW s, Bare(s), NEW c \in Chars, NEW t \in Types, HasRoom(s, c, t), NEW s2,
         \A d \in Chars, u \in Types : d # c \/ u # t => s2.worn[d][u] = s.worn[d][u]
  PROVE  Bare(s2)
<1> SUFFICES ASSUME NEW d \in Chars, NEW p \in SetParts
             PROVE  s2.worn[d][SetType].num = 0 \/ s2.worn[d][p].num = 0
  BY DEF Bare
<1>1. p \in Types /\ p # SetType /\ SetType \in Types
  BY PartsAssumption, TypeAssumption
<1>2. s.worn[d][SetType].num = 0 \/ s.worn[d][p].num = 0
  BY DEF Bare
<1>3. CASE d # c \/ (t # SetType /\ t # p)
  BY <1>1, <1>2, <1>3
<1>4. CASE d = c /\ t = SetType
  <2>1. s.worn[d][p].num = 0
    BY <1>4 DEF HasRoom
  <2> QED
    BY <1>1, <1>4, <2>1
<1>5. CASE d = c /\ t = p
  <2>1. s.worn[d][SetType].num = 0
    BY <1>5 DEF HasRoom
  <2> QED
    BY <1>1, <1>5, <2>1
<1> QED
  BY <1>3, <1>4, <1>5

LEMMA PutsOnKeeps ==
  ASSUME NEW rs, NEW s, Linked(rs, s), NEW s2, NEW w, PutsOn(s, s2, w)
  PROVE  Moved(rs, s, s2, w)
<1>1. PICK c \in Chars, num \in DOMAIN s.items :
        LET i == s.items[num]
            t == TypeOf[i.id]
            old == s.worn[c][t]
        IN /\ t \in Types /\ HasRoom(s, c, t) /\ old.num = 0
           /\ s2.items = Without(s.items, {num})
           /\ s2.worn = [s.worn EXCEPT ![c][t] = Wear(num, i)] /\ SameHistory(s, s2)
           /\ w = EquipRow(num, c)
  BY DEF PutsOn
<1>2. PICK i, t : i = s.items[num] /\ t = TypeOf[i.id]
  OBVIOUS
<1>3. /\ t \in Types /\ HasRoom(s, c, t) /\ s.worn[c][t].num = 0
      /\ s2.items = Without(s.items, {num})
      /\ s2.worn = [s.worn EXCEPT ![c][t] = Wear(num, i)] /\ SameHistory(s, s2)
      /\ w = EquipRow(num, c)
  BY <1>1, <1>2
<1>4. /\ SessionOK(s) /\ rs \in Seq(RowSet) /\ HasRow(rs, num)
      /\ \A k \in DOMAIN rs : rs[k] \in RowSet
  BY <1>1 DEF Linked
<1>5. num \in Nums /\ num # 0 /\ i \in Things
  BY <1>2, <1>4, Numbered DEF SessionOK
<1>6. PICK v : v = [num |-> num, id |-> i.id, n |-> i.n]
  OBVIOUS
<1>7. /\ Wear(num, i) = v /\ Lay(v) \in Things
      /\ v \in Slots /\ v.num = num /\ v.id = i.id
  <2>1. i.id \in Ids /\ i.n \in Amounts /\ i = Item(i.id, i.n)
    BY <1>5, ThingFacts
  <2>2. Lay(v) = Item(i.id, i.n)
    BY <1>6 DEF Lay
  <2> QED
    BY <1>5, <1>6, <2>1, <2>2 DEF Wear, Slots
<1>8. PICK f : f = s2.items
  OBVIOUS
<1>9. /\ DOMAIN f = DOMAIN s.items \ {num}
      /\ \A k \in DOMAIN f : f[k] = s.items[k]
      /\ f = [k \in DOMAIN f |-> f[k]]
  BY <1>3, <1>8 DEF Without
<1>10. PICK g : g = s2.worn
  OBVIOUS
<1>11. /\ g \in [Chars -> [Types -> Slots]] /\ g[c][t] = v
       /\ \A d \in Chars, u \in Types : d # c \/ u # t => g[d][u] = s.worn[d][u]
  <2>1. s.worn \in [Chars -> [Types -> Slots]]
    BY <1>4 DEF SessionOK
  <2>2. g = [s.worn EXCEPT ![c][t] = v]
    BY <1>3, <1>7, <1>10
  <2> QED
    BY <1>3, <1>7, <2>1, <2>2
<1>12. \A d \in Chars, u \in Types : s.worn[d][u].num # num
  BY <1>4 DEF SessionOK
<1>13. SessionOK(s2)
  <2>1. DOMAIN f \subseteq Nums /\ f \in [DOMAIN f -> Things]
    BY <1>4, <1>9 DEF SessionOK
  <2>2. \A d \in Chars, u \in Types : g[d][u].num \notin DOMAIN f
    <3> TAKE d \in Chars, u \in Types
    <3>1. g[d][u] = s.worn[d][u] \/ g[d][u] = v
      BY <1>11
    <3> QED
      BY <1>4, <1>7, <1>9, <3>1 DEF SessionOK
  <2>3. \A d \in Chars, u \in Types : g[d][u].num # 0 =>
       TypeOf[g[d][u].id] = u /\ Lay(g[d][u]) \in Things
    <3> TAKE d \in Chars, u \in Types
    <3>1. CASE d = c /\ u = t
      BY <1>2, <1>7, <1>11, <3>1
    <3>2. CASE d # c \/ u # t
      BY <1>4, <1>11, <3>2 DEF SessionOK
    <3> QED
      BY <3>1, <3>2
  <2>4. \A d, e \in Chars, x, y \in Types :
       g[d][x].num # 0 /\ g[d][x].num = g[e][y].num => d = e /\ x = y
    <3> TAKE d, e \in Chars, x, y \in Types
    <3> HAVE g[d][x].num # 0 /\ g[d][x].num = g[e][y].num
    <3>1. CASE d = c /\ x = t
      BY <1>7, <1>11, <1>12, <3>1
    <3>2. CASE e = c /\ y = t
      BY <1>7, <1>11, <1>12, <3>2
    <3>3. CASE (d # c \/ x # t) /\ (e # c \/ y # t)
      <4>1. g[d][x] = s.worn[d][x] /\ g[e][y] = s.worn[e][y]
        BY <1>11, <3>3
      <4> QED
        BY <1>4, <4>1 DEF SessionOK
    <3> QED
      BY <3>1, <3>2, <3>3
  <2>5. s2.drifted \/ (s2.replaced = {} /\ Bare(s2))
    <3>1. s.drifted \/ (s.replaced = {} /\ Bare(s))
      BY <1>4 DEF SessionOK
    <3>2. Bare(s) => Bare(s2)
      BY <1>3, <1>10, <1>11, StillBare
    <3> QED
      BY <1>3, <3>1, <3>2 DEF SameHistory
  <2>6. s2.replaced \subseteq Nums /\ s2.drifted \in BOOLEAN
    BY <1>3, <1>4 DEF SessionOK, SameHistory
  <2> QED
    BY <1>8, <1>10, <1>11, <2>1, <2>2, <2>3, <2>4, <2>5, <2>6 DEF SessionOK
<1>14. AgreeOutside(s, s2, {num})
  <2>1. \A d \in Chars, u \in Types :
       /\ s.worn[d][u].num \notin {num} \cup {0} => g[d][u] = s.worn[d][u]
       /\ g[d][u].num \notin {num} \cup {0} => g[d][u] = s.worn[d][u]
    BY <1>3, <1>7, <1>11
  <2> QED
    BY <1>3, <1>8, <1>9, <1>10, <2>1 DEF AgreeOutside, SameHistory
<1>15. PICK rs2 : rs2 = Applied(rs, w)
  OBVIOUS
<1>16. rs2 = [k \in DOMAIN rs |-> IF rs[k].num = num THEN [rs[k] EXCEPT !.at = c] ELSE rs[k]]
  <2>1. Applied(rs, EquipRow(num, c)) = Placed(rs, num, c)
    BY AppliedEquip
  <2> QED
    BY <1>3, <1>15, <2>1, PlacedIs
<1>17. \A k \in DOMAIN rs : rs[k].num # num => rs2[k] = rs[k]
  BY <1>16
<1>18. ASSUME NEW k \in DOMAIN rs, rs[k].num = num
       PROVE  rs2[k] \in RowSet /\ rs2[k].num = num /\ Describes(rs2[k], s2)
  <2>1. PICK r : r = rs[k]
    OBVIOUS
  <2>2. r \in RowSet /\ r.num = num /\ i.id = r.id /\ i.n = r.n
    BY <1>1, <1>2, <1>4, <1>18, <2>1, LyingRow
  <2>3. rs2[k] = [r EXCEPT !.at = c]
    BY <1>16, <1>18, <2>1
  <2>4. rs2[k] = [num |-> num, id |-> r.id, n |-> r.n, at |-> c]
    BY <2>2, <2>3, RowChanges
  <2>5. rs2[k] \in RowSet
    <3>1. Item(r.id, r.n) \in Things /\ TypeOf[r.id] \in Types
      BY <1>2, <1>3, <2>2, RowFacts
    <3> QED
      BY <1>5, <2>4, <3>1, RowIs
  <2>6. Describes(rs2[k], s2)
    <3>1. s2.worn[c][t] = [num |-> rs2[k].num, id |-> rs2[k].id, n |-> rs2[k].n]
      BY <1>6, <1>10, <1>11, <2>2, <2>4
    <3> QED
      BY <1>3, <2>4, <3>1 DEF Describes
  <2> QED
    BY <2>4, <2>5, <2>6
<1>19. rs2 = [k \in DOMAIN rs |-> rs2[k]]
  BY <1>16
<1>20. Linked(rs2, s2)
  <2>1. \A k \in DOMAIN rs : rs2[k] \in RowSet /\ rs2[k].num = rs[k].num
    BY <1>4, <1>17, <1>18
  <2>2. \A k \in DOMAIN rs : rs[k].num \notin {num} => rs2[k] = rs[k]
    BY <1>17
  <2>3. \A k \in DOMAIN rs : rs[k].num \in {num} => Describes(rs2[k], s2)
    BY <1>18
  <2>4. \A m \in {num} \cap DOMAIN s2.items : HasRow(rs, m)
    BY <1>4
  <2>5. \A d \in Chars, u \in Types : s2.worn[d][u].num \in {num} \ {0} => HasRow(rs, s2.worn[d][u].num)
    BY <1>4
  <2> QED
    BY <1>13, <1>14, <1>19, <2>1, <2>2, <2>3, <2>4, <2>5, Rewritten
<1>21. w \in Writes
  BY <1>3, <1>5 DEF Writes
<1> QED
  BY <1>3, <1>15, <1>20, <1>21 DEF Moved, SameHistory

LEMMA SwapsKeeps ==
  ASSUME NEW rs, NEW s, Linked(rs, s), NEW s2, NEW w, Swaps(s, s2, w)
  PROVE  Moved(rs, s, s2, w)
<1>1. PICK c \in Chars, num \in DOMAIN s.items :
        LET i == s.items[num]
            t == TypeOf[i.id]
            old == s.worn[c][t]
        IN /\ t \in Types /\ HasRoom(s, c, t) /\ old.num # 0
           /\ s2.items = With(Without(s.items, {num}), old.num, Lay(old))
           /\ s2.worn = [s.worn EXCEPT ![c][t] = Wear(num, i)] /\ SameHistory(s, s2)
           /\ w = SwapRows(old.num, num, c)
  BY DEF Swaps
<1>2. PICK i, t : i = s.items[num] /\ t = TypeOf[i.id]
  OBVIOUS
<1>3. PICK off, j : off = s.worn[c][t].num /\ j = Lay(s.worn[c][t])
  OBVIOUS
<1>4. /\ t \in Types /\ HasRoom(s, c, t) /\ off # 0
      /\ s2.items = With(Without(s.items, {num}), off, j)
      /\ s2.worn = [s.worn EXCEPT ![c][t] = Wear(num, i)] /\ SameHistory(s, s2)
      /\ w = SwapRows(off, num, c)
  BY <1>1, <1>2, <1>3
<1>5. /\ SessionOK(s) /\ rs \in Seq(RowSet) /\ HasRow(rs, num) /\ HasRow(rs, off)
      /\ \A k \in DOMAIN rs : rs[k] \in RowSet
  <2>1. SessionOK(s) /\ rs \in Seq(RowSet) /\ HasRow(rs, num)
    BY DEF Linked
  <2>2. HasRow(rs, off)
    BY <1>3, <1>4 DEF Linked
  <2> QED
    BY <2>1, <2>2
<1>6. num \in Nums /\ num # 0 /\ i \in Things
  BY <1>2, <1>5, Numbered DEF SessionOK
<1>7. /\ off \in Nums /\ off \notin DOMAIN s.items /\ j \in Things
      /\ j = Item(s.worn[c][t].id, s.worn[c][t].n)
  <2>1. SessionOK(s)
    BY <1>5
  <2>2. s.worn[c][t].num # 0
    BY <1>3, <1>4
  <2>3. /\ s.worn[c][t].num \in Nums /\ s.worn[c][t].num \notin DOMAIN s.items
        /\ Lay(s.worn[c][t]) \in Things
        /\ Lay(s.worn[c][t]) = Item(s.worn[c][t].id, s.worn[c][t].n)
    BY <1>4, <2>1, <2>2 DEF SessionOK, Slots, Free, Lay
  <2> QED
    BY <1>3, <2>3
<1>8. num # off
  BY <1>7
<1>9. PICK v : v = [num |-> num, id |-> i.id, n |-> i.n]
  OBVIOUS
<1>10. /\ Wear(num, i) = v /\ Lay(v) \in Things
       /\ v \in Slots /\ v.num = num /\ v.id = i.id
  <2>1. i.id \in Ids /\ i.n \in Amounts /\ i = Item(i.id, i.n)
    BY <1>6, ThingFacts
  <2>2. Lay(v) = Item(i.id, i.n)
    BY <1>9 DEF Lay
  <2> QED
    BY <1>6, <1>9, <2>1, <2>2 DEF Wear, Slots
<1>11. PICK f : f = s2.items
  OBVIOUS
<1>12. /\ DOMAIN f = (DOMAIN s.items \ {num}) \cup {off}
       /\ f[off] = j
       /\ \A k \in DOMAIN s.items : k # num => f[k] = s.items[k]
       /\ f = [k \in DOMAIN f |-> f[k]]
  <2>1. PICK e : e = Without(s.items, {num})
    OBVIOUS
  <2>2. DOMAIN e = DOMAIN s.items \ {num} /\ \A k \in DOMAIN e : e[k] = s.items[k]
    BY <2>1 DEF Without
  <2>3. f = With(e, off, j)
    BY <1>4, <1>11, <2>1
  <2> QED
    BY <1>7, <2>2, <2>3 DEF With
<1>13. PICK g : g = s2.worn
  OBVIOUS
<1>14. /\ g \in [Chars -> [Types -> Slots]] /\ g[c][t] = v
       /\ \A d \in Chars, u \in Types : d # c \/ u # t => g[d][u] = s.worn[d][u]
  <2>1. s.worn \in [Chars -> [Types -> Slots]]
    BY <1>5 DEF SessionOK
  <2>2. g = [s.worn EXCEPT ![c][t] = v]
    BY <1>4, <1>10, <1>13
  <2> QED
    BY <1>4, <1>10, <2>1, <2>2
<1>15. \A d \in Chars, u \in Types : s.worn[d][u].num # num
  BY <1>5 DEF SessionOK
<1>16. \A d \in Chars, u \in Types : d # c \/ u # t => s.worn[d][u].num # off
  BY <1>3, <1>4, <1>5 DEF SessionOK
<1>17. SessionOK(s2)
  <2>1. DOMAIN f \subseteq Nums /\ f \in [DOMAIN f -> Things]
    BY <1>5, <1>7, <1>12 DEF SessionOK
  <2>2. \A d \in Chars, u \in Types : g[d][u].num \notin DOMAIN f
    <3> TAKE d \in Chars, u \in Types
    <3>1. CASE d = c /\ u = t
      BY <1>8, <1>10, <1>12, <1>14, <3>1
    <3>2. CASE d # c \/ u # t
      BY <1>5, <1>12, <1>14, <1>16, <3>2 DEF SessionOK
    <3> QED
      BY <3>1, <3>2
  <2>3. \A d \in Chars, u \in Types : g[d][u].num # 0 =>
       TypeOf[g[d][u].id] = u /\ Lay(g[d][u]) \in Things
    <3> TAKE d \in Chars, u \in Types
    <3>1. CASE d = c /\ u = t
      BY <1>2, <1>10, <1>14, <3>1
    <3>2. CASE d # c \/ u # t
      BY <1>5, <1>14, <3>2 DEF SessionOK
    <3> QED
      BY <3>1, <3>2
  <2>4. \A d, e \in Chars, x, y \in Types :
       g[d][x].num # 0 /\ g[d][x].num = g[e][y].num => d = e /\ x = y
    <3> TAKE d, e \in Chars, x, y \in Types
    <3> HAVE g[d][x].num # 0 /\ g[d][x].num = g[e][y].num
    <3>1. CASE d = c /\ x = t
      BY <1>10, <1>14, <1>15, <3>1
    <3>2. CASE e = c /\ y = t
      BY <1>10, <1>14, <1>15, <3>2
    <3>3. CASE (d # c \/ x # t) /\ (e # c \/ y # t)
      <4>1. g[d][x] = s.worn[d][x] /\ g[e][y] = s.worn[e][y]
        BY <1>14, <3>3
      <4> QED
        BY <1>5, <4>1 DEF SessionOK
    <3> QED
      BY <3>1, <3>2, <3>3
  <2>5. s2.drifted \/ (s2.replaced = {} /\ Bare(s2))
    <3>1. s.drifted \/ (s.replaced = {} /\ Bare(s))
      BY <1>5 DEF SessionOK
    <3>2. Bare(s) => Bare(s2)
      BY <1>4, <1>13, <1>14, StillBare
    <3> QED
      BY <1>4, <3>1, <3>2 DEF SameHistory
  <2>6. s2.replaced \subseteq Nums /\ s2.drifted \in BOOLEAN
    BY <1>4, <1>5 DEF SessionOK, SameHistory
  <2> QED
    BY <1>11, <1>13, <1>14, <2>1, <2>2, <2>3, <2>4, <2>5, <2>6 DEF SessionOK
<1>18. AgreeOutside(s, s2, {num, off})
  <2>1. \A d \in Chars, u \in Types :
       /\ s.worn[d][u].num \notin {num, off} \cup {0} => g[d][u] = s.worn[d][u]
       /\ g[d][u].num \notin {num, off} \cup {0} => g[d][u] = s.worn[d][u]
    BY <1>3, <1>10, <1>14
  <2> QED
    BY <1>4, <1>11, <1>12, <1>13, <2>1 DEF AgreeOutside, SameHistory
<1>19. PICK rs1 : rs1 = Placed(rs, num, c)
  OBVIOUS
<1>20. PICK rs2 : rs2 = Applied(rs, w)
  OBVIOUS
<1>21. rs1 = [k \in DOMAIN rs |-> IF rs[k].num = num THEN [rs[k] EXCEPT !.at = c] ELSE rs[k]]
  BY <1>19, PlacedIs
<1>22. rs2 = [k \in DOMAIN rs1 |-> IF rs1[k].num = off THEN [rs1[k] EXCEPT !.at = NoChar] ELSE rs1[k]]
  <2>1. Applied(rs, SwapRows(off, num, c)) = Placed(rs1, off, NoChar)
    BY <1>5, <1>19, AppliedSwap
  <2> QED
    BY <1>4, <1>20, <2>1, PlacedIs
<1>23. ASSUME NEW k \in DOMAIN rs
       PROVE  rs2[k] = IF rs[k].num = num
                       THEN [num |-> num, id |-> rs[k].id, n |-> rs[k].n, at |-> c]
                       ELSE IF rs[k].num = off
                       THEN [num |-> off, id |-> rs[k].id, n |-> rs[k].n, at |-> NoChar]
                       ELSE rs[k]
  <2>1. PICK r : r = rs[k]
    OBVIOUS
  <2>2. r \in RowSet /\ k \in DOMAIN rs1
    BY <1>5, <1>21, <2>1
  <2>3. CASE r.num = num
    <3>1. rs1[k] = [r EXCEPT !.at = c]
      BY <1>21, <2>1, <2>3
    <3>2. rs1[k] = [num |-> num, id |-> r.id, n |-> r.n, at |-> c]
      BY <2>2, <2>3, <3>1, RowChanges
    <3>3. rs1[k].num # off
      BY <1>8, <3>2
    <3>4. rs2[k] = rs1[k]
      BY <1>22, <2>2, <3>3
    <3> QED
      BY <2>1, <2>3, <3>2, <3>4
  <2>4. CASE r.num # num
    <3>1. rs1[k] = r
      BY <1>21, <2>1, <2>4
    <3>2. rs2[k] = IF r.num = off THEN [r EXCEPT !.at = NoChar] ELSE r
      BY <1>22, <2>2, <3>1
    <3>3. [r EXCEPT !.at = NoChar] = [num |-> r.num, id |-> r.id, n |-> r.n, at |-> NoChar]
      BY <2>2, RowChanges
    <3> QED
      BY <2>1, <2>4, <3>2, <3>3
  <2> QED
    BY <2>3, <2>4
<1>24. ASSUME NEW k \in DOMAIN rs, rs[k].num = num
       PROVE  rs2[k] \in RowSet /\ rs2[k].num = num /\ Describes(rs2[k], s2)
  <2>1. PICK r : r = rs[k]
    OBVIOUS
  <2>2. r \in RowSet /\ r.num = num /\ i.id = r.id /\ i.n = r.n
    BY <1>2, <1>5, <1>24, <2>1, LyingRow
  <2>3. rs2[k] = [num |-> num, id |-> r.id, n |-> r.n, at |-> c]
    BY <1>23, <1>24, <2>1
  <2>4. rs2[k] \in RowSet
    <3>1. Item(r.id, r.n) \in Things /\ TypeOf[r.id] \in Types
      BY <1>2, <1>4, <2>2, RowFacts
    <3> QED
      BY <1>6, <2>3, <3>1, RowIs
  <2>5. Describes(rs2[k], s2)
    <3>1. s2.worn[c][t] = [num |-> rs2[k].num, id |-> rs2[k].id, n |-> rs2[k].n]
      BY <1>9, <1>13, <1>14, <2>2, <2>3
    <3> QED
      BY <1>4, <2>3, <3>1 DEF Describes
  <2> QED
    BY <2>3, <2>4, <2>5
<1>25. ASSUME NEW k \in DOMAIN rs, rs[k].num = off
       PROVE  rs2[k] \in RowSet /\ rs2[k].num = off /\ Describes(rs2[k], s2)
  <2>1. PICK r : r = rs[k]
    OBVIOUS
  <2>2. r \in RowSet /\ r.num = off /\ s.worn[c][t].id = r.id /\ s.worn[c][t].n = r.n
    BY <1>3, <1>4, <1>5, <1>25, <2>1, WornRow
  <2>3. rs2[k] = [num |-> off, id |-> r.id, n |-> r.n, at |-> NoChar]
    BY <1>8, <1>23, <1>25, <2>1
  <2>4. rs2[k] \in RowSet
    BY <1>7, <2>2, <2>3, RowFacts, RowIs, CharAssumption
  <2>5. Describes(rs2[k], s2)
    BY <1>7, <1>11, <1>12, <2>2, <2>3 DEF Describes
  <2> QED
    BY <2>3, <2>4, <2>5
<1>26. rs2 = [k \in DOMAIN rs |-> rs2[k]]
  BY <1>21, <1>22
<1>27. Linked(rs2, s2)
  <2>1. \A k \in DOMAIN rs : rs2[k] \in RowSet /\ rs2[k].num = rs[k].num
    BY <1>5, <1>23, <1>24, <1>25
  <2>2. \A k \in DOMAIN rs : rs[k].num \notin {num, off} => rs2[k] = rs[k]
    BY <1>23
  <2>3. \A k \in DOMAIN rs : rs[k].num \in {num, off} => Describes(rs2[k], s2)
    BY <1>24, <1>25
  <2>4. \A m \in {num, off} \cap DOMAIN s2.items : HasRow(rs, m)
    BY <1>5
  <2>5. \A d \in Chars, u \in Types : s2.worn[d][u].num \in {num, off} \ {0} => HasRow(rs, s2.worn[d][u].num)
    BY <1>5
  <2> QED
    BY <1>17, <1>18, <1>26, <2>1, <2>2, <2>3, <2>4, <2>5, Rewritten
<1>28. w \in Writes
  BY <1>4, <1>6, <1>7 DEF Writes
<1> QED
  BY <1>4, <1>20, <1>27, <1>28 DEF Moved, SameHistory

LEMMA MoveKeeps ==
  ASSUME NEW rs, NEW s, Linked(rs, s), NEW s2, NEW w, Move(s, s2, w)
  PROVE  Moved(rs, s, s2, w)
BY AddsKeeps, RemovesKeeps, CountsKeeps, CountsWornKeeps, ReplacesKeeps, ReplacesWornKeeps,
   TakesOffKeeps, PutsOnKeeps, SwapsKeeps DEF Move

\* Rows that say what the session says are rows that a login may read.
LEMMA LinkedIsGood ==
  ASSUME NEW rs, NEW s, Linked(rs, s)
  PROVE  GoodRows(rs, s.drifted)
<1>1. SessionOK(s) /\ rs \in Seq(RowSet) /\ Unlike(rs) /\ \A k \in DOMAIN rs : Describes(rs[k], s)
  BY DEF Linked
<1>2. ASSUME ~s.drifted, NEW j \in DOMAIN rs, NEW k \in DOMAIN rs,
             rs[j].at \in Chars, rs[j].at = rs[k].at,
             TypeOf[rs[j].id] = SetType, TypeOf[rs[k].id] \in SetParts
      PROVE  FALSE
  <2>1. s.replaced = {} /\ Bare(s)
    BY <1>1, <1>2 DEF SessionOK
  <2>2. ASSUME NEW l \in DOMAIN rs, rs[l].at \in Chars
        PROVE  /\ TypeOf[rs[l].id] \in Types
               /\ s.worn[rs[l].at][TypeOf[rs[l].id]].num # 0
    <3>1. PICK c \in Chars, t \in Types :
            /\ s.worn[c][t] = [num |-> rs[l].num, id |-> rs[l].id, n |-> rs[l].n]
            /\ rs[l].at = c \/ rs[l].num \in s.replaced
      BY <1>1, <2>1, <2>2, CharAssumption DEF Describes
    <3>2. rs[l].at = c
      BY <2>1, <3>1
    <3>3. rs[l].num \in Nums
      BY <1>1, RowFacts
    <3>4. s.worn[c][t].num # 0 /\ s.worn[c][t].id = rs[l].id
      BY <3>1, <3>3, Numbered
    <3>5. TypeOf[rs[l].id] = t
      BY <1>1, <3>4 DEF SessionOK
    <3> QED
      BY <3>2, <3>4, <3>5
  <2>3. s.worn[rs[j].at][SetType].num # 0 /\ s.worn[rs[j].at][TypeOf[rs[k].id]].num # 0
    BY <1>2, <2>2
  <2> QED
    BY <1>2, <2>1, <2>3 DEF Bare
<1> QED
  BY <1>1, <1>2 DEF GoodRows

-----------------------------------------------------------------------------
(* The writes of one request, one after the other.                          *)

LEMMA GoodLater ==
  ASSUME NEW rs, NEW d, NEW e, GoodRows(rs, d), d => e
  PROVE  GoodRows(rs, e)
BY DEF GoodRows

\* h2 goes on from h, which ends at L, with n writes and moves.
Follows(h2, h, L, n, m, ws) ==
  /\ DOMAIN h2 = 0 .. L + n
  /\ \A k \in 0 .. L : h2[k] = h[k]
  /\ \A k \in 1 .. n : h2[L + k] = Applied(h2[L + k - 1], ws[k])
  /\ \A k \in 0 .. L + n : GoodRows(h2[k], m[n].drifted)
  /\ Linked(h2[L + n], m[n])

LEMMA Chain ==
  ASSUME NEW L \in Nat, NEW h, DOMAIN h = 0 .. L, NEW n \in Nat, NEW m, NEW ws,
         \A k \in 0 .. L : GoodRows(h[k], m[0].drifted),
         Linked(h[L], m[0]),
         \A k \in 1 .. n : Move(m[k - 1], m[k], ws[k])
  PROVE  \E h2 : Follows(h2, h, L, n, m, ws)
<1> DEFINE Goes(h2, j) == Follows(h2, h, L, j, m, ws)
           Stuck == {j \in 0 .. n : ~ \E h2 : Goes(h2, j)}
<1>1. Goes(h, 0)
  BY DEF Follows
<1>2. ASSUME NEW j \in 1 .. n, NEW h2, Goes(h2, j - 1)
      PROVE  \E h3 : Goes(h3, j)
  <2>1. Linked(h2[L + j - 1], m[j - 1])
    <3>1. L + (j - 1) = L + j - 1
      OBVIOUS
    <3> QED
      BY <1>2, <3>1 DEF Follows
  <2>2. PICK last : last = Applied(h2[L + j - 1], ws[j])
    OBVIOUS
  <2>3. Moved(h2[L + j - 1], m[j - 1], m[j], ws[j])
    BY <2>1, MoveKeeps
  <2>4. Linked(last, m[j]) /\ (m[j - 1].drifted => m[j].drifted)
    BY <2>2, <2>3 DEF Moved
  <2>5. GoodRows(last, m[j].drifted)
    BY <2>4, LinkedIsGood
  <2>6. PICK h3 : h3 = [k \in 0 .. L + j |-> IF k = L + j THEN last ELSE h2[k]]
    OBVIOUS
  <2>7. /\ DOMAIN h3 = 0 .. L + j /\ h3[L + j] = last
        /\ \A k \in 0 .. L + j - 1 : h3[k] = h2[k]
    BY <2>6
  <2>8. \A k \in 0 .. L : h3[k] = h[k]
    BY <1>2, <2>7 DEF Follows
  <2>9. \A k \in 1 .. j : h3[L + k] = Applied(h3[L + k - 1], ws[k])
    <3> TAKE k \in 1 .. j
    <3>1. CASE k = j
      BY <2>2, <2>7, <3>1
    <3>2. CASE k # j
      <4>1. k \in 1 .. j - 1 /\ L + k \in 0 .. L + j - 1 /\ L + k - 1 \in 0 .. L + j - 1
        BY <3>2
      <4>2. h2[L + k] = Applied(h2[L + k - 1], ws[k])
        BY <1>2, <4>1 DEF Follows
      <4> QED
        BY <2>7, <4>1, <4>2
    <3> QED
      BY <3>1, <3>2
  <2>10. \A k \in 0 .. L + j : GoodRows(h3[k], m[j].drifted)
    <3> TAKE k \in 0 .. L + j
    <3>1. CASE k = L + j
      BY <2>5, <2>7, <3>1
    <3>2. CASE k # L + j
      <4>1. k \in 0 .. L + j - 1 /\ k \in 0 .. L + (j - 1)
        BY <3>2
      <4>2. GoodRows(h2[k], m[j - 1].drifted)
        BY <1>2, <4>1 DEF Follows
      <4>3. GoodRows(h2[k], m[j].drifted)
        BY <2>4, <4>2, GoodLater
      <4> QED
        BY <2>7, <4>1, <4>3
    <3> QED
      BY <3>1, <3>2
  <2>11. Linked(h3[L + j], m[j])
    BY <2>4, <2>7
  <2> QED
    BY <2>7, <2>8, <2>9, <2>10, <2>11 DEF Follows
<1> HIDE DEF Goes
<1>3. Stuck = {}
  <2>1. SUFFICES ASSUME Stuck # {} PROVE FALSE
    OBVIOUS
  <2>2. Stuck \in SUBSET Nat
    OBVIOUS
  <2>3. PICK j \in Stuck : \A k \in Stuck : j <= k
    <3> HIDE DEF Stuck
    <3> QED
      BY <2>1, <2>2, LeastNatural
  <2>4. j # 0
    BY <1>1
  <2>5. j \in 1 .. n /\ j - 1 \in 0 .. n /\ j - 1 \notin Stuck
    BY <2>2, <2>3, <2>4
  <2>6. PICK h2 : Goes(h2, j - 1)
    BY <2>5
  <2> QED
    BY <1>2, <2>3, <2>5, <2>6
<1>4. n \in 0 .. n
  OBVIOUS
<1>5. PICK h2 : Goes(h2, n)
  BY <1>3, <1>4
<1> QED
  BY <1>5 DEF Goes

\* A request whose writes follow the moves of the session.
LEMMA RequestKeeps ==
  ASSUME queue \in Seq(Writes), History, online, online' = online, rows' = rows,
         NEW ws \in Seq(Writes), queue' = queue \o ws,
         NEW m, m[0] = Session, m[Len(ws)] = Session',
         \A k \in 1 .. Len(ws) : Move(m[k - 1], m[k], ws[k])
  PROVE  queue' \in Seq(Writes) /\ History'
<1>1. PICK h : /\ Run(h, rows, queue)
               /\ \A k \in 0 .. Len(queue) : GoodRows(h[k], drifted)
               /\ Linked(h[Len(queue)], Session)
  BY DEF History
<1>2. PICK L, n : L = Len(queue) /\ n = Len(ws)
  OBVIOUS
<1>3. L \in Nat /\ n \in Nat
  BY <1>2, LenProperties
<1>4. PICK q : q = queue \o ws
  OBVIOUS
<1>5. /\ q \in Seq(Writes) /\ Len(q) = L + n
      /\ \A i \in 1 .. L + n : q[i] = IF i <= L THEN queue[i] ELSE ws[i - L]
  BY <1>2, <1>4, ConcatProperties
<1>6. DOMAIN h = 0 .. L /\ h[0] = rows /\ \A k \in 1 .. L : h[k] = Applied(h[k - 1], queue[k])
  BY <1>1, <1>2 DEF Run
<1>7. \E h2 : Follows(h2, h, L, n, m, ws)
  <2>1. m[0].drifted = drifted
    BY DEF Session
  <2>2. \A k \in 0 .. L : GoodRows(h[k], m[0].drifted)
    BY <1>1, <1>2, <2>1
  <2>3. Linked(h[L], m[0])
    BY <1>1, <1>2
  <2>4. \A k \in 1 .. n : Move(m[k - 1], m[k], ws[k])
    BY <1>2
  <2>5. L \in Nat /\ n \in Nat /\ DOMAIN h = 0 .. L
    BY <1>3, <1>6
  <2> QED
    BY <2>2, <2>3, <2>4, <2>5, Chain
<1>8. PICK h2 : /\ DOMAIN h2 = 0 .. L + n
                /\ \A k \in 0 .. L : h2[k] = h[k]
                /\ \A k \in 1 .. n : h2[L + k] = Applied(h2[L + k - 1], ws[k])
                /\ \A k \in 0 .. L + n : GoodRows(h2[k], m[n].drifted)
                /\ Linked(h2[L + n], m[n])
  BY <1>7 DEF Follows
<1>9. \A k \in 1 .. L + n : h2[k] = Applied(h2[k - 1], q[k])
  <2> TAKE k \in 1 .. L + n
  <2>1. CASE k <= L
    <3>1. k \in 1 .. L /\ k \in 0 .. L /\ k - 1 \in 0 .. L
      BY <1>3, <2>1
    <3>2. h2[k] = h[k] /\ h2[k - 1] = h[k - 1]
      BY <1>8, <3>1
    <3>3. h[k] = Applied(h[k - 1], queue[k])
      BY <1>6, <3>1
    <3>4. q[k] = queue[k]
      BY <1>5, <2>1
    <3> QED
      BY <3>2, <3>3, <3>4
  <2>2. CASE ~(k <= L)
    <3>1. PICK j \in 1 .. n : k = L + j
      <4>1. k - L \in 1 .. n /\ k = L + (k - L)
        BY <1>3, <2>2
      <4> QED
        BY <4>1
    <3>2. h2[L + j] = Applied(h2[L + j - 1], ws[j])
      BY <1>8
    <3>3. q[k] = ws[j]
      <4>1. k - L = j
        BY <1>3, <3>1
      <4> QED
        BY <1>5, <2>2, <4>1
    <3>4. k - 1 = L + j - 1
      BY <1>3, <3>1
    <3>5. h2[k] = h2[L + j] /\ h2[k - 1] = h2[L + j - 1]
      BY <3>1, <3>4
    <3> QED
      BY <3>2, <3>3, <3>5
  <2> QED
    BY <2>1, <2>2
<1>10. h2[0] = rows
  BY <1>3, <1>6, <1>8
<1>11. m[n] = Session' /\ m[n].drifted = drifted'
  BY <1>2 DEF Session
<1>12. Run(h2, rows, q)
  BY <1>5, <1>8, <1>9, <1>10 DEF Run
<1>13. queue' = q
  BY <1>4
<1>14. Run(h2, rows', queue')
  BY <1>12, <1>13
<1>15. \A k \in 0 .. Len(queue') : GoodRows(h2[k], drifted')
  BY <1>5, <1>8, <1>11, <1>13
<1>16. Linked(h2[Len(queue')], Session')
  BY <1>5, <1>8, <1>11, <1>13
<1> QED
  BY <1>5, <1>13, <1>14, <1>15, <1>16 DEF History

-----------------------------------------------------------------------------
(* The requests of a session.                                               *)

LEMMA OnlineFacts ==
  ASSUME IInv, online
  PROVE  /\ queue \in Seq(Writes) /\ History /\ SessionOK(Session)
         /\ Session.items = items /\ Session.worn = worn
         /\ Session.replaced = replaced /\ Session.drifted = drifted
         /\ Session'.items = items' /\ Session'.worn = worn'
         /\ Session'.replaced = replaced' /\ Session'.drifted = drifted'
<1>1. queue \in Seq(Writes) /\ History
  BY DEF IInv
<1>2. PICK h : Linked(h[Len(queue)], Session)
  BY <1>1 DEF History
<1> QED
  BY <1>1, <1>2 DEF Linked, Session

LEMMA SessionFacts ==
  ASSUME IInv, online
  PROVE  /\ DOMAIN items \subseteq Nums
         /\ items \in [DOMAIN items -> Things]
         /\ worn \in [Chars -> [Types -> Slots]]
         /\ \A c \in Chars, t \in Types : worn[c][t].num # 0 =>
              TypeOf[worn[c][t].id] = t /\ Lay(worn[c][t]) \in Things
         /\ replaced \subseteq Nums
         /\ drifted \in BOOLEAN
         /\ \A c \in Chars, t \in Types : worn[c][t].num \notin DOMAIN items
         /\ \A c, d \in Chars, t, u \in Types :
              worn[c][t].num # 0 /\ worn[c][t].num = worn[d][u].num => c = d /\ t = u
BY OnlineFacts DEF SessionOK

LEMMA Request ==
  ASSUME IInv, online, online' = online, rows' = rows, selected' \in Chars,
         Counted(total', worn'),
         NEW ws \in Seq(Writes), queue' = queue \o ws, Len(queue) + Len(ws) <= MaxQueue,
         NEW m, m[0] = Session, m[Len(ws)] = Session',
         \A k \in 1 .. Len(ws) : Move(m[k - 1], m[k], ws[k])
  PROVE  IInv'
<1>1. queue \in Seq(Writes) /\ History
  BY DEF IInv
<1>2. queue' \in Seq(Writes) /\ History'
  BY <1>1, RequestKeeps
<1>3. Len(queue') = Len(queue) + Len(ws)
  BY <1>1, ConcatProperties
<1>4. PICK h : Linked(h[Len(queue')], Session')
  BY <1>2 DEF History
<1>5. drifted' \in BOOLEAN
  BY <1>4 DEF Linked, SessionOK, Session
<1> QED
  BY <1>2, <1>3, <1>5 DEF IInv

LEMMA OneMove ==
  ASSUME IInv, online, online' = online, rows' = rows, selected' \in Chars,
         Counted(total', worn'),
         NEW w, queue' = queue \o <<w>>, Len(queue) + 1 <= MaxQueue,
         Move(Session, Session', w)
  PROVE  IInv'
<1>1. PICK h : Linked(h[Len(queue)], Session)
  BY DEF IInv, History
<1>2. Moved(h[Len(queue)], Session, Session', w)
  BY <1>1, MoveKeeps
<1>3. PICK ws : ws = <<w>>
  OBVIOUS
<1>4. ws \in Seq(Writes) /\ Len(ws) = 1 /\ ws[1] = w
  BY <1>2, <1>3 DEF Moved
<1>5. PICK old, new : old = Session /\ new = Session'
  OBVIOUS
<1>6. PICK m : m = [k \in 0 .. 1 |-> IF k = 0 THEN old ELSE new]
  OBVIOUS
<1>7. m[0] = old /\ m[1] = new
  BY <1>6
<1>8. \A k \in 1 .. Len(ws) : Move(m[k - 1], m[k], ws[k])
  <2> TAKE k \in 1 .. Len(ws)
  <2>1. k = 1 /\ k - 1 = 0
    BY <1>4
  <2>2. Move(m[0], m[1], ws[1])
    BY <1>4, <1>5, <1>7
  <2> QED
    BY <2>1, <2>2
<1>9. m[0] = Session /\ m[Len(ws)] = Session'
  BY <1>4, <1>5, <1>7
<1>10. queue' = queue \o ws /\ Len(queue) + Len(ws) <= MaxQueue
  BY <1>3, <1>4
<1> QED
  BY <1>4, <1>8, <1>9, <1>10, Request

LEMMA SlotIsFinite == IsFiniteSet(Slot)
BY FiniteAssumption, FS_Product DEF Slot

LEMMA CountedLess ==
  ASSUME NEW n, NEW w, Counted(n, w), NEW w2,
         \A c \in Chars, t \in Types : w2[c][t].num # 0 => w[c][t].num # 0
  PROVE  Counted(n, w2)
<1>1. Occupied(w2) \in SUBSET Occupied(w) /\ Occupied(w) \in SUBSET Slot
  BY DEF Occupied, Slot
<1>2. IsFiniteSet(Occupied(w))
  BY <1>1, SlotIsFinite, FS_Subset
<1>3. /\ Cardinality(Occupied(w2)) <= Cardinality(Occupied(w))
      /\ Cardinality(Occupied(w2)) \in Nat /\ Cardinality(Occupied(w)) \in Nat
  BY <1>1, <1>2, FS_Subset, FS_CardinalityType
<1> QED
  BY <1>3 DEF Counted

LEMMA CountedFreed ==
  ASSUME NEW n, NEW w, Counted(n, w), NEW num
  PROVE  Counted(n, Freed(w, num))
<1>1. \A c \in Chars, t \in Types : Freed(w, num)[c][t] = IF w[c][t].num = num THEN Free ELSE w[c][t]
  BY DEF Freed
<1>2. Free.num = 0
  BY DEF Free
<1>3. \A c \in Chars, t \in Types : Freed(w, num)[c][t].num # 0 => w[c][t].num # 0
  BY <1>1, <1>2
<1> QED
  BY <1>3, CountedLess

LEMMA NumberIsNum ==
  ASSUME IInv, online, NEW num \in Numbers
  PROVE  /\ num \in Nums
         /\ num \notin DOMAIN items => \E c \in Chars, t \in Types : worn[c][t].num = num
<1>1. CASE num \in DOMAIN items
  BY <1>1, SessionFacts
<1>2. CASE num \notin DOMAIN items
  <2>1. PICK c \in Chars, t \in Types : worn[c][t].num = num /\ num # 0
    BY <1>2 DEF Numbers, Worn
  <2>2. worn[c][t] \in Slots
    BY SessionFacts
  <2> QED
    BY <2>1, <2>2 DEF Slots, Free
<1> QED
  BY <1>1, <1>2

LEMMA DeleteKeeps ==
  ASSUME IInv, NEW num, Delete(num)
  PROVE  IInv'
<1>1. /\ online /\ Len(queue) + 1 <= MaxQueue /\ num \in Numbers
      /\ items' = Without(items, {num})
      /\ worn' = IF num \in DOMAIN items THEN worn ELSE Freed(worn, num)
      /\ queue' = queue \o <<RemoveRow(num)>>
      /\ total' = total /\ replaced' = replaced /\ drifted' = drifted
      /\ selected' = selected /\ online' = online /\ rows' = rows
  BY DEF Delete, Deleted, Ready, Queue, Unmoved
<1>2. num \in Nums
  BY <1>1, NumberIsNum
<1>3. Removes(Session, Session', RemoveRow(num))
  BY <1>1, <1>2, OnlineFacts DEF Removes, SameHistory
<1>4. Counted(total', worn')
  BY <1>1, CountedFreed DEF IInv
<1>5. selected' \in Chars
  BY <1>1 DEF IInv
<1> QED
  BY <1>1, <1>3, <1>4, <1>5, OneMove DEF Move

LEMMA OpenCashBoxKeeps ==
  ASSUME IInv, NEW num, OpenCashBox(num)
  PROVE  IInv'
<1>1. /\ online /\ Len(queue) + 1 <= MaxQueue /\ num \in DOMAIN items
      /\ items' = Without(items, {num})
      /\ queue' = queue \o <<RemoveRow(num)>>
      /\ worn' = worn /\ total' = total /\ replaced' = replaced /\ drifted' = drifted
      /\ selected' = selected /\ online' = online /\ rows' = rows
  BY DEF OpenCashBox, Ready, Queue, Unmoved
<1>2. num \in Nums
  BY <1>1, SessionFacts
<1>3. Removes(Session, Session', RemoveRow(num))
  BY <1>1, <1>2, OnlineFacts DEF Removes, SameHistory
<1>4. Counted(total', worn') /\ selected' \in Chars
  BY <1>1 DEF IInv
<1> QED
  BY <1>1, <1>3, <1>4, OneMove DEF Move

\* The same item with another amount.
LEMMA OtherAmount ==
  ASSUME NEW i \in Things, NEW n
  PROVE  [i EXCEPT !.n = n] = Item(i.id, n)
<1>1. PICK id, m : i = [id |-> id, n |-> m]
  BY DEF Things
<1> QED
  BY <1>1 DEF Item

LEMMA AmountTyped ==
  ASSUME NEW i \in Things
  PROVE  i.n \in Nat /\ 0 \in Amounts
BY NumericAssumption DEF Things, Amounts

LEMMA UseMatchItemKeeps ==
  ASSUME IInv, NEW num, UseMatchItem(num)
  PROVE  IInv'
<1>1. /\ online /\ Len(queue) + 1 <= MaxQueue
      /\ num \in DOMAIN items /\ items[num].id \in Stocked
      /\ worn' = worn /\ total' = total /\ replaced' = replaced /\ drifted' = drifted
      /\ selected' = selected /\ online' = online /\ rows' = rows
  BY DEF UseMatchItem, Ready, Unmoved
<1>2. num \in Nums /\ items[num] \in Things
  BY <1>1, SessionFacts
<1>3. Counted(total', worn') /\ selected' \in Chars
  BY <1>1 DEF IInv
<1>4. CASE items[num].n = 1
  <2>1. items' = Without(items, {num}) /\ queue' = queue \o <<RemoveRow(num)>>
    BY <1>4 DEF UseMatchItem, Queue
  <2>2. Removes(Session, Session', RemoveRow(num))
    BY <1>1, <1>2, <2>1, OnlineFacts DEF Removes, SameHistory
  <2> QED
    BY <1>1, <1>3, <2>1, <2>2, OneMove DEF Move
<1>5. CASE items[num].n # 1
  <2>1. PICK n : n = items[num].n - 1
    OBVIOUS
  <2>2. items' = [items EXCEPT ![num].n = n] /\ queue' = queue \o <<AmountRow(num, n)>>
    BY <1>5, <2>1 DEF UseMatchItem, Queue
  <2>3. n \in Amounts /\ n > 0
    BY <1>1, <1>2, <1>5, <2>1, NumericAssumption DEF Things, Amounts
  <2>4. Item(items[num].id, n) \in Things
    BY <1>2, <2>3 DEF Item, Things
  <2>5. items' = [items EXCEPT ![num] = Item(items[num].id, n)]
    <3>1. [items[num] EXCEPT !.n = n] = Item(items[num].id, n)
      BY <1>2, OtherAmount
    <3>2. items' = [items EXCEPT ![num] = [items[num] EXCEPT !.n = n]]
      BY <2>2
    <3> QED
      BY <3>1, <3>2
  <2>6. Counts(Session, Session', AmountRow(num, n))
    BY <1>1, <2>3, <2>4, <2>5, OnlineFacts DEF Counts, SameHistory
  <2> QED
    BY <1>1, <1>3, <2>2, <2>6, OneMove DEF Move
<1> QED
  BY <1>4, <1>5

LEMMA AddEnergyKeeps ==
  ASSUME IInv, NEW num \in Nums, AddEnergy(num)
  PROVE  IInv'
<1>1. /\ online /\ Len(queue) + 1 <= MaxQueue
      /\ total' = total /\ replaced' = replaced /\ drifted' = drifted
      /\ selected' = selected /\ online' = online /\ rows' = rows
  BY DEF AddEnergy, Ready, Unmoved
<1>2. selected \in Chars
  BY DEF IInv
<1>3. CASE /\ num \in DOMAIN items /\ items[num].id \notin Stocked
           /\ items[num].n < MaxEnergy
           /\ items' = [items EXCEPT ![num].n = items[num].n + 1]
           /\ queue' = queue \o <<AmountRow(num, items[num].n + 1)>>
           /\ worn' = worn
  <2>1. PICK n : n = items[num].n + 1
    OBVIOUS
  <2>2. num \in Nums /\ items[num] \in Things
    BY <1>1, <1>3, SessionFacts
  <2>3. n \in Amounts /\ n > 0
    BY <1>3, <2>1, <2>2, NumericAssumption DEF Things, Amounts
  <2>4. Item(items[num].id, n) \in Things
    BY <2>2, <2>3 DEF Item, Things
  <2>5. items' = [items EXCEPT ![num] = Item(items[num].id, n)]
    <3>1. [items[num] EXCEPT !.n = n] = Item(items[num].id, n)
      BY <2>2, OtherAmount
    <3>2. items' = [items EXCEPT ![num] = [items[num] EXCEPT !.n = n]]
      BY <1>3, <2>1
    <3> QED
      BY <3>1, <3>2
  <2>6. Counts(Session, Session', AmountRow(num, n))
    BY <1>1, <1>3, <2>3, <2>4, <2>5, OnlineFacts DEF Counts, SameHistory
  <2>7. Counted(total', worn') /\ selected' \in Chars
    BY <1>1, <1>3 DEF IInv
  <2>8. queue' = queue \o <<AmountRow(num, n)>>
    BY <1>3, <2>1
  <2> QED
    BY <1>1, <2>6, <2>7, <2>8, OneMove DEF Move
<1>4. ASSUME NEW t \in Types, num \notin DOMAIN items,
             worn[selected][t].num = num, worn[selected][t].n < MaxEnergy,
             worn' = [worn EXCEPT ![selected][t].n = worn[selected][t].n + 1],
             queue' = queue \o <<AmountRow(num, worn[selected][t].n + 1)>>,
             items' = items, num # 0
      PROVE  IInv'
  <2>1. PICK old, n : old = worn[selected][t] /\ n = old.n + 1
    OBVIOUS
  <2>2. /\ old.num = num /\ old.num \in Nums /\ old.id \in Ids /\ old.n \in Amounts
        /\ old = [num |-> num, id |-> old.id, n |-> old.n]
    <3>1. old \in Slots /\ old.num = num
      BY <1>1, <1>2, <1>4, <2>1, SessionFacts
    <3> QED
      BY <1>4, <3>1 DEF Slots, Free
  <2>3. n \in Amounts /\ n > 0
    BY <1>4, <2>1, <2>2, NumericAssumption DEF Amounts
  <2>4. Item(old.id, n) \in Things
    BY <2>2, <2>3 DEF Item, Things
  <2>5. PICK v : v = Wear(num, Item(old.id, n))
    OBVIOUS
  <2>6. v = [num |-> num, id |-> old.id, n |-> n] /\ v.num = num
    BY <2>5 DEF Wear, Item
  <2>7. [old EXCEPT !.n = n] = v
    BY <2>2, <2>6
  <2>8. worn' = [worn EXCEPT ![selected][t] = v]
    <3>1. worn' = [worn EXCEPT ![selected][t] = [worn[selected][t] EXCEPT !.n = n]]
      BY <1>4, <2>1
    <3> QED
      BY <2>1, <2>7, <3>1
  <2>9. CountsWorn(Session, Session', AmountRow(num, n))
    <3>1. /\ Session.worn[selected][t].num = num /\ Session.worn[selected][t].id = old.id
          /\ Session'.worn = [Session.worn EXCEPT ![selected][t] = Wear(num, Item(old.id, n))]
      BY <1>1, <2>1, <2>2, <2>5, <2>8, OnlineFacts
    <3>2. Session'.items = Session.items /\ SameHistory(Session, Session')
      BY <1>1, <1>4, OnlineFacts DEF SameHistory
    <3> QED
      BY <1>2, <1>4, <2>3, <2>4, <3>1, <3>2 DEF CountsWorn
  <2>10. Counted(total', worn')
    <3>1. Counted(total, worn) /\ worn \in [Chars -> [Types -> Slots]]
      BY <1>1, SessionFacts DEF IInv
    <3>2. \A c \in Chars, u \in Types : worn'[c][u].num = worn[c][u].num
      BY <1>2, <1>4, <2>6, <2>8, <3>1
    <3>3. Counted(total, worn')
      BY <3>1, <3>2, CountedLess
    <3> QED
      BY <1>1, <3>3
  <2>11. queue' = queue \o <<AmountRow(num, n)>> /\ selected' \in Chars
    BY <1>1, <1>2, <1>4, <2>1
  <2> QED
    BY <1>1, <2>9, <2>10, <2>11, OneMove DEF Move
<1> QED
  <2>1. num # 0
    BY Numbered
  <2>2. \/ /\ num \in DOMAIN items /\ items[num].id \notin Stocked
           /\ items[num].n < MaxEnergy
           /\ items' = [items EXCEPT ![num].n = items[num].n + 1]
           /\ queue' = queue \o <<AmountRow(num, items[num].n + 1)>>
           /\ worn' = worn
        \/ \E t \in Types :
             /\ num \notin DOMAIN items
             /\ worn[selected][t].num = num /\ worn[selected][t].n < MaxEnergy
             /\ worn' = [worn EXCEPT ![selected][t].n = worn[selected][t].n + 1]
             /\ queue' = queue \o <<AmountRow(num, worn[selected][t].n + 1)>>
             /\ items' = items
    BY DEF AddEnergy, Queue
  <2> QED
    BY <1>3, <1>4, <2>1, <2>2

LEMMA ReplaceKeeps ==
  ASSUME IInv, NEW num, NEW id \in Ids, Replace(num, id)
  PROVE  IInv'
<1>1. /\ online /\ Len(queue) + 1 <= MaxQueue
      /\ num \in Numbers /\ id \notin Stocked /\ TypeOf[id] = TypeOf[Kind(num)]
      /\ items' = With(items, num, Item(id, 0))
      /\ worn' = IF num \in DOMAIN items THEN worn ELSE Freed(worn, num)
      /\ queue' = queue \o <<ReplaceRow(num, id)>>
      /\ replaced' = (IF num \in Worn THEN replaced \cup {num} ELSE replaced)
      /\ total' = total /\ selected' = selected /\ online' = online /\ rows' = rows
  BY DEF Replace, Ready, Queue, Unmoved
<1>2. drifted' = (drifted \/ num \in Worn)
  BY DEF Replace
<1>3. num \in Nums /\ num # 0
  BY <1>1, NumberIsNum, Numbered
<1>4. Item(id, 0) \in Things
  <2>1. 0 \in Amounts
    BY NumericAssumption DEF Amounts
  <2> QED
    BY <1>1, <2>1 DEF Item, Things
<1>5. Counted(total', worn') /\ selected' \in Chars
  BY <1>1, CountedFreed DEF IInv
<1>6. CASE num \in DOMAIN items
  <2>1. num \notin Worn
    BY <1>1, <1>6, SessionFacts DEF Worn
  <2>2. drifted' = drifted
    <3>1. drifted' = (drifted \/ FALSE)
      BY <1>2, <2>1
    <3>2. drifted \in BOOLEAN
      BY DEF IInv
    <3> QED
      BY <3>1, <3>2
  <2>3. TypeOf[id] = TypeOf[items[num].id]
    BY <1>1, <1>6 DEF Kind
  <2>4. Replaces(Session, Session', ReplaceRow(num, id))
    BY <1>1, <1>4, <1>6, <2>1, <2>2, <2>3, OnlineFacts DEF Replaces, SameHistory
  <2> QED
    BY <1>1, <1>5, <2>4, OneMove DEF Move
<1>7. CASE num \notin DOMAIN items
  <2>1. PICK at : at = CHOOSE x \in Chars \X Types : worn[x[1]][x[2]].num = num
    OBVIOUS
  <2>2. \E at2 \in Chars \X Types : worn[at2[1]][at2[2]].num = num
    <3>1. PICK c \in Chars, t \in Types : worn[c][t].num = num
      BY <1>1, <1>7, NumberIsNum
    <3>2. <<c, t>> \in Chars \X Types /\ <<c, t>>[1] = c /\ <<c, t>>[2] = t
      OBVIOUS
    <3> QED
      BY <3>1, <3>2
  <2>3. at \in Chars \X Types /\ worn[at[1]][at[2]].num = num
    BY <2>1, <2>2
  <2>4. PICK c \in Chars, t \in Types : c = at[1] /\ t = at[2]
    BY <2>3
  <2>5. Kind(num) = worn[c][t].id
    BY <1>7, <2>1, <2>4 DEF Kind
  <2>6. worn[c][t].num = num
    BY <2>3, <2>4
  <2>7. TypeOf[worn[c][t].id] = t
    BY <1>1, <1>3, <2>6, SessionFacts
  <2>8. num \in Worn
    BY <1>3, <2>6 DEF Worn
  <2>9. drifted' = TRUE
    BY <1>2, <2>8
  <2>10. ReplacesWorn(Session, Session', ReplaceRow(num, id))
    <3>1. TypeOf[id] = t
      BY <1>1, <2>5, <2>7
    <3>2. /\ Session.worn[c][t].num = num
          /\ Session'.items = With(Session.items, num, Item(id, 0))
          /\ Session'.worn = Freed(Session.worn, num)
          /\ Session'.replaced = Session.replaced \cup {num}
          /\ Session'.drifted = TRUE
      BY <1>1, <1>7, <2>6, <2>8, <2>9, OnlineFacts
    <3> QED
      BY <1>3, <1>4, <3>1, <3>2 DEF ReplacesWorn
  <2> QED
    BY <1>1, <1>5, <2>10, OneMove DEF Move
<1> QED
  BY <1>6, <1>7

-----------------------------------------------------------------------------
(* The scheduler, the end of a session, and what happens without one.       *)

\* The rows that all writes leave are those at the end of the run.
LEMMA RunIsUnique ==
  ASSUME NEW rs, NEW ws, Len(ws) \in Nat, NEW h, Run(h, rs, ws), NEW g, Run(g, rs, ws)
  PROVE  \A k \in 0 .. Len(ws) : h[k] = g[k]
<1> DEFINE Bad == {k \in 0 .. Len(ws) : h[k] # g[k]}
<1>1. SUFFICES ASSUME Bad # {} PROVE FALSE
  OBVIOUS
<1>2. Bad \in SUBSET Nat
  OBVIOUS
<1>3. PICK k \in Bad : \A j \in Bad : k <= j
  <2> HIDE DEF Bad
  <2> QED
    BY <1>1, <1>2, LeastNatural
<1>4. k # 0
  BY DEF Run
<1>5. k \in 1 .. Len(ws) /\ k - 1 \in 0 .. Len(ws) /\ k - 1 \notin Bad
  BY <1>3, <1>4
<1>6. h[k - 1] = g[k - 1]
  BY <1>5
<1> QED
  BY <1>5, <1>6 DEF Run

LEMMA AllAppliedIs ==
  ASSUME NEW rs, NEW ws, Len(ws) \in Nat, NEW h, Run(h, rs, ws)
  PROVE  AllApplied(rs, ws) = h[Len(ws)]
<1> DEFINE Is(f) == f = [k \in 0 .. Len(ws) |-> IF k = 0 THEN rs ELSE Applied(f[k - 1], ws[k])]
<1>1. PICK f : f = [k \in 0 .. Len(ws) |-> h[k]]
  OBVIOUS
<1>2. Is(f)
  <2>1. \A k \in 0 .. Len(ws) : h[k] = IF k = 0 THEN rs ELSE Applied(f[k - 1], ws[k])
    <3> TAKE k \in 0 .. Len(ws)
    <3>1. CASE k = 0
      BY <3>1 DEF Run
    <3>2. CASE k # 0
      <4>1. k \in 1 .. Len(ws) /\ k - 1 \in 0 .. Len(ws)
        BY <3>2
      <4>2. f[k - 1] = h[k - 1]
        BY <1>1, <4>1
      <4> QED
        BY <3>2, <4>1, <4>2 DEF Run
    <3> QED
      BY <3>1, <3>2
  <2> QED
    BY <1>1, <2>1
<1>3. PICK g : g = CHOOSE x : Is(x)
  OBVIOUS
<1>4. Is(g)
  BY <1>2, <1>3
<1>5. AllApplied(rs, ws) = g[Len(ws)]
  BY <1>3 DEF AllApplied
<1>6. Run(g, rs, ws)
  <2>1. DOMAIN g = 0 .. Len(ws)
    BY <1>4
  <2>2. \A k \in 0 .. Len(ws) : g[k] = IF k = 0 THEN rs ELSE Applied(g[k - 1], ws[k])
    BY <1>4
  <2>3. 0 \in 0 .. Len(ws)
    OBVIOUS
  <2>4. g[0] = rs
    BY <2>2, <2>3
  <2>5. \A k \in 1 .. Len(ws) : k \in 0 .. Len(ws) /\ k # 0
    OBVIOUS
  <2> QED
    BY <2>1, <2>2, <2>4, <2>5 DEF Run
<1>7. Len(ws) \in 0 .. Len(ws)
  OBVIOUS
<1> QED
  BY <1>5, <1>6, <1>7, RunIsUnique

\* Without writes that wait there is the run of none.
LEMMA NothingWaits ==
  ASSUME NEW rs, NEW d, GoodRows(rs, d)
  PROVE  \E h : /\ Run(h, rs, <<>>) /\ h[Len(<<>>)] = rs
                /\ \A k \in 0 .. Len(<<>>) : GoodRows(h[k], d)
<1>1. PICK h : h = [k \in 0 .. 0 |-> rs]
  OBVIOUS
<1>2. Len(<<>>) = 0
  OBVIOUS
<1>3. DOMAIN h = 0 .. 0 /\ \A k \in 0 .. 0 : h[k] = rs
  BY <1>1
<1>4. 0 \in 0 .. 0 /\ 1 .. 0 = {}
  OBVIOUS
<1>5. Run(h, rs, <<>>)
  BY <1>2, <1>3, <1>4 DEF Run
<1> QED
  BY <1>2, <1>3, <1>4, <1>5


-----------------------------------------------------------------------------
(* Requests of several moves.                                               *)

At(it, wn) == [items |-> it, worn |-> wn, replaced |-> replaced, drifted |-> drifted]

\* The session comes to what lies there and what is worn with these writes.
Reached(it, wn, ws) ==
  /\ ws \in Seq(Writes)
  /\ \E rs : Linked(rs, At(it, wn))
  /\ \E m : /\ m[0] = Session /\ m[Len(ws)] = At(it, wn)
            /\ \A k \in 1 .. Len(ws) : Move(m[k - 1], m[k], ws[k])

LEMMA ReachedStart ==
  ASSUME IInv, online
  PROVE  Reached(items, worn, <<>>)
<1>1. At(items, worn) = Session
  BY DEF At, Session
<1>2. PICK h : Linked(h[Len(queue)], Session)
  BY DEF IInv, History
<1>3. PICK s : s = Session
  OBVIOUS
<1>4. PICK m : m = [k \in 0 .. 0 |-> s]
  OBVIOUS
<1>5. m[0] = s /\ Len(<<>>) = 0 /\ <<>> \in Seq(Writes) /\ 1 .. 0 = {}
  BY <1>4
<1> QED
  BY <1>1, <1>2, <1>3, <1>5 DEF Reached

LEMMA ReachedNext ==
  ASSUME NEW it, NEW wn, NEW ws, Reached(it, wn, ws),
         NEW it2, NEW wn2, NEW w, Move(At(it, wn), At(it2, wn2), w)
  PROVE  Reached(it2, wn2, Append(ws, w))
<1>1. PICK rs : Linked(rs, At(it, wn))
  BY DEF Reached
<1>2. Moved(rs, At(it, wn), At(it2, wn2), w)
  BY <1>1, MoveKeeps
<1>3. w \in Writes /\ Linked(Applied(rs, w), At(it2, wn2))
  BY <1>2 DEF Moved
<1>4. ws \in Seq(Writes) /\ Len(ws) \in Nat
  BY LenProperties DEF Reached
<1>5. PICK v, n : v = Append(ws, w) /\ n = Len(ws)
  OBVIOUS
<1>6. /\ v \in Seq(Writes) /\ Len(v) = n + 1 /\ n \in Nat
      /\ \A k \in 1 .. n : v[k] = ws[k]
      /\ v[n + 1] = w
  BY <1>3, <1>4, <1>5, AppendProperties
<1>7. PICK m : /\ m[0] = Session /\ m[n] = At(it, wn)
               /\ \A k \in 1 .. n : Move(m[k - 1], m[k], ws[k])
  BY <1>5 DEF Reached
<1>8. PICK s : s = At(it2, wn2)
  OBVIOUS
<1>9. PICK m2 : m2 = [k \in 0 .. n + 1 |-> IF k = n + 1 THEN s ELSE m[k]]
  OBVIOUS
<1>10. m2[n + 1] = s /\ \A k \in 0 .. n : m2[k] = m[k]
  BY <1>6, <1>9
<1>11. m2[0] = Session
  BY <1>6, <1>7, <1>10
<1>12. \A k \in 1 .. n + 1 : Move(m2[k - 1], m2[k], v[k])
  <2> TAKE k \in 1 .. n + 1
  <2>1. CASE k = n + 1
    <3>1. k - 1 = n
      BY <1>6, <2>1
    <3>2. m2[k - 1] = At(it, wn) /\ m2[k] = At(it2, wn2) /\ v[k] = w
      BY <1>6, <1>7, <1>8, <1>10, <2>1, <3>1
    <3> QED
      BY <3>2
  <2>2. CASE k # n + 1
    <3>1. k \in 1 .. n /\ k \in 0 .. n /\ k - 1 \in 0 .. n
      BY <1>6, <2>2
    <3>2. m2[k - 1] = m[k - 1] /\ m2[k] = m[k] /\ v[k] = ws[k]
      BY <1>6, <1>10, <3>1
    <3>3. Move(m[k - 1], m[k], ws[k])
      BY <1>7, <3>1
    <3> QED
      BY <3>2, <3>3
  <2> QED
    BY <2>1, <2>2
<1>13. Reached(it2, wn2, v)
  BY <1>3, <1>6, <1>8, <1>10, <1>11, <1>12 DEF Reached
<1> QED
  BY <1>5, <1>13

LEMMA ReachedEnd ==
  ASSUME IInv, online, online' = online, rows' = rows, selected' \in Chars,
         replaced' = replaced, drifted' = drifted,
         NEW it, NEW wn, NEW ws, Reached(it, wn, ws), items' = it, worn' = wn,
         Counted(total', worn'), queue' = queue \o ws, Len(queue) + Len(ws) <= MaxQueue
  PROVE  IInv'
<1>1. At(it, wn) = Session'
  BY DEF At, Session
<1>2. PICK m : /\ m[0] = Session /\ m[Len(ws)] = Session'
               /\ \A k \in 1 .. Len(ws) : Move(m[k - 1], m[k], ws[k])
  BY <1>1 DEF Reached
<1>3. ws \in Seq(Writes)
  BY DEF Reached
<1> QED
  BY <1>2, <1>3, Request

\* What a move sees of such a session.
LEMMA ReachedFacts ==
  ASSUME NEW it, NEW wn, NEW ws, Reached(it, wn, ws)
  PROVE  /\ SessionOK(At(it, wn)) /\ ws \in Seq(Writes)
         /\ At(it, wn).items = it /\ At(it, wn).worn = wn
         /\ wn \in [Chars -> [Types -> Slots]]
         /\ DOMAIN it \subseteq Nums /\ it \in [DOMAIN it -> Things]
         /\ \A c \in Chars, t \in Types : wn[c][t].num \notin DOMAIN it
<1>1. PICK s : s = At(it, wn)
  OBVIOUS
<1>2. s.items = it /\ s.worn = wn
  BY <1>1 DEF At
<1>3. SessionOK(s) /\ ws \in Seq(Writes)
  BY <1>1 DEF Reached, Linked
<1>4. /\ s.worn \in [Chars -> [Types -> Slots]]
      /\ DOMAIN s.items \subseteq Nums /\ s.items \in [DOMAIN s.items -> Things]
      /\ \A c \in Chars, t \in Types : s.worn[c][t].num \notin DOMAIN s.items
  BY <1>3 DEF SessionOK
<1> QED
  BY <1>1, <1>2, <1>3, <1>4

LEMMA SameAt == \A it, wn, it2, wn2 : SameHistory(At(it, wn), At(it2, wn2))
BY DEF SameHistory, At

\* A slot that gets free.
LEMMA CountedOneLess ==
  ASSUME NEW n, NEW w, Counted(n, w), NEW c \in Chars, NEW t \in Types, w[c][t].num # 0,
         NEW w2, w2[c][t].num = 0,
         \A d \in Chars, u \in Types : d # c \/ u # t => w2[d][u] = w[d][u]
  PROVE  Counted(n - 1, w2)
<1>1. <<c, t>> \in Occupied(w) /\ Occupied(w) \in SUBSET Slot
  BY DEF Occupied, Slot
<1>2. IsFiniteSet(Occupied(w))
  BY <1>1, SlotIsFinite, FS_Subset
<1>3. Occupied(w2) \in SUBSET (Occupied(w) \ {<<c, t>>})
  <2> SUFFICES ASSUME NEW at \in Occupied(w2)
               PROVE  at \in Occupied(w) /\ at # <<c, t>>
    OBVIOUS
  <2>1. PICK d \in Chars, u \in Types : at = <<d, u>>
    BY DEF Occupied, Slot
  <2>2. w2[d][u].num # 0
    BY <2>1 DEF Occupied
  <2>3. d # c \/ u # t
    BY <2>2
  <2>4. w[d][u].num # 0
    BY <2>2, <2>3
  <2> QED
    BY <2>1, <2>3, <2>4 DEF Occupied, Slot
<1>4. /\ IsFiniteSet(Occupied(w) \ {<<c, t>>})
      /\ Cardinality(Occupied(w) \ {<<c, t>>}) = Cardinality(Occupied(w)) - 1
  BY <1>1, <1>2, FS_RemoveElement
<1>5. /\ Cardinality(Occupied(w2)) <= Cardinality(Occupied(w)) - 1
      /\ Cardinality(Occupied(w2)) \in Nat /\ Cardinality(Occupied(w)) \in Nat
  BY <1>2, <1>3, <1>4, FS_Subset, FS_CardinalityType
<1> QED
  BY <1>5 DEF Counted

\* A slot that is taken.
LEMMA CountedOneMore ==
  ASSUME NEW n, NEW w, Counted(n, w), NEW c \in Chars, NEW t \in Types, NEW w2,
         \A d \in Chars, u \in Types : d # c \/ u # t => w2[d][u] = w[d][u]
  PROVE  Counted(n + 1, w2)
<1>1. Occupied(w) \in SUBSET Slot
  BY DEF Occupied
<1>2. IsFiniteSet(Occupied(w))
  BY <1>1, SlotIsFinite, FS_Subset
<1>3. Occupied(w2) \in SUBSET (Occupied(w) \cup {<<c, t>>})
  <2> SUFFICES ASSUME NEW at \in Occupied(w2), at # <<c, t>>
               PROVE  at \in Occupied(w)
    OBVIOUS
  <2>1. PICK d \in Chars, u \in Types : at = <<d, u>>
    BY DEF Occupied, Slot
  <2>2. w2[d][u].num # 0
    BY <2>1 DEF Occupied
  <2>3. d # c \/ u # t
    BY <2>1
  <2>4. w[d][u].num # 0
    BY <2>2, <2>3
  <2> QED
    BY <2>1, <2>4 DEF Occupied, Slot
<1>4. /\ IsFiniteSet(Occupied(w) \cup {<<c, t>>})
      /\ Cardinality(Occupied(w) \cup {<<c, t>>}) <= Cardinality(Occupied(w)) + 1
      /\ Cardinality(Occupied(w)) \in Nat
      /\ Cardinality(Occupied(w) \cup {<<c, t>>}) \in Nat
  <2>1. Cardinality(Occupied(w)) \in Nat
    BY <1>2, FS_CardinalityType
  <2>2. /\ IsFiniteSet(Occupied(w) \cup {<<c, t>>})
        /\ Cardinality(Occupied(w) \cup {<<c, t>>})
             = IF <<c, t>> \in Occupied(w) THEN Cardinality(Occupied(w)) ELSE Cardinality(Occupied(w)) + 1
    BY <1>2, FS_AddElement
  <2> QED
    BY <2>1, <2>2
<1>5. /\ Cardinality(Occupied(w2)) <= Cardinality(Occupied(w) \cup {<<c, t>>})
      /\ Cardinality(Occupied(w2)) \in Nat
  BY <1>3, <1>4, FS_Subset, FS_CardinalityType
<1> QED
  BY <1>4, <1>5 DEF Counted

\* A wardrobe that the session comes to, and one after it in which the
\* slots F of the character c are free and all other slots are the same.
Comes(w) == Reached(w.items, w.worn, w.writes) /\ Counted(w.total, w.worn)
Frees(w, v, c, F) ==
  /\ Comes(v)
  /\ \A t \in F : v.worn[c][t].num = 0
  /\ \A d \in Chars, u \in Types : d # c \/ u \notin F => v.worn[d][u] = w.worn[d][u]
  /\ \A num \in DOMAIN w.items : num \in DOMAIN v.items /\ v.items[num] = w.items[num]

LEMMA WardrobeComes ==
  ASSUME IInv, online
  PROVE  Comes(Wardrobe)
<1>1. /\ Wardrobe.items = items /\ Wardrobe.worn = worn /\ Wardrobe.writes = <<>>
      /\ Wardrobe.total = total
  BY DEF Wardrobe
<1>2. Reached(items, worn, <<>>)
  BY ReachedStart
<1>3. Counted(total, worn)
  BY DEF IInv
<1> QED
  BY <1>1, <1>2, <1>3 DEF Comes

LEMMA TakenOffFrees ==
  ASSUME NEW w, Comes(w), NEW c \in Chars, NEW t \in Types
  PROVE  Frees(w, TakenOff(w, c, t), c, {t})
<1>1. PICK it, wn, ws, n, old :
        it = w.items /\ wn = w.worn /\ ws = w.writes /\ n = w.total /\ old = w.worn[c][t]
  OBVIOUS
<1>2. Reached(it, wn, ws) /\ Counted(n, wn)
  BY <1>1 DEF Comes
<1>3. CASE old.num = 0
  <2>1. TakenOff(w, c, t) = w
    BY <1>1, <1>3 DEF TakenOff
  <2>2. w.worn[c][t].num = 0
    BY <1>1, <1>3
  <2>3. Frees(w, w, c, {t})
    BY <2>2 DEF Frees
  <2> QED
    BY <2>1, <2>3
<1>4. CASE old.num # 0
  <2>1. PICK it2, wn2, x, ws2 :
          /\ it2 = With(it, old.num, Lay(old)) /\ wn2 = [wn EXCEPT ![c][t] = Free]
          /\ x = UnequipRow(old.num) /\ ws2 = Append(ws, x)
    OBVIOUS
  <2>2. PICK v : v = TakenOff(w, c, t)
    OBVIOUS
  <2>3. v = [items |-> it2, worn |-> wn2, total |-> n - 1, writes |-> ws2]
    BY <1>1, <1>4, <2>1, <2>2 DEF TakenOff
  <2>4. v.items = it2 /\ v.worn = wn2 /\ v.total = n - 1 /\ v.writes = ws2
    BY <2>3
  <2>5. wn \in [Chars -> [Types -> Slots]] /\ wn[c][t] = old /\ old.num \notin DOMAIN it
    BY <1>1, <1>2, ReachedFacts
  <2>6. /\ wn2[c][t].num = 0
        /\ \A d \in Chars, u \in Types : d # c \/ u # t => wn2[d][u] = wn[d][u]
    BY <2>1, <2>5 DEF Free
  <2>7. TakesOff(At(it, wn), At(it2, wn2), x)
    <3>1. PICK s, s2 : s = At(it, wn) /\ s2 = At(it2, wn2)
      OBVIOUS
    <3>2. /\ s.items = it /\ s.worn = wn /\ s2.items = it2 /\ s2.worn = wn2
          /\ SameHistory(s, s2)
      BY <3>1, SameAt DEF At
    <3>3. TakesOff(s, s2, x)
      BY <1>4, <2>1, <2>5, <3>2 DEF TakesOff
    <3> QED
      BY <3>1, <3>3
  <2>8. Reached(it2, wn2, ws2)
    BY <1>2, <2>1, <2>7, ReachedNext DEF Move
  <2>9. Counted(n - 1, wn2)
    BY <1>2, <1>4, <2>5, <2>6, CountedOneLess
  <2>10. \A num \in DOMAIN it : num \in DOMAIN it2 /\ it2[num] = it[num]
    BY <2>1, <2>5 DEF With
  <2>11. Comes(v)
    BY <2>4, <2>8, <2>9 DEF Comes
  <2>12. Frees(w, v, c, {t})
    BY <1>1, <2>4, <2>6, <2>10, <2>11 DEF Frees
  <2> QED
    BY <2>2, <2>12
<1> QED
  BY <1>3, <1>4

LEMMA FreesMore ==
  ASSUME NEW w, NEW v, NEW u, NEW c \in Chars, NEW F, F \subseteq Types, NEW G, G \subseteq Types,
         Frees(w, v, c, F), Frees(v, u, c, G)
  PROVE  Frees(w, u, c, F \cup G)
<1>1. Comes(u)
  BY DEF Frees
<1>2. \A t \in F \cup G : u.worn[c][t].num = 0
  <2> TAKE t \in F \cup G
  <2>1. CASE t \in G
    BY <2>1 DEF Frees
  <2>2. CASE t \notin G
    <3>1. u.worn[c][t] = v.worn[c][t] /\ v.worn[c][t].num = 0
      BY <2>2 DEF Frees
    <3> QED
      BY <3>1
  <2> QED
    BY <2>1, <2>2
<1>3. \A d \in Chars, t \in Types : d # c \/ t \notin F \cup G => u.worn[d][t] = w.worn[d][t]
  BY DEF Frees
<1>4. \A num \in DOMAIN w.items : num \in DOMAIN u.items /\ u.items[num] = w.items[num]
  BY DEF Frees
<1> QED
  BY <1>1, <1>2, <1>3, <1>4 DEF Frees

\* SetToSeq lists a finite set.
LEMMA Listed ==
  ASSUME NEW S, IsFiniteSet(S)
  PROVE  /\ Len(SetToSeq(S)) = Cardinality(S) /\ Cardinality(S) \in Nat
         /\ \A k \in 1 .. Cardinality(S) : SetToSeq(S)[k] \in S
         /\ \A x \in S : \E k \in 1 .. Cardinality(S) : SetToSeq(S)[k] = x
<1>1. PICK n : n = Cardinality(S)
  OBVIOUS
<1>2. n \in Nat /\ ExistsBijection(1 .. n, S)
  BY <1>1, FS_CardinalityType
<1>3. \E f \in [1 .. n -> S] : IsInjective(f)
  BY <1>2 DEF ExistsBijection, Bijection, Injection
<1>4. PICK f : f = SetToSeq(S)
  OBVIOUS
<1>5. f \in [1 .. n -> S] /\ IsInjective(f)
  BY <1>1, <1>3, <1>4 DEF SetToSeq
<1>6. Len(f) = n
  <2>1. f \in Seq(S) /\ DOMAIN f = 1 .. n
    BY <1>2, <1>5
  <2> QED
    BY <1>2, <2>1, LenProperties
<1>7. f \in Surjection(1 .. n, S)
  <2>1. f \in Injection(1 .. n, S)
    BY <1>5 DEF Injection
  <2>2. IsFiniteSet(1 .. n) /\ Cardinality(1 .. n) = n
    <3>1. 1 \in Int /\ n \in Int
      BY <1>2
    <3>2. IsFiniteSet(1 .. n) /\ Cardinality(1 .. n) = IF 1 > n THEN 0 ELSE n - 1 + 1
      BY <3>1, FS_Interval
    <3> QED
      BY <1>2, <3>2
  <2> QED
    BY <1>1, <2>1, <2>2, FS_Injection
<1> QED
  BY <1>1, <1>2, <1>4, <1>5, <1>6, <1>7 DEF Surjection

\* g[k] is the wardrobe when the first k parts are taken off.
Strip(g, w, c, parts, n) ==
  /\ DOMAIN g = 0 .. n /\ g[0] = w
  /\ \A k \in 1 .. n : g[k] = TakenOff(g[k - 1], c, parts[k])

LEMMA StripExists ==
  ASSUME NEW w, NEW c, NEW parts, NEW n \in Nat
  PROVE  \E g : Strip(g, w, c, parts, n)
<1> DEFINE Stuck == {j \in 0 .. n : ~ \E g : Strip(g, w, c, parts, j)}
<1>1. \E g : Strip(g, w, c, parts, 0)
  <2>1. PICK g : g = [k \in 0 .. 0 |-> w]
    OBVIOUS
  <2>2. DOMAIN g = 0 .. 0 /\ g[0] = w /\ 1 .. 0 = {}
    BY <2>1
  <2> QED
    BY <2>2 DEF Strip
<1>2. ASSUME NEW j \in 1 .. n, NEW g, Strip(g, w, c, parts, j - 1)
      PROVE  \E g2 : Strip(g2, w, c, parts, j)
  <2>1. PICK last : last = TakenOff(g[j - 1], c, parts[j])
    OBVIOUS
  <2>2. PICK g2 : g2 = [k \in 0 .. j |-> IF k = j THEN last ELSE g[k]]
    OBVIOUS
  <2>3. DOMAIN g2 = 0 .. j /\ g2[j] = last /\ \A k \in 0 .. j - 1 : g2[k] = g[k]
    BY <2>2
  <2>4. g2[0] = w
    BY <1>2, <2>3 DEF Strip
  <2>5. \A k \in 1 .. j : g2[k] = TakenOff(g2[k - 1], c, parts[k])
    <3> TAKE k \in 1 .. j
    <3>1. CASE k = j
      <4>1. g2[k - 1] = g[j - 1]
        BY <2>3, <3>1
      <4> QED
        BY <2>1, <2>3, <3>1, <4>1
    <3>2. CASE k # j
      <4>1. k \in 1 .. j - 1 /\ k \in 0 .. j - 1 /\ k - 1 \in 0 .. j - 1
        BY <3>2
      <4>2. g[k] = TakenOff(g[k - 1], c, parts[k])
        BY <1>2, <4>1 DEF Strip
      <4>3. g2[k] = g[k] /\ g2[k - 1] = g[k - 1]
        BY <2>3, <4>1
      <4> QED
        BY <4>2, <4>3
    <3> QED
      BY <3>1, <3>2
  <2> QED
    BY <2>3, <2>4, <2>5 DEF Strip
<1>3. SUFFICES ASSUME Stuck # {} PROVE FALSE
  <2>1. n \in 0 .. n
    OBVIOUS
  <2> QED
    BY <2>1
<1>4. Stuck \in SUBSET Nat
  OBVIOUS
<1>5. PICK j \in Stuck : \A k \in Stuck : j <= k
  <2> HIDE DEF Stuck
  <2> QED
    BY <1>3, <1>4, LeastNatural
<1>6. j # 0
  BY <1>1
<1>7. j \in 1 .. n /\ j - 1 \in 0 .. n /\ j - 1 \notin Stuck
  BY <1>5, <1>6
<1>8. PICK g : Strip(g, w, c, parts, j - 1)
  BY <1>7
<1> QED
  BY <1>2, <1>5, <1>7, <1>8

LEMMA PartsOffIs ==
  ASSUME NEW w, NEW c, Len(SetToSeq(SetParts)) \in Nat
  PROVE  \E g : /\ Strip(g, w, c, SetToSeq(SetParts), Len(SetToSeq(SetParts)))
                /\ PartsOff(w, c) = g[Len(SetToSeq(SetParts))]
<1>1. PICK parts, n : parts = SetToSeq(SetParts) /\ n = Len(parts)
  OBVIOUS
<1> DEFINE Is(f) == f = [k \in 0 .. n |-> IF k = 0 THEN w ELSE TakenOff(f[k - 1], c, parts[k])]
<1>2. PICK h : Strip(h, w, c, parts, n)
  BY <1>1, StripExists
<1>3. PICK f : f = [k \in 0 .. n |-> h[k]]
  OBVIOUS
<1>4. Is(f)
  <2>1. \A k \in 0 .. n : h[k] = IF k = 0 THEN w ELSE TakenOff(f[k - 1], c, parts[k])
    <3> TAKE k \in 0 .. n
    <3>1. CASE k = 0
      BY <1>2, <3>1 DEF Strip
    <3>2. CASE k # 0
      <4>1. k \in 1 .. n /\ k - 1 \in 0 .. n
        BY <1>1, <3>2
      <4>2. f[k - 1] = h[k - 1]
        BY <1>3, <4>1
      <4> QED
        BY <1>2, <3>2, <4>1, <4>2 DEF Strip
    <3> QED
      BY <3>1, <3>2
  <2> QED
    BY <1>3, <2>1
<1>5. PICK g : g = CHOOSE x : Is(x)
  OBVIOUS
<1>6. Is(g)
  BY <1>4, <1>5
<1>7. PartsOff(w, c) = g[n]
  BY <1>1, <1>5 DEF PartsOff
<1>8. Strip(g, w, c, parts, n)
  <2>1. DOMAIN g = 0 .. n
    BY <1>6
  <2>2. \A k \in 0 .. n : g[k] = IF k = 0 THEN w ELSE TakenOff(g[k - 1], c, parts[k])
    BY <1>6
  <2>3. 0 \in 0 .. n
    BY <1>1
  <2>4. g[0] = w
    BY <2>2, <2>3
  <2>5. \A k \in 1 .. n : k \in 0 .. n /\ k # 0
    BY <1>1
  <2> QED
    BY <2>1, <2>2, <2>4, <2>5 DEF Strip
<1> QED
  BY <1>1, <1>7, <1>8

LEMMA PartsOffFrees ==
  ASSUME NEW w, Comes(w), NEW c \in Chars
  PROVE  Frees(w, PartsOff(w, c), c, SetParts)
<1>1. IsFiniteSet(SetParts) /\ SetParts \subseteq Types
  BY PartsAssumption, FiniteAssumption, FS_Subset
<1>2. PICK parts, n : parts = SetToSeq(SetParts) /\ n = Len(SetToSeq(SetParts))
  OBVIOUS
<1>3. /\ n \in Nat /\ \A k \in 1 .. n : parts[k] \in SetParts
      /\ \A t \in SetParts : \E k \in 1 .. n : parts[k] = t
  BY <1>1, <1>2, Listed
<1>4. PICK g : Strip(g, w, c, parts, n) /\ PartsOff(w, c) = g[n]
  BY <1>2, <1>3, PartsOffIs
<1> DEFINE Off(k) == {parts[i] : i \in 1 .. k}
           Bad == {k \in 0 .. n : ~ Frees(w, g[k], c, Off(k))}
<1>5. Frees(w, g[0], c, Off(0))
  <2>1. Off(0) = {} /\ g[0] = w
    BY <1>4 DEF Strip
  <2> HIDE DEF Off
  <2>2. Frees(w, w, c, {})
    BY DEF Frees
  <2> QED
    BY <2>1, <2>2
<1>6. ASSUME NEW k \in 1 .. n, Frees(w, g[k - 1], c, Off(k - 1))
      PROVE  Frees(w, g[k], c, Off(k))
  <2>1. PICK v, t : v = g[k - 1] /\ t = parts[k]
    OBVIOUS
  <2>2. g[k] = TakenOff(v, c, t) /\ t \in SetParts /\ t \in Types
    BY <1>1, <1>3, <1>4, <2>1 DEF Strip
  <2>3. Off(k) = Off(k - 1) \cup {t}
    <3>1. \A i : i \in 1 .. k <=> i \in 1 .. k - 1 \/ i = k
      BY <1>3
    <3> QED
      BY <2>1, <3>1
  <2>4. Off(k - 1) \subseteq Types
    BY <1>1, <1>3
  <2> HIDE DEF Off
  <2>5. Frees(w, v, c, Off(k - 1))
    BY <1>6, <2>1
  <2>6. Comes(v)
    BY <2>5 DEF Frees
  <2>7. Frees(v, TakenOff(v, c, t), c, {t})
    BY <2>2, <2>6, TakenOffFrees
  <2>8. {t} \subseteq Types
    BY <2>2
  <2>9. Frees(w, TakenOff(v, c, t), c, Off(k - 1) \cup {t})
    BY <2>4, <2>5, <2>7, <2>8, FreesMore
  <2> QED
    BY <2>2, <2>3, <2>9
<1>7. Off(n) = SetParts
  BY <1>3
<1> HIDE DEF Off
<1>8. Bad = {}
  <2>1. SUFFICES ASSUME Bad # {} PROVE FALSE
    OBVIOUS
  <2>2. Bad \in SUBSET Nat
    BY <1>3
  <2>3. PICK k \in Bad : \A j \in Bad : k <= j
    <3> HIDE DEF Bad
    <3> QED
      BY <2>1, <2>2, LeastNatural
  <2>4. k # 0
    BY <1>5
  <2>5. k \in 1 .. n /\ k - 1 \in 0 .. n /\ k - 1 \notin Bad
    BY <1>3, <2>3, <2>4
  <2> QED
    BY <1>6, <2>3, <2>5
<1>9. n \in 0 .. n
  BY <1>3
<1>10. Frees(w, g[n], c, Off(n))
  BY <1>8, <1>9
<1> QED
  BY <1>4, <1>7, <1>10

\* What equipItem takes off is what collides with the item.
LEMMA RoomForFrees ==
  ASSUME NEW w, Comes(w), NEW c \in Chars, NEW t \in Types
  PROVE  LET v == RoomFor(w, c, t) IN
         /\ Comes(v)
         /\ t = SetType => \A p \in SetParts : v.worn[c][p].num = 0
         /\ t \in SetParts => v.worn[c][SetType].num = 0
         /\ \A num \in DOMAIN w.items : num \in DOMAIN v.items /\ v.items[num] = w.items[num]
<1>1. PICK v : v = RoomFor(w, c, t)
  OBVIOUS
<1>2. CASE t = SetType
  <2>1. v = PartsOff(w, c) /\ t \notin SetParts
    BY <1>1, <1>2, PartsAssumption DEF RoomFor
  <2>2. Frees(w, v, c, SetParts)
    BY <2>1, PartsOffFrees
  <2> QED
    BY <1>1, <2>1, <2>2 DEF Frees
<1>3. CASE t # SetType /\ t \in SetParts
  <2>1. v = TakenOff(w, c, SetType)
    BY <1>1, <1>3 DEF RoomFor
  <2>2. SetType \in Types
    BY TypeAssumption
  <2>3. Frees(w, v, c, {SetType})
    BY <2>1, <2>2, TakenOffFrees
  <2> QED
    BY <1>1, <1>3, <2>3 DEF Frees
<1>4. CASE t # SetType /\ t \notin SetParts
  <2>1. v = w
    BY <1>1, <1>4 DEF RoomFor
  <2> QED
    BY <1>1, <1>4, <2>1
<1> QED
  BY <1>2, <1>3, <1>4

LEMMA PutOnComes ==
  ASSUME NEW w, Comes(w), NEW c \in Chars, NEW num \in DOMAIN w.items,
         TypeOf[w.items[num].id] \in Types
  PROVE  Comes(PutOn(w, num, c))
<1>1. PICK i, t : i = w.items[num] /\ t = TypeOf[w.items[num].id]
  OBVIOUS
<1>2. PICK v : v = RoomFor(w, c, t)
  OBVIOUS
<1>3. /\ Comes(v)
      /\ t = SetType => \A p \in SetParts : v.worn[c][p].num = 0
      /\ t \in SetParts => v.worn[c][SetType].num = 0
      /\ num \in DOMAIN v.items /\ v.items[num] = i
  BY <1>1, <1>2, RoomForFrees
<1>4. PICK it, wn, ws, n, old :
        it = v.items /\ wn = v.worn /\ ws = v.writes /\ n = v.total /\ old = v.worn[c][t]
  OBVIOUS
<1>5. Reached(it, wn, ws) /\ Counted(n, wn) /\ num \in DOMAIN it /\ it[num] = i
  BY <1>3, <1>4 DEF Comes
<1>6. t \in Types /\ TypeOf[i.id] = t
  BY <1>1
<1>7. PICK it2, wn2, x, n2 :
        /\ it2 = IF old.num = 0 THEN Without(it, {num})
                 ELSE With(Without(it, {num}), old.num, Lay(old))
        /\ wn2 = [wn EXCEPT ![c][t] = Wear(num, i)]
        /\ x = (IF old.num = 0 THEN EquipRow(num, c) ELSE SwapRows(old.num, num, c))
        /\ n2 = IF old.num = 0 THEN n + 1 ELSE n
  OBVIOUS
<1>8. PICK u : u = PutOn(w, num, c)
  OBVIOUS
<1>9. u = [items |-> it2, worn |-> wn2, total |-> n2, writes |-> Append(ws, x)]
  BY <1>1, <1>2, <1>4, <1>7, <1>8 DEF PutOn
<1>10. u.items = it2 /\ u.worn = wn2 /\ u.total = n2 /\ u.writes = Append(ws, x)
  BY <1>9
<1>11. PICK s, s2 : s = At(it, wn) /\ s2 = At(it2, wn2)
  OBVIOUS
<1>12. /\ s.items = it /\ s.worn = wn /\ s2.items = it2 /\ s2.worn = wn2
       /\ SameHistory(s, s2)
  BY <1>11, SameAt DEF At
<1>13. HasRoom(s, c, t)
  BY <1>3, <1>4, <1>12 DEF HasRoom
<1>14. Move(s, s2, x)
  <2>1. CASE old.num = 0
    <3>1. PutsOn(s, s2, x)
      BY <1>4, <1>5, <1>6, <1>7, <1>12, <1>13, <2>1 DEF PutsOn
    <3> QED
      BY <3>1 DEF Move
  <2>2. CASE old.num # 0
    <3>1. Swaps(s, s2, x)
      BY <1>4, <1>5, <1>6, <1>7, <1>12, <1>13, <2>2 DEF Swaps
    <3> QED
      BY <3>1 DEF Move
  <2> QED
    BY <2>1, <2>2
<1>15. Reached(it2, wn2, Append(ws, x))
  BY <1>5, <1>11, <1>14, ReachedNext
<1>16. Counted(n2, wn2)
  <2>1. wn \in [Chars -> [Types -> Slots]]
    BY <1>5, ReachedFacts
  <2>2. \A d \in Chars, p \in Types : d # c \/ p # t => wn2[d][p] = wn[d][p]
    BY <1>6, <1>7, <2>1
  <2>3. CASE old.num = 0
    <3>1. Counted(n + 1, wn2)
      BY <1>5, <1>6, <2>2, CountedOneMore
    <3> QED
      BY <1>7, <2>3, <3>1
  <2>4. CASE old.num # 0
    <3>1. \A d \in Chars, p \in Types : wn2[d][p].num # 0 => wn[d][p].num # 0
      BY <1>4, <2>2, <2>4
    <3>2. Counted(n, wn2)
      BY <1>5, <3>1, CountedLess
    <3> QED
      BY <1>7, <2>4, <3>2
  <2> QED
    BY <2>3, <2>4
<1>17. Comes(u)
  BY <1>10, <1>15, <1>16 DEF Comes
<1> QED
  BY <1>8, <1>17

LEMMA DressedKeeps ==
  ASSUME IInv, NEW w, online => Comes(w), Dressed(w)
  PROVE  IInv'
<1>1. PICK it, wn, ws, n : it = w.items /\ wn = w.worn /\ ws = w.writes /\ n = w.total
  OBVIOUS
<1>2. /\ online /\ Len(queue) + Len(ws) <= MaxQueue
      /\ items' = it /\ worn' = wn /\ total' = n /\ queue' = queue \o ws
      /\ replaced' = replaced /\ drifted' = drifted
      /\ selected' = selected /\ online' = online /\ rows' = rows
  BY <1>1 DEF Dressed, Ready, Queue, Unmoved
<1>3. Reached(it, wn, ws) /\ Counted(n, wn)
  BY <1>1, <1>2 DEF Comes
<1>4. selected' \in Chars /\ Counted(total', worn')
  BY <1>2, <1>3 DEF IInv
<1> QED
  BY <1>2, <1>3, <1>4, ReachedEnd

LEMMA EquipItemKeeps ==
  ASSUME IInv, NEW num, EquipItem(num)
  PROVE  IInv'
<1>1. /\ num \in DOMAIN items /\ TypeOf[items[num].id] \in Types
      /\ Dressed(PutOn(Wardrobe, num, selected)) /\ selected \in Chars
  BY DEF EquipItem, IInv
<1>2. Wardrobe.items = items
  BY DEF Wardrobe
<1>3. ASSUME online PROVE Comes(PutOn(Wardrobe, num, selected))
  BY <1>1, <1>2, <1>3, WardrobeComes, PutOnComes
<1> QED
  BY <1>1, <1>3, DressedKeeps

LEMMA UnequipItemKeeps ==
  ASSUME IInv, NEW t \in Types, UnequipItem(t)
  PROVE  IInv'
<1>1. Dressed(TakenOff(Wardrobe, selected, t)) /\ selected \in Chars
  BY DEF UnequipItem, IInv
<1>2. ASSUME online PROVE Comes(TakenOff(Wardrobe, selected, t))
  BY <1>1, <1>2, WardrobeComes, TakenOffFrees DEF Frees
<1> QED
  BY <1>1, <1>2, DressedKeeps

LEMMA SwitchItemEquipKeeps ==
  ASSUME IInv, NEW c \in Chars, NEW num, SwitchItemEquip(c, num)
  PROVE  IInv'
<1>1. ASSUME NEW t \in Types, Dressed(TakenOff(Wardrobe, c, t))
      PROVE  IInv'
  <2>1. ASSUME online PROVE Comes(TakenOff(Wardrobe, c, t))
    BY <2>1, WardrobeComes, TakenOffFrees DEF Frees
  <2> QED
    BY <1>1, <2>1, DressedKeeps
<1>2. ASSUME num \in DOMAIN items, TypeOf[items[num].id] \in Types,
             Dressed(PutOn(Wardrobe, num, c))
      PROVE  IInv'
  <2>1. Wardrobe.items = items
    BY DEF Wardrobe
  <2>2. ASSUME online PROVE Comes(PutOn(Wardrobe, num, c))
    BY <1>2, <2>1, <2>2, WardrobeComes, PutOnComes
  <2> QED
    BY <1>2, <2>2, DressedKeeps
<1> QED
  BY <1>1, <1>2 DEF SwitchItemEquip

LEMMA SelectCharacterKeeps ==
  ASSUME IInv, NEW c \in Chars, SelectCharacter(c)
  PROVE  IInv'
BY DEF SelectCharacter, IInv, History, Session

\* The greatest of some numbers, 0 if there are none.
LEMMA GreatestNatural ==
  ASSUME NEW S \in SUBSET Nat, NEW b \in Nat, \A k \in S : k <= b
  PROVE  \E m \in S \cup {0} : \A k \in S \cup {0} : k <= m
<1> DEFINE T == {n \in Nat : \A k \in S : k <= n}
<1>1. T \in SUBSET Nat /\ T # {}
  OBVIOUS
<1>2. PICK m \in T : \A n \in T : m <= n
  <2> HIDE DEF T
  <2> QED
    BY <1>1, LeastNatural
<1>3. CASE m = 0
  BY <1>2, <1>3
<1>4. CASE m # 0
  <2>1. m \in Nat /\ m - 1 \in Nat /\ m - 1 \notin T
    BY <1>2, <1>4
  <2>2. PICK k \in S : ~(k <= m - 1)
    BY <2>1
  <2>3. k <= m /\ k \in Nat
    BY <1>2
  <2>4. k = m
    BY <2>1, <2>2, <2>3
  <2> QED
    BY <1>2, <2>4
<1> QED
  BY <1>3, <1>4

LEMMA LatestFacts ==
  ASSUME IInv, online
  PROVE  Latest \in Nat /\ \A k \in Numbers : k <= Latest
<1>1. Numbers \in SUBSET Nat /\ \A k \in Numbers : k <= MaxNumber
  BY NumberIsNum, NumericAssumption DEF Nums
<1>2. MaxNumber \in Nat
  BY NumericAssumption
<1>3. \E m \in Numbers \cup {0} : \A k \in Numbers : k <= m
  BY <1>1, <1>2, GreatestNatural
<1>4. PICK S : S = Numbers
  OBVIOUS
<1>5. PICK m : m = CHOOSE x \in S \cup {0} : \A k \in S : k <= x
  OBVIOUS
<1>6. m \in S \cup {0} /\ \A k \in S : k <= m
  BY <1>3, <1>4, <1>5
<1>7. Latest = m
  BY <1>4, <1>5 DEF Latest
<1> QED
  BY <1>1, <1>4, <1>6, <1>7

\* The writes of a request, one more each time.
LEMMA OneMoreWrite ==
  ASSUME NEW ws \in Seq(Writes), NEW n \in Nat, NEW all \in [1 .. n -> Writes], NEW k \in 1 .. n
  PROVE  ws \o [j \in 1 .. k |-> all[j]] = Append(ws \o [j \in 1 .. k - 1 |-> all[j]], all[k])
<1>1. PICK p, q, l : /\ p = [j \in 1 .. k - 1 |-> all[j]] /\ q = [j \in 1 .. k |-> all[j]]
                     /\ l = Len(ws)
  OBVIOUS
<1>2. /\ p \in Seq(Writes) /\ Len(p) = k - 1 /\ q \in Seq(Writes) /\ Len(q) = k
      /\ \A j \in 1 .. k - 1 : p[j] = all[j]
      /\ \A j \in 1 .. k : q[j] = all[j]
      /\ l \in Nat
  <2>1. p \in [1 .. k - 1 -> Writes] /\ q \in [1 .. k -> Writes] /\ k \in Nat /\ k - 1 \in Nat
    BY <1>1
  <2>2. p \in Seq(Writes) /\ q \in Seq(Writes)
    BY <2>1
  <2>3. DOMAIN p = 1 .. k - 1 /\ DOMAIN q = 1 .. k
    BY <2>1
  <2>4. Len(p) = k - 1 /\ Len(q) = k
    BY <2>1, <2>2, <2>3
  <2> QED
    BY <1>1, <2>2, <2>4, LenProperties
<1>3. PICK a, b : a = ws \o q /\ b = ws \o p
  OBVIOUS
<1>4. /\ a \in Seq(Writes) /\ Len(a) = l + k
      /\ \A i \in 1 .. l + k : a[i] = IF i <= l THEN ws[i] ELSE q[i - l]
  BY <1>1, <1>2, <1>3, ConcatProperties
<1>5. /\ b \in Seq(Writes) /\ Len(b) = l + (k - 1)
      /\ \A i \in 1 .. l + (k - 1) : b[i] = IF i <= l THEN ws[i] ELSE p[i - l]
  BY <1>1, <1>2, <1>3, ConcatProperties
<1>6. PICK d : d = Append(b, all[k])
  OBVIOUS
<1>7. /\ d \in Seq(Writes) /\ Len(d) = l + k
      /\ \A i \in 1 .. l + (k - 1) : d[i] = b[i]
      /\ d[l + k] = all[k]
  <2>1. all[k] \in Writes
    OBVIOUS
  <2>2. /\ d \in Seq(Writes) /\ Len(d) = Len(b) + 1
        /\ \A i \in 1 .. Len(b) : d[i] = b[i]
        /\ d[Len(b) + 1] = all[k]
    BY <1>5, <1>6, <2>1, AppendProperties
  <2>3. Len(b) + 1 = l + k
    BY <1>2, <1>5
  <2> QED
    BY <1>5, <2>2, <2>3
<1>8. \A i \in 1 .. l + k : a[i] = d[i]
  <2> TAKE i \in 1 .. l + k
  <2>1. CASE i = l + k
    <3>1. ~(i <= l) /\ i - l = k /\ k \in 1 .. k
      BY <1>2, <2>1
    <3>2. a[i] = all[k]
      BY <1>2, <1>4, <3>1
    <3> QED
      BY <1>7, <2>1, <3>2
  <2>2. CASE i # l + k
    <3>1. i \in 1 .. l + (k - 1)
      BY <1>2, <2>2
    <3>2. d[i] = IF i <= l THEN ws[i] ELSE p[i - l]
      BY <1>5, <1>7, <3>1
    <3>3. CASE i <= l
      BY <1>4, <3>2, <3>3
    <3>4. CASE ~(i <= l)
      <4>1. i - l \in 1 .. k - 1 /\ i - l \in 1 .. k
        BY <1>2, <3>1, <3>4
      <4>2. p[i - l] = q[i - l]
        BY <1>2, <4>1
      <4> QED
        BY <1>4, <3>2, <3>4, <4>2
    <3> QED
      BY <3>3, <3>4
  <2> QED
    BY <2>1, <2>2
<1>9. a = d
  BY <1>4, <1>7, <1>8, SeqEqual
<1> QED
  BY <1>1, <1>3, <1>6, <1>9

LEMMA NoWrite ==
  ASSUME NEW ws \in Seq(Writes), NEW all
  PROVE  ws \o [j \in 1 .. 0 |-> all[j]] = ws
<1>1. [j \in 1 .. 0 |-> all[j]] = <<>>
  OBVIOUS
<1> QED
  BY <1>1, ConcatEmptySeq

\* Items that get the numbers after all that the session has.
LEMMA AddsReached ==
  ASSUME NEW it, NEW wn, NEW ws, Reached(it, wn, ws),
         NEW ids \in Seq(Ids), NEW last \in Nat, last + Len(ids) <= MaxNumber,
         \A num \in DOMAIN it : num <= last,
         \A c \in Chars, t \in Types : wn[c][t].num <= last
  PROVE  Reached(Both(it, Spawned(ids, last)), wn, ws \o AddRows(ids, last))
<1>1. PICK n : n = Len(ids)
  OBVIOUS
<1>2. /\ n \in Nat /\ \A j \in 1 .. n : ids[j] \in Ids
      /\ DOMAIN ids = 1 .. n
  BY <1>1, LenProperties
<1>3. PICK thing : thing = [j \in 1 .. n |-> Item(ids[j], Amount(ids[j]))]
  OBVIOUS
<1>4. \A j \in 1 .. n : thing[j] \in Things /\ thing[j] = Item(ids[j], Amount(ids[j]))
  <2> TAKE j \in 1 .. n
  <2>1. PICK id \in Ids : id = ids[j]
    BY <1>2
  <2>2. Amount(id) \in Amounts /\ (id \in Stocked => Amount(id) > 0)
    BY NumericAssumption DEF Amount, Amounts
  <2>3. Item(id, Amount(id)) \in Things
    BY <2>2 DEF Item, Things
  <2> QED
    BY <1>3, <2>1, <2>3
<1>5. PICK all : all = [j \in 1 .. n |-> AddRow(last + j, thing[j])]
  OBVIOUS
<1>6. \A j \in 1 .. n : last + j \in Nums
  BY <1>1, <1>2, NumericAssumption DEF Nums
<1>7. all \in [1 .. n -> Writes]
  <2>1. \A j \in 1 .. n : AddRow(last + j, thing[j]) \in Writes
    BY <1>4, <1>6 DEF Writes
  <2> QED
    BY <1>5, <2>1
<1>8. AddRows(ids, last) = [j \in 1 .. n |-> all[j]]
  <2>1. AddRows(ids, last) = [j \in 1 .. n |-> AddRow(last + j, Item(ids[j], Amount(ids[j])))]
    BY <1>2 DEF AddRows
  <2>2. \A j \in 1 .. n : AddRow(last + j, Item(ids[j], Amount(ids[j]))) = all[j]
    BY <1>3, <1>5
  <2> QED
    BY <2>1, <2>2
<1> DEFINE got(k) == [j \in last + 1 .. last + k |-> thing[j - last]]
           Goal(k) == Reached(Both(it, got(k)), wn, ws \o [j \in 1 .. k |-> all[j]])
<1>9. Spawned(ids, last) = got(n)
  <2>1. \A j \in last + 1 .. last + n : thing[j - last] = Item(ids[j - last], Amount(ids[j - last]))
    <3> TAKE j \in last + 1 .. last + n
    <3>1. j - last \in 1 .. n
      BY <1>2
    <3> QED
      BY <1>4, <3>1
  <2> QED
    BY <1>1, <2>1 DEF Spawned
<1>10. /\ it = [k \in DOMAIN it |-> it[k]] /\ ws \in Seq(Writes)
  BY ReachedFacts
<1>11. Goal(0)
  <2>1. \A j : j \notin last + 1 .. last + 0
    OBVIOUS
  <2>2. Both(it, got(0)) = it
    <3>1. DOMAIN got(0) = {}
      BY <2>1
    <3> HIDE DEF got
    <3>2. Both(it, got(0)) = [k \in DOMAIN it |-> it[k]]
      BY <3>1 DEF Both
    <3> QED
      BY <1>10, <3>2
  <2>3. ws \o [j \in 1 .. 0 |-> all[j]] = ws
    BY <1>10, NoWrite
  <2> QED
    BY <2>2, <2>3
<1>12. ASSUME NEW k \in 1 .. n, Goal(k - 1)
       PROVE  Goal(k)
  <2>1. PICK f, g, v, x : /\ f = Both(it, got(k - 1)) /\ g = Both(it, got(k))
                          /\ v = ws \o [j \in 1 .. k - 1 |-> all[j]] /\ x = AddRow(last + k, thing[k])
    OBVIOUS
  <2>2. Reached(f, wn, v)
    BY <1>12, <2>1
  <2>3. ws \o [j \in 1 .. k |-> all[j]] = Append(v, x)
    <3>1. all[k] = x
      BY <1>5, <2>1
    <3>2. ws \o [j \in 1 .. k |-> all[j]] = Append(ws \o [j \in 1 .. k - 1 |-> all[j]], all[k])
      BY <1>2, <1>7, <1>10, OneMoreWrite
    <3> QED
      BY <2>1, <3>1, <3>2
  <2>4. \A j : j \in last + 1 .. last + k <=> j \in last + 1 .. last + (k - 1) \/ j = last + k
    BY <1>2
  <2>5. last + k \notin last + 1 .. last + (k - 1)
    BY <1>2
  <2>6. /\ DOMAIN f = DOMAIN it \cup (last + 1 .. last + (k - 1))
        /\ \A j \in DOMAIN f : f[j] = IF j \in last + 1 .. last + (k - 1) THEN thing[j - last] ELSE it[j]
    BY <2>1 DEF Both
  <2>7. /\ DOMAIN g = DOMAIN it \cup (last + 1 .. last + k)
        /\ g = [j \in DOMAIN g |-> IF j \in last + 1 .. last + k THEN thing[j - last] ELSE it[j]]
    BY <2>1 DEF Both
  <2>8. last + k - last = k
    BY <1>2
  <2>9. last + k \notin DOMAIN it
    BY <1>2
  <2>10. last + k \notin DOMAIN f
    BY <2>5, <2>6, <2>9
  <2>11. g = With(f, last + k, thing[k])
    <3>1. DOMAIN g = DOMAIN f \cup {last + k}
      BY <2>4, <2>6, <2>7
    <3>2. \A j \in DOMAIN g : (IF j \in last + 1 .. last + k THEN thing[j - last] ELSE it[j])
                               = IF j = last + k THEN thing[k] ELSE f[j]
      <4> TAKE j \in DOMAIN g
      <4>1. CASE j = last + k
        <5>1. j - last = k /\ j \in last + 1 .. last + k
          BY <2>4, <2>8, <4>1
        <5> QED
          BY <4>1, <5>1
      <4>2. CASE j # last + k
        BY <2>4, <2>6, <3>1, <4>2
      <4> QED
        BY <4>1, <4>2
    <3>3. g = [j \in DOMAIN f \cup {last + k} |-> IF j = last + k THEN thing[k] ELSE f[j]]
      BY <2>7, <3>1, <3>2
    <3> QED
      BY <3>3 DEF With
  <2>12. \A c \in Chars, t \in Types : wn[c][t].num # last + k
    <3> TAKE c \in Chars, t \in Types
    <3>1. wn[c][t] \in Slots
      BY ReachedFacts
    <3>2. wn[c][t].num \in Nat
      <4>1. PICK slot : slot = wn[c][t]
        OBVIOUS
      <4>2. CASE slot = Free
        <5>1. slot.num = 0
          BY <4>2 DEF Free
        <5> QED
          BY <4>1, <5>1
      <4>3. CASE slot # Free
        <5>1. slot \in [num : Nums, id : Ids, n : Amounts]
          BY <3>1, <4>1, <4>3 DEF Slots
        <5>2. slot.num \in Nums
          BY <5>1
        <5>3. slot.num \in Nat
          BY <5>2, Numbered
        <5> QED
          BY <4>1, <5>3
      <4> QED
        BY <4>2, <4>3
    <3>3. wn[c][t].num <= last
      OBVIOUS
    <3> QED
      BY <1>2, <3>2, <3>3
  <2>13. Adds(At(f, wn), At(g, wn), x)
    <3>1. PICK s, s2 : s = At(f, wn) /\ s2 = At(g, wn)
      OBVIOUS
    <3>2. s.items = f /\ s.worn = wn /\ s2.items = g /\ s2.worn = wn /\ SameHistory(s, s2)
      BY <3>1, SameAt DEF At
    <3>3. last + k \in Nums /\ thing[k] \in Things
      BY <1>4, <1>6
    <3>4. Adds(s, s2, x)
      BY <2>1, <2>10, <2>11, <2>12, <3>2, <3>3 DEF Adds
    <3> QED
      BY <3>1, <3>4
  <2>14. Reached(g, wn, Append(v, x))
    BY <2>2, <2>13, ReachedNext DEF Move
  <2> QED
    BY <2>1, <2>3, <2>14
<1> HIDE DEF Goal
<1>13. Goal(n)
  <2> DEFINE Bad == {k \in 0 .. n : ~ Goal(k)}
  <2>1. SUFFICES ASSUME Bad # {} PROVE FALSE
    <3>1. n \in 0 .. n
      BY <1>2
    <3> QED
      BY <3>1
  <2>2. Bad \in SUBSET Nat
    BY <1>2
  <2>3. PICK k \in Bad : \A j \in Bad : k <= j
    <3> HIDE DEF Bad
    <3> QED
      BY <2>1, <2>2, LeastNatural
  <2>4. k # 0
    BY <1>11
  <2>5. k \in 1 .. n /\ k - 1 \in 0 .. n /\ k - 1 \notin Bad
    BY <1>2, <2>3, <2>4
  <2> QED
    BY <1>12, <2>3, <2>5
<1> QED
  BY <1>8, <1>9, <1>13 DEF Goal

LEMMA NumbersAreWhat ==
  ASSUME IInv, online
  PROVE  /\ \A num \in DOMAIN items : num \in Numbers
         /\ \A c \in Chars, t \in Types : worn[c][t].num \in Numbers \cup {0}
BY DEF Numbers, Worn

LEMMA ReceiveKeeps ==
  ASSUME IInv, NEW ids \in Seq(Ids), Receive(ids)
  PROVE  IInv'
<1>1. PICK last : last = Latest
  OBVIOUS
<1>2. PICK it, ws : it = Both(items, Spawned(ids, last)) /\ ws = AddRows(ids, last)
  OBVIOUS
<1>3. /\ online /\ Len(queue) + Len(ids) <= MaxQueue /\ last + Len(ids) <= MaxNumber
      /\ items' = it /\ queue' = queue \o ws
      /\ worn' = worn /\ total' = total /\ replaced' = replaced /\ drifted' = drifted
      /\ selected' = selected /\ online' = online /\ rows' = rows
  BY <1>1, <1>2 DEF Receive, Ready, Queue, Unmoved
<1>4. last \in Nat /\ \A k \in Numbers : k <= last
  BY <1>1, <1>3, LatestFacts
<1>5. /\ \A num \in DOMAIN items : num <= last
      /\ \A c \in Chars, t \in Types : worn[c][t].num <= last
  BY <1>3, <1>4, NumbersAreWhat
<1>6. Reached(it, worn, <<>> \o ws)
  <2>1. Reached(items, worn, <<>>)
    BY <1>3, ReachedStart
  <2> QED
    BY <1>2, <1>3, <1>4, <1>5, <2>1, AddsReached
<1>7. Len(ws) = Len(ids) /\ <<>> \o ws = ws
  <2>1. Len(ids) \in Nat /\ DOMAIN ids = 1 .. Len(ids)
    BY LenProperties
  <2>2. PICK row : row = [k \in 1 .. Len(ids) |-> AddRow(last + k, Item(ids[k], Amount(ids[k])))]
    OBVIOUS
  <2>3. ws = row
    BY <1>2, <2>1, <2>2 DEF AddRows
  <2>4. row \in Seq({row[k] : k \in 1 .. Len(ids)}) /\ DOMAIN row = 1 .. Len(ids)
    BY <2>1, <2>2
  <2>5. Len(row) = Len(ids)
    BY <2>1, <2>4, LenProperties
  <2> QED
    BY <2>3, <2>4, <2>5, ConcatEmptySeq
<1>8. Reached(it, worn, ws)
  BY <1>6, <1>7
<1>9. Counted(total', worn') /\ selected' \in Chars
  BY <1>3 DEF IInv
<1> QED
  BY <1>3, <1>7, <1>8, <1>9, ReachedEnd

LEMMA OpenBoxKeeps ==
  ASSUME IInv, NEW num, NEW ids \in Seq(Ids), OpenBox(num, ids)
  PROVE  IInv'
<1>1. PICK last : last = Latest
  OBVIOUS
<1>2. PICK rest, it, ws :
        /\ rest = Without(items, {num})
        /\ it = Both(rest, Spawned(ids, last)) /\ ws = <<RemoveRow(num)>> \o AddRows(ids, last)
  OBVIOUS
<1>3. /\ online /\ Len(queue) + (1 + Len(ids)) <= MaxQueue /\ last + Len(ids) <= MaxNumber
      /\ num \in DOMAIN items
      /\ items' = it /\ queue' = queue \o ws
      /\ worn' = worn /\ total' = total /\ replaced' = replaced /\ drifted' = drifted
      /\ selected' = selected /\ online' = online /\ rows' = rows
  BY <1>1, <1>2 DEF OpenBox, Ready, Queue, Unmoved
<1>4. last \in Nat /\ \A k \in Numbers : k <= last
  BY <1>1, <1>3, LatestFacts
<1>5. /\ \A k \in DOMAIN rest : k <= last
      /\ \A c \in Chars, t \in Types : worn[c][t].num <= last
  BY <1>2, <1>3, <1>4, NumbersAreWhat DEF Without
<1>6. num \in Nums
  BY <1>3, SessionFacts
<1>7. Reached(rest, worn, <<RemoveRow(num)>>)
  <2>1. Reached(items, worn, <<>>)
    BY <1>3, ReachedStart
  <2>2. PICK s, s2 : s = At(items, worn) /\ s2 = At(rest, worn)
    OBVIOUS
  <2>3. s.items = items /\ s.worn = worn /\ s2.items = rest /\ s2.worn = worn /\ SameHistory(s, s2)
    BY <2>2, SameAt DEF At
  <2>4. Removes(s, s2, RemoveRow(num))
    BY <1>2, <1>3, <1>6, <2>3 DEF Removes
  <2>5. Reached(rest, worn, Append(<<>>, RemoveRow(num)))
    BY <2>1, <2>2, <2>4, ReachedNext DEF Move
  <2>6. Append(<<>>, RemoveRow(num)) = <<RemoveRow(num)>>
    OBVIOUS
  <2> QED
    BY <2>5, <2>6
<1>8. Reached(it, worn, ws)
  BY <1>2, <1>3, <1>4, <1>5, <1>7, AddsReached
<1>9. Len(ws) = 1 + Len(ids)
  <2>1. Len(ids) \in Nat /\ DOMAIN ids = 1 .. Len(ids)
    BY LenProperties
  <2>2. PICK row : row = [k \in 1 .. Len(ids) |-> AddRow(last + k, Item(ids[k], Amount(ids[k])))]
    OBVIOUS
  <2>3. PICK S : S = {row[k] : k \in 1 .. Len(ids)} \cup {RemoveRow(num)}
    OBVIOUS
  <2>4. row \in Seq(S) /\ DOMAIN row = 1 .. Len(ids)
    BY <2>1, <2>2, <2>3
  <2>5. Len(row) = Len(ids)
    BY <2>1, <2>4, LenProperties
  <2>6. ws = <<RemoveRow(num)>> \o row
    BY <1>2, <2>1, <2>2 DEF AddRows
  <2>7. <<RemoveRow(num)>> \in Seq(S) /\ Len(<<RemoveRow(num)>>) = 1
    BY <2>3
  <2> QED
    BY <2>4, <2>5, <2>6, <2>7, ConcatProperties
<1>10. Counted(total', worn') /\ selected' \in Chars
  BY <1>3 DEF IInv
<1> QED
  BY <1>3, <1>8, <1>9, <1>10, ReachedEnd

LEMMA ClearInventoryKeeps ==
  ASSUME IInv, ClearInventory
  PROVE  IInv'
<1>1. PICK D, n : D = DOMAIN items /\ n = Cardinality(D)
  OBVIOUS
<1>2. PICK order \in SetToSeqs(D) :
        queue' = queue \o [k \in DOMAIN order |-> RemoveRow(order[k])]
  BY <1>1 DEF ClearInventory, Queue
<1>3. /\ online /\ Len(queue) + n <= MaxQueue /\ items' = <<>>
      /\ worn' = worn /\ total' = total /\ replaced' = replaced /\ drifted' = drifted
      /\ selected' = selected /\ online' = online /\ rows' = rows
  BY <1>1 DEF ClearInventory, Ready, Unmoved
<1>4. D \subseteq Nums
  BY <1>1, <1>3, SessionFacts
<1>5. IsFiniteSet(D) /\ n \in Nat
  <2>1. MaxNumber \in Int /\ 1 \in Int
    BY NumericAssumption
  <2>2. IsFiniteSet(Nums)
    BY <2>1, FS_Interval DEF Nums
  <2> QED
    BY <1>1, <1>4, <2>2, FS_Subset, FS_CardinalityType
<1>6. order \in [1 .. n -> D] /\ \A i, j \in 1 .. n : i # j => order[i] # order[j]
  BY <1>1, <1>2 DEF SetToSeqs
<1>7. \A x \in D : \E k \in 1 .. n : order[k] = x
  <2>1. order \in Injection(1 .. n, D)
    BY <1>6 DEF Injection, IsInjective
  <2>2. IsFiniteSet(1 .. n) /\ Cardinality(1 .. n) = n
    <3>1. 1 \in Int /\ n \in Int
      BY <1>5
    <3>2. IsFiniteSet(1 .. n) /\ Cardinality(1 .. n) = IF 1 > n THEN 0 ELSE n - 1 + 1
      BY <3>1, FS_Interval
    <3> QED
      BY <1>5, <3>2
  <2>3. order \in Surjection(1 .. n, D)
    BY <1>1, <1>5, <2>1, <2>2, FS_Injection
  <2> QED
    BY <2>3 DEF Surjection
<1>8. PICK all : all = [k \in 1 .. n |-> RemoveRow(order[k])]
  OBVIOUS
<1>9. all \in [1 .. n -> Writes]
  <2>1. \A k \in 1 .. n : RemoveRow(order[k]) \in Writes
    BY <1>4, <1>6 DEF Writes
  <2> QED
    BY <1>8, <2>1
<1> DEFINE gone(k) == {order[i] : i \in 1 .. k}
           Goal(k) == Reached(Without(items, gone(k)), worn, <<>> \o [j \in 1 .. k |-> all[j]])
<1>10. items = [k \in D |-> items[k]] /\ <<>> \in Seq(Writes)
  BY <1>1, <1>3, SessionFacts
<1>11. Goal(0)
  <2>1. gone(0) = {}
    OBVIOUS
  <2>2. Without(items, gone(0)) = items
    BY <1>1, <1>10, <2>1 DEF Without
  <2>3. <<>> \o [j \in 1 .. 0 |-> all[j]] = <<>>
    BY <1>10, NoWrite
  <2>4. Reached(items, worn, <<>>)
    BY <1>3, ReachedStart
  <2> QED
    BY <2>2, <2>3, <2>4
<1>12. ASSUME NEW k \in 1 .. n, Goal(k - 1)
       PROVE  Goal(k)
  <2>1. PICK f, g, v, num : /\ f = Without(items, gone(k - 1)) /\ g = Without(items, gone(k))
                            /\ v = <<>> \o [j \in 1 .. k - 1 |-> all[j]] /\ num = order[k]
    OBVIOUS
  <2>2. Reached(f, worn, v)
    BY <1>12, <2>1
  <2>3. <<>> \o [j \in 1 .. k |-> all[j]] = Append(v, RemoveRow(num))
    <3>1. all[k] = RemoveRow(num)
      BY <1>8, <2>1
    <3>2. <<>> \o [j \in 1 .. k |-> all[j]] = Append(<<>> \o [j \in 1 .. k - 1 |-> all[j]], all[k])
      BY <1>5, <1>9, <1>10, OneMoreWrite
    <3> QED
      BY <2>1, <3>1, <3>2
  <2>4. gone(k) = gone(k - 1) \cup {num}
    <3>1. \A i : i \in 1 .. k <=> i \in 1 .. k - 1 \/ i = k
      BY <1>5
    <3> QED
      BY <2>1, <3>1
  <2>5. num \in D /\ num \notin gone(k - 1)
    <3>1. \A i \in 1 .. k - 1 : i \in 1 .. n /\ i # k
      BY <1>5
    <3> QED
      BY <1>6, <2>1, <3>1
  <2> HIDE DEF gone
  <2>6. DOMAIN f = D \ gone(k - 1) /\ \A j \in DOMAIN f : f[j] = items[j]
    BY <1>1, <2>1 DEF Without
  <2>7. g = [j \in D \ gone(k) |-> items[j]]
    BY <1>1, <2>1 DEF Without
  <2>8. g = Without(f, {num})
    <3>1. D \ gone(k) = DOMAIN f \ {num}
      BY <2>4, <2>6
    <3> QED
      BY <2>6, <2>7, <3>1 DEF Without
  <2>9. Removes(At(f, worn), At(g, worn), RemoveRow(num))
    <3>1. PICK s, s2 : s = At(f, worn) /\ s2 = At(g, worn)
      OBVIOUS
    <3>2. s.items = f /\ s.worn = worn /\ s2.items = g /\ s2.worn = worn /\ SameHistory(s, s2)
      BY <3>1, SameAt DEF At
    <3>3. num \in Nums /\ num \in DOMAIN f
      BY <1>4, <2>5, <2>6
    <3>4. Removes(s, s2, RemoveRow(num))
      BY <2>8, <3>2, <3>3 DEF Removes
    <3> QED
      BY <3>1, <3>4
  <2>10. Reached(g, worn, Append(v, RemoveRow(num)))
    BY <2>2, <2>9, ReachedNext DEF Move
  <2> QED
    BY <2>1, <2>3, <2>10
<1>13. gone(n) = D
  BY <1>6, <1>7
<1> HIDE DEF Goal, gone
<1>14. Goal(n)
  <2> DEFINE Bad == {k \in 0 .. n : ~ Goal(k)}
  <2>1. SUFFICES ASSUME Bad # {} PROVE FALSE
    <3>1. n \in 0 .. n
      BY <1>5
    <3> QED
      BY <3>1
  <2>2. Bad \in SUBSET Nat
    BY <1>5
  <2>3. PICK k \in Bad : \A j \in Bad : k <= j
    <3> HIDE DEF Bad
    <3> QED
      BY <2>1, <2>2, LeastNatural
  <2>4. k # 0
    BY <1>11
  <2>5. k \in 1 .. n /\ k - 1 \in 0 .. n /\ k - 1 \notin Bad
    BY <1>5, <2>3, <2>4
  <2> QED
    BY <1>12, <2>3, <2>5
<1>15. Without(items, D) = <<>>
  BY <1>1 DEF Without
<1>16. <<>> \o [j \in 1 .. n |-> all[j]] = all
  <2>1. all \in Seq(Writes) /\ all = [j \in 1 .. n |-> all[j]]
    BY <1>5, <1>9
  <2> QED
    BY <2>1, ConcatEmptySeq
<1>17. Reached(<<>>, worn, all)
  BY <1>13, <1>14, <1>15, <1>16 DEF Goal
<1>18. queue' = queue \o all
  <2>1. DOMAIN order = 1 .. n
    BY <1>6
  <2> QED
    BY <1>2, <1>8, <2>1
<1>19. Len(all) = n
  <2>1. all \in Seq(Writes) /\ DOMAIN all = 1 .. n
    BY <1>5, <1>9
  <2> QED
    BY <1>5, <2>1, LenProperties
<1>20. Counted(total', worn') /\ selected' \in Chars
  BY <1>3 DEF IInv
<1> QED
  BY <1>3, <1>17, <1>18, <1>19, <1>20, ReachedEnd

LEMMA RowsAreGood ==
  ASSUME IInv
  PROVE  GoodRows(rows, drifted) /\ rows \in Seq(RowSet) /\ Unlike(rows)
<1>1. PICK h : Run(h, rows, queue) /\ \A k \in 0 .. Len(queue) : GoodRows(h[k], drifted)
  BY DEF IInv, History
<1>2. Len(queue) \in Nat
  BY LenProperties DEF IInv
<1>3. 0 \in 0 .. Len(queue) /\ h[0] = rows
  BY <1>1, <1>2 DEF Run
<1>4. GoodRows(rows, drifted)
  BY <1>1, <1>3
<1> QED
  BY <1>4 DEF GoodRows

LEMMA PersistKeeps ==
  ASSUME IInv, Persist
  PROVE  IInv'
<1>1. /\ queue # <<>> /\ rows' = Applied(rows, Head(queue)) /\ queue' = Tail(queue)
      /\ items' = items /\ worn' = worn /\ total' = total /\ selected' = selected
      /\ online' = online /\ replaced' = replaced /\ drifted' = drifted
  BY DEF Persist
<1>2. online
  BY <1>1 DEF IInv
<1>3. PICK L : L = Len(queue)
  OBVIOUS
<1>4. PICK q : q = Tail(queue)
  OBVIOUS
<1>5. /\ queue \in Seq(Writes) /\ L \in Nat /\ L > 0 /\ L <= MaxQueue
      /\ q \in Seq(Writes) /\ Len(q) = L - 1
      /\ \A i \in 1 .. L - 1 : q[i] = queue[i + 1]
      /\ Head(queue) = queue[1]
  <2>1. queue \in Seq(Writes) /\ L <= MaxQueue
    BY <1>3 DEF IInv
  <2>2. L \in Nat /\ L # 0
    BY <1>1, <1>3, <2>1, EmptySeq
  <2>3. /\ q \in Seq(Writes) /\ Len(q) = L - 1
        /\ \A i \in 1 .. L - 1 : q[i] = queue[i + 1]
    BY <1>1, <1>3, <1>4, <2>1, HeadTailProperties
  <2> QED
    BY <2>1, <2>2, <2>3
<1>6. PICK h : /\ Run(h, rows, queue)
               /\ \A k \in 0 .. L : GoodRows(h[k], drifted)
               /\ Linked(h[L], Session)
  BY <1>2, <1>3 DEF IInv, History
<1>7. DOMAIN h = 0 .. L /\ h[0] = rows /\ \A k \in 1 .. L : h[k] = Applied(h[k - 1], queue[k])
  BY <1>3, <1>6 DEF Run
<1>8. PICK g : g = [k \in 0 .. L - 1 |-> h[k + 1]]
  OBVIOUS
<1>9. Run(g, rows', q)
  <2>1. g[0] = rows'
    <3>1. h[1] = Applied(h[0], queue[1])
      <4>1. 1 \in 1 .. L /\ 1 - 1 = 0
        BY <1>5
      <4> QED
        BY <1>7, <4>1
    <3>2. 0 \in 0 .. L - 1 /\ 0 + 1 = 1
      BY <1>5
    <3> QED
      BY <1>1, <1>5, <1>7, <1>8, <3>1, <3>2
  <2>2. \A k \in 1 .. L - 1 : g[k] = Applied(g[k - 1], q[k])
    <3> TAKE k \in 1 .. L - 1
    <3>1. k + 1 \in 1 .. L /\ k \in 0 .. L - 1 /\ k - 1 \in 0 .. L - 1 /\ k + 1 - 1 = k /\ k - 1 + 1 = k
      BY <1>5
    <3>2. h[k + 1] = Applied(h[k], queue[k + 1])
      BY <1>7, <3>1
    <3>3. g[k] = h[k + 1] /\ g[k - 1] = h[k] /\ q[k] = queue[k + 1]
      BY <1>5, <1>8, <3>1
    <3> QED
      BY <3>2, <3>3
  <2> QED
    BY <1>5, <1>8, <2>1, <2>2 DEF Run
<1>10. \A k \in 0 .. L - 1 : GoodRows(g[k], drifted)
  <2> TAKE k \in 0 .. L - 1
  <2>1. k + 1 \in 0 .. L
    BY <1>5
  <2> QED
    BY <1>6, <1>8, <2>1
<1>11. g[L - 1] = h[L]
  <2>1. L - 1 \in 0 .. L - 1 /\ L - 1 + 1 = L
    BY <1>5
  <2> QED
    BY <1>8, <2>1
<1>12. Session' = Session
  BY <1>1 DEF Session
<1>13. History'
  <2>1. queue' = q /\ Len(q) = L - 1 /\ drifted' = drifted
    BY <1>1, <1>4, <1>5
  <2>2. Linked(g[L - 1], Session')
    BY <1>6, <1>11, <1>12
  <2> QED
    BY <1>9, <1>10, <2>1, <2>2 DEF History
<1>14. queue' \in Seq(Writes) /\ Len(queue') <= MaxQueue
  <2>1. Len(q) <= MaxQueue
    BY <1>5, NumericAssumption
  <2> QED
    BY <1>1, <1>4, <1>5, <2>1
<1>15. selected' \in Chars /\ online' \in BOOLEAN /\ drifted' \in BOOLEAN /\ Counted(total', worn')
  BY <1>1 DEF IInv
<1> QED
  BY <1>1, <1>2, <1>13, <1>14, <1>15 DEF IInv

LEMMA AllFreeIs ==
  /\ AllFree \in [Chars -> [Types -> Slots]]
  /\ \A c \in Chars, t \in Types : AllFree[c][t].num = 0
  /\ Counted(0, AllFree)
<1>1. \A c \in Chars, t \in Types : AllFree[c][t] = Free /\ Free.num = 0
  BY DEF AllFree, Free
<1>2. AllFree \in [Chars -> [Types -> Slots]]
  BY DEF AllFree, Slots
<1>3. Occupied(AllFree) = {}
  BY <1>1 DEF Occupied, Slot
<1>4. Counted(0, AllFree)
  BY <1>3, FS_EmptySet DEF Counted
<1> QED
  BY <1>1, <1>2, <1>4

LEMMA NoSession ==
  ASSUME selected' \in Chars, drifted' \in BOOLEAN, online' = FALSE,
         items' = <<>>, worn' = AllFree, Counted(total', worn'), replaced' = {},
         queue' = <<>>, GoodRows(rows', drifted')
  PROVE  IInv'
<1>1. PICK h : /\ Run(h, rows', <<>>)
               /\ \A k \in 0 .. Len(<<>>) : GoodRows(h[k], drifted')
  BY NothingWaits
<1>2. History'
  BY <1>1 DEF History
<1>3. queue' \in Seq(Writes) /\ Len(queue') <= MaxQueue
  BY NumericAssumption, EmptySeq
<1> QED
  BY <1>2, <1>3 DEF IInv

LEMMA LogoutKeeps ==
  ASSUME IInv, Logout
  PROVE  IInv'
<1>1. /\ online' = FALSE /\ items' = <<>> /\ worn' = AllFree /\ total' = 0 /\ replaced' = {}
      /\ rows' = AllApplied(rows, queue) /\ queue' = <<>>
      /\ selected' = selected /\ drifted' = drifted
  BY DEF Logout, NoInventory
<1>2. PICK h : Run(h, rows, queue) /\ \A k \in 0 .. Len(queue) : GoodRows(h[k], drifted)
  BY DEF IInv, History
<1>3. Len(queue) \in Nat
  BY LenProperties DEF IInv
<1>4. Len(queue) \in 0 .. Len(queue)
  BY <1>3
<1>5. rows' = h[Len(queue)]
  BY <1>1, <1>2, <1>3, AllAppliedIs
<1>6. GoodRows(rows', drifted')
  BY <1>1, <1>2, <1>4, <1>5
<1>7. selected' \in Chars /\ drifted' \in BOOLEAN
  BY <1>1 DEF IInv
<1>8. Counted(total', worn')
  BY <1>1, AllFreeIs
<1> QED
  BY <1>1, <1>6, <1>7, <1>8, NoSession

LEMMA CrashKeeps ==
  ASSUME IInv, Crash
  PROVE  IInv'
<1>1. /\ online' = FALSE /\ items' = <<>> /\ worn' = AllFree /\ total' = 0 /\ replaced' = {}
      /\ rows' = rows /\ queue' = <<>>
      /\ selected' = selected /\ drifted' = drifted
  BY DEF Crash, NoInventory
<1>2. GoodRows(rows', drifted')
  BY <1>1, RowsAreGood
<1>3. selected' \in Chars /\ drifted' \in BOOLEAN
  BY <1>1 DEF IInv
<1>4. Counted(total', worn')
  BY <1>1, AllFreeIs
<1> QED
  BY <1>1, <1>2, <1>3, <1>4, NoSession

LEMMA ClearOfflineKeeps ==
  ASSUME IInv, ClearOffline
  PROVE  IInv'
<1>1. /\ ~online /\ rows' = <<>> /\ items' = items /\ worn' = worn /\ total' = total
      /\ selected' = selected /\ online' = online /\ queue' = queue
      /\ replaced' = replaced /\ drifted' = drifted
  BY DEF ClearOffline
<1>2. queue = <<>> /\ items = <<>> /\ worn = AllFree /\ replaced = {} /\ online' = FALSE
  BY <1>1 DEF IInv
<1>3. GoodRows(rows', drifted')
  <2>1. <<>> \in Seq(RowSet) /\ DOMAIN <<>> = {}
    OBVIOUS
  <2>2. GoodRows(<<>>, drifted)
    BY <2>1 DEF GoodRows, Unlike
  <2> QED
    BY <1>1, <2>2
<1>4. selected' \in Chars /\ drifted' \in BOOLEAN /\ Counted(total', worn')
  BY <1>1 DEF IInv
<1> QED
  BY <1>1, <1>2, <1>3, <1>4, NoSession

LEMMA GiveOfflineKeeps ==
  ASSUME IInv, NEW id \in Ids, GiveOffline(id)
  PROVE  IInv'
<1>1. PICK S, num : S = {rows[k].num : k \in DOMAIN rows} /\ num = 1 + Max(S \cup {0})
  OBVIOUS
<1>2. PICK row : row = [num |-> num, id |-> id, n |-> Amount(id), at |-> NoChar]
  OBVIOUS
<1>3. /\ ~online /\ num <= MaxNumber /\ rows' = Append(rows, row)
      /\ items' = items /\ worn' = worn /\ total' = total
      /\ selected' = selected /\ online' = online /\ queue' = queue
      /\ replaced' = replaced /\ drifted' = drifted
  BY <1>1, <1>2 DEF GiveOffline
<1>4. /\ rows \in Seq(RowSet) /\ Unlike(rows) /\ GoodRows(rows, drifted)
      /\ Len(rows) \in Nat /\ DOMAIN rows = 1 .. Len(rows)
      /\ \A k \in DOMAIN rows : rows[k] \in RowSet
  BY RowsAreGood, LenProperties
<1>5. \A k \in DOMAIN rows : rows[k].num \in Nums
  BY <1>4, RowFacts
<1>6. num \in Nums /\ \A k \in DOMAIN rows : rows[k].num # num
  <2>1. S \in SUBSET Nat /\ \A k \in S : k <= MaxNumber
    BY <1>1, <1>5, NumericAssumption DEF Nums
  <2>2. MaxNumber \in Nat
    BY NumericAssumption
  <2>3. \E m \in S \cup {0} : \A k \in S \cup {0} : k <= m
    BY <2>1, <2>2, GreatestNatural
  <2>4. PICK T : T = S \cup {0}
    OBVIOUS
  <2>5. PICK m : m = CHOOSE x \in T : \A y \in T : x >= y
    OBVIOUS
  <2>6. \E x \in T : \A y \in T : x >= y
    <3>1. PICK x \in T : \A y \in T : y <= x
      BY <2>3, <2>4
    <3>2. T \subseteq Nat
      BY <2>1, <2>4
    <3>3. \A y \in T : x >= y
      BY <3>1, <3>2
    <3> QED
      BY <3>1, <3>3
  <2>7. m \in T /\ \A y \in T : m >= y
    BY <2>5, <2>6
  <2>8. num = 1 + m
    BY <1>1, <2>4, <2>5 DEF Max
  <2>9. m \in Nat /\ \A y \in S : y \in Nat /\ m >= y
    BY <2>1, <2>4, <2>7
  <2>10. num \in Nums
    BY <1>3, <2>2, <2>8, <2>9 DEF Nums
  <2>11. \A y \in S : y # num
    BY <2>8, <2>9
  <2> QED
    BY <1>1, <2>10, <2>11
<1>7. row \in RowSet /\ row.num = num /\ row.at = NoChar
  <2>1. Amount(id) \in Amounts /\ (id \in Stocked => Amount(id) > 0)
    BY NumericAssumption DEF Amount, Amounts
  <2>2. Item(id, Amount(id)) \in Things
    BY <2>1 DEF Item, Things
  <2> QED
    BY <1>2, <1>6, <2>2, RowIs, CharAssumption
<1>8. PICK rs, n : rs = Append(rows, row) /\ n = Len(rows)
  OBVIOUS
<1>9. /\ rs \in Seq(RowSet) /\ Len(rs) = n + 1 /\ n \in Nat /\ DOMAIN rows = 1 .. n
      /\ \A k \in 1 .. n : rs[k] = rows[k]
      /\ rs[n + 1] = row
  BY <1>4, <1>7, <1>8, AppendProperties
<1>10. DOMAIN rs = 1 .. n + 1 /\ \A k \in DOMAIN rs : k \in DOMAIN rows \/ k = n + 1
  BY <1>9, LenProperties
<1>11. Unlike(rs)
  <2>1. ASSUME NEW j \in DOMAIN rs, NEW k \in DOMAIN rs, rs[j].num = rs[k].num
        PROVE  j = k
    <3>1. CASE j \in DOMAIN rows /\ k \in DOMAIN rows
      BY <1>4, <1>9, <2>1, <3>1 DEF Unlike
    <3>2. CASE j \in DOMAIN rows /\ k = n + 1
      BY <1>6, <1>7, <1>9, <2>1, <3>2
    <3>3. CASE j = n + 1 /\ k \in DOMAIN rows
      BY <1>6, <1>7, <1>9, <2>1, <3>3
    <3> QED
      BY <1>10, <3>1, <3>2, <3>3
  <2> QED
    BY <2>1 DEF Unlike
<1>12. drifted \/ \A j, k \in DOMAIN rs :
         rs[j].at \in Chars /\ rs[j].at = rs[k].at /\ TypeOf[rs[j].id] = SetType
           => TypeOf[rs[k].id] \notin SetParts
  <2>1. SUFFICES ASSUME ~drifted, NEW j \in DOMAIN rs, NEW k \in DOMAIN rs,
                        rs[j].at \in Chars, rs[j].at = rs[k].at, TypeOf[rs[j].id] = SetType
                 PROVE  TypeOf[rs[k].id] \notin SetParts
    OBVIOUS
  <2>2. j # n + 1 /\ k # n + 1
    BY <1>7, <1>9, <2>1, CharAssumption
  <2>3. j \in DOMAIN rows /\ k \in DOMAIN rows
    BY <1>10, <2>1, <2>2
  <2> QED
    BY <1>4, <1>9, <2>1, <2>3 DEF GoodRows
<1>13. GoodRows(rows', drifted')
  <2>1. GoodRows(rs, drifted)
    BY <1>9, <1>11, <1>12 DEF GoodRows
  <2> QED
    BY <1>3, <1>8, <2>1
<1>14. queue = <<>> /\ items = <<>> /\ worn = AllFree /\ replaced = {} /\ online' = FALSE
  BY <1>3 DEF IInv
<1>15. selected' \in Chars /\ drifted' \in BOOLEAN /\ Counted(total', worn')
  BY <1>3 DEF IInv
<1> QED
  BY <1>3, <1>13, <1>14, <1>15, NoSession

LEMMA InitHolds ==
  ASSUME Init
  PROVE  IInv
<1>1. /\ selected \in Chars /\ drifted = FALSE /\ online = FALSE /\ items = <<>> /\ worn = AllFree
      /\ total = 0 /\ replaced = {} /\ queue = <<>> /\ rows = <<>>
  BY DEF Init
<1>2. GoodRows(rows, drifted)
  <2>1. <<>> \in Seq(RowSet) /\ DOMAIN <<>> = {}
    OBVIOUS
  <2>2. GoodRows(<<>>, FALSE)
    BY <2>1 DEF GoodRows, Unlike
  <2> QED
    BY <1>1, <2>2
<1>3. PICK h : /\ Run(h, rows, <<>>)
               /\ \A k \in 0 .. Len(<<>>) : GoodRows(h[k], drifted)
  BY <1>2, NothingWaits
<1>4. History
  BY <1>1, <1>3 DEF History
<1>5. Counted(total, worn)
  BY <1>1, AllFreeIs
<1>6. queue \in Seq(Writes) /\ Len(queue) <= MaxQueue
  BY <1>1, NumericAssumption, EmptySeq
<1> QED
  BY <1>1, <1>4, <1>5, <1>6 DEF IInv

\* What a login reads of good rows: numbers from 1 on, and of what a
\* character wears of one type a single row.
LEMMA RenumberedFacts ==
  ASSUME NEW old, NEW d, GoodRows(old, d)
  PROVE  /\ GoodRows(Renumbered(old), d)
         /\ Len(Renumbered(old)) \in Nat /\ Len(Renumbered(old)) <= MaxNumber
         /\ \A k \in DOMAIN Renumbered(old) : Renumbered(old)[k].num = k
         /\ \A j, k \in DOMAIN Renumbered(old) :
              /\ Renumbered(old)[j].at \in Chars
              /\ Renumbered(old)[j].at = Renumbered(old)[k].at
              /\ TypeOf[Renumbered(old)[j].id] = TypeOf[Renumbered(old)[k].id]
              => j = k
<1>1. PICK n : n = Len(old)
  OBVIOUS
<1>2. /\ old \in Seq(RowSet) /\ Unlike(old) /\ n \in Nat /\ DOMAIN old = 1 .. n
      /\ \A k \in 1 .. n : old[k] \in RowSet
  BY <1>1, LenProperties DEF GoodRows
<1>3. n <= MaxNumber
  <2>1. PICK f : f = [k \in 1 .. n |-> old[k].num]
    OBVIOUS
  <2>2. \A k \in 1 .. n : f[k] \in Nums
    BY <1>2, <2>1, RowFacts
  <2>3. \A j, k \in 1 .. n : f[j] = f[k] => j = k
    BY <1>2, <2>1 DEF Unlike
  <2>4. f \in Injection(1 .. n, Nums)
    BY <2>1, <2>2, <2>3 DEF Injection, IsInjective
  <2>5. 1 \in Int /\ n \in Int /\ MaxNumber \in Int /\ MaxNumber \in Nat
    BY <1>2, NumericAssumption
  <2>6. IsFiniteSet(Nums) /\ Cardinality(Nums) = IF 1 > MaxNumber THEN 0 ELSE MaxNumber - 1 + 1
    BY <2>5, FS_Interval DEF Nums
  <2>7. Cardinality(1 .. n) = IF 1 > n THEN 0 ELSE n - 1 + 1
    BY <2>5, FS_Interval
  <2>8. Cardinality(1 .. n) <= Cardinality(Nums)
    BY <2>4, <2>6, FS_Injection
  <2> QED
    BY <1>2, <2>5, <2>6, <2>7, <2>8
<1>4. PICK rs : rs = Renumbered(old)
  OBVIOUS
<1>5. PICK at :
        at = [k \in 1 .. n |->
               IF \E j \in 1 .. k - 1 : old[j].at = old[k].at /\ TypeOf[old[j].id] = TypeOf[old[k].id]
               THEN NoChar ELSE old[k].at]
  OBVIOUS
<1>6. \A k \in 1 .. n : \/ at[k] = NoChar
                        \/ /\ at[k] = old[k].at
                           /\ \A j \in 1 .. k - 1 : ~(/\ old[j].at = old[k].at
                                                      /\ TypeOf[old[j].id] = TypeOf[old[k].id])
  BY <1>5
<1>7. rs = [k \in 1 .. n |-> [num |-> k, id |-> old[k].id, n |-> old[k].n, at |-> at[k]]]
  BY <1>2, <1>4, <1>5 DEF Renumbered
<1>8. \A k \in 1 .. n : /\ rs[k] = [num |-> k, id |-> old[k].id, n |-> old[k].n, at |-> at[k]]
                        /\ rs[k].num = k /\ rs[k].id = old[k].id /\ rs[k].at = at[k]
  BY <1>7
<1>9. \A k \in 1 .. n : rs[k] \in RowSet
  <2> TAKE k \in 1 .. n
  <2>1. PICK r : r = old[k]
    OBVIOUS
  <2>2. r \in RowSet
    BY <1>2, <2>1
  <2>3. /\ r.at \in Chars \cup {NoChar} /\ Item(r.id, r.n) \in Things
        /\ (r.at \in Chars => TypeOf[r.id] \in Types)
    BY <2>2, RowFacts
  <2>4. k \in Nums
    BY <1>2, <1>3, NumericAssumption DEF Nums
  <2>5. at[k] \in Chars \cup {NoChar} /\ (at[k] \in Chars => TypeOf[r.id] \in Types)
    BY <1>6, <2>1, <2>3, CharAssumption
  <2>6. [num |-> k, id |-> r.id, n |-> r.n, at |-> at[k]] \in RowSet
    BY <2>3, <2>4, <2>5, RowIs
  <2> QED
    BY <1>8, <2>1, <2>6
<1>10. rs \in Seq(RowSet) /\ DOMAIN rs = 1 .. n
  <2>1. rs \in [1 .. n -> RowSet]
    BY <1>7, <1>9
  <2> QED
    BY <1>2, <2>1
<1>11. Len(rs) = n
  BY <1>2, <1>10, LenProperties
<1>12. Unlike(rs)
  BY <1>8, <1>10 DEF Unlike
<1>13. \A j, k \in 1 .. n :
         rs[j].at \in Chars /\ rs[j].at = rs[k].at => old[j].at = rs[j].at /\ old[k].at = rs[j].at
  <2> TAKE j \in 1 .. n, k \in 1 .. n
  <2>1. HAVE rs[j].at \in Chars /\ rs[j].at = rs[k].at
  <2>2. PICK c \in Chars : c = rs[j].at /\ c = rs[k].at
    BY <2>1
  <2>3. at[j] = c /\ at[k] = c /\ c # NoChar
    BY <1>8, <2>2, CharAssumption
  <2>4. old[j].at = at[j]
    BY <1>6, <2>3
  <2>5. old[k].at = at[k]
    BY <1>6, <2>3
  <2> QED
    BY <2>2, <2>3, <2>4, <2>5
<1>14. d \/ \A j, k \in DOMAIN rs :
         rs[j].at \in Chars /\ rs[j].at = rs[k].at /\ TypeOf[rs[j].id] = SetType
           => TypeOf[rs[k].id] \notin SetParts
  <2>1. SUFFICES ASSUME ~d, NEW j \in DOMAIN rs, NEW k \in DOMAIN rs,
                        rs[j].at \in Chars, rs[j].at = rs[k].at, TypeOf[rs[j].id] = SetType
                 PROVE  TypeOf[rs[k].id] \notin SetParts
    OBVIOUS
  <2>2. old[j].at = rs[j].at /\ old[k].at = rs[j].at /\ rs[j].id = old[j].id /\ rs[k].id = old[k].id
    BY <1>8, <1>10, <1>13, <2>1
  <2>3. j \in DOMAIN old /\ k \in DOMAIN old
    BY <1>2, <1>10
  <2> QED
    BY <2>1, <2>2, <2>3 DEF GoodRows
<1>15. GoodRows(rs, d)
  BY <1>10, <1>12, <1>14 DEF GoodRows
<1>16. ASSUME NEW j \in 1 .. n, NEW k \in 1 .. n, j < k,
              rs[j].at \in Chars, rs[j].at = rs[k].at, TypeOf[rs[j].id] = TypeOf[rs[k].id]
       PROVE  FALSE
  <2>1. old[j].at = old[k].at /\ TypeOf[old[j].id] = TypeOf[old[k].id]
    BY <1>8, <1>13, <1>16
  <2>2. j \in 1 .. k - 1
    BY <1>2, <1>16
  <2>3. at[k] = NoChar
    BY <1>6, <2>1, <2>2
  <2> QED
    BY <1>8, <1>16, <2>3, CharAssumption
<1>17. \A j, k \in 1 .. n :
         rs[j].at \in Chars /\ rs[j].at = rs[k].at /\ TypeOf[rs[j].id] = TypeOf[rs[k].id] => j = k
  <2> TAKE j \in 1 .. n, k \in 1 .. n
  <2>1. HAVE rs[j].at \in Chars /\ rs[j].at = rs[k].at /\ TypeOf[rs[j].id] = TypeOf[rs[k].id]
  <2>2. ~(j < k) /\ ~(k < j)
    BY <1>16, <2>1
  <2> QED
    BY <1>2, <2>2
<1> QED
  BY <1>2, <1>3, <1>4, <1>8, <1>10, <1>11, <1>15, <1>17

\* The session that a login makes of such rows.
Worns(rs) ==
  [c \in Chars |-> [t \in Types |->
     LET on == {k \in DOMAIN rs : rs[k].at = c /\ TypeOf[rs[k].id] = t}
     IN  IF on = {} THEN Free
         ELSE LET k == CHOOSE k \in on : TRUE IN Wear(k, Item(rs[k].id, rs[k].n))]]

LEMMA WornsAre ==
  ASSUME NEW rs, NEW c \in Chars, NEW t \in Types
  PROVE  \/ /\ Worns(rs)[c][t] = Free
            /\ \A k \in DOMAIN rs : ~(rs[k].at = c /\ TypeOf[rs[k].id] = t)
         \/ \E k \in DOMAIN rs :
              /\ rs[k].at = c /\ TypeOf[rs[k].id] = t
              /\ Worns(rs)[c][t] = [num |-> k, id |-> rs[k].id, n |-> rs[k].n]
<1>1. PICK on : on = {k \in DOMAIN rs : rs[k].at = c /\ TypeOf[rs[k].id] = t}
  OBVIOUS
<1>2. PICK l : l = CHOOSE k \in on : TRUE
  OBVIOUS
<1>3. Worns(rs)[c][t] = IF on = {} THEN Free ELSE Wear(l, Item(rs[l].id, rs[l].n))
  BY <1>1, <1>2 DEF Worns
<1>4. Wear(l, Item(rs[l].id, rs[l].n)) = [num |-> l, id |-> rs[l].id, n |-> rs[l].n]
  BY DEF Wear, Item
<1>5. CASE on = {}
  BY <1>1, <1>3, <1>5
<1>6. CASE on # {}
  <2>1. l \in on
    BY <1>2, <1>6
  <2>2. l \in DOMAIN rs /\ rs[l].at = c /\ TypeOf[rs[l].id] = t
    BY <1>1, <2>1
  <2>3. Worns(rs)[c][t] = [num |-> l, id |-> rs[l].id, n |-> rs[l].n]
    BY <1>3, <1>4, <1>6
  <2> QED
    BY <2>2, <2>3
<1> QED
  BY <1>5, <1>6

\* The row k is what c wears of the type t.
IsWorn(rs, wn, c, t, k) ==
  /\ k \in DOMAIN rs /\ rs[k].at = c /\ TypeOf[rs[k].id] = t
  /\ wn[c][t].num = k
  /\ wn[c][t] = [num |-> k, id |-> rs[k].id, n |-> rs[k].n]

LEMMA LoginKeeps ==
  ASSUME IInv, Login
  PROVE  IInv'
<1>1. PICK rs, n : rs = Renumbered(rows) /\ n = Len(rs)
  OBVIOUS
<1>2. PICK it, wn, K :
        /\ it = [k \in {k \in DOMAIN rs : rs[k].at = NoChar} |-> Item(rs[k].id, rs[k].n)]
        /\ wn = Worns(rs)
        /\ K = {k \in DOMAIN rs : rs[k].at # NoChar}
  OBVIOUS
<1>3. /\ ~online /\ online' = TRUE /\ rows' = rs
      /\ items' = it /\ total' = Cardinality(K)
      /\ selected' = selected /\ queue' = queue /\ replaced' = replaced /\ drifted' = drifted
  BY <1>1, <1>2 DEF Login, LoginWith
<1>4. worn' = wn
  BY <1>1, <1>2 DEF Login, LoginWith, Worns
<1>5. queue = <<>> /\ replaced = {}
  BY <1>3 DEF IInv
<1>6. GoodRows(rows, drifted)
  BY RowsAreGood
<1>7. /\ GoodRows(rs, drifted) /\ n \in Nat /\ n <= MaxNumber
      /\ \A k \in DOMAIN rs : rs[k].num = k
      /\ \A j, k \in DOMAIN rs :
           rs[j].at \in Chars /\ rs[j].at = rs[k].at /\ TypeOf[rs[j].id] = TypeOf[rs[k].id] => j = k
  BY <1>1, <1>6, RenumberedFacts
<1>8. /\ rs \in Seq(RowSet) /\ Unlike(rs) /\ DOMAIN rs = 1 .. n /\ DOMAIN rs \subseteq Nums
      /\ \A k \in DOMAIN rs : rs[k] \in RowSet
  <2>1. rs \in Seq(RowSet) /\ Unlike(rs)
    BY <1>7 DEF GoodRows
  <2>2. DOMAIN rs = 1 .. n /\ \A k \in DOMAIN rs : rs[k] \in RowSet
    BY <1>1, <2>1, LenProperties
  <2>3. 1 .. n \subseteq Nums
    BY <1>7, NumericAssumption DEF Nums
  <2> QED
    BY <2>1, <2>2, <2>3
<1>9. \A k \in DOMAIN rs : /\ k # 0
                           /\ rs[k].id \in Ids /\ rs[k].n \in Amounts
                           /\ Item(rs[k].id, rs[k].n) \in Things
                           /\ rs[k].at \in Chars \cup {NoChar}
                           /\ rs[k].at \in Chars => TypeOf[rs[k].id] \in Types
  BY <1>8, RowFacts, Numbered
<1>10. PICK s : s = [items |-> it, worn |-> wn, replaced |-> {}, drifted |-> drifted]
  OBVIOUS
<1>11. s.items = it /\ s.worn = wn /\ s.replaced = {} /\ s.drifted = drifted
  BY <1>10
<1>12. /\ DOMAIN it = {k \in DOMAIN rs : rs[k].at = NoChar}
       /\ \A k \in DOMAIN it : it[k] = Item(rs[k].id, rs[k].n)
       /\ it = [k \in DOMAIN it |-> it[k]]
  BY <1>2
<1>13. \A c \in Chars, t \in Types :
         \/ /\ wn[c][t] = Free
            /\ \A k \in DOMAIN rs : ~(rs[k].at = c /\ TypeOf[rs[k].id] = t)
         \/ \E k \in DOMAIN rs :
              /\ rs[k].at = c /\ TypeOf[rs[k].id] = t
              /\ wn[c][t] = [num |-> k, id |-> rs[k].id, n |-> rs[k].n]
  BY <1>2, WornsAre
<1>14. ASSUME NEW c \in Chars, NEW t \in Types, wn[c][t].num # 0
       PROVE  \E k : IsWorn(rs, wn, c, t, k)
  <2>1. wn[c][t] # Free
    BY <1>14 DEF Free
  <2>2. PICK k \in DOMAIN rs :
          /\ rs[k].at = c /\ TypeOf[rs[k].id] = t
          /\ wn[c][t] = [num |-> k, id |-> rs[k].id, n |-> rs[k].n]
    BY <1>13, <2>1
  <2>3. wn[c][t].num = k
    BY <2>2
  <2>4. IsWorn(rs, wn, c, t, k)
    BY <2>2, <2>3 DEF IsWorn
  <2> QED
    BY <2>4
<1>15. SessionOK(s)
  <2>1. DOMAIN it \subseteq Nums /\ it \in [DOMAIN it -> Things]
    BY <1>8, <1>9, <1>12
  <2>2. wn \in [Chars -> [Types -> Slots]]
    <3>1. \A c \in Chars, t \in Types : wn[c][t] \in Slots
      <4> TAKE c \in Chars, t \in Types
      <4>1. CASE wn[c][t] = Free
        BY <4>1 DEF Slots
      <4>2. CASE wn[c][t] # Free
        <5>1. PICK k \in DOMAIN rs : wn[c][t] = [num |-> k, id |-> rs[k].id, n |-> rs[k].n]
          BY <1>13, <4>2
        <5>2. k \in Nums /\ rs[k].id \in Ids /\ rs[k].n \in Amounts
          BY <1>8, <1>9
        <5>3. [num |-> k, id |-> rs[k].id, n |-> rs[k].n] \in [num : Nums, id : Ids, n : Amounts]
          BY <5>2
        <5> QED
          BY <5>1, <5>3 DEF Slots
      <4> QED
        BY <4>1, <4>2
    <3>2. wn = [c \in Chars |-> [t \in Types |-> wn[c][t]]]
      BY <1>2 DEF Worns
    <3> QED
      BY <3>1, <3>2
  <2>3. ASSUME NEW c \in Chars, NEW t \in Types, wn[c][t].num # 0
        PROVE  TypeOf[wn[c][t].id] = t /\ Lay(wn[c][t]) \in Things
    <3>0. PICK k : IsWorn(rs, wn, c, t, k)
      BY <1>14, <2>3
    <3>1. k \in DOMAIN rs /\ TypeOf[rs[k].id] = t
      BY <3>0 DEF IsWorn
    <3>2. wn[c][t].id = rs[k].id /\ wn[c][t].n = rs[k].n
      BY <3>0 DEF IsWorn
    <3>3. Lay(wn[c][t]) = Item(rs[k].id, rs[k].n)
      BY <3>2 DEF Lay
    <3> QED
      BY <1>9, <3>1, <3>2, <3>3
  <2>4. ASSUME NEW c \in Chars, NEW t \in Types, wn[c][t].num \in DOMAIN it
        PROVE  FALSE
    <3>1. wn[c][t].num # 0
      BY <1>9, <1>12, <2>4
    <3>2. PICK k : IsWorn(rs, wn, c, t, k)
      BY <1>14, <3>1
    <3>3. rs[k].at = NoChar /\ rs[k].at = c
      BY <1>12, <2>4, <3>2 DEF IsWorn
    <3> QED
      BY <3>3, CharAssumption
  <2>5. ASSUME NEW c \in Chars, NEW d \in Chars, NEW t \in Types, NEW u \in Types,
               wn[c][t].num # 0, wn[c][t].num = wn[d][u].num
        PROVE  c = d /\ t = u
    <3>1. PICK j : IsWorn(rs, wn, c, t, j)
      BY <1>14, <2>5
    <3>2. wn[d][u].num # 0
      BY <2>5
    <3>3. PICK k : IsWorn(rs, wn, d, u, k)
      BY <1>14, <3>2
    <3> QED
      BY <2>5, <3>1, <3>3 DEF IsWorn
  <2>6. drifted \/ Bare(s)
    <3>1. SUFFICES ASSUME ~drifted, NEW c \in Chars, NEW p \in SetParts,
                          wn[c][SetType].num # 0, wn[c][p].num # 0
                   PROVE  FALSE
      BY <1>11 DEF Bare
    <3>2. SetType \in Types /\ p \in Types
      BY TypeAssumption, PartsAssumption
    <3>3. PICK j : IsWorn(rs, wn, c, SetType, j)
      BY <1>14, <3>1, <3>2
    <3>4. PICK k : IsWorn(rs, wn, c, p, k)
      BY <1>14, <3>1, <3>2
    <3>5. /\ j \in DOMAIN rs /\ rs[j].at = c /\ TypeOf[rs[j].id] = SetType
          /\ k \in DOMAIN rs /\ rs[k].at = c /\ TypeOf[rs[k].id] = p
      BY <3>3, <3>4 DEF IsWorn
    <3>6. TypeOf[rs[k].id] \notin SetParts
      BY <1>7, <3>1, <3>5 DEF GoodRows
    <3> QED
      BY <3>5, <3>6
  <2>7. drifted \in BOOLEAN
    BY DEF IInv
  <2>8. /\ DOMAIN s.items \subseteq Nums
        /\ s.items \in [DOMAIN s.items -> Things]
        /\ s.worn \in [Chars -> [Types -> Slots]]
        /\ \A c \in Chars, t \in Types : s.worn[c][t].num # 0 =>
             TypeOf[s.worn[c][t].id] = t /\ Lay(s.worn[c][t]) \in Things
        /\ s.replaced \subseteq Nums
        /\ \A c \in Chars, t \in Types : s.worn[c][t].num \notin DOMAIN s.items
        /\ \A c, d \in Chars, t, u \in Types :
             s.worn[c][t].num # 0 /\ s.worn[c][t].num = s.worn[d][u].num => c = d /\ t = u
    BY <1>11, <2>1, <2>2, <2>3, <2>4, <2>5
  <2>9. s.drifted \in BOOLEAN /\ (s.drifted \/ (s.replaced = {} /\ Bare(s)))
    BY <1>11, <2>6, <2>7
  <2> QED
    BY <2>8, <2>9 DEF SessionOK
<1>16. \A k \in DOMAIN rs : Describes(rs[k], s)
  <2> TAKE k \in DOMAIN rs
  <2>1. rs[k].num = k
    BY <1>7
  <2>2. CASE rs[k].at = NoChar
    <3>1. k \in DOMAIN it /\ it[k] = Item(rs[k].id, rs[k].n)
      BY <1>12, <2>2
    <3> QED
      BY <1>11, <2>1, <2>2, <3>1 DEF Describes
  <2>3. CASE rs[k].at # NoChar
    <3>1. PICK c \in Chars, t \in Types : c = rs[k].at /\ t = TypeOf[rs[k].id]
      BY <1>9, <2>3
    <3>2. PICK j \in DOMAIN rs :
            /\ rs[j].at = c /\ TypeOf[rs[j].id] = t
            /\ wn[c][t] = [num |-> j, id |-> rs[j].id, n |-> rs[j].n]
      BY <1>13, <3>1
    <3>3. j = k
      BY <1>7, <3>1, <3>2
    <3>4. wn[c][t] = [num |-> rs[k].num, id |-> rs[k].id, n |-> rs[k].n]
      BY <2>1, <3>2, <3>3
    <3> QED
      BY <1>11, <3>1, <3>4 DEF Describes
  <2> QED
    BY <2>2, <2>3
<1>17. Linked(rs, s)
  <2>1. \A num \in DOMAIN it : HasRow(rs, num)
    BY <1>7, <1>12 DEF HasRow
  <2>2. \A c \in Chars, t \in Types : wn[c][t].num # 0 => HasRow(rs, wn[c][t].num)
    <3> SUFFICES ASSUME NEW c \in Chars, NEW t \in Types, wn[c][t].num # 0
                 PROVE  HasRow(rs, wn[c][t].num)
      OBVIOUS
    <3>1. PICK k : IsWorn(rs, wn, c, t, k)
      BY <1>14
    <3>2. k \in DOMAIN rs /\ rs[k].num = wn[c][t].num
      BY <1>7, <3>1 DEF IsWorn
    <3> QED
      BY <3>2 DEF HasRow
  <2> QED
    BY <1>8, <1>11, <1>15, <1>16, <2>1, <2>2 DEF Linked
<1>18. Session' = s
  BY <1>3, <1>4, <1>5, <1>10 DEF Session
<1>19. History'
  <2>1. PICK h : /\ Run(h, rs, <<>>) /\ h[Len(<<>>)] = rs
                 /\ \A k \in 0 .. Len(<<>>) : GoodRows(h[k], drifted)
    BY <1>7, NothingWaits
  <2>2. Run(h, rows', queue') /\ \A k \in 0 .. Len(queue') : GoodRows(h[k], drifted')
    BY <1>3, <1>5, <2>1
  <2>3. Linked(h[Len(queue')], Session')
    BY <1>3, <1>5, <1>17, <1>18, <2>1
  <2> QED
    BY <2>2, <2>3 DEF History
<1>20. Counted(total', worn')
  <2>1. K \in SUBSET (1 .. n)
    BY <1>2, <1>8
  <2>2. IsFiniteSet(1 .. n)
    <3>1. 1 \in Int /\ n \in Int
      BY <1>7
    <3> QED
      BY <3>1, FS_Interval
  <2>3. IsFiniteSet(K) /\ Cardinality(K) \in Nat
    BY <2>1, <2>2, FS_Subset, FS_CardinalityType
  <2>4. PICK f : f = [at \in Occupied(wn) |-> wn[at[1]][at[2]].num]
    OBVIOUS
  <2>5. \A at \in Occupied(wn) : \E c \in Chars, t \in Types : at = <<c, t>> /\ wn[c][t].num # 0
    BY DEF Occupied, Slot
  <2>6. ASSUME NEW at \in Occupied(wn)
        PROVE  f[at] \in K
    <3>1. PICK c \in Chars, t \in Types : at = <<c, t>> /\ wn[c][t].num # 0
      BY <2>5
    <3>2. PICK k : IsWorn(rs, wn, c, t, k)
      BY <1>14, <3>1
    <3>3. k \in DOMAIN rs /\ rs[k].at = c /\ f[at] = k
      BY <2>4, <3>1, <3>2 DEF IsWorn
    <3> QED
      BY <1>2, <3>3, CharAssumption
  <2>7. ASSUME NEW at \in Occupied(wn), NEW at2 \in Occupied(wn), f[at] = f[at2]
        PROVE  at = at2
    <3>1. PICK c \in Chars, t \in Types : at = <<c, t>> /\ wn[c][t].num # 0
      BY <2>5
    <3>2. PICK d \in Chars, u \in Types : at2 = <<d, u>> /\ wn[d][u].num # 0
      BY <2>5
    <3>3. PICK j : IsWorn(rs, wn, c, t, j)
      BY <1>14, <3>1
    <3>4. PICK k : IsWorn(rs, wn, d, u, k)
      BY <1>14, <3>2
    <3>5. f[at] = j /\ f[at2] = k
      BY <2>4, <3>1, <3>2, <3>3, <3>4 DEF IsWorn
    <3> QED
      BY <2>7, <3>1, <3>2, <3>3, <3>4, <3>5 DEF IsWorn
  <2>8. f \in Injection(Occupied(wn), K)
    BY <2>4, <2>6, <2>7 DEF Injection, IsInjective
  <2>9. IsFiniteSet(Occupied(wn)) /\ Cardinality(Occupied(wn)) <= Cardinality(K)
    BY <2>3, <2>8, FS_Injection
  <2>10. Cardinality(Occupied(wn)) \in Nat
    BY <2>9, FS_CardinalityType
  <2>11. Counted(Cardinality(K), wn)
    BY <2>3, <2>9, <2>10 DEF Counted
  <2> QED
    BY <1>3, <1>4, <2>11
<1>21. selected' \in Chars /\ online' \in BOOLEAN /\ drifted' \in BOOLEAN
  BY <1>3 DEF IInv
<1>22. queue' \in Seq(Writes) /\ Len(queue') <= MaxQueue
  BY <1>3 DEF IInv
<1> QED
  BY <1>3, <1>19, <1>20, <1>21, <1>22 DEF IInv

-----------------------------------------------------------------------------
(* The invariant, and what follows from it.                                 *)

LEMMA StepKeeps ==
  ASSUME IInv, [Next]_vars
  PROVE  IInv'
<1>1. CASE Next
  <2>1. ASSUME NEW ids \in Lists, Receive(ids) PROVE IInv'
    BY <2>1, ListsAssumption, ReceiveKeeps
  <2>2. ASSUME NEW num \in 1 .. MaxNumber, Delete(num) PROVE IInv'
    BY <2>2, DeleteKeeps
  <2>3. ASSUME ClearInventory PROVE IInv'
    BY <2>3, ClearInventoryKeeps
  <2>4. ASSUME NEW num \in 1 .. MaxNumber, NEW ids \in Lists, OpenBox(num, ids) PROVE IInv'
    BY <2>4, ListsAssumption, OpenBoxKeeps
  <2>5. ASSUME NEW num \in 1 .. MaxNumber, OpenCashBox(num) PROVE IInv'
    BY <2>5, OpenCashBoxKeeps
  <2>6. ASSUME NEW num \in 1 .. MaxNumber, UseMatchItem(num) PROVE IInv'
    BY <2>6, UseMatchItemKeeps
  <2>7. ASSUME NEW num \in 1 .. MaxNumber, AddEnergy(num) PROVE IInv'
    BY <2>7, AddEnergyKeeps DEF Nums
  <2>8. ASSUME NEW num \in 1 .. MaxNumber, NEW id \in Ids, Replace(num, id) PROVE IInv'
    BY <2>8, ReplaceKeeps
  <2>9. ASSUME NEW num \in 1 .. MaxNumber, EquipItem(num) PROVE IInv'
    BY <2>9, EquipItemKeeps
  <2>10. ASSUME NEW t \in Types, UnequipItem(t) PROVE IInv'
    BY <2>10, UnequipItemKeeps
  <2>11. ASSUME NEW c \in Chars, NEW num \in 1 .. MaxNumber, SwitchItemEquip(c, num) PROVE IInv'
    BY <2>11, SwitchItemEquipKeeps
  <2>12. ASSUME NEW c \in Chars, SelectCharacter(c) PROVE IInv'
    BY <2>12, SelectCharacterKeeps
  <2>13. ASSUME Persist PROVE IInv'
    BY <2>13, PersistKeeps
  <2>14. ASSUME Logout PROVE IInv'
    BY <2>14, LogoutKeeps
  <2>15. ASSUME Crash PROVE IInv'
    BY <2>15, CrashKeeps
  <2>16. ASSUME Login PROVE IInv'
    BY <2>16, LoginKeeps
  <2>17. ASSUME NEW id \in Ids, GiveOffline(id) PROVE IInv'
    BY <2>17, GiveOfflineKeeps
  <2>18. ASSUME ClearOffline PROVE IInv'
    BY <2>18, ClearOfflineKeeps
  <2> QED
    BY <1>1, <2>1, <2>2, <2>3, <2>4, <2>5, <2>6, <2>7, <2>8, <2>9, <2>10, <2>11, <2>12,
       <2>13, <2>14, <2>15, <2>16, <2>17, <2>18 DEF Next
<1>2. CASE UNCHANGED vars
  BY <1>2 DEF vars, IInv, History, Session
<1> QED
  BY <1>1, <1>2

LEMMA InvariantHolds == Spec => []IInv
<1>1. Init => IInv
  BY InitHolds
<1>2. IInv /\ [Next]_vars => IInv'
  BY StepKeeps
<1> QED
  BY <1>1, <1>2, PTL DEF Spec

\* Without a session nothing lies in an inventory and nothing is worn.
LEMMA NothingOffline ==
  ASSUME IInv, ~online
  PROVE  items = <<>> /\ worn = AllFree /\ replaced = {}
BY DEF IInv

LEMMA TypeOKHolds ==
  ASSUME IInv
  PROVE  TypeOK
<1>1. /\ DOMAIN items \subseteq 1 .. MaxNumber
      /\ \A k \in DOMAIN items : items[k] \in [id : Ids, n : Amounts]
      /\ replaced \subseteq 1 .. MaxNumber
  <2>1. CASE online
    BY <2>1, SessionFacts DEF Nums, Things
  <2>2. CASE ~online
    BY <2>2, NothingOffline
  <2> QED
    BY <2>1, <2>2
<1>2. \A c \in Chars, t \in Types :
        \/ worn[c][t] = Free
        \/ /\ worn[c][t] \in [num : 1 .. MaxNumber, id : Ids, n : Amounts]
           /\ TypeOf[worn[c][t].id] = t
  <2> TAKE c \in Chars, t \in Types
  <2>1. CASE online /\ worn[c][t] # Free
    <3>1. worn[c][t] \in [num : Nums, id : Ids, n : Amounts]
      BY <2>1, SessionFacts DEF Slots
    <3>2. worn[c][t].num # 0
      BY <3>1, Numbered
    <3>3. TypeOf[worn[c][t].id] = t
      BY <2>1, <3>2, SessionFacts
    <3> QED
      BY <3>1, <3>3 DEF Nums
  <2>2. CASE ~online
    BY <2>2, NothingOffline DEF AllFree
  <2> QED
    BY <2>1, <2>2
<1>3. \A k \in DOMAIN rows :
        rows[k] \in [num : 1 .. MaxNumber, id : Ids, n : Amounts, at : Chars \cup {NoChar}]
  <2>1. rows \in Seq(RowSet)
    BY RowsAreGood
  <2>2. \A k \in DOMAIN rows : rows[k] \in RowSet
    BY <2>1, LenProperties
  <2> QED
    BY <2>2 DEF RowSet, Nums
<1>4. /\ total \in Nat /\ selected \in Chars /\ online \in BOOLEAN /\ Len(queue) <= MaxQueue
      /\ drifted \in BOOLEAN
  BY DEF IInv, Counted
<1> QED
  BY <1>1, <1>2, <1>3, <1>4 DEF TypeOK

LEMMA DistinctHolds ==
  ASSUME IInv
  PROVE  Distinct
<1>1. CASE online
  BY <1>1, SessionFacts DEF Distinct, Worn
<1>2. CASE ~online
  BY <1>2, NothingOffline, AllFreeIs DEF Distinct
<1> QED
  BY <1>1, <1>2

\* What the session has of an item that one of its rows describes.
LEMMA HeldIs ==
  ASSUME IInv, online, NEW rs, Linked(rs, Session), NEW k \in DOMAIN rs
  PROVE  /\ rs[k].num \in Numbers
         /\ Held(rs[k].num).id = rs[k].id /\ Held(rs[k].num).n = rs[k].n
         /\ Held(rs[k].num).at = rs[k].at \/ rs[k].num \in replaced
<1>1. PICK num, id, n, at : num = rs[k].num /\ id = rs[k].id /\ n = rs[k].n /\ at = rs[k].at
  OBVIOUS
<1>2. num \in Nums /\ num # 0
  <2>1. rs \in Seq(RowSet)
    BY DEF Linked
  <2>2. rs[k] \in RowSet
    BY <2>1, LenProperties
  <2> QED
    BY <1>1, <2>2, RowFacts, Numbered
<1>3. Describes(rs[k], Session)
  BY DEF Linked
<1>4. \/ /\ num \in DOMAIN items /\ items[num] = Item(id, n)
         /\ at = NoChar \/ num \in replaced
      \/ \E c \in Chars, t \in Types :
           /\ worn[c][t] = [num |-> num, id |-> id, n |-> n]
           /\ at = c \/ num \in replaced
  BY <1>1, <1>3, OnlineFacts DEF Describes
<1>5. CASE num \in DOMAIN items
  <2>1. \A c \in Chars, t \in Types : worn[c][t].num # num
    BY <1>5, SessionFacts
  <2>2. items[num] = Item(id, n) /\ (at = NoChar \/ num \in replaced)
    BY <1>4, <2>1
  <2>3. items[num].id = id /\ items[num].n = n
    BY <2>2 DEF Item
  <2>4. Held(num) = [num |-> num, id |-> id, n |-> n, at |-> NoChar]
    BY <1>5, <2>3 DEF Held
  <2>5. Held(num).id = id /\ Held(num).n = n /\ Held(num).at = NoChar
    BY <2>4
  <2>6. num \in Numbers
    BY <1>5 DEF Numbers
  <2> QED
    BY <1>1, <2>2, <2>5, <2>6
<1>6. CASE num \notin DOMAIN items
  <2>1. PICK c \in Chars, t \in Types :
          /\ worn[c][t] = [num |-> num, id |-> id, n |-> n]
          /\ at = c \/ num \in replaced
    BY <1>4, <1>6
  <2>2. worn[c][t].num = num
    BY <2>1
  <2>3. PICK x : x = CHOOSE y \in Chars \X Types : worn[y[1]][y[2]].num = num
    OBVIOUS
  <2>4. <<c, t>> \in Chars \X Types /\ <<c, t>>[1] = c /\ <<c, t>>[2] = t
    OBVIOUS
  <2>5. x \in Chars \X Types /\ worn[x[1]][x[2]].num = num
    BY <2>2, <2>3, <2>4
  <2>6. PICK d \in Chars, u \in Types : x = <<d, u>>
    BY <2>5
  <2>7. x[1] = d /\ x[2] = u
    BY <2>6
  <2>8. worn[d][u].num = num
    BY <2>5, <2>7
  <2>9. d = c /\ u = t
    BY <1>2, <2>2, <2>8, SessionFacts
  <2>10. x[1] = c /\ x[2] = t
    BY <2>7, <2>9
  <2>11. Held(num) = [num |-> num, id |-> worn[x[1]][x[2]].id, n |-> worn[x[1]][x[2]].n, at |-> x[1]]
    BY <1>6, <2>3 DEF Held
  <2>12. worn[c][t].id = id /\ worn[c][t].n = n
    BY <2>1
  <2>13. Held(num) = [num |-> num, id |-> id, n |-> n, at |-> c]
    BY <2>10, <2>11, <2>12
  <2>14. Held(num).id = id /\ Held(num).n = n /\ Held(num).at = c
    BY <2>13
  <2>15. num \in Numbers
    BY <1>2, <2>2 DEF Numbers, Worn
  <2> QED
    BY <1>1, <2>1, <2>14, <2>15
<1> QED
  BY <1>5, <1>6

\* The numbers of the rows are the numbers of the items, one row each.
LEMMA AsManyRows ==
  ASSUME IInv, online, NEW rs, Linked(rs, Session)
  PROVE  Len(rs) = Cardinality(Numbers)
<1>1. PICK n : n = Len(rs)
  OBVIOUS
<1>2. rs \in Seq(RowSet) /\ Unlike(rs)
  BY DEF Linked
<1>3. n \in Nat /\ DOMAIN rs = 1 .. n
  BY <1>1, <1>2, LenProperties
<1>4. PICK f : f = [k \in 1 .. n |-> rs[k].num]
  OBVIOUS
<1>5. \A k \in 1 .. n : f[k] \in Numbers
  BY <1>3, <1>4, HeldIs
<1>6. \A j, k \in 1 .. n : f[j] = f[k] => j = k
  BY <1>2, <1>3, <1>4 DEF Unlike
<1>7. ASSUME NEW num \in Numbers
      PROVE  \E k \in 1 .. n : f[k] = num
  <2>1. HasRow(rs, num)
    <3>1. CASE num \in DOMAIN items
      BY <3>1, OnlineFacts DEF Linked
    <3>2. CASE num \notin DOMAIN items
      <4>1. PICK c \in Chars, t \in Types : worn[c][t].num = num /\ num # 0
        BY <1>7, <3>2 DEF Numbers, Worn
      <4>2. Session.worn[c][t].num = num
        BY <4>1, OnlineFacts
      <4> QED
        BY <4>1, <4>2 DEF Linked
    <3> QED
      BY <3>1, <3>2
  <2>2. PICK k \in DOMAIN rs : rs[k].num = num
    BY <2>1 DEF HasRow
  <2> QED
    BY <1>3, <1>4, <2>2
<1>8. f \in Bijection(1 .. n, Numbers)
  BY <1>4, <1>5, <1>6, <1>7 DEF Bijection, Injection, IsInjective, Surjection
<1>9. IsFiniteSet(1 .. n) /\ Cardinality(1 .. n) = n
  <2>1. 1 \in Int /\ n \in Int
    BY <1>3
  <2>2. IsFiniteSet(1 .. n) /\ Cardinality(1 .. n) = IF 1 > n THEN 0 ELSE n - 1 + 1
    BY <2>1, FS_Interval
  <2> QED
    BY <1>3, <2>2
<1>10. ExistsBijection(1 .. n, Numbers)
  BY <1>8 DEF ExistsBijection
<1>11. Cardinality(Numbers) = n
  BY <1>9, <1>10, FS_Bijection
<1> QED
  BY <1>1, <1>11

LEMMA MirrorHolds ==
  ASSUME IInv
  PROVE  RowsMirrorItems
<1>1. Distinct
  BY DistinctHolds
<1>2. ASSUME online
      PROVE  LET after == AllApplied(rows, queue) IN
             /\ Len(after) = Cardinality(Numbers)
             /\ \A k \in DOMAIN after :
                  /\ after[k].num \in Numbers
                  /\ LET h == Held(after[k].num) IN
                       /\ h.id = after[k].id /\ h.n = after[k].n
                       /\ h.at = after[k].at \/ after[k].num \in replaced
  <2>1. PICK h : Run(h, rows, queue) /\ Linked(h[Len(queue)], Session)
    BY <1>2 DEF IInv, History
  <2>2. Len(queue) \in Nat
    BY LenProperties DEF IInv
  <2>3. PICK rs : rs = AllApplied(rows, queue)
    OBVIOUS
  <2>4. Linked(rs, Session)
    <3>1. rs = h[Len(queue)]
      BY <2>1, <2>2, <2>3, AllAppliedIs
    <3> QED
      BY <2>1, <3>1
  <2>5. Len(rs) = Cardinality(Numbers)
    BY <1>2, <2>4, AsManyRows
  <2>6. \A k \in DOMAIN rs :
          /\ rs[k].num \in Numbers
          /\ Held(rs[k].num).id = rs[k].id /\ Held(rs[k].num).n = rs[k].n
          /\ Held(rs[k].num).at = rs[k].at \/ rs[k].num \in replaced
    BY <1>2, <2>4, HeldIs
  <2> QED
    BY <2>3, <2>5, <2>6
<1> QED
  BY <1>1, <1>2 DEF RowsMirrorItems

LEMMA WornCountedHolds ==
  ASSUME IInv
  PROVE  WornCounted
BY DEF IInv, Counted, Occupied, Slot, WornCounted

LEMMA SetExclusiveHolds ==
  ASSUME IInv
  PROVE  SetExclusive
<1>1. CASE online
  <2>1. Session.drifted \/ Bare(Session)
    BY <1>1, OnlineFacts DEF SessionOK
  <2> QED
    BY <1>1, <2>1, OnlineFacts DEF Bare, SetExclusive
<1>2. CASE ~online
  <2>1. SetType \in Types
    BY TypeAssumption
  <2> QED
    BY <1>2, <2>1, NothingOffline, AllFreeIs DEF SetExclusive
<1> QED
  BY <1>1, <1>2

-----------------------------------------------------------------------------
(* Theorems.                                                                *)

\* Everything has its type: what lies in an inventory, what is worn (in the
\* slot of its type) and the rows, whatever requests, writes, logins, logouts
\* and deaths of Main happened.
THEOREM TypeCorrect == Spec => []TypeOK
<1>1. IInv => TypeOK
  BY TypeOKHolds
<1> QED
  BY <1>1, InvariantHolds, PTL

\* No two items of a session have one number, and when the writes that wait in
\* the scheduler are run, the rows of UserItems are the items of the session,
\* one row each, with the same id and amount, worn by the same character (but
\* for items that were replaced while worn): a login after a logout gives
\* neither fewer nor more.
THEOREM MirrorCorrect == Spec => []RowsMirrorItems
<1>1. IInv => RowsMirrorItems
  BY MirrorHolds
<1> QED
  BY <1>1, InvariantHolds, PTL

\* The counter of equipped items, which hasEnoughInventorySpace subtracts from
\* the space, is never below what the characters wear.
THEOREM WornCountedCorrect == Spec => []WornCounted
<1>1. IInv => WornCounted
  BY WornCountedHolds
<1> QED
  BY <1>1, InvariantHolds, PTL

\* As long as no item was replaced while it was worn, no character wears a set
\* and a part it covers, also after a crash between the writes of one request
\* and the login that reads the rows left then.
THEOREM SetsCorrect == Spec => []SetExclusive
<1>1. IInv => SetExclusive
  BY SetExclusiveHolds
<1> QED
  BY <1>1, InvariantHolds, PTL
=============================================================================
