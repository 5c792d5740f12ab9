---------------------------- MODULE Cast_proofs ----------------------------
(* Proofs about Cast, for any connections, accounts, rooms and ids.         *)
EXTENDS Cast, FiniteSetTheorems, SequenceTheorems, WellFoundedInduction, TLAPS

-----------------------------------------------------------------------------
(* Lists of connections that lose some of their entries.                    *)

\* t has entries of s, none of them more often.
Thinned(s, t) ==
  \E f \in [DOMAIN t -> DOMAIN s] :
    /\ \A i, j \in DOMAIN t : f[i] = f[j] => i = j
    /\ \A i \in DOMAIN t : t[i] = s[f[i]]

LEMMA ListFacts ==
  ASSUME NEW s \in Seq(Conns)
  PROVE  /\ Len(s) \in Nat /\ DOMAIN s = 1 .. Len(s)
         /\ \A i \in DOMAIN s : s[i] \in Conns
OBVIOUS

LEMMA LeastNatural ==
  ASSUME NEW T \in SUBSET Nat, T # {}
  PROVE  \E m \in T : \A n \in T : m <= n
<1> DEFINE R == {ss \in Nat \X Nat : ss[1] < ss[2]}
<1>1. IsWellFoundedOn(R, Nat)
  BY NatLessThanWellFounded DEF OpToRel
<1>2. PICK m \in T : \A n \in T : ~(<<n, m>> \in R)
  <2> HIDE DEF R
  <2> QED
    BY <1>1, WFMin
<1>3. \A n \in T : ~(n < m)
  BY <1>2
<1> QED
  BY <1>3

LEMMA RemovedAt ==
  ASSUME NEW s \in Seq(Conns), NEW k \in DOMAIN s
  PROVE  /\ RemoveAt(s, k) \in Seq(Conns) /\ Thinned(s, RemoveAt(s, k))
         /\ \A i \in DOMAIN s : i # k => \E j \in DOMAIN RemoveAt(s, k) : RemoveAt(s, k)[j] = s[i]
<1>1. PICK l \in Nat : l = Len(s)
  BY ListFacts
<1>2. DOMAIN s = 1 .. l /\ k \in 1 .. l
  BY <1>1, ListFacts
<1>3. PICK a : a = SubSeq(s, 1, k - 1)
  OBVIOUS
<1>4. PICK b : b = SubSeq(s, k + 1, l)
  OBVIOUS
<1>5. PICK t : t = a \o b
  OBVIOUS
<1>6. RemoveAt(s, k) = t
  BY <1>1, <1>3, <1>4, <1>5 DEF RemoveAt
<1>7. /\ a \in Seq(Conns) /\ Len(a) = k - 1
      /\ \A i \in 1 .. k - 1 : a[i] = s[i]
  BY <1>1, <1>2, <1>3, SubSeqProperties
<1>8. /\ b \in Seq(Conns) /\ Len(b) = l - k
      /\ \A i \in 1 .. l - k : b[i] = s[k + i]
  BY <1>1, <1>2, <1>4, SubSeqProperties
<1>9. /\ t \in Seq(Conns) /\ Len(t) = Len(a) + Len(b)
      /\ \A i \in 1 .. Len(a) + Len(b) : t[i] = IF i <= Len(a) THEN a[i] ELSE b[i - Len(a)]
  BY <1>5, <1>7, <1>8, ConcatProperties
<1>10. Len(a) + Len(b) = l - 1 /\ l - 1 \in Nat /\ DOMAIN t = 1 .. l - 1
  BY <1>2, <1>7, <1>8, <1>9, LenProperties
<1>11. ASSUME NEW i \in 1 .. l - 1
       PROVE  t[i] = s[IF i < k THEN i ELSE i + 1]
  <2>1. CASE i < k
    BY <1>2, <1>7, <1>9, <1>10, <2>1
  <2>2. CASE i >= k
    <3>1. t[i] = b[i - (k - 1)] /\ i - (k - 1) \in 1 .. l - k
      BY <1>2, <1>7, <1>9, <1>10, <2>2
    <3>2. k + (i - (k - 1)) = i + 1
      BY <1>2
    <3> QED
      BY <1>2, <1>8, <2>2, <3>1, <3>2
  <2> QED
    BY <1>2, <2>1, <2>2
<1>12. Thinned(s, t)
  <2>1. PICK f : f = [i \in 1 .. l - 1 |-> IF i < k THEN i ELSE i + 1]
    OBVIOUS
  <2>2. /\ f \in [DOMAIN t -> DOMAIN s]
        /\ \A i, j \in DOMAIN t : f[i] = f[j] => i = j
        /\ \A i \in DOMAIN t : f[i] = IF i < k THEN i ELSE i + 1
    BY <1>2, <1>10, <2>1
  <2>3. \A i \in DOMAIN t : t[i] = s[f[i]]
    BY <1>10, <1>11, <2>2
  <2> QED
    BY <2>2, <2>3 DEF Thinned
<1>13. ASSUME NEW i \in DOMAIN s, i # k
       PROVE  \E j \in DOMAIN t : t[j] = s[i]
  <2>1. CASE i < k
    BY <1>2, <1>10, <1>11, <2>1
  <2>2. CASE i > k
    <3>1. i - 1 \in 1 .. l - 1 /\ ~(i - 1 < k) /\ i - 1 + 1 = i
      BY <1>2, <2>2
    <3> QED
      BY <1>10, <1>11, <3>1
  <2> QED
    BY <1>2, <1>13, <2>1, <2>2
<1> QED
  BY <1>6, <1>9, <1>12, <1>13

\* The positions that stay are counted off in their order.
LEMMA KeptFacts ==
  ASSUME NEW s \in Seq(Conns), NEW S, S \subseteq DOMAIN s
  PROVE  /\ Kept(s, S) \in Seq(Conns) /\ Thinned(s, Kept(s, S))
         /\ \A j \in DOMAIN Kept(s, S) : \E k \in S : Kept(s, S)[j] = s[k]
         /\ \A k \in S : \E j \in DOMAIN Kept(s, S) : Kept(s, S)[j] = s[k]
<1>1. /\ Len(s) \in Nat /\ DOMAIN s = 1 .. Len(s) /\ \A i \in DOMAIN s : s[i] \in Conns
      /\ S \subseteq Nat
  BY ListFacts
<1>2. IsFiniteSet(S)
  <2>1. Len(s) \in Int /\ 1 \in Int
    BY <1>1
  <2>2. IsFiniteSet(1 .. Len(s))
    BY <2>1, FS_Interval
  <2> QED
    BY <1>1, <2>2, FS_Subset
<1>3. PICK n \in Nat : n = Cardinality(S)
  BY <1>2, FS_CardinalityType
<1> DEFINE upTo(k) == {l \in S : l <= k}
           rank == [k \in S |-> Cardinality(upTo(k))]
<1>4. \A k \in S : IsFiniteSet(upTo(k)) /\ Cardinality(upTo(k)) \in 1 .. n
  <2> TAKE k \in S
  <2>1. upTo(k) \in SUBSET S /\ k \in upTo(k)
    BY <1>1
  <2> HIDE DEF upTo
  <2>2. IsFiniteSet(upTo(k)) /\ Cardinality(upTo(k)) <= n /\ Cardinality(upTo(k)) \in Nat
    BY <1>2, <1>3, <2>1, FS_Subset, FS_CardinalityType
  <2>3. Cardinality(upTo(k)) # 0
    BY <2>1, <2>2, FS_EmptySet
  <2> QED
    BY <2>2, <2>3
<1>5. ASSUME NEW k \in S, NEW m \in S, Cardinality(upTo(k)) = Cardinality(upTo(m))
      PROVE  k = m
  <2>1. ASSUME NEW x \in S, NEW y \in S, x < y, Cardinality(upTo(x)) = Cardinality(upTo(y))
        PROVE  FALSE
    <3>1. upTo(x) \in SUBSET upTo(y) /\ y \in upTo(y) /\ y \notin upTo(x)
      BY <1>1, <2>1
    <3> HIDE DEF upTo
    <3> QED
      BY <1>4, <2>1, <3>1, FS_Subset
  <2> QED
    BY <1>1, <1>5, <2>1
<1>6. rank \in Injection(S, 1 .. n)
  BY <1>4, <1>5 DEF Injection, IsInjective
<1>7. \A j \in 1 .. n : \E k \in S : Cardinality(upTo(k)) = j
  <2>1. IsFiniteSet(1 .. n) /\ Cardinality(1 .. n) = n
    <3>1. 1 \in Int /\ n \in Int
      OBVIOUS
    <3>2. IsFiniteSet(1 .. n) /\ Cardinality(1 .. n) = IF 1 > n THEN 0 ELSE n - 1 + 1
      BY <3>1, FS_Interval
    <3> QED
      BY <3>2
  <2> HIDE DEF rank
  <2>2. rank \in Surjection(S, 1 .. n)
    BY <1>3, <1>6, <2>1, FS_Injection
  <2> QED
    BY <2>2 DEF Surjection, rank
<1> HIDE DEF upTo
<1>8. PICK f : f = [j \in 1 .. n |-> CHOOSE k \in S : Cardinality(upTo(k)) = j]
  OBVIOUS
<1>9. \A j \in 1 .. n : f[j] \in S /\ Cardinality(upTo(f[j])) = j
  BY <1>7, <1>8
<1>10. PICK t : t = [j \in 1 .. n |-> s[f[j]]]
  OBVIOUS
<1>11. Kept(s, S) = t
  BY <1>3, <1>8, <1>10 DEF Kept, upTo
<1>12. t \in [1 .. n -> Conns]
  BY <1>1, <1>9, <1>10
<1>13. t \in Seq(Conns) /\ DOMAIN t = 1 .. n
  BY <1>12
<1>14. Thinned(s, t)
  <2>1. f \in [DOMAIN t -> DOMAIN s]
    BY <1>8, <1>9, <1>13
  <2>2. \A i, j \in DOMAIN t : f[i] = f[j] => i = j
    BY <1>9, <1>13
  <2> QED
    BY <1>10, <1>13, <2>1, <2>2 DEF Thinned
<1>15. \A j \in DOMAIN t : \E k \in S : t[j] = s[k]
  BY <1>9, <1>10, <1>13
<1>16. ASSUME NEW k \in S
       PROVE  \E j \in DOMAIN t : t[j] = s[k]
  <2>1. PICK j \in 1 .. n : j = Cardinality(upTo(k))
    BY <1>4
  <2>2. f[j] = k
    BY <1>5, <1>9, <2>1
  <2> QED
    BY <1>10, <1>13, <2>2
<1> QED
  BY <1>11, <1>13, <1>14, <1>15, <1>16

-----------------------------------------------------------------------------
(* What the handlers share.                                                 *)

\* No two live entries of a list have one id.
Unlike(s) ==
  \A k, l \in DOMAIN s : Locks(s[k]) /\ Locks(s[l]) /\ cid[s[k]] = cid[s[l]] => k = l

LEMMA ThinnedFacts ==
  ASSUME NEW s, NEW t, Thinned(s, t)
  PROVE  Range(t) \subseteq Range(s) /\ (Unlike(s) => Unlike(t))
<1>1. PICK f \in [DOMAIN t -> DOMAIN s] :
        /\ \A i, j \in DOMAIN t : f[i] = f[j] => i = j
        /\ \A i \in DOMAIN t : t[i] = s[f[i]]
  BY DEF Thinned
<1>2. Range(t) \subseteq Range(s)
  BY <1>1 DEF Range
<1>3. ASSUME Unlike(s), NEW k \in DOMAIN t, NEW l \in DOMAIN t,
             Locks(t[k]), Locks(t[l]), cid[t[k]] = cid[t[l]]
      PROVE  k = l
  <2>1. f[k] \in DOMAIN s /\ f[l] \in DOMAIN s /\ t[k] = s[f[k]] /\ t[l] = s[f[l]]
    BY <1>1
  <2>2. f[k] = f[l]
    BY <1>3, <2>1 DEF Unlike
  <2> QED
    BY <1>1, <2>2
<1> QED
  BY <1>2, <1>3 DEF Unlike

LEMMA WithoutPlayerFacts ==
  ASSUME NEW s \in Seq(Conns), NEW i
  PROVE  /\ WithoutPlayer(s, i) \in Seq(Conns)
         /\ Range(WithoutPlayer(s, i)) \subseteq Range(s)
         /\ Unlike(s) => Unlike(WithoutPlayer(s, i))
         /\ \A d \in Range(s) : cid[d] # i => d \in Range(WithoutPlayer(s, i))
<1> DEFINE hits == {k \in DOMAIN s : Locks(s[k]) /\ cid[s[k]] = i}
<1>1. CASE hits = {}
  BY <1>1 DEF WithoutPlayer
<1>2. CASE hits # {}
  <2>1. hits \in SUBSET Nat
    BY ListFacts
  <2>2. PICK k : k = CHOOSE m \in hits : \A l \in hits : m <= l
    OBVIOUS
  <2>3. k \in hits
    BY <1>2, <2>1, <2>2, LeastNatural
  <2>4. WithoutPlayer(s, i) = RemoveAt(s, k)
    BY <1>2, <2>2 DEF WithoutPlayer
  <2>5. PICK t : t = RemoveAt(s, k)
    OBVIOUS
  <2>6. k \in DOMAIN s /\ cid[s[k]] = i
    BY <2>3
  <2>7. /\ t \in Seq(Conns) /\ Thinned(s, t)
        /\ \A m \in DOMAIN s : m # k => \E j \in DOMAIN t : t[j] = s[m]
    BY <2>5, <2>6, RemovedAt
  <2>8. \A d \in Range(s) : cid[d] # i => d \in Range(t)
    BY <2>6, <2>7 DEF Range
  <2> QED
    BY <2>4, <2>5, <2>7, <2>8, ThinnedFacts
<1> QED
  BY <1>1, <1>2

LEMMA AddPlayerFacts ==
  ASSUME NEW s \in Seq(Conns), Unlike(s), NEW c \in Conns
  PROVE  /\ AddPlayer(s, c) \in Seq(Conns) /\ AddPlayer(s, c) # <<>>
         /\ c \in Range(AddPlayer(s, c))
         /\ Range(AddPlayer(s, c)) \subseteq Range(s) \cup {c}
         /\ Unlike(AddPlayer(s, c))
         /\ \A d \in Range(s) : Locks(d) /\ cid[d] # cid[c] => d \in Range(AddPlayer(s, c))
<1>1. PICK S : S = {k \in DOMAIN s : Locks(s[k]) /\ cid[s[k]] # cid[c]}
  OBVIOUS
<1>2. PICK t : t = Kept(s, S)
  OBVIOUS
<1>3. PICK u : u = Append(t, c)
  OBVIOUS
<1>4. AddPlayer(s, c) = u
  BY <1>1, <1>2, <1>3 DEF AddPlayer
<1>5. /\ t \in Seq(Conns) /\ Thinned(s, t)
      /\ \A j \in DOMAIN t : \E k \in S : t[j] = s[k]
      /\ \A k \in S : \E j \in DOMAIN t : t[j] = s[k]
  <2>1. S \subseteq DOMAIN s
    BY <1>1
  <2> QED
    BY <1>2, <2>1, KeptFacts
<1>6. Unlike(t) /\ Range(t) \subseteq Range(s)
  BY <1>5, ThinnedFacts
<1>7. PICK l \in Nat : l = Len(t) /\ DOMAIN t = 1 .. l
  BY <1>5, ListFacts
<1>8. /\ u \in Seq(Conns) /\ DOMAIN u = 1 .. l + 1 /\ u # <<>>
      /\ \A j \in 1 .. l : u[j] = t[j]
      /\ u[l + 1] = c
  BY <1>3, <1>5, <1>7
<1>9. Range(u) \subseteq Range(t) \cup {c} /\ Range(t) \subseteq Range(u) /\ c \in Range(u)
  BY <1>7, <1>8 DEF Range
<1>10. ASSUME NEW k \in DOMAIN u, NEW m \in DOMAIN u,
              Locks(u[k]), Locks(u[m]), cid[u[k]] = cid[u[m]]
       PROVE  k = m
  <2>1. \A j \in 1 .. l : cid[u[j]] # cid[c]
    BY <1>1, <1>5, <1>7, <1>8
  <2>2. CASE k \in 1 .. l /\ m \in 1 .. l
    BY <1>6, <1>7, <1>8, <1>10, <2>2 DEF Unlike
  <2>3. CASE k = l + 1 \/ m = l + 1
    BY <1>8, <1>10, <2>1, <2>3
  <2> QED
    BY <1>8, <2>2, <2>3
<1>11. \A d \in Range(s) : Locks(d) /\ cid[d] # cid[c] => d \in Range(t)
  BY <1>1, <1>5 DEF Range
<1> QED
  BY <1>4, <1>6, <1>8, <1>9, <1>10, <1>11 DEF Unlike

LEMMA ReleasedFacts ==
  ASSUME NEW p \in Seq(Ids), IsInjective(p), NEW i
  PROVE  Released(p, i) \in Seq(Ids) /\ IsInjective(Released(p, i))
<1>1. CASE ~(i \in Ids /\ ~Contains(p, i))
  BY <1>1 DEF Released
<1>2. CASE i \in Ids /\ ~Contains(p, i)
  <2>1. PICK l \in Nat : l = Len(p) /\ DOMAIN p = 1 .. l
    OBVIOUS
  <2>2. PICK u : u = Append(p, i)
    OBVIOUS
  <2>3. /\ u \in Seq(Ids) /\ DOMAIN u = 1 .. l + 1
        /\ \A j \in 1 .. l : u[j] = p[j] /\ u[j] # i
        /\ u[l + 1] = i
    BY <1>2, <2>1, <2>2 DEF Contains
  <2>4. IsInjective(u)
    BY <2>1, <2>3 DEF IsInjective
  <2> QED
    BY <1>2, <2>2, <2>3, <2>4 DEF Released
<1> QED
  BY <1>1, <1>2

LEMMA RegisteredFacts ==
  ASSUME NEW c \in Conns, NEW i \in 0 .. MaxId,
         DOMAIN reg \subseteq Ids, \A j \in DOMAIN reg : reg[j] \in Conns
  PROVE  /\ DOMAIN Registered(c, i) \subseteq Ids
         /\ \A j \in DOMAIN Registered(c, i) : Registered(c, i)[j] \in Conns
         /\ DOMAIN reg \subseteq DOMAIN Registered(c, i)
         /\ i # 0 => i \in DOMAIN Registered(c, i)
<1>1. i # 0 => i \in Ids
  BY MaxIdAssumption DEF Ids
<1> QED
  BY <1>1 DEF Registered

-----------------------------------------------------------------------------
(* The inductive invariant.                                                 *)

HasAsked(c) == ~Identified(c) /\ stat[c] # "new"

\* A connection asks once, and is identified before it uses rooms.
Handshake ==
  /\ \A p \in posted : HasAsked(p.conn)
  /\ \A p, q \in posted : p.conn = q.conn => p = q
  /\ asking # NotAsking =>
       /\ asking.conn \in Conns /\ asking.account \in Accounts /\ HasAsked(asking.conn)
       /\ \A p \in posted : p.conn # asking.conn
  /\ \A c \in Conns : stat[c] = "new" => ~Identified(c) /\ cid[c] = 0
  /\ \A c \in Conns : Identified(c) => cid[c] \in Ids
  /\ \A c \in Conns : view[c] => Identified(c)

\* An id that was never shared has one connection at most.
Alone == \A i \in Ids \ shared : \A c, d \in Holders(i) : c = d

\* An identified connection is registered under its id, or another one is.
InRegistry ==
  \A c \in Conns : Identified(c) /\ stat[c] = "open" /\ cid[c] \notin shared
    => cid[c] \in DOMAIN reg

\* Rooms: sl maps ids to rooms, pl rooms to their entries.
RoomsGood(sl, pl) ==
  /\ sl \in [Ids -> Rooms \cup {NoRoom}] /\ pl \in [Rooms -> Seq(Conns)]
  /\ \A i \in Ids : sl[i] # NoRoom => pl[sl[i]] # <<>>
  /\ \A r \in Rooms : Unlike(pl[r])
  /\ \A r \in Rooms : \A d \in Range(pl[r]) : Identified(d)

\* The player of an id that has a room, unless a closed connection put it there:
\* open, in that room, and it knows it.
Placed ==
  \A i \in Ids : slot[i] # NoRoom /\ i \notin shared \cup strays =>
    /\ i \in DOMAIN reg
    /\ \E c \in Conns : /\ cid[c] = i /\ stat[c] = "open" /\ view[c]
                        /\ c \in Range(players[slot[i]])

IInv == TypeOK /\ Handshake /\ Alone /\ InRegistry /\ RoomsGood(slot, players) /\ Placed

LEMMA RemovedFromRoom ==
  ASSUME RoomsGood(slot, players), NEW i \in 0 .. MaxId, RemoveFromRoom(i)
  PROVE  /\ RoomsGood(slot', players')
         /\ i # 0 => slot'[i] = NoRoom
         /\ \A j \in Ids : slot'[j] # NoRoom => slot'[j] = slot[j]
         /\ \A j \in Ids : slot'[j] # NoRoom =>
              \A c \in Range(players[slot[j]]) : cid[c] # i => c \in Range(players'[slot[j]])
<1>1. CASE i = 0 \/ slot[i] = NoRoom
  BY <1>1 DEF RemoveFromRoom
<1>2. CASE i # 0 /\ slot[i] # NoRoom
  <2>1. i \in Ids /\ slot[i] \in Rooms
    BY <1>2, MaxIdAssumption DEF Ids, RoomsGood
  <2>2. PICK r \in Rooms : r = slot[i]
    BY <2>1
  <2>3. PICK left : left = WithoutPlayer(players[r], i)
    OBVIOUS
  <2>4. /\ players' = [players EXCEPT ![r] = left]
        /\ slot' = [j \in Ids |-> IF j = i \/ (left = <<>> /\ slot[j] = r) THEN NoRoom ELSE slot[j]]
    BY <1>2, <2>2, <2>3 DEF RemoveFromRoom
  <2>5. players \in [Rooms -> Seq(Conns)] /\ slot \in [Ids -> Rooms \cup {NoRoom}] /\ Unlike(players[r])
    BY <2>2 DEF RoomsGood
  <2>6. /\ left \in Seq(Conns) /\ Range(left) \subseteq Range(players[r]) /\ Unlike(left)
        /\ \A d \in Range(players[r]) : cid[d] # i => d \in Range(left)
    BY <2>3, <2>5, WithoutPlayerFacts
  <2>7. /\ players' \in [Rooms -> Seq(Conns)] /\ slot' \in [Ids -> Rooms \cup {NoRoom}]
        /\ players'[r] = left /\ \A x \in Rooms : x # r => players'[x] = players[x]
    BY <2>4, <2>5, <2>6
  <2>8. \A j \in Ids : slot'[j] # NoRoom =>
          /\ slot'[j] = slot[j] /\ slot[j] \in Rooms
          /\ slot[j] = r => left # <<>>
    BY <2>4, <2>5
  <2>9. \A j \in Ids : slot'[j] # NoRoom => players'[slot'[j]] # <<>>
    BY <2>7, <2>8 DEF RoomsGood
  <2>10. /\ \A x \in Rooms : Unlike(players'[x])
         /\ \A x \in Rooms : \A d \in Range(players'[x]) : Identified(d)
    BY <2>6, <2>7 DEF RoomsGood
  <2>11. \A j \in Ids : slot'[j] # NoRoom =>
           \A c \in Range(players[slot[j]]) : cid[c] # i => c \in Range(players'[slot[j]])
    BY <2>6, <2>7, <2>8
  <2>12. slot'[i] = NoRoom
    BY <2>1, <2>4
  <2> QED
    BY <2>7, <2>8, <2>9, <2>10, <2>11, <2>12 DEF RoomsGood
<1> QED
  BY <1>1, <1>2

\* What is true of the lists stays so while the connections in them keep their
\* ids, and none that is gone comes back.
LEMMA RoomsCarried ==
  ASSUME RoomsGood(slot', players'),
         \A c \in Conns : Identified(c) => Identified(c)' /\ cid'[c] = cid[c],
         \A c \in Conns : Locks(c)' => Locks(c)
  PROVE  RoomsGood(slot, players)'
<1>1. /\ slot' \in [Ids -> Rooms \cup {NoRoom}] /\ players' \in [Rooms -> Seq(Conns)]
      /\ \A i \in Ids : slot'[i] # NoRoom => players'[slot'[i]] # <<>>
  BY DEF RoomsGood
<1>2. \A r \in Rooms : \A k \in DOMAIN players'[r] :
        players'[r][k] \in Conns /\ players'[r][k] \in Range(players'[r])
  BY <1>1, ListFacts DEF Range
<1>3. \A r \in Rooms : \A d \in Range(players'[r]) : Identified(d) /\ d \in Conns
  BY <1>1, <1>2 DEF RoomsGood, Range
<1>4. \A r \in Rooms : \A d \in Range(players'[r]) : Identified(d)'
  BY <1>3
<1>5. ASSUME NEW r \in Rooms
      PROVE  Unlike(players[r])'
  <2>1. PICK s : s = players'[r]
    OBVIOUS
  <2>2. Unlike(s)
    BY <2>1 DEF RoomsGood
  <2>3. \A k \in DOMAIN s : s[k] \in Conns /\ Identified(s[k])
    BY <1>2, <1>3, <2>1
  <2>4. \A k \in DOMAIN s : cid'[s[k]] = cid[s[k]] /\ (stat'[s[k]] # "gone" => stat[s[k]] # "gone")
    BY <2>3 DEF Locks
  <2>5. \A k, l \in DOMAIN s :
          stat'[s[k]] # "gone" /\ stat'[s[l]] # "gone" /\ cid'[s[k]] = cid'[s[l]] => k = l
    BY <2>2, <2>4 DEF Unlike, Locks
  <2> QED
    BY <2>1, <2>5 DEF Unlike, Locks
<1> QED
  BY <1>1, <1>4, <1>5 DEF RoomsGood

-----------------------------------------------------------------------------
(* Steps of Main, and its answers.                                          *)

\* What Main does, and what it is asked and answers, is not about rooms.
LEMMA HeldByTheRest ==
  ASSUME IInv, UNCHANGED <<stat, cid, aid, pool, reg, slot, players, view, shared, strays>>
  PROVE  Alone' /\ InRegistry' /\ RoomsGood(slot, players)' /\ Placed'
<1>1. Alone'
  BY DEF IInv, Alone, Holders
<1>2. InRegistry'
  BY DEF IInv, InRegistry, Identified
<1>3. RoomsGood(slot, players)'
  BY DEF IInv, RoomsGood, Unlike, Locks, Identified
<1>4. Placed'
  BY DEF IInv, Placed
<1> QED
  BY <1>1, <1>2, <1>3, <1>4

LEMMA MainKeeps ==
  ASSUME IInv,
         \/ \E a \in Accounts : MainLogin(a) \/ MainLogout(a)
         \/ MainCloses
  PROVE  IInv'
<1>1. /\ UNCHANGED <<stat, cid, aid, pool, reg, slot, players, asking, posted, view, shared, strays>>
      /\ mainId' \in [Accounts -> 0 .. MaxId] /\ closeReqs' \subseteq closeReqs
  <2>1. mainId \in [Accounts -> 0 .. MaxId] /\ 0 \in 0 .. MaxId /\ Ids \subseteq 0 .. MaxId
    BY MaxIdAssumption DEF IInv, TypeOK, Ids
  <2>2. CASE \E a \in Accounts : MainLogin(a)
    BY <2>1, <2>2 DEF MainLogin
  <2>3. CASE \E a \in Accounts : MainLogout(a)
    BY <2>1, <2>3 DEF MainLogout
  <2>4. CASE MainCloses
    BY <2>1, <2>4 DEF MainCloses
  <2> QED
    BY <2>2, <2>3, <2>4
<1>2. TypeOK'
  BY <1>1 DEF IInv, TypeOK
<1>3. Handshake'
  BY <1>1 DEF IInv, Handshake, HasAsked, Identified
<1> QED
  BY <1>1, <1>2, <1>3, HeldByTheRest DEF IInv

LEMMA AnswerKeeps ==
  ASSUME IInv, NEW ids \in SUBSET (0 .. MaxId), Answer(ids)
  PROVE  IInv'
<1>1. PICK i \in ids :
        /\ posted' = posted \cup {[conn |-> asking.conn, account |-> asking.account, id |-> i]}
        /\ asking' = NotAsking /\ asking # NotAsking
        /\ UNCHANGED <<mainId, stat, cid, aid, pool, reg, slot, players, closeReqs, view, shared, strays>>
  BY DEF Answer
<1>2. PICK c \in Conns, a \in Accounts : c = asking.conn /\ a = asking.account
  BY <1>1 DEF IInv, Handshake
<1>3. PICK new : new = [conn |-> c, account |-> a, id |-> i]
  OBVIOUS
<1>4. /\ new \in [conn : Conns, account : Accounts, id : 0 .. MaxId] /\ new.conn = c
      /\ posted' = posted \cup {new}
  BY <1>1, <1>2, <1>3
<1>5. HasAsked(c) /\ \A p \in posted : p.conn # c
  BY <1>1, <1>2 DEF IInv, Handshake
<1>6. TypeOK'
  BY <1>1, <1>4 DEF IInv, TypeOK, NotAsking
<1>7. Handshake'
  <2>1. \A d : HasAsked(d)' <=> HasAsked(d)
    BY <1>1 DEF HasAsked, Identified
  <2>2. \A p \in posted' : HasAsked(p.conn)'
    BY <1>4, <1>5, <2>1 DEF IInv, Handshake
  <2>3. \A p, q \in posted' : p.conn = q.conn => p = q
    BY <1>4, <1>5 DEF IInv, Handshake
  <2>4. \A d \in Conns : /\ stat'[d] = "new" => ~Identified(d)' /\ cid'[d] = 0
                         /\ Identified(d)' => cid'[d] \in Ids
    BY <1>1 DEF IInv, Handshake, Identified
  <2>5. \A d \in Conns : view'[d] => Identified(d)'
    BY <1>1 DEF IInv, Handshake, Identified
  <2> QED
    BY <1>1, <2>2, <2>3, <2>4, <2>5 DEF Handshake
<1> QED
  BY <1>1, <1>6, <1>7, HeldByTheRest DEF IInv

LEMMA AskKeeps ==
  ASSUME IInv, NEW c \in Conns, NEW a \in Accounts, AskMain(c, a)
  PROVE  IInv'
<1>1. /\ UNCHANGED <<mainId, stat, cid, aid, pool, reg, slot, players, posted, closeReqs, view, shared, strays>>
      /\ asking' = [conn |-> c, account |-> a]
      /\ HasAsked(c) /\ \A p \in posted : p.conn # c
  BY DEF AskMain, HasAsked, Dispatched
<1>2. asking'.conn = c /\ asking'.account = a
  BY <1>1
<1>3. TypeOK'
  BY <1>1 DEF IInv, TypeOK
<1>4. Handshake'
  BY <1>1, <1>2 DEF IInv, Handshake, HasAsked, Identified
<1> QED
  BY <1>1, <1>3, <1>4, HeldByTheRest DEF IInv

-----------------------------------------------------------------------------
(* Steps of connections.                                                    *)

LEMMA PoolFacts ==
  ASSUME NEW p \in Seq(Ids), IsInjective(p), p # <<>>
  PROVE  Front(p) \in Seq(Ids) /\ IsInjective(Front(p)) /\ Last(p) \in Ids
<1>1. PICK l \in Nat : l = Len(p)
  OBVIOUS
<1>2. l # 0 /\ DOMAIN p = 1 .. l /\ \A i \in 1 .. l : p[i] \in Ids
  BY <1>1
<1>3. PICK f : f = SubSeq(p, 1, l - 1)
  OBVIOUS
<1>4. Front(p) = f
  BY <1>1, <1>3 DEF Front
<1>5. f \in Seq(Ids) /\ Len(f) = l - 1 /\ \A i \in 1 .. l - 1 : f[i] = p[i]
  BY <1>1, <1>2, <1>3, SubSeqProperties
<1>6. DOMAIN f = 1 .. l - 1
  BY <1>2, <1>5, LenProperties
<1>7. IsInjective(f)
  BY <1>2, <1>5, <1>6 DEF IsInjective
<1>8. Last(p) \in Ids
  BY <1>1, <1>2 DEF Last
<1> QED
  BY <1>4, <1>5, <1>7, <1>8

LEMMA AcceptKeeps ==
  ASSUME IInv, NEW c \in Conns, Accept(c)
  PROVE  IInv'
<1>1. /\ UNCHANGED <<mainId, aid, reg, slot, players, asking, posted, closeReqs, view, strays>>
      /\ stat[c] = "new" /\ asking = NotAsking
      /\ ~Identified(c) /\ cid[c] = 0
  BY DEF Accept, CastFree, IInv, Handshake
<1>2. PICK s \in {"open", "closed"}, i \in 0 .. MaxId :
        /\ stat' = [stat EXCEPT ![c] = s] /\ cid' = [cid EXCEPT ![c] = i]
        /\ pool' \in Seq(Ids) /\ IsInjective(pool')
        /\ shared' \subseteq Ids /\ shared \subseteq shared'
        /\ i \in Ids \ shared' => Holders(i) \subseteq {c}
  <2>1. /\ stat \in [Conns -> {"new", "open", "closing", "closed", "gone"}] /\ cid \in [Conns -> 0 .. MaxId]
        /\ pool \in Seq(Ids) /\ IsInjective(pool) /\ shared \subseteq Ids
    BY DEF IInv, TypeOK
  <2>2. CASE pool = <<>>
    <3>1. stat' = [stat EXCEPT ![c] = "closed"] /\ cid' = cid /\ pool' = pool /\ shared' = shared
      BY <2>2 DEF Accept
    <3>2. cid' = [cid EXCEPT ![c] = 0] /\ 0 \in 0 .. MaxId /\ 0 \notin Ids
      BY <1>1, <2>1, <3>1, MaxIdAssumption DEF Ids
    <3> QED
      BY <2>1, <3>1, <3>2
  <2>3. CASE pool # <<>>
    <3>1. PICK i : i = Last(pool)
      OBVIOUS
    <3>2. /\ stat' = [stat EXCEPT ![c] = "open"] /\ cid' = [cid EXCEPT ![c] = i]
          /\ pool' = Front(pool) /\ shared' = Sharing(c, i)
      BY <2>3, <3>1 DEF Accept
    <3>3. pool' \in Seq(Ids) /\ IsInjective(pool') /\ i \in Ids
      BY <2>1, <2>3, <3>1, <3>2, PoolFacts
    <3>4. /\ shared' \subseteq Ids /\ shared \subseteq shared'
          /\ i \in Ids \ shared' => Holders(i) \subseteq {c}
      BY <2>1, <3>2, <3>3 DEF Sharing
    <3>5. i \in 0 .. MaxId
      BY <3>3, MaxIdAssumption DEF Ids
    <3> QED
      BY <3>2, <3>3, <3>4, <3>5
  <2> QED
    BY <2>2, <2>3
<1>3. /\ stat \in [Conns -> {"new", "open", "closing", "closed", "gone"}] /\ cid \in [Conns -> 0 .. MaxId]
  BY DEF IInv, TypeOK
<1>4. /\ stat'[c] = s /\ cid'[c] = i
      /\ \A d \in Conns : d # c => stat'[d] = stat[d] /\ cid'[d] = cid[d]
  BY <1>2, <1>3
<1>5. TypeOK'
  BY <1>1, <1>2, <1>3 DEF IInv, TypeOK
<1>6. Handshake'
  <2>1. \A d : Identified(d)' <=> Identified(d)
    BY <1>1 DEF Identified
  <2>2. \A d \in Conns : HasAsked(d) => HasAsked(d)'
    BY <1>1, <1>4, <2>1 DEF HasAsked
  <2>3. \A p \in posted : p.conn \in Conns
    BY DEF IInv, TypeOK
  <2>4. \A p \in posted' : HasAsked(p.conn)'
    BY <1>1, <2>2, <2>3 DEF IInv, Handshake
  <2>5. \A d \in Conns : /\ stat'[d] = "new" => ~Identified(d)' /\ cid'[d] = 0
                         /\ Identified(d)' => cid'[d] \in Ids
    BY <1>1, <1>2, <1>4, <2>1 DEF IInv, Handshake
  <2>6. \A d \in Conns : view'[d] => Identified(d)'
    BY <1>1, <2>1 DEF IInv, Handshake
  <2>7. \A p, q \in posted' : p.conn = q.conn => p = q
    BY <1>1 DEF IInv, Handshake
  <2> QED
    BY <1>1, <2>4, <2>5, <2>6, <2>7 DEF Handshake
<1>7. Alone'
  BY <1>2, <1>4 DEF IInv, Alone, Holders
<1>8. InRegistry'
  BY <1>1, <1>2, <1>4 DEF IInv, InRegistry, Identified
<1>9. RoomsGood(slot, players)'
  <2>1. RoomsGood(slot', players')
    BY <1>1 DEF IInv
  <2>2. \A d \in Conns : Identified(d) => Identified(d)' /\ cid'[d] = cid[d]
    BY <1>1, <1>4 DEF Identified
  <2>3. \A d \in Conns : Locks(d)' => Locks(d)
    BY <1>1, <1>4 DEF Locks
  <2> QED
    BY <2>1, <2>2, <2>3, RoomsCarried
<1>10. Placed'
  <2> SUFFICES ASSUME NEW j \in Ids, slot'[j] # NoRoom, j \notin (shared \cup strays)'
               PROVE  /\ j \in DOMAIN reg'
                      /\ \E d \in Conns : /\ cid'[d] = j /\ stat'[d] = "open" /\ view'[d]
                                          /\ d \in Range(players'[slot'[j]])
    BY DEF Placed
  <2>1. slot[j] # NoRoom /\ j \notin shared \cup strays
    BY <1>1, <1>2
  <2>2. PICK d \in Conns : cid[d] = j /\ stat[d] = "open" /\ view[d] /\ d \in Range(players[slot[j]])
    BY <2>1 DEF IInv, Placed
  <2>3. cid'[d] = j /\ stat'[d] = "open" /\ d \in Range(players'[slot'[j]])
    BY <1>1, <1>4, <2>2
  <2>4. view'[d]
    BY <1>1, <2>2
  <2>5. j \in DOMAIN reg'
    BY <1>1, <2>1 DEF IInv, Placed
  <2> QED
    BY <2>3, <2>4, <2>5
<1> QED
  BY <1>5, <1>6, <1>7, <1>8, <1>9, <1>10 DEF IInv

LEMMA IdentifyKeeps ==
  ASSUME IInv, Identify
  PROVE  IInv'
<1>1. PICK p \in posted :
        /\ p.id # 0
        /\ posted' = posted \ {p}
        /\ aid' = [aid EXCEPT ![p.conn] = p.account]
        /\ cid' = [cid EXCEPT ![p.conn] = p.id]
        /\ pool' = IF cid[p.conn] = p.id THEN pool ELSE Released(pool, cid[p.conn])
        /\ reg' = Registered(p.conn, p.id)
        /\ shared' = Sharing(p.conn, p.id)
  BY DEF Identify
<1>2. asking = NotAsking /\ UNCHANGED <<mainId, stat, slot, players, asking, closeReqs, view, strays>>
  BY DEF Identify, CastFree
<1>3. PICK c \in Conns, a \in Accounts \cup {NoAccount}, i \in 0 .. MaxId :
        c = p.conn /\ a = p.account /\ i = p.id
  BY DEF IInv, TypeOK
<1>4. /\ aid' = [aid EXCEPT ![c] = a] /\ cid' = [cid EXCEPT ![c] = i]
      /\ reg' = Registered(c, i) /\ shared' = Sharing(c, i)
      /\ pool' = IF cid[c] = i THEN pool ELSE Released(pool, cid[c])
      /\ i \in Ids
  BY <1>1, <1>3, MaxIdAssumption DEF Ids
<1>5. /\ ~Identified(c) /\ stat[c] # "new"
      /\ \A q \in posted' : q.conn # c
  BY <1>1, <1>3 DEF IInv, Handshake, HasAsked
<1>6. /\ aid \in [Conns -> Accounts \cup {NoAccount}] /\ cid \in [Conns -> 0 .. MaxId]
      /\ pool \in Seq(Ids) /\ IsInjective(pool) /\ shared \subseteq Ids
      /\ DOMAIN reg \subseteq Ids /\ \A j \in DOMAIN reg : reg[j] \in Conns
  BY DEF IInv, TypeOK
<1>7. /\ aid'[c] = a /\ cid'[c] = i
      /\ \A d \in Conns : d # c => aid'[d] = aid[d] /\ cid'[d] = cid[d]
  BY <1>4, <1>6
<1>8. /\ DOMAIN reg' \subseteq Ids /\ \A j \in DOMAIN reg' : reg'[j] \in Conns
      /\ DOMAIN reg \subseteq DOMAIN reg' /\ i \in DOMAIN reg'
  BY <1>1, <1>3, <1>4, <1>6, RegisteredFacts
<1>9. /\ shared \subseteq shared' /\ shared' \subseteq Ids
      /\ i \notin shared' => Holders(i) \subseteq {c}
  BY <1>4, <1>6 DEF Sharing
<1>10. TypeOK'
  <2>1. pool' \in Seq(Ids) /\ IsInjective(pool')
    BY <1>4, <1>6, ReleasedFacts
  <2>2. aid' \in [Conns -> Accounts \cup {NoAccount}] /\ cid' \in [Conns -> 0 .. MaxId]
    BY <1>4, <1>6
  <2> QED
    BY <1>1, <1>2, <1>8, <1>9, <2>1, <2>2 DEF IInv, TypeOK
<1>11. Handshake'
  <2>1. \A d \in Conns : d # c => (Identified(d)' <=> Identified(d))
    BY <1>7 DEF Identified
  <2>2. \A q \in posted' : q \in posted /\ q.conn \in Conns /\ q.conn # c
    BY <1>1, <1>5 DEF IInv, TypeOK
  <2>3. \A q \in posted' : HasAsked(q.conn)'
    BY <1>2, <2>1, <2>2 DEF IInv, Handshake, HasAsked
  <2>4. \A d \in Conns : /\ stat'[d] = "new" => ~Identified(d)' /\ cid'[d] = 0
                         /\ Identified(d)' => cid'[d] \in Ids
    BY <1>2, <1>4, <1>5, <1>7, <2>1 DEF IInv, Handshake
  <2>5. ~view[c]
    BY <1>5 DEF IInv, Handshake
  <2>6. \A d \in Conns : view'[d] => Identified(d)'
    BY <1>2, <2>1, <2>5 DEF IInv, Handshake
  <2>7. \A q, r \in posted' : q.conn = r.conn => q = r
    BY <2>2 DEF IInv, Handshake
  <2> QED
    BY <1>2, <2>3, <2>4, <2>6, <2>7 DEF Handshake
<1>12. Alone'
  BY <1>2, <1>7, <1>9 DEF IInv, Alone, Holders
<1>13. InRegistry'
  BY <1>2, <1>7, <1>8, <1>9 DEF IInv, InRegistry, Identified
<1>14. RoomsGood(slot, players)'
  <2>1. RoomsGood(slot', players')
    BY <1>2 DEF IInv
  <2>2. \A d \in Conns : Identified(d) => Identified(d)' /\ cid'[d] = cid[d]
    BY <1>5, <1>7 DEF Identified
  <2>3. \A d \in Conns : Locks(d)' => Locks(d)
    BY <1>2 DEF Locks
  <2> QED
    BY <2>1, <2>2, <2>3, RoomsCarried
<1>15. Placed'
  <2> SUFFICES ASSUME NEW j \in Ids, slot'[j] # NoRoom, j \notin (shared \cup strays)'
               PROVE  /\ j \in DOMAIN reg'
                      /\ \E d \in Conns : /\ cid'[d] = j /\ stat'[d] = "open" /\ view'[d]
                                          /\ d \in Range(players'[slot'[j]])
    BY DEF Placed
  <2>1. slot[j] # NoRoom /\ j \notin shared \cup strays
    BY <1>2, <1>9
  <2>2. PICK d \in Conns : cid[d] = j /\ stat[d] = "open" /\ view[d] /\ d \in Range(players[slot[j]])
    BY <2>1 DEF IInv, Placed
  <2>3. d # c
    BY <1>5, <2>2 DEF IInv, Handshake
  <2>4. cid'[d] = j /\ stat'[d] = "open" /\ d \in Range(players'[slot'[j]])
    BY <1>2, <1>7, <2>2, <2>3
  <2>5. view'[d]
    BY <1>2, <2>2
  <2>6. j \in DOMAIN reg'
    BY <1>8, <2>1 DEF IInv, Placed
  <2> QED
    BY <2>4, <2>5, <2>6
<1> QED
  BY <1>10, <1>11, <1>12, <1>13, <1>14, <1>15 DEF IInv

LEMMA PingKeeps ==
  ASSUME IInv, NEW c \in Conns, Ping(c)
  PROVE  IInv'
<1>1. /\ reg' = Registered(c, cid[c])
      /\ UNCHANGED <<mainId, stat, cid, aid, pool, slot, players, asking, posted, closeReqs, view, shared, strays>>
  BY DEF Ping
<1>2. /\ cid[c] \in 0 .. MaxId
      /\ DOMAIN reg \subseteq Ids /\ \A j \in DOMAIN reg : reg[j] \in Conns
  BY DEF IInv, TypeOK
<1>3. /\ DOMAIN reg' \subseteq Ids /\ \A j \in DOMAIN reg' : reg'[j] \in Conns
      /\ DOMAIN reg \subseteq DOMAIN reg'
  BY <1>1, <1>2, RegisteredFacts
<1>4. TypeOK'
  BY <1>1, <1>3 DEF IInv, TypeOK
<1>5. Handshake'
  BY <1>1 DEF IInv, Handshake, HasAsked, Identified
<1>6. Alone'
  BY <1>1 DEF IInv, Alone, Holders
<1>7. InRegistry'
  BY <1>1, <1>3 DEF IInv, InRegistry, Identified
<1>8. RoomsGood(slot, players)'
  BY <1>1 DEF IInv, RoomsGood, Unlike, Locks, Identified
<1>9. Placed'
  BY <1>1, <1>3 DEF IInv, Placed
<1> QED
  BY <1>4, <1>5, <1>6, <1>7, <1>8, <1>9 DEF IInv

\* A session that is closed leaves the registry and its room under its id.  If
\* another one has that id, then it was shared.
LEMMA ClosedSocket ==
  ASSUME IInv, NEW c \in Conns, stat[c] = "open", CloseSocket(c), KeepStrays(strays),
         UNCHANGED <<cid, aid, view, shared>>
  PROVE  /\ stat' \in [Conns -> {"new", "open", "closing", "closed", "gone"}]
         /\ pool' \in Seq(Ids) /\ IsInjective(pool')
         /\ DOMAIN reg' \subseteq Ids /\ \A i \in DOMAIN reg' : reg'[i] \in Conns
         /\ slot' \in [Ids -> Rooms \cup {NoRoom}] /\ players' \in [Rooms -> Seq(Conns)]
         /\ strays' \subseteq Ids
         /\ \A d \in Conns : stat'[d] = "new" <=> stat[d] = "new"
         /\ Alone' /\ InRegistry' /\ RoomsGood(slot, players)' /\ Placed'
<1>1. /\ stat \in [Conns -> {"new", "open", "closing", "closed", "gone"}] /\ cid \in [Conns -> 0 .. MaxId]
      /\ pool \in Seq(Ids) /\ IsInjective(pool)
      /\ DOMAIN reg \subseteq Ids /\ \A j \in DOMAIN reg : reg[j] \in Conns
  BY DEF IInv, TypeOK
<1>2. PICK i \in 0 .. MaxId : i = cid[c]
  BY <1>1
<1>3. PICK s \in {"closing", "closed"} : stat' = [stat EXCEPT ![c] = s]
  BY DEF CloseSocket, Closed
<1>16. /\ strays' = {j \in strays : slot'[j] # NoRoom} /\ strays' \subseteq Ids
  BY DEF KeepStrays, IInv, TypeOK
<1>17. /\ reg' = [j \in DOMAIN reg \ {i} |-> reg[j]]
      /\ pool' = Released(pool, i)
      /\ IF i \in DOMAIN reg THEN RemoveFromRoom(i) ELSE UNCHANGED <<slot, players>>
  BY <1>2 DEF CloseSocket
<1>4. /\ stat' \in [Conns -> {"new", "open", "closing", "closed", "gone"}]
      /\ stat'[c] \in {"closing", "closed"} /\ \A d \in Conns : d # c => stat'[d] = stat[d]
  BY <1>1, <1>3
<1>5. pool' \in Seq(Ids) /\ IsInjective(pool')
  BY <1>1, <1>17, ReleasedFacts
<1>6. /\ DOMAIN reg' \subseteq Ids /\ \A j \in DOMAIN reg' : reg'[j] \in Conns
      /\ DOMAIN reg' = DOMAIN reg \ {i}
  BY <1>1, <1>17
<1>7. RoomsGood(slot, players) /\ 0 \notin DOMAIN reg
  BY <1>1, MaxIdAssumption DEF IInv, Ids
<1>8. /\ RoomsGood(slot', players')
      /\ \A j \in Ids : slot'[j] # NoRoom =>
           \A d \in Range(players[slot[j]]) : cid[d] # i => d \in Range(players'[slot[j]])
  BY <1>17, <1>7, RemovedFromRoom
<1>9. \A j \in Ids : slot'[j] # NoRoom /\ j \in DOMAIN reg => slot'[j] = slot[j] /\ j # i
  BY <1>17, <1>7, RemovedFromRoom
<1>10. Alone'
  BY <1>4 DEF IInv, Alone, Holders
<1>11. InRegistry'
  <2> SUFFICES ASSUME NEW d \in Conns, Identified(d), stat'[d] = "open", cid[d] \notin shared
               PROVE  cid[d] \in DOMAIN reg'
    BY DEF InRegistry, Identified
  <2>1. d # c /\ stat[d] = "open"
    BY <1>4
  <2>2. cid[d] \in Ids /\ cid[d] \in DOMAIN reg
    BY <2>1 DEF IInv, Handshake, InRegistry
  <2>3. cid[d] # i
    BY <1>2, <2>1, <2>2 DEF IInv, Alone, Holders
  <2> QED
    BY <1>6, <2>2, <2>3
<1>12. RoomsGood(slot, players)'
  <2>1. \A d \in Conns : Identified(d) => Identified(d)' /\ cid'[d] = cid[d]
    BY DEF Identified
  <2>2. \A d \in Conns : Locks(d)' => Locks(d)
    BY <1>4 DEF Locks
  <2> QED
    BY <1>8, <2>1, <2>2, RoomsCarried
<1>13. Placed'
  <2> SUFFICES ASSUME NEW j \in Ids, slot'[j] # NoRoom, j \notin (shared \cup strays)'
               PROVE  /\ j \in DOMAIN reg'
                      /\ \E d \in Conns : /\ cid'[d] = j /\ stat'[d] = "open" /\ view'[d]
                                          /\ d \in Range(players'[slot'[j]])
    BY DEF Placed
  <2>1. slot[j] # NoRoom /\ j \notin shared \cup strays
    BY <1>16, <1>17, <1>7, RemovedFromRoom
  <2>2. j \in DOMAIN reg
    BY <2>1 DEF IInv, Placed
  <2>3. slot'[j] = slot[j] /\ j # i
    BY <1>9, <2>2
  <2>4. PICK d \in Conns : cid[d] = j /\ stat[d] = "open" /\ view[d] /\ d \in Range(players[slot[j]])
    BY <2>1 DEF IInv, Placed
  <2>5. cid'[d] = j /\ stat'[d] = "open" /\ d \in Range(players'[slot'[j]])
    BY <1>2, <1>4, <1>8, <2>2, <2>3, <2>4
  <2>6. view'[d]
    BY <2>4
  <2> QED
    BY <1>6, <2>2, <2>3, <2>5, <2>6
<1>14. slot' \in [Ids -> Rooms \cup {NoRoom}] /\ players' \in [Rooms -> Seq(Conns)]
  BY <1>8 DEF RoomsGood
<1>15. \A d \in Conns : stat'[d] = "new" <=> stat[d] = "new"
  BY <1>4
<1> QED
  BY <1>4, <1>5, <1>6, <1>10, <1>11, <1>12, <1>13, <1>14, <1>15, <1>16

\* Neither a closed session nor a used answer makes a new connection.
LEMMA StillAsked ==
  ASSUME Handshake, TypeOK, posted' \subseteq posted, UNCHANGED <<asking, aid, cid, view>>,
         \A d \in Conns : stat'[d] = "new" <=> stat[d] = "new"
  PROVE  Handshake'
<1>1. \A d : Identified(d)' <=> Identified(d)
  BY DEF Identified
<1>2. \A d \in Conns : HasAsked(d) => HasAsked(d)'
  BY <1>1 DEF HasAsked
<1>3. \A p \in posted : p.conn \in Conns
  BY DEF TypeOK
<1>4. \A p \in posted' : HasAsked(p.conn)'
  BY <1>2, <1>3 DEF Handshake
<1>5. \A p, q \in posted' : p.conn = q.conn => p = q
  BY DEF Handshake
<1>6. asking' # NotAsking =>
        /\ asking'.conn \in Conns /\ asking'.account \in Accounts /\ HasAsked(asking'.conn)
        /\ \A p \in posted' : p.conn # asking'.conn
  BY DEF Handshake
<1>7. \A d \in Conns : /\ stat'[d] = "new" => ~Identified(d)' /\ cid'[d] = 0
                       /\ Identified(d)' => cid'[d] \in Ids
  BY <1>1 DEF Handshake
<1>8. \A d \in Conns : view'[d] => Identified(d)'
  BY <1>1 DEF Handshake
<1>9. asking' # NotAsking => HasAsked(asking.conn)'
  BY <1>2, <1>6
<1> QED
  BY <1>4, <1>5, <1>6, <1>7, <1>8, <1>9 DEF Handshake

LEMMA FailedKeeps ==
  ASSUME IInv, IdentifyFailed
  PROVE  IInv'
<1>1. UNCHANGED <<mainId, cid, aid, asking, view, shared>> /\ KeepStrays(strays)
  BY DEF IdentifyFailed
<1>2. PICK p \in posted :
        /\ posted' = posted \ {p}
        /\ \/ /\ closeReqs' = closeReqs \cup ({cid[p.conn]} \ {0})
              /\ UNCHANGED <<stat, reg, slot, players, pool>>
           \/ /\ IF stat[p.conn] = "open" THEN CloseSocket(p.conn)
                 ELSE pool' = Released(pool, cid[p.conn]) /\ UNCHANGED <<stat, reg, slot, players>>
              /\ closeReqs' = closeReqs
  BY DEF IdentifyFailed
<1>3. PICK c \in Conns : c = p.conn
  BY DEF IInv, TypeOK
<1>4. posted' \subseteq posted /\ TypeOK
  BY <1>2 DEF IInv
<1>5. closeReqs' \subseteq Ids
  <2>1. cid[c] \in 0 .. MaxId
    BY DEF IInv, TypeOK
  <2>2. {cid[c]} \ {0} \subseteq Ids
    BY <2>1, MaxIdAssumption DEF Ids
  <2> QED
    BY <1>2, <1>3, <1>4, <2>2 DEF TypeOK
<1>6. CASE stat[c] = "open" /\ CloseSocket(c)
  <2>1. /\ stat' \in [Conns -> {"new", "open", "closing", "closed", "gone"}]
        /\ pool' \in Seq(Ids) /\ IsInjective(pool')
        /\ DOMAIN reg' \subseteq Ids /\ \A i \in DOMAIN reg' : reg'[i] \in Conns
        /\ slot' \in [Ids -> Rooms \cup {NoRoom}] /\ players' \in [Rooms -> Seq(Conns)]
        /\ strays' \subseteq Ids
        /\ \A d \in Conns : stat'[d] = "new" <=> stat[d] = "new"
        /\ Alone' /\ InRegistry' /\ RoomsGood(slot, players)' /\ Placed'
    BY <1>1, <1>6, ClosedSocket
  <2>2. TypeOK'
    BY <1>1, <1>4, <1>5, <2>1 DEF TypeOK
  <2>3. Handshake'
    BY <1>1, <1>4, <2>1, StillAsked DEF IInv
  <2> QED
    BY <2>1, <2>2, <2>3 DEF IInv
<1>7. CASE UNCHANGED <<stat, reg, slot, players>> /\ (pool' = pool \/ pool' = Released(pool, cid[c]))
  <2>1. pool' \in Seq(Ids) /\ IsInjective(pool')
    BY <1>4, <1>7, ReleasedFacts DEF TypeOK
  <2>8. strays' = {i \in strays : slot[i] # NoRoom} /\ strays' \subseteq Ids
    BY <1>1, <1>4, <1>7 DEF KeepStrays, TypeOK
  <2>2. TypeOK'
    BY <1>1, <1>4, <1>5, <1>7, <2>1, <2>8 DEF TypeOK
  <2>3. Handshake'
    BY <1>1, <1>4, <1>7, StillAsked DEF IInv
  <2>4. Alone'
    BY <1>1, <1>7 DEF IInv, Alone, Holders
  <2>5. InRegistry'
    BY <1>1, <1>7 DEF IInv, InRegistry, Identified
  <2>6. RoomsGood(slot, players)'
    BY <1>1, <1>7 DEF IInv, RoomsGood, Unlike, Locks, Identified
  <2>7. Placed'
    BY <1>1, <1>7, <2>8 DEF IInv, Placed
  <2> QED
    BY <2>2, <2>3, <2>4, <2>5, <2>6, <2>7 DEF IInv
<1> QED
  BY <1>2, <1>3, <1>6, <1>7

LEMMA CloseKeeps ==
  ASSUME IInv, NEW c \in Conns, Close(c)
  PROVE  IInv'
<1>1. /\ UNCHANGED <<mainId, cid, aid, asking, posted, closeReqs, view, shared>>
      /\ stat[c] = "open" /\ CloseSocket(c) /\ KeepStrays(strays)
  BY DEF Close
<1>2. /\ stat' \in [Conns -> {"new", "open", "closing", "closed", "gone"}]
      /\ pool' \in Seq(Ids) /\ IsInjective(pool')
      /\ DOMAIN reg' \subseteq Ids /\ \A i \in DOMAIN reg' : reg'[i] \in Conns
      /\ slot' \in [Ids -> Rooms \cup {NoRoom}] /\ players' \in [Rooms -> Seq(Conns)]
      /\ strays' \subseteq Ids
      /\ \A d \in Conns : stat'[d] = "new" <=> stat[d] = "new"
      /\ Alone' /\ InRegistry' /\ RoomsGood(slot, players)' /\ Placed'
  BY <1>1, ClosedSocket
<1>3. TypeOK'
  BY <1>1, <1>2 DEF IInv, TypeOK
<1>4. Handshake'
  BY <1>1, <1>2, StillAsked DEF IInv
<1> QED
  BY <1>2, <1>3, <1>4 DEF IInv

\* A closed connection closes once more, has no handlers left, or is destroyed.
LEMMA EndKeeps ==
  ASSUME IInv, NEW c \in Conns, Destroy(c) \/ LateHandler(c)
  PROVE  IInv'
<1>1. PICK s \in {"closing", "closed", "gone"} :
      /\ stat[c] \in {"closing", "closed"} /\ stat' = [stat EXCEPT ![c] = s]
      /\ pool' = pool \/ pool' = Released(pool, cid[c])
      /\ UNCHANGED <<mainId, cid, aid, reg, slot, players, asking, posted, closeReqs, view, shared, strays>>
  <2>1. CASE Destroy(c)
    BY <2>1 DEF Destroy
  <2>2. CASE LateHandler(c)
    <3>1. stat = [stat EXCEPT ![c] = "closing"]
      BY <2>2 DEF LateHandler, IInv, TypeOK
    <3> QED
      BY <2>2, <3>1 DEF LateHandler
  <2> QED
    BY <2>1, <2>2
<1>2. /\ stat' \in [Conns -> {"new", "open", "closing", "closed", "gone"}]
      /\ stat'[c] = s /\ \A d \in Conns : d # c => stat'[d] = stat[d]
  BY <1>1 DEF IInv, TypeOK
<1>3. pool' \in Seq(Ids) /\ IsInjective(pool')
  BY <1>1, ReleasedFacts DEF IInv, TypeOK
<1>4. TypeOK'
  BY <1>1, <1>2, <1>3 DEF IInv, TypeOK
<1>5. Handshake'
  <2>1. \A d \in Conns : stat'[d] = "new" <=> stat[d] = "new"
    BY <1>1, <1>2
  <2> QED
    BY <1>1, <2>1, StillAsked DEF IInv
<1>6. Alone'
  BY <1>1, <1>2 DEF IInv, Alone, Holders
<1>7. InRegistry'
  BY <1>1, <1>2 DEF IInv, InRegistry, Identified
<1>8. RoomsGood(slot, players)'
  <2>1. RoomsGood(slot', players')
    BY <1>1 DEF IInv
  <2>2. \A d \in Conns : Identified(d) => Identified(d)' /\ cid'[d] = cid[d]
    BY <1>1 DEF Identified
  <2>3. \A d \in Conns : Locks(d)' => Locks(d)
    BY <1>1, <1>2 DEF Locks
  <2> QED
    BY <2>1, <2>2, <2>3, RoomsCarried
<1>9. Placed'
  <2> SUFFICES ASSUME NEW j \in Ids, slot[j] # NoRoom, j \notin shared \cup strays
               PROVE  /\ j \in DOMAIN reg
                      /\ \E d \in Conns : /\ cid[d] = j /\ stat'[d] = "open" /\ view[d]
                                          /\ d \in Range(players[slot[j]])
    BY <1>1 DEF Placed
  <2>1. PICK d \in Conns : cid[d] = j /\ stat[d] = "open" /\ view[d] /\ d \in Range(players[slot[j]])
    BY DEF IInv, Placed
  <2>2. stat'[d] = "open"
    BY <1>1, <1>2, <2>1
  <2>3. j \in DOMAIN reg
    BY DEF IInv, Placed
  <2> QED
    BY <2>1, <2>2, <2>3
<1> QED
  BY <1>4, <1>5, <1>6, <1>7, <1>8, <1>9 DEF IInv

-----------------------------------------------------------------------------
(* Steps of clients in rooms.                                               *)

\* A step of an identified client that changes rooms and its view of them.
RoomStep(c) ==
  /\ InUse(c) /\ RoomDone(c)
  /\ UNCHANGED <<mainId, stat, cid, aid, pool, reg, asking, posted, closeReqs, shared>>

\* What a closed connection put in a room stays listed while it is there; the
\* ids of other connections are listed as before.
LEMMA StraysKept ==
  ASSUME NEW c \in Conns, RoomStep(c)
  PROVE  /\ \A j \in Ids : j # cid[c] /\ slot'[j] # NoRoom /\ j \notin strays' => j \notin strays
         /\ stat[c] # "open" /\ slot'[cid[c]] # NoRoom => cid[c] \in strays'
BY DEF RoomStep, RoomDone, KeepStrays

LEMMA RoomStepKeeps ==
  ASSUME IInv, NEW c \in Conns, RoomStep(c), NEW v \in BOOLEAN, view' = [view EXCEPT ![c] = v],
         RoomsGood(slot', players'), Placed'
  PROVE  IInv'
<1>1. /\ UNCHANGED <<mainId, stat, cid, aid, pool, reg, asking, posted, closeReqs, shared>>
      /\ Identified(c)
  BY DEF RoomStep, InUse
<1>9. strays' \subseteq Ids
  <2>1. cid[c] \in Ids /\ strays \subseteq Ids
    BY <1>1 DEF IInv, TypeOK, Handshake
  <2> QED
    BY <2>1 DEF RoomStep, RoomDone, KeepStrays
<1>2. view' \in [Conns -> BOOLEAN]
  BY DEF IInv, TypeOK
<1>3. slot' \in [Ids -> Rooms \cup {NoRoom}] /\ players' \in [Rooms -> Seq(Conns)]
  BY DEF RoomsGood
<1>4. TypeOK'
  BY <1>1, <1>2, <1>3, <1>9 DEF IInv, TypeOK
<1>5. Handshake'
  <2>1. \A d : (HasAsked(d)' <=> HasAsked(d)) /\ (Identified(d)' <=> Identified(d))
    BY <1>1 DEF HasAsked, Identified
  <2>2. \A d \in Conns : view'[d] => d = c \/ view[d]
    BY DEF IInv, TypeOK
  <2>3. \A d \in Conns : view'[d] => Identified(d)'
    BY <1>1, <2>1, <2>2 DEF IInv, Handshake
  <2>4. \A p \in posted' : HasAsked(p.conn)'
    BY <1>1, <2>1 DEF IInv, Handshake
  <2>5. asking' # NotAsking =>
          /\ asking'.conn \in Conns /\ asking'.account \in Accounts /\ HasAsked(asking.conn)'
          /\ \A p \in posted' : p.conn # asking'.conn
    BY <1>1, <2>1 DEF IInv, Handshake
  <2>6. \A d \in Conns : /\ stat'[d] = "new" => ~Identified(d)' /\ cid'[d] = 0
                         /\ Identified(d)' => cid'[d] \in Ids
    BY <1>1, <2>1 DEF IInv, Handshake
  <2>7. \A p, q \in posted' : p.conn = q.conn => p = q
    BY <1>1 DEF IInv, Handshake
  <2> QED
    BY <2>3, <2>4, <2>5, <2>6, <2>7 DEF Handshake
<1>6. Alone'
  BY <1>1 DEF IInv, Alone, Holders
<1>7. InRegistry'
  BY <1>1 DEF IInv, InRegistry, Identified
<1>8. RoomsGood(slot, players)'
  BY <1>1 DEF RoomsGood, Unlike, Locks, Identified
<1> QED
  BY <1>4, <1>5, <1>6, <1>7, <1>8 DEF IInv

\* The id of the client leaves its room; the others keep theirs.
LEMMA LeaveKeeps ==
  ASSUME IInv, NEW c \in Conns, RoomStep(c), NEW v \in BOOLEAN, view' = [view EXCEPT ![c] = v],
         RemoveFromRoom(cid[c])
  PROVE  IInv'
<1>1. UNCHANGED <<cid, stat, reg, shared>>
  BY DEF RoomStep
<1>2. PICK i \in 0 .. MaxId : i = cid[c]
  BY DEF IInv, TypeOK
<1>3. i \in Ids
  BY <1>2 DEF IInv, Handshake, RoomStep, InUse
<1>4. i # 0
  BY <1>3, MaxIdAssumption DEF Ids
<1>5. /\ RoomsGood(slot', players') /\ slot'[i] = NoRoom
      /\ \A j \in Ids : slot'[j] # NoRoom => slot'[j] = slot[j]
      /\ \A j \in Ids : slot'[j] # NoRoom =>
           \A d \in Range(players[slot[j]]) : cid[d] # i => d \in Range(players'[slot[j]])
  BY <1>2, <1>4, RemovedFromRoom DEF IInv
<1>6. Placed'
  <2> SUFFICES ASSUME NEW j \in Ids, slot'[j] # NoRoom, j \notin (shared \cup strays)'
               PROVE  /\ j \in DOMAIN reg'
                      /\ \E d \in Conns : /\ cid'[d] = j /\ stat'[d] = "open" /\ view'[d]
                                          /\ d \in Range(players'[slot'[j]])
    BY DEF Placed
  <2>1. slot'[j] = slot[j] /\ j # i /\ j \notin shared \cup strays
    BY <1>1, <1>2, <1>5, StraysKept
  <2>2. PICK d \in Conns : cid[d] = j /\ stat[d] = "open" /\ view[d] /\ d \in Range(players[slot[j]])
    BY <1>1, <2>1 DEF IInv, Placed
  <2>3. d # c
    BY <1>2, <2>1, <2>2
  <2>4. cid'[d] = j /\ stat'[d] = "open" /\ d \in Range(players'[slot'[j]])
    BY <1>1, <1>5, <2>1, <2>2
  <2>5. view'[d]
    BY <2>2, <2>3 DEF IInv, TypeOK
  <2>6. j \in DOMAIN reg'
    BY <1>1, <2>1 DEF IInv, Placed
  <2> QED
    BY <2>4, <2>5, <2>6
<1> QED
  BY <1>5, <1>6, RoomStepKeeps

\* The client comes into room r, and the others stay in theirs.
LEMMA EnterKeeps ==
  ASSUME IInv, NEW c \in Conns, RoomStep(c), view' = [view EXCEPT ![c] = TRUE],
         NEW r \in Rooms, NEW s \in Seq(Conns),
         players' = [players EXCEPT ![r] = s], slot' = [slot EXCEPT ![cid[c]] = r],
         s # <<>>, Unlike(s), c \in Range(s), Range(s) \subseteq Range(players[r]) \cup {c},
         \A d \in Range(players[r]) : Locks(d) /\ cid[d] # cid[c] => d \in Range(s)
  PROVE  IInv'
<1>1. UNCHANGED <<cid, stat, reg, shared>> /\ Identified(c)
  BY DEF RoomStep, InUse
<1>2. PICK i \in Ids : i = cid[c]
  BY <1>1 DEF IInv, Handshake
<1>3. /\ slot \in [Ids -> Rooms \cup {NoRoom}] /\ players \in [Rooms -> Seq(Conns)]
      /\ RoomsGood(slot, players)
  BY DEF IInv, RoomsGood
<1>4. /\ slot' \in [Ids -> Rooms \cup {NoRoom}] /\ players' \in [Rooms -> Seq(Conns)]
      /\ slot'[i] = r /\ \A j \in Ids : j # i => slot'[j] = slot[j]
      /\ players'[r] = s /\ \A x \in Rooms : x # r => players'[x] = players[x]
  BY <1>2, <1>3
<1>5. RoomsGood(slot', players')
  <2>1. \A j \in Ids : slot'[j] # NoRoom => players'[slot'[j]] # <<>>
    BY <1>3, <1>4 DEF RoomsGood
  <2>2. \A x \in Rooms : Unlike(players'[x])
    BY <1>3, <1>4 DEF RoomsGood
  <2>3. \A x \in Rooms : \A d \in Range(players'[x]) : Identified(d)
    BY <1>1, <1>3, <1>4 DEF RoomsGood
  <2> QED
    BY <1>4, <2>1, <2>2, <2>3 DEF RoomsGood
<1>6. Placed'
  <2> SUFFICES ASSUME NEW j \in Ids, slot'[j] # NoRoom, j \notin (shared \cup strays)'
               PROVE  /\ j \in DOMAIN reg'
                      /\ \E d \in Conns : /\ cid'[d] = j /\ stat'[d] = "open" /\ view'[d]
                                          /\ d \in Range(players'[slot'[j]])
    BY DEF Placed
  <2>1. CASE j = i
    <3>4. stat[c] = "open"
      BY <1>2, <2>1, StraysKept
    <3>1. j \in DOMAIN reg'
      BY <1>1, <1>2, <2>1, <3>4 DEF IInv, InRegistry
    <3>2. view'[c]
      BY DEF IInv, TypeOK
    <3>3. cid'[c] = j /\ stat'[c] = "open" /\ c \in Range(players'[slot'[j]])
      BY <1>1, <1>2, <1>4, <2>1, <3>4
    <3> QED
      BY <3>1, <3>2, <3>3
  <2>2. CASE j # i
    <3>7. j \notin shared \cup strays
      BY <1>1, <1>2, <2>2, StraysKept
    <3>1. PICK d \in Conns : cid[d] = j /\ stat[d] = "open" /\ view[d] /\ d \in Range(players[slot[j]])
      BY <1>1, <1>4, <2>2, <3>7 DEF IInv, Placed
    <3>2. j \in DOMAIN reg'
      BY <1>1, <1>4, <2>2, <3>7 DEF IInv, Placed
    <3>3. d \in Range(players'[slot'[j]])
      <4>1. Locks(d) /\ cid[d] # cid[c]
        BY <1>2, <2>2, <3>1 DEF Locks
      <4>2. slot'[j] = slot[j] /\ slot[j] \in Rooms
        BY <1>3, <1>4, <2>2
      <4> QED
        BY <1>4, <3>1, <4>1, <4>2
    <3>4. d # c
      BY <1>2, <2>2, <3>1
    <3>5. view'[d]
      BY <3>1, <3>4 DEF IInv, TypeOK
    <3>6. cid'[d] = j /\ stat'[d] = "open"
      BY <1>1, <3>1
    <3> QED
      BY <3>2, <3>3, <3>5, <3>6
  <2> QED
    BY <2>1, <2>2
<1> QED
  BY <1>5, <1>6, RoomStepKeeps

\* Nothing changes but what the client believes of the room its id has not.
LEMMA StayKeeps ==
  ASSUME IInv, NEW c \in Conns, RoomStep(c), NEW v \in BOOLEAN, view' = [view EXCEPT ![c] = v],
         slot[cid[c]] = NoRoom, UNCHANGED <<slot, players>>
  PROVE  IInv'
<1>1. RemoveFromRoom(cid[c])
  BY DEF RemoveFromRoom
<1> QED
  BY <1>1, LeaveKeeps

LEMMA CreateKeeps ==
  ASSUME IInv, NEW c \in Conns, CreateRoom(c)
  PROVE  IInv'
<1>1. RoomStep(c) /\ view' = [view EXCEPT ![c] = TRUE]
  BY DEF CreateRoom, RoomStep
<1>2. PICK r \in Rooms \ Existing :
        slot' = [slot EXCEPT ![cid[c]] = r] /\ players' = [players EXCEPT ![r] = <<c>>]
  BY DEF CreateRoom
<1>3. r \in Rooms /\ players[r] = <<>>
  BY <1>2 DEF Existing
<1>4. PICK s : s = <<c>>
  OBVIOUS
<1>5. /\ s \in Seq(Conns) /\ s # <<>> /\ Range(s) = {c} /\ DOMAIN s = {1}
      /\ players' = [players EXCEPT ![r] = s]
  BY <1>2, <1>4 DEF Range
<1>6. Unlike(s)
  BY <1>5 DEF Unlike
<1>7. Range(players[r]) = {}
  BY <1>3 DEF Range
<1> QED
  BY <1>1, <1>2, <1>3, <1>5, <1>6, <1>7, EnterKeeps

LEMMA JoinKeeps ==
  ASSUME IInv, NEW c \in Conns, JoinRoom(c)
  PROVE  IInv'
<1>1. RoomStep(c) /\ view' = [view EXCEPT ![c] = TRUE] /\ JoinOrExit(c, Ids \ {cid[c]})
  BY DEF JoinRoom, RoomStep
<1>2. CASE slot[cid[c]] # NoRoom
  <2>1. RemoveFromRoom(cid[c])
    BY <1>1, <1>2 DEF JoinOrExit
  <2> QED
    BY <1>1, <2>1, LeaveKeeps
<1>3. CASE slot[cid[c]] = NoRoom /\ UNCHANGED <<slot, players>>
  BY <1>1, <1>3, StayKeeps
<1>4. CASE slot[cid[c]] = NoRoom /\ ~UNCHANGED <<slot, players>>
  <2>1. PICK h \in Ids :
          /\ slot[h] # NoRoom
          /\ players' = [players EXCEPT ![slot[h]] = AddPlayer(@, c)]
          /\ slot' = [slot EXCEPT ![cid[c]] = slot[h]]
    BY <1>1, <1>4 DEF JoinOrExit
  <2>2. PICK r \in Rooms : r = slot[h]
    BY <2>1 DEF IInv, TypeOK
  <2>3. PICK s : s = AddPlayer(players[r], c)
    OBVIOUS
  <2>4. players' = [players EXCEPT ![r] = s] /\ slot' = [slot EXCEPT ![cid[c]] = r]
    BY <2>1, <2>2, <2>3
  <2>5. players[r] \in Seq(Conns) /\ Unlike(players[r])
    BY DEF IInv, RoomsGood
  <2>6. /\ s \in Seq(Conns) /\ s # <<>> /\ c \in Range(s)
        /\ Range(s) \subseteq Range(players[r]) \cup {c} /\ Unlike(s)
        /\ \A d \in Range(players[r]) : Locks(d) /\ cid[d] # cid[c] => d \in Range(s)
    BY <2>3, <2>5, AddPlayerFacts
  <2> QED
    BY <1>1, <2>4, <2>6, EnterKeeps
<1> QED
  BY <1>2, <1>3, <1>4

LEMMA ExitKeeps ==
  ASSUME IInv, NEW c \in Conns, ExitRoom(c)
  PROVE  IInv'
<1>1. RoomStep(c) /\ view' = [view EXCEPT ![c] = FALSE] /\ JoinOrExit(c, {})
  BY DEF ExitRoom, RoomStep
<1>2. CASE slot[cid[c]] # NoRoom
  <2>1. RemoveFromRoom(cid[c])
    BY <1>1, <1>2 DEF JoinOrExit
  <2> QED
    BY <1>1, <2>1, LeaveKeeps
<1>3. CASE slot[cid[c]] = NoRoom
  <2>1. UNCHANGED <<slot, players>>
    BY <1>1, <1>3 DEF JoinOrExit
  <2> QED
    BY <1>1, <1>3, <2>1, StayKeeps
<1> QED
  BY <1>2, <1>3

LEMMA CrashKeeps ==
  ASSUME IInv, NEW c \in Conns, Crash(c)
  PROVE  IInv'
<1>1. RoomStep(c) /\ view' = [view EXCEPT ![c] = FALSE] /\ RemoveFromRoom(cid[c])
  BY DEF Crash, RoomStep
<1> QED
  BY <1>1, LeaveKeeps

-----------------------------------------------------------------------------
(* The invariant, and what follows from it.                                 *)

LEMMA InitIInv == Init => IInv
<1> SUFFICES ASSUME Init PROVE IInv
  OBVIOUS
<1>1. Ids \subseteq 0 .. MaxId /\ 0 \in 0 .. MaxId /\ 0 \notin Ids /\ Ids = 1 .. MaxId /\ MaxId \in Nat
  BY MaxIdAssumption DEF Ids
<1>2. pool \in Seq(Ids) /\ IsInjective(pool)
  <2>1. pool \in [1 .. MaxId -> Ids] /\ DOMAIN pool = Ids /\ \A i \in Ids : pool[i] = i
    BY <1>1 DEF Init
  <2>2. pool \in Seq(Ids)
    BY <1>1, <2>1
  <2>3. IsInjective(pool)
    BY <2>1 DEF IsInjective
  <2> QED
    BY <2>2, <2>3
<1>3. DOMAIN reg = {}
  BY DEF Init
<1>4. players = [r \in Rooms |-> <<>>] /\ \A r \in Rooms : DOMAIN players[r] = {}
  BY DEF Init
<1>5. /\ mainId \in [Accounts -> 0 .. MaxId] /\ cid \in [Conns -> 0 .. MaxId]
      /\ aid \in [Conns -> Accounts \cup {NoAccount}] /\ slot \in [Ids -> Rooms \cup {NoRoom}]
      /\ stat \in [Conns -> {"new", "open", "closing", "closed", "gone"}]
  BY <1>1 DEF Init
<1>6. players \in [Rooms -> Seq(Conns)]
  BY <1>4
<1>7. view \in [Conns -> BOOLEAN]
  BY DEF Init
<1>8. asking \in [conn : Conns \cup {NoConn}, account : Accounts \cup {NoAccount}]
  BY DEF Init, NotAsking
<1>9. TypeOK
  BY <1>2, <1>3, <1>5, <1>6, <1>7, <1>8 DEF Init, TypeOK
<1>10. Handshake
  <2>1. \A c \in Conns : ~view[c]
    BY DEF Init
  <2> QED
    BY <2>1 DEF Init, Handshake, Identified
<1>11. Alone
  BY DEF Init, Alone, Holders
<1>12. InRegistry
  BY DEF Init, InRegistry, Identified
<1>13. RoomsGood(slot, players)
  <2>1. \A r \in Rooms : Unlike(players[r]) /\ Range(players[r]) = {}
    BY <1>4 DEF Unlike, Range
  <2>2. \A i \in Ids : slot[i] = NoRoom
    BY DEF Init
  <2> QED
    BY <1>5, <1>6, <2>1, <2>2 DEF RoomsGood
<1>14. Placed
  BY DEF Init, Placed
<1> QED
  BY <1>9, <1>10, <1>11, <1>12, <1>13, <1>14 DEF IInv

LEMMA NextIInv == IInv /\ [Next]_vars => IInv'
<1> SUFFICES ASSUME IInv, [Next]_vars PROVE IInv'
  OBVIOUS
<1>1. CASE \E a \in Accounts : MainLogin(a) \/ MainLogout(a)
  BY <1>1, MainKeeps
<1>2. CASE MainCloses
  BY <1>2, MainKeeps
<1>3. CASE MainAnswers
  <2>1. PICK ids : ids = {mainId[asking.account]}
    OBVIOUS
  <2>2. asking.account \in Accounts
    BY <1>3 DEF MainAnswers, IInv, Handshake
  <2>3. ids \in SUBSET (0 .. MaxId)
    BY <2>1, <2>2 DEF IInv, TypeOK
  <2>4. Answer(ids)
    BY <1>3, <2>1 DEF MainAnswers
  <2> QED
    BY <2>3, <2>4, AnswerKeeps
<1>4. CASE Timeout
  <2>1. {0} \in SUBSET (0 .. MaxId)
    BY MaxIdAssumption
  <2> QED
    BY <1>4, <2>1, AnswerKeeps DEF Timeout
<1>5. ASSUME NEW c \in Conns, Accept(c) PROVE IInv'
  BY <1>5, AcceptKeeps
<1>6. ASSUME NEW c \in Conns, NEW a \in Accounts, AskMain(c, a) PROVE IInv'
  BY <1>6, AskKeeps
<1>7. CASE Identify
  BY <1>7, IdentifyKeeps
<1>8. CASE IdentifyFailed
  BY <1>8, FailedKeeps
<1>9. ASSUME NEW c \in Conns, Ping(c) PROVE IInv'
  BY <1>9, PingKeeps
<1>10. ASSUME NEW c \in Conns, Close(c) PROVE IInv'
  BY <1>10, CloseKeeps
<1>11. ASSUME NEW c \in Conns, Destroy(c) \/ LateHandler(c) PROVE IInv'
  BY <1>11, EndKeeps
<1>12. ASSUME NEW c \in Conns, CreateRoom(c) PROVE IInv'
  BY <1>12, CreateKeeps
<1>13. ASSUME NEW c \in Conns, JoinRoom(c) PROVE IInv'
  BY <1>13, JoinKeeps
<1>14. ASSUME NEW c \in Conns, ExitRoom(c) PROVE IInv'
  BY <1>14, ExitKeeps
<1>15. ASSUME NEW c \in Conns, Crash(c) PROVE IInv'
  BY <1>15, CrashKeeps
<1>16. CASE UNCHANGED vars
  BY <1>16 DEF vars, IInv, TypeOK, Handshake, HasAsked, Identified, Alone, Holders, InRegistry,
               RoomsGood, Unlike, Locks, Placed
<1> QED
  BY <1>1, <1>2, <1>3, <1>4, <1>5, <1>6, <1>7, <1>8, <1>9, <1>10, <1>11, <1>12, <1>13,
     <1>14, <1>15, <1>16 DEF Next

LEMMA Inductive == Spec => []IInv
BY InitIInv, NextIInv, PTL DEF Spec

\* Every step leaves values of the types of the code: an id is given back to the
\* pool once at most, whoever closes, destroys or identifies a connection, and
\* the slots of removeSession and addRoom stay within the ids.
THEOREM TypeCorrect == Spec => []TypeOK
<1>1. IInv => TypeOK
  BY DEF IInv
<1> QED
  BY <1>1, Inductive, PTL

\* m_playerSessionIdToRoom and the players of the rooms agree, for any number of
\* connections, accounts and rooms: the room of an id exists; if the id never had
\* two connections, its player is in that room and knows it; and no room has two
\* live entries with one id, even if it had.
THEOREM SlotsCorrect == Spec => []SlotCoherent
<1>1. ASSUME IInv PROVE SlotCoherent
  <2>1. RoomsGood(slot, players) /\ Placed
    BY <1>1 DEF IInv
  <2>2. \A i \in Ids : slot[i] # NoRoom => slot[i] \in Existing
    BY <2>1 DEF RoomsGood, Existing
  <2>3. ASSUME NEW i \in Ids, slot[i] # NoRoom, i \notin shared \cup strays
        PROVE  i \in LiveIds(slot[i]) /\ \E c \in Holders(i) : view[c]
    <3>1. PICK c \in Conns : cid[c] = i /\ stat[c] = "open" /\ view[c] /\ c \in Range(players[slot[i]])
      BY <2>1, <2>3 DEF Placed
    <3>2. c \in Holders(i)
      BY <3>1 DEF Holders
    <3>3. i \in LiveIds(slot[i])
      BY <3>1 DEF LiveIds, Locks
    <3> QED
      BY <3>1, <3>2, <3>3
  <2>4. \A r \in Rooms : Unlike(players[r])
    BY <2>1 DEF RoomsGood
  <2>5. \A r \in Rooms : \A k, l \in DOMAIN players[r] :
          Locks(players[r][k]) /\ Locks(players[r][l]) /\ cid[players[r][k]] = cid[players[r][l]]
            => k = l
    BY <2>4 DEF Unlike
  <2> QED
    BY <2>2, <2>3, <2>5 DEF SlotCoherent
<1>2. IInv => SlotCoherent
  BY <1>1
<1> QED
  BY <1>2, Inductive, PTL
=============================================================================
