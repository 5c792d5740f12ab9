---------------------------- MODULE Rooms_proofs ----------------------------
(* Proofs about NormalRooms, for any sessions, capacities and numbers.      *)
EXTENDS NormalRooms, FiniteSetTheorems, SequenceTheorems, TLAPS

-----------------------------------------------------------------------------
(* Lists of entries: whose live entries they have, each of them once.       *)

LiveIds(s) == {s[i].id : i \in {i \in DOMAIN s : s[i].live}}
Uniq(s) == \A i, j \in DOMAIN s : s[i].live /\ s[j].live /\ s[i].id = s[j].id => i = j

LEMMA ListFacts ==
  ASSUME NEW s \in Seq(Entries)
  PROVE  /\ Len(s) \in Nat /\ DOMAIN s = 1 .. Len(s)
         /\ \A i \in DOMAIN s : s[i] \in Entries /\ s[i].id \in Sessions
         /\ LiveIds(s) \subseteq Sessions
<1>1. Len(s) \in Nat /\ DOMAIN s = 1 .. Len(s) /\ \A i \in DOMAIN s : s[i] \in Entries
  OBVIOUS
<1>2. \A i \in DOMAIN s : s[i].id \in Sessions
  BY <1>1 DEF Entries
<1> QED
  BY <1>1, <1>2 DEF LiveIds

\* A function on an initial segment is a list.
LEMMA IsList ==
  ASSUME NEW S, NEW m \in Nat, NEW t \in [1 .. m -> S]
  PROVE  t \in Seq(S) /\ Len(t) = m
OBVIOUS

\* A live entry of p, where the list has one.
LEMMA IndexFacts ==
  ASSUME NEW s \in Seq(Entries), NEW p, InList(s, p)
  PROVE  /\ The(Index(s, p)) \in DOMAIN s
         /\ s[The(Index(s, p))].id = p /\ s[The(Index(s, p))].live
BY DEF The, Index, InList

LEMMA InListIsLive ==
  ASSUME NEW s \in Seq(Entries), NEW p
  PROVE  InList(s, p) <=> p \in LiveIds(s)
BY DEF InList, Index, LiveIds

LEMMA SwapWithFirstFacts ==
  ASSUME NEW s \in Seq(Entries), NEW k \in DOMAIN s
  PROVE  /\ SwapWithFirst(s, k) \in Seq(Entries) /\ Len(SwapWithFirst(s, k)) = Len(s)
         /\ DOMAIN SwapWithFirst(s, k) = DOMAIN s
         /\ SwapWithFirst(s, k)[1] = s[k] /\ SwapWithFirst(s, k)[k] = s[1]
         /\ LiveIds(SwapWithFirst(s, k)) = LiveIds(s)
         /\ Uniq(s) => Uniq(SwapWithFirst(s, k))
<1> DEFINE t == SwapWithFirst(s, k)
<1>1. Len(s) \in Nat /\ DOMAIN s = 1 .. Len(s) /\ 1 \in DOMAIN s
  BY ListFacts
<1>2. /\ DOMAIN t = DOMAIN s /\ t[1] = s[k] /\ t[k] = s[1]
      /\ \A i \in DOMAIN s : i # 1 /\ i # k => t[i] = s[i]
  BY <1>1 DEF SwapWithFirst
<1>3. t \in Seq(Entries) /\ Len(t) = Len(s)
  <2>1. t \in [1 .. Len(s) -> Entries]
    BY <1>1, ListFacts DEF SwapWithFirst
  <2> QED
    BY <1>1, <2>1
<1> HIDE DEF t
<1>4. LiveIds(t) = LiveIds(s)
  <2>1. ASSUME NEW x \in LiveIds(s)
        PROVE  x \in LiveIds(t)
    BY <1>1, <1>2, <2>1 DEF LiveIds
  <2>2. ASSUME NEW x \in LiveIds(t)
        PROVE  x \in LiveIds(s)
    BY <1>1, <1>2, <2>2 DEF LiveIds
  <2> QED
    BY <2>1, <2>2
<1>5. Uniq(s) => Uniq(t)
  BY <1>1, <1>2 DEF Uniq
<1> QED
  BY <1>2, <1>3, <1>4, <1>5 DEF t

LEMMA SwapOutFacts ==
  ASSUME NEW s \in Seq(Entries), NEW k \in DOMAIN s, s[k].live, Uniq(s)
  PROVE  /\ SwapOut(s, k) \in Seq(Entries) /\ Len(SwapOut(s, k)) = Len(s) - 1
         /\ LiveIds(SwapOut(s, k)) = LiveIds(s) \ {s[k].id}
         /\ Uniq(SwapOut(s, k))
<1> DEFINE t == SwapOut(s, k)
           l == Len(s)
<1>1. l \in Nat /\ DOMAIN s = 1 .. l /\ l \in DOMAIN s /\ l - 1 \in Nat
  BY ListFacts
<1>2. DOMAIN t = 1 .. l - 1 /\ \A i \in 1 .. l - 1 : t[i] = IF i = k THEN s[l] ELSE s[i]
  BY DEF SwapOut
<1>3. t \in Seq(Entries) /\ Len(t) = l - 1
  <2>1. t \in [1 .. l - 1 -> Entries]
    BY <1>1, ListFacts DEF SwapOut
  <2> QED
    BY <1>1, <2>1, IsList
<1> HIDE DEF t, l
<1>4. Uniq(t)
  BY <1>1, <1>2 DEF Uniq
<1>5. ASSUME NEW x \in LiveIds(s), x # s[k].id
      PROVE  x \in LiveIds(t)
  <2>1. PICK i \in DOMAIN s : s[i].live /\ s[i].id = x
    BY <1>5 DEF LiveIds
  <2>2. CASE i = l
    <3>1. k \in 1 .. l - 1 /\ t[k] = s[i]
      BY <1>1, <1>2, <1>5, <2>1, <2>2
    <3> QED
      BY <1>2, <2>1, <3>1 DEF LiveIds
  <2>3. CASE i # l
    <3>1. i \in 1 .. l - 1 /\ t[i] = s[i]
      BY <1>1, <1>2, <1>5, <2>1, <2>3
    <3> QED
      BY <1>2, <2>1, <3>1 DEF LiveIds
  <2> QED
    BY <2>2, <2>3
<1>6. ASSUME NEW x \in LiveIds(t)
      PROVE  x \in LiveIds(s) \ {s[k].id}
  <2>1. PICK i \in 1 .. l - 1 : t[i].live /\ t[i].id = x
    BY <1>2 DEF LiveIds
  <2>2. PICK j \in DOMAIN s : j # k /\ s[j].live /\ s[j].id = x
    BY <1>1, <1>2, <2>1
  <2> QED
    BY <2>2 DEF LiveIds, Uniq
<1> QED
  BY <1>3, <1>4, <1>5, <1>6 DEF t, l

LEMMA AppendFacts ==
  ASSUME NEW s \in Seq(Entries), NEW e \in Entries, e.live, e.id \notin LiveIds(s), Uniq(s)
  PROVE  /\ Append(s, e) \in Seq(Entries) /\ Len(Append(s, e)) = Len(s) + 1
         /\ LiveIds(Append(s, e)) = LiveIds(s) \cup {e.id}
         /\ Uniq(Append(s, e))
<1> DEFINE t == Append(s, e)
           l == Len(s)
<1>1. l \in Nat /\ DOMAIN s = 1 .. l
  BY ListFacts
<1>2. /\ t \in Seq(Entries) /\ Len(t) = l + 1 /\ DOMAIN t = 1 .. l + 1
      /\ \A i \in 1 .. l : t[i] = s[i]
      /\ t[l + 1] = e
  BY <1>1
<1> HIDE DEF t, l
<1>3. Uniq(t)
  BY <1>1, <1>2 DEF Uniq, LiveIds
<1>4. ASSUME NEW x \in LiveIds(s) \cup {e.id}
      PROVE  x \in LiveIds(t)
  BY <1>1, <1>2, <1>4 DEF LiveIds
<1>5. ASSUME NEW x \in LiveIds(t)
      PROVE  x \in LiveIds(s) \cup {e.id}
  BY <1>1, <1>2, <1>5 DEF LiveIds
<1> QED
  BY <1>2, <1>3, <1>4, <1>5 DEF t, l

\* What changes nothing but states.
SameEntries(s, t) ==
  DOMAIN t = DOMAIN s /\ \A i \in DOMAIN s : t[i].id = s[i].id /\ t[i].live = s[i].live

LEMMA SameEntriesFacts ==
  ASSUME NEW s, NEW t, SameEntries(s, t)
  PROVE  LiveIds(t) = LiveIds(s) /\ (Uniq(s) => Uniq(t))
BY DEF SameEntries, LiveIds, Uniq

LEMMA DeadFacts ==
  ASSUME NEW s \in Seq(Entries), NEW p
  PROVE  /\ Dead(s, p) \in Seq(Entries) /\ Len(Dead(s, p)) = Len(s)
         /\ LiveIds(Dead(s, p)) = LiveIds(s) \ {p}
         /\ Uniq(s) => Uniq(Dead(s, p))
<1> DEFINE t == Dead(s, p)
<1>1. Len(s) \in Nat /\ DOMAIN s = 1 .. Len(s) /\ \A i \in DOMAIN s : s[i] \in Entries
  BY ListFacts
<1>2. /\ DOMAIN t = DOMAIN s
      /\ \A i \in DOMAIN s : t[i] = IF s[i].id = p THEN [s[i] EXCEPT !.live = FALSE] ELSE s[i]
  BY DEF Dead
<1>3. t \in [1 .. Len(s) -> Entries]
  BY <1>1 DEF Dead, Entries
<1>4. t \in Seq(Entries) /\ Len(t) = Len(s)
  BY <1>1, <1>3, IsList
<1> HIDE DEF t
<1>5. \A i \in DOMAIN s : /\ t[i].live <=> s[i].live /\ s[i].id # p
                          /\ t[i].id = s[i].id
  BY <1>1, <1>2 DEF Entries
<1>6. LiveIds(t) = LiveIds(s) \ {p} /\ (Uniq(s) => Uniq(t))
  BY <1>2, <1>5 DEF LiveIds, Uniq
<1> QED
  BY <1>4, <1>6 DEF t

LEMMA WithStateFacts ==
  ASSUME NEW s \in Seq(Entries), NEW p, NEW v \in States
  PROVE  /\ WithState(s, p, v) \in Seq(Entries) /\ Len(WithState(s, p, v)) = Len(s)
         /\ SameEntries(s, WithState(s, p, v))
<1>1. Len(s) \in Nat /\ DOMAIN s = 1 .. Len(s) /\ \A i \in DOMAIN s : s[i] \in Entries
  BY ListFacts
<1>2. WithState(s, p, v) \in [1 .. Len(s) -> Entries]
  BY <1>1 DEF WithState, Entries
<1>3. SameEntries(s, WithState(s, p, v))
  BY <1>1 DEF SameEntries, WithState, Entries
<1> QED
  BY <1>1, <1>2, <1>3, IsList

\* erase(): what changePlayerTeam does to the observers.
Erased(s, k) == SubSeq(s, 1, k - 1) \o SubSeq(s, k + 1, Len(s))

LEMMA ErasedFacts ==
  ASSUME NEW s \in Seq(Entries), NEW k \in DOMAIN s, s[k].live, Uniq(s)
  PROVE  /\ Erased(s, k) \in Seq(Entries)
         /\ LiveIds(Erased(s, k)) = LiveIds(s) \ {s[k].id}
         /\ Uniq(Erased(s, k))
<1> DEFINE a == SubSeq(s, 1, k - 1)
           b == SubSeq(s, k + 1, Len(s))
           t == Erased(s, k)
           l == Len(s)
<1>1. l \in Nat /\ DOMAIN s = 1 .. l /\ k \in 1 .. l
  BY ListFacts
<1>2. /\ a \in Seq(Entries) /\ Len(a) = k - 1
      /\ \A i \in 1 .. k - 1 : a[i] = s[i]
  BY <1>1, SubSeqProperties
<1>3. /\ b \in Seq(Entries) /\ Len(b) = l - k
      /\ \A i \in 1 .. l - k : b[i] = s[k + i]
  BY <1>1, SubSeqProperties
<1>4. t = a \o b
  BY DEF Erased
<1> HIDE DEF a, b, t, l
<1>5. /\ t \in Seq(Entries) /\ Len(t) = l - 1 /\ DOMAIN t = 1 .. l - 1
      /\ \A i \in 1 .. l - 1 : t[i] = IF i < k THEN s[i] ELSE s[i + 1]
  <2>1. /\ t \in Seq(Entries) /\ Len(t) = Len(a) + Len(b)
        /\ \A i \in 1 .. Len(a) + Len(b) : t[i] = IF i <= Len(a) THEN a[i] ELSE b[i - Len(a)]
    BY <1>2, <1>3, <1>4, ConcatProperties
  <2>2. Len(a) + Len(b) = l - 1 /\ DOMAIN t = 1 .. l - 1
    BY <1>1, <1>2, <1>3, <2>1
  <2>3. ASSUME NEW i \in 1 .. l - 1
        PROVE  t[i] = IF i < k THEN s[i] ELSE s[i + 1]
    <3>1. CASE i < k
      BY <1>1, <1>2, <2>1, <2>2, <3>1
    <3>2. CASE i >= k
      <4>1. t[i] = b[i - (k - 1)] /\ i - (k - 1) \in 1 .. l - k
        BY <1>1, <1>2, <2>1, <2>2, <3>2
      <4>2. k + (i - (k - 1)) = i + 1
        BY <1>1
      <4> QED
        BY <1>1, <1>3, <3>2, <4>1, <4>2
    <3> QED
      BY <1>1, <3>1, <3>2
  <2> QED
    BY <2>1, <2>2, <2>3
<1>6. Uniq(t)
  <2> DEFINE from(i) == IF i < k THEN i ELSE i + 1
  <2>1. \A i \in 1 .. l - 1 : from(i) \in 1 .. l /\ t[i] = s[from(i)]
    BY <1>1, <1>5
  <2>2. \A i, j \in 1 .. l - 1 : from(i) = from(j) => i = j
    BY <1>1
  <2> HIDE DEF from
  <2>3. ASSUME NEW i \in 1 .. l - 1, NEW j \in 1 .. l - 1,
               t[i].live, t[j].live, t[i].id = t[j].id
        PROVE  i = j
    <3>1. from(i) = from(j)
      BY <1>1, <2>1, <2>3 DEF Uniq
    <3> QED
      BY <2>2, <3>1
  <2> QED
    BY <1>5, <2>3 DEF Uniq
<1>7. ASSUME NEW x \in LiveIds(s), x # s[k].id
      PROVE  x \in LiveIds(t)
  <2>1. PICK i \in 1 .. l : s[i].live /\ s[i].id = x
    BY <1>1, <1>7 DEF LiveIds
  <2>2. PICK j \in 1 .. l - 1 : t[j] = s[i]
    <3>1. CASE i < k
      BY <1>1, <1>5, <3>1
    <3>2. CASE i > k
      <4>1. i - 1 \in 1 .. l - 1 /\ ~(i - 1 < k) /\ i - 1 + 1 = i
        BY <1>1, <3>2
      <4> QED
        BY <1>5, <4>1
    <3> QED
      BY <1>1, <1>7, <2>1, <3>1, <3>2
  <2> QED
    BY <1>5, <2>1, <2>2 DEF LiveIds
<1>8. ASSUME NEW x \in LiveIds(t)
      PROVE  x \in LiveIds(s) \ {s[k].id}
  <2>1. PICK i \in 1 .. l - 1 : t[i].live /\ t[i].id = x
    BY <1>5, <1>8 DEF LiveIds
  <2>2. PICK j \in 1 .. l : j # k /\ s[j].live /\ s[j].id = x
    BY <1>1, <1>5, <2>1
  <2> QED
    BY <1>1, <2>2 DEF LiveIds, Uniq
<1> QED
  BY <1>5, <1>6, <1>7, <1>8 DEF t

-----------------------------------------------------------------------------
(* Rooms, and what a removal makes of one.                                 *)

\* A live id is in one list of the room, once.
Once(r) ==
  /\ Uniq(r.players) /\ Uniq(r.observers)
  /\ LiveIds(r.players) \cap LiveIds(r.observers) = {}

RoomGood(r) == r \in RoomType /\ Len(r.players) <= PlayersPerRoom /\ Once(r)

LEMMA MembersAre ==
  ASSUME NEW r
  PROVE  Members(r) = LiveIds(r.players) \cup LiveIds(r.observers)
BY DEF Members, LiveIds

\* The room without the session that has left, if any has.
GoodOutcome(r, o) ==
  /\ RoomGood(o.room)
  /\ o.left \in Members(r) \cup {NoSession}
  /\ Members(o.room) = Members(r) \ {o.left}

LEMMA BestArePlayers ==
  ASSUME NEW w, NEW r \in RoomType, NEW p, NEW inMatch
  PROVE  BestIndices(w, r, p, inMatch) \subseteq DOMAIN r.players
<1> SUFFICES ASSUME NEW i \in DOMAIN r.players, r.players[i].live
             PROVE  Cardinality({j \in 1 .. i : r.players[j].live}) \in DOMAIN r.players
  BY DEF BestIndices
<1> DEFINE C == {j \in 1 .. i : r.players[j].live}
<1>1. r.players \in Seq(Entries)
  BY DEF RoomType
<1>2. i \in 1 .. Len(r.players) /\ Len(r.players) \in Nat /\ DOMAIN r.players = 1 .. Len(r.players)
  BY <1>1, ListFacts
<1>3. IsFiniteSet(1 .. i) /\ Cardinality(1 .. i) = i
  BY <1>2, FS_Interval
<1>4. C \in SUBSET (1 .. i) /\ i \in C
  BY <1>2
<1> HIDE DEF C
<1>5. IsFiniteSet(C) /\ Cardinality(C) <= i /\ Cardinality(C) \in Nat
  BY <1>3, <1>4, FS_Subset, FS_CardinalityType
<1>6. Cardinality(C) # 0
  BY <1>4, <1>5, FS_EmptySet
<1> QED
  BY <1>2, <1>5, <1>6 DEF C

LEMMA WithoutPlayerGood ==
  ASSUME NEW r, RoomGood(r), NEW p, InList(r.players, p)
  PROVE  /\ RoomGood(WithoutPlayer(r, p))
         /\ p \in Members(r) /\ Members(WithoutPlayer(r, p)) = Members(r) \ {p}
<1> DEFINE k == The(Index(r.players, p))
           q == WithoutPlayer(r, p)
<1>1. r.players \in Seq(Entries) /\ r.observers \in Seq(Entries) /\ r \in RoomType
  BY DEF RoomGood, RoomType
<1>2. k \in DOMAIN r.players /\ r.players[k].id = p /\ r.players[k].live
  BY <1>1, IndexFacts
<1>3. /\ q = [r EXCEPT !.players = SwapOut(r.players, k)]
      /\ q.players = SwapOut(r.players, k) /\ q.observers = r.observers
      /\ q.started = r.started /\ q.target = r.target
  BY <1>1 DEF WithoutPlayer, RoomType
<1> HIDE DEF k, q
<1>4. /\ q.players \in Seq(Entries) /\ Len(q.players) = Len(r.players) - 1
      /\ LiveIds(q.players) = LiveIds(r.players) \ {p} /\ Uniq(q.players)
  BY <1>1, <1>2, <1>3, SwapOutFacts DEF RoomGood, Once
<1>5. p \in LiveIds(r.players) /\ p \notin LiveIds(r.observers)
  BY <1>2 DEF LiveIds, RoomGood, Once
<1>6. RoomGood(q)
  <2>1. q \in RoomType
    BY <1>1, <1>3, <1>4 DEF RoomType
  <2>2. Len(q.players) <= PlayersPerRoom
    BY <1>1, <1>4, ListFacts, PlayersPerRoomAssumption DEF RoomGood
  <2> QED
    BY <1>3, <1>4, <2>1, <2>2 DEF RoomGood, Once
<1> QED
  BY <1>3, <1>4, <1>5, <1>6, MembersAre DEF q

LEMMA WithoutObserverGood ==
  ASSUME NEW r, RoomGood(r), NEW p, InList(r.observers, p)
  PROVE  /\ RoomGood(WithoutObserver(r, p))
         /\ p \in Members(r) /\ Members(WithoutObserver(r, p)) = Members(r) \ {p}
<1> DEFINE k == The(Index(r.observers, p))
           q == WithoutObserver(r, p)
<1>1. r.players \in Seq(Entries) /\ r.observers \in Seq(Entries) /\ r \in RoomType
  BY DEF RoomGood, RoomType
<1>2. k \in DOMAIN r.observers /\ r.observers[k].id = p /\ r.observers[k].live
  BY <1>1, IndexFacts
<1>3. /\ q = [r EXCEPT !.observers = SwapOut(r.observers, k)]
      /\ q.observers = SwapOut(r.observers, k) /\ q.players = r.players
      /\ q.started = r.started /\ q.target = r.target
  BY <1>1 DEF WithoutObserver, RoomType
<1> HIDE DEF k, q
<1>4. /\ q.observers \in Seq(Entries)
      /\ LiveIds(q.observers) = LiveIds(r.observers) \ {p} /\ Uniq(q.observers)
  BY <1>1, <1>2, <1>3, SwapOutFacts DEF RoomGood, Once
<1>5. p \in LiveIds(r.observers) /\ p \notin LiveIds(r.players)
  BY <1>2 DEF LiveIds, RoomGood, Once
<1>6. q \in RoomType
  BY <1>1, <1>3, <1>4 DEF RoomType
<1> QED
  BY <1>3, <1>4, <1>5, <1>6, MembersAre DEF q, RoomGood, Once

\* Another player is put first: the members stay.
LEMMA SwappedGood ==
  ASSUME NEW r, RoomGood(r), NEW k \in DOMAIN r.players
  PROVE  LET q == [r EXCEPT !.players = SwapWithFirst(@, k)]
         IN  /\ RoomGood(q) /\ Members(q) = Members(r)
             /\ q.players = SwapWithFirst(r.players, k) /\ q.observers = r.observers
<1> DEFINE q == [r EXCEPT !.players = SwapWithFirst(r.players, k)]
<1>1. r.players \in Seq(Entries) /\ r.observers \in Seq(Entries) /\ r \in RoomType
  BY DEF RoomGood, RoomType
<1>2. /\ q.players = SwapWithFirst(r.players, k) /\ q.observers = r.observers
      /\ q.started = r.started /\ q.target = r.target
  BY <1>1 DEF RoomType
<1>3. q \in RoomType
  BY <1>1, <1>2, SwapWithFirstFacts DEF RoomType
<1> HIDE DEF q
<1>4. /\ Len(q.players) = Len(r.players) /\ LiveIds(q.players) = LiveIds(r.players)
      /\ Uniq(r.players) => Uniq(q.players)
  BY <1>1, <1>2, SwapWithFirstFacts
<1>5. RoomGood(q) /\ Members(q) = Members(r)
  BY <1>2, <1>3, <1>4, MembersAre DEF RoomGood, Once
<1> QED
  BY <1>2, <1>5 DEF q

LEMMA RemovePlayerGood ==
  ASSUME NEW w, NEW r, RoomGood(r), NEW p \in Sessions, NEW o \in RemovePlayer(w, r, p)
  PROVE  GoodOutcome(r, o)
<1> DEFINE Stays == {Outcome(r, NoSession, FALSE), Outcome(r, NoSession, TRUE)}
           Left(q) == Outcome(WithoutPlayer(q, p), p, Len(q.players) = 1)
           Best == BestIndices(w, r, p, FALSE)
           Swapped(k) == [r EXCEPT !.players = SwapWithFirst(@, k)]
<1>1. r \in RoomType /\ r.players \in Seq(Entries) /\ r.observers \in Seq(Entries)
  BY DEF RoomGood, RoomType
<1>2. NoSession \notin Members(r)
  BY <1>1, MembersAre, ListFacts, NoSessionAssumption
<1>3. \/ o \in Stays
      \/ InList(r.players, p) /\ o = Left(r)
      \/ InList(r.players, p) /\ \E k \in Best : o = Left(Swapped(k))
      \/ InList(r.observers, p) /\ o = Outcome(WithoutObserver(r, p), p, FALSE)
  <2> HIDE DEF Best
  <2>1. CASE r.players = <<>>
    BY <2>1 DEF RemovePlayer
  <2>2. CASE r.players # <<>> /\ InList(r.players, p)
    BY <2>2 DEF RemovePlayer, Best
  <2>3. CASE r.players # <<>> /\ ~InList(r.players, p) /\ InList(r.observers, p)
    BY <2>3 DEF RemovePlayer
  <2>4. CASE r.players # <<>> /\ ~InList(r.players, p) /\ ~InList(r.observers, p)
    BY <2>4 DEF RemovePlayer
  <2> QED
    BY <2>1, <2>2, <2>3, <2>4
<1>4. CASE o \in Stays
  BY <1>2, <1>4 DEF GoodOutcome, Outcome
<1>5. CASE InList(r.players, p) /\ o = Left(r)
  BY <1>5, WithoutPlayerGood DEF GoodOutcome, Outcome
<1>6. CASE InList(r.players, p) /\ \E k \in Best : o = Left(Swapped(k))
  <2>1. PICK k \in Best : o = Left(Swapped(k))
    BY <1>6
  <2>2. k \in DOMAIN r.players
    BY <1>1, BestArePlayers
  <2> DEFINE q == Swapped(k)
  <2>3. /\ RoomGood(q) /\ Members(q) = Members(r) /\ q.players = SwapWithFirst(r.players, k)
    BY <2>2, SwappedGood
  <2>4. InList(q.players, p)
    <3>1. LiveIds(q.players) = LiveIds(r.players) /\ q.players \in Seq(Entries)
      BY <1>1, <2>2, <2>3, SwapWithFirstFacts
    <3> QED
      BY <1>1, <1>6, <3>1, InListIsLive
  <2>5. o = Outcome(WithoutPlayer(q, p), p, Len(q.players) = 1)
    BY <2>1
  <2> HIDE DEF q
  <2> QED
    BY <2>3, <2>4, <2>5, WithoutPlayerGood DEF GoodOutcome, Outcome
<1>7. CASE InList(r.observers, p) /\ o = Outcome(WithoutObserver(r, p), p, FALSE)
  BY <1>7, WithoutObserverGood DEF GoodOutcome, Outcome
<1> QED
  BY <1>3, <1>4, <1>5, <1>6, <1>7

LEMMA RemoveHostGood ==
  ASSUME NEW w, NEW r, RoomGood(r), NEW o \in RemoveHost(w, r)
  PROVE  GoodOutcome(r, o)
<1> DEFINE host == r.players[1].id
           inMatch == \E i \in DOMAIN r.players :
                        r.players[i].live /\ w.state[r.players[i].id] = "normal"
           Best == BestIndices(w, r, host, inMatch)
           Moved(k) == [r EXCEPT !.players = SwapOut(SwapWithFirst(@, k), k),
                                 !.started = @ /\ inMatch]
<1>1. r \in RoomType /\ r.players \in Seq(Entries) /\ r.observers \in Seq(Entries)
  BY DEF RoomGood, RoomType
<1>2. NoSession \notin Members(r)
  BY <1>1, MembersAre, ListFacts, NoSessionAssumption
<1>3. \/ o \in {Outcome(r, NoSession, FALSE), Outcome(r, NoSession, TRUE)}
      \/ /\ r.players # <<>> /\ r.players[1].live
         /\ \E k \in Best : o = Outcome(Moved(k), host, FALSE)
  BY DEF RemoveHost
<1>4. CASE o \in {Outcome(r, NoSession, FALSE), Outcome(r, NoSession, TRUE)}
  BY <1>2, <1>4 DEF GoodOutcome, Outcome
<1>5. CASE /\ r.players # <<>> /\ r.players[1].live
           /\ \E k \in Best : o = Outcome(Moved(k), host, FALSE)
  <2>1. PICK k \in Best : o = Outcome(Moved(k), host, FALSE)
    BY <1>5
  <2>2. k \in DOMAIN r.players /\ 1 \in DOMAIN r.players
    <3>1. k \in DOMAIN r.players
      BY <1>1, BestArePlayers
    <3> QED
      BY <1>1, <3>1, ListFacts
  <2> DEFINE s == SwapWithFirst(r.players, k)
             q == Moved(k)
  <2>3. /\ s \in Seq(Entries) /\ Len(s) = Len(r.players) /\ k \in DOMAIN s /\ s[k] = r.players[1]
        /\ LiveIds(s) = LiveIds(r.players) /\ Uniq(s)
    BY <1>1, <2>2, SwapWithFirstFacts DEF RoomGood, Once
  <2>4. /\ q.players = SwapOut(s, k) /\ q.observers = r.observers /\ q.target = r.target
        /\ q.started \in BOOLEAN
        /\ q = [r EXCEPT !.players = SwapOut(s, k), !.started = q.started]
    BY <1>1 DEF RoomType
  <2> HIDE DEF s, q
  <2>5. /\ q.players \in Seq(Entries) /\ Len(q.players) = Len(r.players) - 1
        /\ LiveIds(q.players) = LiveIds(r.players) \ {host} /\ Uniq(q.players)
    BY <1>5, <2>3, <2>4, SwapOutFacts
  <2>6. q \in RoomType
    BY <1>1, <2>4, <2>5 DEF RoomType
  <2>7. host \in LiveIds(r.players) /\ host \notin LiveIds(r.observers)
    BY <1>5, <2>2 DEF LiveIds, RoomGood, Once
  <2>8. RoomGood(q)
    <3>1. Len(q.players) <= PlayersPerRoom
      BY <1>1, <2>5, ListFacts, PlayersPerRoomAssumption DEF RoomGood
    <3> QED
      BY <2>4, <2>5, <2>6, <3>1 DEF RoomGood, Once
  <2>9. Members(q) = Members(r) \ {host} /\ host \in Members(r)
    BY <2>4, <2>5, <2>7, MembersAre
  <2> QED
    BY <2>1, <2>8, <2>9 DEF GoodOutcome, Outcome, q
<1> QED
  BY <1>3, <1>4, <1>5

LEMMA KickedGood ==
  ASSUME NEW w, NEW r, RoomGood(r), NEW p \in Sessions, NEW o \in Kicked(w, r, p)
  PROVE  GoodOutcome(r, o)
BY RemovePlayerGood, RemoveHostGood DEF Kicked

-----------------------------------------------------------------------------
(* Worlds: what handlers pass on to each other.                            *)

\* The numbers that are free, taken or still to come.
NumbersGood(w, top) ==
  /\ w.free \in Seq(1 .. MaxNumber)
  /\ \A i, j \in DOMAIN w.free : w.free[i] = w.free[j] => i = j
  /\ \A i \in DOMAIN w.free : w.free[i] \notin DOMAIN w.rooms /\ w.free[i] < top
  /\ DOMAIN w.rooms \subseteq 1 .. MaxNumber
  /\ \A n \in DOMAIN w.rooms : n < top

\* The number of a clan room is no number of a normal room.
LEMMA ElsewhereFacts ==
  /\ Elsewhere \in Nat /\ Elsewhere # 0 /\ Elsewhere \notin 1 .. MaxNumber
  /\ 0 \in 0 .. Elsewhere /\ 1 .. MaxNumber \subseteq 0 .. Elsewhere
BY MaxNumberAssumption DEF Elsewhere

\* Sessions and rooms agree on who is where, up to the strays.
PlacesGood(w, strays) ==
  /\ w.number \in [Sessions -> 0 .. Elsewhere]
  /\ w.state \in [Sessions -> States]
  /\ \A n \in DOMAIN w.rooms : RoomGood(w.rooms[n])
  /\ \A p \in Sessions : w.number[p] \notin {0, Elsewhere} =>
       w.number[p] \in DOMAIN w.rooms /\ p \in Members(w.rooms[w.number[p]])
  /\ \A n \in DOMAIN w.rooms : \A p \in Members(w.rooms[n]) : w.number[p] = n \/ p \in strays

IsWorld(w) == w \in [rooms : {w.rooms}, number : {w.number}, state : {w.state}, free : {w.free}]
Good(w, top, strays) == IsWorld(w) /\ NumbersGood(w, top) /\ PlacesGood(w, strays)

LEMMA MembersAreSessions ==
  ASSUME NEW r, RoomGood(r)
  PROVE  Members(r) \subseteq Sessions
BY MembersAre, ListFacts DEF RoomGood, RoomType

\* A room is replaced by what a removal leaves of it.
LEMMA PutGood ==
  ASSUME NEW w, NEW top \in Nat, NEW strays, Good(w, top, strays),
         NEW n \in DOMAIN w.rooms, NEW o, GoodOutcome(w.rooms[n], o)
  PROVE  /\ Good(Put(w, n, o), top, strays)
         /\ DOMAIN Put(w, n, o).rooms = DOMAIN w.rooms
<1> DEFINE v == Put(w, n, o)
           r == w.rooms[n]
<1>1. IsWorld(v) /\ v.free = w.free /\ v.state = w.state
      /\ v.rooms = [w.rooms EXCEPT ![n] = o.room]
      /\ v.number = [p \in Sessions |-> IF p = o.left THEN 0 ELSE w.number[p]]
  BY DEF Good, IsWorld, Put
<1> HIDE DEF v
<1>2. /\ DOMAIN v.rooms = DOMAIN w.rooms /\ v.rooms[n] = o.room
      /\ \A m \in DOMAIN w.rooms : m # n => v.rooms[m] = w.rooms[m]
  BY <1>1
<1>3. NumbersGood(v, top)
  BY <1>1, <1>2 DEF Good, NumbersGood
<1>4. /\ RoomGood(o.room) /\ o.left \in Members(r) \cup {NoSession}
      /\ Members(o.room) = Members(r) \ {o.left} /\ Members(r) \subseteq Sessions
  BY MembersAreSessions DEF GoodOutcome, Good, PlacesGood
<1>5. \A p \in Sessions : /\ p # o.left => v.number[p] = w.number[p]
                          /\ p = o.left => v.number[p] = 0
  BY <1>1
<1>6. /\ v.number \in [Sessions -> 0 .. Elsewhere] /\ v.state \in [Sessions -> States]
      /\ \A m \in DOMAIN v.rooms : RoomGood(v.rooms[m])
  BY <1>1, <1>2, <1>4, ElsewhereFacts DEF Good, PlacesGood
<1>7. ASSUME NEW p \in Sessions, v.number[p] \notin {0, Elsewhere}
      PROVE  v.number[p] \in DOMAIN v.rooms /\ p \in Members(v.rooms[v.number[p]])
  <2>1. p # o.left /\ v.number[p] = w.number[p] /\ w.number[p] \notin {0, Elsewhere}
    BY <1>5, <1>7
  <2> QED
    BY <1>2, <1>4, <2>1 DEF Good, PlacesGood
<1>8. ASSUME NEW m \in DOMAIN v.rooms, NEW p \in Members(v.rooms[m])
      PROVE  v.number[p] = m \/ p \in strays
  <2>1. p \in Members(w.rooms[m]) /\ p \in Sessions
    BY <1>2, <1>4, MembersAreSessions DEF Good, PlacesGood
  <2>2. w.number[p] = m \/ p \in strays
    BY <1>2, <2>1 DEF Good, PlacesGood
  <2>3. p # o.left \/ p \in strays
    <3>1. CASE m = n
      BY <1>2, <1>4, <1>8, <3>1
    <3>2. CASE m # n
      <4>1. \A q \in Members(r) : w.number[q] = n \/ q \in strays
        BY DEF Good, PlacesGood
      <4> QED
        BY <1>4, <2>1, <2>2, <3>2, <4>1, NoSessionAssumption
    <3> QED
      BY <3>1, <3>2
  <2> QED
    BY <1>5, <2>1, <2>2, <2>3
<1> QED
  BY <1>1, <1>2, <1>3, <1>6, <1>7, <1>8 DEF Good, PlacesGood, v

\* A room is closed, and its number is free again.
LEMMA RemoveRoomGood ==
  ASSUME NEW w, NEW top \in Nat, NEW strays, Good(w, top, strays), NEW n \in DOMAIN w.rooms
  PROVE  Good(RemoveRoom(w, n), top, strays)
<1> DEFINE v == RemoveRoom(w, n)
<1>1. n \in 1 .. MaxNumber /\ n # 0 /\ n < top
  BY DEF Good, NumbersGood
<1>2. IsWorld(v) /\ v.free = Append(w.free, n) /\ v.state = w.state
      /\ v.rooms = Without(w.rooms, {n})
      /\ v.number = [p \in Sessions |-> IF p \in Members(w.rooms[n]) THEN 0 ELSE w.number[p]]
  BY <1>1 DEF Good, IsWorld, RemoveRoom
<1> HIDE DEF v
<1>3. DOMAIN v.rooms = DOMAIN w.rooms \ {n} /\ \A m \in DOMAIN v.rooms : v.rooms[m] = w.rooms[m]
  BY <1>2 DEF Without
<1>4. NumbersGood(v, top)
  <2> DEFINE l == Len(w.free)
  <2>1. w.free \in Seq(1 .. MaxNumber) /\ l \in Nat /\ DOMAIN w.free = 1 .. l
    BY DEF Good, NumbersGood
  <2>2. /\ v.free \in Seq(1 .. MaxNumber) /\ DOMAIN v.free = 1 .. l + 1
        /\ \A i \in 1 .. l : v.free[i] = w.free[i]
        /\ v.free[l + 1] = n
    BY <1>1, <1>2, <2>1
  <2> HIDE DEF l
  <2>3. \A i \in 1 .. l : w.free[i] # n /\ w.free[i] \notin DOMAIN w.rooms /\ w.free[i] < top
    BY <2>1 DEF Good, NumbersGood
  <2>4. \A i, j \in DOMAIN v.free : v.free[i] = v.free[j] => i = j
    BY <2>1, <2>2, <2>3 DEF Good, NumbersGood
  <2>5. \A i \in DOMAIN v.free : v.free[i] \notin DOMAIN v.rooms /\ v.free[i] < top
    BY <1>1, <1>3, <2>1, <2>2, <2>3
  <2> QED
    BY <1>3, <2>2, <2>4, <2>5 DEF Good, NumbersGood
<1>5. PlacesGood(v, strays)
  <2>1. \A p \in Sessions : /\ p \in Members(w.rooms[n]) => v.number[p] = 0
                            /\ p \notin Members(w.rooms[n]) => v.number[p] = w.number[p]
    BY <1>2
  <2>2. v.number \in [Sessions -> 0 .. Elsewhere] /\ v.state \in [Sessions -> States]
    BY <1>2, ElsewhereFacts DEF Good, PlacesGood
  <2>3. ASSUME NEW p \in Sessions, v.number[p] \notin {0, Elsewhere}
        PROVE  v.number[p] \in DOMAIN v.rooms /\ p \in Members(v.rooms[v.number[p]])
    BY <1>3, <2>1, <2>3 DEF Good, PlacesGood
  <2>4. ASSUME NEW m \in DOMAIN v.rooms, NEW p \in Members(v.rooms[m])
        PROVE  v.number[p] = m \/ p \in strays
    <3>1. m \in DOMAIN w.rooms /\ m # n /\ p \in Members(w.rooms[m]) /\ p \in Sessions
      BY <1>3, MembersAreSessions DEF Good, PlacesGood
    <3>2. \/ w.number[p] = m /\ p \notin Members(w.rooms[n])
          \/ p \in strays
      BY <3>1 DEF Good, PlacesGood
    <3> QED
      BY <2>1, <3>1, <3>2
  <2>5. \A m \in DOMAIN v.rooms : RoomGood(v.rooms[m])
    BY <1>3 DEF Good, PlacesGood
  <2> QED
    BY <2>2, <2>3, <2>4, <2>5 DEF PlacesGood
<1> QED
  BY <1>2, <1>4, <1>5 DEF Good, v

LEMMA ClosingGood ==
  ASSUME NEW w, NEW top \in Nat, NEW strays, Good(w, top, strays), NEW n \in DOMAIN w.rooms,
         NEW outcomes, \A o \in outcomes : GoodOutcome(w.rooms[n], o)
  PROVE  /\ \A v \in Closing(w, n, outcomes) : Good(v, top, strays)
         /\ \A v \in NotClosing(w, n, outcomes) : Good(v, top, strays)
<1>1. ASSUME NEW o \in outcomes
      PROVE  Good(Put(w, n, o), top, strays) /\ Good(RemoveRoom(Put(w, n, o), n), top, strays)
  <2>1. Good(Put(w, n, o), top, strays) /\ n \in DOMAIN Put(w, n, o).rooms
    BY PutGood
  <2> HIDE DEF Put
  <2> QED
    BY <2>1, RemoveRoomGood
<1> QED
  BY <1>1 DEF Closing, NotClosing

\* A room is edited and its members stay.
LEMMA EditGood ==
  ASSUME NEW w, NEW top \in Nat, NEW strays, Good(w, top, strays), NEW v, IsWorld(v),
         NEW n \in DOMAIN w.rooms, DOMAIN v.rooms = DOMAIN w.rooms,
         \A m \in DOMAIN w.rooms : m # n => v.rooms[m] = w.rooms[m],
         RoomGood(v.rooms[n]), Members(v.rooms[n]) = Members(w.rooms[n]),
         v.number = w.number, v.free = w.free, v.state \in [Sessions -> States]
  PROVE  Good(v, top, strays)
<1>1. NumbersGood(v, top)
  BY DEF Good, NumbersGood
<1>2. /\ \A m \in DOMAIN v.rooms : RoomGood(v.rooms[m])
      /\ \A m \in DOMAIN v.rooms : Members(v.rooms[m]) = Members(w.rooms[m])
  BY DEF Good, PlacesGood
<1>3. PlacesGood(v, strays)
  BY <1>2 DEF Good, PlacesGood
<1> QED
  BY <1>1, <1>3 DEF Good

\* Only states of entries change.
LEMMA RestatedGood ==
  ASSUME NEW r, RoomGood(r), NEW q \in RoomType,
         SameEntries(r.players, q.players), SameEntries(r.observers, q.observers),
         Len(q.players) = Len(r.players)
  PROVE  RoomGood(q) /\ Members(q) = Members(r)
BY SameEntriesFacts, MembersAre DEF RoomGood, Once

LEMMA SetStateForGood ==
  ASSUME NEW w, NEW top \in Nat, NEW strays, Good(w, top, strays), NEW n \in DOMAIN w.rooms,
         NEW p \in Sessions, NEW x \in States
  PROVE  Good(SetStateFor(w, n, p, x), top, strays)
<1> DEFINE v == SetStateFor(w, n, p, x)
           r == w.rooms[n]
           q == [r EXCEPT !.players = WithState(@, p, x), !.observers = WithState(@, p, x)]
<1>1. /\ IsWorld(v) /\ v.number = w.number /\ v.free = w.free
      /\ v.state = IF p \in Members(r) THEN [w.state EXCEPT ![p] = x] ELSE w.state
      /\ DOMAIN v.rooms = DOMAIN w.rooms /\ v.rooms[n] = q
      /\ \A m \in DOMAIN w.rooms : m # n => v.rooms[m] = w.rooms[m]
  BY DEF Good, IsWorld, SetStateFor
<1>2. RoomGood(r) /\ r \in RoomType /\ r.players \in Seq(Entries) /\ r.observers \in Seq(Entries)
  BY DEF Good, PlacesGood, RoomGood, RoomType
<1>3. /\ q.players = WithState(r.players, p, x) /\ q.observers = WithState(r.observers, p, x)
      /\ q.started = r.started /\ q.target = r.target
      /\ q = [r EXCEPT !.players = q.players, !.observers = q.observers]
  BY <1>2 DEF RoomType
<1> HIDE DEF v, q, r
<1>4. /\ q.players \in Seq(Entries) /\ Len(q.players) = Len(r.players)
      /\ q.observers \in Seq(Entries)
      /\ SameEntries(r.players, q.players) /\ SameEntries(r.observers, q.observers)
  BY <1>2, <1>3, WithStateFacts
<1>5. q \in RoomType
  BY <1>2, <1>3, <1>4 DEF RoomType
<1>6. RoomGood(q) /\ Members(q) = Members(r)
  BY <1>2, <1>4, <1>5, RestatedGood
<1>7. v.state \in [Sessions -> States]
  BY <1>1 DEF Good, PlacesGood
<1> QED
  BY <1>1, <1>6, <1>7, EditGood DEF v, r

LEMMA ResetVotekickGood ==
  ASSUME NEW w, NEW top \in Nat, NEW strays, Good(w, top, strays), NEW n \in DOMAIN w.rooms
  PROVE  Good([w EXCEPT !.rooms[n] = ResetVotekick(@)], top, strays)
<1> DEFINE v == [w EXCEPT !.rooms[n] = ResetVotekick(@)]
           r == w.rooms[n]
           q == ResetVotekick(r)
<1>1. /\ IsWorld(v) /\ v.number = w.number /\ v.free = w.free /\ v.state = w.state
      /\ DOMAIN v.rooms = DOMAIN w.rooms /\ v.rooms[n] = q
      /\ \A m \in DOMAIN w.rooms : m # n => v.rooms[m] = w.rooms[m]
  BY DEF Good, IsWorld
<1>2. RoomGood(r) /\ r \in RoomType
  BY DEF Good, PlacesGood, RoomGood
<1>3. q \in RoomType /\ q.players = r.players /\ q.observers = r.observers
  BY <1>2 DEF RoomType, ResetVotekick
<1> HIDE DEF v, q, r
<1>4. RoomGood(q) /\ Members(q) = Members(r)
  BY <1>2, <1>3, MembersAre DEF RoomGood, Once
<1>5. v.state \in [Sessions -> States]
  BY <1>1 DEF Good, PlacesGood
<1>6. Good(v, top, strays)
  BY <1>1, <1>4, <1>5, EditGood DEF r
<1> QED
  BY <1>6 DEF v

\* Closing a room is the only way in which it goes.
LEMMA NotClosingKeepsRooms ==
  ASSUME NEW w, NEW top \in Nat, NEW strays, Good(w, top, strays), NEW n \in DOMAIN w.rooms,
         NEW outcomes, \A o \in outcomes : GoodOutcome(w.rooms[n], o),
         NEW v \in NotClosing(w, n, outcomes)
  PROVE  n \in DOMAIN v.rooms
BY PutGood DEF NotClosing

LEMMA LeaveVotekickedGood ==
  ASSUME NEW w, NEW top \in Nat, NEW strays, Good(w, top, strays), NEW n \in DOMAIN w.rooms,
         NEW p \in Sessions, NEW v \in LeaveVotekicked(w, n, p)
  PROVE  Good(v, top, strays)
<1>1. PICK u : /\ v = [u EXCEPT !.rooms[n] = ResetVotekick(@)]
               /\ u = w \/ u \in NotClosing(w, n, Kicked(w, w.rooms[n], p))
  BY DEF LeaveVotekicked
<1>2. \A o \in Kicked(w, w.rooms[n], p) : GoodOutcome(w.rooms[n], o)
  BY KickedGood DEF Good, PlacesGood
<1>3. Good(u, top, strays) /\ n \in DOMAIN u.rooms
  BY <1>1, <1>2, ClosingGood, NotClosingKeepsRooms
<1> QED
  BY <1>1, <1>3, ResetVotekickGood

LEMMA LeavesGood ==
  ASSUME NEW w, NEW top \in Nat, NEW strays, Good(w, top, strays), NEW p \in Sessions
  PROVE  /\ \A v \in RoomLeave(w, p) : Good(v, top, strays)
         /\ \A v \in MatchLeave(w, p) : Good(v, top, strays)
<1> DEFINE n == w.number[p]
           r == w.rooms[n]
<1>1. CASE ~HasRoom(w, p)
  BY <1>1 DEF RoomLeave, MatchLeave
<1>2. CASE HasRoom(w, p)
  <2>1. n \in DOMAIN w.rooms /\ RoomGood(r)
    BY <1>2 DEF HasRoom, Good, PlacesGood
  <2>2. /\ \A o \in RemovePlayer(w, r, p) : GoodOutcome(r, o)
        /\ \A o \in RemoveHost(w, r) : GoodOutcome(r, o)
    BY <2>1, RemovePlayerGood, RemoveHostGood
  <2>3. /\ \A v \in LeaveVotekicked(w, n, p) : Good(v, top, strays)
        /\ \A v \in Closing(w, n, RemovePlayer(w, r, p)) : Good(v, top, strays)
        /\ \A v \in Closing(w, n, RemoveHost(w, r)) : Good(v, top, strays)
    BY <2>1, <2>2, LeaveVotekickedGood, ClosingGood
  <2>4. Good(SetStateFor(w, n, p, "waiting"), top, strays)
    BY <2>1, SetStateForGood DEF States
  <2> QED
    BY <1>2, <2>3, <2>4 DEF RoomLeave, MatchLeave
<1> QED
  BY <1>1, <1>2

\* A session object goes, and whatever it left in a list is dead.
LEMMA DepartedGood ==
  ASSUME NEW w, NEW top \in Nat, NEW strays, Good(w, top, strays), NEW p \in Sessions
  PROVE  Good(Departed(w, p), top, strays \ {p})
<1> DEFINE v == Departed(w, p)
<1>1. /\ IsWorld(v) /\ v.free = w.free
      /\ v.number = [w.number EXCEPT ![p] = 0] /\ v.state = [w.state EXCEPT ![p] = "away"]
      /\ DOMAIN v.rooms = DOMAIN w.rooms
      /\ \A n \in DOMAIN w.rooms : v.rooms[n] = GoneFrom(w.rooms[n], p)
  <2>1. w \in [rooms : {w.rooms}, number : {w.number}, state : {w.state}, free : {w.free}]
    BY DEF Good, IsWorld
  <2> DEFINE f == [n \in DOMAIN w.rooms |-> GoneFrom(w.rooms[n], p)]
  <2>2. v = [w EXCEPT !.rooms = f, !.number[p] = 0, !.state[p] = "away"]
    BY DEF Departed
  <2> HIDE DEF f, v
  <2>3. /\ IsWorld(v) /\ v.free = w.free /\ v.rooms = f
        /\ v.number = [w.number EXCEPT ![p] = 0] /\ v.state = [w.state EXCEPT ![p] = "away"]
    BY <2>1, <2>2 DEF IsWorld
  <2> QED
    BY <2>3 DEF f
<1> HIDE DEF v
<1>2. NumbersGood(v, top)
  BY <1>1 DEF Good, NumbersGood
<1>3. ASSUME NEW n \in DOMAIN w.rooms
      PROVE  RoomGood(v.rooms[n]) /\ Members(v.rooms[n]) = Members(w.rooms[n]) \ {p}
  <2> DEFINE r == w.rooms[n]
             q == v.rooms[n]
  <2>1. RoomGood(r) /\ r \in RoomType /\ r.players \in Seq(Entries) /\ r.observers \in Seq(Entries)
    BY DEF Good, PlacesGood, RoomGood, RoomType
  <2>2. /\ q = [r EXCEPT !.players = Dead(r.players, p), !.observers = Dead(r.observers, p)]
        /\ q.players = Dead(r.players, p) /\ q.observers = Dead(r.observers, p)
    BY <1>1, <2>1 DEF RoomType, GoneFrom
  <2> HIDE DEF q, r
  <2>3. /\ q.players \in Seq(Entries) /\ Len(q.players) = Len(r.players)
        /\ LiveIds(q.players) = LiveIds(r.players) \ {p} /\ Uniq(q.players)
        /\ q.observers \in Seq(Entries)
        /\ LiveIds(q.observers) = LiveIds(r.observers) \ {p} /\ Uniq(q.observers)
    BY <2>1, <2>2, DeadFacts DEF RoomGood, Once
  <2>4. q \in RoomType
    BY <2>1, <2>2, <2>3 DEF RoomType
  <2>5. RoomGood(q) /\ Members(q) = Members(r) \ {p}
    BY <2>1, <2>3, <2>4, MembersAre DEF RoomGood, Once
  <2> QED
    BY <2>5 DEF q, r
<1>4. /\ v.number \in [Sessions -> 0 .. Elsewhere] /\ v.state \in [Sessions -> States]
      /\ v.number[p] = 0 /\ \A q \in Sessions \ {p} : v.number[q] = w.number[q]
  <2>1. w.number \in [Sessions -> 0 .. Elsewhere] /\ w.state \in [Sessions -> States]
    BY DEF Good, PlacesGood
  <2>2. 0 \in 0 .. Elsewhere /\ "away" \in States
    BY ElsewhereFacts DEF States
  <2>3. v.number = [w.number EXCEPT ![p] = 0] /\ v.state = [w.state EXCEPT ![p] = "away"]
    BY <1>1
  <2> QED
    BY <2>1, <2>2, <2>3
<1>5. PlacesGood(v, strays \ {p})
  <2>1. ASSUME NEW q \in Sessions, v.number[q] \notin {0, Elsewhere}
        PROVE  v.number[q] \in DOMAIN v.rooms /\ q \in Members(v.rooms[v.number[q]])
    <3>1. q # p /\ v.number[q] = w.number[q] /\ w.number[q] \notin {0, Elsewhere}
      BY <1>4, <2>1
    <3>2. w.number[q] \in DOMAIN w.rooms /\ q \in Members(w.rooms[w.number[q]])
      BY <3>1 DEF Good, PlacesGood
    <3> QED
      BY <1>1, <1>3, <3>1, <3>2
  <2>2. ASSUME NEW n \in DOMAIN v.rooms, NEW q \in Members(v.rooms[n])
        PROVE  v.number[q] = n \/ q \in strays \ {p}
    <3>1. n \in DOMAIN w.rooms /\ q \in Members(w.rooms[n]) /\ q # p
      <4>1. n \in DOMAIN w.rooms
        BY <1>1
      <4> QED
        BY <1>3, <2>2, <4>1
    <3>2. q \in Sessions
      BY <3>1, MembersAreSessions DEF Good, PlacesGood
    <3> QED
      BY <1>4, <3>1, <3>2 DEF Good, PlacesGood
  <2> QED
    BY <1>1, <1>3, <1>4, <2>1, <2>2 DEF PlacesGood
<1> QED
  BY <1>1, <1>2, <1>5 DEF Good, v

\* A party gives a session another number: it is astray where it was listed.
LEMMA RenumberedGood ==
  ASSUME NEW w, NEW top \in Nat, NEW strays, Good(w, top, strays), NEW p \in Sessions,
         NEW v, IsWorld(v), v.rooms = w.rooms, v.free = w.free,
         v.state \in [Sessions -> States],
         NEW k \in {0, Elsewhere}, v.number = [w.number EXCEPT ![p] = k]
  PROVE  Good(v, top, strays \cup Astray(w, p))
<1>1. NumbersGood(v, top)
  BY DEF Good, NumbersGood
<1>2. /\ w.number \in [Sessions -> 0 .. Elsewhere] /\ v.number \in [Sessions -> 0 .. Elsewhere]
      /\ v.number[p] = k /\ \A q \in Sessions \ {p} : v.number[q] = w.number[q]
  BY ElsewhereFacts DEF Good, PlacesGood
<1>3. \A q \in Sessions : v.number[q] \notin {0, Elsewhere} =>
        v.number[q] \in DOMAIN v.rooms /\ q \in Members(v.rooms[v.number[q]])
  BY <1>2 DEF Good, PlacesGood
<1>4. ASSUME NEW n \in DOMAIN v.rooms, NEW q \in Members(v.rooms[n])
      PROVE  v.number[q] = n \/ q \in strays \cup Astray(w, p)
  <2>1. q \in Sessions /\ (w.number[q] = n \/ q \in strays)
    BY MembersAreSessions DEF Good, PlacesGood
  <2>2. q = p /\ w.number[q] = n => q \in Astray(w, p)
    BY DEF Astray, HasRoom
  <2> QED
    BY <1>2, <2>1, <2>2
<1>5. PlacesGood(v, strays \cup Astray(w, p))
  BY <1>2, <1>3, <1>4 DEF Good, PlacesGood
<1> QED
  BY <1>1, <1>5 DEF Good

LEMMA OutOfPartyGood ==
  ASSUME NEW w, NEW top \in Nat, NEW strays, Good(w, top, strays), NEW p \in Sessions
  PROVE  Good(OutOfParty(w, p), top, strays \cup Astray(w, p))
<1> DEFINE v == OutOfParty(w, p)
<1>1. /\ IsWorld(v) /\ v.rooms = w.rooms /\ v.free = w.free /\ v.state = w.state
      /\ v.number = [w.number EXCEPT ![p] = 0]
  BY DEF Good, IsWorld, OutOfParty
<1>2. v.state \in [Sessions -> States]
  BY <1>1 DEF Good, PlacesGood
<1> HIDE DEF v
<1>3. Good(v, top, strays \cup Astray(w, p))
  BY <1>1, <1>2, RenumberedGood
<1> QED
  BY <1>3 DEF v

\* More strays spoil nothing.
LEMMA MoreStraysGood ==
  ASSUME NEW w, NEW top, NEW strays, Good(w, top, strays), NEW more, strays \subseteq more
  PROVE  Good(w, top, more)
BY DEF Good, PlacesGood

-----------------------------------------------------------------------------
(* The inductive invariant, and the requests one by one.                   *)

IInv == Good(World, next, strayed) /\ next \in 1 .. MaxNumber + 1

LEMMA WorldIs ==
  /\ IsWorld(World) /\ World.rooms = rooms /\ World.number = number
  /\ World.state = state /\ World.free = free
BY DEF World, IsWorld

LEMMA WorldIsNext ==
  /\ IsWorld(World') /\ World'.rooms = rooms' /\ World'.number = number'
  /\ World'.state = state' /\ World'.free = free'
BY DEF World, IsWorld

LEMMA NextIsNatural ==
  ASSUME IInv
  PROVE  next \in Nat /\ Good(World, next, strayed)
BY MaxNumberAssumption DEF IInv

\* A request that ends in a good world.
LEMMA BecomeGood ==
  ASSUME IInv, NEW w, Become(w), UNCHANGED next, Good(w, next, strayed')
  PROVE  IInv'
<1>1. /\ World'.rooms = w.rooms /\ World'.number = w.number
      /\ World'.state = w.state /\ World'.free = w.free /\ IsWorld(World')
  BY WorldIsNext DEF Become
<1>2. Good(World', next', strayed')
  BY <1>1 DEF Good, NumbersGood, PlacesGood
<1> QED
  BY <1>2 DEF IInv

\* A request that edits one room.
LEMMA RequestEdits ==
  ASSUME IInv, NEW n \in DOMAIN rooms, NEW q, rooms' = [rooms EXCEPT ![n] = q],
         RoomGood(q), Members(q) = Members(rooms[n]), state' \in [Sessions -> States],
         UNCHANGED <<number, free, next, strayed>>
  PROVE  IInv'
<1>1. /\ DOMAIN rooms' = DOMAIN rooms /\ rooms'[n] = q
      /\ \A m \in DOMAIN rooms : m # n => rooms'[m] = rooms[m]
  OBVIOUS
<1>2. next \in Nat /\ Good(World, next, strayed)
  BY NextIsNatural
<1>3. /\ IsWorld(World') /\ n \in DOMAIN World.rooms /\ DOMAIN World'.rooms = DOMAIN World.rooms
      /\ \A m \in DOMAIN World.rooms : m # n => World'.rooms[m] = World.rooms[m]
      /\ RoomGood(World'.rooms[n]) /\ Members(World'.rooms[n]) = Members(World.rooms[n])
      /\ World'.number = World.number /\ World'.free = World.free
      /\ World'.state \in [Sessions -> States]
  BY <1>1, WorldIs, WorldIsNext
<1>4. Good(World', next, strayed)
  BY <1>2, <1>3, EditGood
<1> QED
  BY <1>4 DEF IInv

LEMMA RoomOf ==
  ASSUME IInv, NEW n \in DOMAIN rooms
  PROVE  /\ RoomGood(rooms[n]) /\ rooms[n] \in RoomType
         /\ rooms[n].players \in Seq(Entries) /\ rooms[n].observers \in Seq(Entries)
         /\ rooms[n].started \in BOOLEAN /\ rooms[n].target \in Sessions \cup {NoSession}
         /\ Members(rooms[n]) \subseteq Sessions
         /\ state \in [Sessions -> States] /\ number \in [Sessions -> 0 .. Elsewhere]
BY WorldIs, MembersAreSessions DEF IInv, Good, PlacesGood, RoomGood, RoomType

LEMMA CreateRoomGood ==
  ASSUME IInv, NEW p \in Sessions, CreateRoom(p), Generated # 0, UNCHANGED strayed
  PROVE  IInv'
<1> DEFINE n == Generated
           q == [players |-> <<NewEntry(p)>>, observers |-> <<>>, started |-> FALSE, target |-> NoSession]
<1>0. /\ NumbersGood(World, next) /\ PlacesGood(World, strayed) /\ next \in Nat
      /\ MaxNumber \in Nat /\ next \in 1 .. MaxNumber + 1
  BY MaxNumberAssumption DEF IInv, Good
<1>1. /\ free \in Seq(1 .. MaxNumber)
      /\ \A i, j \in DOMAIN free : free[i] = free[j] => i = j
      /\ \A i \in DOMAIN free : free[i] \notin DOMAIN rooms /\ free[i] < next
      /\ DOMAIN rooms \subseteq 1 .. MaxNumber
      /\ \A m \in DOMAIN rooms : m < next
  BY <1>0, WorldIs DEF NumbersGood
<1>2. /\ next' \in 1 .. MaxNumber + 1 /\ next <= next'
      /\ n \in 1 .. MaxNumber /\ n \notin DOMAIN rooms /\ n < next'
      /\ free' \in Seq(1 .. MaxNumber)
      /\ \A i, j \in DOMAIN free' : free'[i] = free'[j] => i = j
      /\ \A i \in DOMAIN free' : free'[i] \notin DOMAIN rooms /\ free'[i] # n /\ free'[i] < next'
  <2>1. CASE free # <<>>
    <3>1. n = free[1] /\ next' = next /\ free' = Tail(free)
      BY <2>1 DEF CreateRoom, Generated
    <3>2. /\ Len(free) \in Nat /\ Len(free) > 0 /\ DOMAIN free = 1 .. Len(free)
          /\ free' \in Seq(1 .. MaxNumber) /\ DOMAIN free' = 1 .. Len(free) - 1
          /\ \A i \in 1 .. Len(free) - 1 : free'[i] = free[i + 1]
      BY <1>1, <2>1, <3>1
    <3>3. \A i \in DOMAIN free' : i + 1 \in DOMAIN free /\ i + 1 # 1 /\ free'[i] = free[i + 1]
      BY <3>2
    <3>4. 1 \in DOMAIN free
      BY <3>2
    <3> HIDE DEF n
    <3>8. free[1] \in 1 .. MaxNumber
      <4>1. \A i \in 1 .. Len(free) : free[i] \in 1 .. MaxNumber
        BY <1>1, ElementOfSeq
      <4> QED
        BY <3>2, <3>4, <4>1
    <3>5. n \in 1 .. MaxNumber /\ n \notin DOMAIN rooms /\ n < next'
      BY <1>1, <3>1, <3>4, <3>8
    <3>6. \A i, j \in DOMAIN free' : free'[i] = free'[j] => i = j
      BY <1>1, <3>2, <3>3
    <3>7. \A i \in DOMAIN free' : free'[i] \notin DOMAIN rooms /\ free'[i] # n /\ free'[i] < next'
      BY <1>1, <3>1, <3>3, <3>4
    <3> QED
      BY <1>0, <3>1, <3>2, <3>5, <3>6, <3>7
  <2>2. CASE free = <<>>
    BY <1>0, <1>1, <2>2 DEF CreateRoom, Generated
  <2> QED
    BY <2>1, <2>2
<1>3. CASE UNCHANGED <<rooms, number, state>>
  <2>3. \A m \in DOMAIN rooms : m < next'
    BY <1>0, <1>1, <1>2
  <2>1. NumbersGood(World', next')
    BY <1>1, <1>2, <1>3, <2>3, WorldIsNext DEF NumbersGood
  <2>2. PlacesGood(World', strayed')
    BY <1>0, <1>3, WorldIs, WorldIsNext DEF PlacesGood, CreateRoom
  <2> QED
    BY <1>2, <2>1, <2>2, WorldIsNext DEF IInv, Good, CreateRoom
<1>4. CASE /\ rooms' = [m \in DOMAIN rooms \cup {n} |-> IF m = n THEN q ELSE rooms[m]]
           /\ number' = [number EXCEPT ![p] = n] /\ state' = [state EXCEPT ![p] = "waiting"]
  <2>1. /\ DOMAIN rooms' = DOMAIN rooms \cup {n} /\ rooms'[n] = q
        /\ \A m \in DOMAIN rooms : rooms'[m] = rooms[m]
    BY <1>2, <1>4
  <2>2. RoomGood(q) /\ Members(q) = {p}
    <3>1. <<NewEntry(p)>> \in Seq(Entries) /\ Len(<<NewEntry(p)>>) = 1
          /\ LiveIds(<<NewEntry(p)>>) = {p} /\ Uniq(<<NewEntry(p)>>)
      BY DEF NewEntry, Entries, States, LiveIds, Uniq
    <3>2. <<>> \in Seq(Entries) /\ LiveIds(<<>>) = {} /\ Uniq(<<>>)
      BY DEF LiveIds, Uniq
    <3>3. q \in RoomType
      BY <3>1, <3>2 DEF RoomType
    <3> QED
      BY <3>1, <3>2, <3>3, MembersAre, PlayersPerRoomAssumption DEF RoomGood, Once
  <2>3. number[p] = 0
    BY DEF CreateRoom
  <2> HIDE DEF n, q
  <2>4. NumbersGood(World', next')
    <3>1. \A m \in DOMAIN rooms' : m < next'
      BY <1>0, <1>1, <1>2, <2>1
    <3> QED
      BY <1>1, <1>2, <2>1, <3>1, WorldIsNext DEF NumbersGood
  <2>5. PlacesGood(World', strayed')
    <3>1. /\ number \in [Sessions -> 0 .. Elsewhere] /\ state \in [Sessions -> States]
          /\ \A m \in DOMAIN rooms : RoomGood(rooms[m])
          /\ \A x \in Sessions : number[x] \notin {0, Elsewhere} =>
               number[x] \in DOMAIN rooms /\ x \in Members(rooms[number[x]])
          /\ \A m \in DOMAIN rooms : \A x \in Members(rooms[m]) :
               (number[x] = m \/ x \in strayed) /\ x \in Sessions
      BY <1>0, WorldIs, MembersAreSessions DEF PlacesGood
    <3>2. /\ number' \in [Sessions -> 0 .. Elsewhere] /\ state' \in [Sessions -> States]
          /\ number'[p] = n /\ \A x \in Sessions \ {p} : number'[x] = number[x]
      BY <1>0, <1>2, <1>4, <3>1, ElsewhereFacts DEF States
    <3>3. \A m \in DOMAIN rooms' : RoomGood(rooms'[m])
      BY <2>1, <2>2, <3>1
    <3>4. \A x \in Sessions : number'[x] \notin {0, Elsewhere} =>
             number'[x] \in DOMAIN rooms' /\ x \in Members(rooms'[number'[x]])
      BY <2>1, <2>2, <3>1, <3>2
    <3>5. ASSUME NEW m \in DOMAIN rooms', NEW x \in Members(rooms'[m])
          PROVE  number'[x] = m \/ x \in strayed
      <4>1. CASE m = n
        BY <2>1, <2>2, <3>2, <3>5, <4>1
      <4>2. CASE m # n
        <5>1. m \in DOMAIN rooms /\ m # 0 /\ x \in Members(rooms[m])
          BY <1>1, <2>1, <3>5, <4>2
        <5>2. x # p \/ x \in strayed
          BY <2>3, <3>1, <5>1
        <5> QED
          BY <3>1, <3>2, <5>1, <5>2
      <4> QED
        BY <4>1, <4>2
    <3> QED
      BY <3>2, <3>3, <3>4, <3>5, WorldIsNext DEF PlacesGood
  <2> QED
    BY <1>2, <2>4, <2>5, WorldIsNext DEF IInv, Good
<1> QED
  BY <1>3, <1>4 DEF CreateRoom

\* Sessions come and parties are entered: no room is told.
LEMMA SameRoomsGood ==
  ASSUME IInv, UNCHANGED <<rooms, number, state, free, next, strayed>>
  PROVE  IInv'
<1>1. World' = World /\ next' = next /\ strayed' = strayed
  BY DEF World
<1> QED
  BY <1>1 DEF IInv

\* A session enters a room as a player or as an observer.
LEMMA EnteredGood ==
  ASSUME NEW r, RoomGood(r), NEW p \in Sessions, p \notin Members(r), NEW q,
         \/ q = [r EXCEPT !.players = Append(r.players, NewEntry(p))] /\ Len(r.players) < PlayersPerRoom
         \/ q = [r EXCEPT !.observers = Append(r.observers, NewEntry(p))]
  PROVE  RoomGood(q) /\ Members(q) = Members(r) \cup {p}
<1> DEFINE e == NewEntry(p)
<1>1. r \in RoomType /\ r.players \in Seq(Entries) /\ r.observers \in Seq(Entries)
  BY DEF RoomGood, RoomType
<1>2. e \in Entries /\ e.live /\ e.id = p
  BY DEF NewEntry, Entries, States
<1> HIDE DEF e
<1>3. p \notin LiveIds(r.players) /\ p \notin LiveIds(r.observers)
  BY MembersAre
<1>4. Once(r) /\ Len(r.players) <= PlayersPerRoom /\ Len(r.players) \in Nat
  BY <1>1, ListFacts DEF RoomGood
<1>5. CASE q = [r EXCEPT !.players = Append(r.players, e)] /\ Len(r.players) < PlayersPerRoom
  <2>1. /\ q.players = Append(r.players, e) /\ q.observers = r.observers
        /\ q.started = r.started /\ q.target = r.target
    BY <1>1, <1>5 DEF RoomType
  <2>2. /\ q.players \in Seq(Entries) /\ Len(q.players) = Len(r.players) + 1
        /\ LiveIds(q.players) = LiveIds(r.players) \cup {p} /\ Uniq(q.players)
    BY <1>1, <1>2, <1>3, <1>4, <2>1, AppendFacts DEF Once
  <2>3. q \in RoomType
    BY <1>1, <1>5, <2>1, <2>2 DEF RoomType
  <2>4. Len(q.players) <= PlayersPerRoom
    BY <1>4, <1>5, <2>2, PlayersPerRoomAssumption
  <2> QED
    BY <1>3, <1>4, <2>1, <2>2, <2>3, <2>4, MembersAre DEF RoomGood, Once
<1>6. CASE q = [r EXCEPT !.observers = Append(r.observers, e)]
  <2>1. /\ q.observers = Append(r.observers, e) /\ q.players = r.players
        /\ q.started = r.started /\ q.target = r.target
    BY <1>1, <1>6 DEF RoomType
  <2>2. /\ q.observers \in Seq(Entries)
        /\ LiveIds(q.observers) = LiveIds(r.observers) \cup {p} /\ Uniq(q.observers)
    BY <1>1, <1>2, <1>3, <1>4, <2>1, AppendFacts DEF Once
  <2>3. q \in RoomType
    BY <1>1, <1>6, <2>1, <2>2 DEF RoomType
  <2> QED
    BY <1>3, <1>4, <2>1, <2>2, <2>3, MembersAre DEF RoomGood, Once
<1> QED
  BY <1>5, <1>6 DEF e

LEMMA JoinRoomGood ==
  ASSUME IInv, NEW p \in Sessions, NEW n \in DOMAIN rooms, JoinRoom(p, n), UNCHANGED strayed
  PROVE  IInv'
<1> DEFINE r == rooms[n]
           q == rooms'[n]
<1>1. /\ number[p] = 0 /\ n # 0 /\ p \notin Members(r)
      /\ number' = [number EXCEPT ![p] = n] /\ UNCHANGED <<state, free, next>>
  BY DEF JoinRoom
<1>2. /\ DOMAIN rooms' = DOMAIN rooms /\ \A m \in DOMAIN rooms : m # n => rooms'[m] = rooms[m]
      /\ \/ q = [r EXCEPT !.players = Append(r.players, NewEntry(p))] /\ Len(r.players) < PlayersPerRoom
         \/ q = [r EXCEPT !.observers = Append(r.observers, NewEntry(p))]
  BY DEF JoinRoom, JoinsAsPlayer, JoinsAsObserver
<1>3. RoomGood(r) /\ number \in [Sessions -> 0 .. Elsewhere]
  BY RoomOf
<1>4. RoomGood(q) /\ Members(q) = Members(r) \cup {p}
  <2> HIDE DEF r, q
  <2> QED
    BY <1>1, <1>2, <1>3, EnteredGood
<1>5. NumbersGood(World, next) /\ PlacesGood(World, strayed)
  BY DEF IInv, Good
<1> HIDE DEF q
<1>6. NumbersGood(World', next')
  BY <1>1, <1>2, <1>5, WorldIs, WorldIsNext DEF NumbersGood
<1>7. PlacesGood(World', strayed')
  <2>1. n \in 1 .. MaxNumber
    BY <1>5, WorldIs DEF NumbersGood
  <2>2. /\ number' \in [Sessions -> 0 .. Elsewhere] /\ number'[p] = n
        /\ \A x \in Sessions \ {p} : number'[x] = number[x]
    BY <1>1, <1>3, <2>1, ElsewhereFacts
  <2>3. /\ \A m \in DOMAIN rooms : RoomGood(rooms[m])
        /\ \A x \in Sessions : number[x] \notin {0, Elsewhere} =>
             number[x] \in DOMAIN rooms /\ x \in Members(rooms[number[x]])
        /\ \A m \in DOMAIN rooms : \A x \in Members(rooms[m]) :
             (number[x] = m \/ x \in strayed) /\ x \in Sessions
    BY <1>5, WorldIs, MembersAreSessions DEF PlacesGood
  <2>4. ASSUME NEW x \in Sessions, number'[x] \notin {0, Elsewhere}
        PROVE  number'[x] \in DOMAIN rooms' /\ x \in Members(rooms'[number'[x]])
    <3>1. CASE x = p
      BY <1>2, <1>4, <2>2, <3>1 DEF q
    <3>2. CASE x # p
      <4>1. number'[x] = number[x] /\ number[x] \in DOMAIN rooms /\ x \in Members(rooms[number[x]])
        BY <2>2, <2>3, <2>4, <3>2
      <4> QED
        BY <1>2, <1>4, <4>1 DEF q
    <3> QED
      BY <3>1, <3>2
  <2>5. ASSUME NEW m \in DOMAIN rooms', NEW x \in Members(rooms'[m])
        PROVE  number'[x] = m \/ x \in strayed'
    <3>1. CASE m = n /\ x = p
      BY <1>1, <2>2, <3>1
    <3>2. CASE ~(m = n /\ x = p)
      <4>1. m \in DOMAIN rooms /\ x \in Members(rooms[m])
        BY <1>2, <1>4, <2>5, <3>2 DEF q
      <4>2. m # 0 /\ (x # p \/ x \in strayed)
        BY <1>1, <1>5, <2>1, <2>3, <4>1, WorldIs DEF NumbersGood
      <4> QED
        BY <1>1, <2>2, <2>3, <4>1, <4>2
    <3> QED
      BY <3>1, <3>2
  <2>6. \A m \in DOMAIN rooms' : RoomGood(rooms'[m])
    BY <1>2, <1>4, <2>3 DEF q
  <2>7. state' \in [Sessions -> States]
    BY <1>1, RoomOf
  <2> QED
    BY <2>2, <2>4, <2>5, <2>6, <2>7, WorldIsNext DEF PlacesGood
<1> QED
  BY <1>1, <1>6, <1>7, WorldIsNext DEF IInv, Good

LEMMA LeavesRequestGood ==
  ASSUME IInv, NEW p \in Sessions, LeaveRoom(p) \/ LeaveMatch(p), UNCHANGED strayed
  PROVE  IInv'
<1>1. next \in Nat /\ Good(World, next, strayed)
  BY NextIsNatural
<1>2. PICK w \in RoomLeave(World, p) \cup MatchLeave(World, p) : Become(w)
  BY DEF LeaveRoom, LeaveMatch
<1>3. Good(w, next, strayed)
  BY <1>1, LeavesGood
<1>4. UNCHANGED next
  BY DEF LeaveRoom, LeaveMatch
<1> QED
  BY <1>2, <1>3, <1>4, BecomeGood

LEMMA KicksGood ==
  ASSUME IInv, NEW p \in Sessions, NEW q \in Sessions, KickPlayer(p, q) \/ CommandKick(p, q), UNCHANGED strayed
  PROVE  IInv'
<1> DEFINE n == number[p]
           r == rooms[n]
<1>1. next \in Nat /\ Good(World, next, strayed) /\ n \in DOMAIN World.rooms /\ World.rooms[n] = r
  BY NextIsNatural, WorldIs DEF KickPlayer, CommandKick, HasRoom
<1>2. RoomGood(r)
  BY <1>1 DEF Good, PlacesGood
<1>3. /\ \A o \in RemovePlayer(World, r, q) : GoodOutcome(World.rooms[n], o)
      /\ \A o \in Kicked(World, r, q) : GoodOutcome(World.rooms[n], o)
  BY <1>1, <1>2, RemovePlayerGood, KickedGood
<1>4. PICK w : /\ Become(w)
               /\ \/ w \in NotClosing(World, n, RemovePlayer(World, r, q))
                  \/ w \in NotClosing(World, n, Kicked(World, r, q))
  BY DEF KickPlayer, CommandKick
<1> HIDE DEF n, r
<1>5. Good(w, next, strayed)
  BY <1>1, <1>3, <1>4, ClosingGood
<1>6. UNCHANGED next
  BY DEF KickPlayer, CommandKick
<1> QED
  BY <1>4, <1>5, <1>6, BecomeGood

LEMMA JoinMatchGood ==
  ASSUME IInv, NEW p \in Sessions, JoinMatch(p), UNCHANGED strayed
  PROVE  IInv'
<1>1. next \in Nat /\ Good(World, next, strayed) /\ number[p] \in DOMAIN World.rooms
  BY NextIsNatural, WorldIs DEF JoinMatch, HasRoom
<1>2. Good(SetStateFor(World, number[p], p, "normal"), next, strayed)
  BY <1>1, SetStateForGood DEF States
<1>3. UNCHANGED next
  BY DEF JoinMatch
<1> HIDE DEF SetStateFor
<1> QED
  BY <1>2, <1>3, BecomeGood DEF JoinMatch

\* Entries take new states one by one.
LEMMA MappedFacts ==
  ASSUME NEW s \in Seq(Entries), NEW t, DOMAIN t = DOMAIN s,
         \A i \in DOMAIN s : \E v \in States : t[i] = s[i] \/ t[i] = [s[i] EXCEPT !.state = v],
         t = [i \in DOMAIN s |-> t[i]]
  PROVE  t \in Seq(Entries) /\ Len(t) = Len(s) /\ SameEntries(s, t)
<1>1. Len(s) \in Nat /\ DOMAIN s = 1 .. Len(s) /\ \A i \in DOMAIN s : s[i] \in Entries
  BY ListFacts
<1>2. \A i \in DOMAIN s : t[i] \in Entries /\ t[i].id = s[i].id /\ t[i].live = s[i].live
  BY <1>1 DEF Entries
<1>3. t \in [1 .. Len(s) -> Entries]
  BY <1>1, <1>2
<1> QED
  BY <1>1, <1>2, <1>3, IsList DEF SameEntries

LEMMA MatchGood ==
  ASSUME IInv, NEW p \in Sessions, StartMatch(p) \/ EndMatch(p), UNCHANGED strayed
  PROVE  IInv'
<1> DEFINE n == number[p]
           r == rooms[n]
           q == rooms'[n]
           Played(s) == [i \in DOMAIN s |->
                           IF Starts(r, s[i]) THEN [s[i] EXCEPT !.state = "normal"] ELSE s[i]]
           Ended(s) == [i \in DOMAIN s |->
                          IF s[i].live /\ state[s[i].id] \in {"ready", "normal"}
                          THEN [s[i] EXCEPT !.state = "waiting"] ELSE s[i]]
<1>1. n \in DOMAIN rooms
  BY WorldIs DEF StartMatch, EndMatch, HasRoom
<1>2. /\ RoomGood(r) /\ r \in RoomType /\ r.players \in Seq(Entries) /\ r.observers \in Seq(Entries)
      /\ state \in [Sessions -> States]
  BY <1>1, RoomOf
<1>3. /\ rooms' = [rooms EXCEPT ![n] = q] /\ q.target = NoSession /\ q.started \in BOOLEAN
      /\ q = [players |-> q.players, observers |-> q.observers, started |-> q.started, target |-> q.target]
      /\ \/ q.players = Played(r.players) /\ q.observers = Played(r.observers)
         \/ q.players = Ended(r.players) /\ q.observers = Ended(r.observers)
  <2>1. CASE StartMatch(p)
    BY <1>1, <2>1 DEF StartMatch
  <2>2. CASE EndMatch(p)
    BY <1>1, <2>2 DEF EndMatch
  <2> QED
    BY <2>1, <2>2
<1>4. ASSUME NEW s \in Seq(Entries), NEW t, t = Played(s) \/ t = Ended(s)
      PROVE  t \in Seq(Entries) /\ Len(t) = Len(s) /\ SameEntries(s, t)
  <2>1. "normal" \in States /\ "waiting" \in States
    BY DEF States
  <2>2. /\ DOMAIN t = DOMAIN s /\ t = [i \in DOMAIN s |-> t[i]]
        /\ \A i \in DOMAIN s : \E v \in States : t[i] = s[i] \/ t[i] = [s[i] EXCEPT !.state = v]
    BY <1>4, <2>1
  <2> QED
    BY <2>2, MappedFacts
<1> HIDE DEF q, r, n, Played, Ended
<1>5. /\ q.players \in Seq(Entries) /\ Len(q.players) = Len(r.players)
      /\ q.observers \in Seq(Entries)
      /\ SameEntries(r.players, q.players) /\ SameEntries(r.observers, q.observers)
  BY <1>2, <1>3, <1>4
<1>6. q \in RoomType
  BY <1>3, <1>5 DEF RoomType
<1>7. RoomGood(q) /\ Members(q) = Members(r)
  BY <1>2, <1>5, <1>6, RestatedGood
<1>8. state' \in [Sessions -> States] /\ UNCHANGED <<number, free, next, online>>
  BY <1>2 DEF StartMatch, EndMatch, States
<1> QED
  BY <1>1, <1>3, <1>7, <1>8, RequestEdits DEF r

LEMMA ChangeHostGood ==
  ASSUME IInv, NEW p \in Sessions, NEW k, ChangeHost(p, k), UNCHANGED strayed
  PROVE  IInv'
<1> DEFINE n == number[p]
           r == rooms[n]
           q == [r EXCEPT !.players = SwapWithFirst(@, k)]
<1>1. /\ n \in DOMAIN rooms /\ k \in DOMAIN r.players
      /\ UNCHANGED <<number, state, free, next, online>>
  BY WorldIs DEF ChangeHost, HasRoom
<1>2. rooms' = [rooms EXCEPT ![n] = q]
  BY <1>1 DEF ChangeHost
<1>3. RoomGood(r) /\ state' \in [Sessions -> States]
  BY <1>1, RoomOf
<1>4. RoomGood(q) /\ Members(q) = Members(r)
  BY <1>1, <1>3, SwappedGood
<1> HIDE DEF q
<1> QED
  BY <1>1, <1>2, <1>3, <1>4, RequestEdits

LEMMA SetPlayerStateGood ==
  ASSUME IInv, NEW p \in Sessions, NEW v \in States, SetPlayerState(p, v), UNCHANGED strayed
  PROVE  IInv'
<1> DEFINE w == [World EXCEPT !.state[p] = v]
<1>1. next \in Nat /\ Good(World, next, strayed)
  BY NextIsNatural
<1>2. /\ IsWorld(w) /\ w.rooms = World.rooms /\ w.number = World.number /\ w.free = World.free
      /\ w.state = [World.state EXCEPT ![p] = v]
  BY DEF World, IsWorld
<1>3. \/ Become(w)
      \/ number[p] \in DOMAIN World.rooms /\ Become(SetStateFor(w, number[p], p, v))
  BY <1>2, WorldIs DEF SetPlayerState, HasRoom
<1>4. UNCHANGED next
  BY DEF SetPlayerState
<1> HIDE DEF w
<1>5. Good(w, next, strayed)
  <2>1. w.state \in [Sessions -> States]
    BY <1>1, <1>2 DEF Good, PlacesGood
  <2> QED
    BY <1>1, <1>2, <2>1 DEF Good, NumbersGood, PlacesGood
<1>6. number[p] \in DOMAIN World.rooms => Good(SetStateFor(w, number[p], p, v), next, strayed)
  BY <1>1, <1>2, <1>5, SetStateForGood
<1> HIDE DEF SetStateFor
<1> QED
  BY <1>3, <1>4, <1>5, <1>6, BecomeGood

LEMMA BecomeObserverGood ==
  ASSUME IInv, NEW p \in Sessions, BecomeObserver(p), UNCHANGED strayed
  PROVE  IInv'
<1> DEFINE n == number[p]
           r == rooms[n]
           k == The(Index(r.players, p))
           e == r.players[k]
           a == WithoutPlayer(r, p)
           q == [a EXCEPT !.observers = Append(a.observers, e)]
<1>1. /\ n \in DOMAIN rooms /\ InList(r.players, p)
      /\ rooms' = [rooms EXCEPT ![n] = q] /\ UNCHANGED <<number, state, free, next, online>>
  BY WorldIs DEF BecomeObserver, HasRoom
<1>2. /\ RoomGood(r) /\ r.players \in Seq(Entries) /\ state' \in [Sessions -> States]
  BY <1>1, RoomOf
<1>3. e \in Entries /\ e.live /\ e.id = p
  BY <1>1, <1>2, IndexFacts, ListFacts
<1>4. RoomGood(a) /\ p \in Members(r) /\ Members(a) = Members(r) \ {p}
  BY <1>1, <1>2, WithoutPlayerGood
<1> HIDE DEF a, e
<1>5. /\ a \in RoomType /\ a.players \in Seq(Entries) /\ a.observers \in Seq(Entries) /\ Once(a)
      /\ p \notin LiveIds(a.players) /\ p \notin LiveIds(a.observers)
  BY <1>4, MembersAre DEF RoomGood, RoomType
<1>6. /\ q.players = a.players /\ q.observers = Append(a.observers, e)
      /\ q.started = a.started /\ q.target = a.target
  BY <1>5 DEF RoomType
<1>7. /\ q.observers \in Seq(Entries) /\ Uniq(q.observers)
      /\ LiveIds(q.observers) = LiveIds(a.observers) \cup {p}
  BY <1>3, <1>5, <1>6, AppendFacts DEF Once
<1>8. q \in RoomType
  BY <1>5, <1>6, <1>7 DEF RoomType
<1> HIDE DEF q, r, n
<1>9. RoomGood(q) /\ Members(q) = Members(r)
  BY <1>4, <1>5, <1>6, <1>7, <1>8, MembersAre DEF RoomGood, Once
<1> QED
  BY <1>1, <1>2, <1>9, RequestEdits DEF r

LEMMA BecomePlayerGood ==
  ASSUME IInv, NEW p \in Sessions, BecomePlayer(p), UNCHANGED strayed
  PROVE  IInv'
<1> DEFINE n == number[p]
           r == rooms[n]
           k == The(Index(r.observers, p))
           e == r.observers[k]
           q == [r EXCEPT !.players = Append(r.players, e), !.observers = Erased(r.observers, k)]
<1>1. /\ n \in DOMAIN rooms /\ InList(r.observers, p) /\ Len(r.players) < PlayersPerRoom
      /\ rooms' = [rooms EXCEPT ![n] = q] /\ UNCHANGED <<number, state, free, next, online>>
  BY WorldIs DEF BecomePlayer, HasRoom, Erased
<1>2. /\ RoomGood(r) /\ r \in RoomType /\ r.players \in Seq(Entries) /\ r.observers \in Seq(Entries)
      /\ Once(r) /\ state' \in [Sessions -> States]
  BY <1>1, RoomOf DEF RoomGood
<1>3. k \in DOMAIN r.observers /\ e \in Entries /\ e.live /\ e.id = p
  BY <1>1, <1>2, IndexFacts, ListFacts
<1>4. p \in LiveIds(r.observers) /\ p \notin LiveIds(r.players)
  BY <1>2, <1>3 DEF LiveIds, Once
<1>5. /\ q.players = Append(r.players, e) /\ q.observers = Erased(r.observers, k)
      /\ q.started = r.started /\ q.target = r.target
  BY <1>2 DEF RoomType
<1>6. /\ q.players \in Seq(Entries) /\ Len(q.players) = Len(r.players) + 1 /\ Uniq(q.players)
      /\ LiveIds(q.players) = LiveIds(r.players) \cup {p}
  BY <1>2, <1>3, <1>4, <1>5, AppendFacts DEF Once
<1>7. /\ q.observers \in Seq(Entries) /\ Uniq(q.observers)
      /\ LiveIds(q.observers) = LiveIds(r.observers) \ {p}
  BY <1>2, <1>3, <1>5, ErasedFacts DEF Once
<1>8. q \in RoomType
  BY <1>2, <1>5, <1>6, <1>7 DEF RoomType
<1>9. Len(q.players) <= PlayersPerRoom
  BY <1>1, <1>2, <1>6, ListFacts, PlayersPerRoomAssumption
<1> HIDE DEF q, r, n, e, k
<1>10. RoomGood(q) /\ Members(q) = Members(r)
  BY <1>2, <1>4, <1>6, <1>7, <1>8, <1>9, MembersAre DEF RoomGood, Once
<1> QED
  BY <1>1, <1>2, <1>10, RequestEdits DEF r

LEMMA StartVotekickGood ==
  ASSUME IInv, NEW p \in Sessions, NEW x \in Sessions, StartVotekick(p, x), UNCHANGED strayed
  PROVE  IInv'
<1> DEFINE n == number[p]
           r == rooms[n]
           q == [r EXCEPT !.target = x]
<1>1. /\ n \in DOMAIN rooms /\ rooms' = [rooms EXCEPT ![n] = q]
      /\ UNCHANGED <<number, state, free, next, online>>
  BY WorldIs DEF StartVotekick, HasRoom
<1>2. RoomGood(r) /\ r \in RoomType /\ state' \in [Sessions -> States]
  BY <1>1, RoomOf
<1>3. q \in RoomType /\ q.players = r.players /\ q.observers = r.observers
  BY <1>2 DEF RoomType
<1> HIDE DEF q, r, n
<1>4. RoomGood(q) /\ Members(q) = Members(r)
  BY <1>2, <1>3, MembersAre DEF RoomGood, Once
<1> QED
  BY <1>1, <1>2, <1>4, RequestEdits DEF r

LEMMA VotekickResultGood ==
  ASSUME IInv, NEW p \in Sessions, VotekickResult(p), UNCHANGED strayed
  PROVE  IInv'
<1> DEFINE n == number[p]
           x == rooms[n].target
           w == [World EXCEPT !.rooms[n].target = NoSession]
           q == [rooms[n] EXCEPT !.target = NoSession]
<1>1. /\ n \in DOMAIN rooms /\ x # NoSession
      /\ Become(w) \/ \E v \in NotClosing(w, n, Kicked(w, w.rooms[n], x)) : Become(v)
      /\ UNCHANGED <<next, online>>
  BY WorldIs DEF VotekickResult, HasRoom
<1>2. next \in Nat /\ Good(World, next, strayed) /\ n \in DOMAIN World.rooms
  BY <1>1, NextIsNatural, WorldIs
<1>3. RoomGood(rooms[n]) /\ rooms[n] \in RoomType /\ x \in Sessions /\ state \in [Sessions -> States]
  BY <1>1, RoomOf
<1>4. /\ IsWorld(w) /\ w.number = number /\ w.free = free /\ w.state = state
      /\ DOMAIN w.rooms = DOMAIN rooms /\ w.rooms[n] = q
      /\ \A m \in DOMAIN rooms : m # n => w.rooms[m] = rooms[m]
  BY <1>1 DEF World, IsWorld
<1>5. q \in RoomType /\ q.players = rooms[n].players /\ q.observers = rooms[n].observers
  BY <1>3 DEF RoomType
<1> HIDE DEF w, q, n, x
<1>6. RoomGood(q) /\ Members(q) = Members(rooms[n])
  BY <1>3, <1>5, MembersAre DEF RoomGood, Once
<1>7. Good(w, next, strayed)
  BY <1>2, <1>3, <1>4, <1>6, WorldIs, EditGood
<1>8. \A v \in NotClosing(w, n, Kicked(w, w.rooms[n], x)) : Good(v, next, strayed)
  <2>1. \A o \in Kicked(w, w.rooms[n], x) : GoodOutcome(w.rooms[n], o)
    BY <1>3, <1>4, <1>6, KickedGood
  <2>2. n \in DOMAIN w.rooms
    BY <1>1, <1>4
  <2> QED
    BY <1>2, <1>7, <2>1, <2>2, ClosingGood
<1> QED
  BY <1>1, <1>7, <1>8, BecomeGood

LEMMA BreakRoomGood ==
  ASSUME IInv, NEW n \in DOMAIN rooms, BreakRoom(n), UNCHANGED strayed
  PROVE  IInv'
<1>1. Good(RemoveRoom(World, n), next, strayed)
  BY NextIsNatural, WorldIs, RemoveRoomGood
<1>2. Become(RemoveRoom(World, n)) /\ UNCHANGED next
  BY DEF BreakRoom
<1> HIDE DEF RemoveRoom
<1> QED
  BY <1>1, <1>2, BecomeGood

LEMMA ListRoomsGood ==
  ASSUME IInv, ListRooms, UNCHANGED strayed
  PROVE  IInv'
<1> DEFINE empty == {n \in DOMAIN rooms : rooms[n].players = <<>>}
           gone == {p \in Sessions : \E n \in empty : p \in Members(rooms[n])}
<1>1. /\ DOMAIN rooms' = DOMAIN rooms \ empty /\ \A n \in DOMAIN rooms' : rooms'[n] = rooms[n]
      /\ UNCHANGED <<state, free, next>>
      /\ \A p \in Sessions : number'[p] = IF p \in gone THEN 0 ELSE number[p]
  BY DEF ListRooms, Without
<1>2. number' = [p \in Sessions |-> number'[p]]
  BY DEF ListRooms
<1>3. NumbersGood(World, next) /\ PlacesGood(World, strayed)
  BY DEF IInv, Good
<1> HIDE DEF empty
<1>4. NumbersGood(World', next')
  BY <1>1, <1>3, WorldIs, WorldIsNext DEF NumbersGood
<1>5. PlacesGood(World', strayed')
  <2>1. /\ number \in [Sessions -> 0 .. Elsewhere] /\ state \in [Sessions -> States]
        /\ \A m \in DOMAIN rooms : RoomGood(rooms[m])
        /\ \A x \in Sessions : number[x] \notin {0, Elsewhere} =>
             number[x] \in DOMAIN rooms /\ x \in Members(rooms[number[x]])
        /\ \A m \in DOMAIN rooms : \A x \in Members(rooms[m]) :
             (number[x] = m \/ x \in strayed) /\ x \in Sessions
    BY <1>3, WorldIs, MembersAreSessions DEF PlacesGood
  <2>2. number' \in [Sessions -> 0 .. Elsewhere]
    BY <1>1, <1>2, <2>1, ElsewhereFacts
  <2>3. ASSUME NEW x \in Sessions, number'[x] \notin {0, Elsewhere}
        PROVE  number'[x] \in DOMAIN rooms' /\ x \in Members(rooms'[number'[x]])
    BY <1>1, <2>1, <2>3
  <2>4. ASSUME NEW m \in DOMAIN rooms', NEW x \in Members(rooms'[m])
        PROVE  number'[x] = m \/ x \in strayed'
    <3>1. m \in DOMAIN rooms /\ m \notin empty /\ x \in Members(rooms[m])
      BY <1>1, <2>4
    <3>2. x \notin gone \/ x \in strayed
      BY <2>1, <3>1 DEF empty
    <3> QED
      BY <1>1, <2>1, <3>1, <3>2
  <2> QED
    BY <1>1, <2>1, <2>2, <2>3, <2>4, WorldIsNext DEF PlacesGood
<1> QED
  BY <1>1, <1>3, <1>4, <1>5, WorldIsNext DEF IInv, Good

\* The world that a removal leaves, by way of the one after the match.
LEMMA RemoveWorlds ==
  ASSUME IInv, NEW p \in Sessions, Remove(p)
  PROVE  \E w \in OutOfMatch(p) :
           /\ Good(w, next, strayed)
           /\ \/ /\ Become(OutOfParty(w, p)) /\ strayed' = strayed \cup Astray(w, p)
                 /\ Good(OutOfParty(w, p), next, strayed')
              \/ /\ strayed' = strayed
                 /\ \E v \in OutOfRoom(w, p) : Become(v) /\ Good(v, next, strayed')
<1>1. next \in Nat /\ Good(World, next, strayed)
  BY NextIsNatural
<1>2. PICK w \in OutOfMatch(p) :
        \/ Become(OutOfParty(w, p)) /\ strayed' = strayed \cup Astray(w, p)
        \/ strayed' = strayed /\ \E v \in OutOfRoom(w, p) : Become(v)
  BY DEF Remove
<1>3. Good(w, next, strayed)
  BY <1>1, LeavesGood DEF OutOfMatch
<1>4. CASE Become(OutOfParty(w, p)) /\ strayed' = strayed \cup Astray(w, p)
  <2>1. Good(OutOfParty(w, p), next, strayed \cup Astray(w, p))
    BY <1>1, <1>3, OutOfPartyGood
  <2> HIDE DEF OutOfParty, Astray
  <2> QED
    BY <1>3, <1>4, <2>1
<1>5. CASE strayed' = strayed /\ \E v \in OutOfRoom(w, p) : Become(v)
  <2>1. \A v \in OutOfRoom(w, p) : Good(v, next, strayed)
    BY <1>1, <1>3, LeavesGood DEF OutOfRoom
  <2> QED
    BY <1>3, <1>5, <2>1
<1> QED
  BY <1>2, <1>4, <1>5

LEMMA RemoveGood ==
  ASSUME IInv, NEW p \in Sessions, Remove(p)
  PROVE  IInv'
<1>1. \E v : Become(v) /\ Good(v, next, strayed')
  BY RemoveWorlds
<1>2. UNCHANGED next
  BY DEF Remove
<1> QED
  BY <1>1, <1>2, BecomeGood

LEMMA EndGood ==
  ASSUME IInv, NEW p \in Sessions, End(p)
  PROVE  IInv'
<1>1. Become(Departed(World, p)) /\ strayed' = strayed \ {p} /\ UNCHANGED next
  BY DEF End
<1>2. Good(Departed(World, p), next, strayed \ {p})
  BY NextIsNatural, DepartedGood
<1> HIDE DEF Departed
<1> QED
  BY <1>1, <1>2, BecomeGood

LEMMA LeavePartyGood ==
  ASSUME IInv, NEW p \in Sessions, LeaveParty(p)
  PROVE  IInv'
<1>1. /\ Become(OutOfParty(World, p)) /\ strayed' = strayed \cup Astray(World, p)
      /\ UNCHANGED next
  BY DEF LeaveParty
<1>2. Good(OutOfParty(World, p), next, strayed \cup Astray(World, p))
  BY NextIsNatural, OutOfPartyGood
<1> HIDE DEF OutOfParty, Astray
<1> QED
  BY <1>1, <1>2, BecomeGood

LEMMA ClanMatchGood ==
  ASSUME IInv, NEW p \in Sessions, NEW n, NEW v \in States, ClanMatch(p, n, v)
  PROVE  IInv'
<1> DEFINE w == [World EXCEPT !.number[p] = n, !.state[p] = v]
<1>1. /\ n \in {0, number[p], Elsewhere} /\ Become(w) /\ UNCHANGED next
      /\ strayed' = IF n # number[p] THEN strayed \cup Astray(World, p) ELSE strayed
  BY DEF ClanMatch
<1>2. /\ IsWorld(w) /\ w.rooms = World.rooms /\ w.free = World.free
      /\ w.number = [World.number EXCEPT ![p] = n] /\ w.state = [World.state EXCEPT ![p] = v]
  BY DEF World, IsWorld
<1>3. next \in Nat /\ Good(World, next, strayed)
  BY NextIsNatural
<1>4. /\ World.state \in [Sessions -> States] /\ World.number \in [Sessions -> 0 .. Elsewhere]
  BY <1>3 DEF Good, PlacesGood
<1>5. w.state \in [Sessions -> States]
  BY <1>2, <1>4
<1> HIDE DEF w
<1>6. CASE n = number[p]
  <2>1. w.number = World.number
    BY <1>2, <1>4, <1>6, WorldIs
  <2>2. Good(w, next, strayed)
    BY <1>2, <1>3, <1>5, <2>1 DEF Good, NumbersGood, PlacesGood
  <2> QED
    BY <1>1, <1>6, <2>2, BecomeGood
<1>7. CASE n # number[p]
  <2>1. n \in {0, Elsewhere} /\ strayed' = strayed \cup Astray(World, p)
    BY <1>1, <1>7
  <2>2. Good(w, next, strayed \cup Astray(World, p))
    BY <1>2, <1>3, <1>5, <2>1, RenumberedGood
  <2> HIDE DEF Astray
  <2> QED
    BY <1>1, <2>1, <2>2, BecomeGood
<1> QED
  BY <1>6, <1>7

LEMMA StepGood ==
  ASSUME IInv, [NumberedNext]_vars
  PROVE  IInv'
<1>1. CASE ListRooms /\ SessionsStay
  BY <1>1, ListRoomsGood DEF SessionsStay
<1>2. CASE \E n \in DOMAIN rooms : BreakRoom(n) /\ SessionsStay
  BY <1>2, BreakRoomGood DEF SessionsStay
<1>3. ASSUME NEW p \in Sessions, Login(p) \/ EnterParty(p)
      PROVE  IInv'
  <2>1. UNCHANGED <<rooms, number, state, free, next, strayed>>
    BY <1>3 DEF Login, EnterParty, Connect, roomVars
  <2> QED
    BY <2>1, SameRoomsGood
<1>4. ASSUME NEW p \in Sessions,
             \/ Leave(p) \/ (LeaveMatch(p) /\ SessionsStay)
             \/ \E q \in Sessions : Kick(p, q) \/ (CommandKick(p, q) /\ SessionsStay)
      PROVE  IInv'
  BY <1>4, LeavesRequestGood, KicksGood DEF Leave, Kick, SessionsStay
<1>5. ASSUME NEW p \in Sessions, SessionsStay,
             \/ StartMatch(p) \/ JoinMatch(p) \/ EndMatch(p)
             \/ \E k \in 1 .. PlayersPerRoom : ChangeHost(p, k)
             \/ \E v \in States : SetPlayerState(p, v)
      PROVE  IInv'
  BY <1>5, MatchGood, JoinMatchGood, ChangeHostGood, SetPlayerStateGood DEF SessionsStay
<1>6. ASSUME NEW p \in Sessions, SessionsStay,
             \/ BecomeObserver(p) \/ VotekickResult(p)
             \/ \E q \in Sessions : StartVotekick(p, q)
      PROVE  IInv'
  BY <1>6, BecomeObserverGood, StartVotekickGood, VotekickResultGood DEF SessionsStay
<1>7. ASSUME NEW p \in Sessions,
             \/ Generated # 0 /\ Create(p)
             \/ \E n \in DOMAIN rooms : Join(p, n)
             \/ TurnPlayer(p)
      PROVE  IInv'
  <2>1. UNCHANGED strayed
    BY <1>7 DEF Create, Join, TurnPlayer, Playing
  <2> QED
    BY <1>7, <2>1, CreateRoomGood, JoinRoomGood, BecomePlayerGood DEF Create, Join, TurnPlayer
<1>8. ASSUME NEW p \in Sessions,
             \/ LeaveParty(p) \/ Remove(p) \/ End(p)
             \/ \E n \in 0 .. Elsewhere : \E v \in States : ClanMatch(p, n, v)
      PROVE  IInv'
  BY <1>8, LeavePartyGood, RemoveGood, EndGood, ClanMatchGood
<1>9. CASE UNCHANGED vars
  BY <1>9, SameRoomsGood DEF vars
<1> QED
  BY <1>1, <1>2, <1>3, <1>4, <1>5, <1>6, <1>7, <1>8, <1>9 DEF NumberedNext, Request

LEMMA InitGood ==
  ASSUME StartAnew
  PROVE  IInv
<1>1. /\ World.rooms = <<>> /\ World.number = [p \in Sessions |-> 0]
      /\ World.state = [p \in Sessions |-> "away"] /\ World.free = <<>> /\ IsWorld(World)
  BY WorldIs DEF StartAnew, Init
<1>2. DOMAIN <<>> = {} /\ <<>> \in Seq(1 .. MaxNumber)
  OBVIOUS
<1>3. NumbersGood(World, next)
  BY <1>1, <1>2 DEF NumbersGood
<1>4. PlacesGood(World, strayed)
  BY <1>1, <1>2, ElsewhereFacts DEF PlacesGood, States
<1>5. next \in 1 .. MaxNumber + 1
  BY MaxNumberAssumption DEF StartAnew, Init
<1> QED
  BY <1>1, <1>3, <1>4, <1>5 DEF IInv, Good

LEMMA InvAlways == NumberedSpec => []IInv
<1>1. StartAnew => IInv
  BY InitGood
<1>2. IInv /\ [NumberedNext]_vars => IInv'
  BY StepGood
<1> QED
  BY <1>1, <1>2, PTL DEF NumberedSpec

-----------------------------------------------------------------------------
(* The life of sessions.                                                   *)

Lives ==
  /\ registry \subseteq online /\ online \subseteq Sessions
  /\ party \in [Sessions -> {"none", "member", "former"}]
  /\ \A p \in Sessions : party[p] # "none" => p \in online
  /\ strayed \subseteq online /\ kept \subseteq online \ registry

\* The requests of Rooms are of sessions that exist, and change none of them.
LEMMA RequestsLive ==
  ASSUME Lives, NEW p \in Sessions, Create(p) \/ TurnPlayer(p) \/ \E n \in DOMAIN rooms : Join(p, n)
  PROVE  Lives'
<1>1. p \in online /\ UNCHANGED online /\ Playing(p)
  BY DEF Create, TurnPlayer, Join, CreateRoom, BecomePlayer, JoinRoom
<1>2. UNCHANGED <<registry, party, strayed>> /\ (kept' = kept \/ (p \notin registry /\ kept' = kept \cup {p}))
  BY <1>1 DEF Playing
<1> QED
  BY <1>1, <1>2 DEF Lives

LEMMA StepLives ==
  ASSUME Lives, [NumberedNext]_vars
  PROVE  Lives'
<1>1. CASE UNCHANGED <<online, registry, party, strayed, kept>>
  BY <1>1 DEF Lives
<1>2. ASSUME NEW p \in Sessions, Login(p)
      PROVE  Lives'
  <2>1. /\ online' = online \cup {p} /\ registry' = registry \cup {p} /\ kept' = kept \ {p}
        /\ UNCHANGED <<party, strayed>>
    BY <1>2 DEF Login, Connect, roomVars, Lives
  <2> QED
    BY <2>1 DEF Lives
<1>3. ASSUME NEW p \in Sessions, Remove(p)
      PROVE  Lives'
  <2>1. /\ p \in online /\ UNCHANGED online /\ registry' = registry \ {p}
        /\ kept' = kept \/ kept' = kept \cup {p}
        /\ strayed' = strayed \/ strayed' = strayed \cup {p}
        /\ UNCHANGED party \/ party' = [party EXCEPT ![p] = "former"]
    BY <1>3 DEF Remove, Astray, Lives
  <2> QED
    BY <2>1 DEF Lives
<1>4. ASSUME NEW p \in Sessions, End(p)
      PROVE  Lives'
  <2>1. /\ p \notin registry /\ online' = online \ {p} /\ UNCHANGED registry
        /\ kept' = kept \ {p} /\ strayed' = strayed \ {p}
        /\ party' = [party EXCEPT ![p] = "none"]
    BY <1>4 DEF End
  <2> QED
    BY <2>1 DEF Lives
<1>5. ASSUME NEW p \in Sessions,
             \/ EnterParty(p) \/ LeaveParty(p)
             \/ \E n \in 0 .. Elsewhere : \E v \in States : ClanMatch(p, n, v)
      PROVE  Lives'
  <2>1. /\ p \in online /\ UNCHANGED <<online, registry, kept>>
        /\ strayed' = strayed \/ strayed' = strayed \cup {p}
        /\ \/ UNCHANGED party
           \/ \E x \in {"member", "former"} : party' = [party EXCEPT ![p] = x]
    BY <1>5 DEF EnterParty, LeaveParty, ClanMatch, roomVars, Astray, Lives
  <2> QED
    BY <2>1 DEF Lives
<1>6. ASSUME ListRooms \/ \E n \in DOMAIN rooms : BreakRoom(n)
      PROVE  UNCHANGED online
  BY <1>6 DEF ListRooms, BreakRoom
<1>7. ASSUME NEW p \in Sessions,
             \/ LeaveRoom(p) \/ LeaveMatch(p)
             \/ \E q \in Sessions : KickPlayer(p, q) \/ CommandKick(p, q) \/ StartVotekick(p, q)
             \/ StartMatch(p) \/ JoinMatch(p) \/ EndMatch(p)
             \/ \E k \in 1 .. PlayersPerRoom : ChangeHost(p, k)
             \/ \E v \in States : SetPlayerState(p, v)
             \/ BecomeObserver(p) \/ VotekickResult(p)
      PROVE  UNCHANGED online
  BY <1>7 DEF LeaveRoom, LeaveMatch, KickPlayer, CommandKick, StartVotekick, StartMatch, JoinMatch,
     EndMatch, ChangeHost, SetPlayerState, BecomeObserver, VotekickResult
<1>8. CASE UNCHANGED vars
  BY <1>1, <1>8 DEF vars
<1> QED
  BY <1>1, <1>2, <1>3, <1>4, <1>5, <1>6, <1>7, <1>8, RequestsLive
     DEF NumberedNext, Request, SessionsStay, Leave, Kick

LEMMA LivesAlways == NumberedSpec => []Lives
<1>1. StartAnew => Lives
  BY DEF StartAnew, Init, Lives
<1>2. Lives /\ [NumberedNext]_vars => Lives'
  BY StepLives
<1> QED
  BY <1>1, <1>2, PTL DEF NumberedSpec

-----------------------------------------------------------------------------
(* Theorems.                                                               *)

\* A live id of a list is the id of one entry of it.
LEMMA IndexIsOne ==
  ASSUME NEW s \in Seq(Entries), Uniq(s), NEW p
  PROVE  Cardinality(Index(s, p)) = IF p \in LiveIds(s) THEN 1 ELSE 0
<1>1. CASE p \in LiveIds(s)
  <2>1. PICK i \in Index(s, p) : TRUE
    BY <1>1, InListIsLive DEF InList
  <2>2. Index(s, p) = {i}
    BY <2>1 DEF Index, Uniq
  <2> QED
    BY <1>1, <2>2, FS_Singleton
<1>2. CASE p \notin LiveIds(s)
  <2>1. Index(s, p) = {}
    BY <1>2, InListIsLive DEF InList
  <2> QED
    BY <1>2, <2>1, FS_EmptySet
<1> QED
  BY <1>1, <1>2

\* Rooms, room numbers, states, parties and the generator keep their types, and
\* no room has more players than places, while room numbers are left.
THEOREM TypeCorrect == NumberedSpec => []TypeOK
<1>1. IInv /\ Lives => TypeOK
  <2> SUFFICES ASSUME IInv, Lives
               PROVE  TypeOK
    OBVIOUS
  <2>1. NumbersGood(World, next) /\ PlacesGood(World, strayed)
    BY DEF IInv, Good
  <2>2. DOMAIN rooms \subseteq 0 .. MaxNumber /\ free \in Seq(1 .. MaxNumber)
    BY <2>1, WorldIs, MaxNumberAssumption DEF NumbersGood
  <2> QED
    BY <2>1, <2>2, WorldIs DEF IInv, Lives, TypeOK, PlacesGood, RoomGood
<1> QED
  BY <1>1, InvAlways, LivesAlways, PTL

\* A number that waits for reuse belongs to no room and waits once, and every
\* number in use has been handed out: generate() never names an open room.
THEOREM NumbersCorrect == NumberedSpec => []NumbersUnique
<1>1. IInv => NumbersUnique
  BY WorldIs DEF IInv, Good, NumbersGood, NumbersUnique
<1> QED
  BY <1>1, InvAlways, PTL

\* A session with the number of a normal room is in that room once, as a player
\* or as an observer, and a room's live entries are sessions with its number or
\* sessions that lost it to a party, through every leave, kick, migration,
\* change of list, closing and removal, and through requests after a removal.
THEOREM OneRoomCorrect == NumberedSpec => []OneRoomPerSession
<1>1. IInv => OneRoomPerSession
  <2> SUFFICES ASSUME IInv
               PROVE  OneRoomPerSession
    OBVIOUS
  <2>1. PlacesGood(World, strayed)
    BY DEF IInv, Good
  <2>2. ASSUME NEW p \in Sessions, number[p] \notin {0, Elsewhere}
        PROVE  number[p] \in DOMAIN rooms /\ Entered(number[p], p) = 1
    <3> DEFINE n == number[p]
               r == rooms[n]
    <3>1. n \in DOMAIN rooms /\ p \in Members(r)
      BY <2>1, <2>2, WorldIs DEF PlacesGood
    <3>2. r.players \in Seq(Entries) /\ r.observers \in Seq(Entries) /\ Once(r)
      BY <3>1, RoomOf DEF RoomGood
    <3>3. /\ Cardinality(Index(r.players, p)) = IF p \in LiveIds(r.players) THEN 1 ELSE 0
          /\ Cardinality(Index(r.observers, p)) = IF p \in LiveIds(r.observers) THEN 1 ELSE 0
      BY <3>2, IndexIsOne DEF Once
    <3>4. \/ p \in LiveIds(r.players) /\ p \notin LiveIds(r.observers)
          \/ p \in LiveIds(r.observers) /\ p \notin LiveIds(r.players)
      BY <3>1, <3>2, MembersAre DEF Once
    <3> QED
      BY <3>1, <3>3, <3>4 DEF Entered
  <2> QED
    BY <2>1, <2>2, WorldIs DEF PlacesGood, OneRoomPerSession
<1> QED
  BY <1>1, InvAlways, PTL

-----------------------------------------------------------------------------
(* What a step may never do.                                               *)

\* Without dead entries the count of live entries is the position.
LEMMA CountIsPosition ==
  ASSUME NEW s \in Seq(Entries), \A i \in DOMAIN s : s[i].live, NEW i \in DOMAIN s
  PROVE  Cardinality({j \in 1 .. i : s[j].live}) = i
<1>1. Len(s) \in Nat /\ DOMAIN s = 1 .. Len(s)
  BY ListFacts
<1>2. {j \in 1 .. i : s[j].live} = 1 .. i
  BY <1>1
<1>3. i \in Nat /\ 1 \in Int /\ Cardinality(1 .. i) = i
  BY <1>1, FS_Interval
<1> QED
  BY <1>2, <1>3

\* The candidates of a migration, in a room whose entries are all alive.
LEMMA BestAmongLive ==
  ASSUME NEW w, NEW r \in RoomType, \A i \in DOMAIN r.players : r.players[i].live,
         NEW p, Len(r.players) > 1, NEW k
  PROVE  k \in BestIndices(w, r, p, TRUE) <=>
           k \in DOMAIN r.players /\ r.players[k].id # p /\ w.state[r.players[k].id] = "normal"
<1> DEFINE s == r.players
           count(i) == Cardinality({j \in 1 .. i : s[j].live})
           eligible == {i \in DOMAIN s :
                          s[i].live /\ s[i].id # p /\ (w.state[s[i].id] = "normal") = TRUE}
<1>1. s \in Seq(Entries) /\ Len(s) \in Nat
  BY ListFacts DEF RoomType
<1>2. BestIndices(w, r, p, TRUE) = {count(i) : i \in eligible}
  BY <1>1 DEF BestIndices
<1>3. \A i \in DOMAIN s : count(i) = i
  BY <1>1, CountIsPosition
<1> HIDE DEF count
<1>4. k \in BestIndices(w, r, p, TRUE) <=> k \in eligible
  BY <1>2, <1>3
<1> QED
  BY <1>4

\* The room after its host has left the match and the player at k hosts.
HostGone(r, k, inMatch) ==
  [r EXCEPT !.players = SwapOut(SwapWithFirst(@, k), k), !.started = @ /\ inMatch]

\* The host leaves, others play on: one of them is put first.
LEMMA HostMigrates ==
  ASSUME IInv, Lives, NEW p \in online, LeavesAsHost(p), NEW q \in Remaining(p), state[q] = "normal"
  PROVE  LET host == rooms'[number[p]].players[1]
         IN  /\ StaysOpen(number[p])
             /\ rooms[number[p]].started => rooms'[number[p]].started
             /\ host.live /\ host.id \in Remaining(p) /\ state'[host.id] = "normal"
<1> DEFINE n == number[p]
           r == rooms[n]
           s == r.players
           l == Len(s)
           Best == BestIndices(World, r, p, TRUE)
<1>1. /\ n \in DOMAIN rooms /\ s # <<>> /\ s[1].id = p /\ r.target # p /\ Ghosts(r) = {}
      /\ state[p] = "normal" /\ p \in Sessions
  BY WorldIs DEF LeavesAsHost, LeaveMatch, HasRoom, Lives
<1>2. /\ r \in RoomType /\ s \in Seq(Entries) /\ r.started \in BOOLEAN
      /\ l \in Nat /\ DOMAIN s = 1 .. l /\ 1 \in DOMAIN s
      /\ \A i \in DOMAIN s : s[i].live
  <2>1. r \in RoomType /\ s \in Seq(Entries) /\ r.started \in BOOLEAN
    BY <1>1, RoomOf
  <2>2. l \in Nat /\ DOMAIN s = 1 .. l /\ l # 0
    BY <1>1, <2>1, ListFacts, EmptySeq
  <2> QED
    BY <1>1, <2>1, <2>2 DEF Ghosts
<1>3. PICK m \in DOMAIN s : s[m].id = q /\ m # 1 /\ s[m].id # p
  BY <1>1 DEF Remaining
<1>4. l > 1
  BY <1>2, <1>3
<1>5. /\ m \in Best
      /\ \A k \in Best : k \in DOMAIN s /\ s[k].id # p /\ state[s[k].id] = "normal"
  <2>1. ASSUME NEW k
        PROVE  k \in Best <=>
                 k \in DOMAIN s /\ s[k].id # p /\ World.state[s[k].id] = "normal"
    <3>1. r \in RoomType /\ \A i \in DOMAIN r.players : r.players[i].live
      BY <1>2
    <3>2. Len(r.players) > 1
      BY <1>4
    <3> HIDE DEF r
    <3> QED
      BY <3>1, <3>2, BestAmongLive, Zenon
  <2>2. World.state = state
    BY WorldIs
  <2> QED
    BY <1>3, <2>1, <2>2
<1> HIDE DEF Best
<1>6. ASSUME NEW o \in RemoveHost(World, r)
      PROVE  \E k \in Best : o = Outcome(HostGone(r, k, TRUE), p, FALSE)
  <2> DEFINE inMatch == \E i \in DOMAIN s : s[i].live /\ World.state[s[i].id] = "normal"
  <2>1. inMatch = TRUE
    BY <1>1, <1>2, WorldIs
  <2>2. s # <<>> /\ s[1].live /\ s[1].id = p
    BY <1>1, <1>2
  <2>3. \/ /\ BestIndices(World, r, s[1].id, inMatch) = {}
           /\ o = Outcome(r, NoSession, TRUE)
        \/ \E k \in BestIndices(World, r, s[1].id, inMatch) :
             o = Outcome(HostGone(r, k, inMatch), s[1].id, FALSE)
    BY <2>2 DEF RemoveHost, HostGone
  <2> HIDE DEF inMatch
  <2>4. BestIndices(World, r, s[1].id, inMatch) = Best
    BY <2>1, <2>2 DEF Best
  <2> QED
    BY <1>5, <2>1, <2>2, <2>3, <2>4
<1>7. PICK w \in Closing(World, n, RemoveHost(World, r)) : Become(w)
  <2>1. HasRoom(World, p) /\ World.number[p] = n /\ World.rooms[n] = r
    BY <1>1, WorldIs DEF HasRoom
  <2>2. r.target # p /\ IsHost(r, p)
    BY <1>1 DEF IsHost
  <2>3. MatchLeave(World, p) = Closing(World, n, RemoveHost(World, r))
    BY <2>1, <2>2 DEF MatchLeave
  <2> QED
    BY <2>3 DEF LeavesAsHost, LeaveMatch
<1>8. PICK k \in Best : w = Put(World, n, Outcome(HostGone(r, k, TRUE), p, FALSE))
  <2>1. PICK o \in RemoveHost(World, r) :
          w = IF o.close THEN RemoveRoom(Put(World, n, o), n) ELSE Put(World, n, o)
    BY <1>7 DEF Closing
  <2>2. PICK k \in Best : o = Outcome(HostGone(r, k, TRUE), p, FALSE)
    BY <1>6
  <2>3. ~o.close
    BY <2>2 DEF Outcome
  <2> QED
    BY <2>1, <2>2, <2>3
<1> DEFINE q1 == HostGone(r, k, TRUE)
<1>9. rooms' = [rooms EXCEPT ![n] = q1] /\ state' = state
  <2> HIDE DEF q1
  <2>1. w.rooms = [World.rooms EXCEPT ![n] = q1] /\ w.state = World.state
    BY <1>8 DEF Put, Outcome, World, q1
  <2> QED
    BY <1>7, <2>1, WorldIs DEF Become
<1>10. n \in DOMAIN rooms' /\ rooms'[n] = q1
  BY <1>1, <1>9
<1>11. q1.players = SwapOut(SwapWithFirst(s, k), k) /\ q1.started = r.started
  BY <1>2 DEF RoomType, HostGone
<1>12. SwapOut(SwapWithFirst(s, k), k)[1] = s[k]
  <2>1. k # 1 /\ 1 \in 1 .. l - 1
    BY <1>1, <1>2, <1>4, <1>5
  <2>2. SwapWithFirst(s, k)[1] = s[k] /\ Len(SwapWithFirst(s, k)) = l
    BY <1>2, <1>5, SwapWithFirstFacts
  <2> QED
    BY <2>1, <2>2 DEF SwapOut
<1>13. s[k].live /\ s[k].id \in Remaining(p) /\ state[s[k].id] = "normal"
  BY <1>2, <1>5 DEF Remaining
<1> HIDE DEF q1
<1> QED
  BY <1>1, <1>9, <1>10, <1>11, <1>12, <1>13 DEF StaysOpen

\* When the host leaves a match that others still play, the match goes on in
\* the same room and the host that removeHostFromMatch announces is a live
\* player of it, whatever the order of the list and of the earlier removals.
THEOREM HostCorrect == NumberedSpec => HostStaysInMatch
<1>1. IInv /\ Lives /\ [NumberedNext]_vars
        => [\A p \in online :
              LeavesAsHost(p) /\ (\E q \in Remaining(p) : state[q] = "normal")
                => /\ StaysOpen(number[p])
                   /\ rooms[number[p]].started => rooms'[number[p]].started
                   /\ LET host == rooms'[number[p]].players[1]
                      IN  host.live /\ host.id \in Remaining(p) /\ state'[host.id] = "normal"]_vars
  BY HostMigrates
<1> QED
  BY <1>1, InvAlways, LivesAlways, PTL DEF NumberedSpec, HostStaysInMatch

-----------------------------------------------------------------------------
(* Dead entries of lists and rooms.                                        *)

GhostsOf(s) == {i \in DOMAIN s : ~s[i].live}
NoMoreGhosts(s, t) == Cardinality(GhostsOf(t)) <= Cardinality(GhostsOf(s))

LEMMA GhostsAreFinite ==
  ASSUME NEW s \in Seq(Entries)
  PROVE  IsFiniteSet(GhostsOf(s)) /\ Cardinality(GhostsOf(s)) \in Nat
<1>1. Len(s) \in Nat /\ 1 \in Int /\ DOMAIN s = 1 .. Len(s)
  BY ListFacts
<1>2. IsFiniteSet(1 .. Len(s))
  BY <1>1, FS_Interval
<1>3. GhostsOf(s) \subseteq 1 .. Len(s)
  BY <1>1 DEF GhostsOf
<1> QED
  BY <1>2, <1>3, FS_Subset, FS_CardinalityType

LEMMA GhostsMap ==
  ASSUME NEW s \in Seq(Entries), NEW t, NEW f \in [GhostsOf(t) -> GhostsOf(s)],
         \A i, j \in GhostsOf(t) : f[i] = f[j] => i = j
  PROVE  NoMoreGhosts(s, t)
<1>1. f \in Injection(GhostsOf(t), GhostsOf(s))
  BY DEF Injection, IsInjective
<1> QED
  BY <1>1, GhostsAreFinite, FS_Injection DEF NoMoreGhosts

LEMMA NoMoreGhostsIsOrder ==
  ASSUME NEW s \in Seq(Entries), NEW t \in Seq(Entries), NEW u \in Seq(Entries)
  PROVE  /\ NoMoreGhosts(s, s)
         /\ NoMoreGhosts(s, t) /\ NoMoreGhosts(t, u) => NoMoreGhosts(s, u)
         /\ GhostsOf(s) = GhostsOf(t) => NoMoreGhosts(s, t)
BY GhostsAreFinite DEF NoMoreGhosts

LEMMA SwapWithFirstGhosts ==
  ASSUME NEW s \in Seq(Entries), NEW k \in DOMAIN s
  PROVE  NoMoreGhosts(s, SwapWithFirst(s, k))
<1> DEFINE t == SwapWithFirst(s, k)
           f == [i \in GhostsOf(t) |-> IF i = 1 THEN k ELSE IF i = k THEN 1 ELSE i]
<1>1. Len(s) \in Nat /\ DOMAIN s = 1 .. Len(s) /\ 1 \in DOMAIN s
  BY ListFacts
<1>2. /\ DOMAIN t = DOMAIN s /\ t[1] = s[k] /\ t[k] = s[1]
      /\ \A i \in DOMAIN s : i # 1 /\ i # k => t[i] = s[i]
  BY <1>1 DEF SwapWithFirst
<1> HIDE DEF t
<1>3. f \in [GhostsOf(t) -> GhostsOf(s)]
  BY <1>1, <1>2 DEF GhostsOf
<1>4. \A i, j \in GhostsOf(t) : f[i] = f[j] => i = j
  OBVIOUS
<1> HIDE DEF f
<1> QED
  BY <1>3, <1>4, GhostsMap DEF t

LEMMA SwapOutGhosts ==
  ASSUME NEW s \in Seq(Entries), NEW k \in DOMAIN s, s[k].live
  PROVE  NoMoreGhosts(s, SwapOut(s, k))
<1> DEFINE t == SwapOut(s, k)
           l == Len(s)
           f == [i \in GhostsOf(t) |-> IF i = k THEN l ELSE i]
<1>1. l \in Nat /\ DOMAIN s = 1 .. l /\ l \in DOMAIN s
  BY ListFacts
<1>2. DOMAIN t = 1 .. l - 1 /\ \A i \in 1 .. l - 1 : t[i] = IF i = k THEN s[l] ELSE s[i]
  BY DEF SwapOut
<1> HIDE DEF t, l
<1>3. GhostsOf(t) \subseteq 1 .. l - 1 /\ l \notin GhostsOf(t)
  BY <1>1, <1>2 DEF GhostsOf
<1>4. f \in [GhostsOf(t) -> GhostsOf(s)]
  BY <1>1, <1>2 DEF GhostsOf
<1>5. \A i, j \in GhostsOf(t) : f[i] = f[j] => i = j
  BY <1>3
<1> HIDE DEF f
<1> QED
  BY <1>4, <1>5, GhostsMap DEF t

LEMMA AppendGhosts ==
  ASSUME NEW s \in Seq(Entries), NEW e \in Entries, e.live
  PROVE  NoMoreGhosts(s, Append(s, e)) /\ LiveIds(Append(s, e)) = LiveIds(s) \cup {e.id}
<1> DEFINE t == Append(s, e)
<1>1. /\ t \in Seq(Entries) /\ Len(s) \in Nat /\ DOMAIN s = 1 .. Len(s)
      /\ DOMAIN t = 1 .. Len(s) + 1 /\ t[Len(s) + 1] = e
      /\ \A i \in 1 .. Len(s) : t[i] = s[i]
  BY ListFacts
<1> HIDE DEF t
<1>2. GhostsOf(t) = GhostsOf(s)
  BY <1>1 DEF GhostsOf
<1>3. LiveIds(t) = LiveIds(s) \cup {e.id}
  BY <1>1 DEF LiveIds
<1> QED
  BY <1>1, <1>2, <1>3, NoMoreGhostsIsOrder DEF t

LEMMA SameEntriesGhosts ==
  ASSUME NEW s \in Seq(Entries), NEW t \in Seq(Entries), SameEntries(s, t)
  PROVE  NoMoreGhosts(s, t)
<1>1. GhostsOf(t) = GhostsOf(s)
  BY DEF GhostsOf, SameEntries
<1> QED
  BY <1>1, NoMoreGhostsIsOrder

\* A list in which the session that goes is not alive.
LEMMA DeadGhosts ==
  ASSUME NEW s \in Seq(Entries), NEW p, p \notin LiveIds(s)
  PROVE  NoMoreGhosts(s, Dead(s, p))
<1> DEFINE t == Dead(s, p)
<1>1. /\ DOMAIN t = DOMAIN s
      /\ \A i \in DOMAIN s : t[i] = IF s[i].id = p THEN [s[i] EXCEPT !.live = FALSE] ELSE s[i]
  BY DEF Dead
<1>2. \A i \in DOMAIN s : s[i] \in Entries /\ (s[i].id = p => ~s[i].live)
  BY ListFacts DEF LiveIds
<1> HIDE DEF t
<1>3. GhostsOf(t) = GhostsOf(s)
  BY <1>1, <1>2 DEF GhostsOf, Entries
<1> QED
  BY <1>3, DeadFacts, NoMoreGhostsIsOrder DEF t

\* What leaving may make of a room: players go, none of them dies in it.
Slimmer(r, q) ==
  /\ NoMoreGhosts(r.players, q.players)
  /\ LiveIds(q.players) \subseteq LiveIds(r.players)
  /\ q.target \in {r.target, NoSession}

LEMMA SlimmerIsOrder ==
  ASSUME NEW r \in RoomType, NEW q \in RoomType, NEW u \in RoomType
  PROVE  Slimmer(r, r) /\ (Slimmer(r, q) /\ Slimmer(q, u) => Slimmer(r, u))
<1>1. r.players \in Seq(Entries) /\ q.players \in Seq(Entries) /\ u.players \in Seq(Entries)
  BY DEF RoomType
<1> QED
  BY <1>1, NoMoreGhostsIsOrder DEF Slimmer

LEMMA SamePlayersSlimmer ==
  ASSUME NEW r \in RoomType, NEW q, q.players = r.players, q.target \in {r.target, NoSession}
  PROVE  Slimmer(r, q)
<1>1. r.players \in Seq(Entries)
  BY DEF RoomType
<1> QED
  BY <1>1, NoMoreGhostsIsOrder DEF Slimmer

LEMMA WithoutPlayerSlimmer ==
  ASSUME NEW r, RoomGood(r), NEW p, InList(r.players, p)
  PROVE  Slimmer(r, WithoutPlayer(r, p)) /\ p \notin LiveIds(WithoutPlayer(r, p).players)
<1> DEFINE k == The(Index(r.players, p))
<1>1. r.players \in Seq(Entries) /\ r \in RoomType /\ Uniq(r.players)
  BY DEF RoomGood, RoomType, Once
<1>2. k \in DOMAIN r.players /\ r.players[k].id = p /\ r.players[k].live
  BY <1>1, IndexFacts
<1>3. /\ WithoutPlayer(r, p).players = SwapOut(r.players, k)
      /\ WithoutPlayer(r, p).target = r.target
  BY <1>1 DEF WithoutPlayer, RoomType
<1> HIDE DEF k
<1>4. /\ LiveIds(SwapOut(r.players, k)) = LiveIds(r.players) \ {p}
      /\ NoMoreGhosts(r.players, SwapOut(r.players, k))
  BY <1>1, <1>2, SwapOutFacts, SwapOutGhosts
<1> QED
  BY <1>3, <1>4 DEF Slimmer

\* A player that is removed is out of the list, or the room must be closed.
LEMMA RemovePlayerSlims ==
  ASSUME NEW w, NEW r, RoomGood(r), NEW p \in Sessions, NEW o \in RemovePlayer(w, r, p)
  PROVE  Slimmer(r, o.room) /\ (o.close \/ p \notin LiveIds(o.room.players))
<1> DEFINE Left(q) == Outcome(WithoutPlayer(q, p), p, Len(q.players) = 1)
           Best == BestIndices(w, r, p, FALSE)
           Swapped(k) == [r EXCEPT !.players = SwapWithFirst(@, k)]
<1>1. r \in RoomType /\ r.players \in Seq(Entries) /\ r.observers \in Seq(Entries)
  BY DEF RoomGood, RoomType
<1>2. Slimmer(r, r)
  BY <1>1, SlimmerIsOrder
<1>3. \/ ~InList(r.players, p) /\ o = Outcome(r, NoSession, FALSE)
      \/ o = Outcome(r, NoSession, TRUE)
      \/ InList(r.players, p) /\ o = Left(r)
      \/ InList(r.players, p) /\ \E k \in Best : o = Left(Swapped(k))
      \/ /\ ~InList(r.players, p) /\ InList(r.observers, p)
         /\ o = Outcome(WithoutObserver(r, p), p, FALSE)
  <2> HIDE DEF Best
  <2>1. CASE r.players = <<>>
    <3>1. ~InList(r.players, p)
      BY <2>1 DEF InList, Index
    <3> QED
      BY <2>1, <3>1 DEF RemovePlayer
  <2>2. CASE r.players # <<>> /\ InList(r.players, p)
    BY <2>2 DEF RemovePlayer, Best
  <2>3. CASE r.players # <<>> /\ ~InList(r.players, p) /\ InList(r.observers, p)
    BY <2>3 DEF RemovePlayer
  <2>4. CASE r.players # <<>> /\ ~InList(r.players, p) /\ ~InList(r.observers, p)
    BY <2>4 DEF RemovePlayer
  <2> QED
    BY <2>1, <2>2, <2>3, <2>4
<1>4. CASE ~InList(r.players, p) /\ o = Outcome(r, NoSession, FALSE)
  BY <1>1, <1>2, <1>4, InListIsLive DEF Outcome
<1>5. CASE o = Outcome(r, NoSession, TRUE)
  BY <1>2, <1>5 DEF Outcome
<1>6. CASE InList(r.players, p) /\ o = Left(r)
  BY <1>6, WithoutPlayerSlimmer DEF Outcome
<1>7. CASE InList(r.players, p) /\ \E k \in Best : o = Left(Swapped(k))
  <2>1. PICK k \in Best : o = Left(Swapped(k))
    BY <1>7
  <2>2. k \in DOMAIN r.players
    BY <1>1, BestArePlayers
  <2> DEFINE q == Swapped(k)
  <2>3. /\ RoomGood(q) /\ q.players = SwapWithFirst(r.players, k) /\ q.target = r.target
    BY <1>1, <2>2, SwappedGood DEF RoomType
  <2>4. /\ LiveIds(q.players) = LiveIds(r.players) /\ q.players \in Seq(Entries)
        /\ NoMoreGhosts(r.players, q.players)
    BY <1>1, <2>2, <2>3, SwapWithFirstFacts, SwapWithFirstGhosts
  <2>5. o.room = WithoutPlayer(q, p)
    BY <2>1 DEF Outcome
  <2> HIDE DEF q
  <2>6. InList(q.players, p)
    BY <1>1, <1>7, <2>4, InListIsLive
  <2>7. Slimmer(r, q) /\ q \in RoomType /\ WithoutPlayer(q, p) \in RoomType
    BY <2>3, <2>4, <2>6, WithoutPlayerGood DEF Slimmer, RoomGood
  <2>8. Slimmer(q, WithoutPlayer(q, p)) /\ p \notin LiveIds(WithoutPlayer(q, p).players)
    BY <2>3, <2>6, WithoutPlayerSlimmer
  <2> QED
    BY <1>1, <2>5, <2>7, <2>8, SlimmerIsOrder
<1>8. CASE /\ ~InList(r.players, p) /\ InList(r.observers, p)
           /\ o = Outcome(WithoutObserver(r, p), p, FALSE)
  <2>1. WithoutObserver(r, p).players = r.players /\ WithoutObserver(r, p).target = r.target
    BY <1>1 DEF WithoutObserver, RoomType
  <2>2. Slimmer(r, WithoutObserver(r, p))
    BY <1>1, <2>1, SamePlayersSlimmer
  <2>3. p \notin LiveIds(r.players) /\ o.room = WithoutObserver(r, p)
    BY <1>1, <1>8, InListIsLive DEF Outcome
  <2> QED
    BY <2>1, <2>2, <2>3
<1> QED
  BY <1>3, <1>4, <1>5, <1>6, <1>7, <1>8

LEMMA RemoveHostSlims ==
  ASSUME NEW w, NEW r, RoomGood(r), NEW o \in RemoveHost(w, r)
  PROVE  Slimmer(r, o.room)
<1> DEFINE host == r.players[1].id
           inMatch == \E i \in DOMAIN r.players :
                        r.players[i].live /\ w.state[r.players[i].id] = "normal"
           Best == BestIndices(w, r, host, inMatch)
<1>1. r \in RoomType /\ r.players \in Seq(Entries) /\ Uniq(r.players)
  BY DEF RoomGood, RoomType, Once
<1>2. \/ o \in {Outcome(r, NoSession, FALSE), Outcome(r, NoSession, TRUE)}
      \/ /\ r.players # <<>> /\ r.players[1].live
         /\ \E k \in Best : o = Outcome(HostGone(r, k, inMatch), host, FALSE)
  BY DEF RemoveHost, HostGone
<1>3. CASE o \in {Outcome(r, NoSession, FALSE), Outcome(r, NoSession, TRUE)}
  BY <1>1, <1>3, SlimmerIsOrder DEF Outcome
<1>4. CASE /\ r.players # <<>> /\ r.players[1].live
           /\ \E k \in Best : o = Outcome(HostGone(r, k, inMatch), host, FALSE)
  <2>1. PICK k \in Best : o = Outcome(HostGone(r, k, inMatch), host, FALSE)
    BY <1>4
  <2>2. k \in DOMAIN r.players
    BY <1>1, BestArePlayers
  <2> DEFINE s == SwapWithFirst(r.players, k)
  <2>3. /\ o.room.players = SwapOut(s, k) /\ o.room.target = r.target
    BY <1>1, <2>1 DEF RoomType, HostGone, Outcome
  <2>4. /\ s \in Seq(Entries) /\ k \in DOMAIN s /\ s[k].live /\ Uniq(s)
        /\ LiveIds(s) = LiveIds(r.players) /\ NoMoreGhosts(r.players, s)
    BY <1>1, <1>4, <2>2, SwapWithFirstFacts, SwapWithFirstGhosts
  <2> HIDE DEF s
  <2>5. /\ SwapOut(s, k) \in Seq(Entries) /\ LiveIds(SwapOut(s, k)) \subseteq LiveIds(s)
        /\ NoMoreGhosts(s, SwapOut(s, k))
    BY <2>4, SwapOutFacts, SwapOutGhosts
  <2> QED
    BY <1>1, <2>3, <2>4, <2>5, NoMoreGhostsIsOrder DEF Slimmer
<1> QED
  BY <1>2, <1>3, <1>4

LEMMA KickedSlims ==
  ASSUME NEW w, NEW r, RoomGood(r), NEW p \in Sessions, NEW o \in Kicked(w, r, p)
  PROVE  Slimmer(r, o.room)
BY RemovePlayerSlims, RemoveHostSlims DEF Kicked

\* The same of every room that stays open.
Slims(w, v) ==
  DOMAIN v.rooms \subseteq DOMAIN w.rooms /\ \A n \in DOMAIN v.rooms : Slimmer(w.rooms[n], v.rooms[n])

LEMMA GoodRooms ==
  ASSUME NEW w, NEW top, NEW strays, Good(w, top, strays), NEW n \in DOMAIN w.rooms
  PROVE  RoomGood(w.rooms[n]) /\ w.rooms[n] \in RoomType /\ Slimmer(w.rooms[n], w.rooms[n])
BY SlimmerIsOrder DEF Good, PlacesGood, RoomGood

LEMMA SlimsIsOrder ==
  ASSUME NEW top, NEW strays, NEW w, NEW v, NEW u,
         Good(w, top, strays), Good(v, top, strays), Good(u, top, strays),
         Slims(w, v), Slims(v, u)
  PROVE  Slims(w, w) /\ Slims(w, u)
<1>1. ASSUME NEW n \in DOMAIN u.rooms
      PROVE  Slimmer(w.rooms[n], u.rooms[n])
  <2>1. n \in DOMAIN v.rooms /\ n \in DOMAIN w.rooms
    BY DEF Slims
  <2>2. w.rooms[n] \in RoomType /\ v.rooms[n] \in RoomType /\ u.rooms[n] \in RoomType
    BY <2>1, GoodRooms
  <2> QED
    BY <2>1, <2>2, SlimmerIsOrder DEF Slims
<1> QED
  BY <1>1, GoodRooms DEF Slims

\* One room is edited so.
LEMMA EditSlims ==
  ASSUME NEW top, NEW strays, NEW w, Good(w, top, strays), NEW v, NEW n \in DOMAIN w.rooms,
         DOMAIN v.rooms = DOMAIN w.rooms,
         \A m \in DOMAIN w.rooms : m # n => v.rooms[m] = w.rooms[m],
         Slimmer(w.rooms[n], v.rooms[n])
  PROVE  Slims(w, v)
BY GoodRooms DEF Slims

LEMMA PutSlims ==
  ASSUME NEW top, NEW strays, NEW w, Good(w, top, strays), NEW n \in DOMAIN w.rooms,
         NEW o, Slimmer(w.rooms[n], o.room)
  PROVE  /\ Slims(w, Put(w, n, o)) /\ DOMAIN Put(w, n, o).rooms = DOMAIN w.rooms
         /\ Put(w, n, o).rooms[n] = o.room
<1>1. Put(w, n, o).rooms = [w.rooms EXCEPT ![n] = o.room]
  BY DEF Good, IsWorld, Put
<1>2. /\ DOMAIN Put(w, n, o).rooms = DOMAIN w.rooms /\ Put(w, n, o).rooms[n] = o.room
      /\ \A m \in DOMAIN w.rooms : m # n => Put(w, n, o).rooms[m] = w.rooms[m]
  BY <1>1
<1> HIDE DEF Put
<1> QED
  BY <1>2, EditSlims

LEMMA RemoveRoomSlims ==
  ASSUME NEW top, NEW strays, NEW w, Good(w, top, strays), NEW n
  PROVE  Slims(w, RemoveRoom(w, n)) /\ n \notin DOMAIN RemoveRoom(w, n).rooms
<1>1. RemoveRoom(w, n).rooms = Without(w.rooms, {n})
  BY DEF Good, IsWorld, RemoveRoom
<1>2. /\ DOMAIN RemoveRoom(w, n).rooms = DOMAIN w.rooms \ {n}
      /\ \A m \in DOMAIN w.rooms \ {n} : RemoveRoom(w, n).rooms[m] = w.rooms[m]
  BY <1>1 DEF Without
<1> HIDE DEF RemoveRoom
<1> QED
  BY <1>2, GoodRooms DEF Slims

\* Outcomes are put into their room; a room to be closed is gone afterwards.
LEMMA OutcomesSlim ==
  ASSUME NEW top \in Nat, NEW strays, NEW w, Good(w, top, strays), NEW n \in DOMAIN w.rooms,
         NEW outcomes,
         \A o \in outcomes : GoodOutcome(w.rooms[n], o) /\ Slimmer(w.rooms[n], o.room)
  PROVE  /\ \A v \in NotClosing(w, n, outcomes) : Slims(w, v)
         /\ \A v \in Closing(w, n, outcomes) :
              /\ Slims(w, v)
              /\ n \in DOMAIN v.rooms => \E o \in outcomes : ~o.close /\ v.rooms[n] = o.room
<1>1. ASSUME NEW o \in outcomes
      PROVE  /\ Slims(w, Put(w, n, o)) /\ Put(w, n, o).rooms[n] = o.room
             /\ Slims(w, RemoveRoom(Put(w, n, o), n))
             /\ n \notin DOMAIN RemoveRoom(Put(w, n, o), n).rooms
  <2> DEFINE v == Put(w, n, o)
  <2>1. Slims(w, v) /\ v.rooms[n] = o.room
    BY PutSlims
  <2>2. Good(v, top, strays) /\ n \in DOMAIN v.rooms
    BY PutGood
  <2> HIDE DEF v
  <2>3. Slims(v, RemoveRoom(v, n)) /\ n \notin DOMAIN RemoveRoom(v, n).rooms
    BY <2>2, RemoveRoomSlims
  <2>4. Good(RemoveRoom(v, n), top, strays)
    BY <2>2, RemoveRoomGood
  <2>5. Slims(w, RemoveRoom(v, n))
    BY <2>1, <2>2, <2>3, <2>4, SlimsIsOrder
  <2> QED
    BY <2>1, <2>3, <2>5 DEF v
<1>2. ASSUME NEW v \in Closing(w, n, outcomes)
      PROVE  /\ Slims(w, v)
             /\ n \in DOMAIN v.rooms => \E o \in outcomes : ~o.close /\ v.rooms[n] = o.room
  <2>1. PICK o \in outcomes : v = IF o.close THEN RemoveRoom(Put(w, n, o), n) ELSE Put(w, n, o)
    BY DEF Closing
  <2> HIDE DEF Put, RemoveRoom
  <2> QED
    BY <1>1, <2>1
<1>3. ASSUME NEW v \in NotClosing(w, n, outcomes)
      PROVE  Slims(w, v)
  BY <1>1 DEF NotClosing
<1> QED
  BY <1>2, <1>3

LEMMA SetStateForSlims ==
  ASSUME NEW top, NEW strays, NEW w, Good(w, top, strays), NEW n \in DOMAIN w.rooms,
         NEW p \in Sessions, NEW x \in States
  PROVE  Slims(w, SetStateFor(w, n, p, x))
<1> DEFINE v == SetStateFor(w, n, p, x)
           r == w.rooms[n]
<1>1. r \in RoomType /\ r.players \in Seq(Entries)
  BY GoodRooms DEF RoomType
<1>2. /\ DOMAIN v.rooms = DOMAIN w.rooms
      /\ \A m \in DOMAIN w.rooms : m # n => v.rooms[m] = w.rooms[m]
      /\ v.rooms[n] = [r EXCEPT !.players = WithState(@, p, x), !.observers = WithState(@, p, x)]
  BY DEF Good, IsWorld, SetStateFor
<1>3. v.rooms[n].players = WithState(r.players, p, x) /\ v.rooms[n].target = r.target
  BY <1>1, <1>2 DEF RoomType
<1> HIDE DEF v, r
<1>4. /\ WithState(r.players, p, x) \in Seq(Entries)
      /\ SameEntries(r.players, WithState(r.players, p, x))
  BY <1>1, WithStateFacts
<1>5. Slimmer(r, v.rooms[n])
  BY <1>1, <1>3, <1>4, SameEntriesFacts, SameEntriesGhosts DEF Slimmer
<1> QED
  BY <1>2, <1>5, EditSlims DEF v, r

LEMMA LeaveVotekickedSlims ==
  ASSUME NEW top \in Nat, NEW strays, NEW w, Good(w, top, strays), NEW n \in DOMAIN w.rooms,
         NEW p \in Sessions, NEW v \in LeaveVotekicked(w, n, p)
  PROVE  Slims(w, v)
<1>1. PICK u : /\ v = [u EXCEPT !.rooms[n] = ResetVotekick(@)]
               /\ u = w \/ u \in NotClosing(w, n, Kicked(w, w.rooms[n], p))
  BY DEF LeaveVotekicked
<1>2. \A o \in Kicked(w, w.rooms[n], p) : GoodOutcome(w.rooms[n], o) /\ Slimmer(w.rooms[n], o.room)
  BY GoodRooms, KickedGood, KickedSlims
<1>3. Good(u, top, strays) /\ n \in DOMAIN u.rooms
  BY <1>1, <1>2, ClosingGood, NotClosingKeepsRooms
<1>4. Slims(w, u)
  <2>1. Slims(w, w)
    BY GoodRooms DEF Slims
  <2> QED
    BY <1>1, <1>2, <2>1, OutcomesSlim
<1>5. Good(v, top, strays)
  BY <1>1, <1>3, ResetVotekickGood
<1>6. /\ DOMAIN v.rooms = DOMAIN u.rooms /\ v.rooms[n] = ResetVotekick(u.rooms[n])
      /\ \A m \in DOMAIN u.rooms : m # n => v.rooms[m] = u.rooms[m]
  BY <1>1, <1>3 DEF Good, IsWorld
<1>7. Slimmer(u.rooms[n], v.rooms[n])
  <2>1. u.rooms[n] \in RoomType
    BY <1>3, GoodRooms
  <2>2. v.rooms[n].players = u.rooms[n].players /\ v.rooms[n].target = NoSession
    BY <1>6, <2>1 DEF ResetVotekick, RoomType
  <2> QED
    BY <2>1, <2>2, SamePlayersSlimmer
<1>8. Slims(u, v)
  BY <1>3, <1>6, <1>7, EditSlims
<1> QED
  BY <1>3, <1>4, <1>5, <1>8, SlimsIsOrder

\* Leaving a match or a room; a player that leaves its room is out of the list
\* of players or the room is closed, unless the player is the target of a
\* votekick.
LEMMA LeavesSlim ==
  ASSUME NEW top \in Nat, NEW strays, NEW w, Good(w, top, strays), NEW p \in Sessions
  PROVE  /\ \A v \in MatchLeave(w, p) : Slims(w, v)
         /\ \A v \in RoomLeave(w, p) :
              /\ Slims(w, v)
              /\ HasRoom(w, p) /\ w.rooms[w.number[p]].target # p
                   /\ w.number[p] \in DOMAIN v.rooms
                   => p \notin LiveIds(v.rooms[w.number[p]].players)
<1> DEFINE n == w.number[p]
           r == w.rooms[n]
<1>1. CASE ~HasRoom(w, p)
  <2>1. Slims(w, w)
    BY GoodRooms DEF Slims
  <2> QED
    BY <1>1, <2>1 DEF RoomLeave, MatchLeave
<1>2. CASE HasRoom(w, p)
  <2>1. n \in DOMAIN w.rooms /\ RoomGood(r)
    BY <1>2, GoodRooms DEF HasRoom
  <2>2. \A o \in RemovePlayer(w, r, p) :
          /\ GoodOutcome(r, o) /\ Slimmer(r, o.room)
          /\ o.close \/ p \notin LiveIds(o.room.players)
    BY <2>1, RemovePlayerGood, RemovePlayerSlims
  <2>3. \A o \in RemoveHost(w, r) : GoodOutcome(r, o) /\ Slimmer(r, o.room)
    BY <2>1, RemoveHostGood, RemoveHostSlims
  <2>4. \A v \in LeaveVotekicked(w, n, p) : Slims(w, v)
    BY <2>1, LeaveVotekickedSlims
  <2>5. \A v \in Closing(w, n, RemoveHost(w, r)) : Slims(w, v)
    BY <2>1, <2>3, OutcomesSlim
  <2>6. \A v \in Closing(w, n, RemovePlayer(w, r, p)) :
          Slims(w, v) /\ (n \in DOMAIN v.rooms => p \notin LiveIds(v.rooms[n].players))
    <3> HIDE DEF n, r
    <3>1. \A v \in Closing(w, n, RemovePlayer(w, r, p)) :
            /\ Slims(w, v)
            /\ n \in DOMAIN v.rooms =>
                 \E o \in RemovePlayer(w, r, p) : ~o.close /\ v.rooms[n] = o.room
      BY <2>1, <2>2, OutcomesSlim DEF r
    <3> QED
      BY <2>2, <3>1
  <2>7. Slims(w, SetStateFor(w, n, p, "waiting"))
    BY <2>1, SetStateForSlims DEF States
  <2>8. ASSUME NEW v \in RoomLeave(w, p)
        PROVE  /\ Slims(w, v)
               /\ r.target # p /\ n \in DOMAIN v.rooms => p \notin LiveIds(v.rooms[n].players)
    BY <1>2, <2>4, <2>6 DEF RoomLeave
  <2>9. ASSUME NEW v \in MatchLeave(w, p)
        PROVE  Slims(w, v)
    BY <1>2, <2>4, <2>5, <2>7 DEF MatchLeave
  <2> QED
    BY <2>8, <2>9
<1> QED
  BY <1>1, <1>2

-----------------------------------------------------------------------------
(* The requests: no room gets a dead entry, and nobody becomes a player but  *)
(* who enters a room.                                                        *)

PlayersOf(n) == IF n \in DOMAIN rooms THEN LiveIds(rooms[n].players) ELSE {}

QuietBut(who) ==
  \A n \in DOMAIN rooms' :
    /\ n \in DOMAIN rooms => NoMoreGhosts(rooms[n].players, rooms'[n].players)
    /\ LiveIds(rooms'[n].players) \subseteq PlayersOf(n) \cup {x \in who : number'[x] = n}
QuietStep == QuietBut({})

LEMMA SlimsAreQuiet ==
  ASSUME NEW w, rooms' = w.rooms, Slims(World, w)
  PROVE  QuietStep
BY WorldIs DEF Slims, Slimmer, QuietStep, QuietBut, PlayersOf

\* One room is edited.
LEMMA EditIsQuiet ==
  ASSUME IInv, NEW n \in DOMAIN rooms, NEW q, rooms' = [rooms EXCEPT ![n] = q],
         NoMoreGhosts(rooms[n].players, q.players), NEW who,
         LiveIds(q.players) \subseteq LiveIds(rooms[n].players) \cup {x \in who : number'[x] = n}
  PROVE  QuietBut(who)
<1>1. /\ DOMAIN rooms' = DOMAIN rooms /\ rooms'[n] = q
      /\ \A m \in DOMAIN rooms : m # n => rooms'[m] = rooms[m]
  OBVIOUS
<1>2. \A m \in DOMAIN rooms : NoMoreGhosts(rooms[m].players, rooms[m].players)
  BY RoomOf, NoMoreGhostsIsOrder
<1> QED
  BY <1>1, <1>2 DEF QuietBut, PlayersOf

LEMMA KeptRoomsAreQuiet ==
  ASSUME IInv, DOMAIN rooms' \subseteq DOMAIN rooms, \A n \in DOMAIN rooms' : rooms'[n] = rooms[n]
  PROVE  QuietStep
BY RoomOf, NoMoreGhostsIsOrder DEF QuietStep, QuietBut, PlayersOf

LEMMA QuietAnyway ==
  ASSUME QuietStep, NEW who
  PROVE  QuietBut(who)
BY DEF QuietStep, QuietBut

LEMMA NumbersHaveDomain ==
  ASSUME IInv
  PROVE  number \in [Sessions -> 0 .. Elsewhere]
BY WorldIs DEF IInv, Good, PlacesGood

LEMMA CreateRoomQuiet ==
  ASSUME IInv, NEW p \in Sessions, CreateRoom(p)
  PROVE  QuietBut({p})
<1>1. CASE UNCHANGED rooms
  BY <1>1, KeptRoomsAreQuiet, QuietAnyway
<1>2. CASE rooms' = [n \in DOMAIN rooms \cup {Generated} |->
                       IF n = Generated
                       THEN [players |-> <<NewEntry(p)>>, observers |-> <<>>,
                             started |-> FALSE, target |-> NoSession]
                       ELSE rooms[n]] /\ number' = [number EXCEPT ![p] = Generated]
  <2>1. GhostsOf(<<NewEntry(p)>>) = {} /\ LiveIds(<<NewEntry(p)>>) = {p}
    BY DEF GhostsOf, LiveIds, NewEntry
  <2>2. ASSUME NEW n \in DOMAIN rooms
        PROVE  NoMoreGhosts(rooms[n].players, rooms'[n].players)
    <3>1. rooms[n].players \in Seq(Entries)
      BY RoomOf
    <3>2. CASE n = Generated
      <4>1. rooms'[n].players = <<NewEntry(p)>>
        BY <1>2, <3>2
      <4>2. Cardinality(GhostsOf(<<NewEntry(p)>>)) = 0
        BY <2>1, FS_EmptySet
      <4> QED
        BY <3>1, <4>1, <4>2, GhostsAreFinite DEF NoMoreGhosts
    <3>3. CASE n # Generated
      BY <1>2, <3>1, <3>3, NoMoreGhostsIsOrder
    <3> QED
      BY <3>2, <3>3
  <2>3. ASSUME NEW n \in DOMAIN rooms'
        PROVE  LiveIds(rooms'[n].players) \subseteq PlayersOf(n) \cup {x \in {p} : number'[x] = n}
    <3>1. CASE n = Generated
      <4>1. rooms'[n].players = <<NewEntry(p)>> /\ number'[p] = n
        BY <1>2, <3>1, NumbersHaveDomain
      <4> QED
        BY <2>1, <4>1
    <3>2. CASE n # Generated
      BY <1>2, <3>2 DEF PlayersOf
    <3> QED
      BY <3>1, <3>2
  <2> QED
    BY <2>2, <2>3 DEF QuietBut
<1> QED
  BY <1>1, <1>2 DEF CreateRoom

LEMMA JoinRoomQuiet ==
  ASSUME IInv, NEW p \in Sessions, NEW n \in DOMAIN rooms, JoinRoom(p, n)
  PROVE  QuietBut({p})
<1> DEFINE r == rooms[n]
<1>1. r \in RoomType /\ r.players \in Seq(Entries)
  BY RoomOf
<1>2. NewEntry(p) \in Entries /\ NewEntry(p).live /\ NewEntry(p).id = p
  BY DEF NewEntry, Entries, States
<1>5. number'[p] = n
  BY NumbersHaveDomain DEF JoinRoom
<1>3. CASE rooms' = [rooms EXCEPT ![n] = [r EXCEPT !.players = Append(@, NewEntry(p))]]
  <2>1. [r EXCEPT !.players = Append(@, NewEntry(p))].players = Append(r.players, NewEntry(p))
    BY <1>1 DEF RoomType
  <2> HIDE DEF r
  <2>2. /\ NoMoreGhosts(r.players, Append(r.players, NewEntry(p)))
        /\ LiveIds(Append(r.players, NewEntry(p))) = LiveIds(r.players) \cup {p}
    BY <1>1, <1>2, AppendGhosts
  <2> DEFINE q == [r EXCEPT !.players = Append(@, NewEntry(p))]
  <2>3. /\ NoMoreGhosts(r.players, q.players)
        /\ LiveIds(q.players) \subseteq LiveIds(r.players) \cup {x \in {p} : number'[x] = n}
    BY <1>5, <2>1, <2>2
  <2>4. rooms' = [rooms EXCEPT ![n] = q]
    BY <1>3 DEF r
  <2> HIDE DEF q
  <2> QED
    BY <2>3, <2>4, EditIsQuiet DEF r
<1>4. CASE rooms' = [rooms EXCEPT ![n] = [r EXCEPT !.observers = Append(@, NewEntry(p))]]
  <2>1. [r EXCEPT !.observers = Append(@, NewEntry(p))].players = r.players
    BY <1>1 DEF RoomType
  <2> QED
    BY <1>1, <1>4, <2>1, NoMoreGhostsIsOrder, EditIsQuiet
<1> QED
  BY <1>3, <1>4 DEF JoinRoom, JoinsAsPlayer, JoinsAsObserver

LEMMA LeavesRequestQuiet ==
  ASSUME IInv, NEW p \in Sessions, LeaveRoom(p) \/ LeaveMatch(p)
  PROVE  QuietStep
<1>1. next \in Nat /\ Good(World, next, strayed)
  BY NextIsNatural
<1>2. PICK w \in RoomLeave(World, p) \cup MatchLeave(World, p) : Become(w)
  BY DEF LeaveRoom, LeaveMatch
<1>3. Slims(World, w)
  BY <1>1, LeavesSlim
<1> QED
  BY <1>2, <1>3, SlimsAreQuiet DEF Become

LEMMA KicksQuiet ==
  ASSUME IInv, NEW p \in Sessions, NEW q \in Sessions, KickPlayer(p, q) \/ CommandKick(p, q)
  PROVE  QuietStep
<1> DEFINE n == number[p]
           r == rooms[n]
<1>1. next \in Nat /\ Good(World, next, strayed) /\ n \in DOMAIN World.rooms /\ World.rooms[n] = r
  BY NextIsNatural, WorldIs DEF KickPlayer, CommandKick, HasRoom
<1>2. RoomGood(r)
  BY <1>1 DEF Good, PlacesGood
<1>3. /\ \A o \in RemovePlayer(World, r, q) :
           GoodOutcome(World.rooms[n], o) /\ Slimmer(World.rooms[n], o.room)
      /\ \A o \in Kicked(World, r, q) :
           GoodOutcome(World.rooms[n], o) /\ Slimmer(World.rooms[n], o.room)
  BY <1>1, <1>2, RemovePlayerGood, KickedGood, RemovePlayerSlims, KickedSlims
<1>4. PICK w : /\ Become(w)
               /\ \/ w \in NotClosing(World, n, RemovePlayer(World, r, q))
                  \/ w \in NotClosing(World, n, Kicked(World, r, q))
  BY DEF KickPlayer, CommandKick
<1> HIDE DEF n, r
<1>5. Slims(World, w)
  BY <1>1, <1>3, <1>4, OutcomesSlim
<1> QED
  BY <1>4, <1>5, SlimsAreQuiet DEF Become

LEMMA JoinMatchQuiet ==
  ASSUME IInv, NEW p \in Sessions, JoinMatch(p)
  PROVE  QuietStep
<1>1. Good(World, next, strayed) /\ number[p] \in DOMAIN World.rooms
  BY NextIsNatural, WorldIs DEF JoinMatch, HasRoom
<1>2. Slims(World, SetStateFor(World, number[p], p, "normal"))
  BY <1>1, SetStateForSlims DEF States
<1> HIDE DEF SetStateFor
<1> QED
  BY <1>2, SlimsAreQuiet DEF JoinMatch, Become

LEMMA MatchQuiet ==
  ASSUME IInv, NEW p \in Sessions, StartMatch(p) \/ EndMatch(p)
  PROVE  QuietStep
<1> DEFINE n == number[p]
           r == rooms[n]
           s == r.players
           q == rooms'[n]
<1>1. n \in DOMAIN rooms
  BY WorldIs DEF StartMatch, EndMatch, HasRoom
<1>2. s \in Seq(Entries)
  BY <1>1, RoomOf
<1>3. /\ rooms' = [rooms EXCEPT ![n] = q]
      /\ \/ q.players = [i \in DOMAIN s |->
              IF Starts(r, s[i]) THEN [s[i] EXCEPT !.state = "normal"] ELSE s[i]]
         \/ q.players = [i \in DOMAIN s |->
              IF s[i].live /\ state[s[i].id] \in {"ready", "normal"}
              THEN [s[i] EXCEPT !.state = "waiting"] ELSE s[i]]
  <2>1. CASE StartMatch(p)
    BY <1>1, <2>1 DEF StartMatch
  <2>2. CASE EndMatch(p)
    BY <1>1, <2>2 DEF EndMatch
  <2> QED
    BY <2>1, <2>2
<1>4. q.players \in Seq(Entries) /\ SameEntries(s, q.players)
  <2> DEFINE t == q.players
  <2>1. "normal" \in States /\ "waiting" \in States
    BY DEF States
  <2>2. /\ DOMAIN t = DOMAIN s /\ t = [i \in DOMAIN s |-> t[i]]
        /\ \A i \in DOMAIN s : \E v \in States : t[i] = s[i] \/ t[i] = [s[i] EXCEPT !.state = v]
    <3> HIDE DEF q, r, s
    <3> QED
      BY <1>3, <2>1
  <2> HIDE DEF t, s
  <2> QED
    BY <1>2, <2>2, MappedFacts DEF t
<1> HIDE DEF q
<1>5. NoMoreGhosts(s, q.players) /\ LiveIds(q.players) = LiveIds(s)
  BY <1>2, <1>4, SameEntriesGhosts, SameEntriesFacts
<1> QED
  BY <1>1, <1>3, <1>5, EditIsQuiet DEF QuietStep

LEMMA ChangeHostQuiet ==
  ASSUME IInv, NEW p \in Sessions, NEW k, ChangeHost(p, k)
  PROVE  QuietStep
<1> DEFINE n == number[p]
           r == rooms[n]
           q == [r EXCEPT !.players = SwapWithFirst(@, k)]
<1>1. n \in DOMAIN rooms /\ k \in DOMAIN r.players /\ rooms' = [rooms EXCEPT ![n] = q]
  BY WorldIs DEF ChangeHost, HasRoom
<1>2. r \in RoomType /\ r.players \in Seq(Entries)
  BY <1>1, RoomOf
<1>3. q.players = SwapWithFirst(r.players, k)
  BY <1>2 DEF RoomType
<1> HIDE DEF q
<1>4. NoMoreGhosts(r.players, q.players) /\ LiveIds(q.players) = LiveIds(r.players)
  BY <1>1, <1>2, <1>3, SwapWithFirstGhosts, SwapWithFirstFacts
<1> QED
  BY <1>1, <1>4, EditIsQuiet DEF QuietStep

LEMMA SetPlayerStateQuiet ==
  ASSUME IInv, NEW p \in Sessions, NEW v \in States, SetPlayerState(p, v)
  PROVE  QuietStep
<1> DEFINE w == [World EXCEPT !.state[p] = v]
<1>1. Good(World, next, strayed) /\ state \in [Sessions -> States]
  BY NextIsNatural, WorldIs DEF Good, PlacesGood
<1>2. /\ IsWorld(w) /\ w.rooms = World.rooms /\ w.number = World.number /\ w.free = World.free
      /\ w.state = [World.state EXCEPT ![p] = v]
  BY DEF World, IsWorld
<1>3. \/ Become(w)
      \/ number[p] \in DOMAIN World.rooms /\ Become(SetStateFor(w, number[p], p, v))
  BY <1>2, WorldIs DEF SetPlayerState, HasRoom
<1> HIDE DEF w
<1>4. Good(w, next, strayed)
  <2>1. w.state \in [Sessions -> States]
    BY <1>1, <1>2, WorldIs
  <2> QED
    BY <1>1, <1>2, <2>1 DEF Good, NumbersGood, PlacesGood
<1>5. Slims(World, w)
  BY <1>1, <1>2, GoodRooms DEF Slims
<1>6. number[p] \in DOMAIN World.rooms => Slims(World, SetStateFor(w, number[p], p, v))
  <2> SUFFICES ASSUME number[p] \in DOMAIN World.rooms
               PROVE  Slims(World, SetStateFor(w, number[p], p, v))
    OBVIOUS
  <2>1. Slims(w, SetStateFor(w, number[p], p, v))
    BY <1>2, <1>4, SetStateForSlims
  <2> QED
    BY <1>2, <2>1 DEF Slims
<1> HIDE DEF SetStateFor
<1> QED
  BY <1>3, <1>5, <1>6, SlimsAreQuiet DEF Become

LEMMA BecomeObserverQuiet ==
  ASSUME IInv, NEW p \in Sessions, BecomeObserver(p)
  PROVE  QuietStep
<1> DEFINE n == number[p]
           r == rooms[n]
           a == WithoutPlayer(r, p)
           q == [a EXCEPT !.observers = Append(@, r.players[The(Index(r.players, p))])]
<1>1. n \in DOMAIN rooms /\ InList(r.players, p) /\ rooms' = [rooms EXCEPT ![n] = q]
  BY WorldIs DEF BecomeObserver, HasRoom
<1>2. RoomGood(r)
  BY <1>1, RoomOf
<1>3. Slimmer(r, a) /\ a \in RoomType
  BY <1>1, <1>2, WithoutPlayerSlimmer, WithoutPlayerGood DEF RoomGood
<1> HIDE DEF a
<1>4. q.players = a.players
  BY <1>3 DEF RoomType
<1> HIDE DEF q
<1> QED
  BY <1>1, <1>3, <1>4, EditIsQuiet DEF Slimmer, QuietStep

LEMMA BecomePlayerQuiet ==
  ASSUME IInv, NEW p \in Sessions, BecomePlayer(p)
  PROVE  QuietBut({p})
<1> DEFINE n == number[p]
           r == rooms[n]
           k == The(Index(r.observers, p))
           e == r.observers[k]
           q == [r EXCEPT !.players = Append(@, e), !.observers = Erased(@, k)]
<1>1. n \in DOMAIN rooms /\ InList(r.observers, p) /\ rooms' = [rooms EXCEPT ![n] = q]
  BY WorldIs DEF BecomePlayer, HasRoom, Erased
<1>2. r \in RoomType /\ r.players \in Seq(Entries) /\ r.observers \in Seq(Entries)
  BY <1>1, RoomOf
<1>3. e \in Entries /\ e.live /\ e.id = p
  BY <1>1, <1>2, IndexFacts, ListFacts
<1>4. q.players = Append(r.players, e)
  BY <1>2 DEF RoomType
<1>6. number'[p] = n
  BY DEF BecomePlayer
<1> HIDE DEF q, e
<1>5. NoMoreGhosts(r.players, q.players) /\ LiveIds(q.players) = LiveIds(r.players) \cup {p}
  BY <1>2, <1>3, <1>4, AppendGhosts
<1> QED
  BY <1>1, <1>5, <1>6, EditIsQuiet

LEMMA StartVotekickQuiet ==
  ASSUME IInv, NEW p \in Sessions, NEW x \in Sessions, StartVotekick(p, x)
  PROVE  QuietStep
<1> DEFINE n == number[p]
           q == [rooms[n] EXCEPT !.target = x]
<1>1. n \in DOMAIN rooms /\ rooms' = [rooms EXCEPT ![n] = q]
  BY WorldIs DEF StartVotekick, HasRoom
<1>2. rooms[n] \in RoomType /\ rooms[n].players \in Seq(Entries)
  BY <1>1, RoomOf
<1>3. q.players = rooms[n].players
  BY <1>2 DEF RoomType
<1> HIDE DEF q
<1> QED
  BY <1>1, <1>2, <1>3, NoMoreGhostsIsOrder, EditIsQuiet DEF QuietStep

LEMMA VotekickResultQuiet ==
  ASSUME IInv, NEW p \in Sessions, VotekickResult(p)
  PROVE  QuietStep
<1> DEFINE n == number[p]
           x == rooms[n].target
           w == [World EXCEPT !.rooms[n].target = NoSession]
           q == [rooms[n] EXCEPT !.target = NoSession]
<1>1. /\ n \in DOMAIN rooms /\ x # NoSession
      /\ Become(w) \/ \E v \in NotClosing(w, n, Kicked(w, w.rooms[n], x)) : Become(v)
  BY WorldIs DEF VotekickResult, HasRoom
<1>2. next \in Nat /\ Good(World, next, strayed) /\ n \in DOMAIN World.rooms
  BY <1>1, NextIsNatural, WorldIs
<1>3. RoomGood(rooms[n]) /\ rooms[n] \in RoomType /\ x \in Sessions /\ state \in [Sessions -> States]
  BY <1>1, RoomOf
<1>4. /\ IsWorld(w) /\ w.number = number /\ w.free = free /\ w.state = state
      /\ DOMAIN w.rooms = DOMAIN rooms /\ w.rooms[n] = q
      /\ \A m \in DOMAIN rooms : m # n => w.rooms[m] = rooms[m]
  BY <1>1 DEF World, IsWorld
<1>5. /\ q \in RoomType /\ q.players = rooms[n].players /\ q.observers = rooms[n].observers
      /\ q.target = NoSession
  BY <1>3 DEF RoomType
<1> HIDE DEF w, q, n, x
<1>6. /\ RoomGood(q) /\ Members(q) = Members(rooms[n]) /\ Slimmer(rooms[n], q)
  BY <1>3, <1>5, MembersAre, SamePlayersSlimmer DEF RoomGood, Once
<1>7. Good(w, next, strayed) /\ Slims(World, w)
  BY <1>2, <1>3, <1>4, <1>6, WorldIs, EditGood, EditSlims
<1>8. ASSUME NEW v \in NotClosing(w, n, Kicked(w, w.rooms[n], x))
      PROVE  Slims(World, v)
  <2>1. \A o \in Kicked(w, w.rooms[n], x) :
          GoodOutcome(w.rooms[n], o) /\ Slimmer(w.rooms[n], o.room)
    BY <1>3, <1>4, <1>6, KickedGood, KickedSlims
  <2>2. n \in DOMAIN w.rooms
    BY <1>1, <1>4
  <2>3. Slims(w, v) /\ Good(v, next, strayed)
    BY <1>2, <1>7, <2>1, <2>2, OutcomesSlim, ClosingGood
  <2> QED
    BY <1>2, <1>7, <2>3, SlimsIsOrder
<1> QED
  BY <1>1, <1>7, <1>8, SlimsAreQuiet DEF Become

LEMMA ClosingsQuiet ==
  ASSUME IInv, ListRooms \/ \E n \in DOMAIN rooms : BreakRoom(n)
  PROVE  QuietStep
<1>1. \E S : rooms' = Without(rooms, S)
  <2>1. ASSUME NEW n \in DOMAIN rooms, BreakRoom(n)
        PROVE  rooms' = Without(rooms, {n})
    BY <2>1 DEF BreakRoom, Become, RemoveRoom, World
  <2> QED
    BY <2>1 DEF ListRooms
<1>2. DOMAIN rooms' \subseteq DOMAIN rooms /\ \A n \in DOMAIN rooms' : rooms'[n] = rooms[n]
  BY <1>1 DEF Without
<1> QED
  BY <1>2, KeptRoomsAreQuiet

-----------------------------------------------------------------------------
(* Removals, and who stays a player after one.                             *)

LEMMA RemoveQuiet ==
  ASSUME IInv, NEW p \in Sessions, Remove(p)
  PROVE  /\ QuietStep
         /\ \A n \in DOMAIN rooms' :
              p \in LiveIds(rooms'[n].players) => p \in strayed' \cup kept'
<1>1. next \in Nat /\ Good(World, next, strayed)
  BY NextIsNatural
<1>2. PICK w \in OutOfMatch(p) :
        /\ Good(w, next, strayed)
        /\ \/ Become(OutOfParty(w, p)) /\ strayed' = strayed \cup Astray(w, p)
           \/ /\ strayed' = strayed
              /\ \E v \in OutOfRoom(w, p) : Become(v) /\ Good(v, next, strayed)
  BY RemoveWorlds
<1>3. Slims(World, w)
  <2>1. Slims(World, World)
    BY <1>1, GoodRooms DEF Slims
  <2> QED
    BY <1>1, <2>1, LeavesSlim DEF OutOfMatch
<1>4. World.rooms = rooms /\ World.number = number
  BY WorldIs
<1>5. ASSUME NEW n \in DOMAIN w.rooms, p \in LiveIds(w.rooms[n].players)
      PROVE  /\ n \in DOMAIN rooms /\ Slimmer(rooms[n], w.rooms[n])
             /\ number[p] = n \/ p \in strayed
             /\ w.number[p] = n \/ p \in strayed
  <2>1. n \in DOMAIN rooms /\ Slimmer(rooms[n], w.rooms[n])
    BY <1>3, <1>4 DEF Slims
  <2>2. p \in Members(w.rooms[n]) /\ p \in Members(rooms[n])
    BY <1>5, <2>1, MembersAre DEF Slimmer
  <2> QED
    BY <1>1, <1>2, <1>4, <2>1, <2>2 DEF Good, PlacesGood
<1>6. CASE Become(OutOfParty(w, p)) /\ strayed' = strayed \cup Astray(w, p)
  <2>1. rooms' = w.rooms
    BY <1>2, <1>6 DEF Become, OutOfParty, Good, IsWorld
  <2>2. ASSUME NEW n \in DOMAIN rooms', p \in LiveIds(rooms'[n].players)
        PROVE  p \in strayed'
    BY <1>5, <1>6, <2>1, <2>2 DEF Astray, HasRoom
  <2> QED
    BY <1>3, <2>1, <2>2, SlimsAreQuiet
<1>7. ASSUME strayed' = strayed, NEW v \in OutOfRoom(w, p), Become(v), Good(v, next, strayed)
      PROVE  /\ QuietStep
             /\ \A n \in DOMAIN rooms' :
                  p \in LiveIds(rooms'[n].players) => p \in strayed' \cup kept'
  <2>1. rooms' = v.rooms
    BY <1>7 DEF Become
  <2>2. Slims(w, v)
    <3>1. Slims(w, w)
      BY <1>2, GoodRooms DEF Slims
    <3> QED
      BY <1>1, <1>2, <1>7, <3>1, LeavesSlim DEF OutOfRoom
  <2>3. Slims(World, v)
    BY <1>1, <1>2, <1>3, <1>7, <2>2, SlimsIsOrder
  <2>4. ASSUME NEW n \in DOMAIN rooms', p \in LiveIds(rooms'[n].players), p \notin strayed
        PROVE  p \in kept'
    <3>1. n \in DOMAIN w.rooms /\ p \in LiveIds(w.rooms[n].players)
      BY <2>1, <2>2, <2>4 DEF Slims, Slimmer
    <3>2. n \in DOMAIN rooms /\ Slimmer(rooms[n], w.rooms[n]) /\ number[p] = n /\ w.number[p] = n
      BY <1>5, <2>4, <3>1
    <3>3. n # 0 /\ HasRoom(w, p) /\ v \in RoomLeave(w, p)
      BY <1>1, <1>4, <1>7, <3>1, <3>2 DEF Good, NumbersGood, HasRoom, OutOfRoom
    <3>4. w.rooms[n].target = p
      BY <1>1, <1>2, <2>1, <2>4, <3>2, <3>3, LeavesSlim
    <3>5. rooms[n].target = p
      BY <3>2, <3>4, NoSessionAssumption DEF Slimmer
    <3> QED
      BY <1>4, <3>2, <3>5 DEF Remove, HasRoom
  <2> QED
    BY <1>7, <2>1, <2>3, <2>4, SlimsAreQuiet
<1> QED
  BY <1>2, <1>6, <1>7

\* After a removal a session is a player of no room but as a stray or kept.
Removed ==
  \A p \in online \ registry : \A n \in DOMAIN rooms :
    p \in LiveIds(rooms[n].players) => p \in strayed \cup kept

\* Every step but the end of a session object is quiet.
LEMMA StepIsQuiet ==
  ASSUME IInv, [NumberedNext]_vars
  PROVE  \/ QuietStep
         \/ \E p \in Sessions : QuietBut({p}) /\ Playing(p) /\ UNCHANGED online
         \/ \E p \in Sessions : End(p)
<1>1. CASE ListRooms \/ \E n \in DOMAIN rooms : BreakRoom(n)
  BY <1>1, ClosingsQuiet
<1>2. ASSUME NEW p \in Sessions,
             \/ Login(p) \/ EnterParty(p) \/ LeaveParty(p)
             \/ \E n \in 0 .. Elsewhere : \E v \in States : ClanMatch(p, n, v)
      PROVE  QuietStep
  <2>1. rooms' = rooms
    BY <1>2 DEF Login, EnterParty, LeaveParty, ClanMatch, Connect, roomVars, Become, OutOfParty, World
  <2> QED
    BY <2>1, KeptRoomsAreQuiet
<1>3. ASSUME NEW p \in Sessions,
             \/ Leave(p) \/ LeaveMatch(p)
             \/ \E q \in Sessions : Kick(p, q) \/ CommandKick(p, q)
      PROVE  QuietStep
  BY <1>3, LeavesRequestQuiet, KicksQuiet DEF Leave, Kick
<1>4. ASSUME NEW p \in Sessions,
             \/ StartMatch(p) \/ JoinMatch(p) \/ EndMatch(p)
             \/ \E k \in 1 .. PlayersPerRoom : ChangeHost(p, k)
             \/ \E v \in States : SetPlayerState(p, v)
      PROVE  QuietStep
  BY <1>4, MatchQuiet, JoinMatchQuiet, ChangeHostQuiet, SetPlayerStateQuiet
<1>5. ASSUME NEW p \in Sessions,
             \/ BecomeObserver(p) \/ VotekickResult(p) \/ Remove(p)
             \/ \E q \in Sessions : StartVotekick(p, q)
      PROVE  QuietStep
  BY <1>5, BecomeObserverQuiet, StartVotekickQuiet, VotekickResultQuiet, RemoveQuiet
<1>6. ASSUME NEW p \in Sessions,
             Create(p) \/ TurnPlayer(p) \/ \E n \in DOMAIN rooms : Join(p, n)
      PROVE  QuietBut({p}) /\ Playing(p) /\ UNCHANGED online
  <2>1. Playing(p) /\ UNCHANGED online
    BY <1>6 DEF Create, TurnPlayer, Join, CreateRoom, BecomePlayer, JoinRoom
  <2> QED
    BY <1>6, <2>1, CreateRoomQuiet, JoinRoomQuiet, BecomePlayerQuiet DEF Create, TurnPlayer, Join
<1>7. CASE UNCHANGED vars
  BY <1>7, KeptRoomsAreQuiet DEF vars
<1> QED
  BY <1>1, <1>2, <1>3, <1>4, <1>5, <1>6, <1>7 DEF NumberedNext, Request

\* Whose removal, whose end and whose excuses a step brings.
LEMMA ExcusesStay ==
  ASSUME Lives, [NumberedNext]_vars, NEW p \in online' \ registry'
  PROVE  \/ p \in online \ registry /\ (p \in strayed \cup kept => p \in strayed' \cup kept')
         \/ p \in Sessions /\ Remove(p)
<1>1. CASE UNCHANGED <<online, registry, strayed, kept>>
  BY <1>1
<1>2. ASSUME NEW x \in Sessions, Login(x)
      PROVE  p \in online \ registry /\ (p \in strayed \cup kept => p \in strayed' \cup kept')
  BY <1>2 DEF Login, Connect, roomVars
<1>3. ASSUME NEW x \in Sessions, Remove(x), x # p
      PROVE  p \in online \ registry /\ (p \in strayed \cup kept => p \in strayed' \cup kept')
  BY <1>3 DEF Remove
<1>4. ASSUME NEW x \in Sessions, End(x)
      PROVE  p \in online \ registry /\ (p \in strayed \cup kept => p \in strayed' \cup kept')
  BY <1>4 DEF End
<1>5. ASSUME NEW x \in Sessions,
             \/ EnterParty(x) \/ LeaveParty(x)
             \/ \E n \in 0 .. Elsewhere : \E v \in States : ClanMatch(x, n, v)
      PROVE  p \in online \ registry /\ (p \in strayed \cup kept => p \in strayed' \cup kept')
  BY <1>5 DEF EnterParty, LeaveParty, ClanMatch, roomVars
<1>6. ASSUME NEW x \in Sessions,
             Create(x) \/ TurnPlayer(x) \/ \E n \in DOMAIN rooms : Join(x, n)
      PROVE  p \in online \ registry /\ (p \in strayed \cup kept => p \in strayed' \cup kept')
  <2>1. Playing(x) /\ UNCHANGED online
    BY <1>6 DEF Create, TurnPlayer, Join, CreateRoom, BecomePlayer, JoinRoom
  <2> QED
    BY <2>1 DEF Playing
<1>7. ASSUME SessionsStay, ListRooms \/ \E n \in DOMAIN rooms : BreakRoom(n)
      PROVE  UNCHANGED <<online, registry, strayed, kept>>
  BY <1>7 DEF ListRooms, BreakRoom, SessionsStay
<1>8. ASSUME NEW x \in Sessions, SessionsStay,
             \/ LeaveRoom(x) \/ LeaveMatch(x)
             \/ \E q \in Sessions : KickPlayer(x, q) \/ CommandKick(x, q) \/ StartVotekick(x, q)
             \/ StartMatch(x) \/ JoinMatch(x) \/ EndMatch(x)
             \/ \E k \in 1 .. PlayersPerRoom : ChangeHost(x, k)
             \/ \E v \in States : SetPlayerState(x, v)
             \/ BecomeObserver(x) \/ VotekickResult(x)
      PROVE  UNCHANGED <<online, registry, strayed, kept>>
  BY <1>8 DEF LeaveRoom, LeaveMatch, KickPlayer, CommandKick, StartVotekick, StartMatch, JoinMatch,
     EndMatch, ChangeHost, SetPlayerState, BecomeObserver, VotekickResult, SessionsStay
<1>9. CASE UNCHANGED vars
  BY <1>1, <1>9 DEF vars
<1>10. p \in Sessions
  BY StepLives DEF Lives
<1> QED
  BY <1>1, <1>2, <1>3, <1>4, <1>5, <1>6, <1>7, <1>8, <1>9, <1>10
     DEF NumberedNext, Request, Leave, Kick

LEMMA EndPlayers ==
  ASSUME IInv, NEW p \in Sessions, End(p), NEW n \in DOMAIN rooms'
  PROVE  /\ n \in DOMAIN rooms /\ rooms'[n].players = Dead(rooms[n].players, p)
         /\ LiveIds(rooms'[n].players) \subseteq LiveIds(rooms[n].players) \ {p}
<1>1. rooms' = [m \in DOMAIN rooms |-> GoneFrom(rooms[m], p)]
  BY DEF End, Become, Departed, World
<1>2. n \in DOMAIN rooms /\ rooms'[n] = GoneFrom(rooms[n], p)
  BY <1>1
<1>3. rooms[n] \in RoomType /\ rooms[n].players \in Seq(Entries)
  BY <1>2, RoomOf
<1>4. rooms'[n].players = Dead(rooms[n].players, p)
  BY <1>2, <1>3 DEF GoneFrom, RoomType
<1> QED
  BY <1>2, <1>3, <1>4, DeadFacts

LEMMA StepRemoved ==
  ASSUME IInv, Lives, Removed, [NumberedNext]_vars
  PROVE  Removed'
<1> SUFFICES ASSUME NEW p \in online' \ registry', NEW n \in DOMAIN rooms',
                    p \in LiveIds(rooms'[n].players)
             PROVE  p \in strayed' \cup kept'
  BY DEF Removed
<1>1. CASE p \in Sessions /\ Remove(p)
  BY <1>1, RemoveQuiet
<1>2. CASE p \in online \ registry /\ (p \in strayed \cup kept => p \in strayed' \cup kept')
  <2>1. p \in PlayersOf(n) => p \in strayed' \cup kept'
    BY <1>2 DEF PlayersOf, Removed
  <2>2. CASE QuietStep
    BY <2>1, <2>2 DEF QuietStep, QuietBut
  <2>3. ASSUME NEW x \in Sessions, QuietBut({x}), Playing(x)
        PROVE  p \in strayed' \cup kept'
    <3>1. p \in PlayersOf(n) \/ (p = x /\ number'[x] = n)
      BY <2>3 DEF QuietBut
    <3>2. CASE p = x /\ number'[x] = n
      <4>1. InList(rooms'[n].players, p)
        BY DEF InList, Index, LiveIds
      <4> QED
        BY <1>2, <2>3, <3>2, <4>1 DEF Playing
    <3> QED
      BY <2>1, <3>1, <3>2
  <2>4. ASSUME NEW x \in Sessions, End(x)
        PROVE  p \in strayed' \cup kept'
    BY <2>1, <2>4, EndPlayers DEF PlayersOf
  <2> QED
    BY <2>2, <2>3, <2>4, StepIsQuiet
<1> QED
  BY <1>1, <1>2, ExcusesStay

LEMMA RemovedAlways == NumberedSpec => []Removed
<1>1. StartAnew => Removed
  BY DEF StartAnew, Init, Removed
<1>2. IInv /\ Lives /\ Removed /\ [NumberedNext]_vars => Removed'
  BY StepRemoved
<1> QED
  BY <1>1, <1>2, InvAlways, LivesAlways, PTL DEF NumberedSpec

LEMMA GhostsAreExcused ==
  ASSUME IInv, Lives, Removed, [NumberedNext]_vars, NEW n \in DOMAIN rooms, StaysOpen(n),
         Cardinality(Ghosts(rooms'[n])) > Cardinality(Ghosts(rooms[n]))
  PROVE  \E p \in (online \ online') \cap (strayed \cup kept) : InList(rooms[n].players, p)
<1>1. rooms[n].players \in Seq(Entries) /\ n \in DOMAIN rooms'
  BY RoomOf DEF StaysOpen
<1>2. IInv'
  BY StepGood
<1>3. rooms'[n].players \in Seq(Entries)
  BY <1>1, <1>2, WorldIsNext DEF IInv, Good, PlacesGood, RoomGood, RoomType
<1>4. ~NoMoreGhosts(rooms[n].players, rooms'[n].players)
  <2>1. /\ Ghosts(rooms[n]) = GhostsOf(rooms[n].players)
        /\ Ghosts(rooms'[n]) = GhostsOf(rooms'[n].players)
    BY DEF Ghosts, GhostsOf
  <2>2. /\ Cardinality(GhostsOf(rooms[n].players)) \in Nat
        /\ Cardinality(GhostsOf(rooms'[n].players)) \in Nat
    BY <1>1, <1>3, GhostsAreFinite
  <2> QED
    BY <2>1, <2>2 DEF NoMoreGhosts
<1>5. PICK p \in Sessions : End(p)
  BY <1>1, <1>4, StepIsQuiet DEF QuietStep, QuietBut
<1>6. p \in LiveIds(rooms[n].players)
  BY <1>1, <1>4, <1>5, EndPlayers, DeadGhosts
<1>7. p \in online \ registry /\ p \notin online'
  BY <1>5 DEF End
<1>8. p \in strayed \cup kept
  BY <1>6, <1>7 DEF Removed
<1> QED
  BY <1>1, <1>6, <1>7, <1>8, InListIsLive

\* Whatever a session does when it is removed, hosting, in a match, observing or
\* in a party, a room that stays open gets a dead player entry only when the
\* object of a session ends that it lists as a player, and only of one that
\* lost its number to a party, was the target of a votekick at its removal, or
\* became a player by a request after it.
THEOREM GhostCorrect == NumberedSpec => RemovalLeavesNoGhost
<1>1. IInv /\ Lives /\ Removed /\ [NumberedNext]_vars
        => [\A n \in DOMAIN rooms :
              StaysOpen(n) /\ Cardinality(Ghosts(rooms'[n])) > Cardinality(Ghosts(rooms[n]))
                => \E p \in (online \ online') \cap (strayed \cup kept) :
                     InList(rooms[n].players, p)]_vars
  BY GhostsAreExcused
<1> QED
  BY <1>1, InvAlways, LivesAlways, RemovedAlways, PTL DEF NumberedSpec, RemovalLeavesNoGhost
=============================================================================
