------------------------ MODULE ClansAndParties_proofs ------------------------
(* Proofs about Clans, for any finite set of accounts and any bounds, and   *)
(* about Parties, for any sessions, clans and limits.                       *)
EXTENDS Clans, Parties, FiniteSetTheorems, SequenceTheorems, WellFoundedInduction, TLAPS

-----------------------------------------------------------------------------
(* Two facts about naturals, from the well-foundedness of < on them.        *)

LEMMA LeastNatural ==
  ASSUME NEW T \in SUBSET Nat, T # {}
  PROVE  \E m \in T : \A n \in T : m <= n
<1> DEFINE Less == {ss \in Nat \X Nat : ss[1] < ss[2]}
<1>1. IsWellFoundedOn(Less, Nat)
  BY NatLessThanWellFounded DEF OpToRel
<1>2. PICK m \in T : \A n \in T : ~(<<n, m>> \in Less)
  <2> HIDE DEF Less
  <2> QED
    BY <1>1, WFMin
<1>3. \A n \in T : ~(n < m)
  BY <1>2
<1> QED
  BY <1>3

\* The largest member of a bounded set is the least of its upper bounds.
LEMMA GreatestNatural ==
  ASSUME NEW T \in SUBSET Nat, T # {}, NEW b \in Nat, \A n \in T : n <= b
  PROVE  Max(T) \in T /\ \A n \in T : n <= Max(T)
<1> DEFINE U == {u \in Nat : \A n \in T : n <= u}
<1>1. PICK m \in U : \A u \in U : m <= u
  BY LeastNatural
<1>2. m \in T
  <2> SUFFICES ASSUME m \notin T
               PROVE  FALSE
    OBVIOUS
  <2>1. \A n \in T : n <= m - 1
    BY <1>1
  <2>2. m - 1 \in Nat
    <3>1. PICK n \in T : TRUE
      OBVIOUS
    <3> QED
      BY <2>1, <3>1
  <2> QED
    BY <1>1, <2>1, <2>2
<1>3. \A n \in T : m >= n
  BY <1>1
<1> QED
  BY <1>2, <1>3 DEF Max

LEMMA TailAt ==
  ASSUME NEW S, NEW q \in Seq(S), q # <<>>
  PROVE  \A i \in DOMAIN Tail(q) : i + 1 \in DOMAIN q /\ Tail(q)[i] = q[i + 1]
<1>1. Len(q) \in Nat /\ Len(q) # 0 /\ DOMAIN q = 1 .. Len(q)
  OBVIOUS
<1>2. Len(Tail(q)) = Len(q) - 1 /\ DOMAIN Tail(q) = 1 .. Len(q) - 1
  BY <1>1
<1>3. \A i \in 1 .. Len(q) - 1 : Tail(q)[i] = q[i + 1]
  BY <1>1, <1>2
<1> QED
  BY <1>1, <1>2, <1>3

LEMMA AppendedAt ==
  ASSUME NEW S, NEW q \in Seq(S), NEW w \in Seq(S), Len(w) = 2
  PROVE  \A i \in DOMAIN (q \o w) : \/ i \in DOMAIN q /\ (q \o w)[i] = q[i]
                                   \/ (q \o w)[i] = w[1]
                                   \/ (q \o w)[i] = w[2]
<1>1. Len(q) \in Nat /\ DOMAIN q = 1 .. Len(q) /\ DOMAIN (q \o w) = 1 .. Len(q) + 2
  <2>1. q \o w \in Seq(S) /\ Len(q \o w) = Len(q) + Len(w)
    BY ConcatProperties
  <2>2. DOMAIN (q \o w) = 1 .. Len(q \o w)
    BY <2>1
  <2> QED
    BY <2>1, <2>2
<1>2. \A i \in 1 .. Len(q) + 2 : (q \o w)[i] = IF i <= Len(q) THEN q[i] ELSE w[i - Len(q)]
  BY <1>1
<1> QED
  BY <1>1, <1>2

-----------------------------------------------------------------------------
(* Typing.                                                                 *)

\* Clans, sessions and writes know no id that is still to be given.
IdsGiven ==
  /\ \A c \in DOMAIN clans : c < autoIncrement
  /\ \A a \in Accounts : Online(a) => session[a].clan < autoIncrement
  /\ \A a \in Accounts : \A i \in DOMAIN queue[a] :
       queue[a][i].kind = "total" => queue[a][i].clan < autoIncrement

\* The inductive invariant.
IInv == TypeOK /\ ClansCoherent /\ IdsGiven

SessionType == [clan : 0 .. MaxClans, contribution : 0 .. MaxContribution]

LEMMA MembersAreFew ==
  ASSUME TypeOK, NEW T, NEW c \in DOMAIN clans, T \subseteq Members(c)
  PROVE  IsFiniteSet(T) /\ Cardinality(T) <= MaxMembers
<1>1. IsFiniteSet(Members(c))
  BY AccountsAssumption, FS_Subset DEF Members
<1>2. Cardinality(T) <= Cardinality(Members(c)) /\ IsFiniteSet(T)
  BY <1>1, FS_Subset
<1>3. Cardinality(T) \in Nat /\ Cardinality(Members(c)) \in Nat
  BY <1>1, <1>2, FS_CardinalityType
<1> QED
  BY <1>2, <1>3, BoundsAssumption DEF TypeOK

\* What leaves the clans in place and nobody in a clan that was not there.
LEMMA FewerMembers ==
  ASSUME TypeOK, \A c \in DOMAIN clans' : c \in DOMAIN clans /\ Members(c)' \subseteq Members(c)
  PROVE  \A c \in DOMAIN clans' : Cardinality(Members(c)') <= MaxMembers
BY MembersAreFew

LEMMA ResetTyped ==
  ASSUME TypeOK, NEW A \in SUBSET Accounts, Reset(A)
  PROVE  /\ clanOf' \in [Accounts -> 0 .. MaxClans]
         /\ contribution' \in [Accounts -> 0 .. MaxContribution]
         /\ foreign' \subseteq Accounts
         /\ \A c \in ClanIds : Members(c)' \subseteq Members(c)
BY BoundsAssumption DEF Reset, TypeOK, Members, ClanIds

LEMMA WritesTyped ==
  ASSUME TypeOK, NEW a \in Accounts, queue[a] # <<>>
  PROVE  /\ Head(queue[a]) \in Writes
         /\ [queue EXCEPT ![a] = Tail(@)] \in [Accounts -> Seq(Writes)]
<1>1. queue[a] \in Seq(Writes)
  BY DEF TypeOK
<1>2. Head(queue[a]) \in Writes /\ Tail(queue[a]) \in Seq(Writes)
  BY <1>1
<1> QED
  BY <1>2 DEF TypeOK

LEMMA PersistTyped ==
  ASSUME TypeOK, NEW a \in Accounts, Persist(a)
  PROVE  TypeOK'
<1> DEFINE w == Head(queue[a])
<1>1. w \in Writes /\ queue' \in [Accounts -> Seq(Writes)]
  BY WritesTyped DEF Persist
<1>2. clans' = ClansAfter(clans, w) /\ contribution' = [contribution EXCEPT ![a] = ContributionAfter(@, w)]
  BY DEF Persist
<1> HIDE DEF w
<1>3. /\ DOMAIN clans' = DOMAIN clans
      /\ \A c \in DOMAIN clans : clans'[c] \in [leader : Accounts, total : Nat]
  <2>1. CASE w.kind = "total" /\ w.clan \in DOMAIN clans
    <3>1. w.gain \in Nat
      BY <1>1, <2>1 DEF Writes
    <3>2. clans' = [clans EXCEPT ![w.clan].total = clans[w.clan].total + w.gain]
      BY <1>2, <2>1 DEF ClansAfter
    <3>3. clans[w.clan] \in [leader : Accounts, total : Nat]
      BY <2>1 DEF TypeOK
    <3>4. [clans[w.clan] EXCEPT !.total = clans[w.clan].total + w.gain]
            \in [leader : Accounts, total : Nat]
      BY <3>1, <3>3
    <3> QED
      BY <2>1, <3>2, <3>4 DEF TypeOK
  <2>2. CASE ~(w.kind = "total" /\ w.clan \in DOMAIN clans)
    BY <1>2, <2>2 DEF ClansAfter, TypeOK
  <2> QED
    BY <2>1, <2>2
<1>4. contribution' \in [Accounts -> 0 .. MaxContribution]
  BY <1>1, <1>2 DEF ContributionAfter, Writes, TypeOK
<1>5. UNCHANGED <<clanOf, autoIncrement, requests, session, foreign>>
  BY DEF Persist
<1>6. \A c \in DOMAIN clans' : Cardinality(Members(c)') <= MaxMembers
  BY <1>3, <1>5 DEF TypeOK, Members
<1> QED
  BY <1>1, <1>3, <1>4, <1>5, <1>6 DEF TypeOK

LEMMA StoreMatchStatsTyped ==
  ASSUME TypeOK, NEW a \in Accounts, StoreMatchStats(a)
  PROVE  TypeOK'
<1>1. /\ session[a] \in SessionType /\ session[a].contribution < MaxContribution
      /\ queue[a] \in Seq(Writes)
  BY DEF StoreMatchStats, Online, TypeOK, SessionType
<1>2. session[a].contribution + 1 \in 0 .. MaxContribution /\ session[a].clan \in 0 .. MaxClans
  BY <1>1, BoundsAssumption DEF SessionType
<1>3. MatchWrites(session[a].clan, 1, session[a].contribution + 1) \in Seq(Writes)
  BY <1>2 DEF MatchWrites, Writes
<1>4. queue[a] \o MatchWrites(session[a].clan, 1, session[a].contribution + 1) \in Seq(Writes)
  BY <1>1, <1>3
<1>5. queue' = [queue EXCEPT ![a] =
                  queue[a] \o MatchWrites(session[a].clan, 1, session[a].contribution + 1)]
  BY DEF StoreMatchStats
<1>6. queue' \in [Accounts -> Seq(Writes)]
  BY <1>4, <1>5 DEF TypeOK
<1>7. session' \in [Accounts -> {Offline} \cup SessionType]
  <2>1. [session[a] EXCEPT !.contribution = session[a].contribution + 1] \in SessionType
    BY <1>1, <1>2 DEF SessionType
  <2>2. session' = [session EXCEPT ![a].contribution = session[a].contribution + 1]
    BY DEF StoreMatchStats
  <2> QED
    BY <2>1, <2>2 DEF TypeOK, SessionType
<1>8. foreign' \subseteq Accounts
  BY DEF StoreMatchStats, TypeOK
<1>9. \A c \in DOMAIN clans' : Cardinality(Members(c)') <= MaxMembers
  BY DEF TypeOK, Members, StoreMatchStats
<1> QED
  BY <1>6, <1>7, <1>8, <1>9 DEF StoreMatchStats, TypeOK, SessionType

LEMMA RestartTyped ==
  ASSUME TypeOK, Restart
  PROVE  /\ TypeOK'
         /\ \A c \in DOMAIN clans : c < autoIncrement'
         /\ 0 < autoIncrement'
<1> DEFINE T == DOMAIN clans \cup {0}
<1>1. T \in SUBSET Nat /\ T # {} /\ MaxClans \in Nat /\ \A n \in T : n <= MaxClans
  BY BoundsAssumption DEF TypeOK, ClanIds
<1>2. Max(T) \in T /\ \A n \in T : n <= Max(T)
  <2> HIDE DEF T
  <2> QED
    BY <1>1, GreatestNatural
<1>3. autoIncrement' = Max(T) + 1
  BY DEF Restart
<1>0. DOMAIN clans \subseteq T
  OBVIOUS
<1> DEFINE top == Max(T)
<1> HIDE DEF T, top
<1>9. top \in Nat /\ top <= MaxClans /\ MaxClans \in Nat
  BY <1>1, <1>2 DEF top
<1>4. autoIncrement' \in 1 .. MaxClans + 1
  BY <1>3, <1>9 DEF top
<1>5. session' \in [Accounts -> {Offline} \cup SessionType] /\ queue' \in [Accounts -> Seq(Writes)]
  BY DEF Restart
<1>6. \A c \in DOMAIN clans' : Cardinality(Members(c)') <= MaxMembers
  BY DEF TypeOK, Members, Restart
<1>7. TypeOK'
  BY <1>4, <1>5, <1>6 DEF Restart, TypeOK, SessionType
<1>8. \A c \in DOMAIN clans : c < autoIncrement'
  <2>1. \A c \in DOMAIN clans : c \in Nat /\ c <= top
    BY <1>0, <1>1, <1>2 DEF top
  <2> QED
    BY <1>3, <1>9, <2>1 DEF top
<1> QED
  BY <1>4, <1>7, <1>8, BoundsAssumption

LEMMA CreateClanTyped ==
  ASSUME IInv, NEW a \in Accounts, CreateClan(a)
  PROVE  TypeOK'
<1> DEFINE n == autoIncrement
<1>0. TypeOK /\ n \notin DOMAIN clans /\ \A b \in Accounts : clanOf[b] # n
  <2>1. n \notin DOMAIN clans /\ n # 0
    BY DEF IInv, IdsGiven, TypeOK, ClanIds
  <2> QED
    BY <2>1 DEF IInv, ClansCoherent
<1>1. n \in 1 .. MaxClans /\ n \in 0 .. MaxClans /\ n + 1 \in 1 .. MaxClans + 1
  BY <1>0, BoundsAssumption DEF CreateClan, ClanIds, TypeOK
<1>2. /\ clans' = [c \in DOMAIN clans \cup {n} |-> IF c = n THEN [leader |-> a, total |-> 0] ELSE clans[c]]
      /\ clanOf' = [clanOf EXCEPT ![a] = n] /\ autoIncrement' = n + 1
      /\ UNCHANGED <<contribution, requests, foreign, session, queue>>
  BY DEF CreateClan, SessionsKept
<1> HIDE DEF n
<1>3. DOMAIN clans' = DOMAIN clans \cup {n}
  BY <1>2
<1>4. \A c \in DOMAIN clans' : clans'[c] \in [leader : Accounts, total : Nat]
  BY <1>0, <1>2 DEF TypeOK
<1>5. clanOf' \in [Accounts -> 0 .. MaxClans]
  BY <1>0, <1>1, <1>2 DEF TypeOK
<1>6. ASSUME NEW c \in DOMAIN clans'
      PROVE  Cardinality(Members(c)') <= MaxMembers
  <2>1. CASE c = n
    <3>1. Members(c)' = {a}
      BY <1>0, <1>2, <2>1 DEF Members, TypeOK
    <3>2. Cardinality({a}) = 1
      BY FS_Singleton
    <3> QED
      BY <3>1, <3>2, BoundsAssumption
  <2>2. CASE c # n
    <3>1. Members(c)' \subseteq Members(c) /\ c \in DOMAIN clans
      BY <1>0, <1>2, <1>3, <2>2 DEF Members, TypeOK
    <3> QED
      BY <1>0, <3>1, MembersAreFew
  <2> QED
    BY <2>1, <2>2
<1> QED
  BY <1>0, <1>1, <1>2, <1>3, <1>4, <1>5, <1>6 DEF TypeOK, ClanIds

LEMMA AcceptTyped ==
  ASSUME IInv, NEW o \in Accounts, NEW a \in Accounts, Accept(o, a)
  PROVE  TypeOK'
<1>1. /\ TypeOK /\ clanOf[o] \in DOMAIN clans /\ clanOf[a] = 0 /\ clanOf[o] # 0
      /\ Cardinality(Members(clanOf[o])) < MaxMembers
      /\ clanOf' = [clanOf EXCEPT ![a] = clanOf[o]]
      /\ requests' \subseteq requests
      /\ UNCHANGED <<contribution, clans, autoIncrement, foreign, session, queue>>
  BY DEF Accept, IsLeader, HasRoomFor, SessionsKept, IInv, TypeOK, ClanIds
<1>2. ASSUME NEW c \in DOMAIN clans
      PROVE  Cardinality(Members(c)') <= MaxMembers
  <2>1. CASE c = clanOf[o]
    <3>1. Members(c)' = Members(c) \cup {a} /\ a \notin Members(c)
      BY <1>1, <2>1 DEF Members, TypeOK
    <3>2. IsFiniteSet(Members(c))
      BY <1>1, MembersAreFew
    <3>3. Cardinality(Members(c)') = Cardinality(Members(c)) + 1
      BY <3>1, <3>2, FS_AddElement
    <3>4. Cardinality(Members(c)) \in Nat
      BY <3>2, FS_CardinalityType
    <3> QED
      BY <1>1, <2>1, <3>3, <3>4, BoundsAssumption
  <2>2. CASE c # clanOf[o]
    <3>1. Members(c)' \subseteq Members(c)
      BY <1>1, <2>2 DEF Members, TypeOK
    <3> QED
      BY <1>1, <3>1, MembersAreFew
  <2> QED
    BY <2>1, <2>2
<1> QED
  BY <1>1, <1>2 DEF TypeOK

\* Kick, Leave and Disband.
LEMMA ResetStepTyped ==
  ASSUME TypeOK, NEW A \in SUBSET Accounts, Reset(A),
         DOMAIN clans' \subseteq DOMAIN clans, \A c \in DOMAIN clans' : clans'[c] = clans[c],
         requests' \subseteq requests, UNCHANGED <<autoIncrement, session, queue>>
  PROVE  TypeOK'
<1>1. \A c \in DOMAIN clans' : Cardinality(Members(c)') <= MaxMembers
  BY ResetTyped, FewerMembers DEF TypeOK
<1> QED
  BY <1>1, ResetTyped DEF TypeOK

\* The commands that leave everybody in their clan.
LEMMA OthersTyped ==
  ASSUME TypeOK, UNCHANGED <<clanOf, contribution, autoIncrement, queue, foreign>>,
         DOMAIN clans' = DOMAIN clans,
         \A c \in DOMAIN clans : clans'[c] \in [leader : Accounts, total : Nat],
         requests' \subseteq Accounts \X ClanIds,
         session' \in [Accounts -> {Offline} \cup SessionType]
  PROVE  TypeOK'
<1>1. \A c \in DOMAIN clans' : Cardinality(Members(c)') <= MaxMembers
  BY DEF TypeOK, Members
<1> QED
  BY <1>1 DEF TypeOK, SessionType

LEMMA TypeStep ==
  ASSUME IInv, [Next]_vars
  PROVE  TypeOK'
<1>0. TypeOK
  BY DEF IInv
<1>1. ASSUME NEW a \in Accounts, NEW c \in ClanIds, Enlist(a, c)
      PROVE  TypeOK'
  <2>1. requests' = requests \cup {<<a, c>>}
        /\ UNCHANGED <<clanOf, contribution, clans, autoIncrement, foreign, session, queue>>
    BY <1>1 DEF Enlist, SessionsKept
  <2>2. requests' \subseteq Accounts \X ClanIds
    BY <1>0, <2>1 DEF TypeOK
  <2> QED
    BY <1>0, <2>1, <2>2, OthersTyped DEF TypeOK, SessionType
<1>2. ASSUME NEW o \in Accounts, NEW a \in Accounts, Deny(o, a)
      PROVE  TypeOK'
  BY <1>0, <1>2, OthersTyped DEF Deny, SessionsKept, TypeOK, SessionType
<1>3. ASSUME NEW o \in Accounts, NEW a \in Accounts, Transfer(o, a)
      PROVE  TypeOK'
  <2>1. clanOf[o] \in DOMAIN clans /\ clans' = [clans EXCEPT ![clanOf[o]].leader = a]
    BY <1>3 DEF Transfer, IsLeader
  <2>2. \A c \in DOMAIN clans : clans'[c] \in [leader : Accounts, total : Nat]
    BY <1>0, <2>1 DEF TypeOK
  <2> QED
    BY <1>0, <1>3, <2>1, <2>2, OthersTyped DEF Transfer, SessionsKept, TypeOK, SessionType
<1>4. ASSUME NEW o \in Accounts, NEW a \in Accounts, Kick(o, a)
      PROVE  TypeOK'
  BY <1>0, <1>4, ResetStepTyped DEF Kick, SessionsKept
<1>5. ASSUME NEW a \in Accounts, Leave(a)
      PROVE  TypeOK'
  BY <1>0, <1>5, ResetStepTyped DEF Leave, SessionsKept
<1>6. ASSUME NEW o \in Accounts, Disband(o)
      PROVE  TypeOK'
  BY <1>0, <1>6, ResetStepTyped DEF Disband, SessionsKept, Members, RequestsWithout
<1>7. ASSUME NEW a \in Accounts, Login(a)
      PROVE  TypeOK'
  <2>1. session' \in [Accounts -> {Offline} \cup SessionType]
    BY <1>0, <1>7 DEF Login, TypeOK, SessionType
  <2> QED
    BY <1>0, <1>7, <2>1, OthersTyped DEF Login, TypeOK
<1>8. ASSUME NEW a \in Accounts, Logout(a)
      PROVE  TypeOK'
  <2>1. session' \in [Accounts -> {Offline} \cup SessionType]
    BY <1>0, <1>8 DEF Logout, TypeOK, SessionType
  <2> QED
    BY <1>0, <1>8, <2>1, OthersTyped DEF Logout, TypeOK
<1>9. CASE UNCHANGED vars
  BY <1>0, <1>9, OthersTyped DEF vars, TypeOK, SessionType
<1> QED
  BY <1>0, <1>1, <1>2, <1>3, <1>4, <1>5, <1>6, <1>7, <1>8, <1>9, RestartTyped, CreateClanTyped,
     AcceptTyped, StoreMatchStatsTyped, PersistTyped DEF Next

-----------------------------------------------------------------------------
(* Who is in a clan, and which ids are known.                              *)

LEMMA CoherentStep ==
  ASSUME IInv, [Next]_vars
  PROVE  ClansCoherent' /\ IdsGiven'
<1>0. TypeOK /\ ClansCoherent /\ IdsGiven /\ autoIncrement \in Nat /\ 0 < autoIncrement
  BY BoundsAssumption DEF IInv, TypeOK
<1> USE DEF Online
<1>1. ASSUME NEW a \in Accounts, CreateClan(a)
      PROVE  ClansCoherent' /\ IdsGiven'
  <2>1. /\ DOMAIN clans' = DOMAIN clans \cup {autoIncrement}
        /\ \A c \in DOMAIN clans : c # autoIncrement => clans'[c] = clans[c]
        /\ clans'[autoIncrement].leader = a
        /\ clanOf' = [clanOf EXCEPT ![a] = autoIncrement] /\ clanOf[a] = 0
        /\ autoIncrement' = autoIncrement + 1
        /\ UNCHANGED <<requests, session, queue>>
    BY <1>1 DEF CreateClan, SessionsKept, MayFound
  <2>2. \A c \in DOMAIN clans : c \in Nat /\ c < autoIncrement /\ c # 0
    BY <1>0 DEF IdsGiven, TypeOK, ClanIds
  <2>3. ClansCoherent'
    <3>1. \A c \in DOMAIN clans' : clanOf'[clans'[c].leader] = c
      BY <1>0, <2>1, <2>2 DEF ClansCoherent, TypeOK
    <3>2. \A b \in Accounts : clanOf'[b] # 0 => clanOf'[b] \in DOMAIN clans'
      BY <1>0, <2>1 DEF ClansCoherent, TypeOK
    <3> QED
      BY <1>0, <2>1, <3>1, <3>2 DEF ClansCoherent
  <2>4. IdsGiven'
    <3>1. \A b \in Accounts : Online(b) => session[b].clan \in Nat
      BY <1>0 DEF TypeOK
    <3>2. \A b \in Accounts : \A i \in DOMAIN queue[b] :
             queue[b][i].kind = "total" => queue[b][i].clan \in Nat
      <4>1. \A b \in Accounts : \A i \in DOMAIN queue[b] : queue[b][i] \in Writes
        BY <1>0 DEF TypeOK
      <4> QED
        BY <4>1 DEF Writes
    <3> QED
      BY <1>0, <2>1, <2>2, <3>1, <3>2 DEF IdsGiven
  <2> QED
    BY <2>3, <2>4
<1>2. ASSUME NEW a \in Accounts, NEW c \in ClanIds, Enlist(a, c)
      PROVE  ClansCoherent' /\ IdsGiven'
  BY <1>0, <1>2 DEF Enlist, SessionsKept, ClansCoherent, IdsGiven
<1>3. ASSUME NEW o \in Accounts, NEW a \in Accounts, Accept(o, a)
      PROVE  ClansCoherent' /\ IdsGiven'
  <2>1. /\ clanOf[a] = 0 /\ clanOf[o] \in DOMAIN clans /\ clanOf' = [clanOf EXCEPT ![a] = clanOf[o]]
        /\ requests' \subseteq requests /\ UNCHANGED <<clans, autoIncrement, session, queue>>
    BY <1>3 DEF Accept, IsLeader, SessionsKept
  <2>2. \A c \in DOMAIN clans : clans[c].leader # a
    BY <1>0, <2>1 DEF ClansCoherent, TypeOK, ClanIds
  <2>3. ClansCoherent'
    BY <1>0, <2>1, <2>2 DEF ClansCoherent, TypeOK
  <2> QED
    BY <1>0, <2>1, <2>3 DEF IdsGiven
<1>4. ASSUME NEW o \in Accounts, NEW a \in Accounts, Deny(o, a)
      PROVE  ClansCoherent' /\ IdsGiven'
  BY <1>0, <1>4 DEF Deny, SessionsKept, ClansCoherent, IdsGiven
<1>5. ASSUME NEW a \in Accounts, Reset({a}), ~IsLeader(a),
             requests' \subseteq requests, UNCHANGED <<clans, autoIncrement, session, queue>>
      PROVE  ClansCoherent' /\ IdsGiven'
  <2>1. \A c \in DOMAIN clans : clans[c].leader # a
    BY <1>0, <1>5 DEF ClansCoherent, IsLeader
  <2>2. ClansCoherent'
    BY <1>0, <1>5, <2>1 DEF Reset, ClansCoherent, TypeOK
  <2> QED
    BY <1>0, <1>5, <2>2 DEF IdsGiven
<1>6. ASSUME NEW o \in Accounts, NEW a \in Accounts, Kick(o, a)
      PROVE  ClansCoherent' /\ IdsGiven'
  <2>1. ~IsLeader(a)
    BY <1>6 DEF Kick, IsLeader
  <2> QED
    BY <1>5, <1>6, <2>1 DEF Kick, SessionsKept
<1>7. ASSUME NEW a \in Accounts, Leave(a)
      PROVE  ClansCoherent' /\ IdsGiven'
  BY <1>5, <1>7 DEF Leave, SessionsKept
<1>8. ASSUME NEW o \in Accounts, Disband(o)
      PROVE  ClansCoherent' /\ IdsGiven'
  <2>1. /\ DOMAIN clans' = DOMAIN clans \ {clanOf[o]} /\ \A c \in DOMAIN clans' : clans'[c] = clans[c]
        /\ clanOf' = [a \in Accounts |-> IF clanOf[a] = clanOf[o] THEN 0 ELSE clanOf[a]]
        /\ requests' = {q \in requests : q[2] # clanOf[o]}
        /\ UNCHANGED <<autoIncrement, session, queue>>
    BY <1>8 DEF Disband, Reset, Members, RequestsWithout, SessionsKept
  <2>2. ClansCoherent'
    BY <1>0, <2>1 DEF ClansCoherent, TypeOK
  <2> QED
    BY <1>0, <2>1, <2>2 DEF IdsGiven
<1>9. ASSUME NEW o \in Accounts, NEW a \in Accounts, Transfer(o, a)
      PROVE  ClansCoherent' /\ IdsGiven'
  <2>1. /\ clanOf[o] \in DOMAIN clans /\ clanOf[a] = clanOf[o]
        /\ clans' = [clans EXCEPT ![clanOf[o]].leader = a]
        /\ UNCHANGED <<clanOf, autoIncrement, requests, session, queue>>
    BY <1>9 DEF Transfer, IsLeader, SessionsKept
  <2>2. \A c \in DOMAIN clans : clans'[c].leader = IF c = clanOf[o] THEN a ELSE clans[c].leader
    BY <1>0, <2>1 DEF TypeOK
  <2> QED
    BY <1>0, <2>1, <2>2 DEF ClansCoherent, IdsGiven
<1>10. ASSUME NEW a \in Accounts, StoreMatchStats(a)
       PROVE  ClansCoherent' /\ IdsGiven'
  <2> DEFINE s == session[a]
  <2>1. /\ Online(a) /\ session' = [session EXCEPT ![a].contribution = @ + 1]
        /\ queue' = [queue EXCEPT ![a] = @ \o MatchWrites(s.clan, 1, s.contribution + 1)]
        /\ UNCHANGED <<clanOf, clans, autoIncrement, requests>>
    BY <1>10 DEF StoreMatchStats
  <2>2. s \in SessionType /\ s.clan < autoIncrement /\ queue[a] \in Seq(Writes)
    BY <1>0, <2>1 DEF TypeOK, SessionType, IdsGiven
  <2>3. session'[a].clan = s.clan /\ \A b \in Accounts \ {a} : session'[b] = session[b]
    BY <1>0, <2>1, <2>2 DEF TypeOK, SessionType
  <2> DEFINE w == MatchWrites(s.clan, 1, s.contribution + 1)
  <2>4. /\ Len(w) = 2 /\ w[1].clan = s.clan /\ w[2].kind = "stats" /\ w[1].kind = "total"
    BY DEF MatchWrites
  <2>5. queue'[a] = queue[a] \o w /\ \A b \in Accounts \ {a} : queue'[b] = queue[b]
    BY <1>0, <2>1 DEF TypeOK
  <2>6. w \in Seq(Writes)
    <3>1. s.clan \in 0 .. MaxClans /\ s.contribution + 1 \in 0 .. MaxContribution
      BY <1>10, <2>2, BoundsAssumption DEF SessionType, StoreMatchStats
    <3> HIDE DEF s
    <3> QED
      BY <3>1 DEF MatchWrites, Writes
  <2> HIDE DEF s, w
  <2>7. \A i \in DOMAIN queue'[a] :
           \/ i \in DOMAIN queue[a] /\ queue'[a][i] = queue[a][i]
           \/ queue'[a][i] = w[1]
           \/ queue'[a][i] = w[2]
    <3>1. \A i \in DOMAIN (queue[a] \o w) :
             \/ i \in DOMAIN queue[a] /\ (queue[a] \o w)[i] = queue[a][i]
             \/ (queue[a] \o w)[i] = w[1]
             \/ (queue[a] \o w)[i] = w[2]
      BY <2>2, <2>4, <2>6, AppendedAt
    <3> QED
      BY <2>5, <3>1
  <2>8. \A i \in DOMAIN queue'[a] :
           queue'[a][i].kind = "total" => queue'[a][i].clan < autoIncrement
    BY <1>0, <2>2, <2>4, <2>7 DEF IdsGiven
  <2>9. IdsGiven'
    <3>1. \A c \in DOMAIN clans' : c < autoIncrement'
      BY <1>0, <2>1 DEF IdsGiven
    <3>2. \A b \in Accounts \ {a} : Online(b)' => session'[b].clan < autoIncrement'
      BY <1>0, <2>1, <2>3 DEF IdsGiven, Online
    <3>3. session'[a].clan < autoIncrement'
      BY <2>1, <2>2, <2>3
    <3>4. \A b \in Accounts \ {a} : \A i \in DOMAIN queue'[b] :
             queue'[b][i].kind = "total" => queue'[b][i].clan < autoIncrement'
      BY <1>0, <2>1, <2>5 DEF IdsGiven
    <3>5. \A i \in DOMAIN queue'[a] :
             queue'[a][i].kind = "total" => queue'[a][i].clan < autoIncrement'
      BY <2>1, <2>8
    <3> QED
      BY <3>1, <3>2, <3>3, <3>4, <3>5 DEF IdsGiven
  <2> QED
    BY <1>0, <2>1, <2>9 DEF ClansCoherent
<1>11. ASSUME NEW a \in Accounts, Persist(a)
       PROVE  ClansCoherent' /\ IdsGiven'
  <2> DEFINE w == Head(queue[a])
  <2>1. /\ queue[a] # <<>> /\ clans' = ClansAfter(clans, w)
        /\ queue' = [queue EXCEPT ![a] = Tail(@)]
        /\ UNCHANGED <<clanOf, autoIncrement, requests, session>>
    BY <1>11 DEF Persist
  <2> HIDE DEF w
  <2>2. DOMAIN clans' = DOMAIN clans /\ \A c \in DOMAIN clans : clans'[c].leader = clans[c].leader
    BY <1>0, <2>1 DEF ClansAfter, TypeOK
  <2>3. queue[a] \in Seq(Writes) /\ queue'[a] = Tail(queue[a])
        /\ \A b \in Accounts \ {a} : queue'[b] = queue[b]
    BY <1>0, <2>1 DEF TypeOK
  <2>4. \A i \in DOMAIN queue'[a] : i + 1 \in DOMAIN queue[a] /\ queue'[a][i] = queue[a][i + 1]
    <3>1. \A i \in DOMAIN Tail(queue[a]) :
             i + 1 \in DOMAIN queue[a] /\ Tail(queue[a])[i] = queue[a][i + 1]
      BY <2>1, <2>3, TailAt
    <3> QED
      BY <2>3, <3>1
  <2>5. IdsGiven'
    BY <1>0, <2>1, <2>2, <2>3, <2>4 DEF IdsGiven
  <2> QED
    BY <1>0, <2>1, <2>2, <2>5 DEF ClansCoherent
<1>12. ASSUME NEW a \in Accounts, Login(a)
       PROVE  ClansCoherent' /\ IdsGiven'
  <2>1. /\ session' = [session EXCEPT ![a] = [clan |-> clanOf[a], contribution |-> contribution[a]]]
        /\ UNCHANGED <<clanOf, clans, autoIncrement, requests, queue>>
    BY <1>12 DEF Login
  <2>2. clanOf[a] < autoIncrement
    BY <1>0 DEF ClansCoherent, IdsGiven
  <2> QED
    BY <1>0, <2>1, <2>2 DEF ClansCoherent, IdsGiven, TypeOK
<1>13. ASSUME NEW a \in Accounts, Logout(a)
       PROVE  ClansCoherent' /\ IdsGiven'
  BY <1>0, <1>13 DEF Logout, ClansCoherent, IdsGiven, TypeOK
<1>14. CASE Restart
  <2>1. /\ \A c \in DOMAIN clans : c < autoIncrement'
        /\ \A a \in Accounts : session'[a] = Offline /\ queue'[a] = <<>>
        /\ UNCHANGED <<clanOf, clans, requests>>
    BY <1>0, <1>14, RestartTyped DEF Restart
  <2> QED
    BY <1>0, <2>1 DEF ClansCoherent, IdsGiven
<1>15. CASE UNCHANGED vars
  BY <1>0, <1>15 DEF vars, ClansCoherent, IdsGiven
<1> QED
  BY <1>1, <1>2, <1>3, <1>4, <1>6, <1>7, <1>8, <1>9, <1>10, <1>11, <1>12, <1>13, <1>14, <1>15
  DEF Next

LEMMA InitCoherent == Init => IInv
<1> SUFFICES ASSUME Init
             PROVE  IInv
  OBVIOUS
<1>1. clans = <<>> /\ DOMAIN clans = {}
  BY DEF Init
<1>2. TypeOK
  BY <1>1, BoundsAssumption DEF Init, TypeOK, ClanIds
<1>3. ClansCoherent /\ IdsGiven
  BY <1>1 DEF Init, ClansCoherent, IdsGiven, Online
<1> QED
  BY <1>2, <1>3 DEF IInv

LEMMA Inductive == Spec => []IInv
<1>1. IInv /\ [Next]_vars => IInv'
  BY TypeStep, CoherentStep DEF IInv
<1> QED
  BY <1>1, InitCoherent, PTL DEF Spec

\* The rows, sessions and writes keep their types, and no clan has more members
\* than it may: the limit holds when a request is accepted, not only when it
\* is made.
THEOREM TypeCorrect == Spec => []TypeOK
<1>1. IInv => TypeOK
  BY DEF IInv
<1> QED
  BY <1>1, Inductive, PTL

\* Every clan is led by one of its members, and every clan id that an account
\* or a request has belongs to a clan, for any accounts and limits.
THEOREM CoherenceCorrect == Spec => []ClansCoherent
<1>1. IInv => ClansCoherent
  BY DEF IInv
<1> QED
  BY <1>1, Inductive, PTL

\* A clan starts with its founder alone, without requests or writes of an
\* earlier clan of the same id: ids come back only after a restart, and a
\* restart loses the writes that wait.
THEOREM FreshCorrect == Spec => FoundedAfresh
<1> DEFINE Afresh ==
      \A c \in DOMAIN clans' \ DOMAIN clans :
        /\ {a \in Accounts : clanOf'[a] = c} = {clans'[c].leader}
        /\ \A q \in requests' : q[2] # c
        /\ \A a \in Accounts : \A i \in DOMAIN queue[a] :
             queue[a][i].kind = "total" => queue[a][i].clan # c
<1>1. ASSUME IInv, [Next]_vars
      PROVE  [Afresh]_vars
  <2>1. ASSUME NEW a \in Accounts, CreateClan(a)
        PROVE  Afresh
    <3>1. TypeOK /\ ClansCoherent /\ IdsGiven /\ autoIncrement \in Nat /\ 0 < autoIncrement
      BY <1>1, BoundsAssumption DEF IInv, TypeOK
    <3>2. /\ DOMAIN clans' = DOMAIN clans \cup {autoIncrement}
          /\ clans'[autoIncrement].leader = a
          /\ clanOf' = [clanOf EXCEPT ![a] = autoIncrement]
          /\ UNCHANGED <<requests, queue>>
      BY <2>1 DEF CreateClan, SessionsKept
    <3>3. \A c \in DOMAIN clans : c # autoIncrement
      BY <3>1 DEF IdsGiven, TypeOK, ClanIds
    <3>4. {b \in Accounts : clanOf'[b] = autoIncrement} = {a}
      BY <3>1, <3>2, <3>3 DEF ClansCoherent, TypeOK
    <3>5. \A q \in requests' : q[2] # autoIncrement
      BY <3>1, <3>2, <3>3 DEF ClansCoherent
    <3>6. \A b \in Accounts : \A i \in DOMAIN queue[b] :
             queue[b][i].kind = "total" => queue[b][i].clan # autoIncrement
      <4>1. \A b \in Accounts : \A i \in DOMAIN queue[b] : queue[b][i] \in Writes
        BY <3>1 DEF TypeOK
      <4> QED
        BY <3>1, <4>1 DEF IdsGiven, Writes
    <3> QED
      BY <3>2, <3>4, <3>5, <3>6
  <2>2. CASE DOMAIN clans' \subseteq DOMAIN clans
    BY <2>2
  <2>3. \/ \E a \in Accounts : CreateClan(a)
        \/ DOMAIN clans' \subseteq DOMAIN clans
    BY <1>1 DEF Next, vars, Restart, Enlist, Leave, Disband, StoreMatchStats, Persist, Login, Logout,
                Accept, Deny, Kick, Transfer, ClansAfter
  <2> QED
    BY <2>1, <2>2, <2>3
<1>2. IInv /\ [Next]_vars => [Afresh]_vars
  BY <1>1
<1> QED
  BY <1>2, Inductive, PTL DEF Spec, FoundedAfresh

-----------------------------------------------------------------------------
(* Sums over finite sets: MapThenSumSet takes the members out one by one.   *)

Pick(s) == CHOOSE x \in s : TRUE
Total(f, S) == MapThenSumSet(LAMBDA a : f[a], S)

\* g has the sums over the sets of D, a set of sets.
SumsOver(f, D, g) ==
  /\ DOMAIN g = D
  /\ \A s \in D : g[s] = IF s = {} THEN 0 ELSE f[Pick(s)] + g[s \ {Pick(s)}]

LEMMA PickIsMember ==
  ASSUME NEW s, s # {}
  PROVE  Pick(s) \in s
BY DEF Pick

LEMMA OneLess ==
  ASSUME NEW s, IsFiniteSet(s), NEW x \in s
  PROVE  /\ IsFiniteSet(s \ {x}) /\ Cardinality(s) \in Nat /\ Cardinality(s \ {x}) \in Nat
         /\ Cardinality(s) = Cardinality(s \ {x}) + 1
<1>1. IsFiniteSet(s \ {x}) /\ Cardinality(s \ {x}) = Cardinality(s) - 1
  BY FS_RemoveElement
<1>2. Cardinality(s) \in Nat /\ Cardinality(s \ {x}) \in Nat
  BY <1>1, FS_CardinalityType
<1> QED
  BY <1>1, <1>2

\* A statement that some subset of a finite set refutes, a smallest one refutes.
LEMMA SmallestSubset ==
  ASSUME NEW S, IsFiniteSet(S), NEW B \in SUBSET SUBSET S, B # {}
  PROVE  \E s \in B : IsFiniteSet(s) /\ \A x \in s : s \ {x} \notin B
<1> DEFINE sizes == {Cardinality(s) : s \in B}
<1>1. \A s \in B : IsFiniteSet(s) /\ Cardinality(s) \in Nat
  BY FS_Subset, FS_CardinalityType
<1>2. PICK m \in sizes : \A n \in sizes : m <= n
  <2>1. sizes \in SUBSET Nat /\ sizes # {}
    BY <1>1
  <2> HIDE DEF sizes
  <2> QED
    BY <2>1, LeastNatural
<1>3. PICK s \in B : Cardinality(s) = m
  BY <1>2
<1>4. ASSUME NEW x \in s, s \ {x} \in B
      PROVE  FALSE
  <2>1. m <= Cardinality(s \ {x})
    BY <1>2, <1>4
  <2> QED
    BY <1>1, <1>3, <2>1, OneLess
<1> QED
  BY <1>1, <1>4

LEMMA SumsAreUnique ==
  ASSUME NEW S, IsFiniteSet(S), NEW f, NEW g, SumsOver(f, SUBSET S, g),
         NEW h, SumsOver(f, SUBSET S, h)
  PROVE  \A s \in SUBSET S : g[s] = h[s]
<1> DEFINE B == {s \in SUBSET S : g[s] # h[s]}
<1> SUFFICES ASSUME B # {}
             PROVE  FALSE
  OBVIOUS
<1>1. PICK s \in B : \A x \in s : s \ {x} \notin B
  <2>1. B \in SUBSET SUBSET S
    OBVIOUS
  <2> HIDE DEF B
  <2> QED
    BY <2>1, SmallestSubset
<1>2. CASE s = {}
  BY <1>2 DEF SumsOver
<1>3. CASE s # {}
  <2>1. Pick(s) \in s /\ s \ {Pick(s)} \in SUBSET S
    BY <1>3, PickIsMember
  <2>2. g[s \ {Pick(s)}] = h[s \ {Pick(s)}]
    BY <1>1, <2>1
  <2> QED
    BY <1>1, <1>3, <2>2 DEF SumsOver
<1> QED
  BY <1>2, <1>3

\* The sums exist, for sets of any finite size.
LEMMA SumsExist ==
  ASSUME NEW S, IsFiniteSet(S), NEW f
  PROVE  \E g : SumsOver(f, SUBSET S, g)
<1> DEFINE upTo(m) == {s \in SUBSET S : Cardinality(s) <= m}
           B == {m \in Nat : ~\E g : SumsOver(f, upTo(m), g)}
<1>1. \A s \in SUBSET S : /\ IsFiniteSet(s) /\ Cardinality(s) \in Nat
                          /\ Cardinality(s) <= Cardinality(S) /\ Cardinality(S) \in Nat
  BY FS_Subset, FS_CardinalityType
<1>2. upTo(Cardinality(S)) = SUBSET S /\ Cardinality(S) \in Nat
  BY <1>1
<1>3. SUFFICES ASSUME B # {}
               PROVE  FALSE
  BY <1>2
<1>4. PICK m \in B : \A n \in B : m <= n
  <2>1. B \in SUBSET Nat
    OBVIOUS
  <2> HIDE DEF B
  <2> QED
    BY <1>3, <2>1, LeastNatural
<1>5. CASE m = 0
  <2>1. \A s \in upTo(0) : s = {}
    BY <1>1, FS_EmptySet
  <2>2. PICK g : g = [s \in upTo(0) |-> 0]
    OBVIOUS
  <2>3. SumsOver(f, upTo(0), g)
    <3>1. DOMAIN g = upTo(0) /\ \A s \in upTo(0) : g[s] = 0
      BY <2>2
    <3> HIDE DEF upTo
    <3> QED
      BY <2>1, <3>1 DEF SumsOver
  <2> QED
    BY <1>4, <1>5, <2>3
<1>6. CASE m # 0
  <2>1. m - 1 \in Nat /\ m - 1 \notin B
    <3>1. m \in Nat /\ \A n \in B : m <= n
      BY <1>4
    <3> HIDE DEF B
    <3> QED
      BY <1>6, <3>1
  <2>2. PICK g : SumsOver(f, upTo(m - 1), g)
    BY <2>1
  <2>3. PICK h : h = [s \in upTo(m) |-> IF s = {} THEN 0 ELSE f[Pick(s)] + g[s \ {Pick(s)}]]
    OBVIOUS
  <2>4. ASSUME NEW s \in upTo(m), s # {}
        PROVE  s \ {Pick(s)} \in upTo(m - 1)
    <3>1. Pick(s) \in s
      BY <2>4, PickIsMember
    <3>2. Cardinality(s) = Cardinality(s \ {Pick(s)}) + 1 /\ Cardinality(s \ {Pick(s)}) \in Nat
      BY <1>1, <3>1, OneLess
    <3> QED
      BY <3>2
  <2>5. upTo(m - 1) \subseteq upTo(m)
    BY <1>1
  <2> HIDE DEF upTo
  <2>6. \A s \in upTo(m - 1) : h[s] = g[s]
    BY <2>2, <2>3, <2>5 DEF SumsOver
  <2>7. SumsOver(f, upTo(m), h)
    BY <2>3, <2>4, <2>6 DEF SumsOver
  <2> QED
    BY <1>4, <2>7
<1> QED
  BY <1>5, <1>6

LEMMA TotalIs ==
  ASSUME NEW S, IsFiniteSet(S), NEW f, NEW g, SumsOver(f, SUBSET S, g)
  PROVE  Total(f, S) = g[S]
<1> DEFINE Is(h) == h = [s \in SUBSET S |->
                           IF s = {} THEN 0
                           ELSE f[CHOOSE x \in s : TRUE] + h[s \ {CHOOSE x \in s : TRUE}]]
<1>1. PICK h : h = [s \in SUBSET S |-> g[s]]
  OBVIOUS
<1>2. Is(h)
  <2>1. \A s \in SUBSET S : g[s] = IF s = {} THEN 0 ELSE f[Pick(s)] + h[s \ {Pick(s)}]
    <3> TAKE s \in SUBSET S
    <3>1. s \ {Pick(s)} \in SUBSET S
      OBVIOUS
    <3> QED
      BY <1>1, <3>1 DEF SumsOver
  <2> QED
    BY <1>1, <2>1 DEF Pick
<1>3. PICK k : k = CHOOSE x : Is(x)
  OBVIOUS
<1>4. Is(k)
  <2> HIDE DEF Is
  <2> QED
    BY <1>2, <1>3
<1>5. Total(f, S) = k[S]
  BY <1>3 DEF Total, MapThenSumSet, MapThenFoldSet
<1>6. SumsOver(f, SUBSET S, k)
  <2>1. DOMAIN k = SUBSET S
    BY <1>4
  <2>2. \A s \in SUBSET S : k[s] = IF s = {} THEN 0 ELSE f[Pick(s)] + k[s \ {Pick(s)}]
    BY <1>4 DEF Pick
  <2> QED
    BY <2>1, <2>2 DEF SumsOver
<1> QED
  BY <1>5, <1>6, SumsAreUnique

LEMMA TotalOfNone ==
  ASSUME NEW f
  PROVE  Total(f, {}) = 0
<1>1. IsFiniteSet({})
  BY FS_EmptySet
<1>2. PICK g : SumsOver(f, SUBSET {}, g)
  BY <1>1, SumsExist
<1>3. Total(f, {}) = g[{}]
  BY <1>1, <1>2, TotalIs
<1> QED
  BY <1>2, <1>3 DEF SumsOver

\* The sums over the subsets of S, all at once.
LEMMA TotalsOver ==
  ASSUME NEW S, IsFiniteSet(S), NEW f
  PROVE  \E g : SumsOver(f, SUBSET S, g) /\ \A s \in SUBSET S : Total(f, s) = g[s]
<1>1. PICK g : SumsOver(f, SUBSET S, g)
  BY SumsExist
<1>2. ASSUME NEW s \in SUBSET S
      PROVE  Total(f, s) = g[s]
  <2>1. IsFiniteSet(s)
    BY FS_Subset
  <2>2. PICK h : h = [t \in SUBSET s |-> g[t]]
    OBVIOUS
  <2>3. SumsOver(f, SUBSET s, h)
    <3>1. ASSUME NEW t \in SUBSET s
          PROVE  h[t] = IF t = {} THEN 0 ELSE f[Pick(t)] + h[t \ {Pick(t)}]
      <4>1. t \in SUBSET S /\ t \ {Pick(t)} \in SUBSET s
        OBVIOUS
      <4> QED
        BY <1>1, <2>2, <4>1 DEF SumsOver
    <3> QED
      BY <2>2, <3>1 DEF SumsOver
  <2> QED
    BY <2>1, <2>2, <2>3, TotalIs
<1> QED
  BY <1>1, <1>2

\* The member that is taken out first.
LEMMA TotalPicks ==
  ASSUME NEW S, IsFiniteSet(S), S # {}, NEW f
  PROVE  Total(f, S) = f[Pick(S)] + Total(f, S \ {Pick(S)})
<1>1. PICK g : SumsOver(f, SUBSET S, g) /\ \A s \in SUBSET S : Total(f, s) = g[s]
  BY TotalsOver
<1>2. S \in SUBSET S /\ S \ {Pick(S)} \in SUBSET S
  OBVIOUS
<1>3. g[S] = f[Pick(S)] + g[S \ {Pick(S)}]
  BY <1>1, <1>2 DEF SumsOver
<1> QED
  BY <1>1, <1>2, <1>3

LEMMA TotalIsNatural ==
  ASSUME NEW S, IsFiniteSet(S), NEW f, \A x \in S : f[x] \in Nat
  PROVE  Total(f, S) \in Nat
<1> DEFINE B == {s \in SUBSET S : Total(f, s) \notin Nat}
<1> SUFFICES ASSUME B # {}
             PROVE  FALSE
  OBVIOUS
<1>1. PICK s \in B : IsFiniteSet(s) /\ \A x \in s : s \ {x} \notin B
  <2>1. B \in SUBSET SUBSET S
    OBVIOUS
  <2> HIDE DEF B
  <2> QED
    BY <2>1, SmallestSubset
<1>2. CASE s = {}
  BY <1>1, <1>2, TotalOfNone
<1>3. CASE s # {}
  <2>1. Pick(s) \in s /\ f[Pick(s)] \in Nat
    BY <1>3, PickIsMember
  <2>2. Total(f, s \ {Pick(s)}) \in Nat
    BY <1>1, <2>1
  <2>3. Total(f, s) = f[Pick(s)] + Total(f, s \ {Pick(s)})
    BY <1>1, <1>3, TotalPicks
  <2>4. Total(f, s) \in Nat
    BY <2>1, <2>2, <2>3
  <2> QED
    BY <1>1, <2>4
<1> QED
  BY <1>2, <1>3

\* Any member may be taken out first.
LEMMA TotalSplits ==
  ASSUME NEW S, IsFiniteSet(S), NEW f, \A y \in S : f[y] \in Nat, NEW x \in S
  PROVE  Total(f, S) = f[x] + Total(f, S \ {x})
<1> DEFINE B == {s \in SUBSET S : \E z \in s : Total(f, s) # f[z] + Total(f, s \ {z})}
<1> SUFFICES ASSUME B # {}
             PROVE  FALSE
  OBVIOUS
<1>1. PICK s \in B : IsFiniteSet(s) /\ \A y \in s : s \ {y} \notin B
  <2>1. B \in SUBSET SUBSET S
    OBVIOUS
  <2> HIDE DEF B
  <2> QED
    BY <2>1, SmallestSubset
<1>2. PICK z \in s : Total(f, s) # f[z] + Total(f, s \ {z})
  BY <1>1
<1> DEFINE p == Pick(s)
<1>3. p \in s /\ Total(f, s) = f[p] + Total(f, s \ {p})
  BY <1>1, <1>2, PickIsMember, TotalPicks
<1> HIDE DEF p
<1>4. z # p
  BY <1>2, <1>3
<1>5. Total(f, s \ {p}) = f[z] + Total(f, (s \ {p}) \ {z})
  BY <1>1, <1>3, <1>4
<1>6. Total(f, s \ {z}) = f[p] + Total(f, (s \ {z}) \ {p})
  BY <1>1, <1>2, <1>3, <1>4
<1>7. (s \ {p}) \ {z} = (s \ {z}) \ {p}
  OBVIOUS
<1>8. Total(f, (s \ {z}) \ {p}) \in Nat /\ f[p] \in Nat /\ f[z] \in Nat
  <2>1. IsFiniteSet((s \ {z}) \ {p})
    BY <1>1, FS_Subset
  <2> QED
    BY <1>1, <1>3, <2>1, TotalIsNatural
<1> QED
  BY <1>2, <1>3, <1>5, <1>6, <1>7, <1>8

\* A sum over fewer members of what is no greater is no greater.
LEMMA TotalGrows ==
  ASSUME NEW S, IsFiniteSet(S), NEW T \in SUBSET S, NEW f, NEW g,
         \A x \in S : g[x] \in Nat,
         \A x \in T : f[x] \in Nat /\ f[x] <= g[x]
  PROVE  Total(f, T) <= Total(g, S)
<1> DEFINE B == {s \in SUBSET S : ~(Total(f, s \cap T) <= Total(g, s))}
<1> SUFFICES ASSUME B # {}
             PROVE  FALSE
  <2>1. S \in SUBSET S /\ S \cap T = T
    OBVIOUS
  <2> QED
    BY <2>1
<1>1. PICK s \in B : IsFiniteSet(s) /\ \A x \in s : s \ {x} \notin B
  <2>1. B \in SUBSET SUBSET S
    OBVIOUS
  <2> HIDE DEF B
  <2> QED
    BY <2>1, SmallestSubset
<1>2. s # {}
  <2> SUFFICES ASSUME s = {}
               PROVE  FALSE
    OBVIOUS
  <2>1. Total(f, s \cap T) = 0 /\ Total(g, s) = 0
    <3>1. s \cap T = {}
      OBVIOUS
    <3>2. Total(f, {}) = 0 /\ Total(g, {}) = 0
      BY TotalOfNone
    <3> QED
      BY <3>1, <3>2
  <2> QED
    BY <1>1, <2>1
<1>3. PICK x \in s : TRUE
  BY <1>2
<1> DEFINE r == s \ {x}
<1>4. Total(f, r \cap T) <= Total(g, r)
  BY <1>1
<1>5. Total(g, s) = g[x] + Total(g, r)
  BY <1>1, TotalSplits
<1>6. IsFiniteSet(r) /\ IsFiniteSet(r \cap T) /\ IsFiniteSet(s \cap T)
  BY <1>1, FS_Subset
<1>7. Total(g, r) \in Nat /\ Total(f, r \cap T) \in Nat /\ g[x] \in Nat
  BY <1>1, <1>6, TotalIsNatural
<1>8. CASE x \in T
  <2>1. Total(f, s \cap T) = f[x] + Total(f, r \cap T)
    <3>1. Total(f, s \cap T) = f[x] + Total(f, (s \cap T) \ {x})
      BY <1>6, <1>8, TotalSplits
    <3>2. (s \cap T) \ {x} = r \cap T
      OBVIOUS
    <3> QED
      BY <3>1, <3>2
  <2>3. f[x] \in Nat /\ f[x] <= g[x]
    BY <1>8
  <2>4. ~(Total(f, s \cap T) <= Total(g, s))
    BY <1>1
  <2> HIDE DEF r
  <2> QED
    BY <1>4, <1>5, <1>7, <2>1, <2>3, <2>4
<1>9. CASE x \notin T
  <2>1. s \cap T = r \cap T
    BY <1>9
  <2>4. ~(Total(f, s \cap T) <= Total(g, s))
    BY <1>1
  <2> HIDE DEF r
  <2> QED
    BY <1>4, <1>5, <1>7, <2>1, <2>4
<1> QED
  BY <1>8, <1>9

LEMMA TotalOneMore ==
  ASSUME NEW S, IsFiniteSet(S), NEW a \in S, NEW f, NEW g,
         \A x \in S : f[x] \in Nat /\ g[x] \in Nat,
         \A x \in S \ {a} : g[x] <= f[x],
         g[a] <= f[a] + 1
  PROVE  Total(g, S) <= Total(f, S) + 1
<1>1. IsFiniteSet(S \ {a})
  BY FS_Subset
<1>2. Total(g, S \ {a}) <= Total(f, S \ {a})
  BY <1>1, TotalGrows
<1>3. Total(g, S) = g[a] + Total(g, S \ {a}) /\ Total(f, S) = f[a] + Total(f, S \ {a})
  BY TotalSplits
<1>4. Total(g, S \ {a}) \in Nat /\ Total(f, S \ {a}) \in Nat /\ f[a] \in Nat /\ g[a] \in Nat
  BY <1>1, TotalIsNatural
<1> QED
  BY <1>2, <1>3, <1>4

LEMMA TotalOfZeros ==
  ASSUME NEW S, IsFiniteSet(S), NEW f, \A x \in S : f[x] = 0
  PROVE  Total(f, S) = 0
<1> DEFINE B == {s \in SUBSET S : Total(f, s) # 0}
<1> SUFFICES ASSUME B # {}
             PROVE  FALSE
  OBVIOUS
<1>1. PICK s \in B : IsFiniteSet(s) /\ \A x \in s : s \ {x} \notin B
  <2>1. B \in SUBSET SUBSET S
    OBVIOUS
  <2> HIDE DEF B
  <2> QED
    BY <2>1, SmallestSubset
<1>2. CASE s = {}
  BY <1>1, <1>2, TotalOfNone
<1>3. CASE s # {}
  <2>1. Pick(s) \in s /\ f[Pick(s)] = 0
    BY <1>3, PickIsMember
  <2>2. Total(f, s \ {Pick(s)}) = 0
    BY <1>1, <2>1
  <2>3. Total(f, s) = f[Pick(s)] + Total(f, s \ {Pick(s)})
    BY <1>1, <1>3, TotalPicks
  <2> QED
    BY <1>1, <2>1, <2>2, <2>3
<1> QED
  BY <1>2, <1>3

-----------------------------------------------------------------------------
(* What the clans are given, and what they are still to be given.           *)

\* The matches that n writes in a queue stand for, two writes to a match.
Half(n) == n \div 2

\* The writes of an account in its clan alternate, and end with the contribution
\* that the session knows: l writes from the end, a total or a row.
WritesInStep(a) ==
  \A i \in DOMAIN queue[a] :
    LET l == Len(queue[a]) - i
    IN  queue[a][i] = IF l % 2 = 1
                        THEN [kind |-> "total", clan |-> session[a].clan, gain |-> 1]
                        ELSE [kind |-> "stats", value |-> session[a].contribution - Half(l)]

\* Outside a clan there is no contribution, and writes wait only for the clan
\* that the account has.
InItsClan(a) ==
  /\ clanOf[a] = 0 => contribution[a] = 0
  /\ queue[a] # <<>> => clanOf[a] = session[a].clan /\ clanOf[a] # 0

\* The stored contribution is not ahead of the matches that the clan was given.
NotAhead(a) ==
  Online(a) =>
    /\ Half(Len(queue[a])) <= session[a].contribution
    /\ clanOf[a] = session[a].clan => contribution[a] <= session[a].contribution - Half(Len(queue[a]))

InStep(a) ==
  /\ ~Online(a) => queue[a] = <<>>
  /\ a \notin foreign => InItsClan(a) /\ WritesInStep(a) /\ NotAhead(a)

\* What an account has brought to clan c by the writes that ran: a session's
\* contribution without the matches whose total still waits.
Credit(c) ==
  [a \in Accounts |->
     IF a \in foreign THEN 0
     ELSE IF Online(a) /\ session[a].clan = c
       THEN session[a].contribution - Half(Len(queue[a]))
       ELSE IF clanOf[a] = c THEN contribution[a] ELSE 0]

Credited == \A c \in DOMAIN clans : Total(Credit(c), Accounts) <= clans[c].total

CInv == (\A a \in Accounts : InStep(a)) /\ Credited

LEMMA Halves ==
  /\ Half(0) = 0
  /\ \A n \in Nat : /\ Half(n) \in Nat
                    /\ Half(n + 2) = Half(n) + 1 /\ (n + 2) % 2 = n % 2
                    /\ n % 2 = 1 => Half(n + 1) = Half(n) + 1
                    /\ n % 2 # 1 => Half(n + 1) = Half(n)
BY DEF Half

LEMMA CreditIsNatural ==
  ASSUME TypeOK, NEW a \in Accounts, InStep(a), NEW c
  PROVE  Credit(c)[a] \in Nat
<1>1. contribution[a] \in Nat /\ queue[a] \in Seq(Writes) /\ Len(queue[a]) \in Nat
  BY BoundsAssumption DEF TypeOK
<1>2. Half(Len(queue[a])) \in Nat
  BY <1>1, Halves
<1>3. ASSUME a \notin foreign, Online(a)
      PROVE  session[a].contribution - Half(Len(queue[a])) \in Nat
  <2>1. session[a].contribution \in Nat
    BY <1>3, BoundsAssumption DEF TypeOK, Online
  <2>2. Half(Len(queue[a])) <= session[a].contribution
    BY <1>3 DEF InStep, NotAhead
  <2> QED
    BY <1>2, <2>1, <2>2
<1> QED
  BY <1>1, <1>3 DEF Credit

LEMMA CreditedNext ==
  ASSUME \A c \in DOMAIN clans' : Total(Credit(c)', Accounts) <= clans'[c].total
  PROVE  Credited'
<1>1. ASSUME NEW c
      PROVE  Total(Credit(c), Accounts)' = Total(Credit(c)', Accounts)
  BY DEF Total, MapThenSumSet, MapThenFoldSet, Credit
<1> QED
  BY <1>1 DEF Credited

\* An account whose rows, session and writes are as before.
Untouched(a) ==
  /\ clanOf'[a] = clanOf[a] /\ contribution'[a] = contribution[a]
  /\ session'[a] = session[a] /\ queue'[a] = queue[a]
  /\ (a \in foreign') = (a \in foreign)

LEMMA UntouchedInStep ==
  ASSUME NEW a \in Accounts, InStep(a), Untouched(a)
  PROVE  InStep(a)' /\ \A c : Credit(c)'[a] = Credit(c)[a]
<1>1. InStep(a)'
  BY DEF Untouched, InStep, InItsClan, WritesInStep, NotAhead, Online
<1>2. \A c : Credit(c)'[a] = Credit(c)[a]
  BY DEF Untouched, Credit, Online
<1> QED
  BY <1>1, <1>2

\* A clan that keeps its total, and accounts that bring it no more than before.
LEMMA NoMoreForClan ==
  ASSUME TypeOK, CInv, NEW c \in DOMAIN clans, c \in DOMAIN clans', clans'[c].total \in Nat,
         clans[c].total <= clans'[c].total,
         \A a \in Accounts : Credit(c)'[a] \in 0 .. Credit(c)[a]
  PROVE  Total(Credit(c)', Accounts) <= clans'[c].total
<1> DEFINE f == Credit(c)
           g == Credit(c)'
<1>1. \A a \in Accounts : f[a] \in Nat
  BY CreditIsNatural DEF CInv
<1>2. \A a \in Accounts : g[a] \in Nat /\ g[a] <= f[a]
  BY <1>1
<1>3. Total(f, Accounts) <= clans[c].total /\ clans[c].total \in Nat
  BY DEF CInv, Credited, TypeOK
<1> HIDE DEF f, g
<1>4. Total(g, Accounts) <= Total(f, Accounts)
  BY <1>1, <1>2, AccountsAssumption, TotalGrows
<1>5. Total(f, Accounts) \in Nat /\ Total(g, Accounts) \in Nat
  BY <1>1, <1>2, AccountsAssumption, TotalIsNatural
<1>6. Total(g, Accounts) <= clans'[c].total
  BY <1>3, <1>4, <1>5
<1> QED
  BY <1>6 DEF g

LEMMA NoMoreCredit ==
  ASSUME TypeOK, CInv, TypeOK', \A a \in Accounts : InStep(a)',
         \A c \in DOMAIN clans' : c \in DOMAIN clans /\ clans[c].total <= clans'[c].total,
         \A c \in DOMAIN clans' : \A a \in Accounts : Credit(c)'[a] \in 0 .. Credit(c)[a]
  PROVE  CInv'
<1>1. \A c \in DOMAIN clans' : clans'[c].total \in Nat
  BY DEF TypeOK
<1>2. \A c \in DOMAIN clans' : Total(Credit(c)', Accounts) <= clans'[c].total
  BY <1>1, NoMoreForClan
<1> QED
  BY <1>2, CreditedNext DEF CInv

\* Accounts that are untouched but for some whose steps are known.
LEMMA OthersKeepCredit ==
  ASSUME TypeOK, CInv, NEW c, NEW a \in Accounts, Untouched(a)
  PROVE  InStep(a)' /\ Credit(c)'[a] \in 0 .. Credit(c)[a]
<1>1. InStep(a)' /\ Credit(c)'[a] = Credit(c)[a]
  BY UntouchedInStep DEF CInv
<1>2. Credit(c)[a] \in Nat
  BY CreditIsNatural DEF CInv
<1> QED
  BY <1>1, <1>2

\* No write waits, after a step.
LEMMA NothingWaits ==
  ASSUME TypeOK', NEW a \in Accounts, queue'[a] = <<>>,
         a \notin foreign' =>
           /\ clanOf'[a] = 0 => contribution'[a] = 0
           /\ Online(a)' /\ clanOf'[a] = session'[a].clan => contribution'[a] <= session'[a].contribution
  PROVE  InStep(a)'
<1>1. Len(queue'[a]) = 0 /\ DOMAIN queue'[a] = {}
  OBVIOUS
<1>2. Half(Len(queue'[a])) = 0
  BY <1>1, Halves
<1>3. WritesInStep(a)'
  BY <1>1 DEF WritesInStep
<1>4. Online(a)' => session'[a].contribution \in Nat
  BY BoundsAssumption DEF TypeOK, Online
<1>5. NotAhead(a)' <=> (Online(a)' => (clanOf'[a] = session'[a].clan => contribution'[a] <= session'[a].contribution))
  BY <1>2, <1>4 DEF NotAhead, Online
<1> QED
  BY <1>3, <1>5 DEF InStep, InItsClan

LEMMA HalfOfNone ==
  ASSUME NEW a \in Accounts, queue[a] = <<>>
  PROVE  Half(Len(queue[a])) = 0
<1>1. Len(queue[a]) = 0
  OBVIOUS
<1> QED
  BY <1>1, Halves

\* Kick, Leave and Disband: what they take from the clan, the session keeps.
LEMMA ResetCredited ==
  ASSUME TypeOK, CInv, TypeOK', NEW A \in SUBSET Accounts, Reset(A),
         \A c \in DOMAIN clans' : c \in DOMAIN clans /\ clans'[c] = clans[c],
         UNCHANGED <<session, queue>>
  PROVE  CInv'
<1>1. \A c \in DOMAIN clans' : c # 0 /\ clans[c].total <= clans'[c].total
  BY DEF TypeOK, ClanIds
<1>2. ASSUME NEW a \in Accounts, a \notin A
      PROVE  Untouched(a)
  BY <1>2 DEF Untouched, Reset
<1>3. ASSUME NEW a \in A, a \notin foreign'
      PROVE  /\ queue[a] = <<>> /\ clanOf'[a] = 0 /\ contribution'[a] = 0
             /\ a \notin foreign \/ ~Online(a)
  BY <1>3 DEF Reset
<1>4. ASSUME NEW a \in A
      PROVE  InStep(a)'
  <2>1. CASE a \in foreign'
    BY <2>1 DEF InStep, CInv, Online
  <2>2. CASE a \notin foreign'
    <3>1. Online(a)' => session'[a].contribution \in Nat
      BY BoundsAssumption DEF TypeOK, Online
    <3> QED
      BY <1>3, <2>2, <3>1, NothingWaits
  <2> QED
    BY <2>1, <2>2
<1>5. ASSUME NEW a \in A, NEW c \in DOMAIN clans'
      PROVE  Credit(c)'[a] \in 0 .. Credit(c)[a]
  <2>1. Credit(c)[a] \in Nat
    BY CreditIsNatural DEF CInv
  <2>2. Credit(c)'[a] = 0 \/ Credit(c)'[a] = Credit(c)[a]
    BY <1>1, <1>3 DEF Credit, Online
  <2> QED
    BY <2>1, <2>2
<1> QED
  BY <1>1, <1>2, <1>4, <1>5, OthersKeepCredit, NoMoreCredit

\* What a member has stored was brought to its clan.
LEMMA StoredIsCredited ==
  ASSUME TypeOK, CInv, NEW a \in Accounts, NEW c
  PROVE  /\ Credit(c)[a] \in Nat /\ contribution[a] \in Nat
         /\ a \notin foreign /\ clanOf[a] = c => contribution[a] <= Credit(c)[a]
<1>1. Credit(c)[a] \in Nat
  BY CreditIsNatural DEF CInv
<1>2. contribution[a] \in Nat
  BY BoundsAssumption DEF TypeOK
<1>3. a \notin foreign /\ clanOf[a] = c => contribution[a] <= Credit(c)[a]
  BY <1>2 DEF CInv, InStep, NotAhead, Credit
<1> QED
  BY <1>1, <1>2, <1>3

\* A session that ends leaves what is stored, which is not ahead of it.
LEMMA RestartCredited ==
  ASSUME TypeOK, CInv, TypeOK', Restart
  PROVE  CInv'
<1>1. /\ \A a \in Accounts : session'[a] = Offline /\ queue'[a] = <<>>
      /\ UNCHANGED <<clanOf, contribution, clans, foreign>>
  BY DEF Restart
<1>2. ASSUME NEW a \in Accounts
      PROVE  InStep(a)'
  BY <1>1, NothingWaits DEF CInv, InStep, InItsClan, Online
<1>3. ASSUME NEW a \in Accounts, NEW c
      PROVE  Credit(c)'[a] \in 0 .. Credit(c)[a]
  <2>1. /\ Credit(c)[a] \in Nat /\ contribution[a] \in Nat
        /\ a \notin foreign /\ clanOf[a] = c => contribution[a] <= Credit(c)[a]
    BY StoredIsCredited
  <2>2. Credit(c)'[a] = IF a \in foreign THEN 0 ELSE IF clanOf[a] = c THEN contribution[a] ELSE 0
    BY <1>1 DEF Credit, Online
  <2> QED
    BY <2>1, <2>2
<1>4. \A c \in DOMAIN clans' : c \in DOMAIN clans /\ clans[c].total <= clans'[c].total
  BY <1>1 DEF TypeOK
<1> QED
  BY <1>2, <1>3, <1>4, NoMoreCredit

LEMMA LogoutCredited ==
  ASSUME TypeOK, CInv, TypeOK', NEW b \in Accounts, Logout(b)
  PROVE  CInv'
<1>1. /\ session'[b] = Offline /\ queue[b] = <<>> /\ queue'[b] = <<>>
      /\ \A a \in Accounts \ {b} : session'[a] = session[a]
      /\ UNCHANGED <<clanOf, contribution, clans, foreign, queue>>
  BY DEF Logout, TypeOK
<1>2. \A a \in Accounts \ {b} : Untouched(a)
  BY <1>1 DEF Untouched
<1>3. InStep(b)'
  BY <1>1, NothingWaits DEF CInv, InStep, InItsClan, Online
<1>4. ASSUME NEW c
      PROVE  Credit(c)'[b] \in 0 .. Credit(c)[b]
  <2>1. /\ Credit(c)[b] \in Nat /\ contribution[b] \in Nat
        /\ b \notin foreign /\ clanOf[b] = c => contribution[b] <= Credit(c)[b]
    BY StoredIsCredited
  <2>2. Credit(c)'[b] = IF b \in foreign THEN 0 ELSE IF clanOf[b] = c THEN contribution[b] ELSE 0
    BY <1>1 DEF Credit, Online
  <2> QED
    BY <2>1, <2>2
<1>5. \A c \in DOMAIN clans' : c \in DOMAIN clans /\ clans[c].total <= clans'[c].total
  BY <1>1 DEF TypeOK
<1> QED
  BY <1>2, <1>3, <1>4, <1>5, OthersKeepCredit, NoMoreCredit

LEMMA LoginCredited ==
  ASSUME TypeOK, CInv, TypeOK', NEW b \in Accounts, Login(b)
  PROVE  CInv'
<1>1. /\ session'[b] = [clan |-> clanOf[b], contribution |-> contribution[b]]
      /\ \A a \in Accounts \ {b} : session'[a] = session[a]
      /\ ~Online(b)
      /\ UNCHANGED <<clanOf, contribution, clans, foreign, queue>>
  BY DEF Login, TypeOK
<1>2. \A a \in Accounts \ {b} : Untouched(a)
  BY <1>1 DEF Untouched
<1>3. queue[b] = <<>> /\ queue'[b] = <<>> /\ contribution[b] \in Nat
  BY <1>1, BoundsAssumption DEF CInv, InStep, TypeOK
<1>4. InStep(b)'
  BY <1>1, <1>3, NothingWaits DEF CInv, InStep, InItsClan, Online
<1>5. ASSUME NEW c
      PROVE  Credit(c)'[b] \in 0 .. Credit(c)[b]
  <2>1. Credit(c)[b] \in Nat
    BY CreditIsNatural DEF CInv
  <2>2. Half(Len(queue[b])) = 0
    BY <1>3, HalfOfNone
  <2>3. Credit(c)'[b] = Credit(c)[b]
    BY <1>1, <1>3, <2>2 DEF Credit, Online
  <2> QED
    BY <2>1, <2>3
<1>6. \A c \in DOMAIN clans' : c \in DOMAIN clans /\ clans[c].total <= clans'[c].total
  BY <1>1 DEF TypeOK
<1> QED
  BY <1>2, <1>4, <1>5, <1>6, OthersKeepCredit, NoMoreCredit

\* Who is in no clan has no contribution to bring along, and no writes.
LEMMA AcceptCredited ==
  ASSUME TypeOK, CInv, TypeOK', NEW o \in Accounts, NEW b \in Accounts, Accept(o, b)
  PROVE  CInv'
<1>1. /\ clanOf[b] = 0 /\ clanOf'[b] = clanOf[o] /\ clanOf[o] # 0
      /\ \A a \in Accounts \ {b} : clanOf'[a] = clanOf[a]
      /\ UNCHANGED <<contribution, clans, foreign, session, queue>>
  BY DEF Accept, SessionsKept, IsLeader, TypeOK, ClanIds
<1>2. \A a \in Accounts \ {b} : Untouched(a)
  BY <1>1 DEF Untouched
<1>3. b \notin foreign => queue[b] = <<>> /\ contribution[b] = 0
  BY <1>1 DEF CInv, InStep, InItsClan
<1>4. InStep(b)'
  <2>1. CASE b \in foreign
    BY <1>1, <2>1 DEF CInv, InStep, Online
  <2>2. CASE b \notin foreign
    <3>1. Online(b)' => session'[b].contribution \in Nat
      BY BoundsAssumption DEF TypeOK, Online
    <3>2. queue'[b] = <<>> /\ contribution'[b] = 0
      BY <1>1, <1>3, <2>2
    <3> QED
      BY <3>1, <3>2, NothingWaits
  <2> QED
    BY <2>1, <2>2
<1>5. ASSUME NEW c
      PROVE  Credit(c)'[b] \in 0 .. Credit(c)[b]
  <2>1. Credit(c)[b] \in Nat
    BY CreditIsNatural DEF CInv
  <2>2. Credit(c)'[b] = Credit(c)[b] \/ Credit(c)'[b] = 0
    BY <1>1, <1>3 DEF Credit, Online
  <2> QED
    BY <2>1, <2>2
<1>6. \A c \in DOMAIN clans' : c \in DOMAIN clans /\ clans[c].total <= clans'[c].total
  BY <1>1 DEF TypeOK
<1> QED
  BY <1>2, <1>4, <1>5, <1>6, OthersKeepCredit, NoMoreCredit

\* The commands that touch no account.
LEMMA QuietCredited ==
  ASSUME TypeOK, CInv, TypeOK', UNCHANGED <<clanOf, contribution, session, queue, foreign>>,
         \A c \in DOMAIN clans' : c \in DOMAIN clans /\ clans'[c].total = clans[c].total
  PROVE  CInv'
<1>1. \A a \in Accounts : Untouched(a)
  BY DEF Untouched
<1>2. \A c \in DOMAIN clans' : c \in DOMAIN clans /\ clans[c].total <= clans'[c].total
  BY DEF TypeOK
<1> QED
  BY <1>1, <1>2, OthersKeepCredit, NoMoreCredit

\* A founder was in no clan: it brings nothing to the new one, whose id nobody
\* has.
LEMMA CreateClanCredited ==
  ASSUME IInv, CInv, TypeOK', NEW b \in Accounts, CreateClan(b)
  PROVE  CInv'
<1>0. PICK n \in Nat : n = autoIncrement
  <2>1. autoIncrement \in 1 .. MaxClans + 1 /\ MaxClans \in Nat
    BY BoundsAssumption DEF IInv, TypeOK
  <2> QED
    BY <2>1
<1>1. /\ TypeOK /\ n # 0
      /\ n \notin DOMAIN clans /\ \A a \in Accounts : clanOf[a] # n
      /\ \A a \in Accounts : Online(a) => session[a].clan # n
  <2>1. TypeOK /\ n # 0 /\ n \notin DOMAIN clans
    <3>0. TypeOK
      BY DEF IInv
    <3>1. n # 0
      <4>1. autoIncrement \in 1 .. MaxClans + 1 /\ MaxClans \in Nat
        BY <3>0, BoundsAssumption DEF TypeOK
      <4> QED
        BY <1>0, <4>1
    <3>2. \A c \in DOMAIN clans : c < n
      BY <1>0 DEF IInv, IdsGiven
    <3> QED
      BY <3>0, <3>1, <3>2
  <2>2. \A a \in Accounts : clanOf[a] # n
    BY <2>1 DEF IInv, ClansCoherent
  <2>3. ASSUME NEW a \in Accounts, Online(a)
        PROVE  session[a].clan # n
    <3>1. session[a].clan < n
      BY <1>0, <2>3 DEF IInv, IdsGiven
    <3> QED
      BY <3>1
  <2> QED
    BY <2>1, <2>2, <2>3
<1>2. /\ Online(b) /\ clanOf[b] = 0 /\ clanOf'[b] = n
      /\ \A a \in Accounts \ {b} : clanOf'[a] = clanOf[a]
      /\ DOMAIN clans' = DOMAIN clans \cup {n}
      /\ clans'[n].total = 0 /\ \A c \in DOMAIN clans : clans'[c] = clans[c]
      /\ UNCHANGED <<contribution, foreign, session, queue>>
  BY <1>0, <1>1 DEF CreateClan, MayFound, SessionsKept, TypeOK
<1>3. \A a \in Accounts \ {b} : Untouched(a)
  BY <1>2 DEF Untouched
<1>4. b \notin foreign => queue[b] = <<>> /\ contribution[b] = 0
  BY <1>2 DEF CInv, InStep, InItsClan
<1>5. InStep(b)'
  <2>1. CASE b \in foreign
    BY <1>2, <2>1 DEF CInv, InStep, Online
  <2>2. CASE b \notin foreign
    <3>1. queue'[b] = <<>> /\ contribution'[b] = 0 /\ session'[b].clan # clanOf'[b]
      BY <1>1, <1>2, <1>4, <2>2
    <3>2. clanOf'[b] # 0
      BY <1>1, <1>2
    <3> QED
      BY <3>1, <3>2, NothingWaits
  <2> QED
    BY <2>1, <2>2
<1>6. \A a \in Accounts : InStep(a)'
  BY <1>1, <1>3, <1>5, OthersKeepCredit
<1>7. ASSUME NEW c \in DOMAIN clans
      PROVE  Total(Credit(c)', Accounts) <= clans'[c].total
  <2>1. \A a \in Accounts : Credit(c)[a] \in Nat
    BY <1>1, CreditIsNatural DEF CInv
  <2>2. \A a \in Accounts \ {b} : Credit(c)'[a] = Credit(c)[a]
    BY <1>3, UntouchedInStep DEF CInv
  <2>3. Credit(c)'[b] = Credit(c)[b] \/ Credit(c)'[b] = 0
    BY <1>1, <1>2 DEF Credit, Online
  <2>4. \A a \in Accounts : Credit(c)'[a] \in 0 .. Credit(c)[a]
    BY <2>1, <2>2, <2>3
  <2>5. clans'[c].total \in Nat /\ clans[c].total <= clans'[c].total /\ c \in DOMAIN clans'
    BY <1>1, <1>2 DEF TypeOK
  <2> QED
    BY <1>1, <2>4, <2>5, NoMoreForClan
<1>8. Total(Credit(n)', Accounts) <= clans'[n].total
  <2> DEFINE g == Credit(n)'
  <2>1. \A a \in Accounts : g[a] = 0
    BY <1>1, <1>2, <1>4 DEF Credit, Online
  <2> HIDE DEF g
  <2>2. Total(g, Accounts) = 0
    BY <2>1, AccountsAssumption, TotalOfZeros
  <2>3. Total(g, Accounts) <= clans'[n].total
    BY <1>2, <2>2
  <2> QED
    BY <2>3 DEF g
<1>9. Credited'
  BY <1>2, <1>7, <1>8, CreditedNext
<1> QED
  BY <1>6, <1>9 DEF CInv

\* The two writes of a match are appended, and the session goes ahead by what
\* they stand for.
LEMMA StoreMatchStatsCredited ==
  ASSUME TypeOK, CInv, TypeOK', NEW b \in Accounts, StoreMatchStats(b)
  PROVE  CInv'
<1> DEFINE s == session[b]
           q == queue[b]
<1>1. /\ Online(b) /\ s \in SessionType /\ q \in Seq(Writes) /\ Len(q) \in Nat
      /\ s.contribution \in Nat /\ contribution[b] \in Nat
  <2>1. Online(b) /\ session[b] \in SessionType
    BY DEF StoreMatchStats, TypeOK, Online, SessionType
  <2>2. queue[b] \in Seq(Writes) /\ contribution[b] \in Nat
    BY BoundsAssumption DEF TypeOK
  <2>3. \A x \in SessionType : x.contribution \in Nat
    BY BoundsAssumption DEF SessionType
  <2> QED
    BY <2>1, <2>2, <2>3
<1>2. /\ session'[b].clan = s.clan /\ session'[b].contribution = s.contribution + 1
      /\ \A a \in Accounts \ {b} : session'[a] = session[a]
      /\ queue'[b] = q \o MatchWrites(s.clan, 1, s.contribution + 1)
      /\ \A a \in Accounts \ {b} : queue'[a] = queue[a]
      /\ \A a \in Accounts \ {b} : (a \in foreign') = (a \in foreign)
      /\ b \notin foreign' => b \notin foreign /\ s.clan = clanOf[b] /\ s.clan # 0
      /\ b \in foreign => b \in foreign'
      /\ UNCHANGED <<clanOf, contribution>>
  <2>1. PICK o : o = [s EXCEPT !.contribution = s.contribution + 1]
    OBVIOUS
  <2>2. o.clan = s.clan /\ o.contribution = s.contribution + 1
    BY <1>1, <2>1 DEF SessionType
  <2>3. DOMAIN session = Accounts /\ DOMAIN queue = Accounts
    BY DEF TypeOK
  <2>4. session' = [session EXCEPT ![b] = o]
    BY <2>1 DEF StoreMatchStats
  <2>5. session'[b] = o /\ \A a \in Accounts \ {b} : session'[a] = session[a]
    BY <2>3, <2>4
  <2>6. queue' = [queue EXCEPT ![b] = q \o MatchWrites(s.clan, 1, s.contribution + 1)]
    BY DEF StoreMatchStats
  <2>7. queue'[b] = q \o MatchWrites(s.clan, 1, s.contribution + 1)
        /\ \A a \in Accounts \ {b} : queue'[a] = queue[a]
    BY <2>3, <2>6
  <2>8. /\ foreign' = IF s.clan = 0 \/ s.clan # clanOf[b] THEN foreign \cup {b} ELSE foreign
        /\ UNCHANGED <<clanOf, contribution>>
    BY DEF StoreMatchStats
  <2> HIDE DEF s, q
  <2>9. \A a \in Accounts \ {b} : (a \in foreign') = (a \in foreign)
    BY <2>8
  <2>10. /\ b \notin foreign' => b \notin foreign /\ s.clan = clanOf[b] /\ s.clan # 0
         /\ b \in foreign => b \in foreign'
    BY <2>8
  <2> QED
    BY <2>2, <2>5, <2>7, <2>8, <2>9, <2>10
<1>3. Online(b)'
  <2>1. session'[b] = [clan |-> s.clan, contribution |-> s.contribution + 1]
    BY <1>1 DEF StoreMatchStats, TypeOK, SessionType
  <2>2. s.clan \in 0 .. MaxClans /\ s.contribution + 1 \in 0 .. MaxContribution
    BY <1>1, BoundsAssumption DEF StoreMatchStats, SessionType
  <2> QED
    BY <2>1, <2>2, OfflineAssumption DEF Online
<1>4. \A a \in Accounts \ {b} : Untouched(a)
  BY <1>2 DEF Untouched
<1>5. /\ Len(queue'[b]) = Len(q) + 2 /\ DOMAIN queue'[b] = 1 .. Len(q) + 2
      /\ queue'[b] # <<>>
      /\ \A i \in 1 .. Len(q) : queue'[b][i] = q[i]
      /\ queue'[b][Len(q) + 1] = [kind |-> "total", clan |-> s.clan, gain |-> 1]
      /\ queue'[b][Len(q) + 2] = [kind |-> "stats", value |-> s.contribution + 1]
  <2> DEFINE w == MatchWrites(s.clan, 1, s.contribution + 1)
  <2>1. /\ Len(w) = 2 /\ w[1] = [kind |-> "total", clan |-> s.clan, gain |-> 1]
        /\ w[2] = [kind |-> "stats", value |-> s.contribution + 1]
        /\ DOMAIN w = 1 .. 2
    BY DEF MatchWrites
  <2>2. queue'[b] = q \o w
    BY <1>2
  <2>3. w \in Seq({w[1], w[2]})
    BY DEF MatchWrites
  <2> HIDE DEF w, s, q
  <2>4. DOMAIN q = 1 .. Len(q)
    BY <1>1
  <2>5. q \in Seq(Writes \cup {w[1], w[2]}) /\ w \in Seq(Writes \cup {w[1], w[2]})
    BY <1>1, <2>3
  <2>6. /\ Len(q \o w) = Len(q) + 2
        /\ DOMAIN (q \o w) = 1 .. Len(q) + 2
        /\ \A i \in 1 .. Len(q) + 2 : (q \o w)[i] = IF i <= Len(q) THEN q[i] ELSE w[i - Len(q)]
    <3>1. /\ q \o w \in Seq(Writes \cup {w[1], w[2]}) /\ Len(q \o w) = Len(q) + Len(w)
          /\ \A i \in 1 .. Len(q) + Len(w) : (q \o w)[i] = IF i <= Len(q) THEN q[i] ELSE w[i - Len(q)]
      BY <2>5, ConcatProperties
    <3>2. DOMAIN (q \o w) = 1 .. Len(q \o w)
      BY <3>1
    <3> QED
      BY <1>1, <2>1, <3>1, <3>2
  <2>7. (q \o w)[Len(q) + 1] = w[1] /\ (q \o w)[Len(q) + 2] = w[2]
    BY <1>1, <2>6
  <2>8. q \o w # <<>>
    BY <1>1, <2>6
  <2> QED
    BY <1>1, <2>1, <2>2, <2>6, <2>7, <2>8
<1>6. /\ Half(Len(q)) \in Nat
      /\ Half(Len(queue'[b])) = Half(Len(q)) + 1
  BY <1>1, <1>5, Halves
<1> HIDE DEF s, q
<1>7. ASSUME b \notin foreign'
      PROVE  WritesInStep(b)'
  <2> DEFINE Due(i, l) == queue'[b][i] = IF l % 2 = 1
                                           THEN [kind |-> "total", clan |-> session'[b].clan, gain |-> 1]
                                           ELSE [kind |-> "stats", value |-> session'[b].contribution - Half(l)]
  <2>1. ASSUME NEW i \in 1 .. Len(q)
        PROVE  Due(i, Len(q) + 2 - i)
    <3> DEFINE l == Len(q) - i
    <3>1. l \in Nat /\ Len(q) + 2 - i = l + 2
      BY <1>1
    <3>2. q[i] = IF l % 2 = 1
                   THEN [kind |-> "total", clan |-> s.clan, gain |-> 1]
                   ELSE [kind |-> "stats", value |-> s.contribution - Half(l)]
      <4>1. i \in DOMAIN q
        BY <1>1
      <4> QED
        BY <1>2, <1>7, <4>1 DEF CInv, InStep, WritesInStep, s, q
    <3> HIDE DEF l
    <3>3. (l + 2) % 2 = l % 2 /\ Half(l + 2) = Half(l) + 1 /\ Half(l) \in Nat
      BY <3>1, Halves
    <3>4. session'[b].contribution - Half(l + 2) = s.contribution - Half(l)
      BY <1>1, <1>2, <3>3
    <3>5. Due(i, l + 2)
      BY <1>2, <1>5, <3>2, <3>3, <3>4
    <3> QED
      BY <3>1, <3>5
  <2>2. Due(Len(q) + 1, 1)
    BY <1>2, <1>5
  <2>3. Due(Len(q) + 2, 0)
    <3>1. session'[b].contribution - Half(0) = s.contribution + 1
      BY <1>1, <1>2, Halves
    <3> QED
      BY <1>2, <1>5, <3>1
  <2>4. Len(q) + 2 - (Len(q) + 1) = 1 /\ Len(q) + 2 - (Len(q) + 2) = 0
    BY <1>1
  <2> HIDE DEF Due
  <2>5. \A i \in DOMAIN queue'[b] : Due(i, Len(queue'[b]) - i)
    <3>1. \A i \in 1 .. Len(q) + 2 : i \in 1 .. Len(q) \/ i = Len(q) + 1 \/ i = Len(q) + 2
      BY <1>1
    <3> QED
      BY <1>5, <2>1, <2>2, <2>3, <2>4, <3>1
  <2> QED
    BY <2>5 DEF WritesInStep, Due
<1>8. ASSUME b \notin foreign'
      PROVE  NotAhead(b)' /\ InItsClan(b)'
  <2>1. /\ Half(Len(q)) <= s.contribution
        /\ contribution[b] <= s.contribution - Half(Len(q))
    BY <1>1, <1>2, <1>8 DEF CInv, InStep, NotAhead, s, q
  <2>2. NotAhead(b)'
    BY <1>1, <1>2, <1>6, <2>1 DEF NotAhead
  <2>3. InItsClan(b)'
    BY <1>2, <1>8 DEF InItsClan
  <2> QED
    BY <2>2, <2>3
<1>9. InStep(b)'
  BY <1>3, <1>7, <1>8 DEF InStep
<1>10. ASSUME NEW c
       PROVE  Credit(c)'[b] \in 0 .. Credit(c)[b]
  <2>1. Credit(c)[b] \in Nat
    BY CreditIsNatural DEF CInv
  <2>2. session'[b].contribution - Half(Len(queue'[b])) = s.contribution - Half(Len(q))
    <3>1. session'[b].contribution = s.contribution + 1 /\ s.contribution \in Nat
      BY <1>1, <1>2
    <3> QED
      BY <1>6, <3>1
  <2>3. Credit(c)[b] = IF b \in foreign THEN 0
                       ELSE IF s.clan = c THEN s.contribution - Half(Len(q))
                         ELSE IF clanOf[b] = c THEN contribution[b] ELSE 0
    BY <1>1 DEF Credit, s, q
  <2>4. Credit(c)'[b] = IF b \in foreign' THEN 0
                        ELSE IF s.clan = c THEN s.contribution - Half(Len(q))
                          ELSE IF clanOf[b] = c THEN contribution[b] ELSE 0
    BY <1>2, <1>3, <2>2 DEF Credit
  <2> QED
    BY <1>2, <2>1, <2>3, <2>4
<1>11. \A c \in DOMAIN clans' : c \in DOMAIN clans /\ clans[c].total <= clans'[c].total
  BY DEF StoreMatchStats, TypeOK
<1> QED
  BY <1>4, <1>9, <1>10, <1>11, OthersKeepCredit, NoMoreCredit

\* The first write runs: a total, which the clan is given before the member's
\* row, or the row, which was given to the clan by the write before it.
LEMMA PersistCredited ==
  ASSUME IInv, CInv, TypeOK', NEW b \in Accounts, Persist(b)
  PROVE  CInv'
<1> DEFINE q == queue[b]
           s == session[b]
           w == Head(q)
           l == Len(q) - 1
<1>1. /\ TypeOK /\ ClansCoherent /\ q \in Seq(Writes) /\ q # <<>> /\ Len(q) \in Nat /\ l \in Nat
      /\ 1 \in DOMAIN q /\ w = q[1] /\ w \in Writes
  <2>1. TypeOK /\ ClansCoherent /\ q \in Seq(Writes) /\ q # <<>>
    BY DEF IInv, TypeOK, Persist
  <2> HIDE DEF q
  <2>2. Len(q) \in Nat /\ Len(q) # 0 /\ DOMAIN q = 1 .. Len(q) /\ w = q[1] /\ w \in Writes
    BY <2>1
  <2> QED
    BY <2>1, <2>2
<1>2. /\ queue'[b] = Tail(q) /\ \A a \in Accounts \ {b} : queue'[a] = queue[a]
      /\ contribution'[b] = ContributionAfter(contribution[b], w)
      /\ \A a \in Accounts \ {b} : contribution'[a] = contribution[a]
      /\ clans' = ClansAfter(clans, w)
      /\ UNCHANGED <<clanOf, session, foreign>>
  BY <1>1 DEF Persist, TypeOK
<1>3. /\ Len(queue'[b]) = l
      /\ \A i \in DOMAIN queue'[b] : i + 1 \in DOMAIN q /\ queue'[b][i] = q[i + 1]
                                     /\ l - i = Len(q) - (i + 1)
  <2> HIDE DEF q
  <2>1. Len(Tail(q)) = Len(q) - 1 /\ DOMAIN Tail(q) \subseteq Nat
    BY <1>1
  <2>2. \A i \in DOMAIN Tail(q) : i + 1 \in DOMAIN q /\ Tail(q)[i] = q[i + 1]
    BY <1>1, TailAt
  <2>3. \A i \in Nat : Len(q) - 1 - i = Len(q) - (i + 1)
    BY <1>1
  <2> QED
    BY <1>2, <2>1, <2>2, <2>3
<1>4. \A a \in Accounts \ {b} : Untouched(a)
  BY <1>2 DEF Untouched
<1>5. Online(b) /\ Online(b)' /\ s.contribution \in Nat /\ s.clan \in 0 .. MaxClans
  BY <1>1, <1>2, BoundsAssumption DEF CInv, InStep, Online, TypeOK
<1>6. /\ DOMAIN clans' = DOMAIN clans
      /\ \A c \in DOMAIN clans : clans[c].total <= clans'[c].total
  <2>1. w.kind = "total" => w.gain \in Nat
    BY <1>1 DEF Writes
  <2>2. \A c \in DOMAIN clans : clans[c].total \in Nat /\ clans[c] \in [leader : Accounts, total : Nat]
    BY <1>1 DEF TypeOK
  <2> HIDE DEF w
  <2>3. CASE w.kind = "total" /\ w.clan \in DOMAIN clans
    <3>1. clans' = [clans EXCEPT ![w.clan].total = clans[w.clan].total + w.gain]
      BY <1>2, <2>3 DEF ClansAfter
    <3>2. clans'[w.clan].total = clans[w.clan].total + w.gain
      BY <2>2, <2>3, <3>1
    <3>3. \A c \in DOMAIN clans : c # w.clan => clans'[c] = clans[c]
      BY <3>1
    <3>4. clans[w.clan].total <= clans[w.clan].total + w.gain
      BY <2>1, <2>2, <2>3
    <3> QED
      BY <2>2, <3>1, <3>2, <3>3, <3>4
  <2>4. CASE ~(w.kind = "total" /\ w.clan \in DOMAIN clans)
    BY <1>2, <2>2, <2>4 DEF ClansAfter
  <2> QED
    BY <2>3, <2>4
<1>7. ASSUME b \in foreign
      PROVE  CInv'
  <2>1. InStep(b)'
    BY <1>2, <1>5, <1>7 DEF InStep
  <2>2. \A c : Credit(c)'[b] = 0 /\ Credit(c)[b] = 0
    BY <1>2, <1>7 DEF Credit
  <2>3. \A c : Credit(c)'[b] \in 0 .. Credit(c)[b]
    BY <2>2
  <2> QED
    BY <1>1, <1>4, <1>6, <2>1, <2>3, OthersKeepCredit, NoMoreCredit
<1>8. ASSUME b \notin foreign
      PROVE  CInv'
  <2>1. clanOf[b] = s.clan /\ s.clan \in DOMAIN clans
    BY <1>1, <1>8 DEF CInv, InStep, InItsClan, ClansCoherent
  <2>2. w = IF l % 2 = 1 THEN [kind |-> "total", clan |-> s.clan, gain |-> 1]
            ELSE [kind |-> "stats", value |-> s.contribution - Half(l)]
    BY <1>1, <1>8 DEF CInv, InStep, WritesInStep
  <2>3. WritesInStep(b)'
    <3>1. \A i \in DOMAIN q :
            q[i] = IF (Len(q) - i) % 2 = 1
                     THEN [kind |-> "total", clan |-> s.clan, gain |-> 1]
                     ELSE [kind |-> "stats", value |-> s.contribution - Half(Len(q) - i)]
      BY <1>8 DEF CInv, InStep, WritesInStep
    <3> HIDE DEF q, l
    <3>2. \A i \in DOMAIN queue'[b] :
            queue'[b][i] = IF (l - i) % 2 = 1
                             THEN [kind |-> "total", clan |-> s.clan, gain |-> 1]
                             ELSE [kind |-> "stats", value |-> s.contribution - Half(l - i)]
      BY <1>3, <3>1
    <3> QED
      BY <1>2, <1>3, <3>2 DEF WritesInStep
  <2>4. /\ Half(Len(q)) <= s.contribution
        /\ contribution[b] <= s.contribution - Half(Len(q))
        /\ contribution[b] \in Nat
    <3>1. NotAhead(b)
      BY <1>8 DEF CInv, InStep
    <3>2. contribution[b] \in Nat
      BY <1>1, BoundsAssumption DEF TypeOK
    <3> QED
      BY <1>5, <2>1, <3>1, <3>2 DEF NotAhead
  <2>5. Half(l) \in Nat /\ Half(Len(q)) = IF l % 2 = 1 THEN Half(l) + 1 ELSE Half(l)
    <3>1. Len(q) = l + 1
      BY <1>1
    <3> HIDE DEF l
    <3> QED
      BY <1>1, <3>1, Halves
  <2> HIDE DEF q, l, w, s
  <2>6. contribution'[b] = IF l % 2 = 1 THEN contribution[b] ELSE s.contribution - Half(l)
    BY <1>2, <2>2 DEF ContributionAfter
  <2>7. Half(l) <= s.contribution /\ contribution'[b] <= s.contribution - Half(l)
    BY <1>5, <2>4, <2>5, <2>6
  <2>8. InStep(b)'
    <3>1. NotAhead(b)'
      BY <1>2, <1>3, <2>7 DEF NotAhead, s
    <3>2. InItsClan(b)'
      BY <1>1, <1>2, <2>1 DEF InItsClan, s, TypeOK, ClanIds
    <3> QED
      BY <1>5, <2>3, <3>1, <3>2 DEF InStep
  <2>9. \A a \in Accounts : InStep(a)'
    BY <1>1, <1>4, <2>8, OthersKeepCredit
  <2>10. ASSUME NEW c
         PROVE  /\ Credit(c)[b] = IF s.clan = c THEN s.contribution - Half(Len(q)) ELSE 0
                /\ Credit(c)'[b] = IF s.clan = c THEN s.contribution - Half(l) ELSE 0
    <3>1. Credit(c)[b] = IF s.clan = c THEN s.contribution - Half(Len(q)) ELSE 0
      BY <1>5, <1>8, <2>1 DEF Credit, s, q
    <3>2. Credit(c)'[b] = IF s.clan = c THEN s.contribution - Half(l) ELSE 0
      BY <1>2, <1>3, <1>5, <1>8, <2>1 DEF Credit, s
    <3> QED
      BY <3>1, <3>2
  <2>11. CASE l % 2 # 1
    <3>1. \A c : Credit(c)'[b] = Credit(c)[b]
      BY <2>5, <2>10, <2>11
    <3>2. \A c : Credit(c)[b] \in Nat
      BY <1>1, CreditIsNatural DEF CInv
    <3>3. \A c : Credit(c)'[b] \in 0 .. Credit(c)[b]
      BY <3>1, <3>2
    <3> QED
      BY <1>1, <1>4, <1>6, <2>9, <3>3, OthersKeepCredit, NoMoreCredit
  <2>12. CASE l % 2 = 1
    <3>1. ASSUME NEW c \in DOMAIN clans, c # s.clan
          PROVE  Total(Credit(c)', Accounts) <= clans'[c].total
      <4>1. Credit(c)'[b] \in 0 .. Credit(c)[b]
        BY <2>10, <3>1
      <4>2. \A a \in Accounts : Credit(c)'[a] \in 0 .. Credit(c)[a]
        BY <1>1, <1>4, <4>1, OthersKeepCredit
      <4>3. clans'[c].total \in Nat
        BY <1>6 DEF TypeOK
      <4> QED
        BY <1>1, <1>6, <4>2, <4>3, NoMoreForClan
    <3>2. ASSUME NEW c \in DOMAIN clans, c = s.clan
          PROVE  Total(Credit(c)', Accounts) <= clans'[c].total
      <4> DEFINE f == Credit(c)
                 g == Credit(c)'
      <4>1. clans'[c].total = clans[c].total + 1 /\ clans[c].total \in Nat
        <5>1. w = [kind |-> "total", clan |-> c, gain |-> 1]
          BY <2>2, <2>12, <3>2
        <5>2. clans' = [clans EXCEPT ![c].total = clans[c].total + 1]
          BY <1>2, <5>1 DEF ClansAfter
        <5>3. clans[c] \in [leader : Accounts, total : Nat]
          BY <1>1 DEF TypeOK
        <5> QED
          BY <5>2, <5>3
      <4>2. \A a \in Accounts : f[a] \in Nat
        BY <1>1, CreditIsNatural DEF CInv
      <4>3. \A a \in Accounts \ {b} : g[a] = f[a]
        BY <1>4, UntouchedInStep DEF CInv
      <4>4. f[b] = s.contribution - (Half(l) + 1) /\ g[b] = s.contribution - Half(l)
        BY <2>5, <2>10, <2>12, <3>2
      <4>5. g[b] = f[b] + 1
        BY <1>5, <2>5, <4>4
      <4>6. Total(f, Accounts) <= clans[c].total
        BY DEF CInv, Credited
      <4> HIDE DEF f, g
      <4>7. \A a \in Accounts : f[a] \in Nat /\ g[a] \in Nat
        BY <4>2, <4>3, <4>5
      <4>8. \A a \in Accounts \ {b} : g[a] <= f[a]
        BY <4>3, <4>7
      <4>9. g[b] <= f[b] + 1
        BY <4>5, <4>7
      <4>10. Total(g, Accounts) <= Total(f, Accounts) + 1
        BY <4>7, <4>8, <4>9, AccountsAssumption, TotalOneMore
      <4>11. Total(g, Accounts) \in Nat /\ Total(f, Accounts) \in Nat
        BY <4>7, AccountsAssumption, TotalIsNatural
      <4>12. Total(g, Accounts) <= clans'[c].total
        BY <4>1, <4>6, <4>10, <4>11
      <4> QED
        BY <4>12 DEF g
    <3>3. Credited'
      BY <1>6, <3>1, <3>2, CreditedNext
    <3> QED
      BY <2>9, <3>3 DEF CInv
  <2> QED
    BY <2>11, <2>12
<1> QED
  BY <1>7, <1>8

LEMMA CreditedStep ==
  ASSUME IInv, CInv, [Next]_vars
  PROVE  CInv'
<1>1. TypeOK /\ TypeOK'
  BY TypeStep DEF IInv
<1>2. ASSUME NEW o \in Accounts, NEW a \in Accounts, Kick(o, a)
      PROVE  CInv'
  BY <1>1, <1>2, ResetCredited DEF Kick, SessionsKept
<1>3. ASSUME NEW a \in Accounts, Leave(a)
      PROVE  CInv'
  BY <1>1, <1>3, ResetCredited DEF Leave, SessionsKept
<1>4. ASSUME NEW o \in Accounts, Disband(o)
      PROVE  CInv'
  BY <1>1, <1>4, ResetCredited DEF Disband, SessionsKept, Members
<1>5. ASSUME NEW o \in Accounts, NEW a \in Accounts, Transfer(o, a)
      PROVE  CInv'
  <2>1. clanOf[o] \in DOMAIN clans /\ clans' = [clans EXCEPT ![clanOf[o]].leader = a]
    BY <1>5 DEF Transfer, IsLeader
  <2>2. \A c \in DOMAIN clans' : c \in DOMAIN clans /\ clans'[c].total = clans[c].total
    BY <1>1, <2>1 DEF TypeOK
  <2> QED
    BY <1>1, <1>5, <2>2, QuietCredited DEF Transfer, SessionsKept
<1>6. ASSUME NEW o \in Accounts, NEW a \in Accounts, Deny(o, a)
      PROVE  CInv'
  BY <1>1, <1>6, QuietCredited DEF Deny, SessionsKept
<1>7. ASSUME NEW a \in Accounts, NEW c \in ClanIds, Enlist(a, c)
      PROVE  CInv'
  BY <1>1, <1>7, QuietCredited DEF Enlist, SessionsKept
<1>8. CASE UNCHANGED vars
  BY <1>1, <1>8, QuietCredited DEF vars
<1> QED
  BY <1>1, <1>2, <1>3, <1>4, <1>5, <1>6, <1>7, <1>8, RestartCredited, CreateClanCredited,
     AcceptCredited, StoreMatchStatsCredited, PersistCredited, LoginCredited, LogoutCredited DEF Next

\* What the members of a clan have stored is what they brought to it, or less.
LEMMA StoredIsCovered ==
  ASSUME TypeOK, CInv
  PROVE  ContributionCovered
<1>1. ASSUME NEW c \in DOMAIN clans
      PROVE  Total(contribution, Members(c) \ foreign) <= clans[c].total
  <2> DEFINE T == Members(c) \ foreign
             f == Credit(c)
  <2>1. T \in SUBSET Accounts
    BY DEF Members
  <2>2. \A a \in T : contribution[a] \in Nat /\ contribution[a] <= f[a]
    BY StoredIsCredited DEF Members
  <2>3. \A a \in Accounts : f[a] \in Nat
    BY StoredIsCredited
  <2>4. Total(f, Accounts) <= clans[c].total /\ clans[c].total \in Nat
    BY DEF CInv, Credited, TypeOK
  <2> HIDE DEF T, f
  <2>5. Total(contribution, T) <= Total(f, Accounts)
    BY <2>1, <2>2, <2>3, AccountsAssumption, TotalGrows
  <2>6. Total(contribution, T) \in Nat /\ Total(f, Accounts) \in Nat
    <3>1. IsFiniteSet(T)
      BY <2>1, AccountsAssumption, FS_Subset
    <3> QED
      BY <2>2, <2>3, <3>1, AccountsAssumption, TotalIsNatural
  <2>7. Total(contribution, T) <= clans[c].total
    BY <2>4, <2>5, <2>6
  <2> QED
    BY <2>7 DEF T
<1> QED
  BY <1>1 DEF ContributionCovered, Total

\* Whatever waits or was lost, the total of a clan covers what its members are
\* shown to have contributed, for any accounts, limits and lengths of the queues:
\* a total is queued before the row that it belongs to.
THEOREM ContributionCorrect == Spec => []ContributionCovered
<1>1. Init => CInv
  <2> SUFFICES ASSUME Init
               PROVE  CInv
    OBVIOUS
  <2>1. \A a \in Accounts : InStep(a)
    <3> TAKE a \in Accounts
    <3>1. queue[a] = <<>> /\ ~Online(a) /\ contribution[a] = 0 /\ DOMAIN queue[a] = {}
      BY DEF Init, Online
    <3> QED
      BY <3>1 DEF InStep, InItsClan, WritesInStep, NotAhead
  <2>2. DOMAIN clans = {}
    BY DEF Init
  <2> QED
    BY <2>1, <2>2 DEF CInv, Credited
<1>2. IInv /\ CInv /\ [Next]_vars => CInv'
  BY CreditedStep
<1>3. IInv /\ CInv => ContributionCovered
  BY StoredIsCovered DEF IInv
<1> QED
  BY <1>1, <1>2, <1>3, Inductive, PTL DEF Spec

(***************************************************************************)
(* Parties.                                                                *)
(***************************************************************************)

-----------------------------------------------------------------------------
(* Rooms, parties and worlds: what a world is made of.                      *)

Tables(K, V) == UNION {[S -> V] : S \in SUBSET K}
Numbers == 1 .. MaxNumber
Users == [id : Sessions, live : BOOLEAN]
Side == Keys \cup {NoParty}
Worlds ==
  [rooms : Tables(Numbers, R!RoomType), number : [Sessions -> 0 .. MaxNumber],
   state : [Sessions -> R!States], free : Seq(Numbers),
   parties : Tables(Keys, PartyType), party : [Sessions -> 0 .. MaxParties],
   matches : Tables(Numbers, Side \X Side)]
LEMMA WorldsAre ==
  ASSUME NEW w \in Worlds
  PROVE  /\ w.rooms \in Tables(Numbers, R!RoomType) /\ w.number \in [Sessions -> 0 .. MaxNumber]
         /\ w.state \in [Sessions -> R!States] /\ w.free \in Seq(Numbers)
         /\ w.parties \in Tables(Keys, PartyType) /\ w.party \in [Sessions -> 0 .. MaxParties]
         /\ w.matches \in Tables(Numbers, Side \X Side)
BY DEF Worlds

LEMMA TableIs ==
  ASSUME NEW K, NEW V
  PROVE  /\ \A t \in Tables(K, V) : DOMAIN t \subseteq K /\ t \in [DOMAIN t -> V]
         /\ \A S \in SUBSET K : \A t \in [S -> V] : t \in Tables(K, V)
BY DEF Tables

LEMMA TableWithout ==
  ASSUME NEW K, NEW V, NEW t \in Tables(K, V), NEW S
  PROVE  /\ R!Without(t, S) \in Tables(K, V) /\ DOMAIN R!Without(t, S) = DOMAIN t \ S
<1>1. DOMAIN t \subseteq K /\ t \in [DOMAIN t -> V]
  BY TableIs
<1>2. R!Without(t, S) \in [DOMAIN t \ S -> V]
  BY <1>1 DEF R!Without
<1>3. DOMAIN t \ S \in SUBSET K
  BY <1>1
<1>4. R!Without(t, S) \in Tables(K, V)
  BY <1>2, <1>3, TableIs
<1> QED
  BY <1>4 DEF R!Without

LEMMA TablePut ==
  ASSUME NEW K, NEW V, NEW t \in Tables(K, V), NEW k \in DOMAIN t, NEW v \in V
  PROVE  [t EXCEPT ![k] = v] \in Tables(K, V)
<1>1. DOMAIN t \subseteq K /\ t \in [DOMAIN t -> V]
  BY TableIs
<1>2. [t EXCEPT ![k] = v] \in [DOMAIN t -> V]
  BY <1>1
<1> QED
  BY <1>1, <1>2, TableIs

-----------------------------------------------------------------------------
(* Naturals and repetition.                                                 *)

\* A set with 0 and every successor up to n has them all.
LEMMA Reaches ==
  ASSUME NEW n \in Nat, NEW S, 0 \in S, \A i \in 1 .. n : i - 1 \in S => i \in S
  PROVE  0 .. n \subseteq S
<1> DEFINE T == {i \in 0 .. n : i \notin S}
<1> SUFFICES ASSUME T # {}
             PROVE  FALSE
  OBVIOUS
<1>1. PICK m \in T : \A i \in T : m <= i
  <2>1. T \in SUBSET Nat
    OBVIOUS
  <2> HIDE DEF T
  <2> QED
    BY <2>1, LeastNatural
<1>2. m \in 1 .. n /\ m - 1 \in 0 .. n
  BY <1>1
<1>3. m - 1 \notin T
  <2>1. ~(m <= m - 1)
    BY <1>2
  <2> HIDE DEF T
  <2> QED
    BY <1>1, <2>1
<1> QED
  BY <1>1, <1>2, <1>3

\* Repeating g from x, n times, makes a function on 0 .. n.
Iterates(f, x, g, n, X) ==
  f \in [0 .. n -> X] /\ f[0] = x /\ \A i \in 1 .. n : f[i] = g[<<f[i - 1], i>>]
LEMMA IteratesExist ==
  ASSUME NEW n \in Nat, NEW X, NEW x \in X, NEW g \in [X \X (1 .. n) -> X]
  PROVE  \E f : Iterates(f, x, g, n, X)
<1> DEFINE S == {m \in 0 .. n : \E f : Iterates(f, x, g, m, X)}
<1>1. 0 \in S
  <2>1. PICK f : f = [i \in 0 .. 0 |-> x]
    OBVIOUS
  <2>2. f \in [0 .. 0 -> X] /\ f[0] = x /\ 1 .. 0 = {}
    BY <2>1
  <2>3. Iterates(f, x, g, 0, X)
    BY <2>2 DEF Iterates
  <2> QED
    BY <2>3
<1>2. ASSUME NEW m \in 1 .. n, m - 1 \in S
      PROVE  m \in S
  <2>1. PICK f : Iterates(f, x, g, m - 1, X)
    BY <1>2
  <2>2. PICK h : h = [i \in 0 .. m |-> IF i = m THEN g[<<f[m - 1], m>>] ELSE f[i]]
    OBVIOUS
  <2>3. f \in [0 .. m - 1 -> X] /\ f[0] = x /\ \A i \in 1 .. m - 1 : f[i] = g[<<f[i - 1], i>>]
    BY <2>1 DEF Iterates
  <2>4. g[<<f[m - 1], m>>] \in X
    BY <2>3
  <2>5. \A i \in 0 .. m - 1 : h[i] = f[i]
    BY <2>2
  <2>6. h \in [0 .. m -> X]
    BY <2>2, <2>3, <2>4
  <2>7. h[0] = x /\ h[m] = g[<<h[m - 1], m>>]
    <3>1. 0 \in 0 .. m - 1 /\ m - 1 \in 0 .. m - 1 /\ m \in 0 .. m
      OBVIOUS
    <3> QED
      BY <2>2, <2>3, <2>5, <3>1
  <2>8. \A i \in 1 .. m - 1 : h[i] = g[<<h[i - 1], i>>]
    BY <2>3, <2>5
  <2>9. \A i \in 1 .. m : h[i] = g[<<h[i - 1], i>>]
    BY <2>7, <2>8
  <2>10. Iterates(h, x, g, m, X)
    BY <2>6, <2>7, <2>9 DEF Iterates
  <2> QED
    BY <2>10
<1> HIDE DEF S
<1>3. 0 .. n \subseteq S
  BY <1>1, <1>2, Reaches
<1> QED
  BY <1>3 DEF S

-----------------------------------------------------------------------------
(* Lists, whose entries are swapped and dropped.                            *)

LEMMA ListIs ==
  ASSUME NEW D, NEW s \in Seq(D)
  PROVE  Len(s) \in Nat /\ DOMAIN s = 1 .. Len(s) /\ \A i \in DOMAIN s : s[i] \in D
OBVIOUS

LEMMA FunctionIsList ==
  ASSUME NEW D, NEW m \in Nat, NEW t \in [1 .. m -> D]
  PROVE  t \in Seq(D) /\ Len(t) = m
OBVIOUS

LEMMA SwapTyped ==
  ASSUME NEW D, NEW s \in Seq(D), NEW k \in DOMAIN s
  PROVE  /\ R!SwapWithFirst(s, k) \in Seq(D) /\ Len(R!SwapWithFirst(s, k)) = Len(s)
         /\ DOMAIN R!SwapWithFirst(s, k) = DOMAIN s
         /\ R!SwapWithFirst(s, k)[1] = s[k] /\ R!SwapWithFirst(s, k)[k] = s[1]
         /\ \A i \in DOMAIN s \ {1, k} : R!SwapWithFirst(s, k)[i] = s[i]
<1>1. Len(s) \in Nat /\ DOMAIN s = 1 .. Len(s) /\ 1 \in DOMAIN s /\ \A i \in DOMAIN s : s[i] \in D
  BY ListIs
<1>2. R!SwapWithFirst(s, k) \in [1 .. Len(s) -> D]
  BY <1>1 DEF R!SwapWithFirst
<1>3. R!SwapWithFirst(s, k) \in Seq(D) /\ Len(R!SwapWithFirst(s, k)) = Len(s)
  BY <1>1, <1>2, FunctionIsList
<1> QED
  BY <1>1, <1>3 DEF R!SwapWithFirst

LEMMA SwapOutTyped ==
  ASSUME NEW D, NEW s \in Seq(D), NEW k \in DOMAIN s
  PROVE  /\ R!SwapOut(s, k) \in Seq(D) /\ Len(R!SwapOut(s, k)) = Len(s) - 1
         /\ DOMAIN R!SwapOut(s, k) = 1 .. Len(s) - 1
         /\ \A i \in 1 .. Len(s) - 1 : R!SwapOut(s, k)[i] = IF i = k THEN s[Len(s)] ELSE s[i]
<1>1. Len(s) \in Nat /\ DOMAIN s = 1 .. Len(s) /\ \A i \in DOMAIN s : s[i] \in D
  BY ListIs
<1>2. Len(s) \in DOMAIN s /\ Len(s) - 1 \in Nat
  BY <1>1
<1>3. R!SwapOut(s, k) \in [1 .. Len(s) - 1 -> D]
  BY <1>1, <1>2 DEF R!SwapOut
<1>4. R!SwapOut(s, k) \in Seq(D) /\ Len(R!SwapOut(s, k)) = Len(s) - 1
  BY <1>2, <1>3, FunctionIsList
<1> QED
  BY <1>4 DEF R!SwapOut

-----------------------------------------------------------------------------
(* What the operators of Rooms do to the rooms of a world.                  *)

Outcomes == [room : R!RoomType, left : Sessions \cup {NoSession}, close : BOOLEAN]

LEMMA RoomIs ==
  /\ \A r \in R!RoomType :
       /\ r.players \in Seq(R!Entries) /\ r.observers \in Seq(R!Entries) /\ r.started \in BOOLEAN
       /\ r.target \in Sessions \cup {NoSession}
  /\ \A r \in R!RoomType : \A s \in Seq(R!Entries) :
       /\ [r EXCEPT !.players = s] \in R!RoomType /\ [r EXCEPT !.observers = s] \in R!RoomType
       /\ [r EXCEPT !.players = s].players = s
       /\ [r EXCEPT !.players = s].observers = r.observers
       /\ \A b \in BOOLEAN : [r EXCEPT !.players = s, !.started = b] \in R!RoomType
BY DEF R!RoomType

LEMMA OutcomeIs ==
  ASSUME NEW r \in R!RoomType, NEW p \in Sessions \cup {NoSession}, NEW c \in BOOLEAN
  PROVE  R!Outcome(r, p, c) \in Outcomes
BY DEF R!Outcome, Outcomes

LEMMA FoundIn ==
  ASSUME NEW s \in Seq(R!Entries), NEW p, R!InList(s, p)
  PROVE  R!The(R!Index(s, p)) \in DOMAIN s
BY DEF R!The, R!Index, R!InList

LEMMA WithoutTyped ==
  ASSUME NEW r \in R!RoomType, NEW p
  PROVE  /\ R!InList(r.players, p) => R!WithoutPlayer(r, p) \in R!RoomType
         /\ R!InList(r.observers, p) => R!WithoutObserver(r, p) \in R!RoomType
<1>1. r.players \in Seq(R!Entries) /\ r.observers \in Seq(R!Entries)
  BY RoomIs
<1>2. ASSUME R!InList(r.players, p)
      PROVE  R!WithoutPlayer(r, p) \in R!RoomType
  <2>1. R!The(R!Index(r.players, p)) \in DOMAIN r.players
    BY <1>1, <1>2, FoundIn
  <2>2. R!SwapOut(r.players, R!The(R!Index(r.players, p))) \in Seq(R!Entries)
    BY <1>1, <2>1, SwapOutTyped
  <2> QED
    BY <2>2, RoomIs DEF R!WithoutPlayer
<1>3. ASSUME R!InList(r.observers, p)
      PROVE  R!WithoutObserver(r, p) \in R!RoomType
  <2>1. R!The(R!Index(r.observers, p)) \in DOMAIN r.observers
    BY <1>1, <1>3, FoundIn
  <2>2. R!SwapOut(r.observers, R!The(R!Index(r.observers, p))) \in Seq(R!Entries)
    BY <1>1, <2>1, SwapOutTyped
  <2> QED
    BY <2>2, RoomIs DEF R!WithoutObserver
<1> QED
  BY <1>2, <1>3

LEMMA SameCardinality ==
  ASSUME NEW S
  PROVE  R!Cardinality(S) = Cardinality(S)
BY DEF R!Cardinality, Cardinality, R!IsFiniteSet, IsFiniteSet

LEMMA BestAre ==
  ASSUME NEW w, NEW r \in R!RoomType, NEW p, NEW inMatch
  PROVE  R!BestIndices(w, r, p, inMatch) \subseteq DOMAIN r.players
<1> DEFINE live(i) == {j \in 1 .. i : r.players[j].live}
<1> SUFFICES ASSUME NEW x \in R!BestIndices(w, r, p, inMatch)
             PROVE  x \in DOMAIN r.players
  OBVIOUS
<1>0. PICK i \in DOMAIN r.players : r.players[i].live /\ x = R!Cardinality(live(i))
  <2>1. ~(Len(r.players) <= 1)
    BY DEF R!BestIndices
  <2>2. x \in {R!Cardinality(live(i)) : i \in {i \in DOMAIN r.players :
                 /\ r.players[i].live /\ r.players[i].id # p
                 /\ (w.state[r.players[i].id] = "normal") = inMatch}}
    BY <2>1 DEF R!BestIndices
  <2> HIDE DEF live
  <2> QED
    BY <2>2
<1> DEFINE C == live(i)
<1>1. r.players \in Seq(R!Entries)
  BY RoomIs
<1>2. i \in 1 .. Len(r.players) /\ Len(r.players) \in Nat /\ DOMAIN r.players = 1 .. Len(r.players)
  BY <1>1, ListIs
<1>3. IsFiniteSet(1 .. i) /\ Cardinality(1 .. i) = i
  BY <1>2, FS_Interval
<1>4. C \in SUBSET (1 .. i) /\ i \in C
  BY <1>0, <1>2
<1> HIDE DEF C
<1>5. IsFiniteSet(C) /\ Cardinality(C) <= i /\ Cardinality(C) \in Nat
  BY <1>3, <1>4, FS_Subset, FS_CardinalityType
<1>6. Cardinality(C) # 0
  BY <1>4, <1>5, FS_EmptySet
<1>7. x = Cardinality(C)
  BY <1>0, SameCardinality DEF C
<1> QED
  BY <1>2, <1>5, <1>6, <1>7

LEMMA SwappedPlayers ==
  ASSUME NEW r \in R!RoomType, NEW k \in DOMAIN r.players
  PROVE  /\ [r EXCEPT !.players = R!SwapWithFirst(@, k)] \in R!RoomType
         /\ \A p : R!InList(r.players, p)
                     => R!InList([r EXCEPT !.players = R!SwapWithFirst(@, k)].players, p)
<1>1. r.players \in Seq(R!Entries)
  BY RoomIs
<1>2. PICK s \in Seq(R!Entries) : s = R!SwapWithFirst(r.players, k)
  BY <1>1, SwapTyped
<1>3. [r EXCEPT !.players = s] \in R!RoomType /\ [r EXCEPT !.players = s].players = s
  BY RoomIs
<1>4. ASSUME NEW p, R!InList(r.players, p)
      PROVE  R!InList(s, p)
  <2>1. PICK i \in DOMAIN r.players : r.players[i].id = p /\ r.players[i].live
    BY <1>4 DEF R!InList, R!Index
  <2>2. PICK j \in DOMAIN r.players : s[j] = r.players[i] /\ j \in DOMAIN s
    <3>1. /\ DOMAIN s = DOMAIN r.players /\ s[1] = r.players[k] /\ s[k] = r.players[1]
          /\ \A x \in DOMAIN r.players \ {1, k} : s[x] = r.players[x]
      <4>1. /\ DOMAIN R!SwapWithFirst(r.players, k) = DOMAIN r.players
            /\ R!SwapWithFirst(r.players, k)[1] = r.players[k]
            /\ R!SwapWithFirst(r.players, k)[k] = r.players[1]
            /\ \A x \in DOMAIN r.players \ {1, k} : R!SwapWithFirst(r.players, k)[x] = r.players[x]
        <5>1. PICK l : l = r.players /\ l \in Seq(R!Entries) /\ k \in DOMAIN l
          BY <1>1
        <5>2. /\ DOMAIN R!SwapWithFirst(l, k) = DOMAIN l
              /\ R!SwapWithFirst(l, k)[1] = l[k]
              /\ R!SwapWithFirst(l, k)[k] = l[1]
          BY <5>1, SwapTyped
        <5>3. \A x \in DOMAIN l \ {1, k} : R!SwapWithFirst(l, k)[x] = l[x]
          BY <5>1, SwapTyped
        <5> QED
          BY <5>1, <5>2, <5>3
      <4> QED
        BY <1>2, <4>1
    <3>2. 1 \in DOMAIN r.players
      BY <1>1, ListIs
    <3> QED
      BY <3>1, <3>2
  <2> QED
    BY <2>1, <2>2 DEF R!InList, R!Index
<1> QED
  BY <1>2, <1>3, <1>4

LEMMA RemovePlayerTyped ==
  ASSUME NEW w, NEW r \in R!RoomType, NEW p \in Sessions
  PROVE  R!RemovePlayer(w, r, p) \subseteq Outcomes /\ R!RemovePlayer(w, r, p) # {}
<1> DEFINE Left(q) == R!Outcome(R!WithoutPlayer(q, p), p, Len(q.players) = 1)
           Swapped(k) == [r EXCEPT !.players = R!SwapWithFirst(@, k)]
<1>1. PICK Best : Best = R!BestIndices(w, r, p, FALSE) /\ Best \subseteq DOMAIN r.players
  BY BestAre
<1>2. PICK S : S = R!RemovePlayer(w, r, p)
  OBVIOUS
<1>3. \/ S = {R!Outcome(r, NoSession, FALSE)}
      \/ S = {R!Outcome(r, NoSession, TRUE)}
      \/ R!InList(r.players, p) /\ S = {Left(r)}
      \/ R!InList(r.players, p) /\ Best # {} /\ S = {Left(Swapped(k)) : k \in Best}
      \/ R!InList(r.observers, p) /\ S = {R!Outcome(R!WithoutObserver(r, p), p, FALSE)}
  <2>1. CASE r.players = <<>>
    BY <1>2, <2>1 DEF R!RemovePlayer
  <2>2. CASE r.players # <<>> /\ R!InList(r.players, p)
    BY <1>1, <1>2, <2>2 DEF R!RemovePlayer
  <2>3. CASE r.players # <<>> /\ ~R!InList(r.players, p)
    BY <1>2, <2>3 DEF R!RemovePlayer
  <2> QED
    BY <2>1, <2>2, <2>3
<1>4. R!Outcome(r, NoSession, FALSE) \in Outcomes /\ R!Outcome(r, NoSession, TRUE) \in Outcomes
  BY OutcomeIs
<1>5. \A q \in R!RoomType : R!InList(q.players, p) => Left(q) \in Outcomes
  BY WithoutTyped, OutcomeIs
<1>6. R!InList(r.observers, p) => R!Outcome(R!WithoutObserver(r, p), p, FALSE) \in Outcomes
  BY WithoutTyped, OutcomeIs
<1>7. \A k \in Best : R!InList(r.players, p) => Left(Swapped(k)) \in Outcomes
  <2>1. \A k \in Best : Swapped(k) \in R!RoomType
                        /\ (R!InList(r.players, p) => R!InList(Swapped(k).players, p))
    BY <1>1, SwappedPlayers
  <2> HIDE DEF Left, Swapped
  <2> QED
    BY <1>5, <2>1
<1> HIDE DEF Left, Swapped
<1> QED
  BY <1>2, <1>3, <1>4, <1>5, <1>6, <1>7

LEMMA RemoveHostTyped ==
  ASSUME NEW w, NEW r \in R!RoomType
  PROVE  R!RemoveHost(w, r) \subseteq Outcomes /\ R!RemoveHost(w, r) # {}
<1>1. r.players \in Seq(R!Entries) /\ r.started \in BOOLEAN
  BY RoomIs
<1>2. R!Outcome(r, NoSession, FALSE) \in Outcomes /\ R!Outcome(r, NoSession, TRUE) \in Outcomes
  BY OutcomeIs
<1>3. CASE r.players = <<>> \/ ~r.players[1].live
  <2>1. R!RemoveHost(w, r) = {R!Outcome(r, NoSession, FALSE)}
    BY <1>3 DEF R!RemoveHost
  <2> QED
    BY <1>2, <2>1
<1>4. CASE ~(r.players = <<>> \/ ~r.players[1].live)
  <2>1. PICK host : host = r.players[1].id
    OBVIOUS
  <2>2. PICK m : m = \E i \in DOMAIN r.players : r.players[i].live /\ w.state[r.players[i].id] = "normal"
    OBVIOUS
  <2>3. PICK Best : Best = R!BestIndices(w, r, host, m) /\ Best \subseteq DOMAIN r.players
    BY BestAre
  <2> DEFINE Moved(k) == [r EXCEPT !.players = R!SwapOut(R!SwapWithFirst(@, k), k),
                                   !.started = @ /\ m]
  <2>4. R!RemoveHost(w, r) = IF Best = {} THEN {R!Outcome(r, NoSession, TRUE)}
                             ELSE {R!Outcome(Moved(k), host, FALSE) : k \in Best}
    BY <1>4, <2>1, <2>2, <2>3 DEF R!RemoveHost
  <2>5. host \in Sessions
    <3>1. r.players[1] \in R!Entries
      BY <1>1, <1>4
    <3> QED
      BY <2>1, <3>1 DEF R!Entries
  <2>6. \A k \in Best : Moved(k) \in R!RoomType
    <3>1. SUFFICES ASSUME NEW k \in Best
                   PROVE  Moved(k) \in R!RoomType
      OBVIOUS
    <3>2. PICK s \in Seq(R!Entries) : s = R!SwapWithFirst(r.players, k) /\ k \in DOMAIN s
      BY <1>1, <2>3, SwapTyped
    <3>3. PICK t \in Seq(R!Entries) : t = R!SwapOut(s, k)
      BY <3>2, SwapOutTyped
    <3>4. PICK b \in BOOLEAN : b = (r.started /\ m)
      OBVIOUS
    <3>5. [r EXCEPT !.players = t, !.started = b] \in R!RoomType
      BY RoomIs
    <3> QED
      BY <3>2, <3>3, <3>4, <3>5
  <2> HIDE DEF Moved
  <2>7. \A k \in Best : R!Outcome(Moved(k), host, FALSE) \in Outcomes
    BY <2>5, <2>6, OutcomeIs
  <2> QED
    BY <1>2, <2>4, <2>7
<1> QED
  BY <1>3, <1>4

LEMMA PutParts ==
  ASSUME NEW w \in Worlds, NEW k, NEW o, NEW rs, rs = [w.rooms EXCEPT ![k] = o.room],
         NEW m, m = [p \in Sessions |-> IF p = o.left THEN 0 ELSE w.number[p]],
         NEW v, v = R!Put(w, k, o)
  PROVE  /\ v.rooms = rs /\ v.number = m
         /\ v.state = w.state /\ v.free = w.free /\ v.parties = w.parties
         /\ v.party = w.party /\ v.matches = w.matches
         /\ rs \in Tables(Numbers, R!RoomType) /\ m \in [Sessions -> 0 .. MaxNumber] => v \in Worlds
BY DEF R!Put, Worlds

LEMMA SetStateParts ==
  ASSUME NEW w \in Worlds, NEW k, NEW s, NEW x,
         NEW rs, rs = [w.rooms EXCEPT ![k].players = R!WithState(@, s, x),
                                      ![k].observers = R!WithState(@, s, x)],
         NEW st, st = IF s \in R!Members(w.rooms[k]) THEN [w.state EXCEPT ![s] = x] ELSE w.state,
         NEW v, v = R!SetStateFor(w, k, s, x)
  PROVE  /\ v.rooms = rs /\ v.state = st
         /\ v.number = w.number /\ v.free = w.free /\ v.parties = w.parties
         /\ v.party = w.party /\ v.matches = w.matches
         /\ rs \in Tables(Numbers, R!RoomType) /\ st \in [Sessions -> R!States] => v \in Worlds
BY DEF R!SetStateFor, Worlds

\* A step to a world whose parties and matches are those of w.
RoomsOnly(w, v) ==
  v \in Worlds /\ v.parties = w.parties /\ v.party = w.party /\ v.matches = w.matches

LEMMA PutRooms ==
  ASSUME NEW w \in Worlds, NEW n \in DOMAIN w.rooms, NEW o \in Outcomes
  PROVE  RoomsOnly(w, R!Put(w, n, o)) /\ DOMAIN R!Put(w, n, o).rooms = DOMAIN w.rooms
<1>1. w.rooms \in Tables(Numbers, R!RoomType) /\ w.number \in [Sessions -> 0 .. MaxNumber]
  BY WorldsAre
<1>2. o.room \in R!RoomType
  BY DEF Outcomes
<1>3. [w.rooms EXCEPT ![n] = o.room] \in Tables(Numbers, R!RoomType)
  BY <1>1, <1>2, TablePut
<1>4. [p \in Sessions |-> IF p = o.left THEN 0 ELSE w.number[p]] \in [Sessions -> 0 .. MaxNumber]
  BY <1>1, MaxNumberAssumption
<1>5. PICK rs : rs = [w.rooms EXCEPT ![n] = o.room]
  OBVIOUS
<1>6. PICK m : m = [p \in Sessions |-> IF p = o.left THEN 0 ELSE w.number[p]]
  OBVIOUS
<1>7. PICK v : v = R!Put(w, n, o)
  OBVIOUS
<1>8. /\ v.rooms = rs /\ v.parties = w.parties /\ v.party = w.party /\ v.matches = w.matches
      /\ rs \in Tables(Numbers, R!RoomType) /\ m \in [Sessions -> 0 .. MaxNumber] => v \in Worlds
  BY <1>5, <1>6, <1>7, PutParts
<1>9. DOMAIN rs = DOMAIN w.rooms
  BY <1>5
<1> QED
  BY <1>3, <1>4, <1>5, <1>6, <1>7, <1>8, <1>9 DEF RoomsOnly

LEMMA RemoveRoomRooms ==
  ASSUME NEW w \in Worlds, NEW n \in DOMAIN w.rooms
  PROVE  RoomsOnly(w, R!RemoveRoom(w, n))
<1>1. w.rooms \in Tables(Numbers, R!RoomType) /\ w.number \in [Sessions -> 0 .. MaxNumber]
      /\ w.free \in Seq(Numbers)
  BY WorldsAre
<1>2. R!Without(w.rooms, {n}) \in Tables(Numbers, R!RoomType) /\ n \in Numbers
  BY <1>1, TableWithout, TableIs
<1>3. [p \in Sessions |-> IF p \in R!Members(w.rooms[n]) THEN 0 ELSE w.number[p]]
        \in [Sessions -> 0 .. MaxNumber]
  BY <1>1, MaxNumberAssumption
<1>9. PICK rs : rs = R!Without(w.rooms, {n})
  OBVIOUS
<1>4. PICK f : f = IF n # 0 THEN Append(w.free, n) ELSE w.free
  OBVIOUS
<1>5. f \in Seq(Numbers)
  BY <1>1, <1>2, <1>4, AppendProperties
<1>6. PICK m : m = [p \in Sessions |-> IF p \in R!Members(w.rooms[n]) THEN 0 ELSE w.number[p]]
  OBVIOUS
<1>7. PICK v : v = R!RemoveRoom(w, n)
  OBVIOUS
<1>8. /\ v.parties = w.parties /\ v.party = w.party /\ v.matches = w.matches
      /\ rs \in Tables(Numbers, R!RoomType)
         /\ m \in [Sessions -> 0 .. MaxNumber] /\ f \in Seq(Numbers) => v \in Worlds
  BY <1>4, <1>6, <1>7, <1>9 DEF R!RemoveRoom, Worlds
<1> QED
  BY <1>2, <1>3, <1>5, <1>6, <1>7, <1>8, <1>9 DEF RoomsOnly

LEMMA RoomsOnlyTwice ==
  ASSUME NEW w, NEW v, NEW u, RoomsOnly(w, v), RoomsOnly(v, u)
  PROVE  RoomsOnly(w, u)
BY DEF RoomsOnly

LEMMA ClosingRooms ==
  ASSUME NEW w \in Worlds, NEW n \in DOMAIN w.rooms, NEW O \in SUBSET Outcomes
  PROVE  /\ \A v \in R!Closing(w, n, O) : RoomsOnly(w, v)
         /\ \A v \in R!NotClosing(w, n, O) : RoomsOnly(w, v) /\ DOMAIN v.rooms = DOMAIN w.rooms
         /\ O # {} => R!Closing(w, n, O) # {} /\ R!NotClosing(w, n, O) # {}
<1>1. ASSUME NEW o \in O
      PROVE  /\ RoomsOnly(w, R!Put(w, n, o)) /\ DOMAIN R!Put(w, n, o).rooms = DOMAIN w.rooms
             /\ RoomsOnly(w, R!RemoveRoom(R!Put(w, n, o), n))
  <2>1. RoomsOnly(w, R!Put(w, n, o)) /\ DOMAIN R!Put(w, n, o).rooms = DOMAIN w.rooms
    BY PutRooms
  <2>2. PICK v : v = R!Put(w, n, o)
    OBVIOUS
  <2>3. v \in Worlds /\ n \in DOMAIN v.rooms
    BY <2>1, <2>2 DEF RoomsOnly
  <2>4. RoomsOnly(v, R!RemoveRoom(v, n))
    BY <2>3, RemoveRoomRooms
  <2>5. RoomsOnly(w, R!RemoveRoom(v, n))
    BY <2>1, <2>2, <2>4, RoomsOnlyTwice
  <2> QED
    BY <2>1, <2>2, <2>5
<1> QED
  BY <1>1 DEF R!Closing, R!NotClosing

LEMMA WithStateTyped ==
  ASSUME NEW s \in Seq(R!Entries), NEW p, NEW v \in R!States
  PROVE  R!WithState(s, p, v) \in Seq(R!Entries)
<1>1. Len(s) \in Nat /\ DOMAIN s = 1 .. Len(s) /\ \A i \in DOMAIN s : s[i] \in R!Entries
  BY ListIs
<1>2. R!WithState(s, p, v) \in [1 .. Len(s) -> R!Entries]
  BY <1>1 DEF R!WithState, R!Entries
<1> QED
  BY <1>1, <1>2, FunctionIsList

LEMMA SetStateRooms ==
  ASSUME NEW w \in Worlds, NEW n \in DOMAIN w.rooms, NEW p, NEW v \in R!States
  PROVE  RoomsOnly(w, R!SetStateFor(w, n, p, v)) /\ DOMAIN R!SetStateFor(w, n, p, v).rooms = DOMAIN w.rooms
<1>1. w.rooms \in Tables(Numbers, R!RoomType) /\ w.state \in [Sessions -> R!States]
  BY WorldsAre
<1>2. DOMAIN w.rooms \subseteq Numbers /\ w.rooms \in [DOMAIN w.rooms -> R!RoomType]
  BY <1>1, TableIs
<1>3. PICK rs : rs = [w.rooms EXCEPT ![n].players = R!WithState(@, p, v),
                                     ![n].observers = R!WithState(@, p, v)]
  OBVIOUS
<1>4. w.rooms[n].players \in Seq(R!Entries) /\ w.rooms[n].observers \in Seq(R!Entries)
  BY <1>2, RoomIs
<1>5. /\ R!WithState(w.rooms[n].players, p, v) \in Seq(R!Entries)
      /\ R!WithState(w.rooms[n].observers, p, v) \in Seq(R!Entries)
  BY <1>4, WithStateTyped
<1>6. rs \in [DOMAIN w.rooms -> R!RoomType]
  <2>1. w.rooms[n] \in R!RoomType
    BY <1>2
  <2>2. PICK a \in Seq(R!Entries) : a = R!WithState(w.rooms[n].players, p, v)
    BY <1>5
  <2>3. PICK b \in Seq(R!Entries) : b = R!WithState(w.rooms[n].observers, p, v)
    BY <1>5
  <2>4. rs = [w.rooms EXCEPT ![n] = [w.rooms[n] EXCEPT !.players = a, !.observers = b]]
    BY <1>2, <1>3, <2>1, <2>2, <2>3 DEF R!RoomType
  <2>5. [w.rooms[n] EXCEPT !.players = a, !.observers = b] \in R!RoomType
    BY <2>1 DEF R!RoomType
  <2>6. PICK q \in R!RoomType : q = [w.rooms[n] EXCEPT !.players = a, !.observers = b]
    BY <2>5
  <2> QED
    BY <1>2, <2>4, <2>6
<1>7. rs \in Tables(Numbers, R!RoomType) /\ DOMAIN rs = DOMAIN w.rooms
  BY <1>2, <1>6, TableIs
<1>8. PICK st : st = IF p \in R!Members(w.rooms[n]) THEN [w.state EXCEPT ![p] = v] ELSE w.state
  OBVIOUS
<1>9. st \in [Sessions -> R!States]
  BY <1>1, <1>8
<1>10. PICK u : u = R!SetStateFor(w, n, p, v)
  OBVIOUS
<1>11. /\ u.rooms = rs /\ u.parties = w.parties /\ u.party = w.party /\ u.matches = w.matches
       /\ rs \in Tables(Numbers, R!RoomType) /\ st \in [Sessions -> R!States] => u \in Worlds
  BY <1>3, <1>8, <1>10, SetStateParts
<1> QED
  BY <1>7, <1>9, <1>10, <1>11 DEF RoomsOnly

-----------------------------------------------------------------------------
(* Membership, as a condition on parties, party numbers and clan matches.   *)

\* A session with a party number is in that party, a live member is of the
\* clan of its party, and the sides of the matches, but those in X, exist and
\* have that match.
Met(ps, p, ms, X) ==
  /\ \A s \in Sessions : p[s] # 0 =>
       <<ClanOf[s], p[s]>> \in DOMAIN ps /\ s \in Live(ps[<<ClanOf[s], p[s]>>])
  /\ \A k \in DOMAIN ps : \A s \in Live(ps[k]) : ClanOf[s] = k[1]
  /\ \A r \in DOMAIN ms \ X : \A i \in 1 .. 2 :
       ms[r][i] # NoParty => ms[r][i] \in DOMAIN ps /\ ps[ms[r][i]].match = r
\* Somebody is in a party, and nobody is live in two places of it.
Once(l) == \A i, j \in DOMAIN l : l[i].live /\ l[j] = l[i] => i = j
Fit(q) == q.players # <<>> /\ Once(q.players)
Filled(ps) == \A k \in DOMAIN ps : Fit(ps[k])

\* Nobody comes into a party, and a session that is live in its own party alone,
\* with nobody dead in it, stays so.
Shrunk(ps, qs) ==
  /\ DOMAIN qs \subseteq DOMAIN ps
  /\ \A k \in DOMAIN qs : \A i \in DOMAIN qs[k].players :
       \E j \in DOMAIN ps[k].players : qs[k].players[i] = ps[k].players[j]
Alone(w, s) == \A k \in DOMAIN w.parties :
  s \in Live(w.parties[k]) => k = OwnParty(w, s) /\ Whole(w.parties[k])
Keeps(w, v, s) == Shrunk(w.parties, v.parties) /\ (Alone(w, s) => Alone(v, s))
\* It is live nowhere then.
Absent(w, s) == \A k \in DOMAIN w.parties : s \notin Live(w.parties[k])
Parts(w, v, s) == Shrunk(w.parties, v.parties) /\ (Alone(w, s) => Absent(v, s))

\* The world after a step, of which the parties are ps, and so on.
Meets(w, X) == w \in Worlds /\ Met(w.parties, w.party, w.matches, X)
Good(w) == Meets(w, {}) /\ Filled(w.parties)

LEMMA PartyIs ==
  ASSUME NEW q \in PartyType
  PROVE  /\ q.players \in Seq(Users) /\ q.registered \in BOOLEAN /\ q.started \in BOOLEAN
         /\ q.match \in 0 .. MaxNumber
         /\ Len(q.players) \in Nat /\ DOMAIN q.players = 1 .. Len(q.players)
         /\ \A i \in DOMAIN q.players : q.players[i] \in Users /\ q.players[i].id \in Sessions
                                        /\ q.players[i].live \in BOOLEAN
         /\ (q.players # <<>>) <=> (1 \in DOMAIN q.players)
         /\ Live(q) \subseteq Sessions
<1>1. /\ q.players \in Seq(Users) /\ q.registered \in BOOLEAN /\ q.started \in BOOLEAN
      /\ q.match \in 0 .. MaxNumber
  BY DEF PartyType, Users
<1>2. /\ Len(q.players) \in Nat /\ DOMAIN q.players = 1 .. Len(q.players)
      /\ \A i \in DOMAIN q.players : q.players[i] \in Users
  BY <1>1, ListIs
<1>3. \A i \in DOMAIN q.players : q.players[i].id \in Sessions /\ q.players[i].live \in BOOLEAN
  BY <1>2 DEF Users
<1>4. (q.players # <<>>) <=> (1 \in DOMAIN q.players)
  BY <1>1, <1>2
<1>5. Live(q) \subseteq Sessions
  BY <1>3 DEF Live
<1> QED
  BY <1>1, <1>2, <1>3, <1>4, <1>5

\* Whoever is live in a party is one of its entries, and conversely.
LEMMA LiveIs ==
  ASSUME NEW q, NEW s
  PROVE  s \in Live(q) <=> \E i \in DOMAIN q.players : q.players[i].live /\ q.players[i].id = s
BY DEF Live

LEMMA MemberIs ==
  ASSUME NEW q \in PartyType, NEW s
  PROVE  /\ \A i \in DOMAIN q.players :
              q.players[i] = Member(s) <=> q.players[i].live /\ q.players[i].id = s
         /\ s \in Live(q) <=> Positions(q, s) # {}
<1>1. ASSUME NEW i \in DOMAIN q.players
      PROVE  q.players[i] = Member(s) <=> q.players[i].live /\ q.players[i].id = s
  <2>1. q.players[i] \in [id : Sessions, live : BOOLEAN]
    BY PartyIs DEF Users
  <2>2. PICK e \in [id : Sessions, live : BOOLEAN] : e = q.players[i]
    BY <2>1
  <2>3. e.live \in BOOLEAN /\ e = [id |-> e.id, live |-> e.live]
    OBVIOUS
  <2>4. e.live /\ e.id = s => e = [id |-> s, live |-> TRUE]
    BY <2>3
  <2>5. e = [id |-> s, live |-> TRUE] => e.live /\ e.id = s
    OBVIOUS
  <2> QED
    BY <2>2, <2>4, <2>5 DEF Member
<1> QED
  BY <1>1, LiveIs DEF Positions

\* The removal of a party.
LEMMA PartyRemoved ==
  ASSUME NEW ps, NEW p, NEW ms, NEW X, NEW k, Met(ps, p, ms, X),
         NEW p2, p2 = [s \in Sessions |-> IF s \in Live(ps[k]) THEN 0 ELSE p[s]],
         NEW ms2, ms2 = [r \in DOMAIN ms |-> <<Other(ms[r][1], k), Other(ms[r][2], k)>>]
  PROVE  Met(R!Without(ps, {k}), p2, ms2, X)
<1> DEFINE ps2 == R!Without(ps, {k})
<1>1. DOMAIN ps2 = DOMAIN ps \ {k} /\ \A j \in DOMAIN ps \ {k} : ps2[j] = ps[j]
  BY DEF R!Without
<1> HIDE DEF ps2
<1>2. ASSUME NEW s \in Sessions, p2[s] # 0
      PROVE  <<ClanOf[s], p2[s]>> \in DOMAIN ps2 /\ s \in Live(ps2[<<ClanOf[s], p2[s]>>])
  <2>1. p2[s] = p[s] /\ s \notin Live(ps[k])
    BY <1>2
  <2>2. <<ClanOf[s], p[s]>> \in DOMAIN ps /\ s \in Live(ps[<<ClanOf[s], p[s]>>])
    BY <1>2, <2>1 DEF Met
  <2>3. <<ClanOf[s], p[s]>> # k
    BY <2>1, <2>2
  <2> QED
    BY <1>1, <2>1, <2>2, <2>3
<1>3. \A j \in DOMAIN ps2 : \A s \in Live(ps2[j]) : ClanOf[s] = j[1]
  BY <1>1 DEF Met
<1>4. ASSUME NEW r \in DOMAIN ms2 \ X, NEW i \in 1 .. 2, ms2[r][i] # NoParty
      PROVE  ms2[r][i] \in DOMAIN ps2 /\ ps2[ms2[r][i]].match = r
  <2>1. ms2[r][i] = Other(ms[r][i], k) /\ r \in DOMAIN ms \ X
    <3>1. ms2[r] = <<Other(ms[r][1], k), Other(ms[r][2], k)>> /\ r \in DOMAIN ms \ X
      BY <1>4
    <3>2. i = 1 \/ i = 2
      BY <1>4
    <3> QED
      BY <3>1, <3>2
  <2>2. ms2[r][i] = ms[r][i] /\ ms[r][i] # k
    BY <1>4, <2>1 DEF Other
  <2>3. ms[r][i] \in DOMAIN ps /\ ps[ms[r][i]].match = r
    BY <1>4, <2>1, <2>2 DEF Met
  <2> QED
    BY <1>1, <2>2, <2>3
<1> QED
  BY <1>2, <1>3, <1>4 DEF Met, ps2

\* A party whose members change, its match staying.
LEMMA PartyChanged ==
  ASSUME NEW ps, NEW p, NEW ms, NEW X, NEW k \in DOMAIN ps, NEW ps2, NEW q, Met(ps, p, ms, X),
         DOMAIN ps2 = DOMAIN ps, ps2[k] = q, \A j \in DOMAIN ps : j # k => ps2[j] = ps[j],
         q.match = ps[k].match, \A s \in Live(q) : ClanOf[s] = k[1],
         NEW p2,
         \A s \in Sessions : p2[s] # 0 =>
           \/ <<ClanOf[s], p2[s]>> = k /\ s \in Live(q)
           \/ p2[s] = p[s] /\ <<ClanOf[s], p2[s]>> # k
  PROVE  Met(ps2, p2, ms, X)
<1>1. DOMAIN ps2 = DOMAIN ps /\ ps2[k] = q /\ \A j \in DOMAIN ps \ {k} : ps2[j] = ps[j]
  OBVIOUS
<1>2. ASSUME NEW s \in Sessions, p2[s] # 0
      PROVE  <<ClanOf[s], p2[s]>> \in DOMAIN ps2 /\ s \in Live(ps2[<<ClanOf[s], p2[s]>>])
  <2>1. CASE <<ClanOf[s], p2[s]>> = k /\ s \in Live(q)
    BY <1>1, <2>1
  <2>2. CASE p2[s] = p[s] /\ <<ClanOf[s], p2[s]>> # k
    <3>1. <<ClanOf[s], p[s]>> \in DOMAIN ps /\ s \in Live(ps[<<ClanOf[s], p[s]>>])
      BY <1>2, <2>2 DEF Met
    <3> QED
      BY <1>1, <2>2, <3>1
  <2> QED
    BY <1>2, <2>1, <2>2
<1>3. ASSUME NEW j \in DOMAIN ps2, NEW s \in Live(ps2[j])
      PROVE  ClanOf[s] = j[1]
  <2>1. CASE j = k
    BY <1>1, <2>1
  <2>2. CASE j # k
    BY <1>1, <2>2 DEF Met
  <2> QED
    BY <2>1, <2>2
<1>4. ASSUME NEW r \in DOMAIN ms \ X, NEW i \in 1 .. 2, ms[r][i] # NoParty
      PROVE  ms[r][i] \in DOMAIN ps2 /\ ps2[ms[r][i]].match = r
  <2>1. ms[r][i] \in DOMAIN ps /\ ps[ms[r][i]].match = r
    BY <1>4 DEF Met
  <2>2. CASE ms[r][i] = k
    BY <1>1, <2>1, <2>2
  <2>3. CASE ms[r][i] # k
    BY <1>1, <2>1, <2>3
  <2> QED
    BY <2>2, <2>3
<1> QED
  BY <1>2, <1>3, <1>4 DEF Met

\* A party that is no side of the matches outside X may change its match.
LEMMA MatchChanged ==
  ASSUME NEW ps, NEW p, NEW ms, NEW X, NEW k, NEW ps2, Met(ps, p, ms, X),
         DOMAIN ps2 = DOMAIN ps, \A j \in DOMAIN ps : j # k => ps2[j] = ps[j],
         k \in DOMAIN ps => Live(ps2[k]) = Live(ps[k]),
         \A r \in DOMAIN ms \ X : \A i \in 1 .. 2 : ms[r][i] # NoParty => ms[r][i] # k
  PROVE  Met(ps2, p, ms, X)
<1>1. \A j \in DOMAIN ps : Live(ps2[j]) = Live(ps[j])
  OBVIOUS
<1> QED
  BY <1>1 DEF Met

-----------------------------------------------------------------------------
(* Members that leave, and the worlds after the operators of PartiesManager. *)

LEMMA SwapOutHas ==
  ASSUME NEW D, NEW s \in Seq(D), NEW k \in DOMAIN s, NEW t, t = R!SwapOut(s, k)
  PROVE  /\ \A i \in DOMAIN t : \E j \in DOMAIN s : t[i] = s[j]
         /\ \A j \in DOMAIN s : j # k => \E i \in DOMAIN t : t[i] = s[j]
<1>1. /\ DOMAIN t = 1 .. Len(s) - 1
      /\ \A i \in 1 .. Len(s) - 1 : t[i] = IF i = k THEN s[Len(s)] ELSE s[i]
  BY SwapOutTyped
<1>2. Len(s) \in Nat /\ DOMAIN s = 1 .. Len(s)
  BY ListIs
<1>3. ASSUME NEW i \in DOMAIN t
      PROVE  \E j \in DOMAIN s : t[i] = s[j]
  <2>1. Len(s) \in DOMAIN s /\ i \in DOMAIN s
    BY <1>1, <1>2
  <2> QED
    BY <1>1, <2>1
<1>4. ASSUME NEW j \in DOMAIN s, j # k
      PROVE  \E i \in DOMAIN t : t[i] = s[j]
  <2>1. CASE j = Len(s)
    <3>1. k \in DOMAIN t /\ t[k] = s[j]
      BY <1>1, <1>2, <1>4, <2>1
    <3> QED
      BY <3>1
  <2>2. CASE j # Len(s)
    <3>1. j \in DOMAIN t /\ t[j] = s[j]
      BY <1>1, <1>2, <1>4, <2>2
    <3> QED
      BY <3>1
  <2> QED
    BY <2>1, <2>2
<1> QED
  BY <1>3, <1>4

LEMMA SwapHas ==
  ASSUME NEW D, NEW s \in Seq(D), NEW k \in DOMAIN s, NEW t, t = R!SwapWithFirst(s, k)
  PROVE  /\ \A i \in DOMAIN t : \E j \in DOMAIN s : t[i] = s[j]
         /\ \A j \in DOMAIN s : \E i \in DOMAIN t : t[i] = s[j]
<1>1. DOMAIN t = DOMAIN s /\ t[1] = s[k] /\ t[k] = s[1] /\ 1 \in DOMAIN s
  BY SwapTyped, ListIs
<1>2. \A i \in DOMAIN s \ {1, k} : t[i] = s[i]
  BY SwapTyped
<1>3. ASSUME NEW i \in DOMAIN s
      PROVE  (\E j \in DOMAIN s : t[i] = s[j]) /\ (\E j \in DOMAIN s : t[j] = s[i])
  <2>1. CASE i = 1
    BY <1>1, <2>1
  <2>2. CASE i = k
    BY <1>1, <2>2
  <2>3. CASE i # 1 /\ i # k
    BY <1>2, <2>3
  <2> QED
    BY <2>1, <2>2, <2>3
<1> QED
  BY <1>1, <1>3

\* Neither makes two of one live entry, and what is dropped is gone.
LEMMA SwapOutOnce ==
  ASSUME NEW D, NEW s \in Seq(D), NEW k \in DOMAIN s, NEW t, t = R!SwapOut(s, k), Once(s)
  PROVE  Once(t) /\ (s[k].live => \A i \in DOMAIN t : t[i] # s[k])
<1>1. /\ DOMAIN t = 1 .. Len(s) - 1
      /\ \A i \in 1 .. Len(s) - 1 : t[i] = IF i = k THEN s[Len(s)] ELSE s[i]
  BY SwapOutTyped
<1>2. Len(s) \in Nat /\ DOMAIN s = 1 .. Len(s)
  BY ListIs
<1> DEFINE g(i) == IF i = k THEN Len(s) ELSE i
<1>3. ASSUME NEW i \in DOMAIN t
      PROVE  g(i) \in DOMAIN s /\ g(i) # k /\ t[i] = s[g(i)]
  BY <1>1, <1>2
<1>4. \A i, j \in DOMAIN t : g(i) = g(j) => i = j
  BY <1>1, <1>2
<1> HIDE DEF g
<1>5. Once(t)
  BY <1>3, <1>4 DEF Once
<1>6. s[k].live => \A i \in DOMAIN t : t[i] # s[k]
  BY <1>3 DEF Once
<1> QED
  BY <1>5, <1>6

LEMMA SwapOnce ==
  ASSUME NEW D, NEW s \in Seq(D), NEW k \in DOMAIN s, NEW t, t = R!SwapWithFirst(s, k), Once(s)
  PROVE  Once(t)
<1>1. DOMAIN t = DOMAIN s /\ t[1] = s[k] /\ t[k] = s[1] /\ 1 \in DOMAIN s
  BY SwapTyped, ListIs
<1>2. \A i \in DOMAIN s \ {1, k} : t[i] = s[i]
  BY SwapTyped
<1> DEFINE g(i) == IF i = k THEN 1 ELSE IF i = 1 THEN k ELSE i
<1>3. ASSUME NEW i \in DOMAIN t
      PROVE  g(i) \in DOMAIN s /\ t[i] = s[g(i)]
  BY <1>1, <1>2
<1>4. \A i, j \in DOMAIN t : g(i) = g(j) => i = j
  OBVIOUS
<1> HIDE DEF g
<1> QED
  BY <1>3, <1>4 DEF Once

LEMMA SuccessorIs ==
  ASSUME NEW q \in PartyType, Successors(q) # {}
  PROVE  Successor(q) \in Successors(q)
<1>1. Successors(q) \in SUBSET Nat
  BY PartyIs DEF Successors
<1>2. \E i \in Successors(q) : \A j \in Successors(q) : i <= j
  BY <1>1, LeastNatural
<1> QED
  BY <1>2 DEF Successor

\* Only the one who leaves goes.
LEMMA WithoutMemberIs ==
  ASSUME NEW q \in PartyType, NEW s, CanLose(q, s), NEW t, t = WithoutMember(q, s)
  PROVE  /\ t \in Seq(Users)
         /\ \A i \in DOMAIN t : \E j \in DOMAIN q.players : t[i] = q.players[j]
         /\ \A j \in DOMAIN q.players : q.players[j] # Member(s) => \E i \in DOMAIN t : t[i] = q.players[j]
         /\ Once(q.players) => Once(t) /\ \A i \in DOMAIN t : t[i] # Member(s)
<1>1. q.players \in Seq(Users) /\ Len(q.players) \in Nat
  BY PartyIs
<1>2. PICK l \in Seq(Users) : l = q.players
  BY <1>1
<1>3. PICK i : i = R!The(Positions(q, s))
  OBVIOUS
<1>4. i \in DOMAIN l /\ l[i] = Member(s)
  <2>1. Positions(q, s) # {}
    BY MemberIs DEF CanLose
  <2>2. i \in Positions(q, s)
    BY <1>3, <2>1 DEF R!The
  <2> QED
    BY <1>2, <2>2 DEF Positions
<1>0. Member(s).live
  BY DEF Member
<1>5. CASE Leads(q, s) /\ Len(l) > 1
  <2>1. PICK j : j = Successor(q)
    OBVIOUS
  <2>2. j \in DOMAIN l \ {1}
    BY <1>2, <1>5, <2>1, SuccessorIs DEF CanLose, Successors
  <2>3. PICK u \in Seq(Users) : u = R!SwapWithFirst(l, j) /\ DOMAIN u = DOMAIN l /\ u[j] = l[1]
    BY <2>2, SwapTyped
  <2>4. t = R!SwapOut(u, j)
    BY <1>2, <1>5, <2>1, <2>3 DEF WithoutMember
  <2>5. l[1] = Member(s)
    BY <1>2, <1>5 DEF Leads
  <2>6. j \in DOMAIN u
    BY <2>2, <2>3
  <2>7. t \in Seq(Users)
    BY <2>4, <2>6, SwapOutTyped
  <2>8. /\ \A x \in DOMAIN u : \E y \in DOMAIN l : u[x] = l[y]
        /\ \A y \in DOMAIN l : \E x \in DOMAIN u : u[x] = l[y]
    <3>1. j \in DOMAIN l /\ u = R!SwapWithFirst(l, j)
      BY <2>2, <2>3
    <3> QED
      BY <3>1, SwapHas
  <2>9. /\ \A x \in DOMAIN t : \E y \in DOMAIN u : t[x] = u[y]
        /\ \A y \in DOMAIN u : y # j => \E x \in DOMAIN t : t[x] = u[y]
    BY <2>4, <2>6, SwapOutHas
  <2>10. \A x \in DOMAIN t : \E y \in DOMAIN l : t[x] = l[y]
    BY <2>8, <2>9
  <2>11. \A y \in DOMAIN l : l[y] # Member(s) => \E x \in DOMAIN t : t[x] = l[y]
    <3>1. SUFFICES ASSUME NEW y \in DOMAIN l, l[y] # Member(s)
                   PROVE  \E x \in DOMAIN t : t[x] = l[y]
      OBVIOUS
    <3>2. PICK z \in DOMAIN u : u[z] = l[y]
      BY <2>8
    <3>3. z # j
      BY <2>3, <2>5, <3>1, <3>2
    <3> QED
      BY <2>9, <3>2, <3>3
  <2>12. Once(l) => Once(t) /\ \A x \in DOMAIN t : t[x] # Member(s)
    <3>1. j \in DOMAIN l /\ u = R!SwapWithFirst(l, j)
      BY <2>2, <2>3
    <3>2. Once(l) => Once(u)
      BY <3>1, SwapOnce
    <3>3. Once(u) => Once(t) /\ (u[j].live => \A x \in DOMAIN t : t[x] # u[j])
      BY <2>4, <2>6, SwapOutOnce
    <3> QED
      BY <1>0, <2>3, <2>5, <3>2, <3>3
  <2> QED
    BY <1>2, <2>7, <2>10, <2>11, <2>12
<1>6. CASE ~(Leads(q, s) /\ Len(l) > 1)
  <2>1. t = R!SwapOut(l, i)
    BY <1>2, <1>3, <1>6 DEF WithoutMember
  <2>2. t \in Seq(Users)
    BY <1>4, <2>1, SwapOutTyped
  <2>3. /\ \A x \in DOMAIN t : \E y \in DOMAIN l : t[x] = l[y]
        /\ \A y \in DOMAIN l : y # i => \E x \in DOMAIN t : t[x] = l[y]
    BY <1>4, <2>1, SwapOutHas
  <2>4. Once(l) => Once(t) /\ \A x \in DOMAIN t : t[x] # Member(s)
    <3>1. Once(l) => Once(t) /\ (l[i].live => \A x \in DOMAIN t : t[x] # l[i])
      BY <1>4, <2>1, SwapOutOnce
    <3> QED
      BY <1>0, <1>4, <3>1
  <2> QED
    BY <1>2, <1>4, <2>2, <2>3, <2>4
<1> QED
  BY <1>5, <1>6

LEMMA ShrunkTwice ==
  ASSUME NEW ps, NEW qs, NEW us, Shrunk(ps, qs), Shrunk(qs, us)
  PROVE  Shrunk(ps, us)
<1>1. DOMAIN us \subseteq DOMAIN ps
  BY DEF Shrunk
<1>2. ASSUME NEW k \in DOMAIN us, NEW i \in DOMAIN us[k].players
      PROVE  \E j \in DOMAIN ps[k].players : us[k].players[i] = ps[k].players[j]
  <2>1. PICK h \in DOMAIN qs[k].players : us[k].players[i] = qs[k].players[h]
    BY <1>2 DEF Shrunk
  <2>2. k \in DOMAIN qs
    BY <1>2 DEF Shrunk
  <2>3. PICK j \in DOMAIN ps[k].players : qs[k].players[h] = ps[k].players[j]
    BY <2>1, <2>2 DEF Shrunk
  <2> QED
    BY <2>1, <2>3
<1> QED
  BY <1>1, <1>2 DEF Shrunk

LEMMA KeepsTwice ==
  ASSUME NEW w, NEW v, NEW u, NEW s, Keeps(w, v, s), Keeps(v, u, s)
  PROVE  Keeps(w, u, s)
BY ShrunkTwice DEF Keeps

LEMMA ShrunkAbsent ==
  ASSUME NEW w, NEW v, NEW s, Shrunk(w.parties, v.parties), Absent(w, s)
  PROVE  Absent(v, s)
<1>1. SUFFICES ASSUME NEW k \in DOMAIN v.parties, s \in Live(v.parties[k])
               PROVE  FALSE
  BY DEF Absent
<1>2. PICK i \in DOMAIN v.parties[k].players :
        v.parties[k].players[i].live /\ v.parties[k].players[i].id = s
  BY <1>1, LiveIs
<1>3. k \in DOMAIN w.parties
      /\ \E j \in DOMAIN w.parties[k].players : v.parties[k].players[i] = w.parties[k].players[j]
  BY <1>1, <1>2 DEF Shrunk
<1>4. s \in Live(w.parties[k])
  BY <1>2, <1>3, LiveIs
<1> QED
  BY <1>3, <1>4 DEF Absent

\* Leaving, and a step before or after it.
LEMMA KeepsParts ==
  ASSUME NEW w, NEW v, NEW u, NEW s, Keeps(w, v, s), Parts(v, u, s)
  PROVE  Parts(w, u, s)
BY ShrunkTwice DEF Keeps, Parts

LEMMA PartsKeeps ==
  ASSUME NEW w, NEW v, NEW u, NEW s, Parts(w, v, s), Shrunk(v.parties, u.parties)
  PROVE  Parts(w, u, s)
BY ShrunkTwice, ShrunkAbsent DEF Parts

LEMMA PartsIsKeeps ==
  ASSUME NEW w, NEW v, NEW s, Parts(w, v, s)
  PROVE  Keeps(w, v, s)
BY DEF Parts, Keeps, Absent, Alone

\* The parties are the same, whatever matches they have.
LEMMA SameKeeps ==
  ASSUME NEW w, NEW v, NEW s, DOMAIN v.parties = DOMAIN w.parties, v.party = w.party,
         \A k \in DOMAIN w.parties : v.parties[k].players = w.parties[k].players
  PROVE  Keeps(w, v, s)
<1>1. Shrunk(w.parties, v.parties)
  BY DEF Shrunk
<1>2. \A k \in DOMAIN w.parties :
        Live(v.parties[k]) = Live(w.parties[k]) /\ (Whole(w.parties[k]) => Whole(v.parties[k]))
  BY DEF Live, Whole
<1>3. OwnParty(v, s) = OwnParty(w, s)
  BY DEF OwnParty
<1>4. Alone(w, s) => Alone(v, s)
  BY <1>2, <1>3 DEF Alone
<1> QED
  BY <1>1, <1>4 DEF Keeps

\* A party goes, and whoever is live in it is in no party then.
LEMMA PartyGoneKeeps ==
  ASSUME NEW w, NEW v, NEW s, NEW k \in DOMAIN w.parties,
         DOMAIN v.parties = DOMAIN w.parties \ {k},
         \A j \in DOMAIN w.parties \ {k} : v.parties[j] = w.parties[j],
         v.party[s] = IF s \in Live(w.parties[k]) THEN 0 ELSE w.party[s]
  PROVE  Keeps(w, v, s)
<1>1. Shrunk(w.parties, v.parties)
  BY DEF Shrunk
<1>2. ASSUME Alone(w, s), NEW j \in DOMAIN v.parties, s \in Live(v.parties[j])
      PROVE  j = OwnParty(v, s) /\ Whole(v.parties[j])
  <2>1. j \in DOMAIN w.parties /\ j # k /\ v.parties[j] = w.parties[j]
    OBVIOUS
  <2>2. j = OwnParty(w, s) /\ Whole(w.parties[j])
    BY <1>2, <2>1 DEF Alone
  <2>3. s \notin Live(w.parties[k])
    BY <1>2, <2>1, <2>2 DEF Alone
  <2>4. OwnParty(v, s) = OwnParty(w, s)
    BY <2>3 DEF OwnParty
  <2> QED
    BY <2>1, <2>2, <2>4
<1>3. Alone(w, s) => Alone(v, s)
  BY <1>2 DEF Alone
<1> QED
  BY <1>1, <1>3 DEF Keeps

\* The parts of a world that a party's removal leaves.
LEMMA RemovePartyIs ==
  ASSUME NEW w \in Worlds, NEW k, NEW X, Met(w.parties, w.party, w.matches, X),
         NEW v, v = RemoveParty(w, k)
  PROVE  /\ Meets(v, X) /\ v.rooms = w.rooms /\ DOMAIN v.matches = DOMAIN w.matches
         /\ (\A j \in DOMAIN w.parties \ {k} : Fit(w.parties[j])) => Filled(v.parties)
         /\ k \in DOMAIN w.parties => \A s \in Sessions : Keeps(w, v, s)
<1>1. PICK m : m = [s \in Sessions |-> IF s \in Live(w.parties[k]) THEN 0 ELSE w.number[s]]
  OBVIOUS
<1>2. PICK p : p = [s \in Sessions |-> IF s \in Live(w.parties[k]) THEN 0 ELSE w.party[s]]
  OBVIOUS
<1>3. PICK ps : ps = R!Without(w.parties, {k})
  OBVIOUS
<1>4. PICK ms : ms = [r \in DOMAIN w.matches |-> <<Other(w.matches[r][1], k), Other(w.matches[r][2], k)>>]
  OBVIOUS
<1>0. v = [[[[w EXCEPT !.number = m] EXCEPT !.party = p] EXCEPT !.parties = ps] EXCEPT !.matches = ms]
  BY <1>1, <1>2, <1>3, <1>4 DEF RemoveParty, Worlds
<1>5. /\ v.parties = ps /\ v.party = p /\ v.matches = ms /\ v.rooms = w.rooms
  BY <1>0 DEF Worlds
<1>6. m \in [Sessions -> 0 .. MaxNumber] /\ p \in [Sessions -> 0 .. MaxParties]
  <2>1. /\ w.number \in [Sessions -> 0 .. MaxNumber] /\ w.party \in [Sessions -> 0 .. MaxParties]
        /\ MaxNumber \in Nat /\ MaxParties \in Nat
    BY WorldsAre, MaxNumberAssumption, SizesAssumption
  <2>2. m \in [Sessions -> 0 .. MaxNumber]
    BY <1>1, <2>1
  <2>3. p \in [Sessions -> 0 .. MaxParties]
    BY <1>2, <2>1
  <2> QED
    BY <2>2, <2>3
<1>7. ps \in Tables(Keys, PartyType) /\ DOMAIN ps = DOMAIN w.parties \ {k}
      /\ \A j \in DOMAIN w.parties \ {k} : ps[j] = w.parties[j]
  <2>1. w.parties \in Tables(Keys, PartyType)
    BY WorldsAre
  <2>2. /\ R!Without(w.parties, {k}) \in Tables(Keys, PartyType)
        /\ DOMAIN R!Without(w.parties, {k}) = DOMAIN w.parties \ {k}
    BY <2>1, TableWithout
  <2>3. \A j \in DOMAIN w.parties \ {k} : R!Without(w.parties, {k})[j] = w.parties[j]
    BY DEF R!Without
  <2> QED
    BY <1>3, <2>2, <2>3
<1>8. ms \in Tables(Numbers, Side \X Side) /\ DOMAIN ms = DOMAIN w.matches
  <2>1. DOMAIN w.matches \subseteq Numbers /\ w.matches \in [DOMAIN w.matches -> Side \X Side]
    BY WorldsAre, TableIs
  <2>2. \A x : \A y \in Side : Other(y, x) \in Side
    BY DEF Other, Side
  <2>3. ms \in [DOMAIN w.matches -> Side \X Side]
    BY <1>4, <2>1, <2>2
  <2> QED
    BY <2>1, <2>3, TableIs
<1>9. Met(ps, p, ms, X)
  BY <1>2, <1>3, <1>4, PartyRemoved
<1>10. (\A j \in DOMAIN w.parties \ {k} : Fit(w.parties[j])) => Filled(ps)
  BY <1>7 DEF Filled
<1>11. v \in Worlds
  BY <1>0, <1>6, <1>7, <1>8 DEF Worlds
<1>12. ASSUME NEW s \in Sessions, k \in DOMAIN w.parties
       PROVE  Keeps(w, v, s)
  <2>1. p[s] = IF s \in Live(w.parties[k]) THEN 0 ELSE w.party[s]
    BY <1>2
  <2> QED
    BY <1>5, <1>7, <1>12, <2>1, PartyGoneKeeps
<1> QED
  BY <1>3, <1>5, <1>7, <1>8, <1>9, <1>10, <1>11, <1>12 DEF Meets

\* setClanMatchRoomNumber: the party has the match, and nothing else moves.
LEMMA SetMatchIs ==
  ASSUME NEW w \in Worlds, NEW k \in Side, NEW r \in 0 .. MaxNumber, NEW X,
         Met(w.parties, w.party, w.matches, X),
         \A n \in DOMAIN w.matches \ X : \A i \in 1 .. 2 :
           w.matches[n][i] # NoParty => w.matches[n][i] # k,
         NEW v, v = SetMatch(w, k, r)
  PROVE  /\ Meets(v, X) /\ v.matches = w.matches /\ v.rooms = w.rooms /\ v.party = w.party
         /\ DOMAIN v.parties = DOMAIN w.parties
         /\ \A j \in DOMAIN w.parties : v.parties[j].players = w.parties[j].players
         /\ \A j \in DOMAIN w.parties : j # k => v.parties[j].match = w.parties[j].match
         /\ k \in DOMAIN w.parties => v.parties[k].match = r
<1>1. w.parties \in Tables(Keys, PartyType)
  BY WorldsAre
<1>2. DOMAIN w.parties \subseteq Keys /\ w.parties \in [DOMAIN w.parties -> PartyType]
  BY <1>1, TableIs
<1>3. CASE k = NoParty
  <2>1. v = w
    BY <1>3 DEF SetMatch
  <2>2. k \notin DOMAIN w.parties
    BY <1>2, <1>3, NoPartyAssumption DEF Keys
  <2> QED
    BY <2>1, <2>2 DEF Meets
<1>4. CASE k # NoParty
  <2>1. PICK m : m = [s \in Sessions |-> IF s \in Live(w.parties[k]) THEN r ELSE w.number[s]]
    OBVIOUS
  <2>2. PICK b : b = (w.parties[k].registered /\ (r # 0 \/ Live(w.parties[k]) = {}))
    OBVIOUS
  <2>3. PICK q : q = [[w.parties[k] EXCEPT !.match = r] EXCEPT !.registered = b]
    OBVIOUS
  <2>4. PICK ps : ps = [w.parties EXCEPT ![k] = q]
    OBVIOUS
  <2>5. v = [[w EXCEPT !.parties = ps] EXCEPT !.number = m]
    <3>1. PICK e : e = [w.parties EXCEPT ![k].match = r,
                                 ![k].registered = @ /\ (r # 0 \/ Live(w.parties[k]) = {})]
      OBVIOUS
    <3>2. v = [[w EXCEPT !.parties = e] EXCEPT !.number = m]
      <4>1. PICK e1 : e1 = [w.parties EXCEPT ![k].match = r]
        OBVIOUS
      <4>2. PICK w1 : w1 = [w EXCEPT !.parties = e1]
        OBVIOUS
      <4>3. w1.parties = e1
        BY <4>2 DEF Worlds
      <4>4. v = [[w1 EXCEPT !.parties = [w1.parties EXCEPT ![k] = [w1.parties[k] EXCEPT !.registered = b]]]
                   EXCEPT !.number = m]
        BY <1>4, <2>1, <2>2, <4>1, <4>2 DEF SetMatch
      <4>5. e = [e1 EXCEPT ![k] = [e1[k] EXCEPT !.registered = b]]
        BY <2>2, <3>1, <4>1
      <4>6. v = [[w1 EXCEPT !.parties = e] EXCEPT !.number = m]
        BY <4>3, <4>4, <4>5
      <4>7. [w1 EXCEPT !.parties = e] = [w EXCEPT !.parties = e]
        BY <4>2 DEF Worlds
      <4> QED
        BY <4>6, <4>7
    <3>3. CASE k \in DOMAIN w.parties
      <4>1. w.parties[k] \in PartyType
        BY <1>2, <3>3
      <4>2. e = ps
        BY <1>2, <2>2, <2>3, <2>4, <3>1, <3>3, <4>1 DEF PartyType
      <4> QED
        BY <3>2, <4>2
    <3>4. CASE k \notin DOMAIN w.parties
      <4>1. e = w.parties /\ ps = w.parties
        BY <1>2, <2>4, <3>1, <3>4
      <4> QED
        BY <3>2, <4>1
    <3> QED
      BY <3>3, <3>4
  <2>6. m \in [Sessions -> 0 .. MaxNumber]
    <3>1. w.number \in [Sessions -> 0 .. MaxNumber]
      BY WorldsAre
    <3> QED
      BY <2>1, <3>1
  <2>7. ASSUME k \in DOMAIN w.parties
        PROVE  q \in PartyType /\ q.match = r /\ q.players = w.parties[k].players
    <3>1. w.parties[k] \in PartyType /\ b \in BOOLEAN
      BY <1>2, <2>2, <2>7
    <3> QED
      BY <2>3, <3>1 DEF PartyType
  <2>8. ps \in Tables(Keys, PartyType) /\ DOMAIN ps = DOMAIN w.parties
    <3>1. DOMAIN ps = DOMAIN w.parties
      BY <2>4
    <3>2. ps \in [DOMAIN w.parties -> PartyType]
      BY <1>2, <2>4, <2>7
    <3> QED
      BY <1>2, <3>1, <3>2, TableIs
  <2>9. v \in Worlds /\ v.parties = ps /\ v.party = w.party /\ v.matches = w.matches /\ v.rooms = w.rooms
    BY <2>5, <2>6, <2>8 DEF Worlds
  <2>10. k \in DOMAIN w.parties => Live(q) = Live(w.parties[k])
    BY <2>7 DEF Live
  <2>12. \A j \in DOMAIN w.parties : j # k => ps[j] = w.parties[j]
    BY <2>4
  <2>13. k \in DOMAIN w.parties => ps[k] = q
    BY <2>4
  <2>11. Met(ps, w.party, w.matches, X)
    <3>1. k \in DOMAIN w.parties => Live(ps[k]) = Live(w.parties[k])
      BY <2>10, <2>13
    <3>2. DOMAIN ps = DOMAIN w.parties
      BY <2>8
    <3>3. PICK p : p = w.party
      OBVIOUS
    <3>4. PICK ms : ms = w.matches
      OBVIOUS
    <3>5. PICK o : o = w.parties
      OBVIOUS
    <3>6. Met(o, p, ms, X) /\ \A n \in DOMAIN ms \ X : \A i \in 1 .. 2 : ms[n][i] # NoParty => ms[n][i] # k
      BY <3>3, <3>4, <3>5
    <3>7. DOMAIN ps = DOMAIN o /\ (\A j \in DOMAIN o : j # k => ps[j] = o[j])
          /\ (k \in DOMAIN o => Live(ps[k]) = Live(o[k]))
      BY <2>12, <3>1, <3>2, <3>5
    <3>8. Met(ps, p, ms, X)
      BY <3>6, <3>7, MatchChanged
    <3> QED
      BY <3>3, <3>4, <3>8
  <2> QED
    BY <2>7, <2>8, <2>9, <2>11, <2>12, <2>13 DEF Meets
<1> QED
  BY <1>3, <1>4

Apart(w, k, X) == \A n \in DOMAIN w.matches \ X : \A i \in 1 .. 2 :
  w.matches[n][i] # NoParty => w.matches[n][i] # k
\* Party k, if it is one, has match r; nobody's players change.
MatchSet(w, v, k, r) ==
  /\ v.matches = w.matches /\ DOMAIN v.parties = DOMAIN w.parties
  /\ \A j \in DOMAIN w.parties : v.parties[j].players = w.parties[j].players
  /\ \A j \in DOMAIN w.parties : j # k => v.parties[j].match = w.parties[j].match
  /\ k \in DOMAIN w.parties => v.parties[k].match = r

LEMMA SetMatchSets ==
  ASSUME NEW w, NEW k \in Side, NEW r \in 0 .. MaxNumber, NEW X, Meets(w, X), Apart(w, k, X),
         NEW v, v = SetMatch(w, k, r)
  PROVE  Meets(v, X) /\ MatchSet(w, v, k, r)
<1>1. w \in Worlds /\ Met(w.parties, w.party, w.matches, X)
  BY DEF Meets
<1>2. \A n \in DOMAIN w.matches \ X : \A i \in 1 .. 2 :
        w.matches[n][i] # NoParty => w.matches[n][i] # k
  BY DEF Apart
<1>3. /\ Meets(v, X) /\ v.matches = w.matches /\ DOMAIN v.parties = DOMAIN w.parties
      /\ \A j \in DOMAIN w.parties : v.parties[j].players = w.parties[j].players
      /\ \A j \in DOMAIN w.parties : j # k => v.parties[j].match = w.parties[j].match
      /\ k \in DOMAIN w.parties => v.parties[k].match = r
  BY <1>1, <1>2, SetMatchIs
<1> QED
  BY <1>3 DEF MatchSet

LEMMA KeepsFilled ==
  ASSUME NEW ps, NEW ps2, Filled(ps), DOMAIN ps2 = DOMAIN ps,
         \A j \in DOMAIN ps : ps2[j].players = ps[j].players
  PROVE  Filled(ps2)
BY DEF Filled, Fit

\* The matches but r, of which nothing was asked.
LEMMA MatchForgotten ==
  ASSUME NEW ps, NEW p, NEW ms, NEW r, Met(ps, p, ms, {r})
  PROVE  Met(ps, p, R!Without(ms, {r}), {})
<1>1. DOMAIN R!Without(ms, {r}) = DOMAIN ms \ {r}
  BY DEF R!Without
<1>2. \A n \in DOMAIN ms \ {r} : R!Without(ms, {r})[n] = ms[n]
  BY DEF R!Without
<1>3. PICK f : f = R!Without(ms, {r})
  OBVIOUS
<1>4. \A n \in DOMAIN f \ {} : n \in DOMAIN ms \ {r} /\ f[n] = ms[n]
  BY <1>1, <1>2, <1>3
<1>5. \A n \in DOMAIN f \ {} : \A i \in 1 .. 2 :
        f[n][i] # NoParty => f[n][i] \in DOMAIN ps /\ ps[f[n][i]].match = n
  BY <1>4 DEF Met
<1>6. Met(ps, p, f, {})
  BY <1>5 DEF Met
<1> QED
  BY <1>3, <1>6

LEMMA SidesAre ==
  ASSUME NEW w \in Worlds, NEW r \in DOMAIN w.matches
  PROVE  r \in Numbers /\ w.matches[r][1] \in Side /\ w.matches[r][2] \in Side
<1>1. w.matches \in Tables(Numbers, Side \X Side)
  BY WorldsAre
<1>2. DOMAIN w.matches \subseteq Numbers /\ w.matches \in [DOMAIN w.matches -> Side \X Side]
  BY <1>1, TableIs
<1> QED
  BY <1>2

\* removeClanMatch.
LEMMA RemoveMatchGood ==
  ASSUME NEW w, Good(w), NEW r \in DOMAIN w.matches, NEW b \in BOOLEAN,
         NEW v, v = RemoveMatch(w, r, b)
  PROVE  Good(v) /\ v.rooms = w.rooms /\ \A s \in Sessions : Keeps(w, v, s)
<1>1. PICK k1 : k1 = w.matches[r][1]
  OBVIOUS
<1>2. PICK k2 : k2 = w.matches[r][2]
  OBVIOUS
<1>3. w \in Worlds /\ Met(w.parties, w.party, w.matches, {}) /\ Filled(w.parties)
  BY DEF Good, Meets
<1>4. Met(w.parties, w.party, w.matches, {r})
  BY <1>3 DEF Met
<1>5. /\ \A n \in DOMAIN w.matches \ {r} : \A j \in 1 .. 2 :
           w.matches[n][j] # NoParty => w.matches[n][j] # k1
      /\ \A n \in DOMAIN w.matches \ {r} : \A j \in 1 .. 2 :
           w.matches[n][j] # NoParty => w.matches[n][j] # k2
  BY <1>1, <1>2, <1>3 DEF Met
<1>6. k1 \in Side /\ k2 \in Side /\ 0 \in 0 .. MaxNumber
  BY <1>1, <1>2, <1>3, SidesAre, MaxNumberAssumption
<1>7. PICK a : a = SetMatch(w, k1, 0)
  OBVIOUS
<1>8. /\ Meets(a, {r}) /\ a.matches = w.matches /\ a.rooms = w.rooms /\ a.party = w.party
      /\ DOMAIN a.parties = DOMAIN w.parties
      /\ \A j \in DOMAIN w.parties : a.parties[j].players = w.parties[j].players
  <2>1. \A n \in DOMAIN w.matches \ {r} : \A j \in 1 .. 2 :
          w.matches[n][j] # NoParty => w.matches[n][j] # k1
    BY <1>5
  <2> QED
    BY <1>3, <1>4, <1>6, <1>7, <2>1, SetMatchIs
<1>9. PICK c : c = SetMatch(a, k2, 0)
  OBVIOUS
<1>10. /\ Meets(c, {r}) /\ c.matches = w.matches /\ c.rooms = w.rooms /\ c.party = w.party
       /\ DOMAIN c.parties = DOMAIN w.parties
       /\ \A j \in DOMAIN w.parties : c.parties[j].players = w.parties[j].players
  <2>1. a \in Worlds /\ Met(a.parties, a.party, a.matches, {r})
    BY <1>8 DEF Meets
  <2>2. \A n \in DOMAIN a.matches \ {r} : \A j \in 1 .. 2 :
          a.matches[n][j] # NoParty => a.matches[n][j] # k2
    BY <1>5, <1>8
  <2>3. /\ Meets(c, {r}) /\ c.matches = a.matches /\ c.rooms = a.rooms /\ c.party = a.party
        /\ DOMAIN c.parties = DOMAIN a.parties
        /\ \A j \in DOMAIN a.parties : c.parties[j].players = a.parties[j].players
    BY <1>6, <1>9, <2>1, <2>2, SetMatchIs
  <2> QED
    BY <1>8, <2>3
<1>11. Filled(c.parties)
  BY <1>3, <1>10, KeepsFilled
<1> DEFINE Gone(x, k) == IF b /\ k \in DOMAIN x.parties THEN RemoveParty(x, k) ELSE x
           Fine(x) == /\ Meets(x, {r}) /\ Filled(x.parties) /\ r \in DOMAIN x.matches
                      /\ x.rooms = w.rooms /\ \A s \in Sessions : Keeps(w, x, s)
<1>12. ASSUME NEW x, Fine(x), NEW k
       PROVE  Fine(Gone(x, k))
  <2>1. CASE b /\ k \in DOMAIN x.parties
    <3>1. PICK y : y = RemoveParty(x, k)
      OBVIOUS
    <3>2. x \in Worlds /\ Met(x.parties, x.party, x.matches, {r})
      BY <1>12 DEF Meets
    <3>3. \A j \in DOMAIN x.parties \ {k} : Fit(x.parties[j])
      BY <1>12 DEF Filled
    <3>4. /\ Meets(y, {r}) /\ y.rooms = x.rooms /\ DOMAIN y.matches = DOMAIN x.matches /\ Filled(y.parties)
          /\ \A s \in Sessions : Keeps(x, y, s)
      BY <2>1, <3>1, <3>2, <3>3, RemovePartyIs
    <3>5. \A s \in Sessions : Keeps(w, y, s)
      BY <1>12, <3>4, KeepsTwice
    <3> QED
      BY <1>12, <2>1, <3>1, <3>4, <3>5
  <2>2. CASE ~(b /\ k \in DOMAIN x.parties)
    BY <1>12, <2>2
  <2> QED
    BY <2>1, <2>2
<1>13. Fine(c)
  <2>1. \A s \in Sessions : Keeps(w, c, s)
    BY <1>10, SameKeeps
  <2> QED
    BY <1>10, <1>11, <2>1
<1>14. PICK d : d = Gone(Gone(c, k1), k2)
  OBVIOUS
<1>15. Fine(d)
  <2> HIDE DEF Fine, Gone
  <2> QED
    BY <1>12, <1>13, <1>14
<1>16. PICK ms : ms = R!Without(d.matches, {r})
  OBVIOUS
<1>17. v = [d EXCEPT !.matches = ms]
  BY <1>1, <1>2, <1>7, <1>9, <1>14, <1>16 DEF RemoveMatch
<1>18. d \in Worlds /\ Met(d.parties, d.party, d.matches, {r}) /\ Filled(d.parties) /\ d.rooms = w.rooms
  BY <1>15 DEF Meets
<1>19. ms \in Tables(Numbers, Side \X Side)
  <2>1. d.matches \in Tables(Numbers, Side \X Side)
    BY <1>18, WorldsAre
  <2> QED
    BY <1>16, <2>1, TableWithout
<1>20. Met(d.parties, d.party, ms, {})
  BY <1>16, <1>18, MatchForgotten
<1>21. v \in Worlds /\ v.parties = d.parties /\ v.party = d.party /\ v.matches = ms /\ v.rooms = d.rooms
  BY <1>17, <1>18, <1>19 DEF Worlds
<1>22. \A s \in Sessions : Keeps(w, v, s)
  <2>1. \A s \in Sessions : Keeps(w, d, s) /\ Keeps(d, v, s)
    BY <1>15, <1>21, SameKeeps
  <2> QED
    BY <2>1, KeepsTwice
<1> QED
  BY <1>18, <1>20, <1>21, <1>22 DEF Good, Meets

\* A step in the rooms alone.
LEMMA RoomsOnlyGood ==
  ASSUME NEW w, Good(w), NEW v, RoomsOnly(w, v)
  PROVE  Good(v)
BY DEF Good, Meets, RoomsOnly

LEMMA RoomsOnlyKeeps ==
  ASSUME NEW w, NEW v, RoomsOnly(w, v), NEW s
  PROVE  Keeps(w, v, s)
BY SameKeeps DEF RoomsOnly

\* A party goes, of the parties with members.
LEMMA RemovePartyGood ==
  ASSUME NEW w, Good(w), NEW k \in DOMAIN w.parties, NEW v, v = RemoveParty(w, k)
  PROVE  Good(v) /\ v.rooms = w.rooms /\ \A s \in Sessions : Keeps(w, v, s)
<1>1. w \in Worlds /\ Met(w.parties, w.party, w.matches, {})
      /\ \A j \in DOMAIN w.parties \ {k} : Fit(w.parties[j])
  BY DEF Good, Meets, Filled
<1>2. Meets(v, {}) /\ v.rooms = w.rooms /\ Filled(v.parties) /\ \A s \in Sessions : Keeps(w, v, s)
  BY <1>1, RemovePartyIs
<1> QED
  BY <1>2 DEF Good

\* handleClanRoomError.
LEMMA ClanRoomErrorGood ==
  ASSUME NEW w, Good(w), NEW r, NEW k
  PROVE  Good(ClanRoomError(w, r, k)) /\ \A s \in Sessions : Keeps(w, ClanRoomError(w, r, k), s)
<1>1. PICK v : v = IF r \in DOMAIN w.matches THEN RemoveMatch(w, r, TRUE)
                   ELSE IF k \in DOMAIN w.parties THEN RemoveParty(w, k) ELSE w
  OBVIOUS
<1>2. Good(v) /\ \A s \in Sessions : Keeps(w, v, s)
  <2>1. CASE r \in DOMAIN w.matches
    BY <1>1, <2>1, RemoveMatchGood
  <2>2. CASE r \notin DOMAIN w.matches /\ k \in DOMAIN w.parties
    BY <1>1, <2>2, RemovePartyGood
  <2>3. CASE r \notin DOMAIN w.matches /\ k \notin DOMAIN w.parties
    BY <1>1, <2>3, SameKeeps
  <2> QED
    BY <2>1, <2>2, <2>3
<1>3. ClanRoomError(w, r, k) = IF r \in DOMAIN v.rooms THEN R!RemoveRoom(v, r) ELSE v
  BY <1>1 DEF ClanRoomError
<1>4. r \in DOMAIN v.rooms => RoomsOnly(v, R!RemoveRoom(v, r))
  <2>1. v \in Worlds
    BY <1>2 DEF Good, Meets
  <2> QED
    BY <2>1, RemoveRoomRooms
<1>5. CASE r \in DOMAIN v.rooms
  <2>1. PICK u : u = R!RemoveRoom(v, r)
    OBVIOUS
  <2>2. RoomsOnly(v, u)
    BY <1>4, <1>5, <2>1
  <2>3. Good(u) /\ \A s \in Sessions : Keeps(w, u, s)
    BY <1>2, <2>2, RoomsOnlyGood, RoomsOnlyKeeps, KeepsTwice
  <2> QED
    BY <1>3, <1>5, <2>1, <2>3
<1>6. CASE r \notin DOMAIN v.rooms
  BY <1>2, <1>3, <1>6
<1> QED
  BY <1>5, <1>6

-----------------------------------------------------------------------------
(* Leaving and joining.                                                     *)

LEMMA FromRoomIs ==
  ASSUME NEW w \in Worlds, NEW r, NEW s \in Sessions
  PROVE  FromRoom(w, r, s) # {} /\ \A v \in FromRoom(w, r, s) : RoomsOnly(w, v)
<1>1. CASE r \in DOMAIN w.rooms
  <2>1. w.rooms \in Tables(Numbers, R!RoomType)
    BY WorldsAre
  <2>2. w.rooms[r] \in R!RoomType
    BY <1>1, <2>1, TableIs
  <2>3. PICK O : O = R!RemovePlayer(w, w.rooms[r], s)
    OBVIOUS
  <2>4. O \in SUBSET Outcomes /\ O # {}
    BY <2>2, <2>3, RemovePlayerTyped
  <2>5. FromRoom(w, r, s) = R!Closing(w, r, O)
    BY <1>1, <2>3 DEF FromRoom
  <2>6. R!Closing(w, r, O) # {} /\ \A v \in R!Closing(w, r, O) : RoomsOnly(w, v)
    BY <1>1, <2>4, ClosingRooms
  <2> QED
    BY <2>5, <2>6
<1>2. CASE r \notin DOMAIN w.rooms
  <2>1. FromRoom(w, r, s) = {w} /\ RoomsOnly(w, w)
    BY <1>2 DEF FromRoom, RoomsOnly
  <2> QED
    BY <2>1
<1> QED
  BY <1>1, <1>2

\* A party of w whose members are t, and its session s in no party.
Left(w, k, t, s, r) ==
  [w EXCEPT !.parties[k].players = t, !.parties[k].registered = @ /\ r # 0,
            !.party[s] = 0, !.number[s] = 0]
LEMMA LeftIs ==
  ASSUME NEW w \in Worlds, NEW k \in DOMAIN w.parties, NEW s \in Sessions, NEW t \in Seq(Users),
         NEW r, NEW v, v = Left(w, k, t, s, r)
  PROVE  /\ v \in Worlds /\ v.matches = w.matches /\ v.rooms = w.rooms
         /\ v.party[s] = 0 /\ \A x \in Sessions : x # s => v.party[x] = w.party[x]
         /\ v.parties[k].players = t /\ v.parties[k].match = w.parties[k].match
         /\ v.parties[k].max = w.parties[k].max /\ v.parties[k].started = w.parties[k].started
         /\ DOMAIN v.parties = DOMAIN w.parties
         /\ \A j \in DOMAIN w.parties : j # k => v.parties[j] = w.parties[j]
<1>1. w.parties \in Tables(Keys, PartyType)
  BY WorldsAre
<1>2. w.parties \in [DOMAIN w.parties -> PartyType] /\ w.parties[k] \in PartyType
  BY <1>1, TableIs
<1>3. PICK c : c = (w.parties[k].registered /\ r # 0)
  OBVIOUS
<1>4. PICK q : q = [[w.parties[k] EXCEPT !.players = t] EXCEPT !.registered = c]
  OBVIOUS
<1>5. /\ q \in PartyType /\ q.players = t /\ q.match = w.parties[k].match
      /\ q.max = w.parties[k].max /\ q.started = w.parties[k].started
  <2>1. c \in BOOLEAN
    BY <1>3
  <2> QED
    BY <1>2, <1>4, <2>1 DEF PartyType, Users
<1>6. PICK ps : ps = [w.parties EXCEPT ![k] = q]
  OBVIOUS
<1>7. ps \in Tables(Keys, PartyType) /\ ps[k] = q
  BY <1>1, <1>5, <1>6, TablePut
<1>8. PICK p : p = [w.party EXCEPT ![s] = 0]
  OBVIOUS
<1>9. PICK m : m = [w.number EXCEPT ![s] = 0]
  OBVIOUS
<1>10. p \in [Sessions -> 0 .. MaxParties]
  <2>1. w.party \in [Sessions -> 0 .. MaxParties] /\ MaxParties \in Nat
    BY WorldsAre, SizesAssumption
  <2> QED
    BY <1>8, <2>1
<1>11. m \in [Sessions -> 0 .. MaxNumber]
  <2>1. w.number \in [Sessions -> 0 .. MaxNumber] /\ MaxNumber \in Nat
    BY WorldsAre, MaxNumberAssumption
  <2> QED
    BY <1>9, <2>1
<1>12. v = [[[w EXCEPT !.parties = ps] EXCEPT !.party = p] EXCEPT !.number = m]
  <2>1. PICK e1 : e1 = [w.parties EXCEPT ![k].players = t]
    OBVIOUS
  <2>2. PICK w1 : w1 = [w EXCEPT !.parties = e1]
    OBVIOUS
  <2>3. w1.parties = e1 /\ w1.party = w.party /\ w1.number = w.number
    BY <2>2 DEF Worlds
  <2>4. v = [[[w1 EXCEPT !.parties = [w1.parties EXCEPT ![k] = [w1.parties[k] EXCEPT !.registered = c]]]
               EXCEPT !.party = p] EXCEPT !.number = m]
    BY <1>3, <1>8, <1>9, <2>1, <2>2 DEF Worlds, Left
  <2>5. ps = [e1 EXCEPT ![k] = [e1[k] EXCEPT !.registered = c]]
    BY <1>2, <1>4, <1>6, <2>1
  <2>6. v = [[[w1 EXCEPT !.parties = ps] EXCEPT !.party = p] EXCEPT !.number = m]
    BY <2>3, <2>4, <2>5
  <2>7. [w1 EXCEPT !.parties = ps] = [w EXCEPT !.parties = ps]
    BY <2>2 DEF Worlds
  <2> QED
    BY <2>6, <2>7
<1>13. v \in Worlds /\ v.matches = w.matches /\ v.rooms = w.rooms /\ v.party = p /\ v.parties = ps
  BY <1>7, <1>10, <1>11, <1>12 DEF Worlds
<1>14. DOMAIN ps = DOMAIN w.parties /\ \A j \in DOMAIN w.parties : j # k => ps[j] = w.parties[j]
  BY <1>6
<1>15. p[s] = 0 /\ \A x \in Sessions : x # s => p[x] = w.party[x]
  <2>1. w.party \in [Sessions -> 0 .. MaxParties]
    BY WorldsAre
  <2> QED
    BY <1>8, <2>1
<1> QED
  BY <1>5, <1>7, <1>13, <1>14, <1>15

LEMMA PartyOf ==
  ASSUME NEW w \in Worlds, NEW k \in DOMAIN w.parties
  PROVE  w.parties[k] \in PartyType
<1>1. w.parties \in Tables(Keys, PartyType)
  BY WorldsAre
<1> QED
  BY <1>1, TableIs

\* Whoever is live in a party without dead entries can leave it.
LEMMA WholeCanLose ==
  ASSUME NEW q \in PartyType, NEW s, s \in Live(q), Whole(q)
  PROVE  CanLose(q, s)
<1>1. SUFFICES ASSUME Len(q.players) > 1
               PROVE  Successors(q) # {}
  BY DEF CanLose
<1>2. 2 \in DOMAIN q.players \ {1}
  BY <1>1, PartyIs
<1>3. q.players[2].live
  BY <1>2 DEF Whole
<1> QED
  BY <1>2, <1>3 DEF Successors

LEMMA PartyLeaveGood ==
  ASSUME NEW w, Good(w), NEW s \in Sessions
  PROVE  PartyLeave(w, s) # {} /\ \A v \in PartyLeave(w, s) : Good(v) /\ Parts(w, v, s)
<1>1. PICK k : k = OwnParty(w, s)
  OBVIOUS
<1>2. PICK r : r = w.parties[k].match
  OBVIOUS
<1>3. CASE k \notin DOMAIN w.parties
  <2>1. PartyLeave(w, s) = {w}
    BY <1>1, <1>3 DEF PartyLeave
  <2>2. Alone(w, s) => Absent(w, s)
    BY <1>1, <1>3 DEF Alone, Absent
  <2>3. Keeps(w, w, s)
    BY SameKeeps
  <2> QED
    BY <2>1, <2>2, <2>3 DEF Keeps, Parts
<1>4. CASE k \in DOMAIN w.parties /\ ~CanLose(w.parties[k], s)
  <2>1. PartyLeave(w, s) = {ClanRoomError(w, r, k)}
    BY <1>1, <1>2, <1>4 DEF PartyLeave
  <2>2. PICK v : v = ClanRoomError(w, r, k)
    OBVIOUS
  <2>3. Good(v) /\ Keeps(w, v, s)
    BY <2>2, ClanRoomErrorGood
  <2>4. Alone(w, s) => Absent(w, s)
    <3>1. w.parties[k] \in PartyType
      BY <1>4, PartyOf DEF Good, Meets
    <3>2. ~(s \in Live(w.parties[k]) /\ Whole(w.parties[k]))
      BY <1>4, <3>1, WholeCanLose
    <3> QED
      BY <1>1, <3>2 DEF Alone, Absent
  <2>5. Parts(w, v, s)
    BY <2>3, <2>4, ShrunkAbsent DEF Keeps, Parts
  <2> QED
    BY <2>1, <2>2, <2>3, <2>5
<1>5. CASE k \in DOMAIN w.parties /\ CanLose(w.parties[k], s)
  <2>1. /\ w \in Worlds /\ Met(w.parties, w.party, w.matches, {})
        /\ \A j \in DOMAIN w.parties \ {k} : Fit(w.parties[j])
    BY DEF Good, Meets, Filled
  <2>2. w.parties \in Tables(Keys, PartyType) /\ w.party \in [Sessions -> 0 .. MaxParties]
    BY <2>1, WorldsAre
  <2>3. w.parties[k] \in PartyType
    BY <1>5, <2>2, TableIs
  <2>4. PICK t : t = WithoutMember(w.parties[k], s)
    OBVIOUS
  <2>5. /\ t \in Seq(Users)
        /\ \A i \in DOMAIN t : \E j \in DOMAIN w.parties[k].players : t[i] = w.parties[k].players[j]
        /\ \A j \in DOMAIN w.parties[k].players :
             w.parties[k].players[j] # Member(s) => \E i \in DOMAIN t : t[i] = w.parties[k].players[j]
    BY <1>5, <2>3, <2>4, WithoutMemberIs
  <2>15. Once(t) /\ \A i \in DOMAIN t : t[i] # Member(s)
    <3>1. Once(w.parties[k].players)
      BY <1>5 DEF Good, Filled, Fit
    <3> QED
      BY <1>5, <2>3, <2>4, <3>1, WithoutMemberIs
  <2>6. PICK left : left = Left(w, k, t, s, r)
    OBVIOUS
  <2>7. /\ left \in Worlds /\ left.matches = w.matches /\ left.rooms = w.rooms
        /\ left.party[s] = 0 /\ \A x \in Sessions : x # s => left.party[x] = w.party[x]
        /\ left.parties[k].players = t /\ left.parties[k].match = w.parties[k].match
        /\ DOMAIN left.parties = DOMAIN w.parties
        /\ \A j \in DOMAIN w.parties : j # k => left.parties[j] = w.parties[j]
    <3>1. k \in DOMAIN w.parties /\ w \in Worlds /\ t \in Seq(Users)
      BY <1>5, <2>1, <2>5
    <3> QED
      BY <2>6, <3>1, LeftIs
  <2>8. PICK q : q = left.parties[k]
    OBVIOUS
  <2>9. \A x : x \in Live(q) => x \in Live(w.parties[k])
    BY <2>5, <2>7, <2>8, LiveIs
  <2>10. \A x \in Live(w.parties[k]) : x # s => x \in Live(q)
    <3>1. SUFFICES ASSUME NEW x \in Live(w.parties[k]), x # s
                   PROVE  x \in Live(q)
      OBVIOUS
    <3>2. PICK j \in DOMAIN w.parties[k].players : w.parties[k].players[j].live /\ w.parties[k].players[j].id = x
      BY LiveIs
    <3>3. w.parties[k].players[j] # Member(s)
      BY <3>1, <3>2 DEF Member
    <3>4. PICK i \in DOMAIN t : t[i] = w.parties[k].players[j]
      BY <2>5, <3>3
    <3> QED
      BY <2>7, <2>8, <3>2, <3>4, LiveIs
  <2>11. Met(left.parties, left.party, left.matches, {})
    <3>1. \A x \in Live(q) : ClanOf[x] = k[1]
      <4>1. \A x \in Live(w.parties[k]) : ClanOf[x] = k[1]
        BY <1>5, <2>1 DEF Met
      <4> QED
        BY <2>9, <4>1
    <3>2. ASSUME NEW x \in Sessions, left.party[x] # 0
          PROVE  \/ <<ClanOf[x], left.party[x]>> = k /\ x \in Live(q)
                 \/ left.party[x] = w.party[x] /\ <<ClanOf[x], left.party[x]>> # k
      <4>1. x # s /\ left.party[x] = w.party[x]
        BY <2>2, <2>7, <3>2
      <4>2. CASE <<ClanOf[x], w.party[x]>> = k
        <5>1. x \in Live(w.parties[k])
          BY <2>1, <3>2, <4>1, <4>2 DEF Met
        <5> QED
          BY <2>10, <4>1, <4>2, <5>1
      <4>3. CASE <<ClanOf[x], w.party[x]>> # k
        BY <4>1, <4>3
      <4> QED
        BY <4>2, <4>3
    <3>3. PICK ps : ps = left.parties
      OBVIOUS
    <3>4. PICK p : p = left.party
      OBVIOUS
    <3>5. DOMAIN ps = DOMAIN w.parties /\ ps[k] = q /\ q.match = w.parties[k].match
          /\ \A j \in DOMAIN w.parties : j # k => ps[j] = w.parties[j]
      BY <2>7, <2>8, <3>3
    <3>6. Met(ps, p, w.matches, {})
      BY <1>5, <2>1, <3>1, <3>2, <3>4, <3>5, PartyChanged
    <3> QED
      BY <2>7, <3>3, <3>4, <3>6
  <2>12. \A j \in DOMAIN left.parties \ {k} : Fit(left.parties[j])
    BY <2>1, <2>7
  <2>16. Parts(w, left, s)
    <3>1. Shrunk(w.parties, left.parties)
      <4>1. \A j \in DOMAIN w.parties : \A i \in DOMAIN left.parties[j].players :
              \E h \in DOMAIN w.parties[j].players : left.parties[j].players[i] = w.parties[j].players[h]
        BY <2>5, <2>7
      <4> QED
        BY <2>7, <4>1 DEF Shrunk
    <3>2. s \notin Live(q)
      <4>1. q \in PartyType
        BY <1>5, <2>7, <2>8, PartyOf
      <4>2. \A i \in DOMAIN q.players : ~(q.players[i].live /\ q.players[i].id = s)
        BY <2>7, <2>8, <2>15, <4>1, MemberIs
      <4> QED
        BY <4>2, LiveIs
    <3>3. Alone(w, s) => \A j \in DOMAIN w.parties : j # k => s \notin Live(w.parties[j])
      BY <1>1 DEF Alone
    <3>4. Alone(w, s) => Absent(left, s)
      BY <2>7, <2>8, <3>2, <3>3 DEF Absent
    <3> QED
      BY <3>1, <3>4 DEF Parts
  <2>17. ASSUME NEW g, Good(g), Parts(w, g, s)
         PROVE  FromRoom(g, r, s) # {} /\ \A v \in FromRoom(g, r, s) : Good(v) /\ Parts(w, v, s)
    <3>1. FromRoom(g, r, s) # {} /\ \A v \in FromRoom(g, r, s) : RoomsOnly(g, v)
      BY <2>17, FromRoomIs DEF Good, Meets
    <3>2. \A v \in FromRoom(g, r, s) : Shrunk(g.parties, v.parties)
      BY <3>1, RoomsOnlyKeeps DEF Keeps
    <3> QED
      BY <2>17, <3>1, <3>2, RoomsOnlyGood, PartsKeeps
  <2>13. CASE t = <<>>
    <3>1. PICK g : g = RemoveParty(left, k)
      OBVIOUS
    <3>2. Meets(g, {}) /\ Filled(g.parties) /\ Keeps(left, g, s)
      BY <1>5, <2>7, <2>11, <2>12, <3>1, RemovePartyIs
    <3>3. Good(g) /\ Parts(w, g, s)
      BY <2>16, <3>2, PartsKeeps DEF Good, Keeps
    <3>4. PartyLeave(w, s) = FromRoom(g, r, s)
      BY <1>1, <1>2, <1>5, <2>4, <2>6, <2>7, <2>13, <3>1 DEF PartyLeave, Left
    <3> QED
      BY <2>17, <3>3, <3>4
  <2>14. CASE t # <<>>
    <3>1. Good(left)
      <4>1. Filled(left.parties)
        BY <2>7, <2>12, <2>14, <2>15 DEF Filled, Fit
      <4> QED
        BY <2>7, <2>11, <4>1 DEF Good, Meets
    <3>2. PartyLeave(w, s) = FromRoom(left, r, s)
      BY <1>1, <1>2, <1>5, <2>4, <2>6, <2>7, <2>14 DEF PartyLeave, Left
    <3> QED
      BY <2>16, <2>17, <3>1, <3>2
  <2> QED
    BY <2>13, <2>14
<1> QED
  BY <1>3, <1>4, <1>5

LEMMA EnterRoomIs ==
  ASSUME NEW w \in Worlds, NEW r, NEW s \in Sessions, NEW v, v = EnterRoom(w, r, s)
  PROVE  RoomsOnly(w, v)
<1>1. CASE r \notin DOMAIN w.rooms \/ s \in R!Members(w.rooms[r])
  BY <1>1 DEF EnterRoom, RoomsOnly
<1>2. CASE ~(r \notin DOMAIN w.rooms \/ s \in R!Members(w.rooms[r]))
  <2>1. w.rooms \in Tables(Numbers, R!RoomType) /\ w.number \in [Sessions -> 0 .. MaxNumber]
    BY WorldsAre
  <2>2. r \in Numbers /\ w.rooms[r] \in R!RoomType /\ w.rooms \in [DOMAIN w.rooms -> R!RoomType]
    BY <1>2, <2>1, TableIs
  <2>3. PICK t : t = Append(w.rooms[r].players, R!NewEntry(s))
    OBVIOUS
  <2>4. t \in Seq(R!Entries)
    <3>1. w.rooms[r].players \in Seq(R!Entries)
      BY <2>2, RoomIs
    <3>2. R!NewEntry(s) \in R!Entries
      BY DEF R!NewEntry, R!Entries, R!States
    <3> QED
      BY <2>3, <3>1, <3>2, AppendProperties
  <2>5. PICK q : q = [w.rooms[r] EXCEPT !.players = t]
    OBVIOUS
  <2>6. q \in R!RoomType
    BY <2>2, <2>4, <2>5, RoomIs
  <2>7. PICK rs : rs = [w.rooms EXCEPT ![r] = q]
    OBVIOUS
  <2>8. rs \in Tables(Numbers, R!RoomType)
    BY <1>2, <2>1, <2>6, <2>7, TablePut
  <2>9. PICK m : m = [w.number EXCEPT ![s] = r]
    OBVIOUS
  <2>10. m \in [Sessions -> 0 .. MaxNumber]
    <3>1. r \in 0 .. MaxNumber
      BY <2>2, MaxNumberAssumption DEF Numbers
    <3> QED
      BY <2>1, <2>9, <3>1
  <2>11. v = [[w EXCEPT !.rooms = rs] EXCEPT !.number = m]
    <3>1. v = [w EXCEPT !.rooms[r].players = Append(@, R!NewEntry(s)), !.number[s] = r]
      BY <1>2 DEF EnterRoom
    <3> QED
      BY <2>3, <2>5, <2>7, <2>9, <3>1 DEF Worlds
  <2> QED
    BY <2>8, <2>10, <2>11 DEF Worlds, RoomsOnly
<1> QED
  BY <1>1, <1>2

LEMMA KeyIs ==
  ASSUME NEW w \in Worlds, NEW k \in DOMAIN w.parties
  PROVE  k \in Keys /\ k[2] \in 1 .. MaxParties /\ k = <<k[1], k[2]>>
<1>1. w.parties \in Tables(Keys, PartyType)
  BY WorldsAre
<1>2. k \in Keys
  BY <1>1, TableIs
<1> QED
  BY <1>2 DEF Keys

\* One more member.
More(q, s) == Append(q.players, Member(s))
LEMMA AppendLive ==
  ASSUME NEW o \in PartyType, NEW s \in Sessions, NEW q, q.players = More(o, s), NEW x
  PROVE  x \in Live(q) <=> x \in Live(o) \/ x = s
<1>1. PICK l \in Seq(Users) : l = o.players
  BY PartyIs
<1>2. PICK e \in Users : e = Member(s)
  BY DEF Member, Users
<1>3. PICK t : t = Append(l, e)
  OBVIOUS
<1>4. /\ DOMAIN t = 1 .. Len(l) + 1 /\ DOMAIN l = 1 .. Len(l) /\ Len(l) \in Nat
      /\ \A i \in 1 .. Len(l) : t[i] = l[i]
      /\ t[Len(l) + 1] = e /\ q.players = t
  BY <1>1, <1>2, <1>3, AppendProperties DEF More
<1>5. e.live /\ e.id = s
  BY <1>2 DEF Member
<1>6. x \in Live(q) <=> \E i \in DOMAIN t : t[i].live /\ t[i].id = x
  BY <1>4, LiveIs
<1>7. x \in Live(o) <=> \E i \in DOMAIN l : l[i].live /\ l[i].id = x
  BY <1>1, LiveIs
<1>8. ASSUME NEW i \in DOMAIN t, t[i].live, t[i].id = x
      PROVE  x \in Live(o) \/ x = s
  <2>1. CASE i \in 1 .. Len(l)
    <3>1. t[i] = l[i] /\ i \in DOMAIN l
      BY <1>4, <2>1
    <3> QED
      BY <1>7, <1>8, <3>1
  <2>2. CASE i = Len(l) + 1
    BY <1>4, <1>5, <1>8, <2>2
  <2> QED
    BY <1>4, <2>1, <2>2
<1>9. ASSUME x \in Live(o)
      PROVE  \E i \in DOMAIN t : t[i].live /\ t[i].id = x
  <2>1. PICK i \in DOMAIN l : l[i].live /\ l[i].id = x
    BY <1>7, <1>9
  <2>2. i \in DOMAIN t /\ t[i] = l[i]
    BY <1>4
  <2> QED
    BY <2>1, <2>2
<1>10. s = x => \E i \in DOMAIN t : t[i].live /\ t[i].id = x
  <2>1. Len(l) + 1 \in DOMAIN t
    BY <1>4
  <2> QED
    BY <1>4, <1>5, <2>1
<1> QED
  BY <1>6, <1>8, <1>9, <1>10

LEMMA AppendOnce ==
  ASSUME NEW o \in PartyType, NEW s \in Sessions, s \notin Live(o), Once(o.players)
  PROVE  Once(More(o, s))
<1>1. PICK l \in Seq(Users) : l = o.players
  BY PartyIs
<1>2. PICK e \in Users : e = Member(s)
  BY DEF Member, Users
<1>3. PICK t : t = Append(l, e)
  OBVIOUS
<1>4. /\ DOMAIN t = 1 .. Len(l) + 1 /\ DOMAIN l = 1 .. Len(l) /\ Len(l) \in Nat
      /\ \A i \in 1 .. Len(l) : t[i] = l[i]
      /\ t[Len(l) + 1] = e
  BY <1>1, <1>2, <1>3, AppendProperties
<1>5. \A i \in DOMAIN l : l[i] # e
  BY <1>1, <1>2, LiveIs DEF Member
<1>6. \A i \in DOMAIN t : (i \in DOMAIN l /\ t[i] = l[i]) \/ (i = Len(l) + 1 /\ t[i] = e)
  BY <1>4
<1>7. Once(t)
  BY <1>1, <1>5, <1>6 DEF Once
<1> QED
  BY <1>1, <1>2, <1>3, <1>7 DEF More

\* A party of w that s joins.
Joined(w, k, s) == [w EXCEPT !.parties[k].players = Append(@, Member(s)), !.party[s] = k[2]]
LEMMA JoinedIs ==
  ASSUME NEW w \in Worlds, NEW k \in DOMAIN w.parties, NEW s \in Sessions, NEW v, v = Joined(w, k, s)
  PROVE  /\ v \in Worlds /\ v.matches = w.matches
         /\ v.party[s] = k[2] /\ \A x \in Sessions : x # s => v.party[x] = w.party[x]
         /\ v.parties[k].players # <<>>
         /\ v.parties[k].match = w.parties[k].match
         /\ v.parties[k].max = w.parties[k].max /\ v.parties[k].started = w.parties[k].started
         /\ v.parties[k].players = More(w.parties[k], s)
         /\ DOMAIN v.parties = DOMAIN w.parties
         /\ \A j \in DOMAIN w.parties : j # k => v.parties[j] = w.parties[j]
<1>1. w.parties \in Tables(Keys, PartyType) /\ w.party \in [Sessions -> 0 .. MaxParties]
  BY WorldsAre
<1>2. w.parties \in [DOMAIN w.parties -> PartyType] /\ w.parties[k] \in PartyType /\ k \in Keys
  BY <1>1, TableIs
<1>3. k[2] \in 1 .. MaxParties /\ k = <<k[1], k[2]>>
  BY <1>2 DEF Keys
<1>4. PICK l \in Seq(Users) : l = w.parties[k].players
  BY <1>2, PartyIs
<1>5. PICK e \in Users : e = Member(s)
  BY DEF Member, Users
<1>6. PICK t : t = Append(l, e)
  OBVIOUS
<1>7. /\ t \in Seq(Users) /\ t # <<>> /\ DOMAIN t = 1 .. Len(l) + 1
      /\ DOMAIN l = 1 .. Len(l) /\ Len(l) \in Nat
      /\ \A i \in 1 .. Len(l) : t[i] = l[i]
      /\ t[Len(l) + 1] = e
  BY <1>6, AppendProperties
<1>8. PICK q : q = [w.parties[k] EXCEPT !.players = t]
  OBVIOUS
<1>9. /\ q \in PartyType /\ q.players = t /\ q.match = w.parties[k].match
      /\ q.max = w.parties[k].max /\ q.started = w.parties[k].started
  BY <1>2, <1>7, <1>8 DEF PartyType, Users
<1>10. PICK ps : ps = [w.parties EXCEPT ![k] = q]
  OBVIOUS
<1>11. ps \in Tables(Keys, PartyType)
  BY <1>1, <1>9, <1>10, TablePut
<1>12. PICK p : p = [w.party EXCEPT ![s] = k[2]]
  OBVIOUS
<1>13. p \in [Sessions -> 0 .. MaxParties]
  <2>1. k[2] \in 0 .. MaxParties
    BY <1>3, SizesAssumption
  <2> QED
    BY <1>1, <1>12, <2>1
<1>14. v = [[w EXCEPT !.parties = ps] EXCEPT !.party = p]
  BY <1>4, <1>5, <1>6, <1>8, <1>10, <1>12 DEF Joined, Worlds
<1>15. v \in Worlds /\ v.matches = w.matches /\ v.party = p /\ v.parties = ps
  BY <1>11, <1>13, <1>14 DEF Worlds
<1>16. ps[k] = q /\ DOMAIN ps = DOMAIN w.parties /\ \A j \in DOMAIN w.parties : j # k => ps[j] = w.parties[j]
  BY <1>10
<1>17. p[s] = k[2] /\ \A x \in Sessions : x # s => p[x] = w.party[x]
  BY <1>1, <1>12
<1>18. t = More(w.parties[k], s)
  BY <1>4, <1>5, <1>6 DEF More
<1> QED
  BY <1>7, <1>9, <1>15, <1>16, <1>17, <1>18

\* handlePartyJoin, of a session of the clan.
LEMMA PartyJoinGood ==
  ASSUME NEW w, Good(w), NEW s \in Sessions, NEW k, k \in DOMAIN w.parties => k[1] = ClanOf[s]
  PROVE  Good(PartyJoin(w, s, k))
<1>1. PICK leader : leader = w.parties[k].players[1]
  OBVIOUS
<1>2. PICK entered : entered = EnterRoom(w, w.number[leader.id], s)
  OBVIOUS
<1>3. w \in Worlds
  BY DEF Good, Meets
<1>4. RoomsOnly(w, entered)
  BY <1>2, <1>3, EnterRoomIs
<1>5. Good(entered) /\ entered.parties = w.parties /\ entered.party = w.party
  BY <1>4, RoomsOnlyGood DEF RoomsOnly
<1>6. CASE k \notin DOMAIN w.parties
  BY <1>6 DEF PartyJoin
<1>7. CASE k \in DOMAIN w.parties /\ ~leader.live
  <2>1. PartyJoin(w, s, k) = RemoveParty(w, k)
    BY <1>1, <1>7 DEF PartyJoin
  <2> QED
    BY <1>7, <2>1, RemovePartyGood
<1>8. CASE /\ k \in DOMAIN w.parties /\ leader.live
           /\ w.parties[k].started \/ Len(w.parties[k].players) >= w.parties[k].max \/ s \in Live(w.parties[k])
  BY <1>1, <1>8 DEF PartyJoin
<1>9. CASE /\ k \in DOMAIN w.parties /\ leader.live
           /\ ~(w.parties[k].started \/ Len(w.parties[k].players) >= w.parties[k].max \/ s \in Live(w.parties[k]))
  <2>1. PICK v : v = Joined(entered, k, s)
    OBVIOUS
  <2>2. PartyJoin(w, s, k) = v
    BY <1>1, <1>2, <1>9, <2>1 DEF PartyJoin, Joined
  <2>3. PICK e : e = entered
    OBVIOUS
  <2>4. /\ e \in Worlds /\ Met(e.parties, e.party, e.matches, {}) /\ Filled(e.parties)
        /\ k \in DOMAIN e.parties /\ v = Joined(e, k, s)
    BY <1>5, <1>9, <2>1, <2>3 DEF Good, Meets
  <2>5. /\ v \in Worlds /\ v.matches = e.matches
        /\ v.party[s] = k[2] /\ \A x \in Sessions : x # s => v.party[x] = e.party[x]
        /\ v.parties[k].players # <<>>
        /\ v.parties[k].match = e.parties[k].match
        /\ \A x : x \in Live(v.parties[k]) <=> x \in Live(e.parties[k]) \/ x = s
        /\ DOMAIN v.parties = DOMAIN e.parties
        /\ \A j \in DOMAIN e.parties : j # k => v.parties[j] = e.parties[j]
    <3>1. v \in Worlds /\ v.matches = e.matches /\ v.party[s] = k[2]
      BY <2>4, JoinedIs
    <3>5. v.parties[k].players # <<>> /\ v.parties[k].match = e.parties[k].match
      BY <2>4, JoinedIs
    <3>6. DOMAIN v.parties = DOMAIN e.parties
      BY <2>4, JoinedIs
    <3>2. \A x : x \in Live(v.parties[k]) <=> x \in Live(e.parties[k]) \/ x = s
      <4>1. v.parties[k].players = More(e.parties[k], s)
        BY <2>4, JoinedIs
      <4>2. e.parties[k] \in PartyType
        <5>1. e.parties \in Tables(Keys, PartyType)
          BY <2>4, WorldsAre
        <5> QED
          BY <2>4, <5>1, TableIs
      <4> QED
        BY <4>1, <4>2, AppendLive
    <3>3. \A x \in Sessions : x # s => v.party[x] = e.party[x]
      BY <2>4, JoinedIs
    <3>4. \A j \in DOMAIN e.parties : j # k => v.parties[j] = e.parties[j]
      BY <2>4, JoinedIs
    <3> QED
      BY <3>1, <3>2, <3>3, <3>4, <3>5, <3>6
  <2>6. \A x \in Live(v.parties[k]) : ClanOf[x] = k[1]
    <3>1. \A x \in Live(e.parties[k]) : ClanOf[x] = k[1]
      BY <2>4 DEF Met
    <3> QED
      BY <1>9, <2>5, <3>1
  <2>7. ASSUME NEW x \in Sessions, v.party[x] # 0
        PROVE  \/ <<ClanOf[x], v.party[x]>> = k /\ x \in Live(v.parties[k])
               \/ v.party[x] = e.party[x] /\ <<ClanOf[x], v.party[x]>> # k
    <3>1. CASE x = s
      <4>1. k = <<k[1], k[2]>>
        BY <2>4, KeyIs
      <4>2. k[1] = ClanOf[s]
        BY <1>9
      <4>3. <<ClanOf[x], v.party[x]>> = k
        BY <2>5, <3>1, <4>1, <4>2
      <4> QED
        BY <2>5, <3>1, <4>3
    <3>2. CASE x # s
      <4>1. v.party[x] = e.party[x]
        BY <2>5, <3>2
      <4>2. x \in Live(e.parties[<<ClanOf[x], e.party[x]>>])
        BY <2>4, <2>7, <4>1 DEF Met
      <4> QED
        BY <2>5, <4>1, <4>2
    <3> QED
      BY <3>1, <3>2
  <2>8. PICK ps : ps = v.parties
    OBVIOUS
  <2>9. PICK p : p = v.party
    OBVIOUS
  <2>10. PICK q : q = v.parties[k]
    OBVIOUS
  <2>11. Met(ps, p, e.matches, {})
    <3>1. /\ DOMAIN ps = DOMAIN e.parties /\ ps[k] = q /\ q.match = e.parties[k].match
          /\ \A j \in DOMAIN e.parties : j # k => ps[j] = e.parties[j]
      BY <2>5, <2>8, <2>10
    <3>2. \A x \in Live(q) : ClanOf[x] = k[1]
      BY <2>6, <2>10
    <3>3. \A x \in Sessions : p[x] # 0 =>
            \/ <<ClanOf[x], p[x]>> = k /\ x \in Live(q)
            \/ p[x] = e.party[x] /\ <<ClanOf[x], p[x]>> # k
      BY <2>7, <2>9, <2>10
    <3> QED
      BY <2>4, <3>1, <3>2, <3>3, PartyChanged
  <2>12. Filled(v.parties)
    <3>1. Fit(v.parties[k])
      <4>1. v.parties[k].players = More(e.parties[k], s) /\ s \notin Live(e.parties[k])
        BY <1>5, <1>9, <2>3, <2>4, JoinedIs
      <4>2. e.parties[k] \in PartyType
        <5>1. e.parties \in Tables(Keys, PartyType)
          BY <2>4, WorldsAre
        <5> QED
          BY <2>4, <5>1, TableIs
      <4>3. Once(e.parties[k].players)
        BY <2>4 DEF Filled, Fit
      <4> QED
        BY <2>5, <4>1, <4>2, <4>3, AppendOnce DEF Fit
    <3> QED
      BY <2>4, <2>5, <3>1 DEF Filled
  <2> QED
    BY <2>2, <2>5, <2>8, <2>9, <2>11, <2>12 DEF Good, Meets
<1> QED
  BY <1>6, <1>7, <1>8, <1>9

LEMMA KickedTyped ==
  ASSUME NEW w, NEW r \in R!RoomType, NEW p \in Sessions
  PROVE  R!Kicked(w, r, p) \subseteq Outcomes /\ R!Kicked(w, r, p) # {}
BY RemovePlayerTyped, RemoveHostTyped DEF R!Kicked

LEMMA RoomOf ==
  ASSUME NEW w \in Worlds, NEW n \in DOMAIN w.rooms
  PROVE  w.rooms[n] \in R!RoomType
<1>1. w.rooms \in Tables(Numbers, R!RoomType)
  BY WorldsAre
<1> QED
  BY <1>1, TableIs

\* A room of w becomes r.
LEMMA RoomPut ==
  ASSUME NEW w \in Worlds, NEW n \in DOMAIN w.rooms, NEW r \in R!RoomType, NEW v,
         v = [w EXCEPT !.rooms[n] = r]
  PROVE  RoomsOnly(w, v)
<1>1. PICK rs : rs = [w.rooms EXCEPT ![n] = r]
  OBVIOUS
<1>2. w.rooms \in Tables(Numbers, R!RoomType)
  BY WorldsAre
<1>3. rs \in Tables(Numbers, R!RoomType)
  BY <1>1, <1>2, TablePut
<1>4. v = [w EXCEPT !.rooms = rs]
  BY <1>1 DEF Worlds
<1> QED
  BY <1>3, <1>4 DEF Worlds, RoomsOnly

LEMMA LeaveVotekickedIs ==
  ASSUME NEW w \in Worlds, NEW n \in DOMAIN w.rooms, NEW p \in Sessions
  PROVE  /\ R!LeaveVotekicked(w, n, p) # {}
         /\ \A v \in R!LeaveVotekicked(w, n, p) : RoomsOnly(w, v)
<1>1. PICK O : O = R!Kicked(w, w.rooms[n], p)
  OBVIOUS
<1>2. w.rooms[n] \in R!RoomType
  BY RoomOf
<1>3. O \in SUBSET Outcomes /\ O # {}
  BY <1>1, <1>2, KickedTyped
<1>4. PICK Ws : Ws = IF R!InList(w.rooms[n].players, p) THEN R!NotClosing(w, n, O) ELSE {w}
  OBVIOUS
<1>5. Ws # {} /\ \A v \in Ws : RoomsOnly(w, v) /\ n \in DOMAIN v.rooms
  <2>1. /\ \A v \in R!NotClosing(w, n, O) : RoomsOnly(w, v) /\ DOMAIN v.rooms = DOMAIN w.rooms
        /\ R!NotClosing(w, n, O) # {}
    BY <1>3, ClosingRooms
  <2>2. RoomsOnly(w, w)
    BY DEF RoomsOnly
  <2> QED
    BY <1>4, <2>1, <2>2
<1>6. R!LeaveVotekicked(w, n, p) = {[v EXCEPT !.rooms[n] = R!ResetVotekick(@)] : v \in Ws}
  BY <1>1, <1>4 DEF R!LeaveVotekicked
<1>7. ASSUME NEW v \in Ws
      PROVE  RoomsOnly(w, [v EXCEPT !.rooms[n] = R!ResetVotekick(@)])
  <2>1. v \in Worlds /\ n \in DOMAIN v.rooms /\ RoomsOnly(w, v)
    BY <1>5 DEF RoomsOnly
  <2>2. PICK r : r = R!ResetVotekick(v.rooms[n])
    OBVIOUS
  <2>3. r \in R!RoomType
    <3>1. v.rooms[n] \in R!RoomType
      BY <2>1, RoomOf
    <3> QED
      BY <2>2, <3>1 DEF R!RoomType, R!ResetVotekick
  <2>4. PICK u : u = [v EXCEPT !.rooms[n] = R!ResetVotekick(@)]
    OBVIOUS
  <2>5. u = [v EXCEPT !.rooms[n] = r]
    BY <2>2, <2>4
  <2>6. RoomsOnly(v, u)
    BY <2>1, <2>3, <2>5, RoomPut
  <2>7. RoomsOnly(w, u)
    BY <2>1, <2>6, RoomsOnlyTwice
  <2> QED
    BY <2>4, <2>7
<1> QED
  BY <1>5, <1>6, <1>7

LEMMA PlainRoomLeaveIs ==
  ASSUME NEW w \in Worlds, NEW s \in Sessions
  PROVE  R!RoomLeave(w, s) # {} /\ \A v \in R!RoomLeave(w, s) : RoomsOnly(w, v)
<1>1. PICK n : n = w.number[s]
  OBVIOUS
<1>2. CASE n \notin DOMAIN w.rooms
  <2>1. R!RoomLeave(w, s) = {w}
    BY <1>1, <1>2 DEF R!RoomLeave, R!HasRoom
  <2>2. RoomsOnly(w, w)
    BY DEF RoomsOnly
  <2> QED
    BY <2>1, <2>2
<1>3. CASE n \in DOMAIN w.rooms /\ w.rooms[n].target = s
  <2>1. R!RoomLeave(w, s) = R!LeaveVotekicked(w, n, s)
    BY <1>1, <1>3 DEF R!RoomLeave, R!HasRoom
  <2> QED
    BY <1>3, <2>1, LeaveVotekickedIs
<1>4. CASE n \in DOMAIN w.rooms /\ w.rooms[n].target # s
  <2>1. PICK O : O = R!RemovePlayer(w, w.rooms[n], s)
    OBVIOUS
  <2>2. O \in SUBSET Outcomes /\ O # {}
    BY <1>4, <2>1, RoomOf, RemovePlayerTyped
  <2>3. R!RoomLeave(w, s) = R!Closing(w, n, O)
    BY <1>1, <1>4, <2>1 DEF R!RoomLeave, R!HasRoom
  <2>4. R!Closing(w, n, O) # {} /\ \A v \in R!Closing(w, n, O) : RoomsOnly(w, v)
    BY <1>4, <2>2, ClosingRooms
  <2> QED
    BY <2>3, <2>4
<1> QED
  BY <1>2, <1>3, <1>4

\* handleRoomLeave.
LEMMA RoomLeaveGood ==
  ASSUME NEW w, Good(w), NEW s \in Sessions
  PROVE  RoomLeave(w, s) # {} /\ \A v \in RoomLeave(w, s) : Good(v) /\ Keeps(w, v, s)
<1>1. w \in Worlds
  BY DEF Good, Meets
<1>2. CASE ~R!HasRoom(w, s)
  <2>1. RoomLeave(w, s) = {w}
    BY <1>2 DEF RoomLeave
  <2> QED
    BY <2>1, SameKeeps
<1>3. CASE R!HasRoom(w, s) /\ OwnParty(w, s) \in DOMAIN w.parties
  <2>1. RoomLeave(w, s) = PartyLeave(w, s)
    BY <1>3 DEF RoomLeave
  <2> QED
    BY <2>1, PartyLeaveGood, PartsIsKeeps
<1>4. CASE R!HasRoom(w, s) /\ OwnParty(w, s) \notin DOMAIN w.parties
  <2>1. RoomLeave(w, s) = R!RoomLeave(w, s)
    BY <1>4 DEF RoomLeave
  <2>2. R!RoomLeave(w, s) # {} /\ \A v \in R!RoomLeave(w, s) : RoomsOnly(w, v)
    BY <1>1, PlainRoomLeaveIs
  <2> QED
    BY <2>1, <2>2, RoomsOnlyGood, RoomsOnlyKeeps
<1> QED
  BY <1>2, <1>3, <1>4

\* handleMatchLeaveClan.
LEMMA MatchLeaveGood ==
  ASSUME NEW w, Good(w), NEW s \in Sessions
  PROVE  MatchLeave(w, s) # {} /\ \A v \in MatchLeave(w, s) : Good(v) /\ Keeps(w, v, s)
<1>1. w \in Worlds
  BY DEF Good, Meets
<1>2. PICK n : n = w.number[s]
  OBVIOUS
<1>3. CASE n \notin DOMAIN w.rooms
  <2>1. MatchLeave(w, s) = {w}
    BY <1>2, <1>3 DEF MatchLeave, R!HasRoom
  <2> QED
    BY <2>1, SameKeeps
<1>4. CASE n \in DOMAIN w.rooms
  <2> DEFINE Lost(o) == IF o.close THEN ClanRoomError(R!Put(w, n, o), n, OwnParty(w, s)) ELSE R!Put(w, n, o)
  <2>1. PICK O : O = R!RemoveHost(w, w.rooms[n])
    OBVIOUS
  <2>2. O \in SUBSET Outcomes /\ O # {}
    BY <1>1, <1>4, <2>1, RoomOf, RemoveHostTyped
  <2>3. PICK out : out = IF R!IsHost(w.rooms[n], s) THEN {Lost(o) : o \in O} ELSE {R!SetStateFor(w, n, s, "waiting")}
    OBVIOUS
  <2>4. MatchLeave(w, s) = UNION {PartyLeave(v, s) : v \in out}
    BY <1>2, <1>4, <2>1, <2>3 DEF MatchLeave, R!HasRoom
  <2>5. ASSUME NEW o \in O
        PROVE  Good(Lost(o)) /\ Keeps(w, Lost(o), s)
    <3>1. RoomsOnly(w, R!Put(w, n, o))
      BY <1>1, <1>4, <2>2, PutRooms
    <3>2. PICK v : v = R!Put(w, n, o)
      OBVIOUS
    <3>3. Good(v) /\ Keeps(w, v, s)
      BY <3>1, <3>2, RoomsOnlyGood, RoomsOnlyKeeps
    <3>4. PICK u : u = ClanRoomError(v, n, OwnParty(w, s))
      OBVIOUS
    <3>5. Good(u) /\ Keeps(w, u, s)
      <4>1. Good(u) /\ Keeps(v, u, s)
        BY <3>3, <3>4, ClanRoomErrorGood
      <4> QED
        BY <3>3, <4>1, KeepsTwice
    <3>6. Lost(o) = IF o.close THEN u ELSE v
      BY <3>2, <3>4
    <3> QED
      BY <3>3, <3>5, <3>6
  <2>6. Good(R!SetStateFor(w, n, s, "waiting")) /\ Keeps(w, R!SetStateFor(w, n, s, "waiting"), s)
    <3>1. "waiting" \in R!States
      BY DEF R!States
    <3>2. RoomsOnly(w, R!SetStateFor(w, n, s, "waiting"))
      BY <1>1, <1>4, <3>1, SetStateRooms
    <3> QED
      BY <3>2, RoomsOnlyGood, RoomsOnlyKeeps
  <2> HIDE DEF Lost
  <2>7. out # {} /\ \A v \in out : Good(v) /\ Keeps(w, v, s)
    BY <2>2, <2>3, <2>5, <2>6
  <2>8. \A v \in out : PartyLeave(v, s) # {} /\ \A u \in PartyLeave(v, s) : Good(u) /\ Keeps(w, u, s)
    <3>1. \A v \in out : PartyLeave(v, s) # {} /\ \A u \in PartyLeave(v, s) : Good(u) /\ Keeps(v, u, s)
      BY <2>7, PartyLeaveGood, PartsIsKeeps
    <3> QED
      BY <2>7, <3>1, KeepsTwice
  <2> QED
    BY <2>4, <2>7, <2>8
<1> QED
  BY <1>3, <1>4

-----------------------------------------------------------------------------
(* Everybody joins, everybody comes back.                                   *)

\* A party that keeps its members and its match.
LEMMA PartyPutGood ==
  ASSUME NEW w, Good(w), NEW k \in DOMAIN w.parties, NEW q \in PartyType, q.match = w.parties[k].match,
         Fit(q), Live(q) = Live(w.parties[k]),
         NEW v, v = [w EXCEPT !.parties[k] = q]
  PROVE  Good(v)
<1>1. w \in Worlds /\ Met(w.parties, w.party, w.matches, {}) /\ Filled(w.parties)
  BY DEF Good, Meets
<1>2. PICK ps : ps = [w.parties EXCEPT ![k] = q]
  OBVIOUS
<1>3. v = [w EXCEPT !.parties = ps]
  BY <1>1, <1>2 DEF Worlds
<1>4. w.parties \in Tables(Keys, PartyType)
  BY <1>1, WorldsAre
<1>5. ps \in Tables(Keys, PartyType)
  BY <1>2, <1>4, TablePut
<1>6. v \in Worlds /\ v.parties = ps /\ v.party = w.party /\ v.matches = w.matches
  BY <1>1, <1>3, <1>5 DEF Worlds
<1>7. DOMAIN ps = DOMAIN w.parties /\ ps[k] = q /\ \A j \in DOMAIN w.parties : j # k => ps[j] = w.parties[j]
  BY <1>2
<1>8. Filled(ps)
  BY <1>1, <1>7 DEF Filled
<1>9. PICK p : p = w.party
  OBVIOUS
<1>10. Met(ps, p, w.matches, {})
  <2>1. \A x \in Live(q) : ClanOf[x] = k[1]
    BY <1>1 DEF Met
  <2>2. \A x \in Sessions : p[x] # 0 /\ <<ClanOf[x], p[x]>> = k => x \in Live(q)
    BY <1>1, <1>9 DEF Met
  <2>3. \A x \in Sessions : p[x] # 0 =>
          \/ <<ClanOf[x], p[x]>> = k /\ x \in Live(q)
          \/ p[x] = w.party[x] /\ <<ClanOf[x], p[x]>> # k
    BY <1>9, <2>2
  <2> QED
    BY <1>1, <1>7, <2>1, <2>3, PartyChanged
<1> QED
  BY <1>6, <1>8, <1>9, <1>10 DEF Good, Meets

\* The members in another order.
LEMMA SwappedMembers ==
  ASSUME NEW q \in PartyType, NEW i \in DOMAIN q.players, NEW u,
         u = [q EXCEPT !.players = R!SwapWithFirst(@, i)]
  PROVE  /\ u \in PartyType /\ u.match = q.match /\ Live(u) = Live(q)
         /\ Once(q.players) => Fit(u)
<1>1. PICK l \in Seq(Users) : l = q.players
  BY PartyIs
<1>2. PICK t : t = R!SwapWithFirst(l, i)
  OBVIOUS
<1>3. t \in Seq(Users) /\ DOMAIN t = DOMAIN l
  BY <1>1, <1>2, SwapTyped
<1>4. u = [q EXCEPT !.players = t]
  BY <1>1, <1>2
<1>5. u \in PartyType /\ u.players = t /\ u.match = q.match
  BY <1>3, <1>4 DEF PartyType, Users
<1>6. t # <<>>
  BY <1>1, <1>3
<1>7. /\ \A x \in DOMAIN t : \E y \in DOMAIN l : t[x] = l[y]
      /\ \A y \in DOMAIN l : \E x \in DOMAIN t : t[x] = l[y]
  <2>1. i \in DOMAIN l
    BY <1>1
  <2> QED
    BY <1>2, <2>1, SwapHas
<1>8. ASSUME NEW x
      PROVE  x \in Live(u) <=> x \in Live(q)
  <2>1. x \in Live(u) <=> \E j \in DOMAIN t : t[j].live /\ t[j].id = x
    BY <1>5 DEF Live
  <2>2. x \in Live(q) <=> \E j \in DOMAIN l : l[j].live /\ l[j].id = x
    BY <1>1 DEF Live
  <2> QED
    BY <1>7, <2>1, <2>2
<1>9. Live(u) = Live(q)
  BY <1>8
<1>10. Once(q.players) => Fit(u)
  <2>1. i \in DOMAIN l
    BY <1>1
  <2> QED
    BY <1>1, <1>2, <1>5, <1>6, <2>1, SwapOnce DEF Fit
<1> QED
  BY <1>5, <1>9, <1>10

LEMMA RestoredGood ==
  ASSUME NEW w, Good(w), NEW k, NEW s
  PROVE  Good(Restored(w, k, s))
<1>1. CASE k \notin DOMAIN w.parties \/ Positions(w.parties[k], s) \subseteq {1}
  BY <1>1 DEF Restored
<1>2. CASE ~(k \notin DOMAIN w.parties \/ Positions(w.parties[k], s) \subseteq {1})
  <2>1. PICK i : i = R!The(Positions(w.parties[k], s))
    OBVIOUS
  <2>2. w \in Worlds
    BY DEF Good, Meets
  <2>3. PICK q \in PartyType : q = w.parties[k]
    BY <1>2, <2>2, PartyOf
  <2>4. i \in DOMAIN q.players
    BY <1>2, <2>1, <2>3 DEF R!The, Positions
  <2>5. PICK u : u = [q EXCEPT !.players = R!SwapWithFirst(@, i)]
    OBVIOUS
  <2>6. u \in PartyType /\ u.match = q.match /\ Fit(u) /\ Live(u) = Live(q)
    <3>1. Once(q.players)
      BY <1>2, <2>3 DEF Good, Filled, Fit
    <3> QED
      BY <2>4, <2>5, <3>1, SwappedMembers
  <2>7. PICK v : v = Restored(w, k, s)
    OBVIOUS
  <2>8. v = [w EXCEPT !.parties[k] = u]
    BY <1>2, <2>1, <2>3, <2>5, <2>7 DEF Restored
  <2>9. Good(v)
    BY <1>2, <2>3, <2>6, <2>8, PartyPutGood
  <2> QED
    BY <2>7, <2>9
<1> QED
  BY <1>1, <1>2

LEMMA WaitingGood ==
  ASSUME NEW w, Good(w), NEW k
  PROVE  Good(Waiting(w, k))
<1>1. CASE k \notin DOMAIN w.parties
  BY <1>1 DEF Waiting
<1>2. CASE k \in DOMAIN w.parties
  <2>1. w \in Worlds /\ Filled(w.parties)
    BY DEF Good, Meets
  <2>2. PICK q \in PartyType : q = w.parties[k]
    BY <1>2, <2>1, PartyOf
  <2>3. PICK u : u = [q EXCEPT !.started = FALSE]
    OBVIOUS
  <2>4. u \in PartyType /\ u.match = q.match /\ u.players = q.players
    BY <2>3 DEF PartyType
  <2>5. Live(u) = Live(q) /\ Fit(u)
    BY <1>2, <2>1, <2>2, <2>4 DEF Live, Filled, Fit
  <2>6. PICK v : v = Waiting(w, k)
    OBVIOUS
  <2>7. v = [w EXCEPT !.parties[k] = u]
    BY <1>2, <2>2, <2>3, <2>6 DEF Waiting
  <2>8. Good(v)
    BY <1>2, <2>2, <2>4, <2>5, <2>7, PartyPutGood
  <2> QED
    BY <2>6, <2>8
<1> QED
  BY <1>1, <1>2

LEMMA AgainGood ==
  ASSUME NEW w, Good(w), NEW s \in Sessions, NEW k, k[1] = ClanOf[s]
  PROVE  Good(Again(w, s, k))
<1>1. PICK v : v = R!The(PartyLeave(w, s))
  OBVIOUS
<1>2. v \in PartyLeave(w, s)
  BY <1>1, PartyLeaveGood DEF R!The
<1>3. Good(v)
  BY <1>2, PartyLeaveGood
<1>4. Good(PartyJoin(v, s, k))
  BY <1>3, PartyJoinGood
<1> QED
  BY <1>1, <1>4 DEF Again

\* One member of a party's roster.
LEMMA ReturnedGood ==
  ASSUME NEW w, Good(w), NEW k, NEW e \in Users, e.live => k[1] = ClanOf[e.id]
  PROVE  Good(Follower(w, k, e)) /\ Good(Leader(w, k, e))
<1>1. e.id \in Sessions
  BY DEF Users
<1>2. e.live => Good(Again(w, e.id, k))
  BY <1>1, AgainGood
<1>3. Good(Follower(w, k, e))
  BY <1>2 DEF Follower
<1>4. e.live => Good(Restored(Again(w, e.id, k), k, e.id))
  BY <1>2, RestoredGood
<1>5. Good(Leader(w, k, e))
  BY <1>4 DEF Leader
<1> QED
  BY <1>3, <1>5

Rostered(l, k) == l \in Seq(Users) /\ \A i \in DOMAIN l : l[i].live => k[1] = ClanOf[l[i].id]
LEMMA RosterIs ==
  ASSUME NEW w, Good(w), NEW k, NEW l, l = Roster(w, k)
  PROVE  Rostered(l, k)
<1>1. CASE k \notin DOMAIN w.parties
  <2>1. l = <<>>
    BY <1>1 DEF Roster
  <2> QED
    BY <2>1 DEF Rostered
<1>2. CASE k \in DOMAIN w.parties
  <2>1. w \in Worlds /\ Met(w.parties, w.party, w.matches, {})
    BY DEF Good, Meets
  <2>2. PICK q \in PartyType : q = w.parties[k]
    BY <1>2, <2>1, PartyOf
  <2>3. l = q.players /\ q.players \in Seq(Users)
    BY <1>2, <2>2, PartyIs DEF Roster
  <2>4. \A x \in Live(q) : ClanOf[x] = k[1]
    BY <1>2, <2>1, <2>2 DEF Met
  <2>5. \A i \in DOMAIN q.players : q.players[i].live => q.players[i].id \in Live(q)
    BY LiveIs
  <2> QED
    BY <2>3, <2>4, <2>5 DEF Rostered
<1> QED
  BY <1>1, <1>2

LEMMA EnteringIs ==
  ASSUME NEW w, NEW v \in Worlds, RoomsOnly(w, v), NEW r, NEW e \in Users
  PROVE  Entering(v, r, e) \in Worlds /\ RoomsOnly(w, Entering(v, r, e))
<1>1. e.id \in Sessions
  BY DEF Users
<1>2. PICK u : u = EnterRoom(v, r, e.id)
  OBVIOUS
<1>3. RoomsOnly(v, u)
  BY <1>1, <1>2, EnterRoomIs
<1>4. RoomsOnly(w, u)
  BY <1>3, RoomsOnlyTwice
<1>5. Entering(v, r, e) = u \/ Entering(v, r, e) = v
  BY <1>2 DEF Entering
<1> QED
  BY <1>4, <1>5 DEF RoomsOnly

\* Everybody of a party enters the room.
LEMMA EnterIs ==
  ASSUME NEW w \in Worlds, NEW r, NEW q, NEW l \in Seq(Users), l = q.players
  PROVE  RoomsOnly(w, Enter(w, r, q))
<1> DEFINE n == Len(l)
           X == {v \in Worlds : RoomsOnly(w, v)}
           g == [p \in X \X (1 .. n) |-> Entering(p[1], r, l[p[2]])]
           Is(h) == h = [i \in 0 .. n |-> IF i = 0 THEN w ELSE Entering(h[i - 1], r, l[i])]
<1>1. n \in Nat /\ \A i \in 1 .. n : i \in DOMAIN l /\ l[i] \in Users /\ i \in 0 .. n /\ i - 1 \in 0 .. n
  BY ListIs
<1>2. w \in X
  BY DEF RoomsOnly
<1>3. ASSUME NEW v \in X, NEW i \in 1 .. n
      PROVE  Entering(v, r, l[i]) \in X
  BY <1>1, EnteringIs
<1>4. g \in [X \X (1 .. n) -> X]
  <2>1. \A p \in X \X (1 .. n) : p[1] \in X /\ p[2] \in 1 .. n
    OBVIOUS
  <2> HIDE DEF X, n
  <2> QED
    BY <1>3, <2>1
<1>5. \A v \in X, i \in 1 .. n : g[<<v, i>>] = Entering(v, r, l[i])
  <2> HIDE DEF X, n
  <2> QED
    OBVIOUS
<1> HIDE DEF X, n, g
<1>6. PICK h : Iterates(h, w, g, n, X)
  BY <1>1, <1>2, <1>4, IteratesExist
<1>7. Is(h)
  <2>1. h \in [0 .. n -> X] /\ h[0] = w /\ \A i \in 1 .. n : h[i] = g[<<h[i - 1], i>>]
    BY <1>6 DEF Iterates
  <2>2. \A i \in 1 .. n : h[i] = Entering(h[i - 1], r, l[i])
    BY <1>1, <1>5, <2>1
  <2>3. \A i \in 0 .. n : i # 0 => i \in 1 .. n
    BY <1>1
  <2> QED
    BY <2>1, <2>2, <2>3
<1>8. PICK f : f = CHOOSE h0 : Is(h0)
  OBVIOUS
<1>9. Is(f)
  <2> HIDE DEF Is
  <2> QED
    BY <1>7, <1>8
<1>10. Enter(w, r, q) = f[n]
  BY <1>8 DEF Enter, n
<1> DEFINE Y == {i \in 0 .. n : f[i] \in X}
<1>11. 0 \in Y
  <2>1. 0 \in 0 .. n
    BY <1>1
  <2> QED
    BY <1>2, <1>9, <2>1
<1>12. ASSUME NEW i \in 1 .. n, i - 1 \in Y
       PROVE  i \in Y
  <2>1. i \in 0 .. n /\ i # 0 /\ f[i - 1] \in X
    BY <1>1, <1>12
  <2>2. f[i] = Entering(f[i - 1], r, l[i])
    BY <1>9, <2>1
  <2>3. PICK v \in X : v = f[i - 1]
    BY <2>1
  <2>4. Entering(v, r, l[i]) \in X
    BY <1>3
  <2> QED
    BY <2>1, <2>2, <2>3, <2>4
<1>13. 0 .. n \subseteq Y
  <2> HIDE DEF Y
  <2> QED
    BY <1>1, <1>11, <1>12, Reaches
<1>14. n \in 0 .. n
  BY <1>1
<1>15. f[n] \in X
  BY <1>13, <1>14
<1> QED
  BY <1>10, <1>15 DEF X

LEMMA FollowedIn ==
  ASSUME NEW w, NEW k, NEW l \in Seq(Users), l = Roster(w, k), NEW X, w \in X,
         \A v \in X : \A i \in DOMAIN l : Follower(v, k, l[i]) \in X
  PROVE  Followed(w, k) \in X
<1> DEFINE n == Len(l)
           g == [p \in X \X (1 .. n) |-> Follower(p[1], k, l[p[2]])]
           Is(h) == h = [i \in 0 .. n |-> IF i = 0 THEN w ELSE Follower(h[i - 1], k, l[i])]
<1>1. n \in Nat /\ \A i \in 1 .. n : i \in DOMAIN l /\ i \in 0 .. n /\ i - 1 \in 0 .. n
  BY ListIs
<1>3. \A v \in X, i \in 1 .. n : Follower(v, k, l[i]) \in X
  BY <1>1
<1>4. g \in [X \X (1 .. n) -> X]
  <2>1. \A p \in X \X (1 .. n) : p[1] \in X /\ p[2] \in 1 .. n
    OBVIOUS
  <2> HIDE DEF n
  <2> QED
    BY <1>3, <2>1
<1>5. \A v \in X, i \in 1 .. n : g[<<v, i>>] = Follower(v, k, l[i])
  <2> HIDE DEF n
  <2> QED
    OBVIOUS
<1> HIDE DEF n, g
<1>6. PICK h : Iterates(h, w, g, n, X)
  BY <1>1, <1>4, IteratesExist
<1>7. Is(h)
  <2>1. h \in [0 .. n -> X] /\ h[0] = w /\ \A i \in 1 .. n : h[i] = g[<<h[i - 1], i>>]
    BY <1>6 DEF Iterates
  <2>2. \A i \in 1 .. n : h[i] = Follower(h[i - 1], k, l[i])
    BY <1>1, <1>5, <2>1
  <2>3. \A i \in 0 .. n : i # 0 => i \in 1 .. n
    BY <1>1
  <2> QED
    BY <2>1, <2>2, <2>3
<1>8. PICK f : f = CHOOSE h0 : Is(h0)
  OBVIOUS
<1>9. Is(f)
  <2> HIDE DEF Is
  <2> QED
    BY <1>7, <1>8
<1>10. Followed(w, k) = f[n]
  BY <1>8 DEF Followed, n
<1> DEFINE Y == {i \in 0 .. n : f[i] \in X}
<1>11. 0 \in Y
  <2>1. 0 \in 0 .. n
    BY <1>1
  <2> QED
    BY <1>9, <2>1
<1>12. ASSUME NEW i \in 1 .. n, i - 1 \in Y
       PROVE  i \in Y
  <2>1. i \in 0 .. n /\ i # 0 /\ f[i - 1] \in X
    BY <1>1, <1>12
  <2>2. f[i] = Follower(f[i - 1], k, l[i])
    BY <1>9, <2>1
  <2>3. PICK v \in X : v = f[i - 1]
    BY <2>1
  <2>4. Follower(v, k, l[i]) \in X
    BY <1>3
  <2> QED
    BY <2>1, <2>2, <2>3, <2>4
<1>13. 0 .. n \subseteq Y
  <2> HIDE DEF Y
  <2> QED
    BY <1>1, <1>11, <1>12, Reaches
<1>14. n \in 0 .. n
  BY <1>1
<1>15. f[n] \in X
  BY <1>13, <1>14
<1> QED
  BY <1>10, <1>15

LEMMA FollowedGood ==
  ASSUME NEW w, Good(w), NEW k
  PROVE  Good(Followed(w, k))
<1>1. PICK X : X = {v \in Worlds : Good(v)}
  OBVIOUS
<1>2. PICK l : l = Roster(w, k)
  OBVIOUS
<1>3. Rostered(l, k)
  BY <1>2, RosterIs
<1>4. l \in Seq(Users) /\ \A i \in DOMAIN l : l[i] \in Users /\ (l[i].live => k[1] = ClanOf[l[i].id])
  BY <1>3, ListIs DEF Rostered
<1>5. \A v \in X : \A i \in DOMAIN l : Follower(v, k, l[i]) \in X
  BY <1>1, <1>4, ReturnedGood DEF Good, Meets
<1>6. w \in X
  BY <1>1 DEF Good, Meets
<1> QED
  BY <1>1, <1>2, <1>4, <1>5, <1>6, FollowedIn

LEMMA HeadedIn ==
  ASSUME NEW w, NEW k, NEW l \in Seq(Users), l = Roster(w, k), NEW X, w \in X,
         \A v \in X : \A i \in DOMAIN l : Leader(v, k, l[i]) \in X
  PROVE  Headed(w, k) \in X
<1> DEFINE n == Len(l)
           g == [p \in X \X (1 .. n) |-> Leader(p[1], k, l[p[2]])]
           Is(h) == h = [i \in 0 .. n |-> IF i = 0 THEN w ELSE Leader(h[i - 1], k, l[i])]
<1>1. n \in Nat /\ \A i \in 1 .. n : i \in DOMAIN l /\ i \in 0 .. n /\ i - 1 \in 0 .. n
  BY ListIs
<1>3. \A v \in X, i \in 1 .. n : Leader(v, k, l[i]) \in X
  BY <1>1
<1>4. g \in [X \X (1 .. n) -> X]
  <2>1. \A p \in X \X (1 .. n) : p[1] \in X /\ p[2] \in 1 .. n
    OBVIOUS
  <2> HIDE DEF n
  <2> QED
    BY <1>3, <2>1
<1>5. \A v \in X, i \in 1 .. n : g[<<v, i>>] = Leader(v, k, l[i])
  <2> HIDE DEF n
  <2> QED
    OBVIOUS
<1> HIDE DEF n, g
<1>6. PICK h : Iterates(h, w, g, n, X)
  BY <1>1, <1>4, IteratesExist
<1>7. Is(h)
  <2>1. h \in [0 .. n -> X] /\ h[0] = w /\ \A i \in 1 .. n : h[i] = g[<<h[i - 1], i>>]
    BY <1>6 DEF Iterates
  <2>2. \A i \in 1 .. n : h[i] = Leader(h[i - 1], k, l[i])
    BY <1>1, <1>5, <2>1
  <2>3. \A i \in 0 .. n : i # 0 => i \in 1 .. n
    BY <1>1
  <2> QED
    BY <2>1, <2>2, <2>3
<1>8. PICK f : f = CHOOSE h0 : Is(h0)
  OBVIOUS
<1>9. Is(f)
  <2> HIDE DEF Is
  <2> QED
    BY <1>7, <1>8
<1>10. Headed(w, k) = f[n]
  BY <1>8 DEF Headed, n
<1> DEFINE Y == {i \in 0 .. n : f[i] \in X}
<1>11. 0 \in Y
  <2>1. 0 \in 0 .. n
    BY <1>1
  <2> QED
    BY <1>9, <2>1
<1>12. ASSUME NEW i \in 1 .. n, i - 1 \in Y
       PROVE  i \in Y
  <2>1. i \in 0 .. n /\ i # 0 /\ f[i - 1] \in X
    BY <1>1, <1>12
  <2>2. f[i] = Leader(f[i - 1], k, l[i])
    BY <1>9, <2>1
  <2>3. PICK v \in X : v = f[i - 1]
    BY <2>1
  <2>4. Leader(v, k, l[i]) \in X
    BY <1>3
  <2> QED
    BY <2>1, <2>2, <2>3, <2>4
<1>13. 0 .. n \subseteq Y
  <2> HIDE DEF Y
  <2> QED
    BY <1>1, <1>11, <1>12, Reaches
<1>14. n \in 0 .. n
  BY <1>1
<1>15. f[n] \in X
  BY <1>13, <1>14
<1> QED
  BY <1>10, <1>15

LEMMA HeadedGood ==
  ASSUME NEW w, Good(w), NEW k
  PROVE  Good(Headed(w, k))
<1>1. PICK X : X = {v \in Worlds : Good(v)}
  OBVIOUS
<1>2. PICK l : l = Roster(w, k)
  OBVIOUS
<1>3. Rostered(l, k)
  BY <1>2, RosterIs
<1>4. l \in Seq(Users) /\ \A i \in DOMAIN l : l[i] \in Users /\ (l[i].live => k[1] = ClanOf[l[i].id])
  BY <1>3, ListIs DEF Rostered
<1>5. \A v \in X : \A i \in DOMAIN l : Leader(v, k, l[i]) \in X
  BY <1>1, <1>4, ReturnedGood DEF Good, Meets
<1>6. w \in X
  BY <1>1 DEF Good, Meets
<1> QED
  BY <1>1, <1>2, <1>4, <1>5, <1>6, HeadedIn

LEMMA ReturnPartyGood ==
  ASSUME NEW w, Good(w), NEW k
  PROVE  Good(ReturnParty(w, k))
BY WaitingGood, FollowedGood, HeadedGood DEF ReturnParty

-----------------------------------------------------------------------------
(* The state: what the steps in the rooms alone leave.                      *)

RoomsTyped ==
  /\ rooms \in Tables(Numbers, R!RoomType) /\ number \in [Sessions -> 0 .. MaxNumber]
  /\ state \in [Sessions -> R!States] /\ free \in Seq(Numbers)
  /\ next \in 1 .. MaxNumber + 1 /\ online \subseteq Sessions

PartiesInv == Good(World) /\ next \in 1 .. MaxNumber + 1 /\ online \subseteq Sessions

LEMMA WorldIs ==
  /\ World.rooms = rooms /\ World.number = number /\ World.state = state /\ World.free = free
  /\ World.parties = parties /\ World.party = party /\ World.matches = matches
  /\ World \in Worlds <=> /\ rooms \in Tables(Numbers, R!RoomType) /\ number \in [Sessions -> 0 .. MaxNumber]
                          /\ state \in [Sessions -> R!States] /\ free \in Seq(Numbers)
                          /\ parties \in Tables(Keys, PartyType) /\ party \in [Sessions -> 0 .. MaxParties]
                          /\ matches \in Tables(Numbers, Side \X Side)
BY DEF World, Worlds

LEMMA Became ==
  ASSUME NEW w, Good(w), Become(w), UNCHANGED <<next, online>>, PartiesInv
  PROVE  PartiesInv'
<1>1. w \in Worlds
  BY DEF Good, Meets
<1>2. World' = w
  BY <1>1 DEF World, Worlds, Become, R!Become
<1> QED
  BY <1>2 DEF PartiesInv

LEMMA RoomTablePut ==
  ASSUME NEW t \in Tables(Numbers, R!RoomType), NEW n \in DOMAIN t
  PROVE  /\ t[n] \in R!RoomType /\ n \in Numbers
         /\ \A r \in R!RoomType : [t EXCEPT ![n] = r] \in Tables(Numbers, R!RoomType)
BY TablePut, TableIs

LEMMA ListRoomsTyped ==
  ASSUME RoomsTyped, R!ListRooms
  PROVE  RoomsTyped'
<1>1. PICK empty : rooms' = R!Without(rooms, empty)
  BY DEF R!ListRooms
<1>2. rooms' \in Tables(Numbers, R!RoomType)
  BY <1>1, TableWithout DEF RoomsTyped
<1>3. number' \in [Sessions -> 0 .. MaxNumber]
  BY MaxNumberAssumption DEF R!ListRooms, RoomsTyped
<1>4. UNCHANGED <<state, free, next, online>>
  BY DEF R!ListRooms
<1> QED
  BY <1>2, <1>3, <1>4 DEF RoomsTyped

\* The worlds of Rooms.
RoomWorlds ==
  [rooms : Tables(Numbers, R!RoomType), number : [Sessions -> 0 .. MaxNumber],
   state : [Sessions -> R!States], free : Seq(Numbers)]
LEMMA RoomBecame ==
  ASSUME NEW w \in RoomWorlds, R!Become(w), UNCHANGED <<next, online>>, RoomsTyped
  PROVE  RoomsTyped'
BY DEF RoomWorlds, R!Become, RoomsTyped

LEMMA KickPlayerTyped ==
  ASSUME RoomsTyped, NEW s \in Sessions, NEW p \in Sessions, R!KickPlayer(s, p)
  PROVE  RoomsTyped'
<1>1. PICK n : n = number[s]
  OBVIOUS
<1>2. n \in DOMAIN rooms
  BY <1>1 DEF R!KickPlayer, R!HasRoom, R!World
<1>3. PICK O : O = R!RemovePlayer(R!World, rooms[n], p)
  OBVIOUS
<1>4. rooms[n] \in R!RoomType
  BY <1>2, RoomTablePut DEF RoomsTyped
<1>5. O \in SUBSET Outcomes
  BY <1>3, <1>4, RemovePlayerTyped
<1>6. PICK w \in R!NotClosing(R!World, n, O) : R!Become(w)
  BY <1>1, <1>3 DEF R!KickPlayer
<1>7. PICK o \in O : w = R!Put(R!World, n, o)
  BY <1>6 DEF R!NotClosing
<1>8. PICK rs : rs = [rooms EXCEPT ![n] = o.room]
  OBVIOUS
<1>9. PICK m : m = [x \in Sessions |-> IF x = o.left THEN 0 ELSE number[x]]
  OBVIOUS
<1>10. rs \in Tables(Numbers, R!RoomType)
  <2>1. o.room \in R!RoomType
    BY <1>5 DEF Outcomes
  <2> QED
    BY <1>2, <1>8, <2>1, RoomTablePut DEF RoomsTyped
<1>11. m \in [Sessions -> 0 .. MaxNumber]
  BY <1>9, MaxNumberAssumption DEF RoomsTyped
<1>12. PICK v \in RoomWorlds : v = R!World
  BY DEF RoomsTyped, RoomWorlds, R!World
<1>13. v.rooms = rooms /\ v.number = number
  BY <1>12 DEF R!World
<1>14. w = [[v EXCEPT !.rooms = rs] EXCEPT !.number = m]
  BY <1>7, <1>8, <1>9, <1>12, <1>13 DEF R!Put, RoomWorlds
<1>15. w \in RoomWorlds
  BY <1>10, <1>11, <1>14 DEF RoomWorlds
<1>16. UNCHANGED <<next, online>>
  BY DEF R!KickPlayer
<1> QED
  BY <1>6, <1>15, <1>16, RoomBecame

LEMMA JoinMatchTyped ==
  ASSUME RoomsTyped, NEW s \in Sessions, R!JoinMatch(s)
  PROVE  RoomsTyped'
<1>1. PICK n : n = number[s]
  OBVIOUS
<1>2. n \in DOMAIN rooms
  BY <1>1 DEF R!JoinMatch, R!HasRoom, R!World
<1>3. rooms[n] \in R!RoomType
  BY <1>2, RoomTablePut DEF RoomsTyped
<1>4. rooms[n].players \in Seq(R!Entries) /\ rooms[n].observers \in Seq(R!Entries) /\ "normal" \in R!States
  BY <1>3, RoomIs DEF R!States
<1>5. PICK a \in Seq(R!Entries) : a = R!WithState(rooms[n].players, s, "normal")
  BY <1>4, WithStateTyped
<1>6. PICK b \in Seq(R!Entries) : b = R!WithState(rooms[n].observers, s, "normal")
  BY <1>4, WithStateTyped
<1>7. PICK q : q = [[rooms[n] EXCEPT !.players = a] EXCEPT !.observers = b]
  OBVIOUS
<1>8. q \in R!RoomType
  BY <1>3, <1>7 DEF R!RoomType
<1>9. PICK rs : rs = [rooms EXCEPT ![n] = q]
  OBVIOUS
<1>10. rs \in Tables(Numbers, R!RoomType)
  BY <1>2, <1>8, <1>9, RoomTablePut DEF RoomsTyped
<1>11. PICK st : st = IF s \in R!Members(rooms[n]) THEN [state EXCEPT ![s] = "normal"] ELSE state
  OBVIOUS
<1>12. st \in [Sessions -> R!States]
  BY <1>4, <1>11 DEF RoomsTyped
<1>13. PICK w : w = R!SetStateFor(R!World, n, s, "normal")
  OBVIOUS
<1>14. R!Become(w) /\ UNCHANGED <<next, online>>
  BY <1>1, <1>13 DEF R!JoinMatch
<1>15. PICK v \in RoomWorlds : v = R!World
  BY DEF RoomsTyped, RoomWorlds, R!World
<1>16. v.rooms = rooms /\ v.state = state
  BY <1>15 DEF R!World
<1>17. w = [[v EXCEPT !.rooms = rs] EXCEPT !.state = st]
  <2>1. PICK e1 : e1 = [rooms EXCEPT ![n] = [rooms[n] EXCEPT !.players = a]]
    OBVIOUS
  <2>2. PICK v1 : v1 = [v EXCEPT !.rooms = e1]
    OBVIOUS
  <2>3. v1.rooms = e1 /\ v1.state = state
    BY <1>16, <2>2 DEF RoomWorlds
  <2>4. PICK c : c = R!WithState(v1.rooms[n].observers, s, "normal")
    OBVIOUS
  <2>5. c = b
    BY <1>2, <1>3, <1>6, <2>1, <2>3, <2>4 DEF R!RoomType
  <2>6. w = [[v1 EXCEPT !.rooms = [v1.rooms EXCEPT ![n] = [v1.rooms[n] EXCEPT !.observers = b]]] EXCEPT !.state = st]
    BY <1>5, <1>6, <1>11, <1>13, <1>15, <1>16, <2>1, <2>2 DEF R!SetStateFor
  <2>7. rs = [e1 EXCEPT ![n] = [e1[n] EXCEPT !.observers = b]]
    BY <1>2, <1>7, <1>9, <2>1
  <2>8. w = [[v1 EXCEPT !.rooms = rs] EXCEPT !.state = st]
    BY <2>3, <2>6, <2>7
  <2>9. [v1 EXCEPT !.rooms = rs] = [v EXCEPT !.rooms = rs]
    BY <2>2 DEF RoomWorlds
  <2> QED
    BY <2>8, <2>9
<1>18. w \in RoomWorlds
  BY <1>10, <1>12, <1>17 DEF RoomWorlds
<1> QED
  BY <1>14, <1>18, RoomBecame

LEMMA ChangeHostTyped ==
  ASSUME RoomsTyped, NEW s \in Sessions, NEW k, R!ChangeHost(s, k)
  PROVE  RoomsTyped'
<1>1. PICK n : n = number[s]
  OBVIOUS
<1>2. /\ n \in DOMAIN rooms /\ k \in DOMAIN rooms[n].players
      /\ rooms' = [rooms EXCEPT ![n].players = R!SwapWithFirst(@, k)]
      /\ UNCHANGED <<number, state, free, next, online>>
  BY <1>1 DEF R!ChangeHost, R!HasRoom, R!World
<1>3. rooms[n] \in R!RoomType
  BY <1>2, RoomTablePut DEF RoomsTyped
<1>4. PICK q : q = [rooms[n] EXCEPT !.players = R!SwapWithFirst(@, k)]
  OBVIOUS
<1>5. q \in R!RoomType
  BY <1>2, <1>3, <1>4, SwappedPlayers
<1>6. rooms' = [rooms EXCEPT ![n] = q]
  BY <1>2, <1>4
<1>7. PICK t \in Tables(Numbers, R!RoomType) : t = rooms
  BY DEF RoomsTyped
<1>8. n \in DOMAIN t
  BY <1>2, <1>7
<1>9. [t EXCEPT ![n] = q] \in Tables(Numbers, R!RoomType)
  BY <1>5, <1>8, RoomTablePut
<1>10. rooms' \in Tables(Numbers, R!RoomType)
  BY <1>6, <1>7, <1>9
<1> QED
  BY <1>2, <1>10 DEF RoomsTyped

\* The list of a room after entries got another state.
LEMMA RestatedTyped ==
  ASSUME NEW l \in Seq(R!Entries), NEW v \in R!States, NEW t, DOMAIN t = DOMAIN l, t = [i \in DOMAIN l |-> t[i]],
         \A i \in DOMAIN l : t[i] = l[i] \/ t[i] = [l[i] EXCEPT !.state = v]
  PROVE  t \in Seq(R!Entries)
<1>1. Len(l) \in Nat /\ DOMAIN l = 1 .. Len(l) /\ \A i \in DOMAIN l : l[i] \in R!Entries
  BY ListIs
<1>2. \A i \in DOMAIN l : t[i] \in R!Entries
  BY <1>1 DEF R!Entries
<1>3. t \in [1 .. Len(l) -> R!Entries]
  BY <1>1, <1>2
<1> QED
  BY <1>1, <1>3, FunctionIsList

\* The match's start and end put a room in the place of n's.
LEMMA StartMatchTyped ==
  ASSUME RoomsTyped, NEW s \in Sessions, R!StartMatch(s)
  PROVE  RoomsTyped'
<1>1. PICK n : n = number[s]
  OBVIOUS
<1>2. PICK r : r = rooms[n]
  OBVIOUS
<1> DEFINE Played(l) == [i \in DOMAIN l |-> IF R!Starts(r, l[i]) THEN [l[i] EXCEPT !.state = "normal"] ELSE l[i]]
<1>3. /\ n \in DOMAIN rooms
      /\ rooms' = [rooms EXCEPT ![n] = [players |-> Played(r.players), observers |-> Played(r.observers),
                                       started |-> TRUE, target |-> NoSession]]
      /\ UNCHANGED <<number, free, next, online>>
  BY <1>1, <1>2 DEF R!StartMatch, R!HasRoom, R!World
<1>4. state' \in [Sessions -> R!States]
  BY DEF R!StartMatch, RoomsTyped, R!States
<1>5. r \in R!RoomType
  BY <1>2, <1>3, RoomTablePut DEF RoomsTyped
<1>6. "normal" \in R!States
  BY DEF R!States
<1>7. ASSUME NEW l \in Seq(R!Entries)
      PROVE  Played(l) \in Seq(R!Entries)
  BY <1>6, RestatedTyped
<1>8. PICK a \in Seq(R!Entries) : a = Played(r.players)
  BY <1>5, <1>7, RoomIs
<1>9. PICK b \in Seq(R!Entries) : b = Played(r.observers)
  BY <1>5, <1>7, RoomIs
<1> HIDE DEF Played
<1>10. PICK q \in R!RoomType : q = [players |-> a, observers |-> b, started |-> TRUE, target |-> NoSession]
  BY DEF R!RoomType
<1>11. rooms' \in Tables(Numbers, R!RoomType)
  BY <1>3, <1>8, <1>9, <1>10, RoomTablePut DEF RoomsTyped
<1> QED
  BY <1>3, <1>4, <1>11 DEF RoomsTyped

LEMMA EndMatchTyped ==
  ASSUME RoomsTyped, NEW s \in Sessions, R!EndMatch(s)
  PROVE  RoomsTyped'
<1>1. PICK n : n = number[s]
  OBVIOUS
<1>2. PICK r : r = rooms[n]
  OBVIOUS
<1> DEFINE Ended(l) == [i \in DOMAIN l |-> IF l[i].live /\ state[l[i].id] \in {"ready", "normal"}
                                           THEN [l[i] EXCEPT !.state = "waiting"] ELSE l[i]]
<1>3. /\ n \in DOMAIN rooms
      /\ rooms' = [rooms EXCEPT ![n] = [players |-> Ended(r.players), observers |-> Ended(r.observers),
                                       started |-> FALSE, target |-> NoSession]]
      /\ UNCHANGED <<number, free, next, online>>
  BY <1>1, <1>2 DEF R!EndMatch, R!HasRoom, R!World
<1>4. state' \in [Sessions -> R!States]
  BY DEF R!EndMatch, RoomsTyped, R!States
<1>5. r \in R!RoomType
  BY <1>2, <1>3, RoomTablePut DEF RoomsTyped
<1>6. "waiting" \in R!States
  BY DEF R!States
<1>7. ASSUME NEW l \in Seq(R!Entries)
      PROVE  Ended(l) \in Seq(R!Entries)
  BY <1>6, RestatedTyped
<1>8. PICK a \in Seq(R!Entries) : a = Ended(r.players)
  BY <1>5, <1>7, RoomIs
<1>9. PICK b \in Seq(R!Entries) : b = Ended(r.observers)
  BY <1>5, <1>7, RoomIs
<1> HIDE DEF Ended
<1>10. PICK q \in R!RoomType : q = [players |-> a, observers |-> b, started |-> FALSE, target |-> NoSession]
  BY DEF R!RoomType
<1>11. rooms' \in Tables(Numbers, R!RoomType)
  BY <1>3, <1>8, <1>9, <1>10, RoomTablePut DEF RoomsTyped
<1> QED
  BY <1>3, <1>4, <1>11 DEF RoomsTyped

LEMMA InRoomTyped ==
  ASSUME RoomsTyped, InRoom
  PROVE  RoomsTyped'
<1>1. CASE R!ListRooms
  BY <1>1, ListRoomsTyped
<1>2. ASSUME NEW s \in Sessions, R!Connect(s)
      PROVE  RoomsTyped'
  BY <1>2 DEF R!Connect, RoomsTyped
<1>3. ASSUME NEW s \in Sessions, NEW p \in Sessions, R!KickPlayer(s, p)
      PROVE  RoomsTyped'
  BY <1>3, KickPlayerTyped
<1>4. ASSUME NEW s \in Sessions, R!JoinMatch(s)
      PROVE  RoomsTyped'
  BY <1>4, JoinMatchTyped
<1>5. ASSUME NEW s \in Sessions, NEW i, R!ChangeHost(s, i)
      PROVE  RoomsTyped'
  BY <1>5, ChangeHostTyped
<1> QED
  BY <1>1, <1>2, <1>3, <1>4, <1>5 DEF InRoom

-----------------------------------------------------------------------------
(* The steps that change parties.                                           *)

\* The sides of the match that was left out have its room.
LEMMA MatchMet ==
  ASSUME NEW ps, NEW p, NEW ms, NEW r, Met(ps, p, ms, {r}),
         \A i \in 1 .. 2 : ms[r][i] # NoParty => ms[r][i] \in DOMAIN ps /\ ps[ms[r][i]].match = r
  PROVE  Met(ps, p, ms, {})
BY DEF Met

\* addClanMatch of two parties.
LEMMA AddMatchGood ==
  ASSUME NEW w, Good(w), NEW k \in DOMAIN w.parties, NEW t \in DOMAIN w.parties, k # t, NEW r \in Numbers
  PROVE  Good(AddMatch(w, r, k, t))
<1>1. w \in Worlds /\ Met(w.parties, w.party, w.matches, {}) /\ Filled(w.parties)
  BY DEF Good, Meets
<1>2. CASE w.parties[k].match # 0 \/ w.parties[t].match # 0
  BY <1>2 DEF AddMatch
<1>3. CASE ~(w.parties[k].match # 0 \/ w.parties[t].match # 0)
  <2>1. w.matches \in Tables(Numbers, Side \X Side) /\ w.parties \in Tables(Keys, PartyType)
    BY <1>1, WorldsAre
  <2>2. w.matches \in [DOMAIN w.matches -> Side \X Side] /\ DOMAIN w.matches \subseteq Numbers
        /\ k \in Side /\ t \in Side
    BY <2>1, TableIs DEF Side
  <2>3. PICK ms : ms = [n \in DOMAIN w.matches \cup {r} |-> IF n = r THEN <<k, t>> ELSE w.matches[n]]
    OBVIOUS
  <2>4. DOMAIN ms = DOMAIN w.matches \cup {r} /\ ms[r][1] = k /\ ms[r][2] = t
        /\ \A n \in DOMAIN w.matches : n # r => ms[n] = w.matches[n]
    BY <2>3
  <2>5. ms \in Tables(Numbers, Side \X Side)
    <3>1. ms \in [DOMAIN w.matches \cup {r} -> Side \X Side]
      BY <2>2, <2>3
    <3>2. DOMAIN w.matches \cup {r} \in SUBSET Numbers
      BY <2>2
    <3> QED
      BY <3>1, <3>2, TableIs
  <2>6. PICK v : v = [w EXCEPT !.matches = ms]
    OBVIOUS
  <2>7. v \in Worlds /\ v.matches = ms /\ v.parties = w.parties /\ v.party = w.party
    BY <1>1, <2>5, <2>6 DEF Worlds
  <2>8. Met(v.parties, v.party, v.matches, {r})
    <3>1. PICK o : o = w.matches
      OBVIOUS
    <3>2. \A n \in DOMAIN ms \ {r} : n \in DOMAIN o /\ ms[n] = o[n]
      BY <2>4, <3>1
    <3>3. Met(w.parties, w.party, o, {})
      BY <1>1, <3>1
    <3>4. Met(w.parties, w.party, ms, {r})
      BY <3>2, <3>3 DEF Met
    <3> QED
      BY <2>7, <3>4
  <2>9. \A n \in DOMAIN ms \ {r} : \A i \in 1 .. 2 : ms[n][i] # NoParty => ms[n][i] # k /\ ms[n][i] # t
    <3>1. \A n \in DOMAIN w.matches : \A i \in 1 .. 2 :
            w.matches[n][i] # NoParty => w.parties[w.matches[n][i]].match = n
      BY <1>1 DEF Met
    <3>2. \A n \in DOMAIN w.matches : n # 0
      BY <2>2, MaxNumberAssumption DEF Numbers
    <3> QED
      BY <1>3, <2>4, <3>1, <3>2
  <2>10. r \in 0 .. MaxNumber /\ r # 0
    BY MaxNumberAssumption DEF Numbers
  <2>11. PICK v1 : v1 = SetMatch(v, k, r)
    OBVIOUS
  <2>12. \A n \in DOMAIN v.matches \ {r} : \A i \in 1 .. 2 : v.matches[n][i] # NoParty => v.matches[n][i] # k
    BY <2>7, <2>9
  <2>13. /\ Meets(v1, {r}) /\ v1.matches = v.matches /\ DOMAIN v1.parties = DOMAIN v.parties
         /\ \A j \in DOMAIN v.parties : v1.parties[j].players = v.parties[j].players
         /\ v1.parties[k].match = r
    <3>1. v \in Worlds /\ Met(v.parties, v.party, v.matches, {r}) /\ k \in Side /\ k \in DOMAIN v.parties
      BY <2>2, <2>7, <2>8
    <3>2. Meets(v, {r}) /\ Apart(v, k, {r})
      BY <2>12, <3>1 DEF Meets, Apart
    <3>3. Meets(v1, {r}) /\ MatchSet(v, v1, k, r)
      BY <2>10, <2>11, <3>1, <3>2, SetMatchSets
    <3> QED
      BY <3>1, <3>3 DEF MatchSet
  <2>14. v1 \in Worlds /\ Met(v1.parties, v1.party, v1.matches, {r})
    BY <2>13 DEF Meets
  <2>15. \A n \in DOMAIN v1.matches \ {r} : \A i \in 1 .. 2 : v1.matches[n][i] # NoParty => v1.matches[n][i] # t
    BY <2>7, <2>9, <2>13
  <2>16. PICK v2 : v2 = SetMatch(v1, t, r)
    OBVIOUS
  <2>17. /\ Meets(v2, {r}) /\ v2.matches = v1.matches /\ DOMAIN v2.parties = DOMAIN v1.parties
         /\ \A j \in DOMAIN v1.parties : v2.parties[j].players = v1.parties[j].players
         /\ \A j \in DOMAIN v1.parties : j # t => v2.parties[j].match = v1.parties[j].match
         /\ v2.parties[t].match = r
    <3>1. /\ v1 \in Worlds /\ t \in Side /\ r \in 0 .. MaxNumber /\ v2 = SetMatch(v1, t, r)
          /\ Met(v1.parties, v1.party, v1.matches, {r})
      BY <2>2, <2>10, <2>14, <2>16
    <3>2. \A n \in DOMAIN v1.matches \ {r} : \A i \in 1 .. 2 :
            v1.matches[n][i] # NoParty => v1.matches[n][i] # t
      BY <2>15
    <3>3. /\ Meets(v2, {r}) /\ v2.matches = v1.matches /\ DOMAIN v2.parties = DOMAIN v1.parties
          /\ \A j \in DOMAIN v1.parties : v2.parties[j].players = v1.parties[j].players
      BY <3>1, <3>2, SetMatchIs
    <3>4. \A j \in DOMAIN v1.parties : j # t => v2.parties[j].match = v1.parties[j].match
      BY <3>1, <3>2, SetMatchIs
    <3>5. t \in DOMAIN v1.parties => v2.parties[t].match = r
      BY <3>1, <3>2, SetMatchIs
    <3> QED
      BY <2>7, <2>13, <3>3, <3>4, <3>5
  <2>18. v2.matches = ms /\ k \in DOMAIN v2.parties /\ t \in DOMAIN v2.parties
         /\ v2.parties[k].match = r /\ v2.parties[t].match = r
    BY <2>7, <2>13, <2>17
  <2>19. \A i \in 1 .. 2 : ms[r][i] = k \/ ms[r][i] = t
    BY <2>4
  <2>20. v2 \in Worlds /\ Met(v2.parties, v2.party, v2.matches, {r})
    BY <2>17 DEF Meets
  <2>21. Met(v2.parties, v2.party, v2.matches, {})
    <3>1. PICK ps : ps = v2.parties
      OBVIOUS
    <3>2. Met(ps, v2.party, ms, {r})
      BY <2>18, <2>20, <3>1
    <3>3. \A i \in 1 .. 2 : ms[r][i] # NoParty => ms[r][i] \in DOMAIN ps /\ ps[ms[r][i]].match = r
      BY <2>18, <2>19, <3>1
    <3>4. Met(ps, v2.party, ms, {})
      BY <3>2, <3>3, MatchMet
    <3> QED
      BY <2>18, <3>1, <3>4
  <2>22. Filled(v2.parties)
    <3>1. Filled(v1.parties)
      BY <1>1, <2>7, <2>13, KeepsFilled
    <3> QED
      BY <2>17, <3>1, KeepsFilled
  <2>23. AddMatch(w, r, k, t) = v2
    BY <1>3, <2>3, <2>6, <2>11, <2>16 DEF AddMatch
  <2> QED
    BY <2>20, <2>21, <2>22, <2>23 DEF Good, Meets
<1> QED
  BY <1>2, <1>3

\* handleRoomCreationClan.
LEMMA HostedIs ==
  ASSUME NEW w \in Worlds, NEW r \in Numbers, NEW s \in Sessions, NEW v, v = Hosted(w, r, s)
  PROVE  RoomsOnly(w, v)
<1>1. w.rooms \in Tables(Numbers, R!RoomType) /\ w.number \in [Sessions -> 0 .. MaxNumber]
      /\ w.state \in [Sessions -> R!States]
  BY WorldsAre
<1>2. w.rooms \in [DOMAIN w.rooms -> R!RoomType] /\ DOMAIN w.rooms \subseteq Numbers
  BY <1>1, TableIs
<1>0. PICK e \in R!Entries : e = R!NewEntry(s)
  BY DEF R!NewEntry, R!Entries, R!States
<1>3. PICK l : l = <<e>>
  OBVIOUS
<1>15. l \in Seq(R!Entries)
  BY <1>3
<1>4. PICK o : o = <<>>
  OBVIOUS
<1>16. o \in Seq(R!Entries)
  BY <1>4
<1>5. PICK q \in R!RoomType : q = [players |-> l, observers |-> o, started |-> FALSE, target |-> NoSession]
  BY <1>15, <1>16 DEF R!RoomType
<1>6. PICK rs : rs = [n \in DOMAIN w.rooms \cup {r} |-> IF n = r THEN q ELSE w.rooms[n]]
  OBVIOUS
<1>7. rs \in Tables(Numbers, R!RoomType)
  <2>1. rs \in [DOMAIN w.rooms \cup {r} -> R!RoomType]
    BY <1>2, <1>6
  <2>2. DOMAIN w.rooms \cup {r} \in SUBSET Numbers
    BY <1>2
  <2> QED
    BY <2>1, <2>2, TableIs
<1>8. PICK m : m = [w.number EXCEPT ![s] = r]
  OBVIOUS
<1>9. m \in [Sessions -> 0 .. MaxNumber]
  <2>1. r \in 0 .. MaxNumber
    BY MaxNumberAssumption DEF Numbers
  <2> QED
    BY <1>1, <1>8, <2>1
<1>10. PICK st : st = [w.state EXCEPT ![s] = "waiting"]
  OBVIOUS
<1>11. st \in [Sessions -> R!States]
  <2>1. "waiting" \in R!States
    BY DEF R!States
  <2> QED
    BY <1>1, <1>10, <2>1
<1>12. v = [[[w EXCEPT !.rooms = rs] EXCEPT !.number = m] EXCEPT !.state = st]
  BY <1>0, <1>3, <1>4, <1>5, <1>6, <1>8, <1>10 DEF Hosted, Worlds
<1> QED
  BY <1>7, <1>9, <1>11, <1>12 DEF Worlds, RoomsOnly


-----------------------------------------------------------------------------
(* The actions.                                                             *)

LEMMA BecameGood ==
  ASSUME NEW w, Good(w), Become(w)
  PROVE  Good(World')
<1>1. w \in Worlds
  BY DEF Good, Meets
<1>2. World' = w
  BY <1>1 DEF World, Worlds, Become, R!Become
<1> QED
  BY <1>2

LEMMA OwnKey ==
  ASSUME NEW s \in Sessions, PartiesInv
  PROVE  /\ OwnParty(World, s)[1] = ClanOf[s] /\ World.parties = parties
         /\ \A k \in DOMAIN parties : k \in Keys /\ parties[k] \in PartyType /\ Fit(parties[k])
<1>1. World \in Worlds /\ Filled(World.parties)
  BY DEF PartiesInv, Good, Meets
<1>2. World.parties = parties
  BY WorldIs
<1>3. \A k \in DOMAIN parties : k \in Keys /\ parties[k] \in PartyType
  BY <1>1, <1>2, PartyOf, KeyIs
<1> QED
  BY <1>1, <1>2, <1>3 DEF Filled, OwnParty

\* handleOtherClanJoin.
LEMMA ChallengeGood ==
  ASSUME PartiesInv, NEW s \in Sessions, NEW target, Challenge(s, target)
  PROVE  PartiesInv'
<1>1. PICK r : r = R!Generated
  OBVIOUS
<1>2. PICK k : k = OwnParty(World, s)
  OBVIOUS
<1>3. PICK x : x = parties[target].players[1].id
  OBVIOUS
<1>4. /\ k \in DOMAIN parties /\ target \in DOMAIN parties /\ target[1] # ClanOf[s]
      /\ r # 0
      /\ next' = IF free = <<>> THEN next + 1 ELSE next
      /\ UNCHANGED online
  BY <1>1, <1>2 DEF Challenge, Has
<1>5. PICK f : f = IF free # <<>> THEN Tail(free) ELSE free
  OBVIOUS
<1>6. PICK w : w = [World EXCEPT !.free = f]
  OBVIOUS
<1>7. PICK h : h = Hosted(w, r, x)
  OBVIOUS
<1>8. PICK e1 : e1 = Enter(h, r, parties[target])
  OBVIOUS
<1>9. PICK e2 : e2 = Enter(e1, r, parties[k])
  OBVIOUS
<1>10. PICK v : v = AddMatch(e2, r, k, target)
  OBVIOUS
<1>11. Become(v)
  <2>1. w = [World EXCEPT !.free = IF @ # <<>> THEN Tail(@) ELSE @]
    BY <1>5, <1>6, WorldIs
  <2> QED
    BY <1>1, <1>2, <1>3, <1>7, <1>8, <1>9, <1>10, <2>1 DEF Challenge
<1>12. World \in Worlds /\ Good(World) /\ next \in 1 .. MaxNumber + 1 /\ online \subseteq Sessions
  BY DEF PartiesInv, Good, Meets
<1>13. free \in Seq(Numbers) /\ MaxNumber \in Nat
  BY <1>12, WorldIs, MaxNumberAssumption
<1>14. r \in Numbers /\ next' \in 1 .. MaxNumber + 1
  <2>1. CASE free # <<>>
    BY <1>1, <1>4, <1>12, <1>13, <2>1 DEF R!Generated
  <2>2. CASE free = <<>>
    <3>1. r = next /\ next <= MaxNumber
      BY <1>1, <1>4, <2>2 DEF R!Generated
    <3> QED
      BY <1>4, <1>12, <1>13, <2>2, <3>1 DEF Numbers
  <2> QED
    BY <2>1, <2>2
<1>15. f \in Seq(Numbers)
  BY <1>5, <1>13
<1>16. RoomsOnly(World, w)
  BY <1>6, <1>12, <1>15 DEF RoomsOnly, Worlds
<1>17. k # target /\ parties[k] \in PartyType /\ parties[target] \in PartyType /\ Fit(parties[target])
  BY <1>2, <1>4, OwnKey
<1>18. x \in Sessions
  <2>1. PICK q \in PartyType : q = parties[target]
    BY <1>17
  <2> QED
    BY <1>3, <1>17, <2>1, PartyIs DEF Fit
<1>19. RoomsOnly(w, h)
  <2>1. w \in Worlds
    BY <1>16 DEF RoomsOnly
  <2> QED
    BY <1>7, <1>14, <1>18, <2>1, HostedIs
<1>20. ASSUME NEW u \in Worlds, NEW j \in {k, target}
       PROVE  RoomsOnly(u, Enter(u, r, parties[j]))
  <2>1. PICK q \in PartyType : q = parties[j]
    BY <1>17
  <2>2. PICK l \in Seq(Users) : l = q.players
    BY PartyIs
  <2>3. RoomsOnly(u, Enter(u, r, q))
    BY <2>2, EnterIs
  <2> QED
    BY <2>1, <2>3
<1>21. RoomsOnly(h, e1)
  <2>1. h \in Worlds
    BY <1>19 DEF RoomsOnly
  <2> QED
    BY <1>8, <1>20, <2>1
<1>22. RoomsOnly(e1, e2)
  <2>1. e1 \in Worlds
    BY <1>21 DEF RoomsOnly
  <2> QED
    BY <1>9, <1>20, <2>1
<1>23. RoomsOnly(World, e2)
  <2>1. RoomsOnly(World, h)
    BY <1>16, <1>19, RoomsOnlyTwice
  <2>2. RoomsOnly(World, e1)
    BY <1>21, <2>1, RoomsOnlyTwice
  <2> QED
    BY <1>22, <2>2, RoomsOnlyTwice
<1>24. Good(e2) /\ e2.parties = parties
  BY <1>12, <1>23, RoomsOnlyGood, WorldIs DEF RoomsOnly
<1>25. Good(v)
  <2>1. k \in DOMAIN e2.parties /\ target \in DOMAIN e2.parties
    BY <1>4, <1>24
  <2> QED
    BY <1>10, <1>14, <1>17, <1>24, <2>1, AddMatchGood
<1>26. Good(World')
  BY <1>11, <1>25, BecameGood
<1> QED
  BY <1>4, <1>12, <1>14, <1>26 DEF PartiesInv

\* Steps of the parties alone.
LEMMA PartiesStep ==
  ASSUME PartiesInv, InPartyOnly, parties' \in Tables(Keys, PartyType), party' \in [Sessions -> 0 .. MaxParties],
         matches' \in Tables(Numbers, Side \X Side), Met(parties', party', matches', {}), Filled(parties')
  PROVE  PartiesInv'
<1>1. World \in Worlds /\ next \in 1 .. MaxNumber + 1 /\ online \subseteq Sessions
  BY DEF PartiesInv, Good, Meets
<1>2. PICK v : v = [[[World EXCEPT !.parties = parties'] EXCEPT !.party = party'] EXCEPT !.matches = matches']
  OBVIOUS
<1>3. v \in Worlds /\ v.parties = parties' /\ v.party = party' /\ v.matches = matches'
      /\ v.rooms = World.rooms /\ v.number = World.number /\ v.state = World.state /\ v.free = World.free
  BY <1>1, <1>2 DEF Worlds
<1>4. Good(v)
  BY <1>3 DEF Good, Meets
<1>5. Become(v) /\ UNCHANGED <<next, online>>
  BY <1>3, WorldIs DEF Become, R!Become, InPartyOnly, roomVars
<1>6. Good(World')
  BY <1>4, <1>5, BecameGood
<1> QED
  BY <1>1, <1>5, <1>6 DEF PartiesInv

\* handlePartyCreation.
LEMMA CreatePartyGood ==
  ASSUME PartiesInv, NEW s \in Sessions, CreateParty(s)
  PROVE  PartiesInv'
<1>1. PICK unused : unused = {k \in 1 .. MaxParties : <<ClanOf[s], k>> \notin DOMAIN parties}
  OBVIOUS
<1>2. PICK n : n = CHOOSE i \in unused : \A j \in unused : i <= j
  OBVIOUS
<1>3. PICK k : k = <<ClanOf[s], n>>
  OBVIOUS
<1>4. PICK q : q = [players |-> <<Member(s)>>, max |-> DefaultSize, registered |-> FALSE,
                    started |-> FALSE, match |-> 0]
  OBVIOUS
<1>5. /\ unused # {}
      /\ parties' = [i \in DOMAIN parties \cup {k} |-> IF i = k THEN q ELSE parties[i]]
      /\ party' = [party EXCEPT ![s] = n]
      /\ matches' = R!Without(matches, {r \in DOMAIN matches : matches[r] = <<NoParty, NoParty>>})
      /\ InPartyOnly
  BY <1>1, <1>2, <1>3, <1>4 DEF CreateParty
<1>6. unused \subseteq Nat
  BY <1>1, SizesAssumption
<1>7. \E i \in unused : \A j \in unused : i <= j
  BY <1>5, <1>6, LeastNatural
<1>8. n \in unused
  BY <1>2, <1>7
<1>9. n \in 1 .. MaxParties /\ k \notin DOMAIN parties
  BY <1>1, <1>3, <1>8
<1>10. World \in Worlds /\ Met(parties, party, matches, {}) /\ Filled(parties)
  BY WorldIs DEF PartiesInv, Good, Meets
<1>11. parties \in Tables(Keys, PartyType) /\ party \in [Sessions -> 0 .. MaxParties]
       /\ matches \in Tables(Numbers, Side \X Side)
  BY <1>10, WorldIs
<1>12. q \in PartyType /\ Live(q) = {s} /\ Fit(q)
  <2>1. PICK e : e = Member(s)
    OBVIOUS
  <2>2. e \in [id : Sessions, live : BOOLEAN] /\ e.id = s /\ e.live
    BY <2>1 DEF Member
  <2>3. PICK l : l = <<e>>
    OBVIOUS
  <2>4. l \in Seq([id : Sessions, live : BOOLEAN]) /\ DOMAIN l = {1} /\ l[1] = e /\ l # <<>>
    BY <2>2, <2>3
  <2>5. q = [players |-> l, max |-> DefaultSize, registered |-> FALSE, started |-> FALSE, match |-> 0]
    BY <1>4, <2>1, <2>3
  <2>6. 0 \in 0 .. MaxNumber
    BY MaxNumberAssumption
  <2>7. q \in PartyType /\ q.players = l
    BY <2>4, <2>5, <2>6 DEF PartyType
  <2>8. Live(q) = {s}
    BY <2>2, <2>4, <2>7 DEF Live
  <2>9. Fit(q)
    BY <2>4, <2>7 DEF Fit, Once
  <2> QED
    BY <2>7, <2>8, <2>9
<1>13. parties' \in Tables(Keys, PartyType)
  <2>1. DOMAIN parties \subseteq Keys /\ parties \in [DOMAIN parties -> PartyType]
    BY <1>11, TableIs
  <2>2. k \in Keys
    BY <1>3, <1>9, ClanOfAssumption DEF Keys
  <2>3. parties' \in [DOMAIN parties \cup {k} -> PartyType]
    BY <1>5, <1>12, <2>1
  <2>4. DOMAIN parties \cup {k} \in SUBSET Keys
    BY <2>1, <2>2
  <2> QED
    BY <2>3, <2>4, TableIs
<1>14. party' \in [Sessions -> 0 .. MaxParties]
  <2>1. n \in 0 .. MaxParties
    BY <1>9, SizesAssumption
  <2> QED
    BY <1>5, <1>11, <2>1
<1>15. matches' \in Tables(Numbers, Side \X Side)
  BY <1>5, <1>11, TableWithout
<1>16. DOMAIN parties' = DOMAIN parties \cup {k} /\ parties'[k] = q
       /\ \A j \in DOMAIN parties : parties'[j] = parties[j]
  BY <1>5, <1>9
<1>17. DOMAIN matches' \subseteq DOMAIN matches /\ \A r \in DOMAIN matches' : matches'[r] = matches[r]
  BY <1>5 DEF R!Without
<1>18. ASSUME NEW x \in Sessions, party'[x] # 0
       PROVE  <<ClanOf[x], party'[x]>> \in DOMAIN parties' /\ x \in Live(parties'[<<ClanOf[x], party'[x]>>])
  <2>1. CASE x = s
    BY <1>3, <1>5, <1>11, <1>12, <1>16, <2>1
  <2>2. CASE x # s
    <3>1. party'[x] = party[x]
      BY <1>5, <1>11, <2>2
    <3>2. <<ClanOf[x], party[x]>> \in DOMAIN parties /\ x \in Live(parties[<<ClanOf[x], party[x]>>])
      BY <1>10, <1>18, <3>1 DEF Met
    <3> QED
      BY <1>16, <3>1, <3>2
  <2> QED
    BY <2>1, <2>2
<1>19. ASSUME NEW j \in DOMAIN parties', NEW x \in Live(parties'[j])
       PROVE  ClanOf[x] = j[1]
  <2>1. CASE j = k
    BY <1>3, <1>12, <1>16, <1>19, <2>1
  <2>2. CASE j # k
    BY <1>10, <1>16, <1>19, <2>2 DEF Met
  <2> QED
    BY <2>1, <2>2
<1>20. ASSUME NEW r \in DOMAIN matches', NEW i \in 1 .. 2, matches'[r][i] # NoParty
       PROVE  matches'[r][i] \in DOMAIN parties' /\ parties'[matches'[r][i]].match = r
  BY <1>10, <1>16, <1>17, <1>20 DEF Met
<1>21. Met(parties', party', matches', {})
  BY <1>18, <1>19, <1>20 DEF Met
<1>22. Filled(parties')
  BY <1>10, <1>12, <1>16 DEF Filled
<1> QED
  BY <1>5, <1>13, <1>14, <1>15, <1>21, <1>22, PartiesStep


LEMMA JoinPartyGood ==
  ASSUME PartiesInv, NEW s \in Sessions, NEW k, JoinParty(s, k)
  PROVE  PartiesInv'
<1>1. k[1] = ClanOf[s] /\ Become(PartyJoin(World, s, k)) /\ UNCHANGED <<next, online>>
  BY DEF JoinParty
<1>2. Good(PartyJoin(World, s, k))
  BY <1>1, PartyJoinGood DEF PartiesInv
<1> QED
  BY <1>1, <1>2, Became

LEMMA LeavePartyGood ==
  ASSUME PartiesInv, NEW s \in Sessions, LeaveParty(s)
  PROVE  PartiesInv'
<1>1. PICK w \in PartyLeave(World, s) : Become(w)
  BY DEF LeaveParty
<1>2. Good(w)
  BY PartyLeaveGood DEF PartiesInv
<1> QED
  BY <1>1, <1>2, Became DEF LeaveParty

LEMMA LeaveRoomGood ==
  ASSUME PartiesInv, NEW s \in Sessions, LeaveRoom(s)
  PROVE  PartiesInv'
<1>1. PICK w \in RoomLeave(World, s) : Become(w)
  BY DEF LeaveRoom
<1>2. Good(w)
  BY RoomLeaveGood DEF PartiesInv
<1> QED
  BY <1>1, <1>2, Became DEF LeaveRoom

LEMMA LeaveMatchGood ==
  ASSUME PartiesInv, NEW s \in Sessions, LeaveMatch(s)
  PROVE  PartiesInv'
<1>1. PICK w \in MatchLeave(World, s) : Become(w)
  BY DEF LeaveMatch
<1>2. Good(w)
  BY MatchLeaveGood DEF PartiesInv
<1> QED
  BY <1>1, <1>2, Became DEF LeaveMatch

\* A step that keeps the members and the match of a party.
LEMMA PartyStep ==
  ASSUME PartiesInv, NEW k \in DOMAIN parties, NEW q \in PartyType, q.match = parties[k].match,
         Fit(q), Live(q) = Live(parties[k]),
         parties' = [parties EXCEPT ![k] = q], InPartyOnly, UNCHANGED <<party, matches>>
  PROVE  PartiesInv'
<1>1. Good(World) /\ World \in Worlds /\ World.parties = parties
  BY WorldIs DEF PartiesInv, Good, Meets
<1>2. PICK v : v = [World EXCEPT !.parties[k] = q]
  OBVIOUS
<1>3. Good(v)
  BY <1>1, <1>2, PartyPutGood
<1>4. v = [World EXCEPT !.parties = parties']
  BY <1>1, <1>2
<1>5. v.parties = parties' /\ v.party = World.party /\ v.matches = World.matches
      /\ v.rooms = World.rooms /\ v.number = World.number /\ v.state = World.state /\ v.free = World.free
  BY <1>1, <1>4 DEF Worlds
<1>6. Become(v) /\ UNCHANGED <<next, online>>
  BY <1>5, WorldIs DEF Become, R!Become, InPartyOnly, roomVars
<1> QED
  BY <1>3, <1>6, Became

LEMMA SetSizeGood ==
  ASSUME PartiesInv, NEW s \in Sessions, NEW n \in Sizes, SetSize(s, n)
  PROVE  PartiesInv'
<1>1. PICK k : k = OwnParty(World, s)
  OBVIOUS
<1>2. k \in DOMAIN parties /\ parties' = [parties EXCEPT ![k].max = n]
      /\ InPartyOnly /\ UNCHANGED <<party, matches>>
  BY <1>1 DEF SetSize, Has
<1>3. parties[k] \in PartyType /\ Fit(parties[k])
  BY <1>2, OwnKey
<1>4. PICK q : q = [parties[k] EXCEPT !.max = n]
  OBVIOUS
<1>5. q \in PartyType /\ q.match = parties[k].match /\ q.players = parties[k].players
  BY <1>3, <1>4 DEF PartyType
<1>6. Live(q) = Live(parties[k]) /\ Fit(q)
  BY <1>3, <1>5 DEF Live, Fit
<1>7. parties' = [parties EXCEPT ![k] = q]
  BY <1>2, <1>4
<1> QED
  BY <1>2, <1>5, <1>6, <1>7, PartyStep

LEMMA RegisterGood ==
  ASSUME PartiesInv, NEW s \in Sessions, Register(s)
  PROVE  PartiesInv'
<1>1. PICK k : k = OwnParty(World, s)
  OBVIOUS
<1>2. k \in DOMAIN parties /\ parties' = [parties EXCEPT ![k].registered = ~@]
      /\ InPartyOnly /\ UNCHANGED <<party, matches>>
  BY <1>1 DEF Register, Has
<1>3. parties[k] \in PartyType /\ Fit(parties[k])
  BY <1>2, OwnKey
<1>4. PICK b \in BOOLEAN : b = ~parties[k].registered
  BY <1>3 DEF PartyType
<1>5. PICK q : q = [parties[k] EXCEPT !.registered = b]
  OBVIOUS
<1>6. q \in PartyType /\ q.match = parties[k].match /\ q.players = parties[k].players
  BY <1>3, <1>5 DEF PartyType
<1>7. Live(q) = Live(parties[k]) /\ Fit(q)
  BY <1>3, <1>6 DEF Live, Fit
<1>8. parties' = [parties EXCEPT ![k] = q]
  BY <1>2, <1>4, <1>5
<1> QED
  BY <1>2, <1>6, <1>7, <1>8, PartyStep

LEMMA ChangeLeaderGood ==
  ASSUME PartiesInv, NEW s \in Sessions, NEW i, ChangeLeader(s, i)
  PROVE  PartiesInv'
<1>1. PICK k : k = OwnParty(World, s)
  OBVIOUS
<1>2. k \in DOMAIN parties /\ parties' = [parties EXCEPT ![k].players = R!SwapWithFirst(@, i)]
      /\ i \in Successors(parties[k])
      /\ InPartyOnly /\ UNCHANGED <<party, matches>>
  BY <1>1 DEF ChangeLeader, Has, Own
<1>3. parties[k] \in PartyType
  BY <1>2, OwnKey
<1>4. PICK q : q = [parties[k] EXCEPT !.players = R!SwapWithFirst(@, i)]
  OBVIOUS
<1>5. i \in DOMAIN parties[k].players
  BY <1>2 DEF Successors
<1>6. q \in PartyType /\ q.match = parties[k].match /\ Fit(q) /\ Live(q) = Live(parties[k])
  <2>1. PICK p \in PartyType : p = parties[k]
    BY <1>3
  <2>2. Once(p.players)
    BY <1>2, <2>1, OwnKey DEF Fit
  <2> QED
    BY <1>4, <1>5, <2>1, <2>2, SwappedMembers
<1>7. parties' = [parties EXCEPT ![k] = q]
  BY <1>2, <1>4
<1> QED
  BY <1>2, <1>6, <1>7, PartyStep

\* A step of the rooms, which may say of parties whether their match goes on.
LEMMA RoomStep ==
  ASSUME PartiesInv, RoomsTyped', DOMAIN parties' = DOMAIN parties, parties' \in Tables(Keys, PartyType),
         \A k \in DOMAIN parties :
           parties'[k].players = parties[k].players /\ parties'[k].match = parties[k].match,
         UNCHANGED <<party, matches>>
  PROVE  PartiesInv'
<1>1. World \in Worlds /\ Met(parties, party, matches, {}) /\ Filled(parties)
  BY WorldIs DEF PartiesInv, Good, Meets
<1>2. World' \in Worlds
  <2>1. party' \in [Sessions -> 0 .. MaxParties] /\ matches' \in Tables(Numbers, Side \X Side)
    BY <1>1, WorldIs
  <2>2. /\ rooms' \in Tables(Numbers, R!RoomType) /\ number' \in [Sessions -> 0 .. MaxNumber]
        /\ state' \in [Sessions -> R!States] /\ free' \in Seq(Numbers)
    BY DEF RoomsTyped
  <2> QED
    BY <2>1, <2>2 DEF World, Worlds
<1>3. \A k \in DOMAIN parties : Live(parties'[k]) = Live(parties[k])
  BY DEF Live
<1>4. Met(parties', party', matches', {})
  BY <1>1, <1>3 DEF Met
<1>5. Filled(parties')
  BY <1>1, KeepsFilled
<1>6. World'.parties = parties' /\ World'.party = party' /\ World'.matches = matches'
  BY DEF World
<1>7. next' \in 1 .. MaxNumber + 1 /\ online' \subseteq Sessions
  BY DEF RoomsTyped
<1> QED
  BY <1>2, <1>4, <1>5, <1>6, <1>7 DEF PartiesInv, Good, Meets

LEMMA InvTyped ==
  ASSUME PartiesInv
  PROVE  RoomsTyped /\ parties \in Tables(Keys, PartyType)
<1>1. World \in Worlds /\ next \in 1 .. MaxNumber + 1 /\ online \subseteq Sessions
  BY DEF PartiesInv, Good, Meets
<1> QED
  BY <1>1, WorldIs DEF RoomsTyped

LEMMA InRoomGood ==
  ASSUME PartiesInv, InRoom, UNCHANGED <<parties, party, matches>>
  PROVE  PartiesInv'
<1>1. RoomsTyped'
  BY InvTyped, InRoomTyped
<1> QED
  BY <1>1, InvTyped, RoomStep

LEMMA SetStartedIs ==
  ASSUME PartiesInv, NEW r, NEW b \in BOOLEAN, parties' = SetStarted(r, b)
  PROVE  /\ DOMAIN parties' = DOMAIN parties /\ parties' \in Tables(Keys, PartyType)
         /\ \A k \in DOMAIN parties :
              parties'[k].players = parties[k].players /\ parties'[k].match = parties[k].match
<1>1. DOMAIN parties \subseteq Keys /\ parties \in [DOMAIN parties -> PartyType]
  BY InvTyped, TableIs
<1>2. ASSUME NEW k \in DOMAIN parties
      PROVE  parties'[k] \in PartyType /\ parties'[k].players = parties[k].players
             /\ parties'[k].match = parties[k].match
  BY <1>1, <1>2 DEF SetStarted, PartyType
<1>3. DOMAIN parties' = DOMAIN parties /\ parties' = [k \in DOMAIN parties |-> parties'[k]]
  BY DEF SetStarted
<1>4. parties' \in [DOMAIN parties -> PartyType]
  BY <1>2, <1>3
<1> QED
  BY <1>1, <1>2, <1>3, <1>4, TableIs

\* handleRoomStart and handleMatchEnding.
LEMMA StartMatchGood ==
  ASSUME PartiesInv, NEW s \in Sessions, StartMatch(s)
  PROVE  PartiesInv'
<1>1. RoomsTyped'
  BY InvTyped, StartMatchTyped DEF StartMatch
<1>2. parties' = SetStarted(number[s], TRUE) /\ UNCHANGED <<party, matches>>
  BY DEF StartMatch
<1> QED
  BY <1>1, <1>2, SetStartedIs, RoomStep

LEMMA EndMatchGood ==
  ASSUME PartiesInv, NEW s \in Sessions, EndMatch(s)
  PROVE  PartiesInv'
<1>1. RoomsTyped'
  BY InvTyped, EndMatchTyped DEF EndMatch
<1>2. UNCHANGED <<party, matches>>
      /\ parties' = IF number[s] \in DOMAIN matches THEN SetStarted(number[s], FALSE) ELSE parties
  BY DEF EndMatch
<1>3. CASE number[s] \in DOMAIN matches
  BY <1>1, <1>2, <1>3, SetStartedIs, RoomStep
<1>4. CASE number[s] \notin DOMAIN matches
  BY <1>1, <1>2, <1>4, InvTyped, RoomStep
<1> QED
  BY <1>3, <1>4


\* removeSession: the entries of s that are left are dead.
LEMMA DeadTyped ==
  ASSUME NEW l \in Seq(R!Entries), NEW s
  PROVE  R!Dead(l, s) \in Seq(R!Entries)
<1>1. Len(l) \in Nat /\ DOMAIN l = 1 .. Len(l) /\ \A i \in DOMAIN l : l[i] \in R!Entries
  BY ListIs
<1>2. R!Dead(l, s) \in [1 .. Len(l) -> R!Entries]
  BY <1>1 DEF R!Dead, R!Entries
<1> QED
  BY <1>1, <1>2, FunctionIsList

LEMMA GoneTyped ==
  ASSUME NEW r \in R!RoomType, NEW s
  PROVE  R!GoneFrom(r, s) \in R!RoomType
<1>1. PICK a \in Seq(R!Entries) : a = R!Dead(r.players, s)
  BY RoomIs, DeadTyped
<1>2. PICK b \in Seq(R!Entries) : b = R!Dead(r.observers, s)
  BY RoomIs, DeadTyped
<1>3. R!GoneFrom(r, s) = [[r EXCEPT !.players = a] EXCEPT !.observers = b]
  BY <1>1, <1>2 DEF R!GoneFrom, R!RoomType
<1>4. PICK q : q = [r EXCEPT !.players = a]
  OBVIOUS
<1>5. q \in R!RoomType
  BY <1>4, RoomIs
<1>6. PICK u : u = [q EXCEPT !.observers = b]
  OBVIOUS
<1>7. u \in R!RoomType
  BY <1>5, <1>6, RoomIs
<1> QED
  BY <1>3, <1>4, <1>6, <1>7

LEMMA DeadMemberIs ==
  ASSUME NEW q \in PartyType, NEW s, NEW u, u = DeadMember(q, s)
  PROVE  /\ u \in PartyType /\ u.match = q.match /\ (Fit(q) => Fit(u))
         /\ \A x : x \in Live(u) <=> x \in Live(q) /\ x # s
<1>1. PICK l \in Seq(Users) : l = q.players
  BY PartyIs
<1>2. PICK t : t = [i \in DOMAIN l |-> IF l[i].id = s THEN [l[i] EXCEPT !.live = FALSE] ELSE l[i]]
  OBVIOUS
<1>3. Len(l) \in Nat /\ DOMAIN l = 1 .. Len(l) /\ \A i \in DOMAIN l : l[i] \in Users
  BY ListIs
<1>4. \A i \in DOMAIN l : t[i] \in Users /\ t[i].id = l[i].id /\ (t[i].live <=> l[i].live /\ l[i].id # s)
  BY <1>2, <1>3 DEF Users
<1>5. t \in [1 .. Len(l) -> Users] /\ DOMAIN t = DOMAIN l
  BY <1>2, <1>3, <1>4
<1>6. t \in Seq(Users)
  BY <1>3, <1>5, FunctionIsList
<1>7. u = [q EXCEPT !.players = t]
  BY <1>1, <1>2 DEF DeadMember
<1>8. u \in PartyType /\ u.players = t /\ u.match = q.match
  BY <1>6, <1>7 DEF PartyType, Users
<1>9. l # <<>> => t # <<>>
  <2>1. l # <<>> => 1 \in DOMAIN t
    BY <1>3, <1>5
  <2> QED
    BY <1>6, <2>1
<1>10. ASSUME NEW x
       PROVE  x \in Live(u) <=> x \in Live(q) /\ x # s
  <2>1. x \in Live(u) <=> \E i \in DOMAIN t : t[i].live /\ t[i].id = x
    BY <1>8 DEF Live
  <2>2. x \in Live(q) <=> \E i \in DOMAIN l : l[i].live /\ l[i].id = x
    BY <1>1 DEF Live
  <2> QED
    BY <1>4, <1>5, <2>1, <2>2
<1>11. Fit(q) => Fit(u)
  <2>1. Once(l) => Once(t)
    <3>1. \A i, j \in DOMAIN l : t[i].live /\ t[j] = t[i] => l[i].live /\ l[j] = l[i]
      <4>1. \A i \in DOMAIN l : t[i].live => t[i] = l[i]
        BY <1>2, <1>4
      <4> QED
        BY <1>4, <4>1
    <3> QED
      BY <1>5, <3>1 DEF Once
  <2> QED
    BY <1>1, <1>8, <1>9, <2>1 DEF Fit
<1> QED
  BY <1>8, <1>10, <1>11

LEMMA DepartedGood ==
  ASSUME NEW w, Good(w), NEW s \in Sessions
  PROVE  /\ Good(Departed(w, s))
         /\ Departed(w, s).parties = [k \in DOMAIN w.parties |-> DeadMember(w.parties[k], s)]
<1>1. w \in Worlds /\ Met(w.parties, w.party, w.matches, {}) /\ Filled(w.parties)
  BY DEF Good, Meets
<1>2. /\ w.rooms \in Tables(Numbers, R!RoomType) /\ w.number \in [Sessions -> 0 .. MaxNumber]
      /\ w.state \in [Sessions -> R!States] /\ w.parties \in Tables(Keys, PartyType)
      /\ w.party \in [Sessions -> 0 .. MaxParties]
  BY <1>1, WorldsAre
<1>3. PICK rs : rs = [n \in DOMAIN w.rooms |-> R!GoneFrom(w.rooms[n], s)]
  OBVIOUS
<1>4. rs \in Tables(Numbers, R!RoomType)
  <2>1. DOMAIN w.rooms \in SUBSET Numbers /\ w.rooms \in [DOMAIN w.rooms -> R!RoomType]
    BY <1>2, TableIs
  <2>2. rs \in [DOMAIN w.rooms -> R!RoomType]
    BY <1>3, <2>1, GoneTyped
  <2> QED
    BY <2>1, <2>2, TableIs
<1>5. PICK m \in [Sessions -> 0 .. MaxNumber] : m = [w.number EXCEPT ![s] = 0]
  <2>1. 0 \in 0 .. MaxNumber
    BY MaxNumberAssumption
  <2>2. [w.number EXCEPT ![s] = 0] \in [Sessions -> 0 .. MaxNumber]
    BY <1>2, <2>1
  <2> QED
    BY <2>2
<1>6. PICK a : a = [w.state EXCEPT ![s] = "away"]
  OBVIOUS
<1>7. PICK st \in [Sessions -> R!States] : st = [a EXCEPT ![s] = "waiting"]
  <2>1. "away" \in R!States /\ "waiting" \in R!States
    BY DEF R!States
  <2>2. a \in [Sessions -> R!States]
    BY <1>2, <1>6, <2>1
  <2>3. [a EXCEPT ![s] = "waiting"] \in [Sessions -> R!States]
    BY <2>1, <2>2
  <2> QED
    BY <2>3
<1>8. PICK p \in [Sessions -> 0 .. MaxParties] : p = [w.party EXCEPT ![s] = 0]
  <2>1. 0 \in 0 .. MaxParties
    BY SizesAssumption
  <2>2. [w.party EXCEPT ![s] = 0] \in [Sessions -> 0 .. MaxParties]
    BY <1>2, <2>1
  <2> QED
    BY <2>2
<1>9. PICK ps : ps = [k \in DOMAIN w.parties |-> DeadMember(w.parties[k], s)]
  OBVIOUS
<1>10. ASSUME NEW k \in DOMAIN w.parties
       PROVE  /\ ps[k] \in PartyType /\ ps[k].match = w.parties[k].match /\ Fit(ps[k])
              /\ \A x : x \in Live(ps[k]) <=> x \in Live(w.parties[k]) /\ x # s
  <2>1. PICK q \in PartyType : q = w.parties[k]
    BY <1>1, PartyOf
  <2>2. ps[k] = DeadMember(q, s) /\ Fit(q)
    BY <1>1, <1>9, <2>1 DEF Filled
  <2> QED
    BY <2>1, <2>2, DeadMemberIs
<1>11. DOMAIN ps = DOMAIN w.parties /\ ps \in Tables(Keys, PartyType)
  <2>1. DOMAIN w.parties \in SUBSET Keys
    BY <1>2, TableIs
  <2>2. ps \in [DOMAIN w.parties -> PartyType]
    BY <1>9, <1>10
  <2> QED
    BY <1>9, <2>1, <2>2, TableIs
<1>12. PICK v : v = Departed(w, s)
  OBVIOUS
<1>13. PICK d : d = R!Departed(w, s)
  OBVIOUS
<1>14. d = [[[w EXCEPT !.rooms = rs] EXCEPT !.number = m] EXCEPT !.state = a]
  BY <1>1, <1>3, <1>5, <1>6, <1>13 DEF R!Departed, Worlds
<1>15. d.parties = w.parties /\ d.party = w.party /\ d.state = a
  BY <1>1, <1>14 DEF Worlds
<1>16. v = [[[d EXCEPT !.parties = ps] EXCEPT !.party = p] EXCEPT !.state = st]
  <2>1. v = [d EXCEPT !.parties = [k \in DOMAIN d.parties |-> DeadMember(d.parties[k], s)],
                      !.party[s] = 0, !.state[s] = "waiting"]
    BY <1>12, <1>13 DEF Departed
  <2>2. DOMAIN d = DOMAIN w /\ {"parties", "party", "state"} \subseteq DOMAIN w
    BY <1>1, <1>14 DEF Worlds
  <2> QED
    BY <1>7, <1>8, <1>9, <1>15, <2>1, <2>2
<1>17. v \in Worlds /\ v.parties = ps /\ v.party = p /\ v.matches = w.matches
  BY <1>1, <1>4, <1>11, <1>14, <1>16 DEF Worlds
<1>18. Filled(ps)
  BY <1>10, <1>11 DEF Filled
<1>19. Met(ps, p, w.matches, {})
  <2>1. PICK o : o = w.parties
    OBVIOUS
  <2>2. PICK ms : ms = w.matches
    OBVIOUS
  <2>3. PICK p1 : p1 = w.party
    OBVIOUS
  <2>4. Met(o, p1, ms, {}) /\ DOMAIN ps = DOMAIN o
    BY <1>1, <1>11, <2>1, <2>2, <2>3
  <2>5. \A k \in DOMAIN o : ps[k].match = o[k].match
    BY <1>10, <2>1
  <2>6. \A k \in DOMAIN o : \A x \in Sessions : x \in Live(ps[k]) <=> x \in Live(o[k]) /\ x # s
    BY <1>10, <2>1
  <2>7. ASSUME NEW x \in Sessions, p[x] # 0
        PROVE  <<ClanOf[x], p[x]>> \in DOMAIN ps /\ x \in Live(ps[<<ClanOf[x], p[x]>>])
    <3>1. x # s /\ p[x] = p1[x]
      BY <1>2, <1>8, <2>3, <2>7
    <3>2. <<ClanOf[x], p1[x]>> \in DOMAIN o /\ x \in Live(o[<<ClanOf[x], p1[x]>>])
      BY <2>4, <2>7, <3>1 DEF Met
    <3> QED
      BY <2>4, <2>6, <3>1, <3>2
  <2>8. ASSUME NEW k \in DOMAIN ps, NEW x \in Live(ps[k])
        PROVE  ClanOf[x] = k[1]
    <3>1. x \in Live(o[k])
      BY <1>10, <1>11, <2>1, <2>8
    <3> QED
      BY <2>4, <3>1 DEF Met
  <2>9. ASSUME NEW r \in DOMAIN ms, NEW i \in 1 .. 2, ms[r][i] # NoParty
        PROVE  ms[r][i] \in DOMAIN ps /\ ps[ms[r][i]].match = r
    BY <2>4, <2>5, <2>9 DEF Met
  <2>10. Met(ps, p, ms, {})
    BY <2>7, <2>8, <2>9 DEF Met
  <2> QED
    BY <2>2, <2>10
<1> QED
  BY <1>9, <1>12, <1>17, <1>18, <1>19 DEF Good, Meets

LEMMA OutGood ==
  ASSUME NEW w, Good(w), NEW s \in Sessions, NEW v \in Out(w, s)
  PROVE  Good(v) /\ Parts(w, v, s)
<1>1. PICK M : M = IF w.state[s] = "normal" THEN MatchLeave(w, s) ELSE {w}
  OBVIOUS
<1>2. \A u \in M : Good(u) /\ Keeps(w, u, s)
  BY <1>1, MatchLeaveGood, SameKeeps
<1>3. OutOfRoom(w, s) = IF w.number[s] = 0 THEN {w} ELSE UNION {RoomLeave(u, s) : u \in M}
  BY <1>1 DEF OutOfRoom
<1>4. \A u \in OutOfRoom(w, s) : Good(u) /\ Keeps(w, u, s)
  <2>1. \A u \in M : \A x \in RoomLeave(u, s) : Good(x) /\ Keeps(u, x, s)
    BY <1>2, RoomLeaveGood
  <2>2. \A u \in M : \A x \in RoomLeave(u, s) : Good(x) /\ Keeps(w, x, s)
    BY <1>2, <2>1, KeepsTwice
  <2> QED
    BY <1>3, <2>2, SameKeeps
<1>5. PICK u \in OutOfRoom(w, s) : v \in PartyLeave(u, s)
  BY DEF Out
<1> QED
  BY <1>4, <1>5, PartyLeaveGood, KeepsParts

LEMMA DisconnectGood ==
  ASSUME PartiesInv, NEW s \in Sessions, Disconnect(s)
  PROVE  PartiesInv'
<1>1. PICK w \in Out(World, s) : Become(Departed(w, s))
  BY DEF Disconnect
<1>2. Good(Departed(w, s))
  BY OutGood, DepartedGood DEF PartiesInv
<1>3. Good(World')
  BY <1>1, <1>2, BecameGood
<1>4. next' = next /\ online' \subseteq online
  BY DEF Disconnect
<1> QED
  BY <1>3, <1>4 DEF PartiesInv

\* handleClanRoomLeave.
LEMMA LeaveClanRoomGood ==
  ASSUME PartiesInv, NEW s \in Sessions, LeaveClanRoom(s)
  PROVE  PartiesInv'
<1>1. PICK r : r = number[s]
  OBVIOUS
<1>2. PICK w : w = IF r \in DOMAIN rooms THEN R!RemoveRoom(World, r) ELSE World
  OBVIOUS
<1>3. PICK u : u = ReturnParty(w, matches[r][1])
  OBVIOUS
<1>4. PICK v : v = ReturnParty(u, matches[r][2])
  OBVIOUS
<1>5. PICK x : x = IF r \in DOMAIN v.matches THEN RemoveMatch(v, r, FALSE) ELSE v
  OBVIOUS
<1>6. Become(x) /\ UNCHANGED <<next, online>>
  BY <1>1, <1>2, <1>3, <1>4, <1>5 DEF LeaveClanRoom
<1>7. Good(w)
  <2>1. World \in Worlds /\ Good(World) /\ World.rooms = rooms
    BY WorldIs DEF PartiesInv, Good, Meets
  <2>2. CASE r \in DOMAIN rooms
    BY <1>2, <2>1, <2>2, RemoveRoomRooms, RoomsOnlyGood
  <2>3. CASE r \notin DOMAIN rooms
    BY <1>2, <2>1, <2>3
  <2> QED
    BY <2>2, <2>3
<1>8. Good(u)
  BY <1>3, <1>7, ReturnPartyGood
<1>9. Good(v)
  BY <1>4, <1>8, ReturnPartyGood
<1>10. Good(x)
  <2>1. CASE r \in DOMAIN v.matches
    <3>1. x = RemoveMatch(v, r, FALSE)
      BY <1>5, <2>1
    <3> QED
      BY <1>9, <2>1, <3>1, RemoveMatchGood
  <2>2. CASE r \notin DOMAIN v.matches
    BY <1>5, <1>9, <2>2
  <2> QED
    BY <2>1, <2>2
<1> QED
  BY <1>6, <1>10, Became

-----------------------------------------------------------------------------
(* The theorems.                                                            *)

LEMMA InitGood ==
  ASSUME PartiesInit
  PROVE  PartiesInv
<1>1. World \in Worlds
  <2>1. rooms \in Tables(Numbers, R!RoomType) /\ parties \in Tables(Keys, PartyType)
        /\ matches \in Tables(Numbers, Side \X Side)
    <3>1. rooms \in [{} -> R!RoomType] /\ parties \in [{} -> PartyType] /\ matches \in [{} -> Side \X Side]
      BY DEF PartiesInit
    <3> QED
      BY <3>1, TableIs
  <2>2. number \in [Sessions -> 0 .. MaxNumber] /\ party \in [Sessions -> 0 .. MaxParties]
        /\ state \in [Sessions -> R!States] /\ free \in Seq(Numbers)
    BY MaxNumberAssumption, SizesAssumption DEF PartiesInit, R!States
  <2> QED
    BY <2>1, <2>2, WorldIs
<1>2. Met(parties, party, matches, {}) /\ Filled(parties)
  BY DEF PartiesInit, Met, Filled
<1>3. next \in 1 .. MaxNumber + 1 /\ online \subseteq Sessions
  BY MaxNumberAssumption DEF PartiesInit
<1> QED
  BY <1>1, <1>2, <1>3, WorldIs DEF PartiesInv, Good, Meets

LEMMA PartiesInductive ==
  ASSUME PartiesInv, [PartiesNext]_partiesVars
  PROVE  PartiesInv'
<1>1. CASE InRoom /\ UNCHANGED <<parties, party, matches>>
  BY <1>1, InRoomGood
<1>2. ASSUME NEW s \in Sessions, CreateParty(s)
      PROVE  PartiesInv'
  BY <1>2, CreatePartyGood
<1>3. ASSUME NEW s \in Sessions, NEW k \in Keys, JoinParty(s, k)
      PROVE  PartiesInv'
  BY <1>3, JoinPartyGood
<1>4. ASSUME NEW s \in Sessions, LeaveParty(s)
      PROVE  PartiesInv'
  BY <1>4, LeavePartyGood
<1>5. ASSUME NEW s \in Sessions, NEW n \in Sizes, SetSize(s, n)
      PROVE  PartiesInv'
  BY <1>5, SetSizeGood
<1>6. ASSUME NEW s \in Sessions, NEW i, ChangeLeader(s, i)
      PROVE  PartiesInv'
  BY <1>6, ChangeLeaderGood
<1>7. ASSUME NEW s \in Sessions, Register(s)
      PROVE  PartiesInv'
  BY <1>7, RegisterGood
<1>8. ASSUME NEW s \in Sessions, NEW k \in Keys, Challenge(s, k)
      PROVE  PartiesInv'
  BY <1>8, ChallengeGood
<1>9. ASSUME NEW s \in Sessions, StartMatch(s)
      PROVE  PartiesInv'
  BY <1>9, StartMatchGood
<1>10. ASSUME NEW s \in Sessions, EndMatch(s)
       PROVE  PartiesInv'
  BY <1>10, EndMatchGood
<1>11. ASSUME NEW s \in Sessions, LeaveClanRoom(s)
       PROVE  PartiesInv'
  BY <1>11, LeaveClanRoomGood
<1>12. ASSUME NEW s \in Sessions, LeaveRoom(s)
       PROVE  PartiesInv'
  BY <1>12, LeaveRoomGood
<1>13. ASSUME NEW s \in Sessions, LeaveMatch(s)
       PROVE  PartiesInv'
  BY <1>13, LeaveMatchGood
<1>14. ASSUME NEW s \in Sessions, Disconnect(s)
       PROVE  PartiesInv'
  BY <1>14, DisconnectGood
<1>15. CASE UNCHANGED partiesVars
  <2>1. World' = World /\ next' = next /\ online' = online
    BY <1>15 DEF partiesVars, World
  <2> QED
    BY <2>1 DEF PartiesInv
<1> QED
  BY <1>1, <1>2, <1>3, <1>4, <1>5, <1>6, <1>7, <1>8, <1>9, <1>10, <1>11, <1>12, <1>13, <1>14, <1>15
  DEF PartiesNext

\* Every state is of worlds in which membership is kept.
THEOREM PartiesInvAlways == PartiesSpec => []PartiesInv
<1>1. PartiesInit => PartiesInv
  BY InitGood
<1>2. PartiesInv /\ [PartiesNext]_partiesVars => PartiesInv'
  BY PartiesInductive
<1> QED
  BY <1>1, <1>2, PTL DEF PartiesSpec

\* The types of rooms, parties and matches, and that no party without an entry
\* stays in its clan's list: whoever joins looks at the first of them.
THEOREM PartiesTypes == PartiesSpec => []PartiesTypeOK
<1>1. PartiesInv => PartiesTypeOK
  <2>1. SUFFICES ASSUME PartiesInv PROVE PartiesTypeOK
    OBVIOUS
  <2>2. World \in Worlds /\ Filled(World.parties) /\ next \in 1 .. MaxNumber + 1 /\ online \subseteq Sessions
    BY <2>1 DEF PartiesInv, Good, Meets
  <2>3. /\ rooms \in Tables(Numbers, R!RoomType) /\ number \in [Sessions -> 0 .. MaxNumber]
        /\ state \in [Sessions -> R!States] /\ free \in Seq(Numbers)
        /\ parties \in Tables(Keys, PartyType) /\ party \in [Sessions -> 0 .. MaxParties]
        /\ matches \in Tables(Numbers, Side \X Side) /\ Filled(parties)
    BY <2>2, WorldIs
  <2>4. /\ DOMAIN rooms \subseteq Numbers /\ rooms \in [DOMAIN rooms -> R!RoomType]
        /\ DOMAIN parties \subseteq Keys /\ parties \in [DOMAIN parties -> PartyType]
        /\ DOMAIN matches \subseteq Numbers /\ matches \in [DOMAIN matches -> Side \X Side]
    BY <2>3, TableIs
  <2> QED
    BY <2>2, <2>3, <2>4 DEF PartiesTypeOK, Filled, Fit, Numbers, Side
<1> QED
  BY <1>1, PartiesInvAlways, PTL

\* A session with a party number is a live member of that party, and the two
\* sides of a clan match are parties with that match.
THEOREM PartyMembershipAlways == PartiesSpec => []PartyMembership
<1>1. PartiesInv => PartyMembership
  <2>1. SUFFICES ASSUME PartiesInv PROVE PartyMembership
    OBVIOUS
  <2>2. Met(parties, party, matches, {})
    BY <2>1, WorldIs DEF PartiesInv, Good, Meets
  <2>3. \A s \in Sessions : OwnParty(World, s) = <<ClanOf[s], party[s]>>
    BY WorldIs DEF OwnParty
  <2> QED
    BY <2>2, <2>3 DEF PartyMembership, Met, Own
<1> QED
  BY <1>1, PartiesInvAlways, PTL

-----------------------------------------------------------------------------
(* The return of both parties.                                              *)

\* The session is in party k or in none.
Loyal(w, s, k) == ClanOf[s] = k[1] /\ w.party[s] \in {0, k[2]}
\* Nothing but party k and what is said of it changes.
Aside(w, v, k) ==
  /\ DOMAIN v.parties \subseteq DOMAIN w.parties
  /\ \A j \in DOMAIN w.parties : j # k => j \in DOMAIN v.parties /\ v.parties[j] = w.parties[j]
  /\ \A s \in Sessions : v.party[s] = w.party[s] \/ (Loyal(w, s, k) /\ v.party[s] \in {0, k[2]})
  /\ DOMAIN v.matches = DOMAIN w.matches
  /\ \A r \in DOMAIN w.matches : \A i \in 1 .. 2 :
       w.matches[r][i] # k => v.matches[r][i] = w.matches[r][i]
SoundIf(w, k) == k \in DOMAIN w.parties => Sound(w, k)
\* Party k is as large, has the same members, and the matches name it still.
Same(w, v, k) ==
  /\ k \in DOMAIN v.parties /\ Len(v.parties[k].players) = Len(w.parties[k].players)
  /\ v.parties[k].max = w.parties[k].max /\ Live(v.parties[k]) = Live(w.parties[k])
  /\ \A r \in DOMAIN w.matches : \A i \in 1 .. 2 : w.matches[r][i] = k => v.matches[r][i] = k
First(w, k) == w.parties[k].players[1]
Fits(w, k) == k \in DOMAIN w.parties /\ Len(w.parties[k].players) \in 2 .. w.parties[k].max

LEMMA KeysAre ==
  ASSUME NEW k \in Keys
  PROVE  k = <<k[1], k[2]>> /\ k[2] \in 1 .. MaxParties /\ k[2] # 0
BY SizesAssumption DEF Keys

LEMMA AsideSelf ==
  ASSUME NEW w, NEW k
  PROVE  Aside(w, w, k) /\ (k \in DOMAIN w.parties => Same(w, w, k))
BY DEF Aside, Same

LEMMA AsideTwice ==
  ASSUME NEW w, NEW v, NEW u, NEW k, Aside(w, v, k), Aside(v, u, k)
  PROVE  Aside(w, u, k)
<1>1. /\ DOMAIN u.parties \subseteq DOMAIN w.parties /\ DOMAIN u.matches = DOMAIN w.matches
      /\ \A j \in DOMAIN w.parties : j # k => j \in DOMAIN u.parties /\ u.parties[j] = w.parties[j]
  BY DEF Aside
<1>2. ASSUME NEW s \in Sessions
      PROVE  u.party[s] = w.party[s] \/ (Loyal(w, s, k) /\ u.party[s] \in {0, k[2]})
  <2>1. v.party[s] = w.party[s] \/ (Loyal(w, s, k) /\ v.party[s] \in {0, k[2]})
    BY DEF Aside
  <2>2. u.party[s] = v.party[s] \/ (Loyal(v, s, k) /\ u.party[s] \in {0, k[2]})
    BY DEF Aside
  <2>3. v.party[s] = w.party[s] => (Loyal(v, s, k) <=> Loyal(w, s, k))
    BY DEF Loyal
  <2> QED
    BY <2>1, <2>2, <2>3
<1>3. ASSUME NEW r \in DOMAIN w.matches, NEW i \in 1 .. 2, w.matches[r][i] # k
      PROVE  u.matches[r][i] = w.matches[r][i]
  BY <1>3 DEF Aside
<1> QED
  BY <1>1, <1>2, <1>3 DEF Aside

LEMMA SameTwice ==
  ASSUME NEW w, NEW v, NEW u, NEW k, DOMAIN v.matches = DOMAIN w.matches, Same(w, v, k), Same(v, u, k)
  PROVE  Same(w, u, k)
BY DEF Same

\* Another party is sound still.
LEMMA AsideSound ==
  ASSUME NEW w \in Worlds, NEW v, NEW k \in Keys, NEW j \in DOMAIN w.parties, j # k,
         Aside(w, v, k), Sound(w, j)
  PROVE  Sound(v, j) /\ Same(w, v, j) /\ v.parties[j] = w.parties[j]
<1>1. v.parties[j] = w.parties[j] /\ j \in DOMAIN v.parties
  BY DEF Aside
<1>2. ASSUME NEW s \in Live(w.parties[j])
      PROVE  OwnParty(v, s) = j
  <2>1. s \in Sessions /\ OwnParty(w, s) = j
    BY PartyOf, PartyIs DEF Sound
  <2>2. j[2] # 0
    BY KeyIs, KeysAre
  <2>3. ~Loyal(w, s, k)
    BY <2>1, <2>2, KeysAre DEF Loyal, OwnParty
  <2>4. v.party[s] = w.party[s]
    BY <2>1, <2>3 DEF Aside
  <2> QED
    BY <2>1, <2>4 DEF OwnParty
<1>3. Sound(v, j)
  BY <1>1, <1>2 DEF Sound
<1>4. \A r \in DOMAIN w.matches : \A i \in 1 .. 2 : w.matches[r][i] = j => v.matches[r][i] = j
  BY DEF Aside
<1> QED
  BY <1>1, <1>3, <1>4 DEF Same

\* Only the party's entry is written.
PartyPut(w, v, k, q) == v = [w EXCEPT !.parties[k] = q]

LEMMA PartyPutParts ==
  ASSUME NEW w \in Worlds, NEW k \in DOMAIN w.parties, NEW q, NEW v, PartyPut(w, v, k, q)
  PROVE  /\ Aside(w, v, k) /\ k \in DOMAIN v.parties /\ v.parties[k] = q
         /\ v.party = w.party /\ v.matches = w.matches
<1>1. PICK ps : ps = [w.parties EXCEPT ![k] = q]
  OBVIOUS
<1>2. v = [w EXCEPT !.parties = ps]
  BY <1>1 DEF Worlds, PartyPut
<1>3. v.parties = ps /\ v.party = w.party /\ v.matches = w.matches
  BY <1>2 DEF Worlds
<1>4. DOMAIN ps = DOMAIN w.parties /\ ps[k] = q /\ \A j \in DOMAIN w.parties : j # k => ps[j] = w.parties[j]
  BY <1>1
<1>5. Aside(w, v, k)
  BY <1>3, <1>4 DEF Aside
<1> QED
  BY <1>3, <1>4, <1>5

LEMMA RoomsOnlyAside ==
  ASSUME NEW w, NEW v, NEW k, RoomsOnly(w, v)
  PROVE  Aside(w, v, k)
BY DEF RoomsOnly, Aside

\* A sound party goes.
LEMMA RemovePartyAside ==
  ASSUME NEW w, Meets(w, {}), NEW k \in DOMAIN w.parties, Sound(w, k), NEW v, v = RemoveParty(w, k)
  PROVE  Aside(w, v, k) /\ k \notin DOMAIN v.parties
<1>0. w \in Worlds /\ Met(w.parties, w.party, w.matches, {})
  BY DEF Meets
<1>1. PICK m : m = [s \in Sessions |-> IF s \in Live(w.parties[k]) THEN 0 ELSE w.number[s]]
  OBVIOUS
<1>2. PICK p : p = [s \in Sessions |-> IF s \in Live(w.parties[k]) THEN 0 ELSE w.party[s]]
  OBVIOUS
<1>3. PICK ps : ps = R!Without(w.parties, {k})
  OBVIOUS
<1>4. PICK ms : ms = [r \in DOMAIN w.matches |-> <<Other(w.matches[r][1], k), Other(w.matches[r][2], k)>>]
  OBVIOUS
<1>5. v = [[[[w EXCEPT !.number = m] EXCEPT !.party = p] EXCEPT !.parties = ps] EXCEPT !.matches = ms]
  BY <1>0, <1>1, <1>2, <1>3, <1>4 DEF RemoveParty, Worlds
<1>6. v.parties = ps /\ v.party = p /\ v.matches = ms
  BY <1>0, <1>5 DEF Worlds
<1>7. DOMAIN ps = DOMAIN w.parties \ {k} /\ \A j \in DOMAIN w.parties : j # k => ps[j] = w.parties[j]
  BY <1>3 DEF R!Without
<1>8. ASSUME NEW s \in Sessions
      PROVE  p[s] = w.party[s] \/ (Loyal(w, s, k) /\ p[s] \in {0, k[2]})
  <2>1. CASE s \notin Live(w.parties[k])
    BY <1>2, <2>1
  <2>2. CASE s \in Live(w.parties[k])
    <3>1. ClanOf[s] = k[1] /\ OwnParty(w, s) = k
      BY <1>0, <2>2 DEF Met, Sound
    <3>2. Loyal(w, s, k)
      BY <3>1 DEF OwnParty, Loyal
    <3> QED
      BY <1>2, <2>2, <3>2
  <2> QED
    BY <2>1, <2>2
<1>9. DOMAIN ms = DOMAIN w.matches
      /\ \A r \in DOMAIN w.matches : \A i \in 1 .. 2 : w.matches[r][i] # k => ms[r][i] = w.matches[r][i]
  <2>1. \A r \in DOMAIN w.matches : \A i \in 1 .. 2 : ms[r][i] = Other(w.matches[r][i], k)
    BY <1>4
  <2> QED
    BY <1>4, <2>1 DEF Other
<1> QED
  BY <1>6, <1>7, <1>8, <1>9 DEF Aside

\* What is left of the list that a member leaves.
LEMMA WithoutMemberSize ==
  ASSUME NEW q \in PartyType, NEW s, CanLose(q, s), NEW t, t = WithoutMember(q, s)
  PROVE  /\ Len(t) = Len(q.players) - 1
         /\ ~Leads(q, s) => t # <<>> /\ t[1] = q.players[1]
<1>1. PICK l \in Seq(Users) : l = q.players
  BY PartyIs
<1>2. Len(l) \in Nat /\ DOMAIN l = 1 .. Len(l) /\ (l # <<>> <=> 1 \in DOMAIN l)
  BY <1>1, PartyIs
<1>3. PICK i : i = R!The(Positions(q, s))
  OBVIOUS
<1>4. i \in DOMAIN l /\ l[i] = Member(s)
  <2>1. Positions(q, s) # {}
    BY MemberIs DEF CanLose
  <2>2. i \in Positions(q, s)
    BY <1>3, <2>1 DEF R!The
  <2> QED
    BY <1>1, <2>2 DEF Positions
<1>5. CASE Leads(q, s) /\ Len(l) > 1
  <2>1. PICK j : j = Successor(q)
    OBVIOUS
  <2>2. j \in DOMAIN l
    BY <1>1, <1>5, <2>1, SuccessorIs DEF CanLose, Successors
  <2>3. PICK u \in Seq(Users) : u = R!SwapWithFirst(l, j) /\ DOMAIN u = DOMAIN l /\ Len(u) = Len(l)
    BY <2>2, SwapTyped
  <2>4. t = R!SwapOut(u, j) /\ j \in DOMAIN u
    BY <1>1, <1>5, <2>1, <2>2, <2>3 DEF WithoutMember
  <2>5. Len(t) = Len(u) - 1
    BY <2>4, SwapOutTyped
  <2> QED
    BY <1>1, <1>5, <2>3, <2>5
<1>6. CASE ~(Leads(q, s) /\ Len(l) > 1)
  <2>1. t = R!SwapOut(l, i)
    BY <1>1, <1>3, <1>6 DEF WithoutMember
  <2>2. /\ Len(t) = Len(l) - 1 /\ t \in Seq(Users)
        /\ \A h \in 1 .. Len(l) - 1 : t[h] = IF h = i THEN l[Len(l)] ELSE l[h]
    BY <1>4, <2>1, SwapOutTyped
  <2>3. ASSUME ~Leads(q, s)
        PROVE  t # <<>> /\ t[1] = l[1]
    <3>1. l # <<>> /\ i # 1
      BY <1>1, <1>2, <1>4, <2>3 DEF Leads
    <3>2. i \in 2 .. Len(l) /\ 1 \in 1 .. Len(l) - 1
      BY <1>2, <1>4, <3>1
    <3> QED
      BY <1>2, <2>2, <3>1, <3>2
  <2> QED
    BY <1>1, <2>2, <2>3
<1> QED
  BY <1>5, <1>6

\* The two halves of a return: a loyal member leaves ...
LEMMA LeaveAside ==
  ASSUME NEW w, Good(w), NEW k \in Keys, SoundIf(w, k), NEW s \in Sessions, Loyal(w, s, k),
         NEW v \in PartyLeave(w, s)
  PROVE  /\ Aside(w, v, k) /\ SoundIf(v, k)
         /\ k \in DOMAIN w.parties /\ s \in Live(w.parties[k]) /\ Len(w.parties[k].players) >= 2 =>
              /\ k \in DOMAIN v.parties /\ v.matches = w.matches
              /\ Len(v.parties[k].players) = Len(w.parties[k].players) - 1
              /\ v.parties[k].max = w.parties[k].max /\ v.parties[k].started = w.parties[k].started
              /\ \A x : x \in Live(v.parties[k]) <=> x \in Live(w.parties[k]) /\ x # s
              /\ ~Leads(w.parties[k], s) => First(v, k) = First(w, k)
<1>1. w \in Worlds /\ Meets(w, {}) /\ Met(w.parties, w.party, w.matches, {}) /\ Filled(w.parties)
  BY DEF Good, Meets
<1>2. CASE OwnParty(w, s) \notin DOMAIN w.parties
  <2>1. v = w
    BY <1>2 DEF PartyLeave
  <2>2. ~(k \in DOMAIN w.parties /\ s \in Live(w.parties[k]))
    BY <1>2 DEF SoundIf, Sound
  <2> QED
    BY <2>1, <2>2, AsideSelf
<1>3. CASE OwnParty(w, s) \in DOMAIN w.parties
  <2>1. OwnParty(w, s) = k /\ k \in DOMAIN w.parties
    <3>1. OwnParty(w, s)[2] # 0
      BY <1>1, <1>3, KeyIs, KeysAre
    <3> QED
      BY <1>3, <3>1, KeysAre DEF OwnParty, Loyal
  <2>2. PICK q \in PartyType : q = w.parties[k]
    BY <1>1, <2>1, PartyOf
  <2>3. s \in Live(q) /\ Whole(q) /\ Once(q.players) /\ Sound(w, k)
    <3>1. w.party[s] # 0
      BY <2>1, KeysAre DEF OwnParty
    <3>2. s \in Live(w.parties[k])
      BY <1>1, <2>1, <3>1 DEF Met, OwnParty
    <3> QED
      BY <1>1, <2>1, <2>2, <3>2 DEF SoundIf, Sound, Filled, Fit
  <2>4. CanLose(q, s)
    BY <2>3, WholeCanLose
  <2>5. PICK t : t = WithoutMember(q, s)
    OBVIOUS
  <2>6. /\ t \in Seq(Users)
        /\ \A i \in DOMAIN t : \E j \in DOMAIN q.players : t[i] = q.players[j]
        /\ \A j \in DOMAIN q.players : q.players[j] # Member(s) => \E i \in DOMAIN t : t[i] = q.players[j]
        /\ \A i \in DOMAIN t : t[i] # Member(s)
    BY <2>3, <2>4, <2>5, WithoutMemberIs
  <2>7. Len(t) = Len(q.players) - 1 /\ (~Leads(q, s) => t # <<>> /\ t[1] = q.players[1])
    BY <2>4, <2>5, WithoutMemberSize
  <2>8. PICK r : r = w.parties[k].match
    OBVIOUS
  <2>9. PICK a : a = Left(w, k, t, s, r)
    OBVIOUS
  <2>10. /\ a \in Worlds /\ a.matches = w.matches
         /\ a.party[s] = 0 /\ \A x \in Sessions : x # s => a.party[x] = w.party[x]
         /\ a.parties[k].players = t /\ DOMAIN a.parties = DOMAIN w.parties
         /\ \A j \in DOMAIN w.parties : j # k => a.parties[j] = w.parties[j]
    BY <1>1, <2>1, <2>6, <2>9, LeftIs
  <2>11. a.parties[k].max = q.max /\ a.parties[k].started = q.started
    BY <1>1, <2>1, <2>2, <2>6, <2>9, LeftIs
  <2>12. \A x : x \in Live(a.parties[k]) <=> x \in Live(q) /\ x # s
    <3>1. PICK u : u = a.parties[k]
      OBVIOUS
    <3>2. u.players = t
      BY <2>10, <3>1
    <3>3. ASSUME NEW x, x \in Live(u)
          PROVE  x \in Live(q) /\ x # s
      <4>1. PICK i \in DOMAIN t : t[i].live /\ t[i].id = x
        BY <3>2, <3>3, LiveIs
      <4>2. PICK j \in DOMAIN q.players : t[i] = q.players[j] /\ t[i] # Member(s)
        BY <2>6
      <4>3. x # s
        BY <4>1, <4>2, MemberIs
      <4> QED
        BY <4>1, <4>2, <4>3, LiveIs
    <3>4. ASSUME NEW x, x \in Live(q), x # s
          PROVE  x \in Live(u)
      <4>1. PICK j \in DOMAIN q.players : q.players[j].live /\ q.players[j].id = x
        BY <3>4, LiveIs
      <4>2. q.players[j] # Member(s)
        BY <3>4, <4>1 DEF Member
      <4>3. PICK i \in DOMAIN t : t[i] = q.players[j]
        BY <2>6, <4>2
      <4> QED
        BY <3>2, <4>1, <4>3, LiveIs
    <3> QED
      BY <3>1, <3>3, <3>4
  <2>13. Sound(a, k)
    <3>1. Whole(a.parties[k])
      BY <2>3, <2>6, <2>10 DEF Whole
    <3>2. ASSUME NEW x \in Live(a.parties[k])
          PROVE  OwnParty(a, x) = k
      <4>1. x \in Live(q) /\ x # s /\ x \in Sessions
        BY <2>12, PartyIs
      <4>2. OwnParty(w, x) = k
        BY <2>2, <2>3, <4>1 DEF Sound
      <4> QED
        BY <2>10, <4>1, <4>2 DEF OwnParty
    <3> QED
      BY <3>1, <3>2 DEF Sound
  <2>14. Aside(w, a, k)
    <3>1. \A x \in Sessions : a.party[x] = w.party[x] \/ (Loyal(w, x, k) /\ a.party[x] \in {0, k[2]})
      BY <2>10
    <3> QED
      BY <2>10, <3>1 DEF Aside
  <2>15. CASE t = <<>>
    <3>1. PICK g : g = RemoveParty(a, k)
      OBVIOUS
    <3>2. Meets(a, {})
      <4>1. \A x \in Live(a.parties[k]) : ClanOf[x] = k[1]
        BY <1>1, <2>1, <2>2, <2>12 DEF Met
      <4>2. PICK ps : ps = a.parties
        OBVIOUS
      <4>3. PICK p : p = a.party
        OBVIOUS
      <4>4. DOMAIN ps = DOMAIN w.parties /\ ps[k] = a.parties[k] /\ ps[k].match = w.parties[k].match
            /\ \A j \in DOMAIN w.parties : j # k => ps[j] = w.parties[j]
        <5>1. a.parties[k].match = w.parties[k].match
          BY <1>1, <2>1, <2>6, <2>9, LeftIs
        <5> QED
          BY <2>10, <4>2, <5>1
      <4>5. ASSUME NEW x \in Sessions, p[x] # 0
            PROVE  \/ <<ClanOf[x], p[x]>> = k /\ x \in Live(a.parties[k])
                   \/ p[x] = w.party[x] /\ <<ClanOf[x], p[x]>> # k
        <5>1. x # s /\ p[x] = w.party[x]
          BY <2>10, <4>3, <4>5
        <5>2. <<ClanOf[x], w.party[x]>> = k => x \in Live(q)
          BY <1>1, <2>2, <4>5, <5>1 DEF Met
        <5> QED
          BY <2>12, <5>1, <5>2
      <4>6. Met(ps, p, w.matches, {})
        BY <1>1, <2>1, <4>1, <4>4, <4>5, PartyChanged
      <4> QED
        BY <2>10, <4>2, <4>3, <4>6 DEF Meets
    <3>3. Aside(a, g, k) /\ k \notin DOMAIN g.parties /\ g \in Worlds
      <4>1. Aside(a, g, k) /\ k \notin DOMAIN g.parties
        BY <2>1, <2>10, <2>13, <3>1, <3>2, RemovePartyAside
      <4>2. g \in Worlds
        BY <3>1, <3>2, RemovePartyIs DEF Meets
      <4> QED
        BY <4>1, <4>2
    <3>4. PartyLeave(w, s) = FromRoom(g, r, s)
      BY <2>1, <2>2, <2>4, <2>5, <2>8, <2>9, <2>10, <2>15, <3>1 DEF PartyLeave, Left
    <3>5. RoomsOnly(g, v)
      BY <3>3, <3>4, FromRoomIs
    <3>6. Aside(w, v, k)
      BY <2>14, <3>3, <3>5, RoomsOnlyAside, AsideTwice
    <3>7. SoundIf(v, k)
      BY <3>3, <3>5 DEF RoomsOnly, SoundIf
    <3>8. ~(Len(q.players) >= 2)
      BY <2>7, <2>15, PartyIs
    <3> QED
      BY <2>2, <3>6, <3>7, <3>8
  <2>16. CASE t # <<>>
    <3>1. PartyLeave(w, s) = FromRoom(a, r, s)
      BY <2>1, <2>2, <2>4, <2>5, <2>8, <2>9, <2>10, <2>16 DEF PartyLeave, Left
    <3>2. RoomsOnly(a, v)
      BY <2>10, <3>1, FromRoomIs
    <3>3. Aside(w, v, k)
      BY <2>14, <3>2, RoomsOnlyAside, AsideTwice
    <3>4. v.parties = a.parties /\ v.party = a.party /\ v.matches = a.matches
      BY <3>2 DEF RoomsOnly
    <3>5. Sound(v, k)
      BY <2>13, <3>4 DEF Sound, OwnParty
    <3>6. ~Leads(w.parties[k], s) => First(v, k) = First(w, k)
      BY <2>2, <2>7, <2>10, <3>4 DEF First
    <3> QED
      BY <2>1, <2>2, <2>7, <2>10, <2>11, <2>12, <3>3, <3>4, <3>5, <3>6 DEF SoundIf
  <2> QED
    BY <2>15, <2>16
<1> QED
  BY <1>2, <1>3

\* ... and joins again.
LEMMA JoinAside ==
  ASSUME NEW w, Good(w), NEW k \in Keys, SoundIf(w, k), NEW s \in Sessions, Loyal(w, s, k),
         NEW v, v = PartyJoin(w, s, k)
  PROVE  /\ Aside(w, v, k) /\ SoundIf(v, k)
         /\ /\ k \in DOMAIN w.parties /\ ~w.parties[k].started
            /\ Len(w.parties[k].players) < w.parties[k].max /\ s \notin Live(w.parties[k])
            => /\ k \in DOMAIN v.parties /\ v.matches = w.matches
               /\ Len(v.parties[k].players) = Len(w.parties[k].players) + 1
               /\ v.parties[k].max = w.parties[k].max /\ v.parties[k].started = w.parties[k].started
               /\ \A x : x \in Live(v.parties[k]) <=> x \in Live(w.parties[k]) \/ x = s
               /\ First(v, k) = First(w, k)
<1>1. w \in Worlds /\ Filled(w.parties)
  BY DEF Good, Meets
<1>2. PICK leader : leader = w.parties[k].players[1]
  OBVIOUS
<1>3. PICK e : e = EnterRoom(w, w.number[leader.id], s)
  OBVIOUS
<1>4. RoomsOnly(w, e)
  BY <1>1, <1>3, EnterRoomIs
<1>5. CASE k \notin DOMAIN w.parties
  <2>1. v = w
    BY <1>5 DEF PartyJoin
  <2>2. Aside(w, v, k)
    BY <2>1, AsideSelf
  <2> QED
    BY <1>5, <2>1, <2>2
<1>6. CASE k \in DOMAIN w.parties
  <2>1. PICK q \in PartyType : q = w.parties[k]
    BY <1>1, <1>6, PartyOf
  <2>2. q.players # <<>> /\ Whole(q) /\ leader.live /\ Sound(w, k)
    <3>1. Sound(w, k)
      BY <1>6 DEF SoundIf
    <3>2. Whole(q) /\ q.players # <<>>
      BY <1>1, <1>6, <2>1, <3>1 DEF Filled, Fit, Sound
    <3> QED
      BY <1>2, <2>1, <3>1, <3>2, PartyIs DEF Whole
  <2>3. CASE q.started \/ Len(q.players) >= q.max \/ s \in Live(q)
    <3>1. v = w
      BY <1>2, <1>6, <2>1, <2>2, <2>3 DEF PartyJoin
    <3>2. Len(q.players) \in Nat /\ q.max \in Nat
      BY PartyIs, SizesAssumption DEF PartyType
    <3> QED
      BY <2>1, <2>3, <3>1, <3>2, AsideSelf
  <2>4. CASE ~(q.started \/ Len(q.players) >= q.max \/ s \in Live(q))
    <3>1. v = Joined(e, k, s)
      BY <1>2, <1>3, <1>6, <2>1, <2>2, <2>4 DEF PartyJoin, Joined
    <3>2. e \in Worlds /\ e.parties = w.parties /\ e.party = w.party /\ e.matches = w.matches
      BY <1>4 DEF RoomsOnly
    <3>3. k \in DOMAIN e.parties
      BY <1>6, <3>2
    <3>4. v.matches = w.matches /\ DOMAIN v.parties = DOMAIN w.parties
      BY <3>1, <3>2, <3>3, JoinedIs
    <3>5. v.party[s] = k[2] /\ \A x \in Sessions : x # s => v.party[x] = w.party[x]
      BY <3>1, <3>2, <3>3, JoinedIs
    <3>6. \A j \in DOMAIN w.parties : j # k => v.parties[j] = w.parties[j]
      BY <3>1, <3>2, <3>3, JoinedIs
    <3>7. v.parties[k].max = q.max /\ v.parties[k].started = q.started
      BY <2>1, <3>1, <3>2, <3>3, JoinedIs
    <3>8. v.parties[k].players = More(q, s)
      BY <2>1, <3>1, <3>2, <3>3, JoinedIs
    <3>9. PICK u : u = v.parties[k]
      OBVIOUS
    <3>10. /\ Len(u.players) = Len(q.players) + 1 /\ u.players[1] = q.players[1] /\ Whole(u)
      <4>1. PICK l \in Seq(Users) : l = q.players
        BY PartyIs
      <4>9. Member(s) \in Users /\ Member(s).live
        BY DEF Member, Users
      <4>2. PICK m \in Users : m = Member(s) /\ m.live
        BY <4>9
      <4>3. u.players = Append(l, m)
        BY <3>8, <3>9, <4>1, <4>2 DEF More
      <4>4. PICK t : t = Append(l, m)
        OBVIOUS
      <4>5. /\ Len(t) = Len(l) + 1 /\ DOMAIN t = 1 .. Len(l) + 1
            /\ DOMAIN l = 1 .. Len(l) /\ Len(l) \in Nat
            /\ \A i \in 1 .. Len(l) : t[i] = l[i]
            /\ t[Len(l) + 1] = m
        BY <4>4, AppendProperties
      <4>6. 1 \in 1 .. Len(l)
        BY <2>2, <4>1, PartyIs
      <4>7. \A i \in DOMAIN t : i \in 1 .. Len(l) \/ i = Len(l) + 1
        BY <4>5
      <4>8. \A i \in DOMAIN t : t[i].live
        BY <2>2, <4>1, <4>2, <4>5, <4>7 DEF Whole
      <4> QED
        BY <4>1, <4>3, <4>4, <4>5, <4>6, <4>8 DEF Whole
    <3>11. \A x : x \in Live(u) <=> x \in Live(q) \/ x = s
      BY <3>8, <3>9, AppendLive
    <3>12. Sound(v, k)
      <4>1. ASSUME NEW x \in Live(u)
            PROVE  OwnParty(v, x) = k
        <5>1. CASE x = s
          BY <3>5, <5>1, KeysAre DEF Loyal, OwnParty
        <5>2. CASE x # s
          <6>1. x \in Live(q) /\ x \in Sessions
            BY <3>11, <5>2, PartyIs
          <6>2. OwnParty(w, x) = k
            BY <2>1, <2>2, <6>1 DEF Sound
          <6> QED
            BY <3>5, <5>2, <6>1, <6>2 DEF OwnParty
        <5> QED
          BY <5>1, <5>2
      <4> QED
        BY <3>9, <3>10, <4>1 DEF Sound
    <3>13. Aside(w, v, k)
      <4>1. \A x \in Sessions : v.party[x] = w.party[x] \/ (Loyal(w, x, k) /\ v.party[x] \in {0, k[2]})
        BY <3>5
      <4> QED
        BY <3>4, <3>6, <4>1 DEF Aside
    <3> QED
      BY <1>6, <2>1, <3>4, <3>7, <3>9, <3>10, <3>11, <3>12, <3>13 DEF SoundIf, First
  <2> QED
    BY <2>3, <2>4
<1> QED
  BY <1>5, <1>6

\* Together: the member is back, at the end.
LEMMA AgainAside ==
  ASSUME NEW w, Good(w), NEW k \in Keys, SoundIf(w, k), NEW s \in Sessions, Loyal(w, s, k),
         NEW v, v = Again(w, s, k)
  PROVE  /\ Aside(w, v, k) /\ SoundIf(v, k)
         /\ Fits(w, k) /\ ~w.parties[k].started /\ s \in Live(w.parties[k]) =>
              /\ Same(w, v, k) /\ ~v.parties[k].started
              /\ ~Leads(w.parties[k], s) => First(v, k) = First(w, k)
<1>1. PICK u : u = R!The(PartyLeave(w, s))
  OBVIOUS
<1>2. u \in PartyLeave(w, s) /\ Good(u)
  BY <1>1, PartyLeaveGood DEF R!The
<1>3. v = PartyJoin(u, s, k)
  BY <1>1 DEF Again
<1>4. Aside(w, u, k) /\ SoundIf(u, k)
  BY <1>2, LeaveAside
<1>5. Loyal(u, s, k)
  BY <1>4 DEF Aside, Loyal
<1>6. Aside(u, v, k) /\ SoundIf(v, k)
  BY <1>2, <1>3, <1>4, <1>5, JoinAside
<1>7. ASSUME Fits(w, k), ~w.parties[k].started, s \in Live(w.parties[k])
      PROVE  /\ Same(w, v, k) /\ ~v.parties[k].started
             /\ ~Leads(w.parties[k], s) => First(v, k) = First(w, k)
  <2>1. PICK q \in PartyType : q = w.parties[k] /\ k \in DOMAIN w.parties
    BY <1>7, PartyOf DEF Fits, Good, Meets
  <2>2. Len(q.players) \in Nat /\ q.max \in Nat /\ Len(q.players) >= 2 /\ Len(q.players) <= q.max
    <3>1. Len(q.players) \in Nat /\ q.max \in Nat
      BY PartyIs, SizesAssumption DEF PartyType
    <3>2. Len(q.players) \in 2 .. q.max
      BY <1>7, <2>1 DEF Fits
    <3> QED
      BY <3>1, <3>2
  <2>3. /\ k \in DOMAIN u.parties /\ u.matches = w.matches
        /\ Len(u.parties[k].players) = Len(q.players) - 1
        /\ u.parties[k].max = q.max /\ u.parties[k].started = q.started
        /\ \A x : x \in Live(u.parties[k]) <=> x \in Live(q) /\ x # s
        /\ ~Leads(q, s) => First(u, k) = First(w, k)
    <3>1. k \in DOMAIN w.parties /\ s \in Live(w.parties[k]) /\ Len(w.parties[k].players) >= 2
      BY <1>7, <2>1, <2>2
    <3> QED
      BY <1>2, <2>1, <3>1, LeaveAside
  <2>4. /\ ~u.parties[k].started /\ Len(u.parties[k].players) < u.parties[k].max
        /\ s \notin Live(u.parties[k])
    BY <1>7, <2>1, <2>2, <2>3
  <2>5. /\ k \in DOMAIN v.parties /\ v.matches = u.matches
        /\ Len(v.parties[k].players) = Len(u.parties[k].players) + 1
        /\ v.parties[k].max = u.parties[k].max /\ v.parties[k].started = u.parties[k].started
        /\ \A x : x \in Live(v.parties[k]) <=> x \in Live(u.parties[k]) \/ x = s
        /\ First(v, k) = First(u, k)
    BY <1>2, <1>3, <1>4, <1>5, <2>3, <2>4, JoinAside
  <2>6. Live(v.parties[k]) = Live(q)
    <3>1. \A x : x \in Live(v.parties[k]) <=> x \in Live(q)
      BY <1>7, <2>1, <2>3, <2>5
    <3> QED
      BY <3>1
  <2>7. Len(v.parties[k].players) = Len(q.players)
    BY <2>2, <2>3, <2>5
  <2>8. Same(w, v, k)
    BY <2>1, <2>3, <2>5, <2>6, <2>7 DEF Same
  <2> QED
    BY <1>7, <2>1, <2>3, <2>5, <2>8
<1> QED
  BY <1>4, <1>6, <1>7, AsideTwice

LEMMA RestoredAside ==
  ASSUME NEW w, Good(w), NEW k, SoundIf(w, k), NEW s, NEW v, v = Restored(w, k, s)
  PROVE  /\ Aside(w, v, k) /\ SoundIf(v, k)
         /\ k \in DOMAIN w.parties =>
              /\ Same(w, v, k) /\ v.parties[k].started = w.parties[k].started
              /\ s \in Live(w.parties[k]) => First(v, k) = Member(s)
<1>1. w \in Worlds
  BY DEF Good, Meets
<1>2. CASE k \notin DOMAIN w.parties
  <2>1. v = w
    BY <1>2 DEF Restored
  <2> QED
    BY <1>2, <2>1, AsideSelf
<1>3. CASE k \in DOMAIN w.parties
  <2>1. PICK q \in PartyType : q = w.parties[k]
    BY <1>1, <1>3, PartyOf
  <2>2. CASE Positions(q, s) \subseteq {1}
    <3>1. v = w
      BY <1>3, <2>1, <2>2 DEF Restored
    <3>2. s \in Live(q) => q.players[1] = Member(s)
      <4>1. s \in Live(q) => 1 \in Positions(q, s)
        BY <2>2, MemberIs
      <4> QED
        BY <4>1 DEF Positions
    <3> QED
      BY <1>3, <2>1, <3>1, <3>2, AsideSelf DEF First
  <2>3. CASE ~(Positions(q, s) \subseteq {1})
    <3>1. PICK i : i = R!The(Positions(q, s))
      OBVIOUS
    <3>2. i \in DOMAIN q.players /\ q.players[i] = Member(s)
      <4>1. i \in Positions(q, s)
        BY <2>3, <3>1 DEF R!The
      <4> QED
        BY <4>1 DEF Positions
    <3>3. PICK l \in Seq(Users) : l = q.players
      BY PartyIs
    <3>4. PICK t : t = R!SwapWithFirst(l, i)
      OBVIOUS
    <3>5. Len(t) = Len(l) /\ DOMAIN t = DOMAIN l /\ t[1] = l[i]
      BY <3>2, <3>3, <3>4, SwapTyped
    <3>6. \A x \in DOMAIN t : \E y \in DOMAIN l : t[x] = l[y]
      BY <3>2, <3>3, <3>4, SwapHas
    <3>7. PICK u : u = [q EXCEPT !.players = t]
      OBVIOUS
    <3>8. u.players = t /\ u.max = q.max /\ u.started = q.started
      BY <3>7 DEF PartyType
    <3>9. Live(u) = Live(q)
      <4>1. u = [q EXCEPT !.players = R!SwapWithFirst(@, i)]
        BY <3>3, <3>4, <3>7
      <4> QED
        BY <3>2, <4>1, SwappedMembers
    <3>10. PartyPut(w, v, k, u)
      BY <1>1, <1>3, <2>1, <2>3, <3>1, <3>3, <3>4, <3>7 DEF Restored, PartyPut
    <3>11. /\ Aside(w, v, k) /\ k \in DOMAIN v.parties /\ v.parties[k] = u
           /\ v.party = w.party /\ v.matches = w.matches
      BY <1>1, <1>3, <3>10, PartyPutParts
    <3>12. Sound(v, k)
      <4>1. Whole(q) /\ \A x \in Live(q) : OwnParty(w, x) = k
        BY <1>3, <2>1 DEF SoundIf, Sound
      <4>2. Whole(u)
        BY <3>3, <3>6, <3>8, <4>1 DEF Whole
      <4> QED
        BY <3>9, <3>11, <4>1, <4>2 DEF Sound, OwnParty
    <3>13. Same(w, v, k)
      BY <2>1, <3>3, <3>5, <3>8, <3>9, <3>11 DEF Same
    <3>14. First(v, k) = Member(s)
      BY <3>2, <3>3, <3>5, <3>8, <3>11 DEF First
    <3> QED
      BY <2>1, <3>8, <3>11, <3>12, <3>13, <3>14 DEF SoundIf
  <2> QED
    BY <2>2, <2>3
<1> QED
  BY <1>2, <1>3

\* What the return of party k keeps, one member after the other.
Ready(w, k) == Fits(w, k) /\ ~w.parties[k].started
AsItWas(w, v, k) == Same(w, v, k) /\ Ready(v, k) /\ First(v, k) = First(w, k)
Ret(w, v, k) ==
  /\ Good(v) /\ Aside(w, v, k) /\ SoundIf(v, k)
  /\ Ready(w, k) => AsItWas(w, v, k)

LEMMA FitsStill ==
  ASSUME NEW w, NEW v, NEW k, Fits(w, k), Same(w, v, k)
  PROVE  Fits(v, k)
BY DEF Fits, Same

LEMMA RetTwice ==
  ASSUME NEW w, NEW v, NEW u, NEW k, Ret(w, v, k), Ret(v, u, k)
  PROVE  Ret(w, u, k)
<1>1. Good(u) /\ Aside(w, u, k) /\ SoundIf(u, k)
  BY AsideTwice DEF Ret
<1>2. ASSUME Ready(w, k)
      PROVE  AsItWas(w, u, k)
  <2>1. AsItWas(w, v, k) /\ DOMAIN v.matches = DOMAIN w.matches
    BY <1>2 DEF Ret, Aside
  <2>2. AsItWas(v, u, k)
    BY <2>1 DEF Ret, AsItWas
  <2> QED
    BY <2>1, <2>2, SameTwice DEF AsItWas
<1> QED
  BY <1>1, <1>2 DEF Ret

LEMMA MemberRet ==
  ASSUME NEW w, NEW k \in Keys, NEW v, Ret(w, v, k), NEW e \in Users,
         e.live => e.id \in Live(w.parties[k]) /\ Loyal(w, e.id, k)
  PROVE  Ret(w, Follower(v, k, e), k) /\ Ret(w, Leader(v, k, e), k)
<1>1. Good(v) /\ Aside(w, v, k) /\ SoundIf(v, k)
  BY DEF Ret
<1>2. CASE ~e.live
  BY <1>2 DEF Follower, Leader
<1>3. CASE e.live
  <2>1. PICK s \in Sessions : s = e.id
    BY DEF Users
  <2>2. Loyal(v, s, k)
    BY <1>1, <1>3, <2>1 DEF Loyal, Aside
  <2>3. PICK a : a = Again(v, s, k)
    OBVIOUS
  <2>4. /\ Aside(v, a, k) /\ SoundIf(a, k)
        /\ Fits(v, k) /\ ~v.parties[k].started /\ s \in Live(v.parties[k]) =>
              /\ Same(v, a, k) /\ ~a.parties[k].started
              /\ ~Leads(v.parties[k], s) => First(a, k) = First(v, k)
    BY <1>1, <2>2, <2>3, AgainAside
  <2>5. Good(a)
    BY <1>1, <2>2, <2>3, AgainGood DEF Loyal
  <2>6. ASSUME Ready(w, k)
        PROVE  /\ AsItWas(w, v, k) /\ k \in DOMAIN v.parties /\ s \in Live(v.parties[k])
               /\ Same(v, a, k) /\ ~a.parties[k].started
               /\ ~Leads(v.parties[k], s) => First(a, k) = First(v, k)
    <3>1. AsItWas(w, v, k)
      BY <2>6 DEF Ret
    <3>2. Fits(v, k) /\ ~v.parties[k].started /\ k \in DOMAIN v.parties
      BY <3>1 DEF AsItWas, Ready, Fits
    <3>3. s \in Live(v.parties[k])
      BY <1>3, <2>1, <3>1 DEF AsItWas, Same
    <3>4. Same(v, a, k) /\ ~a.parties[k].started
          /\ (~Leads(v.parties[k], s) => First(a, k) = First(v, k))
      BY <2>4, <3>2, <3>3
    <3> QED
      BY <3>1, <3>2, <3>3, <3>4
  <2>7. Aside(w, a, k) /\ DOMAIN v.matches = DOMAIN w.matches /\ DOMAIN a.matches = DOMAIN w.matches
    <3>1. Aside(w, v, k) /\ Aside(v, a, k)
      BY <1>1, <2>4
    <3>2. Aside(w, a, k)
      BY <3>1, AsideTwice
    <3>3. DOMAIN v.matches = DOMAIN w.matches /\ DOMAIN a.matches = DOMAIN w.matches
      BY <3>1, <3>2 DEF Aside
    <3> QED
      BY <3>2, <3>3
  <2>8. Ready(w, k) => Same(w, a, k) /\ Ready(a, k)
    <3>1. SUFFICES ASSUME Ready(w, k) PROVE Same(w, a, k) /\ Ready(a, k)
      OBVIOUS
    <3>2. Same(w, v, k) /\ Same(v, a, k) /\ ~a.parties[k].started /\ Fits(w, k)
      BY <2>6, <3>1 DEF AsItWas, Ready
    <3>3. Same(w, a, k)
      BY <2>7, <3>2, SameTwice
    <3> QED
      BY <3>2, <3>3, FitsStill DEF Ready
  <2>9. CASE ~Led(v, k, s)
    <3>1. Follower(v, k, e) = a /\ Leader(v, k, e) = v
      BY <1>3, <2>1, <2>3, <2>9 DEF Follower, Leader
    <3>2. ASSUME Ready(w, k)
          PROVE  First(a, k) = First(w, k)
      <4>1. First(a, k) = First(v, k)
        BY <2>6, <2>9, <3>2 DEF Led
      <4> QED
        BY <2>6, <3>2, <4>1 DEF AsItWas
    <3>3. Ret(w, a, k)
      BY <2>4, <2>5, <2>7, <2>8, <3>2 DEF Ret, AsItWas
    <3> QED
      BY <3>1, <3>3
  <2>10. CASE Led(v, k, s)
    <3>1. PICK b : b = Restored(a, k, s)
      OBVIOUS
    <3>2. Follower(v, k, e) = v /\ Leader(v, k, e) = b
      BY <1>3, <2>1, <2>3, <2>10, <3>1 DEF Follower, Leader
    <3>3. Good(b)
      BY <2>5, <3>1, RestoredGood
    <3>4. /\ Aside(a, b, k) /\ SoundIf(b, k)
          /\ k \in DOMAIN a.parties =>
               /\ Same(a, b, k) /\ b.parties[k].started = a.parties[k].started
               /\ s \in Live(a.parties[k]) => First(b, k) = Member(s)
      BY <2>4, <2>5, <3>1, RestoredAside
    <3>5. Aside(w, b, k)
      BY <2>7, <3>4, AsideTwice
    <3>6. ASSUME Ready(w, k)
          PROVE  AsItWas(w, b, k)
      <4>1. k \in DOMAIN a.parties /\ s \in Live(a.parties[k])
        BY <2>6, <3>6 DEF Same
      <4>2. Same(a, b, k) /\ b.parties[k].started = a.parties[k].started /\ First(b, k) = Member(s)
        BY <3>4, <4>1
      <4>3. First(b, k) = First(w, k)
        <5>1. First(v, k) = Member(s)
          BY <2>10 DEF Led, Leads, First
        <5> QED
          BY <2>6, <3>6, <4>2, <5>1 DEF AsItWas
      <4>4. Same(w, b, k)
        BY <2>7, <2>8, <3>6, <4>2, SameTwice
      <4>5. Ready(b, k)
        BY <2>8, <3>6, <4>2, FitsStill DEF Ready
      <4> QED
        BY <4>3, <4>4, <4>5 DEF AsItWas
    <3>7. Ret(w, b, k)
      BY <3>3, <3>4, <3>5, <3>6 DEF Ret
    <3> QED
      BY <3>2, <3>7
  <2> QED
    BY <2>9, <2>10
<1> QED
  BY <1>2, <1>3

\* Everybody of the party.
LEMMA RosterRet ==
  ASSUME NEW w, Good(w), NEW k \in Keys, SoundIf(w, k)
  PROVE  Ret(w, Followed(w, k), k) /\ Ret(w, Headed(w, k), k)
<1>1. PICK X : X = {v \in Worlds : Ret(w, v, k)}
  OBVIOUS
<1>2. PICK l : l = Roster(w, k)
  OBVIOUS
<1>3. Rostered(l, k)
  BY <1>2, RosterIs
<1>4. l \in Seq(Users) /\ \A i \in DOMAIN l : l[i] \in Users
  BY <1>3, ListIs DEF Rostered
<1>5. ASSUME NEW i \in DOMAIN l, l[i].live
      PROVE  l[i].id \in Live(w.parties[k]) /\ Loyal(w, l[i].id, k)
  <2>1. k \in DOMAIN w.parties
    BY <1>2, <1>5 DEF Roster
  <2>2. PICK q : q = w.parties[k]
    OBVIOUS
  <2>3. l = q.players
    BY <1>2, <2>1, <2>2 DEF Roster
  <2>4. l[i].id \in Live(q)
    BY <1>5, <2>3, LiveIs
  <2>5. OwnParty(w, l[i].id) = k
    BY <2>1, <2>2, <2>4 DEF SoundIf, Sound
  <2> QED
    BY <2>2, <2>4, <2>5 DEF OwnParty, Loyal
<1>6. w \in X
  <2>1. w \in Worlds
    BY DEF Good, Meets
  <2>2. Ret(w, w, k)
    BY AsideSelf DEF Ret, AsItWas, Ready, Fits
  <2> QED
    BY <1>1, <2>1, <2>2
<1>7. ASSUME NEW v \in X, NEW i \in DOMAIN l
      PROVE  Follower(v, k, l[i]) \in X /\ Leader(v, k, l[i]) \in X
  <2>1. Ret(w, v, k)
    BY <1>1
  <2>2. PICK e \in Users : e = l[i]
    BY <1>4
  <2>3. Ret(w, Follower(v, k, e), k) /\ Ret(w, Leader(v, k, e), k)
    BY <1>5, <2>1, <2>2, MemberRet
  <2>4. \A u : Ret(w, u, k) => u \in Worlds
    BY DEF Ret, Good, Meets
  <2> QED
    BY <1>1, <2>2, <2>3, <2>4
<1>8. Followed(w, k) \in X
  BY <1>2, <1>4, <1>6, <1>7, FollowedIn
<1>9. Headed(w, k) \in X
  BY <1>2, <1>4, <1>6, <1>7, HeadedIn
<1> QED
  BY <1>1, <1>8, <1>9

\* A party's return changes that party alone, and keeps it sound; one of its
\* size is as it was.
LEMMA ReturnPartyAside ==
  ASSUME NEW w, Good(w), NEW k \in Keys, SoundIf(w, k), NEW v, v = ReturnParty(w, k)
  PROVE  /\ Good(v) /\ Aside(w, v, k) /\ SoundIf(v, k)
         /\ Fits(w, k) => Same(w, v, k) /\ First(v, k) = First(w, k)
<1>1. PICK a : a = Waiting(w, k)
  OBVIOUS
<1>2. Good(a)
  BY <1>1, WaitingGood
<1>3. /\ Aside(w, a, k) /\ SoundIf(a, k)
      /\ Fits(w, k) => AsItWas(w, a, k)
  <2>1. CASE k \notin DOMAIN w.parties
    <3>1. a = w
      BY <1>1, <2>1 DEF Waiting
    <3> QED
      BY <2>1, <3>1, AsideSelf DEF Fits
  <2>2. CASE k \in DOMAIN w.parties
    <3>1. w \in Worlds
      BY DEF Good, Meets
    <3>2. PICK q \in PartyType : q = w.parties[k]
      BY <2>2, <3>1, PartyOf
    <3>3. PICK u : u = [q EXCEPT !.started = FALSE]
      OBVIOUS
    <3>4. u.players = q.players /\ u.max = q.max /\ ~u.started
      BY <3>3 DEF PartyType
    <3>5. PartyPut(w, a, k, u)
      BY <1>1, <2>2, <3>1, <3>2, <3>3 DEF Waiting, PartyPut, Worlds
    <3>6. /\ Aside(w, a, k) /\ k \in DOMAIN a.parties /\ a.parties[k] = u
          /\ a.party = w.party /\ a.matches = w.matches
      BY <2>2, <3>1, <3>5, PartyPutParts
    <3>7. Live(u) = Live(q) /\ (Whole(q) => Whole(u))
      BY <3>4 DEF Live, Whole
    <3>8. Sound(a, k)
      BY <2>2, <3>2, <3>6, <3>7 DEF SoundIf, Sound, OwnParty
    <3>9. Same(w, a, k) /\ First(a, k) = First(w, k)
      BY <3>2, <3>4, <3>6, <3>7 DEF Same, First
    <3>10. Fits(w, k) => Ready(a, k)
      BY <3>4, <3>6, <3>9, FitsStill DEF Ready
    <3> QED
      BY <3>6, <3>8, <3>9, <3>10 DEF SoundIf, AsItWas
  <2> QED
    BY <2>1, <2>2
<1>4. PICK b : b = Followed(a, k)
  OBVIOUS
<1>5. Ret(a, b, k)
  BY <1>2, <1>3, <1>4, RosterRet
<1>6. v = Headed(b, k)
  BY <1>1, <1>4 DEF ReturnParty
<1>7. Ret(b, v, k)
  BY <1>5, <1>6, RosterRet DEF Ret
<1>8. Ret(a, v, k)
  BY <1>5, <1>7, RetTwice
<1>9. Good(v) /\ Aside(w, v, k) /\ SoundIf(v, k)
  BY <1>3, <1>8, AsideTwice DEF Ret
<1>10. ASSUME Fits(w, k)
       PROVE  Same(w, v, k) /\ First(v, k) = First(w, k)
  <2>1. AsItWas(w, a, k)
    BY <1>3, <1>10
  <2>2. AsItWas(a, v, k)
    BY <1>8, <2>1 DEF Ret, AsItWas
  <2>3. DOMAIN a.matches = DOMAIN w.matches
    BY <1>3 DEF Aside
  <2> QED
    BY <2>1, <2>2, <2>3, SameTwice DEF AsItWas
<1> QED
  BY <1>9, <1>10

\* A side that is no party has nobody to return.
LEMMA ReturnNone ==
  ASSUME NEW w, NEW k, k \notin DOMAIN w.parties
  PROVE  ReturnParty(w, k) = w
<1>1. Waiting(w, k) = w
  BY DEF Waiting
<1>2. PICK l : l = Roster(w, k)
  OBVIOUS
<1>3. l \in Seq(Users) /\ DOMAIN l = {}
  BY <1>2 DEF Roster
<1>4. PICK X : X = {w}
  OBVIOUS
<1>5. Followed(w, k) \in X
  BY <1>2, <1>3, <1>4, FollowedIn
<1>6. Headed(w, k) \in X
  BY <1>2, <1>3, <1>4, HeadedIn
<1> QED
  BY <1>1, <1>4, <1>5, <1>6 DEF ReturnParty

Kept(w, v, k) == Same(w, v, k) /\ First(v, k) = First(w, k)

\* The return of either side keeps every sound party of its size.
LEMMA SideReturned ==
  ASSUME NEW w, Good(w), NEW k \in Side, SoundIf(w, k), NEW v, v = ReturnParty(w, k),
         NEW j \in Side, SoundIf(w, j)
  PROVE  /\ Good(v) /\ SoundIf(v, j) /\ DOMAIN v.matches = DOMAIN w.matches
         /\ Fits(w, j) => Kept(w, v, j)
<1>1. Good(v)
  BY ReturnPartyGood
<1>2. w \in Worlds /\ DOMAIN w.parties \subseteq Keys
  BY WorldsAre, TableIs DEF Good, Meets
<1>3. CASE k = NoParty
  <2>1. v = w
    BY <1>2, <1>3, ReturnNone, NoPartyAssumption DEF Keys
  <2> QED
    BY <1>1, <2>1, AsideSelf DEF Kept, Fits
<1>4. CASE k \in Keys
  <2>1. Aside(w, v, k) /\ SoundIf(v, k) /\ (Fits(w, k) => Kept(w, v, k))
    BY <1>4, ReturnPartyAside DEF Kept
  <2>2. DOMAIN v.matches = DOMAIN w.matches /\ DOMAIN v.parties \subseteq DOMAIN w.parties
    BY <2>1 DEF Aside
  <2>3. CASE j = k
    BY <1>1, <2>1, <2>2, <2>3
  <2>4. CASE j # k /\ j \in DOMAIN w.parties
    <3>1. Sound(w, j)
      BY <2>4 DEF SoundIf
    <3>2. Sound(v, j) /\ Same(w, v, j) /\ v.parties[j] = w.parties[j]
      BY <1>2, <1>4, <2>1, <2>4, <3>1, AsideSound
    <3> QED
      BY <1>1, <2>2, <3>2 DEF SoundIf, Kept, First
  <2>5. CASE j \notin DOMAIN w.parties
    BY <1>1, <2>2, <2>5 DEF SoundIf, Fits
  <2> QED
    BY <2>3, <2>4, <2>5
<1> QED
  BY <1>3, <1>4 DEF Side

\* The end of the match: its sides stay as they are, with no match.
LEMMA MatchEnded ==
  ASSUME NEW w, Good(w), NEW r \in DOMAIN w.matches, NEW k \in DOMAIN w.parties,
         k = w.matches[r][1] \/ k = w.matches[r][2], NEW v, v = RemoveMatch(w, r, FALSE)
  PROVE  k \in DOMAIN v.parties /\ v.parties[k].players = w.parties[k].players
         /\ v.parties[k].match = 0
<1>1. PICK k1 : k1 = w.matches[r][1]
  OBVIOUS
<1>2. PICK k2 : k2 = w.matches[r][2]
  OBVIOUS
<1>3. w \in Worlds /\ Met(w.parties, w.party, w.matches, {})
  BY DEF Good, Meets
<1>4. Meets(w, {r})
  BY <1>3 DEF Met, Meets
<1>5. Apart(w, k1, {r}) /\ Apart(w, k2, {r})
  BY <1>1, <1>2, <1>3 DEF Met, Apart
<1>6. k1 \in Side /\ k2 \in Side /\ 0 \in 0 .. MaxNumber
  BY <1>1, <1>2, <1>3, SidesAre, MaxNumberAssumption
<1>7. PICK a : a = SetMatch(w, k1, 0)
  OBVIOUS
<1>8. Meets(a, {r}) /\ MatchSet(w, a, k1, 0)
  BY <1>4, <1>5, <1>6, <1>7, SetMatchSets
<1>9. PICK c : c = SetMatch(a, k2, 0)
  OBVIOUS
<1>10. c \in Worlds /\ MatchSet(a, c, k2, 0)
  <2>1. Apart(a, k2, {r})
    BY <1>5, <1>8 DEF Apart, MatchSet
  <2> QED
    BY <1>6, <1>8, <1>9, <2>1, SetMatchSets DEF Meets
<1>11. k = k1 \/ k = k2
  BY <1>1, <1>2
<1>12. k \in DOMAIN c.parties /\ c.parties[k].players = w.parties[k].players /\ c.parties[k].match = 0
  <2>1. k \in DOMAIN a.parties /\ a.parties[k].players = w.parties[k].players
        /\ (k = k1 => a.parties[k].match = 0)
    BY <1>8 DEF MatchSet
  <2>2. k \in DOMAIN c.parties /\ c.parties[k].players = w.parties[k].players
        /\ (k = k2 => c.parties[k].match = 0)
        /\ (k # k2 => c.parties[k].match = a.parties[k].match)
    BY <1>10, <2>1 DEF MatchSet
  <2> QED
    BY <1>11, <2>1, <2>2
<1>13. PICK ms : ms = R!Without(c.matches, {r})
  OBVIOUS
<1>14. v = [c EXCEPT !.matches = ms]
  BY <1>1, <1>2, <1>7, <1>9, <1>13 DEF RemoveMatch
<1>15. v.parties = c.parties
  BY <1>10, <1>14 DEF Worlds
<1> QED
  BY <1>12, <1>15

LEMMA WholeNames ==
  ASSUME NEW q, Whole(q)
  PROVE  Names(q) = Live(q)
BY DEF Whole, Names, Live

\* The match's room goes first, which the parties do not see.
LEMMA SidesSound ==
  ASSUME Good(World), NEW r \in DOMAIN matches, NEW i \in 1 .. 2,
         matches[r][i] # NoParty => Sound(World, matches[r][i]),
         NEW w, w.parties = parties, w.party = party, w.matches = matches
  PROVE  /\ matches[r][i] \in Side /\ SoundIf(w, matches[r][i])
         /\ matches[r][i] # NoParty => matches[r][i] \in DOMAIN parties /\ Sound(w, matches[r][i])
<1>1. World \in Worlds /\ Met(parties, party, matches, {})
  BY WorldIs DEF Good, Meets
<1>2. PICK k : k = matches[r][i]
  OBVIOUS
<1>3. k \in Side /\ DOMAIN parties \subseteq Keys
  <2>1. parties \in Tables(Keys, PartyType) /\ matches \in Tables(Numbers, Side \X Side)
    BY <1>1, WorldIs
  <2>2. matches \in [DOMAIN matches -> Side \X Side] /\ DOMAIN parties \subseteq Keys
    BY <2>1, TableIs
  <2> QED
    BY <1>2, <2>2
<1>4. CASE k = NoParty
  <2>1. k \notin DOMAIN parties
    BY <1>3, <1>4, NoPartyAssumption DEF Keys
  <2> QED
    BY <1>2, <1>3, <1>4, <2>1 DEF SoundIf
<1>5. CASE k # NoParty
  <2>1. k \in DOMAIN parties
    BY <1>1, <1>2, <1>5 DEF Met
  <2>2. Sound(World, k)
    BY <1>2, <1>5
  <2>3. Sound(w, k)
    BY <2>2, WorldIs DEF Sound, OwnParty
  <2> QED
    BY <1>2, <1>3, <2>1, <2>3 DEF SoundIf
<1> QED
  BY <1>4, <1>5

\* Two sound parties return from a clan room with the members and the leaders
\* they had, and with no match, provided that each has its size: nobody of
\* them is left behind when all of them leave and join again.
THEOREM ReturnAlways == PartiesSpec => ReturnKeepsParties
<1> DEFINE Return ==
      \A s \in online : matches' # matches /\ LeaveClanRoom(s) =>
        LET sides == {matches[number[s]][i] : i \in 1 .. 2} \ {NoParty}
        IN  (\A k \in sides : Sound(World, k)) =>
              \A k \in sides : Len(parties[k].players) \in 2 .. parties[k].max =>
                /\ k \in DOMAIN parties'
                /\ Names(parties'[k]) = Names(parties[k])
                /\ parties'[k].players[1] = parties[k].players[1]
                /\ parties'[k].match = 0
<1>1. PartiesInv /\ [PartiesNext]_partiesVars => Return
  <2>1. SUFFICES ASSUME PartiesInv, NEW s \in online, LeaveClanRoom(s), NEW r, r = number[s],
                        \A i \in 1 .. 2 : matches[r][i] # NoParty => Sound(World, matches[r][i]),
                        NEW h \in 1 .. 2, NEW k, k = matches[r][h], k # NoParty,
                        Len(parties[k].players) \in 2 .. parties[k].max
                 PROVE  /\ k \in DOMAIN parties'
                        /\ Names(parties'[k]) = Names(parties[k])
                        /\ parties'[k].players[1] = parties[k].players[1]
                        /\ parties'[k].match = 0
    OBVIOUS
  <2>2. PICK w : w = IF r \in DOMAIN rooms THEN R!RemoveRoom(World, r) ELSE World
    OBVIOUS
  <2>3. PICK u : u = ReturnParty(w, matches[r][1])
    OBVIOUS
  <2>4. PICK v : v = ReturnParty(u, matches[r][2])
    OBVIOUS
  <2>5. PICK x : x = IF r \in DOMAIN v.matches THEN RemoveMatch(v, r, FALSE) ELSE v
    OBVIOUS
  <2>6. r \in DOMAIN matches /\ parties' = x.parties
    BY <2>1, <2>2, <2>3, <2>4, <2>5 DEF LeaveClanRoom, Become
  <2>7. Good(World)
    BY <2>1 DEF PartiesInv
  <2>8. Good(w) /\ w.parties = parties /\ w.party = party /\ w.matches = matches
    <3>1. World \in Worlds /\ World.rooms = rooms /\ World.parties = parties /\ World.party = party
          /\ World.matches = matches
      BY <2>7, WorldIs DEF Good, Meets
    <3>2. CASE r \in DOMAIN rooms
      <4>1. RoomsOnly(World, w)
        BY <2>2, <3>1, <3>2, RemoveRoomRooms
      <4>2. Good(w)
        BY <2>7, <4>1, RoomsOnlyGood
      <4> QED
        BY <3>1, <4>1, <4>2 DEF RoomsOnly
    <3>3. CASE r \notin DOMAIN rooms
      BY <2>2, <2>7, <3>1, <3>3
    <3> QED
      BY <3>2, <3>3
  <2>9. PICK k1 : k1 = matches[r][1]
    OBVIOUS
  <2>10. PICK k2 : k2 = matches[r][2]
    OBVIOUS
  <2>11. \A i \in 1 .. 2 : matches[r][i] \in Side /\ SoundIf(w, matches[r][i])
    BY <2>1, <2>6, <2>7, <2>8, SidesSound
  <2>12. k \in DOMAIN parties /\ Sound(w, k)
    BY <2>1, <2>6, <2>7, <2>8, SidesSound
  <2>13. k1 \in Side /\ SoundIf(w, k1) /\ k2 \in Side /\ SoundIf(w, k2) /\ k \in Side /\ SoundIf(w, k)
    BY <2>1, <2>9, <2>10, <2>11
  <2>14. Fits(w, k)
    BY <2>1, <2>8, <2>12 DEF Fits
  <2>15. /\ Good(u) /\ SoundIf(u, k) /\ SoundIf(u, k2)
         /\ Kept(w, u, k) /\ DOMAIN u.matches = DOMAIN w.matches
    <3>1. u = ReturnParty(w, k1)
      BY <2>3, <2>9
    <3>2. Good(u) /\ SoundIf(u, k) /\ Kept(w, u, k) /\ DOMAIN u.matches = DOMAIN w.matches
      BY <2>8, <2>13, <2>14, <3>1, SideReturned
    <3>3. SoundIf(u, k2)
      BY <2>8, <2>13, <3>1, SideReturned
    <3> QED
      BY <3>2, <3>3
  <2>16. Good(v) /\ SoundIf(v, k) /\ Kept(u, v, k) /\ DOMAIN v.matches = DOMAIN u.matches
    <3>1. Fits(u, k)
      BY <2>14, <2>15, FitsStill DEF Kept
    <3>2. v = ReturnParty(u, k2)
      BY <2>4, <2>10
    <3> QED
      BY <2>13, <2>15, <3>1, <3>2, SideReturned
  <2>17. Same(w, v, k) /\ First(v, k) = First(w, k)
    BY <2>15, <2>16, SameTwice DEF Kept
  <2>18. k \in DOMAIN v.parties /\ r \in DOMAIN v.matches /\ v.matches[r][h] = k
    <3>1. r \in DOMAIN w.matches /\ w.matches[r][h] = k
      BY <2>1, <2>6, <2>8
    <3>2. k \in DOMAIN v.parties
      BY <2>17 DEF Same
    <3>3. \A n \in DOMAIN w.matches : \A i \in 1 .. 2 : w.matches[n][i] = k => v.matches[n][i] = k
      BY <2>17 DEF Same
    <3>4. v.matches[r][h] = k
      BY <3>1, <3>3
    <3>5. DOMAIN v.matches = DOMAIN w.matches
      BY <2>15, <2>16
    <3> QED
      BY <3>1, <3>2, <3>4, <3>5
  <2>19. x = RemoveMatch(v, r, FALSE)
    BY <2>5, <2>18
  <2>20. /\ k \in DOMAIN x.parties /\ x.parties[k].players = v.parties[k].players
         /\ x.parties[k].match = 0
    <3>1. Good(v) /\ r \in DOMAIN v.matches /\ k \in DOMAIN v.parties
      BY <2>16, <2>18
    <3>2. k = v.matches[r][1] \/ k = v.matches[r][2]
      BY <2>18
    <3> QED
      BY <2>19, <3>1, <3>2, MatchEnded
  <2>21. Names(v.parties[k]) = Names(parties[k])
    <3>1. Whole(v.parties[k]) /\ Whole(w.parties[k])
      BY <2>12, <2>16, <2>18 DEF SoundIf, Sound
    <3>2. Live(v.parties[k]) = Live(w.parties[k])
      BY <2>17 DEF Same
    <3> QED
      BY <2>8, <3>1, <3>2, WholeNames
  <2>22. Names(x.parties[k]) = Names(v.parties[k])
    BY <2>20 DEF Names
  <2>23. x.parties[k].players[1] = parties[k].players[1]
    BY <2>8, <2>17, <2>20 DEF First
  <2> QED
    BY <2>6, <2>20, <2>21, <2>22, <2>23
<1>2. PartiesInv /\ [PartiesNext]_partiesVars => [Return]_partiesVars
  BY <1>1
<1> QED
  BY <1>2, PartiesInvAlways, PTL DEF PartiesSpec, ReturnKeepsParties


-----------------------------------------------------------------------------
(* A departure.                                                             *)

LEMMA ShrunkGhosts ==
  ASSUME NEW ps, NEW qs, NEW s, Shrunk(ps, qs)
  PROVE  Ghosts(qs, s) \subseteq Ghosts(ps, s)
<1>1. SUFFICES ASSUME NEW k \in Ghosts(qs, s)
               PROVE  k \in Ghosts(ps, s)
  OBVIOUS
<1>2. PICK i \in DOMAIN qs[k].players : qs[k].players[i] = [id |-> s, live |-> FALSE]
  BY DEF Ghosts
<1>3. k \in DOMAIN qs
  BY DEF Ghosts
<1>4. PICK j \in DOMAIN ps[k].players : qs[k].players[i] = ps[k].players[j]
  BY <1>3 DEF Shrunk
<1>5. k \in DOMAIN ps
  BY <1>3 DEF Shrunk
<1> QED
  BY <1>2, <1>4, <1>5 DEF Ghosts

\* A dead entry that the session's end leaves was one before, or a live one.
LEMMA DeadMemberGhost ==
  ASSUME NEW q \in PartyType, NEW s, s \notin Live(q), NEW u, u = DeadMember(q, s),
         NEW i \in DOMAIN u.players
  PROVE  i \in DOMAIN q.players /\ u.players[i] = q.players[i]
<1>1. PICK l \in Seq(Users) : l = q.players
  BY PartyIs
<1>2. PICK t : t = [h \in DOMAIN l |-> IF l[h].id = s THEN [l[h] EXCEPT !.live = FALSE] ELSE l[h]]
  OBVIOUS
<1>3. u = [q EXCEPT !.players = t]
  BY <1>1, <1>2 DEF DeadMember
<1>4. u.players = t
  BY <1>3 DEF PartyType, Users
<1>5. i \in DOMAIN l /\ l[i] \in Users /\ ~(l[i].live /\ l[i].id = s)
  BY <1>1, <1>2, <1>4, ListIs, LiveIs
<1>6. PICK e \in Users : e = l[i]
  BY <1>5
<1>7. t[i] = IF e.id = s THEN [e EXCEPT !.live = FALSE] ELSE e
  BY <1>2, <1>5, <1>6
<1>8. e.id = s => [e EXCEPT !.live = FALSE] = e
  <2>1. e.id = s => e.live = FALSE
    BY <1>5, <1>6 DEF Users
  <2> QED
    BY <2>1 DEF Users
<1> QED
  BY <1>1, <1>4, <1>5, <1>6, <1>7, <1>8

LEMMA DepartedGhosts ==
  ASSUME NEW w, Good(w), NEW s \in Sessions, Absent(w, s)
  PROVE  Shrunk(w.parties, Departed(w, s).parties)
<1>1. w \in Worlds
  BY DEF Good, Meets
<1>2. PICK ps : ps = Departed(w, s).parties
  OBVIOUS
<1>3. ps = [k \in DOMAIN w.parties |-> DeadMember(w.parties[k], s)]
  BY <1>2, DepartedGood
<1>4. ASSUME NEW k \in DOMAIN ps, NEW i \in DOMAIN ps[k].players
      PROVE  \E j \in DOMAIN w.parties[k].players : ps[k].players[i] = w.parties[k].players[j]
  <2>1. k \in DOMAIN w.parties
    BY <1>3
  <2>2. PICK q \in PartyType : q = w.parties[k]
    BY <1>1, <2>1, PartyOf
  <2>3. PICK u : u = DeadMember(q, s)
    OBVIOUS
  <2>4. ps[k] = u /\ s \notin Live(q)
    BY <1>3, <2>1, <2>2, <2>3 DEF Absent
  <2>5. i \in DOMAIN q.players /\ u.players[i] = q.players[i]
    BY <1>4, <2>3, <2>4, DeadMemberGhost
  <2> QED
    BY <2>2, <2>4, <2>5
<1>5. DOMAIN ps = DOMAIN w.parties
  BY <1>3
<1> QED
  BY <1>2, <1>4, <1>5 DEF Shrunk

\* Only the session's own end takes it offline.
LEMMA OnlineGone ==
  ASSUME [PartiesNext]_partiesVars, NEW s \in online \ online', s \in Sessions
  PROVE  Disconnect(s)
<1>1. ~UNCHANGED partiesVars
  BY DEF partiesVars
<1>2. ~(InRoom /\ UNCHANGED <<parties, party, matches>>)
  <2>1. R!ListRooms => UNCHANGED online
    BY DEF R!ListRooms
  <2>2. \A x \in Sessions : R!Connect(x) => online \subseteq online'
    BY DEF R!Connect
  <2>3. \A x, p \in Sessions : R!KickPlayer(x, p) => UNCHANGED online
    BY DEF R!KickPlayer
  <2>4. \A x \in Sessions : R!JoinMatch(x) => UNCHANGED online
    BY DEF R!JoinMatch
  <2>5. \A x \in Sessions, i \in 1 .. PlayersPerRoom : R!ChangeHost(x, i) => UNCHANGED online
    BY DEF R!ChangeHost
  <2> QED
    BY <2>1, <2>2, <2>3, <2>4, <2>5 DEF InRoom
<1>3. \A x \in Sessions : ~CreateParty(x) /\ ~Register(x) /\ ~LeaveParty(x) /\ ~LeaveRoom(x) /\ ~LeaveMatch(x)
  BY DEF CreateParty, Register, LeaveParty, LeaveRoom, LeaveMatch, InPartyOnly, roomVars
<1>4. \A x \in Sessions, k \in Keys : ~JoinParty(x, k) /\ ~Challenge(x, k)
  BY DEF JoinParty, Challenge
<1>5. \A x \in Sessions : (\A n \in Sizes : ~SetSize(x, n)) /\ \A i : ~ChangeLeader(x, i)
  BY DEF SetSize, ChangeLeader, InPartyOnly, roomVars
<1>6. \A x \in Sessions : ~StartMatch(x) /\ ~EndMatch(x) /\ ~LeaveClanRoom(x)
  BY DEF StartMatch, EndMatch, LeaveClanRoom, R!StartMatch, R!EndMatch
<1>7. PICK x \in Sessions : Disconnect(x)
  BY <1>1, <1>2, <1>3, <1>4, <1>5, <1>6 DEF PartiesNext
<1>8. online' = online \ {x}
  BY <1>7 DEF Disconnect
<1> QED
  BY <1>7, <1>8

\* A session that ends, and is live at most in its own party, where nobody is
\* dead, leaves no dead entry behind: removeSession takes it out of the party by
\* whichever of match, room and party it is in.
THEOREM DepartureAlways == PartiesSpec => DepartureLeavesParty
<1> DEFINE Departure ==
      \A s \in online \ online' :
        (\A k \in Listed(s) : k = OwnParty(World, s) /\ Whole(parties[k]))
          => Ghosts(parties', s) \subseteq Ghosts(parties, s)
<1>1. PartiesInv /\ [PartiesNext]_partiesVars => Departure
  <2>1. SUFFICES ASSUME PartiesInv, [PartiesNext]_partiesVars, NEW s \in online \ online',
                        \A k \in Listed(s) : k = OwnParty(World, s) /\ Whole(parties[k])
                 PROVE  Ghosts(parties', s) \subseteq Ghosts(parties, s)
    OBVIOUS
  <2>2. s \in Sessions /\ Good(World)
    BY <2>1 DEF PartiesInv
  <2>3. Disconnect(s)
    BY <2>1, <2>2, OnlineGone
  <2>4. PICK w \in Out(World, s) : Become(Departed(w, s))
    BY <2>3 DEF Disconnect
  <2>5. Good(w) /\ Parts(World, w, s)
    BY <2>2, <2>4, OutGood
  <2>6. Alone(World, s)
    BY <2>1, WorldIs DEF Alone, Listed
  <2>7. Shrunk(parties, w.parties) /\ Absent(w, s)
    BY <2>5, <2>6, WorldIs DEF Parts
  <2>8. parties' = Departed(w, s).parties
    BY <2>4 DEF Become
  <2>9. Shrunk(w.parties, parties')
    BY <2>2, <2>5, <2>7, <2>8, DepartedGhosts
  <2> QED
    BY <2>7, <2>9, ShrunkGhosts
<1>2. PartiesInv /\ [PartiesNext]_partiesVars => [Departure]_partiesVars
  BY <1>1
<1> QED
  BY <1>2, PartiesInvAlways, PTL DEF PartiesSpec, DepartureLeavesParty
=============================================================================
