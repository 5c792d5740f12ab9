----------------------- MODULE AccountsAndTrade_proofs -----------------------
(* Proofs about Accounts, for any accounts, limits and number of keys, and  *)
(* about Trade, for any players, items, space and size of an offer.         *)
EXTENDS Accounts, Trade, FiniteSetTheorems, SequenceTheorems, WellFoundedInduction, TLAPS

Counters == [password : 0 .. MaxFailed, token : 0 .. MaxFailed]

\* Neither "no session" nor "no request" is a value that a step stores.
LEMMA SessionsAreNotOffline == Offline \notin Sessions
BY OfflineAssumption, LimitsAssumption DEF Sessions, Grades

LEMMA RequestsAreNotIdle == Idle \notin Logins /\ Idle \notin Entries
<1>1. Idle \notin Logins
  BY IdleAssumption DEF Logins, Grades
<1>2. Idle \notin Entries
  BY IdleAssumption, LimitsAssumption DEF Entries, Grades
<1> QED
  BY <1>1, <1>2

-----------------------------------------------------------------------------
(* Typing.                                                                 *)

LEMMA RowFields ==
  ASSUME row \in [Accounts -> Rows], NEW a \in Accounts
  PROVE  /\ row[a].key \in 0 .. MaxKeys /\ row[a].recent \in BOOLEAN
         /\ row[a].suspended \in BOOLEAN /\ row[a].grade \in Grades
         /\ row[a].limits \in SUBSET Kinds
BY DEF Rows

\* The columns of a row may be written one by one.
LEMMA ColumnsKeepRows ==
  ASSUME NEW rows \in [Accounts -> Rows], NEW a \in Accounts
  PROVE  /\ \A k \in 0 .. MaxKeys : [rows EXCEPT ![a].key = k] \in [Accounts -> Rows]
         /\ \A b \in BOOLEAN : [rows EXCEPT ![a].recent = b] \in [Accounts -> Rows]
         /\ \A b \in BOOLEAN : [rows EXCEPT ![a].suspended = b] \in [Accounts -> Rows]
         /\ \A g \in Grades : [rows EXCEPT ![a].grade = g] \in [Accounts -> Rows]
         /\ \A l \in SUBSET Kinds : [rows EXCEPT ![a].limits = l] \in [Accounts -> Rows]
BY DEF Rows

LEMMA StoredKeepsRows ==
  ASSUME NEW rows \in [Accounts -> Rows], NEW a \in Accounts, NEW k \in 0 .. MaxKeys
  PROVE  Stored(rows, a, k) \subseteq [Accounts -> Rows]
BY ColumnsKeepRows DEF Stored

LEMMA SuspendedKeepsRows ==
  ASSUME row \in [Accounts -> Rows], NEW a \in Accounts, NEW g
  PROVE  Suspended(a, g) \in [Accounts -> Rows]
<1>1. (row[a].suspended \/ row[a].grade < g) \in BOOLEAN
  BY RowFields
<1> QED
  BY <1>1, ColumnsKeepRows DEF Suspended

LEMMA RemovesKeepsType ==
  ASSUME TypeOK, NEW A \in SUBSET Accounts, Removes(A)
  PROVE  /\ session' \in [Accounts -> Sessions \cup {Offline}]
         /\ late' \subseteq Accounts /\ missed' \subseteq Accounts \X Kinds
BY DEF Removes, TypeOK

LEMMA CountersKeepType ==
  ASSUME TypeOK, NEW a \in Accounts, NEW p \in BOOLEAN, NEW t \in BOOLEAN
  PROVE  NoFailures \in Counters /\ Counted(a, p, t) \in Counters
<1>1. MaxFailed \in Nat \ {0} /\ failed[a] \in Counters
  BY LimitsAssumption DEF TypeOK, Counters
<1>2. \A n \in 0 .. MaxFailed : Up(n) \in 0 .. MaxFailed
  BY <1>1 DEF Up
<1> QED
  BY <1>1, <1>2 DEF Counters, NoFailures, Counted

\* Auth's answer to a login.
LEMMA AnswersTyped ==
  ASSUME TypeOK, LoginAnswers
  PROVE  TypeOK'
<1>1. PICK p \in BOOLEAN, t \in BOOLEAN :
        \/ LoginLocks(login.account, p, t)
        \/ LoginFails(login.account, p, t)
        \/ LoginSucceeds(login.account, p, t)
  BY DEF LoginAnswers
<1>2. login # Idle /\ login' = Idle /\ UNCHANGED <<entry, session, admitted, missed>>
  BY DEF LoginAnswers
<1> DEFINE a == login.account
<1>3. a \in Accounts /\ MaxKeys \in Nat
  BY <1>2, LimitsAssumption DEF TypeOK, Logins
<1>4. NoFailures \in Counters /\ Counted(a, p, t) \in Counters
  BY <1>3, CountersKeepType
<1>5. failed \in [Accounts -> Counters] /\ row \in [Accounts -> Rows]
  BY DEF TypeOK, Counters
<1> HIDE DEF a
<1>6. CASE LoginLocks(a, p, t)
  <2>1. row' \in [Accounts -> Rows]
    <3>1. [row EXCEPT ![a].suspended = TRUE, ![a].grade = Normal] \in [Accounts -> Rows]
      BY <1>3, <1>5 DEF Rows, Grades
    <3>2. 0 \in 0 .. MaxKeys
      BY <1>3
    <3>3. CASE Locks(a)
      BY <1>3, <3>1, <3>2, <3>3, StoredKeepsRows DEF Locks
    <3>4. CASE Refuses(a)
      BY <1>3, <1>5, <3>2, <3>4, StoredKeepsRows DEF Refuses
    <3> QED
      BY <1>6, <3>3, <3>4 DEF LoginLocks
  <2>2. failed' \in [Accounts -> Counters]
    BY <1>4, <1>5, <1>6 DEF LoginLocks
  <2>3. late' \subseteq Accounts
    BY <1>3, <1>6 DEF LoginLocks, Locks, TypeOK
  <2> QED
    BY <1>2, <1>6, <2>1, <2>2, <2>3 DEF LoginLocks, TypeOK, Counters
<1>7. CASE LoginFails(a, p, t)
  <2>1. row' \in [Accounts -> Rows]
    BY <1>3, <1>5, <1>7, StoredKeepsRows DEF LoginFails, Refuses
  <2>2. failed' \in [Accounts -> Counters]
    BY <1>4, <1>5, <1>7 DEF LoginFails
  <2> QED
    BY <1>2, <1>7, <2>1, <2>2 DEF LoginFails, TypeOK, Counters
<1>8. CASE LoginSucceeds(a, p, t)
  <2>1. issued \in 0 .. MaxKeys /\ issued + 1 \in 0 .. MaxKeys /\ issued' = issued + 1
    BY <1>3, <1>8 DEF LoginSucceeds, TypeOK
  <2>2. row' \in [Accounts -> Rows]
    <3>1. [row EXCEPT ![a].recent = TRUE] \in [Accounts -> Rows]
      BY <1>3, <1>5, ColumnsKeepRows
    <3>2. PICK k \in {issued + 1, 0} : \/ row' \in Stored([row EXCEPT ![a].recent = TRUE], a, k)
                                      \/ row' \in Stored(row, a, k)
      BY <1>8 DEF LoginSucceeds
    <3>3. k \in 0 .. MaxKeys
      BY <1>3, <2>1
    <3> QED
      BY <1>3, <1>5, <3>1, <3>2, <3>3, StoredKeepsRows
  <2>3. failed' \in [Accounts -> Counters]
    BY <1>4, <1>5, <1>8 DEF LoginSucceeds
  <2>4. 1 .. issued \subseteq 1 .. issued' /\ issued + 1 \in 1 .. issued'
    BY <2>1
  <2>5. held' \in [Accounts -> SUBSET (1 .. issued')]
    <3>1. held \in [Accounts -> SUBSET (1 .. issued)]
      BY DEF TypeOK
    <3>2. held' = held \/ \E k \in {issued + 1, 0} :
                            held' = [held EXCEPT ![a] = @ \cup ({k} \ {0})]
      BY <1>8 DEF LoginSucceeds
    <3>3. \A k \in {issued + 1, 0} : ({k} \ {0}) \subseteq 1 .. issued'
      BY <2>4
    <3> QED
      BY <1>3, <2>4, <3>1, <3>2, <3>3
  <2>6. clean' \subseteq Accounts
    BY <1>3, <1>8 DEF LoginSucceeds, TypeOK
  <2> QED
    BY <1>2, <1>8, <2>1, <2>2, <2>3, <2>5, <2>6 DEF LoginSucceeds, TypeOK, Counters
<1> QED
  BY <1>1, <1>6, <1>7, <1>8 DEF a

\* Main's decision over an authorisation.
LEMMA DecidesTyped ==
  ASSUME TypeOK, EntryDecides
  PROVE  TypeOK'
<1>1. entry \in Entries /\ entry' = Idle
  BY DEF EntryDecides, TypeOK
<1> DEFINE a == entry.account
<1>2. a \in Accounts /\ entry.grade \in Grades /\ entry.shown \in 0 .. MaxKeys
  BY <1>1 DEF Entries
<1>3. UNCHANGED <<row, auth, clean>>
  BY DEF EntryDecides
<1>4. Admits(a) \/ UNCHANGED <<session, admitted, late, missed>>
  BY DEF EntryDecides
<1>5. CASE UNCHANGED <<session, admitted, late, missed>>
  BY <1>1, <1>3, <1>5 DEF TypeOK, auth
<1>6. CASE Admits(a)
  <2> HIDE DEF a
  <2>1. PICK lost \in SUBSET row[a].limits :
          /\ session' = [session EXCEPT ![a] =
               [grade |-> entry.grade, limits |-> LimitsRead(a, lost), tries |-> 0]]
          /\ admitted' = [k \in 1 .. MaxKeys |->
                            admitted[k] + (IF k = entry.shown THEN 1 ELSE 0)]
          /\ late' = IF row[a].suspended /\ a \in clean THEN late \cup {a} ELSE late \ {a}
          /\ missed' = (missed \ ({a} \X Kinds)) \cup ({a} \X lost)
    BY <1>6 DEF Admits
  <2>2. row[a].limits \in SUBSET Kinds
    BY <1>2, RowFields DEF TypeOK
  <2>3. 0 \in 0 .. MaxTries - 1
    BY LimitsAssumption
  <2>4. [grade |-> entry.grade, limits |-> LimitsRead(a, lost), tries |-> 0] \in Sessions
    BY <1>2, <2>2, <2>3 DEF Sessions, LimitsRead
  <2>5. session' \in [Accounts -> Sessions \cup {Offline}]
    BY <1>2, <2>1, <2>4 DEF TypeOK
  <2>6. admitted' \in [1 .. MaxKeys -> Nat]
    BY <1>2, <2>1 DEF TypeOK
  <2>7. late' \subseteq Accounts /\ missed' \subseteq Accounts \X Kinds
    BY <1>2, <2>1, <2>2 DEF TypeOK
  <2> QED
    BY <1>1, <1>3, <2>5, <2>6, <2>7 DEF TypeOK, auth
<1> QED
  BY <1>4, <1>5, <1>6

\* A session that is online has its fields, and keeps its type when one of
\* them is written.
LEMMA SessionFields ==
  ASSUME TypeOK, NEW a \in Accounts, Online(a)
  PROVE  /\ session[a] \in Sessions
         /\ \A g \in Grades : [session EXCEPT ![a].grade = g]
                                \in [Accounts -> Sessions \cup {Offline}]
         /\ \A l \in SUBSET Kinds : [session EXCEPT ![a].limits = l]
                                \in [Accounts -> Sessions \cup {Offline}]
         /\ \A n \in 0 .. MaxTries - 1 : [session EXCEPT ![a].tries = n]
                                \in [Accounts -> Sessions \cup {Offline}]
<1>1. session[a] \in Sessions /\ session \in [Accounts -> Sessions \cup {Offline}]
  BY DEF TypeOK, Online
<1>2. \A g \in Grades : [session[a] EXCEPT !.grade = g] \in Sessions
  BY <1>1 DEF Sessions
<1>3. \A l \in SUBSET Kinds : [session[a] EXCEPT !.limits = l] \in Sessions
  BY <1>1 DEF Sessions
<1>4. \A n \in 0 .. MaxTries - 1 : [session[a] EXCEPT !.tries = n] \in Sessions
  BY <1>1 DEF Sessions
<1> QED
  BY <1>1, <1>2, <1>3, <1>4

\* The commands, one per disjunct.
LEMMA BanTyped ==
  ASSUME TypeOK, NEW a \in Accounts, NEW g \in Staff, Ban(a, g)
  PROVE  TypeOK'
<1>1. row' \in [Accounts -> Rows]
  BY SuspendedKeepsRows DEF Ban, TypeOK
<1>2. /\ session' \in [Accounts -> Sessions \cup {Offline}]
      /\ late' \subseteq Accounts /\ missed' \subseteq Accounts \X Kinds
  BY RemovesKeepsType DEF Ban, TypeOK
<1> QED
  BY <1>1, <1>2 DEF Ban, auth, TypeOK

LEMMA LimitTyped ==
  ASSUME TypeOK, NEW a \in Accounts, NEW kind \in Kinds, NEW g \in Staff, Limit(a, kind, g)
  PROVE  TypeOK'
<1>1. row[a].limits \cup {kind} \in SUBSET Kinds
  BY RowFields DEF TypeOK
<1>2. row' \in [Accounts -> Rows]
  <2>1. row' = [row EXCEPT ![a].limits = row[a].limits \cup {kind}]
    BY DEF Limit, RowLimited
  <2> QED
    BY <1>1, <2>1, ColumnsKeepRows DEF TypeOK
<1>3. session' \in [Accounts -> Sessions \cup {Offline}]
  <2>1. CASE Online(a)
    <3>1. session[a].limits \cup {kind} \in SUBSET Kinds
      BY <2>1, SessionFields DEF Sessions
    <3>2. session' = [session EXCEPT ![a].limits = session[a].limits \cup {kind}]
      BY <2>1 DEF Limit
    <3> QED
      BY <2>1, <3>1, <3>2, SessionFields
  <2>2. CASE ~Online(a)
    BY <2>2 DEF Limit, TypeOK
  <2> QED
    BY <2>1, <2>2
<1>4. missed' \subseteq Accounts \X Kinds
  BY DEF Limit, TypeOK
<1> QED
  BY <1>2, <1>3, <1>4 DEF Limit, auth, TypeOK

LEMMA LiftTyped ==
  ASSUME TypeOK, NEW a \in Accounts, NEW kind \in Kinds, Lift(a, kind)
  PROVE  TypeOK'
<1>1. row[a].limits \ {kind} \in SUBSET Kinds
  BY RowFields DEF TypeOK
<1>2. row' \in [Accounts -> Rows]
  <2>1. row' = row \/ row' = [row EXCEPT ![a].limits = row[a].limits \ {kind}]
    BY DEF Lift
  <2>2. row \in [Accounts -> Rows]
    BY DEF TypeOK
  <2>3. [row EXCEPT ![a].limits = row[a].limits \ {kind}] \in [Accounts -> Rows]
    BY <1>1, <2>2, ColumnsKeepRows
  <2> QED
    BY <2>1, <2>2, <2>3
<1>3. session' \in [Accounts -> Sessions \cup {Offline}]
  <2>1. CASE Online(a)
    <3>1. session[a].limits \ {kind} \in SUBSET Kinds
      BY <2>1, SessionFields DEF Sessions
    <3>2. session' = [session EXCEPT ![a].limits = session[a].limits \ {kind}]
      BY <2>1 DEF Lift
    <3> QED
      BY <2>1, <3>1, <3>2, SessionFields
  <2>2. CASE ~Online(a)
    BY <2>2 DEF Lift, TypeOK
  <2> QED
    BY <2>1, <2>2
<1>4. missed' \subseteq Accounts \X Kinds
  BY DEF Lift, TypeOK
<1> QED
  BY <1>2, <1>3, <1>4 DEF Lift, auth, TypeOK

LEMMA TypeStep ==
  ASSUME TypeOK, [Next]_vars
  PROVE  TypeOK'
<1> USE DEF auth, history
<1>1. ASSUME NEW a \in Accounts, LoginReads(a)
      PROVE  TypeOK'
  <2>1. login' \in Logins
    BY <1>1, RowFields DEF LoginReads, TypeOK, Logins
  <2> QED
    BY <1>1, <2>1 DEF LoginReads, TypeOK
<1>2. ASSUME NEW a \in Accounts, NEW k \in held[a] \cup {0}, EntryReads(a, k)
      PROVE  TypeOK'
  <2>1. k \in 0 .. MaxKeys
    BY LimitsAssumption DEF TypeOK
  <2>2. entry' \in Entries
    BY <1>2, <2>1, RowFields DEF EntryReads, TypeOK, Entries
  <2> QED
    BY <1>2, <2>2 DEF EntryReads, TypeOK
<1>3. ASSUME NEW a \in Accounts, Leave(a) \/ HttpRemoves(a)
      PROVE  TypeOK'
  <2>1. Removes({a}) /\ UNCHANGED <<row, auth, entry, admitted, clean>>
    BY <1>3 DEF Leave, HttpRemoves
  <2> QED
    BY <2>1, RemovesKeepsType DEF TypeOK
<1>4. ASSUME NEW a \in Accounts, HttpMutes(a)
      PROVE  TypeOK'
  <2>1. session[a].limits \cup {"chat"} \in SUBSET Kinds
    BY <1>4, SessionFields DEF HttpMutes, Sessions
  <2>2. session' = [session EXCEPT ![a].limits = session[a].limits \cup {"chat"}]
        /\ Online(a)
    BY <1>4 DEF HttpMutes
  <2>3. session' \in [Accounts -> Sessions \cup {Offline}]
    BY <2>1, <2>2, SessionFields
  <2> QED
    BY <1>4, <2>3 DEF HttpMutes, TypeOK
<1>5. ASSUME NEW a \in Accounts, NEW g \in Staff, GradeEs(a, g)
      PROVE  TypeOK'
  <2>1. row' \in [Accounts -> Rows] /\ Es \in Grades
    BY <1>5, ColumnsKeepRows DEF GradeEs, TypeOK, Grades
  <2>2. session' \in [Accounts -> Sessions \cup {Offline}]
    <3>1. CASE Online(a)
      <4>1. session' = [session EXCEPT ![a].grade = Es]
        BY <1>5, <3>1 DEF GradeEs
      <4> QED
        BY <2>1, <3>1, <4>1, SessionFields
    <3>2. CASE ~Online(a)
      BY <1>5, <3>2 DEF GradeEs, TypeOK
    <3> QED
      BY <3>1, <3>2
  <2> QED
    BY <1>5, <2>1, <2>2 DEF GradeEs, TypeOK
<1>6. ASSUME NEW a \in Accounts, Unban(a) \/ SuspensionEnds(a)
      PROVE  TypeOK'
  <2>1. row' = [row EXCEPT ![a].suspended = FALSE] /\ late' = late \ {a}
        /\ UNCHANGED <<auth, entry, session, admitted, clean, missed>>
    BY <1>6 DEF Unban, SuspensionEnds
  <2>2. row' \in [Accounts -> Rows]
    BY <2>1, ColumnsKeepRows DEF TypeOK
  <2> QED
    BY <2>1, <2>2 DEF TypeOK
<1>7. ASSUME NEW a \in Accounts, WrongCredentials(a)
      PROVE  TypeOK'
  <2>1. CASE session[a].tries + 1 < MaxTries
    <3>1. session[a].tries + 1 \in 0 .. MaxTries - 1
      BY <1>7, <2>1, SessionFields, LimitsAssumption DEF WrongCredentials, Sessions
    <3>2. session' = [session EXCEPT ![a].tries = session[a].tries + 1]
      BY <1>7, <2>1 DEF WrongCredentials
    <3>3. session' \in [Accounts -> Sessions \cup {Offline}]
      BY <1>7, <3>1, <3>2, SessionFields DEF WrongCredentials
    <3> QED
      BY <1>7, <2>1, <3>3 DEF WrongCredentials, TypeOK
  <2>2. CASE ~(session[a].tries + 1 < MaxTries)
    <3>1. row' \in [Accounts -> Rows]
      BY <1>7, <2>2, SuspendedKeepsRows DEF WrongCredentials, TypeOK
    <3> QED
      BY <1>7, <2>2, <3>1, RemovesKeepsType DEF WrongCredentials, TypeOK
  <2> QED
    BY <2>1, <2>2
<1>8. ASSUME NEW a \in Accounts, RightCredentials(a)
      PROVE  TypeOK'
  <2>1. 0 \in 0 .. MaxTries - 1
    BY LimitsAssumption
  <2>2. session' \in [Accounts -> Sessions \cup {Offline}]
    BY <1>8, <2>1, SessionFields DEF RightCredentials
  <2> QED
    BY <1>8, <2>2 DEF RightCredentials, TypeOK
<1>9. ASSUME NEW a \in Accounts, MinutePasses(a)
      PROVE  TypeOK'
  <2>1. row' \in [Accounts -> Rows]
    BY <1>9, ColumnsKeepRows DEF MinutePasses, TypeOK
  <2> QED
    BY <1>9, <2>1 DEF MinutePasses, TypeOK
<1>10. ASSUME NEW a \in Accounts, NEW kind \in Kinds, LimitEnds(a, kind)
       PROVE  TypeOK'
  <2>1. row[a].limits \ {kind} \in SUBSET Kinds
    BY RowFields DEF TypeOK
  <2>2. row' = [row EXCEPT ![a].limits = row[a].limits \ {kind}]
    BY <1>10 DEF LimitEnds
  <2>3. row' \in [Accounts -> Rows]
    BY <2>1, <2>2, ColumnsKeepRows DEF TypeOK
  <2> QED
    BY <1>10, <2>3 DEF LimitEnds, TypeOK
<1>11. CASE LoginFromElsewhere
  <2>1. login.account \in Accounts /\ 0 \in 0 .. MaxKeys
    BY <1>11, LimitsAssumption DEF LoginFromElsewhere, TypeOK, Logins
  <2>2. row' \in [Accounts -> Rows]
    BY <1>11, <2>1, StoredKeepsRows DEF LoginFromElsewhere, Refuses, TypeOK
  <2> QED
    BY <1>11, <2>2 DEF LoginFromElsewhere, TypeOK
<1>12. CASE AuthRestarts
  <2>1. failed' \in [Accounts -> [password : 0 .. MaxFailed, token : 0 .. MaxFailed]]
    BY <1>12, LimitsAssumption DEF AuthRestarts, NoFailures
  <2> QED
    BY <1>12, <2>1 DEF AuthRestarts, TypeOK
<1>13. CASE EntryResets
  <2>1. entry \in Entries /\ entry.account \in Accounts /\ 0 \in 0 .. MaxKeys
    BY <1>13, LimitsAssumption DEF EntryResets, TypeOK, Entries
  <2>2. row' \in [Accounts -> Rows]
    <3>1. row' = [row EXCEPT ![entry.account].key = 0] \/ row' = row
      BY <1>13 DEF EntryResets
    <3>2. [row EXCEPT ![entry.account].key = 0] \in [Accounts -> Rows]
      BY <2>1, ColumnsKeepRows DEF TypeOK
    <3> QED
      BY <3>1, <3>2 DEF TypeOK
  <2>3. entry' \in Entries \cup {Idle}
    BY <1>13, <2>1 DEF EntryResets, Entries
  <2> QED
    BY <1>13, <2>2, <2>3 DEF EntryResets, TypeOK
<1>14. CASE MainRestarts
  BY <1>14, RemovesKeepsType DEF MainRestarts, TypeOK
<1>15. CASE UNCHANGED vars
  BY <1>15 DEF TypeOK, vars
<1> QED
  BY <1>1, <1>2, <1>3, <1>4, <1>5, <1>6, <1>7, <1>8, <1>9, <1>10, <1>11, <1>12, <1>13,
     <1>14, <1>15, AnswersTyped, DecidesTyped, BanTyped, LimitTyped, LiftTyped DEF Next

\* The rows, the requests of both servers and the sessions keep their types.
THEOREM TypeCorrect == Spec => []TypeOK
<1>1. Init => TypeOK
  BY LimitsAssumption, GradeAssumption
  DEF Init, TypeOK, Rows, Grades
<1>2. TypeOK /\ [Next]_vars => TypeOK'
  BY TypeStep
<1> QED
  BY <1>1, <1>2, PTL DEF Spec

-----------------------------------------------------------------------------
(* A key lets one session in: a key is in one row at most, a key in a row   *)
(* has let nobody in, and what an authorisation has read stays unused, and  *)
(* out of every row once it was reset, until the authorisation decides.     *)

KeyRows ==
  /\ \A a \in Accounts : row[a].key <= issued
  /\ \A a \in Accounts : row[a].key # 0 => admitted[row[a].key] = 0
  /\ \A a, b \in Accounts : a # b /\ row[a].key # 0 => row[a].key # row[b].key

KeyCounts == \A k \in 1 .. MaxKeys : admitted[k] <= 1 /\ (k > issued => admitted[k] = 0)

KeyRead ==
  entry # Idle =>
    /\ entry.read <= issued
    /\ entry.read # 0 =>
         /\ admitted[entry.read] = 0
         /\ \A b \in Accounts : row[b].key = entry.read => b = entry.account /\ ~entry.reset

KeyInv == KeyRows /\ KeyCounts /\ KeyRead

\* What most steps do to keys: nothing, or one is taken away.
KeysOnlyGo ==
  /\ \A a \in Accounts : row'[a].key \in {row[a].key, 0}
  /\ UNCHANGED <<issued, admitted>>
  /\ entry' \in {entry, Idle}

LEMMA GoingKeysKeepInv ==
  ASSUME TypeOK, KeyInv, KeysOnlyGo
  PROVE  KeyInv'
<1>1. KeyRows'
  <2>1. \A a \in Accounts : row[a].key \in 0 .. MaxKeys
    BY RowFields DEF TypeOK
  <2>2. issued \in Nat /\ 0 <= issued
    BY LimitsAssumption DEF TypeOK
  <2>3. \A a \in Accounts : row'[a].key = row[a].key \/ row'[a].key = 0
    BY DEF KeysOnlyGo
  <2>4. \A a \in Accounts : row'[a].key <= issued
    BY <2>1, <2>2, <2>3 DEF KeyInv, KeyRows
  <2>5. \A a \in Accounts : row'[a].key # 0 => admitted[row'[a].key] = 0
    BY <2>3 DEF KeyInv, KeyRows
  <2>6. \A a, b \in Accounts : a # b /\ row'[a].key # 0 => row'[a].key # row'[b].key
    BY <2>3 DEF KeyInv, KeyRows
  <2> QED
    BY <2>4, <2>5, <2>6 DEF KeyRows, KeysOnlyGo
<1>2. KeyCounts'
  BY DEF KeyInv, KeyCounts, KeysOnlyGo
<1>3. KeyRead'
  <2>1. CASE entry' = Idle
    BY <2>1 DEF KeyRead
  <2>2. CASE entry' = entry
    BY <2>2 DEF KeyInv, KeyRead, KeysOnlyGo
  <2> QED
    BY <2>1, <2>2 DEF KeysOnlyGo
<1> QED
  BY <1>1, <1>2, <1>3 DEF KeyInv

\* The keys of rows whose other columns are written.
LEMMA KeysOfRows ==
  ASSUME NEW rows \in [Accounts -> Rows], NEW a \in Accounts, NEW b \in Accounts
  PROVE  /\ \A x : [rows EXCEPT ![a].recent = x][b].key = rows[b].key
         /\ \A x : [rows EXCEPT ![a].suspended = x][b].key = rows[b].key
         /\ \A x : [rows EXCEPT ![a].grade = x][b].key = rows[b].key
         /\ \A x : [rows EXCEPT ![a].limits = x][b].key = rows[b].key
         /\ \A x : [rows EXCEPT ![a].suspended = x, ![a].grade = Normal][b].key = rows[b].key
         /\ \A x : [rows EXCEPT ![a].key = x][b].key = IF b = a THEN x ELSE rows[b].key
BY DEF Rows

LEMMA StoredKeys ==
  ASSUME NEW rows \in [Accounts -> Rows], NEW a \in Accounts, NEW k,
         row' \in Stored(rows, a, k)
  PROVE  \/ \A b \in Accounts : row'[b].key = rows[b].key
         \/ \A b \in Accounts : row'[b].key = IF b = a THEN k ELSE rows[b].key
<1>1. CASE row' = rows
  BY <1>1
<1>2. CASE row' = [rows EXCEPT ![a].key = k]
  BY <1>2, KeysOfRows
<1> QED
  BY <1>1, <1>2 DEF Stored

LEMMA KeyStep ==
  ASSUME TypeOK, KeyInv, [Next]_vars
  PROVE  KeyInv'
<1>0. row \in [Accounts -> Rows]
  BY DEF TypeOK
<1>1. CASE LoginFromElsewhere
  <2>1. login.account \in Accounts /\ Refuses(login.account)
    BY <1>1 DEF LoginFromElsewhere, TypeOK, Logins
  <2>2. \A a \in Accounts : row'[a].key \in {row[a].key, 0}
    BY <1>0, <2>1, StoredKeys DEF Refuses
  <2> QED
    BY <1>1, <2>2, GoingKeysKeepInv DEF LoginFromElsewhere, KeysOnlyGo, history
<1>2. CASE LoginAnswers
  <2>1. PICK p \in BOOLEAN, t \in BOOLEAN :
          \/ LoginLocks(login.account, p, t)
          \/ LoginFails(login.account, p, t)
          \/ LoginSucceeds(login.account, p, t)
    BY <1>2 DEF LoginAnswers
  <2> DEFINE a == login.account
  <2>2. a \in Accounts /\ UNCHANGED <<entry, admitted>>
    BY <1>2 DEF LoginAnswers, TypeOK, Logins
  <2> HIDE DEF a
  <2>3. CASE LoginLocks(a, p, t) \/ LoginFails(a, p, t)
    <3>1. UNCHANGED issued
      BY <2>3 DEF LoginLocks, LoginFails
    <3>2. CASE Refuses(a)
      <4>1. \A b \in Accounts : row'[b].key \in {row[b].key, 0}
        BY <1>0, <2>2, <3>2, StoredKeys DEF Refuses
      <4> QED
        BY <2>2, <3>1, <4>1, GoingKeysKeepInv DEF KeysOnlyGo
    <3>3. CASE Locks(a)
      <4> DEFINE rows == [row EXCEPT ![a].suspended = TRUE, ![a].grade = Normal]
      <4>1. rows \in [Accounts -> Rows] /\ \A b \in Accounts : rows[b].key = row[b].key
        BY <1>0, <2>2 DEF Rows, Grades
      <4>2. row' \in Stored(rows, a, 0)
        BY <3>3 DEF Locks
      <4> HIDE DEF rows
      <4>3. \A b \in Accounts : row'[b].key \in {row[b].key, 0}
        BY <2>2, <4>1, <4>2, StoredKeys
      <4> QED
        BY <2>2, <3>1, <4>3, GoingKeysKeepInv DEF KeysOnlyGo
    <3> QED
      BY <2>3, <3>2, <3>3 DEF LoginLocks, LoginFails
  <2>4. CASE LoginSucceeds(a, p, t)
    <3>1. issued' = issued + 1 /\ issued \in 0 .. MaxKeys /\ issued + 1 \in 1 .. MaxKeys
      BY <2>4, LimitsAssumption DEF LoginSucceeds, TypeOK
    <3>2. \/ \A b \in Accounts : row'[b].key = row[b].key
          \/ \A b \in Accounts : row'[b].key = IF b = a THEN issued + 1 ELSE row[b].key
          \/ \A b \in Accounts : row'[b].key = IF b = a THEN 0 ELSE row[b].key
      <4>0. PICK k \in {issued + 1, 0} : \/ row' \in Stored([row EXCEPT ![a].recent = TRUE], a, k)
                                        \/ row' \in Stored(row, a, k)
        BY <2>4 DEF LoginSucceeds
      <4>1. CASE row' \in Stored(row, a, k)
        BY <1>0, <2>2, <4>1, StoredKeys
      <4>2. CASE row' \in Stored([row EXCEPT ![a].recent = TRUE], a, k)
        <5> DEFINE rows == [row EXCEPT ![a].recent = TRUE]
        <5>1. rows \in [Accounts -> Rows] /\ \A b \in Accounts : rows[b].key = row[b].key
          BY <1>0, <2>2 DEF Rows
        <5> HIDE DEF rows
        <5> QED
          BY <2>2, <4>2, <5>1, StoredKeys DEF rows
      <4> QED
        BY <4>0, <4>1, <4>2
    <3>3. \A b \in Accounts : row[b].key \in 0 .. issued /\ row[b].key \in 0 .. MaxKeys
      BY <1>0, <3>1, RowFields DEF KeyInv, KeyRows
    <3>4. KeyRows'
      BY <2>2, <3>1, <3>2, <3>3 DEF KeyInv, KeyRows, KeyCounts
    <3>5. KeyCounts'
      BY <2>2, <3>1 DEF KeyInv, KeyCounts
    <3>6. KeyRead'
      <4> SUFFICES ASSUME entry # Idle
                   PROVE  KeyRead'
        BY <2>2 DEF KeyRead
      <4>1. entry.read \in 0 .. issued
        BY <3>1 DEF TypeOK, Entries, KeyInv, KeyRead
      <4> QED
        BY <2>2, <3>1, <3>2, <4>1 DEF KeyInv, KeyRead
    <3> QED
      BY <3>4, <3>5, <3>6 DEF KeyInv
  <2> QED
    BY <2>1, <2>3, <2>4 DEF a
<1>3. ASSUME NEW a \in Accounts, NEW k \in held[a] \cup {0}, EntryReads(a, k)
      PROVE  KeyInv'
  <2>1. /\ UNCHANGED <<row, issued, admitted>>
        /\ entry'.read = row[a].key /\ entry'.account = a /\ entry'.reset = FALSE
    BY <1>3 DEF EntryReads, auth, history
  <2> QED
    BY <2>1 DEF KeyInv, KeyRows, KeyCounts, KeyRead
<1>4. CASE EntryResets
  <2>1. entry \in Entries /\ UNCHANGED <<issued, admitted>>
    BY <1>4 DEF EntryResets, TypeOK, auth, history
  <2>2. CASE entry' = Idle /\ UNCHANGED row
    BY <2>1, <2>2, GoingKeysKeepInv DEF KeysOnlyGo
  <2>3. CASE /\ row' = [row EXCEPT ![entry.account].key = 0]
             /\ entry' = [entry EXCEPT !.reset = TRUE]
    <3>1. entry.account \in Accounts
      BY <2>1 DEF Entries
    <3>2. \A b \in Accounts : row'[b].key = IF b = entry.account THEN 0 ELSE row[b].key
      BY <1>0, <2>3, <3>1, KeysOfRows
    <3>3. entry'.read = entry.read /\ entry'.account = entry.account /\ entry # Idle
      BY <1>4, <2>1, <2>3 DEF Entries, EntryResets
    <3>4. \A b \in Accounts : row[b].key \in 0 .. MaxKeys
      BY <1>0, RowFields
    <3>5. KeyRows' /\ KeyCounts'
      <4>1. issued \in Nat /\ 0 <= issued
        BY LimitsAssumption DEF TypeOK
      <4>2. \A b \in Accounts : row'[b].key = row[b].key \/ row'[b].key = 0
        BY <3>2
      <4>3. \A b \in Accounts : row'[b].key <= issued
        BY <3>4, <4>1, <4>2 DEF KeyInv, KeyRows
      <4>4. \A b \in Accounts : row'[b].key # 0 => admitted[row'[b].key] = 0
        BY <4>2 DEF KeyInv, KeyRows
      <4>5. \A b, c \in Accounts : b # c /\ row'[b].key # 0 => row'[b].key # row'[c].key
        BY <4>2 DEF KeyInv, KeyRows
      <4> QED
        BY <2>1, <4>3, <4>4, <4>5 DEF KeyInv, KeyRows, KeyCounts
    <3>6. KeyRead'
      BY <2>1, <3>2, <3>3, <3>4 DEF KeyInv, KeyRead
    <3> QED
      BY <3>5, <3>6 DEF KeyInv
  <2> QED
    BY <1>4, <2>2, <2>3 DEF EntryResets
<1>5. CASE EntryDecides
  <2>1. entry \in Entries /\ entry # Idle /\ entry.reset /\ entry' = Idle /\ UNCHANGED <<row, issued>>
    BY <1>5 DEF EntryDecides, TypeOK, auth
  <2>2. \/ UNCHANGED admitted
        \/ /\ admitted' = [k \in 1 .. MaxKeys |->
                             admitted[k] + (IF k = entry.shown THEN 1 ELSE 0)]
           /\ entry.shown = entry.read
    BY <1>5 DEF EntryDecides, Admits
  <2>3. CASE UNCHANGED admitted
    BY <2>1, <2>3, GoingKeysKeepInv DEF KeysOnlyGo
  <2>4. CASE /\ admitted' = [k \in 1 .. MaxKeys |->
                               admitted[k] + (IF k = entry.shown THEN 1 ELSE 0)]
             /\ entry.shown = entry.read /\ entry.shown # 0
    <3>1. entry.read \in 1 .. MaxKeys /\ entry.read <= issued /\ admitted[entry.read] = 0
      BY <2>1, <2>4 DEF Entries, KeyInv, KeyRead
    <3>2. \A b \in Accounts : row[b].key # entry.read
      BY <2>1, <3>1 DEF KeyInv, KeyRead
    <3>3. \A b \in Accounts : row[b].key \in 0 .. MaxKeys
      BY <1>0, RowFields
    <3>4. \A n \in 1 .. MaxKeys : admitted'[n] = IF n = entry.read THEN 1 ELSE admitted[n]
      <4>1. \A n \in 1 .. MaxKeys : admitted[n] \in Nat
        BY DEF TypeOK
      <4> QED
        BY <2>4, <3>1, <4>1
    <3>5. KeyRows'
      BY <2>1, <3>2, <3>3, <3>4 DEF KeyInv, KeyRows
    <3>6. KeyCounts'
      BY <2>1, <3>1, <3>4 DEF KeyInv, KeyCounts, TypeOK
    <3> QED
      BY <2>1, <3>5, <3>6 DEF KeyInv, KeyRead
  <2>5. CASE /\ admitted' = [k \in 1 .. MaxKeys |->
                               admitted[k] + (IF k = entry.shown THEN 1 ELSE 0)]
             /\ entry.shown = 0
    <3>1. \A n \in 1 .. MaxKeys : admitted[n] \in Nat /\ admitted'[n] = admitted[n]
      <4>1. \A n \in 1 .. MaxKeys : admitted[n] \in Nat
        BY DEF TypeOK
      <4> QED
        BY <2>5, <4>1
    <3>2. admitted \in [1 .. MaxKeys -> Nat] /\ DOMAIN admitted' = 1 .. MaxKeys
          /\ admitted' = [n \in 1 .. MaxKeys |-> admitted'[n]]
      BY <2>5 DEF TypeOK
    <3>3. UNCHANGED admitted
      BY <3>1, <3>2
    <3> QED
      BY <2>3, <3>3
  <2> QED
    BY <2>2, <2>3, <2>4, <2>5
<1>6. ASSUME NEW a \in Accounts,
             NEW g,
             \/ LoginReads(a) \/ Leave(a) \/ HttpRemoves(a) \/ HttpMutes(a) \/ Ban(a, g)
             \/ GradeEs(a, g) \/ Unban(a) \/ WrongCredentials(a) \/ RightCredentials(a)
             \/ MinutePasses(a) \/ SuspensionEnds(a)
      PROVE  KeyInv'
  <2>1. \A b \in Accounts : row'[b].key = row[b].key
    <3>1. \/ UNCHANGED row
          \/ \E x : \/ row' = [row EXCEPT ![a].recent = x]
                    \/ row' = [row EXCEPT ![a].suspended = x]
                    \/ row' = [row EXCEPT ![a].grade = x]
      BY <1>6
      DEF LoginReads, Leave, HttpRemoves, HttpMutes, Ban, GradeEs, Unban, WrongCredentials,
          RightCredentials, MinutePasses, SuspensionEnds, Suspended
    <3> QED
      BY <1>0, <3>1 DEF Rows
  <2>2. UNCHANGED <<issued, admitted, entry>>
    BY <1>6 DEF LoginReads, Leave, HttpRemoves, HttpMutes, Ban, GradeEs, Unban,
        WrongCredentials, RightCredentials, MinutePasses, SuspensionEnds, auth, history
  <2> QED
    BY <2>1, <2>2, GoingKeysKeepInv DEF KeysOnlyGo
<1>7. ASSUME NEW a \in Accounts, NEW kind \in Kinds, NEW g,
             Limit(a, kind, g) \/ Lift(a, kind) \/ LimitEnds(a, kind)
      PROVE  KeyInv'
  <2>1. \A b \in Accounts : row'[b].key = row[b].key
    <3>1. UNCHANGED row \/ \E x : row' = [row EXCEPT ![a].limits = x]
      BY <1>7 DEF Limit, RowLimited, Lift, LimitEnds
    <3> QED
      BY <1>0, <3>1 DEF Rows
  <2>2. UNCHANGED <<issued, admitted, entry>>
    BY <1>7 DEF Limit, Lift, LimitEnds, auth, history
  <2> QED
    BY <2>1, <2>2, GoingKeysKeepInv DEF KeysOnlyGo
<1>8. CASE AuthRestarts \/ MainRestarts \/ UNCHANGED vars
  <2>1. UNCHANGED <<row, issued, admitted>> /\ entry' \in {entry, Idle}
    BY <1>8 DEF AuthRestarts, MainRestarts, vars, auth, history
  <2> QED
    BY <2>1, GoingKeysKeepInv DEF KeysOnlyGo
<1> QED
  BY <1>1, <1>2, <1>3, <1>4, <1>5, <1>6, <1>7, <1>8 DEF Next

\* A key that Auth has given lets one session of Main in, whatever Auth and
\* Main do in between, for any number of accounts and keys.
THEOREM KeysCorrect == Spec => []KeyAdmitsOnce
<1>1. Init => TypeOK /\ KeyInv
  <2>1. Init => TypeOK
    BY LimitsAssumption, GradeAssumption DEF Init, TypeOK, Rows, Grades
  <2>2. Init => KeyInv
    BY LimitsAssumption DEF Init, KeyInv, KeyRows, KeyCounts, KeyRead
  <2> QED
    BY <2>1, <2>2
<1>2. TypeOK /\ KeyInv /\ [Next]_vars => TypeOK' /\ KeyInv'
  BY TypeStep, KeyStep
<1>3. KeyInv => KeyAdmitsOnce
  BY DEF KeyInv, KeyCounts, KeyAdmitsOnce
<1> QED
  BY <1>1, <1>2, <1>3, PTL DEF Spec

-----------------------------------------------------------------------------
(* Punishments hold: a login of the last minute saw no suspension, so a     *)
(* session of a suspended account is one that the history excuses, and a    *)
(* limit of a row is in the session or excused too.                         *)

MinutesClean == \A a \in Accounts : row[a].recent => a \in clean

PunishInv == MinutesClean /\ SuspendedKeptOut /\ LimitsReach

\* The row of b punishes no more than before, and its login is as old.
NoHarder(b) == (row'[b].suspended => row[b].suspended) /\ row'[b].limits \subseteq row[b].limits
SameMinutes == \A b \in Accounts : (row'[b].recent => row[b].recent)

LEMMA QuietStepsPunish ==
  ASSUME SuspendedKeptOut, LimitsReach, UNCHANGED <<session, late, missed>>,
         \A b \in Accounts : NoHarder(b)
  PROVE  SuspendedKeptOut' /\ LimitsReach'
BY DEF SuspendedKeptOut, LimitsReach, NoHarder, Online

\* Who is removed needs no excuse, whatever becomes of the row.
LEMMA RemovalsPunish ==
  ASSUME TypeOK, SuspendedKeptOut, LimitsReach, NEW A \in SUBSET Accounts, Removes(A),
         \A b \in Accounts \ A : NoHarder(b)
  PROVE  SuspendedKeptOut' /\ LimitsReach'
<1>1. \A b \in A : session'[b] = Offline
  BY DEF Removes
<1>2. \A b \in Accounts \ A : /\ session'[b] = session[b]
                              /\ b \in late => b \in late'
                              /\ \A kind : <<b, kind>> \in missed => <<b, kind>> \in missed'
  BY DEF Removes
<1> QED
  BY <1>1, <1>2 DEF SuspendedKeptOut, LimitsReach, NoHarder, Online

\* The key and the time of a row are no punishment.
LEMMA StoredPunishesNobody ==
  ASSUME NEW rows \in [Accounts -> Rows], NEW a \in Accounts, NEW k,
         row' \in Stored(rows, a, k)
  PROVE  \A b \in Accounts : /\ row'[b].suspended = rows[b].suspended
                             /\ row'[b].limits = rows[b].limits
                             /\ row'[b].recent = rows[b].recent
<1>1. CASE row' = rows
  BY <1>1
<1>2. CASE row' = [rows EXCEPT ![a].key = k]
  BY <1>2 DEF Rows
<1> QED
  BY <1>1, <1>2 DEF Stored

LEMMA LoginsPunish ==
  ASSUME TypeOK, PunishInv, LoginAnswers
  PROVE  PunishInv'
<1>0. row \in [Accounts -> Rows]
  BY DEF TypeOK
<1>1. PICK p \in BOOLEAN, t \in BOOLEAN :
        \/ LoginLocks(login.account, p, t)
        \/ LoginFails(login.account, p, t)
        \/ LoginSucceeds(login.account, p, t)
  BY DEF LoginAnswers
<1> DEFINE a == login.account
<1>2. a \in Accounts /\ UNCHANGED <<entry, session, missed>>
  BY DEF LoginAnswers, TypeOK, Logins
<1> HIDE DEF a
<1>3. CASE LoginLocks(a, p, t) \/ LoginFails(a, p, t)
  <2>1. UNCHANGED clean
    BY <1>3 DEF LoginLocks, LoginFails
  <2>2. CASE Refuses(a) /\ UNCHANGED late
    <3>1. \A b \in Accounts : NoHarder(b) /\ (row'[b].recent => row[b].recent)
      BY <1>0, <1>2, <2>2, StoredPunishesNobody DEF Refuses, NoHarder
    <3> QED
      BY <1>2, <2>1, <2>2, <3>1, QuietStepsPunish DEF PunishInv, MinutesClean
  <2>3. CASE Locks(a)
    <3> DEFINE rows == [row EXCEPT ![a].suspended = TRUE, ![a].grade = Normal]
    <3>1. /\ rows \in [Accounts -> Rows]
          /\ \A b \in Accounts : /\ b # a => rows[b].suspended = row[b].suspended
                                 /\ rows[b].limits = row[b].limits
                                 /\ rows[b].recent = row[b].recent
      BY <1>0, <1>2 DEF Rows, Grades
    <3>2. row' \in Stored(rows, a, 0)
      BY <2>3 DEF Locks
    <3> HIDE DEF rows
    <3>3. \A b \in Accounts : /\ b # a => row'[b].suspended = row[b].suspended
                              /\ row'[b].limits = row[b].limits
                              /\ row'[b].recent = row[b].recent
      BY <1>2, <3>1, <3>2, StoredPunishesNobody
    <3>4. late' = late \cup {x \in {a} : Online(x)}
      BY <2>3 DEF Locks
    <3>5. SuspendedKeptOut' /\ LimitsReach'
      BY <1>2, <3>3, <3>4 DEF PunishInv, SuspendedKeptOut, LimitsReach, Online
    <3> QED
      BY <2>1, <3>3, <3>5 DEF PunishInv, MinutesClean
  <2> QED
    BY <1>3, <2>2, <2>3 DEF LoginLocks, LoginFails
<1>4. CASE LoginSucceeds(a, p, t)
  <2>1. PICK k \in {issued + 1, 0} :
          \/ /\ row' \in Stored([row EXCEPT ![a].recent = TRUE], a, k)
             /\ clean' = clean \cup {a}
          \/ row' \in Stored(row, a, k) /\ UNCHANGED clean
    BY <1>4 DEF LoginSucceeds
  <2>2. ASSUME row' \in Stored(row, a, k), UNCHANGED clean
        PROVE  (\A b \in Accounts : NoHarder(b)) /\ MinutesClean'
    <3>1. \A b \in Accounts : NoHarder(b) /\ row'[b].recent = row[b].recent
      BY <1>0, <1>2, <2>2, StoredPunishesNobody DEF NoHarder
    <3> QED
      BY <2>2, <3>1 DEF PunishInv, MinutesClean
  <2>3. ASSUME row' \in Stored([row EXCEPT ![a].recent = TRUE], a, k),
               clean' = clean \cup {a}
        PROVE  (\A b \in Accounts : NoHarder(b)) /\ MinutesClean'
    <3> DEFINE rows == [row EXCEPT ![a].recent = TRUE]
    <3>1. /\ rows \in [Accounts -> Rows]
          /\ \A b \in Accounts : /\ rows[b].suspended = row[b].suspended
                                 /\ rows[b].limits = row[b].limits
                                 /\ b # a => rows[b].recent = row[b].recent
      BY <1>0, <1>2 DEF Rows
    <3>2. row' \in Stored(rows, a, k)
      BY <2>3
    <3> HIDE DEF rows
    <3>3. \A b \in Accounts : NoHarder(b) /\ (b # a => row'[b].recent = row[b].recent)
      BY <1>2, <3>1, <3>2, StoredPunishesNobody DEF NoHarder
    <3> QED
      BY <2>3, <3>3 DEF PunishInv, MinutesClean
  <2>4. UNCHANGED late
    BY <1>4 DEF LoginSucceeds
  <2>5. (\A b \in Accounts : NoHarder(b)) /\ MinutesClean'
    BY <2>1, <2>2, <2>3
  <2> QED
    BY <1>2, <2>4, <2>5, QuietStepsPunish DEF PunishInv
<1> QED
  BY <1>1, <1>3, <1>4 DEF a

LEMMA DecidesPunishes ==
  ASSUME TypeOK, PunishInv, EntryDecides
  PROVE  PunishInv'
<1>1. /\ entry \in Entries /\ entry # Idle /\ entry' = Idle
      /\ UNCHANGED <<row, clean>> /\ row[entry.account].recent \in BOOLEAN
  BY RowFields DEF EntryDecides, TypeOK, auth, Entries
<1>2. MinutesClean'
  BY <1>1 DEF PunishInv, MinutesClean
<1>3. CASE UNCHANGED <<session, late, missed>>
  BY <1>1, <1>2, <1>3, QuietStepsPunish DEF PunishInv, NoHarder
<1>4. CASE Admits(entry.account) /\ row[entry.account].recent
  <2> DEFINE a == entry.account
  <2>1. a \in Accounts /\ a \in clean
    BY <1>1, <1>4 DEF Entries, PunishInv, MinutesClean
  <2>2. PICK lost \in SUBSET row[a].limits :
          /\ session' = [session EXCEPT ![a] =
               [grade |-> entry.grade, limits |-> LimitsRead(a, lost), tries |-> 0]]
          /\ late' = IF row[a].suspended /\ a \in clean THEN late \cup {a} ELSE late \ {a}
          /\ missed' = (missed \ ({a} \X Kinds)) \cup ({a} \X lost)
    BY <1>4 DEF Admits
  <2> HIDE DEF a
  <2>3. session'[a].limits = row[a].limits \ lost
    BY <2>1, <2>2 DEF LimitsRead, TypeOK
  <2>4. \A b \in Accounts \ {a} :
           /\ session'[b] = session[b]
           /\ b \in late => b \in late'
           /\ \A kind : <<b, kind>> \in missed => <<b, kind>> \in missed'
    BY <2>1, <2>2 DEF TypeOK
  <2>5. row[a].suspended => a \in late'
    BY <2>1, <2>2
  <2>6. \A kind \in row[a].limits \ session'[a].limits : <<a, kind>> \in missed'
    BY <2>2, <2>3
  <2>7. SuspendedKeptOut'
    BY <1>1, <2>4, <2>5 DEF PunishInv, SuspendedKeptOut, Online
  <2>8. LimitsReach'
    BY <1>1, <2>4, <2>6 DEF PunishInv, LimitsReach, Online
  <2> QED
    BY <1>2, <2>7, <2>8 DEF PunishInv
<1> QED
  BY <1>1, <1>3, <1>4 DEF EntryDecides

LEMMA BanPunishes ==
  ASSUME TypeOK, PunishInv, NEW a \in Accounts,
         (\E g \in Staff : Ban(a, g)) \/ WrongCredentials(a)
  PROVE  SuspendedKeptOut' /\ LimitsReach'
<1>0. row \in [Accounts -> Rows]
  BY DEF TypeOK
<1>1. UNCHANGED row \/ \E x : row' = [row EXCEPT ![a].suspended = x]
  BY DEF Ban, WrongCredentials, Suspended
<1>2. \A b \in Accounts : row'[b].limits = row[b].limits
                          /\ (b # a => row'[b].suspended = row[b].suspended)
  BY <1>0, <1>1 DEF Rows
<1>3. \A b \in Accounts \ {a} : NoHarder(b)
  BY <1>2 DEF NoHarder
<1>4. CASE Removes({a})
  BY <1>3, <1>4, RemovalsPunish DEF PunishInv
<1>5. CASE ~Online(a) /\ UNCHANGED <<session, late, missed>>
  BY <1>2, <1>5 DEF PunishInv, SuspendedKeptOut, LimitsReach, Online
<1>6. CASE /\ Online(a) /\ UNCHANGED <<row, late, missed>>
           /\ session' = [session EXCEPT ![a].tries = @ + 1]
  <2>1. /\ session[a] \in Sessions /\ session'[a].limits = session[a].limits
        /\ \A b \in Accounts \ {a} : session'[b] = session[b]
    BY <1>6 DEF TypeOK, Sessions, Online
  <2> QED
    BY <1>6, <2>1 DEF PunishInv, SuspendedKeptOut, LimitsReach, Online
<1> QED
  BY <1>4, <1>5, <1>6 DEF Ban, WrongCredentials

LEMMA LimitPunishes ==
  ASSUME TypeOK, PunishInv, NEW a \in Accounts, NEW kind \in Kinds,
         (\E g \in Staff : Limit(a, kind, g)) \/ Lift(a, kind)
  PROVE  SuspendedKeptOut' /\ LimitsReach'
<1>0. row \in [Accounts -> Rows] /\ UNCHANGED late
  BY DEF TypeOK, Limit, Lift
<1>1. \A b \in Accounts :
        /\ row'[b].suspended = row[b].suspended
        /\ b # a => row'[b].limits = row[b].limits /\ session'[b] = session[b]
        /\ Online(b) <=> session'[b] # Offline
  <2>1. UNCHANGED row \/ \E x : row' = [row EXCEPT ![a].limits = x]
    BY DEF Limit, RowLimited, Lift
  <2>2. \A b \in Accounts : row'[b].suspended = row[b].suspended
                            /\ (b # a => row'[b].limits = row[b].limits)
    BY <1>0, <2>1 DEF Rows
  <2>3. CASE Online(a)
    <3>1. \E l \in SUBSET Kinds : session' = [session EXCEPT ![a].limits = l]
      <4>1. /\ session[a].limits \cup {kind} \in SUBSET Kinds
            /\ session[a].limits \ {kind} \in SUBSET Kinds
        BY <2>3, SessionFields DEF Sessions
      <4> QED
        BY <2>3, <4>1 DEF Limit, Lift
    <3>2. session'[a] \in Sessions /\ \A b \in Accounts \ {a} : session'[b] = session[b]
      BY <2>3, <3>1 DEF TypeOK, Sessions, Online
    <3> QED
      BY <2>2, <2>3, <3>2, SessionsAreNotOffline DEF Online
  <2>4. CASE ~Online(a)
    BY <2>2, <2>4 DEF Limit, Lift, Online
  <2> QED
    BY <2>3, <2>4
<1>2. SuspendedKeptOut'
  BY <1>0, <1>1 DEF PunishInv, SuspendedKeptOut, Online
<1>3. \A b \in Accounts \ {a} : \A k : <<b, k>> \in missed => <<b, k>> \in missed'
  BY DEF Limit, Lift
<1>4. Online(a) => \A k \in row'[a].limits \ session'[a].limits : <<a, k>> \in missed'
  <2> SUFFICES ASSUME Online(a), NEW k \in row'[a].limits \ session'[a].limits
               PROVE  <<a, k>> \in missed'
    OBVIOUS
  <2>1. session[a] \in Sessions
    BY DEF TypeOK, Online
  <2>2. CASE \E g \in Staff : Limit(a, kind, g)
    <3>1. /\ row'[a].limits = row[a].limits \cup {kind}
          /\ session'[a].limits = session[a].limits \cup {kind}
          /\ missed' = missed \ {<<a, kind>>}
      BY <1>0, <2>1, <2>2 DEF Limit, RowLimited, TypeOK, Rows, Sessions
    <3> QED
      BY <3>1 DEF PunishInv, LimitsReach
  <2>3. CASE Lift(a, kind)
    <3>1. session'[a].limits = session[a].limits \ {kind}
      BY <2>1, <2>3 DEF Lift, TypeOK, Sessions
    <3>2. CASE row' = [row EXCEPT ![a].limits = @ \ {kind}] /\ UNCHANGED missed
      <4>1. row'[a].limits = row[a].limits \ {kind}
        BY <1>0, <3>2 DEF Rows
      <4> QED
        BY <3>1, <3>2, <4>1 DEF PunishInv, LimitsReach
    <3>3. CASE UNCHANGED row /\ missed' = missed \cup {<<a, kind>>}
      BY <3>1, <3>3 DEF PunishInv, LimitsReach
    <3> QED
      BY <2>3, <3>2, <3>3 DEF Lift
  <2> QED
    BY <2>2, <2>3
<1>5. LimitsReach'
  BY <1>1, <1>3, <1>4 DEF PunishInv, LimitsReach, Online
<1> QED
  BY <1>2, <1>5

LEMMA PunishStep ==
  ASSUME TypeOK, PunishInv, [Next]_vars
  PROVE  PunishInv'
<1> USE DEF auth, history
<1>0. row \in [Accounts -> Rows]
  BY DEF TypeOK
<1>1. ASSUME NEW a \in Accounts, NEW kind \in Kinds,
             (\E g \in Staff : Limit(a, kind, g)) \/ Lift(a, kind)
      PROVE  PunishInv'
  <2>1. UNCHANGED clean /\ (UNCHANGED row \/ \E l : row' = [row EXCEPT ![a].limits = l])
    BY <1>1 DEF Limit, RowLimited, Lift
  <2>2. SuspendedKeptOut' /\ LimitsReach'
    BY <1>1, LimitPunishes
  <2>3. SameMinutes
    BY <1>0, <2>1 DEF SameMinutes, Rows
  <2> QED
    BY <2>1, <2>2, <2>3 DEF PunishInv, MinutesClean, SameMinutes
<1>2. ASSUME NEW A \in SUBSET Accounts, Removes(A), UNCHANGED <<row, clean>>
      PROVE  PunishInv'
  <2>1. SuspendedKeptOut' /\ LimitsReach'
    BY <1>2, RemovalsPunish DEF PunishInv, NoHarder
  <2> QED
    BY <1>2, <2>1 DEF PunishInv, MinutesClean
<1>3. ASSUME NEW a \in Accounts, Leave(a) \/ HttpRemoves(a)
      PROVE  PunishInv'
  BY <1>2, <1>3 DEF Leave, HttpRemoves
<1>4. CASE MainRestarts
  BY <1>2, <1>4 DEF MainRestarts
<1>5. ASSUME UNCHANGED <<session, late, missed, clean>>, SameMinutes,
             \A b \in Accounts : NoHarder(b)
      PROVE  PunishInv'
  <2>1. SuspendedKeptOut' /\ LimitsReach'
    BY <1>5, QuietStepsPunish DEF PunishInv
  <2> QED
    BY <1>5, <2>1 DEF PunishInv, MinutesClean, SameMinutes
<1>6. ASSUME NEW a \in Accounts, LoginReads(a)
      PROVE  PunishInv'
  BY <1>5, <1>6 DEF LoginReads, NoHarder, SameMinutes
<1>7. CASE LoginFromElsewhere
  <2>1. login.account \in Accounts /\ row' \in Stored(row, login.account, 0)
    BY <1>7 DEF LoginFromElsewhere, Refuses, TypeOK, Logins
  <2>2. SameMinutes /\ \A b \in Accounts : NoHarder(b)
    BY <1>0, <2>1, StoredPunishesNobody DEF NoHarder, SameMinutes
  <2> QED
    BY <1>5, <1>7, <2>2 DEF LoginFromElsewhere
<1>8. CASE AuthRestarts \/ UNCHANGED vars
  BY <1>5, <1>8 DEF AuthRestarts, vars, NoHarder, SameMinutes
<1>9. ASSUME NEW a \in Accounts, NEW k \in held[a] \cup {0}, EntryReads(a, k)
      PROVE  PunishInv'
  BY <1>5, <1>9 DEF EntryReads, NoHarder, SameMinutes
<1>10. CASE EntryResets
  <2>1. UNCHANGED <<session, late, missed, clean>>
    BY <1>10 DEF EntryResets
  <2>2. row' = row \/ row' = [row EXCEPT ![entry.account].key = 0]
    BY <1>10 DEF EntryResets
  <2>3. SameMinutes /\ \A b \in Accounts : NoHarder(b)
    BY <1>0, <2>2 DEF NoHarder, SameMinutes, Rows
  <2> QED
    BY <1>5, <2>1, <2>3
<1>11. ASSUME NEW a \in Accounts, Unban(a) \/ SuspensionEnds(a)
       PROVE  PunishInv'
  <2>1. /\ row' = [row EXCEPT ![a].suspended = FALSE] /\ late' = late \ {a}
        /\ UNCHANGED <<session, missed, clean>>
    BY <1>11 DEF Unban, SuspensionEnds
  <2>2. \A b \in Accounts : /\ row'[b].suspended = (IF b = a THEN FALSE ELSE row[b].suspended)
                            /\ row'[b].limits = row[b].limits
                            /\ row'[b].recent = row[b].recent
    BY <1>0, <2>1 DEF Rows
  <2> QED
    BY <2>1, <2>2 DEF PunishInv, MinutesClean, SuspendedKeptOut, LimitsReach, Online
<1>12. ASSUME NEW a \in Accounts, MinutePasses(a)
       PROVE  PunishInv'
  <2>1. \A b \in Accounts : NoHarder(b) /\ row'[b].recent = (row[b].recent /\ b # a)
    BY <1>0, <1>12 DEF MinutePasses, NoHarder, Rows
  <2>2. clean' = clean \ {a} /\ UNCHANGED <<session, late, missed>>
    BY <1>12 DEF MinutePasses
  <2> QED
    BY <2>1, <2>2, QuietStepsPunish DEF PunishInv, MinutesClean
<1>13. ASSUME NEW a \in Accounts, NEW kind \in Kinds, LimitEnds(a, kind)
       PROVE  PunishInv'
  <2>1. SameMinutes /\ \A b \in Accounts : NoHarder(b)
    BY <1>0, <1>13 DEF LimitEnds, NoHarder, SameMinutes, Rows
  <2> QED
    BY <1>5, <1>13, <2>1 DEF LimitEnds
<1>14. ASSUME NEW a \in Accounts, Online(a), UNCHANGED <<late, clean>>, SameMinutes,
              \E x : \/ session' = [session EXCEPT ![a].tries = x]
                     \/ session' = [session EXCEPT ![a].grade = x]
                     \/ UNCHANGED session,
              \A b \in Accounts : NoHarder(b), UNCHANGED missed
       PROVE  PunishInv'
  <2>1. \A b \in Accounts : session'[b].limits = session[b].limits
                            /\ (b # a => session'[b] = session[b])
    BY <1>14 DEF TypeOK, Sessions, Online
  <2> QED
    BY <1>14, <2>1 DEF PunishInv, MinutesClean, SameMinutes, SuspendedKeptOut, LimitsReach, Online,
        NoHarder
<1>15. ASSUME NEW a \in Accounts, RightCredentials(a)
       PROVE  PunishInv'
  BY <1>14, <1>15 DEF RightCredentials, NoHarder, SameMinutes
<1>16. ASSUME NEW a \in Accounts, NEW g \in Staff, GradeEs(a, g)
       PROVE  PunishInv'
  <2>1. SameMinutes /\ \A b \in Accounts : NoHarder(b)
    BY <1>0, <1>16 DEF GradeEs, NoHarder, SameMinutes, Rows
  <2>2. CASE Online(a)
    BY <1>14, <1>16, <2>1, <2>2 DEF GradeEs
  <2>3. CASE ~Online(a)
    BY <1>5, <1>16, <2>1, <2>3 DEF GradeEs
  <2> QED
    BY <2>2, <2>3
<1>17. ASSUME NEW a \in Accounts, HttpMutes(a)
       PROVE  PunishInv'
  <2>1. /\ Online(a) /\ missed' = missed \ {<<a, "chat">>}
        /\ UNCHANGED <<row, late, clean>>
    BY <1>17 DEF HttpMutes
  <2>2. \A b \in Accounts : IF b = a THEN session'[b].limits = session[b].limits \cup {"chat"}
                            ELSE session'[b] = session[b]
    BY <1>17, <2>1 DEF HttpMutes, TypeOK, Sessions, Online
  <2> QED
    BY <2>1, <2>2 DEF PunishInv, MinutesClean, SuspendedKeptOut, LimitsReach, Online
<1>18. ASSUME NEW a \in Accounts, (\E g \in Staff : Ban(a, g)) \/ WrongCredentials(a)
       PROVE  PunishInv'
  <2>1. UNCHANGED clean /\ (UNCHANGED row \/ \E x : row' = [row EXCEPT ![a].suspended = x])
    BY <1>18 DEF Ban, WrongCredentials, Suspended
  <2>2. SameMinutes
    BY <1>0, <2>1 DEF SameMinutes, Rows
  <2> QED
    BY <1>18, <2>1, <2>2, BanPunishes DEF PunishInv, MinutesClean, SameMinutes
<1> QED
  BY <1>1, <1>3, <1>4, <1>6, <1>7, <1>8, <1>9, <1>10, <1>11, <1>12, <1>13, <1>15, <1>16, <1>17,
     <1>18, LoginsPunish, DecidesPunishes DEF Next

LEMMA PunishAlways == Spec => [](TypeOK /\ PunishInv)
<1>1. Init => TypeOK /\ PunishInv
  <2>1. Init => TypeOK
    BY LimitsAssumption, GradeAssumption DEF Init, TypeOK, Rows, Grades
  <2>2. Init => PunishInv
    BY DEF Init, PunishInv, MinutesClean, SuspendedKeptOut, LimitsReach, Online
  <2> QED
    BY <2>1, <2>2
<1>2. TypeOK /\ PunishInv /\ [Next]_vars => TypeOK' /\ PunishInv'
  BY TypeStep, PunishStep
<1> QED
  BY <1>1, <1>2, PTL DEF Spec

\* A suspended account is not online but for the cases that the history names:
\* Auth's check and the removal by every ban carry it, for any number of
\* accounts and members of staff.
THEOREM SuspensionsHold == Spec => []SuspendedKeptOut
<1>1. TypeOK /\ PunishInv => SuspendedKeptOut
  BY DEF PunishInv
<1> QED
  BY <1>1, PunishAlways, PTL

\* A limit of an account's row holds in its session, but for the statements
\* that failed, for any accounts and kinds of limits.
THEOREM LimitsHold == Spec => []LimitsReach
<1>1. TypeOK /\ PunishInv => LimitsReach
  BY DEF PunishInv
<1> QED
  BY <1>1, PunishAlways, PTL

(***************************************************************************)
(* Trade.                                                                  *)
(***************************************************************************)

-----------------------------------------------------------------------------
(* The greatest number of an inventory.                                     *)

Bounded(S) == \E b \in Nat : \A n \in S : n <= b

LEMMA LeastNatural ==
  ASSUME NEW T \in SUBSET Nat, T # {}
  PROVE  \E m \in T : \A n \in T : m <= n
<1> DEFINE R == {ss \in Nat \X Nat : ss[1] < ss[2]}
<1>1. IsWellFoundedOn(R, Nat)
  BY NatLessThanWellFounded DEF OpToRel
<1>2. PICK m \in T : \A n \in T : ~(<<n, m>> \in R)
  <2> HIDE DEF R
  <2> QED
    BY <1>1, WFMin
<1>3. \A n \in T : ~(n < m)
  BY <1>2
<1> QED
  BY <1>3

LEMMA LatestFacts ==
  ASSUME NEW i, DOMAIN i \subseteq Nat, Bounded(DOMAIN i)
  PROVE  Latest(i) \in Nat /\ \A n \in DOMAIN i : n <= Latest(i)
<1> DEFINE T == DOMAIN i \cup {0}
           U == {u \in Nat : \A n \in T : n <= u}
<1>1. U # {}
  BY DEF Bounded
<1>2. PICK m \in U : \A u \in U : m <= u
  BY <1>1, LeastNatural
<1>3. m \in T
  <2> SUFFICES ASSUME m \notin T
               PROVE  FALSE
    OBVIOUS
  <2>1. m - 1 \in Nat /\ \A n \in T : n <= m - 1
    BY <1>2
  <2> QED
    BY <1>2, <2>1
<1>4. \E l \in T : \A n \in DOMAIN i : n <= l
  BY <1>2, <1>3
<1> QED
  BY <1>4 DEF Latest

-----------------------------------------------------------------------------
(* Inventories, and what deleting and spawning make of them.                *)

ItemsOf(o) == {o[k].item : k \in DOMAIN o}

InventoryGood(i) ==
  /\ DOMAIN i \subseteq Nat \ {0} /\ Bounded(DOMAIN i)
  /\ Cardinality(DOMAIN i) <= Space
  /\ Owned(i) \subseteq Items

LEMMA SizeFacts ==
  ASSUME NEW i, InventoryGood(i)
  PROVE  IsFiniteSet(DOMAIN i) /\ Cardinality(DOMAIN i) \in Nat
<1>1. DOMAIN i \in SUBSET Nat /\ \E b \in Nat : \A n \in DOMAIN i : n <= b
  BY DEF InventoryGood, Bounded
<1>2. IsFiniteSet(DOMAIN i)
  BY <1>1, FS_BoundedSetOfNaturals
<1> QED
  BY <1>2, FS_CardinalityType

LEMMA WithoutGood ==
  ASSUME NEW i, InventoryGood(i), NEW nums
  PROVE  /\ InventoryGood(Without(i, nums))
         /\ Owned(Without(i, nums)) \subseteq Owned(i)
         /\ Cardinality(DOMAIN Without(i, nums)) <= Cardinality(DOMAIN i)
<1> DEFINE w == Without(i, nums)
<1>1. DOMAIN w \in SUBSET (DOMAIN i) /\ \A n \in DOMAIN w : w[n] = i[n]
  BY DEF Without
<1> HIDE DEF w
<1>2. Owned(w) \subseteq Owned(i)
  BY <1>1 DEF Owned
<1>3. /\ Cardinality(DOMAIN w) <= Cardinality(DOMAIN i)
      /\ Cardinality(DOMAIN w) \in Nat /\ Cardinality(DOMAIN i) \in Nat
  BY <1>1, SizeFacts, FS_Subset, FS_CardinalityType
<1>4. Bounded(DOMAIN w)
  BY <1>1 DEF Bounded, InventoryGood
<1>5. Cardinality(DOMAIN w) <= Space
  BY <1>3, SpaceAssumption DEF InventoryGood
<1> QED
  BY <1>1, <1>2, <1>3, <1>4, <1>5 DEF InventoryGood, w

\* addItem accepts as many items as there is space for.
LEMMA AcceptedFacts ==
  ASSUME NEW i, InventoryGood(i), NEW o \in Seq(Offered)
  PROVE  /\ Accepted(i, o) \in 0 .. Len(o)
         /\ Cardinality(DOMAIN i) + Accepted(i, o) <= Space
         /\ Cardinality(DOMAIN i) + Len(o) <= Space => Accepted(i, o) = Len(o)
<1> DEFINE c == Cardinality(DOMAIN i)
           l == IF c + Len(o) <= Space THEN Len(o) ELSE Space - c
<1>1. c \in Nat /\ c <= Space /\ Space \in Nat /\ Len(o) \in Nat /\ DOMAIN o = 1 .. Len(o)
  BY SizeFacts, SpaceAssumption DEF InventoryGood
<1>2. l \in Nat /\ l <= Len(o) /\ c + l <= Space
  BY <1>1
<1> DEFINE K == {k \in DOMAIN o : \A j \in 1 .. k : Fits(c + j - 1, 1)}
<1>3. K = 1 .. l
  <2>1. ASSUME NEW k \in 1 .. l
        PROVE  k \in K
    BY <1>1, <1>2, <2>1 DEF Fits
  <2>2. ASSUME NEW k \in K
        PROVE  k \in 1 .. l
    <3> SUFFICES ASSUME k > l
                 PROVE  FALSE
      BY <1>1, <1>2
    <3>1. k \in 1 .. Len(o) /\ l = Space - c
      BY <1>1, <2>2
    <3>2. l + 1 \in 1 .. k
      BY <1>1, <1>2, <3>1
    <3>3. Fits(c + (l + 1) - 1, 1)
      BY <2>2, <3>2
    <3>4. c + (l + 1) - 1 = Space
      BY <1>1, <3>1
    <3> QED
      BY <1>1, <3>3, <3>4 DEF Fits
  <2> QED
    BY <2>1, <2>2
<1>4. Accepted(i, o) = Cardinality(K)
  BY DEF Accepted
<1> HIDE DEF K, l
<1>5. Cardinality(K) = l
  BY <1>2, <1>3, FS_Interval
<1> QED
  BY <1>1, <1>2, <1>4, <1>5 DEF l

\* The numbers after the greatest one.
LEMMA NewNumbers ==
  ASSUME NEW last \in Nat, NEW a \in Nat
  PROVE  /\ IsFiniteSet(last + 1 .. last + a) /\ Cardinality(last + 1 .. last + a) = a
         /\ last + a \in Nat
         /\ \A n \in last + 1 .. last + a :
              n \in Nat \ {0} /\ n > last /\ n <= last + a /\ n - last \in 1 .. a
         /\ \A k \in 1 .. a : last + k \in last + 1 .. last + a /\ last + k - last = k
<1>1. last + 1 \in Int /\ last + a \in Int
  OBVIOUS
<1>2. /\ IsFiniteSet(last + 1 .. last + a)
      /\ Cardinality(last + 1 .. last + a) =
           IF last + 1 > last + a THEN 0 ELSE last + a - (last + 1) + 1
  BY <1>1, FS_Interval
<1>3. (IF last + 1 > last + a THEN 0 ELSE last + a - (last + 1) + 1) = a
  OBVIOUS
<1>4. /\ \A n \in last + 1 .. last + a :
           n \in Nat \ {0} /\ n > last /\ n <= last + a /\ n - last \in 1 .. a
      /\ \A k \in 1 .. a : last + k \in last + 1 .. last + a /\ last + k - last = k
  OBVIOUS
<1> QED
  BY <1>2, <1>3, <1>4

LEMMA SpawnGood ==
  ASSUME NEW i, InventoryGood(i), NEW o \in Seq(Offered)
  PROVE  /\ InventoryGood(AfterSpawn(i, o))
         /\ Owned(i) \subseteq Owned(AfterSpawn(i, o))
         /\ Owned(AfterSpawn(i, o)) \subseteq Owned(i) \cup ItemsOf(o)
         /\ Cardinality(DOMAIN i) + Len(o) <= Space => ItemsOf(o) \subseteq Owned(AfterSpawn(i, o))
<1>1. PICK last \in Nat : last = Latest(i)
  BY LatestFacts DEF InventoryGood
<1>2. PICK a \in Nat : a = Accepted(i, o)
  BY AcceptedFacts
<1>3. /\ a <= Len(o) /\ Cardinality(DOMAIN i) + a <= Space
      /\ Cardinality(DOMAIN i) + Len(o) <= Space => a = Len(o)
  BY <1>2, AcceptedFacts
<1>4. \A n \in DOMAIN i : n \in Nat \ {0} /\ n <= last
  BY <1>1, LatestFacts DEF InventoryGood
<1>5. Len(o) \in Nat /\ DOMAIN o = 1 .. Len(o) /\ 1 .. a \subseteq 1 .. Len(o)
  BY <1>3
<1>6. PICK new : new = last + 1 .. last + a
  OBVIOUS
<1>7. /\ IsFiniteSet(new) /\ Cardinality(new) = a /\ last + a \in Nat
      /\ \A n \in new : n \in Nat \ {0} /\ n > last /\ n <= last + a /\ n - last \in 1 .. a
      /\ \A k \in 1 .. a : last + k \in new /\ last + k - last = k
  BY <1>6, NewNumbers
<1>8. \A n \in new : n \notin DOMAIN i
  BY <1>4, <1>7
<1> DEFINE s == AfterSpawn(i, o)
<1>9. /\ DOMAIN s = DOMAIN i \cup new
      /\ \A n \in DOMAIN i : s[n] = i[n]
      /\ \A n \in new : s[n] = o[n - last].item
  BY <1>1, <1>2, <1>6, <1>8 DEF AfterSpawn
<1> HIDE DEF s
<1>10. Owned(i) \subseteq Owned(s)
  BY <1>9 DEF Owned
<1>11. Owned(s) \subseteq Owned(i) \cup ItemsOf(o)
  <2> SUFFICES ASSUME NEW n \in DOMAIN s
               PROVE  s[n] \in Owned(i) \cup ItemsOf(o)
    BY DEF Owned
  <2>1. CASE n \in DOMAIN i
    BY <1>9, <2>1 DEF Owned
  <2>2. CASE n \in new
    <3>1. n - last \in DOMAIN o
      BY <1>5, <1>7, <2>2
    <3>2. s[n] = o[n - last].item
      BY <1>9, <2>2
    <3> QED
      BY <3>1, <3>2 DEF ItemsOf
  <2> QED
    BY <1>9, <2>1, <2>2
<1>12. Cardinality(DOMAIN i) + Len(o) <= Space => ItemsOf(o) \subseteq Owned(s)
  <2> SUFFICES ASSUME a = Len(o), NEW k \in 1 .. a
               PROVE  o[k].item \in Owned(s)
    BY <1>3, <1>5 DEF ItemsOf
  <2>1. last + k \in new /\ last + k - last = k
    BY <1>7
  <2>2. s[last + k] = o[last + k - last].item /\ last + k \in DOMAIN s
    BY <1>9, <2>1
  <2> QED
    BY <2>1, <2>2 DEF Owned
<1>13. Cardinality(DOMAIN s) <= Space
  <2>1. IsFiniteSet(DOMAIN i) /\ Cardinality(DOMAIN i) \in Nat
    BY SizeFacts
  <2>2. DOMAIN i \cap new = {} /\ Cardinality(DOMAIN i \cap new) = 0
    BY <1>8, FS_EmptySet
  <2>3. Cardinality(DOMAIN i \cup new) =
          Cardinality(DOMAIN i) + Cardinality(new) - Cardinality(DOMAIN i \cap new)
    BY <1>7, <2>1, FS_Union
  <2>4. Cardinality(DOMAIN s) = Cardinality(DOMAIN i) + a
    BY <1>7, <1>9, <2>1, <2>2, <2>3
  <2> QED
    BY <1>3, <2>4
<1>14. Bounded(DOMAIN s)
  <2>1. \A n \in DOMAIN s : n <= last + a
    BY <1>4, <1>7, <1>9
  <2> QED
    BY <1>7, <2>1 DEF Bounded
<1>15. ItemsOf(o) \subseteq Items
  <2>1. \A k \in 1 .. Len(o) : o[k] \in Offered
    BY ElementOfSeq
  <2> QED
    BY <1>5, <2>1 DEF ItemsOf, Offered
<1>16. DOMAIN s \subseteq Nat \ {0}
  BY <1>4, <1>7, <1>9
<1>17. InventoryGood(s)
  BY <1>11, <1>13, <1>14, <1>15, <1>16 DEF InventoryGood
<1> QED
  BY <1>10, <1>11, <1>12, <1>17 DEF s

\* An exchange, on the side that gives o and gets w.
LEMMA ExchangedGood ==
  ASSUME NEW i, InventoryGood(i), NEW o \in Seq(Offered), NEW w \in Seq(Offered)
  PROVE  LET j == AfterSpawn(AfterDelete(i, o), w)
         IN  /\ InventoryGood(j)
             /\ Owned(AfterDelete(i, o)) \subseteq Owned(j)
             /\ Owned(j) \subseteq Owned(AfterDelete(i, o)) \cup ItemsOf(w)
             /\ Owned(AfterDelete(i, o)) \subseteq Owned(i)
             /\ EnoughSpace(i, Len(w)) => ItemsOf(w) \subseteq Owned(j)
<1> DEFINE d == AfterDelete(i, o)
<1>1. /\ InventoryGood(d) /\ Owned(d) \subseteq Owned(i)
      /\ Cardinality(DOMAIN d) <= Cardinality(DOMAIN i)
  BY WithoutGood DEF AfterDelete
<1> HIDE DEF d
<1>2. ASSUME EnoughSpace(i, Len(w))
      PROVE  Cardinality(DOMAIN d) + Len(w) <= Space
  <2>1. /\ Cardinality(DOMAIN d) \in Nat /\ Cardinality(DOMAIN i) \in Nat /\ Len(w) \in Nat
        /\ Space \in Nat /\ Cardinality(DOMAIN i) <= Space
    BY <1>1, SizeFacts, SpaceAssumption DEF InventoryGood
  <2> QED
    BY <1>1, <1>2, <2>1 DEF EnoughSpace, Fits
<1> QED
  BY <1>1, <1>2, SpawnGood DEF d

-----------------------------------------------------------------------------
(* The inductive invariant: nobody trades with himself, and inventories are  *)
(* what spawning and deleting make of them.                                  *)

TradeInv ==
  /\ TradeTypeOK
  /\ inv = [p \in Players |-> inv[p]]
  /\ \A p \in Players : InventoryGood(inv[p])
  /\ \A p \in Players : partner[p] # p

LEMMA MaxMpIsNatural == MaxMp \in Nat
BY MpWrapAssumption DEF MaxMp

LEMMA PayFacts ==
  ASSUME NEW m \in 0 .. MaxMp, NEW fees \in Nat
  PROVE  /\ Pay(m, fees) \in 0 .. MaxMp
         /\ fees <= MaxOffer + 1 => Pay(m, fees) <= m
<1> DEFINE half == MpWrap \div 2
<1>1. /\ MpWrap \in Nat /\ MpWrap > 1 /\ half \in Nat /\ MpWrap = 2 * half
      /\ MaxMp = half - 1 /\ MaxOffer + 1 <= half /\ MaxOffer \in Nat
  BY MpWrapAssumption, MaxOfferAssumption, FeesAssumption DEF MaxMp
<1> HIDE DEF half
<1>2. (m - fees) % MpWrap \in 0 .. MpWrap - 1 /\ m \in Nat /\ MaxMp \in Nat
  BY <1>1
<1>3. Pay(m, fees) \in 0 .. MaxMp
  BY <1>1, <1>2 DEF Pay
<1>4. ASSUME fees <= MaxOffer + 1
      PROVE  Pay(m, fees) <= m
  <2>1. CASE fees <= m
    <3>1. m - fees \in Nat /\ m - fees < MpWrap
      BY <1>1, <1>2, <2>1
    <3>2. (m - fees) % MpWrap = m - fees
      BY <1>1, <3>1
    <3> QED
      BY <1>2, <2>1, <3>2 DEF Pay
  <2>2. CASE fees > m
    <3>1. m - fees + MpWrap \in Nat /\ m - fees + MpWrap < MpWrap /\ m - fees + MpWrap > MaxMp
      BY <1>1, <1>2, <1>4, <2>2
    <3>2. (m - fees) % MpWrap = m - fees + MpWrap
      BY <1>1, <3>1
    <3> QED
      BY <1>2, <3>1, <3>2 DEF Pay
  <2> QED
    BY <1>2, <2>1, <2>2
<1> QED
  BY <1>3, <1>4

LEMMA ResetFacts ==
  ASSUME TradeTypeOK, \A p \in Players : partner[p] # p, NEW ps, Reset(ps)
  PROVE  /\ offer' \in [Players -> Seq(Offered)]
         /\ \A p \in Players : Len(offer'[p]) <= MaxOffer + 1
         /\ locked' \in [Players -> BOOLEAN] /\ inLobby' \in [Players -> BOOLEAN]
         /\ partner' \in [Players -> Players \cup {NoPlayer}]
         /\ \A p \in Players : partner'[p] # p
<1>1. /\ \A p \in Players : offer'[p] = <<>> \/ offer'[p] = offer[p]
      /\ offer' \in [Players -> Seq(Offered)]
  <2>1. <<>> \in Seq(Offered)
    OBVIOUS
  <2> QED
    BY <2>1 DEF Reset, TradeTypeOK
<1>2. \A p \in Players : Len(offer'[p]) <= MaxOffer + 1
  BY <1>1, MaxOfferAssumption DEF TradeTypeOK
<1>3. /\ partner' \in [Players -> Players \cup {NoPlayer}]
      /\ \A p \in Players : partner'[p] # p
  BY NoPlayerAssumption DEF Reset, TradeTypeOK
<1>4. locked' \in [Players -> BOOLEAN] /\ inLobby' \in [Players -> BOOLEAN]
  BY DEF Reset
<1> QED
  BY <1>1, <1>2, <1>3, <1>4

\* A request that leaves inventories and MicroPoints alone.
LEMMA TradeStep ==
  ASSUME TradeInv, NEW p \in Players,
         \/ \E q \in Players \ {p} : Initiate(p, q) \/ Decline(p, q)
         \/ LockTrade(p) \/ \E q \in Players : FinalizeRefused(p, q)
         \/ Cancel(p) \/ PartnerGone(p) \/ Logout(p) \/ Login(p)
         \/ \E b \in BOOLEAN : SetLobby(p, b)
  PROVE  TradeInv'
<1>1. UNCHANGED <<inv, mp, unborn>>
  BY DEF Initiate, Decline, LockTrade, FinalizeRefused, Cancel, PartnerGone, Logout, Login, SetLobby
<1>2. TradeTypeOK /\ \A q \in Players : partner[q] # q
  BY DEF TradeInv
<1>3. /\ offer' \in [Players -> Seq(Offered)]
      /\ \A q \in Players : Len(offer'[q]) <= MaxOffer + 1
      /\ locked' \in [Players -> BOOLEAN] /\ inLobby' \in [Players -> BOOLEAN]
      /\ partner' \in [Players -> Players \cup {NoPlayer}]
      /\ \A q \in Players : partner'[q] # q
  <2>1. CASE Cancel(p) \/ PartnerGone(p) \/ Logout(p)
    <3>1. PICK ps : Reset(ps)
      BY <2>1 DEF Cancel, PartnerGone, Logout
    <3> QED
      BY <1>2, <3>1, ResetFacts
  <2>2. CASE \E q \in Players \ {p} : Initiate(p, q) \/ Decline(p, q)
    <3>1. PICK q \in Players \ {p} : Initiate(p, q) \/ Decline(p, q)
      BY <2>2
    <3>2. /\ UNCHANGED <<offer, locked>>
          /\ inLobby' = inLobby \/ inLobby' = [inLobby EXCEPT ![p] = FALSE, ![q] = FALSE]
          /\ \/ partner' = [partner EXCEPT ![p] = q, ![q] = p]
             \/ partner' = [partner EXCEPT ![q] = p]
      BY <3>1 DEF Initiate, Decline
    <3>3. inLobby' \in [Players -> BOOLEAN]
      BY <1>2, <3>2 DEF TradeTypeOK
    <3>4. /\ partner' \in [Players -> Players \cup {NoPlayer}]
          /\ \A x \in Players : partner'[x] # x
      <4>1. partner \in [Players -> Players \cup {NoPlayer}] /\ q # p /\ q \in Players
        BY <1>2, <3>1 DEF TradeTypeOK
      <4>2. CASE partner' = [partner EXCEPT ![p] = q, ![q] = p]
        BY <1>2, <4>1, <4>2
      <4>3. CASE partner' = [partner EXCEPT ![q] = p]
        BY <1>2, <4>1, <4>3
      <4> QED
        BY <3>2, <4>2, <4>3
    <3> QED
      BY <1>2, <3>2, <3>3, <3>4 DEF TradeTypeOK
  <2>3. CASE LockTrade(p) \/ \E q \in Players : FinalizeRefused(p, q)
    BY <1>2, <2>3 DEF LockTrade, FinalizeRefused, TradeTypeOK
  <2>4. CASE Login(p) \/ \E b \in BOOLEAN : SetLobby(p, b)
    BY <1>2, <2>4 DEF Login, SetLobby, TradeTypeOK
  <2> QED
    BY <2>1, <2>2, <2>3, <2>4
<1>4. online' \in [Players -> BOOLEAN]
  BY <1>2 DEF TradeTypeOK, Initiate, Decline, LockTrade, FinalizeRefused, Cancel, PartnerGone,
               Logout, Login, SetLobby
<1>5. TradeTypeOK'
  BY <1>1, <1>2, <1>3, <1>4 DEF TradeTypeOK
<1> QED
  BY <1>1, <1>3, <1>5 DEF TradeInv

LEMMA OfferStep ==
  ASSUME TradeInv, NEW p \in Players,
         \/ \E n \in Numbers : AddItem(p, n)
         \/ \E k \in 1 .. MaxOffer + 1 : RemoveItem(p, k)
  PROVE  TradeInv'
<1>1. /\ offer[p] \in Seq(Offered) /\ Len(offer[p]) \in Nat /\ Len(offer[p]) <= MaxOffer + 1
      /\ offer \in [Players -> Seq(Offered)] /\ MaxOffer \in Nat
  BY MaxOfferAssumption DEF TradeInv, TradeTypeOK
<1>2. UNCHANGED <<inv, mp, locked, partner, inLobby, online, unborn>>
  BY DEF AddItem, RemoveItem
<1>3. PICK o : /\ offer' = [offer EXCEPT ![p] = o]
               /\ o \in Seq(Offered) /\ Len(o) <= MaxOffer + 1
  <2>1. CASE \E n \in Numbers : AddItem(p, n)
    <3>1. PICK n \in DOMAIN inv[p] :
            /\ offer' = [offer EXCEPT ![p] = Append(offer[p], [num |-> n, item |-> inv[p][n]])]
            /\ Len(offer[p]) <= MaxOffer
      BY <2>1 DEF AddItem
    <3>2. [num |-> n, item |-> inv[p][n]] \in Offered
      BY <3>1 DEF TradeInv, InventoryGood, Owned, Offered
    <3>3. /\ Append(offer[p], [num |-> n, item |-> inv[p][n]]) \in Seq(Offered)
          /\ Len(Append(offer[p], [num |-> n, item |-> inv[p][n]])) = Len(offer[p]) + 1
      BY <1>1, <3>2, AppendProperties
    <3>4. PICK o : o = Append(offer[p], [num |-> n, item |-> inv[p][n]])
      OBVIOUS
    <3>5. Len(o) <= MaxOffer + 1
      BY <1>1, <3>1, <3>3, <3>4
    <3> QED
      BY <3>1, <3>3, <3>4, <3>5
  <2>2. CASE \E k \in 1 .. MaxOffer + 1 : RemoveItem(p, k)
    <3>1. PICK k \in DOMAIN offer[p] :
            offer' = [offer EXCEPT ![p] =
                        SubSeq(offer[p], 1, k - 1) \o SubSeq(offer[p], k + 1, Len(offer[p]))]
      BY <2>2 DEF RemoveItem
    <3>2. k \in 1 .. Len(offer[p])
      BY <1>1
    <3>3. PICK a : a = SubSeq(offer[p], 1, k - 1)
      OBVIOUS
    <3>4. PICK b : b = SubSeq(offer[p], k + 1, Len(offer[p]))
      OBVIOUS
    <3>5. a \in Seq(Offered) /\ Len(a) = k - 1
      BY <1>1, <3>2, <3>3, SubSeqProperties
    <3>6. b \in Seq(Offered) /\ Len(b) = Len(offer[p]) - k
      BY <1>1, <3>2, <3>4, SubSeqProperties
    <3>7. a \o b \in Seq(Offered) /\ Len(a \o b) = Len(a) + Len(b)
      BY <3>5, <3>6, ConcatProperties
    <3>8. Len(a \o b) <= MaxOffer + 1
      BY <1>1, <3>2, <3>5, <3>6, <3>7
    <3>9. PICK o : o = a \o b
      OBVIOUS
    <3> QED
      BY <3>1, <3>3, <3>4, <3>7, <3>8, <3>9
  <2> QED
    BY <2>1, <2>2
<1>4. TradeTypeOK'
  BY <1>1, <1>2, <1>3 DEF TradeInv, TradeTypeOK
<1> QED
  BY <1>2, <1>4 DEF TradeInv

\* A request that replaces the inventories of some players.
LEMMA InventoriesStep ==
  ASSUME TradeInv, UNCHANGED <<offer, locked, partner, inLobby, online>>,
         inv' = [q \in Players |-> inv'[q]], \A q \in Players : InventoryGood(inv'[q]),
         mp' \in [Players -> 0 .. MaxMp], unborn' \subseteq Items
  PROVE  TradeInv'
<1>1. TradeTypeOK'
  BY DEF TradeInv, TradeTypeOK, InventoryGood
<1> QED
  BY <1>1 DEF TradeInv

LEMMA InventoryStep ==
  ASSUME TradeInv, NEW p \in Players,
         \/ \E n \in Numbers : LoseItem(p, n)
         \/ \E x \in Items : GainItem(p, x)
         \/ SpendMp(p)
  PROVE  TradeInv'
<1>1. UNCHANGED <<offer, locked, partner, inLobby, online>>
  BY DEF LoseItem, GainItem, SpendMp
<1>2. /\ mp \in [Players -> 0 .. MaxMp] /\ unborn \subseteq Items
      /\ inv = [q \in Players |-> inv[q]] /\ \A q \in Players : InventoryGood(inv[q])
  BY DEF TradeInv, TradeTypeOK
<1>3. CASE \E n \in Numbers : LoseItem(p, n)
  <2>1. PICK n : inv' = [inv EXCEPT ![p] = Without(inv[p], {n})]
    BY <1>3 DEF LoseItem
  <2>2. InventoryGood(Without(inv[p], {n}))
    BY <1>2, WithoutGood
  <2> QED
    BY <1>1, <1>2, <1>3, <2>1, <2>2, InventoriesStep DEF LoseItem
<1>4. CASE \E x \in Items : GainItem(p, x)
  <2>1. PICK x \in Items : GainItem(p, x)
    BY <1>4
  <2>2. PICK o : o = <<[num |-> 0, item |-> x]>>
    OBVIOUS
  <2>3. inv' = [inv EXCEPT ![p] = AfterSpawn(inv[p], o)] /\ unborn' \subseteq Items
    BY <1>2, <2>1, <2>2 DEF GainItem
  <2>4. o \in Seq(Offered)
    BY <2>2 DEF Offered
  <2>5. InventoryGood(AfterSpawn(inv[p], o))
    BY <1>2, <2>4, SpawnGood
  <2> QED
    BY <1>1, <1>2, <2>1, <2>3, <2>5, InventoriesStep DEF GainItem
<1>5. CASE SpendMp(p)
  <2>1. \A m \in 0 .. MaxMp : m > 0 => m - 1 \in 0 .. MaxMp
    BY MaxMpIsNatural
  <2>2. mp' = [mp EXCEPT ![p] = mp[p] - 1] /\ mp[p] > 0
    BY <1>5 DEF SpendMp
  <2>3. mp' \in [Players -> 0 .. MaxMp]
    BY <1>2, <2>1, <2>2
  <2> QED
    BY <1>1, <1>2, <1>5, <2>3, InventoriesStep DEF SpendMp
<1> QED
  BY <1>3, <1>4, <1>5

\* What a finalisation does to the two sides.
LEMMA ExchangeFacts ==
  ASSUME TradeInv, NEW p \in Players, NEW q \in Players, Exchange(p, q)
  PROVE  /\ p # q /\ partner[p] = q /\ locked[q]
         /\ DOMAIN inv' = Players /\ DOMAIN mp' = Players
         /\ inv' = [x \in Players |-> inv'[x]] /\ mp' = [x \in Players |-> mp'[x]]
         /\ inv'[p] = AfterSpawn(AfterDelete(inv[p], offer[p]), offer[q])
         /\ inv'[q] = AfterSpawn(AfterDelete(inv[q], offer[q]), offer[p])
         /\ mp'[p] = Pay(mp[p], Len(offer[p])) /\ mp'[q] = Pay(mp[q], Len(offer[q]))
         /\ \A x \in Players \ {p, q} : inv'[x] = inv[x] /\ mp'[x] = mp[x]
         /\ EnoughSpace(inv[q], Len(offer[p])) /\ EnoughSpace(inv[p], Len(offer[q]))
         /\ Reset({p, q}) /\ UNCHANGED <<online, unborn>>
<1>1. /\ partner[p] = q /\ locked[q] /\ Reset({p, q}) /\ UNCHANGED <<online, unborn>>
      /\ EnoughSpace(inv[q], Len(offer[p])) /\ EnoughSpace(inv[p], Len(offer[q]))
  BY DEF Exchange, MayExchange, HasSpaces
<1>2. /\ p # q /\ DOMAIN inv = Players /\ DOMAIN mp = Players
      /\ inv = [x \in Players |-> inv[x]] /\ mp = [x \in Players |-> mp[x]]
  BY <1>1 DEF TradeInv, TradeTypeOK
<1>3. PICK a : a = AfterSpawn(AfterDelete(inv[p], offer[p]), offer[q])
  OBVIOUS
<1>4. PICK b : b = AfterSpawn(AfterDelete(inv[q], offer[q]), offer[p])
  OBVIOUS
<1>5. inv' = [inv EXCEPT ![p] = a, ![q] = b]
  BY <1>2, <1>3, <1>4 DEF Exchange
<1>6. mp' = [mp EXCEPT ![p] = Pay(mp[p], Len(offer[p])), ![q] = Pay(mp[q], Len(offer[q]))]
  BY <1>2 DEF Exchange
<1>7. /\ DOMAIN inv' = Players /\ inv'[p] = a /\ inv'[q] = b
      /\ \A x \in Players \ {p, q} : inv'[x] = inv[x]
      /\ inv' = [x \in Players |-> inv'[x]]
  BY <1>2, <1>5
<1>8. /\ DOMAIN mp' = Players
      /\ mp'[p] = Pay(mp[p], Len(offer[p])) /\ mp'[q] = Pay(mp[q], Len(offer[q]))
      /\ \A x \in Players \ {p, q} : mp'[x] = mp[x]
      /\ mp' = [x \in Players |-> mp'[x]]
  <2> HIDE DEF Pay
  <2> QED
    BY <1>2, <1>6
<1> QED
  BY <1>1, <1>2, <1>3, <1>4, <1>7, <1>8

LEMMA ExchangeMoves ==
  ASSUME TradeInv, NEW p \in Players, NEW q \in Players, Exchange(p, q)
  PROVE  /\ p # q /\ partner[p] = q /\ locked[q]
         /\ Owned(inv'[p]) \subseteq Owned(inv[p]) \cup OfferedBy(q)
         /\ Owned(inv'[q]) \subseteq Owned(inv[q]) \cup OfferedBy(p)
         /\ \A x \in Players \ {p, q} : inv'[x] = inv[x]
<1>0. p # q /\ partner[p] = q /\ locked[q]
  BY DEF Exchange, MayExchange, TradeInv
<1>1. /\ inv'[p] = AfterSpawn(AfterDelete(inv[p], offer[p]), offer[q])
      /\ inv'[q] = AfterSpawn(AfterDelete(inv[q], offer[q]), offer[p])
      /\ \A x \in Players \ {p, q} : inv'[x] = inv[x] /\ mp'[x] = mp[x]
  BY ExchangeFacts
<1>2. /\ offer[p] \in Seq(Offered) /\ offer[q] \in Seq(Offered)
      /\ InventoryGood(inv[p]) /\ InventoryGood(inv[q])
  BY DEF TradeInv, TradeTypeOK
<1>3. OfferedBy(p) = ItemsOf(offer[p]) /\ OfferedBy(q) = ItemsOf(offer[q])
  BY DEF OfferedBy, ItemsOf
<1>4. /\ Owned(inv'[p]) \subseteq Owned(inv[p]) \cup ItemsOf(offer[q])
      /\ Owned(inv'[q]) \subseteq Owned(inv[q]) \cup ItemsOf(offer[p])
  BY <1>1, <1>2, ExchangedGood
<1> QED
  BY <1>0, <1>1, <1>3, <1>4

LEMMA ExchangeStep ==
  ASSUME TradeInv, NEW p \in Players, NEW q \in Players, Exchange(p, q)
  PROVE  TradeInv'
<1>1. /\ TradeTypeOK /\ \A x \in Players : InventoryGood(inv[x])
      /\ \A x \in Players : partner[x] # x
      /\ offer[p] \in Seq(Offered) /\ offer[q] \in Seq(Offered)
      /\ Len(offer[p]) \in Nat /\ Len(offer[q]) \in Nat
      /\ mp \in [Players -> 0 .. MaxMp]
  BY DEF TradeInv, TradeTypeOK
<1>0. /\ inv'[p] = AfterSpawn(AfterDelete(inv[p], offer[p]), offer[q])
      /\ inv'[q] = AfterSpawn(AfterDelete(inv[q], offer[q]), offer[p])
      /\ mp'[p] = Pay(mp[p], Len(offer[p])) /\ mp'[q] = Pay(mp[q], Len(offer[q]))
      /\ \A x \in Players \ {p, q} : inv'[x] = inv[x] /\ mp'[x] = mp[x]
      /\ mp' = [x \in Players |-> mp'[x]]
  BY ExchangeFacts
<1>2. InventoryGood(inv'[p]) /\ InventoryGood(inv'[q])
  BY <1>0, <1>1, ExchangedGood
<1>3. \A x \in Players : InventoryGood(inv'[x])
  BY <1>0, <1>1, <1>2
<1>4. mp' \in [Players -> 0 .. MaxMp]
  <2>1. mp'[p] \in 0 .. MaxMp /\ mp'[q] \in 0 .. MaxMp
    BY <1>0, <1>1, PayFacts
  <2>2. \A x \in Players : mp'[x] \in 0 .. MaxMp
    BY <1>0, <1>1, <2>1
  <2> QED
    BY <1>0, <2>2
<1>5. /\ Reset({p, q}) /\ UNCHANGED <<online, unborn>> /\ inv' = [x \in Players |-> inv'[x]]
  BY ExchangeFacts
<1>6. TradeTypeOK'
  BY <1>1, <1>3, <1>4, <1>5, ResetFacts DEF TradeTypeOK, InventoryGood
<1> QED
  BY <1>1, <1>3, <1>5, <1>6, ResetFacts DEF TradeInv

LEMMA InitGood == TradeInit => TradeInv
<1> SUFFICES ASSUME TradeInit
             PROVE  TradeInv
  OBVIOUS
<1>1. InventoryGood(<<>>)
  <2>1. DOMAIN <<>> = {} /\ Cardinality({}) = 0 /\ Owned(<<>>) = {}
    BY FS_EmptySet DEF Owned
  <2> QED
    BY <2>1, SpaceAssumption DEF InventoryGood, Bounded
<1>2. \A p \in Players : InventoryGood(inv[p])
  BY <1>1 DEF TradeInit
<1>3. mp \in [Players -> 0 .. MaxMp]
  BY MaxMpIsNatural DEF TradeInit
<1>4. offer \in [Players -> Seq(Offered)] /\ \A p \in Players : Len(offer[p]) <= MaxOffer + 1
  BY MaxOfferAssumption DEF TradeInit
<1>5. /\ partner \in [Players -> Players \cup {NoPlayer}] /\ \A p \in Players : partner[p] # p
      /\ locked \in [Players -> BOOLEAN] /\ inLobby \in [Players -> BOOLEAN]
      /\ online \in [Players -> BOOLEAN] /\ unborn \subseteq Items
      /\ inv = [p \in Players |-> inv[p]]
  BY NoPlayerAssumption DEF TradeInit
<1>6. TradeTypeOK
  BY <1>2, <1>3, <1>4, <1>5 DEF TradeTypeOK, InventoryGood
<1> QED
  BY <1>2, <1>5, <1>6 DEF TradeInv

LEMMA InvAlways == TradeSpec => []TradeInv
<1>1. ASSUME TradeInv, [TradeNext]_tradeVars
      PROVE  TradeInv'
  <2>1. CASE UNCHANGED tradeVars
    BY <1>1, <2>1 DEF tradeVars, TradeInv, TradeTypeOK
  <2>2. CASE TradeNext
    BY <1>1, <2>2, TradeStep, OfferStep, InventoryStep, ExchangeStep DEF TradeNext
  <2> QED
    BY <1>1, <2>1, <2>2
<1> QED
  BY <1>1, InitGood, PTL DEF TradeSpec

-----------------------------------------------------------------------------
(* Theorems.                                                               *)

\* Inventories, MicroPoints and trades keep their types, for any space and any
\* size of an offer: no handler gets an inventory over its space, and the
\* unsigned MicroPoints stay below 2^31.
THEOREM TradeTypeCorrect == TradeSpec => []TradeTypeOK
<1>1. TradeInv => TradeTypeOK
  BY DEF TradeInv
<1> QED
  BY <1>1, InvAlways, PTL

\* Items change hands only by a finalisation, of a player that names the other
\* as its partner when the other has locked, and only out of the other's offer.
THEOREM MovesCorrect == TradeSpec => MovesOnlyByTrade
<1> DEFINE Moves ==
      \A p \in Players : \A x \in Owned(inv'[p]) \ (Owned(inv[p]) \cup unborn) :
        \E q \in Players \ {p} :
          /\ x \in OfferedBy(q)
          /\ \/ partner[p] = q /\ locked[q]
             \/ partner[q] = p /\ locked[p]
<1>1. ASSUME TradeInv, [TradeNext]_tradeVars
      PROVE  [Moves]_tradeVars
  <2>1. ASSUME NEW a \in Players,
               ~(\E n \in Numbers : LoseItem(a, n)), ~(\E x \in Items : GainItem(a, x)),
               ~(\E q \in Players : Exchange(a, q)),
               \/ \E q \in Players \ {a} : Initiate(a, q) \/ Decline(a, q)
               \/ \E n \in Numbers : AddItem(a, n)
               \/ \E k \in 1 .. MaxOffer + 1 : RemoveItem(a, k)
               \/ LockTrade(a) \/ \E q \in Players : FinalizeRefused(a, q)
               \/ Cancel(a) \/ PartnerGone(a) \/ \E b \in BOOLEAN : SetLobby(a, b)
               \/ SpendMp(a) \/ Logout(a) \/ Login(a)
        PROVE  Moves
    <3>1. inv' = inv
      BY <2>1 DEF Initiate, Decline, AddItem, RemoveItem, LockTrade, FinalizeRefused, Cancel,
                  PartnerGone, SetLobby, SpendMp, Logout, Login
    <3> QED
      BY <3>1
  <2>2. ASSUME NEW a \in Players, NEW n, LoseItem(a, n)
        PROVE  Moves
    <3>1. \A p \in Players : Owned(inv'[p]) \subseteq Owned(inv[p])
      <4>1. inv' = [inv EXCEPT ![a] = Without(inv[a], {n})] /\ DOMAIN inv = Players
        BY <1>1, <2>2 DEF LoseItem, TradeInv
      <4>2. Owned(Without(inv[a], {n})) \subseteq Owned(inv[a])
        BY <1>1, WithoutGood DEF TradeInv
      <4> QED
        BY <4>1, <4>2
    <3> QED
      BY <3>1
  <2>3. ASSUME NEW a \in Players, NEW x \in Items, GainItem(a, x)
        PROVE  Moves
    <3>1. PICK o : o = <<[num |-> 0, item |-> x]>>
      OBVIOUS
    <3>2. o \in Seq(Offered) /\ ItemsOf(o) = {x}
      BY <3>1 DEF Offered, ItemsOf
    <3>3. /\ inv' = [inv EXCEPT ![a] = AfterSpawn(inv[a], o)] /\ DOMAIN inv = Players
          /\ x \in unborn
      BY <1>1, <2>3, <3>1 DEF GainItem, TradeInv
    <3>4. Owned(AfterSpawn(inv[a], o)) \subseteq Owned(inv[a]) \cup {x}
      BY <1>1, <3>2, SpawnGood DEF TradeInv
    <3>5. \A p \in Players : Owned(inv'[p]) \subseteq Owned(inv[p]) \cup unborn
      BY <3>3, <3>4
    <3> QED
      BY <3>5
  <2>4. ASSUME NEW a \in Players, NEW b \in Players, Exchange(a, b)
        PROVE  Moves
    <3>1. /\ a # b /\ partner[a] = b /\ locked[b]
          /\ \A p \in Players \ {a, b} : inv'[p] = inv[p]
          /\ Owned(inv'[a]) \subseteq Owned(inv[a]) \cup OfferedBy(b)
          /\ Owned(inv'[b]) \subseteq Owned(inv[b]) \cup OfferedBy(a)
      BY <1>1, <2>4, ExchangeMoves
    <3> SUFFICES ASSUME NEW p \in Players, NEW x \in Owned(inv'[p]) \ (Owned(inv[p]) \cup unborn)
                 PROVE  \E q \in Players \ {p} :
                          /\ x \in OfferedBy(q)
                          /\ \/ partner[p] = q /\ locked[q]
                             \/ partner[q] = p /\ locked[p]
      OBVIOUS
    <3>2. CASE p = a
      BY <3>1, <3>2
    <3>3. CASE p = b
      BY <3>1, <3>3
    <3> QED
      BY <3>1, <3>2, <3>3
  <2>5. CASE UNCHANGED tradeVars
    BY <2>5 DEF tradeVars
  <2> QED
    BY <1>1, <2>1, <2>2, <2>3, <2>4, <2>5 DEF TradeNext
<1> QED
  BY <1>1, InvAlways, PTL DEF TradeSpec, MovesOnlyByTrade

\* An inventory whose items are as many as its numbers has no item twice.
Distinct(i) == \A m, n \in DOMAIN i : i[m] = i[n] => m = n

LEMMA OwnedCount ==
  ASSUME NEW i, InventoryGood(i)
  PROVE  /\ IsFiniteSet(Owned(i)) /\ Cardinality(Owned(i)) <= Cardinality(DOMAIN i)
         /\ Cardinality(Owned(i)) = Cardinality(DOMAIN i) => Distinct(i)
<1> DEFINE f == [n \in DOMAIN i |-> i[n]]
<1>1. IsFiniteSet(DOMAIN i)
  BY SizeFacts
<1>2. f \in Surjection(DOMAIN i, Owned(i))
  BY DEF Surjection, Owned
<1>3. /\ IsFiniteSet(Owned(i)) /\ Cardinality(Owned(i)) <= Cardinality(DOMAIN i)
      /\ Cardinality(Owned(i)) = Cardinality(DOMAIN i) <=> f \in Injection(DOMAIN i, Owned(i))
  BY <1>1, <1>2, FS_Surjection
<1>4. f \in Injection(DOMAIN i, Owned(i)) => Distinct(i)
  <2>1. \A n \in DOMAIN i : f[n] = i[n]
    OBVIOUS
  <2> HIDE DEF f
  <2> QED
    BY <2>1 DEF Injection, IsInjective, Distinct
<1> QED
  BY <1>3, <1>4

LEMMA BothDistinct ==
  ASSUME NEW i, InventoryGood(i), NEW j, InventoryGood(j),
         Cardinality(Owned(i) \cup Owned(j)) = Cardinality(DOMAIN i) + Cardinality(DOMAIN j)
  PROVE  Distinct(i) /\ Distinct(j)
<1>1. /\ Cardinality(DOMAIN i) \in Nat /\ Cardinality(DOMAIN j) \in Nat
      /\ IsFiniteSet(Owned(i)) /\ IsFiniteSet(Owned(j))
      /\ Cardinality(Owned(i)) <= Cardinality(DOMAIN i)
      /\ Cardinality(Owned(j)) <= Cardinality(DOMAIN j)
  BY SizeFacts, OwnedCount
<1>2. PICK both : both = Owned(i) \cap Owned(j)
  OBVIOUS
<1>3. Cardinality(Owned(i) \cup Owned(j)) = Cardinality(Owned(i)) + Cardinality(Owned(j)) - Cardinality(both)
  BY <1>1, <1>2, FS_Union
<1>4. /\ Cardinality(Owned(i)) \in Nat /\ Cardinality(Owned(j)) \in Nat /\ Cardinality(both) \in Nat
  BY <1>1, <1>2, FS_CardinalityType, FS_Intersection
<1>5. /\ Cardinality(Owned(i)) = Cardinality(DOMAIN i)
      /\ Cardinality(Owned(j)) = Cardinality(DOMAIN j)
  BY <1>1, <1>3, <1>4
<1> QED
  BY <1>5, OwnedCount

\* deleteItems with numbers that are all there.
LEMMA DeletedExactly ==
  ASSUME NEW i, InventoryGood(i), Distinct(i), NEW o \in Seq(Offered),
         \A k \in DOMAIN o : o[k].num \in DOMAIN i /\ i[o[k].num] = o[k].item
  PROVE  Owned(AfterDelete(i, o)) = Owned(i) \ ItemsOf(o)
<1> DEFINE d == AfterDelete(i, o)
           nums == {o[k].num : k \in DOMAIN o}
<1>1. Deleted(i, o) = nums
  <2>1. \A k \in DOMAIN o : \A j \in 1 .. k : j \in DOMAIN o
    OBVIOUS
  <2> QED
    BY <2>1 DEF Deleted
<1>2. DOMAIN d = DOMAIN i \ nums /\ \A n \in DOMAIN d : d[n] = i[n]
  BY <1>1 DEF AfterDelete, Without
<1> HIDE DEF d
<1>3. ASSUME NEW n \in DOMAIN i
      PROVE  n \in nums <=> i[n] \in ItemsOf(o)
  BY DEF ItemsOf, Distinct
<1> HIDE DEF nums
<1>4. Owned(d) = Owned(i) \ ItemsOf(o)
  BY <1>2, <1>3 DEF Owned
<1> QED
  BY <1>4 DEF d

\* A finalisation delivers every item of both offers; when both offers are up
\* to date and no item is there twice, it swaps exactly the offered items, and
\* no unsigned subtraction of the fee makes anybody richer.
THEOREM ExchangeCorrect == TradeSpec => ExchangeExact
<1> DEFINE Exact ==
      \A p, q \in Players :
        Exchange(p, q) =>
          /\ OfferedBy(q) \subseteq Owned(inv'[p])
          /\ OfferedBy(p) \subseteq Owned(inv'[q])
          /\ Exchangeable(p, q) =>
               /\ Owned(inv'[p]) = (Owned(inv[p]) \ OfferedBy(p)) \cup OfferedBy(q)
               /\ Owned(inv'[q]) = (Owned(inv[q]) \ OfferedBy(q)) \cup OfferedBy(p)
               /\ mp'[p] <= mp[p] /\ mp'[q] <= mp[q]
<1>1. ASSUME TradeInv, NEW p \in Players, NEW q \in Players, Exchange(p, q)
      PROVE  /\ OfferedBy(q) \subseteq Owned(inv'[p])
             /\ OfferedBy(p) \subseteq Owned(inv'[q])
             /\ Exchangeable(p, q) =>
                  /\ Owned(inv'[p]) = (Owned(inv[p]) \ OfferedBy(p)) \cup OfferedBy(q)
                  /\ Owned(inv'[q]) = (Owned(inv[q]) \ OfferedBy(q)) \cup OfferedBy(p)
                  /\ mp'[p] <= mp[p] /\ mp'[q] <= mp[q]
  <2>1. /\ inv'[p] = AfterSpawn(AfterDelete(inv[p], offer[p]), offer[q])
        /\ inv'[q] = AfterSpawn(AfterDelete(inv[q], offer[q]), offer[p])
        /\ mp'[p] = Pay(mp[p], Len(offer[p])) /\ mp'[q] = Pay(mp[q], Len(offer[q]))
    BY <1>1, ExchangeFacts
  <2>2. EnoughSpace(inv[q], Len(offer[p])) /\ EnoughSpace(inv[p], Len(offer[q]))
    BY <1>1 DEF Exchange, MayExchange, HasSpaces
  <2>3. /\ offer[p] \in Seq(Offered) /\ offer[q] \in Seq(Offered)
        /\ InventoryGood(inv[p]) /\ InventoryGood(inv[q])
        /\ mp[p] \in 0 .. MaxMp /\ mp[q] \in 0 .. MaxMp
        /\ Len(offer[p]) \in Nat /\ Len(offer[q]) \in Nat
        /\ Len(offer[p]) <= MaxOffer + 1 /\ Len(offer[q]) <= MaxOffer + 1
    BY <1>1 DEF TradeInv, TradeTypeOK
  <2>4. OfferedBy(p) = ItemsOf(offer[p]) /\ OfferedBy(q) = ItemsOf(offer[q])
    BY DEF OfferedBy, ItemsOf
  <2>5. /\ ItemsOf(offer[q]) \subseteq Owned(inv'[p])
        /\ ItemsOf(offer[p]) \subseteq Owned(inv'[q])
        /\ Owned(AfterDelete(inv[p], offer[p])) \subseteq Owned(inv'[p])
        /\ Owned(AfterDelete(inv[q], offer[q])) \subseteq Owned(inv'[q])
        /\ Owned(inv'[p]) \subseteq Owned(AfterDelete(inv[p], offer[p])) \cup ItemsOf(offer[q])
        /\ Owned(inv'[q]) \subseteq Owned(AfterDelete(inv[q], offer[q])) \cup ItemsOf(offer[p])
    BY <2>1, <2>2, <2>3, ExchangedGood
  <2>6. ASSUME Exchangeable(p, q)
        PROVE  /\ Owned(AfterDelete(inv[p], offer[p])) = Owned(inv[p]) \ ItemsOf(offer[p])
               /\ Owned(AfterDelete(inv[q], offer[q])) = Owned(inv[q]) \ ItemsOf(offer[q])
    <3>1. Distinct(inv[p]) /\ Distinct(inv[q])
      BY <2>3, <2>6, BothDistinct DEF Exchangeable
    <3> QED
      BY <2>3, <2>6, <3>1, DeletedExactly DEF Exchangeable, UpToDate
  <2>7. mp'[p] <= mp[p] /\ mp'[q] <= mp[q]
    BY <2>1, <2>3, PayFacts
  <2> QED
    BY <2>4, <2>5, <2>6, <2>7
<1>2. ASSUME TradeInv, [TradeNext]_tradeVars
      PROVE  [Exact]_tradeVars
  BY <1>1, <1>2
<1> QED
  BY <1>2, InvAlways, PTL DEF TradeSpec, ExchangeExact
=============================================================================
