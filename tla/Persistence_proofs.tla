------------------------- MODULE Persistence_proofs -------------------------
(* Proofs about Persistence: typing, the write-behind store it implements,  *)
(* and the columns once nothing waits.                                      *)
EXTENDS Persistence, WellFoundedInduction, TLAPS

Jobs == [phase : {"idle", "taken", "running"},
         inc : [Accounts -> SUBSET Entries],
         nor : [Accounts -> [Keys -> Values]]]

LEMMA IdleIsJob == Idle \in Jobs /\ NoCallbacks \in [Keys -> Values]
BY MaxUpdatesAssumption DEF Idle, Jobs, NoCallbacks, Values

LEMMA LessIsWellFounded ==
  IsWellFoundedOn({p \in Nat \X Nat : p[1] < p[2]}, Nat)
<1>1. OpToRel(<, Nat) = {p \in Nat \X Nat : p[1] < p[2]}
  BY Zenon DEF OpToRel
<1> QED
  BY <1>1, NatLessThanWellFounded, Zenon

\* The entry that runs next is one of those that wait, with the least key.
LEMMA NextEntryIsLeast ==
  ASSUME NEW S \in SUBSET Entries, S # {}
  PROVE  NextEntry(S) \in S /\ \A f \in S : NextEntry(S).key <= f.key
<1> DEFINE T == {e.key : e \in S}
           R == {p \in Nat \X Nat : p[1] < p[2]}
<1>1. T \subseteq Nat /\ T # {}
  BY DEF Entries
<1>2. \E n \in T : \A m \in T : ~ (<<m, n>> \in R)
  <2> HIDE DEF T, R
  <2>1. IsWellFoundedOn(R, Nat)
    BY LessIsWellFounded DEF R
  <2> QED
    BY <1>1, <2>1, WFMin, Zenon
<1>3. \E n \in T : \A m \in T : n <= m
  <2>1. PICK n \in T : \A m \in T : <<m, n>> \notin R
    BY <1>2
  <2>2. ASSUME NEW m \in T PROVE n <= m
    <3>1. m \in Nat /\ n \in Nat /\ ~ (m < n)
      BY <1>1, <2>1
    <3> QED
      BY <3>1
  <2> QED
    BY <2>2
<1>4. \E e \in S : \A f \in S : e.key <= f.key
  BY <1>3
<1> QED
  BY <1>4 DEF NextEntry

-----------------------------------------------------------------------------
(* Typing.                                                                 *)

LEMMA NewStamp ==
  ASSUME TypeOK, issued < MaxUpdates
  PROVE  issued + 1 \in Stamps /\ issued + 1 \in Values
BY MaxUpdatesAssumption DEF TypeOK, Stamps, Values

\* A thread that runs one of its callbacks is done with that one only.
LEMMA IncrementalKeepsJobs ==
  ASSUME TypeOK, NEW t \in Threads, NEW a \in Accounts, NEW X \in SUBSET Entries
  PROVE  /\ [job EXCEPT ![t].inc[a] = X] \in [Threads -> Jobs]
         /\ \A u \in Threads : [job EXCEPT ![t].inc[a] = X][u].phase = job[u].phase
<1>1. job[t] \in Jobs /\ job \in [Threads -> Jobs]
  BY DEF TypeOK, Jobs
<1>2. [job[t].inc EXCEPT ![a] = X] \in [Accounts -> SUBSET Entries]
  BY <1>1 DEF Jobs
<1>3. /\ [job[t] EXCEPT !.inc[a] = X] \in Jobs
      /\ [job[t] EXCEPT !.inc[a] = X].phase = job[t].phase
  BY <1>1, <1>2 DEF Jobs
<1> QED
  BY <1>1, <1>3

LEMMA NormalKeepsJobs ==
  ASSUME TypeOK, NEW t \in Threads, NEW a \in Accounts, NEW k \in Keys
  PROVE  /\ [job EXCEPT ![t].nor[a][k] = 0] \in [Threads -> Jobs]
         /\ \A u \in Threads : [job EXCEPT ![t].nor[a][k] = 0][u].phase = job[u].phase
<1>1. job[t] \in Jobs /\ job \in [Threads -> Jobs]
  BY DEF TypeOK, Jobs
<1>2. [job[t].nor EXCEPT ![a][k] = 0] \in [Accounts -> [Keys -> Values]]
  BY <1>1, MaxUpdatesAssumption DEF Jobs, Values
<1>3. /\ [job[t] EXCEPT !.nor[a][k] = 0] \in Jobs
      /\ [job[t] EXCEPT !.nor[a][k] = 0].phase = job[t].phase
  BY <1>1, <1>2 DEF Jobs
<1> QED
  BY <1>1, <1>3

\* What a step of RunIncremental does to the batch and to the database.
Runs(t, a, e) ==
  /\ \A f \in job[t].inc[a] : e.key <= f.key
  /\ job' = [job EXCEPT ![t].inc[a] = @ \ {e}]
  /\ \/ /\ applied' = [applied EXCEPT ![a] = Append(@, e.stamp)]
        /\ db' = [db EXCEPT ![a] =
             [k \in Keys |-> IF e.kind = "snapshot" /\ k \in SnapshotKeys
                             THEN e.stamp ELSE @[k]]]
        /\ gone' = gone
     \/ /\ gone' = gone \cup {e.stamp}
        /\ UNCHANGED <<applied, db>>

LEMMA RunsTheLeast ==
  ASSUME TypeOK, NEW t \in Threads, RunIncremental(t)
  PROVE  \E a \in Accounts : \E e \in job[t].inc[a] : Runs(t, a, e)
<1>1. PICK a \in Accounts :
        job[t].inc[a] # {} /\ Runs(t, a, NextEntry(job[t].inc[a]))
  <2>1. \A a \in Accounts : job[t].inc[a] \in SUBSET Entries
    BY DEF TypeOK
  <2> QED
    BY <2>1, NextEntryIsLeast DEF RunIncremental, Runs
<1>2. job[t].inc[a] \in SUBSET Entries
  BY DEF TypeOK
<1> QED
  BY <1>1, <1>2, NextEntryIsLeast

LEMMA RunIncrementalTyped ==
  ASSUME TypeOK, NEW t \in Threads, RunIncremental(t)
  PROVE  TypeOK'
<1>1. PICK a \in Accounts : \E e \in job[t].inc[a] : Runs(t, a, e)
  BY RunsTheLeast
<1>2. PICK e \in job[t].inc[a] : Runs(t, a, e)
  BY <1>1
<1>3. job[t].inc[a] \in SUBSET Entries
  BY DEF TypeOK
<1>4. e \in Entries /\ e.stamp \in Stamps /\ e.stamp \in Values
  BY <1>3, MaxUpdatesAssumption DEF Entries, Stamps, Values
<1>5. applied' \in [Accounts -> Seq(Stamps)] /\ gone' \subseteq Stamps
  <2>1. applied[a] \in Seq(Stamps)
    BY DEF TypeOK
  <2>2. Append(applied[a], e.stamp) \in Seq(Stamps)
    BY <1>4, <2>1
  <2>3. \/ applied' = [applied EXCEPT ![a] = Append(applied[a], e.stamp)]
        \/ applied' = applied
    BY <1>2 DEF Runs
  <2>4. gone' = gone \/ gone' = gone \cup {e.stamp}
    BY <1>2 DEF Runs
  <2>5. gone' \subseteq Stamps
    BY <1>4, <2>4 DEF TypeOK
  <2>6. applied' \in [Accounts -> Seq(Stamps)]
    <3>1. applied \in [Accounts -> Seq(Stamps)]
      BY DEF TypeOK
    <3> QED
      BY <3>1, <2>2, <2>3
  <2> QED
    BY <2>5, <2>6
<1>6. db' \in [Accounts -> [Keys -> Values]]
  <2> DEFINE row == [k \in Keys |-> IF e.kind = "snapshot" /\ k \in SnapshotKeys
                                    THEN e.stamp ELSE db[a][k]]
  <2>1. row \in [Keys -> Values]
    BY <1>4 DEF TypeOK
  <2>2. db' = db \/ db' = [db EXCEPT ![a] = row]
    BY <1>2 DEF Runs
  <2> QED
    BY <2>1, <2>2 DEF TypeOK
<1>7. /\ job' \in [Threads -> Jobs]
      /\ \A u \in Threads : job'[u].phase = job[u].phase
  <2> DEFINE X == job[t].inc[a] \ {e}
  <2>1. X \in SUBSET Entries
    BY <1>3
  <2>2. job' = [job EXCEPT ![t].inc[a] = X]
    BY <1>2 DEF Runs
  <2> HIDE DEF X
  <2> QED
    BY <2>1, <2>2, IncrementalKeepsJobs
<1> QED
  BY <1>5, <1>6, <1>7 DEF RunIncremental, Jobs, TypeOK

LEMMA RunNormalTyped ==
  ASSUME TypeOK, NEW t \in Threads, RunNormal(t)
  PROVE  TypeOK'
<1>1. PICK a \in Accounts, k \in Keys :
        /\ job[t].nor[a][k] # 0
        /\ job' = [job EXCEPT ![t].nor[a][k] = 0]
        /\ \/ /\ db' = [db EXCEPT ![a][k] = job[t].nor[a][k]]
              /\ gone' = gone
           \/ /\ gone' = gone \cup {job[t].nor[a][k]}
              /\ db' = db
  BY DEF RunNormal
<1>2. job[t].nor[a][k] \in Values /\ job[t].nor[a][k] \in Stamps
  BY <1>1, MaxUpdatesAssumption DEF Values, Stamps, TypeOK
<1>3. /\ job' \in [Threads -> Jobs]
      /\ \A u \in Threads : job'[u].phase = job[u].phase
  BY <1>1, NormalKeepsJobs
<1>4. db' \in [Accounts -> [Keys -> Values]] /\ gone' \subseteq Stamps
  <2> DEFINE v == job[t].nor[a][k]
  <2>1. v \in Values /\ v \in Stamps
    BY <1>2
  <2>2. /\ db' = db \/ db' = [db EXCEPT ![a][k] = v]
        /\ gone' = gone \/ gone' = gone \cup {v}
    BY <1>1
  <2> HIDE DEF v
  <2>3. db \in [Accounts -> [Keys -> Values]] /\ gone \subseteq Stamps
    BY DEF TypeOK
  <2>4. [db[a] EXCEPT ![k] = v] \in [Keys -> Values]
    BY <2>1, <2>3
  <2>5. db' = db \/ db' = [db EXCEPT ![a] = [db[a] EXCEPT ![k] = v]]
    BY <2>2
  <2> QED
    BY <2>1, <2>2, <2>3, <2>4, <2>5
<1> QED
  BY <1>3, <1>4 DEF RunNormal, Jobs, TypeOK

LEMMA TypeStep == TypeOK /\ [Next]_vars => TypeOK'
<1> SUFFICES ASSUME TypeOK, [Next]_vars PROVE TypeOK'
  OBVIOUS
<1>1. ASSUME NEW a \in Accounts, NEW k \in Keys, SetColumn(a, k) PROVE TypeOK'
  BY <1>1, NewStamp DEF SetColumn, TypeOK
<1>2. ASSUME NEW a \in Accounts, Insert(a) PROVE TypeOK'
  <2>1. [key |-> incKey', stamp |-> issued', kind |-> "insert"] \in Entries
    BY <1>2, NewStamp DEF Insert, Entries, Kinds, TypeOK
  <2> QED
    BY <1>2, <2>1, NewStamp DEF Insert, Put, TypeOK
<1>3. ASSUME NEW a \in Accounts, Snapshot(a) PROVE TypeOK'
  <2>1. [key |-> incKey', stamp |-> issued', kind |-> "snapshot"] \in Entries
    BY <1>3, NewStamp DEF Snapshot, Entries, Kinds, TypeOK
  <2> QED
    BY <1>3, <2>1, NewStamp DEF Snapshot, Put, TypeOK
<1>4. ASSUME NEW a \in Accounts, Login(a) PROVE TypeOK'
  BY <1>4 DEF Login, TypeOK
<1>5. ASSUME NEW a \in Accounts, PersistForTake(a) PROVE TypeOK'
  BY <1>5, IdleIsJob DEF PersistForTake, Jobs, Idle, Threads, IoFree, TypeOK
<1>6. CASE PersistTake
  BY <1>6, IdleIsJob DEF PersistTake, Jobs, Threads, TypeOK
<1>7. ASSUME NEW t \in Threads, Lock(t) PROVE TypeOK'
  BY <1>7 DEF Lock, Threads, TypeOK
<1>8. ASSUME NEW t \in Threads, RunIncremental(t) PROVE TypeOK'
  BY <1>8, RunIncrementalTyped
<1>9. ASSUME NEW t \in Threads, RunNormal(t) PROVE TypeOK'
  BY <1>9, RunNormalTyped
<1>10. ASSUME NEW t \in Threads, Unlock(t) PROVE TypeOK'
  BY <1>10, IdleIsJob DEF Unlock, Jobs, Threads, Idle, TypeOK
<1>11. CASE Kill
  <2>1. gone' \subseteq Stamps
    BY <1>11, MaxUpdatesAssumption DEF Kill, IncStamps, NorStamps, Entries, Values, Stamps, TypeOK
  <2> QED
    BY <1>11, <2>1, IdleIsJob DEF Kill, Jobs, Threads, Idle, TypeOK
<1>12. CASE UNCHANGED vars
  BY <1>12 DEF vars, TypeOK
<1> QED
  BY <1>1, <1>2, <1>3, <1>4, <1>5, <1>6, <1>7, <1>8, <1>9, <1>10, <1>11, <1>12 DEF Next, Run

LEMMA TypeInit == Init => TypeOK
BY IdleIsJob, MaxUpdatesAssumption DEF Init, TypeOK, Idle, Jobs, Threads, Values, NoCallbacks

\* Every variable of the scheduler has its type, the mutex is held by the
\* thread that runs callbacks, and no other.
THEOREM TypeCorrect == Spec => []TypeOK
<1>1. Init => TypeOK
  BY TypeInit
<1>2. TypeOK /\ [Next]_vars => TypeOK'
  BY TypeStep
<1> QED
  BY <1>1, <1>2, PTL DEF Spec

-----------------------------------------------------------------------------
(* The write-behind store.                                                 *)

InOrder(S) ==
  \A e, f \in S : e # f => \/ e.key < f.key /\ e.stamp < f.stamp
                           \/ f.key < e.key /\ f.stamp < e.stamp
Before(S, T) == \A e \in S, f \in T : e.stamp < f.stamp
Apart(S, T) == \A e \in S, f \in T : e.stamp # f.stamp

Scheduled(a) == job["scheduler"].inc[a]
Leaver(a) == job["io"].inc[a]

\* The keys order the callbacks of a map by their stamps, and no stamp is in
\* two places.
QueueOrdered(a) ==
  /\ InOrder(incremental[a]) /\ InOrder(Scheduled(a)) /\ InOrder(Leaver(a))
  /\ Apart(incremental[a], Scheduled(a))
  /\ Apart(incremental[a], Leaver(a))
  /\ Apart(Scheduled(a), Leaver(a))

\* What the next key and the next stamp are greater than.
KeysBelow(a) == \A e \in incremental[a] : e.key <= incKey
StampsQueued(a) == Waiting(a) \subseteq queued

\* The batch of an account that goes on is older than its queue, and the end
\* of its session takes none.
SteadyOrder(a) ==
  a \notin Leaving => Leaver(a) = {} /\ Before(Scheduled(a), incremental[a])

\* A thread without a job has no callbacks that taking a batch would discard.
IdleIsEmpty(a) ==
  /\ job["scheduler"].phase = "idle" => Scheduled(a) = {}
  /\ job["io"].phase = "idle" => Leaver(a) = {}

AccountInv(a) ==
  QueueOrdered(a) /\ KeysBelow(a) /\ StampsQueued(a) /\ SteadyOrder(a) /\ IdleIsEmpty(a)
QueueInv == (\A v \in queued : v <= issued) /\ \A a \in Accounts : AccountInv(a)

LEMMA QueueInit == Init => QueueInv /\ Abstract!Init
BY DEF Init, QueueInv, AccountInv, QueueOrdered, InOrder, Apart, Before, KeysBelow,
       StampsQueued, SteadyOrder, IdleIsEmpty, Waiting, Scheduled, Leaver, Idle, Threads,
       Abstract!Init

\* What the steps that leave the incremental callbacks alone keep.
Quiet ==
  /\ incremental' = incremental /\ incKey' = incKey
  /\ queued' = queued /\ applied' = applied /\ issued' >= issued
  /\ \A a \in Accounts : Scheduled(a)' = Scheduled(a) /\ Leaver(a)' = Leaver(a)
  /\ \A a \in Accounts : IdleIsEmpty(a)'

LEMMA QuietStep ==
  ASSUME TypeOK, TypeOK', QueueInv, Quiet
  PROVE  QueueInv' /\ UNCHANGED Abstract!vars
<1>1. ASSUME NEW a \in Accounts PROVE AccountInv(a)' /\ Waiting(a)' = Waiting(a)
  BY <1>1 DEF Quiet, QueueInv, AccountInv, QueueOrdered, KeysBelow, StampsQueued,
              SteadyOrder, Waiting, Scheduled, Leaver
<1>2. \A v \in queued' : v <= issued'
  BY DEF Quiet, QueueInv, TypeOK, Values, Stamps
<1> QED
  BY <1>1, <1>2 DEF QueueInv, Quiet, Abstract!vars

\* A callback that is queued.
Adds(a, e) ==
  /\ e \in Entries /\ e.key = incKey + 1 /\ e.stamp = issued + 1
  /\ incremental' = [incremental EXCEPT ![a] = Put(@, e)]
  /\ incKey' = incKey + 1 /\ issued' = issued + 1
  /\ queued' = queued \cup {issued + 1}
  /\ job' = job /\ applied' = applied

LEMMA AddStep ==
  ASSUME TypeOK, QueueInv, NEW a \in Accounts, NEW e, Adds(a, e)
  PROVE  QueueInv' /\ Abstract!Submit(a, issued + 1)
<1>1. /\ incKey \in Nat /\ issued \in Nat
      /\ queued \subseteq Nat /\ \A v \in queued : v <= issued
      /\ \A b \in Accounts : incremental[b] \in SUBSET Entries
      /\ \A b \in Accounts : Scheduled(b) \in SUBSET Entries /\ Leaver(b) \in SUBSET Entries
  BY DEF TypeOK, QueueInv, Values, Stamps, Scheduled, Leaver, Threads
<1>2. AccountInv(a)
  BY DEF QueueInv
<1>3. \A f \in incremental[a] : f.key \in Nat /\ f.key < e.key
  BY <1>1, <1>2 DEF AccountInv, KeysBelow, Adds, Entries
<1>4. incremental'[a] = incremental[a] \cup {e}
  BY <1>3 DEF Adds, Put, TypeOK
<1>5. \A b \in Accounts \ {a} : incremental'[b] = incremental[b]
  BY DEF Adds, TypeOK
<1>6. \A b \in Accounts : \A f \in incremental[b] \cup Scheduled(b) \cup Leaver(b) :
        f.stamp \in queued /\ f.stamp \in Nat /\ f.stamp < issued + 1
  <2> SUFFICES ASSUME NEW b \in Accounts,
                      NEW f \in incremental[b] \cup Scheduled(b) \cup Leaver(b)
               PROVE  f.stamp \in queued /\ f.stamp \in Nat /\ f.stamp < issued + 1
    OBVIOUS
  <2>1. f.stamp \in Waiting(b)
    BY DEF Waiting, Scheduled, Leaver
  <2>2. f.stamp \in queued
    BY <2>1 DEF QueueInv, AccountInv, StampsQueued
  <2>3. f.stamp \in Nat /\ f.stamp <= issued
    BY <1>1, <2>2
  <2> QED
    BY <1>1, <2>2, <2>3
<1>7. \A b \in Accounts : Scheduled(b)' = Scheduled(b) /\ Leaver(b)' = Leaver(b)
  BY DEF Adds, Scheduled, Leaver
<1>8. QueueOrdered(a)'
  BY <1>2, <1>3, <1>4, <1>6, <1>7 DEF AccountInv, QueueOrdered, InOrder, Apart, Adds
<1>9. KeysBelow(a)'
  BY <1>1, <1>3, <1>4 DEF KeysBelow, Adds
<1>10. /\ Waiting(a)' = Waiting(a) \cup {issued + 1}
       /\ \A b \in Accounts \ {a} : Waiting(b)' = Waiting(b)
  BY <1>4, <1>5 DEF Waiting, Adds
<1>11. StampsQueued(a)'
  BY <1>2, <1>10 DEF AccountInv, StampsQueued, Adds
<1>12. SteadyOrder(a)'
  BY <1>2, <1>4, <1>6, <1>7 DEF AccountInv, SteadyOrder, Before, Adds
<1>13. ASSUME NEW b \in Accounts, b # a PROVE AccountInv(b)'
  <2>1. AccountInv(b) /\ incremental'[b] = incremental[b] /\ Waiting(b)' = Waiting(b)
    BY <1>5, <1>10, <1>13 DEF QueueInv
  <2>2. KeysBelow(b)'
    BY <1>1, <2>1 DEF AccountInv, KeysBelow, Adds, Entries
  <2> QED
    BY <1>7, <2>1, <2>2 DEF AccountInv, QueueOrdered, StampsQueued, SteadyOrder, IdleIsEmpty, Adds
<1>14. AccountInv(a)'
  BY <1>2, <1>7, <1>8, <1>9, <1>11, <1>12 DEF AccountInv, IdleIsEmpty, Adds
<1>15. \A v \in queued' : v <= issued'
  BY <1>1 DEF Adds
<1>16. QueueInv'
  BY <1>13, <1>14, <1>15 DEF QueueInv
<1>17. Abstract!Submit(a, issued + 1)
  <2>1. \A v \in queued : v < issued + 1
    BY <1>1
  <2>2. [b \in Accounts |-> Waiting(b)]'
          = [[b \in Accounts |-> Waiting(b)] EXCEPT ![a] = @ \cup {issued + 1}]
    BY <1>10
  <2> QED
    BY <2>1, <2>2 DEF Abstract!Submit, Adds
<1> QED
  BY <1>16, <1>17

LEMMA QuietSteps ==
  ASSUME TypeOK, QueueInv,
         \/ \E a \in Accounts, k \in Keys : SetColumn(a, k)
         \/ \E a \in Accounts : Login(a)
         \/ \E t \in Threads : Lock(t) \/ RunNormal(t) \/ Unlock(t)
         \/ UNCHANGED vars
  PROVE  Quiet
<1>1. issued \in Nat /\ job \in [Threads -> Jobs]
      /\ \A a \in Accounts : IdleIsEmpty(a)
  BY DEF TypeOK, QueueInv, AccountInv, Values, Jobs
<1>2. ASSUME NEW a \in Accounts, NEW k \in Keys, SetColumn(a, k) PROVE Quiet
  BY <1>1, <1>2 DEF SetColumn, Quiet, Scheduled, Leaver, IdleIsEmpty
<1>3. ASSUME NEW a \in Accounts, Login(a) PROVE Quiet
  BY <1>1, <1>3 DEF Login, Quiet, Scheduled, Leaver, IdleIsEmpty
<1>4. ASSUME NEW t \in Threads, Lock(t) PROVE Quiet
  <2>0. PICK o : o = [job[t] EXCEPT !.phase = "running"]
    OBVIOUS
  <2>1. \A u \in Threads : job'[u].inc = job[u].inc /\ (u # t => job'[u] = job[u])
    BY <1>1, <1>4 DEF Lock, Jobs
  <2>2. job'[t].phase = "running"
    <3>1. o.phase = "running"
      BY <1>1, <2>0 DEF Jobs
    <3>2. job' = [job EXCEPT ![t] = o]
      BY <1>4, <2>0 DEF Lock
    <3>3. job'[t] = o
      BY <1>1, <3>2
    <3> QED
      BY <3>1, <3>3
  <2> QED
    BY <1>1, <1>4, <2>1, <2>2 DEF Lock, Quiet, Scheduled, Leaver, IdleIsEmpty, Threads
<1>5. ASSUME NEW t \in Threads, RunNormal(t) PROVE Quiet
  <2>1. PICK a \in Accounts, k \in Keys : job' = [job EXCEPT ![t].nor[a][k] = 0]
    BY <1>5 DEF RunNormal
  <2>2. \A u \in Threads : job'[u].inc = job[u].inc /\ job'[u].phase = job[u].phase
    BY <1>1, <2>1 DEF Jobs
  <2> QED
    BY <1>1, <1>5, <2>2 DEF RunNormal, Quiet, Scheduled, Leaver, IdleIsEmpty, Threads
<1>6. ASSUME NEW t \in Threads, Unlock(t) PROVE Quiet
  <2>1. \A u \in Threads : /\ \A a \in Accounts : job'[u].inc[a] = job[u].inc[a]
                           /\ u # t => job'[u] = job[u]
    BY <1>1, <1>6 DEF Unlock, HasNothing, Idle
  <2>2. \A a \in Accounts : job'[t].inc[a] = {}
    BY <1>1, <1>6 DEF Unlock, Idle
  <2> QED
    BY <1>1, <1>6, <2>1, <2>2 DEF Unlock, Quiet, Scheduled, Leaver, IdleIsEmpty, Threads
<1>7. CASE UNCHANGED vars
  BY <1>1, <1>7 DEF vars, Quiet, Scheduled, Leaver, IdleIsEmpty
<1> QED
  BY <1>2, <1>3, <1>4, <1>5, <1>6, <1>7

LEMMA TakeStep ==
  ASSUME TypeOK, QueueInv, PersistTake
  PROVE  QueueInv' /\ UNCHANGED Abstract!vars
<1>1. ASSUME NEW a \in Accounts
      PROVE  /\ Scheduled(a) = {} /\ Scheduled(a)' = incremental[a]
             /\ incremental'[a] = {} /\ Leaver(a)' = Leaver(a)
  BY DEF PersistTake, Scheduled, Leaver, QueueInv, AccountInv, IdleIsEmpty, TypeOK, Threads
<1>2. job'["scheduler"].phase = "taken" /\ job'["io"].phase = job["io"].phase
  BY DEF PersistTake, TypeOK, Threads
<1>3. \A a \in Accounts : Waiting(a)' = Waiting(a)
  BY <1>1 DEF Waiting, Scheduled, Leaver
<1>4. ASSUME NEW a \in Accounts PROVE AccountInv(a)'
  <2>1. AccountInv(a)
    BY DEF QueueInv
  <2>2. QueueOrdered(a)'
    BY <1>1, <2>1 DEF AccountInv, QueueOrdered, InOrder, Apart
  <2>3. KeysBelow(a)' /\ SteadyOrder(a)' /\ IdleIsEmpty(a)'
    BY <1>1, <1>2, <2>1 DEF AccountInv, KeysBelow, SteadyOrder, IdleIsEmpty, Before
  <2>4. StampsQueued(a)'
    BY <1>3, <2>1 DEF AccountInv, StampsQueued, PersistTake
  <2> QED
    BY <2>2, <2>3, <2>4 DEF AccountInv
<1> QED
  BY <1>3, <1>4 DEF QueueInv, PersistTake, Abstract!vars

LEMMA LeaveStep ==
  ASSUME TypeOK, QueueInv, NEW a \in Accounts, PersistForTake(a)
  PROVE  QueueInv' /\ UNCHANGED Abstract!vars
<1>1. \A b \in Accounts : Leaver(b) = {} /\ Scheduled(b)' = Scheduled(b)
  BY DEF PersistForTake, IoFree, Scheduled, Leaver, QueueInv, AccountInv, IdleIsEmpty,
         TypeOK, Threads
<1>2. Leaver(a)' = incremental[a] /\ incremental'[a] = {}
  BY DEF PersistForTake, Leaver, Idle, TypeOK, Threads
<1>3. \A b \in Accounts \ {a} : Leaver(b)' = {} /\ incremental'[b] = incremental[b]
  BY DEF PersistForTake, Leaver, Idle, TypeOK, Threads
<1>4. job'["io"].phase = "taken" /\ job'["scheduler"].phase = job["scheduler"].phase
  BY DEF PersistForTake, TypeOK, Threads
<1>5. \A b \in Accounts : Waiting(b)' = Waiting(b)
  BY <1>1, <1>2, <1>3 DEF Waiting, Scheduled, Leaver
<1>6. ASSUME NEW b \in Accounts PROVE AccountInv(b)'
  <2>1. AccountInv(b)
    BY DEF QueueInv
  <2>2. QueueOrdered(b)'
    BY <1>1, <1>2, <1>3, <2>1 DEF AccountInv, QueueOrdered, InOrder, Apart
  <2>3. KeysBelow(b)' /\ SteadyOrder(b)' /\ IdleIsEmpty(b)'
    BY <1>1, <1>2, <1>3, <1>4, <2>1
       DEF AccountInv, KeysBelow, SteadyOrder, IdleIsEmpty, Before, PersistForTake
  <2>4. StampsQueued(b)'
    BY <1>5, <2>1 DEF AccountInv, StampsQueued, PersistForTake
  <2> QED
    BY <2>2, <2>3, <2>4 DEF AccountInv
<1> QED
  BY <1>5, <1>6 DEF QueueInv, PersistForTake, Abstract!vars

LEMMA KillStep ==
  ASSUME TypeOK, QueueInv, Kill
  PROVE  QueueInv' /\ Abstract!Crash
<1>1. \A a \in Accounts : incremental'[a] = {} /\ Scheduled(a)' = {} /\ Leaver(a)' = {}
  BY DEF Kill, Scheduled, Leaver, Idle, Threads
<1>2. \A a \in Accounts : Waiting(a)' = {}
  BY <1>1 DEF Waiting, Scheduled, Leaver
<1>3. \A a \in Accounts : AccountInv(a)'
  BY <1>1, <1>2 DEF AccountInv, QueueOrdered, InOrder, Apart, KeysBelow, StampsQueued,
                    SteadyOrder, Before, IdleIsEmpty
<1> QED
  BY <1>2, <1>3 DEF QueueInv, Kill, Abstract!Crash

\* A callback that is run, or throws, is the one the abstract store has due.
LEMMA RunStep ==
  ASSUME TypeOK, TypeOK', QueueInv, NEW t \in Threads, RunIncremental(t)
  PROVE  /\ QueueInv'
         /\ \E a \in Accounts, u \in Stamps : Abstract!Apply(a, u) \/ Abstract!Fail(a, u)
<1>1. PICK a \in Accounts : \E e \in job[t].inc[a] : Runs(t, a, e)
  BY RunsTheLeast
<1>2. PICK e \in job[t].inc[a] : Runs(t, a, e)
  BY <1>1
<1>3. /\ AccountInv(a) /\ t \in {"scheduler", "io"}
      /\ \A b \in Accounts : /\ incremental[b] \in SUBSET Entries
                             /\ Scheduled(b) \in SUBSET Entries
                             /\ Leaver(b) \in SUBSET Entries
  BY DEF QueueInv, TypeOK, Scheduled, Leaver, Threads
<1>4. /\ job'[t].inc[a] = job[t].inc[a] \ {e}
      /\ \A b \in Accounts \ {a} : job'[t].inc[b] = job[t].inc[b]
      /\ \A s \in Threads \ {t} : job'[s] = job[s]
      /\ \A s \in Threads : job'[s].phase = job[s].phase
  <2> DEFINE X == job[t].inc[a] \ {e}
  <2>1. job \in [Threads -> Jobs] /\ job' = [job EXCEPT ![t].inc[a] = X]
    BY <1>2 DEF Runs, TypeOK, Jobs
  <2> HIDE DEF X
  <2>2. /\ job'[t].inc[a] = X
        /\ \A b \in Accounts \ {a} : job'[t].inc[b] = job[t].inc[b]
        /\ \A s \in Threads \ {t} : job'[s] = job[s]
        /\ \A s \in Threads : job'[s].phase = job[s].phase
    BY <2>1 DEF Jobs
  <2> QED
    BY <2>2 DEF X
<1>5. \A b \in Accounts \ {a} : Scheduled(b)' = Scheduled(b) /\ Leaver(b)' = Leaver(b)
  BY <1>4 DEF Scheduled, Leaver, Threads
<1>6. \/ e \in Scheduled(a) /\ Scheduled(a)' = Scheduled(a) \ {e} /\ Leaver(a)' = Leaver(a)
      \/ e \in Leaver(a) /\ Leaver(a)' = Leaver(a) \ {e} /\ Scheduled(a)' = Scheduled(a)
  BY <1>3, <1>4 DEF Scheduled, Leaver, Threads
<1>7. incremental' = incremental /\ queued' = queued /\ incKey' = incKey /\ issued' = issued
  BY DEF RunIncremental
<1>8. Waiting(a)' = Waiting(a) \ {e.stamp} /\ e.stamp \in Waiting(a)
  <2> DEFINE W == incremental[a] \cup Scheduled(a) \cup Leaver(a)
             V == incremental'[a] \cup Scheduled(a)' \cup Leaver(a)'
  <2>1. V = W \ {e} /\ e \in W
    <3>1. e \in Entries /\ \A f \in incremental[a] : f.stamp # e.stamp
      BY <1>3, <1>6 DEF AccountInv, QueueOrdered, Apart
    <3>2. ~ (e \in Scheduled(a) /\ e \in Leaver(a)) /\ e \notin incremental[a]
      BY <1>3, <3>1 DEF AccountInv, QueueOrdered, Apart
    <3> QED
      BY <1>6, <1>7, <3>2
  <2>2. ASSUME NEW f \in W, f # e PROVE f.stamp # e.stamp
    <3>1. /\ InOrder(Scheduled(a)) /\ InOrder(Leaver(a))
          /\ Apart(incremental[a], Scheduled(a)) /\ Apart(incremental[a], Leaver(a))
          /\ Apart(Scheduled(a), Leaver(a))
      BY <1>3 DEF AccountInv, QueueOrdered
    <3>2. f \in Entries /\ e \in Entries
      BY <1>3, <1>6
    <3> QED
      BY <1>6, <2>2, <3>1, <3>2 DEF InOrder, Apart, Entries, Stamps
  <2>3. Waiting(a)' = {f.stamp : f \in V} /\ Waiting(a) = {f.stamp : f \in W}
    BY DEF Waiting, Scheduled, Leaver
  <2> HIDE DEF V, W
  <2> QED
    BY <2>1, <2>2, <2>3
<1>9. \A b \in Accounts \ {a} : Waiting(b)' = Waiting(b)
  BY <1>5, <1>7 DEF Waiting, Scheduled, Leaver
<1>10. ASSUME NEW b \in Accounts PROVE AccountInv(b)'
  <2>1. AccountInv(b) /\ Scheduled(b)' \subseteq Scheduled(b) /\ Leaver(b)' \subseteq Leaver(b)
    BY <1>5, <1>6 DEF QueueInv
  <2>2. QueueOrdered(b)'
    BY <1>7, <2>1 DEF AccountInv, QueueOrdered, InOrder, Apart
  <2>3. KeysBelow(b)' /\ SteadyOrder(b)'
    BY <1>7, <2>1 DEF AccountInv, KeysBelow, SteadyOrder, Before
  <2>4. IdleIsEmpty(b)'
    BY <1>4, <2>1 DEF AccountInv, IdleIsEmpty, Threads
  <2>5. StampsQueued(b)'
    BY <1>7, <1>8, <1>9, <2>1 DEF AccountInv, StampsQueued
  <2> QED
    BY <2>2, <2>3, <2>4, <2>5 DEF AccountInv
<1>11. e.stamp \in Stamps
  BY <1>3, <1>6 DEF Entries
<1>12. ASSUME a \notin Leaving, NEW v \in Waiting(a) PROVE e.stamp <= v
  <2>1. PICK f \in incremental[a] \cup Scheduled(a) \cup Leaver(a) : v = f.stamp
    BY DEF Waiting, Scheduled, Leaver
  <2>2. Leaver(a) = {} /\ Before(Scheduled(a), incremental[a]) /\ InOrder(Scheduled(a))
    BY <1>3, <1>12 DEF AccountInv, SteadyOrder, QueueOrdered
  <2>3. e \in Scheduled(a) /\ f \in incremental[a] \cup Scheduled(a)
    BY <1>6, <2>1, <2>2
  <2>4. e \in Entries /\ f \in Entries
    BY <1>3, <2>3
  <2>5. ASSUME f \in Scheduled(a), f # e PROVE e.key <= f.key
    <3>1. t = "scheduler"
      BY <1>3, <2>2 DEF Leaver
    <3> QED
      BY <1>2, <2>5, <3>1 DEF Runs, Scheduled
  <2> QED
    BY <2>1, <2>2, <2>3, <2>4, <2>5 DEF Before, InOrder, Entries, Stamps
<1>13. Abstract!Due(a, e.stamp)
  <2>1. [b \in Accounts |-> Waiting(b)]'
          = [[b \in Accounts |-> Waiting(b)] EXCEPT ![a] = @ \ {e.stamp}]
    BY <1>8, <1>9
  <2> QED
    BY <1>8, <1>12, <2>1 DEF Abstract!Due
<1>14. \/ applied' = [applied EXCEPT ![a] = Append(@, e.stamp)]
       \/ applied' = applied
  BY <1>2 DEF Runs
<1>15. QueueInv'
  BY <1>7, <1>10 DEF QueueInv
<1>16. Abstract!Apply(a, e.stamp) \/ Abstract!Fail(a, e.stamp)
  BY <1>7, <1>13, <1>14 DEF Abstract!Apply, Abstract!Fail
<1> QED
  BY <1>11, <1>15, <1>16

LEMMA QueueStep ==
  TypeOK /\ QueueInv /\ [Next]_vars => QueueInv' /\ [Abstract!Next]_(Abstract!vars)
<1> SUFFICES ASSUME TypeOK, QueueInv, [Next]_vars
             PROVE  QueueInv' /\ [Abstract!Next]_(Abstract!vars)
  OBVIOUS
<1>1. TypeOK'
  BY TypeStep
<1>2. ASSUME NEW a \in Accounts, Insert(a) \/ Snapshot(a) PROVE QueueInv' /\ Abstract!Next
  <2>1. issued + 1 \in Stamps
    BY <1>2, NewStamp DEF Insert, Snapshot
  <2>2. PICK kind \in Kinds :
          /\ incremental' = [incremental EXCEPT
               ![a] = Put(@, [key |-> incKey', stamp |-> issued', kind |-> kind])]
          /\ incKey' = incKey + 1 /\ issued' = issued + 1
          /\ queued' = queued \cup {issued'} /\ job' = job /\ applied' = applied
    BY <1>2 DEF Insert, Snapshot, Kinds
  <2>3. Adds(a, [key |-> incKey + 1, stamp |-> issued + 1, kind |-> kind])
    BY <2>1, <2>2 DEF Adds, Entries, TypeOK
  <2> QED
    BY <2>1, <2>3, AddStep DEF Abstract!Next
<1>3. ASSUME NEW t \in Threads, RunIncremental(t) PROVE QueueInv' /\ Abstract!Next
  BY <1>1, <1>3, RunStep DEF Abstract!Next
<1>4. CASE PersistTake
  BY <1>4, TakeStep
<1>5. ASSUME NEW a \in Accounts, PersistForTake(a) PROVE QueueInv' /\ UNCHANGED Abstract!vars
  BY <1>5, LeaveStep
<1>6. CASE Kill
  BY <1>6, KillStep DEF Abstract!Next
<1>7. CASE \/ \E a \in Accounts, k \in Keys : SetColumn(a, k)
           \/ \E a \in Accounts : Login(a)
           \/ \E t \in Threads : Lock(t) \/ RunNormal(t) \/ Unlock(t)
           \/ UNCHANGED vars
  BY <1>1, <1>7, QuietSteps, QuietStep
<1> QED
  BY <1>2, <1>3, <1>4, <1>5, <1>6, <1>7 DEF Next, Run

\* The scheduler implements the write-behind store, for every set of accounts
\* and columns and any number of updates: no incremental callback is run twice,
\* replaced or, for an account whose session goes on, overtaken.
THEOREM WriteBehindCorrect == Spec => ImplementsWriteBehind
<1>1. Init => TypeOK /\ QueueInv /\ Abstract!Init
  BY TypeInit, QueueInit
<1>2. TypeOK /\ [Next]_vars => TypeOK'
  BY TypeStep
<1>3. TypeOK /\ QueueInv /\ [Next]_vars => QueueInv' /\ [Abstract!Next]_(Abstract!vars)
  BY QueueStep
<1> QED
  BY <1>1, <1>2, <1>3, PTL DEF Spec, ImplementsWriteBehind, Abstract!Spec

-----------------------------------------------------------------------------
(* The columns once nothing waits.                                         *)

Batch(a) == job["scheduler"].nor[a]

\* The newest of the values of a column that wait, or the one in the database.
Newest(a, k) ==
  IF normal[a][k] # 0 THEN normal[a][k]
  ELSE IF Batch(a)[k] # 0 THEN Batch(a)[k] ELSE db[a][k]

\* Why the session of an account that goes on and the database agree once
\* nothing waits: until then the session has the newest value that waits.
ColumnOrdered(a) ==
  /\ job["io"].nor[a] = NoCallbacks
  /\ job["scheduler"].phase = "idle" => Batch(a) = NoCallbacks
  /\ ~online[a] => normal[a] = NoCallbacks /\ Batch(a) = NoCallbacks
  /\ online[a] /\ gone = {} =>
       \A k \in Keys \ SnapshotKeys : mem[a][k] = Newest(a, k)
ColumnInv == \A a \in Accounts \ Leaving : ColumnOrdered(a)

LEMMA ColumnInit == Init => ColumnInv
BY DEF Init, ColumnInv, ColumnOrdered, Batch, Idle, Threads

\* A callback of a column that runs, or throws, leaves the newest value alone.
LEMMA ColumnRun ==
  ASSUME TypeOK, ColumnInv, NEW t \in Threads, RunNormal(t), NEW a \in Accounts \ Leaving
  PROVE  ColumnOrdered(a)'
<1>1. PICK b \in Accounts, m \in Keys :
        /\ job[t].nor[b][m] # 0
        /\ job' = [job EXCEPT ![t].nor[b][m] = 0]
        /\ \/ /\ db' = [db EXCEPT ![b][m] = job[t].nor[b][m]]
              /\ gone' = gone
           \/ /\ gone' = gone \cup {job[t].nor[b][m]}
              /\ db' = db
  BY DEF RunNormal
<1>2. /\ job \in [Threads -> Jobs] /\ db \in [Accounts -> [Keys -> Values]]
      /\ ColumnOrdered(a) /\ t \in {"scheduler", "io"}
      /\ UNCHANGED <<mem, online, normal>>
  BY DEF TypeOK, Jobs, ColumnInv, RunNormal, Threads
<1>3. /\ \A s \in Threads : job'[s].phase = job[s].phase
      /\ \A s \in Threads \ {t} : job'[s] = job[s]
      /\ \A c \in Accounts \ {b} : job'[t].nor[c] = job[t].nor[c]
      /\ job'[t].nor[b] = [job[t].nor[b] EXCEPT ![m] = 0]
  BY <1>1, <1>2 DEF Jobs
<1>4. CASE a # b
  <2>1. db'[a] = db[a] /\ (gone' = {} => gone = {})
    BY <1>1, <1>2, <1>4
  <2>2. Batch(a)' = Batch(a) /\ job'["io"].nor[a] = job["io"].nor[a]
    BY <1>2, <1>3, <1>4 DEF Batch, Threads
  <2> QED
    BY <1>2, <1>3, <2>1, <2>2 DEF ColumnOrdered, Newest, Threads
<1>5. CASE a = b
  <2>1. t = "scheduler" /\ job'["io"] = job["io"]
    BY <1>1, <1>2, <1>3, <1>5 DEF ColumnOrdered, NoCallbacks, Threads
  <2>2. Batch(a) \in [Keys -> Values] /\ Batch(a)' = [Batch(a) EXCEPT ![m] = 0]
    BY <1>2, <1>3, <1>5, <2>1 DEF Batch, Jobs
  <2>3. online[a] /\ Batch(a)[m] # 0
    BY <1>1, <1>2, <1>5, <2>1 DEF ColumnOrdered, Batch, NoCallbacks
  <2>4. ASSUME gone' = {} PROVE gone = {} /\ db' = [db EXCEPT ![a][m] = Batch(a)[m]]
    BY <1>1, <1>5, <2>1, <2>4 DEF Batch
  <2>5. ASSUME gone' = {}, NEW k \in Keys \ SnapshotKeys PROVE mem[a][k] = Newest(a, k)'
    <3>1. mem[a][k] = Newest(a, k)
      BY <1>2, <2>3, <2>4, <2>5 DEF ColumnOrdered
    <3>2. db'[a][k] = IF k = m THEN Batch(a)[m] ELSE db[a][k]
      BY <1>2, <2>4, <2>5
    <3>3. Batch(a)'[k] = IF k = m THEN 0 ELSE Batch(a)[k]
      BY <2>2
    <3> QED
      BY <1>2, <2>3, <3>1, <3>2, <3>3 DEF Newest
  <2>6. job["scheduler"].phase # "idle"
    BY <1>2, <2>3 DEF ColumnOrdered, NoCallbacks
  <2>7. job'["scheduler"].phase # "idle"
    BY <1>3, <2>6 DEF Threads
  <2> QED
    BY <1>2, <2>1, <2>3, <2>5, <2>7 DEF ColumnOrdered
<1> QED
  BY <1>4, <1>5

LEMMA ColumnStep == TypeOK /\ ColumnInv /\ [Next]_vars => ColumnInv'
<1> SUFFICES ASSUME TypeOK, ColumnInv, [Next]_vars, NEW a \in Accounts \ Leaving
             PROVE  ColumnOrdered(a)'
  BY DEF ColumnInv
<1>1. /\ ColumnOrdered(a)
      /\ job \in [Threads -> Jobs]
      /\ db \in [Accounts -> [Keys -> Values]]
      /\ mem \in [Accounts -> [Keys -> Values]]
      /\ normal \in [Accounts -> [Keys -> Values]]
      /\ online \in [Accounts -> BOOLEAN]
      /\ issued \in Nat
  BY DEF TypeOK, Jobs, ColumnInv, Values
<1>2. ASSUME NEW b \in Accounts, NEW m \in Keys, SetColumn(b, m) PROVE ColumnOrdered(a)'
  <2>1. UNCHANGED <<job, online, gone, db>> /\ online[b] /\ issued' = issued + 1
    BY <1>2 DEF SetColumn
  <2>2. \A k \in Keys : IF b = a /\ k = m
                        THEN mem'[a][k] = issued' /\ normal'[a][k] = issued'
                        ELSE mem'[a][k] = mem[a][k] /\ normal'[a][k] = normal[a][k]
    BY <1>1, <1>2 DEF SetColumn
  <2>3. a # b => normal'[a] = normal[a]
    BY <1>1, <1>2 DEF SetColumn
  <2>4. ASSUME online[a], gone = {}, NEW k \in Keys \ SnapshotKeys
        PROVE  mem'[a][k] = Newest(a, k)'
    <3>1. mem[a][k] = Newest(a, k)
      BY <1>1, <2>4 DEF ColumnOrdered
    <3>2. CASE b = a /\ k = m
      BY <1>1, <2>1, <2>2, <3>2 DEF Newest
    <3>3. CASE ~ (b = a /\ k = m)
      BY <2>1, <2>2, <3>1, <3>3 DEF Newest, Batch
    <3> QED
      BY <3>2, <3>3
  <2> QED
    BY <1>1, <2>1, <2>3, <2>4 DEF ColumnOrdered, Batch
<1>3. ASSUME NEW b \in Accounts, Insert(b) PROVE ColumnOrdered(a)'
  BY <1>1, <1>3 DEF Insert, ColumnOrdered, Newest, Batch
<1>4. ASSUME NEW b \in Accounts, Snapshot(b) PROVE ColumnOrdered(a)'
  <2>1. \A k \in Keys \ SnapshotKeys : mem'[a][k] = mem[a][k]
    BY <1>1, <1>4 DEF Snapshot
  <2> QED
    BY <1>1, <1>4, <2>1 DEF Snapshot, ColumnOrdered, Newest, Batch
<1>5. ASSUME NEW b \in Accounts, Login(b) PROVE ColumnOrdered(a)'
  <2>1. CASE a = b
    BY <1>1, <1>5, <2>1 DEF Login, ColumnOrdered, Newest, Batch, NoCallbacks
  <2>2. CASE a # b
    BY <1>1, <1>5, <2>2 DEF Login, ColumnOrdered, Newest, Batch
  <2> QED
    BY <2>1, <2>2
<1>6. ASSUME NEW b \in Accounts, PersistForTake(b) PROVE ColumnOrdered(a)'
  <2>1. /\ a # b /\ job'["scheduler"] = job["scheduler"]
        /\ job'["io"].nor[a] = NoCallbacks
        /\ normal'[a] = normal[a] /\ online'[a] = online[a]
    BY <1>1, <1>6 DEF PersistForTake, Idle, Threads
  <2> QED
    BY <1>1, <1>6, <2>1 DEF PersistForTake, ColumnOrdered, Newest, Batch
<1>7. CASE PersistTake
  <2>1. /\ Batch(a) = NoCallbacks /\ Batch(a)' = normal[a]
        /\ normal'[a] = NoCallbacks
        /\ job'["io"] = job["io"] /\ job'["scheduler"].phase = "taken"
    BY <1>1, <1>7 DEF PersistTake, ColumnOrdered, Batch, Threads
  <2> QED
    BY <1>1, <1>7, <2>1 DEF PersistTake, ColumnOrdered, Newest, NoCallbacks
<1>8. ASSUME NEW t \in Threads, Lock(t) PROVE ColumnOrdered(a)'
  <2>1. \A s \in Threads : /\ job'[s].nor = job[s].nor
                           /\ job'[s].phase = "idle" => job[s].phase = "idle"
    BY <1>1, <1>8 DEF Lock, Jobs
  <2> QED
    BY <1>1, <1>8, <2>1 DEF Lock, ColumnOrdered, Newest, Batch, Threads
<1>9. ASSUME NEW t \in Threads, RunIncremental(t) PROVE ColumnOrdered(a)'
  <2>1. PICK b \in Accounts : \E e \in job[t].inc[b] : Runs(t, b, e)
    BY <1>9, RunsTheLeast
  <2>2. PICK e \in job[t].inc[b] : Runs(t, b, e)
    BY <2>1
  <2>3. \A s \in Threads : job'[s].nor = job[s].nor /\ job'[s].phase = job[s].phase
    <3> DEFINE X == job[t].inc[b] \ {e}
    <3>1. job' = [job EXCEPT ![t].inc[b] = X]
      BY <2>2 DEF Runs
    <3> HIDE DEF X
    <3> QED
      BY <1>1, <3>1 DEF Jobs
  <2>4. \A k \in Keys \ SnapshotKeys : db'[a][k] = db[a][k]
    <3> DEFINE row == [k \in Keys |-> IF e.kind = "snapshot" /\ k \in SnapshotKeys
                                      THEN e.stamp ELSE db[b][k]]
    <3>1. db' = db \/ db' = [db EXCEPT ![b] = row]
      BY <2>2 DEF Runs
    <3>2. \A k \in Keys \ SnapshotKeys : row[k] = db[b][k]
      OBVIOUS
    <3> HIDE DEF row
    <3>3. CASE a = b
      BY <1>1, <3>1, <3>2, <3>3
    <3>4. CASE a # b
      BY <1>1, <3>1, <3>4
    <3> QED
      BY <3>3, <3>4
  <2>5. gone' = {} => gone = {}
    BY <2>2 DEF Runs
  <2> QED
    BY <1>1, <1>9, <2>3, <2>4, <2>5 DEF RunIncremental, ColumnOrdered, Newest, Batch, Threads
<1>10. ASSUME NEW t \in Threads, RunNormal(t) PROVE ColumnOrdered(a)'
  BY <1>10, ColumnRun
<1>11. ASSUME NEW t \in Threads, Unlock(t) PROVE ColumnOrdered(a)'
  <2>1. /\ job[t].nor[a] = NoCallbacks /\ job'[t].nor[a] = NoCallbacks
        /\ \A s \in Threads \ {t} : job'[s] = job[s]
    BY <1>1, <1>11 DEF Unlock, HasNothing, Idle
  <2> QED
    BY <1>1, <1>11, <2>1 DEF Unlock, ColumnOrdered, Newest, Batch, Threads
<1>12. CASE Kill
  BY <1>12 DEF Kill, ColumnOrdered, Batch, Idle, Threads
<1>13. CASE UNCHANGED vars
  BY <1>1, <1>13 DEF vars, ColumnOrdered, Newest, Batch
<1> QED
  BY <1>2, <1>3, <1>4, <1>5, <1>6, <1>7, <1>8, <1>9, <1>10, <1>11, <1>12, <1>13 DEF Next, Run

\* The database has what the session has once nothing of a column waits, for
\* an account whose session goes on, a column that no snapshot writes, and as
\* long as no callback threw and the process did not stop.
THEOREM ColumnsSettle == Spec => []SettledColumn
<1>1. Init => TypeOK /\ ColumnInv
  BY TypeInit, ColumnInit
<1>2. TypeOK /\ ColumnInv /\ [Next]_vars => TypeOK' /\ ColumnInv'
  BY TypeStep, ColumnStep
<1>3. ColumnInv => SettledColumn
  BY DEF ColumnInv, ColumnOrdered, Newest, Batch, SettledColumn, Pending, Threads
<1> QED
  BY <1>1, <1>2, <1>3, PTL DEF Spec
=============================================================================
