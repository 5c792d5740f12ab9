---------------------------- MODULE Persistence ----------------------------
(***************************************************************************)
(* MainScheduler: the write-behind store between the sessions of Main and  *)
(* the database.  Session code queues database callbacks, the scheduler    *)
(* thread wakes up every few seconds and runs all of them, and the end of  *)
(* a session runs those of its account at once on the asio thread.         *)
(*                                                                         *)
(* An update is a stamp, issued in increasing order: the value it writes   *)
(* is the stamp.  A column of an account (its coins, its MicroPoints) is a *)
(* member of Keys, the differentiation key of addCallback.                 *)
(***************************************************************************)
EXTENDS Naturals, Sequences, FiniteSets

CONSTANTS Accounts,
          Keys,           \* columns written by addCallback
          SnapshotKeys,   \* those that updatePlayerStats writes as well
          Leaving,        \* accounts whose session may end
          MaxUpdates      \* bound: updates issued in a behaviour

ASSUME SnapshotAssumption == SnapshotKeys \subseteq Keys
ASSUME LeavingAssumption == Leaving \subseteq Accounts
ASSUME MaxUpdatesAssumption == MaxUpdates \in Nat

VARIABLES issued,       \* the stamps issued so far are 1 .. issued
          mem,          \* m_player.accountInfo of the account's session
          online,       \* the account has a session
          normal,       \* m_databaseCallbacks (0: the map has no such key)
          incremental,  \* m_databaseCallbacksIncremental
          incKey,       \* m_incrementalDifferentiationKey
          job,          \* what persist() / persistFor() moved out and still runs
          guard,        \* who holds the database's mutex (withGuard)
          db,           \* the columns in the database
          applied,      \* the incremental callbacks run, in order
          gone,         \* stamps whose callback threw or died with the process
          queued        \* history: stamps given to addRepetitiveCallback

vars == <<issued, mem, online, normal, incremental, incKey, job, guard, db,
          applied, gone, queued>>

Threads == {"scheduler", "io"}
Stamps == 1 .. MaxUpdates
Values == 0 .. MaxUpdates
Kinds == {"insert", "snapshot"}
Entries == [key : Nat, stamp : Stamps, kind : Kinds]
NoCallbacks == [k \in Keys |-> 0]
Idle == [phase |-> "idle", inc |-> [a \in Accounts |-> {}],
         nor |-> [a \in Accounts |-> NoCallbacks]]

TypeOK ==
  /\ issued \in Values
  /\ mem \in [Accounts -> [Keys -> Values]]
  /\ online \in [Accounts -> BOOLEAN]
  /\ normal \in [Accounts -> [Keys -> Values]]
  /\ incremental \in [Accounts -> SUBSET Entries]
  /\ incKey \in Nat
  /\ job \in [Threads -> [phase : {"idle", "taken", "running"},
                          inc : [Accounts -> SUBSET Entries],
                          nor : [Accounts -> [Keys -> Values]]]]
  /\ guard \in Threads \cup {"none"}
  /\ \A t \in Threads : guard = t <=> job[t].phase = "running"
  /\ db \in [Accounts -> [Keys -> Values]]
  /\ applied \in [Accounts -> Seq(Stamps)]
  /\ gone \subseteq Stamps
  /\ queued \subseteq Stamps

Init ==
  /\ issued = 0
  /\ mem = [a \in Accounts |-> NoCallbacks]
  /\ online = [a \in Accounts |-> FALSE]
  /\ normal = [a \in Accounts |-> NoCallbacks]
  /\ incremental = [a \in Accounts |-> {}]
  /\ incKey = 0
  /\ job = [t \in Threads |-> Idle]
  /\ guard = "none"
  /\ db = [a \in Accounts |-> NoCallbacks]
  /\ applied = [a \in Accounts |-> <<>>]
  /\ gone = {}
  /\ queued = {}

-----------------------------------------------------------------------------
(* Session code on the asio thread; it is blocked while it runs persistFor. *)

IoFree == job["io"].phase = "idle"

\* operator[]: the newest entry of a key replaces the one that waits.
Put(entries, e) == {f \in entries : f.key # e.key} \cup {e}

\* Mutant: emplace in place of operator[], the first value stays.
SetColumnEmplaced(a, k) ==
  /\ IoFree /\ online[a] /\ issued < MaxUpdates
  /\ issued' = issued + 1
  /\ mem' = [mem EXCEPT ![a][k] = issued']
  /\ normal' = [normal EXCEPT ![a][k] = IF @ = 0 THEN issued' ELSE @]
  /\ UNCHANGED <<online, incremental, incKey, job, guard, db, applied, gone, queued>>

\* setAccountRockTotens, setAccountMicroPoints, setAccountCoins, setLevel,
\* setExperience, setAccountLatestCharacterSelected.
SetColumn(a, k) ==
  /\ IoFree /\ online[a] /\ issued < MaxUpdates
  /\ issued' = issued + 1
  /\ mem' = [mem EXCEPT ![a][k] = issued']
  /\ normal' = [normal EXCEPT ![a][k] = issued']
  /\ UNCHANGED <<online, incremental, incKey, job, guard, db, applied, gone, queued>>

\* addRepetitiveCallback of a database call that inserts, deletes or changes
\* rows of its own (items, mailboxes, friends, logs, missions).
Insert(a) ==
  /\ IoFree /\ online[a] /\ issued < MaxUpdates
  /\ issued' = issued + 1
  /\ incKey' = incKey + 1
  /\ incremental' = [incremental EXCEPT
       ![a] = Put(@, [key |-> incKey', stamp |-> issued', kind |-> "insert"])]
  /\ UNCHANGED <<mem, online, normal, job, guard, db, applied, gone>>
  /\ queued' = queued \cup {issued'}

\* storeEndMatchStats: the rewards go into accountInfo and updatePlayerStats
\* is queued with a copy of all of it, as an incremental callback.
Snapshot(a) ==
  /\ IoFree /\ online[a] /\ issued < MaxUpdates
  /\ issued' = issued + 1
  /\ incKey' = incKey + 1
  /\ mem' = [mem EXCEPT ![a] = [k \in Keys |->
                                  IF k \in SnapshotKeys THEN issued' ELSE @[k]]]
  /\ incremental' = [incremental EXCEPT
       ![a] = Put(@, [key |-> incKey', stamp |-> issued', kind |-> "snapshot"])]
  /\ UNCHANGED <<online, normal, job, guard, db, applied, gone>>
  /\ queued' = queued \cup {issued'}

\* immediatePersist(getPlayerInfo) at the login, under the database's mutex.
Login(a) ==
  /\ IoFree /\ ~online[a] /\ guard = "none"
  /\ online' = [online EXCEPT ![a] = TRUE]
  /\ mem' = [mem EXCEPT ![a] = db[a]]
  /\ UNCHANGED <<issued, normal, incremental, incKey, job, guard, db, applied, gone, queued>>

-----------------------------------------------------------------------------
(* persist() and persistFor(): move the callbacks out under the queue's    *)
(* mutex, then take the database's mutex, then run the callbacks.          *)

\* The scheduler wakes up: it takes the callbacks of every account.
PersistTake ==
  /\ job["scheduler"].phase = "idle"
  /\ job' = [job EXCEPT !["scheduler"] =
       [phase |-> "taken", inc |-> incremental, nor |-> normal]]
  /\ incremental' = [a \in Accounts |-> {}]
  /\ normal' = [a \in Accounts |-> NoCallbacks]
  /\ incKey' = 0
  /\ UNCHANGED <<issued, mem, online, guard, db, applied, gone, queued>>

\* Mutant: persistFor starts the keys again, as persist does.
PersistForTakeResets(a) ==
  /\ IoFree /\ online[a] /\ a \in Leaving
  /\ online' = [online EXCEPT ![a] = FALSE]
  /\ job' = [job EXCEPT !["io"] =
       [phase |-> "taken",
        inc |-> [Idle.inc EXCEPT ![a] = incremental[a]],
        nor |-> [Idle.nor EXCEPT ![a] = normal[a]]]]
  /\ incremental' = [incremental EXCEPT ![a] = {}]
  /\ normal' = [normal EXCEPT ![a] = NoCallbacks]
  /\ incKey' = 0
  /\ UNCHANGED <<issued, mem, guard, db, applied, gone, queued>>

\* removeSession -> persistNow -> persistFor: the callbacks of one account.
PersistForTake(a) ==
  /\ IoFree /\ online[a] /\ a \in Leaving
  /\ online' = [online EXCEPT ![a] = FALSE]
  /\ job' = [job EXCEPT !["io"] =
       [phase |-> "taken",
        inc |-> [Idle.inc EXCEPT ![a] = incremental[a]],
        nor |-> [Idle.nor EXCEPT ![a] = normal[a]]]]
  /\ incremental' = [incremental EXCEPT ![a] = {}]
  /\ normal' = [normal EXCEPT ![a] = NoCallbacks]
  /\ UNCHANGED <<issued, mem, incKey, guard, db, applied, gone, queued>>

\* Mutant: the callbacks run without the database's mutex.
LockUnguarded(t) ==
  /\ job[t].phase = "taken"
  /\ guard' = t
  /\ job' = [job EXCEPT ![t].phase = "running"]
  /\ UNCHANGED <<issued, mem, online, normal, incremental, incKey, db, applied, gone, queued>>

Lock(t) ==
  /\ job[t].phase = "taken"
  /\ guard = "none"
  /\ guard' = t
  /\ job' = [job EXCEPT ![t].phase = "running"]
  /\ UNCHANGED <<issued, mem, online, normal, incremental, incKey, db, applied, gone, queued>>

NextEntry(entries) ==
  CHOOSE e \in entries : \A f \in entries : e.key <= f.key

\* runCallback of the oldest incremental callback of an account: it writes
\* its rows (and, for updatePlayerStats, its columns) or it throws.
RunIncremental(t) ==
  /\ job[t].phase = "running"
  /\ \E a \in Accounts :
       /\ job[t].inc[a] # {}
       /\ LET e == NextEntry(job[t].inc[a]) IN
            /\ job' = [job EXCEPT ![t].inc[a] = @ \ {e}]
            /\ \/ /\ applied' = [applied EXCEPT ![a] = Append(@, e.stamp)]
                  /\ db' = [db EXCEPT ![a] =
                       [k \in Keys |-> IF e.kind = "snapshot" /\ k \in SnapshotKeys
                                       THEN e.stamp ELSE @[k]]]
                  /\ gone' = gone
               \/ /\ gone' = gone \cup {e.stamp}
                  /\ UNCHANGED <<applied, db>>
  /\ UNCHANGED <<issued, mem, online, normal, incremental, incKey, guard, queued>>

\* All the incremental callbacks come before the first of the others.
RunNormal(t) ==
  /\ job[t].phase = "running"
  /\ \A a \in Accounts : job[t].inc[a] = {}
  /\ \E a \in Accounts, k \in Keys :
       /\ job[t].nor[a][k] # 0
       /\ job' = [job EXCEPT ![t].nor[a][k] = 0]
       /\ \/ /\ db' = [db EXCEPT ![a][k] = job[t].nor[a][k]]
             /\ gone' = gone
          \/ /\ gone' = gone \cup {job[t].nor[a][k]}
             /\ db' = db
  /\ UNCHANGED <<issued, mem, online, normal, incremental, incKey, guard, applied, queued>>

HasNothing(j) == \A a \in Accounts : j.inc[a] = {} /\ j.nor[a] = NoCallbacks

\* Mutant: the mutex stays locked.
UnlockForgotten(t) ==
  /\ job[t].phase = "running"
  /\ HasNothing(job[t])
  /\ job' = [job EXCEPT ![t] = Idle]
  /\ UNCHANGED <<issued, mem, online, normal, incremental, incKey, guard, db, applied, gone, queued>>

Unlock(t) ==
  /\ job[t].phase = "running"
  /\ HasNothing(job[t])
  /\ guard' = "none"
  /\ job' = [job EXCEPT ![t] = Idle]
  /\ UNCHANGED <<issued, mem, online, normal, incremental, incKey, db, applied, gone, queued>>

-----------------------------------------------------------------------------
\* The stamps that wait in a map of callbacks.
IncStamps(inc) == UNION {{e.stamp : e \in inc[a]} : a \in Accounts}
NorStamps(nor) == {nor[a][k] : a \in Accounts, k \in Keys} \ {0}

\* The process dies (std::terminate in /shutdown, a crash) and starts again:
\* what was queued or taken is lost, what was written stays.
Kill ==
  /\ gone' = gone \cup IncStamps(incremental) \cup NorStamps(normal)
               \cup UNION {IncStamps(job[t].inc) \cup NorStamps(job[t].nor) : t \in Threads}
  /\ online' = [a \in Accounts |-> FALSE]
  /\ normal' = [a \in Accounts |-> NoCallbacks]
  /\ incremental' = [a \in Accounts |-> {}]
  /\ incKey' = 0
  /\ job' = [t \in Threads |-> Idle]
  /\ guard' = "none"
  /\ UNCHANGED <<issued, mem, db, applied, queued>>

Run(t) == Lock(t) \/ RunIncremental(t) \/ RunNormal(t) \/ Unlock(t)

Next ==
  \/ \E a \in Accounts, k \in Keys : SetColumn(a, k)
  \/ \E a \in Accounts : Insert(a)
  \/ \E a \in Accounts : Snapshot(a)
  \/ \E a \in Accounts : Login(a)
  \/ \E a \in Accounts : PersistForTake(a)
  \/ PersistTake
  \/ \E t \in Threads : Run(t)
  \/ Kill

Spec == Init /\ [][Next]_vars

\* The scheduler thread wakes up again and again, and a thread that has taken
\* callbacks goes on.
FairSpec ==
  /\ Spec
  /\ WF_vars(PersistTake)
  /\ \A t \in Threads : SF_vars(Lock(t)) /\ WF_vars(Run(t))

-----------------------------------------------------------------------------
(* Properties.                                                             *)

Pending(a, k) == normal[a][k] # 0 \/ \E t \in Threads : job[t].nor[a][k] # 0

\* The stamps of an account's incremental callbacks that were not run yet.
Waiting(a) ==
  {e.stamp : e \in incremental[a] \cup job["scheduler"].inc[a] \cup job["io"].inc[a]}

Abstract == INSTANCE WriteBehind
  WITH Steady <- Accounts \ Leaving, Updates <- Stamps, submitted <- queued,
       pending <- [a \in Accounts |-> Waiting(a)], log <- applied

\* Although the keys of incremental callbacks start again at 0 with every batch
\* of the scheduler and not with those of persistFor, and two threads take
\* batches and run them under a mutex that is taken later, no callback is run
\* twice, replaced or overtaken: the scheduler is a write-behind store that
\* keeps the order of every account whose session does not end.
ImplementsWriteBehind == Abstract!Spec

\* Once nothing of a column waits, the database has the value the session
\* has, for a session that stays online, no callback that threw and no
\* restart, and a column that no snapshot writes.
SettledColumn ==
  \A a \in Accounts \ Leaving, k \in Keys \ SnapshotKeys :
    online[a] /\ gone = {} /\ ~Pending(a, k) => db[a][k] = mem[a][k]

\* The two mutexes never keep each other waiting and no callback keeps the
\* scheduler: what is queued is eventually run, thrown away or lost.
EventuallyWritten ==
  \A s \in Stamps :
    s \in IncStamps(incremental) \cup NorStamps(normal)
      ~> s \notin IncStamps(incremental) \cup NorStamps(normal)
                   \cup UNION {IncStamps(job[t].inc) \cup NorStamps(job[t].nor) : t \in Threads}
=============================================================================
