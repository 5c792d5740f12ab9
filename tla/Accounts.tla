------------------------------ MODULE Accounts ------------------------------
(***************************************************************************)
(* From the login at Auth to a session of Main, and the punishments that   *)
(* cut it short.  Auth, Main and the HTTP thread of Main share the rows of *)
(* Users: Auth stores a random AccountKey and the time of the login        *)
(* (AuthService.cpp), Main takes the key back before it compares it        *)
(* (AuthorizationHandler.h), commands of staff and Auth's own lock write   *)
(* suspensions, grades and limits, and a session keeps what it read.       *)
(*                                                                         *)
(* Auth handles one request at a time, but a login reads the row, checks a *)
(* password for a long time and writes; Main's asio thread is held by its  *)
(* authorisation between three statements.  So these two are split, and    *)
(* everything else is one step.  Keys are numbered as they are made up.    *)
(* Who gives a command is any member of staff, known by the grade that its *)
(* session remembers.  Two-factor tokens, hardware ids and the port of the *)
(* graded accounts are inputs of a login; enhancedSecurity is on.          *)
(***************************************************************************)
EXTENDS Integers, FiniteSets

CONSTANTS Accounts,
          FirstGrade,  \* account -> the grade it starts with
          Kinds,       \* what may be limited: "chat", "room", "votekick"
          Offline, Idle,
          MaxFailed,   \* MAX_FAILED_ATTEMPTS, 3 in the code
          MaxTries,    \* maxAttempts of /changepw and /changeusername, 3 or 5
          MaxKeys      \* bound: keys made up

Normal == 1
Es == 2
Mod == 3
Tester == 4
System == 9
Staff == {Mod, Tester}

ASSUME GradeAssumption == FirstGrade \in [Accounts -> {Normal, Es} \cup Staff]
ASSUME LimitsAssumption == MaxFailed \in Nat \ {0} /\ MaxTries \in Nat \ {0} /\ MaxKeys \in Nat
ASSUME OfflineAssumption ==
  \A g \in {Normal, Es} \cup Staff, k \in SUBSET Kinds, n \in 0 .. MaxTries :
    Offline # [grade |-> g, limits |-> k, tries |-> n]
ASSUME IdleAssumption ==
  \A a \in Accounts :
    /\ \A g \in {Normal, Es} \cup Staff, s \in BOOLEAN :
         Idle # [account |-> a, grade |-> g, suspended |-> s]
    /\ \A g \in {Normal, Es} \cup Staff, k, l \in 0 .. MaxKeys, r \in BOOLEAN :
         Idle # [account |-> a, grade |-> g, shown |-> k, read |-> l, reset |-> r]

VARIABLES row,      \* Users: AccountKey, LastLogged within a minute, SuspendedUntil
                    \* in the future, Grade, and what is limited for some time
          failed,   \* Auth's m_badLoginAttempts: wrong passwords and wrong tokens
          login,    \* Auth's login between its reading of the row and its answer
          issued,   \* how many keys were made up
          held,     \* the keys that the clients of an account got
          entry,    \* Main's authorisation between its statements
          session,  \* per account the registered session of Main, or Offline
          admitted, \* history: how many sessions a key has let in
          clean,    \* history: accounts whose login of the last minute read no suspension
          late,     \* history: accounts let in, or left in, while they were suspended
          missed    \* history: limits a session lacks because a statement failed

auth == <<failed, login, issued, held>>
history == <<admitted, clean, late, missed>>
vars == <<row, auth, entry, session, history>>

Grades == {Normal, Es} \cup Staff
Rows == [key : 0 .. MaxKeys, recent : BOOLEAN, suspended : BOOLEAN,
         grade : Grades, limits : SUBSET Kinds]
Sessions == [grade : Grades, limits : SUBSET Kinds, tries : 0 .. MaxTries - 1]
Logins == [account : Accounts, grade : Grades, suspended : BOOLEAN]
Entries == [account : Accounts, grade : Grades, shown : 0 .. MaxKeys,
            read : 0 .. MaxKeys, reset : BOOLEAN]

TypeOK ==
  /\ row \in [Accounts -> Rows]
  /\ failed \in [Accounts -> [password : 0 .. MaxFailed, token : 0 .. MaxFailed]]
  /\ login \in Logins \cup {Idle}
  /\ issued \in 0 .. MaxKeys
  /\ held \in [Accounts -> SUBSET (1 .. issued)]
  /\ entry \in Entries \cup {Idle}
  /\ session \in [Accounts -> Sessions \cup {Offline}]
  /\ admitted \in [1 .. MaxKeys -> Nat]
  /\ clean \subseteq Accounts
  /\ late \subseteq Accounts
  /\ missed \subseteq Accounts \X Kinds

Init ==
  /\ row = [a \in Accounts |-> [key |-> 0, recent |-> FALSE, suspended |-> FALSE,
                                grade |-> FirstGrade[a], limits |-> {}]]
  /\ failed = [a \in Accounts |-> [password |-> 0, token |-> 0]]
  /\ login = Idle
  /\ issued = 0
  /\ held = [a \in Accounts |-> {}]
  /\ entry = Idle
  /\ session = [a \in Accounts |-> Offline]
  /\ admitted = [k \in 1 .. MaxKeys |-> 0]
  /\ clean = {} /\ late = {} /\ missed = {}

Online(a) == session[a] # Offline

-----------------------------------------------------------------------------
(* Auth.                                                                   *)

\* getCompletePlayerInfo(): grade and suspension as they are before the
\* password is checked.
LoginReads(a) ==
  /\ login = Idle
  /\ login' = [account |-> a, grade |-> row[a].grade, suspended |-> row[a].suspended]
  /\ UNCHANGED <<row, failed, issued, held, entry, session, history>>

Graded == login.grade >= Mod
NoFailures == [password |-> 0, token |-> 0]

\* addHash() ignores what the database answers.
Stored(rows, a, k) == {rows, [rows EXCEPT ![a].key = k]}

\* "AccountKey=0 signals failure to MainServer": every refusal takes the key
\* that an earlier login may have left.
Refuses(a) == row' \in Stored(row, a, 0)

\* removeGradeAndSuspend(), behind tryLockAccount(): a session that is online
\* stays, with the grade it remembers.
Locks(a) ==
  /\ row' \in Stored([row EXCEPT ![a].suspended = TRUE, ![a].grade = Normal], a, 0)
  /\ late' = late \cup {x \in {a} : Online(x)}

\* A graded login without its secret, on the wrong port, or with another
\* hardware id is refused before the password is looked at.
LoginFromElsewhere ==
  /\ login # Idle /\ Graded
  /\ Refuses(login.account)
  /\ login' = Idle
  /\ UNCHANGED <<failed, issued, held, entry, session, history>>

\* Above the limit a counter need not grow: only >= is asked of it.
Up(n) == IF n < MaxFailed THEN n + 1 ELSE n

Counted(a, passwordOk, tokenOk) ==
  IF ~passwordOk THEN [failed[a] EXCEPT !.password = Up(@)]
  ELSE IF ~tokenOk THEN [failed[a] EXCEPT !.token = Up(@)]
  ELSE failed[a]

TooMany(counters) == counters.password >= MaxFailed \/ counters.token >= MaxFailed

\* The counters come before the outcome: when the lock failed, the next
\* attempt locks even if it is right.
LoginLocks(a, passwordOk, tokenOk) ==
  /\ Graded /\ TooMany(Counted(a, passwordOk, tokenOk))
  /\ \/ /\ Locks(a)
        /\ failed' = [failed EXCEPT ![a] = NoFailures]
     \/ /\ Refuses(a)
        /\ failed' = [failed EXCEPT ![a] = Counted(a, passwordOk, tokenOk)]
        /\ UNCHANGED late
  /\ UNCHANGED <<issued, held, clean>>

\* Wrong credentials, or right ones of an account that was suspended when its
\* row was read; the token matters to graded accounts only.
LoginFails(a, passwordOk, tokenOk) ==
  LET right == passwordOk /\ (Graded => tokenOk) IN
  /\ ~(Graded /\ TooMany(Counted(a, passwordOk, tokenOk)))
  /\ ~right \/ login.suspended
  /\ failed' = IF ~Graded THEN failed
               ELSE [failed EXCEPT ![a] = IF right THEN NoFailures
                                          ELSE Counted(a, passwordOk, tokenOk)]
  /\ Refuses(a)
  /\ UNCHANGED <<issued, held, clean, late>>

\* A new key is stored, or should be, then the time of the login; only with
\* the time does the client get its answer.  Without entropy the key is 0.
LoginSucceeds(a, passwordOk, tokenOk) ==
  /\ passwordOk /\ (Graded => tokenOk) /\ ~login.suspended
  /\ ~(Graded /\ TooMany(failed[a]))
  /\ issued < MaxKeys
  /\ issued' = issued + 1
  /\ failed' = IF Graded THEN [failed EXCEPT ![a] = NoFailures] ELSE failed
  /\ \E k \in {issued + 1, 0} :
       \/ /\ row' \in Stored([row EXCEPT ![a].recent = TRUE], a, k)
          /\ held' = [held EXCEPT ![a] = @ \cup ({k} \ {0})]
          /\ clean' = IF login.suspended THEN clean \ {a} ELSE clean \cup {a}
       \/ /\ row' \in Stored(row, a, k)
          /\ UNCHANGED <<held, clean>>
  /\ UNCHANGED late

LoginAnswers ==
  \E passwordOk, tokenOk \in BOOLEAN :
    /\ login # Idle
    /\ \/ LoginLocks(login.account, passwordOk, tokenOk)
       \/ LoginFails(login.account, passwordOk, tokenOk)
       \/ LoginSucceeds(login.account, passwordOk, tokenOk)
    /\ login' = Idle
    /\ UNCHANGED <<entry, session, admitted, missed>>

AuthRestarts ==
  /\ failed' = [a \in Accounts |-> NoFailures]
  /\ login' = Idle
  /\ UNCHANGED <<row, issued, held, entry, session, history>>

-----------------------------------------------------------------------------
(* Main's authorisation.                                                   *)

\* getPlayerInfo(): the key that will be compared with the one the client shows,
\* which may be any it was given, or 0.
EntryReads(a, k) ==
  /\ entry = Idle
  /\ entry' = [account |-> a, grade |-> row[a].grade, shown |-> k,
               read |-> row[a].key, reset |-> FALSE]
  /\ UNCHANGED <<row, auth, session, history>>

\* Mutant: a reset that fails is ignored.
EntryResetsOrNot ==
  /\ entry # Idle /\ ~entry.reset
  /\ \/ row' = [row EXCEPT ![entry.account].key = 0]
     \/ UNCHANGED row
  /\ entry' = [entry EXCEPT !.reset = TRUE]
  /\ UNCHANGED <<auth, session, history>>

\* resetAccountKey(), whatever the key is by now.
EntryResets ==
  /\ entry # Idle /\ ~entry.reset
  /\ \/ /\ row' = [row EXCEPT ![entry.account].key = 0]
        /\ entry' = [entry EXCEPT !.reset = TRUE]
     \/ /\ UNCHANGED row
        /\ entry' = Idle
  /\ UNCHANGED <<auth, session, history>>

\* setMute() and the two other switches, from the row as it is now; a limit
\* whose statement fails is taken for none.
LimitsRead(a, lost) == row[a].limits \ lost

\* The session replaces an older one of the account (MainAccountInfoHandler.h:31).
Admits(a) ==
  \E lost \in SUBSET row[a].limits :
    /\ session' = [session EXCEPT ![a] =
                     [grade |-> entry.grade, limits |-> LimitsRead(a, lost), tries |-> 0]]
    /\ admitted' = [k \in 1 .. MaxKeys |-> admitted[k] + (IF k = entry.shown THEN 1 ELSE 0)]
    /\ late' = IF row[a].suspended /\ a \in clean THEN late \cup {a} ELSE late \ {a}
    /\ missed' = (missed \ ({a} \X Kinds)) \cup ({a} \X lost)

EntryDecides ==
  /\ entry # Idle /\ entry.reset
  /\ \E available, hardware \in BOOLEAN :
       IF /\ row[entry.account].recent
          /\ available \/ entry.grade >= Es
          /\ entry.shown = entry.read
          /\ entry.grade >= Mod => hardware
       THEN Admits(entry.account)
       ELSE UNCHANGED <<session, admitted, late, missed>>
  /\ entry' = Idle
  /\ UNCHANGED <<row, auth, clean>>

\* The session goes: logout, closeSocket(), or removeSession() by a handler.
Removes(A) ==
  /\ session' = [a \in Accounts |-> IF a \in A THEN Offline ELSE session[a]]
  /\ late' = late \ A
  /\ missed' = missed \ (A \X Kinds)

Leave(a) ==
  /\ entry = Idle /\ Online(a)
  /\ Removes({a})
  /\ UNCHANGED <<row, auth, entry, admitted, clean>>

MainRestarts ==
  /\ entry' = Idle
  /\ Removes(Accounts)
  /\ UNCHANGED <<row, auth, admitted, clean>>

\* POST /ban and /disconnect: the rows are written by the web site.
HttpRemoves(a) ==
  /\ Online(a)
  /\ Removes({a})
  /\ UNCHANGED <<row, auth, entry, admitted, clean>>

\* POST /mute: only the session.
HttpMutes(a) ==
  /\ Online(a) /\ "chat" \in Kinds
  /\ session' = [session EXCEPT ![a].limits = @ \cup {"chat"}]
  /\ missed' = missed \ {<<a, "chat">>}
  /\ UNCHANGED <<row, auth, entry, admitted, clean, late>>

-----------------------------------------------------------------------------
(* Commands, given by staff whose session remembers grade g.               *)

\* updateSuspension(): the row decides, and the grade in the row is the one
\* that is compared.
Suspended(a, g) == [row EXCEPT ![a].suspended = @ \/ row[a].grade < g]

\* Mutant: a target that is online is not removed.
BanStays(a, g) ==
  /\ entry = Idle
  /\ Online(a) => session[a].grade < g
  /\ row' = Suspended(a, g)
  /\ UNCHANGED <<auth, entry, session, history>>

\* /ban.  A target that is online is removed before the row is tried, and the
\* row is tried with the grade of a moderator, whoever gave the command.
Ban(a, g) ==
  /\ entry = Idle
  /\ IF Online(a)
     THEN /\ session[a].grade < g
          /\ Removes({a})
          /\ row' \in {Suspended(a, Mod), row}
     ELSE /\ row' = Suspended(a, g)
          /\ UNCHANGED <<session, late, missed>>
  /\ UNCHANGED <<auth, entry, admitted, clean>>

Unban(a) ==
  /\ entry = Idle
  /\ row' = [row EXCEPT ![a].suspended = FALSE]
  /\ late' = late \ {a}
  /\ UNCHANGED <<auth, entry, session, admitted, clean, missed>>

\* updateMute() looks at the grade in the row, the updates of the other two
\* switches do not.
MayLimit(a, kind, g) == kind = "chat" => row[a].grade < g

RowLimited(a, kind) == row' = [row EXCEPT ![a].limits = @ \cup {kind}]

\* Mutant: the session is not told.
LimitUntold(a, kind, g) ==
  /\ entry = Idle /\ MayLimit(a, kind, g)
  /\ RowLimited(a, kind)
  /\ missed' = missed \ {<<a, kind>>}
  /\ UNCHANGED <<auth, entry, session, admitted, clean, late>>

\* /mute, /disableroomcreationfor, /disablevotekickfor.
Limit(a, kind, g) ==
  /\ entry = Idle
  /\ IF Online(a)
     THEN /\ session[a].grade < g /\ MayLimit(a, kind, Mod)
          /\ RowLimited(a, kind)
          /\ session' = [session EXCEPT ![a].limits = @ \cup {kind}]
     ELSE /\ MayLimit(a, kind, g)
          /\ RowLimited(a, kind)
          /\ UNCHANGED session
  /\ missed' = missed \ {<<a, kind>>}
  /\ UNCHANGED <<auth, entry, admitted, clean, late>>

\* /unmute and the like: the session first, then the row, which may fail.
Lift(a, kind) ==
  /\ entry = Idle
  /\ session' = IF Online(a) THEN [session EXCEPT ![a].limits = @ \ {kind}] ELSE session
  /\ \/ /\ row' = [row EXCEPT ![a].limits = @ \ {kind}]
        /\ UNCHANGED missed
     \/ /\ UNCHANGED row
        /\ missed' = IF Online(a) THEN missed \cup {<<a, kind>>} ELSE missed
  /\ UNCHANGED <<auth, entry, admitted, clean, late>>

\* /gradees, for testers and above: row and session together.
GradeEs(a, g) ==
  /\ entry = Idle /\ g >= Tester
  /\ Online(a) => session[a].grade <= g
  /\ row[a].grade <= g
  /\ row' = [row EXCEPT ![a].grade = Es]
  /\ session' = IF Online(a) THEN [session EXCEPT ![a].grade = Es] ELSE session
  /\ UNCHANGED <<auth, entry, history>>

\* Mutant: one attempt more.
WrongOnceMore(a) ==
  /\ entry = Idle /\ Online(a)
  /\ IF session[a].tries < MaxTries
     THEN /\ session' = [session EXCEPT ![a].tries = @ + 1]
          /\ UNCHANGED <<row, late, missed>>
     ELSE /\ Removes({a})
          /\ row' \in {Suspended(a, System), row}
  /\ UNCHANGED <<auth, entry, admitted, clean>>

\* /changepw and /changeusername with a wrong password or token; "tries" stands
\* for each of their four counters.
WrongCredentials(a) ==
  /\ entry = Idle /\ Online(a)
  /\ IF session[a].tries + 1 < MaxTries
     THEN /\ session' = [session EXCEPT ![a].tries = @ + 1]
          /\ UNCHANGED <<row, late, missed>>
     ELSE /\ Removes({a})
          /\ row' \in {Suspended(a, System), row}
  /\ UNCHANGED <<auth, entry, admitted, clean>>

RightCredentials(a) ==
  /\ entry = Idle /\ Online(a)
  /\ session' = [session EXCEPT ![a].tries = 0]
  /\ UNCHANGED <<row, auth, entry, history>>

-----------------------------------------------------------------------------
(* Time.                                                                   *)

MinutePasses(a) ==
  /\ row[a].recent
  /\ row' = [row EXCEPT ![a].recent = FALSE]
  /\ clean' = clean \ {a}
  /\ UNCHANGED <<auth, entry, session, admitted, late, missed>>

SuspensionEnds(a) ==
  /\ row[a].suspended
  /\ row' = [row EXCEPT ![a].suspended = FALSE]
  /\ late' = late \ {a}
  /\ UNCHANGED <<auth, entry, session, admitted, clean, missed>>

LimitEnds(a, kind) ==
  /\ kind \in row[a].limits
  /\ row' = [row EXCEPT ![a].limits = @ \ {kind}]
  /\ UNCHANGED <<auth, entry, session, history>>

-----------------------------------------------------------------------------
Next ==
  \/ \E a \in Accounts :
       \/ LoginReads(a)
       \/ \E k \in held[a] \cup {0} : EntryReads(a, k)
       \/ Leave(a) \/ HttpRemoves(a) \/ HttpMutes(a)
       \/ \E g \in Staff : Ban(a, g) \/ GradeEs(a, g) \/ \E kind \in Kinds : Limit(a, kind, g)
       \/ Unban(a) \/ WrongCredentials(a) \/ RightCredentials(a)
       \/ MinutePasses(a) \/ SuspensionEnds(a)
       \/ \E kind \in Kinds : Lift(a, kind) \/ LimitEnds(a, kind)
  \/ LoginFromElsewhere \/ LoginAnswers \/ AuthRestarts
  \/ EntryResets \/ EntryDecides \/ MainRestarts

Spec == Init /\ [][Next]_vars

-----------------------------------------------------------------------------
(* Properties.                                                             *)

\* A key lets one session in, though Auth may store another key between the
\* reading and the reset, resets fail and clients show a key again: Main
\* resets before it compares (AuthorizationHandler.h:62 "for security
\* measures").  0 is no login's key: it stands in the row after every reset and
\* refusal, and equals a 0 that a client shows, any number of times.
KeyAdmitsOnce == \A k \in 1 .. MaxKeys : admitted[k] <= 1

\* A suspended account is not online, unless Auth locked it while it was, or
\* it came in, whatever key it showed, within a minute of a login that had read
\* the row before the suspension: Main itself never looks at SuspendedUntil
\* and takes a 0 for a key, so Auth's check, the minute, and the removal by
\* every ban carry this.
SuspendedKeptOut == \A a \in Accounts : row[a].suspended /\ Online(a) => a \in late

\* A limit that stands in the row holds in the session, which reads it only at
\* its login, unless the statement that read it failed, or the one that lifts
\* it after the session has (MainSession.cpp:1568).
LimitsReach ==
  \A a \in Accounts : Online(a) =>
    \A kind \in row[a].limits \ session[a].limits : <<a, kind>> \in missed
=============================================================================
