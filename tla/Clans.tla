------------------------------- MODULE Clans -------------------------------
(***************************************************************************)
(* Clans in the database (MainDatabaseManager_Clan.cpp) and the commands   *)
(* that change them, beside the sessions that go on with the clan and the  *)
(* contribution they read at login, and the writes that a clan match       *)
(* leaves in the queue.                                                    *)
(*                                                                         *)
(* Every command is one transaction under the database's mutex, so it is   *)
(* one action.  A refused command changes nothing.  Names stand for ids;   *)
(* the first clan here is the first that a command may create (id 10, the  *)
(* ids up to 8 belong to nobody for isUserInClan).  Icons, kills, wins and *)
(* the lists that are only shown are left out; what is said here of        *)
(* ClanContribution holds of the other clan columns of Users.              *)
(***************************************************************************)
EXTENDS Integers, Sequences, FiniteSets, FiniteSetsExt

CONSTANTS Accounts,
          Offline,
          MaxMembers,      \* 30 in the code
          MaxClans,        \* bound: ids
          MaxContribution, \* bound: of a player
          MaxTotal,        \* bound: of a clan, not counting what waits
          MaxRequests,     \* bound
          MaxOnline,       \* bound: sessions at once
          MaxQueue         \* bound: writes of an account that wait

ASSUME AccountsAssumption == IsFiniteSet(Accounts)
ASSUME OfflineAssumption == \A c \in 0 .. MaxClans, n \in 0 .. MaxContribution :
                              Offline # [clan |-> c, contribution |-> n]
ASSUME BoundsAssumption == /\ MaxMembers \in Nat \ {0} /\ MaxClans \in Nat
                           /\ MaxContribution \in Nat /\ MaxTotal \in Nat
                           /\ MaxRequests \in Nat /\ MaxOnline \in Nat /\ MaxQueue \in Nat

VARIABLES clanOf,       \* Users.ClanID, 0 for none
          contribution, \* Users.ClanContribution
          clans,        \* Clans: id -> LeaderAid, TotalContribution
          autoIncrement,\* the next id of Clans
          requests,     \* PendingClanRequests
          session,      \* the account as the session knows it, or Offline
          queue,        \* per account, the writes that wait in the scheduler
          foreign       \* history: accounts whose contribution, stored or waiting,
                        \* was made for another clan than theirs, or for none

vars == <<clanOf, contribution, clans, autoIncrement, requests, session, queue, foreign>>

ClanIds == 1 .. MaxClans
Writes == [kind : {"total"}, clan : 0 .. MaxClans, gain : Nat]
            \cup [kind : {"stats"}, value : 0 .. MaxContribution]

Members(c) == {a \in Accounts : clanOf[a] = c}

TypeOK ==
  /\ clanOf \in [Accounts -> 0 .. MaxClans]
  /\ contribution \in [Accounts -> 0 .. MaxContribution]
  /\ DOMAIN clans \subseteq ClanIds
  /\ \A c \in DOMAIN clans : clans[c] \in [leader : Accounts, total : Nat]
  /\ \A c \in DOMAIN clans : Cardinality(Members(c)) <= MaxMembers
  /\ autoIncrement \in 1 .. MaxClans + 1
  /\ requests \subseteq Accounts \X ClanIds
  /\ session \in [Accounts -> {Offline} \cup [clan : 0 .. MaxClans, contribution : 0 .. MaxContribution]]
  /\ queue \in [Accounts -> Seq(Writes)]
  /\ foreign \subseteq Accounts

-----------------------------------------------------------------------------
(* The statements.                                                         *)

Online(a) == session[a] # Offline

\* "SELECT u.ClanID, c.LeaderAid FROM Users u JOIN Clans c": only a leader has
\* the commands on other accounts.
IsLeader(a) == clanOf[a] \in DOMAIN clans /\ clans[clanOf[a]].leader = a

Requested(a) == {q \in requests : q[1] = a}

\* "SET ClanID = 0, ClanContribution = 0, ...": the sessions are not told, and
\* a write that waits will store the old contribution again.
Reset(A) ==
  /\ clanOf' = [a \in Accounts |-> IF a \in A THEN 0 ELSE clanOf[a]]
  /\ contribution' = [a \in Accounts |-> IF a \in A THEN 0 ELSE contribution[a]]
  /\ foreign' = (foreign \ {a \in A : ~Online(a)}) \cup {a \in A : queue[a] # <<>>}

\* TransactionGuard: what a transaction does not mention.
SessionsKept == UNCHANGED <<session, queue>>

-----------------------------------------------------------------------------
Init ==
  /\ clanOf = [a \in Accounts |-> 0]
  /\ contribution = [a \in Accounts |-> 0]
  /\ clans = <<>>
  /\ autoIncrement = 1
  /\ requests = {}
  /\ session = [a \in Accounts |-> Offline]
  /\ queue = [a \in Accounts |-> <<>>]
  /\ foreign = {}

\* Mutant: isUserInClan looks at the session, which learns of it at a login.
FreeToFound(a) == session[a].clan = 0
MayFound(a) == clanOf[a] = 0

\* CreateClan -> isUserInClan, clanExists, addClan.
CreateClan(a) ==
  /\ Online(a) /\ MayFound(a)
  /\ autoIncrement \in ClanIds
  /\ clans' = [c \in DOMAIN clans \cup {autoIncrement} |->
                 IF c = autoIncrement THEN [leader |-> a, total |-> 0] ELSE clans[c]]
  /\ clanOf' = [clanOf EXCEPT ![a] = autoIncrement]
  /\ autoIncrement' = autoIncrement + 1
  /\ UNCHANGED <<contribution, requests, foreign>> /\ SessionsKept

\* Enlist -> enlistToClan.
Enlist(a, c) ==
  /\ Online(a) /\ clanOf[a] = 0
  /\ c \in DOMAIN clans /\ Cardinality(Members(c)) < MaxMembers
  /\ requests' = requests \cup {<<a, c>>} /\ Cardinality(requests') <= MaxRequests
  /\ UNCHANGED <<clanOf, contribution, clans, autoIncrement, foreign>> /\ SessionsKept

\* Mutant: the limit was looked at when the request was made.
RoomUnchecked(c) == TRUE
HasRoomFor(c) == Cardinality(Members(c)) < MaxMembers

\* ClanAccept -> acceptClanRequest.
Accept(o, a) ==
  /\ Online(o) /\ IsLeader(o)
  /\ clanOf[a] = 0 /\ <<a, clanOf[o]>> \in requests
  /\ HasRoomFor(clanOf[o])
  /\ clanOf' = [clanOf EXCEPT ![a] = clanOf[o]]
  /\ requests' = requests \ Requested(a)
  /\ UNCHANGED <<contribution, clans, autoIncrement, foreign>> /\ SessionsKept

\* ClanDeny -> denyClanRequest.
Deny(o, a) ==
  /\ Online(o) /\ IsLeader(o)
  /\ <<a, clanOf[o]>> \in requests
  /\ requests' = requests \ {<<a, clanOf[o]>>}
  /\ UNCHANGED <<clanOf, contribution, clans, autoIncrement, foreign>> /\ SessionsKept

\* ClanKick -> kickClanMember, which leaves requests alone.
Kick(o, a) ==
  /\ Online(o) /\ IsLeader(o)
  /\ a # o /\ clanOf[a] = clanOf[o]
  /\ Reset({a})
  /\ UNCHANGED <<clans, autoIncrement, requests>> /\ SessionsKept

\* LeaveClan -> leaveClan.
Leave(a) ==
  /\ Online(a) /\ clanOf[a] # 0 /\ ~IsLeader(a)
  /\ Reset({a})
  /\ requests' = requests \ Requested(a)
  /\ UNCHANGED <<clans, autoIncrement>> /\ SessionsKept

\* Mutant: the requests to the clan stay.
RequestsKept(c) == requests
RequestsWithout(c) == {q \in requests : q[2] # c}

\* DisbandClan -> disbandClan.
Disband(o) ==
  /\ Online(o) /\ IsLeader(o)
  /\ Reset(Members(clanOf[o]))
  /\ requests' = RequestsWithout(clanOf[o])
  /\ clans' = [c \in DOMAIN clans \ {clanOf[o]} |-> clans[c]]
  /\ UNCHANGED autoIncrement /\ SessionsKept

\* TransferClan -> transferOwnership.
Transfer(o, a) ==
  /\ Online(o) /\ IsLeader(o)
  /\ a # o /\ clanOf[a] = clanOf[o]
  /\ clans' = [clans EXCEPT ![clanOf[o]].leader = a]
  /\ UNCHANGED <<clanOf, contribution, autoIncrement, requests, foreign>> /\ SessionsKept

-----------------------------------------------------------------------------
(* Matches and what they leave to write.                                   *)

\* Mutant: the player's own row is written first.
StatsFirst(c, gain, value) ==
  <<[kind |-> "stats", value |-> value], [kind |-> "total", clan |-> c, gain |-> gain]>>
MatchWrites(c, gain, value) ==
  <<[kind |-> "total", clan |-> c, gain |-> gain], [kind |-> "stats", value |-> value]>>

\* storeEndMatchStats of a clan match, for the clan and the contribution that
\* the session knows; a party may be made without a clan, too.
StoreMatchStats(a) ==
  LET s == session[a]
  IN  /\ Online(a)
      /\ s.contribution < MaxContribution /\ Len(queue[a]) + 2 <= MaxQueue
      /\ s.clan \in DOMAIN clans => clans[s.clan].total < MaxTotal
      /\ session' = [session EXCEPT ![a].contribution = @ + 1]
      /\ queue' = [queue EXCEPT ![a] = @ \o MatchWrites(s.clan, 1, s.contribution + 1)]
      /\ foreign' = IF s.clan = 0 \/ s.clan # clanOf[a] THEN foreign \cup {a} ELSE foreign
      /\ UNCHANGED <<clanOf, contribution, clans, autoIncrement, requests>>

\* updateClanContribution and updatePlayerStats; a clan that has gone is only
\* logged.
ClansAfter(cs, w) ==
  IF w.kind = "total" /\ w.clan \in DOMAIN cs THEN [cs EXCEPT ![w.clan].total = @ + w.gain] ELSE cs
ContributionAfter(n, w) == IF w.kind = "stats" THEN w.value ELSE n

\* The scheduler runs the writes of an account in their order.
Persist(a) ==
  /\ queue[a] # <<>>
  /\ clans' = ClansAfter(clans, Head(queue[a]))
  /\ contribution' = [contribution EXCEPT ![a] = ContributionAfter(@, Head(queue[a]))]
  /\ queue' = [queue EXCEPT ![a] = Tail(@)]
  /\ UNCHANGED <<clanOf, autoIncrement, requests, session, foreign>>

Login(a) ==
  /\ ~Online(a) /\ Cardinality({b \in Accounts : Online(b)}) < MaxOnline
  /\ session' = [session EXCEPT ![a] = [clan |-> clanOf[a], contribution |-> contribution[a]]]
  /\ UNCHANGED <<clanOf, contribution, clans, autoIncrement, requests, queue, foreign>>

\* removeSession -> persistFor, which runs what waits: here steps of Persist.
Logout(a) ==
  /\ Online(a) /\ queue[a] = <<>>
  /\ session' = [session EXCEPT ![a] = Offline]
  /\ UNCHANGED <<clanOf, contribution, clans, autoIncrement, requests, queue, foreign>>

\* Main stops: sessions and writes are lost; the next start sets the next id
\* back to the first one above the clans that are left.
Restart ==
  /\ \E a \in Accounts : Online(a) \/ queue[a] # <<>>
  /\ session' = [a \in Accounts |-> Offline]
  /\ queue' = [a \in Accounts |-> <<>>]
  /\ autoIncrement' = Max(DOMAIN clans \cup {0}) + 1
  /\ UNCHANGED <<clanOf, contribution, clans, requests, foreign>>

Next ==
  \/ Restart
  \/ \E a \in Accounts :
       \/ CreateClan(a)
       \/ \E c \in ClanIds : Enlist(a, c)
       \/ Leave(a)
       \/ Disband(a)
       \/ StoreMatchStats(a)
       \/ Persist(a)
       \/ Login(a)
       \/ Logout(a)
       \/ \E o \in Accounts : Accept(o, a) \/ Deny(o, a) \/ Kick(o, a) \/ Transfer(o, a)

Spec == Init /\ [][Next]_vars

-----------------------------------------------------------------------------
(* Properties.                                                             *)

\* A clan is led by one of its members, over transfers, kicks, new clans and
\* members that leave with a session that is out of date; and whoever has a
\* clan id or a request, has it for a clan that exists.  A clan without a
\* leader among its members could never be disbanded or joined again.
ClansCoherent ==
  /\ \A c \in DOMAIN clans : clanOf[clans[c].leader] = c
  /\ \A a \in Accounts : clanOf[a] # 0 => clanOf[a] \in DOMAIN clans
  /\ \A q \in requests : q[2] \in DOMAIN clans

\* The id of a clan that was disbanded is given to another clan after a
\* restart: a clan starts with its founder alone, without requests, and no
\* write that waits belongs to the clan that had its id before.
FoundedAfresh ==
  [][\A c \in DOMAIN clans' \ DOMAIN clans :
       /\ {a \in Accounts : clanOf'[a] = c} = {clans'[c].leader}
       /\ \A q \in requests' : q[2] # c
       /\ \A a \in Accounts : \A i \in DOMAIN queue[a] :
            queue[a][i].kind = "total" => queue[a][i].clan # c]_vars

\* updateClanContribution is queued before the player's own row, so whatever a
\* crash loses, the total of a clan covers what its members are shown to have
\* contributed, leaving out contributions that were made for another clan.
ContributionCovered ==
  \A c \in DOMAIN clans :
    MapThenSumSet(LAMBDA a : contribution[a], Members(c) \ foreign) <= clans[c].total
=============================================================================
