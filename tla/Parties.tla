------------------------------ MODULE Parties ------------------------------
(***************************************************************************)
(* Parties of clans and the clan rooms they meet in (PartiesManager,       *)
(* PartyRoom, Handlers/Clan), composed with Rooms: the rooms here are the  *)
(* clan rooms, whose numbers come from a generator of their own and so     *)
(* start at 1.  A party waits, registers, is challenged by a party of      *)
(* another clan, plays in a clan room, and returns to waiting.             *)
(*                                                                         *)
(* As in Rooms, handlers are operators on a world w, since leaving a party *)
(* leaves the room and leaving the room leaves the party.  Staff commands, *)
(* observers, team switches and votekicks are those of Rooms and are left  *)
(* out here; so are normal rooms, in which a member may sit meanwhile.     *)
(* The state "waiting" stands for all that are not STATE_NORMAL or DYING.  *)
(***************************************************************************)
EXTENDS Integers, Sequences, FiniteSets

CONSTANTS Sessions, NoSession, PlayersPerRoom, MaxObservers, MaxRooms, MaxNumber,
          MaxJoined,    \* as in Rooms
          Clans,
          ClanOf,       \* accountInfo.clanId, which changes at a login only
          MaxParties,   \* maxPartiesPerClan
          Sizes,        \* playersPerTeam that a leader may choose
          DefaultSize,  \* maxPlayers of a new party
          MaxRegistered,\* maxClanRooms
          NoParty       \* a null pointer to a party

ASSUME ClanOfAssumption == ClanOf \in [Sessions -> Clans]
ASSUME SizesAssumption == MaxParties \in Nat \ {0} /\ Sizes \subseteq Nat /\ DefaultSize \in Nat
ASSUME MaxNumberAssumption == MaxNumber \in Nat
ASSUME NoPartyAssumption == NoParty \notin Clans \X (1 .. MaxParties)

VARIABLES rooms, number, state, free, next, online,  \* those of Rooms
          parties,  \* m_partyRoomByClanId: <<clan, number>> -> PartyRoom
          party,    \* matchContext.partyRoomNumber, 0 for none
          matches   \* m_clanRooms: clan room -> the two parties

R == INSTANCE Rooms

roomVars == <<rooms, number, state, free, next, online>>
partiesVars == <<rooms, number, state, free, next, online, parties, party, matches>>

Keys == Clans \X (1 .. MaxParties)
PartyType == [players : Seq([id : Sessions, live : BOOLEAN]), max : Sizes \cup {DefaultSize},
              registered : BOOLEAN, started : BOOLEAN, match : 0 .. MaxNumber]

PartiesTypeOK ==
  /\ \A r \in DOMAIN rooms : r \in 1 .. MaxNumber /\ rooms[r] \in R!RoomType
  /\ number \in [Sessions -> 0 .. MaxNumber] /\ state \in [Sessions -> R!States]
  /\ free \in Seq(1 .. MaxNumber) /\ next \in 1 .. MaxNumber + 1 /\ online \subseteq Sessions
  /\ DOMAIN parties \subseteq Keys
  /\ \A k \in DOMAIN parties : parties[k] \in PartyType /\ parties[k].players # <<>>
  /\ party \in [Sessions -> 0 .. MaxParties]
  /\ DOMAIN matches \subseteq 1 .. MaxNumber
  /\ \A r \in DOMAIN matches : matches[r] \in (Keys \cup {NoParty}) \X (Keys \cup {NoParty})

World == [rooms |-> rooms, number |-> number, state |-> state, free |-> free,
          parties |-> parties, party |-> party, matches |-> matches]
Become(w) == R!Become(w) /\ parties' = w.parties /\ party' = w.party /\ matches' = w.matches

-----------------------------------------------------------------------------
(* PartyRoom.                                                              *)

Member(s) == [id |-> s, live |-> TRUE]
Positions(q, s) == {i \in DOMAIN q.players : q.players[i] = Member(s)}
Live(q) == {q.players[i].id : i \in {i \in DOMAIN q.players : q.players[i].live}}
Leads(q, s) == q.players # <<>> /\ q.players[1] = Member(s)

\* changeLeaderToFirstAvailable.
Successors(q) == {i \in DOMAIN q.players \ {1} : q.players[i].live}
Successor(q) == CHOOSE i \in Successors(q) : \A j \in Successors(q) : i <= j

\* removePlayer: a leader first swaps with its successor; whoever leaves is
\* swapped with the last and dropped.
\* Mutant: the leader is dropped at the place where it was before the swap.
LeaverDropped(q, s) ==
  LET i == R!The(Positions(q, s))
  IN  IF Leads(q, s) /\ Len(q.players) > 1
      THEN R!SwapOut(R!SwapWithFirst(q.players, Successor(q)), i) ELSE R!SwapOut(q.players, i)
WithoutMember(q, s) ==
  LET i == R!The(Positions(q, s))
      j == Successor(q)
  IN  IF Leads(q, s) /\ Len(q.players) > 1
      THEN R!SwapOut(R!SwapWithFirst(q.players, j), j) ELSE R!SwapOut(q.players, i)
CanLose(q, s) ==
  /\ s \in Live(q)
  /\ Leads(q, s) /\ Len(q.players) > 1 => Successors(q) # {}

-----------------------------------------------------------------------------
(* PartiesManager.                                                         *)

OwnParty(w, s) == <<ClanOf[s], w.party[s]>>

\* Mutant: its players go, but the party stays in its clan's list.
RemovePlayersOnly(w, k) ==
  [w EXCEPT !.number = [s \in Sessions |-> IF s \in Live(w.parties[k]) THEN 0 ELSE @[s]],
            !.party = [s \in Sessions |-> IF s \in Live(w.parties[k]) THEN 0 ELSE @[s]],
            !.parties[k].players = <<>>]

Other(side, k) == IF side = k THEN NoParty ELSE side
\* removeExactRoom: its players leave party and room, and matches forget it.
RemoveParty(w, k) ==
  [w EXCEPT !.number = [s \in Sessions |-> IF s \in Live(w.parties[k]) THEN 0 ELSE @[s]],
            !.party = [s \in Sessions |-> IF s \in Live(w.parties[k]) THEN 0 ELSE @[s]],
            !.parties = R!Without(@, {k}),
            !.matches = [r \in DOMAIN @ |-> <<Other(@[r][1], k), Other(@[r][2], k)>>]]

\* setClanMatchRoomNumber.
SetMatch(w, k, r) ==
  IF k = NoParty THEN w
  ELSE [w EXCEPT !.parties[k].match = r,
                 !.parties[k].registered = @ /\ (r # 0 \/ Live(w.parties[k]) = {}),
                 !.number = [s \in Sessions |-> IF s \in Live(w.parties[k]) THEN r ELSE @[s]]]

\* removeClanMatch.
RemoveMatch(w, r, removeParties) ==
  LET sides == w.matches[r]
      apart == SetMatch(SetMatch(w, sides[1], 0), sides[2], 0)
      Gone(v, k) == IF removeParties /\ k \in DOMAIN v.parties THEN RemoveParty(v, k) ELSE v
  IN  [Gone(Gone(apart, sides[1]), sides[2]) EXCEPT !.matches = R!Without(@, {r})]

\* handleClanRoomError: both parties and the room go.
ClanRoomError(w, r, k) ==
  LET v == IF r \in DOMAIN w.matches THEN RemoveMatch(w, r, TRUE)
           ELSE IF k \in DOMAIN w.parties THEN RemoveParty(w, k) ELSE w
  IN  IF r \in DOMAIN v.rooms THEN R!RemoveRoom(v, r) ELSE v

-----------------------------------------------------------------------------
(* Leaving and joining, which other handlers call.                         *)

FromRoom(w, r, s) ==
  IF r \in DOMAIN w.rooms THEN R!Closing(w, r, R!RemovePlayer(w, w.rooms[r], s)) ELSE {w}

\* handlePartyRoomLeave: an empty party goes, a waiting one is no longer
\* registered, and the player leaves the room of the party's match.
PartyLeave(w, s) ==
  LET k == OwnParty(w, s)
      r == w.parties[k].match
      left == [w EXCEPT !.parties[k].players = WithoutMember(w.parties[k], s),
                        !.parties[k].registered = @ /\ r # 0,
                        !.party[s] = 0, !.number[s] = 0]
  IN  IF k \notin DOMAIN w.parties THEN {w}
      ELSE IF ~CanLose(w.parties[k], s) THEN {ClanRoomError(w, r, k)}
      ELSE IF left.parties[k].players = <<>> THEN FromRoom(RemoveParty(left, k), r, s)
      ELSE FromRoom(left, r, s)

\* handleClanRoomJoin -> addPlayer: nobody twice, but whatever the capacity.
EnterRoom(w, r, s) ==
  IF r \notin DOMAIN w.rooms \/ s \in R!Members(w.rooms[r]) THEN w
  ELSE [w EXCEPT !.rooms[r].players = Append(@, R!NewEntry(s)), !.number[s] = r]

\* handlePartyJoin, of a session whose clan is that of the party.
PartyJoin(w, s, k) ==
  LET q == w.parties[k]
      leader == q.players[1]
      entered == EnterRoom(w, w.number[leader.id], s)
  IN  IF k \notin DOMAIN w.parties THEN w
      ELSE IF ~leader.live THEN RemoveParty(w, k)
      ELSE IF q.started \/ Len(q.players) >= q.max \/ s \in Live(q) THEN w
      ELSE [entered EXCEPT !.parties[k].players = Append(@, Member(s)), !.party[s] = k[2]]

\* handleRoomLeave without a kick.
RoomLeave(w, s) ==
  IF ~R!HasRoom(w, s) THEN {w}
  ELSE IF OwnParty(w, s) \in DOMAIN w.parties THEN PartyLeave(w, s) ELSE R!RoomLeave(w, s)

\* handleMatchLeaveClan: match, then party.
MatchLeave(w, s) ==
  LET n == w.number[s]
      Lost(o) == IF o.close THEN ClanRoomError(R!Put(w, n, o), n, OwnParty(w, s))
                 ELSE R!Put(w, n, o)
      out == IF R!IsHost(w.rooms[n], s) THEN {Lost(o) : o \in R!RemoveHost(w, w.rooms[n])}
             ELSE {R!SetStateFor(w, n, s, "waiting")}
  IN  IF ~R!HasRoom(w, s) THEN {w} ELSE UNION {PartyLeave(v, s) : v \in out}

-----------------------------------------------------------------------------
PartiesInit ==
  /\ rooms = <<>> /\ number = [s \in Sessions |-> 0] /\ online = {}
  /\ free = <<>> /\ next = 1
  /\ state = [s \in Sessions |-> "waiting"]
  /\ parties = <<>>
  /\ party = [s \in Sessions |-> 0]
  /\ matches = <<>>

Has(s) == s \in online /\ OwnParty(World, s) \in DOMAIN parties
Own(s) == parties[OwnParty(World, s)]

InPartyOnly == UNCHANGED roomVars

\* handlePartyCreation, also while in a party; addRoom then forgets the matches
\* of which no party is left.
CreateParty(s) ==
  LET unused == {k \in 1 .. MaxParties : <<ClanOf[s], k>> \notin DOMAIN parties}
      k == CHOOSE i \in unused : \A j \in unused : i <= j
      new == [players |-> <<Member(s)>>, max |-> DefaultSize, registered |-> FALSE,
              started |-> FALSE, match |-> 0]
  IN  /\ s \in online /\ unused # {}
      /\ parties' = [i \in DOMAIN parties \cup {<<ClanOf[s], k>>} |->
                      IF i = <<ClanOf[s], k>> THEN new ELSE parties[i]]
      /\ party' = [party EXCEPT ![s] = k]
      /\ matches' = R!Without(matches, {r \in DOMAIN matches : matches[r] = <<NoParty, NoParty>>})
      /\ InPartyOnly

JoinParty(s, k) ==
  /\ s \in online /\ k \in DOMAIN parties /\ k[1] = ClanOf[s]
  /\ Become(PartyJoin(World, s, k))
  /\ UNCHANGED <<next, online>>

LeaveParty(s) ==
  /\ Has(s)
  /\ \E w \in PartyLeave(World, s) : Become(w)
  /\ UNCHANGED <<next, online>>

\* handlePartySettings<117>: the new maximum may be below the present size.
SetSize(s, n) ==
  /\ Has(s) /\ Leads(Own(s), s)
  /\ parties' = [parties EXCEPT ![OwnParty(World, s)].max = n]
  /\ InPartyOnly /\ UNCHANGED <<party, matches>>

\* handlePartyLeaderChange.
ChangeLeader(s, i) ==
  /\ Has(s) /\ Leads(Own(s), s)
  /\ i \in Successors(Own(s))
  /\ parties' = [parties EXCEPT ![OwnParty(World, s)].players = R!SwapWithFirst(@, i)]
  /\ InPartyOnly /\ UNCHANGED <<party, matches>>

\* handleClanRegister<120>, which also withdraws.
Register(s) ==
  /\ Cardinality({k \in DOMAIN parties : parties[k].registered /\ parties[k].players[1].live})
       < MaxRegistered
  /\ Has(s) /\ Leads(Own(s), s) /\ Len(Own(s).players) >= Own(s).max
  /\ parties' = [parties EXCEPT ![OwnParty(World, s)].registered = ~@]
  /\ InPartyOnly /\ UNCHANGED <<party, matches>>

\* handleRoomCreationClan for the leader of the challenged party, then
\* everybody joins, then addClanMatch, whose failure is only announced.
\* The leader's former room, if any, is not left.
Hosted(w, r, leader) ==
  [w EXCEPT !.rooms = [n \in DOMAIN @ \cup {r} |->
              IF n = r THEN [players |-> <<R!NewEntry(leader)>>, observers |-> <<>>,
                             started |-> FALSE, target |-> NoSession] ELSE @[n]],
            !.number[leader] = r, !.state[leader] = "waiting"]
Entering(v, r, e) == IF e.live THEN EnterRoom(v, r, e.id) ELSE v
Enter(w, r, q) ==
  LET f[i \in 0 .. Len(q.players)] == IF i = 0 THEN w ELSE Entering(f[i - 1], r, q.players[i])
  IN  f[Len(q.players)]
AddMatch(w, r, k, target) ==
  IF w.parties[k].match # 0 \/ w.parties[target].match # 0 THEN w
  ELSE SetMatch(SetMatch([w EXCEPT !.matches = [n \in DOMAIN @ \cup {r} |->
                  IF n = r THEN <<k, target>> ELSE @[n]]], k, r), target, r)

\* handleOtherClanJoin, by any member; a target that is gone is dereferenced
\* in the code, so the target exists here.  MaxRooms is not looked at.
Challenge(s, target) ==
  LET r == R!Generated
      k == OwnParty(World, s)
      leader == parties[target].players[1]
  IN  /\ Has(s) /\ target \in DOMAIN parties /\ target[1] # ClanOf[s]
      /\ parties[target].registered /\ parties[target].match = 0
      /\ Len(parties[target].players) <= Len(parties[k].players)
      /\ leader.live /\ r # 0
      /\ next' = IF free = <<>> THEN next + 1 ELSE next
      /\ LET w == [World EXCEPT !.free = IF @ # <<>> THEN Tail(@) ELSE @]
             met == Enter(Enter(Hosted(w, r, leader.id), r, parties[target]), r, parties[k])
         IN  Become(AddMatch(met, r, k, target))
      /\ UNCHANGED online

\* handleRoomStart by the host; by another player it is JoinMatch of Rooms.
SetStarted(r, b) ==
  [k \in DOMAIN parties |-> IF k \in {matches[r][1], matches[r][2]}
                            THEN [parties[k] EXCEPT !.started = b] ELSE parties[k]]
StartMatch(s) ==
  /\ s \in online /\ number[s] \in DOMAIN matches
  /\ R!StartMatch(s)
  /\ parties' = SetStarted(number[s], TRUE)
  /\ UNCHANGED <<party, matches>>

\* handleMatchEnding -> storeClanMatchStats and endMatch.
EndMatch(s) ==
  /\ s \in online /\ R!HasRoom(World, s)
  /\ R!EndMatch(s)
  /\ parties' = IF number[s] \in DOMAIN matches THEN SetStarted(number[s], FALSE) ELSE parties
  /\ UNCHANGED <<party, matches>>

\* handleClanRoomLeave: the room goes, and everybody of both parties leaves
\* the party and joins it again, the leader last.
Again(w, s, k) == PartyJoin(R!The(PartyLeave(w, s)), s, k)
Led(w, k, s) == k \in DOMAIN w.parties /\ Leads(w.parties[k], s)
Roster(w, k) == IF k \in DOMAIN w.parties THEN w.parties[k].players ELSE <<>>
Restored(w, k, s) ==
  IF k \notin DOMAIN w.parties \/ Positions(w.parties[k], s) \subseteq {1} THEN w
  ELSE [w EXCEPT !.parties[k].players = R!SwapWithFirst(@, R!The(Positions(w.parties[k], s)))]
\* Mutant: the party keeps the status of the match.
StillStarted(w, k) == w
Waiting(w, k) ==
  IF k \in DOMAIN w.parties THEN [w EXCEPT !.parties[k].started = FALSE] ELSE w
Follower(v, k, e) == IF ~e.live \/ Led(v, k, e.id) THEN v ELSE Again(v, e.id, k)
Leader(v, k, e) ==
  IF e.live /\ Led(v, k, e.id) THEN Restored(Again(v, e.id, k), k, e.id) ELSE v
Followed(w, k) ==
  LET roster == Roster(w, k)
      f[i \in 0 .. Len(roster)] == IF i = 0 THEN w ELSE Follower(f[i - 1], k, roster[i])
  IN  f[Len(roster)]
Headed(w, k) ==
  LET roster == Roster(w, k)
      f[i \in 0 .. Len(roster)] == IF i = 0 THEN w ELSE Leader(f[i - 1], k, roster[i])
  IN  f[Len(roster)]
ReturnParty(w, k) == Headed(Followed(Waiting(w, k), k), k)
LeaveClanRoom(s) ==
  /\ Has(s) /\ Leads(Own(s), s) /\ number[s] \in DOMAIN matches
  /\ LET r == number[s]
         w == IF r \in DOMAIN rooms THEN R!RemoveRoom(World, r) ELSE World
         v == ReturnParty(ReturnParty(w, matches[r][1]), matches[r][2])
     IN  Become(IF r \in DOMAIN v.matches THEN RemoveMatch(v, r, FALSE) ELSE v)
  /\ UNCHANGED <<next, online>>

LeaveRoom(s) ==
  /\ s \in online /\ R!HasRoom(World, s)
  /\ \E w \in RoomLeave(World, s) : Become(w)
  /\ UNCHANGED <<next, online>>

LeaveMatch(s) ==
  /\ s \in online /\ R!HasRoom(World, s)
  /\ \E w \in MatchLeave(World, s) : Become(w)
  /\ UNCHANGED <<next, online>>

\* removeSession: match, room, party, then whatever entry is left is dead.
DeadMember(q, s) ==
  [q EXCEPT !.players = [i \in DOMAIN @ |->
     IF @[i].id = s THEN [@[i] EXCEPT !.live = FALSE] ELSE @[i]]]
Departed(w, s) ==
  [R!Departed(w, s) EXCEPT
     !.parties = [k \in DOMAIN @ |-> DeadMember(@[k], s)],
     !.party[s] = 0, !.state[s] = "waiting"]
OutOfRoom(w, s) ==
  IF w.number[s] = 0 THEN {w}
  ELSE UNION {RoomLeave(v, s) : v \in IF w.state[s] = "normal" THEN MatchLeave(w, s) ELSE {w}}
\* Mutant: a session that is in no room is not taken out of its party.
OutOfParty(w, s) == IF w.number[s] = 0 THEN {w} ELSE UNION {PartyLeave(v, s) : v \in OutOfRoom(w, s)}
Out(w, s) == UNION {PartyLeave(v, s) : v \in OutOfRoom(w, s)}
Disconnect(s) ==
  /\ s \in online
  /\ online' = online \ {s}
  /\ \E w \in Out(World, s) : Become(Departed(w, s))
  /\ UNCHANGED next

InRoom ==
  \/ R!ListRooms
  \/ \E s \in Sessions :
       \/ R!Connect(s)
       \/ \E p \in Sessions : R!KickPlayer(s, p)
       \/ R!JoinMatch(s)
       \/ \E i \in 1 .. PlayersPerRoom :
            R!HasRoom(World, s) /\ R!IsHost(rooms[number[s]], s) /\ R!ChangeHost(s, i)

PartiesNext ==
  \/ InRoom /\ UNCHANGED <<parties, party, matches>>
  \/ \E s \in Sessions :
       \/ CreateParty(s)
       \/ \E k \in Keys : JoinParty(s, k)
       \/ LeaveParty(s)
       \/ \E n \in Sizes : SetSize(s, n)
       \/ \E i \in 1 .. Cardinality(Sessions) : ChangeLeader(s, i)
       \/ Register(s)
       \/ \E k \in Keys : Challenge(s, k)
       \/ StartMatch(s)
       \/ EndMatch(s)
       \/ LeaveClanRoom(s)
       \/ LeaveRoom(s)
       \/ LeaveMatch(s)
       \/ Disconnect(s)

PartiesSpec == PartiesInit /\ [][PartiesNext]_partiesVars

-----------------------------------------------------------------------------
(* Properties.                                                             *)

\* A session that has a party number is a live member of that party of its
\* clan, through every leave, error, removal, return and reuse of the number:
\* otherwise removePlayer would answer "Player not found" and the error would
\* dissolve the party of others.  And a party that is named in a clan match
\* exists and has that match's room, so that a match's end or a return reaches
\* the two parties that play it.
PartyMembership ==
  /\ \A s \in Sessions : party[s] # 0 =>
       OwnParty(World, s) \in DOMAIN parties /\ s \in Live(Own(s))
  /\ \A r \in DOMAIN matches : \A i \in 1 .. 2 :
       matches[r][i] # NoParty =>
         matches[r][i] \in DOMAIN parties /\ parties[matches[r][i]].match = r

Names(q) == {q.players[i].id : i \in DOMAIN q.players}
Whole(q) == \A i \in DOMAIN q.players : q.players[i].live
\* Nobody in the party is dead, or has created or joined another since.
Sound(w, k) == Whole(w.parties[k]) /\ \A s \in Live(w.parties[k]) : OwnParty(w, s) = k
\* The return to the waiting room (ClanRoomLeaveHandler.h:112-114) keeps the
\* members of each party and its leader, though each of them leaves and joins
\* again, provided that the party has two members or more and is not over its
\* size.  That holds where both parties are sound: a dead entry in one of them
\* may keep its leader from leaving, and the error then dissolves both.
ReturnKeepsParties ==
  [][\A s \in online : matches' # matches /\ LeaveClanRoom(s) =>
       LET sides == {matches[number[s]][i] : i \in 1 .. 2} \ {NoParty}
       IN  (\A k \in sides : Sound(World, k)) =>
             \A k \in sides : Len(parties[k].players) \in 2 .. parties[k].max =>
               /\ k \in DOMAIN parties'
               /\ Names(parties'[k]) = Names(parties[k])
               /\ parties'[k].players[1] = parties[k].players[1]
               /\ parties'[k].match = 0]_partiesVars

Listed(s) == {k \in DOMAIN parties : s \in Live(parties[k])}
Ghosts(P, s) == {k \in DOMAIN P : \E i \in DOMAIN P[k].players : P[k].players[i] = [id |-> s, live |-> FALSE]}
\* A session that goes leaves no dead entry in its party, whatever it was doing
\* (waiting, in the room, hosting the match): a dead leader would make the
\* next one who joins dissolve the party.  The exception is a session that
\* has created or joined another party without leaving the one before; the
\* dead entry it leaves behind may keep the next leader from leaving.
DepartureLeavesParty ==
  [][\A s \in online \ online' :
       (\A k \in Listed(s) : k = OwnParty(World, s) /\ Whole(parties[k]))
         => Ghosts(parties', s) \subseteq Ghosts(parties, s)]_partiesVars
=============================================================================
