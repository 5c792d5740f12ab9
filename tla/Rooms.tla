------------------------------- MODULE Rooms -------------------------------
(***************************************************************************)
(* The rooms of Main (Room, RoomsManager, RoomNumberGenerator) and the     *)
(* handlers that change them: creation, joining, leaving, host migration,  *)
(* the start and the end of a match, kicks and votekicks, disconnection.   *)
(* All of them run on the asio thread, one request at a time.              *)
(*                                                                         *)
(* This module holds the operations; NormalRooms says who may call them    *)
(* when, and Parties builds the rooms of clan matches from them.           *)
(*                                                                         *)
(* A session is named by its session id.  Ids are reused: a session that   *)
(* is gone may leave an entry in a room whose weak pointer is dead (live = *)
(* FALSE), and another session may carry its id later.                     *)
(*                                                                         *)
(* Room effects are operators on a world w, a record of the variables they *)
(* touch, because handlers call each other.  Pings are not modelled: any   *)
(* eligible player may have the best one.                                  *)
(***************************************************************************)
EXTENDS Integers, Sequences, FiniteSets

CONSTANTS Sessions,       \* session ids
          NoSession,      \* an empty UniqueId
          PlayersPerRoom, \* getPlayersPerTeam(): capacity without observers
          MaxObservers,   \* maxObserverPlayers
          MaxRooms,       \* maxRooms
          MaxNumber,      \* the generator's m_maxRoomNumber
          MaxJoined       \* bound: observers up to which staff use /join

ASSUME NoSessionAssumption == NoSession \notin Sessions
ASSUME PlayersPerRoomAssumption == PlayersPerRoom \in Nat \ {0}
ASSUME MaxObserversAssumption == MaxObservers \in Nat
ASSUME MaxRoomsAssumption == MaxRooms \in Nat \ {0}
ASSUME MaxNumberAssumption == MaxNumber \in Nat
ASSUME MaxJoinedAssumption == MaxJoined \in Nat

VARIABLES rooms,    \* m_roomByNumber
          number,   \* matchContext.roomNumber of each session, 0 for none
          state,    \* playerState of each session
          free,     \* m_availableNumbers of the generator
          next,     \* m_nextNumber of the generator
          online    \* sessions that exist, and may have a request to run

roomVars == <<rooms, number, state, free, next, online>>

\* STATE_LOBBY, _INVENTORY, _SHOP and _CAPSULE are "away"; STATE_DYING is "normal".
States == {"away", "waiting", "ready", "normal"}
Entries == [id : Sessions, live : BOOLEAN, state : States]
RoomType == [players : Seq(Entries), observers : Seq(Entries),
             started : BOOLEAN, target : Sessions \cup {NoSession}]

World == [rooms |-> rooms, number |-> number, state |-> state, free |-> free]
Become(w) ==
  rooms' = w.rooms /\ number' = w.number /\ state' = w.state /\ free' = w.free

-----------------------------------------------------------------------------
(* Room: entries, the host, and the removal of a player.                   *)

NewEntry(p) == [id |-> p, live |-> TRUE, state |-> "waiting"]
Index(s, p) == {i \in DOMAIN s : s[i].id = p /\ s[i].live}
InList(s, p) == Index(s, p) # {}
The(S) == CHOOSE x \in S : TRUE

\* isHost compares the id of the first entry, alive or not.
IsHost(r, p) == r.players # <<>> /\ r.players[1].id = p

SwapWithFirst(s, k) == [s EXCEPT ![1] = s[k], ![k] = s[1]]
\* Mutant: pop_back without the swap.
PopBack(s, k) == SubSeq(s, 1, Len(s) - 1)
SwapOut(s, k) == [i \in 1 .. Len(s) - 1 |-> IF i = k THEN s[Len(s)] ELSE s[i]]

\* Mutant: whoever has the best ping, in the match or not.
BestOfAll(w, r, p, inMatch) ==
  {Cardinality({j \in 1 .. i : r.players[j].live}) :
     i \in {i \in DOMAIN r.players : r.players[i].live /\ r.players[i].id # p}}

\* getBestMsIndexExceptSelf: the index does not count the dead entries, so
\* behind one of those it is not the position of the player that was found.
BestIndices(w, r, p, inMatch) ==
  LET eligible == {i \in DOMAIN r.players :
                     /\ r.players[i].live /\ r.players[i].id # p
                     /\ (w.state[r.players[i].id] = "normal") = inMatch}
  IN  IF Len(r.players) <= 1 THEN {}
      ELSE {Cardinality({j \in 1 .. i : r.players[j].live}) : i \in eligible}

\* What the removal of a player may do to a room: the room after it, the
\* session that has left (leaveRoom()), and whether the room must be closed.
Outcome(r, p, c) == [room |-> r, left |-> p, close |-> c]

WithoutPlayer(r, p) == [r EXCEPT !.players = SwapOut(@, The(Index(@, p)))]
WithoutObserver(r, p) == [r EXCEPT !.observers = SwapOut(@, The(Index(@, p)))]

RemovePlayer(w, r, p) ==
  LET Left(q) == Outcome(WithoutPlayer(q, p), p, Len(q.players) = 1)
      Best == BestIndices(w, r, p, FALSE)
  IN  CASE r.players = <<>> -> {Outcome(r, NoSession, FALSE)}
        [] r.players # <<>> /\ InList(r.players, p) ->
             IF ~IsHost(r, p) THEN {Left(r)}
             ELSE IF Best # {}
                  THEN {Left([r EXCEPT !.players = SwapWithFirst(@, k)]) : k \in Best}
                  ELSE IF Len(r.players) > 1 THEN {Outcome(r, NoSession, TRUE)}
                       ELSE {Left(r)}
        [] r.players # <<>> /\ ~InList(r.players, p) /\ InList(r.observers, p) ->
             {Outcome(WithoutObserver(r, p), p, FALSE)}
        [] OTHER -> {Outcome(r, NoSession, FALSE)}

\* removeHostFromMatch counts the players in the match while the host's own
\* playerState is still STATE_NORMAL (it only clears matchContext.isInMatch).
RemoveHost(w, r) ==
  LET host == r.players[1].id
      inMatch == \E i \in DOMAIN r.players :
                   r.players[i].live /\ w.state[r.players[i].id] = "normal"
      Best == BestIndices(w, r, host, inMatch)
      Moved(k) == [r EXCEPT !.players = SwapOut(SwapWithFirst(@, k), k),
                            !.started = @ /\ inMatch]
  IN  IF r.players = <<>> \/ ~r.players[1].live THEN {Outcome(r, NoSession, FALSE)}
      ELSE IF Best = {} THEN {Outcome(r, NoSession, TRUE)}
      ELSE {Outcome(Moved(k), host, FALSE) : k \in Best}

\* kickPlayerImpl of a player found in the room.
Kicked(w, r, p) ==
  IF w.state[p] = "normal" /\ IsHost(r, p) THEN RemoveHost(w, r)
  ELSE RemovePlayer(w, r, p)

\* resetVotekick ends the match as well.
ResetVotekick(r) == [r EXCEPT !.target = NoSession, !.started = FALSE]

\* setStateFor: a player or an observer of the room, and its session.
WithState(s, p, v) ==
  [i \in DOMAIN s |-> IF s[i].id = p /\ s[i].live THEN [s[i] EXCEPT !.state = v] ELSE s[i]]

-----------------------------------------------------------------------------
(* RoomsManager.                                                           *)

Put(w, n, o) ==
  [w EXCEPT !.rooms[n] = o.room,
            !.number = [p \in Sessions |-> IF p = o.left THEN 0 ELSE @[p]]]

Without(m, ns) == [n \in DOMAIN m \ ns |-> m[n]]
Members(r) ==
  {r.players[i].id : i \in {i \in DOMAIN r.players : r.players[i].live}} \cup
  {r.observers[i].id : i \in {i \in DOMAIN r.observers : r.observers[i].live}}

\* Mutant: the number is released by removeRoom and by the Room's destructor.
RemoveRoomTwice(w, n) ==
  [w EXCEPT !.free = IF n # 0 THEN Append(Append(@, n), n) ELSE @,
            !.number = [p \in Sessions |-> IF p \in Members(w.rooms[n]) THEN 0 ELSE @[p]],
            !.rooms = Without(@, {n})]

\* removeRoom: release (which refuses 0), removeAllPlayers, erase.
RemoveRoom(w, n) ==
  [w EXCEPT !.free = IF n # 0 THEN Append(@, n) ELSE @,
            !.number = [p \in Sessions |-> IF p \in Members(w.rooms[n]) THEN 0 ELSE @[p]],
            !.rooms = Without(@, {n})]

\* A removal whose caller closes the room when it must be closed, and one
\* whose caller ignores the result.
Closing(w, n, outcomes) ==
  {IF o.close THEN RemoveRoom(Put(w, n, o), n) ELSE Put(w, n, o) : o \in outcomes}
NotClosing(w, n, outcomes) == {Put(w, n, o) : o \in outcomes}

HasRoom(w, p) == w.number[p] \in DOMAIN w.rooms

SetStateFor(w, n, p, v) ==
  [w EXCEPT !.rooms[n].players = WithState(@, p, v),
            !.rooms[n].observers = WithState(@, p, v),
            !.state = IF p \in Members(w.rooms[n]) THEN [@ EXCEPT ![p] = v] ELSE @]

\* votekickPlayer of the target that leaves, then resetVotekick: only players
\* (not observers) are looked at, and the result is ignored.
LeaveVotekicked(w, n, p) ==
  LET r == w.rooms[n]
      worlds == IF InList(r.players, p) THEN NotClosing(w, n, Kicked(w, r, p)) ELSE {w}
  IN  {[v EXCEPT !.rooms[n] = ResetVotekick(@)] : v \in worlds}

\* handleRoomLeave without a kick, past the branch for the members of a party
\* (RoomLeaveHandler.h:56-63), which NormalRooms and Parties add.
RoomLeave(w, p) ==
  LET n == w.number[p]
      r == w.rooms[n]
  IN  IF ~HasRoom(w, p) THEN {w}
      ELSE IF r.target = p THEN LeaveVotekicked(w, n, p)
      ELSE Closing(w, n, RemovePlayer(w, r, p))

\* handleMatchLeaveNormal.
MatchLeave(w, p) ==
  LET n == w.number[p]
      r == w.rooms[n]
  IN  IF ~HasRoom(w, p) THEN {w}
      ELSE IF r.target = p THEN LeaveVotekicked(w, n, p)
      ELSE IF IsHost(r, p) THEN Closing(w, n, RemoveHost(w, r))
      ELSE {SetStateFor(w, n, p, "waiting")}

-----------------------------------------------------------------------------
Init ==
  /\ rooms = <<>>
  /\ number = [p \in Sessions |-> 0]
  /\ state = [p \in Sessions |-> "away"]
  /\ free = <<>>
  /\ next = 1
  /\ online = {}

Connect(p) ==
  /\ p \notin online
  /\ online' = online \cup {p}
  /\ UNCHANGED <<rooms, number, state, free, next>>

(***************************************************************************)
(* handleRoomCreation: the Room is constructed, and takes its number, before *)
(* the number of rooms is checked.  generate().value_or(0) gives 0 when     *)
(* there is none.                                                           *)
(***************************************************************************)
Generated == IF free # <<>> THEN Head(free) ELSE IF next <= MaxNumber THEN next ELSE 0

CreateRoom(p) ==
  /\ p \in online /\ number[p] = 0
  /\ free' = IF free # <<>> THEN Tail(free) ELSE free
  /\ next' = IF free = <<>> /\ next <= MaxNumber THEN next + 1 ELSE next
  /\ \/ /\ Cardinality(DOMAIN rooms) >= MaxRooms
        /\ UNCHANGED <<rooms, number, state>>
     \/ /\ Cardinality(DOMAIN rooms) < MaxRooms
        /\ rooms' = [n \in DOMAIN rooms \cup {Generated} |->
             IF n = Generated
             THEN [players |-> <<NewEntry(p)>>, observers |-> <<>>,
                   started |-> FALSE, target |-> NoSession]
             ELSE rooms[n]]
        /\ number' = [number EXCEPT ![p] = Generated]
        /\ state' = [state EXCEPT ![p] = "waiting"]
  /\ UNCHANGED online

\* handleRoomJoin: a player, or an observer when the room is full and lets
\* observers in; /join by staff makes an observer, place or not (MaxJoined
\* only bounds the model: dead observers could pile up).
\* Mutant: one player more than the room has places.
JoinsAsOneMore(p, n) ==
  /\ Len(rooms[n].players) <= PlayersPerRoom
  /\ rooms' = [rooms EXCEPT ![n].players = Append(@, NewEntry(p))]
JoinsAsPlayer(p, n) ==
  /\ Len(rooms[n].players) < PlayersPerRoom
  /\ rooms' = [rooms EXCEPT ![n].players = Append(@, NewEntry(p))]
JoinsAsObserver(p, n) ==
  /\ \/ Len(rooms[n].players) >= PlayersPerRoom /\ Len(rooms[n].observers) < MaxObservers
     \/ state[p] = "away" /\ Len(rooms[n].observers) < MaxJoined
  /\ rooms' = [rooms EXCEPT ![n].observers = Append(@, NewEntry(p))]

JoinRoom(p, n) ==
  /\ p \in online /\ number[p] = 0
  /\ n \in DOMAIN rooms /\ n # 0 /\ p \notin Members(rooms[n])
  /\ JoinsAsPlayer(p, n) \/ JoinsAsObserver(p, n)
  /\ number' = [number EXCEPT ![p] = n]
  /\ UNCHANGED <<state, free, next, online>>

LeaveRoom(p) ==
  /\ p \in online /\ HasRoom(World, p)
  /\ \E w \in RoomLeave(World, p) : Become(w)
  /\ UNCHANGED <<next, online>>

\* handleRoomLeave with KICK_PLAYER, of any session.
KickPlayer(p, q) ==
  /\ p \in online /\ HasRoom(World, p) /\ q \in online
  /\ ~rooms[number[p]].started
  /\ \E w \in NotClosing(World, number[p], RemovePlayer(World, rooms[number[p]], q)) :
       Become(w)
  /\ UNCHANGED <<next, online>>

\* /kick by a moderator.
CommandKick(p, q) ==
  /\ p \in online /\ HasRoom(World, p) /\ q \in Members(rooms[number[p]])
  /\ \E w \in NotClosing(World, number[p], Kicked(World, rooms[number[p]], q)) : Become(w)
  /\ UNCHANGED <<next, online>>

LeaveMatch(p) ==
  /\ p \in online /\ HasRoom(World, p)
  /\ \E w \in MatchLeave(World, p) : Become(w)
  /\ UNCHANGED <<next, online>>

\* handleRoomStart by the host: startMatch.
Starts(r, e) == e.live /\ (e.state = "ready" \/ e.id = r.players[1].id)
StartMatch(p) ==
  /\ p \in online /\ HasRoom(World, p)
  /\ LET r == rooms[number[p]]
         Played(s) == [i \in DOMAIN s |->
                         IF Starts(r, s[i]) THEN [s[i] EXCEPT !.state = "normal"] ELSE s[i]]
         Plays(s, q) == \E i \in DOMAIN s : s[i].id = q /\ Starts(r, s[i])
     IN  /\ IsHost(r, p) /\ r.players[1].live
         /\ rooms' = [rooms EXCEPT ![number[p]] =
              [players |-> Played(r.players), observers |-> Played(r.observers),
               started |-> TRUE, target |-> NoSession]]
         /\ state' = [q \in Sessions |->
              IF Plays(r.players, q) \/ Plays(r.observers, q) THEN "normal" ELSE state[q]]
  /\ UNCHANGED <<number, free, next, online>>

\* handleRoomStart by another player once the match has started, /entermatch.
JoinMatch(p) ==
  /\ p \in online /\ HasRoom(World, p)
  /\ ~IsHost(rooms[number[p]], p) /\ rooms[number[p]].started
  /\ Become(SetStateFor(World, number[p], p, "normal"))
  /\ UNCHANGED <<next, online>>

\* handleMatchEnding -> endMatch.
EndMatch(p) ==
  /\ p \in online /\ HasRoom(World, p)
  /\ LET n == number[p]
         r == rooms[n]
         Ended(s) == [i \in DOMAIN s |->
                        IF s[i].live /\ state[s[i].id] \in {"ready", "normal"}
                        THEN [s[i] EXCEPT !.state = "waiting"] ELSE s[i]]
     IN  /\ IsHost(r, p)
         /\ rooms' = [rooms EXCEPT ![n] =
              [players |-> Ended(r.players), observers |-> Ended(r.observers),
               started |-> FALSE, target |-> NoSession]]
         /\ state' = [q \in Sessions |->
              IF q \in Members(r) /\ state[q] \in {"ready", "normal"}
              THEN "waiting" ELSE state[q]]
  /\ UNCHANGED <<number, free, next, online>>

\* handleHostChange by the host, to any entry, and /changehost by a moderator.
ChangeHost(p, k) ==
  /\ p \in online /\ HasRoom(World, p)
  /\ LET r == rooms[number[p]]
     IN  /\ k \in DOMAIN r.players
         /\ IsHost(r, p) \/ (k # 1 /\ r.players[k].live)
         /\ rooms' = [rooms EXCEPT ![number[p]].players = SwapWithFirst(@, k)]
  /\ UNCHANGED <<number, state, free, next, online>>

\* handlePlayerState: the new state is stored first, so the check for a player
\* "inside a match" reads the new state and refuses nothing.
Refused(new, current) == current = "normal" /\ new \in {"away", "ready"}
SetPlayerState(p, v) ==
  /\ p \in online
  /\ LET w == [World EXCEPT !.state[p] = v]
     IN  IF HasRoom(w, p) /\ ~Refused(v, w.state[p])
         THEN Become(SetStateFor(w, number[p], p, v)) ELSE Become(w)
  /\ UNCHANGED <<next, online>>

\* changePlayerTeam between the players and the observers of a room.
BecomeObserver(p) ==
  /\ p \in online /\ HasRoom(World, p) /\ state[p] # "normal"
  /\ LET r == rooms[number[p]]
     IN  /\ InList(r.players, p) /\ Len(r.observers) < MaxObservers
         /\ rooms' = [rooms EXCEPT ![number[p]] =
              [WithoutPlayer(r, p) EXCEPT
                 !.observers = Append(@, r.players[The(Index(r.players, p))])]]
  /\ UNCHANGED <<number, state, free, next, online>>

BecomePlayer(p) ==
  /\ p \in online /\ HasRoom(World, p) /\ state[p] # "normal"
  /\ LET r == rooms[number[p]]
         k == The(Index(r.observers, p))
     IN  /\ InList(r.observers, p) /\ Len(r.players) < PlayersPerRoom
         /\ rooms' = [rooms EXCEPT ![number[p]] =
              [r EXCEPT !.players = Append(@, r.observers[k]),
                        !.observers = SubSeq(@, 1, k - 1) \o SubSeq(@, k + 1, Len(@))]]
  /\ UNCHANGED <<number, state, free, next, online>>

\* A votekick against a player of the room; its starter is anyone who has not
\* started one in this match.
StartVotekick(p, q) ==
  /\ p \in online /\ HasRoom(World, p)
  /\ InList(rooms[number[p]].players, q)
  /\ rooms' = [rooms EXCEPT ![number[p]].target = q]
  /\ UNCHANGED <<number, state, free, next, online>>

\* The client's request for the result: the target is forgotten, and kicked
\* when the votes are enough; the result of the kick is ignored.
VotekickResult(p) ==
  /\ p \in online /\ HasRoom(World, p)
  /\ LET n == number[p]
         q == rooms[n].target
         w == [World EXCEPT !.rooms[n].target = NoSession]
     IN  /\ q # NoSession
         /\ \/ Become(w)
            \/ /\ InList(w.rooms[n].players, q)
               /\ \E v \in NotClosing(w, n, Kicked(w, w.rooms[n], q)) : Become(v)
  /\ UNCHANGED <<next, online>>

\* /breakroom.
BreakRoom(n) ==
  /\ n \in DOMAIN rooms
  /\ Become(RemoveRoom(World, n))
  /\ UNCHANGED <<next, online>>

\* getRoomsList erases the rooms without players; their numbers stay taken.
ListRooms ==
  LET empty == {n \in DOMAIN rooms : rooms[n].players = <<>>}
  IN  /\ empty # {}
      /\ rooms' = Without(rooms, empty)
      /\ number' = [p \in Sessions |->
           IF \E n \in empty : p \in Members(rooms[n]) THEN 0 ELSE number[p]]
      /\ UNCHANGED <<state, free, next, online>>

\* The Session object goes, and whatever entry it still has is dead.
Dead(s, p) == [i \in DOMAIN s |-> IF s[i].id = p THEN [s[i] EXCEPT !.live = FALSE] ELSE s[i]]
GoneFrom(r, p) == [r EXCEPT !.players = Dead(@, p), !.observers = Dead(@, p)]
Departed(w, p) ==
  [w EXCEPT !.rooms = [n \in DOMAIN w.rooms |-> GoneFrom(w.rooms[n], p)],
            !.number[p] = 0, !.state[p] = "away"]
=============================================================================
