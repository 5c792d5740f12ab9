---------------------------- MODULE NormalRooms ----------------------------
(***************************************************************************)
(* The normal rooms of Main over the life of the sessions that use them.   *)
(*                                                                         *)
(* A session is registered at its authorisation and removed by its close   *)
(* or by a /ban, but its object lives on, and runs the packets it still    *)
(* has (after a ban: whatever its client sends), until its last handler is *)
(* done: no handler of a room asks for the registry or the socket.         *)
(*                                                                         *)
(* A member of a clan's party may sit in a normal room as well, for        *)
(* neither excludes the other; there is one roomNumber for both.  Of       *)
(* parties and clan rooms, the subject of Parties, only what they do to    *)
(* roomNumber and playerState is kept, for one session at a time.          *)
(***************************************************************************)
EXTENDS Rooms

CONSTANT Clanned   \* sessions with a clan, which may join a party

ASSUME ClannedAssumption == Clanned \subseteq Sessions

VARIABLES registry,  \* m_sessionsBySessionId
          party,     \* whether the session is or was in a party
          strayed,   \* history: who lost its number while a room listed it
          kept       \* history: who is kept by a room after its removal, as
                     \* the target of a votekick or as a later player

vars == <<rooms, number, state, free, next, online, registry, party, strayed, kept>>

\* The number of a clan room: from clanRoomNumberStart on, no normal room's.
Elsewhere == MaxNumber + 1

TypeOK ==
  /\ DOMAIN rooms \subseteq 0 .. MaxNumber
  /\ \A n \in DOMAIN rooms : rooms[n] \in RoomType
  /\ \A n \in DOMAIN rooms : Len(rooms[n].players) <= PlayersPerRoom
  /\ number \in [Sessions -> 0 .. Elsewhere]
  /\ state \in [Sessions -> States]
  /\ free \in Seq(1 .. MaxNumber)
  /\ next \in 1 .. MaxNumber + 1
  /\ registry \subseteq online /\ online \subseteq Sessions
  /\ party \in [Sessions -> {"none", "member", "former"}]
  /\ strayed \subseteq online /\ kept \subseteq online \ registry

StartAnew ==
  /\ Init
  /\ registry = {} /\ party = [p \in Sessions |-> "none"]
  /\ strayed = {} /\ kept = {}

-----------------------------------------------------------------------------
(* Sessions come, are removed, and end.                                    *)

\* An authorisation: of a new session, or of one that has been removed.
Login(p) ==
  /\ p \notin registry
  /\ Connect(p) \/ (p \in online /\ UNCHANGED roomVars)
  /\ registry' = registry \cup {p}
  /\ kept' = kept \ {p}
  /\ UNCHANGED <<party, strayed>>

\* The party branch of handleRoomLeave, and handlePartyRoomLeave: leaveRoom()
\* resets the number, and no normal room is told.
OutOfParty(w, p) == [w EXCEPT !.number[p] = 0]
Astray(w, p) == IF HasRoom(w, p) THEN {p} ELSE {}

\* What removeSession does to the rooms: the match is left, then the room.
OutOfMatch(p) ==
  IF number[p] # 0 /\ state[p] = "normal" THEN MatchLeave(World, p) ELSE {World}
\* Mutant: a session that has left its match is not taken out of its room.
OutOfRoomUnlessPlaying(w, p) ==
  IF number[p] # 0 /\ state[p] # "normal" THEN RoomLeave(w, p) ELSE {w}
OutOfRoom(w, p) == IF number[p] # 0 THEN RoomLeave(w, p) ELSE {w}

Remove(p) ==
  /\ p \in registry
  /\ \E w \in OutOfMatch(p) :
       \/ /\ party[p] = "member"
          /\ Become(OutOfParty(w, p))
          /\ strayed' = strayed \cup Astray(w, p)
          /\ party' = [party EXCEPT ![p] = "former"]
       \/ /\ party[p] # "member"
          /\ \E v \in OutOfRoom(w, p) : Become(v)
          /\ UNCHANGED <<strayed, party>>
  /\ registry' = registry \ {p}
  /\ kept' = kept \cup
       (IF HasRoom(World, p) /\ rooms[number[p]].target = p THEN {p} ELSE {})
  /\ UNCHANGED <<next, online>>

\* The last handler is done: the object goes.
End(p) ==
  /\ p \in online \ registry
  /\ Become(Departed(World, p))
  /\ online' = online \ {p}
  /\ party' = [party EXCEPT ![p] = "none"]
  /\ strayed' = strayed \ {p} /\ kept' = kept \ {p}
  /\ UNCHANGED <<next, registry>>

-----------------------------------------------------------------------------
(* Requests.                                                               *)

\* One that makes p a player of a room, maybe after its removal.
Playing(p) ==
  /\ kept' = IF /\ p \notin registry /\ number'[p] \in DOMAIN rooms'
               /\ InList(rooms'[number'[p]].players, p)
             THEN kept \cup {p} ELSE kept
  /\ UNCHANGED <<registry, party, strayed>>

SessionsStay == UNCHANGED <<registry, party, strayed, kept>>

Create(p) == CreateRoom(p) /\ Playing(p)
Join(p, n) == JoinRoom(p, n) /\ Playing(p)
TurnPlayer(p) == BecomePlayer(p) /\ Playing(p)

Leave(p) == party[p] # "member" /\ LeaveRoom(p) /\ SessionsStay

\* The target of a kick is looked up in the registry.
Kick(p, q) == q \in registry /\ KickPlayer(p, q) /\ SessionsStay

EnterParty(p) ==
  /\ p \in Clanned \cap online /\ party[p] # "member"
  /\ party' = [party EXCEPT ![p] = "member"]
  /\ UNCHANGED <<roomVars, registry, strayed, kept>>

\* A member that leaves party or room, and one whose party is dissolved.
LeaveParty(p) ==
  /\ party[p] = "member"
  /\ Become(OutOfParty(World, p))
  /\ strayed' = strayed \cup Astray(World, p)
  /\ party' = [party EXCEPT ![p] = "former"]
  /\ UNCHANGED <<next, online, registry, kept>>

\* setClanMatchRoomNumber, for all that a party lists (a former member may be
\* in another party's list still); and what a clan room does to the states
\* and, when it goes, to the numbers of all that it lists.
ClanMatch(p, n, v) ==
  /\ party[p] # "none"
  /\ n \in {0, number[p], Elsewhere} /\ v \in {state[p], "waiting", "normal"}
  /\ Become([World EXCEPT !.number[p] = n, !.state[p] = v])
  /\ strayed' = IF n # number[p] THEN strayed \cup Astray(World, p) ELSE strayed
  /\ UNCHANGED <<next, online, registry, party, kept>>

\* Every step but the creation of a room.
Request ==
  \/ ListRooms /\ SessionsStay
  \/ \E n \in DOMAIN rooms : BreakRoom(n) /\ SessionsStay
  \/ \E p \in Sessions :
       \/ Login(p)
       \/ \E n \in DOMAIN rooms : Join(p, n)
       \/ Leave(p)
       \/ \E q \in Sessions : Kick(p, q)
       \/ \E q \in Sessions : CommandKick(p, q) /\ SessionsStay
       \/ LeaveMatch(p) /\ SessionsStay
       \/ StartMatch(p) /\ SessionsStay
       \/ JoinMatch(p) /\ SessionsStay
       \/ EndMatch(p) /\ SessionsStay
       \/ \E k \in 1 .. PlayersPerRoom : ChangeHost(p, k) /\ SessionsStay
       \/ \E v \in States : SetPlayerState(p, v) /\ SessionsStay
       \/ BecomeObserver(p) /\ SessionsStay
       \/ TurnPlayer(p)
       \/ \E q \in Sessions : StartVotekick(p, q) /\ SessionsStay
       \/ VotekickResult(p) /\ SessionsStay
       \/ EnterParty(p)
       \/ LeaveParty(p)
       \/ \E n \in 0 .. Elsewhere : \E v \in States : ClanMatch(p, n, v)
       \/ Remove(p)
       \/ End(p)

Next == Request \/ \E p \in Sessions : Create(p)

Spec == StartAnew /\ [][Next]_vars

\* The behaviours in which the generator never has to answer "none".
NumberedNext == Request \/ \E p \in Sessions : Generated # 0 /\ Create(p)
NumberedSpec == StartAnew /\ [][NumberedNext]_vars

-----------------------------------------------------------------------------
(* Properties.                                                             *)

Entered(n, p) ==
  Cardinality(Index(rooms[n].players, p)) + Cardinality(Index(rooms[n].observers, p))

\* The two sides of membership agree through every swap, kick, migration,
\* closing and removal: a session that has the number of a normal room is in
\* that room exactly once; and a room lists nobody who has not its number, but
\* those who left a party, or went to a clan match, while they sat in a room.
\* RoomCreationHandler.h:28 "cannot create a room while already in one" says
\* the same without that exception, and without the condition that numbers
\* are left.
OneRoomPerSession ==
  /\ \A p \in Sessions : number[p] \notin {0, Elsewhere} =>
       number[p] \in DOMAIN rooms /\ Entered(number[p], p) = 1
  /\ \A n \in DOMAIN rooms : \A p \in Members(rooms[n]) : number[p] = n \/ p \in strayed

\* A number that waits for reuse is neither in use nor waiting twice, so a new
\* room never replaces another one.
NumbersUnique ==
  /\ \A i, j \in DOMAIN free : free[i] = free[j] => i = j
  /\ \A i \in DOMAIN free : free[i] \notin DOMAIN rooms /\ free[i] < next
  /\ \A n \in DOMAIN rooms : n < next

Ghosts(r) == {i \in DOMAIN r.players : ~r.players[i].live}
StaysOpen(n) == n \in DOMAIN rooms /\ n \in DOMAIN rooms'

\* A removal takes the session out of the players of its room, whatever it was
\* doing (host or not, in the match or not), so that a player entry without a
\* session appears for three reasons only: the session had lost the number of
\* that room to a party, the room was voting about it when it was removed, or
\* it became a player by a request after its removal.
RemovalLeavesNoGhost ==
  [][\A n \in DOMAIN rooms :
       StaysOpen(n) /\ Cardinality(Ghosts(rooms'[n])) > Cardinality(Ghosts(rooms[n]))
         => \E p \in (online \ online') \cap (strayed \cup kept) : InList(rooms[n].players, p)]_vars

LeavesAsHost(p) ==
  /\ number[p] \notin {0, Elsewhere} /\ state[p] = "normal"
  /\ LET r == rooms[number[p]]
     IN  r.players # <<>> /\ r.players[1].id = p /\ r.target # p /\ Ghosts(r) = {}
  /\ LeaveMatch(p)
Remaining(p) ==
  LET r == rooms[number[p]] IN {r.players[i].id : i \in DOMAIN r.players} \ {p}

\* When the host leaves a match that others still play, the room stays open
\* and the new host, sent to all as an index, is one of those players.
HostStaysInMatch ==
  [][\A p \in online :
       LeavesAsHost(p) /\ (\E q \in Remaining(p) : state[q] = "normal")
         => /\ StaysOpen(number[p])
            /\ rooms[number[p]].started => rooms'[number[p]].started
            /\ LET host == rooms'[number[p]].players[1]
               IN  host.live /\ host.id \in Remaining(p) /\ state'[host.id] = "normal"]_vars
=============================================================================
