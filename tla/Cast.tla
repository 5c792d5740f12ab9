-------------------------------- MODULE Cast --------------------------------
(***************************************************************************)
(* The Cast server, which relays the packets of the matches, and what it   *)
(* asks Main.  A client connects to Main and to Cast; Cast gives a         *)
(* connection an id of its own pool, asks Main for the session id of the   *)
(* account, and from then on uses Main's id.  Rooms are found by that id.  *)
(*                                                                         *)
(* Cast runs its handlers on one thread, which blocks while it asks Main;  *)
(* Main is another process.  A value of Conns is one Session object; it is *)
(* used once.  Which addresses Auth announced, observers and the relayed   *)
(* contents are left out.                                                  *)
(***************************************************************************)
EXTENDS Naturals, Sequences, FiniteSets, SequencesExt

CONSTANTS Conns, Accounts, NoAccount, NoConn,
          Rooms, NoRoom,
          MaxId           \* maxSessionsPerServer; the ids of Main and of Cast

ASSUME MaxIdAssumption == MaxId \in Nat \ {0}
ASSUME NoneAssumption == NoAccount \notin Accounts /\ NoRoom \notin Rooms /\ NoConn \notin Conns

VARIABLES mainId,     \* Main: the session id of an account, 0 when offline
          stat,       \* the life of a Session object
          cid,        \* m_id
          aid,        \* m_aid
          pool,       \* m_availableIDs of Cast
          reg,        \* m_sessionsBySessionId
          slot,       \* m_playerSessionIdToRoom
          players,    \* m_playersVec of the rooms in m_rooms
          asking,     \* the connection for which the thread waits in getSessionId
          posted,     \* what asio::post queued: the answers, not yet used
          closeReqs,  \* C2M_CloseSocketReq on their way to Main
          view,       \* the client has entered a room and not left it
          shared,     \* history: ids that two connections had at once
          strays      \* history: ids that a closed connection has put in a room

vars == <<mainId, stat, cid, aid, pool, reg, slot, players, asking, posted,
          closeReqs, view, shared, strays>>

Ids == 1 .. MaxId
Existing == {r \in Rooms : players[r] # <<>>}
Identified(c) == aid[c] # NoAccount

Holders(i) == {c \in Conns : cid[c] = i /\ stat[c] \in {"open", "closing", "closed"}}

\* A closed session is destroyed once nobody refers to it; a weak pointer to
\* it does not lock any more.
Referenced(c) == c \in {reg[i] : i \in DOMAIN reg} \cup {p.conn : p \in posted}
Locks(c) == stat[c] # "gone"

TypeOK ==
  /\ mainId \in [Accounts -> 0 .. MaxId]
  /\ stat \in [Conns -> {"new", "open", "closing", "closed", "gone"}]
  /\ cid \in [Conns -> 0 .. MaxId]
  /\ aid \in [Conns -> Accounts \cup {NoAccount}]
  /\ pool \in Seq(Ids) /\ IsInjective(pool)
  /\ DOMAIN reg \subseteq Ids /\ \A i \in DOMAIN reg : reg[i] \in Conns
  /\ slot \in [Ids -> Rooms \cup {NoRoom}]
  /\ players \in [Rooms -> Seq(Conns)]
  /\ asking \in [conn : Conns \cup {NoConn}, account : Accounts \cup {NoAccount}]
  /\ posted \subseteq [conn : Conns, account : Accounts, id : 0 .. MaxId]
  /\ closeReqs \subseteq Ids
  /\ view \in [Conns -> BOOLEAN]
  /\ shared \subseteq Ids
  /\ strays \subseteq Ids

NotAsking == [conn |-> NoConn, account |-> NoAccount]

Init ==
  /\ mainId = [a \in Accounts |-> 0]
  /\ stat = [c \in Conns |-> "new"]
  /\ cid = [c \in Conns |-> 0]
  /\ aid = [c \in Conns |-> NoAccount]
  /\ pool = [i \in Ids |-> i]
  /\ reg = <<>>
  /\ slot = [i \in Ids |-> NoRoom]
  /\ players = [r \in Rooms |-> <<>>]
  /\ asking = NotAsking
  /\ posted = {}
  /\ closeReqs = {}
  /\ view = [c \in Conns |-> FALSE]
  /\ shared = {}
  /\ strays = {}

-----------------------------------------------------------------------------
(* Main.                                                                   *)

MainLogin(a) ==
  /\ mainId[a] = 0
  /\ \E i \in Ids : /\ \A b \in Accounts : mainId[b] # i
                    /\ mainId' = [mainId EXCEPT ![a] = i]
  /\ UNCHANGED <<stat, cid, aid, pool, reg, slot, players, asking, posted,
                 closeReqs, view, shared, strays>>

MainLogout(a) ==
  /\ mainId[a] # 0
  /\ mainId' = [mainId EXCEPT ![a] = 0]
  /\ UNCHANGED <<stat, cid, aid, pool, reg, slot, players, asking, posted,
                 closeReqs, view, shared, strays>>

\* ipcRequestCast: Main closes its session with the id in the request.
MainCloses ==
  /\ \E i \in closeReqs :
       /\ closeReqs' = closeReqs \ {i}
       /\ mainId' = [a \in Accounts |-> IF mainId[a] = i THEN 0 ELSE mainId[a]]
  /\ UNCHANGED <<stat, cid, aid, pool, reg, slot, players, asking, posted, view, shared, strays>>

\* getSessionIdFor answers, and connectionHandler posts the answer; or Main is
\* not there or does not answer in time (id 0).
Answer(ids) ==
  /\ asking # NotAsking
  /\ \E i \in ids : posted' = posted \cup {[conn |-> asking.conn, account |-> asking.account, id |-> i]}
  /\ asking' = NotAsking
  /\ UNCHANGED <<mainId, stat, cid, aid, pool, reg, slot, players, closeReqs, view, shared, strays>>

MainAnswers == asking # NotAsking /\ Answer({mainId[asking.account]})
Timeout == Answer({0})

-----------------------------------------------------------------------------
(* The ids, the registry and the rooms of Cast: what the handlers share.   *)

\* Mutant: an id that is free goes back once more.
ReleasedAlways(p, i) == IF i \in Ids THEN Append(p, i) ELSE p

\* releaseSessionID: only an id that is in use goes back.
Released(p, i) == IF i \in Ids /\ ~Contains(p, i) THEN Append(p, i) ELSE p

\* addSession keeps the session that an id has already.
Registered(c, i) == IF i \in DOMAIN reg \cup {0} THEN reg
                    ELSE [j \in DOMAIN reg \cup {i} |-> IF j = i THEN c ELSE reg[j]]

\* Room::removePlayer: the first entry that locks and has the id.
WithoutPlayer(s, i) ==
  LET hits == {k \in DOMAIN s : Locks(s[k]) /\ cid[s[k]] = i}
  IN  IF hits = {} THEN s ELSE RemoveAt(s, CHOOSE k \in hits : \A l \in hits : k <= l)

\* removePlayerFromRoom: a room that is empty then is erased, with all slots.
RemoveFromRoom(i) ==
  IF i = 0 \/ slot[i] = NoRoom THEN UNCHANGED <<slot, players>>
  ELSE LET r == slot[i]
           left == WithoutPlayer(players[r], i)
       IN  /\ players' = [players EXCEPT ![r] = left]
           /\ slot' = [j \in Ids |-> IF j = i \/ (left = <<>> /\ slot[j] = r)
                                     THEN NoRoom ELSE slot[j]]

\* Which ids of S are still in a room that a closed connection put them in.
KeepStrays(S) == strays' = {i \in S : slot'[i] # NoRoom}

\* Who closes a socket may be its only handler, or leave others that will run:
\* a write fails while a read has completed, or is aborted by the close.
Closed(c) == \E s \in {"closing", "closed"} : stat' = [stat EXCEPT ![c] = s]

\* Mutant: the session leaves the registry and stays in its room.
CloseSocketKeepsRoom(c) ==
  /\ Closed(c)
  /\ reg' = [i \in DOMAIN reg \ {cid[c]} |-> reg[i]]
  /\ UNCHANGED <<slot, players>>
  /\ pool' = Released(pool, cid[c])

\* closeSocket with the callback SessionsManager::removeSession: whoever is
\* registered under the id goes, and so does the id's place in a room.
CloseSocket(c) ==
  /\ Closed(c)
  /\ reg' = [i \in DOMAIN reg \ {cid[c]} |-> reg[i]]
  /\ IF cid[c] \in DOMAIN reg THEN RemoveFromRoom(cid[c]) ELSE UNCHANGED <<slot, players>>
  /\ pool' = Released(pool, cid[c])

-----------------------------------------------------------------------------
(* Connections.                                                            *)

CastFree == asking = NotAsking

Sharing(c, i) == IF Holders(i) \subseteq {c} THEN shared ELSE shared \cup {i}

\* A connection gets the id on top of the stack, or is closed at once.
Accept(c) ==
  /\ CastFree /\ stat[c] = "new"
  /\ IF pool = <<>> THEN /\ stat' = [stat EXCEPT ![c] = "closed"]
                         /\ UNCHANGED <<cid, pool, shared>>
     ELSE /\ stat' = [stat EXCEPT ![c] = "open"]
          /\ cid' = [cid EXCEPT ![c] = Last(pool)]
          /\ pool' = Front(pool)
          /\ shared' = Sharing(c, Last(pool))
  /\ UNCHANGED <<mainId, aid, reg, slot, players, asking, posted, closeReqs, view, strays>>

\* onRead dispatches what a completed read has brought, even if the socket was
\* closed meanwhile: no handler asks.  (All of it in one handler in the code;
\* one packet after the other here.)
Dispatched(c) == CastFree /\ stat[c] \in {"open", "closing"}

\* connectionHandler (252): a thread asks Main and is joined at once.
AskMain(c, a) ==
  /\ Dispatched(c) /\ ~Identified(c)
  /\ \A p \in posted : p.conn # c
  /\ asking' = [conn |-> c, account |-> a]
  /\ UNCHANGED <<mainId, stat, cid, aid, pool, reg, slot, players, posted,
                 closeReqs, view, shared, strays>>

\* The posted function: setSessionId and addSession.
Identify ==
  /\ CastFree
  /\ \E p \in posted :
       /\ p.id # 0
       /\ posted' = posted \ {p}
       /\ aid' = [aid EXCEPT ![p.conn] = p.account]
       /\ cid' = [cid EXCEPT ![p.conn] = p.id]
       /\ pool' = IF cid[p.conn] = p.id THEN pool ELSE Released(pool, cid[p.conn])
       /\ reg' = Registered(p.conn, p.id)
       /\ shared' = Sharing(p.conn, p.id)
  /\ UNCHANGED <<mainId, stat, slot, players, asking, closeReqs, view, strays>>

\* The posted function without an id: sendCloseSocketReq asks Main to close
\* the session with Cast's id, or closes the connection if there is no link.
IdentifyFailed ==
  /\ CastFree
  /\ \E p \in posted :
       /\ p.id = 0
       /\ posted' = posted \ {p}
       /\ \/ /\ closeReqs' = closeReqs \cup ({cid[p.conn]} \ {0})
             /\ UNCHANGED <<stat, reg, slot, players, pool>>
          \/ /\ IF stat[p.conn] = "open" THEN CloseSocket(p.conn)
                ELSE pool' = Released(pool, cid[p.conn]) /\ UNCHANGED <<stat, reg, slot, players>>
             /\ closeReqs' = closeReqs
  /\ KeepStrays(strays)
  /\ UNCHANGED <<mainId, cid, aid, asking, view, shared>>

\* pongHandler (71): registers the session if its id is free.
Ping(c) ==
  /\ Dispatched(c)
  /\ reg' = Registered(c, cid[c])
  /\ UNCHANGED <<mainId, stat, cid, aid, pool, slot, players, asking, posted,
                 closeReqs, view, shared, strays>>

\* A read or a write fails.
Close(c) ==
  /\ CastFree /\ stat[c] = "open"
  /\ CloseSocket(c)
  /\ KeepStrays(strays)
  /\ UNCHANGED <<mainId, cid, aid, asking, posted, closeReqs, view, shared>>

\* A handler that was left finds an error, an abort or a bad header, and closes
\* the socket once more; or they all have run.
LateHandler(c) ==
  /\ CastFree /\ stat[c] = "closing"
  /\ \/ /\ pool' = Released(pool, cid[c])
        /\ UNCHANGED stat
     \/ /\ stat' = [stat EXCEPT ![c] = "closed"]
        /\ UNCHANGED pool
  /\ UNCHANGED <<mainId, cid, aid, reg, slot, players, asking, posted, closeReqs, view, shared,
                 strays>>

\* ~Session calls closeSocket once more, which gives the id back again.
Destroy(c) ==
  /\ stat[c] = "closed" /\ ~Referenced(c) /\ asking.conn # c
  /\ stat' = [stat EXCEPT ![c] = "gone"]
  /\ pool' = Released(pool, cid[c])
  /\ UNCHANGED <<mainId, cid, aid, reg, slot, players, asking, posted, closeReqs, view, shared,
                 strays>>

-----------------------------------------------------------------------------
(* Rooms.  A client waits for the answer to its 252 before it uses rooms.  *)

InUse(c) == Dispatched(c) /\ Identified(c)

\* What a request puts in a room, or takes out of it.
RoomDone(c) == KeepStrays(IF stat[c] = "open" THEN strays \ {cid[c]} ELSE strays \cup {cid[c]})

\* addRoom (277).
CreateRoom(c) ==
  /\ InUse(c) /\ ~view[c]
  /\ \E r \in Rooms \ Existing :
       /\ slot' = [slot EXCEPT ![cid[c]] = r]
       /\ players' = [players EXCEPT ![r] = <<c>>]
  /\ RoomDone(c)
  /\ view' = [view EXCEPT ![c] = TRUE]
  /\ UNCHANGED <<mainId, stat, cid, aid, pool, reg, asking, posted, closeReqs, shared>>

\* What remove_if keeps: the entries at the positions in S, in their order.
Kept(s, S) ==
  [j \in 1 .. Cardinality(S) |->
     s[CHOOSE k \in S : Cardinality({l \in S : l <= k}) = j]]

\* Room::addPlayer: dead entries go as well.
AddPlayer(s, c) ==
  Append(Kept(s, {k \in DOMAIN s : Locks(s[k]) /\ cid[s[k]] # cid[c]}), c)

\* switchRoomJoinOrExit: leaves the room if there is one, else joins the
\* room of the host (if the request names one and it has a room).
JoinOrExit(c, hosts) ==
  IF slot[cid[c]] # NoRoom THEN RemoveFromRoom(cid[c])
  ELSE \/ /\ hosts = {}
          /\ UNCHANGED <<slot, players>>
       \/ \E h \in hosts :
            IF slot[h] = NoRoom THEN UNCHANGED <<slot, players>>
            ELSE /\ players' = [players EXCEPT ![slot[h]] = AddPlayer(@, c)]
                 /\ slot' = [slot EXCEPT ![cid[c]] = slot[h]]

JoinRoom(c) ==    \* 140
  /\ InUse(c) /\ ~view[c]
  /\ JoinOrExit(c, Ids \ {cid[c]})
  /\ RoomDone(c)
  /\ view' = [view EXCEPT ![c] = TRUE]
  /\ UNCHANGED <<mainId, stat, cid, aid, pool, reg, asking, posted, closeReqs, shared>>

ExitRoom(c) ==    \* 279
  /\ InUse(c) /\ view[c]
  /\ JoinOrExit(c, {})
  /\ RoomDone(c)
  /\ view' = [view EXCEPT ![c] = FALSE]
  /\ UNCHANGED <<mainId, stat, cid, aid, pool, reg, asking, posted, closeReqs, shared>>

\* handleCrash (253).
Crash(c) ==
  /\ InUse(c) /\ view[c]
  /\ RemoveFromRoom(cid[c])
  /\ RoomDone(c)
  /\ view' = [view EXCEPT ![c] = FALSE]
  /\ UNCHANGED <<mainId, stat, cid, aid, pool, reg, asking, posted, closeReqs, shared>>

Next ==
  \/ \E a \in Accounts : MainLogin(a)
  \/ \E a \in Accounts : MainLogout(a)
  \/ MainCloses
  \/ MainAnswers
  \/ Timeout
  \/ \E c \in Conns : Accept(c)
  \/ \E c \in Conns, a \in Accounts : AskMain(c, a)
  \/ Identify
  \/ IdentifyFailed
  \/ \E c \in Conns : Ping(c)
  \/ \E c \in Conns : Close(c)
  \/ \E c \in Conns : LateHandler(c)
  \/ \E c \in Conns : Destroy(c)
  \/ \E c \in Conns : CreateRoom(c)
  \/ \E c \in Conns : JoinRoom(c)
  \/ \E c \in Conns : ExitRoom(c)
  \/ \E c \in Conns : Crash(c)

Spec == Init /\ [][Next]_vars

-----------------------------------------------------------------------------
(* Properties.                                                             *)

LiveIds(r) == {cid[c] : c \in {d \in Range(players[r]) : Locks(d)}}

\* The two sides of membership, unless two connections had the id at once, or a
\* packet read before its connection was closed has put the id in a room after
\* removeSession, and it is there still: the room an id is mapped to exists, its
\* players include one with that id, and some client that uses the id is in a
\* room, so that switchRoomJoinOrExit never takes its request to join as one to
\* leave, over crashes, failed identifications, late packets that leave rooms
\* and ids that Main gives out again.  A client that comes back before its old
\* connection is noticed has two connections with one id: even then, and after
\* late packets, a room never has two entries for an id, and no packet is
\* relayed twice.
SlotCoherent ==
  /\ \A i \in Ids : slot[i] # NoRoom =>
       /\ slot[i] \in Existing
       /\ i \notin shared \cup strays =>
            i \in LiveIds(slot[i]) /\ \E c \in Holders(i) : view[c]
  /\ \A r \in Rooms : \A k, l \in DOMAIN players[r] :
       Locks(players[r][k]) /\ Locks(players[r][l]) /\ cid[players[r][k]] = cid[players[r][l]]
         => k = l
=============================================================================
