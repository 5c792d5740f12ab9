---------------------------- MODULE Connections ----------------------------
(***************************************************************************)
(* The connections of one game server process (Main): the pool of session *)
(* ids, the life of a Session object on the asio thread, and the registry  *)
(* of authorised players.                                                  *)
(*                                                                         *)
(* A connection of Conns is the memory of one Session object.  It is       *)
(* accepted, runs its read and write handlers, is closed by whoever calls  *)
(* closeSocket(), and is destroyed when the last reference to it goes.     *)
(* The handlers of a closed socket still run: those that had already       *)
(* completed run with their result, the pending ones run with an error.    *)
(***************************************************************************)
EXTENDS Naturals, Sequences, FiniteSets, Functions

CONSTANTS Conns,        \* Session objects that exist at the same time
          Accounts,     \* account ids
          MaxIds,       \* sessionIdManager{500}
          NoAccount     \* no account information has been set

ASSUME MaxIdsAssumption == MaxIds \in Nat \ {0}
ASSUME NoAccountAssumption == NoAccount \notin Accounts

VARIABLES pool,         \* sessionIdManager: [free: the stack, used: the set]
          sock,         \* m_socket of each Session object
          role,         \* which of m_checkValidSession / m_isValidSession hold
          id,           \* m_id
          reads,        \* the async_read_some handler of the session
          writes,       \* the async_write handler of the session
          account,      \* accountInfo.accountID
          byId,         \* m_sessionsBySessionId
          online,       \* m_sessionsVector
          keys          \* accounts whose AccountKey in the database is unspent

vars == <<pool, sock, role, id, reads, writes, account, byId, online, keys>>

Ids == 1 .. MaxIds
SockStates == {"unused", "open", "closed"}
Roles == {"refused", "player", "ipc"}
Handlers == {"none", "pending", "done", "error"}

TypeOK ==
  /\ pool \in [free : Seq(Ids), used : SUBSET Ids]
  /\ sock \in [Conns -> SockStates]
  /\ role \in [Conns -> Roles]
  /\ id \in [Conns -> Ids \cup {0}]
  /\ reads \in [Conns -> Handlers]
  /\ writes \in [Conns -> Handlers \ {"done"}]
  /\ account \in [Conns -> Accounts \cup {NoAccount}]
  /\ DOMAIN byId \subseteq Ids \cup {0}
  /\ \A i \in DOMAIN byId : byId[i] \in Conns
  /\ online \subseteq Conns
  /\ keys \subseteq Accounts

-----------------------------------------------------------------------------
(* The pool of session ids.                                                *)

\* getNewSessionID on a stack that is not empty.
TopId(p) == p.free[Len(p.free)]
\* Mutant: the id is popped and never marked as used.
TakeIdUnmarked(p) == [free |-> SubSeq(p.free, 1, Len(p.free) - 1), used |-> p.used]

TakeId(p) == [free |-> SubSeq(p.free, 1, Len(p.free) - 1),
              used |-> p.used \cup {TopId(p)}]

\* Mutant: no look at the set of used ids.
ReleaseIdUnchecked(p, i) == [free |-> Append(p.free, i), used |-> p.used \ {i}]

\* releaseSessionID: an id that is not in use is left alone.
ReleaseId(p, i) ==
  IF i \in p.used
  THEN [free |-> Append(p.free, i), used |-> p.used \ {i}]
  ELSE p

-----------------------------------------------------------------------------
(* The registry of authorised players.                                     *)

Registered(c) == c \in online \/ \E i \in DOMAIN byId : byId[i] = c

\* Mutant: only the map is cleaned.
OnlineKept(i) == online

\* removeSession(i): a no-op unless the map has the id; the vector loses
\* every session that carries the id.
MapWithout(i) == [j \in DOMAIN byId \ {i} |-> byId[j]]
OnlineWithout(i) ==
  IF i \in DOMAIN byId THEN {c \in online : id[c] # i} ELSE online

\* addSession(c) after the closing of another session: emplace keeps an
\* entry that is already there.
MapWith(m, c) ==
  [j \in DOMAIN m \cup {id[c]} |-> IF j \in DOMAIN m THEN m[j] ELSE c]

-----------------------------------------------------------------------------
(* closeSocket() on session c: the callback runs for a validated player    *)
(* only, and the id goes back to the pool on EVERY call, also on one that  *)
(* finds the socket closed.                                                *)

\* Mutant: the callback is left out because the socket is already closed.
RemovesLate(c) == sock[c] = "closed" /\ role[c] = "player"

Removes(c) == sock[c] = "open" /\ role[c] = "player"
Closed(s, c) == IF s[c] = "open" THEN [s EXCEPT ![c] = "closed"] ELSE s
Aborted(h) == IF h = "pending" THEN "error" ELSE h

MapAfterClose(c) == IF Removes(c) THEN MapWithout(id[c]) ELSE byId
OnlineAfterClose(c) == IF Removes(c) THEN OnlineWithout(id[c]) ELSE online

CloseSocket(c) ==
  /\ pool' = ReleaseId(pool, id[c])
  /\ sock' = Closed(sock, c)
  /\ byId' = MapAfterClose(c)
  /\ online' = OnlineAfterClose(c)

\* Mutant: the next read is issued without asking whether the socket is open.
AgainAlways(s, c) == "pending"

\* asyncRead() at the end of a read handler: only an open socket is read again.
Again(s, c) == IF s[c] = "open" THEN "pending" ELSE "none"

-----------------------------------------------------------------------------
Init ==
  /\ pool = [free |-> [i \in Ids |-> i], used |-> {}]
  /\ sock = [c \in Conns |-> "unused"]
  /\ role = [c \in Conns |-> "refused"]
  /\ id = [c \in Conns |-> 0]
  /\ reads = [c \in Conns |-> "none"]
  /\ writes = [c \in Conns |-> "none"]
  /\ account = [c \in Conns |-> NoAccount]
  /\ byId = <<>>
  /\ online = {}
  /\ keys = {}

(***************************************************************************)
(* asyncAccept / asyncAcceptIpcServer: the constructor takes an id or      *)
(* closes the socket at once, sendConnectionACK writes the ACK (to players *)
(* only) and asyncRead decides whether the peer's address was announced by *)
(* Auth.  A refused peer's socket is closed with its ACK still to be       *)
(* completed.                                                              *)
(***************************************************************************)
Accept(c, r) ==
  /\ sock[c] = "unused"
  /\ pool.free # <<>>
  /\ role' = [role EXCEPT ![c] = r]
  /\ id' = [id EXCEPT ![c] = TopId(pool)]
  /\ \/ /\ r # "refused"
        /\ pool' = TakeId(pool)
        /\ sock' = [sock EXCEPT ![c] = "open"]
        /\ reads' = [reads EXCEPT ![c] = "pending"]
        /\ writes' = [writes EXCEPT ![c] = IF r = "ipc" THEN "none" ELSE "pending"]
     \/ /\ r = "refused"
        /\ pool' = ReleaseId(TakeId(pool), TopId(pool))
        /\ sock' = [sock EXCEPT ![c] = "closed"]
        /\ reads' = [reads EXCEPT ![c] = "none"]
        /\ \E w \in {"none", "error"} : writes' = [writes EXCEPT ![c] = w]
  /\ UNCHANGED <<account, byId, online, keys>>

\* The constructor finds the pool empty: the session keeps m_id = 0 and its
\* socket is closed before anything is written or read (whether its address
\* was announced no longer matters).
AcceptExhausted(c) ==
  /\ sock[c] = "unused"
  /\ pool.free = <<>>
  /\ sock' = [sock EXCEPT ![c] = "closed"]
  /\ role' = [role EXCEPT ![c] = "refused"]
  /\ UNCHANGED <<pool, id, reads, writes, account, byId, online, keys>>

-----------------------------------------------------------------------------
(* The network: pending operations of an open socket complete.             *)

Receive(c) ==
  /\ reads[c] = "pending"
  /\ \E r \in {"done", "error"} : reads' = [reads EXCEPT ![c] = r]
  /\ UNCHANGED <<pool, sock, role, id, writes, account, byId, online, keys>>

\* A completed write only changes the session's own write queue, so it and
\* its handler are one step: the queue is empty, or its next packet is sent.
Transmit(c) ==
  /\ writes[c] = "pending"
  /\ \E w \in {"none", "error"} : writes' = [writes EXCEPT ![c] = w]
  /\ UNCHANGED <<pool, sock, role, id, reads, account, byId, online, keys>>

\* asyncWrite from any handler (a reply, a broadcast, a notification).
Write(c) ==
  /\ sock[c] = "open"
  /\ writes[c] = "none"
  /\ writes' = [writes EXCEPT ![c] = "pending"]
  /\ UNCHANGED <<pool, sock, role, id, reads, account, byId, online, keys>>

-----------------------------------------------------------------------------
(* Handlers on the asio thread.                                            *)

\* The write handler of a write that failed, or that the close aborted.
WriteHandler(c) ==
  /\ writes[c] = "error"
  /\ CloseSocket(c)
  /\ reads' = [reads EXCEPT ![c] = Aborted(@)]
  /\ writes' = [writes EXCEPT ![c] = "none"]
  /\ UNCHANGED <<role, id, account, keys>>

\* onRead with an error, or with a header or a size it refuses.
ReadHandlerCloses(c) ==
  /\ reads[c] \in {"done", "error"}
  /\ CloseSocket(c)
  /\ reads' = [reads EXCEPT ![c] = "none"]
  /\ writes' = [writes EXCEPT ![c] = Aborted(@)]
  /\ UNCHANGED <<role, id, account, keys>>

\* onRead with packets whose callbacks do not touch the connections.
ReadHandler(c) ==
  /\ reads[c] = "done"
  /\ reads' = [reads EXCEPT ![c] = Again(sock, c)]
  /\ UNCHANGED <<pool, sock, role, id, writes, account, byId, online, keys>>

\* A callback of c that closes a session d found in the registry: a chat
\* command that kicks, a room or trade handler that refuses its own caller,
\* Cast's ipcRequestCast.  When it closed its own socket, onRead still goes on
\* with the packets that follow in the buffer ("done").
ReadHandlerKicks(c, d) ==
  /\ reads[c] = "done"
  /\ role[c] \in {"player", "ipc"}
  /\ d = c \/ d \in online
  /\ CloseSocket(d)
  /\ \E own \in {Again(sock', c)} \cup (IF Again(sock, c) # Again(sock', c)
                                     THEN {"done"} ELSE {}) :
       reads' = [e \in Conns |-> IF e = c THEN own
                                ELSE IF e = d THEN Aborted(reads[e]) ELSE reads[e]]
  /\ writes' = [writes EXCEPT ![d] = Aborted(@)]
  /\ UNCHANGED <<role, id, account, keys>>

(***************************************************************************)
(* handleInitialPlayerInfos: the AccountKey is spent, and an accepted      *)
(* player first closes the session that is online under the account, then  *)
(* enters the registry, whatever the state of its own socket.              *)
(***************************************************************************)
OnlineAs(a) == {d \in online : account[d] = a}

AuthorizationRefused(c, a) ==
  /\ reads[c] = "done"
  /\ role[c] = "player"
  /\ a \in keys
  /\ keys' = keys \ {a}
  /\ reads' = [reads EXCEPT ![c] = Again(sock, c)]
  /\ UNCHANGED <<pool, sock, role, id, writes, account, byId, online>>

Authorize(c, a) ==
  /\ reads[c] = "done"
  /\ role[c] = "player"
  /\ a \in keys
  /\ keys' = keys \ {a}
  /\ account' = [account EXCEPT ![c] = a]
  /\ \/ /\ OnlineAs(a) = {}
        /\ byId' = MapWith(byId, c)
        /\ online' = online \cup {c}
        /\ reads' = [reads EXCEPT ![c] = Again(sock, c)]
        /\ UNCHANGED <<pool, sock, writes>>
     \/ \E d \in OnlineAs(a) :
          /\ pool' = ReleaseId(pool, id[d])
          /\ sock' = Closed(sock, d)
          /\ byId' = MapWith(MapAfterClose(d), c)
          /\ online' = OnlineAfterClose(d) \cup {c}
          /\ reads' = [e \in Conns |->
                         IF e = c THEN Again(sock', c)
                         ELSE IF e = d THEN Aborted(reads[e]) ELSE reads[e]]
          /\ writes' = [writes EXCEPT ![d] = Aborted(@)]
  /\ UNCHANGED <<role, id>>

\* disconnectIfOnline, asked by Auth before a login: the session leaves the
\* registry, its socket stays open and it is told so by a packet.
DisconnectIfOnline(c, a) ==
  /\ reads[c] = "done"
  /\ role[c] = "ipc"
  /\ \E d \in OnlineAs(a) :
       /\ byId' = MapWithout(id[d])
       /\ online' = OnlineWithout(id[d])
       /\ writes' = [writes EXCEPT ![d] =
            IF sock[d] = "open" /\ @ = "none" THEN "pending" ELSE @]
  /\ reads' = [reads EXCEPT ![c] = Again(sock, c)]
  /\ UNCHANGED <<pool, sock, role, id, account, keys>>

-----------------------------------------------------------------------------
\* ~Session once no handler and no registry entry refers to the object; the
\* anti-cheat thread may hold the last reference, so this is a later step.
Destroy(c) ==
  /\ sock[c] = "closed"
  /\ reads[c] = "none"
  /\ writes[c] = "none"
  /\ ~Registered(c)
  /\ pool' = ReleaseId(pool, id[c])
  /\ sock' = [sock EXCEPT ![c] = "unused"]
  /\ role' = [role EXCEPT ![c] = "refused"]
  /\ id' = [id EXCEPT ![c] = 0]
  /\ account' = [account EXCEPT ![c] = NoAccount]
  /\ UNCHANGED <<reads, writes, byId, online, keys>>

\* Auth writes a fresh AccountKey at login.
IssueKey(a) ==
  /\ keys' = keys \cup {a}
  /\ UNCHANGED <<pool, sock, role, id, reads, writes, account, byId, online>>

-----------------------------------------------------------------------------
Handler(c) ==
  \/ WriteHandler(c)
  \/ ReadHandlerCloses(c)
  \/ ReadHandler(c)
  \/ \E d \in Conns : ReadHandlerKicks(c, d)
  \/ \E a \in Accounts : AuthorizationRefused(c, a)
  \/ \E a \in Accounts : Authorize(c, a)
  \/ \E a \in Accounts : DisconnectIfOnline(c, a)

Next ==
  \/ \E c \in Conns, r \in Roles : Accept(c, r)
  \/ \E c \in Conns : AcceptExhausted(c)
  \/ \E c \in Conns : Receive(c)
  \/ \E c \in Conns : Transmit(c)
  \/ \E c \in Conns : Write(c)
  \/ \E c \in Conns : Handler(c)
  \/ \E c \in Conns : Destroy(c)
  \/ \E a \in Accounts : IssueKey(a)

Spec == Init /\ [][Next]_vars

\* The asio thread runs every handler that is ready, and the last reference
\* to a closed session is eventually dropped.
FairSpec ==
  /\ Spec
  /\ \A c \in Conns : WF_vars(Handler(c)) /\ WF_vars(Destroy(c))

-----------------------------------------------------------------------------
(* Properties.                                                             *)

IsDuplicateFree(s) == \A i, j \in DOMAIN s : s[i] = s[j] => i = j
Partition(p) ==
  /\ IsDuplicateFree(p.free)
  /\ Range(p.free) \cap p.used = {}
  /\ Range(p.free) \cup p.used = Ids

\* However often closeSocket() gives an id back (the close itself, the
\* aborted read, the aborted write, the destructor), the pool never holds an
\* id twice and never loses one: stack and set split 1 .. MaxIds.
PoolPartition == Partition(pool)

\* The map and the vector of the registry agree although emplace does not
\* overwrite and ids are reused: an entry leads to a player that carries its
\* key and is in the vector, and every player in the vector has an entry
\* under its id (its own, or that of another holder of the id).
RegistryCoherent ==
  /\ \A i \in DOMAIN byId : id[byId[i]] = i /\ byId[i] \in online
  /\ \A c \in online : id[c] \in DOMAIN byId /\ role[c] = "player"

\* A step that closes a player's socket leaves no trace of the player in the
\* registry; the one exception is a player that authorises again under its
\* own account, whose handler closes itself and registers itself afterwards.
CloseDeregisters ==
  [][\A c \in Conns :
       sock[c] = "open" /\ sock'[c] = "closed" /\ keys' = keys
         => ~Registered(c)']_vars

\* The object of a closed session is given back (and its slot becomes usable
\* again) unless a leftover packet put it into the registry.
ClosedIsReclaimed ==
  \A c \in Conns :
    sock[c] = "closed" ~> sock[c] = "unused" \/ Registered(c)
=============================================================================
