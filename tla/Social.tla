------------------------------- MODULE Social -------------------------------
(***************************************************************************)
(* Friends, blocks, friend requests, mailboxes and gift boxes of Main.     *)
(* Every account has rows in the database; one that is online has a copy   *)
(* of them in its session (SocialInfo, Mailbox).  Friendships and what is  *)
(* addressed to a player who is offline are written at once                *)
(* (immediatePersist); blocks, mails and gifts of players who are online   *)
(* wait in the scheduler's queue of their account and are then written one *)
(* by one.  removeSession writes those of its account on the thread of the *)
(* handlers, so nothing but the writes of others goes on until it is done. *)
(*                                                                         *)
(* Several requests of one sender that wait for an answer count as one.    *)
(* The words of a mail and whether it was read, the grade that protects    *)
(* the staff from blocks, and mutes are left out; the clock may say         *)
(* anything, which no handler depends on.  Login of an account             *)
(* that is online is Logout followed by Login.                             *)
(***************************************************************************)
EXTENDS Naturals, Sequences, FiniteSets, SequencesExt

CONSTANTS Accounts,    \* ids that a client may name
          Users,       \* those with a row in the table Users
          MaxFriends,  \* Common::Constants::maxFriends, of blocks as well
          MaxMailbox,  \* Common::Constants::maxMailbox
          MaxRows,     \* bound: equal rows of Friendlist and BlockedPlayers
          MaxQueue,    \* bound: writes of an account that wait
          Seconds,     \* values of std::time
          MaxGifts     \* bound: gifts

ASSUME NumericAssumption ==
  {MaxFriends, MaxMailbox, MaxRows, MaxQueue, MaxGifts} \subseteq Nat
ASSUME AccountsAssumption == IsFiniteSet(Accounts) /\ Users \subseteq Accounts

VARIABLES online,       \* accounts in m_sessionsBySessionId
          playing,      \* those of them in a match
          friends,      \* m_friends: account -> the reference is to a session
          blocked,      \* m_blockedAccounts: how often each account is in it
          box,          \* m_mailboxReceived, m_mailboxSent, m_giftboxReceived
          held,         \* m_pendingFriendRequestsQueue
          asked,        \* requests that the client shows
          queue,        \* callbacks of addRepetitiveCallback, oldest first
          friendRows,   \* Friendlist: how many rows of each pair
          pendingRows,  \* PendingFriendRequests
          rows,         \* BlockedPlayers, Mailbox with Giftbox, and items won
          given,        \* history: gifts that the account got
          honoured,     \* history: blocks the player was told of and did not lift
          cut,          \* history: accounts of whose rows a list lacks some
          orphans,      \* history: seconds of which one mail of several was deleted
          torn          \* history: deaths between the item of a gift and its deletion

vars == <<online, playing, friends, blocked, box, held, asked, queue,
          friendRows, pendingRows, rows, given, honoured, cut, orphans, torn>>
session == <<online, playing, friends, blocked, box, held, asked>>
database == <<friendRows, pendingRows, rows>>
history == <<given, honoured, cut, orphans, torn>>

Counts == 0 .. MaxRows
Kinds == {"received", "sent", "gift"}
Mails == [kind : Kinds, peer : Accounts, at : Seconds]
None == [b \in Accounts |-> 0]
NoFriends == [b \in {} |-> FALSE]
Occurring(count) == {b \in Accounts : count[b] > 0}
Copies(count) == UNION {{b} \X (1 .. count[b]) : b \in Accounts}
Size(count) == Cardinality(Copies(count))
\* The elements of the sequence s that are in S, in their order.
Picked(s, S) ==
  LET f[n \in 0 .. Len(s)] ==
        IF n = 0 THEN <<>> ELSE IF s[n] \in S THEN Append(f[n - 1], s[n]) ELSE f[n - 1]
  IN  f[Len(s)]
Of(kind, mails) == Picked(mails, {m \in Mails : m.kind = kind})
Those(kind, at) == {m \in Mails : m.kind = kind /\ m.at = at}
Friendlist(a) == Occurring(friendRows[a])
\* No session was removed whose writes are not done.
Idle == \A a \in Accounts \ online : queue[a] = <<>>

TypeOK ==
  /\ playing \subseteq online /\ online \subseteq Users
  /\ \A a \in Accounts :
       /\ DOMAIN friends[a] \subseteq Accounts
       /\ friends[a] \in [DOMAIN friends[a] -> BOOLEAN]
       /\ a \notin online => friends[a] = NoFriends /\ asked[a] = {}
       /\ Size(blocked[a]) <= MaxFriends
       /\ {box[a][k] : k \in DOMAIN box[a]} \subseteq Mails
       /\ Len(queue[a]) <= MaxQueue
       /\ rows[a].items \in Nat
  /\ blocked \in [Accounts -> [Accounts -> Counts]]
  /\ friendRows \in [Accounts -> [Accounts -> Counts]]
  /\ {held, asked, pendingRows, honoured} \subseteq [Accounts -> SUBSET Accounts]
  /\ given \in [Accounts -> 0 .. MaxGifts]
  /\ torn \in [Accounts -> Nat]
  /\ cut \subseteq Accounts
  /\ orphans \subseteq Accounts \X Kinds \X Seconds

Init ==
  /\ online = {} /\ playing = {} /\ cut = {} /\ orphans = {}
  /\ friends = [a \in Accounts |-> NoFriends]
  /\ blocked = [a \in Accounts |-> None]
  /\ box = [a \in Accounts |-> <<>>]
  /\ queue = [a \in Accounts |-> <<>>]
  /\ held = [a \in Accounts |-> {}]
  /\ asked = [a \in Accounts |-> {}]
  /\ friendRows = [a \in Accounts |-> None]
  /\ pendingRows = [a \in Accounts |-> {}]
  /\ rows = [a \in Accounts |-> [blocks |-> None, mails |-> <<>>, items |-> 0]]
  /\ given = [a \in Accounts |-> 0]
  /\ torn = [a \in Accounts |-> 0]
  /\ honoured = [a \in Accounts |-> {}]

-----------------------------------------------------------------------------
(* The database writes that wait.                                          *)

BlockRow(b) == [op |-> "blockPlayer", target |-> b]
UnblockRows(b) == [op |-> "unblockPlayer", target |-> b]
StoreMail(m) == [op |-> "storeMailbox", mail |-> m]
DeleteMails(kind, at) == [op |-> "deleteMailbox", kind |-> kind, at |-> at]
AddItem == [op |-> "addPlayerItem"]

\* Mutant: the query that deletes ignores whether the mail was sent.
AppliedAnyKind(r, w) ==
  CASE w.op = "blockPlayer" -> [r EXCEPT !.blocks[w.target] = @ + 1]
    [] w.op = "unblockPlayer" -> [r EXCEPT !.blocks[w.target] = 0]
    [] w.op = "storeMailbox" -> [r EXCEPT !.mails = Append(@, w.mail)]
    [] w.op = "deleteMailbox" -> [r EXCEPT !.mails = Picked(@, {m \in Mails : m.at # w.at})]
    [] w.op = "addPlayerItem" -> [r EXCEPT !.items = @ + 1]

\* The DELETE of a mail takes all of its second.
Applied(r, w) ==
  CASE w.op = "blockPlayer" -> [r EXCEPT !.blocks[w.target] = @ + 1]
    [] w.op = "unblockPlayer" -> [r EXCEPT !.blocks[w.target] = 0]
    [] w.op = "storeMailbox" -> [r EXCEPT !.mails = Append(@, w.mail)]
    [] w.op = "deleteMailbox" -> [r EXCEPT !.mails = Picked(@, Mails \ Those(w.kind, w.at))]
    [] w.op = "addPlayerItem" -> [r EXCEPT !.items = @ + 1]

Written(r, writes) ==
  LET f[n \in 0 .. Len(writes)] == IF n = 0 THEN r ELSE Applied(f[n - 1], writes[n])
  IN  f[Len(writes)]
Settled(a) == Written(rows[a], queue[a])
Queued(a, writes) ==
  /\ Len(queue[a] \o writes) <= MaxQueue
  /\ queue' = [queue EXCEPT ![a] = @ \o writes]

\* The next write of an account, by the scheduler's thread or by removeSession
\* (Persistence models how they take the callbacks).
Persist(a) ==
  /\ queue[a] # <<>>
  /\ rows' = [rows EXCEPT ![a] = Applied(@, Head(queue[a]))]
  /\ queue' = [queue EXCEPT ![a] = Tail(@)]
  /\ UNCHANGED <<session, friendRows, pendingRows, history>>

-----------------------------------------------------------------------------
(* Sessions.                                                               *)

\* The lists that a load of at most MaxFriends of these rows may give.
Loads(count) ==
  IF Size(count) <= MaxFriends THEN {count}
  ELSE {part \in [Accounts -> Counts] :
          Size(part) = MaxFriends /\ \A b \in Accounts : part[b] <= count[b]}

With(f, b, isOnline) == [c \in DOMAIN f \cup {b} |-> IF c = b THEN isOnline ELSE f[c]]
SetFriend(fs, a, b, isOnline) == [fs EXCEPT ![a] = With(@, b, isOnline)]
\* updateFriendSession: the session of a is given to, or taken from, the
\* maps of these accounts, whether or not it was in them.
Told(fs, others, a, isOnline) ==
  [b \in Accounts |-> IF b \in others THEN With(fs[b], a, isOnline) ELSE fs[b]]

\* loadFriends joins the rows with Users.
FriendsOf(a) == [b \in Accounts |-> IF b \in Users THEN friendRows[a][b] ELSE 0]
\* handleAccountInformation.
Login(a) ==
  /\ a \in Users \ online
  /\ online' = online \cup {a}
  /\ \E part \in Loads(FriendsOf(a)), list \in Loads(rows[a].blocks) :
       /\ friends' = [Told(friends, Occurring(part) \cap online, a, TRUE)
                        EXCEPT ![a] = [b \in Occurring(part) |-> b \in online']]
       /\ blocked' = [blocked EXCEPT ![a] = list]
       /\ cut' = IF /\ Occurring(part) = Occurring(FriendsOf(a))
                    /\ Occurring(list) = Occurring(rows[a].blocks) THEN cut ELSE cut \cup {a}
  /\ box' = [box EXCEPT ![a] = rows[a].mails]
  /\ UNCHANGED <<playing, held, asked, queue, database, given, honoured, orphans, torn>>

\* SessionsManager::removeSession: the requests that were held during the
\* match are written to a socket that is closed; persistNow has the writes
\* that wait to do.
Logout(a) ==
  /\ a \in online
  /\ online' = online \ {a} /\ playing' = playing \ {a}
  /\ friends' = [Told(friends, {b \in DOMAIN friends[a] : friends[a][b]}, a, FALSE)
                   EXCEPT ![a] = NoFriends]
  /\ blocked' = [blocked EXCEPT ![a] = None]
  /\ box' = [box EXCEPT ![a] = <<>>]
  /\ held' = [held EXCEPT ![a] = {}] /\ asked' = [asked EXCEPT ![a] = {}]
  /\ orphans' = {o \in orphans : o[1] # a}
  /\ UNCHANGED <<queue, database, given, honoured, cut, torn>>

\* An opened gift has given its item and is not deleted yet.
Opening(a) ==
  queue[a] # <<>> /\ Head(queue[a]).op = "deleteMailbox" /\ Head(queue[a]).kind = "gift"
\* The process dies: blocks that were not written are no longer honoured.
Crash ==
  /\ online # {} \/ ~Idle
  /\ online' = {} /\ playing' = {}
  /\ friends' = [a \in Accounts |-> NoFriends]
  /\ blocked' = [a \in Accounts |-> None]
  /\ box' = [a \in Accounts |-> <<>>] /\ queue' = [a \in Accounts |-> <<>>]
  /\ held' = [a \in Accounts |-> {}] /\ asked' = [a \in Accounts |-> {}]
  /\ honoured' = [a \in Accounts |-> honoured[a] \cap Occurring(rows[a].blocks)]
  /\ torn' = [a \in Accounts |-> IF Opening(a) THEN torn[a] + 1 ELSE torn[a]]
  /\ orphans' = {}
  /\ UNCHANGED <<database, given, cut>>

EnterMatch(a) ==
  /\ a \in online \ playing
  /\ playing' = playing \cup {a}
  /\ UNCHANGED <<online, friends, blocked, box, held, asked, queue, database, history>>

\* handleMatchLeave -> flushPendingFriendRequests.
LeaveMatch(a) ==
  /\ a \in playing
  /\ playing' = playing \ {a}
  /\ asked' = [asked EXCEPT ![a] = @ \cup held[a]]
  /\ held' = [held EXCEPT ![a] = {}]
  /\ UNCHANGED <<online, friends, blocked, box, queue, database, history>>

\* Packet 63: loadPendingFriendRequests reads and deletes in a transaction.
FetchRequests(a) ==
  /\ a \in online /\ pendingRows[a] # {}
  /\ asked' = [asked EXCEPT ![a] = @ \cup pendingRows[a]]
  /\ pendingRows' = [pendingRows EXCEPT ![a] = {}]
  /\ UNCHANGED <<online, playing, friends, blocked, box, held, queue, friendRows, rows,
                 history>>

-----------------------------------------------------------------------------
(* Friends.                                                                *)

Full(a) == Cardinality(DOMAIN friends[a]) >= MaxFriends

\* sendFriendRequest -> handleOnlineFriendRequest.
AskOnline(a, b) ==
  /\ {a, b} \subseteq online /\ a # b
  /\ ~Full(a) /\ ~Full(b)
  /\ blocked[b][a] = 0
  /\ IF b \in playing
     THEN held' = [held EXCEPT ![b] = @ \cup {a}] /\ UNCHANGED asked
     ELSE asked' = [asked EXCEPT ![b] = @ \cup {a}] /\ UNCHANGED held
  /\ UNCHANGED <<online, playing, friends, blocked, box, queue, database, history>>

\* sendFriendRequest -> handleOfflineFriendRequest -> addPendingFriendRequest.
AskOffline(a, b) ==
  /\ a \in online /\ b \in Users \ online
  /\ ~Full(a) /\ Size(friendRows[b]) < MaxFriends
  /\ rows[b].blocks[a] = 0
  /\ pendingRows' = [pendingRows EXCEPT ![b] = @ \cup {a}]
  /\ UNCHANGED <<session, queue, friendRows, rows, history>>

\* Both directions; the table has no key, so that INSERT IGNORE repeats rows.
Inserted(f, a, b) == [f EXCEPT ![a][b] = @ + 1]
Befriended(a, b) ==
  /\ friendRows' = Inserted(Inserted(friendRows, a, b), b, a)
  /\ friendRows'[a][b] <= MaxRows
Parted(a, b) == [friendRows EXCEPT ![a][b] = 0, ![b][a] = 0]

\* acceptFriendRequest: of whatever id packet 61 names, which may not have
\* asked, be blocked, be the player's own or belong to nobody.
Accept(a, b) ==
  /\ a \in online
  /\ Befriended(a, b)
  /\ friends' = IF b \in online
                THEN SetFriend(SetFriend(friends, a, b, TRUE), b, a, TRUE)
                ELSE SetFriend(friends, a, b, FALSE)
  /\ asked' = [asked EXCEPT ![a] = @ \ {b}]
  /\ UNCHANGED <<online, playing, blocked, box, held, queue, pendingRows, rows, history>>

Dropped(fs, a, b) == [fs EXCEPT ![a] = [c \in DOMAIN @ \ {b} |-> @[c]]]
\* Mutant: only the player who asked for it loses the friend.
UnfriendedOneSided(a, b) == Dropped(friends, a, b)
Unfriended(a, b) == Dropped(Dropped(friends, a, b), b, a)

\* handleFriendDeletion, of a friend or of another id.
DeleteFriend(a, b) ==
  /\ a \in online
  /\ friends' = Unfriended(a, b)
  /\ friendRows' = Parted(a, b)
  /\ UNCHANGED <<online, playing, blocked, box, held, asked, queue, pendingRows, rows,
                 history>>

-----------------------------------------------------------------------------
(* Blocks.                                                                 *)

\* SocialInfo::blockAccount takes an account that is already in the list.
Blocking(a, b) ==
  /\ blocked' = [blocked EXCEPT ![a][b] = @ + 1]
  /\ Queued(a, <<BlockRow(b)>>)
  /\ honoured' = [honoured EXCEPT ![a] = @ \cup {b}]
  /\ IF b \in DOMAIN friends[a]
     THEN friends' = Unfriended(a, b) /\ friendRows' = Parted(a, b)
     ELSE UNCHANGED <<friends, friendRows>>

\* Mutant: the limit is checked after the account is in the list.
BlockOnlineLate(a, b) ==
  /\ {a, b} \subseteq online
  /\ Size(blocked[a]) <= MaxFriends
  /\ rows[a].blocks[b] + Len(queue[a]) < MaxRows
  /\ Blocking(a, b)
  /\ UNCHANGED <<online, playing, box, held, asked, pendingRows, rows, given, cut,
                 orphans, torn>>

\* handlePlayerBlock of a player who is online.
BlockOnline(a, b) ==
  /\ {a, b} \subseteq online
  /\ Size(blocked[a]) < MaxFriends
  /\ rows[a].blocks[b] + Len(queue[a]) < MaxRows
  /\ Blocking(a, b)
  /\ UNCHANGED <<online, playing, box, held, asked, pendingRows, rows, given, cut,
                 orphans, torn>>

\* handlePlayerBlock of a player who is offline: blockPlayerByNickname has
\* written the row before blockAccount queues another.
BlockOffline(a, b) ==
  /\ a \in online /\ b \in Users \ online
  /\ rows[a].blocks[b] + Len(queue[a]) + 1 < MaxRows
  /\ rows' = [rows EXCEPT ![a].blocks[b] = @ + 1]
  /\ IF Size(blocked[a]) < MaxFriends
     THEN Blocking(a, b)
     ELSE UNCHANGED <<blocked, queue, honoured, friends, friendRows>>
  /\ UNCHANGED <<online, playing, box, held, asked, pendingRows, given, cut, orphans, torn>>

\* Session::unblockAccount.
Unblock(a, b) ==
  /\ blocked[a][b] > 0
  /\ blocked' = [blocked EXCEPT ![a][b] = 0]
  /\ Queued(a, <<UnblockRows(b)>>)
  /\ honoured' = [honoured EXCEPT ![a] = @ \ {b}]
  /\ UNCHANGED <<online, playing, friends, box, held, asked, database, given, cut,
                 orphans, torn>>

-----------------------------------------------------------------------------
(* Mails and gifts.                                                        *)

Mail(kind, peer, at) == [kind |-> kind, peer |-> peer, at |-> at]
Amount(kind, a) == Len(Of(kind, box[a]))
Appended(f, a, x) == [f EXCEPT ![a] = Append(@, x)]
\* sendOnlineMailbox: the limits let one mail more than MaxMailbox through, and
\* the receiver may be the sender.
MailOnline(a, b, at) ==
  /\ {a, b} \subseteq online
  /\ Amount("sent", a) <= MaxMailbox /\ Amount("received", b) <= MaxMailbox
  /\ blocked[b][a] = 0
  /\ box' = Appended(Appended(box, b, Mail("received", a, at)), a, Mail("sent", b, at))
  /\ queue' = Appended(Appended(queue, b, StoreMail(Mail("received", a, at))),
                      a, StoreMail(Mail("sent", b, at)))
  /\ Len(queue'[a]) <= MaxQueue /\ Len(queue'[b]) <= MaxQueue
  /\ UNCHANGED <<online, playing, friends, blocked, held, asked, database, history>>

\* Mutant: the block is not looked up for a player who is offline.
MailOfflineUnasked(a, b, at) ==
  /\ a \in online /\ b \in Users \ online
  /\ Amount("sent", a) <= MaxMailbox
  /\ Len(Of("received", rows[b].mails)) < MaxMailbox
  /\ rows' = [rows EXCEPT ![b].mails = Append(@, Mail("received", a, at))]
  /\ box' = [box EXCEPT ![a] = Append(@, Mail("sent", b, at))]
  /\ Queued(a, <<StoreMail(Mail("sent", b, at))>>)
  /\ UNCHANGED <<online, playing, friends, blocked, held, asked, friendRows, pendingRows,
                 history>>

\* sendOfflineMailbox -> storeOfflineMailbox.
MailOffline(a, b, at) ==
  /\ a \in online /\ b \in Users \ online
  /\ Amount("sent", a) <= MaxMailbox
  /\ Len(Of("received", rows[b].mails)) < MaxMailbox
  /\ rows[b].blocks[a] = 0
  /\ rows' = [rows EXCEPT ![b].mails = Append(@, Mail("received", a, at))]
  /\ box' = [box EXCEPT ![a] = Append(@, Mail("sent", b, at))]
  /\ Queued(a, <<StoreMail(Mail("sent", b, at))>>)
  /\ UNCHANGED <<online, playing, friends, blocked, held, asked, friendRows, pendingRows,
                 history>>

First(mails, kind, at) ==
  CHOOSE k \in DOMAIN mails :
    mails[k] \in Those(kind, at) /\ \A j \in 1 .. k - 1 : mails[j] \notin Those(kind, at)

\* Session::deleteMailbox: the first of its second leaves the list.
DeleteMail(a, kind, at) ==
  /\ \E k \in DOMAIN box[a] : box[a][k] \in Those(kind, at)
  /\ box' = [box EXCEPT ![a] = RemoveAt(@, First(@, kind, at))]
  /\ Queued(a, <<DeleteMails(kind, at)>>)
  /\ orphans' = IF \E k \in DOMAIN box'[a] : box'[a][k] \in Those(kind, at)
                THEN orphans \cup {<<a, kind, at>>} ELSE orphans \ {<<a, kind, at>>}
  /\ UNCHANGED <<online, playing, friends, blocked, held, asked, database, given,
                 honoured, cut, torn>>

\* SendGift, SendRewards and the HTTP API: receiveGift, or storeGiftbox for a
\* player who is offline.  receiveGift counts mails in place of gifts.
Gift(a, at) ==
  /\ Size(given) < MaxGifts
  /\ given' = [given EXCEPT ![a] = @ + 1]
  /\ \/ /\ a \in online /\ Amount("received", a) <= MaxMailbox
        /\ box' = [box EXCEPT ![a] = Append(@, Mail("gift", a, at))]
        /\ Queued(a, <<StoreMail(Mail("gift", a, at))>>)
        /\ UNCHANGED rows
     \/ /\ a \in Users \ online /\ Len(Of("gift", rows[a].mails)) < MaxMailbox
        /\ rows' = [rows EXCEPT ![a].mails = Append(@, Mail("gift", a, at))]
        /\ UNCHANGED <<box, queue>>
  /\ UNCHANGED <<online, playing, friends, blocked, held, asked, friendRows, pendingRows,
                 honoured, cut, orphans, torn>>

\* Mutant: the row of an opened gift box stays.
OpenGiftUnpersisted(a, at) ==
  /\ \E k \in DOMAIN box[a] : box[a][k] \in Those("gift", at)
  /\ box' = [box EXCEPT ![a] = Picked(@, Mails \ Those("gift", at))]
  /\ Queued(a, <<AddItem>>)
  /\ UNCHANGED <<online, playing, friends, blocked, held, asked, database, history>>

\* handleMailboxGiftSend when the inventory has room: one item, then all gift
\* boxes of its second are deleted.
OpenGift(a, at) ==
  /\ \E k \in DOMAIN box[a] : box[a][k] \in Those("gift", at)
  /\ box' = [box EXCEPT ![a] = Picked(@, Mails \ Those("gift", at))]
  /\ Queued(a, <<AddItem, DeleteMails("gift", at)>>)
  /\ UNCHANGED <<online, playing, friends, blocked, held, asked, database, history>>

-----------------------------------------------------------------------------
Next ==
  \/ Crash
  \/ \E a \in Accounts :
       \/ Persist(a)
       \/ /\ Idle
          /\ \/ Login(a) \/ Logout(a) \/ EnterMatch(a) \/ LeaveMatch(a) \/ FetchRequests(a)
             \/ \E b \in Accounts :
                  \/ AskOnline(a, b) \/ AskOffline(a, b) \/ Accept(a, b) \/ DeleteFriend(a, b)
                  \/ BlockOnline(a, b) \/ BlockOffline(a, b) \/ Unblock(a, b)
             \/ \E at \in Seconds :
                  \/ Gift(a, at) \/ OpenGift(a, at)
                  \/ \E kind \in Kinds \ {"gift"} : DeleteMail(a, kind, at)
                  \/ \E b \in Accounts : MailOnline(a, b, at) \/ MailOffline(a, b, at)

Spec == Init /\ [][Next]_vars

-----------------------------------------------------------------------------
\* Unless its rows outgrew a list, a player who is online has exactly those
\* friends among the users that the database has for both, himself included
\* where he accepted himself, any other id in his list has a row, and he sees
\* online exactly those of them who are (a deletion, a block or the end of a
\* session on the other side reaches the list).
FriendsMirrorRows ==
  \A a \in online \ cut :
    /\ DOMAIN friends[a] \cap Users = Friendlist(a) \cap Users
    /\ DOMAIN friends[a] \subseteq Friendlist(a)
    /\ \A b \in DOMAIN friends[a] \ cut :
         /\ friends[a][b] = (b \in online)
         /\ friendRows[b][a] = friendRows[a][b]

\* A player whom another was told to have blocked reaches neither the client
\* nor the rows of the other, through logins, logouts and a crash; a request
\* that was there before may still be shown.
From(b) == {m \in Mails : m.kind = "received" /\ m.peer = b}
Arrived(a, b) ==
  Len(Picked(rows[a].mails, From(b))) + Len(Picked(queue[a], {StoreMail(m) : m \in From(b)}))
BlocksHonoured ==
  [][\A a \in Accounts \ cut : \A b \in honoured[a] :
       /\ Arrived(a, b)' <= Arrived(a, b)
       /\ b \in (asked[a] \cup held[a] \cup pendingRows[a])'
            => b \in asked[a] \cup held[a] \cup pendingRows[a]]_vars

\* What the lists of a session show is what the rows will have when the
\* writes that wait are done, until one of several
\* mails of a second is deleted.
MailsKept ==
  \A a \in online, kind \in Kinds, at \in Seconds :
    <<a, kind, at>> \notin orphans =>
      Picked(box[a], Those(kind, at)) = Picked(Settled(a).mails, Those(kind, at))

\* A gift gives its item once, through openings whose writes are delayed,
\* logins, logouts and crashes; the one exception is a death of the process
\* after the item is written and before the gift is deleted, which gives
\* one item more for every such death.
GiftsOpenedOnce ==
  \A a \in Accounts :
    Settled(a).items + Len(Of("gift", Settled(a).mails)) <= given[a] + torn[a]
=============================================================================
