# ToyBattlesHQ: TLA+ models and proofs

ToyBattlesHQ is the server side of a MicroVolts emulator: an *Auth* server (login), a
*Main* server (accounts, inventories, rooms, trade, clans) and a *Cast* server (relay of
the matches).  Main and Cast keep a TCP link with length-prefixed packets; Auth talks to
Main over the same kind of link and through the database.  This directory holds TLA+
models of Main's state machines, the TLC runs that check them and TLAPS proofs about
them.  Line numbers below are those of the sources under `src/`.

## 1. Inventory

| Part | State | Operations | Interacts with | What is hard |
|---|---|---|---|---|
| Connections (`Common/.../Session`, `SessionIdManager`, Main's `SessionsManager`) | id pool, socket, pending handlers, registry by id and as a vector | accept, read/write handlers, `closeSocket`, authorisation, `addSession`, `removeSession`, destruction | everything holds `shared_ptr`s of sessions | handlers that run after the close; ids given back several times and reused; logins that race with closes |
| Persistence (`MainScheduler`, `MainDatabaseManager`) | two maps of callbacks, a batch per thread, the database's mutex | `addCallback`, `addRepetitiveCallback`, `persist`, `persistFor`, `immediatePersist` | session code on the asio thread, the scheduler thread, MariaDB | order between threads, between the two kinds of callbacks, failing callbacks, a stop in the middle |
| Trade (`TradeInfo`, `Handlers/Trade`) | offers, locks and partners of both sides, inventories, MicroPoints | initialise, add, remove, lock, finalise, cancel | item handlers, login and logout | requests outside of the trade between offer, lock and exchange; unsigned arithmetic |
| Rooms (`Room`, `RoomsManager`, `RoomNumberGenerator`, `Handlers/Room`) | players and observers (weak pointers), host = first entry, match flag, votekick, numbers | create, join, leave, kick, votekick, start, end, host change, team switch, removal of a session | session state (`roomNumber`, `playerState`), parties, Cast | host migration, dead entries, one `roomNumber` for room and party, requests after a removal, results that callers ignore, numbers that run out |
| Inventory and currency | items by number, equipped items, MP, RT, coins | buy, sell, upgrade, capsule, gamble, repair, equip, open a box | trade, persistence | numbers reused, a hand-kept counter of worn items, rows written one by one |
| Cast rooms and IPC | rooms by session id, connections that identify themselves late, requests with timeouts | toggle of join and exit, crash, close, blocking requests | Main | both sides block on each other; late or repeated requests; one number space for two kinds of ids |
| Parties and clan matches | parties by clan, matches that point to two parties, clan rooms | create, join, settings, register, challenge, start, end, return, leave | rooms, disconnection | a handler changes two parties and a room, member by member; handlers that call each other both ways |
| Clans | rows of clans, members, requests; what sessions remember of them | found, enlist, accept, deny, kick, leave, disband, transfer | sessions, persistence, match end | sessions are not told; writes under way; ids that come back after a restart |
| Friends and mailbox | lists of two sessions, rows of two accounts, mails, gifts | add, accept, delete, block, send, open a gift | persistence, sessions | a friendship is four copies; a side may be offline, playing or blocking; mails are found by their second |
| Accounts (`AuthServer`, `AuthorizationHandler`, bans and limits) | rows of accounts, counters of failed attempts, what a login, an authorisation and a session remember of a row | log in, lock, enter, leave, ban, mute, forbid rooms and votekicks, lift, `/gradees`, `/changepw`, `/ban` of the HTTP API | connections | two processes and a website change one row in several statements each; keys and suspensions read early and used late |
| Anti-cheat, reports, other chat commands, HTTP API | small | see `PROJECT.json` | connections, rooms | the HTTP API runs on a thread of its own |

`PROJECT.json` lists every component with its status, and the hazards of the code, each
at its line with the properties that are about it.

## 2. Modules

| Module | Component | Checked by | Proved in |
|---|---|---|---|
| `Connections` | connections, ids, registry | `MCConnections` | `Connections_proofs` |
| `WriteBehind` | what session code expects of the scheduler (abstract) | through `Persistence` | |
| `Persistence` | the scheduler; implements `WriteBehind` | itself | `Persistence_proofs` |
| `Trade` | trade | `MCTrade` | `AccountsAndTrade_proofs` |
| `Rooms` | the operations on rooms of Main | through `NormalRooms` and `Parties` | |
| `NormalRooms` | normal rooms over the life of sessions; extends `Rooms` | `MCRooms` | `Rooms_proofs` |
| `Cast` | connections and rooms of Cast, and Main's side of their requests | `MCCast` | `Cast_proofs` |
| `Items` | the items of an account, in its session and in its rows | `MCItems` | `Items_proofs` |
| `Social` | friends, blocks, mails, gifts, in sessions and rows | `MCSocial` | `Social_proofs` |
| `Parties` | parties, clan rooms and clan matches; uses `Rooms` | `MCParties` | `ClansAndParties_proofs` |
| `Clans` | clans in the database and in the sessions | `MCClans` | `ClansAndParties_proofs` |
| `Accounts` | login, authorisation, punishments, in rows and sessions | `MCAccounts` | `AccountsAndTrade_proofs` |

Each module has one action per handler (or per step of a thread where threads
interleave).  All handlers of Main run on one asio thread, so there a handler is one
atomic step, except in `Accounts`, where a login of Auth and an authorisation of Main are
split at their statements; in `Persistence` the scheduler's thread and the asio thread interleave at
their two mutexes, in `Items`, `Social` and `Clans` the writes that wait are run between
any two handlers, and in `Cast` the two servers interleave.  Alternatives of a definition
whose comment begins with "Mutant" are not part of a model: they are plausible errors,
used to see that a property notices them.

**Connections.**  A value of `Conns` is the memory of one `Session` object.  `sock` is its
socket, `reads` and `writes` say whether an asynchronous operation is pending, has
completed or has failed with its handler still to run.  `closeSocket` (Session.cpp:174)
calls the removal callback only for an open socket of a validated player and gives the id
back on every call (176-180).  `Authorize` is the authorisation of `handleInitialPlayerInfos`
with the closing of the older session and `addSession`.  `DisconnectIfOnline` is the
request of Auth.  `ReadHandlerKicks` is any handler that closes a session it found.  After
a handler has closed its own session, the remaining packets of its buffer still run.

**Persistence and WriteBehind.**  An update is a number issued in increasing order, and
the value it writes.  `normal` is the map of column callbacks (a later one replaces an
earlier one), `incremental` that of insertions, deletions and snapshots (`updatePlayerStats`
at a match's end, which writes columns too).  A batch in `job[t]` is what a thread has moved
out.  `Kill` is the end of the process; what is in memory goes.  `WriteBehind` is the
promise: an update is applied at most once, in the order of submission while the session
goes on, given up alone if it fails, and otherwise lost only with the process.
`ImplementsWriteBehind` maps the queue and both batches to its waiting updates.

**Trade.**  Inventories map numbers to items; an offer is a sequence of number and item as
they were when added.  An exchange is one step with its whole effect: fees, deletions,
spawned items, reset.  Losing, gaining and spending outside of the trade may happen
between any two of its requests.

**Rooms and NormalRooms.**  Room effects are operators on a record `w` of the variables they
touch, since handlers call each other (a removal leaves the match, then the room).  An entry
of a room has a session id and whether its weak pointer is still alive.  Pings are
abstracted: whichever eligible player may be the best.  `Rooms` has the operations of the
handlers, which `Parties` uses for the clan rooms too; `NormalRooms` says who may call them
when.  A session comes by `Login`, is taken out of its match, room and party by `Remove` (its
close, `/ban`, the HTTP API, a request of Auth), and ends when its object is destroyed
(`End`): only then do the weak pointers die.  In between it is not in `registry` any more but
runs the packets it still has, and no handler of a room asks for more than `roomNumber`
(RoomCreationHandler.h:28, MainSession.cpp:49-66), so every request of a room is open to it;
it may be authorised again.  A session with a clan may also be a member of a party, for
neither excludes the other.  Then a leave or a removal takes the branch of the party
(RoomLeaveHandler.h:56-63): `roomNumber` becomes 0 (PartyRoom.cpp:196-197) and the normal room
keeps its entry.  Of parties and clan rooms `NormalRooms` keeps what they do to `roomNumber`
and `playerState` (`LeaveParty`, `ClanMatch`), for one session at a time and whenever the
session is or was a member, which is more than `Parties` allows.  `strayed` is history: who
lost its number while a room lists it; `kept`: who is kept by a room after its removal,
because the room was voting about it (`LeaveVotekicked` ignores the result of the kick), or
because it became a player afterwards.  `Spec` has all creations; in `NumberedSpec` no room is
created once the generator answers "none".  The production limit is 600 numbers, of which
some are lost for each list request that finds an empty room.  Ids are names here: what an
id that is given out again does to the registry is the subject of `Connections` and `Cast`.

**Cast.**  A value of `Conns` is one connection to Cast.  It has an id of Cast's own pool
until Main has said which session it belongs to (`getSessionId`, up to 15 s); Main's
`mainId` changes by logins and logouts meanwhile.  `slot` maps an id to its room,
`players` a room to its entries, and `view` says on which side of a room the client
believes itself to be: the same packet enters and leaves (`switchRoomJoinOrExit`).
Requests of Main that come late wait in `posted` and `closeReqs`.  A socket that was closed
may leave handlers that will run ("closing"): a read that had completed still dispatches its
packets (Session.cpp:67-76, 101-166), after `removeSession` has run.  `strays` is history:
ids that such a packet put in a room, until they leave it.

**Items.**  `items` is `m_itemsByItemNumber`, `worn` the slots of each character, `total`
the counter of worn items that the space check uses, `rows` the rows of `UserItems` in
their order, `queue` the statements that wait.  A login numbers the rows anew from 1
(`Renumbered`).  `replaced` and `drifted` are history: items exchanged while worn, whose
row says something else.

**Social.**  Each account has rows and, while online, a copy.  What concerns an offline
player is written at once, the rest waits and is written one by one (`Persist`), by the
scheduler or by `persistNow` of a removal, which no other handler runs before (`Idle`).  A
friendship is an entry in both lists and a row of each account.  `Accounts` are the ids that a
client may name, `Users` those that exist: packet 61 accepts any id, the player's own and
those of nobody or of a blocked player included (FriendsGeneralHandler.h:27-33,
MainSession.cpp:380-400).  `torn` is history: how often the process died when an item of a
gift was written and the gift not yet deleted.

**Parties.**  The rooms are those of `Rooms`, instantiated for the clan rooms; `parties`
is `m_partyRoomByClanId`, `matches` is `m_clanRooms` with the keys of the two parties in
place of the two pointers.  Leaving a room leaves the party and leaving the party leaves
the room, so both are operators on the joint record, and the return from a clan room is a
fold of leaves and joins over both lists of members, in the code's order.

**Clans.**  The rows of `Users`, `Clans` and `PendingClanRequests`, changed by one
transaction per command; the sessions keep the clan and the contribution of their login.
The end of a clan match queues two writes per player.  `foreign` is history: accounts whose
contribution was made under another clan than the one they are in.

**Accounts.**  `row` has what the two servers and the website share of `Users`: the key,
whether the account logged in within the last minute, suspension, grade and limits (a time
in the future is TRUE).  `login` is Auth's request between `getCompletePlayerInfo` and its
answer (the password is checked in between), `entry` Main's authorisation: it reads the
key, resets it and compares it with the one that the client shows: one that it was given,
or 0.  Every command of staff is one step, as is what the HTTP API
changes.  `clean`, `late`, `missed` and `admitted` are history: accounts whose login of the last
minute read no suspension, accounts that Auth locked while they were online or that came in
after such a login, limits whose statement failed, and how many sessions a key has let in.

## 3. Runs

| Run | Instance | Shows |
|---|---|---|
| `connections` | 3 objects, 2 ids, 1 account | id pool and registry under repeated closes, leftover handlers, reused ids, an exhausted pool |
| `connections_live` | 2 objects, 1 id | closed sessions are reclaimed |
| `persistence` | 2 accounts (one may leave), 2 columns, 3 updates | the scheduler implements the write-behind store; settled columns agree; everything queued leaves the queues |
| `trade` | 2 players, 3 items, space 2, offers of 1 (and one over), MP modulo 6 | delivery, exactness, items move only by a trade, space |
| `rooms` | 3 sessions without a clan, 1 room of 3 without observers, 1 number; no step from a state with more than 2 removed sessions, rooms and votes in sum, or more than 1 dead entry (`Bounded`) | types, the host of a match |
| `rooms_membership` | 2 sessions, one with a clan, 2 rooms of 2 and an observer, 2 numbers; likewise 2 in sum, and no step from a state with a dead entry | membership, a room number is free or used once, a removal leaves no dead entry but for the cases named |
| `cast` | 3 connections, 1 account, 2 rooms, ids 1 and 2; one closed socket with handlers left, one answer or request of Main on its way, one id shared or put in a room late at a time (`Bound`) | slots and entries agree; the toggle is never on the wrong side |
| `items` | hat, suit (a set covering the head), pill (stack of 2), box; 2 characters, space 3, 3 numbers, 2 writes | unique numbers, rows mirror items, counter covers what is worn, sets exclude parts |
| `social` | 2 users and an id of nobody, 1 friend, 1 mail, 1 gift, 2 seconds, 2 equal rows, 2 writes; no step from a state of load over 4 or with more than one death during an opening (`Bounded`) | friends agree with rows, mails kept, gift opened once, blocks hold |
| `parties` | 2 sessions of one clan, 1 of another, 1 party per clan, sizes 1 and 2, 1 clan room | members and parties agree, matches name their parties, the return keeps parties, no dead members |
| `clans` | 3 accounts (2 online at once), 2 clans of 2, 2 requests, contribution up to 1 (clan: 2), 2 writes | leaders are members, totals cover contributions, a reused clan id starts afresh |
| `accounts` | 1 account of grade Mod, limits of chat and rooms, 2 keys, 2 wrong attempts | a key lets one session in, a suspended account stays out, limits of the row hold in the session |

The bounds are the smallest at which the interesting cases happen: three connections let
a late close meet a third holder of a reused id; two ids let the pool be empty and be
refilled in another order; three updates are needed for a snapshot between two columns'
values; three players of a room let one leave, one take over and one watch; a third
connection to Cast uses the id that the second is still asking for; two characters can
wear a set and one of its parts, and three numbers give an item the number of one that was
deleted; a party of two has a leader and a follower, the other clan's party of one a leader
that is everything; two requests to a clan of two compete for its last place; two keys let a login at Auth
overtake an authorisation at Main.  `MaxUpdates`, `MaxKeys`,
`MaxNumber` of `Trade` and `Items`, `MaxQueue`, `MaxRows`, `MaxLoad`, `MaxGifts`, `MaxTangle`,
`MaxDead`,
`MaxOnline`, `MaxContribution`, `MaxTotal`, `MaxRequests`, `MaxClans` and `MaxJoined` (how
many observers staff may add: dead ones could pile up) only bound the models; the other
constants are limits of the program, made small.  In `rooms`, `rooms_membership`, `social` and `parties` a step into a state outside of `Bounded` is checked, but
what follows such a state is not explored; a session that was removed in its room's only vote is
such a state, and the proofs have no such bound.  With
one party per clan a session cannot be a member of two, which the code allows.  With two
accounts no list of `Social` outgrows its limit.

Other behaviours that the models have, because the code has them, and that no property
rules out (each was met as a counterexample to a stronger property, or while reading):

* `Connections`: a session closed by an earlier packet of the same read may still
  authorise itself.  The next login of the account calls `closeSocket` on it, which
  removes nothing because the socket is closed already: the registry then has two
  sessions of one account, one of them dead.
* `Persistence`: incremental callbacks run first (MainScheduler.cpp:79), so a column that
  was set before a snapshot is written after it and the older value stays.  A batch that
  the scheduler has taken may be run after `persistFor` wrote younger values, and a login
  may read before it.
* `Trade`: offers change after the partner has locked, and locks and offers survive from
  one trade to the next, so an exchange need not be what the partner saw when it locked.
  The result of `deleteItems` is ignored (TradeFinalizeHandler.h:89): an item that was
  offered and then deleted or used is given to the partner all the same, so one item may
  be in two places (hence the condition of `ExchangeExact`).
* `Connections`: `CloseDeregisters` is about closes, so it does not rule this out.
* `Rooms`: a member of a party that sits in a normal room and leaves, is removed, or goes to
  a clan match keeps its entry in the room without the room's number, and may then enter
  another room or the same one again (`strayed` of `OneRoomPerSession`).  A session that was
  removed, by `/ban` (Ban.h:80, which leaves the socket open) or by a close with packets left
  in the buffer, creates and enters rooms all the same, and nothing takes it out of them
  before its object goes (`kept` of `RemovalLeavesNoGhost`).  The target of a votekick that leaves while nobody can take over as host leaves
  an entry with a dead weak pointer behind, possibly as the first one; `resetVotekick`
  (Room.cpp:970) clears the flag of the match while others still play it; the check for a
  switch of state inside a match reads the state after the switch
  (PlayerStateHandler.h:24, 51); with no number left rooms are made under number 0, which
  also means "no room" (RoomCreationHandler.h:28, 61); a host alone in the match
  counts itself among the players in the match, finds no successor, and the room is closed,
  where a comment (Room.cpp:363) expects the room to stay.
* `Cast`: while Main waits up to 10 s for Cast and Cast up to 15 s for Main, both do
  nothing else; Main gives up first and its request is applied late.  When Main gives an
  id out again before Cast has noticed the end of the old connection, the newcomer is not
  registered until its next ping, its request to join may be taken as one to leave, and
  the end of the old connection removes it (`shared` leaves these ids out).  A packet that
  was read before its connection was closed can enter a room after `removeSession` has run:
  the slot of the id stays set, and the next holder's request to join is taken as one to
  leave (`strays` leaves this id out until then).  The request to
  close a connection whose identification failed carries Cast's own id, so Main closes
  whichever player has that number.
* `Items`: deleting or replacing a worn item does not lower the counter of worn items.  A
  crash between the row that goes and the rows that come loses a box together with its
  prizes.  An item replaced while it is worn keeps its place in the row only
  (`replaceItemResetEnergy`), so the next login may wear a set with one of its parts
  (`drifted`).
* `Social`: `Friendlist` and `BlockedPlayers` have no key, so equal rows pile up and count
  against the limits; a block is written and announced although the list is full
  (`maxFriends`, 59, where the message says 30); two mails of one second are deleted
  together in the database and one by one in memory, and opening a gift deletes the gifts
  of its second; requests held back during a match are lost by a logout.  Any id may be accepted as a friend
  without a request: the player becomes its own friend, or that of one who blocked it (so
  `BlocksHonoured` says nothing of friendships), and an id of nobody stays in the list until
  the next login, which joins the rows with `Users`.  The process may die between the item of
  an opened gift and the deletion of the gift, which then opens again (`torn` of
  `GiftsOpenedOnce`).
* `Parties`: a party of one is dissolved by its return; a room that is closed for want of a
  host leaves both parties in a match that is over; a party in a match may challenge
  another, and is moved to the new room before `addClanMatch` refuses; a leader may make
  the party smaller than it is, and the return then loses members; a player may create or
  join a party while in another and stays listed in both; a dead entry of either party may
  keep its leader from leaving, and the error then dissolves both parties (hence the
  condition of `ReturnKeepsParties` on both sides, which an earlier form had on each alone:
  the run does not reach the difference, the attempt to prove it did); the target of a challenge is used before it is compared with null
  (OtherClanJoinHandler.h).
* `Clans`: "All your clan stats have been reset" (LeaveClan.h) holds until the next match
  of the session, or a snapshot that waits, stores the old numbers again; a kicked member
  plays on for the clan until it logs in again.
* `Accounts`: Main compares the key with the row only (AuthorizationHandler.h:88), and the
  row has 0 after every reset, refusal and lack of entropy: a client that shows 0 comes in
  as long as the minute of the last login lasts, though AuthService.cpp:248 says that Main
  "won't accept it".  So `KeyAdmitsOnce` is about the keys that logins make up, and
  `SuspendedKeptOut` rests on the minute and not on the key.  A comment of Auth (AuthUtils.h:19) says that its lock also disconnects the
  player; but a session of Auth never gets an account id (AuthChannelsHandler.h:30,
  Session.h:52), so Main looks for nobody, and a session that is online stays, with the
  grade that it remembers.  An authorisation that fails takes the key of a newer login as
  well, since Main resets whatever key is there; the answers of the statements that store
  keys are ignored.  Online `/mute` and `/ban` try the row with the grade of a moderator, so
  a moderator is refused online and not offline, and `/ban` removes the session first.  The
  limits on votekicks and on rooms ask for no grade when the target is offline.  A limit
  of a session ends with the session and not with its time.

## 4. Fairness

Safety properties assume none.  `connections_live` assumes that the asio thread runs every
handler that is ready (one `io_context.run()` that polls all of them) and that the last
reference to a closed session, which the anti-cheat thread may hold for a while, is
dropped.  `persistence` assumes for its liveness property that the scheduler's thread wakes
up again and again (a `wait_for` with a timeout), that a thread with a batch goes on, and
strong fairness for its acquisition of the database's mutex: other threads take and release
it infinitely often, and a mutex does not starve one thread for ever.  Players owe nothing:
no other module has a fairness condition.

## 5. Proofs

`Connections_proofs` proves for every number of sessions, accounts and ids:

* `TypeCorrect` and `PoolCorrect`, from the invariant `TypeOK /\ PoolPartition`.  The
  second is inductive because an id is only pushed when it is in the used set
  (`ReleaseKeepsPartition`) and only popped from the stack (`TakeKeepsPartition`).
* `RegistryCorrect`: map and vector agree.  It needs `UnusedIsIdle`: an object that is not
  in use is in neither (otherwise `Accept` would change the id under which a session is
  registered), which in turn needs that `Destroy` waits for the registry.  The step that
  matters is a close (`CloseKeepsRegistry`): removal drops from the vector *every* holder
  of the id, so that the map may drop the key.
* `CloseDeregistersCorrect`, an action property, from the same invariant.

`Persistence_proofs` proves for any accounts, columns and number of updates:

* `TypeCorrect`, which includes that the database's mutex has one holder.
* `WriteBehindCorrect`: `Spec` implies `WriteBehind!Spec` under the mapping of
  `Persistence`.  Submissions, runs, failures and the end of the process map to steps of
  the same kind and everything else to stuttering.  The invariant `QueueInv` says that an
  update waits in one place only and that the entries of an account that stays are ordered:
  keys grow with the updates in the queue and in each batch (`QueueOrdered`, `KeysBelow`),
  what a batch holds is older than what the queue holds (`SteadyOrder`), every stamp that
  waits was submitted (`StampsQueued`), and a thread without a batch holds nothing
  (`IdleIsEmpty`).  The keys start again at 0 with every batch, which is why order across
  batches needs a part of its own.  That the next entry to run is one with the least key
  (`NextEntryIsLeast`) uses the well-foundedness of the naturals.
* `ColumnsSettle`: the invariant `ColumnInv` says that the newest value that waits for a
  column, or the database's when none waits, is the session's.

`AccountsAndTrade_proofs` proves of `Accounts`, for any accounts, kinds of limits, keys and
limits of attempts:

* `TypeCorrect`.
* `KeysCorrect`, from `KeyInv`: a key in a row has let nobody in and is in one row only
  (`KeyRows`), keys not made up yet have let nobody in (`KeyCounts`), and the key that an
  authorisation has read has let nobody in and, once it is reset, is in no row any more
  (`KeyRead`).  The last part is what the order of reset and comparison is for.
* `SuspensionsHold` and `LimitsHold`, from `PunishInv`, which adds to the two properties
  that an account whose login is less than a minute old read no suspension there
  (`MinutesClean`): the time, which every authorisation compares, is what carries it, since
  the key may be 0.

`ClansAndParties_proofs` proves of `Clans`, for any finite set of accounts:

* `TypeCorrect`, `CoherenceCorrect` and the action property `FreshCorrect`.  The invariant is
  `TypeOK /\ ClansCoherent /\ IdsGiven`; `IdsGiven` says that the next id is above every id
  that a clan, a session or a waiting write has, which a restart keeps because it empties
  sessions and writes before it sets the next id back.
* `ContributionCorrect`, from a second invariant `CInv`.  `ContributionCovered` is not
  inductive: a row that waits will raise what a member has stored, and the clan was given
  its share by an earlier write.  So `Credit(c)` is what an account has brought to the clan
  by the writes that ran, the session's contribution without the matches whose total still
  waits; `Credited` bounds the sum of the credits by the total, and `InStep` says that the
  writes of an account alternate, end with the session's contribution (`WritesInStep`), go
  to the clan that the account has (`InItsClan`), and that the row is not ahead
  (`NotAhead`).  Only a total that runs raises a credit, by the 1 that it adds to the clan.
  The sums of `MapThenSumSet` choose their members in an order of their own: `SumsExist`,
  `SumsAreUnique` and `TotalSplits` show that any member may be taken out first, each by a
  smallest counterexample (`SmallestSubset`), and `TotalGrows` and `TotalOneMore` compare
  sums.

`Rooms_proofs` proves of `NormalRooms`, for any sessions, clans and limits, of `NumberedSpec` (no
room is made under number 0): `TypeCorrect`, `NumbersCorrect` and `OneRoomCorrect`.  Since
handlers are operators on worlds, so is the invariant: `Good(w, top, astray)` says that
numbers are free once, used or still to come (`NumbersGood`) and that sessions and rooms agree
on who is where, but for a session whose number a party took (`PlacesGood`), and there is one
lemma per handler saying that it maps good worlds to good worlds.  Nothing in it depends on
the registry, so requests of removed sessions need no case of their own; what parties do to a
number either leaves it, or makes the session stray.  The lemmas below them are about
`SwapOut`, `SwapWithFirst` and `GoneFrom` on lists without repetitions.  Two action
properties follow from the same invariant:

* `HostCorrect`: in a room whose entries are all alive the count of living entries is the
  position (`CountIsPosition`), so the index that the host migration finds is the one of a
  player in the match (`BestAmongLive`).
* `GhostCorrect`: every step but an end is quiet: entries die by an end only (`QuietBut` says
  which session may leave its room by a step and that dead entries do not grow).  What is
  left is that a removed session is a player only as stray or kept (`Removed`, an invariant
  with the life of the sessions, `Lives`): the removal takes it out of the list, host or not
  and in the match or not, unless the room was voting about it or its party was left instead,
  and afterwards it can become a player by a request of its own only.

`AccountsAndTrade_proofs` proves of `Trade`, for any players, items, space and size of an
offer: `TradeTypeCorrect`, `MovesCorrect` and `ExchangeCorrect`.  The invariant adds to the types that the numbers of
an inventory are bounded (so that a greatest one exists), that it keeps to its space and
that nobody is its own partner.  The exchange is followed through its four parts: deleting,
numbering from the greatest number on, joining, paying.

`Cast_proofs` proves for any connections, accounts, rooms and ids: `TypeCorrect` and
`SlotsCorrect`.  The invariant has five parts besides the types: a connection asks once, and
is identified before it uses rooms (`Handshake`); an id that was never shared has one
connection (`Alone`), which is registered while it is open (`InRegistry`), so that
`closeSocket` does take it out of its room; lists have no two live entries of one id and only identified connections,
and rooms that an id names exist (`RoomsGood`); and the player of an id that has a room, into
which no closed connection put it, is open, in that room, and knows it (`Placed`).  The lemmas on lists follow `RemoveAt` and the
filter of `Room::addPlayer` entry by entry.

`Items_proofs` proves for any ids, types, characters, lists and bounds: `TypeCorrect`,
`MirrorCorrect`, `WornCountedCorrect` and `SetsCorrect`.  None of the last three is
inductive, because the rows are behind the session by the writes that wait.  The invariant
`IInv` therefore says that a *run* of these writes exists (`History`): the rows after the
first k writes, for each k, where the rows are good for a login at every step
(`GoodRows`: unique numbers, no set with its parts; a crash stops anywhere) and at its end
say the same as the session (`Linked`: one row per item, with its id, amount and place).  A
request is taken apart into *moves* of one write each (`Move`: an item comes, goes, counts
another amount, is replaced, goes on or comes off); `MoveKeeps` says that a write does to
the rows what its move does to the session, so a request extends the run by its writes
(`Chain`, `RequestKeeps`).  Requests of several moves are followed one by one: the items of
a list (`AddsReached`), the parts that come off before a set goes on (`PartsOffFrees`,
`PutOnComes`), the inventory that is cleared.  `Persist` drops the first step of the run, a
logout ends at its last, a crash at its first, and a login numbers good rows anew and
starts from them (`RenumberedFacts`, `LoginKeeps`).  That the lists are run through to
their end is by the least step that fails (`LeastNatural`), since induction principles with
an operator parameter are out of reach.

`Social_proofs` proves for any finite set of accounts, any seconds and any limits:
`TypesAlways`, `FriendsAlways`, `MailsAlways`, `GiftsAlways` and the action property
`BlocksAlways`.  What the writes that wait will make of the rows is a recursive function of
the queue (`Written`), and so is the part of a list that is in a set (`Picked`); the lemmas
below the invariant say what both do to a sequence that grows at its end, loses its first
entry or is filtered.  `SocialInv` has four parts.  `Shape` types the state and says that an
offline account has nothing in memory.  `FriendsInv` makes the four copies of a friendship
agree, oneself and ids of nobody included: rows are mutual (`RowsMutual`), a list names nobody without rows (`ListsBacked`), who
is shown as online shows the other as online (`SeenMutually`), and unless a list was cut at
its limit it has everybody of the rows and shows who else is there (`ListsWhole`).
`MailsInv` says that box and settled rows agree on every kind and second of which no single
mail was deleted, and that the items won and the gifts unopened are at most the gifts given,
in the settled rows *and* in the rows as they are, because a crash leaves the latter, up to
one more for each death between the two writes of an opening (`torn`).  An opening queues
its item first (GiftHandlers.h:44) and then the deletion of the gift (50), each of them a statement
of its own (the connection is on autocommit, MainDatabaseManager.cpp:80), so the rows as they
are may count one item too many, exactly when the deletion is the next write (`Opening`).  `BlocksInv` says where a
block that a player was told of is found: in the list of the session, backed by the rows to
come, or in the rows of a player who is offline, and that lists and queues
are within their limits.

`ClansAndParties_proofs` proves of `Parties`, for any sessions, clans, sizes and limits:
`PartiesTypes`, `PartyMembershipAlways` and the action properties `DepartureAlways` and
`ReturnAlways`.  As in `Rooms_proofs` the invariant is one of
worlds: `Good(w)` says that a world is typed (`Worlds`), that whoever has a party number is a
live member of that party of its clan, that a live member is of the party's clan, that a
party named in a match exists and has that match (`Met`), and that no party is without an
entry or lists anybody alive twice (`Filled`).  There is one lemma per handler and one per action.  `Met` has a
parameter, the clan rooms whose match it leaves out: between the two halves of `SetMatch`
and of `RemoveMatch` one party is in the match and the other not yet, or not any more.
`Filled` is left out where a party is empty between its last member's leave and its removal.
The folds over lists of members (`Enter`, `Followed`, `Headed`) are recursive functions:
`IteratesExist` makes such a function from one step, and `Reaches`-lemmas carry `Good` along
it, by the least index at which it fails.  That a leave takes out the entry of the leaver
and no other's live entry is about `WithoutMember`: a leader is swapped with its successor
first, and whoever leaves with the last.

* `DepartureAlways`: leaving only makes parties *smaller* (`Shrunk`: every entry was there
  before), and that is an order, so the parts of a disconnection compose.  A session that
  is live in its own party alone, with nobody dead in it (`Alone`), stays so until it leaves
  that party, by whichever of match, room and party it is in, and is then live nowhere
  (`Absent`): of somebody who is live nowhere no entry dies.
* `ReturnAlways`: a step of the return of one party changes nothing of the other party
  (`Aside`), so the two returns compose.  In the party that returns, a member that leaves
  and joins again is at the list's end, with as many members as before, the same names and
  the same first entry (`AsItWas`); `Ret` carries this and the soundness of the party over
  one member after the other (`FollowedIn` and `HeadedIn` are the lemmas on such
  folds over the list of the beginning), up to the leader, who goes last and is put first again.  Soundness is
  what makes each leave end in the party and no error dissolve it.  That both
  parties are in the match to the end, for `RemoveMatch` to take them out of it, is part of
  what is carried along (`Same`).

The assumptions are those of the modules: at least one id, values such as "no account" or
"offline" that are none, natural bounds (`MaxNumber` of
`Parties` among them, as in `Rooms`), finitely many accounts of `Clans` and `Social` and
finitely many types and characters of `Items`, whose match items start with a stock of at least 1
(`getItemStocks(itemId).value_or(1)`, ItemId.h:18), and for `Trade`
that the fees of a whole offer are below half of the width of MicroPoints (`FeesAssumption`;
2^31 in the code).

Only model-checked: liveness under fairness (`ClosedIsReclaimed` of `connections_live` and
`EventuallyWritten` of `persistence`), which this prover cannot treat.

## 6. Not modelled

* Connections: framing and encryption, which addresses Auth announces (and their eviction,
  AuthMainCallbacks.h:85), the HTTP thread's calls and the iteration of the registry while
  it changes (both races on containers).
* Persistence: what SQL does; failures inside of one transaction, which roll back.
* Trade: sealing of items (a message to clients only) and the refusal of items by the
  database; equipped items and coupons, which enter the space as well.
* Rooms: how parties and clan rooms behave while a member sits in a normal room (of them
  `NormalRooms` has what they do to the session), requests before the authorisation, passwords, kick lists and invitations (a join may always
  succeed), grades (any session may use what staff may), the AI mode, score and round
  events, failing requests to Cast at the start of a match, kicks from the HTTP and the
  anti-cheat threads, wrap-around of 16-bit numbers; numbers of normal rooms that grow into
  those of the clan rooms.
* Cast: what is relayed in a match, observers, the announced addresses.
* Items: prices, odds, coupons, prolongation, and the durability of items.
* Social: texts, read marks, the staff's exemption from blocks, mutes.
* Parties: ready marks, observers, team switches and votekicks in clan rooms (they are
  those of `Rooms`), strangers that enter a clan room by the normal join, members that sit
  in a normal room meanwhile, a host's kick of a member.
* Clans: icons, the other clan columns, `updateClanStats`, the clans of ids up to 8.
* Accounts: mails of alert, nicknames, the list of servers, several Mains that share a
  database, what the website writes by itself, the socket of a removed session, which stays
  open until its next request, and keys that a client guesses (32 random bits).
* Events, the anti-cheat thread, the HTTP requests that only announce and the other
  administration commands: single statements or heuristics; see the components of
  `PROJECT.json`.

## 7. Plan

1. Larger instances: two parties per clan, three accounts in `Social`, room settings,
   passwords and kick lists in `Rooms`.
2. Proofs: every safety and action property of the runs is proved; what larger instances
   add would have to be proved again, with two parties per clan the case of a session that
   is listed in both first.
