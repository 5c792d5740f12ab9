------------------------------- MODULE Trade -------------------------------
(***************************************************************************)
(* The trade between two friends on Main: the trade state of each session  *)
(* (TradeInfo), its handlers, and the two inventories they change.  All    *)
(* handlers run on the asio thread, one request at a time; what interleaves *)
(* are the requests of the players, in the trade and outside of it.        *)
(*                                                                         *)
(* An inventory maps item numbers to items.  A number is what requests,    *)
(* offers and deletions name; an offer keeps the item that the number had  *)
(* when it was added.  MicroPoints are counted in fees (5000 each).        *)
(* Nothing is equipped and no coupon is owned, so the space that is used is *)
(* the number of items in the inventory.                                   *)
(***************************************************************************)
EXTENDS Integers, Sequences, FiniteSets

CONSTANTS Players,
          Items,          \* items, each with an identity of its own
          NoPlayer,       \* account id 0
          Space,          \* accountInfo.inventorySpace
          MaxOffer,       \* 10 in handleAddTradeItem
          MpWrap,         \* 2^32, in fees: MicroPoints are a uint32
          MaxNumber       \* bound: item numbers that GainItem may reach

ASSUME SpaceAssumption == Space \in Nat
ASSUME MaxOfferAssumption == MaxOffer \in Nat
ASSUME MpWrapAssumption == MpWrap \in Nat /\ MpWrap % 2 = 0 /\ MpWrap > 1
\* The fees of a whole offer are far below 2^31.
ASSUME FeesAssumption == MaxOffer + 1 <= MpWrap \div 2
ASSUME NoPlayerAssumption == NoPlayer \notin Players

VARIABLES inv,         \* m_itemsByItemNumber
          mp,          \* accountInfo.microPoints
          offer,       \* TradeInfo: m_tradedItems
          locked,      \* TradeInfo: m_hasPlayerLocked
          partner,     \* TradeInfo: m_currentlyTradingWithAccountId
          inLobby,     \* playerState is STATE_LOBBY and the player has no room
          online,      \* getSessionByAccountId finds a session
          unborn       \* items that no player has received yet

tradeVars == <<inv, mp, offer, locked, partner, inLobby, online, unborn>>

MaxMp == MpWrap \div 2 - 1
Offered == [num : Nat, item : Items]
Owned(i) == {i[n] : n \in DOMAIN i}

\* No exchange gets an inventory over its space, where the unsigned comparison
\* of hasEnoughInventorySpace would let it take everything.
TradeTypeOK ==
  /\ \A p \in Players : DOMAIN inv[p] \subseteq Nat \ {0} /\ Owned(inv[p]) \subseteq Items
  /\ \A p \in Players : Cardinality(DOMAIN inv[p]) <= Space
  /\ mp \in [Players -> 0 .. MaxMp]
  /\ offer \in [Players -> Seq(Offered)]
  /\ \A p \in Players : Len(offer[p]) <= MaxOffer + 1
  /\ locked \in [Players -> BOOLEAN]
  /\ partner \in [Players -> Players \cup {NoPlayer}]
  /\ inLobby \in [Players -> BOOLEAN]
  /\ online \in [Players -> BOOLEAN]
  /\ unborn \subseteq Items

-----------------------------------------------------------------------------
(* The inventory.                                                          *)

\* getLatestItemNumber: the greatest number there is, 0 for an empty inventory.
Latest(i) == CHOOSE m \in DOMAIN i \cup {0} : \A n \in DOMAIN i : n <= m

\* hasEnoughInventorySpace subtracts and compares as unsigned: an inventory
\* over its space has room for anything.
Fits(used, n) == used > Space \/ Space - used >= n
EnoughSpace(i, n) == Fits(Cardinality(DOMAIN i), n)

Without(i, nums) == [n \in DOMAIN i \ nums |-> i[n]]

\* deleteItems stops at the first item number that is not there.
Deleted(i, o) ==
  {o[k].num : k \in {k \in DOMAIN o : \A j \in 1 .. k : o[j].num \in DOMAIN i}}
AfterDelete(i, o) == Without(i, Deleted(i, o))

\* spawnItems: every item gets the number after the greatest one; addItem
\* refuses those there is no space for.
Accepted(i, o) ==
  Cardinality({k \in DOMAIN o :
                 \A j \in 1 .. k : Fits(Cardinality(DOMAIN i) + j - 1, 1)})

\* Mutant: the latest number is read once, before the items are added.
AfterSpawnOneNumber(i, o) ==
  IF Accepted(i, o) = 0 THEN i
  ELSE [n \in DOMAIN i \cup {Latest(i) + 1} |->
          IF n \in DOMAIN i THEN i[n] ELSE o[Accepted(i, o)].item]

AfterSpawn(i, o) ==
  LET last == Latest(i)
  IN  [n \in DOMAIN i \cup (last + 1 .. last + Accepted(i, o)) |->
         IF n \in DOMAIN i THEN i[n] ELSE o[n - last].item]

\* Mutant: no check of the new value.
PayUnchecked(m, fees) == (m - fees) % MpWrap

\* setAccountMicroPoints keeps the old value when it is given more than
\* 0x7FFFFFFF, which a difference below 0 always is.
Pay(m, fees) ==
  LET new == (m - fees) % MpWrap IN IF new > MaxMp THEN m ELSE new

-----------------------------------------------------------------------------
TradeInit ==
  /\ inv = [p \in Players |-> <<>>]
  /\ mp = [p \in Players |-> MaxMp]
  /\ offer = [p \in Players |-> <<>>]
  /\ locked = [p \in Players |-> FALSE]
  /\ partner = [p \in Players |-> NoPlayer]
  /\ inLobby = [p \in Players |-> TRUE]
  /\ online = [p \in Players |-> TRUE]
  /\ unborn = Items

HasPartner(p) == partner[p] # NoPlayer /\ online[partner[p]]

\* resetTradeInfo of the sessions of a set of players.
Reset(ps) ==
  /\ offer' = [p \in Players |-> IF p \in ps THEN <<>> ELSE offer[p]]
  /\ locked' = [p \in Players |-> locked[p] /\ p \notin ps]
  /\ partner' = [p \in Players |-> IF p \in ps THEN NoPlayer ELSE partner[p]]
  /\ inLobby' = [p \in Players |-> inLobby[p] /\ p \notin ps]

-----------------------------------------------------------------------------
(* The handlers of the trade.                                              *)

\* handleTradeInitialization by p: only the target has to be free, and what
\* either of them has offered or locked before stays.
Initiate(p, q) ==
  /\ online[p] /\ online[q] /\ inLobby[q]
  /\ inLobby' = [inLobby EXCEPT ![p] = FALSE, ![q] = FALSE]
  /\ partner' = [partner EXCEPT ![p] = q, ![q] = p]
  /\ UNCHANGED <<inv, mp, offer, locked, online, unborn>>

\* TRADE_DECLINED: the target is told by the message that sets its partner.
Decline(p, q) ==
  /\ online[p] /\ online[q]
  /\ partner' = [partner EXCEPT ![q] = p]
  /\ UNCHANGED <<inv, mp, offer, locked, inLobby, online, unborn>>

AddItem(p, n) ==
  /\ online[p] /\ HasPartner(p)
  /\ n \in DOMAIN inv[p]
  /\ EnoughSpace(inv[partner[p]], Len(offer[p]) + 1)
  /\ Len(offer[p]) <= MaxOffer
  /\ mp[p] >= Len(offer[p]) + 1
  /\ \A k \in DOMAIN offer[p] : offer[p][k].num # n
  /\ offer' = [offer EXCEPT ![p] = Append(@, [num |-> n, item |-> inv[p][n]])]
  /\ UNCHANGED <<inv, mp, locked, partner, inLobby, online, unborn>>

RemoveItem(p, k) ==
  /\ online[p] /\ HasPartner(p)
  /\ k \in DOMAIN offer[p] /\ offer[p][k].num \in DOMAIN inv[p]
  /\ offer' = [offer EXCEPT ![p] =
                 SubSeq(@, 1, k - 1) \o SubSeq(@, k + 1, Len(@))]
  /\ UNCHANGED <<inv, mp, locked, partner, inLobby, online, unborn>>

\* handleTradeFinalization before the other player has locked.
LockTrade(p) ==
  /\ online[p] /\ HasPartner(p)
  /\ ~locked[partner[p]] /\ ~locked[p]
  /\ locked' = [locked EXCEPT ![p] = TRUE]
  /\ UNCHANGED <<inv, mp, offer, partner, inLobby, online, unborn>>

\* handleTradeFinalization by p once its partner q has locked.
HasSpaces(p, q) ==
  EnoughSpace(inv[q], Len(offer[p])) /\ EnoughSpace(inv[p], Len(offer[q]))

FinalizeRefused(p, q) ==
  /\ online[p] /\ HasPartner(p) /\ q = partner[p] /\ locked[q]
  /\ ~HasSpaces(p, q)
  /\ inLobby' = [inLobby EXCEPT ![p] = FALSE, ![q] = FALSE]
  /\ UNCHANGED <<inv, mp, offer, locked, partner, online, unborn>>

\* Mutant: the partner need not have locked.
MayExchangeUnlocked(p, q) ==
  online[p] /\ HasPartner(p) /\ q = partner[p] /\ HasSpaces(p, q)

MayExchange(p, q) ==
  online[p] /\ HasPartner(p) /\ q = partner[p] /\ locked[q] /\ HasSpaces(p, q)

Exchange(p, q) ==
  /\ MayExchange(p, q)
  /\ mp' = [mp EXCEPT ![p] = Pay(@, Len(offer[p])), ![q] = Pay(@, Len(offer[q]))]
  /\ inv' = [inv EXCEPT
       ![p] = AfterSpawn(AfterDelete(@, offer[p]), offer[q]),
       ![q] = AfterSpawn(AfterDelete(@, offer[q]), offer[p])]
  /\ Reset({p, q})
  /\ UNCHANGED <<online, unborn>>

Cancel(p) ==
  /\ online[p] /\ HasPartner(p)
  /\ Reset({p, partner[p]})
  /\ UNCHANGED <<inv, mp, online, unborn>>

\* Any request of the trade (add, remove, lock, cancel, finalise) whose
\* partner is not online.
PartnerGone(p) ==
  /\ online[p] /\ ~HasPartner(p)
  /\ Reset({p})
  /\ UNCHANGED <<inv, mp, online, unborn>>

-----------------------------------------------------------------------------
(* Requests outside of the trade: no handler looks at the trade.           *)

\* handlePlayerState, and rooms entered and left.
SetLobby(p, b) ==
  /\ online[p]
  /\ inLobby' = [inLobby EXCEPT ![p] = b]
  /\ UNCHANGED <<inv, mp, offer, locked, partner, online, unborn>>

\* handleItemDelete, refundItem, and uses that consume an item.
LoseItem(p, n) ==
  /\ online[p] /\ n \in DOMAIN inv[p]
  /\ inv' = [inv EXCEPT ![p] = Without(@, {n})]
  /\ UNCHANGED <<mp, offer, locked, partner, inLobby, online, unborn>>

\* A new item (a purchase, a prize, a gift) under the number after the greatest.
GainItem(p, x) ==
  /\ online[p] /\ x \in unborn
  /\ EnoughSpace(inv[p], 1)
  /\ Latest(inv[p]) < MaxNumber
  /\ inv' = [inv EXCEPT ![p] = AfterSpawn(@, <<[num |-> 0, item |-> x]>>)]
  /\ unborn' = unborn \ {x}
  /\ UNCHANGED <<mp, offer, locked, partner, inLobby, online>>

SpendMp(p) ==
  /\ online[p] /\ mp[p] > 0
  /\ mp' = [mp EXCEPT ![p] = @ - 1]
  /\ UNCHANGED <<inv, offer, locked, partner, inLobby, online, unborn>>

\* removeSession leaves the partner's trade as it is; the trade of the session
\* itself goes with the session.
Logout(p) ==
  /\ online[p]
  /\ online' = [online EXCEPT ![p] = FALSE]
  /\ Reset({p})
  /\ UNCHANGED <<inv, mp, unborn>>

Login(p) ==
  /\ ~online[p]
  /\ online' = [online EXCEPT ![p] = TRUE]
  /\ UNCHANGED <<inv, mp, offer, locked, partner, inLobby, unborn>>

-----------------------------------------------------------------------------
Numbers == UNION {DOMAIN inv[p] : p \in Players}

TradeNext ==
  \E p \in Players :
    \/ \E q \in Players \ {p} : Initiate(p, q)
    \/ \E q \in Players \ {p} : Decline(p, q)
    \/ \E n \in Numbers : AddItem(p, n)
    \/ \E k \in 1 .. MaxOffer + 1 : RemoveItem(p, k)
    \/ LockTrade(p)
    \/ \E q \in Players : FinalizeRefused(p, q)
    \/ \E q \in Players : Exchange(p, q)
    \/ Cancel(p)
    \/ PartnerGone(p)
    \/ \E b \in BOOLEAN : SetLobby(p, b)
    \/ \E n \in Numbers : LoseItem(p, n)
    \/ \E x \in Items : GainItem(p, x)
    \/ SpendMp(p)
    \/ Logout(p)
    \/ Login(p)

TradeSpec == TradeInit /\ [][TradeNext]_tradeVars

-----------------------------------------------------------------------------
(* Properties.                                                             *)

OfferedBy(p) == {offer[p][k].item : k \in DOMAIN offer[p]}
UpToDate(p) ==
  \A k \in DOMAIN offer[p] :
    offer[p][k].num \in DOMAIN inv[p] /\ inv[p][offer[p][k].num] = offer[p][k].item

\* An item gets to another player only by a finalisation: the receiver names
\* the owner as its partner (or the other way round), the one that does not
\* finalise has locked, and the item is in the owner's offer.
MovesOnlyByTrade ==
  [][\A p \in Players : \A x \in Owned(inv'[p]) \ (Owned(inv[p]) \cup unborn) :
       \E q \in Players \ {p} :
         /\ x \in OfferedBy(q)
         /\ \/ partner[p] = q /\ locked[q]
            \/ partner[q] = p /\ locked[p]]_tradeVars

\* Both offers name what the inventories hold, and no item is there twice.
Exchangeable(p, q) ==
  /\ UpToDate(p) /\ UpToDate(q)
  /\ Cardinality(Owned(inv[p]) \cup Owned(inv[q])) =
       Cardinality(DOMAIN inv[p]) + Cardinality(DOMAIN inv[q])

\* An exchange delivers every offered item: item numbers are given out one by
\* one, none overwrites another, and no item is refused for lack of space.
\* When both offers still name what the inventories hold, it swaps exactly the
\* offered items: nothing is kept, lost or made twice; and the fees, taken from
\* unsigned MicroPoints that may have been spent since the offer was made,
\* never give a player MicroPoints.
ExchangeExact ==
  [][\A p, q \in Players :
       Exchange(p, q) =>
         /\ OfferedBy(q) \subseteq Owned(inv'[p])
         /\ OfferedBy(p) \subseteq Owned(inv'[q])
         /\ Exchangeable(p, q) =>
              /\ Owned(inv'[p]) = (Owned(inv[p]) \ OfferedBy(p)) \cup OfferedBy(q)
              /\ Owned(inv'[q]) = (Owned(inv[q]) \ OfferedBy(q)) \cup OfferedBy(p)
              /\ mp'[p] <= mp[p] /\ mp'[q] <= mp[q]]_tradeVars
=============================================================================
