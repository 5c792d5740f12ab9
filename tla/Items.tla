------------------------------- MODULE Items -------------------------------
(***************************************************************************)
(* The items of one account: the inventory of its session on Main (what    *)
(* lies in it, what each character wears), the database writes that wait   *)
(* in the scheduler, and the rows of UserItems they change.  The handlers  *)
(* run on the asio thread one request at a time; the writes are run later, *)
(* in the order they were queued (Persistence says when that order holds), *)
(* and the end of a session runs those that are left.                      *)
(*                                                                         *)
(* An item has an id and an amount: the stock of a match item, the energy  *)
(* of anything else.  Who cannot pay for a request changes nothing, so the *)
(* currency is left out; so are coupons, and item ids of UserItems that    *)
(* the constant database does not know.                                    *)
(***************************************************************************)
EXTENDS Integers, Sequences, FiniteSets, SequencesExt

CONSTANTS Ids, Types, Chars,
          TypeOf,       \* EquippedItem::type of an item id
          NoType,       \* the types that no character has a slot for
          SetType,      \* Common::Enums::SET
          SetParts,     \* getPartTypesWhereSetItemInfoTypeNotNull of the sets
          Stocked,      \* ids of match items, used up one by one
          Boxes,        \* ids with an entry in CdbItemPackageInfo
          Stock,        \* the stock that a new match item has
          MaxEnergy,    \* bound: energy that AddEnergy may reach
          Space,        \* accountInfo.inventorySpace
          MaxNumber,    \* bound: item numbers
          MaxQueue,     \* bound: database writes that wait
          NoChar,       \* IsEquipped = 0
          Lists         \* bound: the lists of ids that are bought or won

ASSUME TypeAssumption == TypeOf \in [Ids -> Types \cup {NoType}] /\ SetType \in Types \ {NoType}
ASSUME CharAssumption == NoChar \notin Chars
ASSUME PartsAssumption == SetParts \subseteq Types \ {SetType}
ASSUME KindsAssumption == Stocked \subseteq Ids /\ Boxes \subseteq Ids \ Stocked
ASSUME NumericAssumption == {Stock, MaxEnergy, Space, MaxNumber, MaxQueue} \subseteq Nat /\ Stock > 0
ASSUME FiniteAssumption == IsFiniteSet(Chars) /\ IsFiniteSet(Types)
ASSUME ListsAssumption == Lists \subseteq Seq(Ids)

VARIABLES items,      \* m_itemsByItemNumber
          worn,       \* m_equippedItemByCharacter; number 0: the slot is free
          total,      \* m_totalEquippedItems
          selected,   \* accountInfo.latestSelectedCharacter
          online,     \* the account has a session
          queue,      \* callbacks of addRepetitiveCallback, oldest first
          rows,       \* the account's rows of UserItems by rowid
          replaced,   \* history: numbers replaced while they were worn
          drifted     \* history: an item was replaced while it was worn

vars == <<items, worn, total, selected, online, queue, rows, replaced, drifted>>

Amount(id) == IF id \in Stocked THEN Stock ELSE 0
Amounts == 0 .. (IF Stock > MaxEnergy THEN Stock ELSE MaxEnergy)
Free == [num |-> 0]
AllFree == [c \in Chars |-> [t \in Types |-> Free]]
Item(id, n) == [id |-> id, n |-> n]
Wear(num, i) == [num |-> num, id |-> i.id, n |-> i.n]
Lay(w) == Item(w.id, w.n)

TypeOK ==
  /\ DOMAIN items \subseteq 1 .. MaxNumber
  /\ \A k \in DOMAIN items : items[k] \in [id : Ids, n : Amounts]
  /\ \A c \in Chars, t \in Types :
       \/ worn[c][t] = Free
       \/ /\ worn[c][t] \in [num : 1 .. MaxNumber, id : Ids, n : Amounts]
          /\ TypeOf[worn[c][t].id] = t
  /\ total \in Nat
  /\ selected \in Chars
  /\ online \in BOOLEAN
  /\ Len(queue) <= MaxQueue
  /\ \A k \in DOMAIN rows :
       rows[k] \in [num : 1 .. MaxNumber, id : Ids, n : Amounts, at : Chars \cup {NoChar}]
  /\ replaced \subseteq 1 .. MaxNumber
  /\ drifted \in BOOLEAN

-----------------------------------------------------------------------------
(* The database writes (MainDatabaseManager_Items.cpp).                    *)

AddRow(num, i) == [op |-> "addPlayerItem", num |-> num, item |-> i]
RemoveRow(num) == [op |-> "removePlayerItem", num |-> num]
ReplaceRow(num, id) == [op |-> "replaceItemResetEnergy", num |-> num, id |-> id]
AmountRow(num, n) == [op |-> "updateItemStock", num |-> num, n |-> n]
EquipRow(num, c) == [op |-> "equipItem", num |-> num, at |-> c]
UnequipRow(num) == [op |-> "unequipItem", num |-> num]
SwapRows(off, on, c) == [op |-> "swapItems", num |-> on, off |-> off, at |-> c]

HasRow(rs, num) == \E k \in DOMAIN rs : rs[k].num = num
\* UPDATE ... WHERE ItemNumber = num: these rows become those of new.
Updated(rs, num, new) == [k \in DOMAIN rs |-> IF rs[k].num = num THEN new[k] ELSE rs[k]]
Placed(rs, num, c) == Updated(rs, num, [k \in DOMAIN rs |-> [rs[k] EXCEPT !.at = c]])

\* The rows at these positions, in their order.
Kept(rs, S) ==
  [j \in 1 .. Cardinality(S) |->
     rs[CHOOSE k \in S : Cardinality({l \in S : l <= k}) = j]]

\* swapItems rolls back when one of the two rows is missing.
Applied(rs, w) ==
  CASE w.op = "addPlayerItem" ->
         Append(rs, [num |-> w.num, id |-> w.item.id, n |-> w.item.n, at |-> NoChar])
    [] w.op = "removePlayerItem" -> Kept(rs, {k \in DOMAIN rs : rs[k].num # w.num})
    [] w.op = "replaceItemResetEnergy" ->
         Updated(rs, w.num, [k \in DOMAIN rs |->
           [num |-> rs[k].num, id |-> w.id, n |-> 0, at |-> rs[k].at]])
    [] w.op = "updateItemStock" ->
         Updated(rs, w.num, [k \in DOMAIN rs |-> [rs[k] EXCEPT !.n = w.n]])
    [] w.op = "equipItem" -> Placed(rs, w.num, w.at)
    [] w.op = "unequipItem" -> Placed(rs, w.num, NoChar)
    [] w.op = "swapItems" ->
         IF HasRow(rs, w.num) /\ HasRow(rs, w.off)
         THEN Placed(Placed(rs, w.num, w.at), w.off, NoChar) ELSE rs

AllApplied(rs, ws) ==
  LET after[k \in 0 .. Len(ws)] == IF k = 0 THEN rs ELSE Applied(after[k - 1], ws[k])
  IN  after[Len(ws)]

\* Mutant: the first row gets the number 0.
RenumberedFromZero(rs) ==
  [k \in DOMAIN rs |->
     [num |-> k - 1, id |-> rs[k].id, n |-> rs[k].n,
      at |-> IF \E j \in 1 .. k - 1 : rs[j].at = rs[k].at /\ TypeOf[rs[j].id] = TypeOf[rs[k].id]
             THEN NoChar ELSE rs[k].at]]

\* getPlayerItems: the rows are numbered again from 1, and of several rows
\* that a character wears of one type all but the first are taken off.
Renumbered(rs) ==
  [k \in DOMAIN rs |->
     [num |-> k, id |-> rs[k].id, n |-> rs[k].n,
      at |-> IF \E j \in 1 .. k - 1 : rs[j].at = rs[k].at /\ TypeOf[rs[j].id] = TypeOf[rs[k].id]
             THEN NoChar ELSE rs[k].at]]

-----------------------------------------------------------------------------
(* The inventory.                                                          *)

Worn == {worn[c][t].num : c \in Chars, t \in Types} \ {0}
Numbers == DOMAIN items \cup Worn

\* findMaxItemNumber: both what lies there and what is worn.
Latest == CHOOSE m \in Numbers \cup {0} : \A k \in Numbers : k <= m

\* hasEnoughInventorySpace subtracts as unsigned.
EnoughSpace(n) ==
  LET used == total + Cardinality(DOMAIN items) IN used > Space \/ Space - used >= n

Without(f, S) == [k \in DOMAIN f \ S |-> f[k]]
With(f, num, i) == [k \in DOMAIN f \cup {num} |-> IF k = num THEN i ELSE f[k]]
Freed(w, num) ==
  [c \in Chars |-> [t \in Types |-> IF w[c][t].num = num THEN Free ELSE w[c][t]]]

\* The items of a list get the numbers after the latest one.
Spawned(ids, last) ==
  [k \in last + 1 .. last + Len(ids) |-> Item(ids[k - last], Amount(ids[k - last]))]
AddRows(ids, last) ==
  [k \in DOMAIN ids |-> AddRow(last + k, Item(ids[k], Amount(ids[k])))]
Both(f, g) == [k \in DOMAIN f \cup DOMAIN g |-> IF k \in DOMAIN g THEN g[k] ELSE f[k]]

\* The account has a session and the scheduler has room for n writes.
Ready(n) == online /\ Len(queue) + n <= MaxQueue
Queue(ws) == queue' = queue \o ws

Init ==
  /\ items = <<>>
  /\ worn = AllFree
  /\ total = 0
  /\ selected \in Chars
  /\ online = FALSE
  /\ queue = <<>>
  /\ rows = <<>>
  /\ replaced = {}
  /\ drifted = FALSE

Unmoved == UNCHANGED <<selected, online, rows>>

\* handleBoughtItem, handleCapsuleSpin (item by item), spawnItemCommand,
\* spawnUntradeableItemCommand and the gifts.
Receive(ids) ==
  /\ Ready(Len(ids))
  /\ EnoughSpace(Len(ids))
  /\ Latest + Len(ids) <= MaxNumber
  /\ items' = Both(items, Spawned(ids, Latest))
  /\ Queue(AddRows(ids, Latest))
  /\ UNCHANGED <<worn, total, replaced, drifted>> /\ Unmoved

\* deleteItemBasic takes the item out of the inventory or off a character,
\* and does not count the slot that becomes free.
Deleted(num) ==
  /\ items' = Without(items, {num})
  /\ worn' = IF num \in DOMAIN items THEN worn ELSE Freed(worn, num)

\* handleItemDelete and refundItem.
Delete(num) ==
  /\ Ready(1)
  /\ num \in Numbers
  /\ Deleted(num)
  /\ Queue(<<RemoveRow(num)>>)
  /\ UNCHANGED <<total, replaced, drifted>> /\ Unmoved

\* /clearinventory of a player who is online: what lies in the inventory.
ClearInventory ==
  /\ Ready(Cardinality(DOMAIN items))
  /\ items' = <<>>
  /\ \E order \in SetToSeqs(DOMAIN items) :
       Queue([k \in DOMAIN order |-> RemoveRow(order[k])])
  /\ UNCHANGED <<worn, total, replaced, drifted>> /\ Unmoved

\* handleGeneralItem: the prizes are numbered while the box is still there.
OpenBox(num, ids) ==
  /\ Ready(1 + Len(ids))
  /\ num \in DOMAIN items /\ items[num].id \in Boxes
  /\ EnoughSpace(Len(ids))
  /\ Latest + Len(ids) <= MaxNumber
  /\ items' = Both(Without(items, {num}), Spawned(ids, Latest))
  /\ Queue(<<RemoveRow(num)>> \o AddRows(ids, Latest))
  /\ UNCHANGED <<worn, total, replaced, drifted>> /\ Unmoved

\* A box with a cash prize (MicroPoints, coins) is deleted for it; addItems
\* then has no box to delete and the other prizes are not given.
OpenCashBox(num) ==
  /\ Ready(1)
  /\ num \in DOMAIN items /\ items[num].id \in Boxes
  /\ items' = Without(items, {num})
  /\ Queue(<<RemoveRow(num)>>)
  /\ UNCHANGED <<worn, total, replaced, drifted>> /\ Unmoved

\* useInstantRespawn, useNoPenalty: the last one deletes the item.
UseMatchItem(num) ==
  /\ Ready(1)
  /\ num \in DOMAIN items /\ items[num].id \in Stocked
  /\ IF items[num].n = 1
     THEN items' = Without(items, {num}) /\ Queue(<<RemoveRow(num)>>)
     ELSE /\ items' = [items EXCEPT ![num].n = @ - 1]
          /\ Queue(<<AmountRow(num, items[num].n - 1)>>)
  /\ UNCHANGED <<worn, total, replaced, drifted>> /\ Unmoved

\* addEnergyToItem finds what lies in the inventory and what the selected
\* character wears.
AddEnergy(num) ==
  /\ Ready(1)
  /\ \/ /\ num \in DOMAIN items /\ items[num].id \notin Stocked
        /\ items[num].n < MaxEnergy
        /\ items' = [items EXCEPT ![num].n = @ + 1]
        /\ Queue(<<AmountRow(num, items[num].n + 1)>>)
        /\ UNCHANGED worn
     \/ \E t \in Types :
          /\ num \notin DOMAIN items
          /\ worn[selected][t].num = num /\ worn[selected][t].n < MaxEnergy
          /\ worn' = [worn EXCEPT ![selected][t].n = @ + 1]
          /\ Queue(<<AmountRow(num, worn[selected][t].n + 1)>>)
          /\ UNCHANGED items
  /\ UNCHANGED <<total, replaced, drifted>> /\ Unmoved

Kind(num) ==
  IF num \in DOMAIN items THEN items[num].id
  ELSE LET at == CHOOSE at \in Chars \X Types : worn[at[1]][at[2]].num = num
       IN  worn[at[1]][at[2]].id

\* handleGambleItem, upgradeWeapon, resetUpgrade -> replaceItem: another item
\* of the same type under the same number, without energy.  What was worn
\* then lies in the inventory, but its row is still equipped.
Replace(num, id) ==
  /\ Ready(1)
  /\ num \in Numbers /\ {Kind(num), id} \cap (Stocked \cup Boxes) = {}
  /\ TypeOf[id] = TypeOf[Kind(num)]
  /\ EnoughSpace(1)
  /\ items' = With(items, num, Item(id, 0))
  /\ worn' = IF num \in DOMAIN items THEN worn ELSE Freed(worn, num)
  /\ Queue(<<ReplaceRow(num, id)>>)
  /\ replaced' = IF num \in Worn THEN replaced \cup {num} ELSE replaced
  /\ drifted' = (drifted \/ num \in Worn)
  /\ UNCHANGED total /\ Unmoved

-----------------------------------------------------------------------------
(* What the characters wear.  One request to wear an item moves several,   *)
(* each with a write of its own: w is the wardrobe while it is handled.    *)

Wardrobe == [items |-> items, worn |-> worn, total |-> total, writes |-> <<>>]

\* unequipItemImpl
TakenOff(w, c, t) ==
  LET it == w.worn[c][t] IN
  IF it.num = 0 THEN w
  ELSE [items |-> With(w.items, it.num, Lay(it)),
        worn |-> [w.worn EXCEPT ![c][t] = Free],
        total |-> w.total - 1,
        writes |-> Append(w.writes, UnequipRow(it.num))]

\* The parts that a set covers come off one by one.
PartsOff(w, c) ==
  LET parts == SetToSeq(SetParts)
      after[k \in 0 .. Len(parts)] ==
        IF k = 0 THEN w ELSE TakenOff(after[k - 1], c, parts[k])
  IN  after[Len(parts)]

\* Mutant: a part goes on over the set that covers it.
RoomOverSet(w, c, t) == IF t = SetType THEN PartsOff(w, c) ELSE w

\* A set takes off the parts it covers, such a part takes off the set.
RoomFor(w, c, t) ==
  CASE t = SetType -> PartsOff(w, c)
    [] t \in SetParts -> TakenOff(w, c, SetType)
    [] OTHER -> w

\* Mutant: what was worn in the slot is counted a second time.
PutOnCounted(w, num, c) ==
  LET i == w.items[num]
      t == TypeOf[i.id]
      v == RoomFor(w, c, t)
      old == v.worn[c][t]
  IN [items |-> IF old.num = 0 THEN Without(v.items, {num})
                ELSE With(Without(v.items, {num}), old.num, Lay(old)),
      worn |-> [v.worn EXCEPT ![c][t] = Wear(num, i)],
      total |-> IF old.num = 0 THEN v.total + 1 ELSE v.total - 1,
      writes |-> Append(v.writes,
                   IF old.num = 0 THEN EquipRow(num, c) ELSE SwapRows(old.num, num, c))]

\* Mutant: the row of what was worn in the slot stays equipped.
PutOnWithoutSwap(w, num, c) ==
  LET i == w.items[num]
      t == TypeOf[i.id]
      v == RoomFor(w, c, t)
      old == v.worn[c][t]
  IN [items |-> IF old.num = 0 THEN Without(v.items, {num})
                ELSE With(Without(v.items, {num}), old.num, Lay(old)),
      worn |-> [v.worn EXCEPT ![c][t] = Wear(num, i)],
      total |-> IF old.num = 0 THEN v.total + 1 ELSE v.total,
      writes |-> Append(v.writes, EquipRow(num, c))]

\* Inventory::equipItem
PutOn(w, num, c) ==
  LET i == w.items[num]
      t == TypeOf[i.id]
      v == RoomFor(w, c, t)
      old == v.worn[c][t]
  IN [items |-> IF old.num = 0 THEN Without(v.items, {num})
                ELSE With(Without(v.items, {num}), old.num, Lay(old)),
      worn |-> [v.worn EXCEPT ![c][t] = Wear(num, i)],
      total |-> IF old.num = 0 THEN v.total + 1 ELSE v.total,
      writes |-> Append(v.writes,
                   IF old.num = 0 THEN EquipRow(num, c) ELSE SwapRows(old.num, num, c))]

Dressed(w) ==
  /\ Ready(Len(w.writes))
  /\ items' = w.items /\ worn' = w.worn /\ total' = w.total
  /\ Queue(w.writes)
  /\ UNCHANGED <<replaced, drifted>> /\ Unmoved

\* handleEquippedItemSwitch, mission 0: for the selected character.
EquipItem(num) ==
  /\ num \in DOMAIN items /\ TypeOf[items[num].id] \in Types
  /\ Dressed(PutOn(Wardrobe, num, selected))

UnequipItem(t) ==
  /\ worn[selected][t].num # 0
  /\ Dressed(TakenOff(Wardrobe, selected, t))

\* switchItemEquip: off if that character wears it, else on.
SwitchItemEquip(c, num) ==
  \/ \E t \in Types : worn[c][t].num = num /\ Dressed(TakenOff(Wardrobe, c, t))
  \/ /\ \A t \in Types : worn[c][t].num # num
     /\ num \in DOMAIN items /\ TypeOf[items[num].id] \in Types
     /\ Dressed(PutOn(Wardrobe, num, c))

SelectCharacter(c) ==
  /\ online /\ selected' = c
  /\ UNCHANGED <<items, worn, total, online, queue, rows, replaced, drifted>>

-----------------------------------------------------------------------------
(* The scheduler and the sessions.                                         *)

\* MainScheduler runs the oldest callback.
Persist ==
  /\ queue # <<>>
  /\ rows' = Applied(rows, Head(queue))
  /\ queue' = Tail(queue)
  /\ UNCHANGED <<items, worn, total, selected, online, replaced, drifted>>

NoInventory ==
  /\ online' = FALSE
  /\ items' = <<>> /\ worn' = AllFree /\ total' = 0
  /\ replaced' = {}

\* removeSession -> persistNow -> persistFor
Logout ==
  /\ online
  /\ NoInventory
  /\ rows' = AllApplied(rows, queue) /\ queue' = <<>>
  /\ UNCHANGED <<selected, drifted>>

\* Main dies: the writes that wait are lost.
Crash ==
  /\ online
  /\ NoInventory
  /\ queue' = <<>>
  /\ UNCHANGED <<selected, rows, drifted>>

\* sendInventory: setUnequippedItems, setEquippedItems.
LoginWith(rs) ==
  /\ ~online
  /\ online' = TRUE
  /\ rows' = rs
  /\ items' = [k \in {k \in DOMAIN rs : rs[k].at = NoChar} |-> Item(rs[k].id, rs[k].n)]
  /\ worn' = [c \in Chars |-> [t \in Types |->
       LET on == {k \in DOMAIN rs : rs[k].at = c /\ TypeOf[rs[k].id] = t}
       IN  IF on = {} THEN Free
           ELSE LET k == CHOOSE k \in on : TRUE IN Wear(k, Item(rs[k].id, rs[k].n))]]
  /\ total' = Cardinality({k \in DOMAIN rs : rs[k].at # NoChar})
  /\ UNCHANGED <<selected, queue, replaced, drifted>>

Login == LoginWith(Renumbered(rows))

\* /senduntradeable to a player who is offline: a row with the number after
\* the greatest, whatever the space (bound: MaxNumber).
GiveOffline(id) ==
  /\ ~online /\ Len(rows) < MaxNumber
  /\ LET num == 1 + Max({rows[k].num : k \in DOMAIN rows} \cup {0})
     IN  /\ num <= MaxNumber
         /\ rows' = Append(rows, [num |-> num, id |-> id, n |-> Amount(id), at |-> NoChar])
  /\ UNCHANGED <<items, worn, total, selected, online, queue, replaced, drifted>>

\* /clearinventory of a player who is offline.
ClearOffline ==
  /\ ~online /\ rows # <<>>
  /\ rows' = <<>>
  /\ UNCHANGED <<items, worn, total, selected, online, queue, replaced, drifted>>

Next ==
  \/ \E ids \in Lists : Receive(ids)
  \/ \E num \in 1 .. MaxNumber : Delete(num)
  \/ ClearInventory
  \/ \E num \in 1 .. MaxNumber, ids \in Lists : OpenBox(num, ids)
  \/ \E num \in 1 .. MaxNumber : OpenCashBox(num)
  \/ \E num \in 1 .. MaxNumber : UseMatchItem(num)
  \/ \E num \in 1 .. MaxNumber : AddEnergy(num)
  \/ \E num \in 1 .. MaxNumber, id \in Ids : Replace(num, id)
  \/ \E num \in 1 .. MaxNumber : EquipItem(num)
  \/ \E t \in Types : UnequipItem(t)
  \/ \E c \in Chars, num \in 1 .. MaxNumber : SwitchItemEquip(c, num)
  \/ \E c \in Chars : SelectCharacter(c)
  \/ Persist
  \/ Logout
  \/ Crash
  \/ Login
  \/ \E id \in Ids : GiveOffline(id)
  \/ ClearOffline

Spec == Init /\ [][Next]_vars

-----------------------------------------------------------------------------
(* Properties.                                                             *)

\* No two items share a number, whether they lie in the inventory or are worn.
Distinct ==
  /\ DOMAIN items \cap Worn = {}
  /\ \A c, d \in Chars, t, u \in Types :
       worn[c][t].num # 0 /\ worn[c][t].num = worn[d][u].num => c = d /\ t = u

\* What the session has of an item, as its row would say it.
Held(num) ==
  IF num \in DOMAIN items
  THEN [num |-> num, id |-> items[num].id, n |-> items[num].n, at |-> NoChar]
  ELSE LET at == CHOOSE at \in Chars \X Types : worn[at[1]][at[2]].num = num
           it == worn[at[1]][at[2]]
       IN  [num |-> num, id |-> it.id, n |-> it.n, at |-> at[1]]

\* Items have numbers of their own, by which every request, write and deletion
\* names them; and once the writes that wait are run, the rows are the items of
\* the session, one row each: no item is lost or doubled by a login.  Where an
\* item is worn is the same as well, but for items that were replaced while worn.
RowsMirrorItems ==
  /\ Distinct
  /\ online =>
       LET after == AllApplied(rows, queue) IN
       /\ Len(after) = Cardinality(Numbers)
       /\ \A k \in DOMAIN after :
            /\ after[k].num \in Numbers
            /\ LET h == Held(after[k].num) IN
                 /\ h.id = after[k].id /\ h.n = after[k].n
                 /\ h.at = after[k].at \/ after[k].num \in replaced

\* hasEnoughInventorySpace takes the equipped items off the space with a
\* counter that equipping, unequipping and swapping keep by hand: it never
\* falls below what is worn (and so never below 0, which is a great number).
WornCounted ==
  total >= Cardinality({at \in Chars \X Types : worn[at[1]][at[2]].num # 0})

\* A character never wears a set together with a part that the set covers,
\* over logins and crashes between the writes of one request, as long as no
\* item was replaced while it was worn: equipItem takes off what collides with
\* the new item, in the session and, in this order, in the rows.
SetExclusive ==
  drifted \/ \A c \in Chars, t \in SetParts : worn[c][SetType].num = 0 \/ worn[c][t].num = 0
=============================================================================
