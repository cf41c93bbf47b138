------------------------------- MODULE Economy --------------------------------
(* NpcMarketService, PlayerMarketplaceService and                            *)
(* HardwareUpgradeRuntimeService over npc_market_inventory_state,            *)
(* player_inventory, players, equipment_listings,                            *)
(* hardware_upgrade_operations and the player ledger.  Purchases, trades and *)
(* upgrade starts run SERIALIZABLE: they read a snapshot and write at commit *)
(* unless PostgreSQL fails them.  It must fail a transaction when a row it   *)
(* locks or writes has changed since its snapshot, and when each of two has  *)
(* read what the other wrote; "doomed" marks those, and any other may be     *)
(* failed too.  Catalogue reads, listings and upgrade polls run READ         *)
(* COMMITTED.                                                                *)
EXTENDS Integers, FiniteSets, Functions

CONSTANTS Players,
          Items,           \* catalog item ids
          Upgrades,        \* those that are hardware tier upgrades
          Starter,         \* hardware equipped at first, no item of the market
          Stocked,         \* items with a number as catalog inventory; the others are "unlimited"
          Limit,           \* item of Stocked -> catalog inventory
          Restocking,      \* items of Stocked with a restock_rate_per_day
          Price,           \* item -> catalog price
          Unlocked,        \* <<player, item>> pairs whose condition in the catalog holds
          Startable,       \* <<player, hardware>> pairs whose condition in the definition holds
          Listings,        \* ids of the listings ever made
          ListPrice,       \* price_per_unit of every listing
          Quantities,      \* quantities asked for in purchases
          ListQuantities,  \* quantities put up in listings
          Requests,        \* requests in flight
          Keys,            \* idempotency keys
          Income,          \* credits of a reward, a multiple of what trades round
          MaxTries,        \* attempts of a purchase or a trade (3 in the code)
          MaxMinted,       \* bound: credits rewarded to all players
          MaxElapsed,      \* bound: units a restock rate may bring to an item
          None

Hardware == Items \cup {Starter}

\* What the catalog and the requests' validation make sure of.
ASSUME EconomyAssumption ==
  /\ IsFiniteSet(Players) /\ IsFiniteSet(Listings)
  /\ Upgrades \subseteq Items /\ Restocking \subseteq Stocked /\ Stocked \subseteq Items
  /\ Limit \in [Stocked -> Nat] /\ Price \in [Items -> Nat]
  /\ ListPrice \in Nat /\ Income \in Nat
  /\ Quantities \subseteq Nat \ {0} /\ ListQuantities \subseteq Nat \ {0}
  /\ MaxTries \in Nat \ {0}

VARIABLES balance,     \* player -> sum of the ledger entries of the credit types
          uncounted,   \* player -> sum of its entries of type hardware.upgrade.start.v1
          inventory,   \* player -> item -> units; no row is 0
          hardware,    \* player -> players.hardware_id
          stock,       \* stocked item -> current_stock
          due,         \* stocked item -> units restocked by the time since last_restocked_at
          listing,     \* listing -> [seller, item, remaining, status]
          past,        \* listings whose expires_at has passed
          op,          \* player -> the latest upgrade operation
          keys,        \* player -> idempotency keys used
          tx,          \* request -> its transaction
          minted,      \* not program state: credits rewarded so far
          tally        \* not program state: item -> what happened to its units

shop == <<balance, inventory, hardware, listing>>
vars == <<balance, uncounted, inventory, hardware, stock, due, listing, past, op, keys, tx, minted, tally>>
ghosts == <<minted, tally>>

Idle == [kind |-> "idle", player |-> None, item |-> None, quantity |-> 0, listing |-> None,
         key |-> None, stock |-> 0, restock |-> 0, hardware |-> Starter, tries |-> 0,
         doomed |-> FALSE]

NoUpgrade == [item |-> None, key |-> None, status |-> "none", ripe |-> FALSE]

Cost(i, q) == q * Price[i]

Ask(q) == q * ListPrice

\* Decimal.quantize rounds a half to the even neighbour; the fee is 5 %.
MarketplaceFee(price) ==
  LET whole == (price * 5) \div 100
      part == (price * 5) % 100 IN
  IF part > 50 \/ (part = 50 /\ whole % 2 = 1) THEN whole + 1 ELSE whole

Proceeds(q) == Ask(q) - MarketplaceFee(Ask(q))

Shop == INSTANCE AtomicShop

Init ==
  /\ Shop!Init
  /\ uncounted = [p \in Players |-> 0]
  /\ stock = Limit
  /\ due = [i \in Stocked |-> 0]
  /\ past = {}
  /\ op = [p \in Players |-> NoUpgrade]
  /\ keys = [p \in Players |-> {}]
  /\ tx = [r \in Requests |-> Idle]
  /\ minted = 0
  /\ tally = [i \in Items |-> [sold |-> 0, lost |-> 0, elapsed |-> 0, raced |-> FALSE]]

Least(m, n) == IF m < n THEN m ELSE n

\* Mutant: the catalog inventory does not cap the restock.
RestockedUncapped(i) == stock[i] + due[i]

Restocked(i) == Least(Limit[i], stock[i] + due[i])

Ends(r) == [tx EXCEPT ![r] = Idle]

\* Transactions x in flight for which Hit(x) holds can no longer commit.
Doom(r, Hit(_)) ==
  [x \in Requests |-> IF x = r THEN Idle
                      ELSE IF tx[x].kind # "idle" /\ Hit(tx[x]) THEN [tx[x] EXCEPT !.doomed = TRUE]
                      ELSE tx[x]]

Earn(p) ==
  /\ minted + Income <= MaxMinted
  /\ minted' = minted + Income
  /\ balance' = [balance EXCEPT ![p] = @ + Income]
  /\ UNCHANGED <<uncounted, inventory, hardware, stock, due, listing, past, op, keys, tx, tally>>

UnitFallsDue(i) ==
  /\ i \in Restocking
  /\ tally[i].elapsed < MaxElapsed
  /\ due' = [due EXCEPT ![i] = @ + 1]
  /\ tally' = [tally EXCEPT ![i].elapsed = @ + 1]
  /\ UNCHANGED <<shop, uncounted, stock, past, op, keys, tx, minted>>

---------------------------------------------------------------------------
\* NPC market

CanBuy(p, i, q) ==
  /\ <<p, i>> \in Unlocked
  /\ balance[p] >= Cost(i, q)
  /\ i \in Stocked => Restocked(i) >= q

BuySnapshot(p, i, q, n) ==
  [Idle EXCEPT !.kind = "buy", !.player = p, !.item = i, !.quantity = q,
               !.stock = IF i \in Stocked THEN Restocked(i) ELSE 0,
               !.restock = IF i \in Stocked THEN due[i] ELSE 0,
               !.hardware = hardware[p], !.tries = n]

BeginPurchase(r, p, i, q) ==
  /\ tx[r].kind = "idle"
  /\ CanBuy(p, i, q)
  /\ tx' = [tx EXCEPT ![r] = BuySnapshot(p, i, q, 1)]
  /\ UNCHANGED <<shop, uncounted, stock, due, past, op, keys, ghosts>>

\* Mutant: as under READ COMMITTED, only the locked stock row is looked at.
StockRowOnly(t, x) == x.kind \in {"buy", "browse"} /\ x.item = t.item /\ t.item \in Stocked

\* Mutant: the stock row is not looked at.
LedgerOnly(t, x) == x.kind \in {"buy", "trade"} /\ x.player = t.player

\* What a commit of purchase t disturbs: the payer's ledger, the stock row, the players row.
DisturbedByPurchase(t, x) ==
  \/ x.kind \in {"buy", "trade"} /\ x.player = t.player
  \/ x.kind \in {"buy", "browse"} /\ x.item = t.item /\ t.item \in Stocked
  \/ x.kind = "start" /\ x.player = t.player /\ t.item \in Upgrades

CommitPurchase(r) ==
  LET t == tx[r]
      p == t.player
      i == t.item
      replaced == i \in Upgrades /\ t.hardware # i /\ t.hardware \in Items IN
  /\ t.kind = "buy"
  /\ ~t.doomed
  /\ IF i \in Stocked
     THEN /\ stock' = [stock EXCEPT ![i] = t.stock - t.quantity]
          /\ due' = [due EXCEPT ![i] = IF t.restock > 0 THEN 0 ELSE @]
     ELSE UNCHANGED <<stock, due>>
  /\ inventory' = [inventory EXCEPT ![p] = Shop!Stored(@, i, t.quantity, t.hardware)]
  /\ hardware' = IF i \in Upgrades THEN [hardware EXCEPT ![p] = i] ELSE hardware
  /\ balance' = [balance EXCEPT ![p] = @ - Cost(i, t.quantity)]
  /\ tx' = Doom(r, LAMBDA x : DisturbedByPurchase(t, x))
  /\ tally' = [j \in Items |->
       [tally[j] EXCEPT !.sold = @ + (IF j = i THEN t.quantity ELSE 0),
                        !.lost = @ + (IF replaced /\ j = t.hardware THEN inventory[p][j] ELSE 0)]]
  /\ UNCHANGED <<uncounted, listing, past, op, keys, minted>>

\* A catalogue read computes the restock from a row it has not locked ...
BrowseReads(r, i) ==
  /\ tx[r].kind = "idle"
  /\ i \in Stocked
  /\ due[i] > 0
  /\ tx' = [tx EXCEPT ![r] = [Idle EXCEPT !.kind = "browse", !.item = i, !.stock = Restocked(i)]]
  /\ UNCHANGED <<shop, uncounted, stock, due, past, op, keys, ghosts>>

\* ... and writes it, over what was committed meanwhile.
BrowseWrites(r) ==
  LET i == tx[r].item IN
  /\ tx[r].kind = "browse"
  /\ stock' = [stock EXCEPT ![i] = tx[r].stock]
  /\ due' = [due EXCEPT ![i] = 0]
  /\ tx' = Doom(r, LAMBDA x : x.kind \in {"buy", "browse"} /\ x.item = i)
  /\ tally' = [tally EXCEPT ![i].raced = @ \/ tx[r].doomed]
  /\ UNCHANGED <<shop, uncounted, past, op, keys, minted>>

---------------------------------------------------------------------------
\* Player marketplace

ListEquipment(p, i, q, l) ==
  /\ Shop!List(p, i, q, l)
  /\ tx' = Doom(None, LAMBDA x :
       x.player = p /\ (\/ x.kind = "buy" /\ i \in {x.item, x.hardware}
                        \/ x.kind = "trade" /\ x.item = i))
  /\ UNCHANGED <<uncounted, stock, due, past, op, keys, ghosts>>

\* Mutant: the listing row is not locked, so a trade does not notice.
UnlistUnlocked(l) ==
  /\ Shop!Unlist(l)
  /\ UNCHANGED <<uncounted, stock, due, past, op, keys, tx, ghosts>>

UnlistEquipment(l) ==
  LET row == listing[l] IN
  /\ Shop!Unlist(l)
  /\ tx' = Doom(None, LAMBDA x :
       \/ x.kind = "trade" /\ x.listing = l
       \/ x.player = row.seller /\ (\/ x.kind = "buy" /\ row.item \in {x.item, x.hardware}
                                    \/ x.kind = "trade" /\ x.item = row.item))
  /\ UNCHANGED <<uncounted, stock, due, past, op, keys, ghosts>>

ExpiryPasses(l) ==
  /\ listing[l].status = "active"
  /\ past' = past \cup {l}
  /\ UNCHANGED <<shop, uncounted, stock, due, op, keys, tx, ghosts>>

\* A purchase that finds the listing past its expiry closes it; its units stay in the row.
FindsExpired(l) ==
  /\ l \in past
  /\ Shop!Expire(l)
  /\ tx' = Doom(None, LAMBDA x : x.kind = "trade" /\ x.listing = l)
  /\ UNCHANGED <<uncounted, stock, due, past, op, keys, ghosts>>

CanTrade(b, l, q) ==
  /\ listing[l].status = "active"
  /\ l \notin past
  /\ listing[l].remaining >= q
  /\ listing[l].seller # b
  /\ balance[b] >= Ask(q)

TradeSnapshot(b, l, q, n) ==
  [Idle EXCEPT !.kind = "trade", !.player = b, !.listing = l, !.item = listing[l].item,
               !.quantity = q, !.tries = n]

BeginTrade(r, b, l, q) ==
  /\ tx[r].kind = "idle"
  /\ CanTrade(b, l, q)
  /\ tx' = [tx EXCEPT ![r] = TradeSnapshot(b, l, q, 1)]
  /\ UNCHANGED <<shop, uncounted, stock, due, past, op, keys, ghosts>>

Parties(x) == {x.player, listing[x.listing].seller}

\* The buyer's ledger, the listing row and the reputation rows of both parties.
DisturbedByTrade(t, x) ==
  \/ x.kind \in {"buy", "trade"} /\ x.player = t.player
  \/ x.kind = "trade" /\ x.listing = t.listing
  \/ x.kind = "trade" /\ Parties(x) \cap Parties(t) # {}

\* Mutant: what is sold stays in the listing.
CommitTradeKeepsUnits(r) ==
  LET t == tx[r]
      row == listing[t.listing] IN
  /\ t.kind = "trade"
  /\ ~t.doomed
  /\ inventory' = [inventory EXCEPT ![t.player][row.item] = @ + t.quantity]
  /\ balance' = [balance EXCEPT ![t.player] = @ - Ask(t.quantity), ![row.seller] = @ + Proceeds(t.quantity)]
  /\ tx' = Doom(r, LAMBDA x : DisturbedByTrade(t, x))
  /\ UNCHANGED <<uncounted, listing, hardware, stock, due, past, op, keys, ghosts>>

CommitTrade(r) ==
  LET t == tx[r]
      l == t.listing
      row == listing[l] IN
  /\ t.kind = "trade"
  /\ ~t.doomed
  /\ listing' = [listing EXCEPT ![l].remaining = @ - t.quantity,
                                ![l].status = IF row.remaining = t.quantity THEN "sold_out" ELSE "active"]
  /\ inventory' = [inventory EXCEPT ![t.player][row.item] = @ + t.quantity]
  /\ balance' = [balance EXCEPT ![t.player] = @ - Ask(t.quantity), ![row.seller] = @ + Proceeds(t.quantity)]
  /\ tx' = Doom(r, LAMBDA x : DisturbedByTrade(t, x))
  /\ UNCHANGED <<uncounted, hardware, stock, due, past, op, keys, ghosts>>

\* SerializationFailure: a fresh attempt with its checks, the refusal after the last one.
Fails(r) ==
  LET t == tx[r] IN
  /\ t.kind \in {"buy", "trade", "start"}
  /\ tx' = [tx EXCEPT ![r] =
       CASE t.kind = "buy" /\ t.tries < MaxTries /\ CanBuy(t.player, t.item, t.quantity) ->
              BuySnapshot(t.player, t.item, t.quantity, t.tries + 1)
         [] t.kind = "trade" /\ t.tries < MaxTries /\ CanTrade(t.player, t.listing, t.quantity) ->
              TradeSnapshot(t.player, t.listing, t.quantity, t.tries + 1)
         [] OTHER -> Idle]
  /\ UNCHANGED <<shop, uncounted, stock, due, past, op, keys, ghosts>>

---------------------------------------------------------------------------
\* Hardware upgrades that take a day

StartUpgrade(r, p, i, k) ==
  /\ tx[r].kind = "idle"
  /\ k \notin keys[p]
  /\ hardware[p] # i
  /\ <<p, i>> \in Startable
  /\ op[p].status # "running"
  /\ balance[p] >= Price[i]
  /\ tx' = [tx EXCEPT ![r] = [Idle EXCEPT !.kind = "start", !.player = p, !.item = i, !.key = k]]
  /\ UNCHANGED <<shop, uncounted, stock, due, past, op, keys, ghosts>>

\* Mutant: neither index, so that a racing start commits as well.
CommitStartUnindexed(r) ==
  LET t == tx[r] IN
  /\ t.kind = "start"
  /\ op' = [op EXCEPT ![t.player] = [item |-> t.item, key |-> t.key, status |-> "running", ripe |-> FALSE]]
  /\ keys' = [keys EXCEPT ![t.player] = @ \cup {t.key}]
  /\ uncounted' = [uncounted EXCEPT ![t.player] = @ - Price[t.item]]
  /\ tx' = Doom(r, LAMBDA x : x.kind = "start" /\ x.player = t.player)
  /\ UNCHANGED <<shop, stock, due, past, ghosts>>

\* Running operations of a player are unique (an index), and so is (player, key).
CommitStart(r) ==
  LET t == tx[r] IN
  /\ t.kind = "start"
  /\ ~t.doomed
  /\ op' = [op EXCEPT ![t.player] = [item |-> t.item, key |-> t.key, status |-> "running", ripe |-> FALSE]]
  /\ keys' = [keys EXCEPT ![t.player] = @ \cup {t.key}]
  /\ uncounted' = [uncounted EXCEPT ![t.player] = @ - Price[t.item]]
  /\ tx' = Doom(r, LAMBDA x : x.kind = "start" /\ x.player = t.player)
  /\ UNCHANGED <<shop, stock, due, past, ghosts>>

UpgradeRipens(p) ==
  /\ op[p].status = "running"
  /\ op' = [op EXCEPT ![p].ripe = TRUE]
  /\ UNCHANGED <<shop, uncounted, stock, due, past, keys, tx, ghosts>>

StatusReads(r, p) ==
  /\ tx[r].kind = "idle"
  /\ op[p].status = "running"
  /\ op[p].ripe
  /\ tx' = [tx EXCEPT ![r] = [Idle EXCEPT !.kind = "status", !.player = p, !.item = op[p].item, !.key = op[p].key]]
  /\ UNCHANGED <<shop, uncounted, stock, due, past, op, keys, ghosts>>

\* The hardware is equipped without another look at the operation.
StatusCompletes(r) ==
  LET t == tx[r] IN
  /\ t.kind = "status"
  /\ Shop!Equip(t.player, t.item)
  /\ op' = IF op[t.player].key = t.key THEN [op EXCEPT ![t.player].status = "completed"] ELSE op
  /\ tx' = Doom(r, LAMBDA x : x.kind \in {"buy", "start"} /\ x.player = t.player)
  /\ UNCHANGED <<uncounted, stock, due, past, keys, ghosts>>

Next ==
  \/ \E p \in Players : Earn(p) \/ UpgradeRipens(p)
  \/ \E i \in Items : UnitFallsDue(i)
  \/ \E r \in Requests, p \in Players, i \in Items, q \in Quantities : BeginPurchase(r, p, i, q)
  \/ \E r \in Requests, i \in Items : BrowseReads(r, i)
  \/ \E p \in Players, i \in Items, q \in ListQuantities, l \in Listings : ListEquipment(p, i, q, l)
  \/ \E l \in Listings : UnlistEquipment(l) \/ ExpiryPasses(l) \/ FindsExpired(l)
  \/ \E r \in Requests, b \in Players, l \in Listings, q \in Quantities : BeginTrade(r, b, l, q)
  \/ \E r \in Requests, p \in Players, i \in Upgrades, k \in Keys : StartUpgrade(r, p, i, k)
  \/ \E r \in Requests, p \in Players : StatusReads(r, p)
  \/ \E r \in Requests :
       \/ CommitPurchase(r) \/ BrowseWrites(r) \/ CommitTrade(r) \/ Fails(r)
       \/ CommitStart(r) \/ StatusCompletes(r)

Spec == Init /\ [][Next]_vars

TypeOK ==
  /\ \A p \in Players :
       /\ {balance[p], uncounted[p]} \subseteq Int
       /\ hardware[p] \in Hardware
       /\ op[p].status \in {"none", "running", "completed"}
       /\ keys[p] \subseteq Keys
  /\ inventory \in [Players -> [Items -> Nat]]
  /\ \A i \in Stocked : {stock[i], due[i]} \subseteq Nat /\ stock[i] <= Limit[i]
  /\ \A l \in Listings :
       /\ listing[l].remaining \in Nat
       /\ listing[l].status \in {"unused", "active", "unlisted", "expired", "sold_out"}
       /\ listing[l].status = "sold_out" <=> listing[l].status # "unused" /\ listing[l].remaining = 0
  /\ past \subseteq Listings
  /\ \A r \in Requests :
       tx[r].kind \in {"idle", "buy", "browse", "trade", "start", "status"} /\ tx[r].tries <= MaxTries

\* No interleaving of purchases and trades spends credits twice (service.py:135-138, 319-322).
NoOverdraft == \A p \in Players : balance[p] >= 0

Held(i) == SumFunctionOnSet([p \in Players |-> inventory[p][i]], Players)

\* The units of an item that a listing keeps: not those given back.
Escrowed(l, i) ==
  IF listing[l].item = i /\ listing[l].status \notin {"unused", "unlisted"} THEN listing[l].remaining ELSE 0

Escrow(i) == SumFunctionOnSet([l \in Listings |-> Escrowed(l, i)], Listings)

\* Every unit sold is in an inventory, in a listing (of whatever fate), or was thrown away
\* with the inventory row of a replaced hardware: trades and listings never duplicate one.
UnitsConserved == \A i \in Items : Held(i) + Escrow(i) + tally[i].lost = tally[i].sold

WithinSupply(i) == tally[i].sold + stock[i] <= Limit[i] + tally[i].elapsed

\* The market never sells more than its inventory and what the restock rate brings, as long
\* as no catalogue read wrote its restock over a purchase (market/service.py:452-504).
SoldWithinSupply == \A i \in Stocked : ~tally[i].raced => WithinSupply(i)

\* Without that condition it is false, against "no double-sells"
\* (docs/m2-economy-implementation-tickets.md:140).
NoDoubleSells == \A i \in Stocked : WithinSupply(i)

\* However starts of one player race, with one key or several, an upgrade is charged only
\* where no other runs and for a key that was never used (upgrade_runtime.py:46-66).
StartsOnce ==
  [][\A p \in Players :
       uncounted'[p] # uncounted[p] =>
         op[p].status # "running" /\ op'[p].status = "running" /\ op'[p].key \notin keys[p]]_vars

\* A poll that completes an operation completed before leaves the hardware as it is.  False: the
\* later completion equips the old upgrade again, against "Upgrade completion replay produces same
\* hardware state" (docs/m2-economy-implementation-tickets.md:185, upgrade_runtime.py:97).
CompletionReplays ==
  [][\A r \in Requests :
       LET p == tx[r].player IN
       tx[r].kind = "status" /\ tx'[r].kind = "idle" /\ op[p].status = "completed" =>
         hardware'[p] = hardware[p]]_vars

\* The read-then-write transactions implement purchases and trades that happen at once.
AtomicTrades == Shop!Spec

\* An upgrade is paid when its operation is created.  False: no balance counts the entry type of the
\* cost, against "Atomic ledger-backed cost deduction" (docs/client-ui-roadmap-v1.md:206).
UpgradeCostDeducted ==
  [][\A p \in Players :
       op[p].status # "running" /\ op'[p].status = "running" =>
         balance'[p] = balance[p] - Price[op'[p].item]]_vars

=============================================================================
