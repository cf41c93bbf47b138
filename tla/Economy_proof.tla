---------------------------- MODULE Economy_proof ----------------------------
(* What the transactions of Economy have read stays true until they commit,  *)
(* for any number of players, items, listings and requests: so nobody is     *)
(* overdrawn, nothing is oversold, no unit is lost or duplicated, and every  *)
(* purchase and trade happens at one moment, as in AtomicShop.               *)
EXTENDS Economy, FiniteSums, TLAPS

Transactions ==
  [kind : {"idle", "buy", "browse", "trade", "start", "status"}, player : Players \cup {None},
   item : Items \cup {None}, quantity : Nat, listing : Listings \cup {None}, key : Keys \cup {None},
   stock : Nat, restock : Nat, hardware : Hardware, tries : 0 .. MaxTries, doomed : BOOLEAN]

Rows ==
  [seller : Players \cup {None}, item : Items \cup {None}, remaining : Nat,
   status : {"unused", "active", "unlisted", "expired", "sold_out"}]

Operations ==
  [item : Items \cup {None}, key : Keys \cup {None}, status : {"none", "running", "completed"}, ripe : BOOLEAN]

PlayersOK ==
  /\ balance \in [Players -> Int] /\ uncounted \in [Players -> Int]
  /\ inventory \in [Players -> [Items -> Nat]]
  /\ hardware \in [Players -> Hardware]
  /\ op \in [Players -> Operations]
  /\ \A p \in Players : op[p].status = "running" => op[p].item \in Items
  /\ keys \in [Players -> SUBSET Keys]

StockOK ==
  /\ stock \in [Stocked -> Nat] /\ due \in [Stocked -> Nat]
  /\ tally \in [Items -> [sold : Nat, lost : Nat, elapsed : Nat, raced : BOOLEAN]]
  /\ \A i \in Stocked : stock[i] <= Limit[i]

ListingsOK ==
  /\ listing \in [Listings -> Rows]
  /\ past \subseteq Listings
  /\ \A l \in Listings :
       /\ listing[l].status # "unused" => listing[l].seller \in Players /\ listing[l].item \in Items
       /\ listing[l].status = "sold_out" <=> listing[l].status # "unused" /\ listing[l].remaining = 0

\* What a transaction was asked for, and found when it began.
Formed(t) ==
  /\ t \in Transactions
  /\ t.kind \in {"buy", "trade", "start", "status"} => t.player \in Players
  /\ t.kind \in {"buy", "browse", "start", "status"} => t.item \in Items
  /\ t.kind \in {"buy", "trade"} => t.quantity \in Quantities
  /\ t.kind = "trade" => t.listing \in Listings
  /\ t.kind = "start" => t.key \in Keys
  /\ t.kind = "browse" => t.item \in Stocked
  /\ t.kind = "buy" /\ t.item \in Stocked => t.quantity <= t.stock
  /\ t.kind \in {"buy", "browse"} /\ t.item \in Stocked => t.stock <= Limit[t.item]

\* What it has read is still true.
Current(t) ==
  /\ t.kind = "buy" =>
       balance[t.player] >= Cost(t.item, t.quantity) /\ t.hardware = hardware[t.player]
  /\ t.kind \in {"buy", "browse"} /\ t.item \in Stocked => t.stock <= stock[t.item] + due[t.item]
  /\ t.kind = "buy" /\ t.item \in Stocked /\ t.restock = 0 => t.stock <= stock[t.item]
  /\ t.kind = "trade" =>
       /\ listing[t.listing].status = "active"
       /\ listing[t.listing].seller # t.player
       /\ listing[t.listing].remaining >= t.quantity
       /\ balance[t.player] >= Ask(t.quantity)
  /\ t.kind = "start" => op[t.player].status # "running" /\ t.key \notin keys[t.player]

FormedOK == tx \in [Requests -> Transactions] /\ \A r \in Requests : Formed(tx[r])

\* Unless it is doomed: this is what serializable transactions are for.
CurrentOK == \A r \in Requests : tx[r].doomed \/ Current(tx[r])

\* With what is due: what the market may still sell.
SupplyOK ==
  \A i \in Stocked : ~tally[i].raced => tally[i].sold + stock[i] + due[i] <= Limit[i] + tally[i].elapsed

IInv == PlayersOK /\ StockOK /\ ListingsOK /\ FormedOK /\ CurrentOK /\ SupplyOK /\ NoOverdraft

---------------------------------------------------------------------------
\* Arithmetic

LEMMA PriceTypes ==
  ASSUME NEW q \in Quantities
  PROVE  Ask(q) \in Nat /\ \A i \in Items : Cost(i, q) \in Nat
  BY EconomyAssumption DEF Cost, Ask

LEMMA ProceedsType ==
  ASSUME NEW q \in Quantities
  PROVE  Proceeds(q) \in Nat
  BY EconomyAssumption DEF Proceeds, MarketplaceFee, Ask

LEMMA RestockedBounds ==
  ASSUME StockOK, NEW i \in Stocked
  PROVE  Restocked(i) \in Nat /\ Restocked(i) <= Limit[i] /\ Restocked(i) <= stock[i] + due[i]
  BY EconomyAssumption DEF StockOK, Restocked, Least

---------------------------------------------------------------------------
\* Transactions

LEMMA Defaults == Starter \in Hardware /\ 0 \in Nat /\ 0 \in 0 .. MaxTries
  BY EconomyAssumption DEF Hardware

LEMMA IdleFormed == Formed(Idle)
  BY EconomyAssumption DEF Formed, Transactions, Idle, Hardware

LEMMA SnapshotBuy ==
  ASSUME IInv, NEW p \in Players, NEW i \in Items, NEW q \in Quantities, NEW n \in 1 .. MaxTries, CanBuy(p, i, q),
         NEW t, t = BuySnapshot(p, i, q, n)
  PROVE  Formed(t) /\ Current(t)
  <1>1. /\ t.kind = "buy" /\ t.player = p /\ t.item = i /\ t.quantity = q /\ t.doomed = FALSE
        /\ t.stock = (IF i \in Stocked THEN Restocked(i) ELSE 0)
        /\ t.hardware = hardware[p] /\ t.restock = (IF i \in Stocked THEN due[i] ELSE 0)
    BY DEF BuySnapshot, Idle
  <1>2. i \in Stocked =>
          Restocked(i) \in Nat /\ Restocked(i) <= Limit[i] /\ Restocked(i) <= stock[i] + due[i] /\ due[i] \in Nat
    BY RestockedBounds DEF IInv, StockOK
  <1>3. hardware[p] \in Hardware /\ q \in Nat /\ n \in 0 .. MaxTries
    BY EconomyAssumption DEF IInv, PlayersOK
  <1>4. t \in Transactions
    <2>1. (IF i \in Stocked THEN Restocked(i) ELSE 0) \in Nat /\ (IF i \in Stocked THEN due[i] ELSE 0) \in Nat
      BY <1>2
    <2> QED
      BY <1>3, <2>1 DEF Transactions, BuySnapshot, Idle
  <1>5. i \in Stocked /\ t.restock = 0 => t.stock <= stock[i]
    BY <1>1, <1>2 DEF IInv, StockOK
  <1>6. Formed(t)
    BY <1>1, <1>2, <1>4 DEF Formed, CanBuy
  <1>7. Current(t)
    BY <1>1, <1>2, <1>5 DEF Current, CanBuy
  <1> QED
    BY <1>6, <1>7

LEMMA SnapshotTrade ==
  ASSUME IInv, NEW b \in Players, NEW l \in Listings, NEW q \in Quantities, NEW n \in 1 .. MaxTries, CanTrade(b, l, q),
         NEW t, t = TradeSnapshot(b, l, q, n)
  PROVE  Formed(t) /\ Current(t)
  <1>1. /\ t.kind = "trade" /\ t.player = b /\ t.item = listing[l].item /\ t.quantity = q
        /\ t.listing = l /\ t.doomed = FALSE
    BY DEF TradeSnapshot, Idle
  <1>2. /\ listing[l].item \in Items \cup {None} /\ Starter \in Hardware /\ q \in Nat /\ n \in 0 .. MaxTries
    BY EconomyAssumption DEF IInv, ListingsOK, Rows, Hardware
  <1>3. t \in Transactions
    BY <1>2 DEF Transactions, TradeSnapshot, Idle
  <1>4. Formed(t)
    BY <1>1, <1>3 DEF Formed
  <1>5. Current(t)
    BY <1>1 DEF Current, CanTrade
  <1> QED
    BY <1>4, <1>5

\* One transaction begins, ends or starts over, the others stay as they are.
LEMMA OneChanges ==
  ASSUME FormedOK, CurrentOK, NEW r \in Requests, NEW t, tx' = [tx EXCEPT ![r] = t],
         Formed(t), Current(t)', \A u \in Transactions : Current(u) => Current(u)'
  PROVE  FormedOK' /\ CurrentOK'
  <1>1. \A x \in Requests : tx'[x] = IF x = r THEN t ELSE tx[x]
    BY DEF FormedOK
  <1>2. FormedOK'
    BY <1>1 DEF FormedOK, Formed
  <1>3. ASSUME NEW x \in Requests
        PROVE  (tx[x].doomed \/ Current(tx[x]))'
    <2>1. PICK u \in Transactions : u = tx[x]
      BY DEF FormedOK
    <2>2. u.doomed \/ Current(u)'
      BY <2>1 DEF CurrentOK, Current
    <2>3. CASE x = r
      BY <1>1, <2>3 DEF Current
    <2>4. CASE x # r
      <3>1. tx'[x] = u
        BY <1>1, <2>1, <2>4
      <3> QED
        BY <2>2, <3>1 DEF Current
    <2> QED
      BY <2>3, <2>4
  <1> QED
    BY <1>2, <1>3 DEF CurrentOK

\* A commit ends transactions, dooms others and leaves the rest as they are.
LEMMA Commits ==
  ASSUME FormedOK, CurrentOK, NEW E, NEW D,
         tx' = [x \in Requests |-> IF x \in E THEN Idle
                                   ELSE IF x \in D THEN [tx[x] EXCEPT !.doomed = TRUE] ELSE tx[x]],
         \A x \in Requests \ (E \cup D), u \in Transactions : u = tx[x] /\ Current(u) => Current(u)'
  PROVE  FormedOK' /\ CurrentOK'
  <1>1. ASSUME NEW x \in Requests
        PROVE  Formed([tx[x] EXCEPT !.doomed = TRUE])
    <2> DEFINE t == [tx[x] EXCEPT !.doomed = TRUE]
    <2>1. /\ Formed(tx[x]) /\ t \in Transactions /\ t.kind = tx[x].kind /\ t.player = tx[x].player
          /\ t.item = tx[x].item /\ t.quantity = tx[x].quantity /\ t.listing = tx[x].listing
          /\ t.key = tx[x].key /\ t.stock = tx[x].stock
      BY DEF FormedOK, Transactions
    <2> HIDE DEF t
    <2>2. Formed(t)
      BY <2>1 DEF Formed
    <2> QED
      BY <2>2 DEF t
  <1>2. ASSUME NEW x \in Requests
        PROVE  Formed(tx'[x])
    BY <1>1, IdleFormed DEF FormedOK
  <1>3. FormedOK'
    BY <1>2 DEF FormedOK, Formed
  <1>4. ASSUME NEW x \in Requests
        PROVE  (tx[x].doomed \/ Current(tx[x]))'
    <2>1. PICK u \in Transactions : u = tx[x]
      BY DEF FormedOK
    <2>2. CASE x \in E
      BY <2>2 DEF Current, Idle
    <2>3. CASE x \notin E /\ x \in D
      <3>1. tx'[x] = [u EXCEPT !.doomed = TRUE]
        BY <2>1, <2>3
      <3> QED
        BY <3>1 DEF Transactions
    <2>4. CASE x \notin E /\ x \notin D
      <3>1. tx'[x] = u /\ (u.doomed \/ Current(u)')
        BY <2>1, <2>4 DEF CurrentOK, Current
      <3> QED
        BY <3>1 DEF Current
    <2> QED
      BY <2>2, <2>3, <2>4
  <1> QED
    BY <1>3, <1>4 DEF CurrentOK

---------------------------------------------------------------------------
\* The invariant

LEMMA InitInvariant == Init => IInv
  <1> SUFFICES ASSUME Init PROVE IInv
    OBVIOUS
  <1>1. PlayersOK /\ NoOverdraft
    BY EconomyAssumption DEF Init, Shop!Init, PlayersOK, NoOverdraft, Operations, NoUpgrade, Hardware
  <1>2. StockOK
    BY EconomyAssumption DEF Init, StockOK
  <1>3. ListingsOK
    BY DEF Init, Shop!Init, Shop!Unused, ListingsOK, Rows
  <1>4. tx = [r \in Requests |-> Idle]
    BY DEF Init
  <1>5. FormedOK
    BY <1>4, IdleFormed DEF FormedOK, Formed
  <1>6. CurrentOK
    BY <1>4 DEF CurrentOK, Current, Idle
  <1>7. SupplyOK
    BY EconomyAssumption DEF Init, SupplyOK
  <1> QED
    BY <1>1, <1>2, <1>3, <1>5, <1>6, <1>7 DEF IInv

\* Nothing but tx changes.
LEMMA OnlyTx ==
  ASSUME IInv, UNCHANGED <<shop, uncounted, stock, due, past, op, keys, ghosts>>
  PROVE  /\ PlayersOK' /\ StockOK' /\ ListingsOK' /\ SupplyOK' /\ NoOverdraft'
         /\ \A t \in Transactions : Current(t) => Current(t)'
  <1> USE DEF shop, ghosts
  <1>1. PlayersOK' /\ NoOverdraft'
    BY DEF IInv, PlayersOK, NoOverdraft
  <1>2. StockOK' /\ SupplyOK'
    BY DEF IInv, StockOK, SupplyOK
  <1>3. ListingsOK'
    BY DEF IInv, ListingsOK
  <1>4. \A t \in Transactions : Current(t) => Current(t)'
    BY DEF Current
  <1> QED
    BY <1>1, <1>2, <1>3, <1>4

\* A transaction begins, starts over or gives up.
LEMMA TxBegins ==
  ASSUME IInv, UNCHANGED <<shop, uncounted, stock, due, past, op, keys, ghosts>>,
         NEW r \in Requests, NEW t, tx' = [tx EXCEPT ![r] = t], Formed(t), Current(t)
  PROVE  IInv'
  <1>1. t \in Transactions
    BY DEF Formed
  <1>2. Current(t)'
    BY <1>1, OnlyTx
  <1>3. FormedOK' /\ CurrentOK'
    BY <1>2, OnlyTx, OneChanges DEF IInv
  <1> QED
    BY <1>3, OnlyTx DEF IInv

LEMMA EarnStep ==
  ASSUME IInv, NEW p \in Players, Earn(p)
  PROVE  IInv'
  <1> USE DEF Earn
  <1>1. balance' \in [Players -> Int] /\ \A q \in Players : balance'[q] >= balance[q]
    BY EconomyAssumption DEF IInv, PlayersOK
  <1>2. PlayersOK' /\ NoOverdraft'
    BY <1>1 DEF IInv, PlayersOK, NoOverdraft
  <1>3. StockOK' /\ ListingsOK' /\ SupplyOK'
    BY DEF IInv, StockOK, ListingsOK, SupplyOK
  <1>4. ASSUME NEW t \in Transactions, Formed(t), Current(t)
        PROVE  Current(t)'
    <2>1. /\ t.kind \in {"buy", "trade"} => t.player \in Players /\ t.quantity \in Quantities
          /\ t.kind = "buy" => t.item \in Items
      BY <1>4 DEF Formed
    <2>2. ASSUME t.kind = "buy"
          PROVE  Cost(t.item, t.quantity) \in Nat
      <3>1. t.item \in Items /\ t.quantity \in Quantities
        BY <2>1, <2>2
      <3> QED
        BY <3>1, PriceTypes
    <2>3. ASSUME t.kind = "trade"
          PROVE  Ask(t.quantity) \in Nat
      <3>1. t.quantity \in Quantities
        BY <2>1, <2>3
      <3> QED
        BY <3>1, PriceTypes
    <2>4. t.player \in Players =>
            balance[t.player] \in Int /\ balance'[t.player] \in Int /\ balance'[t.player] >= balance[t.player]
      BY <1>1 DEF IInv, PlayersOK
    <2> QED
      BY <1>4, <2>1, <2>2, <2>3, <2>4 DEF Current
  <1>5. FormedOK' /\ CurrentOK'
    BY <1>4 DEF IInv, FormedOK, CurrentOK, Current, Formed
  <1> QED
    BY <1>2, <1>3, <1>5 DEF IInv

LEMMA UnitFallsDueStep ==
  ASSUME IInv, NEW i \in Items, UnitFallsDue(i)
  PROVE  IInv'
  <1> USE DEF UnitFallsDue, shop
  <1>1. PlayersOK' /\ ListingsOK' /\ NoOverdraft'
    BY DEF IInv, PlayersOK, ListingsOK, NoOverdraft
  <1>2. StockOK' /\ \A j \in Stocked : due'[j] >= due[j]
    BY EconomyAssumption DEF IInv, StockOK
  <1>3. ASSUME NEW j \in Stocked, ~tally'[j].raced
        PROVE  tally'[j].sold + stock'[j] + due'[j] <= Limit[j] + tally'[j].elapsed
    <2>1. /\ j \in Items /\ tally[j] \in [sold : Nat, lost : Nat, elapsed : Nat, raced : BOOLEAN]
          /\ stock[j] \in Nat /\ due[j] \in Nat /\ Limit[j] \in Nat
      BY EconomyAssumption DEF IInv, StockOK
    <2>2. /\ tally'[j] = IF j = i THEN [tally[j] EXCEPT !.elapsed = @ + 1] ELSE tally[j]
          /\ due'[j] = IF j = i THEN due[j] + 1 ELSE due[j]
          /\ stock'[j] = stock[j]
      BY DEF IInv, StockOK
    <2>3. ~tally[j].raced /\ tally'[j].sold = tally[j].sold
          /\ tally'[j].elapsed = IF j = i THEN tally[j].elapsed + 1 ELSE tally[j].elapsed
      BY <1>3, <2>1, <2>2
    <2>4. tally[j].sold + stock[j] + due[j] <= Limit[j] + tally[j].elapsed
      BY <2>3 DEF IInv, SupplyOK
    <2> QED
      BY <2>1, <2>2, <2>3, <2>4
  <1>4. FormedOK'
    BY DEF IInv, FormedOK, Formed
  <1>5. ASSUME NEW r \in Requests
        PROVE  (tx[r].doomed \/ Current(tx[r]))'
    <2>1. Formed(tx[r]) /\ (tx[r].doomed \/ Current(tx[r])) /\ tx[r] \in Transactions
      BY DEF IInv, FormedOK, CurrentOK
    <2>2. tx[r].kind \in {"buy", "browse"} /\ tx[r].item \in Stocked /\ tx[r].stock <= stock[tx[r].item] + due[tx[r].item]
            => tx[r].stock <= stock[tx[r].item] + due'[tx[r].item]
      BY <1>2, <2>1 DEF Formed, IInv, StockOK, Transactions
    <2> QED
      BY <2>1, <2>2 DEF Current
  <1>6. SupplyOK'
    BY <1>3 DEF SupplyOK
  <1> QED
    BY <1>1, <1>2, <1>4, <1>5, <1>6 DEF IInv, CurrentOK

LEMMA BeginPurchaseStep ==
  ASSUME IInv, NEW r \in Requests, NEW p \in Players, NEW i \in Items, NEW q \in Quantities, BeginPurchase(r, p, i, q)
  PROVE  IInv'
  <1>1. PICK t : t = BuySnapshot(p, i, q, 1)
    OBVIOUS
  <1>2. Formed(t) /\ Current(t)
    BY <1>1, SnapshotBuy, EconomyAssumption DEF BeginPurchase
  <1> QED
    BY <1>1, <1>2, TxBegins DEF BeginPurchase

LEMMA BrowseReadsStep ==
  ASSUME IInv, NEW r \in Requests, NEW i \in Items, BrowseReads(r, i)
  PROVE  IInv'
  <1>1. PICK t : t = [Idle EXCEPT !.kind = "browse", !.item = i, !.stock = Restocked(i)]
    OBVIOUS
  <1>2. t.kind = "browse" /\ t.item = i /\ t.stock = Restocked(i)
    BY <1>1 DEF Idle
  <1>3. i \in Stocked /\ Restocked(i) \in Nat /\ Restocked(i) <= Limit[i] /\ Restocked(i) <= stock[i] + due[i]
    BY RestockedBounds DEF IInv, BrowseReads
  <1>4. t \in Transactions
    BY <1>1, <1>3, Defaults DEF Transactions, Idle
  <1>5. Formed(t) /\ Current(t)
    BY <1>2, <1>3, <1>4 DEF Formed, Current
  <1> QED
    BY <1>1, <1>5, TxBegins DEF BrowseReads

LEMMA BeginTradeStep ==
  ASSUME IInv, NEW r \in Requests, NEW b \in Players, NEW l \in Listings, NEW q \in Quantities, BeginTrade(r, b, l, q)
  PROVE  IInv'
  <1>1. PICK t : t = TradeSnapshot(b, l, q, 1)
    OBVIOUS
  <1>2. Formed(t) /\ Current(t)
    BY <1>1, SnapshotTrade, EconomyAssumption DEF BeginTrade
  <1> QED
    BY <1>1, <1>2, TxBegins DEF BeginTrade

LEMMA StartUpgradeStep ==
  ASSUME IInv, NEW r \in Requests, NEW p \in Players, NEW i \in Upgrades, NEW k \in Keys, StartUpgrade(r, p, i, k)
  PROVE  IInv'
  <1>1. PICK t : t = [Idle EXCEPT !.kind = "start", !.player = p, !.item = i, !.key = k]
    OBVIOUS
  <1>2. t.kind = "start" /\ t.player = p /\ t.item = i /\ t.key = k
    BY <1>1 DEF Idle
  <1>3. t \in Transactions /\ i \in Items
    <2>1. i \in Items
      BY EconomyAssumption
    <2> QED
      BY <1>1, <2>1, Defaults DEF Transactions, Idle
  <1>4. Formed(t) /\ Current(t)
    BY <1>2, <1>3 DEF Formed, Current, StartUpgrade
  <1> QED
    BY <1>1, <1>4, TxBegins DEF StartUpgrade

LEMMA StatusReadsStep ==
  ASSUME IInv, NEW r \in Requests, NEW p \in Players, StatusReads(r, p)
  PROVE  IInv'
  <1>1. PICK t : t = [Idle EXCEPT !.kind = "status", !.player = p, !.item = op[p].item, !.key = op[p].key]
    OBVIOUS
  <1>2. t.kind = "status" /\ t.player = p /\ t.item = op[p].item /\ op[p].item \in Items
    BY <1>1 DEF Idle, StatusReads, IInv, PlayersOK
  <1>3. t \in Transactions
    <2>1. op[p] \in Operations
      BY DEF IInv, PlayersOK
    <2>2. op[p].item \in Items \cup {None} /\ op[p].key \in Keys \cup {None}
      BY <2>1 DEF Operations
    <2> QED
      BY <1>1, <2>2, Defaults DEF Transactions, Idle
  <1>4. Formed(t) /\ Current(t)
    BY <1>2, <1>3 DEF Formed, Current
  <1> QED
    BY <1>1, <1>4, TxBegins DEF StatusReads

\* Committing

LEMMA CommitPurchaseStep ==
  ASSUME IInv, NEW r \in Requests, CommitPurchase(r)
  PROVE  IInv'
  <1>1. PICK t \in Transactions : t = tx[r]
    BY DEF IInv, FormedOK
  <1>2. /\ t.kind = "buy" /\ t.player \in Players /\ t.item \in Items /\ t.quantity \in Quantities
        /\ t.quantity \in Nat /\ t.stock \in Nat
        /\ t.item \in Stocked => t.quantity <= t.stock /\ t.stock <= Limit[t.item]
        /\ t.restock \in Nat /\ Cost(t.item, t.quantity) \in Nat
    BY <1>1, PriceTypes, EconomyAssumption DEF CommitPurchase, IInv, FormedOK, Formed, Transactions
  <1>3. /\ balance[t.player] >= Cost(t.item, t.quantity)
        /\ t.hardware = hardware[t.player]
        /\ t.item \in Stocked => t.stock <= stock[t.item] + due[t.item]
        /\ t.item \in Stocked /\ t.restock = 0 => t.stock <= stock[t.item]
    BY <1>1, <1>2 DEF CommitPurchase, IInv, CurrentOK, Current
  <1>4. /\ balance' = [balance EXCEPT ![t.player] = @ - Cost(t.item, t.quantity)]
        /\ t.item \in Stocked => /\ stock' = [stock EXCEPT ![t.item] = t.stock - t.quantity]
                                  /\ due' = [due EXCEPT ![t.item] = IF t.restock > 0 THEN 0 ELSE @]
        /\ t.item \notin Stocked => stock' = stock /\ due' = due
        /\ hardware' = IF t.item \in Upgrades THEN [hardware EXCEPT ![t.player] = t.item] ELSE hardware
        /\ inventory' = [inventory EXCEPT ![t.player] = Shop!Stored(@, t.item, t.quantity, t.hardware)]
        /\ UNCHANGED <<uncounted, listing, past, op, keys, minted>>
    BY <1>1 DEF CommitPurchase
  <1>5. balance' \in [Players -> Int] /\ NoOverdraft'
    BY <1>2, <1>3, <1>4 DEF IInv, PlayersOK, NoOverdraft
  <1>6. \A held \in [Items -> Nat] : Shop!Stored(held, t.item, t.quantity, t.hardware) \in [Items -> Nat]
    BY <1>2 DEF Shop!Stored
  <1>7. hardware' \in [Players -> Hardware]
    BY <1>2, <1>4 DEF IInv, PlayersOK, Hardware
  <1>8. PlayersOK'
    BY <1>2, <1>4, <1>5, <1>6, <1>7 DEF IInv, PlayersOK
  <1>9. ListingsOK'
    BY <1>4 DEF IInv, ListingsOK
  <1>10. \A j \in Items :
           /\ tally'[j].sold = tally[j].sold + (IF j = t.item THEN t.quantity ELSE 0)
           /\ tally'[j].elapsed = tally[j].elapsed /\ tally'[j].raced = tally[j].raced
           /\ tally'[j] \in [sold : Nat, lost : Nat, elapsed : Nat, raced : BOOLEAN]
    <2> SUFFICES ASSUME NEW j \in Items
                 PROVE  /\ tally'[j].sold = tally[j].sold + (IF j = t.item THEN t.quantity ELSE 0)
                        /\ tally'[j].elapsed = tally[j].elapsed /\ tally'[j].raced = tally[j].raced
                        /\ tally'[j] \in [sold : Nat, lost : Nat, elapsed : Nat, raced : BOOLEAN]
      OBVIOUS
    <2> DEFINE replaced == t.item \in Upgrades /\ t.hardware # t.item /\ t.hardware \in Items
               lost == IF replaced /\ j = t.hardware THEN inventory[t.player][j] ELSE 0
               sold == IF j = t.item THEN t.quantity ELSE 0
    <2>1. tally'[j] = [tally[j] EXCEPT !.sold = @ + sold, !.lost = @ + lost]
      BY <1>1 DEF CommitPurchase
    <2>2. inventory[t.player][j] \in Nat
      BY <1>2 DEF IInv, PlayersOK
    <2>3. sold \in Nat /\ lost \in Nat
      BY <1>2, <2>2
    <2>4. tally[j] \in [sold : Nat, lost : Nat, elapsed : Nat, raced : BOOLEAN]
      BY DEF IInv, StockOK
    <2> HIDE DEF sold, lost
    <2>5. PICK u \in [sold : Nat, lost : Nat, elapsed : Nat, raced : BOOLEAN] : u = tally[j]
      BY <2>4
    <2>6. tally'[j] = [u EXCEPT !.sold = u.sold + sold, !.lost = u.lost + lost]
      BY <2>1, <2>5
    <2>7. /\ tally'[j].sold = tally[j].sold + sold /\ tally'[j].elapsed = tally[j].elapsed
          /\ tally'[j].raced = tally[j].raced
      BY <2>5, <2>6
    <2>8. u.sold + sold \in Nat /\ u.lost + lost \in Nat
      BY <2>3
    <2>9. tally'[j] \in [sold : Nat, lost : Nat, elapsed : Nat, raced : BOOLEAN]
      BY <2>6, <2>8
    <2> QED
      BY <2>7, <2>9 DEF sold
  <1>11. tally' \in [Items -> [sold : Nat, lost : Nat, elapsed : Nat, raced : BOOLEAN]]
    <2>1. \E F : tally' = [j \in Items |-> F[j]]
      <3> DEFINE F == [j \in Items |-> tally'[j]]
      <3>1. tally' = [j \in Items |-> F[j]]
        BY DEF CommitPurchase
      <3> QED
        BY <3>1
    <2> QED
      BY <1>10, <2>1
  <1>12. stock' \in [Stocked -> Nat] /\ due' \in [Stocked -> Nat] /\ \A j \in Stocked : stock'[j] <= Limit[j]
    <2>1. CASE t.item \in Stocked
      <3>1. t.stock - t.quantity \in Nat /\ t.stock - t.quantity <= Limit[t.item]
        BY <1>2, <2>1, EconomyAssumption
      <3>2. stock' \in [Stocked -> Nat] /\ \A j \in Stocked : stock'[j] <= Limit[j]
        BY <1>4, <2>1, <3>1 DEF IInv, StockOK
      <3>3. due' \in [Stocked -> Nat]
        BY <1>4, <2>1 DEF IInv, StockOK
      <3> QED
        BY <3>2, <3>3
    <2>2. CASE t.item \notin Stocked
      BY <1>4, <2>2 DEF IInv, StockOK
    <2> QED
      BY <2>1, <2>2
  <1>13. StockOK'
    BY <1>11, <1>12 DEF StockOK
  <1>14. ASSUME NEW j \in Stocked, ~tally'[j].raced
         PROVE  tally'[j].sold + stock'[j] + due'[j] <= Limit[j] + tally'[j].elapsed
    <2>1. /\ j \in Items /\ tally[j] \in [sold : Nat, lost : Nat, elapsed : Nat, raced : BOOLEAN]
          /\ stock[j] \in Nat /\ due[j] \in Nat /\ Limit[j] \in Nat
      BY EconomyAssumption DEF IInv, StockOK
    <2>2. tally[j].sold + stock[j] + due[j] <= Limit[j] + tally[j].elapsed
      BY <1>10, <1>14, <2>1 DEF IInv, SupplyOK
    <2>3. CASE j = t.item
      <3>1. stock'[j] = t.stock - t.quantity /\ t.stock + due'[j] <= stock[j] + due[j] /\ due'[j] \in Nat
        BY <1>2, <1>3, <1>4, <2>1, <2>3 DEF IInv, StockOK
      <3>2. tally'[j].sold = tally[j].sold + t.quantity /\ tally'[j].elapsed = tally[j].elapsed
        BY <1>10, <2>1, <2>3
      <3> QED
        BY <1>2, <2>1, <2>2, <3>1, <3>2
    <2>4. CASE j # t.item
      <3>1. stock'[j] = stock[j] /\ due'[j] = due[j]
        <4>1. CASE t.item \in Stocked
          BY <1>4, <2>4, <4>1 DEF IInv, StockOK
        <4>2. CASE t.item \notin Stocked
          BY <1>4, <4>2
        <4> QED
          BY <4>1, <4>2
      <3>2. tally'[j].sold = tally[j].sold /\ tally'[j].elapsed = tally[j].elapsed
        BY <1>10, <2>1, <2>4
      <3> QED
        BY <2>2, <3>1, <3>2
    <2> QED
      BY <2>3, <2>4
  <1>15. SupplyOK'
    BY <1>14 DEF SupplyOK
  <1> DEFINE D == {x \in Requests : tx[x].kind # "idle" /\ DisturbedByPurchase(t, tx[x])}
  <1>16. tx' = [x \in Requests |-> IF x \in {r} THEN Idle
                                   ELSE IF x \in D THEN [tx[x] EXCEPT !.doomed = TRUE] ELSE tx[x]]
    BY <1>1 DEF CommitPurchase, Doom
  <1>17. ASSUME NEW x \in Requests \ ({r} \cup D), NEW u \in Transactions, u = tx[x], Current(u)
         PROVE  Current(u)'
    <2>1. Formed(u) /\ (u.kind = "idle" \/ ~DisturbedByPurchase(t, u))
      BY <1>17 DEF IInv, FormedOK
    <2>2. u.kind \in {"buy", "trade"} => u.player \in Players /\ u.player # t.player /\ balance'[u.player] = balance[u.player]
      BY <1>4, <2>1 DEF Formed, DisturbedByPurchase, IInv, PlayersOK
    <2>3. u.kind = "buy" => hardware'[u.player] = hardware[u.player]
      BY <1>4, <2>1, <2>2 DEF IInv, PlayersOK
    <2>4. u.kind \in {"buy", "browse"} /\ u.item \in Stocked =>
            stock'[u.item] = stock[u.item] /\ due'[u.item] = due[u.item]
      <3>1. CASE t.item \in Stocked
        BY <1>4, <2>1, <3>1 DEF Formed, DisturbedByPurchase, IInv, StockOK
      <3>2. CASE t.item \notin Stocked
        BY <1>4, <3>2
      <3> QED
        BY <3>1, <3>2
    <2> QED
      BY <1>4, <1>17, <2>2, <2>3, <2>4 DEF Current
  <1>18. FormedOK' /\ CurrentOK'
    BY <1>16, <1>17, Commits DEF IInv
  <1> QED
    BY <1>5, <1>8, <1>9, <1>13, <1>15, <1>18 DEF IInv

LEMMA BrowseWritesStep ==
  ASSUME IInv, NEW r \in Requests, BrowseWrites(r)
  PROVE  IInv'
  <1>1. PICK t \in Transactions : t = tx[r]
    BY DEF IInv, FormedOK
  <1>2. t.kind = "browse" /\ t.item \in Stocked /\ t.stock \in Nat /\ t.stock <= Limit[t.item] /\ t.doomed \in BOOLEAN
    BY <1>1 DEF BrowseWrites, IInv, FormedOK, Formed, Transactions
  <1>3. t.doomed \/ t.stock <= stock[t.item] + due[t.item]
    BY <1>1, <1>2 DEF IInv, CurrentOK, Current
  <1>4. /\ stock' = [stock EXCEPT ![t.item] = t.stock]
        /\ due' = [due EXCEPT ![t.item] = 0]
        /\ tally' = [tally EXCEPT ![t.item].raced = @ \/ t.doomed]
        /\ UNCHANGED <<shop, uncounted, past, op, keys, minted>>
    BY <1>1 DEF BrowseWrites
  <1>5. PlayersOK' /\ ListingsOK' /\ NoOverdraft'
    BY <1>4 DEF IInv, PlayersOK, ListingsOK, NoOverdraft, shop
  <1>6. StockOK'
    <2>1. stock' \in [Stocked -> Nat] /\ \A j \in Stocked : stock'[j] <= Limit[j]
      BY <1>2, <1>4 DEF IInv, StockOK
    <2>2. due' \in [Stocked -> Nat]
      BY <1>4 DEF IInv, StockOK
    <2>3. tally' \in [Items -> [sold : Nat, lost : Nat, elapsed : Nat, raced : BOOLEAN]]
      BY <1>2, <1>4 DEF IInv, StockOK
    <2> QED
      BY <2>1, <2>2, <2>3 DEF StockOK
  <1>7. ASSUME NEW j \in Stocked, ~tally'[j].raced
        PROVE  tally'[j].sold + stock'[j] + due'[j] <= Limit[j] + tally'[j].elapsed
    <2>1. /\ j \in Items /\ tally[j] \in [sold : Nat, lost : Nat, elapsed : Nat, raced : BOOLEAN]
          /\ stock[j] \in Nat /\ due[j] \in Nat /\ Limit[j] \in Nat
      BY EconomyAssumption DEF IInv, StockOK
    <2>2. tally'[j] = IF j = t.item THEN [tally[j] EXCEPT !.raced = @ \/ t.doomed] ELSE tally[j]
      BY <1>4, <2>1 DEF IInv, StockOK
    <2>3. /\ ~tally[j].raced /\ tally'[j].sold = tally[j].sold /\ tally'[j].elapsed = tally[j].elapsed
          /\ j = t.item => ~t.doomed
      BY <1>2, <1>7, <2>1, <2>2
    <2>4. tally[j].sold + stock[j] + due[j] <= Limit[j] + tally[j].elapsed
      BY <2>3 DEF IInv, SupplyOK
    <2>5. CASE j = t.item
      <3>1. stock'[j] = t.stock /\ due'[j] = 0 /\ t.stock <= stock[j] + due[j]
        BY <1>3, <1>4, <2>3, <2>5 DEF IInv, StockOK
      <3> QED
        BY <1>2, <2>1, <2>3, <2>4, <3>1
    <2>6. CASE j # t.item
      BY <1>4, <2>3, <2>4, <2>6 DEF IInv, StockOK
    <2> QED
      BY <2>5, <2>6
  <1>8. SupplyOK'
    BY <1>7 DEF SupplyOK
  <1> DEFINE D == {x \in Requests : tx[x].kind \in {"buy", "browse"} /\ tx[x].item = t.item}
  <1>9. tx' = [x \in Requests |-> IF x \in {r} THEN Idle
                                  ELSE IF x \in D THEN [tx[x] EXCEPT !.doomed = TRUE] ELSE tx[x]]
    BY <1>1 DEF BrowseWrites, Doom
  <1>10. ASSUME NEW x \in Requests \ ({r} \cup D), NEW u \in Transactions, u = tx[x], Current(u)
         PROVE  Current(u)'
    <2>1. Formed(u) /\ (u.kind \in {"buy", "browse"} => u.item # t.item)
      BY <1>10 DEF IInv, FormedOK
    <2>2. u.kind \in {"buy", "browse"} => stock'[u.item] = stock[u.item] /\ due'[u.item] = due[u.item]
      BY <1>4, <2>1 DEF Formed, IInv, StockOK
    <2> QED
      BY <1>4, <1>10, <2>2 DEF Current, shop
  <1>11. FormedOK' /\ CurrentOK'
    BY <1>9, <1>10, Commits DEF IInv
  <1> QED
    BY <1>5, <1>6, <1>8, <1>11 DEF IInv

LEMMA CommitStartStep ==
  ASSUME IInv, NEW r \in Requests, CommitStart(r)
  PROVE  IInv'
  <1>1. PICK t \in Transactions : t = tx[r]
    BY DEF IInv, FormedOK
  <1>2. t.kind = "start" /\ t.player \in Players /\ t.item \in Items /\ t.key \in Keys /\ Price[t.item] \in Nat
    BY <1>1, EconomyAssumption DEF CommitStart, IInv, FormedOK, Formed
  <1>3. /\ op' = [op EXCEPT ![t.player] = [item |-> t.item, key |-> t.key, status |-> "running", ripe |-> FALSE]]
        /\ keys' = [keys EXCEPT ![t.player] = @ \cup {t.key}]
        /\ uncounted' = [uncounted EXCEPT ![t.player] = @ - Price[t.item]]
        /\ UNCHANGED <<shop, stock, due, past, ghosts>>
    BY <1>1 DEF CommitStart
  <1>4. [item |-> t.item, key |-> t.key, status |-> "running", ripe |-> FALSE] \in Operations
    BY <1>2 DEF Operations
  <1>5. PlayersOK' /\ NoOverdraft'
    BY <1>2, <1>3, <1>4 DEF IInv, PlayersOK, NoOverdraft, shop
  <1>6. StockOK' /\ ListingsOK' /\ SupplyOK'
    BY <1>3 DEF IInv, StockOK, ListingsOK, SupplyOK, shop, ghosts
  <1> DEFINE D == {x \in Requests : tx[x].kind = "start" /\ tx[x].player = t.player}
  <1>7. tx' = [x \in Requests |-> IF x \in {r} THEN Idle
                                  ELSE IF x \in D THEN [tx[x] EXCEPT !.doomed = TRUE] ELSE tx[x]]
    BY <1>1 DEF CommitStart, Doom
  <1>8. ASSUME NEW x \in Requests \ ({r} \cup D), NEW u \in Transactions, u = tx[x], Current(u)
        PROVE  Current(u)'
    <2>1. u.kind = "start" => u.player \in Players /\ u.player # t.player
      BY <1>8 DEF IInv, FormedOK, Formed
    <2>2. u.kind = "start" => op'[u.player] = op[u.player] /\ keys'[u.player] = keys[u.player]
      BY <1>3, <2>1 DEF IInv, PlayersOK
    <2> QED
      BY <1>3, <1>8, <2>2 DEF Current, shop
  <1>9. FormedOK' /\ CurrentOK'
    BY <1>7, <1>8, Commits DEF IInv
  <1> QED
    BY <1>5, <1>6, <1>9 DEF IInv

LEMMA UpgradeRipensStep ==
  ASSUME IInv, NEW p \in Players, UpgradeRipens(p)
  PROVE  IInv'
  <1>1. op' = [op EXCEPT ![p].ripe = TRUE] /\ UNCHANGED <<shop, uncounted, stock, due, past, keys, tx, ghosts>>
    BY DEF UpgradeRipens
  <1>2. op' \in [Players -> Operations]
    BY <1>1 DEF IInv, PlayersOK, Operations
  <1>3. \A q \in Players : op'[q].status = op[q].status /\ op'[q].item = op[q].item
    BY <1>1 DEF IInv, PlayersOK, Operations
  <1>4. PlayersOK' /\ NoOverdraft'
    BY <1>1, <1>2, <1>3 DEF IInv, PlayersOK, NoOverdraft, shop
  <1>5. StockOK' /\ ListingsOK' /\ SupplyOK'
    BY <1>1 DEF IInv, StockOK, ListingsOK, SupplyOK, shop, ghosts
  <1>6. FormedOK'
    BY <1>1 DEF IInv, FormedOK, Formed
  <1>7. ASSUME NEW x \in Requests
        PROVE  (tx[x].doomed \/ Current(tx[x]))'
    <2>1. Formed(tx[x]) /\ (tx[x].doomed \/ Current(tx[x]))
      BY DEF IInv, FormedOK, CurrentOK
    <2>2. tx[x].kind = "start" => op'[tx[x].player].status = op[tx[x].player].status
      BY <1>3, <2>1 DEF Formed
    <2> QED
      BY <1>1, <2>1, <2>2 DEF Current, shop
  <1> QED
    BY <1>4, <1>5, <1>6, <1>7 DEF IInv, CurrentOK

LEMMA StatusCompletesStep ==
  ASSUME IInv, NEW r \in Requests, StatusCompletes(r)
  PROVE  IInv'
  <1>1. PICK t \in Transactions : t = tx[r]
    BY DEF IInv, FormedOK
  <1>2. t.kind = "status" /\ t.player \in Players /\ t.item \in Items
    BY <1>1 DEF StatusCompletes, IInv, FormedOK, Formed
  <1>3. /\ hardware' = [hardware EXCEPT ![t.player] = t.item]
        /\ op' = op \/ op' = [op EXCEPT ![t.player].status = "completed"]
        /\ op[t.player].key # t.key => op' = op
        /\ UNCHANGED <<balance, inventory, listing, uncounted, stock, due, past, keys, ghosts>>
    BY <1>1 DEF StatusCompletes, Shop!Equip
  <1>4. op' \in [Players -> Operations]
    <2>1. CASE op' = op
      BY <2>1 DEF IInv, PlayersOK
    <2>2. CASE op' = [op EXCEPT ![t.player].status = "completed"]
      <3>1. PICK u \in Operations : u = op[t.player]
        BY <1>2 DEF IInv, PlayersOK
      <3>2. [u EXCEPT !.status = "completed"] \in Operations
        BY DEF Operations
      <3>3. op' = [op EXCEPT ![t.player] = [u EXCEPT !.status = "completed"]]
        BY <2>2, <3>1
      <3> QED
        BY <1>2, <3>2, <3>3 DEF IInv, PlayersOK
    <2> QED
      BY <1>3, <2>1, <2>2
  <1>5. \A q \in Players : op'[q].status = "running" => op[q].status = "running" /\ op'[q].item = op[q].item
    BY <1>2, <1>3 DEF IInv, PlayersOK, Operations
  <1>6. \A q \in Players \ {t.player} : op'[q] = op[q]
    BY <1>2, <1>3 DEF IInv, PlayersOK
  <1>7. hardware' \in [Players -> Hardware] /\ \A q \in Players \ {t.player} : hardware'[q] = hardware[q]
    BY <1>2, <1>3 DEF IInv, PlayersOK, Hardware
  <1>8. PlayersOK' /\ NoOverdraft'
    BY <1>3, <1>4, <1>5, <1>7 DEF IInv, PlayersOK, NoOverdraft
  <1>9. StockOK' /\ ListingsOK' /\ SupplyOK'
    BY <1>3 DEF IInv, StockOK, ListingsOK, SupplyOK, ghosts
  <1> DEFINE D == {x \in Requests : tx[x].kind \in {"buy", "start"} /\ tx[x].player = t.player}
  <1>10. tx' = [x \in Requests |-> IF x \in {r} THEN Idle
                                   ELSE IF x \in D THEN [tx[x] EXCEPT !.doomed = TRUE] ELSE tx[x]]
    BY <1>1 DEF StatusCompletes, Doom
  <1>11. ASSUME NEW x \in Requests \ ({r} \cup D), NEW u \in Transactions, u = tx[x], Current(u)
         PROVE  Current(u)'
    <2>1. u.kind \in {"buy", "start"} => u.player \in Players /\ u.player # t.player
      BY <1>11 DEF IInv, FormedOK, Formed
    <2>2. u.kind \in {"buy", "start"} => hardware'[u.player] = hardware[u.player] /\ op'[u.player] = op[u.player]
      BY <1>6, <1>7, <2>1
    <2> QED
      BY <1>3, <1>11, <2>2 DEF Current
  <1>12. FormedOK' /\ CurrentOK'
    BY <1>10, <1>11, Commits DEF IInv
  <1> QED
    BY <1>8, <1>9, <1>12 DEF IInv

---------------------------------------------------------------------------
\* Listings

LEMMA ListEquipmentStep ==
  ASSUME IInv, NEW p \in Players, NEW i \in Items, NEW q \in ListQuantities, NEW l \in Listings,
         ListEquipment(p, i, q, l)
  PROVE  IInv'
  <1> DEFINE row == [seller |-> p, item |-> i, remaining |-> q, status |-> "active"]
  <1>1. /\ listing[l].status = "unused" /\ inventory[p][i] >= q
        /\ inventory' = [inventory EXCEPT ![p][i] = @ - q]
        /\ listing' = [listing EXCEPT ![l] = row]
        /\ UNCHANGED <<balance, hardware, uncounted, stock, due, past, op, keys, ghosts>>
    BY DEF ListEquipment, Shop!List
  <1>2. q \in Nat \ {0} /\ row \in Rows
    BY EconomyAssumption DEF Rows
  <1>3. inventory' \in [Players -> [Items -> Nat]]
    BY <1>1, <1>2 DEF IInv, PlayersOK
  <1>4. PlayersOK' /\ NoOverdraft'
    BY <1>1, <1>3 DEF IInv, PlayersOK, NoOverdraft
  <1>5. ListingsOK'
    BY <1>1, <1>2 DEF IInv, ListingsOK
  <1>6. StockOK' /\ SupplyOK'
    BY <1>1 DEF IInv, StockOK, SupplyOK, ghosts
  <1> DEFINE D == {x \in Requests : /\ tx[x].kind # "idle"
                                    /\ tx[x].player = p /\ (\/ tx[x].kind = "buy" /\ i \in {tx[x].item, tx[x].hardware}
                                                            \/ tx[x].kind = "trade" /\ tx[x].item = i)}
             E == Requests \cap {None}
  <1>7. tx' = [x \in Requests |-> IF x \in E THEN Idle
                                  ELSE IF x \in D THEN [tx[x] EXCEPT !.doomed = TRUE] ELSE tx[x]]
    BY DEF ListEquipment, Doom
  <1>8. ASSUME NEW x \in Requests \ (E \cup D), NEW u \in Transactions, u = tx[x], Current(u)
        PROVE  Current(u)'
    <2>1. u.kind = "trade" => u.listing \in Listings /\ u.listing # l
      BY <1>1, <1>8 DEF IInv, FormedOK, Formed, Current
    <2>2. u.kind = "trade" => listing'[u.listing] = listing[u.listing]
      BY <1>1, <2>1 DEF IInv, ListingsOK
    <2> QED
      BY <1>1, <1>8, <2>2 DEF Current
  <1>9. FormedOK' /\ CurrentOK'
    BY <1>7, <1>8, Commits DEF IInv
  <1> QED
    BY <1>4, <1>5, <1>6, <1>9 DEF IInv

\* A listing is closed, and the trades of it are doomed.
LEMMA Closing ==
  ASSUME IInv, NEW l \in Listings, NEW st \in {"unlisted", "expired"}, listing[l].status = "active",
         listing' = [listing EXCEPT ![l].status = st],
         UNCHANGED <<balance, hardware, uncounted, stock, due, past, op, keys, ghosts>>
  PROVE  /\ ListingsOK' /\ StockOK' /\ SupplyOK' /\ NoOverdraft'
         /\ \A u \in Transactions :
              Formed(u) /\ Current(u) /\ (u.kind = "trade" => u.listing # l) => Current(u)'
  <1>1. listing' \in [Listings -> Rows]
    BY DEF IInv, ListingsOK, Rows
  <1>2. \A k \in Listings : /\ listing'[k].seller = listing[k].seller /\ listing'[k].item = listing[k].item
                            /\ listing'[k].remaining = listing[k].remaining
                            /\ listing'[k].status = IF k = l THEN st ELSE listing[k].status
    BY DEF IInv, ListingsOK, Rows
  <1>3. ListingsOK'
    BY <1>1, <1>2 DEF IInv, ListingsOK
  <1>4. StockOK' /\ SupplyOK' /\ NoOverdraft'
    BY DEF IInv, StockOK, SupplyOK, NoOverdraft, ghosts
  <1>5. ASSUME NEW u \in Transactions, Formed(u), Current(u), u.kind = "trade" => u.listing # l
        PROVE  Current(u)'
    <2>1. u.kind = "trade" => u.listing \in Listings
      BY <1>5 DEF Formed
    <2> QED
      BY <1>2, <1>5, <2>1 DEF Current
  <1> QED
    BY <1>3, <1>4, <1>5

LEMMA UnlistEquipmentStep ==
  ASSUME IInv, NEW l \in Listings, UnlistEquipment(l)
  PROVE  IInv'
  <1> DEFINE row == listing[l]
  <1>1. /\ row.status = "active"
        /\ inventory' = [inventory EXCEPT ![row.seller][row.item] = @ + row.remaining]
        /\ listing' = [listing EXCEPT ![l].status = "unlisted"]
        /\ UNCHANGED <<balance, hardware, uncounted, stock, due, past, op, keys, ghosts>>
    BY DEF UnlistEquipment, Shop!Unlist
  <1>2. row \in Rows /\ row.seller \in Players /\ row.item \in Items /\ row.remaining \in Nat
    BY <1>1 DEF IInv, ListingsOK, Rows
  <1>3. inventory' \in [Players -> [Items -> Nat]]
    BY <1>1, <1>2 DEF IInv, PlayersOK
  <1>4. PlayersOK'
    BY <1>1, <1>3 DEF IInv, PlayersOK
  <1> DEFINE Hit(x) == \/ x.kind = "trade" /\ x.listing = l
                       \/ x.player = row.seller /\ (\/ x.kind = "buy" /\ row.item \in {x.item, x.hardware}
                                                    \/ x.kind = "trade" /\ x.item = row.item)
             D == {x \in Requests : tx[x].kind # "idle" /\ Hit(tx[x])}
             E == Requests \cap {None}
  <1>5. tx' = [x \in Requests |-> IF x \in E THEN Idle
                                  ELSE IF x \in D THEN [tx[x] EXCEPT !.doomed = TRUE] ELSE tx[x]]
    BY DEF UnlistEquipment, Doom
  <1>6. ASSUME NEW x \in Requests \ (E \cup D), NEW u \in Transactions, u = tx[x], Current(u)
        PROVE  Current(u)'
    <2>1. Formed(u) /\ (u.kind = "trade" => u.listing # l)
      BY <1>6 DEF IInv, FormedOK
    <2> QED
      BY <1>1, <1>6, <2>1, Closing
  <1>7. FormedOK' /\ CurrentOK'
    BY <1>5, <1>6, Commits DEF IInv
  <1> QED
    BY <1>1, <1>4, <1>7, Closing DEF IInv

LEMMA FindsExpiredStep ==
  ASSUME IInv, NEW l \in Listings, FindsExpired(l)
  PROVE  IInv'
  <1>1. /\ listing[l].status = "active"
        /\ listing' = [listing EXCEPT ![l].status = "expired"]
        /\ UNCHANGED <<balance, inventory, hardware, uncounted, stock, due, past, op, keys, ghosts>>
    BY DEF FindsExpired, Shop!Expire
  <1>2. PlayersOK'
    BY <1>1 DEF IInv, PlayersOK
  <1> DEFINE D == {x \in Requests : tx[x].kind = "trade" /\ tx[x].listing = l}
             E == Requests \cap {None}
  <1>3. tx' = [x \in Requests |-> IF x \in E THEN Idle
                                  ELSE IF x \in D THEN [tx[x] EXCEPT !.doomed = TRUE] ELSE tx[x]]
    BY DEF FindsExpired, Doom
  <1>4. ASSUME NEW x \in Requests \ (E \cup D), NEW u \in Transactions, u = tx[x], Current(u)
        PROVE  Current(u)'
    <2>1. Formed(u) /\ (u.kind = "trade" => u.listing # l)
      BY <1>4 DEF IInv, FormedOK
    <2> QED
      BY <1>1, <1>4, <2>1, Closing
  <1>5. FormedOK' /\ CurrentOK'
    BY <1>3, <1>4, Commits DEF IInv
  <1> QED
    BY <1>1, <1>2, <1>5, Closing DEF IInv

LEMMA ExpiryPassesStep ==
  ASSUME IInv, NEW l \in Listings, ExpiryPasses(l)
  PROVE  IInv'
  <1> USE DEF ExpiryPasses, shop, ghosts
  <1>1. PlayersOK' /\ StockOK' /\ SupplyOK' /\ NoOverdraft'
    BY DEF IInv, PlayersOK, StockOK, SupplyOK, NoOverdraft
  <1>2. ListingsOK'
    BY DEF IInv, ListingsOK
  <1>3. FormedOK' /\ CurrentOK'
    BY DEF IInv, FormedOK, Formed, CurrentOK, Current
  <1> QED
    BY <1>1, <1>2, <1>3 DEF IInv

---------------------------------------------------------------------------
\* Trades

LEMMA CommitTradeStep ==
  ASSUME IInv, NEW r \in Requests, CommitTrade(r)
  PROVE  IInv'
  <1>1. PICK t \in Transactions : t = tx[r]
    BY DEF IInv, FormedOK
  <1> DEFINE l == t.listing
             row == listing[l]
             q == t.quantity
             left == row.remaining - q
             st == IF row.remaining = q THEN "sold_out" ELSE "active"
  <1>2. t.kind = "trade" /\ ~t.doomed /\ Formed(t) /\ Current(t)
    BY <1>1 DEF CommitTrade, IInv, FormedOK, CurrentOK
  <1>3. /\ t.player \in Players /\ l \in Listings /\ q \in Quantities /\ row.status = "active"
        /\ row.seller # t.player /\ row.remaining >= q /\ balance[t.player] >= Ask(q)
    BY <1>2 DEF Formed, Current
  <1>4. /\ listing' = [listing EXCEPT ![l].remaining = @ - q, ![l].status = st]
        /\ inventory' = [inventory EXCEPT ![t.player][row.item] = @ + q]
        /\ balance' = [balance EXCEPT ![t.player] = @ - Ask(q), ![row.seller] = @ + Proceeds(q)]
        /\ UNCHANGED <<uncounted, hardware, stock, due, past, op, keys, ghosts>>
    BY <1>1 DEF CommitTrade
  <1>5. /\ Ask(q) \in Nat /\ Proceeds(q) \in Nat /\ q \in Nat \ {0}
    BY <1>3, PriceTypes, ProceedsType, EconomyAssumption
  <1>6. row \in Rows /\ row.seller \in Players /\ row.item \in Items /\ row.remaining \in Nat
    BY <1>3 DEF IInv, ListingsOK, Rows
  <1>7. /\ balance' \in [Players -> Int]
        /\ \A p \in Players \ {t.player} : balance'[p] >= balance[p]
        /\ \A p \in Players \ {t.player, row.seller} : balance'[p] = balance[p]
        /\ balance'[t.player] = balance[t.player] - Ask(q)
    <2> HIDE DEF row, q
    <2> QED
      BY <1>3, <1>4, <1>5, <1>6 DEF IInv, PlayersOK
  <1>8. inventory' \in [Players -> [Items -> Nat]]
    BY <1>3, <1>4, <1>5, <1>6 DEF IInv, PlayersOK
  <1>9. PlayersOK'
    BY <1>4, <1>7, <1>8 DEF IInv, PlayersOK
  <1>10. NoOverdraft'
    <2>1. ASSUME NEW p \in Players
          PROVE  balance'[p] >= 0
      <3>1. balance[p] \in Int /\ balance'[p] \in Int /\ balance[p] >= 0
        BY <1>7 DEF IInv, PlayersOK, NoOverdraft
      <3>2. CASE p = t.player
        BY <1>3, <1>5, <1>7, <3>1, <3>2
      <3>3. CASE p # t.player
        BY <1>7, <3>1, <3>3
      <3> QED
        BY <3>2, <3>3
    <2> QED
      BY <2>1 DEF NoOverdraft
  <1>11. StockOK' /\ SupplyOK'
    BY <1>4 DEF IInv, StockOK, SupplyOK, ghosts
  <1>12. left \in Nat /\ (left = 0 <=> st = "sold_out") /\ st \in {"sold_out", "active"}
    BY <1>3, <1>5, <1>6
  <1>13. PICK v \in Rows : /\ listing' = [listing EXCEPT ![l] = v]
                           /\ v.seller = row.seller /\ v.item = row.item /\ v.remaining = left /\ v.status = st
    <2>1. PICK w \in Rows : w = row
      BY <1>6
    <2>2. PICK w1 : w1 = [w EXCEPT !.remaining = left]
      OBVIOUS
    <2>3. w1 \in Rows /\ w1.seller = w.seller /\ w1.item = w.item /\ w1.remaining = left
      BY <1>12, <2>2 DEF Rows
    <2>4. PICK w2 : w2 = [w1 EXCEPT !.status = st]
      OBVIOUS
    <2> HIDE DEF st, left
    <2>5. /\ w2 \in Rows /\ w2.seller = w1.seller /\ w2.item = w1.item
          /\ w2.remaining = w1.remaining /\ w2.status = st
      BY <1>12, <2>3, <2>4 DEF Rows
    <2>6. listing' = [listing EXCEPT ![l] = w2]
      <3> USE DEF left
      <3> QED
        BY <1>3, <1>4, <2>1, <2>2, <2>4 DEF IInv, ListingsOK
    <2> QED
      BY <2>1, <2>3, <2>5, <2>6
  <1>14. ListingsOK'
    <2> HIDE DEF left, st
    <2>1. listing' \in [Listings -> Rows] /\ past' \subseteq Listings
      BY <1>4, <1>13 DEF IInv, ListingsOK
    <2>2. ASSUME NEW k \in Listings
          PROVE  /\ listing'[k].status # "unused" => listing'[k].seller \in Players /\ listing'[k].item \in Items
                 /\ listing'[k].status = "sold_out" <=> listing'[k].status # "unused" /\ listing'[k].remaining = 0
      <3>1. CASE k = l
        <4>1. listing'[k] = v
          BY <1>13, <3>1 DEF IInv, ListingsOK
        <4> QED
          BY <1>6, <1>12, <1>13, <4>1
      <3>2. CASE k # l
        <4>1. listing'[k] = listing[k]
          BY <1>13, <3>2 DEF IInv, ListingsOK
        <4> QED
          BY <4>1 DEF IInv, ListingsOK
      <3> QED
        BY <3>1, <3>2
    <2> QED
      BY <2>1, <2>2 DEF ListingsOK
  <1> DEFINE Hit(x) == \/ x.kind \in {"buy", "trade"} /\ x.player = t.player
                       \/ x.kind = "trade" /\ x.listing = t.listing
                       \/ x.kind = "trade" /\ Parties(x) \cap Parties(t) # {}
             D == {x \in Requests : tx[x].kind # "idle" /\ Hit(tx[x])}
  <1>15. tx' = [x \in Requests |-> IF x \in {r} THEN Idle
                                   ELSE IF x \in D THEN [tx[x] EXCEPT !.doomed = TRUE] ELSE tx[x]]
    BY <1>1 DEF CommitTrade, Doom, DisturbedByTrade
  <1>16. ASSUME NEW x \in Requests \ ({r} \cup D), NEW u \in Transactions, u = tx[x], Current(u)
         PROVE  Current(u)'
    <2>1. Formed(u) /\ ~(u.kind # "idle" /\ Hit(u))
      BY <1>16 DEF IInv, FormedOK
    <2>2. ASSUME u.kind = "buy"
          PROVE  balance'[u.player] >= Cost(u.item, u.quantity)
      <3>1. u.player \in Players \ {t.player} /\ u.item \in Items /\ u.quantity \in Quantities
        BY <2>1, <2>2 DEF Formed
      <3>2. Cost(u.item, u.quantity) \in Nat /\ balance[u.player] >= Cost(u.item, u.quantity)
        BY <1>16, <2>2, <3>1, PriceTypes DEF Current
      <3>3. balance[u.player] \in Int /\ balance'[u.player] \in Int /\ balance'[u.player] >= balance[u.player]
        BY <1>7, <3>1 DEF IInv, PlayersOK
      <3> QED
        BY <3>2, <3>3
    <2>3. ASSUME u.kind = "trade"
          PROVE  balance'[u.player] = balance[u.player] /\ listing'[u.listing] = listing[u.listing]
      <3>1. u.player \in Players \ {t.player, row.seller} /\ u.listing \in Listings \ {l}
        BY <2>1, <2>3 DEF Formed, Parties
      <3> QED
        BY <1>7, <1>13, <3>1 DEF IInv, ListingsOK
    <2> HIDE DEF D, l, row, q, left, st
    <2> QED
      BY <1>4, <1>16, <2>2, <2>3 DEF Current
  <1>17. FormedOK' /\ CurrentOK'
    <2> HIDE DEF D
    <2> QED
      BY <1>15, <1>16, Commits DEF IInv
  <1> QED
    BY <1>9, <1>10, <1>11, <1>14, <1>17 DEF IInv

LEMMA FailsStep ==
  ASSUME IInv, NEW r \in Requests, Fails(r)
  PROVE  IInv'
  <1>1. PICK t \in Transactions : t = tx[r]
    BY DEF IInv, FormedOK
  <1>2. Formed(t) /\ t.tries \in 0 .. MaxTries /\ MaxTries \in Nat
    BY <1>1, EconomyAssumption DEF IInv, FormedOK, Transactions
  <1>3. UNCHANGED <<shop, uncounted, stock, due, past, op, keys, ghosts>>
    BY DEF Fails
  <1>4. CASE t.kind = "buy" /\ t.tries < MaxTries /\ CanBuy(t.player, t.item, t.quantity)
    <2>1. PICK n : n = t.tries + 1
      OBVIOUS
    <2>2. PICK s : s = BuySnapshot(t.player, t.item, t.quantity, n)
      OBVIOUS
    <2>3. n \in 1 .. MaxTries /\ t.player \in Players /\ t.item \in Items /\ t.quantity \in Quantities
      BY <1>2, <1>4, <2>1 DEF Formed
    <2>4. Formed(s) /\ Current(s)
      BY <1>4, <2>2, <2>3, SnapshotBuy
    <2>5. tx' = [tx EXCEPT ![r] = s]
      BY <1>1, <1>4, <2>1, <2>2 DEF Fails
    <2> QED
      BY <1>3, <2>4, <2>5, TxBegins
  <1>5. CASE t.kind = "trade" /\ t.tries < MaxTries /\ CanTrade(t.player, t.listing, t.quantity)
    <2>1. PICK n : n = t.tries + 1
      OBVIOUS
    <2>2. PICK s : s = TradeSnapshot(t.player, t.listing, t.quantity, n)
      OBVIOUS
    <2>3. n \in 1 .. MaxTries /\ t.player \in Players /\ t.listing \in Listings /\ t.quantity \in Quantities
      BY <1>2, <1>5, <2>1 DEF Formed
    <2>4. Formed(s) /\ Current(s)
      BY <1>5, <2>2, <2>3, SnapshotTrade
    <2>5. tx' = [tx EXCEPT ![r] = s]
      BY <1>1, <1>5, <2>1, <2>2 DEF Fails
    <2> QED
      BY <1>3, <2>4, <2>5, TxBegins
  <1>6. CASE ~ (t.kind = "buy" /\ t.tries < MaxTries /\ CanBuy(t.player, t.item, t.quantity))
             /\ ~ (t.kind = "trade" /\ t.tries < MaxTries /\ CanTrade(t.player, t.listing, t.quantity))
    <2>1. PICK s : s = Idle
      OBVIOUS
    <2>2. tx' = [tx EXCEPT ![r] = s]
      BY <1>1, <1>6, <2>1 DEF Fails
    <2>3. Formed(s) /\ Current(s)
      BY <2>1, IdleFormed DEF Current, Idle
    <2> QED
      BY <1>3, <2>2, <2>3, TxBegins
  <1> QED
    BY <1>4, <1>5, <1>6

---------------------------------------------------------------------------
\* The theorems

LEMMA StepInvariant == IInv /\ [Next]_vars => IInv'
  <1> SUFFICES ASSUME IInv, [Next]_vars PROVE IInv'
    OBVIOUS
  <1>1. CASE \E p \in Players : Earn(p) \/ UpgradeRipens(p)
    BY <1>1, EarnStep, UpgradeRipensStep
  <1>2. CASE \E i \in Items : UnitFallsDue(i)
    BY <1>2, UnitFallsDueStep
  <1>3. CASE \E r \in Requests, p \in Players, i \in Items, q \in Quantities : BeginPurchase(r, p, i, q)
    BY <1>3, BeginPurchaseStep
  <1>4. CASE \E r \in Requests, i \in Items : BrowseReads(r, i)
    BY <1>4, BrowseReadsStep
  <1>5. CASE \E p \in Players, i \in Items, q \in ListQuantities, l \in Listings : ListEquipment(p, i, q, l)
    BY <1>5, ListEquipmentStep
  <1>6. CASE \E l \in Listings : UnlistEquipment(l) \/ ExpiryPasses(l) \/ FindsExpired(l)
    BY <1>6, UnlistEquipmentStep, ExpiryPassesStep, FindsExpiredStep
  <1>7. CASE \E r \in Requests, b \in Players, l \in Listings, q \in Quantities : BeginTrade(r, b, l, q)
    BY <1>7, BeginTradeStep
  <1>8. CASE \E r \in Requests, p \in Players, i \in Upgrades, k \in Keys : StartUpgrade(r, p, i, k)
    BY <1>8, StartUpgradeStep
  <1>9. CASE \E r \in Requests, p \in Players : StatusReads(r, p)
    BY <1>9, StatusReadsStep
  <1>10. CASE \E r \in Requests : CommitPurchase(r) \/ BrowseWrites(r) \/ CommitTrade(r) \/ Fails(r)
    BY <1>10, CommitPurchaseStep, BrowseWritesStep, CommitTradeStep, FailsStep
  <1>11. CASE \E r \in Requests : CommitStart(r) \/ StatusCompletes(r)
    BY <1>11, CommitStartStep, StatusCompletesStep
  <1>12. CASE UNCHANGED vars
    <2> USE <1>12 DEF vars, shop, ghosts
    <2>1. PlayersOK' /\ NoOverdraft' /\ ListingsOK'
      BY DEF IInv, PlayersOK, NoOverdraft, ListingsOK
    <2>2. StockOK' /\ SupplyOK'
      BY DEF IInv, StockOK, SupplyOK
    <2>3. FormedOK' /\ CurrentOK'
      BY DEF IInv, FormedOK, Formed, CurrentOK, Current
    <2> QED
      BY <2>1, <2>2, <2>3 DEF IInv
  <1> QED
    BY <1>1, <1>2, <1>3, <1>4, <1>5, <1>6, <1>7, <1>8, <1>9, <1>10, <1>11, <1>12 DEF Next

\* What every transaction in flight relies on holds in every reachable state.
THEOREM Invariant == Spec => []IInv
  BY InitInvariant, StepInvariant, PTL DEF Spec

LEMMA InvariantTypes == IInv => TypeOK
  <1> SUFFICES ASSUME IInv PROVE TypeOK
    OBVIOUS
  <1>1. \A p \in Players : /\ {balance[p], uncounted[p]} \subseteq Int
                           /\ hardware[p] \in Hardware
                           /\ op[p].status \in {"none", "running", "completed"}
                           /\ keys[p] \subseteq Keys
    BY DEF IInv, PlayersOK, Operations
  <1>2. inventory \in [Players -> [Items -> Nat]]
    BY DEF IInv, PlayersOK
  <1>3. \A i \in Stocked : {stock[i], due[i]} \subseteq Nat /\ stock[i] <= Limit[i]
    BY DEF IInv, StockOK
  <1>4. past \subseteq Listings
    BY DEF IInv, ListingsOK
  <1>5. \A l \in Listings :
          /\ listing[l].remaining \in Nat
          /\ listing[l].status \in {"unused", "active", "unlisted", "expired", "sold_out"}
          /\ listing[l].status = "sold_out" <=> listing[l].status # "unused" /\ listing[l].remaining = 0
    BY DEF IInv, ListingsOK, Rows
  <1>6. \A r \in Requests :
          tx[r].kind \in {"idle", "buy", "browse", "trade", "start", "status"} /\ tx[r].tries <= MaxTries
    BY EconomyAssumption DEF IInv, FormedOK, Transactions
  <1> QED
    BY <1>1, <1>2, <1>3, <1>4, <1>5, <1>6 DEF TypeOK

\* Every variable keeps its type; a listing is sold out exactly when nothing of it remains.
THEOREM TypeCorrect == Spec => []TypeOK
  BY Invariant, InvariantTypes, PTL

\* No interleaving of purchases, trades and upgrades overdraws a player.
THEOREM NeverOverdrawn == Spec => []NoOverdraft
  <1>1. IInv => NoOverdraft
    BY DEF IInv
  <1> QED
    BY <1>1, Invariant, PTL

\* The market sells no more of an item than its inventory and its restock rate bring, unless a
\* catalogue read overwrote a purchase.
THEOREM SupplyKept == Spec => []SoldWithinSupply
  <1>1. IInv => SoldWithinSupply
    <2> SUFFICES ASSUME IInv, NEW i \in Stocked, ~tally[i].raced PROVE WithinSupply(i)
      BY DEF SoldWithinSupply
    <2>1. /\ tally[i].sold + stock[i] + due[i] <= Limit[i] + tally[i].elapsed
          /\ tally[i] \in [sold : Nat, lost : Nat, elapsed : Nat, raced : BOOLEAN]
          /\ stock[i] \in Nat /\ due[i] \in Nat /\ Limit[i] \in Nat
      BY EconomyAssumption DEF IInv, SupplyOK, StockOK
    <2> QED
      BY <2>1 DEF WithinSupply
  <1> QED
    BY <1>1, Invariant, PTL

\* Nothing but the commit of a start charges an upgrade.
LEMMA OnlyStartsCharge ==
  ASSUME [Next]_vars, ~\E r \in Requests : CommitStart(r)
  PROVE  uncounted' = uncounted
  BY DEF Next, vars, Earn, UnitFallsDue, BeginPurchase, BrowseReads, ListEquipment, UnlistEquipment,
         ExpiryPasses, FindsExpired, BeginTrade, StartUpgrade, StatusReads, UpgradeRipens, CommitPurchase,
         BrowseWrites, CommitTrade, Fails, StatusCompletes

\* Of the starts of a player that race, with one key or with several, one is charged: where no
\* upgrade runs and for a key that was never used.
THEOREM StartedOnce == Spec => StartsOnce
  <1>1. ASSUME IInv, [Next]_vars, NEW p \in Players, uncounted'[p] # uncounted[p]
        PROVE  op[p].status # "running" /\ op'[p].status = "running" /\ op'[p].key \notin keys[p]
    <2>1. PICK r \in Requests : CommitStart(r)
      BY <1>1, OnlyStartsCharge
    <2>2. PICK t \in Transactions : t = tx[r]
      BY <1>1 DEF IInv, FormedOK
    <2>3. t.kind = "start" /\ Formed(t) /\ Current(t) /\ t.player \in Players
      BY <1>1, <2>1, <2>2 DEF CommitStart, IInv, FormedOK, CurrentOK, Formed
    <2>4. /\ op' = [op EXCEPT ![t.player] = [item |-> t.item, key |-> t.key, status |-> "running", ripe |-> FALSE]]
          /\ uncounted' = [uncounted EXCEPT ![t.player] = @ - Price[t.item]]
      BY <2>1, <2>2 DEF CommitStart
    <2>5. p = t.player
      BY <1>1, <2>4 DEF IInv, PlayersOK
    <2> QED
      BY <1>1, <2>3, <2>4, <2>5 DEF Current, IInv, PlayersOK
  <1>2. IInv /\ [Next]_vars
          => [\A p \in Players :
                uncounted'[p] # uncounted[p] =>
                  op[p].status # "running" /\ op'[p].status = "running" /\ op'[p].key \notin keys[p]]_vars
    BY <1>1
  <1> QED
    BY <1>2, Invariant, PTL DEF Spec, StartsOnce

\* A purchase commits what its snapshot promised: the credits are there, the hardware is the same.
LEMMA PurchaseIsAtomic ==
  ASSUME IInv, NEW r \in Requests, CommitPurchase(r)
  PROVE  Shop!Next
  <1>1. PICK t \in Transactions : t = tx[r]
    BY DEF IInv, FormedOK
  <1>2. t.kind = "buy" /\ ~t.doomed /\ Formed(t) /\ Current(t)
    BY <1>1 DEF CommitPurchase, IInv, FormedOK, CurrentOK
  <1>3. /\ t.player \in Players /\ t.item \in Items /\ t.quantity \in Quantities
        /\ balance[t.player] >= Cost(t.item, t.quantity) /\ t.hardware = hardware[t.player]
    BY <1>2 DEF Formed, Current
  <1>4. Shop!Buy(t.player, t.item, t.quantity)
    BY <1>1, <1>3 DEF CommitPurchase, Shop!Buy
  <1> QED
    BY <1>3, <1>4 DEF Shop!Next

\* A trade commits while the listing is still active and holds the units.
LEMMA TradeIsAtomic ==
  ASSUME IInv, NEW r \in Requests, CommitTrade(r)
  PROVE  Shop!Next
  <1>1. PICK t \in Transactions : t = tx[r]
    BY DEF IInv, FormedOK
  <1>2. t.kind = "trade" /\ ~t.doomed /\ Formed(t) /\ Current(t)
    BY <1>1 DEF CommitTrade, IInv, FormedOK, CurrentOK
  <1>3. /\ t.player \in Players /\ t.listing \in Listings /\ t.quantity \in Quantities
        /\ listing[t.listing].status = "active" /\ listing[t.listing].seller # t.player
        /\ listing[t.listing].remaining >= t.quantity /\ balance[t.player] >= Ask(t.quantity)
    BY <1>2 DEF Formed, Current
  <1>4. Shop!Trade(t.player, t.listing, t.quantity)
    BY <1>1, <1>3 DEF CommitTrade, Shop!Trade
  <1> QED
    BY <1>3, <1>4 DEF Shop!Next

LEMMA StepIsAtomic == IInv /\ [Next]_vars => [Shop!Next]_(Shop!shopVars)
  <1> SUFFICES ASSUME IInv, [Next]_vars PROVE Shop!Next \/ UNCHANGED Shop!shopVars
    OBVIOUS
  <1>1. ASSUME NEW p \in Players, Earn(p)
        PROVE  Shop!Next
    <2>1. balance' = [balance EXCEPT ![p] = balance'[p]] /\ balance'[p] >= balance[p]
      BY <1>1, EconomyAssumption DEF Earn, IInv, PlayersOK
    <2>2. Shop!Earn(p)
      BY <1>1, <2>1 DEF Earn, Shop!Earn
    <2> QED
      BY <2>2 DEF Shop!Next
  <1>2. ASSUME NEW r \in Requests, StatusCompletes(r)
        PROVE  Shop!Next
    <2>1. tx[r].player \in Players /\ tx[r].item \in Items
      BY <1>2 DEF StatusCompletes, IInv, FormedOK, Formed
    <2> QED
      BY <1>2, <2>1 DEF StatusCompletes, Shop!Next
  <1>3. CASE \E p \in Players, i \in Items, q \in ListQuantities, l \in Listings : ListEquipment(p, i, q, l)
    BY <1>3 DEF ListEquipment, Shop!Next
  <1>4. CASE \E l \in Listings : UnlistEquipment(l) \/ FindsExpired(l)
    BY <1>4 DEF UnlistEquipment, FindsExpired, Shop!Next
  <1>5. CASE \E r \in Requests : CommitPurchase(r) \/ CommitTrade(r)
    BY <1>5, PurchaseIsAtomic, TradeIsAtomic
  <1>6. CASE \/ \E p \in Players : UpgradeRipens(p)
             \/ \E i \in Items : UnitFallsDue(i)
             \/ \E r \in Requests, p \in Players, i \in Items, q \in Quantities : BeginPurchase(r, p, i, q)
             \/ \E r \in Requests, i \in Items : BrowseReads(r, i)
             \/ \E l \in Listings : ExpiryPasses(l)
             \/ \E r \in Requests, b \in Players, l \in Listings, q \in Quantities : BeginTrade(r, b, l, q)
             \/ \E r \in Requests, p \in Players, i \in Upgrades, k \in Keys : StartUpgrade(r, p, i, k)
             \/ \E r \in Requests, p \in Players : StatusReads(r, p)
             \/ \E r \in Requests : BrowseWrites(r) \/ Fails(r) \/ CommitStart(r)
    <2>1. UNCHANGED shop
      BY <1>6 DEF UpgradeRipens, UnitFallsDue, BeginPurchase, BrowseReads, ExpiryPasses, BeginTrade,
                  StartUpgrade, StatusReads, BrowseWrites, Fails, CommitStart
    <2> QED
      BY <2>1 DEF shop, Shop!shopVars
  <1>7. CASE UNCHANGED vars
    BY <1>7 DEF vars, shop, Shop!shopVars
  <1> QED
    BY <1>1, <1>2, <1>3, <1>4, <1>5, <1>6, <1>7 DEF Next

\* Economy implements AtomicShop: every purchase and every trade happens at one moment.
THEOREM TradesAreAtomic == Spec => AtomicTrades
  <1>1. Init => Shop!Init
    BY DEF Init
  <1> QED
    BY <1>1, StepIsAtomic, Invariant, PTL DEF Spec, AtomicTrades, Shop!Spec
---------------------------------------------------------------------------
\* Units

LEMMA Finite == IsFiniteSet(Players) /\ IsFiniteSet(Listings)
  BY EconomyAssumption

\* What the inventories hold of an item, and what the listings keep of it.
LEMMA UnitTypes ==
  ASSUME PlayersOK, ListingsOK, NEW i \in Items
  PROVE  /\ Held(i) \in Nat /\ Escrow(i) \in Nat
         /\ \A l \in Listings : Escrowed(l, i) \in Nat
  <1>1. \A p \in Players : [q \in Players |-> inventory[q][i]][p] \in Nat
    BY DEF PlayersOK
  <1>2. \A l \in Listings : Escrowed(l, i) \in Nat
    BY DEF ListingsOK, Rows, Escrowed
  <1> DEFINE h == [q \in Players |-> inventory[q][i]]
             e == [l \in Listings |-> Escrowed(l, i)]
  <1>3. (\A p \in Players : h[p] \in Nat) /\ (\A l \in Listings : e[l] \in Nat)
    BY <1>1, <1>2
  <1>4. Held(i) = SumFunctionOnSet(h, Players) /\ Escrow(i) = SumFunctionOnSet(e, Listings)
    BY DEF Held, Escrow
  <1> HIDE DEF h, e
  <1> QED
    BY <1>2, <1>3, <1>4, Finite, SumNat

\* One player's inventory changes: the units held change with it.
LEMMA HeldChanges ==
  ASSUME PlayersOK, PlayersOK', NEW i \in Items, NEW p \in Players,
         \A q \in Players \ {p} : inventory'[q] = inventory[q]
  PROVE  Held(i)' = Held(i) + (inventory'[p][i] - inventory[p][i])
  <1> DEFINE f == [q \in Players |-> inventory[q][i]]
             g == [q \in Players |-> inventory'[q][i]]
  <1>1. /\ \A q \in Players : f[q] \in Int /\ g[q] \in Int
        /\ \A q \in Players \ {p} : g[q] = f[q]
        /\ g[p] - f[p] = inventory'[p][i] - inventory[p][i]
    BY DEF PlayersOK
  <1>2. Held(i) = SumFunctionOnSet(f, Players) /\ Held(i)' = SumFunctionOnSet(g, Players)
    BY DEF Held
  <1> HIDE DEF f, g
  <1>3. SumFunctionOnSet(g, Players) = SumFunctionOnSet(f, Players) + (g[p] - f[p])
    BY <1>1, Finite, SumUpdate
  <1> QED
    BY <1>1, <1>2, <1>3

\* One listing changes: the units kept change with it.
LEMMA EscrowChanges ==
  ASSUME ListingsOK, ListingsOK', NEW i \in Items, NEW l \in Listings,
         \A k \in Listings \ {l} : listing'[k] = listing[k]
  PROVE  Escrow(i)' = Escrow(i) + (Escrowed(l, i)' - Escrowed(l, i))
  <1> DEFINE f == [k \in Listings |-> Escrowed(k, i)]
             g == [k \in Listings |-> Escrowed(k, i)']
  <1>1. /\ \A k \in Listings : Escrowed(k, i) \in Int /\ Escrowed(k, i)' \in Int
        /\ \A k \in Listings \ {l} : Escrowed(k, i)' = Escrowed(k, i)
    BY DEF ListingsOK, Rows, Escrowed
  <1>2. /\ \A k \in Listings : f[k] \in Int /\ g[k] \in Int
        /\ \A k \in Listings \ {l} : g[k] = f[k]
        /\ g[l] - f[l] = Escrowed(l, i)' - Escrowed(l, i)
    BY <1>1
  <1>3. Escrow(i) = SumFunctionOnSet(f, Listings) /\ Escrow(i)' = SumFunctionOnSet(g, Listings)
    BY DEF Escrow
  <1> HIDE DEF f, g
  <1>4. SumFunctionOnSet(g, Listings) = SumFunctionOnSet(f, Listings) + (g[l] - f[l])
    BY <1>2, Finite, SumUpdate
  <1> QED
    BY <1>2, <1>3, <1>4

\* Nothing that counts units changes.
LEMMA UnitsUntouched ==
  ASSUME UnitsConserved, UNCHANGED <<inventory, listing>>,
         \A i \in Items : tally'[i].sold = tally[i].sold /\ tally'[i].lost = tally[i].lost
  PROVE  UnitsConserved'
  <1>1. \A i \in Items : Held(i)' = Held(i) /\ Escrow(i)' = Escrow(i)
    BY DEF Held, Escrow, Escrowed
  <1> QED
    BY <1>1 DEF UnitsConserved

\* A purchase brings the units it sold, and throws away what it replaces.
LEMMA PurchaseUnits ==
  ASSUME IInv, IInv', UnitsConserved, NEW r \in Requests, CommitPurchase(r)
  PROVE  UnitsConserved'
  <1> DEFINE t == tx[r]
             p == t.player
             replaced == t.item \in Upgrades /\ t.hardware # t.item /\ t.hardware \in Items
  <1>1. /\ p \in Players /\ t.item \in Items /\ t.quantity \in Nat
        /\ inventory \in [Players -> [Items -> Nat]]
        /\ tally \in [Items -> [sold : Nat, lost : Nat, elapsed : Nat, raced : BOOLEAN]]
    BY EconomyAssumption DEF IInv, FormedOK, Formed, Transactions, CommitPurchase, PlayersOK, StockOK
  <1>2. /\ inventory' = [inventory EXCEPT ![p] = Shop!Stored(inventory[p], t.item, t.quantity, t.hardware)]
        /\ listing' = listing
    BY DEF CommitPurchase
  <1>3. ASSUME NEW i \in Items
        PROVE  Held(i)' + Escrow(i)' + tally'[i].lost = tally'[i].sold
    <2>1. Held(i)' = Held(i) + (inventory'[p][i] - inventory[p][i])
      BY <1>1, <1>2, HeldChanges DEF IInv
    <2>2. Escrow(i)' = Escrow(i)
      BY <1>2 DEF Escrow, Escrowed
    <2>3. inventory'[p][i] = IF replaced /\ i = t.hardware THEN 0
                             ELSE IF i = t.item THEN inventory[p][i] + t.quantity ELSE inventory[p][i]
      BY <1>1, <1>2 DEF Shop!Stored
    <2>4. /\ tally'[i].sold = tally[i].sold + (IF i = t.item THEN t.quantity ELSE 0)
          /\ tally'[i].lost = tally[i].lost + (IF replaced /\ i = t.hardware THEN inventory[p][i] ELSE 0)
      <3> DEFINE sold == IF i = t.item THEN t.quantity ELSE 0
                 lost == IF replaced /\ i = t.hardware THEN inventory[p][i] ELSE 0
      <3>1. tally'[i] = [tally[i] EXCEPT !.sold = tally[i].sold + sold, !.lost = tally[i].lost + lost]
        BY DEF CommitPurchase
      <3>2. tally[i] \in [sold : Nat, lost : Nat, elapsed : Nat, raced : BOOLEAN]
        BY <1>1
      <3> HIDE DEF sold, lost
      <3>3. tally'[i].sold = tally[i].sold + sold /\ tally'[i].lost = tally[i].lost + lost
        BY <3>1, <3>2
      <3> QED
        BY <3>3 DEF sold, lost
    <2>5. /\ Held(i) \in Nat /\ Escrow(i) \in Nat /\ tally[i].sold \in Nat /\ tally[i].lost \in Nat
          /\ inventory[p][i] \in Nat
      BY <1>1, UnitTypes DEF IInv
    <2>6. Held(i) + Escrow(i) + tally[i].lost = tally[i].sold
      BY DEF UnitsConserved
    <2>7. replaced /\ i = t.hardware => i # t.item
      OBVIOUS
    <2> HIDE DEF replaced, t, p
    <2> QED
      BY <1>1, <2>1, <2>2, <2>3, <2>4, <2>5, <2>6, <2>7
  <1> QED
    BY <1>3 DEF UnitsConserved

\* What the tables say of a listing's units, before and after it changes hands with an inventory.
LEMMA UnitsMove ==
  ASSUME IInv, IInv', UnitsConserved, NEW p \in Players, NEW l \in Listings,
         \A q \in Players \ {p} : inventory'[q] = inventory[q],
         \A k \in Listings \ {l} : listing'[k] = listing[k],
         \A i \in Items : inventory'[p][i] + Escrowed(l, i)' = inventory[p][i] + Escrowed(l, i),
         tally' = tally
  PROVE  UnitsConserved'
  <1> SUFFICES ASSUME NEW i \in Items
               PROVE  Held(i)' + Escrow(i)' + tally'[i].lost = tally'[i].sold
    BY DEF UnitsConserved
  <1>1. Held(i)' = Held(i) + (inventory'[p][i] - inventory[p][i])
    BY HeldChanges DEF IInv
  <1>2. Escrow(i)' = Escrow(i) + (Escrowed(l, i)' - Escrowed(l, i))
    BY EscrowChanges DEF IInv
  <1>3. Held(i) \in Nat /\ Escrow(i) \in Nat /\ Escrowed(l, i) \in Nat /\ Escrowed(l, i)' \in Nat
    <2>1. Escrowed(l, i)' \in Nat
      BY DEF IInv, ListingsOK, Rows, Escrowed
    <2> QED
      BY <2>1, UnitTypes DEF IInv
  <1>4. inventory[p][i] \in Nat /\ inventory'[p][i] \in Nat /\ tally[i].lost \in Nat /\ tally[i].sold \in Nat
    BY DEF IInv, PlayersOK, StockOK
  <1>5. /\ Held(i) + Escrow(i) + tally[i].lost = tally[i].sold
        /\ inventory'[p][i] + Escrowed(l, i)' = inventory[p][i] + Escrowed(l, i)
    BY DEF UnitsConserved
  <1> QED
    BY <1>1, <1>2, <1>3, <1>4, <1>5

LEMMA ListUnits ==
  ASSUME IInv, IInv', UnitsConserved, NEW p \in Players, NEW i \in Items, NEW q \in ListQuantities,
         NEW l \in Listings, ListEquipment(p, i, q, l)
  PROVE  UnitsConserved'
  <1>1. /\ inventory' = [inventory EXCEPT ![p][i] = inventory[p][i] - q]
        /\ listing' = [listing EXCEPT ![l] = [seller |-> p, item |-> i, remaining |-> q, status |-> "active"]]
        /\ listing[l].status = "unused" /\ tally' = tally
    BY DEF ListEquipment, Shop!List, ghosts
  <1>2. inventory \in [Players -> [Items -> Nat]] /\ listing \in [Listings -> Rows] /\ q \in Nat
    BY EconomyAssumption DEF IInv, PlayersOK, ListingsOK
  <1>3. listing'[l] = [seller |-> p, item |-> i, remaining |-> q, status |-> "active"]
    BY <1>1, <1>2
  <1>4. \A j \in Items : Escrowed(l, j) = 0 /\ Escrowed(l, j)' = IF j = i THEN q ELSE 0
    BY <1>1, <1>3 DEF Escrowed
  <1>5. \A j \in Items : inventory'[p][j] = IF j = i THEN inventory[p][j] - q ELSE inventory[p][j]
    BY <1>1, <1>2
  <1>6. \A j \in Items : inventory'[p][j] + Escrowed(l, j)' = inventory[p][j] + Escrowed(l, j)
    BY <1>2, <1>4, <1>5
  <1>7. /\ \A k \in Players \ {p} : inventory'[k] = inventory[k]
        /\ \A k \in Listings \ {l} : listing'[k] = listing[k]
    BY <1>1, <1>2
  <1> QED
    BY <1>1, <1>6, <1>7, UnitsMove

LEMMA UnlistUnits ==
  ASSUME IInv, IInv', UnitsConserved, NEW l \in Listings, UnlistEquipment(l)
  PROVE  UnitsConserved'
  <1> DEFINE p == listing[l].seller
             i == listing[l].item
             n == listing[l].remaining
  <1>1. /\ inventory' = [inventory EXCEPT ![p][i] = inventory[p][i] + n]
        /\ listing' = [listing EXCEPT ![l].status = "unlisted"]
        /\ listing[l].status = "active" /\ tally' = tally
    BY DEF UnlistEquipment, Shop!Unlist, ghosts
  <1>2. /\ inventory \in [Players -> [Items -> Nat]] /\ listing \in [Listings -> Rows]
        /\ p \in Players /\ i \in Items /\ n \in Nat
    BY <1>1 DEF IInv, PlayersOK, ListingsOK, Rows
  <1>3. listing'[l].status = "unlisted"
    BY <1>1, <1>2 DEF Rows
  <1>4. \A j \in Items : Escrowed(l, j)' = 0 /\ Escrowed(l, j) = IF j = i THEN n ELSE 0
    BY <1>1, <1>3 DEF Escrowed
  <1>5. \A j \in Items : inventory'[p][j] = IF j = i THEN inventory[p][j] + n ELSE inventory[p][j]
    BY <1>1, <1>2
  <1> HIDE DEF p, i, n
  <1>6. \A j \in Items : inventory'[p][j] + Escrowed(l, j)' = inventory[p][j] + Escrowed(l, j)
    BY <1>2, <1>4, <1>5
  <1>7. /\ \A k \in Players \ {p} : inventory'[k] = inventory[k]
        /\ \A k \in Listings \ {l} : listing'[k] = listing[k]
    BY <1>1, <1>2
  <1> QED
    BY <1>1, <1>2, <1>6, <1>7, UnitsMove

LEMMA TradeUnits ==
  ASSUME IInv, IInv', UnitsConserved, NEW r \in Requests, CommitTrade(r)
  PROVE  UnitsConserved'
  <1>0. PICK l \in Listings, p \in Players : l = tx[r].listing /\ p = tx[r].player
    BY DEF CommitTrade, IInv, FormedOK, Formed
  <1> DEFINE i == listing[l].item
             n == tx[r].quantity
             s == IF listing[l].remaining = n THEN "sold_out" ELSE "active"
  <1>1. /\ inventory' = [inventory EXCEPT ![p][i] = inventory[p][i] + n]
        /\ listing' = [listing EXCEPT ![l].remaining = listing[l].remaining - n, ![l].status = s]
        /\ tally' = tally
    BY <1>0 DEF CommitTrade, ghosts
  <1>2. Formed(tx[r]) /\ Current(tx[r]) /\ tx[r].kind = "trade"
    BY DEF CommitTrade, IInv, FormedOK, CurrentOK
  <1>3. /\ l \in Listings /\ p \in Players /\ n \in Nat
        /\ listing[l].status = "active" /\ listing[l].remaining >= n
    BY <1>0, <1>2, EconomyAssumption DEF Formed, Current, Transactions
  <1>4. /\ inventory \in [Players -> [Items -> Nat]] /\ listing \in [Listings -> Rows]
        /\ i \in Items /\ listing[l].remaining \in Nat
    BY <1>3 DEF IInv, PlayersOK, ListingsOK, Rows
  <1>5. s \in {"sold_out", "active"}
    OBVIOUS
  <1> HIDE DEF s
  <1>6. listing'[l] = [listing[l] EXCEPT !.remaining = listing[l].remaining - n, !.status = s]
    BY <1>1, <1>3, <1>4
  <1>7. listing'[l].item = i /\ listing'[l].status = s /\ listing'[l].remaining = listing[l].remaining - n
    BY <1>3, <1>4, <1>6 DEF Rows
  <1>8. \A j \in Items : /\ Escrowed(l, j) = IF j = i THEN listing[l].remaining ELSE 0
                         /\ Escrowed(l, j)' = IF j = i THEN listing[l].remaining - n ELSE 0
    BY <1>3, <1>5, <1>7 DEF Escrowed
  <1>9. \A j \in Items : inventory'[p][j] = IF j = i THEN inventory[p][j] + n ELSE inventory[p][j]
    BY <1>1, <1>3, <1>4
  <1>10. /\ \A k \in Players \ {p} : inventory'[k] = inventory[k]
         /\ \A k \in Listings \ {l} : listing'[k] = listing[k]
    BY <1>1, <1>3, <1>4
  <1> HIDE DEF i, n
  <1>11. \A j \in Items : inventory'[p][j] + Escrowed(l, j)' = inventory[p][j] + Escrowed(l, j)
    BY <1>3, <1>4, <1>8, <1>9
  <1> QED
    BY <1>1, <1>3, <1>10, <1>11, UnitsMove

\* An expired listing keeps its units.
LEMMA ExpireUnits ==
  ASSUME IInv, UnitsConserved, NEW l \in Listings, FindsExpired(l)
  PROVE  UnitsConserved'
  <1>1. /\ listing' = [listing EXCEPT ![l].status = "expired"] /\ listing[l].status = "active"
        /\ inventory' = inventory /\ tally' = tally /\ listing \in [Listings -> Rows]
    BY DEF FindsExpired, Shop!Expire, ghosts, IInv, ListingsOK
  <1>2. \A k \in Listings : /\ listing'[k].item = listing[k].item /\ listing'[k].remaining = listing[k].remaining
                            /\ listing'[k].status = IF k = l THEN "expired" ELSE listing[k].status
    BY <1>1 DEF Rows
  <1>3. \A k \in Listings, i \in Items : Escrowed(k, i)' = Escrowed(k, i)
    BY <1>1, <1>2 DEF Escrowed
  <1>4. \A i \in Items : Held(i)' = Held(i) /\ Escrow(i)' = Escrow(i)
    BY <1>1, <1>3 DEF Held, Escrow
  <1> QED
    BY <1>1, <1>4 DEF UnitsConserved

LEMMA UnitsStep ==
  ASSUME IInv, IInv', UnitsConserved, [Next]_vars
  PROVE  UnitsConserved'
  <1>1. CASE UNCHANGED <<inventory, listing, tally>>
    BY <1>1, UnitsUntouched
  <1>2. CASE \E i \in Items : UnitFallsDue(i)
    <2>1. PICK i \in Items : UnitFallsDue(i)
      BY <1>2
    <2>2. tally' = [tally EXCEPT ![i].elapsed = tally[i].elapsed + 1]
          /\ tally \in [Items -> [sold : Nat, lost : Nat, elapsed : Nat, raced : BOOLEAN]]
      BY <2>1 DEF UnitFallsDue, IInv, StockOK
    <2> QED
      BY <2>1, <2>2, UnitsUntouched DEF UnitFallsDue, shop
  <1>3. CASE \E r \in Requests : BrowseWrites(r)
    <2>1. PICK r \in Requests : BrowseWrites(r)
      BY <1>3
    <2>2. tally' = [tally EXCEPT ![tx[r].item].raced = tally[tx[r].item].raced \/ tx[r].doomed]
          /\ tally \in [Items -> [sold : Nat, lost : Nat, elapsed : Nat, raced : BOOLEAN]]
      BY <2>1 DEF BrowseWrites, IInv, StockOK
    <2> QED
      BY <2>1, <2>2, UnitsUntouched DEF BrowseWrites, shop
  <1>4. ASSUME Next
        PROVE  \/ UNCHANGED <<inventory, listing, tally>>
               \/ \E i \in Items : UnitFallsDue(i)
               \/ \E r \in Requests : BrowseWrites(r) \/ CommitPurchase(r) \/ CommitTrade(r)
               \/ \E p \in Players, i \in Items, q \in ListQuantities, l \in Listings : ListEquipment(p, i, q, l)
               \/ \E l \in Listings : UnlistEquipment(l) \/ FindsExpired(l)
    BY <1>4 DEF Next, Earn, UpgradeRipens, BeginPurchase, BrowseReads, ExpiryPasses, BeginTrade, StartUpgrade,
         StatusReads, Fails, CommitStart, StatusCompletes, Shop!Equip, shop, ghosts
  <1>5. CASE UNCHANGED vars
    BY <1>1, <1>5 DEF vars
  <1> QED
    BY <1>1, <1>2, <1>3, <1>4, <1>5, PurchaseUnits, TradeUnits, ListUnits, UnlistUnits, ExpireUnits

LEMMA InitUnits == Init => UnitsConserved
  <1> SUFFICES ASSUME Init, NEW i \in Items
               PROVE  Held(i) + Escrow(i) + tally[i].lost = tally[i].sold
    BY DEF UnitsConserved
  <1> DEFINE h == [p \in Players |-> inventory[p][i]]
             e == [l \in Listings |-> Escrowed(l, i)]
  <1>1. (\A p \in Players : h[p] = 0) /\ (\A l \in Listings : e[l] = 0)
    BY DEF Init, Shop!Init, Shop!Unused, Escrowed
  <1>2. Held(i) = SumFunctionOnSet(h, Players) /\ Escrow(i) = SumFunctionOnSet(e, Listings)
    BY DEF Held, Escrow
  <1> HIDE DEF h, e
  <1>3. Held(i) = 0 /\ Escrow(i) = 0
    BY <1>1, <1>2, Finite, SumZero
  <1> QED
    BY <1>3 DEF Init

\* No unit is duplicated or lost by a trade or a listing: what the market sold of an item is
\* held, listed or thrown away.
THEOREM UnitsAreConserved == Spec => []UnitsConserved
  <1>1. IInv /\ UnitsConserved /\ [Next]_vars => (IInv /\ UnitsConserved)'
    BY StepInvariant, UnitsStep
  <1>2. Init => IInv /\ UnitsConserved
    BY InitInvariant, InitUnits
  <1> QED
    BY <1>1, <1>2, PTL DEF Spec

=============================================================================
