------------------------------ MODULE AtomicShop ------------------------------
(* What the NPC market and the player marketplace promise about credits and  *)
(* equipment: every purchase and every trade happens at one moment, at which *)
(* the buyer has the credits and the listing the units.  Economy implements  *)
(* it with transactions that read first and write later.                     *)
EXTENDS Integers

CONSTANTS Players, Items, Starter, Upgrades, Listings, Quantities, ListQuantities,
          Cost(_, _),      \* catalog cost of a quantity of an item
          Ask(_),          \* price of a quantity of a listing
          Proceeds(_),     \* what the seller gets of it
          None

VARIABLES balance,     \* player -> spendable credits
          inventory,   \* player -> item -> units held
          hardware,    \* player -> equipped hardware
          listing      \* listing -> [seller, item, remaining, status]

shopVars == <<balance, inventory, hardware, listing>>

Unused == [seller |-> None, item |-> None, remaining |-> 0, status |-> "unused"]

Init ==
  /\ balance = [p \in Players |-> 0]
  /\ inventory = [p \in Players |-> [i \in Items |-> 0]]
  /\ hardware = [p \in Players |-> Starter]
  /\ listing = [l \in Listings |-> Unused]

\* The row of the hardware that is replaced goes, however many units it counts.
Stored(held, i, q, old) ==
  [j \in Items |-> IF j = old /\ old # i /\ i \in Upgrades THEN 0
                   ELSE IF j = i THEN held[j] + q ELSE held[j]]

Earn(p) ==
  /\ balance' = [balance EXCEPT ![p] = balance'[p]]
  /\ balance'[p] >= balance[p]
  /\ UNCHANGED <<inventory, hardware, listing>>

Buy(p, i, q) ==
  /\ balance[p] >= Cost(i, q)
  /\ balance' = [balance EXCEPT ![p] = @ - Cost(i, q)]
  /\ inventory' = [inventory EXCEPT ![p] = Stored(@, i, q, hardware[p])]
  /\ hardware' = IF i \in Upgrades THEN [hardware EXCEPT ![p] = i] ELSE hardware
  /\ UNCHANGED listing

Equip(p, i) ==
  /\ hardware' = [hardware EXCEPT ![p] = i]
  /\ UNCHANGED <<balance, inventory, listing>>

List(p, i, q, l) ==
  /\ listing[l].status = "unused"
  /\ inventory[p][i] >= q
  /\ inventory' = [inventory EXCEPT ![p][i] = @ - q]
  /\ listing' = [listing EXCEPT ![l] = [seller |-> p, item |-> i, remaining |-> q, status |-> "active"]]
  /\ UNCHANGED <<balance, hardware>>

Unlist(l) ==
  LET row == listing[l] IN
  /\ row.status = "active"
  /\ inventory' = [inventory EXCEPT ![row.seller][row.item] = @ + row.remaining]
  /\ listing' = [listing EXCEPT ![l].status = "unlisted"]
  /\ UNCHANGED <<balance, hardware>>

Expire(l) ==
  /\ listing[l].status = "active"
  /\ listing' = [listing EXCEPT ![l].status = "expired"]
  /\ UNCHANGED <<balance, inventory, hardware>>

Trade(b, l, q) ==
  LET row == listing[l] IN
  /\ row.status = "active"
  /\ row.seller # b
  /\ row.remaining >= q
  /\ balance[b] >= Ask(q)
  /\ balance' = [balance EXCEPT ![b] = @ - Ask(q), ![row.seller] = @ + Proceeds(q)]
  /\ inventory' = [inventory EXCEPT ![b][row.item] = @ + q]
  /\ listing' = [listing EXCEPT ![l].remaining = @ - q,
                                ![l].status = IF row.remaining = q THEN "sold_out" ELSE "active"]
  /\ UNCHANGED hardware

Next ==
  \/ \E p \in Players : Earn(p)
  \/ \E p \in Players, i \in Items, q \in Quantities : Buy(p, i, q)
  \/ \E p \in Players, i \in Items : Equip(p, i)
  \/ \E p \in Players, i \in Items, q \in ListQuantities, l \in Listings : List(p, i, q, l)
  \/ \E l \in Listings : Unlist(l) \/ Expire(l)
  \/ \E b \in Players, l \in Listings, q \in Quantities : Trade(b, l, q)

Spec == Init /\ [][Next]_shopVars

=============================================================================
