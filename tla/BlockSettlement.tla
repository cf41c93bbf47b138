-------------------------- MODULE BlockSettlement --------------------------
(* What the block chain promises to its readers: blocks are finalized one  *)
(* after the other, a finalized block is entered in the ledger at most     *)
(* once as a reward pool and at most once as player shares, in that order, *)
(* and it is announced on the network stream at most once and only after   *)
(* its reward pool is in the ledger.  MiningRuntime implements this.       *)
EXTENDS Naturals, Sequences

VARIABLES
  height,     \* number of finalized blocks; they are the blocks 1..height
  entries,    \* the immutable ledger, entries [kind, block] in commit order
  announced   \* the blocks whose network.block_finalized.v1 was published

vars == <<height, entries, announced>>

Has(kind, b) == \E i \in DOMAIN entries : entries[i] = [kind |-> kind, block |-> b]

Init ==
  /\ height = 0
  /\ entries = <<>>
  /\ announced = {}

Finalize ==
  /\ height' = height + 1
  /\ UNCHANGED <<entries, announced>>

PostPool(b) ==
  /\ b \in 1..height
  /\ ~Has("pool", b)
  /\ entries' = Append(entries, [kind |-> "pool", block |-> b])
  /\ UNCHANGED <<height, announced>>

PostShares(b) ==
  /\ Has("pool", b)
  /\ ~Has("shares", b)
  /\ entries' = Append(entries, [kind |-> "shares", block |-> b])
  /\ UNCHANGED <<height, announced>>

Announce(b) ==
  /\ Has("pool", b)
  /\ b \notin announced
  /\ announced' = announced \cup {b}
  /\ UNCHANGED <<height, entries>>

Next ==
  \/ Finalize
  \/ \E b \in 1..height : PostPool(b) \/ PostShares(b) \/ Announce(b)

Spec == Init /\ [][Next]_vars
=============================================================================
