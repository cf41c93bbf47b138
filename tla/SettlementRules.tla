---------------------------- MODULE SettlementRules ----------------------------
(* The arithmetic of settlements: how a block's reward is set and split among *)
(* players, a pool's share among its members, and the work the next block     *)
(* requires.  Amounts are whole numbers of the smallest unit (millionths).    *)
(* Each rule is one action that draws its inputs and keeps its result.        *)
EXTENDS Integers, FiniteSets, Functions

CONSTANTS Players,      \* numbers, as ids are ordered
          Rewards,      \* rewards tried; an event may make one negative
          Works,        \* contributions and hashrates tried
          Fees,         \* pool fees tried, in percent
          Elapsed,      \* lengths of the history window tried, per interval of it
          Target,       \* target length of an interval
          Minimum,      \* minimum required work, and minimum reward
          Modifiers,    \* values of a running event tried, in parts of Scale; nothing validates them
          Scale,
          None          \* no event runs, or it has no value

RulesAssumption ==
  /\ IsFiniteSet(Players) /\ Players \subseteq Int
  /\ Rewards \subseteq Int /\ Works \subseteq Nat /\ Elapsed \subseteq Nat
  /\ Fees \subseteq 0..10
  /\ Target \in Nat \ {0} /\ Minimum \in Nat \ {0}
  /\ Modifiers \subseteq Int /\ Scale \in Nat \ {0}

VARIABLE calc   \* the last calculation: [rule, ...], rule "none" initially

vars == calc

Init == calc = [rule |-> "none"]

\* A behaviour is one calculation.
Fresh == calc.rule = "none"

Total(f) == SumFunctionOnSet(f, DOMAIN f)
AtLeast(m, n) == IF m < n THEN n ELSE m

\* n / d rounded half up, n not negative.
HalfUp(n, d) == (2 * n + d) \div (2 * d)

\* n / d rounded half to even.
HalfEven(n, d) ==
  LET q == n \div d
      rest == n % d
  IN IF 2 * rest > d \/ (2 * rest = d /\ q % 2 = 1) THEN q + 1 ELSE q

\* The whole numbers nearest to n / d: at a tie the 28 digits of the quotient decide.
Nearest(n, d) == {r \in {n \div d, n \div d + 1} : 2 * (n - r * d) <= d /\ 2 * (r * d - n) <= d}

---------------------------------------------------------------------------
\* Block rewards

Larger(work, p, q) == work[p] > work[q] \/ (work[p] = work[q] /\ p > q)

RankDown(work, p) == Cardinality({q \in Players : Larger(work, q, p)})

\* Players that still have something to give, smallest contribution first.
RankUp(work, rounded, p) == Cardinality({q \in Players : rounded[q] > 0 /\ Larger(work, p, q)})

\* Mutant: the residual is left over.
KeepsResidual(reward, work, rounded) == rounded

\* What is over goes to the largest contributions, what is missing comes from the smallest.
SpreadsResidual(reward, work, rounded) ==
  LET residual == reward - Total(rounded)
      n == Cardinality(Players) IN
  [p \in Players |->
     IF residual >= 0
     THEN rounded[p] + residual \div n + (IF RankDown(work, p) < residual % n THEN 1 ELSE 0)
     ELSE IF rounded[p] > 0 /\ RankUp(work, rounded, p) < -residual THEN rounded[p] - 1 ELSE rounded[p]]

\* What is missing is only taken from amounts above zero: without one the loop never ends.
Returns(reward, rounded) == reward >= Total(rounded) \/ \E p \in Players : rounded[p] > 0

\* Whoever would get nothing or less is left out.
AllocatePlayerRewards ==
  /\ Fresh
  /\ \E reward \in Rewards, work \in [Players -> Works] :
     /\ Total(work) > 0
     /\ \E rounded \in [Players -> (IF reward < 0 THEN reward .. 0 ELSE 0 .. reward)] :
          /\ \A p \in Players : rounded[p] \in Nearest(reward * work[p], Total(work))
          /\ Returns(reward, rounded)
          /\ calc' = [rule |-> "allocate", reward |-> reward, work |-> work,
                      share |-> [p \in Players |-> AtLeast(SpreadsResidual(reward, work, rounded)[p], 0)]]

\* Mutant: without the minimum.
BaseRewardUnfloored(base, required) == HalfUp(base * required, Target)

\* A block's reward is in proportion to its difficulty.
BaseReward(base, required) == AtLeast(HalfUp(base * required, Target), Minimum)

\* What is settled is that reward times the value of a running event, with no floor of its own.
ComputeBlockReward ==
  /\ Fresh
  /\ \E base \in Rewards \cap Nat, required \in Works, modifier \in Modifiers \cup {None} :
       LET reward == BaseReward(base, required) IN
       calc' = [rule |-> "reward", modifier |-> modifier,
                reward |-> IF modifier = None THEN reward ELSE HalfEven(modifier * reward, Scale)]

---------------------------------------------------------------------------
\* Pools

\* Mutant: the remainder is not handed out.
NoBonus(rest, p) == 0

\* One unit each for the first members by id.
RemainderBonus(rest, p) == IF Cardinality({q \in Players : q < p}) < rest THEN 1 ELSE 0

\* n / d rounded down, or one less where the 28 digits of the quotient miss a whole number.
Floored(n, d) == {r \in {n \div d, n \div d - 1} : r = n \div d \/ (n % d = 0 /\ n > 0)}

OwnerFee(reward, fee) == (reward * fee) \div 100

PoolShares(reward, fee, rate, owner, share) ==
  calc' = [rule |-> "pool", reward |-> reward, fee |-> fee, rate |-> rate, owner |-> owner, share |-> share]

CalculateRewardShares ==
  /\ Fresh
  /\ \E reward \in Rewards \cap Nat, fee \in Fees, rate \in [Players -> Works] :
       LET left == reward - OwnerFee(reward, fee) IN
       \/ Total(rate) = 0 /\ PoolShares(reward, fee, rate, reward, [p \in {} |-> 0])
       \/ /\ Total(rate) > 0
          /\ \E floored \in [Players -> 0 .. left] :
               /\ \A p \in Players : floored[p] \in Floored(left * rate[p], Total(rate))
               /\ PoolShares(reward, fee, rate, OwnerFee(reward, fee),
                     [p \in Players |-> floored[p] + RemainderBonus(left - Total(floored), p)])

---------------------------------------------------------------------------
\* Difficulty

\* Mutant: unclamped.
AdjustmentUnclamped(elapsed) == <<Target, elapsed>>

\* The ratio Target / elapsed, held between 9/10 and 11/10: <<numerator, denominator>>.
Adjustment(elapsed) ==
  IF 10 * Target > 11 * elapsed THEN <<11, 10>>
  ELSE IF 10 * Target < 9 * elapsed THEN <<9, 10>>
  ELSE <<Target, elapsed>>

\* A value of zero is no event.
Unmodified(modifier) == modifier = None \/ modifier = 0

\* The whole numbers n / d may be rounded to when an event's value divides it.
Divided(n, d, modifier) ==
  IF modifier > 0 THEN Nearest(n * Scale, d * modifier) ELSE Nearest(-(n * Scale), d * (-modifier))

\* The work the next block may require.  With fewer than two blocks, or no time between them,
\* elapsed is 0 and no event applies.  Tenths are exact; at a tie the digits of another ratio, or
\* of an event's quotient, decide.
NextRequiredWork(required, elapsed, modifier) ==
  LET step == Adjustment(elapsed)
      rounded == IF elapsed = 0 THEN {required}
                 ELSE IF ~Unmodified(modifier) THEN Divided(required * step[1], step[2], modifier)
                 ELSE IF step[2] = 10 THEN {HalfUp(required * step[1], 10)}
                 ELSE Nearest(required * step[1], step[2])
  IN {AtLeast(work, Minimum) : work \in rounded}

AdjustDifficulty ==
  /\ Fresh
  /\ \E required \in Works, elapsed \in Elapsed, modifier \in Modifiers \cup {None} :
     \E next \in NextRequiredWork(required, elapsed, modifier) :
       calc' = [rule |-> "difficulty", required |-> required, elapsed |-> elapsed,
                modifier |-> modifier, next |-> next]

Next == AllocatePlayerRewards \/ ComputeBlockReward \/ CalculateRewardShares \/ AdjustDifficulty

Spec == Init /\ [][Next]_vars

TypeOK ==
  /\ calc.rule \in {"none", "allocate", "reward", "pool", "difficulty"}
  /\ calc.rule = "reward" => calc.reward \in Int

\* amount is at most so many halves of a unit from n / d.
Within(amount, n, d, halves) == 2 * (n - amount * d) <= halves * d /\ 2 * (amount * d - n) <= halves * d

\* Nothing of a block's reward is lost or made: the shares add up to it, each is at most one
\* unit and a half from its exact value, and whoever contributed more gets no less, as long as no
\* event made the reward negative (reward_settlement.py:34-77).  A pool's fee and shares add up
\* too, each within a unit, which an idle member may get as well (pools/service.py:297-348).
SettlementAddsUp ==
  /\ calc.rule = "allocate" /\ calc.reward >= 0 =>
       /\ Total(calc.share) = calc.reward
       /\ \A p \in Players :
            /\ Within(calc.share[p], calc.reward * calc.work[p], Total(calc.work), 3)
            /\ \A q \in Players : calc.work[p] > calc.work[q] => calc.share[p] >= calc.share[q]
  /\ calc.rule = "pool" =>
       /\ calc.owner + Total(calc.share) = calc.reward
       /\ \A p \in DOMAIN calc.share :
            Within(calc.share[p], (calc.reward - calc.owner) * calc.rate[p], Total(calc.rate), 2)

\* Unless an event runs, a block pays the minimum (reward_settlement.py:22-32).
RewardIsFloored == calc.rule = "reward" /\ calc.modifier = None => calc.reward >= Minimum

\* However fast or slow blocks came, the next one requires at most a tenth more or less, and
\* not less when they came too fast, unless an event says so; whatever an event says, it
\* requires the minimum (difficulty/service.py:26-64, events/service.py:418-433).
DifficultyIsDamped ==
  calc.rule = "difficulty" =>
    /\ calc.next >= Minimum
    /\ Unmodified(calc.modifier) /\ calc.required >= Minimum =>
         /\ Within(calc.next, calc.required, 1, calc.required \div 5 + 2)
         /\ calc.elapsed <= Target => calc.next >= calc.required

=============================================================================
