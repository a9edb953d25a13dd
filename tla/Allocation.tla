----------------------------- MODULE Allocation -----------------------------
(***************************************************************************)
(* allocation.py: the budget formula of S2 and of S3's reflow.  Units are  *)
(* shared out in proportion to weights, above a floor and below a cap, and *)
(* rounded by largest remainder.                                           *)
(*                                                                         *)
(* A weight is prior^gamma, scaled to a natural number, and a share is a   *)
(* fraction with the denominator its siblings have: the code's floats and  *)
(* the _EPS that absorbs their error are exact here.                       *)
(***************************************************************************)
EXTENDS Integers, FiniteSets, FiniteSetsExt

Total(of, angles) == MapThenSumSet(LAMBDA a : of[a], angles)

CapUnits(pct, total) == (pct * total) \div 100

\* _validate_inputs: why a budget cannot be shared over n angles.
Infeasible(n, total, floor, pct) ==
  \/ n = 0 \/ total < 1
  \/ n * floor > total
  \/ CapUnits(pct, total) < Max({floor, 1})
  \/ n * CapUnits(pct, total) < total

Part(weight, S, a) == IF Total(weight, S) = 0 THEN 1 ELSE weight[a]
Whole(weight, S) == IF Total(weight, S) = 0 THEN Cardinality(S) ELSE Total(weight, S)

\* _continuous_extra: angles pushed past the cap are fixed at it and their
\* overflow is shared again.  The result is who is left below the cap.
Unfilled(weight, extra, room) ==
  LET all == DOMAIN weight
      over(S) ==
        LET left == extra - room * Cardinality(all \ S)
            whole == Whole(weight, S)
        IN  {a \in S : left * Part(weight, S, a) > room * whole}
      rest[S \in SUBSET all] ==
        LET o == over(S) IN IF o = {} THEN S ELSE rest[S \ o]
  IN  rest[all]

\* allocate, with _round_conserving: what the whole parts leave over goes, a
\* unit each, to the largest remainders, then weights, then first in the map.
Allocate(weight, order, total, floor, cap) ==
  LET angles == DOMAIN weight
      shared[rest \in SUBSET angles] ==
        LET left == total - floor * Cardinality(rest) - cap * Cardinality(angles \ rest)
            whole == Whole(weight, rest)
            part(a) == left * Part(weight, rest, a)
        IN  [a \in angles |->
              IF a \in rest THEN [base |-> floor + part(a) \div whole, rem |-> part(a) % whole]
                            ELSE [base |-> cap, rem |-> 0]]
      rounded[s \in [angles -> [base: Nat, rem: Nat]]] ==
        LET over == total - Total([a \in angles |-> s[a].base], angles)
            open == {a \in angles : s[a].base < cap}
            before(a, b) ==
              \/ s[a].rem > s[b].rem
              \/ s[a].rem = s[b].rem /\ weight[a] > weight[b]
              \/ s[a].rem = s[b].rem /\ weight[a] = weight[b] /\ order[a] < order[b]
        IN  [a \in angles |-> s[a].base +
              IF a \in open /\ Cardinality({b \in open : before(b, a)}) < over
                THEN 1 ELSE 0]
  IN  rounded[shared[Unfilled(weight, total - floor * Cardinality(angles), cap - floor)]]

\* reflow: the pool goes to the eligible angles, floor 0 and cap the pool.
\* No angle at all is no table.
Reflow(weight, order, eligible, pool) ==
  IF pool <= 0 \/ eligible = {} THEN << >>
  ELSE Allocate([a \in eligible |-> weight[a]], order, pool, 0, pool)

\* What a table promises: the budget to the unit, nobody outside floor and
\* cap, no heavier angle behind a lighter one, and, while no cap binds, every
\* angle within a unit of its exact share.
WellAllocated(weight, units, total, floor, cap) ==
  LET angles == DOMAIN weight
      extra == total - floor * Cardinality(angles)
      sum == Total(weight, angles)
  IN  /\ DOMAIN units = angles
      /\ Total(units, angles) = total
      /\ \A a \in angles : units[a] \in floor .. cap
      /\ \A a, b \in angles : weight[a] > weight[b] => units[a] >= units[b]
      /\ (sum > 0 /\ \A a \in angles : extra * weight[a] <= (cap - floor) * sum) =>
           \A a \in angles :
             /\ (units[a] - floor) * sum < extra * weight[a] + sum
             /\ (units[a] - floor) * sum > extra * weight[a] - sum
=============================================================================
