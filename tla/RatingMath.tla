----------------------------- MODULE RatingMath -----------------------------
(***************************************************************************)
(* The arithmetic of one result:                                            *)
(*   rating/modifiers.py, rating/caps.py, rating/engine.py                  *)
(*   integrity/evaluators.py          evaluate_premade                      *)
(*   rating/explain.py                the ledger behind a cr_delta          *)
(*   services/pdl_explain_service.py  the ledger as it is shown             *)
(*                                                                         *)
(* The code computes with floats.  Here mu, sigma and CR are integers, in    *)
(* Units to a PDL, and multipliers are percentages.  scale_factor is 1, as   *)
(* in DEFAULT_PARAMS.  Neither integrity evaluator in use reports a booster,  *)
(* so boosting_factor and gain_floor_mult are always 1 and left out.        *)
(***************************************************************************)
EXTENDS Integers, Sequences, FiniteSets, Functions

CONSTANTS
    Params,         \* RatingParams and CapParams; tables by team count, placement
    Earlier,        \* the curves of CapParams in an earlier epoch
    Premade,        \* the premade_* part of IntegrityParams
    Units,          \* units to a PDL
    PLDelta(_, _, _),  \* Plackett-Luce: delta of mu by placement, mu, lobby mean
    PLSigma(_)         \* and sigma after the match

\* validate_params of rating/params.py and integrity/params.py, and of DEFAULT_PARAMS
\* what no validator looks at: placement matches are counted down from a natural
\* number, a curve has a number per placement, a win is capped at least to nothing
\* and a loss at most, and wherever there is a minimum gain the cap leaves room for
\* one.  The upper half of a format ends at an integer; a PDL is made of units.
ASSUME ParamsAssumption ==
    /\ {Params.mu0, Params.sigma0, Params.base_offset, Params.placement_amp,
        Params.streak_win_ceil, Params.streak_loss_floor,
        Params.soft_cap_threshold, Params.max_delta_mu, Params.mismatch_threshold,
        Params.mismatch_slope, Params.mismatch_max_mult, Params.mismatch_sigma_gate,
        Params.mismatch_games_gate, Params.high_cr_midpoint, Params.high_cr_steepness,
        Params.high_cr_max_reduction, Params.composite_floor, Params.composite_ceil,
        Params.half, Premade.strength} \subseteq Int
    /\ {Params.streak_threshold, Params.soft_cap_scale, Params.dispersion_sigma_ref,
        Params.mismatch_beta, Premade.repeat_threshold - 1, Premade.homogeneity_gap}
          \subseteq Nat \ {0}
    /\ Params.placement_match_count \in Nat /\ Units \in Nat \ {0}
    /\ 0 <= Params.composite_floor /\ Params.composite_floor <= Params.composite_ceil
    /\ \A t \in DOMAIN Params.base_cap :
          /\ t \in Nat
          /\ Params.placement_weights[t] \in [1 .. t -> Int]
          /\ Params.base_cap[t] \in [1 .. t -> Nat]
          /\ Params.loss_cap[t] \in [1 .. t -> Nat]
          /\ Params.min_gain[t] \in [1 .. t -> Nat]
          /\ \A k \in 1 .. t : Params.min_gain[t][k] > 0 =>
                Params.base_cap[t][k] * Params.composite_floor >= 100

-----------------------------------------------------------------------------
(* modifiers.py *)

Larger(x, y) == IF x > y THEN x ELSE y
Smaller(x, y) == IF x < y THEN x ELSE y
Clamp(x, lo, hi) == IF x < lo THEN lo ELSE IF x > hi THEN hi ELSE x
Scaled(x, percent) == (x * percent) \div 100

\* "cr = (mu - 3*sigma)*scale + offset" ...
Identity(mu, sigma) == mu - 3 * sigma + Params.base_offset

\* ... and what is displayed of it.
ToCr(mu, sigma) == Larger(0, Identity(mu, sigma))

\* The inverse: the mu that displays cr.
BackSolved(cr, sigma) == cr - Params.base_offset + 3 * sigma

Canonical(teams) == teams \in DOMAIN Params.base_cap

PlacementWeight(place, teams) ==
    IF Canonical(teams) THEN Params.placement_weights[teams][place] ELSE 100

PlacementAmp(left) == IF left > 0 THEN Params.placement_amp ELSE 100

StreakMult(streak, delta) ==
    LET thr == Params.streak_threshold IN
    IF delta > 0 /\ streak > 0
    THEN Smaller(Params.streak_win_ceil,
                 100 + (Smaller(streak, thr) * (Params.streak_win_ceil - 100)) \div thr)
    ELSE IF delta < 0 /\ streak < 0
    THEN Larger(Params.streak_loss_floor,
                100 - (Smaller(-streak, thr) * (100 - Params.streak_loss_floor)) \div thr)
    ELSE 100

NextStreak(streak, win) ==
    IF win THEN Larger(streak, 0) + 1 ELSE Smaller(streak, 0) - 1

SoftCap(cr, delta) ==
    IF delta > 0 /\ cr > Params.soft_cap_threshold
    THEN (100 * Params.soft_cap_scale)
            \div (Params.soft_cap_scale + cr - Params.soft_cap_threshold)
    ELSE 100

PartyDampener(factor, delta) == IF delta > 0 THEN 100 - Clamp(factor, 0, 100) ELSE 100

Dispersion(delta, sigma) ==
    LET most == Larger(Params.max_delta_mu,
                       (Params.max_delta_mu * sigma) \div Params.dispersion_sigma_ref)
    IN Clamp(delta, -most, most)

-----------------------------------------------------------------------------
(* caps.py *)

\* Only once the estimate is trustworthy, and only well above the lobby.
Mismatch(mu, mean, sigma, games) ==
    IF sigma >= Params.mismatch_sigma_gate /\ games < Params.mismatch_games_gate
    THEN 100
    ELSE LET z == (100 * (mu - mean)) \div Params.mismatch_beta IN
         Clamp(100 + Scaled(Larger(0, z - Params.mismatch_threshold),
                            Params.mismatch_slope),
               100, Params.mismatch_max_mult)

\* The logistic curve, as three steps around its midpoint.
HighCr(cr) ==
    LET x == cr - Params.high_cr_midpoint IN
    100 - Scaled(Params.high_cr_max_reduction,
                 IF x < -Params.high_cr_steepness THEN 0
                 ELSE IF x <= Params.high_cr_steepness THEN 50 ELSE 100)

CompositeWin(mismatch, high) ==
    Clamp(Scaled(mismatch, high), Params.composite_floor, Params.composite_ceil)

\* cap_bounds and min_gain of a team count that has a curve.
BoundsBy(caps, place, teams, composite) ==
    [lo |-> -caps.loss_cap[teams][place],
     hi |-> Scaled(caps.base_cap[teams][place], composite),
     floor |-> caps.min_gain[teams][place]]

Bounds(place, teams, composite) == BoundsBy(Params, place, teams, composite)

\* Mutant of Decided: the floor only lifts what is already a gain.
DecidedOnGains(raw, b) ==
    LET clamped == Clamp(raw, b.lo, b.hi)
        floored == IF b.floor > 0 /\ clamped > 0
                   THEN Larger(clamped, Smaller(b.floor, b.hi)) ELSE clamped
    IN [value |-> floored,
        bound |-> IF floored # clamped THEN "min_gain"
                  ELSE IF clamped > raw THEN "loss_cap"
                  ELSE IF clamped < raw THEN "gain_cap" ELSE "none"]

\* decide_pdl_cap: clamp, then the minimum gain has the last word.
Decided(raw, b) ==
    LET clamped == Clamp(raw, b.lo, b.hi)
        floored == IF b.floor > 0
                   THEN Larger(clamped, Smaller(b.floor, b.hi)) ELSE clamped
    IN [value |-> floored,
        bound |-> IF floored # clamped THEN "min_gain"
                  ELSE IF clamped > raw THEN "loss_cap"
                  ELSE IF clamped < raw THEN "gain_cap" ELSE "none"]

\* A team count without a curve is not capped.
Decide(raw, place, teams, composite) ==
    IF Canonical(teams) THEN Decided(raw, Bounds(place, teams, composite))
    ELSE [value |-> raw, bound |-> "none"]

-----------------------------------------------------------------------------
(* evaluators.py: the premade dampener *)

Confidence(count) ==
    Clamp((100 * (count - 1)) \div (Premade.repeat_threshold - 1), 0, 100)

Homogeneity(spread) == Clamp(100 - (100 * spread) \div Premade.homogeneity_gap, 0, 100)

\* Of a player whose most frequent companion in the team was met count times.
PremadeFactor(count, spread) ==
    (Premade.strength * Confidence(count) * Homogeneity(spread)) \div 10000

-----------------------------------------------------------------------------
(* engine.py *)

IsWin(place, teams) == place <= teams \div 2

\* The delta before and after each multiplier; the soft cap reads the CR before
\* the match.
Through(m, crBefore) ==
    LET d1 == Scaled(m.base, m.weight)
        d2 == Scaled(d1, m.amp)
        d3 == Scaled(d2, m.streak)
        d4 == Scaled(d3, SoftCap(crBefore, m.base))
        d5 == Scaled(d4, m.party)
    IN <<m.base, d1, d2, d3, d4, d5>>

\* rate, for one eligible participant in state s: what it earns and the facts
\* that are stored with it.
Earned(s, place, teams, mean, factor) ==
    LET base == PLDelta(place, s.mu, mean)
        mods == [base |-> base,
                 weight |-> PlacementWeight(place, teams),
                 amp |-> PlacementAmp(s.left),
                 streak |-> StreakMult(s.streak, base),
                 party |-> PartyDampener(factor, base)]
        final == Dispersion(Through(mods, s.cr)[6], s.sigma)
        sigma == PLSigma(s.sigma)
        raw == ToCr(s.mu + final, sigma) - s.cr
        composite == CompositeWin(Mismatch(s.mu, mean, s.sigma, s.played), HighCr(s.cr))
        decided == Decide(raw, place, teams, composite)
        capped == s.cr + decided.value
        cr == Larger(0, capped)
    IN [mods |-> mods, final |-> final, sigma |-> sigma, raw |-> raw,
        confidence |-> -3 * (sigma - s.sigma),
        composite |-> composite, bound |-> decided.bound, cr |-> cr,
        \* mu follows the CR only if the cap, or the floor after it, moved it.
        mu |-> IF decided.value # raw \/ capped < 0 THEN BackSolved(cr, sigma)
               ELSE s.mu + final]

\* _frozen: an ineligible participant.
Frozen(s) ==
    [mods |-> [base |-> 0, weight |-> 100, amp |-> 100, streak |-> 100, party |-> 100],
     final |-> 0, sigma |-> s.sigma, raw |-> 0, confidence |-> 0, composite |-> 100,
     bound |-> "none", cr |-> s.cr, mu |-> s.mu]

-----------------------------------------------------------------------------
(* explain.py, on a stored row *)

Steps(row) ==
    LET d == Through(row.mods, row.crBefore)
    IN <<d[1], d[2] - d[1], d[3] - d[2], d[4] - d[3], d[5] - d[4], d[6] - d[5],
         row.final - d[6]>>

\* Mutant of ZeroFloored: the ledger so far is left out.
ZeroFlooredBefore(row, running) == row.crAfter = 0 /\ row.crBefore < 0

\* What a ledger leaves over is the zero floor's.
ZeroFloored(row, running) == row.crAfter = 0 /\ row.crBefore + running < 0

\* Tier A: the cap decision replayed on the stored facts.  What is left over is
\* the zero floor, or a "residual_gap".
TierA(row) ==
    LET decided == Decide(row.raw, row.place, row.teams, row.composite)
        cap == decided.value - row.raw
        running == row.final + row.confidence + cap
        gap == row.delta - running
    IN [bound |-> decided.bound,
        entries |-> Steps(row) \o <<row.confidence, cap, gap>>,
        exact |-> gap = 0 \/ ZeroFloored(row, running)]

\* "a floored cr_after can mimic ANY cap outcome".
NearZero(row) == row.crAfter = 0

\* A row as the engine of the earlier epoch left it.
RatedEarlier(row) ==
    LET decided == IF Canonical(row.teams)
                     THEN Decided(row.raw, BoundsBy(Earlier, row.place, row.teams, row.composite))
                     ELSE [value |-> row.raw, bound |-> "none"]
        after == Larger(0, row.crBefore + decided.value)
    IN IF row.eligible
         THEN [row EXCEPT !.crAfter = after, !.delta = after - row.crBefore,
                          !.bound = decided.bound]
         ELSE row

\* Tier B, a row without cap facts: "PROVABLY not bound" if it lies on no bound - of
\* today's curves, whatever epoch rated it.
ProvedFree(row, mean) ==
    LET composite == CompositeWin(
            Mismatch(row.before.mu, mean, row.before.sigma, row.before.played),
            HighCr(row.crBefore))
        b == Bounds(row.place, row.teams, composite)
    IN /\ ~NearZero(row)
       /\ Canonical(row.teams) =>
             /\ row.delta \notin {b.lo, b.hi}
             /\ b.floor > 0 => row.delta # Smaller(b.floor, b.hi)

\* The first of today's bounds the result lies on; nothing is said near the floor.
BoundHit(row, mean) ==
    LET composite == CompositeWin(
            Mismatch(row.before.mu, mean, row.before.sigma, row.before.played),
            HighCr(row.crBefore))
        b == Bounds(row.place, row.teams, composite)
    IN IF NearZero(row) THEN "none"
       ELSE IF row.delta = b.lo THEN "loss_cap"
       ELSE IF row.delta = b.hi THEN "gain_cap"
       ELSE "min_gain"

\* explain: the fidelity ladder.  A row with cap facts is replayed.  One without is
\* "proved" free of the cap or its rest is one lump; it is a lump too if the means,
\* of which there is one at most, lack that of the lobby.
Explain(row, facts, means) ==
    LET rest == row.delta - row.final
        tier == TierA(row)
    IN IF ~row.eligible
         THEN [fidelity |-> "exato", bound |-> "none", entries |-> <<>>, lost |-> {}]
       ELSE IF facts
         THEN [fidelity |-> IF tier.exact THEN "exato" ELSE "parcial",
               bound |-> tier.bound, entries |-> tier.entries,
               lost |-> IF tier.exact THEN {} ELSE {"residual_gap"}]
       ELSE IF \E mean \in means : ProvedFree(row, mean)
         THEN [fidelity |-> "derivado", bound |-> "none",
               entries |-> Steps(row) \o <<rest, 0>>, lost |-> {}]
       ELSE [fidelity |-> "parcial",
             bound |-> IF means = {} THEN "none"
                       ELSE BoundHit(row, CHOOSE mean \in means : TRUE),
             entries |-> Steps(row) \o <<rest>>,
             lost |-> {"confidence", "cap_adjustment"}
                      \cup (IF means = {} THEN {"cap_bounds"} ELSE {})
                      \cup (IF NearZero(row) THEN {"zero_floor_ambiguity"} ELSE {})]

-----------------------------------------------------------------------------
(* pdl_explain_service.py *)

\* round(): half to even.
Rounded(v) ==
    LET q == v \div Units
        twice == 2 * (v % Units)
    IN IF twice < Units \/ (twice = Units /\ q % 2 = 0) THEN q ELSE q + 1

\* Mutant of Nudged: the wrong end of the order is nudged first.
NudgedWrongWay(rest, up, i, j) ==
    \/ rest[i] # rest[j] /\ (up <=> rest[i] < rest[j])
    \/ rest[i] = rest[j] /\ i < j

\* i is nudged before j: the largest rounding error in the direction needed.
Nudged(rest, up, i, j) ==
    \/ rest[i] # rest[j] /\ (up <=> rest[i] > rest[j])
    \/ rest[i] = rest[j] /\ i < j

\* _apportion: largest remainders, so that the integers sum to target.
Apportioned(values, target) ==
    LET I == DOMAIN values
        base == [i \in I |-> Rounded(values[i])]
        rest == [i \in I |-> values[i] - Units * base[i]]
        diff == target - SumFunction(base)
        up == diff > 0
        much == IF up THEN diff ELSE -diff
        rank == [i \in I |-> Cardinality({j \in I : j # i /\ Nudged(rest, up, j, i)})]
        turns == [i \in I |-> IF much > rank[i]
                              THEN (much - rank[i] - 1) \div Len(values) + 1 ELSE 0]
    IN [i \in I |-> IF up THEN base[i] + turns[i] ELSE base[i] - turns[i]]
=============================================================================
