----------------------- MODULE RatingsAndPages_proofs -----------------------
(***************************************************************************)
(* Proofs about RatingMath, Ratings and Profiles, for every curve and        *)
(* parameter that ParamsAssumption admits, any payloads, players and number  *)
(* of matches: the cap layer, what a row of a rated match says, what the     *)
(* co-occurrence window remembers, who was moved at all, that the counters   *)
(* are those of the rows, that the ledger that is shown adds up, and that    *)
(* the pages of a player agree with its rows and with each other.            *)
(* The last part is about Rollups and RollupReads: the tables of the rollups *)
(* and the reads of two profiles.                                            *)
(*                                                                           *)
(* IntegerUpdate is a hypothesis of the theorems about the specification and *)
(* not an assumption of the module because TLC cannot evaluate it: that the  *)
(* Plackett-Luce update, a parameter of the model, counts in whole units.    *)
(***************************************************************************)
EXTENDS Profiles, RollupReads, SumTheorems, SequenceTheorems,
        FiniteSetTheorems, FunctionTheorems, WellFoundedInduction, TLAPS

-----------------------------------------------------------------------------
(* The arithmetic *)

\* Multipliers and bounds keep integers integers.
LEMMA ScaledIsInteger ==
    ASSUME NEW x \in Int, NEW percent \in Int
    PROVE  Scaled(x, percent) \in Int
  BY DEF Scaled

LEMMA ClampIsInteger ==
    ASSUME NEW x \in Int, NEW lo \in Int, NEW hi \in Int
    PROVE  /\ Clamp(x, lo, hi) \in Int
           /\ lo <= hi => lo <= Clamp(x, lo, hi) /\ Clamp(x, lo, hi) <= hi
  BY DEF Clamp

LEMMA ModifiersAreIntegers ==
    ASSUME NEW base \in Int, NEW streak \in Int, NEW left \in Int, NEW cr \in Int
    PROVE  /\ PlacementAmp(left) \in Int
           /\ StreakMult(streak, base) \in Int
           /\ SoftCap(cr, base) \in Int
  <1>1. PlacementAmp(left) \in Int
    BY ParamsAssumption DEF PlacementAmp
  <1>2. StreakMult(streak, base) \in Int
    <2>1. /\ Params.streak_threshold \in Nat \ {0}
          /\ Params.streak_win_ceil \in Int /\ Params.streak_loss_floor \in Int
      BY ParamsAssumption
    <2>2. ASSUME NEW n \in Int, NEW d \in Int
          PROVE (n * d) \div Params.streak_threshold \in Int
      BY <2>1
    <2>3. /\ Smaller(streak, Params.streak_threshold) \in Int
          /\ Smaller(-streak, Params.streak_threshold) \in Int
      BY <2>1 DEF Smaller
    <2> DEFINE up == (Smaller(streak, Params.streak_threshold)
                        * (Params.streak_win_ceil - 100)) \div Params.streak_threshold
               down == (Smaller(-streak, Params.streak_threshold)
                        * (100 - Params.streak_loss_floor)) \div Params.streak_threshold
    <2>4. up \in Int /\ down \in Int
      BY <2>1, <2>2, <2>3
    <2>5. StreakMult(streak, base) =
            IF base > 0 /\ streak > 0 THEN Smaller(Params.streak_win_ceil, 100 + up)
            ELSE IF base < 0 /\ streak < 0
            THEN Larger(Params.streak_loss_floor, 100 - down) ELSE 100
      BY DEF StreakMult
    <2> HIDE DEF up, down
    <2>6. QED
      BY <2>1, <2>4, <2>5 DEF Smaller, Larger
  <1>3. SoftCap(cr, base) \in Int
    <2>1. Params.soft_cap_scale \in Nat \ {0} /\ Params.soft_cap_threshold \in Int
      BY ParamsAssumption
    <2>2. CASE cr > Params.soft_cap_threshold
      <3>1. Params.soft_cap_scale + cr - Params.soft_cap_threshold \in Nat \ {0}
        BY <2>1, <2>2
      <3>2. 100 * Params.soft_cap_scale \in Int
        BY <2>1
      <3>3. (100 * Params.soft_cap_scale)
               \div (Params.soft_cap_scale + cr - Params.soft_cap_threshold) \in Int
        BY <3>1, <3>2
      <3>4. QED
        BY <3>3 DEF SoftCap
    <2>3. CASE ~(cr > Params.soft_cap_threshold)
      BY <2>3 DEF SoftCap
    <2>4. QED
      BY <2>2, <2>3
  <1>4. QED
    BY <1>1, <1>2, <1>3

LEMMA PartyIsInteger ==
    ASSUME NEW factor \in Int, NEW base \in Int
    PROVE  PartyDampener(factor, base) \in Int
  BY DEF PartyDampener, Clamp

LEMMA WeightIsInteger ==
    ASSUME NEW teams, NEW place, Canonical(teams) => place \in 1 .. teams
    PROVE  PlacementWeight(place, teams) \in Int
  <1>1. CASE Canonical(teams)
    BY <1>1, ParamsAssumption DEF Canonical, PlacementWeight
  <1>2. CASE ~Canonical(teams)
    BY <1>2 DEF PlacementWeight
  <1>3. QED
    BY <1>1, <1>2

LEMMA DispersionIsInteger ==
    ASSUME NEW delta \in Int, NEW sigma \in Int
    PROVE  Dispersion(delta, sigma) \in Int
  <1>1. Params.max_delta_mu \in Int /\ Params.dispersion_sigma_ref \in Nat \ {0}
    BY ParamsAssumption
  <1>2. (Params.max_delta_mu * sigma) \div Params.dispersion_sigma_ref \in Int
    <2>1. Params.max_delta_mu * sigma \in Int
      BY <1>1
    <2>2. QED
      BY <1>1, <2>1
  <1>3. Larger(Params.max_delta_mu,
               (Params.max_delta_mu * sigma) \div Params.dispersion_sigma_ref) \in Int
    BY <1>1, <1>2 DEF Larger
  <1>4. QED
    BY <1>3, ClampIsInteger DEF Dispersion

\* The share of the gain ceiling a lobby leaves lies between its floor and its ceiling.
LEMMA CompositeIsBetween ==
    ASSUME NEW mu \in Int, NEW mean \in Int, NEW sigma \in Int, NEW games \in Int,
           NEW cr \in Int
    PROVE  LET c == CompositeWin(Mismatch(mu, mean, sigma, games), HighCr(cr))
           IN c \in Int /\ Params.composite_floor <= c /\ c <= Params.composite_ceil
  <1>1. /\ {Params.mismatch_threshold, Params.mismatch_slope, Params.mismatch_max_mult,
            Params.mismatch_sigma_gate, Params.mismatch_games_gate,
            Params.high_cr_midpoint, Params.high_cr_steepness,
            Params.high_cr_max_reduction, Params.composite_floor,
            Params.composite_ceil} \subseteq Int
        /\ Params.mismatch_beta \in Nat \ {0}
        /\ Params.composite_floor <= Params.composite_ceil
    BY ParamsAssumption
  <1>2. Mismatch(mu, mean, sigma, games) \in Int
    <2> DEFINE z == (100 * (mu - mean)) \div Params.mismatch_beta
               s == Scaled(Larger(0, z - Params.mismatch_threshold), Params.mismatch_slope)
    <2>1. z \in Int
      <3>1. 100 * (mu - mean) \in Int
        OBVIOUS
      <3>2. QED
        BY <1>1, <3>1
    <2>2. Mismatch(mu, mean, sigma, games) =
            IF sigma >= Params.mismatch_sigma_gate /\ games < Params.mismatch_games_gate
            THEN 100 ELSE Clamp(100 + s, 100, Params.mismatch_max_mult)
      BY DEF Mismatch
    <2> HIDE DEF z
    <2>3. /\ Larger(0, z - Params.mismatch_threshold) \in Int
          /\ Params.mismatch_slope \in Int /\ Params.mismatch_max_mult \in Int
      BY <1>1, <2>1 DEF Larger
    <2>4. s \in Int
      BY <2>3, ScaledIsInteger
    <2> HIDE DEF s
    <2>5. 100 + s \in Int
      BY <2>4
    <2>6. Clamp(100 + s, 100, Params.mismatch_max_mult) \in Int
      BY <2>3, <2>5 DEF Clamp
    <2>7. QED
      BY <2>2, <2>6
  <1>3. HighCr(cr) \in Int
    <2>1. Params.high_cr_max_reduction \in Int
      BY <1>1
    <2>2. /\ Scaled(Params.high_cr_max_reduction, 0) \in Int
          /\ Scaled(Params.high_cr_max_reduction, 50) \in Int
          /\ Scaled(Params.high_cr_max_reduction, 100) \in Int
      BY <2>1 DEF Scaled
    <2>3. QED
      BY <2>2 DEF HighCr
  <1>4. Scaled(Mismatch(mu, mean, sigma, games), HighCr(cr)) \in Int
    BY <1>2, <1>3, ScaledIsInteger
  <1>5. QED
    BY <1>1, <1>4, ClampIsInteger DEF CompositeWin

LEMMA ChainIsInteger ==
    ASSUME NEW m \in [base : Int, weight : Int, amp : Int, streak : Int, party : Int],
           NEW cr \in Int
    PROVE  \A k \in 1 .. 6 : Through(m, cr)[k] \in Int
  <1> DEFINE d1 == Scaled(m.base, m.weight)
             d2 == Scaled(d1, m.amp)
             d3 == Scaled(d2, m.streak)
             d4 == Scaled(d3, SoftCap(cr, m.base))
             d5 == Scaled(d4, m.party)
  <1>1. Through(m, cr) = <<m.base, d1, d2, d3, d4, d5>>
    BY DEF Through
  <1>2. m.base \in Int /\ d1 \in Int
    BY ScaledIsInteger
  <1> HIDE DEF d1
  <1>3. d2 \in Int
    BY <1>2, ScaledIsInteger
  <1> HIDE DEF d2
  <1>4. d3 \in Int
    BY <1>3, ScaledIsInteger
  <1> HIDE DEF d3
  <1>5. SoftCap(cr, m.base) \in Int
    BY ModifiersAreIntegers
  <1>6. d4 \in Int
    BY <1>4, <1>5, ScaledIsInteger
  <1> HIDE DEF d4
  <1>7. d5 \in Int
    BY <1>6, ScaledIsInteger
  <1> HIDE DEF d5
  <1>8. QED
    BY <1>1, <1>2, <1>3, <1>4, <1>6, <1>7

\* Bounds as integers: what cap_bounds and min_gain return for a curve.
CapBounds == [lo : Int, hi : Int, floor : Int]

\* The cap layer never leaves the band of the placement (decide_pdl_cap; the
\* floor "never exceeds this placement's own gain ceiling").
THEOREM CapStaysInItsBand ==
    ASSUME NEW raw \in Int, NEW b \in CapBounds, b.lo <= b.hi
    PROVE  b.lo <= Decided(raw, b).value /\ Decided(raw, b).value <= b.hi
BY DEF Decided, CapBounds, Clamp, Larger, Smaller

\* The probe of explain.py is "PROVABLY" right: the cap returns the raw delta
\* or exactly one of the two bounds and the floor under its ceiling.
THEOREM CapLandsOnABound ==
    ASSUME NEW raw \in Int, NEW b \in CapBounds, b.lo <= b.hi,
           Decided(raw, b).bound # "none"
    PROVE  \/ Decided(raw, b).value \in {b.lo, b.hi}
           \/ b.floor > 0 /\ Decided(raw, b).value = Smaller(b.floor, b.hi)
BY DEF Decided, CapBounds, Clamp, Larger, Smaller

\* The label and the number agree: a rule is named exactly when the displayed
\* delta is not the raw one (CapDecision.bound and CapDecision.changed).
THEOREM LabelMeansChange ==
    ASSUME NEW raw \in Int, NEW b \in CapBounds, b.lo <= b.hi
    PROVE  Decided(raw, b).bound = "none" <=> Decided(raw, b).value = raw
<1>1. CASE raw < b.lo
  BY <1>1 DEF Decided, CapBounds, Clamp, Larger, Smaller
<1>2. CASE raw > b.hi
  BY <1>2 DEF Decided, CapBounds, Clamp, Larger, Smaller
<1>3. CASE b.lo <= raw /\ raw <= b.hi
  BY <1>3 DEF Decided, CapBounds, Clamp, Larger, Smaller
<1> QED
  BY <1>1, <1>2, <1>3 DEF CapBounds

\* Trinity R4, "a good placement must ALWAYS be net-positive": with a floor and a
\* ceiling above zero the cap layer, and the floor of the CR at zero after it
\* (engine.py), leave a gain, from any CR and any raw delta.
THEOREM FlooredPlacementPays ==
    ASSUME NEW raw \in Int, NEW cr \in Int, NEW b \in CapBounds,
           b.lo <= b.hi, b.floor > 0, b.hi > 0
    PROVE  Larger(0, cr + Decided(raw, b).value) - cr > 0
<1>1. Decided(raw, b).value \in Int /\ Decided(raw, b).value > 0
  BY DEF Decided, CapBounds, Clamp, Larger, Smaller
<1> QED
  BY <1>1 DEF Larger

\* A CR that the cap layer set is the CR of the mu it back-solved, so a restore
\* point (apply_state_before) gives it back: only a CR that to_cr floored is not.
THEOREM BackSolvingKeepsTheIdentity ==
    ASSUME NEW cr \in Int, NEW sigma \in Int, Params.base_offset \in Int
    PROVE  Identity(BackSolved(cr, sigma), sigma) = cr
BY DEF Identity, BackSolved

\* A curve leaves a band, and room in it for the minimum gain.
LEMMA BoundsLeaveRoom ==
    ASSUME NEW teams, Canonical(teams), NEW place \in 1 .. teams,
           NEW composite \in Int, Params.composite_floor <= composite
    PROVE  LET b == Bounds(place, teams, composite)
           IN /\ b \in CapBounds /\ b.lo <= b.hi
              /\ b.floor = Params.min_gain[teams][place]
              /\ b.floor > 0 => b.hi > 0
  <1> DEFINE gain == Params.base_cap[teams][place]
             loss == Params.loss_cap[teams][place]
             least == Params.min_gain[teams][place]
             low == Params.composite_floor
  <1>1. /\ gain \in Nat /\ loss \in Nat /\ least \in Nat
        /\ least > 0 => gain * low >= 100
    BY ParamsAssumption DEF Canonical
  <1>2. low \in Int /\ 0 <= low
    BY ParamsAssumption
  <1> HIDE DEF gain, loss, least, low
  <1>3. low <= composite
    BY DEF low
  <1>4. gain * low <= gain * composite /\ 0 <= gain * composite
    BY <1>1, <1>2, <1>3
  <1>5. gain * composite \in Nat
    BY <1>1, <1>4
  <1>6. /\ Scaled(gain, composite) \in Nat
        /\ gain * composite >= 100 => Scaled(gain, composite) > 0
    <2> DEFINE product == gain * composite
    <2>1. product \in Nat
      BY <1>5
    <2>2. Scaled(gain, composite) = product \div 100
      BY DEF Scaled
    <2> HIDE DEF product
    <2>3. product \div 100 \in Nat /\ (product >= 100 => product \div 100 > 0)
      BY <2>1
    <2>4. QED
      BY <2>2, <2>3 DEF product
  <1>7. gain * low \in Int /\ gain * composite \in Int
    BY <1>1, <1>2
  <1>8. least > 0 => Scaled(gain, composite) > 0
    BY <1>1, <1>4, <1>6, <1>7
  <1>9. Bounds(place, teams, composite) =
          [lo |-> -loss, hi |-> Scaled(gain, composite), floor |-> least]
    BY DEF Bounds, BoundsBy, gain, loss, least
  <1>10. QED
    BY <1>1, <1>6, <1>8, <1>9 DEF CapBounds, least

BoundNames == {"none", "min_gain", "loss_cap", "gain_cap"}

LEMMA DecideIsInteger ==
    ASSUME NEW raw \in Int, NEW teams, NEW place,
           Canonical(teams) => place \in 1 .. teams,
           NEW composite \in Int, Params.composite_floor <= composite
    PROVE  LET d == Decide(raw, place, teams, composite)
           IN d.value \in Int /\ d.bound \in BoundNames
  <1>1. CASE Canonical(teams)
    <2> DEFINE b == Bounds(place, teams, composite)
    <2>1. b \in CapBounds /\ b.lo <= b.hi
      BY <1>1, BoundsLeaveRoom
    <2>2. Decide(raw, place, teams, composite) = Decided(raw, b)
      BY <1>1 DEF Decide
    <2> HIDE DEF b
    <2>3. Decided(raw, b).value \in Int /\ Decided(raw, b).bound \in BoundNames
      BY <2>1 DEF Decided, CapBounds, Clamp, Larger, Smaller, BoundNames
    <2>4. QED
      BY <2>2, <2>3
  <1>2. CASE ~Canonical(teams)
    BY <1>2 DEF Decide, BoundNames
  <1>3. QED
    BY <1>1, <1>2

LEMMA UncappedIsRaw ==
    ASSUME NEW raw \in Int, NEW teams, NEW place,
           Canonical(teams) => place \in 1 .. teams, NEW composite \in Int
    PROVE  Decide(raw, place, teams, composite).bound = "none"
             => Decide(raw, place, teams, composite).value - raw = 0
  <1>1. CASE Canonical(teams)
    <2> DEFINE b == Bounds(place, teams, composite)
    <2>1. /\ Params.base_cap[teams][place] \in Nat /\ Params.loss_cap[teams][place] \in Nat
          /\ Params.min_gain[teams][place] \in Nat
      BY <1>1, ParamsAssumption DEF Canonical
    <2>2. Scaled(Params.base_cap[teams][place], composite) \in Int
      <3> DEFINE gain == Params.base_cap[teams][place]
      <3>1. gain \in Int
        BY <2>1
      <3> HIDE DEF gain
      <3>2. Scaled(gain, composite) \in Int
        BY <3>1, ScaledIsInteger
      <3>3. QED
        BY <3>2 DEF gain
    <2>3. b \in CapBounds
      BY <2>1, <2>2 DEF Bounds, BoundsBy, CapBounds
    <2>4. Decide(raw, place, teams, composite) = Decided(raw, b)
      BY <1>1 DEF Decide
    <2> HIDE DEF b
    <2>5. Decided(raw, b).bound = "none" => Decided(raw, b).value - raw = 0
      BY <2>3 DEF Decided, CapBounds, Clamp, Larger, Smaller
    <2>6. QED
      BY <2>4, <2>5
  <1>2. CASE ~Canonical(teams)
    BY <1>2 DEF Decide
  <1>3. QED
    BY <1>1, <1>2

-----------------------------------------------------------------------------
(* One result *)

\* The Plackett-Luce update, in whole units as everything here.
IntegerUpdate ==
    /\ \A place \in 1 .. 8 : \A mu, mean \in Int : PLDelta(place, mu, mean) \in Int
    /\ \A sigma \in Int : PLSigma(sigma) \in Int

Mods == [base : Int, weight : Int, amp : Int, streak : Int, party : Int]
States == [mu : Int, sigma : Int, cr : Int, streak : Int, played : Int,
           left : Int, peak : Int]
Results == [mods : Mods, final : Int, sigma : Int, raw : Int, confidence : Int,
            composite : Int, bound : BoundNames, cr : Int, mu : Int]

\* A CR is what mu and sigma say, or the floor above it.
Kept(cr, s) ==
    \/ cr = Identity(s.mu, s.sigma)
    \/ cr = 0 /\ Identity(s.mu, s.sigma) < 0

\* What the stored facts of a result have to do with each other.
Consistent(s, place, teams, mean, e) ==
    LET d == Decide(e.raw, place, teams, e.composite) IN
    /\ e.composite = CompositeWin(Mismatch(s.mu, mean, s.sigma, s.played), HighCr(s.cr))
    /\ Params.composite_floor <= e.composite
    /\ e.raw = ToCr(s.mu + e.final, e.sigma) - s.cr
    /\ e.confidence = -3 * (e.sigma - s.sigma)
    /\ e.bound = d.bound
    /\ e.bound = "none" => d.value - e.raw = 0
    /\ e.cr = Larger(0, s.cr + d.value)
    /\ Kept(e.cr, e)

LEMMA EarnedIsConsistent ==
    ASSUME IntegerUpdate, NEW s \in States, NEW place \in 1 .. 8, NEW teams,
           Canonical(teams) => place \in 1 .. teams,
           NEW mean \in Int, NEW factor \in Int
    PROVE  LET e == Earned(s, place, teams, mean, factor)
           IN e \in Results /\ Consistent(s, place, teams, mean, e)
  <1> DEFINE base == PLDelta(place, s.mu, mean)
             mods == [base |-> base,
                      weight |-> PlacementWeight(place, teams),
                      amp |-> PlacementAmp(s.left),
                      streak |-> StreakMult(s.streak, base),
                      party |-> PartyDampener(factor, base)]
             final == Dispersion(Through(mods, s.cr)[6], s.sigma)
             sigma == PLSigma(s.sigma)
             raw == ToCr(s.mu + final, sigma) - s.cr
             composite == CompositeWin(Mismatch(s.mu, mean, s.sigma, s.played), HighCr(s.cr))
             decided == Decide(raw, place, teams, composite)
             capped == s.cr + decided.value
             cr == Larger(0, capped)
             mu == IF decided.value # raw \/ capped < 0 THEN BackSolved(cr, sigma)
                   ELSE s.mu + final
             e == Earned(s, place, teams, mean, factor)
  <1>1. e = [mods |-> mods, final |-> final, sigma |-> sigma, raw |-> raw,
             confidence |-> -3 * (sigma - s.sigma), composite |-> composite,
             bound |-> decided.bound, cr |-> cr, mu |-> mu]
    BY DEF Earned
  <1>2. /\ s.mu \in Int /\ s.sigma \in Int /\ s.cr \in Int /\ s.streak \in Int
        /\ s.left \in Int /\ s.played \in Int
    BY DEF States
  <1>3. base \in Int /\ sigma \in Int
    BY <1>2 DEF IntegerUpdate
  <1>4. mods \in Mods
    <2> HIDE DEF base
    <2>1. PlacementWeight(place, teams) \in Int
      BY WeightIsInteger
    <2>2. PlacementAmp(s.left) \in Int /\ StreakMult(s.streak, base) \in Int
      BY <1>2, <1>3, ModifiersAreIntegers
    <2>3. PartyDampener(factor, base) \in Int
      BY <1>3, PartyIsInteger
    <2>4. QED
      BY <1>3, <2>1, <2>2, <2>3 DEF Mods
  <1> HIDE DEF mods, sigma
  <1>5. final \in Int
    <2>1. Through(mods, s.cr)[6] \in Int
      BY <1>2, <1>4, ChainIsInteger DEF Mods
    <2>2. QED
      BY <1>2, <2>1, DispersionIsInteger
  <1> HIDE DEF final
  <1>6. raw \in Int
    <2>1. Params.base_offset \in Int
      BY ParamsAssumption
    <2>2. QED
      BY <1>2, <1>3, <1>5, <2>1 DEF ToCr, Identity, Larger
  <1>7. composite \in Int /\ Params.composite_floor <= composite
    BY <1>2, CompositeIsBetween
  <1>8. raw = ToCr(s.mu + final, sigma) - s.cr
    OBVIOUS
  <1>9. composite = CompositeWin(Mismatch(s.mu, mean, s.sigma, s.played), HighCr(s.cr))
    OBVIOUS
  <1> HIDE DEF raw, composite
  <1>10. decided.value \in Int /\ decided.bound \in BoundNames
    BY <1>6, <1>7, DecideIsInteger
  <1>16. decided.bound = "none" => decided.value - raw = 0
    BY <1>6, <1>7, UncappedIsRaw
  <1> HIDE DEF decided
  <1>11. cr \in Int /\ mu \in Int
    <2>1. Params.base_offset \in Int
      BY ParamsAssumption
    <2>2. cr \in Int
      BY <1>2, <1>10 DEF Larger
    <2> HIDE DEF cr
    <2>3. QED
      BY <1>2, <1>3, <1>5, <2>1, <2>2 DEF BackSolved
  <1>12. cr = Larger(0, s.cr + decided.value)
    OBVIOUS
  <1>18. /\ decided.value # raw \/ capped < 0 => mu = BackSolved(cr, sigma)
         /\ ~(decided.value # raw \/ capped < 0) => mu = s.mu + final /\ decided.value = raw
    OBVIOUS
  <1> HIDE DEF cr, mu
  <1>17. cr = Identity(mu, sigma) \/ (cr = 0 /\ Identity(mu, sigma) < 0)
    <2> DEFINE unbound == s.mu + final
               moved == decided.value # raw \/ capped < 0
    <2>1. Params.base_offset \in Int
      BY ParamsAssumption
    <2>2. moved => mu = BackSolved(cr, sigma)
      BY <1>18
    <2>3. ~moved => mu = unbound /\ decided.value = raw
      BY <1>18
    <2>4. unbound \in Int /\ cr \in Int /\ sigma \in Int
      BY <1>2, <1>3, <1>5, <1>11
    <2>5. raw = ToCr(unbound, sigma) - s.cr
      BY <1>8
    <2> HIDE DEF moved, unbound
    <2>6. CASE moved
      <3>1. Identity(BackSolved(cr, sigma), sigma) = cr
        BY <2>1, <2>4, BackSolvingKeepsTheIdentity
      <3>2. QED
        BY <2>2, <2>6, <3>1
    <2>7. CASE ~moved
      <3>1. cr = Larger(0, s.cr + raw)
        BY <1>12, <2>3, <2>7
      <3>2. Identity(unbound, sigma) \in Int
        BY <2>1, <2>4 DEF Identity
      <3>3. ToCr(unbound, sigma) = Larger(0, Identity(unbound, sigma))
        BY DEF ToCr
      <3>4. s.cr \in Int /\ ToCr(unbound, sigma) \in Int
        BY <1>2, <3>2, <3>3 DEF Larger
      <3>5. s.cr + raw = ToCr(unbound, sigma)
        BY <2>5, <3>4
      <3>6. cr = Larger(0, Larger(0, Identity(unbound, sigma)))
        BY <3>1, <3>3, <3>5
      <3>7. cr = Identity(unbound, sigma) \/ (cr = 0 /\ Identity(unbound, sigma) < 0)
        BY <3>2, <3>6 DEF Larger
      <3>8. QED
        BY <2>3, <2>7, <3>7
    <2>8. QED
      BY <2>6, <2>7
  <1> HIDE DEF e
  <1>13. e \in Results
    BY <1>1, <1>2, <1>3, <1>4, <1>5, <1>6, <1>7, <1>10, <1>11 DEF Results
  <1>14. Consistent(s, place, teams, mean, e)
    <2>1. /\ e.composite = composite /\ e.raw = raw /\ e.final = final
          /\ e.sigma = sigma /\ e.confidence = -3 * (sigma - s.sigma)
          /\ e.bound = decided.bound /\ e.cr = cr /\ e.mu = mu
      BY <1>1
    <2>2. decided = Decide(raw, place, teams, composite)
      BY DEF decided
    <2>3. Kept(e.cr, e)
      BY <1>17, <2>1 DEF Kept
    <2>4. QED
      BY <1>7, <1>8, <1>9, <1>12, <1>16, <2>1, <2>2, <2>3 DEF Consistent
  <1>15. QED
    BY <1>13, <1>14 DEF e

-----------------------------------------------------------------------------
(* Finite sets *)

\* The image of a finite set under a function.
LEMMA ImageIsFinite ==
    ASSUME NEW S, IsFiniteSet(S), NEW f
    PROVE  IsFiniteSet({f[x] : x \in S})
  <1> DEFINE T == {f[x] : x \in S}
             g == [x \in S |-> f[x]]
  <1>1. g \in Surjection(S, T)
    BY DEF Surjection
  <1>2. QED
    BY <1>1, FS_Surjection

\* A finite set of integers has a greatest and a least element.
LEMMA FiniteHasGreatest ==
    ASSUME NEW S \in SUBSET Int, IsFiniteSet(S), S # {}
    PROVE  MaxOf(S) \in S /\ \A x \in S : MaxOf(S) >= x
  <1> DEFINE HasMax(T) == \E g \in T : \A x \in T : g >= x
             Bad == {n \in Nat : \E T \in SUBSET S :
                        T # {} /\ Cardinality(T) = n /\ ~HasMax(T)}
  <1>1. Bad = {}
    <2> SUFFICES ASSUME Bad # {} PROVE FALSE
      OBVIOUS
    <2>1. PICK n \in Bad : \A m \in Bad : n <= m
      <3> Bad \in SUBSET Nat
        OBVIOUS
      <3> HIDE DEF Bad
      <3> QED BY LeastNatural
    <2>2. PICK T \in SUBSET S : T # {} /\ Cardinality(T) = n /\ ~HasMax(T)
      OBVIOUS
    <2> DEFINE a == AnyOf(T)
               R == T \ {a}
    <2>3. /\ a \in T /\ R \in SUBSET S
          /\ Cardinality(R) \in Nat /\ Cardinality(R) < n
      <3>1. /\ a \in T /\ Cardinality(R) = Cardinality(T) - 1
            /\ Cardinality(T) \in Nat /\ Cardinality(T) > 0
        BY <2>2, RemoveOne
      <3>2. n = Cardinality(T) /\ R \in SUBSET S
        BY <2>2
      <3>3. QED
        BY <3>1, <3>2
    <2>4. R # {}
      <3> SUFFICES ASSUME R = {} PROVE FALSE
        OBVIOUS
      <3>1. T = {a}
        BY <2>3
      <3>2. a \in Int
        BY <2>2, <2>3
      <3>3. HasMax(T)
        <4>1. \A x \in T : a >= x
          BY <3>1, <3>2
        <4>2. QED
          BY <2>3, <4>1
      <3>4. QED
        BY <2>2, <3>3
    <2>5. HasMax(R)
      <3>1. Cardinality(R) \notin Bad
        <4>1. n \in Nat
          BY <2>1
        <4>2. Cardinality(R) \in Bad => n <= Cardinality(R)
          BY <2>1
        <4> HIDE DEF Bad
        <4>3. QED
          BY <2>3, <4>1, <4>2
      <3>2. QED
        BY <2>3, <2>4, <3>1
    <2>6. PICK g \in R : \A x \in R : g >= x
      BY <2>5
    <2>7. a \in Int /\ g \in Int /\ g \in T
      BY <2>2, <2>3
    <2>8. CASE g >= a
      <3>1. \A x \in T : g >= x
        BY <2>6, <2>8
      <3>2. QED
        BY <2>2, <2>7, <3>1
    <2>9. CASE a >= g
      <3>1. \A x \in T : a >= x
        <4> TAKE x \in T
        <4>1. CASE x = a
          BY <4>1, <2>7
        <4>2. CASE x # a
          <5>1. x \in Int /\ g >= x
            BY <2>2, <2>6, <4>2
          <5>2. QED
            BY <2>7, <2>9, <5>1
        <4>3. QED
          BY <4>1, <4>2
      <3>2. QED
        BY <2>2, <2>3, <3>1
    <2>10. QED
      BY <2>7, <2>8, <2>9
  <1>2. Cardinality(S) \in Nat
    BY FS_CardinalityType
  <1>3. HasMax(S)
    BY <1>1, <1>2
  <1>4. QED
    BY <1>3 DEF MaxOf

LEMMA FiniteHasLeast ==
    ASSUME NEW S \in SUBSET Int, IsFiniteSet(S), S # {}
    PROVE  MinOf(S) \in S /\ \A x \in S : MinOf(S) <= x
  <1> DEFINE f == [x \in S |-> -x]
             N == {f[x] : x \in S}
  <1>1. N \in SUBSET Int /\ N # {}
    <2>1. ASSUME NEW x \in S PROVE -x \in Int
      OBVIOUS
    <2>2. N # {}
      OBVIOUS
    <2>3. \A y \in N : y \in Int
      BY <2>1
    <2>4. QED
      BY <2>2, <2>3
  <1>2. IsFiniteSet(N)
    <2> HIDE DEF f
    <2> QED BY ImageIsFinite
  <1>3. MaxOf(N) \in N /\ \A y \in N : MaxOf(N) >= y
    <2> HIDE DEF N
    <2> QED BY <1>1, <1>2, FiniteHasGreatest
  <1>4. PICK g \in S : MaxOf(N) = -g
    BY <1>3
  <1>5. \A x \in S : g <= x
    <2> TAKE x \in S
    <2>1. -x \in N /\ x \in Int /\ g \in Int
      OBVIOUS
    <2>2. -g >= -x
      BY <1>3, <1>4, <2>1
    <2>3. QED
      BY <2>1, <2>2
  <1>6. QED
    BY <1>5 DEF MinOf

-----------------------------------------------------------------------------
(* The payloads *)

LEMMA FirstIsIn ==
    ASSUME NEW S \in SUBSET Nat, S # {}
    PROVE  First(S) \in S
  <1>1. \E i \in S : \A j \in S : i <= j
    BY LeastNatural
  <1>2. QED
    BY <1>1 DEF First

\* A payload that is rated, and what becomes of it.
Rateable == {x \in Listed : ~Rejected(x)}
At(x, p) == CHOOSE k \in DOMAIN x.people : x.people[k].who = p

LEMMA OneEntryEach ==
    ASSUME NEW x \in Listed, NEW p \in Players
    PROVE  /\ At(x, p) \in DOMAIN x.people
           /\ \A k \in DOMAIN x.people : x.people[k].who = p <=> k = At(x, p)
           /\ First({i \in DOMAIN x.people : x.people[i].who = p}) = At(x, p)
  <1>1. PICK k \in DOMAIN x.people :
            \A j \in DOMAIN x.people : x.people[j].who = p <=> j = k
    BY ListedAssumption
  <1>2. At(x, p) = k
    BY <1>1 DEF At
  <1>3. DOMAIN x.people \in SUBSET Nat
    <2>1. x.people \in Seq(Range(x.people))
      BY ListedAssumption
    <2>2. DOMAIN x.people = 1 .. Len(x.people)
      BY <2>1, LenProperties
    <2>3. QED
      BY <2>2
  <1>4. {i \in DOMAIN x.people : x.people[i].who = p} = {k}
    BY <1>1
  <1>5. First({k}) = k
    <2>1. {k} \in SUBSET Nat /\ {k} # {}
      BY <1>3
    <2>2. QED
      BY <2>1, FirstIsIn
  <1>6. QED
    BY <1>1, <1>2, <1>4, <1>5

LEMMA EntriesAreFinite ==
    ASSUME NEW x \in Listed
    PROVE  /\ IsFiniteSet(DOMAIN x.people) /\ DOMAIN x.people \in SUBSET Nat
           /\ Cardinality(DOMAIN x.people) = Len(x.people) /\ Len(x.people) \in Nat
           /\ IsFiniteSet(TeamIds(x)) /\ Cardinality(TeamIds(x)) \in Nat
  <1>1. x.people \in Seq(Range(x.people))
    BY ListedAssumption
  <1>2. Len(x.people) \in Nat /\ DOMAIN x.people = 1 .. Len(x.people)
    BY <1>1, LenProperties
  <1>3. IsFiniteSet(1 .. Len(x.people)) /\ Cardinality(1 .. Len(x.people)) = Len(x.people)
    BY <1>2, FS_Interval
  <1> DEFINE team == [i \in DOMAIN x.people |-> x.people[i].team]
  <1>4. TeamIds(x) = {team[i] : i \in DOMAIN x.people}
    BY DEF TeamIds
  <1>5. IsFiniteSet(TeamIds(x))
    <2> HIDE DEF team
    <2> QED BY <1>2, <1>3, <1>4, ImageIsFinite
  <1>6. Cardinality(TeamIds(x)) \in Nat
    BY <1>5, FS_CardinalityType
  <1>7. QED
    BY <1>2, <1>3, <1>5, <1>6

LEMMA PlaceIsKnown ==
    ASSUME NEW x \in Listed, NEW k \in DOMAIN x.people
    PROVE  /\ SaidPlace(x.people[k]) \in 0 .. 8 \cup {Absent, Null}
           /\ Placement(x.people[k]) \in 0 .. 8
  BY ListedAssumption DEF SaidPlace, Placement

LEMMA TeamPlacementIsKnown ==
    ASSUME NEW x \in Listed, NEW t
    PROVE  /\ TeamPlacement(x, t) \in 0 .. 8
           /\ (\E k \in Members(x, t) : Placement(x.people[k]) >= 1)
                 => TeamPlacement(x, t) >= 1
  <1> DEFINE placed == {i \in Members(x, t) : Placement(x.people[i]) >= 1}
  <1>1. placed \in SUBSET Nat /\ \A i \in placed : i \in DOMAIN x.people
    BY EntriesAreFinite DEF Members
  <1>2. TeamPlacement(x, t) =
          IF placed = {} THEN 0 ELSE Placement(x.people[First(placed)])
    BY DEF TeamPlacement
  <1>3. CASE placed = {}
    BY <1>2, <1>3
  <1>4. CASE placed # {}
    <2>1. First(placed) \in placed
      <3> HIDE DEF placed
      <3> QED BY <1>1, <1>4, FirstIsIn
    <2>2. QED
      BY <1>1, <1>2, <1>4, <2>1, PlaceIsKnown
  <1>5. QED
    BY <1>3, <1>4

\* A lobby that can be rated, for those that were eligible.
Playable(l) ==
    /\ l.teams \in Nat
    /\ l.place \in [Players -> 0 .. 8]
    /\ \A p \in Players \ l.out :
          /\ l.place[p] \in 1 .. 8
          /\ Canonical(l.teams) => l.place[p] \in 1 .. l.teams

\* What eligible means for the payload, and what a team shares.
LEMMA EligibleWasPlayed ==
    ASSUME NEW x \in Rateable, NEW p \in Players, p \notin LobbyOf(x, Players).out
    PROVE  LET me == x.people[At(x, p)] IN
           /\ x.cherry /\ x.duration >= MinPlayedSeconds /\ ~me.surrendered
           /\ me.played \in Nat => me.played >= MinPlayedSeconds
           /\ me.placement \in Nat \/ me.subteamPlacement \in Nat
           /\ Placement(me) >= 1
  <1> DEFINE me == x.people[At(x, p)]
  <1>1. x \in Listed /\ At(x, p) \in DOMAIN x.people
    BY OneEntryEach DEF Rateable
  <1>2. DeriveEligibility(x, me)
    BY <1>1, OneEntryEach DEF LobbyOf
  <1>3. x.cherry
    <2>1. ResolveMode(x) # {}
      BY DEF Rateable, Rejected
    <2>2. CASE x.cherry
      BY <2>2
    <2>3. CASE ~x.cherry
      <3>1. {mode \in DOMAIN ModeShape : x.queue \in QueuesOf(mode)} # {}
        BY <2>1, <2>3 DEF ResolveMode
      <3>2. x.queue \in UNION {QueuesOf(mode) : mode \in DOMAIN ModeShape}
        BY <3>1
      <3>3. QED
        BY <1>1, <3>2, ListedAssumption
    <2>4. QED
      BY <2>2, <2>3
  <1>4. SaidPlace(me) \notin {Absent, Null} /\ SaidPlace(me) >= 1
    BY <1>2 DEF DeriveEligibility
  <1>5. SaidPlace(me) \in Nat
    BY <1>1, <1>4, PlaceIsKnown
  <1>6. me.placement \in Nat \/ me.subteamPlacement \in Nat
    BY <1>5 DEF SaidPlace
  <1>7. Placement(me) >= 1
    BY <1>4 DEF Placement
  <1>8. me.played \in Nat => me.played >= MinPlayedSeconds
    BY <1>2, PayloadsAssumption DEF DeriveEligibility
  <1>9. QED
    BY <1>2, <1>3, <1>6, <1>7, <1>8 DEF DeriveEligibility

LEMMA RateableIsPlayable ==
    ASSUME NEW x \in Rateable
    PROVE  Playable(LobbyOf(x, Players))
  <1> DEFINE l == LobbyOf(x, Players)
  <1>1. x \in Listed
    BY DEF Rateable
  <1>2. l.teams = Cardinality(TeamIds(x)) /\ l.teams \in Nat
    BY <1>1, EntriesAreFinite DEF LobbyOf
  <1>3. ASSUME NEW p \in Players
        PROVE  l.place[p] = TeamPlacement(x, x.people[At(x, p)].team)
    BY <1>1, OneEntryEach DEF LobbyOf
  <1>4. l.place \in [Players -> 0 .. 8]
    <2>1. l.place = [p \in Players |-> l.place[p]]
      BY DEF LobbyOf
    <2>2. \A p \in Players : l.place[p] \in 0 .. 8
      BY <1>1, <1>3, TeamPlacementIsKnown
    <2>3. QED
      BY <2>1, <2>2
  <1>5. ASSUME NEW p \in Players \ l.out
        PROVE  /\ l.place[p] \in 1 .. 8
               /\ Canonical(l.teams) => l.place[p] \in 1 .. l.teams
    <2> DEFINE me == x.people[At(x, p)]
    <2>1. At(x, p) \in DOMAIN x.people
      BY <1>1, OneEntryEach
    <2>2. Placement(me) >= 1
      BY EligibleWasPlayed
    <2>3. At(x, p) \in Members(x, me.team) /\ me.team \in TeamIds(x)
      BY <2>1 DEF Members, TeamIds
    <2>4. TeamPlacement(x, me.team) >= 1 /\ TeamPlacement(x, me.team) \in 0 .. 8
      BY <1>1, <2>2, <2>3, TeamPlacementIsKnown
    <2>5. Canonical(l.teams) => TeamPlacement(x, me.team) <= l.teams
      BY <1>1, <1>2, <2>3, ListedAssumption
    <2>6. QED
      BY <1>2, <1>3, <2>4, <2>5
  <1>6. QED
    BY <1>2, <1>4, <1>5 DEF Playable

-----------------------------------------------------------------------------
(* The rows *)

Snapshots == [mu : Int, sigma : Int, streak : Int, played : Int, left : Int, peak : Int]
RowSet == [eligible : BOOLEAN, place : 0 .. 8, teams : Nat, before : Snapshots,
           crBefore : Int, crAfter : Int, delta : Int, mods : Mods, final : Int,
           confidence : Int, raw : Int, composite : Int, bound : BoundNames]

\* GoodPlacementsPay of one row.
Pays(r) ==
    /\ r.eligible /\ Canonical(r.teams)
    /\ Params.min_gain[r.teams][r.place] > 0
    => r.delta > 0

\* ExplanationCloses of one row.
Closes(r) ==
    r.eligible =>
        \/ TierA(r).exact
        \/ r.crBefore # Identity(r.before.mu, r.before.sigma)
        \/ r.bound # "none" /\ r.crBefore + r.final + r.confidence < 0

Untouched(r) == ~r.eligible => r.delta = 0

\* The cap decision that an explanation replays comes out a number.
Replayable(r) == r.eligible => Decide(r.raw, r.place, r.teams, r.composite).value \in Int

SoundRows ==
    {row \in [Players -> RowSet] :
        \A p \in Players : /\ Pays(row[p])
                           /\ Closes(row[p])
                           /\ Untouched(row[p]) /\ Replayable(row[p])}

\* What Persist writes of an eligible participant.
LEMMA ConsistentRow ==
    ASSUME NEW s \in States, NEW place \in 1 .. 8, NEW teams \in Nat,
           Canonical(teams) => place \in 1 .. teams, NEW mean \in Int,
           NEW e \in Results, Consistent(s, place, teams, mean, e),
           NEW r \in RowSet,
           r.eligible, r.place = place, r.teams = teams, r.before = Snapshot(s),
           r.crBefore = s.cr, r.crAfter = e.cr, r.delta = e.cr - s.cr,
           r.final = e.final, r.confidence = e.confidence, r.raw = e.raw,
           r.composite = e.composite, r.bound = e.bound
    PROVE  Pays(r) /\ Closes(r)
  <1> DEFINE d == Decide(e.raw, place, teams, e.composite)
             b == Bounds(place, teams, e.composite)
  <1>1. /\ s.mu \in Int /\ s.sigma \in Int /\ s.cr \in Int /\ s.played \in Int
        /\ e.raw \in Int /\ e.final \in Int /\ e.sigma \in Int /\ e.cr \in Int
        /\ e.confidence \in Int /\ e.composite \in Int
    BY DEF States, Results
  <1>2. /\ r.eligible /\ r.place = place /\ r.teams = teams /\ r.before = Snapshot(s)
        /\ r.crBefore = s.cr /\ r.crAfter = e.cr /\ r.delta = e.cr - s.cr
        /\ r.final = e.final /\ r.confidence = e.confidence /\ r.raw = e.raw
        /\ r.composite = e.composite /\ r.bound = e.bound
    OBVIOUS
  <1>3. /\ r.before.mu = s.mu /\ r.before.sigma = s.sigma /\ r.before.played = s.played
    BY <1>2 DEF Snapshot
  <1>4. /\ e.composite = CompositeWin(Mismatch(s.mu, mean, s.sigma, s.played), HighCr(s.cr))
        /\ Params.composite_floor <= e.composite
        /\ e.raw = ToCr(s.mu + e.final, e.sigma) - s.cr
        /\ e.confidence = -3 * (e.sigma - s.sigma)
        /\ e.bound = d.bound /\ e.cr = Larger(0, s.cr + d.value)
        /\ e.bound = "none" => d.value - e.raw = 0
    BY DEF Consistent
  <1>5. d.value \in Int /\ d.bound \in BoundNames
    <2>1. e.raw \in Int /\ e.composite \in Int /\ Params.composite_floor <= e.composite
      BY <1>1, <1>4
    <2>2. QED
      BY <2>1, DecideIsInteger
  <1>6. ASSUME Canonical(teams)
        PROVE  /\ d = Decided(e.raw, b)
               /\ b \in CapBounds /\ b.lo <= b.hi
               /\ b.floor = Params.min_gain[teams][place]
               /\ b.floor > 0 => b.hi > 0
    <2>1. d = Decided(e.raw, b)
      BY <1>6 DEF Decide
    <2>2. QED
      BY <1>1, <1>4, <1>6, <2>1, BoundsLeaveRoom
  <1> HIDE DEF d, b
  <1>7. Pays(r)
    <2> SUFFICES ASSUME Canonical(teams), Params.min_gain[teams][place] > 0
                 PROVE  r.delta > 0
      BY <1>2 DEF Pays
    <2>1. Larger(0, s.cr + Decided(e.raw, b).value) - s.cr > 0
      BY <1>1, <1>6, FlooredPlacementPays
    <2>2. QED
      BY <1>2, <1>4, <1>6, <2>1
  <1>8. \/ TierA(r).exact
        \/ r.crBefore # Identity(r.before.mu, r.before.sigma)
        \/ r.bound # "none" /\ r.crBefore + r.final + r.confidence < 0
    <2> SUFFICES ASSUME s.cr = Identity(s.mu, s.sigma),
                        e.bound # "none" => s.cr + e.final + e.confidence >= 0
                 PROVE  TierA(r).exact
      BY <1>1, <1>2, <1>3
    <2> DEFINE running == e.final + e.confidence + (d.value - e.raw)
               gap == (e.cr - s.cr) - running
    <2>1. TierA(r).exact <=> gap = 0 \/ (e.cr = 0 /\ s.cr + running < 0)
      <3>1. r.delta = e.cr - s.cr
        BY <1>2
      <3>2. d = Decide(r.raw, r.place, r.teams, r.composite)
        BY <1>2 DEF d
      <3>3. TierA(r).exact <=>
             \/ r.delta - (r.final + r.confidence + (d.value - r.raw)) = 0
             \/ r.crAfter = 0 /\ r.crBefore + (r.final + r.confidence + (d.value - r.raw)) < 0
        BY <3>2 DEF TierA, ZeroFloored
      <3>4. QED
        BY <1>2, <3>1, <3>3
    <2>2. Params.base_offset \in Int
      BY ParamsAssumption
    <2>3. Identity(s.mu + e.final, e.sigma) = s.cr + e.final + e.confidence
      BY <1>1, <1>4, <2>2 DEF Identity
    <2> HIDE DEF Identity
    <2>4. e.raw = Larger(0, s.cr + e.final + e.confidence) - s.cr
      BY <1>4, <2>3 DEF ToCr
    <2>5. CASE s.cr + e.final + e.confidence >= 0
      <3>1. e.raw = e.final + e.confidence
        BY <1>1, <2>4, <2>5 DEF Larger
      <3>2. running = d.value
        BY <1>1, <1>5, <3>1
      <3>3. QED
        BY <1>1, <1>4, <1>5, <2>1, <3>2 DEF Larger
    <2>6. CASE s.cr + e.final + e.confidence < 0
      <3>1. d.value = e.raw
        BY <1>1, <1>4, <1>5, <2>6
      <3>2. e.raw = -s.cr
        BY <1>1, <2>4, <2>6 DEF Larger
      <3>3. e.cr = 0
        BY <1>1, <1>4, <3>1, <3>2 DEF Larger
      <3>4. s.cr + running < 0
        BY <1>1, <2>6, <3>1
      <3>5. QED
        BY <2>1, <3>3, <3>4
    <2>7. QED
      BY <1>1, <2>5, <2>6
  <1>9. QED
    BY <1>7, <1>8 DEF Closes

\* A snapshot of a state, and the state a snapshot restores.
LEMMA SnapshotsRestore ==
    /\ \A s \in States : Snapshot(s) \in Snapshots
    /\ \A s \in States, b \in Snapshots :
          Restored(s, b) \in States /\ Snapshot(Restored(s, b)) = b
  <1>1. ASSUME NEW s \in States PROVE Snapshot(s) \in Snapshots
    BY DEF Snapshot, Snapshots, States
  <1>2. ASSUME NEW s \in States, NEW b \in Snapshots
        PROVE  Restored(s, b) \in States /\ Snapshot(Restored(s, b)) = b
    <2>1. Params.base_offset \in Int
      BY ParamsAssumption
    <2>2. Identity(b.mu, b.sigma) \in Int
      BY <2>1 DEF Identity, Snapshots
    <2>3. Restored(s, b) \in States
      BY <2>2 DEF Restored, States, Snapshots
    <2>4. Snapshot(Restored(s, b)) = b
      BY DEF Restored, Snapshot, Snapshots
    <2>5. QED
      BY <2>3, <2>4
  <1>3. QED
    BY <1>1, <1>2

LEMMA MovedIsAState ==
    ASSUME NEW s \in States, NEW e \in Results, NEW win
    PROVE  Moved(s, e, win) \in States
  <1>1. NextStreak(s.streak, win) \in Int
    BY DEF NextStreak, Larger, Smaller, States
  <1>2. Larger(0, s.left - 1) \in Int /\ Larger(s.peak, e.cr) \in Int
    BY DEF Larger, States, Results
  <1>3. QED
    BY <1>1, <1>2 DEF Moved, States, Results

\* The row of an ineligible participant.
LEMMA FrozenRow ==
    ASSUME NEW s \in States
    PROVE  Frozen(s) \in Results /\ Frozen(s).cr = s.cr /\ Frozen(s).mods.party = 100
  BY DEF Frozen, States, Results, Mods, BoundNames

LEMMA EarnedParty ==
    ASSUME NEW s, NEW place, NEW teams, NEW mean, NEW factor
    PROVE  Earned(s, place, teams, mean, factor).mods.party =
             PartyDampener(factor, PLDelta(place, s.mu, mean))
  BY DEF Earned

LEMMA MeanIsAnInteger ==
    ASSUME season \in [Players -> States], NEW p \in Players
    PROVE  LobbyMean(p) \in Int
  <1> DEFINE mus == [q \in Players |-> season[q].mu]
             S == Players \ {p}
  <1>1. IsFiniteSet(S)
    BY ListedAssumption, FS_Subset
  <1>2. \A q \in S : mus[q] \in Int
    BY DEF States
  <1>3. SumFunctionOnSet(mus, S) \in Int
    <2> HIDE DEF mus, S
    <2> QED BY <1>1, <1>2, SumIsInteger
  <1>4. Cardinality(Players) - 1 \in Nat \ {0}
    BY ListedAssumption, FS_CardinalityType
  <1> DEFINE sum == SumFunctionOnSet(mus, S)
             n == Cardinality(Players) - 1
  <1>5. LobbyMean(p) = sum \div n
    BY DEF LobbyMean
  <1> HIDE DEF sum, n
  <1>6. sum \in Int /\ n \in Nat \ {0}
    BY <1>3, <1>4 DEF sum, n
  <1>7. sum \div n \in Int
    BY <1>6
  <1>8. QED
    BY <1>5, <1>7

\* What process_match leaves of lobby l.
LEMMA PersistIsSound ==
    ASSUME IntegerUpdate, season \in [Players -> States], NEW l, Playable(l),
           NEW factor \in [Players -> Int], Persist(l, factor)
    PROVE  /\ season' \in [Players -> States]
           /\ \E row \in SoundRows :
                /\ rows' = Append(rows, row)
                /\ \A p \in Players :
                      /\ row[p].eligible <=> p \notin l.out
                      /\ row[p].place = l.place[p] /\ row[p].teams = l.teams
                      /\ row[p].before = Snapshot(season[p])
                      /\ p \in l.out => season'[p] = season[p]
                      /\ p \in l.out => row[p].mods.party = 100
                      /\ p \notin l.out =>
                            \E base \in Int :
                                row[p].mods.party = PartyDampener(factor[p], base)
  <1> DEFINE e == [p \in Players |->
                    IF p \in l.out THEN Frozen(season[p])
                    ELSE Earned(season[p], l.place[p], l.teams, LobbyMean(p), factor[p])]
             row == [p \in Players |-> Row(p, l, e[p])]
             win == [p \in Players |-> IsWin(l.place[p], l.teams)]
  <1>1. /\ season' = [p \in Players |->
             IF p \in l.out THEN season[p] ELSE Moved(season[p], e[p], win[p])]
        /\ rows' = Append(rows, row)
    BY DEF Persist
  <1>2. ASSUME NEW p \in Players
        PROVE  season[p] \in States /\ LobbyMean(p) \in Int
    BY MeanIsAnInteger
  <1>3. ASSUME NEW p \in Players, p \notin l.out
        PROVE  /\ l.place[p] \in 1 .. 8 /\ l.teams \in Nat
               /\ Canonical(l.teams) => l.place[p] \in 1 .. l.teams
               /\ e[p] \in Results
               /\ Consistent(season[p], l.place[p], l.teams, LobbyMean(p), e[p])
               /\ \E base \in Int : e[p].mods.party = PartyDampener(factor[p], base)
    <2>1. /\ l.place[p] \in 1 .. 8 /\ l.teams \in Nat
          /\ Canonical(l.teams) => l.place[p] \in 1 .. l.teams
      BY <1>3 DEF Playable
    <2>2. e[p] = Earned(season[p], l.place[p], l.teams, LobbyMean(p), factor[p])
      BY <1>3
    <2> HIDE DEF e
    <2>3. /\ e[p] \in Results
          /\ Consistent(season[p], l.place[p], l.teams, LobbyMean(p), e[p])
      BY <1>2, <2>1, <2>2, EarnedIsConsistent
    <2>4. \E base \in Int : e[p].mods.party = PartyDampener(factor[p], base)
      <3>1. PLDelta(l.place[p], season[p].mu, LobbyMean(p)) \in Int
        BY <1>2, <2>1 DEF IntegerUpdate, States
      <3>2. e[p].mods.party = PartyDampener(factor[p],
                                PLDelta(l.place[p], season[p].mu, LobbyMean(p)))
        BY <2>2, EarnedParty
      <3>3. QED
        BY <3>1, <3>2
    <2>5. QED
      BY <2>1, <2>3, <2>4
  <1>4. ASSUME NEW p \in Players, p \in l.out
        PROVE  e[p] \in Results /\ e[p].cr = season[p].cr /\ e[p].mods.party = 100
    <2>1. e[p] = Frozen(season[p])
      BY <1>4
    <2>2. QED
      BY <1>2, <2>1, FrozenRow
  <1> HIDE DEF e
  <1>5. season' \in [Players -> States]
    <2>1. ASSUME NEW p \in Players
          PROVE  (IF p \in l.out THEN season[p] ELSE Moved(season[p], e[p], win[p])) \in States
      <3>1. CASE p \in l.out
        BY <1>2, <3>1
      <3>2. CASE p \notin l.out
        <4>1. Moved(season[p], e[p], win[p]) \in States
          BY <1>2, <1>3, <3>2, MovedIsAState
        <4>2. QED
          BY <3>2, <4>1
      <3>3. QED
        BY <3>1, <3>2
    <2>2. QED
      BY <1>1, <2>1
  <1>6. ASSUME NEW p \in Players
        PROVE  /\ row[p] \in RowSet
               /\ row[p].eligible <=> p \notin l.out
               /\ row[p].place = l.place[p] /\ row[p].teams = l.teams
               /\ row[p].before = Snapshot(season[p]) /\ row[p].crBefore = season[p].cr
               /\ row[p].crAfter = e[p].cr /\ row[p].delta = e[p].cr - season[p].cr
               /\ row[p].mods = e[p].mods /\ row[p].final = e[p].final
               /\ row[p].confidence = e[p].confidence /\ row[p].raw = e[p].raw
               /\ row[p].composite = e[p].composite /\ row[p].bound = e[p].bound
    <2>1. row[p] = Row(p, l, e[p])
      OBVIOUS
    <2> HIDE DEF row
    <2>2. /\ row[p].place = l.place[p] /\ row[p].teams = l.teams
          /\ row[p].before = Snapshot(season[p]) /\ row[p].crBefore = season[p].cr
          /\ row[p].crAfter = e[p].cr /\ row[p].delta = e[p].cr - season[p].cr
          /\ row[p].mods = e[p].mods /\ row[p].final = e[p].final
          /\ row[p].confidence = e[p].confidence /\ row[p].raw = e[p].raw
          /\ row[p].composite = e[p].composite /\ row[p].bound = e[p].bound
      BY <2>1 DEF Row
    <2>3. row[p].eligible <=> p \notin l.out
      <3>1. Row(p, l, e[p]).eligible <=> p \notin l.out
        BY DEF Row
      <3>2. QED
        BY <2>1, <3>1
    <2>4. e[p] \in Results
      BY <1>3, <1>4
    <2>5. /\ season[p].cr \in Int /\ Snapshot(season[p]) \in Snapshots
          /\ l.place[p] \in 0 .. 8 /\ l.teams \in Nat
      BY <1>2, SnapshotsRestore DEF States, Playable
    <2>6. /\ e[p].cr \in Int /\ e[p].mods \in Mods /\ e[p].final \in Int
          /\ e[p].confidence \in Int /\ e[p].raw \in Int /\ e[p].composite \in Int
          /\ e[p].bound \in BoundNames /\ e[p].cr - season[p].cr \in Int
      BY <2>4, <2>5 DEF Results
    <2>7. row[p] \in RowSet
      BY <2>1, <2>5, <2>6 DEF Row, RowSet
    <2>8. QED
      BY <2>2, <2>3, <2>7
  <1>7. row \in [Players -> RowSet]
    BY <1>6
  <1> HIDE DEF row
  <1>8. ASSUME NEW p \in Players
        PROVE  /\ Pays(row[p]) /\ Closes(row[p])
               /\ Untouched(row[p]) /\ Replayable(row[p])
    <2>1. CASE p \in l.out
      <3>1. ~row[p].eligible /\ row[p].delta = e[p].cr - season[p].cr
        BY <1>6, <2>1
      <3>2. row[p].delta = 0
        BY <1>2, <1>4, <2>1, <3>1 DEF States
      <3>3. QED
        BY <3>1, <3>2 DEF Pays, Closes, Untouched, Replayable
    <2>2. CASE p \notin l.out
      <3>1. row[p].eligible
        BY <1>6, <2>2
      <3>2. /\ l.place[p] \in 1 .. 8 /\ l.teams \in Nat
            /\ Canonical(l.teams) => l.place[p] \in 1 .. l.teams
            /\ e[p] \in Results /\ season[p] \in States /\ LobbyMean(p) \in Int
            /\ Consistent(season[p], l.place[p], l.teams, LobbyMean(p), e[p])
        BY <1>2, <1>3, <2>2
      <3>3. /\ row[p] \in RowSet
            /\ row[p].place = l.place[p] /\ row[p].teams = l.teams
            /\ row[p].before = Snapshot(season[p]) /\ row[p].crBefore = season[p].cr
            /\ row[p].crAfter = e[p].cr /\ row[p].delta = e[p].cr - season[p].cr
            /\ row[p].final = e[p].final /\ row[p].confidence = e[p].confidence
            /\ row[p].raw = e[p].raw /\ row[p].composite = e[p].composite
            /\ row[p].bound = e[p].bound
        BY <1>6
      <3>4. Pays(row[p]) /\ Closes(row[p])
        BY <3>1, <3>2, <3>3, ConsistentRow
      <3>5. Decide(e[p].raw, l.place[p], l.teams, e[p].composite).value \in Int
        <4>1. e[p].raw \in Int /\ e[p].composite \in Int
          BY <3>2 DEF Results
        <4>2. Params.composite_floor <= e[p].composite
          BY <3>2 DEF Consistent
        <4> DEFINE raw == e[p].raw
                   composite == e[p].composite
                   place == l.place[p]
                   teams == l.teams
        <4>3. /\ raw \in Int /\ composite \in Int /\ Params.composite_floor <= composite
              /\ Canonical(teams) => place \in 1 .. teams
          BY <3>2, <4>1, <4>2
        <4> HIDE DEF raw, composite, place, teams
        <4>4. Decide(raw, place, teams, composite).value \in Int
          BY <4>3, DecideIsInteger
        <4>5. QED
          BY <4>4 DEF raw, composite, place, teams
      <3>6. Replayable(row[p])
        BY <3>3, <3>5 DEF Replayable
      <3>7. QED
        BY <3>1, <3>4, <3>6 DEF Untouched
    <2>3. QED
      BY <2>1, <2>2
  <1>9. row \in SoundRows
    BY <1>7, <1>8 DEF SoundRows
  <1>10. ASSUME NEW p \in Players
         PROVE  /\ row[p].eligible <=> p \notin l.out
                /\ row[p].place = l.place[p] /\ row[p].teams = l.teams
                /\ row[p].before = Snapshot(season[p])
                /\ row[p].mods = e[p].mods
                /\ p \in l.out => season'[p] = season[p]
    BY <1>1, <1>6
  <1>11. QED
    BY <1>1, <1>3, <1>4, <1>5, <1>9, <1>10

-----------------------------------------------------------------------------
(* The party factors *)

LEMMA PremadeIsInteger ==
    ASSUME NEW count \in Int, NEW spread \in Int
    PROVE  /\ PremadeFactor(count, spread) \in Int
           /\ count = 1 => PremadeFactor(count, spread) = 0
  <1> DEFINE span == Premade.repeat_threshold - 1
             gap == Premade.homogeneity_gap
             strength == Premade.strength
  <1>1. span \in Nat \ {0} /\ gap \in Nat \ {0} /\ strength \in Int
    BY ParamsAssumption
  <1>2. /\ Confidence(count) = Clamp((100 * (count - 1)) \div span, 0, 100)
        /\ Homogeneity(spread) = Clamp(100 - (100 * spread) \div gap, 0, 100)
        /\ PremadeFactor(count, spread) =
              (strength * Confidence(count) * Homogeneity(spread)) \div 10000
    BY DEF Confidence, Homogeneity, PremadeFactor
  <1> HIDE DEF span, gap, strength
  <1>3. Confidence(count) \in Int /\ (count = 1 => Confidence(count) = 0)
    <2>1. (100 * (count - 1)) \div span \in Int
      BY <1>1
    <2>2. ASSUME count = 1 PROVE (100 * (count - 1)) \div span = 0
      <3>1. 100 * (count - 1) = 0
        BY <2>2
      <3>2. 0 \div span = 0
        BY <1>1
      <3>3. QED
        BY <3>1, <3>2
    <2>3. QED
      BY <1>2, <2>1, <2>2 DEF Clamp
  <1>4. Homogeneity(spread) \in Int
    <2>1. (100 * spread) \div gap \in Int
      BY <1>1
    <2>2. QED
      BY <1>2, <2>1 DEF Clamp
  <1> DEFINE c == Confidence(count)
             h == Homogeneity(spread)
  <1>5. PremadeFactor(count, spread) = (strength * c * h) \div 10000
    BY <1>2
  <1>6. c \in Int /\ h \in Int /\ (count = 1 => c = 0)
    BY <1>3, <1>4
  <1> HIDE DEF c, h
  <1>7. strength * c * h \in Int
    BY <1>1, <1>6
  <1>8. ASSUME count = 1 PROVE strength * c * h = 0
    BY <1>1, <1>6, <1>8
  <1> DEFINE product == strength * c * h
  <1> HIDE DEF product
  <1>9. product \in Int /\ (count = 1 => product = 0)
    BY <1>7, <1>8 DEF product
  <1>10. product \div 10000 \in Int /\ (count = 1 => product \div 10000 = 0)
    BY <1>9
  <1>11. QED
    BY <1>5, <1>10 DEF product

LEMMA MatesArePlayers ==
    ASSUME NEW l, NEW p
    PROVE  /\ Mates(l, p) \in SUBSET Players /\ p \notin Mates(l, p)
           /\ IsFiniteSet(Mates(l, p))
  BY ListedAssumption, FS_Subset DEF Mates

LEMMA CountIsNatural ==
    ASSUME NEW n \in Nat, NEW window, NEW p,
           window[p] \in SUBSET (Players \X (1 .. n)), NEW q
    PROVE  Count(window, p, q) \in Nat
  <1>1. IsFiniteSet(Players \X (1 .. n))
    <2>1. IsFiniteSet(Players)
      BY ListedAssumption
    <2>2. 1 \in Int /\ n \in Int
      OBVIOUS
    <2>3. IsFiniteSet(1 .. n)
      BY <2>2, FS_Interval
    <2> DEFINE upto == 1 .. n
    <2> HIDE DEF upto
    <2>4. IsFiniteSet(upto)
      BY <2>3 DEF upto
    <2>5. IsFiniteSet(Players \X upto)
      BY <2>1, <2>4, FS_Product
    <2>6. QED
      BY <2>5 DEF upto
  <1>2. {e \in window[p] : e[1] = q} \in SUBSET (Players \X (1 .. n))
    OBVIOUS
  <1>3. IsFiniteSet({e \in window[p] : e[1] = q})
    BY <1>1, <1>2, FS_Subset
  <1>4. QED
    BY <1>3, FS_CardinalityType DEF Count

\* Whoever plays alone, or whose companions were met this once, is not dampened.
LEMMA FactorsAreIntegers ==
    ASSUME season \in [Players -> States], NEW n \in Nat, NEW l,
           NEW window, \A p \in Players : window[p] \in SUBSET (Players \X (1 .. n))
    PROVE  /\ PartyFactors(l, window) \in [Players -> Int]
           /\ \A p \in Players : (\A q \in Mates(l, p) : Count(window, p, q) = 1)
                 => PartyFactors(l, window)[p] = 0
  <1>1. ASSUME NEW p \in Players
        PROVE  /\ PartyFactors(l, window)[p] \in Int
               /\ (\A q \in Mates(l, p) : Count(window, p, q) = 1)
                    => PartyFactors(l, window)[p] = 0
    <2> DEFINE mates == Mates(l, p)
               team == mates \cup {p}
               count == [q \in mates |-> Count(window, p, q)]
               counts == {count[q] : q \in mates}
               cr == [q \in team |-> season[q].cr]
               crs == {cr[q] : q \in team}
               spread == MaxOf(crs) - MinOf(crs)
    <2>1. mates \in SUBSET Players /\ p \notin mates /\ IsFiniteSet(mates)
      BY MatesArePlayers
    <2>2. PartyFactors(l, window)[p] =
            IF mates = {} THEN 0 ELSE PremadeFactor(MaxOf(counts), spread)
      <3>1. team \ {p} = mates
        BY <2>1
      <3>2. team = {p} <=> mates = {}
        BY <2>1
      <3>3. {Count(window, p, q) : q \in mates} = counts
        OBVIOUS
      <3>4. {season[q].cr : q \in team} = crs
        OBVIOUS
      <3>5. PartyFactors(l, window)[p] =
              IF team = {p} THEN 0
              ELSE PremadeFactor(MaxOf({Count(window, p, q) : q \in team \ {p}}),
                     MaxOf({season[q].cr : q \in team}) - MinOf({season[q].cr : q \in team}))
        BY DEF PartyFactors
      <3> HIDE DEF mates, team, count, counts, cr, crs
      <3>6. QED
        BY <3>1, <3>2, <3>3, <3>4, <3>5
    <2>3. CASE mates = {}
      BY <2>2, <2>3
    <2>4. CASE mates # {}
      <3>1. \A q \in mates : count[q] \in Int
        <4>1. ASSUME NEW q \in mates PROVE Count(window, p, q) \in Nat
          BY CountIsNatural
        <4>2. QED
          BY <4>1
      <3>2. MaxOf(counts) \in counts
        <4>1. counts \in SUBSET Int /\ counts # {}
          BY <2>4, <3>1
        <4>2. IsFiniteSet(counts)
          <5> HIDE DEF count, mates
          <5> QED BY <2>1, ImageIsFinite
        <4> HIDE DEF counts
        <4>3. QED
          BY <4>1, <4>2, FiniteHasGreatest
      <3>3. \A q \in team : cr[q] \in Int
        BY <2>1 DEF States
      <3>4. spread \in Int
        <4>1. crs \in SUBSET Int /\ crs # {}
          BY <3>3
        <4>2. IsFiniteSet(team)
          BY <2>1, FS_AddElement
        <4>3. IsFiniteSet(crs)
          <5> HIDE DEF cr, team
          <5> QED BY <4>2, ImageIsFinite
        <4> HIDE DEF crs
        <4>4. MaxOf(crs) \in Int
          BY <4>1, <4>3, FiniteHasGreatest
        <4>5. MinOf(crs) \in Int
          BY <4>1, <4>3, FiniteHasLeast
        <4>6. QED
          BY <4>4, <4>5
      <3>5. MaxOf(counts) \in Int
        BY <3>1, <3>2
      <3>6. (\A q \in mates : Count(window, p, q) = 1) => MaxOf(counts) = 1
        BY <3>2
      <3> HIDE DEF spread, counts
      <3>7. /\ PremadeFactor(MaxOf(counts), spread) \in Int
            /\ MaxOf(counts) = 1 => PremadeFactor(MaxOf(counts), spread) = 0
        BY <3>4, <3>5, PremadeIsInteger
      <3>8. QED
        BY <2>2, <2>4, <3>6, <3>7
    <2>5. QED
      BY <2>3, <2>4
  <1>2. PartyFactors(l, window) = [p \in Players |-> PartyFactors(l, window)[p]]
    BY DEF PartyFactors
  <1>3. QED
    BY <1>1, <1>2

LEMMA NoFactorNoDampener ==
    ASSUME NEW base \in Int PROVE PartyDampener(0, base) = 100
  BY DEF PartyDampener, Clamp

-----------------------------------------------------------------------------
(* The invariant *)

Lobbies == {LobbyOf(x, Players) : x \in Rateable}

TInv ==
    /\ season \in [Players -> States]
    /\ came \in Seq(Rateable) /\ facts \in Seq(Lobbies) /\ rows \in Seq(SoundRows)
    /\ fetched \in Listed \cup {None} /\ replaying \in BOOLEAN
    /\ Len(facts) = Len(came) /\ Len(rows) <= Len(facts)
    /\ \A i \in 1 .. Len(facts) : facts[i] = LobbyOf(came[i], Players)
    /\ ~replaying => Len(rows) = Len(facts)
    /\ replaying => fetched = None

\* q and p were of one team in match i, which was committed or is at hand.
Together(p, q, i) ==
    \/ i \in 1 .. Len(facts) /\ q \in Mates(facts[i], p)
    \/ /\ i = Len(facts) + 1 /\ fetched # None /\ ~Rejected(fetched)
       /\ q \in Mates(LobbyOf(fetched, Players), p)

\* The window of Redis remembers only what happened.
WindowHolds ==
    /\ DOMAIN met = Players
    /\ \A p \in Players :
          /\ met[p] \in SUBSET (Players \X (1 .. Len(facts) + 1))
          /\ \A e \in met[p] : Together(p, e[1], e[2])

\* A row says of its match what the lobby says.
RowsTell ==
    \A i \in 1 .. Len(rows) : \A p \in Players :
        /\ rows[i][p].eligible <=> p \notin facts[i].out
        /\ rows[i][p].place = facts[i].place[p]

\* The state a player of match i has after it.
After(i, p) == IF i < Len(rows) THEN rows[i + 1][p].before ELSE Snapshot(season[p])

Continuous ==
    \A i \in 1 .. Len(rows) : \A p \in Players :
        ~rows[i][p].eligible => After(i, p) = rows[i][p].before

IInv == TInv /\ WindowHolds /\ RowsTell /\ Continuous /\ StrangersAreNotDampened

-----------------------------------------------------------------------------
(* A commit, live or of a replay *)

\* l is the next match to get rows, after the ones that have them.
Follows(l) ==
    l = facts'[Len(rows) + 1] /\ \A i \in 1 .. Len(rows) : facts'[i] = facts[i]

\* Whoever plays with strangers has no factor.
SparesStrangers(l, factor) ==
    \A p \in Players :
        (\A j \in 1 .. Len(rows) : Mates(l, p) \cap Mates(facts[j], p) = {})
            => factor[p] = 0

LEMMA CommitIsSound ==
    ASSUME IntegerUpdate, TInv, RowsTell, Continuous, StrangersAreNotDampened,
           NEW l, Playable(l), Follows(l), NEW factor \in [Players -> Int],
           SparesStrangers(l, factor), Persist(l, factor)
    PROVE  /\ season' \in [Players -> States]
           /\ rows' \in Seq(SoundRows) /\ Len(rows') = Len(rows) + 1
           /\ RowsTell' /\ Continuous' /\ StrangersAreNotDampened'
  <1>1. season \in [Players -> States] /\ rows \in Seq(SoundRows)
    BY DEF TInv
  <1>2. PICK row \in SoundRows :
          /\ rows' = Append(rows, row)
          /\ \A p \in Players :
                /\ row[p].eligible <=> p \notin l.out
                /\ row[p].place = l.place[p] /\ row[p].teams = l.teams
                /\ row[p].before = Snapshot(season[p])
                /\ p \in l.out => season'[p] = season[p]
                /\ p \in l.out => row[p].mods.party = 100
                /\ p \notin l.out =>
                      \E base \in Int :
                          row[p].mods.party = PartyDampener(factor[p], base)
    BY <1>1, PersistIsSound
  <1>3. season' \in [Players -> States]
    BY <1>1, PersistIsSound
  <1> DEFINE n == Len(rows)
  <1>4. /\ rows' \in Seq(SoundRows) /\ Len(rows') = n + 1 /\ n \in Nat
        /\ rows'[n + 1] = row
        /\ \A i \in 1 .. n : rows'[i] = rows[i]
    BY <1>1, <1>2, AppendProperties, LenProperties
  <1> HIDE DEF n
  <1>5. \A i \in 1 .. n + 1 : i \in 1 .. n \/ i = n + 1
    BY <1>4
  <1>6. /\ facts'[n + 1] = l /\ \A i \in 1 .. n : facts'[i] = facts[i]
        /\ \A i \in 1 .. n : \A p \in Players :
              /\ rows[i][p].eligible <=> p \notin facts[i].out
              /\ rows[i][p].place = facts[i].place[p]
              /\ ~rows[i][p].eligible => After(i, p) = rows[i][p].before
              /\ (\A j \in 1 .. i - 1 : Mates(facts[i], p) \cap Mates(facts[j], p) = {})
                     => rows[i][p].mods.party = 100
    BY DEF n, Follows, RowsTell, Continuous, StrangersAreNotDampened
  <1>7. RowsTell'
    <2>1. ASSUME NEW i \in 1 .. n + 1, NEW p \in Players
          PROVE  /\ rows'[i][p].eligible <=> p \notin facts'[i].out
                 /\ rows'[i][p].place = facts'[i].place[p]
      <3>1. CASE i \in 1 .. n
        BY <1>4, <1>6, <3>1
      <3>2. CASE i = n + 1
        BY <1>2, <1>4, <1>6, <3>2
      <3>3. QED
        BY <1>5, <3>1, <3>2
    <2>2. QED
      BY <1>4, <2>1 DEF RowsTell
  <1>8. Continuous'
    <2>1. ASSUME NEW i \in 1 .. n + 1, NEW p \in Players, ~rows'[i][p].eligible
          PROVE  (IF i < n + 1 THEN rows'[i + 1][p].before ELSE Snapshot(season'[p]))
                    = rows'[i][p].before
      <3>1. CASE i \in 1 .. n /\ i < n
        <4>1. i + 1 \in 1 .. n /\ i < n + 1
          BY <1>4, <3>1
        <4>2. After(i, p) = rows[i + 1][p].before
          BY <3>1 DEF After, n
        <4>3. QED
          BY <1>4, <1>6, <2>1, <3>1, <4>1, <4>2
      <3>2. CASE i = n /\ i \in 1 .. n
        <4>1. After(i, p) = Snapshot(season[p])
          BY <1>4, <3>2 DEF After, n
        <4>2. rows'[i + 1][p].before = Snapshot(season[p]) /\ i < n + 1
          BY <1>2, <1>4, <3>2
        <4>3. QED
          BY <1>4, <1>6, <2>1, <3>2, <4>1, <4>2
      <3>3. CASE i = n + 1
        BY <1>2, <1>4, <2>1, <3>3
      <3>4. i \in 1 .. n => i < n \/ i = n
        BY <1>4
      <3>5. QED
        BY <1>5, <3>1, <3>2, <3>3, <3>4
    <2>2. QED
      BY <1>4, <2>1 DEF Continuous, After
  <1>9. StrangersAreNotDampened'
    <2>1. ASSUME NEW i \in 1 .. n + 1, NEW p \in Players,
                 \A j \in 1 .. i - 1 : Mates(facts'[i], p) \cap Mates(facts'[j], p) = {}
          PROVE  rows'[i][p].mods.party = 100
      <3>1. CASE i \in 1 .. n
        <4>1. \A j \in 1 .. i - 1 : j \in 1 .. n
          BY <1>4, <3>1
        <4>2. \A j \in 1 .. i - 1 : Mates(facts[i], p) \cap Mates(facts[j], p) = {}
          BY <1>6, <2>1, <3>1, <4>1
        <4>3. QED
          BY <1>4, <1>6, <3>1, <4>2
      <3>2. CASE i = n + 1
        <4>1. CASE p \in l.out
          BY <1>2, <1>4, <3>2, <4>1
        <4>2. CASE p \notin l.out
          <5>1. PICK base \in Int : row[p].mods.party = PartyDampener(factor[p], base)
            BY <1>2, <4>2
          <5>2. i - 1 = n
            BY <1>4, <3>2
          <5>3. \A j \in 1 .. n : Mates(l, p) \cap Mates(facts[j], p) = {}
            BY <1>6, <2>1, <3>2, <5>2
          <5>4. factor[p] = 0
            BY <5>3 DEF n, SparesStrangers
          <5>5. QED
            BY <1>4, <3>2, <5>1, <5>4, NoFactorNoDampener
        <4>3. QED
          BY <4>1, <4>2
      <3>3. QED
        BY <1>5, <3>1, <3>2
    <2>2. QED
      BY <1>4, <2>1 DEF StrangersAreNotDampened
  <1>10. QED
    BY <1>3, <1>4, <1>7, <1>8, <1>9 DEF n

LEMMA InitHolds == Init => IInv
  <1> SUFFICES ASSUME Init PROVE IInv
    OBVIOUS
  <1>1. Fresh \in States
    <2>1. /\ Params.mu0 \in Int /\ Params.sigma0 \in Int /\ Params.base_offset \in Int
          /\ Params.placement_match_count \in Int
      BY ParamsAssumption
    <2>2. Identity(Params.mu0, Params.sigma0) \in Int
      BY <2>1 DEF Identity
    <2>3. QED
      BY <2>1, <2>2 DEF Fresh, States
  <1>2. /\ came = <<>> /\ facts = <<>> /\ rows = <<>>
        /\ Len(came) = 0 /\ Len(facts) = 0 /\ Len(rows) = 0
        /\ fetched = None /\ replaying = FALSE
    BY EmptySeq DEF Init
  <1>3. \A i \in 1 .. 0 : FALSE
    OBVIOUS
  <1>4. TInv
    <2>1. season \in [Players -> States]
      BY <1>1 DEF Init
    <2>2. came \in Seq(Rateable) /\ facts \in Seq(Lobbies) /\ rows \in Seq(SoundRows)
      BY <1>2, EmptySeq
    <2>3. \A i \in 1 .. Len(facts) : facts[i] = LobbyOf(came[i], Players)
      BY <1>2, <1>3
    <2>4. /\ Len(facts) = Len(came) /\ Len(rows) <= Len(facts) /\ Len(rows) = Len(facts)
      BY <1>2
    <2>5. /\ fetched \in Listed \cup {None} /\ replaying \in BOOLEAN
          /\ replaying => fetched = None
      BY <1>2
    <2>6. QED
      BY <2>1, <2>2, <2>3, <2>4, <2>5 DEF TInv
  <1>5. WindowHolds
    BY DEF Init, WindowHolds
  <1>6. RowsTell /\ Continuous /\ StrangersAreNotDampened
    BY <1>2, <1>3 DEF RowsTell, Continuous, StrangersAreNotDampened
  <1>7. QED
    BY <1>4, <1>5, <1>6 DEF IInv

\* A match that is known keeps its teams.
LEMMA WindowStays ==
    ASSUME TInv, WindowHolds, facts' = facts, met' = met,
           fetched' = fetched \/ fetched = None \/ Rejected(fetched)
    PROVE  WindowHolds'
  <1>1. ASSUME NEW p, NEW q, NEW i, Together(p, q, i) PROVE Together(p, q, i)'
    BY <1>1 DEF Together
  <1>2. QED
    BY <1>1 DEF WindowHolds

LEMMA ObservedHolds ==
    ASSUME TInv, WindowHolds, fetched # None, ~Rejected(fetched),
           met' = Observed(LobbyOf(fetched, Players), Len(facts) + 1)
    PROVE  /\ DOMAIN met' = Players
           /\ \A p \in Players :
                 /\ met'[p] \in SUBSET (Players \X (1 .. Len(facts) + 1))
                 /\ \A e \in met'[p] : Together(p, e[1], e[2])
  <1> DEFINE n == Len(facts) + 1
             l == LobbyOf(fetched, Players)
  <1>1. n \in 1 .. n /\ n \in Nat
    BY LenProperties DEF TInv
  <1>2. DOMAIN met' = Players
    BY DEF Observed
  <1>3. ASSUME NEW p \in Players
        PROVE  /\ met'[p] \in SUBSET (Players \X (1 .. n))
               /\ \A e \in met'[p] : Together(p, e[1], e[2])
    <2>1. met'[p] = met[p] \cup {<<q, n>> : q \in Mates(l, p)}
      BY DEF Observed
    <2>2. /\ met[p] \in SUBSET (Players \X (1 .. n))
          /\ \A e \in met[p] : Together(p, e[1], e[2])
      BY DEF WindowHolds
    <2>3. ASSUME NEW q \in Mates(l, p)
          PROVE  q \in Players /\ Together(p, q, n)
      BY <2>3, MatesArePlayers DEF Together
    <2> HIDE DEF n, l
    <2>4. QED
      BY <1>1, <2>1, <2>2, <2>3
  <1>4. QED
    BY <1>2, <1>3

LEMMA RateKeeps ==
    ASSUME IntegerUpdate, IInv, Rate PROVE IInv'
  <1> DEFINE l == LobbyOf(fetched, Players)
             n == Len(facts)
             factor == PartyFactors(l, met')
  <1> USE DEF IInv
  <1>1. /\ fetched # None /\ ~Rejected(fetched) /\ fetched' = None
        /\ met' = Observed(l, n + 1) /\ Persist(l, factor)
        /\ facts' = Append(facts, l) /\ came' = Append(came, fetched)
        /\ replaying' = replaying
    BY DEF Rate
  <1>2. /\ facts \in Seq(Lobbies) /\ came \in Seq(Rateable)
        /\ Len(rows) = n /\ Len(came) = n /\ n \in Nat /\ replaying = FALSE
        /\ season \in [Players -> States]
    BY <1>1, LenProperties DEF TInv
  <1>3. fetched \in Rateable /\ l \in Lobbies /\ Playable(l)
    <2>1. fetched \in Rateable
      BY <1>1 DEF TInv, Rateable
    <2>2. QED
      BY <2>1, RateableIsPlayable DEF Lobbies
  <1>4. /\ facts' \in Seq(Lobbies) /\ Len(facts') = n + 1 /\ facts'[n + 1] = l
        /\ \A i \in 1 .. n : facts'[i] = facts[i]
    <2> HIDE DEF l
    <2> QED BY <1>1, <1>2, <1>3, AppendProperties
  <1>5. /\ came' \in Seq(Rateable) /\ Len(came') = n + 1 /\ came'[n + 1] = fetched
        /\ \A i \in 1 .. n : came'[i] = came[i]
    BY <1>1, <1>2, <1>3, AppendProperties
  <1>6. /\ DOMAIN met' = Players
        /\ \A p \in Players :
              /\ met'[p] \in SUBSET (Players \X (1 .. n + 1))
              /\ \A e \in met'[p] : Together(p, e[1], e[2])
    BY <1>1, ObservedHolds
  <1>7. /\ factor \in [Players -> Int]
        /\ \A p \in Players : (\A q \in Mates(l, p) : Count(met', p, q) = 1)
              => factor[p] = 0
    <2>1. n + 1 \in Nat
      BY <1>2
    <2> HIDE DEF l
    <2>2. QED
      BY <1>2, <1>6, <2>1, FactorsAreIntegers
  <1>8. ASSUME NEW p \in Players,
               \A j \in 1 .. n : Mates(l, p) \cap Mates(facts[j], p) = {}
        PROVE  factor[p] = 0
    <2>1. ASSUME NEW q \in Mates(l, p) PROVE Count(met', p, q) = 1
      <3>1. <<q, n + 1>> \in met'[p]
        BY <1>1, <2>1 DEF Observed
      <3>2. ASSUME NEW e \in met'[p], e[1] = q PROVE e = <<q, n + 1>>
        <4>1. Together(p, q, e[2])
          BY <1>6, <3>2
        <4>2. ~(e[2] \in 1 .. n /\ q \in Mates(facts[e[2]], p))
          BY <1>8, <2>1
        <4>3. e[2] = n + 1
          BY <4>1, <4>2 DEF Together
        <4>4. e \in Players \X (1 .. n + 1)
          BY <1>6
        <4>5. QED
          BY <3>2, <4>3, <4>4
      <3>3. {e \in met'[p] : e[1] = q} = {<<q, n + 1>>}
        BY <3>1, <3>2
      <3>4. Cardinality({<<q, n + 1>>}) = 1
        BY FS_Singleton
      <3>5. QED
        BY <3>3, <3>4 DEF Count
    <2>2. QED
      BY <1>7, <2>1
  <1>9. /\ season' \in [Players -> States]
        /\ rows' \in Seq(SoundRows) /\ Len(rows') = n + 1
        /\ RowsTell' /\ Continuous' /\ StrangersAreNotDampened'
    <2>1. Follows(l)
      BY <1>2, <1>4 DEF Follows
    <2>2. SparesStrangers(l, factor)
      BY <1>2, <1>8 DEF SparesStrangers
    <2>3. Persist(l, factor) /\ Playable(l) /\ factor \in [Players -> Int]
      BY <1>1, <1>3, <1>7
    <2>4. TInv /\ RowsTell /\ Continuous /\ StrangersAreNotDampened
      OBVIOUS
    <2> HIDE DEF l, factor, IInv
    <2>5. /\ season' \in [Players -> States]
          /\ rows' \in Seq(SoundRows) /\ Len(rows') = Len(rows) + 1
          /\ RowsTell' /\ Continuous' /\ StrangersAreNotDampened'
      BY <2>1, <2>2, <2>3, <2>4, CommitIsSound
    <2>6. QED
      BY <1>2, <2>5
  <1> HIDE DEF factor, n
  <1>10. TInv'
    <2>1. \A i \in 1 .. n + 1 : i \in 1 .. n \/ i = n + 1
      BY <1>2
    <2>2. \A i \in 1 .. n : facts[i] = LobbyOf(came[i], Players)
      BY DEF TInv, n
    <2>3. \A i \in 1 .. n + 1 : facts'[i] = LobbyOf(came'[i], Players)
      BY <1>4, <1>5, <2>1, <2>2
    <2>4. QED
      BY <1>1, <1>2, <1>4, <1>5, <1>9, <2>3 DEF TInv
  <1>11. WindowHolds'
    <2>1. ASSUME NEW p, NEW q, NEW i, Together(p, q, i) PROVE Together(p, q, i)'
      <3>1. CASE i \in 1 .. n /\ q \in Mates(facts[i], p)
        <4>1. i \in 1 .. n + 1 /\ facts'[i] = facts[i]
          BY <1>2, <1>4, <3>1
        <4>2. QED
          BY <1>4, <3>1, <4>1 DEF Together
      <3>2. CASE i = n + 1 /\ q \in Mates(l, p)
        <4>1. i \in 1 .. n + 1 /\ facts'[i] = l
          BY <1>2, <1>4, <3>2
        <4>2. QED
          BY <1>4, <3>2, <4>1 DEF Together
      <3>3. QED
        BY <2>1, <3>1, <3>2 DEF Together, n
    <2>2. \A p \in Players : met'[p] \in SUBSET (Players \X (1 .. n + 1 + 1))
      <3>1. \A i \in 1 .. n + 1 : i \in 1 .. n + 1 + 1
        BY <1>2
      <3>2. QED
        BY <1>6, <3>1
    <2>3. QED
      BY <1>4, <1>6, <2>1, <2>2 DEF WindowHolds
  <1>12. QED
    BY <1>9, <1>10, <1>11

\* A replay forgets rows and goes back to where the first of them set out from.
LEMMA RewindKeeps ==
    ASSUME IInv, NEW k, Rewind(k) PROVE IInv'
  <1> USE DEF IInv
  <1>1. /\ replaying = FALSE /\ fetched = None /\ k \in 1 .. Len(rows)
        /\ replaying' = TRUE /\ fetched' = fetched
        /\ season' = [p \in Players |-> Restored(season[p], rows[k][p].before)]
        /\ rows' = SubSeq(rows, 1, k - 1)
        /\ facts' = facts /\ came' = came /\ met' = met
    BY DEF Rewind, TInv
  <1>2. /\ season \in [Players -> States] /\ rows \in Seq(SoundRows)
        /\ facts \in Seq(Lobbies) /\ Len(rows) \in Nat /\ Len(facts) \in Nat
        /\ Len(rows) <= Len(facts)
    BY LenProperties DEF TInv
  <1>3. k \in Nat /\ k - 1 \in 0 .. Len(rows)
    BY <1>1, <1>2
  <1>4. /\ rows' \in Seq(SoundRows) /\ Len(rows') = k - 1
        /\ \A i \in 1 .. k - 1 : rows'[i] = rows[i]
    <2>1. k - 1 < 1 \/ k - 1 \in 1 .. Len(rows)
      BY <1>2, <1>3
    <2>2. \A i \in 1 .. k - 1 : i \in 1 .. Len(rows)
      BY <1>2, <1>3
    <2>3. 1 \in 1 .. Len(rows) + 1 /\ k - 1 \in Int /\ k - 1 \in 0 .. Len(rows)
      BY <1>2, <1>3
    <2>4. QED
      BY <1>1, <1>2, <1>3, <2>2, <2>3, SubSeqProperties
  <1>5. ASSUME NEW p \in Players
        PROVE  season'[p] \in States /\ Snapshot(season'[p]) = rows[k][p].before
    <2>1. rows[k] \in SoundRows
      BY <1>1, <1>2
    <2>2. rows[k][p].before \in Snapshots
      BY <2>1 DEF SoundRows, RowSet
    <2>3. QED
      BY <1>1, <1>2, <2>2, SnapshotsRestore
  <1>6. TInv'
    <2>1. season' \in [Players -> States]
      BY <1>1, <1>5
    <2>2. Len(rows') <= Len(facts')
      BY <1>1, <1>2, <1>3, <1>4
    <2>3. QED
      BY <1>1, <1>4, <2>1, <2>2 DEF TInv
  <1>7. WindowHolds'
    BY <1>1, WindowStays
  <1>8. RowsTell' /\ StrangersAreNotDampened'
    <2>1. \A i \in 1 .. k - 1 : i \in 1 .. Len(rows)
      BY <1>2, <1>3
    <2>2. RowsTell'
      BY <1>1, <1>4, <2>1 DEF RowsTell
    <2>3. StrangersAreNotDampened'
      <3>1. SUFFICES ASSUME NEW i \in 1 .. k - 1, NEW p \in Players,
                            \A j \in 1 .. i - 1 :
                                Mates(facts[i], p) \cap Mates(facts[j], p) = {}
                     PROVE  rows[i][p].mods.party = 100
        BY <1>1, <1>4 DEF StrangersAreNotDampened, Mates
      <3>2. i \in 1 .. Len(rows) /\ StrangersAreNotDampened
        BY <2>1
      <3>3. QED
        BY ONLY <3>1, <3>2 DEF StrangersAreNotDampened
    <2>4. QED
      BY <2>2, <2>3
  <1>9. Continuous'
    <2>1. ASSUME NEW i \in 1 .. k - 1, NEW p \in Players, ~rows'[i][p].eligible
          PROVE  (IF i < k - 1 THEN rows'[i + 1][p].before ELSE Snapshot(season'[p]))
                    = rows'[i][p].before
      <3>1. i \in 1 .. Len(rows) /\ i < Len(rows) /\ rows'[i] = rows[i]
        BY <1>1, <1>2, <1>3, <1>4
      <3>2. rows[i + 1][p].before = rows[i][p].before
        BY <2>1, <3>1 DEF Continuous, After
      <3>3. CASE i < k - 1
        <4>1. i + 1 \in 1 .. k - 1
          BY <1>3, <3>3
        <4>2. QED
          BY <1>4, <3>1, <3>2, <3>3, <4>1
      <3>4. CASE ~(i < k - 1)
        <4>1. i + 1 = k
          BY <1>3, <3>4
        <4>2. QED
          BY <1>5, <3>1, <3>2, <3>4, <4>1
      <3>5. QED
        BY <3>3, <3>4
    <2>2. QED
      BY <1>4, <2>1 DEF Continuous, After
  <1>10. QED
    BY <1>6, <1>7, <1>8, <1>9

LEMMA RerateKeeps ==
    ASSUME IntegerUpdate, IInv, Rerate PROVE IInv'
  <1> DEFINE n == Len(rows) + 1
             l == facts[n]
  <1> USE DEF IInv
  <1>1. /\ replaying = TRUE /\ Len(rows) < Len(facts) /\ Persist(l, FixedFactors)
        /\ facts' = facts /\ came' = came /\ met' = met /\ fetched' = fetched
        /\ replaying' = replaying
    BY DEF Rerate, TInv
  <1>2. /\ rows \in Seq(SoundRows) /\ facts \in Seq(Lobbies) /\ came \in Seq(Rateable)
        /\ Len(rows) \in Nat /\ Len(facts) \in Nat /\ Len(came) = Len(facts)
        /\ n \in 1 .. Len(facts)
    BY <1>1, LenProperties DEF TInv
  <1>3. Playable(l)
    <2>1. came[n] \in Rateable
      BY <1>2
    <2>2. l = LobbyOf(came[n], Players)
      BY <1>2 DEF TInv
    <2>3. QED
      BY <2>1, <2>2, RateableIsPlayable
  <1>4. Follows(l)
    BY <1>1 DEF Follows
  <1>5. FixedFactors \in [Players -> Int] /\ SparesStrangers(l, FixedFactors)
    BY DEF FixedFactors, SparesStrangers
  <1>6. TInv /\ RowsTell /\ Continuous /\ StrangersAreNotDampened
    OBVIOUS
  <1>7. /\ season' \in [Players -> States]
        /\ rows' \in Seq(SoundRows) /\ Len(rows') = n
        /\ RowsTell' /\ Continuous' /\ StrangersAreNotDampened'
    <2> HIDE DEF l, IInv
    <2> QED BY <1>1, <1>3, <1>4, <1>5, <1>6, CommitIsSound
  <1>8. TInv'
    <2>1. Len(rows') <= Len(facts')
      BY <1>1, <1>2, <1>7
    <2>2. QED
      BY <1>1, <1>7, <2>1 DEF TInv
  <1>9. WindowHolds'
    BY <1>1, WindowStays
  <1>10. QED
    BY <1>7, <1>8, <1>9

LEMMA NextHolds ==
    ASSUME IntegerUpdate, IInv, [Next]_vars PROVE IInv'
  <1>1. ASSUME NEW x \in Listed, Fetch(x) PROVE IInv'
    <2>1. /\ fetched = None /\ fetched' = x /\ replaying = FALSE
          /\ UNCHANGED <<season, facts, came, rows, met, replaying>>
      BY <1>1 DEF Fetch, IInv, TInv
    <2>2. TInv'
      BY <2>1 DEF IInv, TInv
    <2>3. WindowHolds'
      BY <2>1, WindowStays DEF IInv
    <2>4. RowsTell' /\ Continuous' /\ StrangersAreNotDampened'
      BY <2>1 DEF IInv, RowsTell, Continuous, After, StrangersAreNotDampened
    <2>5. QED
      BY <2>2, <2>3, <2>4 DEF IInv
  <1>2. ASSUME Reject PROVE IInv'
    <2>1. /\ Rejected(fetched) /\ fetched' = None
          /\ UNCHANGED <<season, facts, came, rows, met, replaying>>
      BY <1>2 DEF Reject
    <2>2. TInv'
      BY <2>1 DEF IInv, TInv
    <2>3. WindowHolds'
      BY <2>1, WindowStays DEF IInv
    <2>4. RowsTell' /\ Continuous' /\ StrangersAreNotDampened'
      BY <2>1 DEF IInv, RowsTell, Continuous, After, StrangersAreNotDampened
    <2>5. QED
      BY <2>2, <2>3, <2>4 DEF IInv
  <1>3. ASSUME RateFails PROVE IInv'
    <2>1. /\ fetched # None /\ ~Rejected(fetched)
          /\ met' = Observed(LobbyOf(fetched, Players), Len(facts) + 1)
          /\ UNCHANGED <<season, facts, came, rows, fetched, replaying>>
      BY <1>3 DEF RateFails
    <2>2. TInv'
      BY <2>1 DEF IInv, TInv
    <2>3. WindowHolds'
      <3>1. ASSUME NEW p, NEW q, NEW i, Together(p, q, i) PROVE Together(p, q, i)'
        BY <2>1, <3>1 DEF Together
      <3>2. /\ DOMAIN met' = Players
            /\ \A p \in Players :
                  /\ met'[p] \in SUBSET (Players \X (1 .. Len(facts) + 1))
                  /\ \A e \in met'[p] : Together(p, e[1], e[2])
        BY <2>1, ObservedHolds DEF IInv
      <3>3. QED
        BY <2>1, <3>1, <3>2 DEF WindowHolds
    <2>4. RowsTell' /\ Continuous' /\ StrangersAreNotDampened'
      BY <2>1 DEF IInv, RowsTell, Continuous, After, StrangersAreNotDampened
    <2>5. QED
      BY <2>2, <2>3, <2>4 DEF IInv
  <1>4. ASSUME Lapse PROVE IInv'
    <2>1. /\ met' = [p \in Players |-> {}]
          /\ UNCHANGED <<season, facts, came, rows, fetched, replaying>>
      BY <1>4 DEF Lapse
    <2>2. TInv'
      BY <2>1 DEF IInv, TInv
    <2>3. WindowHolds'
      BY <2>1 DEF WindowHolds
    <2>4. RowsTell' /\ Continuous' /\ StrangersAreNotDampened'
      BY <2>1 DEF IInv, RowsTell, Continuous, After, StrangersAreNotDampened
    <2>5. QED
      BY <2>2, <2>3, <2>4 DEF IInv
  <1>5. ASSUME Finish PROVE IInv'
    <2>1. /\ Len(rows) = Len(facts) /\ replaying' = FALSE
          /\ UNCHANGED <<season, facts, came, rows, met, fetched>>
      BY <1>5 DEF Finish
    <2>2. TInv'
      BY <2>1 DEF IInv, TInv
    <2>3. WindowHolds'
      BY <2>1, WindowStays DEF IInv
    <2>4. RowsTell' /\ Continuous' /\ StrangersAreNotDampened'
      BY <2>1 DEF IInv, RowsTell, Continuous, After, StrangersAreNotDampened
    <2>5. QED
      BY <2>2, <2>3, <2>4 DEF IInv
  <1>6. CASE UNCHANGED vars
    <2>1. UNCHANGED <<season, facts, came, rows, met, fetched, replaying>>
      BY <1>6 DEF vars
    <2>2. TInv'
      BY <2>1 DEF IInv, TInv
    <2>3. WindowHolds'
      BY <2>1, WindowStays DEF IInv
    <2>4. RowsTell' /\ Continuous' /\ StrangersAreNotDampened'
      BY <2>1 DEF IInv, RowsTell, Continuous, After, StrangersAreNotDampened
    <2>5. QED
      BY <2>2, <2>3, <2>4 DEF IInv
  <1>7. QED
    BY <1>1, <1>2, <1>3, <1>4, <1>5, <1>6, RateKeeps, RewindKeeps, RerateKeeps DEF Next

-----------------------------------------------------------------------------
(* What follows from it *)

\* process_match, the failing commit, the window and a replay keep the columns typed
\* and in step: a row for every match that is not being replayed, which says of it
\* what its payload says; a window that remembers only matches of one team; and a
\* state that an ineligible match did not move (_persist, apply_state_before).
THEOREM RatingsHold ==
    ASSUME IntegerUpdate PROVE Spec => []IInv
  <1>1. Init => IInv
    BY InitHolds
  <1>2. IInv /\ [Next]_vars => IInv'
    BY NextHolds
  <1>3. QED
    BY <1>1, <1>2, PTL DEF Spec

\* Trinity R4 (caps.py): whatever expectation, dampeners, caps, the floor at zero and
\* replays make of it, a placement with a minimum gain earns PDL.
THEOREM AGoodPlacementPays ==
    ASSUME IntegerUpdate PROVE Spec => []GoodPlacementsPay
  <1>1. IInv => GoodPlacementsPay
    <2> SUFFICES ASSUME IInv, NEW i \in 1 .. Len(rows), NEW p \in Players
                 PROVE  Pays(rows[i][p])
      BY DEF GoodPlacementsPay, Pays
    <2>1. rows[i] \in SoundRows
      BY DEF IInv, TInv
    <2>2. QED
      BY <2>1 DEF SoundRows
  <1>2. QED
    BY <1>1, RatingsHold, PTL

\* explain.py: the ledger of the row written last closes, but where the CR had lost its
\* identity or a bound lifted a result that to_cr had floored.
THEOREM TheExplanationCloses ==
    ASSUME IntegerUpdate PROVE Spec => []ExplanationCloses
  <1>1. IInv => ExplanationCloses
    <2> SUFFICES ASSUME IInv, NEW i \in NewRow, NEW p \in Players
                 PROVE  Closes(rows[i][p])
      BY DEF ExplanationCloses, Closes
    <2>1. rows \in Seq(SoundRows)
      BY DEF IInv, TInv
    <2>2. i \in 1 .. Len(rows)
      BY <2>1, EmptySeq, LenProperties DEF NewRow
    <2>3. rows[i] \in SoundRows
      BY <2>1, <2>2
    <2>4. QED
      BY <2>3 DEF SoundRows
  <1>2. QED
    BY <1>1, RatingsHold, PTL

\* evaluate_premade over the window: two players who never shared a team are not
\* dampened, however often the match is delivered again ("idempotent on match_id").
THEOREM NoStrangerIsDampened ==
    ASSUME IntegerUpdate PROVE Spec => []StrangersAreNotDampened
  BY RatingsHold, PTL DEF IInv

\* A lobby that counts has a team beside anybody's.
LEMMA SomebodyIsElsewhere ==
    ASSUME NEW x \in Rateable, NEW t,
           NEW mates, mates = {k \in DOMAIN x.people : x.people[k].team = t}
    PROVE  Cardinality(mates) < Len(x.people)
  <1>1. /\ IsFiniteSet(DOMAIN x.people)
        /\ Cardinality(DOMAIN x.people) = Len(x.people) /\ Len(x.people) \in Nat
        /\ IsFiniteSet(TeamIds(x)) /\ Cardinality(TeamIds(x)) \in Nat
        /\ ~(Cardinality(TeamIds(x)) < 2)
    BY EntriesAreFinite DEF Rateable, Rejected
  <1>2. mates # DOMAIN x.people
    <2> SUFFICES ASSUME mates = DOMAIN x.people PROVE FALSE
      OBVIOUS
    <2>1. TeamIds(x) \in SUBSET {t}
      BY DEF TeamIds
    <2>2. IsFiniteSet({t}) /\ Cardinality({t}) = 1
      BY FS_Singleton
    <2>3. Cardinality(TeamIds(x)) <= 1
      BY <2>1, <2>2, FS_Subset
    <2>4. QED
      BY <1>1, <2>3
  <1>3. mates \in SUBSET DOMAIN x.people
    OBVIOUS
  <1> DEFINE D == DOMAIN x.people
  <1> HIDE DEF D
  <1>4. mates \in SUBSET D /\ IsFiniteSet(D) /\ mates # D
    BY <1>1, <1>2, <1>3 DEF D
  <1>5. /\ Cardinality(mates) \in Nat /\ Cardinality(D) \in Nat
        /\ Cardinality(mates) <= Cardinality(D) /\ Cardinality(mates) # Cardinality(D)
    BY <1>4, FS_Subset, FS_CardinalityType
  <1>6. QED
    BY <1>1, <1>5 DEF D

\* eligibleForProgression: whoever a match moved, live or in a replay, had played it,
\* and whoever had not is where it was.
THEOREM WhatIsRatedWasPlayed ==
    ASSUME IntegerUpdate PROVE Spec => []RatedAsPlayed
  <1>1. IInv => RatedAsPlayed
    <2> SUFFICES ASSUME IInv, NEW i \in 1 .. Len(rows), NEW p \in Players
                 PROVE
        LET x == came[i]
            me == x.people[CHOOSE k \in DOMAIN x.people : x.people[k].who = p]
            mates == {k \in DOMAIN x.people : x.people[k].team = me.team}
        IN IF rows[i][p].eligible
             THEN /\ x.cherry /\ x.duration >= MinPlayedSeconds /\ ~me.surrendered
                  /\ me.played \in Nat => me.played >= MinPlayedSeconds
                  /\ me.placement \in Nat \/ me.subteamPlacement \in Nat
                  /\ rows[i][p].place \in 1 .. 8
                  /\ Cardinality(mates) < Len(x.people)
                  /\ \A q \in Players :
                        (\E k \in mates : x.people[k].who = q)
                            => rows[i][q].place = rows[i][p].place
             ELSE /\ rows[i][p].delta = 0
                  /\ i < Len(rows) => rows[i + 1][p].before = rows[i][p].before
      BY DEF RatedAsPlayed
    <2> DEFINE x == came[i]
               me == x.people[At(x, p)]
               mates == {k \in DOMAIN x.people : x.people[k].team = me.team}
               l == LobbyOf(x, Players)
    <2>1. /\ rows \in Seq(SoundRows) /\ came \in Seq(Rateable)
          /\ i \in 1 .. Len(facts) /\ i \in 1 .. Len(came)
      BY LenProperties DEF IInv, TInv
    <2>2. rows[i] \in SoundRows /\ x \in Rateable /\ x \in Listed /\ facts[i] = l
      BY <2>1 DEF IInv, TInv, Rateable
    <2>3. /\ rows[i][p].eligible <=> p \notin l.out
          /\ \A q \in Players : rows[i][q].place = l.place[q]
      BY <2>2 DEF IInv, RowsTell
    <2> HIDE DEF x
    <2>4. CASE rows[i][p].eligible
      <3>1. /\ x.cherry /\ x.duration >= MinPlayedSeconds /\ ~me.surrendered
            /\ me.played \in Nat => me.played >= MinPlayedSeconds
            /\ me.placement \in Nat \/ me.subteamPlacement \in Nat
        BY <2>2, <2>3, <2>4, EligibleWasPlayed
      <3>2. rows[i][p].place \in 1 .. 8
        BY <2>2, <2>3, <2>4, RateableIsPlayable DEF Playable
      <3>3. Cardinality(mates) < Len(x.people)
        <4> HIDE DEF mates, me
        <4> QED BY <2>2, SomebodyIsElsewhere DEF mates
      <3>4. ASSUME NEW q \in Players, NEW k \in mates, x.people[k].who = q
            PROVE  rows[i][q].place = rows[i][p].place
        <4>1. /\ At(x, q) = k
              /\ First({j \in DOMAIN x.people : x.people[j].who = q}) = k
              /\ First({j \in DOMAIN x.people : x.people[j].who = p}) = At(x, p)
          BY <2>2, <3>4, OneEntryEach
        <4>2. l.place[q] = TeamPlacement(x, x.people[k].team)
          BY <4>1 DEF LobbyOf
        <4>3. l.place[p] = TeamPlacement(x, me.team)
          BY <4>1 DEF LobbyOf
        <4>4. QED
          BY <2>3, <3>4, <4>2, <4>3
      <3>5. QED
        BY <2>4, <3>1, <3>2, <3>3, <3>4 DEF x, At
    <2>5. CASE ~rows[i][p].eligible
      <3>1. rows[i][p].delta = 0
        BY <2>2, <2>5 DEF SoundRows, Untouched
      <3>2. i < Len(rows) => rows[i + 1][p].before = rows[i][p].before
        BY <2>5 DEF IInv, Continuous, After
      <3>3. QED
        BY <2>5, <3>1, <3>2
    <2>6. QED
      BY <2>4, <2>5
  <1>2. QED
    BY <1>1, RatingsHold, PTL

-----------------------------------------------------------------------------
(* The results of a player, in order *)

\* What ResultsOf makes of any rows: the eligible ones of p, in order.
PlayedBy(rs, p) == {i \in 1 .. Len(rs) : rs[i][p].eligible}
RankIn(E, i)    == Cardinality({j \in E : j < i})
NthOf(E, k)     == CHOOSE i \in E : RankIn(E, i) = k - 1
HistoryOf(rs, p) ==
    [k \in 1 .. Cardinality(PlayedBy(rs, p)) |-> rs[NthOf(PlayedBy(rs, p), k)][p]]

\* There is one for every rank.
Ranked(E) == \A k \in 1 .. Cardinality(E) : \E i \in E : RankIn(E, i) = k - 1

LEMMA ResultsAreHistory ==
    ASSUME NEW p \in Players PROVE ResultsOf(p) = HistoryOf(rows, p)
  <1>1. Eligible(p) = PlayedBy(rows, p)
    BY DEF Eligible, PlayedBy
  <1>2. QED
    BY <1>1 DEF ResultsOf, HistoryOf, NthOf, RankIn

LEMMA RanksDiffer ==
    ASSUME NEW E \in SUBSET Nat, IsFiniteSet(E), NEW i \in E, NEW j \in E,
           RankIn(E, i) = RankIn(E, j)
    PROVE  i = j
  <1>1. ASSUME NEW a \in E, NEW b \in E, a < b
        PROVE  RankIn(E, a) # RankIn(E, b)
    <2> DEFINE A == {x \in E : x < a}
               B == {x \in E : x < b}
    <2>1. IsFiniteSet(B)
      BY FS_Subset
    <2>2. A \in SUBSET B /\ a \in B /\ a \notin A
      <3>1. a \in Int /\ b \in Int /\ \A x \in E : x \in Int
        OBVIOUS
      <3>2. \A x \in Int : x < a => x < b
        BY <1>1, <3>1
      <3>3. ~(a < a)
        BY <3>1
      <3>4. QED
        BY <1>1, <3>1, <3>2, <3>3
    <2> HIDE DEF A, B
    <2>3. Cardinality(A) # Cardinality(B)
      BY <2>1, <2>2, FS_Subset
    <2>4. QED
      BY <2>3 DEF RankIn, A, B
  <1>2. i < j \/ j < i \/ i = j
    OBVIOUS
  <1>3. QED
    BY <1>1, <1>2

LEMMA NthIsThere ==
    ASSUME NEW E \in SUBSET Nat, IsFiniteSet(E), NEW k, NEW i \in E, RankIn(E, i) = k - 1
    PROVE  NthOf(E, k) = i
  <1>1. NthOf(E, k) \in E /\ RankIn(E, NthOf(E, k)) = k - 1
    BY DEF NthOf
  <1>2. NthOf(E, k) \in E /\ RankIn(E, NthOf(E, k)) = RankIn(E, i)
    BY <1>1
  <1>3. ASSUME NEW m \in E, RankIn(E, m) = RankIn(E, i) PROVE m = i
    BY <1>3, RanksDiffer
  <1>4. QED
    BY <1>2, <1>3

\* Adding an element above all others adds the last rank and keeps the rest.
LEMMA RanksGrow ==
    ASSUME NEW E \in SUBSET Nat, IsFiniteSet(E), Ranked(E), NEW m \in Nat,
           \A i \in E : i < m
    PROVE  /\ Ranked(E \cup {m}) /\ IsFiniteSet(E \cup {m})
           /\ Cardinality(E \cup {m}) = Cardinality(E) + 1
           /\ NthOf(E \cup {m}, Cardinality(E) + 1) = m
           /\ \A k \in 1 .. Cardinality(E) : /\ NthOf(E, k) \in E
                                              /\ NthOf(E \cup {m}, k) = NthOf(E, k)
  <1> DEFINE U == E \cup {m}
             n == Cardinality(E)
  <1>1. /\ IsFiniteSet(U) /\ n \in Nat /\ Cardinality(U) = n + 1
        /\ U \in SUBSET Nat /\ m \in U /\ E \in SUBSET U
    <2>1. m \notin E
      OBVIOUS
    <2>2. QED
      BY <2>1, FS_AddElement, FS_CardinalityType
  <1>2. RankIn(U, m) = n
    <2>1. {j \in U : j < m} = E
      <3>1. ~(m < m) /\ m \notin E
        OBVIOUS
      <3>2. QED
        BY <3>1
    <2>2. QED
      BY <2>1 DEF RankIn
  <1>3. ASSUME NEW i \in E PROVE RankIn(U, i) = RankIn(E, i)
    <2>1. {j \in U : j < i} = {j \in E : j < i}
      OBVIOUS
    <2>2. QED
      BY <2>1 DEF RankIn
  <1>4. NthOf(U, n + 1) = m
    <2>1. RankIn(U, m) = (n + 1) - 1
      BY <1>1, <1>2
    <2> HIDE DEF U, n
    <2>2. QED
      BY <1>1, <2>1, NthIsThere
  <1>5. ASSUME NEW k \in 1 .. n
        PROVE  NthOf(E, k) \in E /\ NthOf(U, k) = NthOf(E, k) /\ RankIn(U, NthOf(E, k)) = k - 1
    <2>1. PICK i \in E : RankIn(E, i) = k - 1
      BY DEF Ranked
    <2>2. NthOf(E, k) = i
      BY <2>1, NthIsThere
    <2>3. i \in U /\ RankIn(U, i) = k - 1
      BY <1>1, <1>3, <2>1
    <2> HIDE DEF U
    <2>4. NthOf(U, k) = i
      BY <1>1, <2>3, NthIsThere
    <2>5. QED
      BY <2>2, <2>3, <2>4
  <1>6. Ranked(U)
    <2>1. ASSUME NEW k \in 1 .. n + 1 PROVE \E i \in U : RankIn(U, i) = k - 1
      <3>1. CASE k \in 1 .. n
        BY <1>1, <1>5, <3>1
      <3>2. CASE k = n + 1
        BY <1>1, <1>2, <3>2
      <3>3. QED
        BY <1>1, <3>1, <3>2
    <2>2. QED
      BY <1>1, <2>1 DEF Ranked
  <1>7. QED
    BY <1>1, <1>4, <1>5, <1>6

-----------------------------------------------------------------------------
(* Its streak and its peak *)

\* What StreakOf and the peak make of the results R, without a choice.
Won(R, k) == IsWin(R[k].place, R[k].teams)
RunAt(R, r) ==
    /\ r \in 1 .. Len(R)
    /\ \A k \in Len(R) - r + 1 .. Len(R) : Won(R, k) = Won(R, Len(R))
    /\ r < Len(R) => Won(R, Len(R) - r) # Won(R, Len(R))
IsStreak(R, t) ==
    \/ Len(R) = 0 /\ t = 0
    \/ \E r \in 1 .. Len(R) : RunAt(R, r) /\ t = IF Won(R, Len(R)) THEN r ELSE -r
Peaks(R) == {Fresh.peak} \cup {R[k].crAfter : k \in 1 .. Len(R)}
IsGreatest(S, m) == m \in S /\ \A x \in S : m >= x

LEMMA StreakIs ==
    ASSUME NEW R \in Seq(RowSet), NEW t, IsStreak(R, t)
    PROVE  t = StreakOf(R)
  <1> DEFINE n == Len(R)
  <1>1. n \in Nat /\ (R = <<>> <=> n = 0)
    BY LenProperties, EmptySeq
  <1>2. CASE n = 0
    <2>1. \A r \in 1 .. 0 : FALSE
      OBVIOUS
    <2>2. QED
      BY <1>1, <1>2, <2>1 DEF IsStreak, StreakOf
  <1>3. CASE n # 0
    <2>1. PICK r \in 1 .. n : RunAt(R, r) /\ t = IF Won(R, n) THEN r ELSE -r
      BY <1>3 DEF IsStreak
    <2> DEFINE run == CHOOSE s \in 1 .. n :
                        /\ \A k \in n - s + 1 .. n :
                              IsWin(R[k].place, R[k].teams) = IsWin(R[n].place, R[n].teams)
                        /\ s < n => IsWin(R[n - s].place, R[n - s].teams)
                                       # IsWin(R[n].place, R[n].teams)
    <2>2. RunAt(R, run)
      BY <2>1 DEF RunAt, Won
    <2>3. StreakOf(R) = IF Won(R, n) THEN run ELSE -run
      BY <1>1, <1>3 DEF StreakOf, Won
    <2> HIDE DEF run
    <2>4. ASSUME NEW a, NEW b, RunAt(R, a), RunAt(R, b), a < b PROVE FALSE
      <3>1. a \in 1 .. n /\ b \in 1 .. n
        BY <2>4 DEF RunAt
      <3>2. a < n /\ n - a \in n - b + 1 .. n
        BY <1>1, <2>4, <3>1
      <3>3. QED
        BY <2>4, <3>2 DEF RunAt
    <2>5. r \in 1 .. n /\ run \in 1 .. n
      BY <2>1, <2>2 DEF RunAt
    <2>6. r < run \/ run < r \/ r = run
      BY <1>1, <2>5
    <2>7. r = run
      BY <2>1, <2>2, <2>4, <2>6
    <2>8. QED
      BY <2>1, <2>3, <2>7
  <1>4. QED
    BY <1>2, <1>3

\* The next result lengthens the run or starts another one.
LEMMA StreakGrows ==
    ASSUME NEW R \in Seq(RowSet), NEW x \in RowSet, NEW t, IsStreak(R, t)
    PROVE  IsStreak(Append(R, x), NextStreak(t, IsWin(x.place, x.teams)))
  <1> DEFINE n == Len(R)
             U == Append(R, x)
             w == IsWin(x.place, x.teams)
  <1>1. /\ n \in Nat /\ Len(U) = n + 1 /\ U[n + 1] = x
        /\ \A k \in 1 .. n : U[k] = R[k]
    BY LenProperties, AppendProperties
  <1>2. Won(U, n + 1) = w /\ \A k \in 1 .. n : Won(U, k) = Won(R, k)
    BY <1>1 DEF Won
  <1>3. Won(R, n) \in BOOLEAN /\ w \in BOOLEAN /\ \A k : Won(R, k) \in BOOLEAN
    BY DEF Won, IsWin
  <1> HIDE DEF U, w
  \* A run of one.
  <1>4. ASSUME n = 0 \/ Won(R, n) # w
        PROVE  RunAt(U, 1)
    <2>1. \A k \in (n + 1) - 1 + 1 .. n + 1 : k = n + 1
      BY <1>1
    <2>2. 1 < n + 1 => Won(U, (n + 1) - 1) # Won(U, n + 1)
      <3>1. ASSUME 1 < n + 1 PROVE n \in 1 .. n /\ (n + 1) - 1 = n
        BY <1>1, <3>1
      <3>2. QED
        BY <1>1, <1>2, <1>4, <3>1
    <2>3. 1 \in 1 .. n + 1
      BY <1>1
    <2>4. QED
      BY <1>1, <2>1, <2>2, <2>3 DEF RunAt
  \* One more.
  <1>5. ASSUME NEW r, RunAt(R, r), Won(R, n) = w
        PROVE  RunAt(U, r + 1)
    <2>1. r \in 1 .. n
      BY <1>5 DEF RunAt
    <2>2. \A k \in (n + 1) - (r + 1) + 1 .. n + 1 :
            k = n + 1 \/ (k \in n - r + 1 .. n /\ k \in 1 .. n)
      BY <1>1, <2>1
    <2>3. \A k \in n - r + 1 .. n : Won(R, k) = Won(R, n)
      BY <1>5 DEF RunAt
    <2>4. \A k \in (n + 1) - (r + 1) + 1 .. n + 1 : Won(U, k) = Won(U, n + 1)
      BY <1>2, <1>5, <2>2, <2>3
    <2>5. r + 1 < n + 1 => Won(U, (n + 1) - (r + 1)) # Won(U, n + 1)
      <3>1. ASSUME r + 1 < n + 1 PROVE r < n /\ (n + 1) - (r + 1) = n - r /\ n - r \in 1 .. n
        BY <1>1, <2>1, <3>1
      <3>2. r < n => Won(R, n - r) # Won(R, n)
        BY <1>5 DEF RunAt
      <3>3. QED
        BY <1>2, <1>5, <3>1, <3>2
    <2>6. r + 1 \in 1 .. n + 1
      BY <1>1, <2>1
    <2>7. QED
      BY <1>1, <2>4, <2>5, <2>6 DEF RunAt
  <1>6. ASSUME NEW r, RunAt(U, r)
        PROVE  IsStreak(U, IF w THEN r ELSE -r)
    <2>1. r \in 1 .. n + 1
      BY <1>1, <1>6 DEF RunAt
    <2>2. QED
      BY <1>1, <1>2, <1>6, <2>1 DEF IsStreak
  <1>7. CASE n = 0
    <2>1. t = 0
      <3>1. \A r \in 1 .. 0 : FALSE
        OBVIOUS
      <3>2. QED
        BY <1>7, <3>1 DEF IsStreak
    <2>2. NextStreak(t, w) = IF w THEN 1 ELSE -1
      BY <2>1 DEF NextStreak, Larger, Smaller
    <2>3. QED
      BY <1>4, <1>6, <1>7, <2>2 DEF U, w
  <1>8. CASE n # 0
    <2>1. PICK r \in 1 .. n : RunAt(R, r) /\ t = IF Won(R, n) THEN r ELSE -r
      BY <1>8 DEF IsStreak
    <2>2. r \in Int /\ r >= 1
      BY <1>1
    <2>3. CASE Won(R, n) = w
      <3>1. NextStreak(t, w) = IF w THEN r + 1 ELSE -(r + 1)
        BY <2>1, <2>2, <2>3 DEF NextStreak, Larger, Smaller
      <3>2. QED
        BY <1>5, <1>6, <2>1, <2>3, <3>1 DEF U, w
    <2>4. CASE Won(R, n) # w
      <3>1. NextStreak(t, w) = IF w THEN 1 ELSE -1
        BY <1>3, <2>1, <2>2, <2>4 DEF NextStreak, Larger, Smaller
      <3>2. QED
        BY <1>4, <1>6, <2>4, <3>1 DEF U, w
    <2>5. QED
      BY <2>3, <2>4
  <1>9. QED
    BY <1>7, <1>8

LEMMA GreatestIs ==
    ASSUME NEW S \in SUBSET Int, NEW m, IsGreatest(S, m)
    PROVE  m = MaxOf(S)
  <1> DEFINE g == CHOOSE x \in S : \A y \in S : x >= y
  <1>1. m \in S /\ \A x \in S : m >= x
    BY DEF IsGreatest
  <1>2. g \in S /\ \A y \in S : g >= y
    BY <1>1
  <1>3. g = MaxOf(S)
    BY DEF MaxOf
  <1> HIDE DEF g
  <1>4. g \in Int /\ m \in Int /\ g >= m /\ m >= g
    BY <1>1, <1>2
  <1>5. QED
    BY <1>3, <1>4

LEMMA PeakGrows ==
    ASSUME NEW R \in Seq(RowSet), NEW x \in RowSet, NEW m \in Int, Fresh.peak \in Int,
           IsGreatest(Peaks(R), m)
    PROVE  IsGreatest(Peaks(Append(R, x)), Larger(m, x.crAfter))
  <1> DEFINE n == Len(R)
             U == Append(R, x)
             S == Peaks(R)
             c == x.crAfter
  <1>1. /\ n \in Nat /\ Len(U) = n + 1 /\ U[n + 1] = x
        /\ \A k \in 1 .. n : U[k] = R[k]
    BY LenProperties, AppendProperties
  <1>2. c \in Int /\ S \in SUBSET Int
    <2>1. \A y \in RowSet : y.crAfter \in Int
      BY DEF RowSet
    <2>2. \A k \in 1 .. n : R[k] \in RowSet
      OBVIOUS
    <2>3. \A k \in 1 .. n : R[k].crAfter \in Int
      BY <2>1, <2>2
    <2>4. QED
      BY <2>1, <2>3 DEF Peaks
  <1>3. Peaks(U) = S \cup {c}
    <2>1. \A k \in 1 .. n + 1 : k \in 1 .. n \/ k = n + 1
      BY <1>1
    <2>2. n + 1 \in 1 .. n + 1 /\ \A k \in 1 .. n : k \in 1 .. n + 1
      BY <1>1
    <2> HIDE DEF U, n
    <2>3. Peaks(U) = {Fresh.peak} \cup {U[k].crAfter : k \in 1 .. n + 1}
      BY <1>1 DEF Peaks
    <2>4. S = {Fresh.peak} \cup {R[k].crAfter : k \in 1 .. n}
      BY DEF Peaks, n
    <2> HIDE DEF S
    <2>5. QED
      BY <1>1, <2>1, <2>2, <2>3, <2>4
  <1> HIDE DEF U, S, c
  <1>4. m \in S /\ \A y \in S : m >= y
    BY DEF IsGreatest, S
  <1>5. IsGreatest(S \cup {c}, Larger(m, c))
    <2>1. CASE m >= c
      <3>1. Larger(m, c) = m
        BY <1>2, <2>1 DEF Larger
      <3>2. QED
        BY <1>2, <1>4, <2>1, <3>1 DEF IsGreatest
    <2>2. CASE ~(m >= c)
      <3>1. Larger(m, c) = c
        BY <1>2, <2>2 DEF Larger
      <3>2. \A y \in S : c >= y
        BY <1>2, <1>4, <2>2
      <3>3. c >= c
        BY <1>2
      <3>4. QED
        BY <3>1, <3>2, <3>3 DEF IsGreatest
    <2>3. QED
      BY <2>1, <2>2
  <1>6. QED
    BY <1>3, <1>5 DEF U, c

-----------------------------------------------------------------------------
(* Its counters *)

\* The counters s and the rows rs of p agree.
Counts(s, rs, p) ==
    /\ Ranked(PlayedBy(rs, p))
    /\ s.played = Cardinality(PlayedBy(rs, p))
    /\ s.left = Larger(0, Params.placement_match_count - s.played)
    /\ IsStreak(HistoryOf(rs, p), s.streak)
    /\ IsGreatest(Peaks(HistoryOf(rs, p)), s.peak)

LEMMA FreshPeak == Fresh.peak \in Int
  <1>1. Params.mu0 \in Int /\ Params.sigma0 \in Int /\ Params.base_offset \in Int
    BY ParamsAssumption
  <1>2. QED
    BY <1>1 DEF Fresh, Identity

LEMMA RowsOfPlayers ==
    ASSUME NEW p \in Players, NEW row \in SoundRows
    PROVE  row[p] \in RowSet
  BY DEF SoundRows

LEMMA PlayedIsFinite ==
    ASSUME NEW rs \in Seq(SoundRows), NEW p
    PROVE  /\ PlayedBy(rs, p) \in SUBSET Nat /\ IsFiniteSet(PlayedBy(rs, p))
           /\ Cardinality(PlayedBy(rs, p)) \in Nat
           /\ PlayedBy(rs, p) \in SUBSET (1 .. Len(rs))
  <1>1. Len(rs) \in Nat
    BY LenProperties
  <1>2. IsFiniteSet(1 .. Len(rs))
    BY <1>1, FS_Interval
  <1>3. PlayedBy(rs, p) \in SUBSET (1 .. Len(rs)) /\ PlayedBy(rs, p) \in SUBSET Nat
    BY <1>1 DEF PlayedBy
  <1>4. QED
    BY <1>2, <1>3, FS_Subset, FS_CardinalityType

LEMMA HistoryIsASequence ==
    ASSUME NEW rs \in Seq(SoundRows), NEW p \in Players, Ranked(PlayedBy(rs, p))
    PROVE  /\ HistoryOf(rs, p) \in Seq(RowSet)
           /\ Len(HistoryOf(rs, p)) = Cardinality(PlayedBy(rs, p))
           /\ \A k \in 1 .. Cardinality(PlayedBy(rs, p)) :
                 HistoryOf(rs, p)[k] = rs[NthOf(PlayedBy(rs, p), k)][p]
  <1> DEFINE E == PlayedBy(rs, p)
             n == Cardinality(E)
             h == [k \in 1 .. n |-> rs[NthOf(E, k)][p]]
  <1>1. n \in Nat /\ E \in SUBSET (1 .. Len(rs))
    BY PlayedIsFinite
  <1>2. ASSUME NEW k \in 1 .. n PROVE h[k] \in RowSet
    <2>1. NthOf(E, k) \in E
      BY DEF Ranked, NthOf
    <2> DEFINE i == NthOf(E, k)
    <2>2. i \in 1 .. Len(rs) /\ h[k] = rs[i][p]
      BY <1>1, <2>1
    <2> HIDE DEF i, h
    <2>3. rs[i] \in SoundRows
      BY <2>2
    <2>4. QED
      BY <2>2, <2>3, RowsOfPlayers
  <1>3. h = HistoryOf(rs, p) /\ DOMAIN h = 1 .. n /\ h = [k \in 1 .. n |-> h[k]]
    BY DEF HistoryOf
  <1>4. \A k \in 1 .. n : h[k] = rs[NthOf(E, k)][p]
    OBVIOUS
  <1> HIDE DEF h, E, n
  <1>5. h \in [1 .. n -> RowSet]
    BY <1>2, <1>3
  <1>6. h \in Seq(RowSet) /\ Len(h) = n
    BY <1>1, <1>5, SeqDef, LenProperties
  <1>7. QED
    BY <1>3, <1>4, <1>6 DEF E, n

\* A result that is not rated leaves no trace.
LEMMA SpareRow ==
    ASSUME NEW rs \in Seq(SoundRows), NEW p \in Players, NEW row \in SoundRows,
           ~row[p].eligible, Ranked(PlayedBy(rs, p))
    PROVE  /\ PlayedBy(Append(rs, row), p) = PlayedBy(rs, p)
           /\ HistoryOf(Append(rs, row), p) = HistoryOf(rs, p)
  <1> DEFINE U == Append(rs, row)
             m == Len(rs) + 1
             E == PlayedBy(rs, p)
  <1>1. /\ Len(U) = m /\ m \in Nat /\ U[m] = row
        /\ \A i \in 1 .. Len(rs) : U[i] = rs[i]
    BY AppendProperties, LenProperties
  <1>2. PlayedBy(U, p) = E
    <2>1. \A i \in 1 .. m : i \in 1 .. Len(rs) \/ i = m
      BY <1>1
    <2>2. \A i \in 1 .. Len(rs) : i \in 1 .. m
      BY <1>1
    <2> HIDE DEF U, m
    <2>3. QED
      BY <1>1, <2>1, <2>2 DEF PlayedBy
  <1>3. ASSUME NEW k \in 1 .. Cardinality(E)
        PROVE  U[NthOf(E, k)][p] = rs[NthOf(E, k)][p]
    <2>1. NthOf(E, k) \in E
      BY DEF Ranked, NthOf
    <2>2. NthOf(E, k) \in 1 .. Len(rs)
      BY <2>1 DEF PlayedBy
    <2>3. QED
      BY <1>1, <2>2
  <1> HIDE DEF U, E
  <1>4. HistoryOf(U, p) = HistoryOf(rs, p)
    BY <1>2, <1>3 DEF HistoryOf, E
  <1>5. QED
    BY <1>2, <1>4 DEF U, E

LEMMA CountedRow ==
    ASSUME NEW rs \in Seq(SoundRows), NEW p \in Players, NEW row \in SoundRows,
           row[p].eligible, Ranked(PlayedBy(rs, p))
    PROVE  /\ Ranked(PlayedBy(Append(rs, row), p))
           /\ PlayedBy(Append(rs, row), p) = PlayedBy(rs, p) \cup {Len(rs) + 1}
           /\ Cardinality(PlayedBy(Append(rs, row), p)) = Cardinality(PlayedBy(rs, p)) + 1
           /\ HistoryOf(Append(rs, row), p) = Append(HistoryOf(rs, p), row[p])
  <1> DEFINE U == Append(rs, row)
             E == PlayedBy(rs, p)
             m == Len(rs) + 1
             n == Cardinality(E)
             h == HistoryOf(rs, p)
             a == Append(h, row[p])
  <1>1. /\ U \in Seq(SoundRows) /\ Len(U) = m /\ m \in Nat /\ U[m] = row
        /\ \A i \in 1 .. Len(rs) : U[i] = rs[i]
    BY AppendProperties, LenProperties
  <1>2. /\ E \in SUBSET Nat /\ IsFiniteSet(E) /\ n \in Nat
        /\ E \in SUBSET (1 .. Len(rs)) /\ \A i \in E : i < m
    <2>1. Len(rs) \in Nat
      BY LenProperties
    <2>2. \A i \in 1 .. Len(rs) : i < m
      BY <2>1
    <2>3. QED
      BY <2>2, PlayedIsFinite
  <1>3. PlayedBy(U, p) = E \cup {m}
    <2>1. \A i \in 1 .. m : i \in 1 .. Len(rs) \/ i = m
      BY <1>1
    <2>2. m \in 1 .. m /\ \A i \in 1 .. Len(rs) : i \in 1 .. m
      BY <1>1
    <2> HIDE DEF U, m
    <2>3. QED
      BY <1>1, <2>1, <2>2 DEF PlayedBy
  <1>4. /\ Ranked(E \cup {m}) /\ Cardinality(E \cup {m}) = n + 1
        /\ NthOf(E \cup {m}, n + 1) = m
        /\ \A k \in 1 .. n : NthOf(E, k) \in E /\ NthOf(E \cup {m}, k) = NthOf(E, k)
    <2> HIDE DEF E, m
    <2>1. Ranked(E)
      BY DEF E
    <2>2. QED
      BY <1>1, <1>2, <2>1, RanksGrow DEF n
  <1>5. /\ h \in Seq(RowSet) /\ Len(h) = n
        /\ \A k \in 1 .. n : h[k] = rs[NthOf(E, k)][p]
    BY HistoryIsASequence
  <1>6. row[p] \in RowSet
    BY RowsOfPlayers
  <1>7. /\ a \in Seq(RowSet) /\ Len(a) = n + 1 /\ a[n + 1] = row[p]
        /\ \A k \in 1 .. n : a[k] = h[k]
    <2> HIDE DEF h, n
    <2> QED BY <1>5, <1>6, AppendProperties
  <1>8. /\ HistoryOf(U, p) \in Seq(RowSet) /\ Len(HistoryOf(U, p)) = n + 1
        /\ \A k \in 1 .. n + 1 : HistoryOf(U, p)[k] = U[NthOf(E \cup {m}, k)][p]
    <2> HIDE DEF U, m, E, n
    <2>1. Ranked(PlayedBy(U, p))
      BY <1>3, <1>4
    <2>2. /\ HistoryOf(U, p) \in Seq(RowSet)
          /\ Len(HistoryOf(U, p)) = Cardinality(PlayedBy(U, p))
          /\ \A k \in 1 .. Cardinality(PlayedBy(U, p)) :
                HistoryOf(U, p)[k] = U[NthOf(PlayedBy(U, p), k)][p]
      BY <1>1, <2>1, HistoryIsASequence
    <2>3. QED
      BY <1>3, <1>4, <2>2
  <1> HIDE DEF U, m, E, n, h, a
  <1>9. ASSUME NEW k \in 1 .. n + 1 PROVE HistoryOf(U, p)[k] = a[k]
    <2>1. CASE k \in 1 .. n
      <3> DEFINE i == NthOf(E, k)
      <3>1. i \in 1 .. Len(rs) /\ NthOf(E \cup {m}, k) = i
        BY <1>2, <1>4, <2>1
      <3>2. a[k] = rs[i][p]
        BY <1>5, <1>7, <2>1
      <3> HIDE DEF i
      <3>3. HistoryOf(U, p)[k] = U[i][p]
        BY <1>8, <3>1
      <3>4. QED
        BY <1>1, <3>1, <3>2, <3>3
    <2>2. CASE k = n + 1
      BY <1>1, <1>4, <1>7, <1>8, <2>2
    <2>3. QED
      BY <1>2, <2>1, <2>2
  <1>10. HistoryOf(U, p) = a
    BY <1>7, <1>8, <1>9, SeqEqual
  <1>11. QED
    BY <1>3, <1>4, <1>10 DEF U, m, E, n, h, a

LEMMA NothingCounts ==
    ASSUME NEW p \in Players PROVE Counts(Fresh, <<>>, p)
  <1>1. Params.placement_match_count \in Nat
    BY ParamsAssumption
  <1>2. \A i \in 1 .. 0 : FALSE
    OBVIOUS
  <1>3. PlayedBy(<<>>, p) = {} /\ Cardinality({}) = 0
    BY <1>2, EmptySeq, FS_EmptySet DEF PlayedBy
  <1>4. HistoryOf(<<>>, p) = <<>> /\ Len(<<>>) = 0
    <2>1. <<>> \in Seq(SoundRows) /\ Ranked(PlayedBy(<<>>, p))
      BY <1>2, <1>3, EmptySeq DEF Ranked
    <2>2. HistoryOf(<<>>, p) \in Seq(RowSet) /\ Len(HistoryOf(<<>>, p)) = 0
      BY <1>3, <2>1, HistoryIsASequence
    <2>3. QED
      BY <2>2, EmptySeq
  <1>5. Peaks(<<>>) = {Fresh.peak}
    BY <1>2, <1>4 DEF Peaks
  <1>6. Fresh.peak \in Int
    BY FreshPeak
  <1>7. Fresh.peak >= Fresh.peak
    BY <1>6
  <1>8. Fresh.played = 0 /\ Fresh.streak = 0 /\ Fresh.left = Params.placement_match_count
    BY DEF Fresh
  <1>9. Params.placement_match_count = Larger(0, Params.placement_match_count - 0)
    BY <1>1 DEF Larger
  <1>10. QED
    BY <1>2, <1>3, <1>4, <1>5, <1>7, <1>8, <1>9 DEF Counts, Ranked, IsStreak, IsGreatest

\* _persist of a rated result, by increments.
LEMMA CountsGrow ==
    ASSUME NEW rs \in Seq(SoundRows), NEW p \in Players, NEW row \in SoundRows,
           row[p].eligible, NEW s \in States, Counts(Snapshot(s), rs, p),
           NEW e, row[p].crAfter = e.cr
    PROVE  Counts(Snapshot(Moved(s, e, IsWin(row[p].place, row[p].teams))),
                  Append(rs, row), p)
  <1> DEFINE U == Append(rs, row)
             w == IsWin(row[p].place, row[p].teams)
             h == HistoryOf(rs, p)
             t == Snapshot(Moved(s, e, w))
             n == Cardinality(PlayedBy(rs, p))
  <1>1. /\ Ranked(PlayedBy(rs, p)) /\ s.played = n
        /\ s.left = Larger(0, Params.placement_match_count - s.played)
        /\ IsStreak(h, s.streak) /\ IsGreatest(Peaks(h), s.peak)
    BY DEF Counts, Snapshot
  <1>2. /\ Ranked(PlayedBy(U, p)) /\ Cardinality(PlayedBy(U, p)) = n + 1
        /\ HistoryOf(U, p) = Append(h, row[p])
    BY <1>1, CountedRow
  <1>3. h \in Seq(RowSet) /\ row[p] \in RowSet /\ n \in Nat
    BY <1>1, HistoryIsASequence, RowsOfPlayers, PlayedIsFinite
  <1>4. /\ t.played = s.played + 1 /\ t.left = Larger(0, s.left - 1)
        /\ t.streak = NextStreak(s.streak, w) /\ t.peak = Larger(s.peak, row[p].crAfter)
    BY DEF Snapshot, Moved
  <1>5. Fresh.peak \in Int /\ s.peak \in Int /\ Params.placement_match_count \in Nat
    BY FreshPeak, ParamsAssumption DEF States
  <1> HIDE DEF U, h, t, n
  <1>6. IsStreak(HistoryOf(U, p), t.streak)
    BY <1>1, <1>2, <1>3, <1>4, StreakGrows
  <1>7. IsGreatest(Peaks(HistoryOf(U, p)), t.peak)
    BY <1>1, <1>2, <1>3, <1>4, <1>5, PeakGrows
  <1>8. /\ t.played = Cardinality(PlayedBy(U, p))
        /\ t.left = Larger(0, Params.placement_match_count - t.played)
    <2>1. t.played = n + 1 /\ t.left = Larger(0, Larger(0, Params.placement_match_count - n) - 1)
      BY <1>1, <1>4
    <2>2. Larger(0, Larger(0, Params.placement_match_count - n) - 1)
            = Larger(0, Params.placement_match_count - (n + 1))
      BY <1>3, <1>5 DEF Larger
    <2>3. QED
      BY <1>2, <2>1, <2>2
  <1>9. QED
    BY <1>2, <1>6, <1>7, <1>8 DEF Counts, U, t

LEMMA CountsTell ==
    ASSUME NEW p \in Players, rows \in Seq(SoundRows), Counts(Snapshot(season[p]), rows, p)
    PROVE  LET results == ResultsOf(p)
               s == season[p]
           IN /\ s.played = Len(results)
              /\ s.left = Larger(0, Params.placement_match_count - s.played)
              /\ s.streak = StreakOf(results)
              /\ s.peak = MaxOf({Fresh.peak} \cup {results[k].crAfter : k \in 1 .. Len(results)})
  <1> DEFINE h == HistoryOf(rows, p)
             s == season[p]
  <1>1. /\ Ranked(PlayedBy(rows, p)) /\ s.played = Cardinality(PlayedBy(rows, p))
        /\ s.left = Larger(0, Params.placement_match_count - s.played)
        /\ IsStreak(h, s.streak) /\ IsGreatest(Peaks(h), s.peak)
    BY DEF Counts, Snapshot
  <1>2. h \in Seq(RowSet) /\ Len(h) = Cardinality(PlayedBy(rows, p))
    BY <1>1, HistoryIsASequence
  <1>3. Peaks(h) \in SUBSET Int
    <2>1. Fresh.peak \in Int
      BY FreshPeak
    <2>2. \A y \in RowSet : y.crAfter \in Int
      BY DEF RowSet
    <2>3. \A k \in 1 .. Len(h) : h[k] \in RowSet
      BY <1>2
    <2> HIDE DEF h
    <2>4. QED
      BY <2>1, <2>2, <2>3 DEF Peaks
  <1>4. h = ResultsOf(p)
    BY ResultsAreHistory
  <1> HIDE DEF h, s
  <1>5. s.streak = StreakOf(h) /\ s.peak = MaxOf(Peaks(h))
    BY <1>1, <1>2, <1>3, StreakIs, GreatestIs
  <1>6. QED
    BY <1>1, <1>2, <1>4, <1>5 DEF Peaks, s

-----------------------------------------------------------------------------
(* The totals of its champion *)

\* The totals of a champion row and the rows rs of p agree.
Places(rs, p) == [i \in 1 .. Len(rs) |-> rs[i][p].place]
Deltas(rs, p) == [i \in 1 .. Len(rs) |-> rs[i][p].delta]
Tallies(c, rs, p) ==
    /\ c.games = Cardinality(PlayedBy(rs, p))
    /\ c.places = SumFunctionOnSet(Places(rs, p), PlayedBy(rs, p))
    /\ c.earned = SumFunctionOnSet(Deltas(rs, p), PlayedBy(rs, p))

LEMMA ColumnsGrow ==
    ASSUME NEW rs \in Seq(SoundRows), NEW p \in Players, NEW row \in SoundRows,
           Ranked(PlayedBy(rs, p))
    PROVE  LET E == PlayedBy(rs, p)
               U == Append(rs, row)
               V == PlayedBy(U, p)
           IN /\ row[p].eligible =>
                    /\ SumFunctionOnSet(Places(U, p), V)
                          = row[p].place + SumFunctionOnSet(Places(rs, p), E)
                    /\ SumFunctionOnSet(Deltas(U, p), V)
                          = row[p].delta + SumFunctionOnSet(Deltas(rs, p), E)
              /\ ~row[p].eligible =>
                    /\ SumFunctionOnSet(Places(U, p), V) = SumFunctionOnSet(Places(rs, p), E)
                    /\ SumFunctionOnSet(Deltas(U, p), V) = SumFunctionOnSet(Deltas(rs, p), E)
  <1> DEFINE E == PlayedBy(rs, p)
             U == Append(rs, row)
             V == PlayedBy(U, p)
             m == Len(rs) + 1
  <1>1. /\ U \in Seq(SoundRows) /\ Len(U) = m /\ m \in Nat /\ U[m] = row
        /\ \A i \in 1 .. Len(rs) : U[i] = rs[i]
    BY AppendProperties, LenProperties
  <1>2. IsFiniteSet(E) /\ E \in SUBSET (1 .. Len(rs))
    BY PlayedIsFinite
  <1>3. /\ m \notin E /\ m \in 1 .. m
        /\ \A i \in E : i \in 1 .. Len(rs) /\ i \in 1 .. m
    BY <1>1, <1>2
  <1>4. \A y \in RowSet : y.place \in Int /\ y.delta \in Int
    BY DEF RowSet
  <1> HIDE DEF U, m, E
  <1>5. ASSUME NEW i \in E
        PROVE  /\ Places(U, p)[i] = Places(rs, p)[i] /\ Deltas(U, p)[i] = Deltas(rs, p)[i]
               /\ Places(U, p)[i] \in Int /\ Deltas(U, p)[i] \in Int
    <2>1. i \in 1 .. Len(rs) /\ i \in 1 .. Len(U) /\ U[i] = rs[i] /\ rs[i] \in SoundRows
      BY <1>1, <1>3
    <2>2. rs[i][p].place \in Int /\ rs[i][p].delta \in Int
      BY <1>4, <2>1, RowsOfPlayers
    <2>3. QED
      BY <2>1, <2>2 DEF Places, Deltas
  <1>6. /\ Places(U, p)[m] = row[p].place /\ Deltas(U, p)[m] = row[p].delta
        /\ Places(U, p)[m] \in Int /\ Deltas(U, p)[m] \in Int
    <2>1. row[p].place \in Int /\ row[p].delta \in Int
      BY <1>4, RowsOfPlayers
    <2>2. QED
      BY <1>1, <1>3, <2>1 DEF Places, Deltas
  <1>7. ASSUME row[p].eligible
        PROVE  /\ SumFunctionOnSet(Places(U, p), V)
                     = row[p].place + SumFunctionOnSet(Places(rs, p), E)
               /\ SumFunctionOnSet(Deltas(U, p), V)
                     = row[p].delta + SumFunctionOnSet(Deltas(rs, p), E)
    <2>1. V = E \cup {m}
      BY <1>7, CountedRow DEF E, U, m
    <2> HIDE DEF V
    <2>2. SumFunctionOnSet(Places(U, p), E \cup {m})
            = Places(U, p)[m] + SumFunctionOnSet(Places(rs, p), E)
      BY <1>2, <1>3, <1>5, <1>6, SumGrows
    <2>3. SumFunctionOnSet(Deltas(U, p), E \cup {m})
            = Deltas(U, p)[m] + SumFunctionOnSet(Deltas(rs, p), E)
      BY <1>2, <1>3, <1>5, <1>6, SumGrows
    <2>4. QED
      BY <1>6, <2>1, <2>2, <2>3
  <1>8. ASSUME ~row[p].eligible
        PROVE  /\ SumFunctionOnSet(Places(U, p), V) = SumFunctionOnSet(Places(rs, p), E)
               /\ SumFunctionOnSet(Deltas(U, p), V) = SumFunctionOnSet(Deltas(rs, p), E)
    <2>1. V = E
      BY <1>8, SpareRow DEF E, U
    <2> HIDE DEF V
    <2>2. SumFunctionOnSet(Places(U, p), E) = SumFunctionOnSet(Places(rs, p), E)
      BY <1>2, <1>5, SumOfSame
    <2>3. SumFunctionOnSet(Deltas(U, p), E) = SumFunctionOnSet(Deltas(rs, p), E)
      BY <1>2, <1>5, SumOfSame
    <2>4. QED
      BY <2>1, <2>2, <2>3
  <1>9. QED
    BY <1>7, <1>8 DEF U, E

\* _apply_champion_stat of a rated result.
LEMMA TalliesGrow ==
    ASSUME NEW rs \in Seq(SoundRows), NEW p \in Players, NEW row \in SoundRows,
           Ranked(PlayedBy(rs, p)), NEW c, Tallies(c, rs, p)
    PROVE  /\ ~row[p].eligible => Tallies(c, Append(rs, row), p)
           /\ row[p].eligible =>
                 \A win : Tallies(Tallied(c, row[p].place, win, row[p].delta), Append(rs, row), p)
  <1> DEFINE U == Append(rs, row)
             E == PlayedBy(rs, p)
             V == PlayedBy(U, p)
  <1>1. /\ row[p].eligible =>
              /\ SumFunctionOnSet(Places(U, p), V)
                    = row[p].place + SumFunctionOnSet(Places(rs, p), E)
              /\ SumFunctionOnSet(Deltas(U, p), V)
                    = row[p].delta + SumFunctionOnSet(Deltas(rs, p), E)
        /\ ~row[p].eligible =>
              /\ SumFunctionOnSet(Places(U, p), V) = SumFunctionOnSet(Places(rs, p), E)
              /\ SumFunctionOnSet(Deltas(U, p), V) = SumFunctionOnSet(Deltas(rs, p), E)
    BY ColumnsGrow
  <1>2. /\ row[p].eligible => Cardinality(V) = Cardinality(E) + 1
        /\ ~row[p].eligible => V = E
    BY CountedRow, SpareRow
  <1>3. /\ c.games = Cardinality(E)
        /\ c.places = SumFunctionOnSet(Places(rs, p), E)
        /\ c.earned = SumFunctionOnSet(Deltas(rs, p), E)
    BY DEF Tallies
  <1>4. /\ row[p].place \in Int /\ row[p].delta \in Int
        /\ c.places \in Int /\ c.earned \in Int
    <2>1. \A y \in RowSet : y.place \in Int /\ y.delta \in Int
      BY DEF RowSet
    <2>2. IsFiniteSet(E) /\ E \in SUBSET (1 .. Len(rs))
      BY PlayedIsFinite
    <2> HIDE DEF E
    <2>3. ASSUME NEW i \in E PROVE Places(rs, p)[i] \in Int /\ Deltas(rs, p)[i] \in Int
      <3>1. i \in 1 .. Len(rs) /\ rs[i] \in SoundRows
        BY <2>2
      <3>2. rs[i][p].place \in Int /\ rs[i][p].delta \in Int
        BY <2>1, <3>1, RowsOfPlayers
      <3>3. QED
        BY <3>1, <3>2 DEF Places, Deltas
    <2>4. /\ SumFunctionOnSet(Places(rs, p), E) \in Int
          /\ SumFunctionOnSet(Deltas(rs, p), E) \in Int
      BY <2>2, <2>3, SumIsInteger
    <2>5. QED
      BY <1>3, <2>1, <2>4, RowsOfPlayers
  <1> HIDE DEF U, E, V
  <1>5. ASSUME ~row[p].eligible PROVE Tallies(c, U, p)
    BY <1>1, <1>2, <1>3, <1>5 DEF Tallies, V
  <1>6. ASSUME row[p].eligible, NEW win
        PROVE  Tallies(Tallied(c, row[p].place, win, row[p].delta), U, p)
    <2> DEFINE d == Tallied(c, row[p].place, win, row[p].delta)
    <2>1. /\ d.games = c.games + 1 /\ d.places = c.places + row[p].place
          /\ d.earned = c.earned + row[p].delta
      BY DEF Tallied
    <2> HIDE DEF d
    <2>2. /\ d.games = Cardinality(V)
          /\ d.places = SumFunctionOnSet(Places(U, p), V)
          /\ d.earned = SumFunctionOnSet(Deltas(U, p), V)
      BY <1>1, <1>2, <1>3, <1>4, <1>6, <2>1
    <2>3. QED
      BY <2>2 DEF Tallies, V, d
  <1>7. QED
    BY <1>5, <1>6 DEF U

LEMMA TotalsAreSums ==
    ASSUME NEW p \in Players
    PROVE  /\ Eligible(p) = PlayedBy(rows, p)
           /\ Total(p, LAMBDA r : r.place) = SumFunctionOnSet(Places(rows, p), PlayedBy(rows, p))
           /\ Total(p, LAMBDA r : r.delta) = SumFunctionOnSet(Deltas(rows, p), PlayedBy(rows, p))
  BY DEF Total, Places, Deltas, Eligible, PlayedBy

LEMMA RebuiltTallies ==
    ASSUME NEW p \in Players
    PROVE  /\ Tallies(Rebuilt(p), rows, p)
           /\ Eligible(p) = {} => Tallies(NoStats, rows, p)
  <1>1. Eligible(p) = {} => /\ Cardinality(Eligible(p)) = 0
                            /\ SumFunctionOnSet(Places(rows, p), {}) = 0
                            /\ SumFunctionOnSet(Deltas(rows, p), {}) = 0
    BY FS_EmptySet, SumOfNothing
  <1>2. /\ Rebuilt(p).games = Cardinality(Eligible(p))
        /\ Rebuilt(p).places = Total(p, LAMBDA r : r.place)
        /\ Rebuilt(p).earned = Total(p, LAMBDA r : r.delta)
    BY DEF Rebuilt
  <1>3. QED
    BY <1>1, <1>2, TotalsAreSums DEF Tallies, NoStats

-----------------------------------------------------------------------------
(* Counters, restore points and totals at every step *)

\* The rows before match i.
RowsBefore(rs, i) == SubSeq(rs, 1, i - 1)

LEMMA PrefixIs ==
    ASSUME NEW rs \in Seq(SoundRows), NEW i \in 1 .. Len(rs) + 1
    PROVE  /\ RowsBefore(rs, i) \in Seq(SoundRows)
           /\ Len(RowsBefore(rs, i)) = i - 1
           /\ \A j \in 1 .. i - 1 : RowsBefore(rs, i)[j] = rs[j]
  <1>1. Len(rs) \in Nat
    BY LenProperties
  <1>2. /\ 1 \in 1 .. Len(rs) + 1 /\ i - 1 \in Int /\ i - 1 \in 0 .. Len(rs)
        /\ \A j \in 1 .. i - 1 : j \in 1 .. Len(rs)
    BY <1>1
  <1>3. QED
    BY <1>1, <1>2, SubSeqProperties DEF RowsBefore

LEMMA PrefixOfMore ==
    ASSUME NEW rs \in Seq(SoundRows), NEW us \in Seq(SoundRows),
           NEW n \in Nat, n <= Len(rs), n <= Len(us), \A j \in 1 .. n : us[j] = rs[j],
           NEW i \in 1 .. n + 1
    PROVE  RowsBefore(us, i) = RowsBefore(rs, i)
  <1> DEFINE a == RowsBefore(us, i)
             b == RowsBefore(rs, i)
  <1>1. i \in 1 .. Len(rs) + 1 /\ i \in 1 .. Len(us) + 1 /\ \A j \in 1 .. i - 1 : j \in 1 .. n
    BY LenProperties
  <1>2. /\ b \in Seq(SoundRows) /\ Len(b) = i - 1 /\ \A j \in 1 .. i - 1 : b[j] = rs[j]
        /\ a \in Seq(SoundRows) /\ Len(a) = i - 1 /\ \A j \in 1 .. i - 1 : a[j] = us[j]
    BY <1>1, PrefixIs
  <1> HIDE DEF a, b
  <1>3. \A j \in 1 .. i - 1 : a[j] = b[j]
    BY <1>1, <1>2
  <1>4. a = b
    BY <1>2, <1>3, SeqEqual
  <1>5. QED
    BY <1>4 DEF a, b

LEMMA PrefixIsAll ==
    ASSUME NEW rs \in Seq(SoundRows)
    PROVE  RowsBefore(rs, Len(rs) + 1) = rs
  <1> DEFINE n == Len(rs)
             a == RowsBefore(rs, n + 1)
  <1>1. n \in Nat /\ n + 1 \in 1 .. n + 1 /\ (n + 1) - 1 = n
    BY LenProperties
  <1>2. a \in Seq(SoundRows) /\ Len(a) = n /\ \A j \in 1 .. n : a[j] = rs[j]
    BY <1>1, PrefixIs
  <1> HIDE DEF a
  <1>3. a = rs
    BY <1>2, SeqEqual
  <1>4. QED
    BY <1>3 DEF a

\* What a commit does to the counters.
LEMMA PersistMoves ==
    ASSUME NEW l, NEW factor, Persist(l, factor)
    PROVE  \E row :
             /\ rows' = Append(rows, row)
             /\ \A p \in Players :
                   /\ row[p].before = Snapshot(season[p])
                   /\ row[p].eligible =>
                         /\ \E e : /\ row[p].crAfter = e.cr
                                   /\ season'[p] = Moved(season[p], e,
                                                     IsWin(row[p].place, row[p].teams))
                         /\ \E win : champion'[p] = Tallied(champion[p], row[p].place,
                                                            win, row[p].delta)
                   /\ ~row[p].eligible => /\ season'[p] = season[p]
                                          /\ champion'[p] = champion[p]
  <1> DEFINE e == [p \in Players |->
                    IF p \in l.out THEN Frozen(season[p])
                    ELSE Earned(season[p], l.place[p], l.teams, LobbyMean(p), factor[p])]
             row == [p \in Players |-> Row(p, l, e[p])]
             win == [p \in Players |-> IsWin(l.place[p], l.teams)]
  <1>1. /\ season' = [p \in Players |->
             IF p \in l.out THEN season[p] ELSE Moved(season[p], e[p], win[p])]
        /\ rows' = Append(rows, row)
        /\ champion' = [p \in Players |->
             IF p \in l.out THEN champion[p]
             ELSE Tallied(champion[p], l.place[p], win[p], e[p].cr - season[p].cr)]
    BY DEF Persist
  <1> HIDE DEF e
  <1>2. ASSUME NEW p \in Players
        PROVE  /\ row[p].before = Snapshot(season[p]) /\ row[p].crAfter = e[p].cr
               /\ row[p].place = l.place[p] /\ row[p].teams = l.teams
               /\ row[p].delta = e[p].cr - season[p].cr
               /\ row[p].eligible <=> p \notin l.out
               /\ win[p] = IsWin(row[p].place, row[p].teams)
    <2>1. row[p] = Row(p, l, e[p]) /\ win[p] = IsWin(l.place[p], l.teams)
      OBVIOUS
    <2> HIDE DEF row, win
    <2>2. /\ row[p].before = Snapshot(season[p]) /\ row[p].crAfter = e[p].cr
          /\ row[p].place = l.place[p] /\ row[p].teams = l.teams
          /\ row[p].delta = e[p].cr - season[p].cr
      BY <2>1 DEF Row
    <2>3. row[p].eligible <=> p \notin l.out
      <3>1. Row(p, l, e[p]).eligible <=> p \notin l.out
        BY DEF Row
      <3>2. QED
        BY <2>1, <3>1
    <2>4. QED
      BY <2>1, <2>2, <2>3
  <1> HIDE DEF row, win
  <1>3. ASSUME NEW p \in Players, row[p].eligible
        PROVE  /\ season'[p] = Moved(season[p], e[p], IsWin(row[p].place, row[p].teams))
               /\ champion'[p] = Tallied(champion[p], row[p].place, win[p], row[p].delta)
    <2>1. p \notin l.out
      BY <1>2, <1>3
    <2>2. QED
      BY <1>1, <1>2, <2>1
  <1>4. ASSUME NEW p \in Players, ~row[p].eligible
        PROVE  season'[p] = season[p] /\ champion'[p] = champion[p]
    <2>1. p \in l.out
      BY <1>2, <1>4
    <2>2. QED
      BY <1>1, <2>1
  <1>5. QED
    BY <1>1, <1>2, <1>3, <1>4

\* The counters of a player agree with its rows, those of every restore point with
\* the rows before it, and outside of a replay those of the champion too.
CountersHold ==
    \A p \in Players :
        /\ Counts(Snapshot(season[p]), rows, p)
        /\ \A i \in 1 .. Len(rows) : Counts(rows[i][p].before, RowsBefore(rows, i), p)
        /\ ~replaying => Tallies(champion[p], rows, p)

LEMMA InitCounters == Init => CountersHold
  <1> SUFFICES ASSUME Init PROVE CountersHold
    OBVIOUS
  <1>1. /\ season = [p \in Players |-> Fresh] /\ champion = [p \in Players |-> NoStats]
        /\ rows = <<>>
    BY DEF Init
  <1>2. \A i \in 1 .. 0 : FALSE
    OBVIOUS
  <1>3. ASSUME NEW p \in Players PROVE Counts(Snapshot(season[p]), <<>>, p)
    <2>1. season[p] = Fresh
      BY <1>1
    <2>2. Counts(Fresh, <<>>, p)
      BY NothingCounts
    <2>3. QED
      BY <2>1, <2>2 DEF Counts, Snapshot
  <1>4. ASSUME NEW p \in Players PROVE Tallies(champion[p], <<>>, p)
    <2>1. PlayedBy(<<>>, p) = {}
      BY <1>2, EmptySeq DEF PlayedBy
    <2>2. /\ champion[p].games = 0 /\ champion[p].places = 0 /\ champion[p].earned = 0
      BY <1>1 DEF NoStats
    <2>3. /\ Cardinality({}) = 0
          /\ SumFunctionOnSet(Places(<<>>, p), {}) = 0
          /\ SumFunctionOnSet(Deltas(<<>>, p), {}) = 0
      BY FS_EmptySet, SumOfNothing
    <2>4. QED
      BY <2>1, <2>2, <2>3 DEF Tallies
  <1>5. Len(<<>>) = 0
    BY EmptySeq
  <1>6. QED
    BY <1>1, <1>2, <1>3, <1>4, <1>5 DEF CountersHold

LEMMA PersistCounts ==
    ASSUME TInv, TInv', CountersHold, NEW l, NEW factor, Persist(l, factor)
    PROVE  \A p \in Players :
             /\ Counts(Snapshot(season'[p]), rows', p)
             /\ \A i \in 1 .. Len(rows') : Counts(rows'[i][p].before, RowsBefore(rows', i), p)
             /\ ~replaying => Tallies(champion'[p], rows', p)
  <1>1. PICK row :
             /\ rows' = Append(rows, row)
             /\ \A p \in Players :
                   /\ row[p].before = Snapshot(season[p])
                   /\ row[p].eligible =>
                         /\ \E e : /\ row[p].crAfter = e.cr
                                   /\ season'[p] = Moved(season[p], e,
                                                     IsWin(row[p].place, row[p].teams))
                         /\ \E win : champion'[p] = Tallied(champion[p], row[p].place,
                                                            win, row[p].delta)
                   /\ ~row[p].eligible => /\ season'[p] = season[p]
                                          /\ champion'[p] = champion[p]
    BY PersistMoves
  <1> DEFINE n == Len(rows)
  <1>2. /\ rows \in Seq(SoundRows) /\ rows' \in Seq(SoundRows)
        /\ season \in [Players -> States]
    BY DEF TInv
  <1>3. /\ n \in Nat /\ Len(rows') = n + 1 /\ rows'[n + 1] = row
        /\ \A i \in 1 .. n : rows'[i] = rows[i]
    BY <1>1, <1>2, LenProperties
  <1>4. row \in SoundRows
    <2>1. n + 1 \in 1 .. Len(rows')
      BY <1>3
    <2>2. QED
      BY <1>2, <1>3, <2>1
  <1> HIDE DEF n
  <1>5. ASSUME NEW p \in Players
        PROVE  /\ Counts(Snapshot(season[p]), rows, p)
               /\ Ranked(PlayedBy(rows, p))
               /\ \A i \in 1 .. n : Counts(rows[i][p].before, RowsBefore(rows, i), p)
               /\ ~replaying => Tallies(champion[p], rows, p)
    BY DEF CountersHold, Counts, n
  <1>6. ASSUME NEW p \in Players
        PROVE  Counts(Snapshot(season'[p]), rows', p)
    <2>1. CASE row[p].eligible
      <3>1. PICK e : /\ row[p].crAfter = e.cr
                     /\ season'[p] = Moved(season[p], e, IsWin(row[p].place, row[p].teams))
        BY <1>1, <2>1
      <3>2. season[p] \in States
        BY <1>2
      <3>3. Counts(Snapshot(Moved(season[p], e, IsWin(row[p].place, row[p].teams))),
                   Append(rows, row), p)
        BY <1>2, <1>4, <1>5, <2>1, <3>1, <3>2, CountsGrow
      <3>4. QED
        BY <1>1, <3>1, <3>3
    <2>2. CASE ~row[p].eligible
      <3>1. season'[p] = season[p]
        BY <1>1, <2>2
      <3>2. /\ PlayedBy(rows', p) = PlayedBy(rows, p)
            /\ HistoryOf(rows', p) = HistoryOf(rows, p)
        BY <1>1, <1>2, <1>4, <1>5, <2>2, SpareRow
      <3>3. QED
        BY <1>5, <3>1, <3>2 DEF Counts
    <2>3. QED
      BY <2>1, <2>2
  <1>7. ASSUME NEW p \in Players, NEW i \in 1 .. n + 1
        PROVE  Counts(rows'[i][p].before, RowsBefore(rows', i), p)
    <2>1. RowsBefore(rows', i) = RowsBefore(rows, i)
      <3>1. n <= Len(rows) /\ n <= Len(rows')
        BY <1>3 DEF n
      <3>2. QED
        BY <1>2, <1>3, <3>1, PrefixOfMore
    <2>2. CASE i \in 1 .. n
      BY <1>3, <1>5, <2>1, <2>2
    <2>3. CASE i = n + 1
      <3>1. RowsBefore(rows, i) = rows
        BY <1>2, <2>3, PrefixIsAll DEF n
      <3>2. rows'[i][p].before = Snapshot(season[p])
        BY <1>1, <1>3, <2>3
      <3>3. QED
        BY <1>5, <2>1, <3>1, <3>2
    <2>4. QED
      BY <1>3, <2>2, <2>3
  <1>8. ASSUME NEW p \in Players, ~replaying
        PROVE  Tallies(champion'[p], rows', p)
    <2>1. /\ ~row[p].eligible => Tallies(champion[p], Append(rows, row), p)
          /\ row[p].eligible =>
                \A win : Tallies(Tallied(champion[p], row[p].place, win, row[p].delta),
                                 Append(rows, row), p)
      BY <1>2, <1>4, <1>5, <1>8, TalliesGrow
    <2>2. QED
      BY <1>1, <2>1
  <1>9. QED
    BY <1>3, <1>6, <1>7, <1>8

LEMMA RewindCounts ==
    ASSUME TInv, CountersHold, NEW k, Rewind(k) PROVE CountersHold'
  <1>1. /\ k \in 1 .. Len(rows) /\ replaying' = TRUE
        /\ season' = [p \in Players |-> Restored(season[p], rows[k][p].before)]
        /\ rows' = RowsBefore(rows, k)
    BY DEF Rewind, RowsBefore
  <1>2. rows \in Seq(SoundRows) /\ Len(rows) \in Nat /\ season \in [Players -> States]
    BY LenProperties DEF TInv
  <1>3. k \in 1 .. Len(rows) + 1 /\ k - 1 \in Nat /\ k - 1 <= Len(rows)
    BY <1>1, <1>2
  <1>4. /\ rows' \in Seq(SoundRows) /\ Len(rows') = k - 1
        /\ \A j \in 1 .. k - 1 : rows'[j] = rows[j]
    BY <1>1, <1>2, <1>3, PrefixIs
  <1>5. ASSUME NEW p \in Players
        PROVE  Counts(Snapshot(season'[p]), rows', p)
    <2>1. rows[k][p].before \in Snapshots
      <3>1. \A y \in RowSet : y.before \in Snapshots
        BY DEF RowSet
      <3>2. rows[k] \in SoundRows
        BY <1>1, <1>2
      <3>3. QED
        BY <3>1, <3>2, RowsOfPlayers
    <2>2. Snapshot(season'[p]) = rows[k][p].before
      BY <1>1, <1>2, <2>1, SnapshotsRestore
    <2>3. Counts(rows[k][p].before, RowsBefore(rows, k), p)
      BY <1>1 DEF CountersHold
    <2>4. QED
      BY <1>1, <2>2, <2>3
  <1>6. ASSUME NEW p \in Players, NEW i \in 1 .. k - 1
        PROVE  Counts(rows'[i][p].before, RowsBefore(rows', i), p)
    <2>1. i \in 1 .. Len(rows) /\ i \in 1 .. (k - 1) + 1
      BY <1>1, <1>2, <1>3
    <2>2. k - 1 <= Len(rows')
      BY <1>3, <1>4
    <2>3. RowsBefore(rows', i) = RowsBefore(rows, i)
      BY <1>2, <1>3, <1>4, <2>1, <2>2, PrefixOfMore
    <2>4. Counts(rows[i][p].before, RowsBefore(rows, i), p)
      BY <2>1 DEF CountersHold
    <2>5. QED
      BY <1>4, <2>3, <2>4
  <1>7. QED
    BY <1>1, <1>4, <1>5, <1>6 DEF CountersHold

LEMMA FinishCounts ==
    ASSUME CountersHold, Finish PROVE CountersHold'
  <1>1. /\ champion' = [p \in Players |->
                          IF Eligible(p) = {} THEN NoStats ELSE Rebuilt(p)]
        /\ season' = season /\ rows' = rows
    BY DEF Finish
  <1>2. ASSUME NEW p \in Players PROVE Tallies(champion'[p], rows, p)
    BY <1>1, RebuiltTallies
  <1>3. QED
    BY <1>1, <1>2 DEF CountersHold

LEMMA NextCounts ==
    ASSUME TInv, TInv', CountersHold, [Next]_vars PROVE CountersHold'
  <1>1. ASSUME UNCHANGED <<season, rows, champion, replaying>> PROVE CountersHold'
    BY <1>1 DEF CountersHold
  <1>2. ASSUME NEW l, NEW factor, Persist(l, factor), replaying' = replaying
        PROVE  CountersHold'
    BY <1>2, PersistCounts DEF CountersHold
  <1>3. CASE \E x \in Listed : Fetch(x)
    BY <1>1, <1>3 DEF Fetch
  <1>4. CASE Reject
    BY <1>1, <1>4 DEF Reject
  <1>5. CASE Rate
    <2>1. /\ replaying' = replaying
          /\ Persist(LobbyOf(fetched, Players), PartyFactors(LobbyOf(fetched, Players), met'))
      BY <1>5 DEF Rate
    <2>2. QED
      BY <1>2, <2>1
  <1>6. CASE RateFails
    BY <1>1, <1>6 DEF RateFails
  <1>7. CASE Lapse
    BY <1>1, <1>7 DEF Lapse
  <1>8. CASE \E k \in 1 .. MaxMatches : Rewind(k)
    BY <1>8, RewindCounts
  <1>9. CASE Rerate
    <2>1. replaying' = replaying /\ Persist(facts[Len(rows) + 1], FixedFactors)
      BY <1>9 DEF Rerate
    <2>2. QED
      BY <1>2, <2>1
  <1>10. CASE Finish
    BY <1>10, FinishCounts
  <1>11. CASE UNCHANGED vars
    BY <1>1, <1>11 DEF vars
  <1>12. QED
    BY <1>3, <1>4, <1>5, <1>6, <1>7, <1>8, <1>9, <1>10, <1>11 DEF Next

LEMMA CountersTell ==
    ASSUME TInv, CountersHold PROVE CountersAgreeWithRows
  <1>1. rows \in Seq(SoundRows)
    BY DEF TInv
  <1>2. SeasonAgreesWithRows
    BY <1>1, CountsTell DEF SeasonAgreesWithRows, CountersHold
  <1>3. StatsAgreeWithRows
    BY TotalsAreSums DEF StatsAgreeWithRows, CountersHold, Tallies
  <1>4. QED
    BY <1>2, <1>3 DEF CountersAgreeWithRows

\* _persist, apply_state_before, rebuild_champion_stats: matches, placements left,
\* streak and peak of a player, counted by increments and set back by restore points,
\* and the totals of the champion, counted or recomputed, are those of the rows.
THEOREM TheCountersAreTheRows ==
    ASSUME IntegerUpdate PROVE Spec => []CountersAgreeWithRows
  <1>1. Init => CountersHold
    BY InitCounters
  <1>2. IInv /\ IInv' /\ CountersHold /\ [Next]_vars => CountersHold'
    BY NextCounts DEF IInv
  <1>3. IInv /\ CountersHold => CountersAgreeWithRows
    BY CountersTell DEF IInv
  <1>4. QED
    BY <1>1, <1>2, <1>3, RatingsHold, PTL DEF Spec

-----------------------------------------------------------------------------
(* Ledgers: largest remainders *)

\* q and s are the quotient and the rest of x by n.
Splits(x, n, q, s) == q \in Int /\ s \in 0 .. n - 1 /\ x = n * q + s

LEMMA Divided ==
    ASSUME NEW x \in Int, NEW n \in Nat \ {0}
    PROVE  Splits(x, n, x \div n, x % n)
  BY DEF Splits

LEMMA OneQuotient ==
    ASSUME NEW x \in Int, NEW n \in Nat \ {0}, NEW q, NEW s, NEW d, NEW e,
           Splits(x, n, q, s), Splits(x, n, d, e)
    PROVE  q = d /\ s = e
  <1>1. /\ q \in Int /\ d \in Int /\ s \in 0 .. n - 1 /\ e \in 0 .. n - 1
        /\ n * q + s = n * d + e
    BY DEF Splits
  <1>2. \A a, b \in Int : a >= b + 1 => n * a >= n * b + n
    OBVIOUS
  <1>3. ~(q >= d + 1)
    <2>1. ASSUME q >= d + 1 PROVE FALSE
      <3>1. n * q >= n * d + n
        BY <1>1, <1>2, <2>1
      <3>2. QED
        BY <1>1, <3>1
    <2>2. QED
      BY <2>1
  <1>4. ~(d >= q + 1)
    <2>1. ASSUME d >= q + 1 PROVE FALSE
      <3>1. n * d >= n * q + n
        BY <1>1, <1>2, <2>1
      <3>2. QED
        BY <1>1, <3>1
    <2>2. QED
      BY <2>1
  <1>5. q = d
    BY <1>1, <1>3, <1>4
  <1>6. QED
    BY <1>1, <1>5

\* How often the k-th of m nudges, k % n, falls on rank r.
Turn(m, r, n) == IF m > r THEN (m - r - 1) \div n + 1 ELSE 0

LEMMA TurnsStep ==
    ASSUME NEW n \in Nat \ {0}, NEW m \in Nat, NEW r \in 0 .. n - 1
    PROVE  /\ Turn(m, r, n) \in Nat
           /\ Turn(m + 1, r, n) = IF m % n = r THEN Turn(m, r, n) + 1 ELSE Turn(m, r, n)
  <1>1. m \in Int /\ Splits(m, n, m \div n, m % n)
    <2>1. m \in Int
      OBVIOUS
    <2>2. QED
      BY <2>1, Divided
  <1>2. CASE m <= r
    <2>1. Splits(m, n, 0, m)
      BY <1>2 DEF Splits
    <2>2. m % n = m
      BY <1>1, <2>1, OneQuotient
    <2>3. (m + 1 - r - 1) \div n = 0 \/ m < r
      BY <1>2
    <2>4. QED
      BY <1>2, <2>2, <2>3 DEF Turn
  <1>3. CASE m > r
    <2> DEFINE x == m - r - 1
               q == x \div n
               s == x % n
               d == (x + 1) \div n
    <2>1. x \in Nat /\ m = x + r + 1
      BY <1>3
    <2>2. Splits(x, n, q, s) /\ Splits(x + 1, n, d, (x + 1) % n)
      BY <2>1, Divided
    <2>3. q \in Int /\ s \in 0 .. n - 1 /\ x = n * q + s
      BY <2>2 DEF Splits
    <2>4. Turn(m, r, n) = q + 1 /\ Turn(m + 1, r, n) = d + 1
      <3>1. m + 1 - r - 1 = x + 1 /\ m + 1 > r
        BY <1>3
      <3>2. QED
        BY <1>3, <3>1 DEF Turn
    <2>5. q >= 0
      BY <2>1
    <2> HIDE DEF x, q, s, d
    <2>6. CASE s = n - 1
      <3>1. Splits(x + 1, n, q + 1, 0) /\ Splits(m, n, q + 1, r)
        BY <2>1, <2>3, <2>6 DEF Splits
      <3>2. d = q + 1 /\ m % n = r
        BY <1>1, <2>1, <2>2, <3>1, OneQuotient
      <3>3. QED
        BY <2>3, <2>4, <2>5, <3>2
    <2>7. CASE s < n - 1
      <3>1. Splits(x + 1, n, q, s + 1)
        BY <2>1, <2>3, <2>7 DEF Splits
      <3>2. d = q
        BY <2>1, <2>2, <3>1, OneQuotient
      <3>3. m % n # r
        <4>1. ASSUME m % n = r PROVE FALSE
          <5>1. m = n * (m \div n) + r /\ m \div n \in Int
            BY <1>1, <4>1 DEF Splits
          <5>2. 0 \in 0 .. n - 1 /\ x + 1 = n * (m \div n) + 0
            BY <2>1, <5>1
          <5>3. Splits(x + 1, n, m \div n, 0)
            BY <5>1, <5>2 DEF Splits
          <5>4. s + 1 = 0
            BY <2>1, <3>1, <5>3, OneQuotient
          <5>5. QED
            BY <2>3, <5>4
        <4>2. QED
          BY <4>1
      <3>4. QED
        BY <2>3, <2>4, <2>5, <3>2, <3>3
    <2>8. QED
      BY <2>3, <2>6, <2>7
  <1>4. QED
    BY <1>2, <1>3

\* The order in which _apportion nudges puts every entry on a place of its own.
LEMMA NudgesAreRanked ==
    ASSUME NEW I \in SUBSET Int, IsFiniteSet(I), NEW rest, \A i \in I : rest[i] \in Int,
           NEW up \in BOOLEAN, NEW rank,
           rank = [i \in I |-> Cardinality({j \in I : j # i /\ Nudged(rest, up, j, i)})]
    PROVE  rank \in Bijection(I, 0 .. Cardinality(I) - 1)
  <1> DEFINE n == Cardinality(I)
             Ahead(i) == {j \in I : j # i /\ Nudged(rest, up, j, i)}
  <1>1. n \in Nat
    BY FS_CardinalityType
  <1>2. ASSUME NEW i \in I
        PROVE  /\ IsFiniteSet(Ahead(i)) /\ rank[i] = Cardinality(Ahead(i))
               /\ rank[i] \in 0 .. n - 1
    <2>1. IsFiniteSet(I \ {i}) /\ Cardinality(I \ {i}) = n - 1
      BY FS_RemoveElement
    <2>2. Ahead(i) \in SUBSET (I \ {i})
      OBVIOUS
    <2>3. rank[i] = Cardinality(Ahead(i))
      OBVIOUS
    <2> HIDE DEF Ahead
    <2>4. IsFiniteSet(Ahead(i)) /\ Cardinality(Ahead(i)) <= n - 1 /\ Cardinality(Ahead(i)) \in Nat
      BY <2>1, <2>2, FS_Subset, FS_CardinalityType
    <2>5. QED
      BY <1>1, <2>3, <2>4
  <1>3. ASSUME NEW i \in I, NEW j \in I, i # j, Nudged(rest, up, j, i)
        PROVE  rank[i] # rank[j]
    <2>1. j \in Ahead(i) /\ j \notin Ahead(j)
      BY <1>3
    <2>2. Ahead(j) \in SUBSET Ahead(i)
      <3>1. \A k \in I : rest[k] \in Int /\ k \in Int
        OBVIOUS
      <3>2. ASSUME NEW k \in I, k # j, Nudged(rest, up, k, j)
            PROVE  k # i /\ Nudged(rest, up, k, i)
        <4>1. /\ rest[i] \in Int /\ rest[j] \in Int /\ rest[k] \in Int
              /\ i \in Int /\ j \in Int /\ k \in Int
          BY <3>1
        <4>2. CASE up
          BY <1>3, <3>2, <4>1, <4>2 DEF Nudged
        <4>3. CASE ~up
          BY <1>3, <3>2, <4>1, <4>3 DEF Nudged
        <4>4. QED
          BY <4>2, <4>3
      <3>3. QED
        BY <3>2
    <2> HIDE DEF Ahead
    <2>3. Cardinality(Ahead(j)) # Cardinality(Ahead(i))
      BY <1>2, <2>1, <2>2, FS_Subset
    <2>4. QED
      BY <1>2, <2>3
  <1>4. ASSUME NEW i \in I, NEW j \in I, i # j PROVE rank[i] # rank[j]
    <2>1. Nudged(rest, up, i, j) \/ Nudged(rest, up, j, i)
      <3>1. rest[i] \in Int /\ rest[j] \in Int /\ i \in Int /\ j \in Int
        OBVIOUS
      <3> HIDE DEF Ahead
      <3>2. CASE up
        BY <1>4, <3>1, <3>2 DEF Nudged
      <3>3. CASE ~up
        BY <1>4, <3>1, <3>3 DEF Nudged
      <3>4. QED
        BY <3>2, <3>3
    <2>2. QED
      BY <1>3, <1>4, <2>1
  <1> DEFINE N == 0 .. n - 1
  <1>5. rank \in [I -> N]
    BY <1>2
  <1>6. IsFiniteSet(N) /\ Cardinality(N) = n
    <2> HIDE DEF n, Ahead
    <2>1. 0 \in Int /\ n - 1 \in Int /\ (0 > n - 1 <=> n = 0)
      BY <1>1
    <2>2. IsFiniteSet(N) /\ Cardinality(N) = IF 0 > n - 1 THEN 0 ELSE n - 1 - 0 + 1
      BY <2>1, FS_Interval
    <2>3. QED
      BY <1>1, <2>1, <2>2
  <1> HIDE DEF Ahead, N
  <1>7. rank \in Injection(I, N)
    BY <1>4, <1>5 DEF Injection, IsInjective
  <1>8. rank \in Surjection(I, N)
    BY <1>6, <1>7, FS_Injection
  <1>9. QED
    BY <1>7, <1>8 DEF Bijection, N

\* m nudges are m nudges.
LEMMA TurnsAddUp ==
    ASSUME NEW I, IsFiniteSet(I), I # {}, NEW rank \in Bijection(I, 0 .. Cardinality(I) - 1),
           NEW turns, NEW much \in Nat,
           turns = [i \in I |-> Turn(much, rank[i], Cardinality(I))]
    PROVE  SumFunctionOnSet(turns, I) = much
  <1> DEFINE n == Cardinality(I)
             T(m) == [i \in I |-> Turn(m, rank[i], n)]
             Bad == {m \in Nat : SumFunctionOnSet(T(m), I) # m}
  <1>1. n \in Nat \ {0}
    BY FS_CardinalityType, FS_EmptySet
  <1>2. \A i \in I : rank[i] \in 0 .. n - 1
    BY DEF Bijection, Injection
  <1>3. \A m \in Nat : \A i \in I : T(m)[i] \in Nat
    BY <1>1, <1>2, TurnsStep
  <1>4. SumFunctionOnSet(T(0), I) = 0
    <2> DEFINE z == [i \in I |-> 0]
    <2>1. \A i \in I : T(0)[i] = 0
      BY <1>2 DEF Turn
    <2>2. \A i \in I : T(0)[i] \in Int /\ T(0)[i] = 0 * T(0)[i]
      BY <2>1
    <2> DEFINE h == T(0)
    <2>3. \A i \in I : h[i] \in Int /\ h[i] = 0 * h[i]
      BY <2>2
    <2>4. SumFunctionOnSet(h, I) \in Int
      <3> HIDE DEF h
      <3> QED BY <2>3, SumIsInteger
    <2>5. SumFunctionOnSet(h, I) = 0 * SumFunctionOnSet(h, I)
      <3> HIDE DEF h
      <3> QED BY <2>3, SumOfScaled
    <2>6. QED
      BY <2>4, <2>5
  <1>5. ASSUME NEW m \in Nat, SumFunctionOnSet(T(m), I) = m
        PROVE  SumFunctionOnSet(T(m + 1), I) = m + 1
    <2>1. m % n \in 0 .. n - 1
      BY <1>1
    <2>2. PICK a \in I : rank[a] = m % n
      BY <2>1 DEF Bijection, Surjection
    <2>3. \A i \in I \ {a} : rank[i] # m % n
      BY <2>2 DEF Bijection, Injection, IsInjective
    <2> DEFINE f == T(m)
               h == T(m + 1)
    <2>4. ASSUME NEW i \in I
          PROVE  h[i] = IF m % n = rank[i] THEN f[i] + 1 ELSE f[i]
      BY <1>1, <1>2, TurnsStep
    <2>5. \A i \in I : f[i] \in Int
      BY <1>3
    <2> HIDE DEF f, h
    <2>6. h[a] = f[a] + 1 /\ \A i \in I \ {a} : h[i] = f[i]
      BY <2>2, <2>3, <2>4
    <2>7. SumFunctionOnSet(h, I) = SumFunctionOnSet(f, I) + 1
      BY <2>5, <2>6, SumOfOneMore
    <2>8. QED
      BY <1>5, <2>7 DEF f, h
  <1> HIDE DEF T
  <1>6. Bad = {}
    <2> SUFFICES ASSUME Bad # {} PROVE FALSE
      OBVIOUS
    <2>1. PICK m \in Bad : \A k \in Bad : m <= k
      <3> Bad \in SUBSET Nat
        OBVIOUS
      <3> HIDE DEF Bad
      <3> QED BY LeastNatural
    <2>2. m # 0 /\ m \in Nat /\ SumFunctionOnSet(T(m), I) # m
      BY <1>4
    <2>3. m - 1 \in Nat /\ (m - 1) + 1 = m
      BY <2>2
    <2>4. SumFunctionOnSet(T(m - 1), I) # m - 1
      BY <1>5, <2>2, <2>3
    <2>5. m <= m - 1
      BY <2>1, <2>3, <2>4
    <2>6. QED
      BY <2>2, <2>5
  <1>7. SumFunctionOnSet(T(much), I) = much
    BY <1>6
  <1>8. QED
    BY <1>7 DEF T

\* round() is off by half a PDL at most.
LEMMA RoundingIsClose ==
    ASSUME NEW v \in Int
    PROVE  /\ Rounded(v) \in Int
           /\ 2 * (v - Units * Rounded(v)) <= Units
           /\ -Units <= 2 * (v - Units * Rounded(v))
  <1> DEFINE q == v \div Units
             s == v % Units
  <1>1. Units \in Nat \ {0}
    BY ParamsAssumption
  <1>2. Splits(v, Units, q, s)
    BY <1>1, Divided
  <1>3. q \in Int /\ s \in 0 .. Units - 1 /\ v = Units * q + s
    BY <1>2 DEF Splits
  <1>4. \/ Rounded(v) = q /\ 2 * s <= Units
        \/ Rounded(v) = q + 1 /\ 2 * s >= Units
    <2> HIDE DEF q, s
    <2>1. Rounded(v) = IF 2 * s < Units \/ (2 * s = Units /\ q % 2 = 0) THEN q ELSE q + 1
      BY DEF Rounded, q, s
    <2>2. QED
      BY <1>1, <1>3, <2>1
  <1> HIDE DEF q, s
  <1>5. CASE Rounded(v) = q /\ 2 * s <= Units
    <2>1. v - Units * Rounded(v) = s
      BY <1>1, <1>3, <1>5
    <2>2. QED
      BY <1>1, <1>3, <1>5, <2>1
  <1>6. CASE Rounded(v) = q + 1 /\ 2 * s >= Units
    <2>1. Units * (q + 1) = Units * q + Units
      BY <1>1, <1>3
    <2>2. v - Units * Rounded(v) = s - Units
      BY <1>1, <1>3, <1>6, <2>1
    <2>3. QED
      BY <1>1, <1>3, <1>6, <2>2
  <1>7. QED
    BY <1>4, <1>5, <1>6

\* The parts of an apportionment.
BaseOf(values)         == [i \in DOMAIN values |-> Rounded(values[i])]
RestOf(values)         == [i \in DOMAIN values |-> values[i] - Units * BaseOf(values)[i]]
Missing(values, target) == target - SumFunction(BaseOf(values))
Upward(values, target) == Missing(values, target) > 0
MuchOf(values, target) ==
    IF Upward(values, target) THEN Missing(values, target) ELSE -Missing(values, target)
RanksOf(values, target) ==
    [i \in DOMAIN values |->
        Cardinality({j \in DOMAIN values :
            j # i /\ Nudged(RestOf(values), Upward(values, target), j, i)})]
TurnsOf(values, target) ==
    [i \in DOMAIN values |->
        Turn(MuchOf(values, target), RanksOf(values, target)[i], Cardinality(DOMAIN values))]

LEMMA ApportionedIs ==
    ASSUME NEW values \in Seq(Int), values # <<>>, NEW target \in Int
    PROVE  LET I == DOMAIN values
               n == Cardinality(I)
           IN /\ I = 1 .. Len(values) /\ IsFiniteSet(I) /\ I # {} /\ I \in SUBSET Int
              /\ n = Len(values) /\ n \in Nat \ {0}
              /\ \A i \in I : /\ values[i] \in Int /\ BaseOf(values)[i] \in Int
                              /\ RestOf(values)[i] \in Int
                              /\ values[i] = RestOf(values)[i] + Units * BaseOf(values)[i]
                              /\ 2 * RestOf(values)[i] <= Units
                              /\ -Units <= 2 * RestOf(values)[i]
              /\ SumFunction(BaseOf(values)) = SumFunctionOnSet(BaseOf(values), I)
              /\ Missing(values, target) \in Int /\ MuchOf(values, target) \in Nat
              /\ RanksOf(values, target) \in Bijection(I, 0 .. n - 1)
              /\ Apportioned(values, target) =
                   [i \in I |-> IF Upward(values, target)
                                THEN BaseOf(values)[i] + TurnsOf(values, target)[i]
                                ELSE BaseOf(values)[i] - TurnsOf(values, target)[i]]
  <1> DEFINE I == DOMAIN values
             n == Cardinality(I)
  <1>1. Len(values) \in Nat \ {0} /\ I = 1 .. Len(values)
    BY LenProperties, EmptySeq
  <1>2. IsFiniteSet(I) /\ n = Len(values) /\ I # {} /\ I \in SUBSET Int
    <2> DEFINE m == Len(values)
    <2>1. m \in Nat \ {0} /\ 1 \in Int /\ m \in Int /\ I = 1 .. m
      BY <1>1
    <2> HIDE DEF m
    <2>2. IsFiniteSet(1 .. m) /\ Cardinality(1 .. m) = m
      BY <2>1, FS_Interval
    <2>3. 1 \in 1 .. m /\ 1 .. m \in SUBSET Int
      BY <2>1
    <2>4. QED
      BY <2>1, <2>2, <2>3 DEF m
  <1>3. Units \in Nat \ {0}
    BY ParamsAssumption
  <1>4. ASSUME NEW i \in I
        PROVE  /\ values[i] \in Int /\ BaseOf(values)[i] \in Int /\ RestOf(values)[i] \in Int
               /\ values[i] = RestOf(values)[i] + Units * BaseOf(values)[i]
               /\ 2 * RestOf(values)[i] <= Units /\ -Units <= 2 * RestOf(values)[i]
    <2>1. values[i] \in Int
      OBVIOUS
    <2>2. /\ BaseOf(values)[i] = Rounded(values[i])
          /\ RestOf(values)[i] = values[i] - Units * Rounded(values[i])
      BY DEF BaseOf, RestOf
    <2>3. /\ Rounded(values[i]) \in Int
          /\ 2 * (values[i] - Units * Rounded(values[i])) <= Units
          /\ -Units <= 2 * (values[i] - Units * Rounded(values[i]))
      BY <2>1, RoundingIsClose
    <2>4. Units * Rounded(values[i]) \in Int
      BY <1>3, <2>3
    <2>5. QED
      BY <1>3, <2>1, <2>2, <2>3, <2>4
  <1>5. SumFunction(BaseOf(values)) = SumFunctionOnSet(BaseOf(values), I)
    BY DEF SumFunction, BaseOf
  <1>6. SumFunctionOnSet(BaseOf(values), I) \in Int
    <2> HIDE DEF I
    <2> QED BY <1>2, <1>4, SumIsInteger
  <1>7. Missing(values, target) \in Int /\ MuchOf(values, target) \in Nat
    BY <1>5, <1>6 DEF Missing, MuchOf, Upward
  <1>8. RanksOf(values, target) \in Bijection(I, 0 .. n - 1)
    <2>1. Upward(values, target) \in BOOLEAN
      BY DEF Upward
    <2>2. RanksOf(values, target) =
             [i \in I |-> Cardinality({j \in I :
                 j # i /\ Nudged(RestOf(values), Upward(values, target), j, i)})]
      BY DEF RanksOf
    <2> DEFINE rest == RestOf(values)
               up == Upward(values, target)
               rank == RanksOf(values, target)
    <2>3. /\ \A i \in I : rest[i] \in Int
          /\ up \in BOOLEAN
          /\ rank = [i \in I |-> Cardinality({j \in I : j # i /\ Nudged(rest, up, j, i)})]
      BY <1>4, <2>1, <2>2
    <2> HIDE DEF I, rest, up, rank
    <2>4. rank \in Bijection(I, 0 .. Cardinality(I) - 1)
      BY <1>2, <2>3, NudgesAreRanked
    <2>5. QED
      BY <2>4 DEF rank
  <1>9. Apportioned(values, target) =
           [i \in I |-> IF Upward(values, target)
                        THEN BaseOf(values)[i] + TurnsOf(values, target)[i]
                        ELSE BaseOf(values)[i] - TurnsOf(values, target)[i]]
    BY <1>2 DEF Apportioned, BaseOf, RestOf, Missing, Upward, MuchOf, RanksOf, TurnsOf, Turn
  <1>10. QED
    BY <1>1, <1>2, <1>4, <1>5, <1>7, <1>8, <1>9

\* _apportion "guarantees sum(result) == target for any finite, non-empty input,
\* including negatives", whatever the target.
THEOREM ApportionmentIsExact ==
    ASSUME NEW values \in Seq(Int), values # <<>>, NEW target \in Int
    PROVE  SumFunction(Apportioned(values, target)) = target
  <1> DEFINE I == DOMAIN values
             n == Cardinality(I)
             base == BaseOf(values)
             turns == TurnsOf(values, target)
             c == -1
             less == [i \in I |-> c * turns[i]]
             shown == Apportioned(values, target)
             missing == Missing(values, target)
             much == MuchOf(values, target)
             up == Upward(values, target)
  <1>1. /\ IsFiniteSet(I) /\ I # {} /\ n \in Nat \ {0}
        /\ \A i \in I : base[i] \in Int
        /\ SumFunction(base) = SumFunctionOnSet(base, I)
        /\ missing \in Int /\ much \in Nat
        /\ RanksOf(values, target) \in Bijection(I, 0 .. n - 1)
        /\ shown = [i \in I |-> IF up THEN base[i] + turns[i] ELSE base[i] - turns[i]]
    BY ApportionedIs
  <1>2. turns = [i \in I |-> Turn(much, RanksOf(values, target)[i], n)]
    BY DEF TurnsOf
  <1>3. \A i \in I : turns[i] \in Nat
    <2>1. \A i \in I : RanksOf(values, target)[i] \in 0 .. n - 1
      BY <1>1 DEF Bijection, Injection
    <2> HIDE DEF I, n, much
    <2>2. QED
      BY <1>1, <1>2, <2>1, TurnsStep
  <1>4. DOMAIN shown = I /\ SumFunction(shown) = SumFunctionOnSet(shown, I)
    BY <1>1 DEF SumFunction
  <1>5. missing = target - SumFunctionOnSet(base, I) /\ SumFunctionOnSet(base, I) \in Int
    <2>1. missing = target - SumFunction(base)
      BY DEF Missing
    <2> HIDE DEF base, I, missing
    <2>2. QED
      BY <1>1, <2>1, SumIsInteger
  <1>6. /\ up => much = missing
        /\ ~up => much = -missing
    BY DEF MuchOf
  <1>7. \A i \in I : /\ less[i] = c * turns[i] /\ less[i] = -turns[i]
                     /\ less[i] \in Int /\ turns[i] \in Int
    BY <1>3
  <1>8. SumFunctionOnSet(turns, I) = much
    <2> HIDE DEF I, n, much, turns
    <2> QED BY <1>1, <1>2, TurnsAddUp DEF n
  <1>0. c \in Int
    OBVIOUS
  <1> HIDE DEF c, I, n, base, turns, less, shown, missing, much, up
  <1>9. SumFunctionOnSet(less, I) = -much
    <2>1. SumFunctionOnSet(less, I) = c * SumFunctionOnSet(turns, I)
      BY <1>0, <1>1, <1>7, SumOfScaled
    <2>2. QED
      BY <1>1, <1>8, <2>1 DEF c
  <1>10. CASE up
    <2>1. \A i \in I : shown[i] = base[i] + turns[i]
      BY <1>1, <1>10
    <2>2. SumFunctionOnSet(shown, I) = SumFunctionOnSet(base, I) + SumFunctionOnSet(turns, I)
      BY <1>1, <1>7, <2>1, SumOfTwo
    <2>3. QED
      BY <1>1, <1>4, <1>5, <1>6, <1>8, <1>10, <2>2 DEF shown
  <1>11. CASE ~up
    <2>1. \A i \in I : shown[i] = base[i] + less[i]
      BY <1>1, <1>7, <1>11
    <2>2. SumFunctionOnSet(shown, I) = SumFunctionOnSet(base, I) + SumFunctionOnSet(less, I)
      BY <1>1, <1>7, <2>1, SumOfTwo
    <2>3. QED
      BY <1>1, <1>4, <1>5, <1>6, <1>9, <1>11, <2>2 DEF shown
  <1>12. QED
    BY <1>10, <1>11

\* Where at most half a PDL is to be spread beyond the roundings, there are nudges
\* for some of the entries only, and each goes to one that was rounded away from it.
LEMMA NudgesAreShort ==
    ASSUME NEW I, IsFiniteSet(I), I # {}, NEW much \in Nat, NEW g,
           \A i \in I : g[i] \in Int /\ g[i] <= Units,
           Units * (2 * much - 1) <= SumFunctionOnSet(g, I)
    PROVE  /\ much <= Cardinality(I)
           /\ \A i \in I : \A A \in SUBSET I :
                 /\ \A j \in I : g[j] > g[i] => j \in A
                 /\ Cardinality(A) < much
                 => g[i] > 0
  <1> DEFINE n == Cardinality(I)
             u == Units
             sum == SumFunctionOnSet(g, I)
  <1>1. u \in Nat \ {0}
    BY ParamsAssumption
  <1>2. n \in Nat \ {0}
    BY FS_CardinalityType, FS_EmptySet
  <1>3. sum \in Int
    BY SumIsInteger
  <1>4. \A a, b \in Int : a >= b + 1 => u * a >= u * b + u
    BY <1>1
  <1>5. u * (2 * much - 1) <= sum
    OBVIOUS
  <1>6. much <= n
    <2>1. I \in SUBSET I /\ \A i \in I : g[i] <= u
      OBVIOUS
    <2>2. sum <= u * n
      <3>1. \A x \in I : g[x] \in Int
        OBVIOUS
      <3>2. \A x \in I \ I : g[x] <= 0
        OBVIOUS
      <3>3. u \in Int
        BY <1>1
      <3> HIDE DEF u
      <3>4. QED
        BY <2>1, <3>1, <3>2, <3>3, SumAtMost
    <2> HIDE DEF n, u, sum
    <2>3. ASSUME 2 * much - 1 >= n + 1 PROVE FALSE
      <3>1. u * (2 * much - 1) >= u * n + u
        BY <1>2, <1>4, <2>3
      <3>2. u * (2 * much - 1) \in Int /\ u * n \in Int
        BY <1>1, <1>2
      <3>3. QED
        BY <1>1, <1>3, <1>5, <2>2, <3>1, <3>2
    <2>4. QED
      BY <1>2, <2>3
  <1>7. ASSUME NEW i \in I, NEW A \in SUBSET I, \A j \in I : g[j] > g[i] => j \in A,
               Cardinality(A) < much, ~(g[i] > 0)
        PROVE  FALSE
    <2>1. IsFiniteSet(A) /\ Cardinality(A) \in Nat
      BY FS_Subset, FS_CardinalityType
    <2>2. \A j \in I \ A : g[j] <= 0
      <3>1. ASSUME NEW j \in I \ A PROVE g[j] <= 0
        <4>1. g[j] \in Int /\ g[i] \in Int /\ ~(g[j] > g[i])
          BY <1>7
        <4>2. QED
          BY <1>7, <4>1
      <3>2. QED
        BY <3>1
    <2>3. \A j \in A : g[j] <= u
      OBVIOUS
    <2> DEFINE k == Cardinality(A)
    <2>4. sum <= u * k
      <3>1. u \in Int /\ \A x \in I : g[x] \in Int
        BY <1>1
      <3> HIDE DEF u
      <3>2. QED
        BY <2>2, <2>3, <3>1, SumAtMost
    <2>5. k \in Nat /\ k < much
      BY <1>7, <2>1
    <2> HIDE DEF n, u, sum, k
    <2>6. 2 * much - 1 >= k + 1
      BY <2>5
    <2>7. u * (2 * much - 1) >= u * k + u
      BY <1>4, <2>5, <2>6
    <2>8. u * (2 * much - 1) \in Int /\ u * k \in Int
      BY <1>1, <2>5
    <2>9. QED
      BY <1>1, <1>3, <1>5, <2>4, <2>7, <2>8
  <1>8. QED
    BY <1>6, <1>7

\* _apportion of values that are half a PDL at most from the target, as those of
\* _to_dto are: an entry that is shown is less than a PDL from the exact one.
THEOREM NoEntryIsAPdlAway ==
    ASSUME NEW values \in Seq(Int), values # <<>>, NEW target \in Int,
           -Units <= 2 * (SumFunction(values) - Units * target),
           2 * (SumFunction(values) - Units * target) <= Units
    PROVE  \A i \in DOMAIN values :
              LET off == values[i] - Units * Apportioned(values, target)[i] IN
              -Units < off /\ off < Units
  <1> DEFINE I == DOMAIN values
             n == Cardinality(I)
             u == Units
             base == BaseOf(values)
             rest == RestOf(values)
             turns == TurnsOf(values, target)
             rank == RanksOf(values, target)
             shown == Apportioned(values, target)
             missing == Missing(values, target)
             much == MuchOf(values, target)
             up == Upward(values, target)
             sum == SumFunctionOnSet(values, I)
             Ahead(i) == {j \in I : j # i /\ Nudged(rest, up, j, i)}
  <1>1. u \in Nat \ {0}
    BY ParamsAssumption
  <1>2. /\ IsFiniteSet(I) /\ I # {} /\ n \in Nat \ {0}
        /\ \A i \in I : /\ values[i] \in Int /\ base[i] \in Int /\ rest[i] \in Int
                        /\ values[i] = rest[i] + u * base[i]
                        /\ 2 * rest[i] <= u /\ -u <= 2 * rest[i]
        /\ SumFunction(base) = SumFunctionOnSet(base, I)
        /\ missing \in Int /\ much \in Nat
        /\ rank \in Bijection(I, 0 .. n - 1)
        /\ shown = [i \in I |-> IF up THEN base[i] + turns[i] ELSE base[i] - turns[i]]
    BY ApportionedIs
  <1>3. missing = target - SumFunctionOnSet(base, I) /\ SumFunctionOnSet(base, I) \in Int
    <2>1. missing = target - SumFunction(base)
      BY DEF Missing
    <2> HIDE DEF base, I, missing
    <2>2. QED
      BY <1>2, <2>1, SumIsInteger
  <1>4. /\ up => much = missing
        /\ ~up => much = -missing
    BY DEF MuchOf
  <1>5. \A i \in I : rank[i] = Cardinality(Ahead(i)) /\ rank[i] \in 0 .. n - 1
    <2>1. \A i \in I : rank[i] = Cardinality(Ahead(i))
      BY DEF RanksOf
    <2>2. \A i \in I : rank[i] \in 0 .. n - 1
      BY <1>2 DEF Bijection, Injection
    <2>3. QED
      BY <2>1, <2>2
  <1>6. \A i \in I : turns[i] = Turn(much, rank[i], n)
    BY DEF TurnsOf
  <1>7. -u <= 2 * (sum - u * target) /\ 2 * (sum - u * target) <= u
    BY DEF SumFunction
  <1>8. sum \in Int /\ sum = SumFunctionOnSet(rest, I) + u * SumFunctionOnSet(base, I)
        /\ SumFunctionOnSet(rest, I) \in Int
    <2> DEFINE scaled == [i \in I |-> u * base[i]]
    <2>1. \A i \in I : /\ scaled[i] = u * base[i] /\ scaled[i] \in Int
                       /\ values[i] = rest[i] + scaled[i]
      <3> SUFFICES ASSUME NEW i \in I
                   PROVE  /\ scaled[i] = u * base[i] /\ scaled[i] \in Int
                          /\ values[i] = rest[i] + scaled[i]
        OBVIOUS
      <3> DEFINE b == base[i]
                 ub == u * b
      <3>1. u \in Int /\ b \in Int /\ values[i] \in Int /\ scaled[i] = ub
        BY <1>1, <1>2
      <3>2. rest[i] = values[i] - ub
        BY DEF RestOf
      <3> HIDE DEF b, u, rest, scaled
      <3>3. ub \in Int
        BY <3>1
      <3> HIDE DEF ub
      <3>4. values[i] = rest[i] + ub
        BY <3>1, <3>2, <3>3
      <3>5. QED
        BY <3>1, <3>3, <3>4 DEF ub, b
    <2> HIDE DEF scaled, I, base, rest, u
    <2>2. u \in Int
      BY <1>1
    <2>3. SumFunctionOnSet(scaled, I) = u * SumFunctionOnSet(base, I)
      BY <1>2, <2>1, <2>2, SumOfScaled
    <2>4. SumFunctionOnSet(values, I)
            = SumFunctionOnSet(rest, I) + SumFunctionOnSet(scaled, I)
      BY <1>2, <2>1, SumOfTwo
    <2>5. SumFunctionOnSet(values, I) \in Int /\ SumFunctionOnSet(rest, I) \in Int
      BY <1>2, SumIsInteger
    <2>6. QED
      BY <2>3, <2>4, <2>5
  <1>9. \A i \in I : Ahead(i) \in SUBSET I
    OBVIOUS
  \* Whichever way the nudges go, they go to entries that were rounded the other way.
  <1>10. /\ much <= n
         /\ \A i \in I : rank[i] < much => IF up THEN rest[i] > 0 ELSE rest[i] < 0
    <2> DEFINE g == [i \in I |-> IF up THEN 2 * rest[i] ELSE -2 * rest[i]]
    <2>1. \A i \in I : g[i] \in Int /\ g[i] <= u
      <3>1. ASSUME NEW i \in I PROVE g[i] \in Int /\ g[i] <= u
        <4> DEFINE r == rest[i]
        <4>1. r \in Int /\ 2 * r <= u /\ -u <= 2 * r /\ u \in Int
          BY <1>1, <1>2
        <4>2. g[i] = IF up THEN 2 * r ELSE -2 * r
          OBVIOUS
        <4> HIDE DEF r, u, g
        <4>3. QED
          BY <4>1, <4>2
      <3>2. QED
        BY <3>1
    <2>2. \A i \in I : \A j \in I : g[j] > g[i] => j \in Ahead(i)
      <3>1. ASSUME NEW i \in I, NEW j \in I, g[j] > g[i] PROVE j \in Ahead(i)
        <4>1. rest[i] \in Int /\ rest[j] \in Int
          BY <1>2
        <4>2. CASE up
          <5>1. g[i] = 2 * rest[i] /\ g[j] = 2 * rest[j]
            BY <4>2
          <5>2. rest[j] > rest[i] /\ rest[j] # rest[i]
            <6> HIDE DEF rest, up, g, I
            <6> QED BY <3>1, <4>1, <5>1
          <5>3. i # j
            BY <5>2
          <5>4. Nudged(rest, up, j, i)
            <6> HIDE DEF rest, up, g, I
            <6> QED BY <4>2, <4>1, <5>2 DEF Nudged
          <5>5. QED
            BY <5>3, <5>4
        <4>3. CASE ~up
          <5>1. g[i] = -2 * rest[i] /\ g[j] = -2 * rest[j]
            BY <4>3
          <5>2. ~(rest[j] > rest[i]) /\ rest[j] # rest[i]
            <6> HIDE DEF rest, up, g, I
            <6> QED BY <3>1, <4>1, <5>1
          <5>3. i # j
            BY <5>2
          <5>4. Nudged(rest, up, j, i)
            <6> HIDE DEF rest, up, g, I
            <6> QED BY <4>3, <4>1, <5>2 DEF Nudged
          <5>5. QED
            BY <5>3, <5>4
        <4>4. QED
          BY <4>2, <4>3
      <3>2. QED
        BY <3>1
    <2>3. \A i \in I : g[i] > 0 => IF up THEN rest[i] > 0 ELSE rest[i] < 0
      BY <1>2
    <2>4. u * (2 * much - 1) <= SumFunctionOnSet(g, I)
      <3> DEFINE b == SumFunctionOnSet(base, I)
                 r == SumFunctionOnSet(rest, I)
      <3>1. /\ b \in Int /\ r \in Int /\ missing = target - b /\ sum = r + u * b
            /\ sum \in Int /\ missing \in Int /\ much \in Nat
        BY <1>2, <1>3, <1>8
      <3>2. u * missing = u * target - u * b /\ u * target \in Int /\ u * b \in Int
        BY <1>1, <3>1
      <3>3. CASE up
        <4>1. \A i \in I : rest[i] \in Int /\ g[i] = 2 * rest[i]
          BY <1>2, <3>3
        <4>2. SumFunctionOnSet(g, I) = 2 * r
          <5> HIDE DEF g, I, rest
          <5> QED BY <1>2, <4>1, SumOfScaled
        <4>3. u * (2 * much - 1) = 2 * (u * missing) - u
          <5>1. much = missing /\ missing \in Int /\ u \in Int
            BY <1>1, <1>4, <3>1, <3>3
          <5> HIDE DEF u, much, missing
          <5>2. QED
            BY <5>1
        <4> HIDE DEF b, r, u, much, missing, sum, g, I
        <4> DEFINE um == u * missing
                   ut == u * target
                   ub == u * b
                   left == u * (2 * much - 1)
                   right == SumFunctionOnSet(g, I)
        <4>4. /\ um = ut - ub /\ ut \in Int /\ ub \in Int /\ left = 2 * um - u
              /\ right = 2 * r /\ sum = r + ub /\ -u <= 2 * (sum - ut)
              /\ u \in Int /\ r \in Int
          BY <1>1, <1>7, <3>1, <3>2, <4>2, <4>3
        <4> HIDE DEF um, ut, ub, left, right
        <4>5. left <= right
          BY <4>4
        <4>6. QED
          BY <4>5 DEF left, right
      <3>4. CASE ~up
        <4> DEFINE c == -2
        <4>1. c \in Int /\ \A i \in I : rest[i] \in Int /\ g[i] = c * rest[i]
          BY <1>2, <3>4
        <4>2. SumFunctionOnSet(g, I) = c * r
          <5> HIDE DEF g, I, rest, c
          <5> QED BY <1>2, <4>1, SumOfScaled
        <4>3. u * (2 * much - 1) = -2 * (u * missing) - u
          <5>1. much = -missing /\ missing \in Int /\ u \in Int
            BY <1>1, <1>4, <3>1, <3>4
          <5> HIDE DEF u, much, missing
          <5>2. QED
            BY <5>1
        <4> HIDE DEF b, r, u, much, missing, sum, g, I
        <4>4. QED
          BY <1>1, <1>7, <3>1, <3>2, <4>2, <4>3
      <3>5. QED
        BY <3>3, <3>4
    <2> HIDE DEF g, I, n, u, much, rest, rank, Ahead, up
    <2>5. Units * (2 * much - 1) <= SumFunctionOnSet(g, I) /\ \A i \in I : g[i] \in Int /\ g[i] <= Units
      BY <2>1, <2>4 DEF u
    <2>6. /\ much <= Cardinality(I)
          /\ \A i \in I : \A A \in SUBSET I :
                 /\ \A j \in I : g[j] > g[i] => j \in A
                 /\ Cardinality(A) < much
                 => g[i] > 0
      BY <1>2, <2>5, NudgesAreShort
    <2>7. \A i \in I : rank[i] < much => g[i] > 0
      BY <1>5, <1>9, <2>2, <2>6
    <2>8. QED
      BY <2>3, <2>6, <2>7 DEF n
  <1>11. \A i \in I : turns[i] = IF rank[i] < much THEN 1 ELSE 0
    <2>1. ASSUME NEW i \in I PROVE turns[i] = IF rank[i] < much THEN 1 ELSE 0
      <3> DEFINE k == rank[i]
      <3>1. k \in 0 .. n - 1 /\ n \in Nat \ {0} /\ much \in Nat /\ much <= n
        BY <1>2, <1>5, <1>10
      <3>2. turns[i] = IF much > k THEN (much - k - 1) \div n + 1 ELSE 0
        BY <1>6 DEF Turn
      <3> HIDE DEF k, n, much, turns
      <3>3. CASE much > k
        <4> DEFINE x == much - k - 1
        <4>1. Splits(x, n, 0, x) /\ x \in Int
          BY <3>1, <3>3 DEF Splits
        <4> HIDE DEF x
        <4>2. x \div n = 0
          BY <3>1, <4>1, Divided, OneQuotient
        <4>3. QED
          BY <3>1, <3>2, <3>3, <4>2 DEF k, x
      <3>4. CASE ~(much > k)
        BY <3>1, <3>2, <3>4 DEF k
      <3>5. QED
        BY <3>3, <3>4
    <2>2. QED
      BY <2>1
  <1>12. ASSUME NEW i \in I
         PROVE  LET off == values[i] - u * shown[i] IN -u < off /\ off < u
    <2> DEFINE b == base[i]
               r == rest[i]
    <2>1. /\ values[i] = r + u * b /\ 2 * r <= u /\ -u <= 2 * r
          /\ r \in Int /\ b \in Int /\ u \in Nat \ {0}
      BY <1>1, <1>2
    <2>2. u * (b + 1) = u * b + u /\ u * (b - 1) = u * b - u /\ u * b \in Int
      <3> HIDE DEF b, r, u
      <3>1. u \in Int /\ b \in Int
        BY <2>1
      <3>2. QED
        BY <3>1
    <2>3. CASE rank[i] < much /\ up
      <3>1. shown[i] = b + 1 /\ r > 0
        BY <1>2, <1>10, <1>11, <2>3
      <3> HIDE DEF b, r, u, shown
      <3>2. values[i] - u * shown[i] = r - u
        BY <2>1, <2>2, <3>1
      <3>3. QED
        BY <2>1, <3>1, <3>2
    <2>4. CASE rank[i] < much /\ ~up
      <3>1. shown[i] = b - 1 /\ r < 0
        BY <1>2, <1>10, <1>11, <2>4
      <3> HIDE DEF b, r, u, shown
      <3>2. values[i] - u * shown[i] = r + u
        BY <2>1, <2>2, <3>1
      <3>3. QED
        BY <2>1, <3>1, <3>2
    <2>5. CASE ~(rank[i] < much)
      <3>1. turns[i] = 0
        BY <1>11, <2>5
      <3>2. shown[i] = IF up THEN b + 0 ELSE b - 0
        BY <1>2, <3>1
      <3> HIDE DEF b, r, u, shown
      <3>3. shown[i] = b
        BY <2>1, <3>2
      <3>4. values[i] - u * shown[i] = r
        BY <2>1, <2>2, <3>3
      <3>5. QED
        BY <2>1, <3>4
    <2>6. QED
      BY <2>3, <2>4, <2>5
  <1>13. QED
    BY <1>12

-----------------------------------------------------------------------------
(* Ledgers: the Raio-X of a row *)

\* The ten entries of a ledger, and what they add up to.
LEMMA LedgerIsItsResult ==
    ASSUME NEW r \in RowSet, r.eligible, Replayable(r)
    PROVE  /\ TierA(r).entries \in Seq(Int) /\ TierA(r).entries # <<>>
           /\ SumFunction(TierA(r).entries) = r.delta
  <1> DEFINE d == Through(r.mods, r.crBefore)
             v == Decide(r.raw, r.place, r.teams, r.composite).value
             cap == v - r.raw
             gap == r.delta - (r.final + r.confidence + cap)
             e == TierA(r).entries
             s == Steps(r)
  <1>1. /\ r.mods \in Mods /\ r.crBefore \in Int /\ r.delta \in Int
        /\ r.final \in Int /\ r.confidence \in Int /\ r.raw \in Int
    BY DEF RowSet
  <1>2. d[1] \in Int /\ d[2] \in Int /\ d[3] \in Int /\ d[4] \in Int /\ d[5] \in Int /\ d[6] \in Int
    BY <1>1, ChainIsInteger DEF Mods
  <1>3. v \in Int
    BY DEF Replayable
  <1> DEFINE t == <<r.confidence, cap, gap>>
  <1>4. e = s \o t
    BY DEF TierA
  <1>5. s = <<d[1], d[2] - d[1], d[3] - d[2], d[4] - d[3], d[5] - d[4], d[6] - d[5],
              r.final - d[6]>>
    BY DEF Steps
  <1> HIDE DEF d, v, e, s
  <1>6. cap \in Int /\ gap \in Int
    BY <1>1, <1>3
  <1> HIDE DEF cap, gap
  <1>7. s \in Seq(Int) /\ Len(s) = 7
    BY <1>1, <1>2, <1>5
  <1>8. /\ t \in Seq(Int) /\ Len(t) = 3
        /\ t[1] = r.confidence /\ t[2] = cap /\ t[3] = gap
    BY <1>1, <1>6
  <1> HIDE DEF t
  <1>9. /\ e \in Seq(Int) /\ Len(e) = 7 + 3
        /\ \A i \in 1 .. 7 + 3 : e[i] = IF i <= 7 THEN s[i] ELSE t[i - 7]
    <2>0. s \in Seq(Int) /\ t \in Seq(Int)
      BY <1>7, <1>8
    <2> HIDE DEF gap
    <2>1. s \o t \in Seq(Int) /\ Len(s \o t) = Len(s) + Len(t)
      BY <2>0, ConcatProperties
    <2>2. \A i \in 1 .. Len(s) + Len(t) :
                (s \o t)[i] = IF i <= Len(s) THEN s[i] ELSE t[i - Len(s)]
      BY <2>0, ConcatProperties
    <2>3. QED
      BY <1>4, <1>7, <1>8, <2>1, <2>2
  <1>10. /\ \A i \in 1 .. 7 : e[i] = s[i]
         /\ e[8] = r.confidence /\ e[9] = cap /\ e[10] = gap
    BY <1>8, <1>9
  <1>11. DOMAIN e = 1 .. 10 /\ e \in [1 .. 10 -> Int] /\ e # <<>>
    <2>1. Len(e) = 10
      BY <1>9
    <2>2. DOMAIN e = 1 .. 10 /\ e \in [1 .. 10 -> Int]
      BY <1>9, <2>1, LenProperties
    <2>3. e # <<>>
      BY <2>1, EmptySeq
    <2>4. QED
      BY <2>2, <2>3
  <1>12. SumFunction(e) = SumFunctionOnSet(e, 1 .. 10)
    BY <1>11 DEF SumFunction
  <1>13. SumFunctionOnSet(e, 1 .. 10)
           = e[1] + e[2] + e[3] + e[4] + e[5] + e[6] + e[7] + e[8] + e[9] + e[10]
    BY <1>11, SumOfTen
  <1>14. /\ e[1] = d[1] /\ e[2] = d[2] - d[1] /\ e[3] = d[3] - d[2] /\ e[4] = d[4] - d[3]
         /\ e[5] = d[5] - d[4] /\ e[6] = d[6] - d[5] /\ e[7] = r.final - d[6]
    BY <1>5, <1>10
  <1>15. SumFunctionOnSet(e, 1 .. 10) = r.delta
    <2>1. gap = r.delta - (r.final + r.confidence + cap)
      BY DEF gap
    <2>2. QED
      BY <1>1, <1>2, <1>6, <1>10, <1>13, <1>14, <2>1
  <1>16. QED
    BY <1>9, <1>11, <1>12, <1>15 DEF e

\* _apportion over the Raio-X of the row written last: the whole PDL that are shown add
\* up to the change that is shown, and none is a PDL away from what it rounds.
THEOREM TheShownLedgerAddsUp ==
    ASSUME IntegerUpdate PROVE Spec => []ShownLedgerAddsUp
  <1>1. IInv => ShownLedgerAddsUp
    <2> SUFFICES ASSUME IInv, NEW i \in NewRow, NEW p \in Players, rows[i][p].eligible
                 PROVE  LET r == rows[i][p]
                            entries == TierA(r).entries
                            total == Rounded(r.delta)
                            shown == Apportioned(entries, total)
                        IN /\ SumFunction(shown) = total
                           /\ \A k \in DOMAIN entries :
                                 LET off == entries[k] - Units * shown[k]
                                 IN -Units < off /\ off < Units
      BY DEF ShownLedgerAddsUp
    <2>1. rows \in Seq(SoundRows)
      BY DEF IInv, TInv
    <2>2. i \in 1 .. Len(rows)
      BY <2>1, EmptySeq, LenProperties DEF NewRow
    <2>3. rows[i] \in SoundRows
      BY <2>1, <2>2
    <2> DEFINE r == rows[i][p]
               entries == TierA(r).entries
               total == Rounded(r.delta)
    <2>4. r \in RowSet /\ Replayable(r) /\ r.eligible
      BY <2>3 DEF SoundRows
    <2>5. r.delta \in Int
      BY <2>4 DEF RowSet
    <2> HIDE DEF r
    <2>6. /\ entries \in Seq(Int) /\ entries # <<>>
          /\ SumFunction(entries) = r.delta
      BY <2>4, LedgerIsItsResult
    <2>7. /\ total \in Int
          /\ 2 * (r.delta - Units * total) <= Units
          /\ -Units <= 2 * (r.delta - Units * total)
      BY <2>5, RoundingIsClose
    <2> HIDE DEF entries, total
    <2>8. SumFunction(Apportioned(entries, total)) = total
      BY <2>6, <2>7, ApportionmentIsExact
    <2>9. \A k \in DOMAIN entries :
             LET off == entries[k] - Units * Apportioned(entries, total)[k]
             IN -Units < off /\ off < Units
      BY <2>6, <2>7, NoEntryIsAPdlAway
    <2>10. QED
      BY <2>8, <2>9 DEF r, entries, total
  <1>2. QED
    BY <1>1, RatingsHold, PTL

-----------------------------------------------------------------------------
(* Pages: the k-th of a finite set, from below and from above *)

\* The same counted from the top, as a page counts.
FromTop(E, i) == Cardinality({j \in E : j > i})
TopOf(E, k)   == CHOOSE i \in E : FromTop(E, i) = k - 1

LEMMA EveryPlaceIsTaken ==
    ASSUME NEW E \in SUBSET Int, IsFiniteSet(E), NEW k \in 1 .. Cardinality(E)
    PROVE  /\ \E i \in E : RankIn(E, i) = k - 1
           /\ \E i \in E : FromTop(E, i) = k - 1
  <1> DEFINE n == Cardinality(E)
             flat == [i \in E |-> 0]
             same == [i \in E |-> i]
             low == [i \in E |-> Cardinality({j \in E : j # i /\ Nudged(flat, TRUE, j, i)})]
             high == [i \in E |-> Cardinality({j \in E : j # i /\ Nudged(same, TRUE, j, i)})]
             N == 0 .. n - 1
  <1>1. n \in Nat
    BY FS_CardinalityType
  <1>2. k - 1 \in N
    BY <1>1
  <1>3. low \in Bijection(E, N) /\ high \in Bijection(E, N)
    <2>1. (\A i \in E : flat[i] \in Int) /\ (\A i \in E : same[i] \in Int) /\ TRUE \in BOOLEAN
      OBVIOUS
    <2> HIDE DEF flat, same
    <2>2. low \in Bijection(E, 0 .. Cardinality(E) - 1)
      BY <2>1, NudgesAreRanked
    <2>3. high \in Bijection(E, 0 .. Cardinality(E) - 1)
      BY <2>1, NudgesAreRanked
    <2>4. QED
      BY <2>2, <2>3
  <1>4. ASSUME NEW i \in E PROVE low[i] = RankIn(E, i) /\ high[i] = FromTop(E, i)
    <2>1. ASSUME NEW j \in E
          PROVE  /\ j # i /\ Nudged(flat, TRUE, j, i) <=> j < i
                 /\ j # i /\ Nudged(same, TRUE, j, i) <=> j > i
      <3>1. i \in Int /\ j \in Int /\ flat[i] = 0 /\ flat[j] = 0 /\ same[i] = i /\ same[j] = j
        OBVIOUS
      <3> HIDE DEF flat, same
      <3>2. QED
        BY <3>1 DEF Nudged
    <2>2. {j \in E : j # i /\ Nudged(flat, TRUE, j, i)} = {j \in E : j < i}
      BY <2>1
    <2>3. {j \in E : j # i /\ Nudged(same, TRUE, j, i)} = {j \in E : j > i}
      BY <2>1
    <2>4. QED
      BY <2>2, <2>3 DEF RankIn, FromTop
  <1> HIDE DEF low, high, N
  <1>5. \A f \in Bijection(E, N) : \E i \in E : f[i] = k - 1
    BY <1>2 DEF Bijection, Surjection
  <1>6. QED
    BY <1>3, <1>4, <1>5

\* The k-th of a finite set from below and from above: in order, every one once.
LEMMA LowestComeFirst ==
    ASSUME NEW E \in SUBSET Int, IsFiniteSet(E), NEW k \in 1 .. Cardinality(E)
    PROVE  /\ NthOf(E, k) \in E /\ RankIn(E, NthOf(E, k)) = k - 1
           /\ \A m \in 1 .. Cardinality(E) : k < m => NthOf(E, k) < NthOf(E, m)
  <1> DEFINE n == Cardinality(E)
             a == NthOf(E, k)
  <1>1. \A x \in 1 .. n : NthOf(E, x) \in E /\ RankIn(E, NthOf(E, x)) = x - 1
    BY EveryPlaceIsTaken DEF NthOf
  <1>2. a \in E /\ RankIn(E, a) = k - 1
    BY <1>1
  <1> HIDE DEF a
  <1>3. ASSUME NEW m \in 1 .. n, k < m PROVE a < NthOf(E, m)
    <2> DEFINE b == NthOf(E, m)
               A == {x \in E : x < a}
               B == {x \in E : x < b}
    <2>1. b \in E /\ RankIn(E, b) = m - 1
      BY <1>1
    <2> HIDE DEF b
    <2>2. ASSUME b <= a PROVE FALSE
      <3>1. a \in Int /\ b \in Int /\ \A x \in E : x \in Int
        BY <1>2, <2>1
      <3>0. \A x \in Int : x < b => x < a
        BY <2>2, <3>1
      <3>2. B \in SUBSET A
        BY <3>0, <3>1
      <3>3. IsFiniteSet(A)
        BY FS_Subset
      <3> HIDE DEF A, B
      <3>4. Cardinality(B) <= Cardinality(A)
        BY <3>2, <3>3, FS_Subset
      <3>5. Cardinality(A) = k - 1 /\ Cardinality(B) = m - 1
        BY <1>2, <2>1 DEF RankIn, A, B
      <3>6. k \in Int /\ m \in Int
        BY <1>3
      <3>7. QED
        BY <1>3, <3>4, <3>5, <3>6
    <2>3. a \in Int /\ b \in Int
      BY <1>2, <2>1
    <2>4. QED
      BY <2>2, <2>3 DEF b
  <1>4. QED
    BY <1>2, <1>3 DEF a

LEMMA NewestComeFirst ==
    ASSUME NEW E \in SUBSET Int, IsFiniteSet(E), NEW k \in 1 .. Cardinality(E)
    PROVE  /\ TopOf(E, k) \in E /\ FromTop(E, TopOf(E, k)) = k - 1
           /\ \A m \in 1 .. Cardinality(E) : k < m => TopOf(E, m) < TopOf(E, k)
  <1> DEFINE n == Cardinality(E)
             a == TopOf(E, k)
  <1>1. \A x \in 1 .. n : TopOf(E, x) \in E /\ FromTop(E, TopOf(E, x)) = x - 1
    BY EveryPlaceIsTaken DEF TopOf
  <1>2. a \in E /\ FromTop(E, a) = k - 1
    BY <1>1
  <1> HIDE DEF a
  <1>3. ASSUME NEW m \in 1 .. n, k < m PROVE TopOf(E, m) < a
    <2> DEFINE b == TopOf(E, m)
               A == {x \in E : x > a}
               B == {x \in E : x > b}
    <2>1. b \in E /\ FromTop(E, b) = m - 1
      BY <1>1
    <2> HIDE DEF b
    <2>2. ASSUME b >= a PROVE FALSE
      <3>1. a \in Int /\ b \in Int /\ \A x \in E : x \in Int
        BY <1>2, <2>1
      <3>0. \A x \in Int : x > b => x > a
        BY <2>2, <3>1
      <3>2. B \in SUBSET A
        BY <3>0, <3>1
      <3>3. IsFiniteSet(A)
        BY FS_Subset
      <3> HIDE DEF A, B
      <3>4. Cardinality(B) <= Cardinality(A)
        BY <3>2, <3>3, FS_Subset
      <3>5. Cardinality(A) = k - 1 /\ Cardinality(B) = m - 1
        BY <1>2, <2>1 DEF FromTop, A, B
      <3>6. k \in Int /\ m \in Int
        BY <1>3
      <3>7. QED
        BY <1>3, <3>4, <3>5, <3>6
    <2>3. a \in Int /\ b \in Int
      BY <1>2, <2>1
    <2>4. QED
      BY <2>2, <2>3 DEF b
  <1>4. QED
    BY <1>2, <1>3 DEF a

LEMMA FirstFromTop ==
    ASSUME NEW E \in SUBSET Int, IsFiniteSet(E), NEW m \in E, \A i \in E : i <= m
    PROVE  TopOf(E, 1) = m
  <1>1. Cardinality(E) \in Nat /\ Cardinality(E) # 0
    BY FS_CardinalityType, FS_EmptySet
  <1>2. 1 \in 1 .. Cardinality(E)
    BY <1>1
  <1> DEFINE a == TopOf(E, 1)
             A == {x \in E : x > a}
  <1>3. a \in E /\ FromTop(E, a) = 1 - 1
    BY <1>2, NewestComeFirst
  <1> HIDE DEF a
  <1>4. IsFiniteSet(A) /\ Cardinality(A) = 0
    BY <1>3, FS_Subset DEF FromTop
  <1>5. A = {}
    BY <1>4, FS_EmptySet
  <1>6. a <= m /\ ~(m > a)
    BY <1>3, <1>5
  <1>7. a \in Int /\ m \in Int
    BY <1>3
  <1>8. a = m
    BY <1>6, <1>7
  <1>9. QED
    BY <1>8 DEF a

\* The rank of the greatest.
LEMMA LastIsGreatest ==
    ASSUME NEW E \in SUBSET Int, IsFiniteSet(E), E # {}
    PROVE  NthOf(E, Cardinality(E)) = MaxOf(E)
  <1> DEFINE n == Cardinality(E)
             a == NthOf(E, n)
             m == MaxOf(E)
             A == {x \in E : x < a}
             M == {x \in E : x < m}
  <1>1. n \in Nat /\ n # 0
    BY FS_CardinalityType, FS_EmptySet
  <1>2. n \in 1 .. n
    BY <1>1
  <1>3. a \in E /\ RankIn(E, a) = n - 1
    BY <1>2, LowestComeFirst
  <1>4. m \in E /\ \A x \in E : m >= x
    BY FiniteHasGreatest
  <1> HIDE DEF a, m
  <1>5. ASSUME a < m PROVE FALSE
    <2>1. a \in Int /\ m \in Int /\ \A x \in E : x \in Int
      BY <1>3, <1>4
    <2>0. (\A x \in Int : x < a => x < m) /\ ~(a < a) /\ ~(m < m)
      BY <1>5, <2>1
    <2>2. A \in SUBSET M /\ a \in M /\ a \notin A
      BY <1>3, <1>5, <2>0, <2>1
    <2>3. M \in SUBSET (E \ {m})
      BY <2>0
    <2>4. IsFiniteSet(E \ {m}) /\ Cardinality(E \ {m}) = n - 1
      BY <1>4, FS_RemoveElement
    <2> HIDE DEF A, M
    <2> DEFINE R == E \ {m}
    <2> HIDE DEF R, n
    <2>5. IsFiniteSet(M) /\ Cardinality(M) <= n - 1
      <3>1. M \in SUBSET R /\ IsFiniteSet(R) /\ Cardinality(R) = n - 1
        BY <2>3, <2>4 DEF R
      <3>2. QED
        BY <3>1, FS_Subset
    <2>6. Cardinality(A) < Cardinality(M)
      BY <2>2, <2>5, FS_Subset, FS_CardinalityType
    <2>7. Cardinality(A) = n - 1
      BY <1>3 DEF RankIn, A
    <2>8. Cardinality(M) \in Nat
      BY <2>5, FS_CardinalityType
    <2>9. QED
      BY <1>1, <2>5, <2>6, <2>7, <2>8
  <1>6. a \in Int /\ m \in Int /\ m >= a
    BY <1>3, <1>4
  <1>7. a = m
    BY <1>5, <1>6
  <1>8. QED
    BY <1>7 DEF a, m

\* What a function over 1 .. m is as a sequence.
LEMMA CountedIsSeq ==
    ASSUME NEW m \in Nat, NEW f, NEW S, f \in [1 .. m -> S]
    PROVE  f \in Seq(S) /\ Len(f) = m /\ DOMAIN f = 1 .. m
  <1>1. f \in Seq(S) /\ DOMAIN f = 1 .. m
    OBVIOUS
  <1>2. Len(f) \in Nat /\ DOMAIN f = 1 .. Len(f)
    BY <1>1, LenProperties
  <1>3. Len(f) = m
    BY <1>1, <1>2
  <1>4. QED
    BY <1>1, <1>3

-----------------------------------------------------------------------------
(* Pages: the filters *)

\* A sum over two sets without a common element.
LEMMA SumOfParts ==
    ASSUME NEW A, IsFiniteSet(A), NEW B, IsFiniteSet(B), A \cap B = {},
           NEW f, \A x \in A \cup B : f[x] \in Int
    PROVE  SumFunctionOnSet(f, A \cup B) = SumFunctionOnSet(f, A) + SumFunctionOnSet(f, B)
  <1> DEFINE Adds(s) ==
                 SumFunctionOnSet(f, A \cup s) = SumFunctionOnSet(f, A) + SumFunctionOnSet(f, s)
             P == {s \in SUBSET B : Adds(s)}
  <1>1. SumFunctionOnSet(f, A) \in Int
    BY SumIsInteger
  <1>2. {} \in P
    <2>1. SumFunctionOnSet(f, {}) = 0 /\ A \cup {} = A
      BY SumOfNothing
    <2>2. QED
      BY <1>1, <2>1
  <1>3. ASSUME NEW s \in SUBSET B, NEW x \in B \ s, s \in P PROVE s \cup {x} \in P
    <2> DEFINE t == s \cup {x}
               u == A \cup s
    <2>1. IsFiniteSet(s) /\ IsFiniteSet(u)
      BY FS_Subset, FS_Union
    <2>2. x \notin s /\ x \notin u /\ A \cup t = u \cup {x}
      BY <1>3
    <2>3. /\ \A y \in s \cup {x} : f[y] \in Int
          /\ \A y \in u \cup {x} : f[y] \in Int
          /\ f[x] \in Int
      BY <1>3
    <2> HIDE DEF u
    <2>4. SumFunctionOnSet(f, s \cup {x}) = f[x] + SumFunctionOnSet(f, s)
      BY <2>1, <2>2, <2>3, SumOfMore
    <2>5. SumFunctionOnSet(f, u \cup {x}) = f[x] + SumFunctionOnSet(f, u)
      BY <2>1, <2>2, <2>3, SumOfMore
    <2>6. SumFunctionOnSet(f, u) = SumFunctionOnSet(f, A) + SumFunctionOnSet(f, s)
      BY <1>3 DEF u
    <2>7. SumFunctionOnSet(f, s) \in Int
      BY <2>1, <2>3, SumIsInteger
    <2>11. SumFunctionOnSet(f, A \cup t) = SumFunctionOnSet(f, u \cup {x})
      BY <2>2
    <2> DEFINE a == SumFunctionOnSet(f, A)
               b == SumFunctionOnSet(f, s)
               c == f[x]
    <2>12. /\ a \in Int /\ b \in Int /\ c \in Int
           /\ SumFunctionOnSet(f, t) = c + b /\ SumFunctionOnSet(f, A \cup t) = c + (a + b)
      BY <1>1, <2>3, <2>4, <2>5, <2>6, <2>7, <2>11
    <2> HIDE DEF a, b, c, t
    <2>8. SumFunctionOnSet(f, A \cup t) = SumFunctionOnSet(f, A) + SumFunctionOnSet(f, t)
      BY <2>12 DEF a
    <2>9. t \in SUBSET B
      BY <1>3 DEF t
    <2>10. QED
      BY <2>8, <2>9 DEF t
  <1> HIDE DEF P
  <1>4. B \in P
    BY <1>2, <1>3, SetInduction
  <1>5. QED
    BY <1>4 DEF P

LEMMA CountOfParts ==
    ASSUME NEW T, IsFiniteSet(T), NEW A, NEW B, A \cup B = T, A \cap B = {}
    PROVE  /\ Cardinality(T) = Cardinality(A) + Cardinality(B)
           /\ Cardinality(T) \in Nat /\ Cardinality(A) \in Nat /\ Cardinality(B) \in Nat
           /\ IsFiniteSet(A) /\ IsFiniteSet(B)
  <1>1. A \in SUBSET T /\ B \in SUBSET T
    OBVIOUS
  <1>2. IsFiniteSet(A) /\ IsFiniteSet(B)
    BY <1>1, FS_Subset
  <1>3. /\ Cardinality(T) \in Nat /\ Cardinality(A) \in Nat /\ Cardinality(B) \in Nat
        /\ Cardinality({}) = 0
    BY <1>2, FS_CardinalityType, FS_EmptySet
  <1>4. Cardinality(A \cup B) = Cardinality(A) + Cardinality(B) - Cardinality(A \cap B)
    BY <1>2, FS_Union
  <1>5. Cardinality(T) = Cardinality(A) + Cardinality(B) - 0
    BY <1>3, <1>4, Zenon
  <1>6. QED
    BY <1>2, <1>3, <1>5

-----------------------------------------------------------------------------
(* A history in two halves *)

LEMMA FiltersAre ==
    ASSUME rows \in Seq(SoundRows), NEW p \in Players
    PROVE  LET all == 1 .. Len(rows)
               top == {i \in all : rows[i][p].place <= Params.half}
               bottom == {i \in all : rows[i][p].place > Params.half}
           IN /\ IsFiniteSet(all) /\ Cardinality(all) = Len(rows) /\ Len(rows) \in Nat
              /\ Filtered(p, "all") = all /\ Filtered(p, "top") = top
              /\ Filtered(p, "bottom") = bottom
              /\ all = top \cup bottom /\ top \cap bottom = {}
              /\ \A i \in all : rows[i][p] \in RowSet
  <1> DEFINE all == 1 .. Len(rows)
  <1>1. Len(rows) \in Nat
    BY LenProperties
  <1>2. IsFiniteSet(all) /\ Cardinality(all) = Len(rows)
    BY <1>1, FS_Interval
  <1>3. \A i \in all : rows[i][p] \in RowSet
    BY RowsOfPlayers
  <1>4. \A r \in RowSet : r.place \in Int
    BY DEF RowSet
  <1>5. \A i \in all : rows[i][p].place \in Int
    BY <1>3, <1>4
  <1>6. Params.half \in Int
    BY ParamsAssumption
  <1>7. \A r : /\ Fits(r, "all") <=> TRUE
               /\ Fits(r, "top") <=> r.place <= Params.half
               /\ Fits(r, "bottom") <=> r.place > Params.half
    BY DEF Fits
  <1>8. /\ Filtered(p, "all") = all
        /\ Filtered(p, "top") = {i \in all : rows[i][p].place <= Params.half}
        /\ Filtered(p, "bottom") = {i \in all : rows[i][p].place > Params.half}
    BY <1>7 DEF Filtered
  <1>9. \A i \in all : /\ rows[i][p].place <= Params.half \/ rows[i][p].place > Params.half
                       /\ ~(rows[i][p].place <= Params.half /\ rows[i][p].place > Params.half)
    BY <1>5, <1>6
  <1> HIDE DEF all
  <1>10. QED
    BY <1>1, <1>2, <1>3, <1>8, <1>9 DEF all

LEMMA FiltersSplit ==
    ASSUME TInv, ~replaying, CountersAgreeWithRows, NEW p \in Players
    PROVE  FiltersPartition(p)
  <1> DEFINE all == 1 .. Len(rows)
             top == {i \in all : rows[i][p].place <= Params.half}
             bottom == {i \in all : rows[i][p].place > Params.half}
             out == {i \in all : ~rows[i][p].eligible}
             d == [i \in all |-> rows[i][p].delta]
  <1>1. /\ IsFiniteSet(all) /\ Cardinality(all) = Len(rows) /\ Len(rows) \in Nat
        /\ Filtered(p, "all") = all /\ Filtered(p, "top") = top
        /\ Filtered(p, "bottom") = bottom
        /\ all = top \cup bottom /\ top \cap bottom = {}
        /\ \A i \in all : rows[i][p] \in RowSet
    BY FiltersAre DEF TInv
  <1>2. \A i \in all : d[i] \in Int
    <2>1. \A r \in RowSet : r.delta \in Int
      BY DEF RowSet
    <2>2. QED
      BY <1>1, <2>1
  <1>3. champion[p].games = Cardinality(Eligible(p))
    BY DEF CountersAgreeWithRows, StatsAgreeWithRows
  <1>4. Eligible(p) \cup out = all /\ Eligible(p) \cap out = {}
    BY DEF Eligible
  <1>5. /\ Summary(p, "all").games = Cardinality(all)
        /\ Summary(p, "top").games = Cardinality(top)
        /\ Summary(p, "bottom").games = Cardinality(bottom)
        /\ Summary(p, "all").cr = SumFunctionOnSet(d, all)
        /\ Summary(p, "top").cr = SumFunctionOnSet(d, top)
        /\ Summary(p, "bottom").cr = SumFunctionOnSet(d, bottom)
    BY <1>1 DEF Summary, SumOf
  <1>6. Wins(p) = Cardinality(top) /\ Losses(p) = Len(rows) - Cardinality(top)
    BY DEF Wins, Losses
  <1> HIDE DEF all, top, bottom, out, d
  <1>7. /\ Cardinality(all) = Cardinality(top) + Cardinality(bottom)
        /\ Cardinality(top) \in Nat /\ Cardinality(bottom) \in Nat
        /\ IsFiniteSet(top) /\ IsFiniteSet(bottom)
    BY <1>1, CountOfParts
  <1>8. Cardinality(all) = Cardinality(Eligible(p)) + Cardinality(out)
    BY <1>1, <1>4, CountOfParts
  <1>9. SumFunctionOnSet(d, all) = SumFunctionOnSet(d, top) + SumFunctionOnSet(d, bottom)
    BY <1>1, <1>2, <1>7, SumOfParts
  <1>10. QED
    BY <1>1, <1>3, <1>5, <1>6, <1>7, <1>8, <1>9 DEF FiltersPartition, out, all

-----------------------------------------------------------------------------
(* Pages: the CRs of a player, from row to row *)

\* A result starts where the one before it ended, or from what the floor hid of it.
Continues(after, cr) == cr = after \/ (after <= 0 /\ cr < 0)

\* A row starts from the CR of its restore point, and the CR moves by its delta.
Starts(r) ==
    /\ Kept(r.crBefore, r.before)
    /\ r.delta = r.crAfter - r.crBefore
    /\ ~r.eligible => r.crAfter = r.crBefore

\* The CR a player goes on from after match i.
CrNext(i, p) == IF i < Len(rows) THEN rows[i + 1][p].crBefore ELSE season[p].cr

CrsHold ==
    \A p \in Players :
        /\ Kept(season[p].cr, season[p])
        /\ \A i \in 1 .. Len(rows) :
              /\ Starts(rows[i][p]) /\ Continues(rows[i][p].crAfter, CrNext(i, p))
              /\ i = Len(facts) => season[p].cr = rows[i][p].crAfter

LEMMA PersistStarts ==
    ASSUME IntegerUpdate, season \in [Players -> States], NEW l, Playable(l),
           NEW factor \in [Players -> Int], Persist(l, factor)
    PROVE  \E row :
             /\ rows' = Append(rows, row)
             /\ \A p \in Players :
                   /\ row[p].before = Snapshot(season[p]) /\ row[p].crBefore = season[p].cr
                   /\ row[p].crAfter = season'[p].cr
                   /\ row[p].delta = season'[p].cr - season[p].cr
                   /\ ~row[p].eligible => season'[p] = season[p]
                   /\ row[p].eligible => Kept(season'[p].cr, season'[p])
  <1> DEFINE e == [p \in Players |->
                    IF p \in l.out THEN Frozen(season[p])
                    ELSE Earned(season[p], l.place[p], l.teams, LobbyMean(p), factor[p])]
             row == [p \in Players |-> Row(p, l, e[p])]
             win == [p \in Players |-> IsWin(l.place[p], l.teams)]
  <1>1. /\ season' = [p \in Players |->
             IF p \in l.out THEN season[p] ELSE Moved(season[p], e[p], win[p])]
        /\ rows' = Append(rows, row)
    BY DEF Persist
  <1>2. ASSUME NEW p \in Players, p \in l.out PROVE e[p].cr = season[p].cr
    <2>1. e[p] = Frozen(season[p])
      BY <1>2
    <2>2. QED
      BY <2>1 DEF Frozen
  <1>3. ASSUME NEW p \in Players, p \notin l.out PROVE Kept(e[p].cr, e[p])
    <2>1. /\ l.place[p] \in 1 .. 8 /\ l.teams \in Nat
          /\ Canonical(l.teams) => l.place[p] \in 1 .. l.teams
      BY <1>3 DEF Playable
    <2>2. e[p] = Earned(season[p], l.place[p], l.teams, LobbyMean(p), factor[p])
      BY <1>3
    <2>3. season[p] \in States /\ LobbyMean(p) \in Int
      BY MeanIsAnInteger
    <2> HIDE DEF e
    <2>4. Consistent(season[p], l.place[p], l.teams, LobbyMean(p), e[p])
      BY <2>1, <2>2, <2>3, EarnedIsConsistent
    <2>5. QED
      BY <2>4 DEF Consistent
  <1> HIDE DEF e
  <1>4. ASSUME NEW p \in Players
        PROVE  /\ row[p].before = Snapshot(season[p]) /\ row[p].crBefore = season[p].cr
               /\ row[p].crAfter = e[p].cr /\ row[p].delta = e[p].cr - season[p].cr
               /\ row[p].eligible <=> p \notin l.out
    <2>1. row[p] = Row(p, l, e[p])
      OBVIOUS
    <2> HIDE DEF row
    <2>2. /\ row[p].before = Snapshot(season[p]) /\ row[p].crBefore = season[p].cr
          /\ row[p].crAfter = e[p].cr /\ row[p].delta = e[p].cr - season[p].cr
      BY <2>1 DEF Row
    <2>3. row[p].eligible <=> p \notin l.out
      <3>1. Row(p, l, e[p]).eligible <=> p \notin l.out
        BY DEF Row
      <3>2. QED
        BY <2>1, <3>1
    <2>4. QED
      BY <2>2, <2>3
  <1> HIDE DEF row
  <1>5. ASSUME NEW p \in Players, p \in l.out
        PROVE  season'[p] = season[p] /\ e[p].cr = season'[p].cr /\ ~row[p].eligible
    <2>1. season'[p] = season[p]
      BY <1>1, <1>5
    <2>2. QED
      BY <1>2, <1>4, <1>5, <2>1
  <1>6. ASSUME NEW p \in Players, p \notin l.out
        PROVE  /\ e[p].cr = season'[p].cr /\ row[p].eligible
               /\ Kept(season'[p].cr, season'[p])
    <2>1. season'[p] = Moved(season[p], e[p], win[p])
      BY <1>1, <1>6
    <2>2. /\ season'[p].cr = e[p].cr /\ season'[p].mu = e[p].mu
          /\ season'[p].sigma = e[p].sigma
      BY <2>1 DEF Moved
    <2>3. Kept(season'[p].cr, season'[p])
      BY <1>3, <1>6, <2>2 DEF Kept
    <2>4. QED
      BY <1>4, <1>6, <2>2, <2>3
  <1>7. ASSUME NEW p \in Players
        PROVE  /\ row[p].before = Snapshot(season[p]) /\ row[p].crBefore = season[p].cr
               /\ row[p].crAfter = season'[p].cr
               /\ row[p].delta = season'[p].cr - season[p].cr
               /\ ~row[p].eligible => season'[p] = season[p]
               /\ row[p].eligible => Kept(season'[p].cr, season'[p])
    BY <1>4, <1>5, <1>6
  <1>8. QED
    BY <1>1, <1>7

\* What is rated live and in a replay can be rated.
LEMMA WhatIsPersisted ==
    ASSUME IInv
    PROVE  /\ Rate => LET l == LobbyOf(fetched, Players) IN
                        /\ Playable(l) /\ PartyFactors(l, met') \in [Players -> Int]
                        /\ Persist(l, PartyFactors(l, met'))
           /\ Rerate => LET l == facts[Len(rows) + 1] IN
                          /\ Playable(l) /\ FixedFactors \in [Players -> Int]
                          /\ Persist(l, FixedFactors)
  <1>1. ASSUME Rate
        PROVE  LET l == LobbyOf(fetched, Players) IN
                 /\ Playable(l) /\ PartyFactors(l, met') \in [Players -> Int]
                 /\ Persist(l, PartyFactors(l, met'))
    <2> DEFINE l == LobbyOf(fetched, Players)
               n == Len(facts) + 1
    <2>1. /\ fetched # None /\ ~Rejected(fetched) /\ met' = Observed(l, n)
          /\ Persist(l, PartyFactors(l, met'))
      BY <1>1 DEF Rate
    <2>2. fetched \in Rateable
      BY <2>1 DEF IInv, TInv, Rateable
    <2>3. \A p \in Players : met'[p] \in SUBSET (Players \X (1 .. n))
      BY <2>1, ObservedHolds DEF IInv
    <2>4. n \in Nat /\ season \in [Players -> States]
      BY LenProperties DEF IInv, TInv
    <2>5. Playable(l)
      BY <2>2, RateableIsPlayable
    <2> HIDE DEF l, n
    <2>6. PartyFactors(l, met') \in [Players -> Int]
      BY <2>3, <2>4, FactorsAreIntegers
    <2>7. QED
      BY <2>1, <2>5, <2>6 DEF l
  <1>2. ASSUME Rerate
        PROVE  LET l == facts[Len(rows) + 1] IN
                 /\ Playable(l) /\ FixedFactors \in [Players -> Int]
                 /\ Persist(l, FixedFactors)
    <2> DEFINE n == Len(rows) + 1
    <2>1. Len(rows) < Len(facts) /\ Persist(facts[n], FixedFactors)
      BY <1>2 DEF Rerate
    <2>2. n \in 1 .. Len(facts) /\ n \in 1 .. Len(came) /\ came \in Seq(Rateable)
      BY <2>1, LenProperties DEF IInv, TInv
    <2>3. came[n] \in Rateable /\ facts[n] = LobbyOf(came[n], Players)
      BY <2>2 DEF IInv, TInv
    <2>4. Playable(facts[n])
      BY <2>3, RateableIsPlayable
    <2>5. FixedFactors \in [Players -> Int]
      BY DEF FixedFactors
    <2>6. QED
      BY <2>1, <2>4, <2>5
  <1>3. QED
    BY <1>1, <1>2

\* The CR of a state that is restored is what its restore point says.
LEMMA RestoredCr ==
    ASSUME NEW s, NEW b PROVE Kept(Restored(s, b).cr, Restored(s, b))
  BY DEF Restored, Kept

LEMMA InitCrs == Init => CrsHold
  <1> SUFFICES ASSUME Init PROVE CrsHold
    OBVIOUS
  <1>1. season = [p \in Players |-> Fresh] /\ rows = <<>>
    BY DEF Init
  <1>2. Kept(Fresh.cr, Fresh)
    BY DEF Fresh, Kept
  <1>3. Len(rows) = 0 /\ \A i \in 1 .. 0 : FALSE
    BY <1>1, EmptySeq
  <1>4. QED
    BY <1>1, <1>2, <1>3 DEF CrsHold

LEMMA PersistCrs ==
    ASSUME IntegerUpdate, TInv, TInv', CrsHold, NEW l, Playable(l),
           NEW factor \in [Players -> Int], Persist(l, factor)
    PROVE  CrsHold'
  <1>1. season \in [Players -> States] /\ season' \in [Players -> States]
        /\ rows \in Seq(SoundRows) /\ rows' \in Seq(SoundRows)
        /\ Len(rows') <= Len(facts') /\ Len(facts') \in Nat
    BY LenProperties DEF TInv
  <1>2. PICK row :
          /\ rows' = Append(rows, row)
          /\ \A p \in Players :
                /\ row[p].before = Snapshot(season[p]) /\ row[p].crBefore = season[p].cr
                /\ row[p].crAfter = season'[p].cr
                /\ row[p].delta = season'[p].cr - season[p].cr
                /\ ~row[p].eligible => season'[p] = season[p]
                /\ row[p].eligible => Kept(season'[p].cr, season'[p])
    BY <1>1, PersistStarts
  <1> DEFINE n == Len(rows)
  <1>3. /\ n \in Nat /\ Len(rows') = n + 1 /\ rows'[n + 1] = row
        /\ \A i \in 1 .. n : rows'[i] = rows[i]
    BY <1>1, <1>2, LenProperties
  <1>4. ASSUME NEW p \in Players
        PROVE  /\ Kept(season[p].cr, season[p])
               /\ \A i \in 1 .. n : /\ Starts(rows[i][p])
                                    /\ Continues(rows[i][p].crAfter, CrNext(i, p))
    BY DEF CrsHold
  <1>5. ASSUME NEW p \in Players, NEW i \in 1 .. n
        PROVE  CrNext(i, p) = rows'[i + 1][p].crBefore
    <2>1. CASE i < n
      <3>1. i + 1 \in 1 .. n
        BY <1>3, <2>1
      <3>2. QED
        BY <1>3, <2>1, <3>1 DEF CrNext
    <2>2. CASE i = n
      <3>1. CrNext(i, p) = season[p].cr
        BY <1>3, <2>2 DEF CrNext
      <3>2. QED
        BY <1>2, <1>3, <2>2, <3>1
    <2>3. QED
      BY <1>3, <2>1, <2>2
  <1> HIDE DEF n
  <1>6. ASSUME NEW p \in Players PROVE Kept(season'[p].cr, season'[p])
    <2>1. CASE row[p].eligible
      BY <1>2, <2>1
    <2>2. CASE ~row[p].eligible
      <3>1. season'[p] = season[p]
        BY <1>2, <2>2
      <3>2. QED
        BY <1>4, <3>1
    <2>3. QED
      BY <2>1, <2>2
  <1>7. ASSUME NEW p \in Players PROVE Starts(row[p])
    <2>1. /\ row[p].before = Snapshot(season[p]) /\ row[p].crBefore = season[p].cr
          /\ row[p].crAfter = season'[p].cr
          /\ row[p].delta = season'[p].cr - season[p].cr
          /\ ~row[p].eligible => season'[p] = season[p]
      BY <1>2
    <2>2. Kept(season[p].cr, Snapshot(season[p]))
      <3>1. Snapshot(season[p]).mu = season[p].mu /\ Snapshot(season[p]).sigma = season[p].sigma
        BY DEF Snapshot
      <3>2. Kept(season[p].cr, season[p])
        BY <1>4
      <3>3. QED
        BY <3>1, <3>2 DEF Kept
    <2>3. QED
      BY <2>1, <2>2 DEF Starts
  <1>8. ASSUME NEW p \in Players, NEW i \in 1 .. n + 1
        PROVE  /\ Starts(rows'[i][p])
               /\ Continues(rows'[i][p].crAfter, CrNext(i, p)')
               /\ i = Len(facts') => season'[p].cr = rows'[i][p].crAfter
    <2>1. CrNext(i, p)' = IF i < n + 1 THEN rows'[i + 1][p].crBefore ELSE season'[p].cr
      BY <1>3 DEF CrNext
    <2>2. CASE i \in 1 .. n
      <3>1. i < n + 1 /\ i # Len(facts') /\ rows'[i] = rows[i]
        BY <1>1, <1>3, <2>2
      <3>2. CrNext(i, p)' = CrNext(i, p)
        BY <1>5, <2>1, <2>2, <3>1
      <3>3. QED
        BY <1>4, <2>2, <3>1, <3>2
    <2>3. CASE i = n + 1
      <3>1. ~(i < n + 1) /\ rows'[i][p] = row[p]
        BY <1>3, <2>3
      <3>2. CrNext(i, p)' = season'[p].cr /\ row[p].crAfter = season'[p].cr
        BY <1>2, <2>1, <3>1
      <3>3. QED
        BY <1>7, <3>1, <3>2 DEF Continues
    <2>4. QED
      BY <1>3, <2>2, <2>3
  <1>9. QED
    BY <1>3, <1>6, <1>8 DEF CrsHold

LEMMA RewindCrs ==
    ASSUME TInv, CrsHold, NEW k, Rewind(k) PROVE CrsHold'
  <1>1. /\ k \in 1 .. Len(rows) /\ ~replaying /\ facts' = facts
        /\ season' = [p \in Players |-> Restored(season[p], rows[k][p].before)]
        /\ rows' = RowsBefore(rows, k)
    BY DEF Rewind, RowsBefore
  <1>2. rows \in Seq(SoundRows) /\ Len(rows) \in Nat /\ Len(rows) = Len(facts)
    BY <1>1, LenProperties DEF TInv
  <1>3. k \in 1 .. Len(rows) + 1 /\ k - 1 \in Nat /\ k - 1 < Len(rows)
    BY <1>1, <1>2
  <1>4. Len(rows') = k - 1 /\ \A j \in 1 .. k - 1 : rows'[j] = rows[j]
    BY <1>1, <1>2, <1>3, PrefixIs
  <1>5. ASSUME NEW p \in Players PROVE Kept(season'[p].cr, season'[p])
    <2>1. season'[p] = Restored(season[p], rows[k][p].before)
      BY <1>1
    <2>2. QED
      BY <2>1, RestoredCr
  <1>6. ASSUME NEW p \in Players, NEW i \in 1 .. k - 1
        PROVE  /\ Starts(rows'[i][p])
               /\ Continues(rows'[i][p].crAfter, CrNext(i, p)')
               /\ i # Len(facts')
    <2>1. /\ i \in 1 .. Len(rows) /\ i < Len(rows) /\ i # Len(facts')
          /\ rows'[i] = rows[i]
      BY <1>1, <1>2, <1>3, <1>4
    <2>2. Starts(rows[i][p]) /\ Continues(rows[i][p].crAfter, CrNext(i, p))
      BY <2>1 DEF CrsHold
    <2>3. CrNext(i, p) = rows[i + 1][p].crBefore
      BY <2>1 DEF CrNext
    <2>4. CrNext(i, p)' = IF i < k - 1 THEN rows'[i + 1][p].crBefore ELSE season'[p].cr
      BY <1>4 DEF CrNext
    <2>5. CASE i < k - 1
      <3>1. i + 1 \in 1 .. k - 1
        BY <1>3, <2>5
      <3>2. QED
        BY <1>4, <2>1, <2>2, <2>3, <2>4, <2>5, <3>1
    <2>6. CASE ~(i < k - 1)
      <3> DEFINE b == rows[k][p].before
                 after == rows[i][p].crAfter
                 cr == rows[k][p].crBefore
                 hidden == Identity(b.mu, b.sigma)
      <3>1. i + 1 = k
        BY <1>3, <2>6
      <3>2. CrNext(i, p)' = hidden
        <4>1. season'[p] = Restored(season[p], b)
          BY <1>1
        <4>2. QED
          BY <2>4, <2>6, <4>1 DEF Restored
      <3>3. Kept(cr, b)
        BY <1>1 DEF CrsHold, Starts
      <3>4. cr = hidden \/ (cr = 0 /\ hidden < 0)
        BY <3>3 DEF Kept
      <3>5. Continues(after, cr)
        BY <2>2, <2>3, <3>1
      <3> HIDE DEF hidden, cr, after, b
      <3>6. Continues(after, hidden)
        BY <3>4, <3>5 DEF Continues
      <3>7. QED
        BY <2>1, <2>2, <3>2, <3>6 DEF after
    <2>7. QED
      BY <2>5, <2>6
  <1>7. QED
    BY <1>4, <1>5, <1>6 DEF CrsHold

LEMMA NextCrs ==
    ASSUME IntegerUpdate, IInv, IInv', CrsHold, [Next]_vars PROVE CrsHold'
  <1>1. TInv /\ TInv'
    BY DEF IInv
  <1>2. ASSUME UNCHANGED <<season, rows, facts>> PROVE CrsHold'
    BY <1>2 DEF CrsHold, CrNext
  <1>3. ASSUME NEW l, Playable(l), NEW factor \in [Players -> Int], Persist(l, factor)
        PROVE  CrsHold'
    BY <1>1, <1>3, PersistCrs
  <1>4. CASE \E x \in Listed : Fetch(x)
    BY <1>2, <1>4 DEF Fetch
  <1>5. CASE Reject
    BY <1>2, <1>5 DEF Reject
  <1>6. CASE Rate
    BY <1>3, <1>6, WhatIsPersisted
  <1>7. CASE RateFails
    BY <1>2, <1>7 DEF RateFails
  <1>8. CASE Lapse
    BY <1>2, <1>8 DEF Lapse
  <1>9. CASE \E k \in 1 .. MaxMatches : Rewind(k)
    BY <1>1, <1>9, RewindCrs
  <1>10. CASE Rerate
    BY <1>3, <1>10, WhatIsPersisted
  <1>11. CASE Finish
    BY <1>2, <1>11 DEF Finish
  <1>12. CASE UNCHANGED vars
    BY <1>2, <1>12 DEF vars
  <1>13. QED
    BY <1>4, <1>5, <1>6, <1>7, <1>8, <1>9, <1>10, <1>11, <1>12 DEF Next

-----------------------------------------------------------------------------
(* Pages: the CR of the chart and of the board *)

\* What cr_of derives from mu and sigma is the CR that is kept, if there is one.
LEMMA KeptIsShown ==
    ASSUME NEW s \in States, Kept(s.cr, s), s.cr >= 0
    PROVE  CrOf(s.mu, s.sigma) = Rounded(s.cr)
  <1>1. Params.base_offset \in Int
    BY ParamsAssumption
  <1> DEFINE cr == s.cr
             said == Identity(s.mu, s.sigma)
  <1>2. cr \in Int /\ said \in Int
    BY <1>1 DEF States, Identity
  <1>3. cr = said \/ (cr = 0 /\ said < 0)
    BY DEF Kept
  <1>4. CrOf(s.mu, s.sigma) = Rounded(Larger(0, said))
    BY DEF CrOf, ToCr
  <1>5. cr >= 0
    OBVIOUS
  <1> HIDE DEF cr, said
  <1>6. Larger(0, said) = cr
    BY <1>2, <1>3, <1>5 DEF Larger
  <1>7. QED
    BY <1>4, <1>6 DEF cr

\* The results a profile is drawn from end with the last.
LEMMA ShownEnds ==
    ASSUME rows \in Seq(SoundRows), Len(rows) # 0, NEW p \in Players
    PROVE  \E m \in Nat \ {0} : /\ DOMAIN Shown(p) = 1 .. m
                                /\ Shown(p)[m] = rows[Len(rows)][p]
  <1> DEFINE n == Len(rows)
             seq == [i \in 1 .. n |-> rows[i][p]]
             a == Larger(1, n - PageSize + 1)
  <1>1. n \in Nat \ {0} /\ PageSize \in Nat \ {0}
    BY LenProperties, ProfilesAssumption
  <1>2. \A i \in 1 .. n : seq[i] \in RowSet
    BY RowsOfPlayers
  <1>3. seq \in [1 .. n -> RowSet]
    BY <1>2
  <1>4. seq[n] = rows[n][p]
    BY <1>1
  <1>5. Len(seq) = n
    <2> HIDE DEF seq, n
    <2> QED BY <1>1, <1>3, CountedIsSeq
  <1>6. Shown(p) = SubSeq(seq, Larger(1, Len(seq) - PageSize + 1), Len(seq))
    BY DEF Shown, Latest
  <1>7. Shown(p) = SubSeq(seq, a, n)
    BY <1>5, <1>6
  <1>8. a \in 1 .. n
    <2> HIDE DEF n
    <2> QED BY <1>1 DEF Larger
  <1> HIDE DEF a, seq, n
  <1>9. \A i \in a .. n : seq[i] \in RowSet
    BY <1>1, <1>3, <1>8
  <1> DEFINE m == n - a + 1
             s == SubSeq(seq, a, n)
  <1>10. s \in Seq(RowSet) /\ Len(s) = m /\ \A i \in 1 .. m : s[i] = seq[a + i - 1]
    BY <1>1, <1>8, <1>9, SubSeqProperties
  <1>11. m \in Nat \ {0} /\ m \in 1 .. m /\ a + m - 1 = n
    BY <1>1, <1>8
  <1> HIDE DEF s, m
  <1>12. DOMAIN s = 1 .. m /\ s[m] = seq[n]
    BY <1>10, <1>11, LenProperties
  <1>13. QED
    BY <1>4, <1>7, <1>11, <1>12 DEF n, s

LEMMA CrsAgreeHere ==
    ASSUME TInv, ~replaying, CrsHold, NEW p \in Players
    PROVE  CrsAgree(p)
  <1> DEFINE me == Profile(p, 0)
             cr == season[p].cr
             n == Len(rows)
  <1>1. rows \in Seq(SoundRows) /\ season[p] \in States /\ n \in Nat /\ n = Len(facts)
        /\ (rows = <<>> <=> n = 0)
    BY LenProperties, EmptySeq DEF TInv
  <1> SUFFICES ASSUME cr >= 0
               PROVE  me.cr = BoardRow(p, 0).cr /\ me.chart[Len(me.chart)].cr = me.cr
    BY DEF CrsAgree
  <1>2. me.cr = CrOf(season[p].mu, season[p].sigma) /\ me.chart = Chart(p)
    BY DEF Profile
  <1>3. BoardRow(p, 0).cr = Rounded(cr)
    BY DEF BoardRow, BoardRowOf
  <1>4. me.cr = Rounded(cr)
    BY <1>1, <1>2, KeptIsShown DEF CrsHold
  <1> HIDE DEF me
  <1>5. Chart(p)[Len(Chart(p))].cr = Rounded(cr)
    <2> DEFINE band == CrBand(season[p].mu, season[p].sigma)
               shown == CrOf(season[p].mu, season[p].sigma)
               point(x) == [cr |-> x, lo |-> x - (band.hi - band.lo),
                            hi |-> x + (band.hi - band.lo)]
    <2>1. CASE n = 0
      <3>1. Chart(p) = <<point(shown)>>
        BY <1>1, <2>1 DEF Chart
      <3>2. Len(<<point(shown)>>) = 1 /\ <<point(shown)>>[1] = point(shown)
        OBVIOUS
      <3>3. point(shown).cr = shown
        OBVIOUS
      <3> HIDE DEF point, shown
      <3>4. QED
        BY <1>2, <1>4, <3>1, <3>2, <3>3 DEF shown
    <2>2. CASE n # 0
      <3> DEFINE at(k) == point(Rounded(Shown(p)[k].crAfter))
      <3>1. Chart(p) = [k \in DOMAIN Shown(p) |-> at(k)]
        BY <1>1, <2>2 DEF Chart
      <3>2. PICK m \in Nat \ {0} : /\ DOMAIN Shown(p) = 1 .. m
                                   /\ Shown(p)[m] = rows[n][p]
        BY <1>1, <2>2, ShownEnds
      <3>3. n \in 1 .. Len(rows) /\ n = Len(facts)
        BY <1>1, <2>2
      <3>4. cr = rows[n][p].crAfter
        BY <3>3 DEF CrsHold
      <3>5. at(m).cr = Rounded(cr)
        BY <3>2, <3>4
      <3> DEFINE T == {at(k) : k \in 1 .. m}
                 f == [k \in 1 .. m |-> at(k)]
      <3> HIDE DEF at
      <3>6. f \in [1 .. m -> T] /\ m \in Nat /\ f[m] = at(m)
        BY <3>2
      <3>7. Chart(p) = f
        BY <3>1, <3>2
      <3> HIDE DEF f, T
      <3>8. Len(f) = m
        BY <3>6, CountedIsSeq
      <3>9. QED
        BY <3>5, <3>6, <3>7, <3>8
    <2>3. QED
      BY <2>1, <2>2
  <1>6. QED
    BY <1>2, <1>3, <1>4, <1>5

LEMMA ChainHoldsHere ==
    ASSUME TInv, CrsHold, NEW p \in Players
    PROVE  ChainHolds(p)
  <1>1. Len(rows) \in Nat
    BY LenProperties DEF TInv
  <1>2. ASSUME NEW i \in 2 .. Len(rows)
        PROVE  \/ rows[i][p].crBefore = rows[i - 1][p].crAfter
               \/ rows[i - 1][p].crAfter <= 0 /\ rows[i][p].crBefore < 0
    <2>1. i - 1 \in 1 .. Len(rows) /\ i - 1 < Len(rows) /\ (i - 1) + 1 = i
      BY <1>1
    <2>2. Continues(rows[i - 1][p].crAfter, CrNext(i - 1, p))
      BY <2>1 DEF CrsHold
    <2>3. CrNext(i - 1, p) = rows[i][p].crBefore
      BY <2>1 DEF CrNext
    <2>4. QED
      BY <2>2, <2>3 DEF Continues
  <1>3. QED
    BY <1>2 DEF ChainHolds

-----------------------------------------------------------------------------
(* Pages: the history *)

\* A line of a history.
Line(p, i) ==
    LET r == rows[i][p]
    IN [match |-> i, place |-> r.place, delta |-> Rounded(r.delta),
        before |-> Rounded(r.crBefore), after |-> Rounded(r.crAfter),
        chips |-> Chips(AsShown(r))]

PageLength(p, result, offset) ==
    Larger(0, Smaller(PageSize, Cardinality(Filtered(p, result)) - offset))

LEMMA FilteredIsFinite ==
    ASSUME rows \in Seq(SoundRows), NEW p, NEW result
    PROVE  /\ Filtered(p, result) \in SUBSET Int /\ IsFiniteSet(Filtered(p, result))
           /\ Filtered(p, result) \in SUBSET (1 .. Len(rows))
           /\ Cardinality(Filtered(p, result)) \in Nat
  <1>1. Len(rows) \in Nat
    BY LenProperties
  <1>2. IsFiniteSet(1 .. Len(rows))
    BY <1>1, FS_Interval
  <1>3. Filtered(p, result) \in SUBSET (1 .. Len(rows))
    BY DEF Filtered
  <1>4. QED
    BY <1>2, <1>3, FS_Subset, FS_CardinalityType

LEMMA HistoryPageIs ==
    ASSUME rows \in Seq(SoundRows), NEW p, NEW result, NEW offset \in Nat
    PROVE  LET page == HistoryPage(p, result, offset)
               m == PageLength(p, result, offset)
           IN /\ m \in Nat /\ Len(page) = m /\ DOMAIN page = 1 .. m
              /\ \A T : (\A k \in 1 .. m : page[k] \in T) => page \in Seq(T)
              /\ \A k \in 1 .. m :
                    /\ page[k] = Line(p, TopOf(Filtered(p, result), k + offset))
                    /\ k + offset \in 1 .. Cardinality(Filtered(p, result))
  <1> DEFINE S == Filtered(p, result)
             at(k) == Line(p, TopOf(S, k + offset))
             m == PageLength(p, result, offset)
             page == HistoryPage(p, result, offset)
  <1>1. Cardinality(S) \in Nat /\ PageSize \in Nat \ {0}
    BY FilteredIsFinite, ProfilesAssumption
  <1>2. page = [k \in 1 .. m |-> at(k)]
    BY DEF HistoryPage, PageLength, Line, TopOf, FromTop
  <1>3. m \in Nat /\ \A k \in 1 .. m : k + offset \in 1 .. Cardinality(S)
    <2> DEFINE c == Cardinality(S)
    <2>1. m = Larger(0, Smaller(PageSize, c - offset)) /\ c \in Nat
      BY <1>1 DEF PageLength
    <2> HIDE DEF m, c
    <2>2. m \in Nat /\ (m = 0 \/ m <= c - offset)
      BY <1>1, <2>1 DEF Larger, Smaller
    <2>3. \A k \in 1 .. m : k + offset \in 1 .. c
      BY <2>1, <2>2
    <2>4. QED
      BY <2>2, <2>3 DEF c
  <1>4. DOMAIN page = 1 .. m /\ \A k \in 1 .. m : page[k] = at(k)
    BY <1>2
  <1> DEFINE U == {at(k) : k \in 1 .. m}
  <1> HIDE DEF at, m, page
  <1>5. page \in [1 .. m -> U]
    BY <1>2
  <1>6. Len(page) = m
    BY <1>3, <1>5, CountedIsSeq
  <1>7. ASSUME NEW T, \A k \in 1 .. m : page[k] \in T PROVE page \in Seq(T)
    <2>1. page \in [1 .. m -> T]
      BY <1>2, <1>4, <1>7
    <2>2. QED
      BY <1>3, <2>1, CountedIsSeq
  <1>8. QED
    BY <1>3, <1>4, <1>6, <1>7 DEF at, m, page

LEMMA PagesCoverHere ==
    ASSUME TInv, NEW p \in Players
    PROVE  PagesCover(p)
  <1> SUFFICES ASSUME NEW result \in {"all", "first", "top", "bottom"}
               PROVE  LET S == Filtered(p, result)
                          pages == HistoryPage(p, result, 0) \o HistoryPage(p, result, PageSize)
                          both == [k \in DOMAIN pages |-> pages[k].match]
                      IN /\ {both[k] : k \in DOMAIN both} \subseteq S
                         /\ Len(both) = Smaller(2 * PageSize, Cardinality(S))
                         /\ \A k \in 2 .. Len(both) : both[k] < both[k - 1]
    BY DEF PagesCover
  <1> DEFINE S == Filtered(p, result)
             c == Cardinality(S)
             one == HistoryPage(p, result, 0)
             two == HistoryPage(p, result, PageSize)
             a == PageLength(p, result, 0)
             b == PageLength(p, result, PageSize)
             pages == one \o two
             both == [k \in DOMAIN pages |-> pages[k].match]
             U == {Line(p, TopOf(S, k)) : k \in 1 .. c}
  <1>1. rows \in Seq(SoundRows) /\ PageSize \in Nat \ {0} /\ 0 \in Nat
    BY ProfilesAssumption DEF TInv
  <1>2. S \in SUBSET Int /\ IsFiniteSet(S) /\ c \in Nat
    BY <1>1, FilteredIsFinite
  <1>3. /\ a \in Nat /\ Len(one) = a
        /\ \A T : (\A k \in 1 .. a : one[k] \in T) => one \in Seq(T)
        /\ \A k \in 1 .. a : one[k] = Line(p, TopOf(S, k + 0)) /\ k + 0 \in 1 .. c
    BY <1>1, HistoryPageIs
  <1>4. /\ b \in Nat /\ Len(two) = b
        /\ \A T : (\A k \in 1 .. b : two[k] \in T) => two \in Seq(T)
        /\ \A k \in 1 .. b : two[k] = Line(p, TopOf(S, k + PageSize)) /\ k + PageSize \in 1 .. c
    BY <1>1, HistoryPageIs
  <1>5. a = Larger(0, Smaller(PageSize, c - 0)) /\ b = Larger(0, Smaller(PageSize, c - PageSize))
    BY DEF PageLength
  <1> HIDE DEF S, c, one, two, a, b
  <1>6. /\ a + b = Smaller(2 * PageSize, c) /\ a + b <= c /\ a + b \in Nat
        /\ b # 0 => a = PageSize
    BY <1>1, <1>2, <1>5 DEF Larger, Smaller
  <1>7. one \in Seq(U)
    <2>1. ASSUME NEW k \in 1 .. a PROVE one[k] \in U
      <3>1. k + 0 \in 1 .. c /\ one[k] = Line(p, TopOf(S, k + 0))
        BY <1>3
      <3>2. QED
        BY <3>1
    <2> HIDE DEF U
    <2>2. QED
      BY <1>3, <2>1
  <1>8. two \in Seq(U)
    <2>1. ASSUME NEW k \in 1 .. b PROVE two[k] \in U
      <3>1. k + PageSize \in 1 .. c /\ two[k] = Line(p, TopOf(S, k + PageSize))
        BY <1>4
      <3>2. QED
        BY <3>1
    <2> HIDE DEF U
    <2>2. QED
      BY <1>4, <2>1
  <1> HIDE DEF U
  <1>9. /\ pages \in Seq(U) /\ Len(pages) = a + b
        /\ \A k \in 1 .. a + b : pages[k] = IF k <= a THEN one[k] ELSE two[k - a]
    BY <1>3, <1>4, <1>7, <1>8, ConcatProperties
  <1> HIDE DEF pages
  <1>10. DOMAIN pages = 1 .. a + b
    BY <1>9, LenProperties
  <1>11. ASSUME NEW k \in 1 .. a + b
         PROVE  pages[k].match = TopOf(S, k) /\ k \in 1 .. c
    <2>1. k \in 1 .. c
      BY <1>2, <1>3, <1>4, <1>6
    <2>2. \A i : Line(p, i).match = i
      BY DEF Line
    <2>3. CASE k <= a
      <3>1. k \in 1 .. a /\ k + 0 = k
        BY <1>3, <1>4, <2>3
      <3>2. pages[k] = Line(p, TopOf(S, k))
        BY <1>3, <1>9, <2>3, <3>1
      <3>3. QED
        BY <2>1, <2>2, <3>2
    <2>4. CASE ~(k <= a)
      <3>1. k - a \in 1 .. b /\ a = PageSize /\ (k - a) + PageSize = k
        BY <1>1, <1>3, <1>4, <1>6, <2>4
      <3>2. pages[k] = Line(p, TopOf(S, k))
        BY <1>4, <1>9, <2>4, <3>1
      <3>3. QED
        BY <2>1, <2>2, <3>2
    <2>5. QED
      BY <2>3, <2>4
  <1>12. /\ DOMAIN both = 1 .. a + b
         /\ \A k \in 1 .. a + b : both[k] = TopOf(S, k) /\ k \in 1 .. c
    BY <1>10, <1>11
  <1>13. \A k \in 1 .. c : TopOf(S, k) \in S
    BY <1>2, NewestComeFirst DEF c
  <1>14. \A k, m \in 1 .. c : k < m => TopOf(S, m) < TopOf(S, k)
    BY <1>2, NewestComeFirst DEF c
  <1> HIDE DEF both
  <1>15. {both[k] : k \in DOMAIN both} \subseteq S
    BY <1>12, <1>13
  <1>16. Len(both) = a + b
    <2>1. both \in [1 .. a + b -> S]
      <3>1. both = [k \in DOMAIN pages |-> pages[k].match]
        BY DEF both
      <3>2. \A k \in 1 .. a + b : both[k] \in S
        BY <1>12, <1>13
      <3>3. QED
        BY <1>10, <3>1, <3>2
    <2>2. QED
      BY <1>6, <2>1, CountedIsSeq
  <1>17. ASSUME NEW k \in 2 .. a + b PROVE both[k] < both[k - 1]
    <2>1. k \in 1 .. a + b /\ k - 1 \in 1 .. a + b /\ k - 1 < k
      BY <1>6
    <2>2. k \in 1 .. c /\ k - 1 \in 1 .. c /\ both[k] = TopOf(S, k)
          /\ both[k - 1] = TopOf(S, k - 1)
      BY <1>12, <2>1
    <2>3. QED
      BY <1>14, <2>1, <2>2
  <1>18. QED
    BY <1>6, <1>15, <1>16, <1>17 DEF both, pages, one, two, c, S

-----------------------------------------------------------------------------
(* Pages: a match *)

\* The teams of match i, best placed first, and the card of one of their players.
PlacesOf(i)  == {rows[i][p].place : p \in Players}
Placed(i, k) == {p \in Players : rows[i][p].place = k}
Card(i, p) ==
    LET r == rows[i][p]
    IN [who |-> p, delta |-> Rounded(r.delta), before |-> Rounded(r.crBefore),
        after |-> Rounded(r.crAfter), chips |-> Chips(AsShown(r))]
Team(i, n) ==
    [placement |-> NthOf(PlacesOf(i), n),
     players   |-> {Card(i, p) : p \in Placed(i, NthOf(PlacesOf(i), n))}]

LEMMA MatchPageIs ==
    ASSUME NEW i
    PROVE  MatchPage(i) = [n \in 1 .. Cardinality(PlacesOf(i)) |-> Team(i, n)]
  BY DEF MatchPage, PlacesOf, Placed, Card, Team, NthOf, RankIn

LEMMA PlacesAreFinite ==
    ASSUME rows \in Seq(SoundRows), NEW i \in 1 .. Len(rows)
    PROVE  PlacesOf(i) \in SUBSET Nat /\ IsFiniteSet(PlacesOf(i))
  <1>1. \A p \in Players : rows[i][p] \in RowSet
    BY RowsOfPlayers
  <1>2. \A r \in RowSet : r.place \in 0 .. 8
    BY DEF RowSet
  <1>3. PlacesOf(i) \in SUBSET (0 .. 8)
    BY <1>1, <1>2 DEF PlacesOf
  <1>4. IsFiniteSet(0 .. 8)
    <2>1. 0 \in Int /\ 8 \in Int
      OBVIOUS
    <2>2. QED
      BY <2>1, FS_Interval
  <1>5. QED
    BY <1>3, <1>4, FS_Subset

\* Every element of a finite set has its place in the order.
LEMMA EveryoneHasAPlace ==
    ASSUME NEW E \in SUBSET Nat, IsFiniteSet(E), NEW x \in E
    PROVE  \E n \in 1 .. Cardinality(E) : NthOf(E, n) = x
  <1> DEFINE A == {j \in E : j < x}
             r == RankIn(E, x)
             c == Cardinality(E)
  <1>1. A \in SUBSET E /\ x \notin A /\ x \in E
    <2>1. x \in Nat /\ ~(x < x)
      OBVIOUS
    <2>2. QED
      BY <2>1
  <1>2. r = Cardinality(A)
    BY DEF RankIn
  <1> HIDE DEF A
  <1>3. Cardinality(A) <= c /\ Cardinality(A) # c /\ IsFiniteSet(A)
    BY <1>1, FS_Subset
  <1>4. r \in Nat /\ c \in Nat
    BY <1>2, <1>3, FS_CardinalityType
  <1> DEFINE n == r + 1
  <1>5. n \in 1 .. c /\ r = n - 1
    <2> HIDE DEF r, c
    <2> QED BY <1>2, <1>3, <1>4
  <1>6. RankIn(E, x) = n - 1
    BY <1>5
  <1> HIDE DEF n, r, c
  <1>7. NthOf(E, n) = x
    BY <1>6, NthIsThere
  <1>8. QED
    BY <1>5, <1>7 DEF c

\* The history starts with the newest match.
LEMMA HistoryStarts ==
    ASSUME rows \in Seq(SoundRows), Len(rows) # 0, NEW p \in Players
    PROVE  /\ 1 \in DOMAIN HistoryPage(p, "all", 0)
           /\ HistoryPage(p, "all", 0)[1] = Line(p, Len(rows))
  <1> DEFINE E == Filtered(p, "all")
             m == PageLength(p, "all", 0)
             n == Len(rows)
  <1>1. n \in Nat \ {0} /\ PageSize \in Nat \ {0} /\ 0 \in Nat
    BY LenProperties, ProfilesAssumption
  <1>2. E = 1 .. n /\ Cardinality(E) = n
    BY FiltersAre
  <1>3. m = Larger(0, Smaller(PageSize, n - 0))
    BY <1>2 DEF PageLength
  <1>4. /\ DOMAIN HistoryPage(p, "all", 0) = 1 .. m
        /\ \A k \in 1 .. m : HistoryPage(p, "all", 0)[k] = Line(p, TopOf(E, k + 0))
    BY <1>1, HistoryPageIs
  <1>5. IsFiniteSet(E) /\ E \in SUBSET Int
    BY FilteredIsFinite
  <1> HIDE DEF m, E, n
  <1>6. m \in Nat /\ 1 \in 1 .. m /\ 1 + 0 = 1
    BY <1>1, <1>3 DEF Larger, Smaller
  <1>7. n \in E /\ \A x \in E : x <= n
    BY <1>1, <1>2
  <1>8. TopOf(E, 1) = n
    BY <1>5, <1>7, FirstFromTop
  <1>9. HistoryPage(p, "all", 0)[1] = Line(p, TopOf(E, 1))
    BY <1>4, <1>6
  <1>10. QED
    BY <1>4, <1>6, <1>8, <1>9 DEF n

LEMMA MatchAgreesHere ==
    ASSUME TInv, NEW i \in NewRow
    PROVE  MatchAgrees(i)
  <1> DEFINE page == MatchPage(i)
             E == PlacesOf(i)
             c == Cardinality(E)
  <1>1. rows \in Seq(SoundRows) /\ Len(rows) \in Nat /\ (rows = <<>> <=> Len(rows) = 0)
    BY LenProperties, EmptySeq DEF TInv
  <1>2. i = Len(rows) /\ Len(rows) # 0
    BY <1>1 DEF NewRow
  <1>3. i \in 1 .. Len(rows)
    BY <1>1, <1>2
  <1>4. E \in SUBSET Nat /\ IsFiniteSet(E)
    BY <1>1, <1>3, PlacesAreFinite
  <1>5. c \in Nat
    BY <1>4, FS_CardinalityType
  <1>6. page = [n \in 1 .. c |-> Team(i, n)]
    BY MatchPageIs
  <1> DEFINE U == {Team(i, n) : n \in 1 .. c}
  <1>7. page \in [1 .. c -> U]
    BY <1>6
  <1>8. /\ \A n \in 1 .. c : NthOf(E, n) \in E
        /\ \A n, m \in 1 .. c : n < m => NthOf(E, n) < NthOf(E, m)
    <2>1. E \in SUBSET Int
      BY <1>4
    <2>2. QED
      BY <1>4, <2>1, LowestComeFirst
  <1> HIDE DEF U, c, page, E
  <1>9. Len(page) = c /\ DOMAIN page = 1 .. c
    BY <1>5, <1>7, CountedIsSeq
  <1>10. ASSUME NEW n \in 1 .. c
         PROVE  /\ page[n].placement = NthOf(E, n)
                /\ page[n].players = {Card(i, p) : p \in Placed(i, NthOf(E, n))}
    BY <1>6 DEF Team, E
  <1>11. ASSUME NEW n \in 2 .. c PROVE page[n - 1].placement < page[n].placement
    <2>1. n - 1 \in 1 .. c /\ n \in 1 .. c /\ n - 1 < n
      BY <1>5
    <2>2. NthOf(E, n - 1) < NthOf(E, n)
      BY <1>8, <2>1
    <2>3. QED
      BY <1>10, <2>1, <2>2
  <1>12. ASSUME NEW n \in 1 .. c, NEW m \in 1 .. c, NthOf(E, n) = NthOf(E, m)
         PROVE  n = m
    <2>1. NthOf(E, n) \in Nat /\ NthOf(E, m) \in Nat
      BY <1>4, <1>8
    <2>2. ~(n < m) /\ ~(m < n)
      BY <1>8, <1>12, <2>1
    <2>3. QED
      BY <1>5, <2>2
  <1>13. ASSUME NEW p \in Players, NEW history, history = HistoryPage(p, "all", 0)
         PROVE  \E mine \in {history[line] : line \in DOMAIN history}, n \in DOMAIN page :
                   /\ mine.match = i /\ page[n].placement = mine.place
                   /\ [who |-> p, delta |-> mine.delta, before |-> mine.before,
                       after |-> mine.after, chips |-> mine.chips] \in page[n].players
                   /\ \A k \in DOMAIN page : (\E e \in page[k].players : e.who = p) => k = n
    <2> DEFINE mine == Line(p, i)
               place == rows[i][p].place
    <2>1. mine \in {history[line] : line \in DOMAIN history}
      BY <1>1, <1>2, <1>13, HistoryStarts
    <2>2. place \in E
      BY DEF E, PlacesOf
    <2>3. PICK n \in 1 .. c : NthOf(E, n) = place
      BY <1>4, <2>2, EveryoneHasAPlace DEF c
    <2>4. mine.match = i /\ mine.place = place
      BY DEF Line
    <2>5. [who |-> p, delta |-> mine.delta, before |-> mine.before,
           after |-> mine.after, chips |-> mine.chips] = Card(i, p)
      BY DEF Line, Card
    <2>6. p \in Placed(i, NthOf(E, n))
      BY <2>3 DEF Placed
    <2>7. Card(i, p) \in page[n].players
      BY <1>10, <2>6
    <2>8. ASSUME NEW k \in 1 .. c, NEW e \in page[k].players, e.who = p PROVE k = n
      <3>1. PICK q \in Placed(i, NthOf(E, k)) : e = Card(i, q)
        BY <1>10
      <3>2. q = p
        <4>1. Card(i, q).who = q
          BY DEF Card
        <4>2. QED
          BY <2>8, <3>1, <4>1
      <3>3. NthOf(E, k) = place
        BY <3>1, <3>2 DEF Placed
      <3>4. QED
        BY <1>12, <2>3, <3>3
    <2> HIDE DEF mine, place
    <2>9. page[n].placement = mine.place
      BY <1>10, <2>3, <2>4
    <2>10. QED
      BY <1>9, <2>1, <2>4, <2>5, <2>7, <2>8, <2>9
  <1>14. QED
    BY <1>9, <1>11, <1>13 DEF MatchAgrees, page

-----------------------------------------------------------------------------
(* Pages: ranks and streaks *)

\* A higher CR is never shown as the lower one.
LEMMA RoundingKeepsOrder ==
    ASSUME NEW x \in Int, NEW y \in Int, x <= y
    PROVE  Rounded(x) <= Rounded(y)
  <1> DEFINE qx == x \div Units
             sx == x % Units
             qy == y \div Units
             sy == y % Units
             odd == ~(qx % 2 = 0)
  <1>1. Units \in Nat \ {0}
    BY ParamsAssumption
  <1>2. Splits(x, Units, qx, sx) /\ Splits(y, Units, qy, sy)
    BY <1>1, Divided
  <1>3. /\ qx \in Int /\ sx \in 0 .. Units - 1 /\ x = Units * qx + sx
        /\ qy \in Int /\ sy \in 0 .. Units - 1 /\ y = Units * qy + sy
    BY <1>2 DEF Splits
  <1>4. /\ Rounded(x) = IF 2 * sx < Units \/ (2 * sx = Units /\ qx % 2 = 0) THEN qx ELSE qx + 1
        /\ Rounded(y) = IF 2 * sy < Units \/ (2 * sy = Units /\ qy % 2 = 0) THEN qy ELSE qy + 1
    BY DEF Rounded
  <1> HIDE DEF qx, sx, qy, sy
  <1>5. \A a, b \in Int : a >= b + 1 => Units * a >= Units * b + Units
    BY <1>1
  <1>6. ~(qx >= qy + 1)
    <2>1. ASSUME qx >= qy + 1 PROVE FALSE
      <3>1. Units * qx >= Units * qy + Units
        BY <1>3, <1>5, <2>1
      <3> DEFINE a == Units * qx
                 b == Units * qy
      <3>2. a \in Int /\ b \in Int /\ a >= b + Units /\ x = a + sx /\ y = b + sy
        BY <1>1, <1>3, <3>1
      <3> HIDE DEF a, b
      <3>3. QED
        BY <1>1, <1>3, <3>2
    <2>2. QED
      BY <2>1
  <1>7. CASE qx < qy
    <2>1. Rounded(x) \in {qx, qx + 1} /\ Rounded(y) \in {qy, qy + 1}
      BY <1>4
    <2>2. QED
      BY <1>3, <1>7, <2>1
  <1>8. CASE qx = qy
    <2> DEFINE a == Units * qx
    <2>1. a \in Int /\ x = a + sx /\ y = a + sy
      BY <1>1, <1>3, <1>8
    <2> HIDE DEF a
    <2>2. sx <= sy
      BY <1>1, <1>3, <2>1
    <2>3. Rounded(y) = IF 2 * sy < Units \/ (2 * sy = Units /\ ~odd) THEN qx ELSE qx + 1
      BY <1>4, <1>8
    <2>4. Rounded(x) = IF 2 * sx < Units \/ (2 * sx = Units /\ ~odd) THEN qx ELSE qx + 1
      BY <1>4
    <2> HIDE DEF odd
    <2>5. QED
      BY <1>1, <1>3, <2>2, <2>3, <2>4
  <1>9. QED
    BY <1>3, <1>6, <1>7, <1>8

\* Those whose CR is above that of p.
Above(p) == {q \in Players : season[q].cr > season[p].cr}

LEMMA AboveIsFinite ==
    ASSUME NEW p
    PROVE  /\ IsFiniteSet(Above(p)) /\ Cardinality(Above(p)) \in Nat
           /\ Rank(p) = 1 + Cardinality(Above(p))
  <1>1. IsFiniteSet(Players) /\ Above(p) \in SUBSET Players
    BY ListedAssumption DEF Above
  <1>2. IsFiniteSet(Above(p))
    BY <1>1, FS_Subset
  <1>3. QED
    BY <1>2, FS_CardinalityType DEF Rank, Above

\* Who has the lower rank number has no lower CR.
LEMMA RanksFollowCr ==
    ASSUME season \in [Players -> States], NEW p \in Players, NEW q \in Players,
           Rank(q) < Rank(p)
    PROVE  Rounded(season[q].cr) >= Rounded(season[p].cr)
  <1> DEFINE a == season[p].cr
             b == season[q].cr
  <1>1. a \in Int /\ b \in Int /\ \A o \in Players : season[o].cr \in Int
    BY DEF States
  <1>2. ~(b < a)
    <2>1. ASSUME b < a PROVE FALSE
      <3>1. Above(p) \in SUBSET Above(q)
        <4>1. \A x \in Int : x > a => x > b
          BY <1>1, <2>1
        <4>2. QED
          BY <1>1, <4>1 DEF Above
      <3>2. IsFiniteSet(Above(q)) /\ Cardinality(Above(q)) \in Nat
            /\ Cardinality(Above(p)) \in Nat
            /\ Rank(p) = 1 + Cardinality(Above(p)) /\ Rank(q) = 1 + Cardinality(Above(q))
        BY AboveIsFinite
      <3>3. Cardinality(Above(p)) <= Cardinality(Above(q))
        BY <3>1, <3>2, FS_Subset
      <3>4. QED
        BY <3>2, <3>3
    <2>2. QED
      BY <2>1
  <1> HIDE DEF a, b
  <1>3. a <= b
    BY <1>1, <1>2
  <1>4. Rounded(a) <= Rounded(b) /\ Rounded(a) \in Int /\ Rounded(b) \in Int
    BY <1>1, <1>3, RoundingKeepsOrder, RoundingIsClose
  <1>5. Rounded(b) >= Rounded(a)
    BY <1>4
  <1>6. QED
    BY <1>5 DEF a, b

LEMMA ShownTogetherHere ==
    ASSUME TInv, CountersHold, NEW p \in Players
    PROVE  ShownTogether(p)
  <1> DEFINE E == PlayedBy(rows, p)
             h == HistoryOf(rows, p)
             c == Cardinality(E)
             t == season[p].streak
  <1>1. rows \in Seq(SoundRows) /\ season \in [Players -> States]
    BY DEF TInv
  <1>2. E \in SUBSET Nat /\ IsFiniteSet(E) /\ c \in Nat
    BY <1>1, PlayedIsFinite
  <1>3. Eligible(p) = E
    BY DEF Eligible, PlayedBy
  <1>4. Ranked(E) /\ IsStreak(h, t)
    BY DEF CountersHold, Counts, Snapshot
  <1>5. Len(h) = c /\ h = [k \in 1 .. c |-> rows[NthOf(E, k)][p]]
    BY <1>1, <1>4, HistoryIsASequence DEF HistoryOf
  <1>6. ASSUME E # {}
        PROVE  LET r == rows[MaxOf(E)][p]
               IN StreakView(p).kind = IF IsWin(r.place, r.teams) THEN "vitorias" ELSE "derrotas"
    <2> DEFINE r == rows[MaxOf(E)][p]
    <2>1. c # 0
      BY <1>2, <1>6, FS_EmptySet
    <2>2. E \in SUBSET Int
      BY <1>2
    <2> HIDE DEF E, h, t
    <2>3. NthOf(E, c) = MaxOf(E)
      BY <1>2, <1>6, <2>2, LastIsGreatest
    <2> HIDE DEF c
    <2>4. h[c] = r
      <3>1. c \in 1 .. c
        BY <1>2, <2>1
      <3>2. QED
        BY <1>5, <2>3, <3>1
    <2>5. PICK run \in 1 .. c : t = IF Won(h, c) THEN run ELSE -run
      BY <1>4, <1>5, <2>1 DEF IsStreak
    <2>6. Won(h, c) <=> IsWin(r.place, r.teams)
      BY <2>4 DEF Won
    <2>7. /\ Won(h, c) => t > 0
          /\ ~Won(h, c) => t < 0 /\ ~(t > 0)
      BY <1>2, <2>5
    <2>8. StreakView(p).kind = IF t > 0 THEN "vitorias" ELSE IF t < 0 THEN "derrotas" ELSE "neutro"
      BY DEF StreakView, t
    <2>9. QED
      BY <2>6, <2>7, <2>8
  <1>7. \A q \in Players : Rank(q) < Rank(p) => Rounded(season[q].cr) >= Rounded(season[p].cr)
    BY <1>1, RanksFollowCr
  <1>8. QED
    BY <1>3, <1>6, <1>7 DEF ShownTogether

-----------------------------------------------------------------------------
(* Pages: a week *)

\* The rated results of p after match b, up to match m.
Since(p, b, m) == {i \in Eligible(p) : b < i /\ i <= m}

LEMMA SinceIsFinite ==
    ASSUME TInv, NEW p, NEW b, NEW m
    PROVE  IsFiniteSet(Since(p, b, m)) /\ Since(p, b, m) \in SUBSET (1 .. Len(rows))
  <1>1. Since(p, b, m) \in SUBSET (1 .. Len(rows))
    BY DEF Since, Eligible
  <1>2. IsFiniteSet(1 .. Len(rows))
    <2>1. Len(rows) \in Nat
      BY LenProperties DEF TInv
    <2>2. QED
      BY <2>1, FS_Interval
  <1>3. QED
    BY <1>1, <1>2, FS_Subset

\* Where no result ends at the floor, the deltas add up to the way from one to another.
Telescopes(p, b, m) ==
    SumFunctionOnSet(Deltas(rows, p), Since(p, b, m))
        = rows[m][p].crAfter - rows[b][p].crAfter

LEMMA OneMoreResult ==
    ASSUME TInv, CrsHold, NEW p \in Players,
           \A i \in 1 .. Len(rows) : rows[i][p].crAfter > 0,
           NEW b \in 1 .. Len(rows), NEW k \in b .. Len(rows), NEW m \in b .. Len(rows),
           m = k + 1, Telescopes(p, b, k)
    PROVE  Telescopes(p, b, m)
  <1> DEFINE n == Len(rows)
             d == Deltas(rows, p)
             S == Since(p, b, k)
  <1>1. rows \in Seq(SoundRows) /\ n \in Nat
    BY LenProperties DEF TInv
  <1>2. b \in 1 .. n /\ k \in 1 .. n /\ m \in 1 .. n /\ k < n /\ b \in Int /\ k \in Int
    BY <1>1
  <1>3. \A i \in 1 .. n : rows[i][p] \in RowSet
    BY <1>1, RowsOfPlayers
  <1>4. \A r \in RowSet : /\ r.delta \in Int /\ r.crBefore \in Int /\ r.crAfter \in Int
                          /\ r.eligible \in BOOLEAN
    BY DEF RowSet
  <1>5. \A i \in 1 .. n : d[i] = rows[i][p].delta /\ d[i] \in Int
    BY <1>3, <1>4 DEF Deltas
  <1> DEFINE start == rows[b][p].crAfter
             there == rows[k][p].crAfter
             here == rows[m][p].crAfter
  <1>6. start \in Int /\ there \in Int /\ here \in Int
    BY <1>2, <1>3, <1>4
  <1>7. rows[m][p].crBefore = there
    <2>1. Continues(rows[k][p].crAfter, CrNext(k, p))
      BY <1>2 DEF CrsHold
    <2>2. CrNext(k, p) = rows[m][p].crBefore
      BY <1>2 DEF CrNext
    <2>3. there > 0 /\ there \in Int
      BY <1>2, <1>6
    <2>4. ~(there <= 0)
      BY <2>3
    <2>5. QED
      BY <2>1, <2>2, <2>4 DEF Continues
  <1>8. Starts(rows[m][p])
    BY <1>2 DEF CrsHold
  <1>9. d[m] = here - there /\ (~rows[m][p].eligible => here = there)
    BY <1>2, <1>5, <1>7, <1>8 DEF Starts
  <1>10. SumFunctionOnSet(d, S) = there - start
    BY DEF Telescopes
  <1>11. IsFiniteSet(S) /\ S \in SUBSET (1 .. n)
    BY SinceIsFinite
  <1>12. m \notin S
    BY <1>2 DEF Since
  <1>13. rows[m][p].eligible => Since(p, b, m) = S \cup {m}
    <2>1. \A i \in 1 .. n : b < i /\ i <= m <=> b < i /\ (i <= k \/ i = m)
      BY <1>1, <1>2
    <2>2. b < m
      BY <1>1, <1>2
    <2>3. QED
      BY <1>2, <2>1, <2>2 DEF Since, Eligible
  <1>14. ~rows[m][p].eligible => Since(p, b, m) = S
    <2>1. \A i \in 1 .. n : b < i /\ i <= m <=> b < i /\ (i <= k \/ i = m)
      BY <1>1, <1>2
    <2>2. QED
      BY <2>1 DEF Since, Eligible
  <1> HIDE DEF S, d, n, start, there, here
  <1>15. CASE rows[m][p].eligible
    <2>1. \A i \in S \cup {m} : d[i] \in Int
      BY <1>2, <1>5, <1>11
    <2>2. SumFunctionOnSet(d, S \cup {m}) = d[m] + SumFunctionOnSet(d, S)
      BY <1>11, <1>12, <2>1, SumOfMore
    <2>3. SumFunctionOnSet(d, S \cup {m}) = (here - there) + (there - start)
      BY <1>9, <1>10, <2>2
    <2>4. (here - there) + (there - start) = here - start
      BY <1>6
    <2>5. SumFunctionOnSet(d, Since(p, b, m)) = here - start
      BY <1>13, <1>15, <2>3, <2>4
    <2>6. QED
      BY <2>5 DEF Telescopes, d, here, start
  <1>16. CASE ~rows[m][p].eligible
    BY <1>9, <1>10, <1>14, <1>16 DEF Telescopes, d, here, start
  <1>17. QED
    BY <1>15, <1>16

LEMMA DeltasTelescope ==
    ASSUME TInv, CrsHold, NEW p \in Players,
           \A i \in 1 .. Len(rows) : rows[i][p].crAfter > 0,
           NEW b \in 1 .. Len(rows), NEW m \in b .. Len(rows)
    PROVE  Telescopes(p, b, m)
  <1> DEFINE n == Len(rows)
             Bad == {k \in Nat : k \in b .. n /\ ~Telescopes(p, b, k)}
  <1>1. rows \in Seq(SoundRows) /\ n \in Nat
    BY LenProperties DEF TInv
  <1>2. Bad = {}
    <2> SUFFICES ASSUME Bad # {} PROVE FALSE
      OBVIOUS
    <2>1. PICK k \in Bad : \A j \in Bad : k <= j
      <3> Bad \in SUBSET Nat
        OBVIOUS
      <3> HIDE DEF Bad
      <3> QED BY LeastNatural
    <2>2. k \in b .. n /\ ~Telescopes(p, b, k) /\ k \in Nat /\ b \in 1 .. n
      BY <2>1
    <2>3. k # b
      <3> SUFFICES ASSUME k = b PROVE FALSE
        OBVIOUS
      <3>1. Since(p, b, b) = {}
        <4>1. \A i \in 1 .. n : ~(b < i /\ i <= b)
          BY <1>1, <2>2
        <4>2. QED
          BY <4>1 DEF Since, Eligible
      <3>2. SumFunctionOnSet(Deltas(rows, p), {}) = 0
        BY SumOfNothing
      <3>3. rows[b][p].crAfter \in Int
        <4>1. rows[b][p] \in RowSet
          BY <1>1, <2>2, RowsOfPlayers
        <4>2. QED
          BY <4>1 DEF RowSet
      <3>4. Telescopes(p, b, b)
        BY <3>1, <3>2, <3>3 DEF Telescopes
      <3>5. QED
        BY <2>2, <3>4
    <2> DEFINE j == k - 1
    <2>4. j \in b .. n /\ j \in Nat /\ k = j + 1 /\ ~(k <= j)
      BY <1>1, <2>2, <2>3
    <2>5. Telescopes(p, b, j)
      <3>1. j \notin Bad
        <4> HIDE DEF Bad, j
        <4> QED BY <2>1, <2>4
      <3>2. QED
        BY <2>4, <3>1
    <2> HIDE DEF j, Bad
    <2>6. j \in b .. Len(rows) /\ k \in b .. Len(rows)
      BY <2>2, <2>4
    <2>7. Telescopes(p, b, k)
      BY <2>4, <2>5, <2>6, OneMoreResult
    <2>8. QED
      BY <2>2, <2>7
  <1>3. m \in b .. n /\ m \in Nat
    BY <1>1
  <1>4. QED
    BY <1>2, <1>3

LEMMA WeekAddsUpHere ==
    ASSUME TInv, CrsHold, NEW p \in Players
    PROVE  WeekAddsUp(p)
  <1> SUFFICES ASSUME NEW weekAgo \in 0 .. Len(rows), Eligible(p) # {},
                      \A i \in 1 .. Len(rows) : rows[i][p].crAfter > 0
               PROVE  LET S == Eligible(p)
                          old == {i \in S : i <= weekAgo}
                          since == IF old # {} THEN MaxOf(old) ELSE MinOf(S)
                      IN Delta7d(p, weekAgo)
                           = Rounded(SumOf(p, {i \in S : i > since}, LAMBDA r : r.delta))
    BY DEF WeekAddsUp
  <1> DEFINE S == Eligible(p)
             old == {i \in S : i <= weekAgo}
             since == IF old # {} THEN MaxOf(old) ELSE MinOf(S)
             last == MaxOf(S)
             after == {i \in S : i > since}
  <1>1. rows \in Seq(SoundRows) /\ Len(rows) \in Nat
    BY LenProperties DEF TInv
  <1>2. S \in SUBSET Nat /\ IsFiniteSet(S) /\ S \in SUBSET (1 .. Len(rows))
    BY <1>1, PlayedIsFinite DEF PlayedBy, Eligible
  <1>3. S \in SUBSET Int /\ old \in SUBSET Int /\ old \in SUBSET S /\ IsFiniteSet(old)
    <2>1. old \in SUBSET S
      OBVIOUS
    <2> HIDE DEF old, S, since, last, after
    <2>2. S \in SUBSET Int /\ old \in SUBSET Int
      <3>1. Nat \subseteq Int
        OBVIOUS
      <3>2. QED
        BY ONLY <1>2, <2>1, <3>1, Zenon
    <2>3. IsFiniteSet(old)
      BY <1>2, <2>1, FS_Subset
    <2>4. QED
      BY <2>1, <2>2, <2>3
  <1>4. S # {}
    OBVIOUS
  <1>5. /\ Delta7d(p, weekAgo) = Rounded(rows[last][p].crAfter - rows[since][p].crAfter)
        /\ SumOf(p, after, LAMBDA r : r.delta) = SumFunctionOnSet(Deltas(rows, p), after)
    BY <1>4 DEF Delta7d, SumOf, Deltas
  <1>6. since \in {MaxOf(old), MinOf(S)} /\ (old = {} => since = MinOf(S))
    OBVIOUS
  <1>7. after = {i \in Eligible(p) : i > since} /\ S = Eligible(p)
    OBVIOUS
  <1> HIDE DEF S, old, since, last, after
  <1>8. last \in S /\ \A x \in S : last >= x
    BY <1>2, <1>3, <1>4, FiniteHasGreatest DEF last
  <1>9. since \in S
    <2>1. MinOf(S) \in S
      BY <1>2, <1>3, <1>4, FiniteHasLeast
    <2>2. old # {} => MaxOf(old) \in S
      BY <1>3, FiniteHasGreatest
    <2>3. QED
      BY <1>6, <2>1, <2>2
  <1>10. since \in 1 .. Len(rows) /\ last \in since .. Len(rows)
    <2>1. since \in 1 .. Len(rows) /\ last \in 1 .. Len(rows) /\ last >= since
      BY <1>2, <1>8, <1>9
    <2>2. QED
      BY <1>1, <2>1
  <1>11. after = Since(p, since, last)
    <2>1. \A i \in S : i > since <=> since < i /\ i <= last
      <3>1. ASSUME NEW i \in S PROVE i > since <=> since < i /\ i <= last
        <4>1. i \in Int /\ since \in Int /\ last \in Int /\ last >= i
          BY <1>3, <1>8, <1>9
        <4>2. QED
          BY <4>1
      <3>2. QED
        BY <3>1
    <2>2. QED
      BY <1>7, <2>1 DEF Since
  <1>12. Telescopes(p, since, last)
    BY <1>10, DeltasTelescope
  <1>13. SumOf(p, after, LAMBDA r : r.delta) = rows[last][p].crAfter - rows[since][p].crAfter
    BY <1>5, <1>11, <1>12 DEF Telescopes
  <1>14. QED
    BY <1>5, <1>13 DEF S, old, since, after

-----------------------------------------------------------------------------
(* Pages: the board *)

LEMMA OrderNamesAll ==
    ASSUME NEW order \in BoardOrders
    PROVE  /\ Cardinality(Players) \in Nat /\ Len(order) = Cardinality(Players)
           /\ \A k \in 1 .. Cardinality(Players) : order[k] \in Players
           /\ \A q \in Players : \E k \in 1 .. Cardinality(Players) : q = order[k]
           /\ \A m, n \in 1 .. Cardinality(Players) :
                 m < n => order[m] # order[n] /\ season[order[m]].cr >= season[order[n]].cr
  <1> DEFINE c == Cardinality(Players)
             D == 1 .. c
  <1>1. c \in Nat /\ IsFiniteSet(Players)
    BY ListedAssumption, FS_CardinalityType
  <1>2. /\ order \in [D -> Players]
        /\ \A m, n \in D : m < n => /\ order[m] # order[n]
                                    /\ season[order[m]].cr >= season[order[n]].cr
    BY DEF BoardOrders
  <1>3. IsFiniteSet(D) /\ Cardinality(D) = c
    <2> DEFINE C == c
    <2>1. 1 \in Int /\ C \in Int /\ (1 > C <=> C = 0)
      BY <1>1
    <2> HIDE DEF C
    <2>2. IsFiniteSet(1 .. C) /\ Cardinality(1 .. C) = IF 1 > C THEN 0 ELSE C - 1 + 1
      BY <2>1, FS_Interval
    <2>3. Cardinality(1 .. C) = C
      BY <2>1, <2>2
    <2>4. QED
      BY <2>2, <2>3 DEF C
  <1>4. \A m, n \in D : m < n \/ n < m \/ m = n
    BY <1>1
  <1> HIDE DEF D, c
  <1>5. order \in Injection(D, Players)
    BY <1>2, <1>4 DEF Injection, IsInjective
  <1>6. Cardinality(D) = Cardinality(Players)
    BY <1>3 DEF c
  <1>7. order \in Surjection(D, Players)
    BY <1>1, <1>5, <1>6, FS_Injection
  <1>8. \A q \in Players : \E k \in D : q = order[k]
    BY <1>7 DEF Surjection
  <1>9. Len(order) = c
    BY <1>1, <1>2, CountedIsSeq DEF D
  <1>10. QED
    BY <1>1, <1>2, <1>8, <1>9 DEF D, c

\* Where an order of the board puts a player, and its rank.
LEMMA RankIsThePlace ==
    ASSUME season \in [Players -> States], NEW order \in BoardOrders,
           NEW n \in 1 .. Cardinality(Players), NEW p, p = order[n]
    PROVE  /\ Rank(p) <= n
           /\ (\A q \in Players \ {p} : season[q].cr # season[p].cr) => Rank(p) = n
  <1> DEFINE c == Cardinality(Players)
             D == 1 .. n - 1
             T == {order[k] : k \in D}
             f == [k \in D |-> order[k]]
  <1>1. /\ c \in Nat /\ p \in Players
        /\ \A k \in 1 .. c : order[k] \in Players
        /\ \A q \in Players : \E k \in 1 .. c : q = order[k]
        /\ \A k, m \in 1 .. c : k < m => /\ order[k] # order[m]
                                         /\ season[order[k]].cr >= season[order[m]].cr
    BY OrderNamesAll
  <1>2. \A q \in Players : season[q].cr \in Int
    BY DEF States
  <1>3. IsFiniteSet(D) /\ Cardinality(D) = n - 1 /\ n - 1 \in Nat
    <2> DEFINE C == n - 1
    <2>1. 1 \in Int /\ C \in Int /\ C \in Nat /\ (1 > C <=> C = 0)
      OBVIOUS
    <2> HIDE DEF C
    <2>2. IsFiniteSet(1 .. C) /\ Cardinality(1 .. C) = IF 1 > C THEN 0 ELSE C - 1 + 1
      BY <2>1, FS_Interval
    <2>3. Cardinality(1 .. C) = C
      BY <2>1, <2>2
    <2>4. QED
      BY <2>1, <2>2, <2>3 DEF C
  <1>4. \A k \in D : k \in 1 .. c /\ k < n
    BY <1>1
  <1>5. \A k, m \in D : k < m \/ m < k \/ k = m
    OBVIOUS
  <1>6. n \in 1 .. c
    OBVIOUS
  <1>7. ASSUME NEW k \in 1 .. c PROVE k \in D \/ k = n \/ n < k
    BY <1>1
  <1> HIDE DEF c, D
  <1>8. f \in [D -> T] /\ \A t \in T : \E k \in D : f[k] = t
    OBVIOUS
  <1>9. \A k, m \in D : f[k] = f[m] => k = m
    BY <1>1, <1>4, <1>5
  <1> HIDE DEF f
  <1>10. f \in Surjection(D, T) /\ f \in Injection(D, T)
    BY <1>8, <1>9 DEF Surjection, Injection, IsInjective
  <1>11. IsFiniteSet(T) /\ Cardinality(T) = n - 1
    <2> HIDE DEF T
    <2>1. IsFiniteSet(T) /\ Cardinality(T) = Cardinality(D)
      BY <1>3, <1>10, FS_Surjection
    <2>2. QED
      BY <1>3, <2>1
  <1>12. Above(p) \in SUBSET T
    <2>1. ASSUME NEW q \in Players, season[q].cr > season[p].cr PROVE q \in T
      <3>1. PICK k \in 1 .. c : q = order[k]
        BY <1>1
      <3>2. season[q].cr \in Int /\ season[p].cr \in Int
        BY <1>1, <1>2
      <3>3. ~(k = n)
        BY <2>1, <3>1, <3>2
      <3>4. ~(n < k)
        <4>1. n < k => season[p].cr >= season[q].cr
          BY <1>1, <1>6, <3>1
        <4>2. QED
          BY <2>1, <3>2, <4>1
      <3>5. k \in D
        BY <1>7, <3>3, <3>4
      <3>6. QED
        BY <3>1, <3>5
    <2> HIDE DEF T
    <2>2. QED
      BY <2>1 DEF Above
  <1>13. /\ IsFiniteSet(Above(p)) /\ Cardinality(Above(p)) \in Nat
         /\ Rank(p) = 1 + Cardinality(Above(p))
    BY AboveIsFinite
  <1>14. Rank(p) <= n
    <2>1. Cardinality(Above(p)) <= n - 1
      <3> HIDE DEF T
      <3>1. Cardinality(Above(p)) <= Cardinality(T)
        BY <1>11, <1>12, FS_Subset
      <3>2. QED
        BY <1>11, <3>1
    <2>2. QED
      BY <1>13, <2>1
  <1>15. ASSUME \A q \in Players \ {p} : season[q].cr # season[p].cr
         PROVE  Rank(p) = n
    <2>1. ASSUME NEW k \in D PROVE order[k] \in Above(p)
      <3> DEFINE q == order[k]
      <3>1. q \in Players /\ q # p /\ season[q].cr >= season[p].cr
        BY <1>1, <1>4, <1>6, <2>1
      <3>2. season[q].cr \in Int /\ season[p].cr \in Int /\ season[q].cr # season[p].cr
        BY <1>1, <1>2, <1>15, <3>1
      <3>3. season[q].cr > season[p].cr
        BY <3>1, <3>2
      <3>4. QED
        BY <3>1, <3>3 DEF Above
    <2>2. Above(p) = T
      BY <1>12, <2>1
    <2>3. Cardinality(Above(p)) = n - 1
      BY <1>11, <2>2
    <2>4. QED
      BY <1>13, <2>3
  <1>16. QED
    BY <1>14, <1>15

LEMMA BoardAgreesHere ==
    ASSUME TInv PROVE BoardAgrees
  <1> SUFFICES ASSUME NEW order \in BoardOrders, NEW offset \in {0, PageSize},
                      NEW k \in DOMAIN BoardPage(order, offset)
               PROVE  LET page == BoardPage(order, offset)
                          p == page[k].who
                      IN /\ Rank(p) <= page[k].rank /\ page[k].cr = BoardRow(p, 0).cr
                         /\ (\A q \in Players \ {p} : season[q].cr # season[p].cr)
                               => Profile(p, 0).tier = TierFromRank(page[k].rank)
    BY DEF BoardAgrees
  <1> DEFINE page == BoardPage(order, offset)
             c == Cardinality(Players)
             m == Larger(0, Smaller(PageSize, Len(order) - offset))
             n == offset + k
             p == order[n]
  <1>1. PageSize \in Nat \ {0} /\ season \in [Players -> States] /\ offset \in Nat
    BY ProfilesAssumption DEF TInv
  <1>2. c \in Nat /\ Len(order) = c
    BY OrderNamesAll
  <1>3. k \in 1 .. m /\ page[k] = [rank |-> n, who |-> p, cr |-> Rounded(season[p].cr)]
    BY DEF BoardPage
  <1>4. n \in 1 .. c
    <2> HIDE DEF c
    <2>1. m = Larger(0, Smaller(PageSize, c - offset))
      BY <1>2
    <2>2. k \in 1 .. m
      BY <1>3
    <2> HIDE DEF m
    <2>3. QED
      BY <1>1, <1>2, <2>1, <2>2 DEF Larger, Smaller
  <1>5. page[k].rank = n /\ page[k].who = p /\ page[k].cr = Rounded(season[p].cr)
    BY <1>3
  <1>6. BoardRow(p, 0).cr = Rounded(season[p].cr)
    BY DEF BoardRow, BoardRowOf
  <1>7. Profile(p, 0).tier = TierFromRank(Rank(p))
    BY DEF Profile
  <1> HIDE DEF page, n, c
  <1>8. /\ Rank(p) <= n
        /\ (\A q \in Players \ {p} : season[q].cr # season[p].cr) => Rank(p) = n
    BY <1>1, <1>4, RankIsThePlace DEF c
  <1>9. QED
    BY <1>5, <1>6, <1>7, <1>8 DEF page

\* player.py, leaderboard.py, match.py, stats_service.py: between replays, however
\* often its matches were rated again, the CR of a profile, of the board and at the end
\* of the chart are one; results follow on each other; the filters, the pages of the
\* history, the page of a match, the rank, the streak and the week add up to the rows.
THEOREM ThePagesTellOneStory ==
    ASSUME IntegerUpdate PROVE Spec => []PagesTellOneStory
  <1>1. Init => CountersHold /\ CrsHold
    BY InitCounters, InitCrs
  <1>2. IInv /\ IInv' /\ CountersHold /\ CrsHold /\ [Next]_vars => CountersHold' /\ CrsHold'
    BY NextCounts, NextCrs DEF IInv
  <1>3. IInv /\ CountersHold /\ CrsHold => PagesTellOneStory
    <2> SUFFICES ASSUME IInv, CountersHold, CrsHold, ~replaying
                 PROVE  /\ BoardAgrees
                        /\ \A i \in NewRow : MatchAgrees(i)
                        /\ \A p \in Players :
                              /\ CrsAgree(p) /\ ChainHolds(p) /\ FiltersPartition(p)
                              /\ PagesCover(p) /\ ShownTogether(p) /\ WeekAddsUp(p)
      BY DEF PagesTellOneStory
    <2>1. TInv
      BY DEF IInv
    <2>2. CountersAgreeWithRows
      BY <2>1, CountersTell
    <2>3. BoardAgrees
      BY <2>1, BoardAgreesHere
    <2>4. ASSUME NEW i \in NewRow PROVE MatchAgrees(i)
      BY <2>1, MatchAgreesHere
    <2>5. ASSUME NEW p \in Players
          PROVE  /\ CrsAgree(p) /\ ChainHolds(p) /\ FiltersPartition(p)
                 /\ PagesCover(p) /\ ShownTogether(p) /\ WeekAddsUp(p)
      <3>1. CrsAgree(p)
        BY <2>1, CrsAgreeHere
      <3>2. ChainHolds(p)
        BY <2>1, ChainHoldsHere
      <3>3. FiltersPartition(p)
        BY <2>1, <2>2, FiltersSplit
      <3>4. PagesCover(p)
        BY <2>1, PagesCoverHere
      <3>5. ShownTogether(p)
        BY <2>1, ShownTogetherHere
      <3>6. WeekAddsUp(p)
        BY <2>1, WeekAddsUpHere
      <3>7. QED
        BY <3>1, <3>2, <3>3, <3>4, <3>5, <3>6
    <2>6. QED
      BY <2>3, <2>4, <2>5
  <1>4. QED
    BY <1>1, <1>2, <1>3, RatingsHold, PTL DEF Spec

-----------------------------------------------------------------------------
(* The tables of the rollups *)

\* What a row of each table may not exceed: the participants of a champion on a
\* day, the teammates of two champions, the encounters of two champions.
SoloOn(s, c, d) == {p \in Counted(s) : p.champ = c /\ played[p.match] = d}

PairsWith(s, a, b) ==
  {t \in PairTuples(Counted(s)) : t[1].champ = a /\ t[2].champ = b}

MeetingsWith(s, a, b) ==
  {t \in Meetings(Counted(s)) : t[1].champ = a /\ t[2].champ = b}

DailyBehind(s, entries) ==
  \A d \in Days : \A c \in DOMAIN entries[d] :
    entries[d][c].games \in 0 .. Cardinality(SoloOn(s, c, d))

CombosBehind(s, entries) ==
  \A k \in DOMAIN entries :
    k[3] = 0 => entries[k].games \in 0 .. Cardinality(PairsWith(s, k[1], k[2]))

VersusBehind(s, entries) ==
  \A k \in DOMAIN entries :
    entries[k].games \in 0 .. Cardinality(MeetingsWith(s, k[1], k[2]))

TablesAreShaped ==
  /\ DOMAIN landed = Matches /\ DOMAIN played = Matches
  /\ DOMAIN daily = Seasons /\ \A s \in Seasons : DOMAIN daily[s] = Days
  /\ DOMAIN table = Cumulative /\ \A j \in Cumulative : DOMAIN table[j] = Seasons

TablesAreBehind ==
  \A s \in Seasons : /\ DailyBehind(s, daily[s])
                     /\ CombosBehind(s, table["combos"][s])
                     /\ VersusBehind(s, table["versus"][s])

\* A statement may see more than the one before it, never more than the commit.
TickIsBehind ==
  tick # Idle =>
    /\ {"job", "season", "since", "done"} \subseteq DOMAIN tick
    /\ tick.job \in Jobs /\ tick.season \in Seasons
    /\ \/ tick.done = <<>>
       \/ /\ tick.done = <<tick.done[1]>>
          /\ tick.job = "combos" => CombosBehind(tick.season, tick.done[1])

RollupInv == TablesAreShaped /\ TablesAreBehind /\ TickIsBehind

-----------------------------------------------------------------------------
(* A match stays where it landed, so what a rebuild counts only grows. *)

MatchesStay ==
  \A m \in Matches : landed[m] # Nobody => landed'[m] = landed[m] /\ played'[m] = played[m]

LEMMA TuplesAreFinite ==
    ASSUME NEW S, S \in SUBSET Rows \/ S \in SUBSET (Rows \X Rows)
    PROVE  IsFiniteSet(S)
  BY RollupAssumption, FS_Product, FS_Subset

LEMMA CountedIsFinite ==
    ASSUME NEW s, NEW c, NEW d, NEW b
    PROVE  /\ IsFiniteSet(Counted(s)) /\ IsFiniteSet(SoloOn(s, c, d))
           /\ IsFiniteSet(PairsWith(s, c, b)) /\ IsFiniteSet(MeetingsWith(s, c, b))
  <1>1. Counted(s) \in SUBSET Rows /\ SoloOn(s, c, d) \in SUBSET Rows
    BY DEF Counted, SoloOn
  <1>2. /\ PairsWith(s, c, b) \in SUBSET (Rows \X Rows)
        /\ MeetingsWith(s, c, b) \in SUBSET (Rows \X Rows)
    BY <1>1 DEF PairsWith, MeetingsWith, PairTuples, Meetings
  <1>3. QED
    BY <1>1, <1>2, TuplesAreFinite

LEMMA SubsetIsSmaller ==
    ASSUME NEW S, IsFiniteSet(S), NEW T \in SUBSET S
    PROVE  0 .. Cardinality(T) \subseteq 0 .. Cardinality(S)
  <1>1. IsFiniteSet(T) /\ Cardinality(T) <= Cardinality(S)
    BY FS_Subset
  <1>2. Cardinality(T) \in Nat /\ Cardinality(S) \in Nat
    BY <1>1, FS_CardinalityType
  <1>3. QED
    BY <1>1, <1>2

LEMMA CountedGrows ==
    ASSUME MatchesStay, NEW s \in Seasons, NEW c, NEW d, NEW b
    PROVE  /\ 0 .. Cardinality(SoloOn(s, c, d)) \subseteq 0 .. Cardinality(SoloOn(s, c, d)')
           /\ 0 .. Cardinality(PairsWith(s, c, b)) \subseteq 0 .. Cardinality(PairsWith(s, c, b)')
           /\ 0 .. Cardinality(MeetingsWith(s, c, b)) \subseteq 0 .. Cardinality(MeetingsWith(s, c, b)')
  <1>1. s # Nobody
    BY RollupAssumption DEF Seasons, Nobody
  <1>2. ASSUME NEW p \in Counted(s)
        PROVE  p \in Counted(s)' /\ played'[p.match] = played[p.match]
    BY <1>1, <1>2 DEF Counted, MatchesStay, Matches
  <1>3. SoloOn(s, c, d) \in SUBSET SoloOn(s, c, d)'
    BY <1>2 DEF SoloOn
  <1>4. PairsWith(s, c, b) \in SUBSET PairsWith(s, c, b)'
    BY <1>2 DEF PairsWith, PairTuples
  <1>5. MeetingsWith(s, c, b) \in SUBSET MeetingsWith(s, c, b)'
    BY <1>2 DEF MeetingsWith, Meetings
  <1>6. /\ IsFiniteSet(SoloOn(s, c, d)') /\ IsFiniteSet(PairsWith(s, c, b)')
        /\ IsFiniteSet(MeetingsWith(s, c, b)')
    <2>1. Counted(s)' \in SUBSET Rows /\ SoloOn(s, c, d)' \in SUBSET Rows
      BY DEF Counted, SoloOn
    <2>2. /\ PairsWith(s, c, b)' \in SUBSET (Rows \X Rows)
          /\ MeetingsWith(s, c, b)' \in SUBSET (Rows \X Rows)
      BY <2>1 DEF PairsWith, MeetingsWith, PairTuples, Meetings
    <2>3. QED
      BY <2>1, <2>2, TuplesAreFinite
  <1>7. QED
    BY <1>3, <1>4, <1>5, <1>6, SubsetIsSmaller

-----------------------------------------------------------------------------
(* A rebuild writes what it counts. *)

LEMMA CoveredIsSmaller ==
    ASSUME NEW S, IsFiniteSet(S), NEW f, NEW T, T \in SUBSET {f[x] : x \in S}
    PROVE  Cardinality(T) \in 0 .. Cardinality(S)
  <1> DEFINE U == {f[x] : x \in S}
             g == [x \in S |-> f[x]]
  <1>1. g \in Surjection(S, U)
    BY DEF Surjection
  <1>2. IsFiniteSet(U) /\ Cardinality(U) <= Cardinality(S)
    BY <1>1, FS_Surjection
  <1>3. T \in SUBSET U
    OBVIOUS
  <1> HIDE DEF U
  <1>4. IsFiniteSet(T) /\ Cardinality(T) <= Cardinality(U)
    BY <1>2, <1>3, FS_Subset
  <1>5. Cardinality(T) \in Nat /\ Cardinality(S) \in Nat /\ Cardinality(U) \in Nat
    BY <1>2, <1>4, FS_CardinalityType
  <1>6. QED
    BY <1>2, <1>4, <1>5

LEMMA GroupedCounts ==
    ASSUME NEW obs, NEW floor, NEW k \in DOMAIN Grouped(obs, floor)
    PROVE  /\ k \in {o.key : o \in obs}
           /\ Grouped(obs, floor)[k].games = Cardinality({o \in obs : o.key = k})
  BY DEF Grouped, Totals

LEMMA DailyIsRebuilt ==
    ASSUME NEW s, NEW since
    PROVE  DailyBehind(s, DailyRows(Counted(s), since))
  <1> SUFFICES ASSUME NEW d \in Days, NEW c \in DOMAIN DailyRows(Counted(s), since)[d]
               PROVE  DailyRows(Counted(s), since)[d][c].games
                        \in 0 .. Cardinality(SoloOn(s, c, d))
    BY DEF DailyBehind
  <1> DEFINE Q == {p \in Counted(s) : played[p.match] >= since /\ played[p.match] = d}
             T == {o \in Solo(Q) : o.key = c}
             f == [p \in Rows |-> [id |-> p, key |-> p.champ, place |-> p.place]]
  <1>1. DailyRows(Counted(s), since)[d] = Grouped(Solo(Q), 1)
    BY DEF DailyRows
  <1>2. DailyRows(Counted(s), since)[d][c].games = Cardinality(T)
    <2> HIDE DEF Q
    <2> QED BY <1>1, GroupedCounts
  <1>3. T \in SUBSET {f[p] : p \in SoloOn(s, c, d)}
    BY DEF Solo, SoloOn, Counted
  <1> HIDE DEF T, f
  <1>4. QED
    BY <1>2, <1>3, CountedIsFinite, CoveredIsSmaller

LEMMA PairsAreRebuilt ==
    ASSUME NEW s, NEW floor
    PROVE  CombosBehind(s, Grouped(PairsOf(Counted(s)), floor))
  <1> DEFINE entries == Grouped(PairsOf(Counted(s)), floor)
  <1> SUFFICES ASSUME NEW k \in DOMAIN entries
               PROVE  entries[k].games \in 0 .. Cardinality(PairsWith(s, k[1], k[2]))
    BY DEF CombosBehind
  <1> DEFINE T == {o \in PairsOf(Counted(s)) : o.key = k}
             f == [t \in Rows \X Rows |->
                     [id |-> t, key |-> <<t[1].champ, t[2].champ, 0>>, place |-> t[1].place]]
  <1>1. entries[k].games = Cardinality(T)
    BY GroupedCounts
  <1>2. ASSUME NEW o \in T PROVE \E t \in PairsWith(s, k[1], k[2]) : f[t] = o
    <2>1. PICK t \in PairTuples(Counted(s)) :
             o = [id |-> t, key |-> <<t[1].champ, t[2].champ, 0>>, place |-> t[1].place]
      BY DEF PairsOf
    <2>2. k = <<t[1].champ, t[2].champ, 0>>
      BY <2>1
    <2>3. t \in PairsWith(s, k[1], k[2]) /\ t \in Rows \X Rows
      BY <2>2 DEF PairsWith, PairTuples, Counted
    <2>4. QED
      BY <2>1, <2>3
  <1> HIDE DEF T, f, entries
  <1>3. T \in SUBSET {f[t] : t \in PairsWith(s, k[1], k[2])}
    BY <1>2
  <1>4. QED
    BY <1>1, <1>3, CountedIsFinite, CoveredIsSmaller

\* The champions of a trio are in ascending order, so the third is not the 0 that
\* stands for none.
LEMMA TriosAreRebuilt ==
    ASSUME NEW s, NEW floor
    PROVE  CombosBehind(s, Grouped(TriosOf(Counted(s)), floor))
  <1> DEFINE obs == TriosOf(Counted(s))
             entries == Grouped(obs, floor)
  <1> SUFFICES ASSUME NEW k \in DOMAIN entries PROVE k[3] # 0
    BY DEF CombosBehind
  <1>1. PICK o \in obs : k = o.key
    <2> HIDE DEF obs
    <2>1. k \in {o.key : o \in obs}
      BY GroupedCounts
    <2>2. QED
      BY <2>1
  <1>2. PICK t \in PairTuples(Counted(s)) \X Counted(s) :
           /\ t[1][2].champ < t[2].champ
           /\ o.key = <<t[1][1].champ, t[1][2].champ, t[2].champ>>
    BY DEF TriosOf
  <1>3. t[1][2] \in Rows /\ t[2] \in Rows
    BY DEF PairTuples, Counted
  <1>4. t[1][2].champ \in Nat /\ t[2].champ \in Nat
    BY <1>3, RollupAssumption
  <1>5. QED
    BY <1>1, <1>2, <1>4

LEMMA VersusIsRebuilt ==
    ASSUME NEW s, NEW floor
    PROVE  VersusBehind(s, VersusRows(Counted(s), floor))
  <1> DEFINE entries == VersusRows(Counted(s), floor)
             side(i) == {[id |-> t, key |-> <<t[1].champ, t[2].champ>>, place |-> t[i].place] :
                           t \in Meetings(Counted(s))}
             obs == side(1)
             lo == Grouped(side(1), floor)
             hi == Grouped(side(2), floor)
  <1> SUFFICES ASSUME NEW k \in DOMAIN entries
               PROVE  entries[k].games \in 0 .. Cardinality(MeetingsWith(s, k[1], k[2]))
    BY DEF VersusBehind
  <1> DEFINE T == {o \in obs : o.key = k}
             f == [t \in Rows \X Rows |->
                     [id |-> t, key |-> <<t[1].champ, t[2].champ>>, place |-> t[1].place]]
  <1>1. k \in DOMAIN Grouped(obs, floor) /\ entries[k].games = Grouped(obs, floor)[k].games
    <2>1. entries = [j \in DOMAIN lo |->
                    [games |-> lo[j].games,
                     lo |-> [top4 |-> lo[j].top4, places |-> lo[j].places],
                     hi |-> [top4 |-> hi[j].top4, places |-> hi[j].places]]]
      BY DEF VersusRows
    <2> HIDE DEF entries, lo, hi
    <2>2. k \in DOMAIN lo /\ entries[k].games = lo[k].games
      BY <2>1
    <2>3. QED
      BY <2>2 DEF lo
  <1>2. entries[k].games = Cardinality(T)
    <2> HIDE DEF entries, obs
    <2> QED BY <1>1, GroupedCounts
  <1>3. ASSUME NEW o \in T PROVE \E t \in MeetingsWith(s, k[1], k[2]) : f[t] = o
    <2>1. PICK t \in Meetings(Counted(s)) :
             o = [id |-> t, key |-> <<t[1].champ, t[2].champ>>, place |-> t[1].place]
      OBVIOUS
    <2>2. k = <<t[1].champ, t[2].champ>>
      BY <2>1
    <2>3. t \in MeetingsWith(s, k[1], k[2]) /\ t \in Rows \X Rows
      BY <2>2 DEF MeetingsWith, Meetings, Counted
    <2>4. QED
      BY <2>1, <2>3
  <1> HIDE DEF T, f, entries
  <1>4. T \in SUBSET {f[t] : t \in MeetingsWith(s, k[1], k[2])}
    BY <1>3
  <1>5. QED
    BY <1>2, <1>4, CountedIsFinite, CoveredIsSmaller

-----------------------------------------------------------------------------
(* Tick by tick *)

\* Every insert of a tick is behind the matches it was computed from.
LEMMA InsertIsBehind ==
    ASSUME RollupInv, tick # Idle, NEW entries \in Result(tick)
    PROVE  /\ tick.job = "daily" => DailyBehind(tick.season, entries)
           /\ tick.job = "combos" => CombosBehind(tick.season, entries)
           /\ tick.job = "versus" => VersusBehind(tick.season, entries)
  <1> DEFINE ps == Counted(tick.season)
  <1>1. CASE tick.job = "daily"
    <2>1. entries = DailyRows(ps, tick.since)
      BY <1>1 DEF Result, Inserts
    <2>2. QED
      BY <1>1, <2>1, DailyIsRebuilt
  <1>2. CASE tick.job = "combos"
    <2>1. entries \in {Grouped(PairsOf(ps), WriteFloor), Grouped(TriosOf(ps), WriteFloor)}
      BY <1>2 DEF Result, Inserts
    <2>2. QED
      BY <1>2, <2>1, PairsAreRebuilt, TriosAreRebuilt
  <1>3. CASE tick.job = "versus"
    <2>1. entries = VersusRows(ps, WriteFloor)
      BY <1>3 DEF Result, Inserts
    <2>2. QED
      BY <1>3, <2>1, VersusIsRebuilt
  <1>4. QED
    BY <1>1, <1>2, <1>3

LEMMA WrittenByOne ==
    ASSUME NEW done, NEW k \in DOMAIN Written(done)
    PROVE  \E i \in DOMAIN done : /\ k \in DOMAIN done[i]
                                  /\ Written(done)[k] = done[i][k]
  <1>1. \E i \in DOMAIN done : k \in DOMAIN done[i]
    BY DEF Written
  <1>2. QED
    BY <1>1 DEF Written

\* Tables that are behind stay so while matches land.
LEMMA DailyStays ==
    ASSUME MatchesStay, \A s \in Seasons : DailyBehind(s, daily'[s])
    PROVE  \A s \in Seasons : DailyBehind(s, daily[s])'
  <1> SUFFICES ASSUME NEW s \in Seasons, NEW d \in Days, NEW c \in DOMAIN daily'[s][d]
               PROVE  daily'[s][d][c].games \in 0 .. Cardinality(SoloOn(s, c, d)')
    BY DEF DailyBehind
  <1>1. daily'[s][d][c].games \in 0 .. Cardinality(SoloOn(s, c, d))
    BY DEF DailyBehind
  <1>2. QED
    BY <1>1, CountedGrows

LEMMA CombosStay ==
    ASSUME MatchesStay, NEW s \in Seasons, NEW entries, CombosBehind(s, entries)
    PROVE  CombosBehind(s, entries)'
  <1> SUFFICES ASSUME NEW k \in DOMAIN entries, k[3] = 0
               PROVE  entries[k].games \in 0 .. Cardinality(PairsWith(s, k[1], k[2])')
    BY DEF CombosBehind
  <1>1. entries[k].games \in 0 .. Cardinality(PairsWith(s, k[1], k[2]))
    BY DEF CombosBehind
  <1>2. QED
    BY <1>1, CountedGrows

LEMMA TablesStay ==
    ASSUME MatchesStay, \A s \in Seasons : /\ CombosBehind(s, table'["combos"][s])
                                           /\ VersusBehind(s, table'["versus"][s])
    PROVE  \A s \in Seasons : /\ CombosBehind(s, table["combos"][s])'
                              /\ VersusBehind(s, table["versus"][s])'
  <1> SUFFICES ASSUME NEW s \in Seasons
               PROVE  /\ CombosBehind(s, table["combos"][s])'
                      /\ VersusBehind(s, table["versus"][s])'
    OBVIOUS
  <1>1. ASSUME NEW k \in DOMAIN table'["combos"][s], k[3] = 0
        PROVE  table'["combos"][s][k].games \in 0 .. Cardinality(PairsWith(s, k[1], k[2])')
    <2>1. table'["combos"][s][k].games \in 0 .. Cardinality(PairsWith(s, k[1], k[2]))
      BY <1>1 DEF CombosBehind
    <2>2. QED
      BY <2>1, CountedGrows
  <1>2. ASSUME NEW k \in DOMAIN table'["versus"][s]
        PROVE  table'["versus"][s][k].games \in 0 .. Cardinality(MeetingsWith(s, k[1], k[2])')
    <2>1. table'["versus"][s][k].games \in 0 .. Cardinality(MeetingsWith(s, k[1], k[2]))
      BY <1>2 DEF VersusBehind
    <2>2. QED
      BY <2>1, CountedGrows
  <1>3. QED
    BY <1>1, <1>2 DEF CombosBehind, VersusBehind

LEMMA InitRollupInv == RollupInit => RollupInv
  <1> SUFFICES ASSUME RollupInit PROVE RollupInv
    OBVIOUS
  <1>1. TablesAreShaped
    BY DEF RollupInit, TablesAreShaped
  <1>2. TablesAreBehind
    <2> SUFFICES ASSUME NEW s \in Seasons
                 PROVE  /\ DailyBehind(s, daily[s])
                        /\ CombosBehind(s, table["combos"][s])
                        /\ VersusBehind(s, table["versus"][s])
      BY DEF TablesAreBehind
    <2>1. /\ \A d \in Days : daily[s][d] = <<>>
          /\ table["combos"][s] = <<>> /\ table["versus"][s] = <<>>
      BY DEF RollupInit, Cumulative
    <2>2. DOMAIN <<>> = {}
      OBVIOUS
    <2>3. QED
      BY <2>1, <2>2 DEF DailyBehind, CombosBehind, VersusBehind
  <1>3. TickIsBehind
    BY DEF RollupInit, TickIsBehind
  <1>4. QED
    BY <1>1, <1>2, <1>3 DEF RollupInv

\* The steps that write no table.
LEMMA QuietStep ==
    ASSUME RollupInv, MatchesStay, daily' = daily, table' = table,
           DOMAIN landed' = Matches, DOMAIN played' = Matches, TickIsBehind'
    PROVE  RollupInv'
  <1>1. TablesAreShaped'
    BY DEF RollupInv, TablesAreShaped
  <1>2. TablesAreBehind'
    BY DailyStays, TablesStay DEF RollupInv, TablesAreBehind
  <1>3. QED
    BY <1>1, <1>2 DEF RollupInv

LEMMA TickStays ==
    ASSUME RollupInv, MatchesStay, tick' = tick \/ tick' = Idle
    PROVE  TickIsBehind'
  <1> SUFFICES ASSUME tick' # Idle, tick' = tick PROVE TickIsBehind'
    BY DEF TickIsBehind, Idle
  <1>1. CASE tick.done = <<>>
    BY <1>1 DEF RollupInv, TickIsBehind
  <1>2. CASE tick.done # <<>>
    <2>1. PICK entries, s : entries = tick.done[1] /\ s = tick.season
      OBVIOUS
    <2>2. /\ tick # Idle /\ s \in Seasons /\ tick.done = <<entries>>
          /\ tick.job = "combos" => CombosBehind(s, entries)
      BY <1>2, <2>1 DEF RollupInv, TickIsBehind
    <2>3. tick.job = "combos" => CombosBehind(s, entries)'
      BY <2>2, CombosStay
    <2>4. tick'.done[1] = entries /\ tick'.season = s
      BY <2>1
    <2>5. tick'.job = "combos" => CombosBehind(tick.season, tick.done[1])'
      BY <2>3, <2>4
    <2>6. QED
      BY <2>2, <2>4, <2>5 DEF RollupInv, TickIsBehind
  <1>3. QED
    BY <1>1, <1>2

LEMMA LandRollupInv ==
    ASSUME RollupInv, NEW m \in Matches, NEW d \in Days, Land(m, d)
    PROVE  RollupInv'
  <1>1. MatchesStay
    BY DEF Land, MatchesStay, RollupInv, TablesAreShaped
  <1>2. DOMAIN landed' = Matches /\ DOMAIN played' = Matches
    BY DEF Land, RollupInv, TablesAreShaped
  <1>3. daily' = daily /\ table' = table /\ tick' = tick
    BY DEF Land
  <1>4. QED
    BY <1>1, <1>2, <1>3, TickStays, QuietStep

LEMMA UnmovedStay ==
    ASSUME RollupInv, landed' = landed, played' = played
    PROVE  MatchesStay /\ DOMAIN landed' = Matches /\ DOMAIN played' = Matches
  BY DEF MatchesStay, RollupInv, TablesAreShaped

LEMMA TickStartsRollupInv ==
    ASSUME RollupInv, NEW job \in Jobs, TickStarts(job)
    PROVE  RollupInv'
  <1>1. MatchesStay /\ DOMAIN landed' = Matches /\ DOMAIN played' = Matches
    BY UnmovedStay DEF TickStarts, dataVars
  <1>2. Current \in Seasons
    <2>1. Existing \in SUBSET Seasons /\ Existing # {}
      BY DEF TickStarts, Current, Existing
    <2>2. Seasons \in SUBSET Int /\ IsFiniteSet(Seasons)
      BY RollupAssumption, FS_Interval DEF Seasons
    <2>3. MaxOf(Existing) \in Existing
      BY <2>1, <2>2, FS_Subset, FiniteHasGreatest
    <2>4. Max(Existing) = MaxOf(Existing)
      BY DEF Max, MaxOf
    <2>5. QED
      BY <2>1, <2>3, <2>4 DEF Current
  <1>3. TickIsBehind'
    BY <1>2 DEF TickStarts, TickIsBehind
  <1>4. daily' = daily /\ table' = table
    BY DEF TickStarts
  <1>5. QED
    BY <1>1, <1>3, <1>4, QuietStep

LEMMA StatementRollupInv ==
    ASSUME RollupInv, Statement PROVE RollupInv'
  <1>1. MatchesStay /\ DOMAIN landed' = Matches /\ DOMAIN played' = Matches
    BY UnmovedStay DEF Statement, dataVars
  <1>2. PICK entries \in Result(tick) : tick' = [tick EXCEPT !.done = Append(@, entries)]
    BY DEF Statement
  <1>3. /\ tick # Idle /\ tick.job \in Jobs /\ tick.season \in Seasons
        /\ {"job", "season", "since", "done"} \subseteq DOMAIN tick
    BY DEF Statement, RollupInv, TickIsBehind
  <1>4. tick.done = <<>>
    <2> SUFFICES ASSUME NEW r, tick.done = <<r>> PROVE FALSE
      <3>1. tick.done = <<>> \/ tick.done = <<tick.done[1]>>
        BY <1>3 DEF RollupInv, TickIsBehind
      <3>2. QED
        BY <3>1
    <2>1. Len(tick.done) = 1
      OBVIOUS
    <2>2. StatementsOf(tick.job) \in 1 .. 2
      BY DEF StatementsOf, RecordOrder
    <2>3. QED
      BY <2>1, <2>2 DEF Statement
  <1>5. /\ tick'.done = <<entries>> /\ tick'.job = tick.job /\ tick'.season = tick.season
        /\ DOMAIN tick' = DOMAIN tick
    BY <1>2, <1>3, <1>4
  <1>6. tick.job = "combos" => CombosBehind(tick.season, entries)'
    <2>1. ASSUME NEW s \in Seasons, s = tick.season, tick.job = "combos"
          PROVE  CombosBehind(s, entries)'
      BY <1>1, <1>2, <1>3, <2>1, InsertIsBehind, CombosStay
    <2>2. tick.season' = tick.season
      BY <1>5
    <2>3. QED
      BY <1>3, <2>1, <2>2
  <1>7. TickIsBehind'
    BY <1>3, <1>5, <1>6 DEF TickIsBehind
  <1>8. daily' = daily /\ table' = table
    BY DEF Statement
  <1>9. QED
    BY <1>1, <1>7, <1>8, QuietStep

LEMMA AppendedSecond ==
    ASSUME NEW a, NEW b PROVE Append(<<a>>, b) = <<a, b>>
  <1> DEFINE q == <<a>>
             t == <<a, b>>
             u == Append(q, b)
  <1>1. q \in Seq({a, b}) /\ Len(q) = 1 /\ q[1] = a
    OBVIOUS
  <1>2. t \in Seq({a, b}) /\ Len(t) = 2 /\ t[1] = a /\ t[2] = b
    OBVIOUS
  <1>3. /\ u \in Seq({a, b}) /\ Len(u) = 2 /\ u[1] = a /\ u[2] = b
    <2> DEFINE S == {a, b}
    <2>1. q \in Seq(S) /\ b \in S
      BY <1>1
    <2> HIDE DEF q, S
    <2>2. /\ u \in Seq(S) /\ Len(u) = Len(q) + 1 /\ u[Len(q) + 1] = b
          /\ \A i \in 1 .. Len(q) : u[i] = q[i]
      BY <2>1, AppendProperties
    <2> HIDE DEF u
    <2>3. 1 \in 1 .. Len(q)
      BY <1>1
    <2>4. QED
      BY <1>1, <2>2, <2>3 DEF S
  <1> HIDE DEF q, t, u
  <1>4. \A i \in 1 .. Len(u) : u[i] = t[i]
    BY <1>2, <1>3
  <1>5. u = t
    BY <1>2, <1>3, <1>4, SeqEqual
  <1>6. QED
    BY <1>5 DEF q, t, u

LEMMA CommitRollupInv ==
    ASSUME RollupInv, Commit PROVE RollupInv'
  <1>1. MatchesStay /\ DOMAIN landed' = Matches /\ DOMAIN played' = Matches
    BY UnmovedStay DEF Commit, dataVars
  <1>2. TickIsBehind'
    BY <1>1, TickStays DEF Commit
  <1>3. /\ tick # Idle /\ tick.job \in Jobs /\ tick.season \in Seasons
        /\ Len(tick.done) + 1 = StatementsOf(tick.job)
    BY DEF Commit, RollupInv, TickIsBehind
  <1>4. CASE tick.job = "daily"
    <2>1. PICK entries \in Result(tick) :
             daily' = [daily EXCEPT ![tick.season] = Replaced(@, tick.since, entries)]
      BY <1>4 DEF Commit
    <2>2. table' = table
      BY <1>4 DEF Commit
    <2>3. DailyBehind(tick.season, entries)
      BY <1>3, <1>4, <2>1, InsertIsBehind
    <2>4. ASSUME NEW s \in Seasons PROVE DailyBehind(s, daily'[s])
      <3>1. CASE s # tick.season
        <4>1. daily'[s] = daily[s]
          BY <2>1, <3>1 DEF RollupInv, TablesAreShaped
        <4>2. QED
          BY <4>1 DEF RollupInv, TablesAreBehind
      <3>2. CASE s = tick.season
        <4>1. daily'[s] = Replaced(daily[s], tick.since, entries)
          BY <2>1, <3>2 DEF RollupInv, TablesAreShaped
        <4>2. \A d \in Days : daily'[s][d] = entries[d] \/ daily'[s][d] = daily[s][d]
          BY <4>1 DEF Replaced
        <4>3. DailyBehind(s, entries) /\ DailyBehind(s, daily[s])
          BY <2>3, <3>2 DEF RollupInv, TablesAreBehind
        <4>4. QED
          BY <4>2, <4>3 DEF DailyBehind
      <3>3. QED
        BY <3>1, <3>2
    <2>5. TablesAreBehind'
      BY <1>1, <2>2, <2>4, DailyStays, TablesStay DEF RollupInv, TablesAreBehind
    <2>6. TablesAreShaped'
      BY <1>1, <2>1, <2>2 DEF RollupInv, TablesAreShaped, Replaced
    <2>7. QED
      BY <1>2, <2>5, <2>6 DEF RollupInv
  <1>5. CASE tick.job # "daily"
    <2>1. PICK entries \in Result(tick) :
             table' = [table EXCEPT ![tick.job][tick.season] =
                          Written(Append(tick.done, entries))]
      BY <1>5 DEF Commit
    <2>2. daily' = daily
      BY <1>5 DEF Commit
    <2>3. tick.job \in Cumulative
      BY <1>3, <1>5 DEF Jobs
    <2> DEFINE all == Append(tick.done, entries)
    <2>4. ASSUME NEW j \in Cumulative, NEW s \in Seasons
          PROVE  table'[j][s] = IF j = tick.job /\ s = tick.season THEN Written(all)
                                ELSE table[j][s]
      BY <1>3, <2>1, <2>3 DEF RollupInv, TablesAreShaped
    <2> DEFINE r == tick.done[1]
    <2>5. \/ all = <<entries>>
          \/ /\ all = <<r, entries>>
             /\ tick.job = "combos" => CombosBehind(tick.season, r)
      <3>1. CASE tick.done = <<>>
        BY <3>1
      <3>2. CASE tick.done # <<>>
        <4>1. /\ tick.done = <<r>>
              /\ tick.job = "combos" => CombosBehind(tick.season, r)
          BY <1>3, <3>2 DEF RollupInv, TickIsBehind
        <4> HIDE DEF r
        <4>2. Append(<<r>>, entries) = <<r, entries>>
          BY AppendedSecond
        <4>3. all = <<r, entries>>
          BY <4>1, <4>2
        <4>4. QED
          BY <4>1, <4>3
      <3>3. QED
        BY <3>1, <3>2
    <2>6. ASSUME tick.job = "versus" PROVE all = <<entries>>
      <3>1. Len(tick.done) + 1 = 1
        BY <1>3, <2>6 DEF StatementsOf
      <3>2. tick.done = <<>> \/ tick.done = <<tick.done[1]>>
        BY <1>3 DEF RollupInv, TickIsBehind
      <3>3. Len(<<tick.done[1]>>) = 1
        OBVIOUS
      <3>4. tick.done = <<>>
        BY <3>1, <3>2, <3>3
      <3>5. QED
        BY <3>4
    <2> HIDE DEF all, r
    <2>7. ASSUME NEW s \in Seasons
          PROVE  CombosBehind(s, table'["combos"][s]) /\ VersusBehind(s, table'["versus"][s])
      <3>1. CombosBehind(s, table["combos"][s]) /\ VersusBehind(s, table["versus"][s])
        BY DEF RollupInv, TablesAreBehind
      <3>2. CASE s = tick.season /\ tick.job = "combos"
        <4>1. \A i \in DOMAIN all : CombosBehind(s, all[i])
          <5>1. CombosBehind(s, entries)
            BY <1>3, <2>1, <3>2, InsertIsBehind
          <5>2. CASE all = <<entries>>
            BY <5>1, <5>2
          <5>3. CASE all # <<entries>>
            <6>1. all = <<r, entries>> /\ CombosBehind(tick.season, r)
              BY <2>5, <3>2, <5>3
            <6>2. all[1] = r /\ all[2] = entries /\ DOMAIN all = 1 .. 2
              BY <6>1
            <6>3. QED
              BY <3>2, <5>1, <6>1, <6>2
          <5>4. QED
            BY <5>2, <5>3
        <4>2. CombosBehind(s, Written(all))
          BY <4>1, WrittenByOne DEF CombosBehind
        <4>3. table'["combos"][s] = Written(all) /\ table'["versus"][s] = table["versus"][s]
          BY <2>4, <3>2 DEF Cumulative
        <4>4. QED
          BY <3>1, <4>2, <4>3
      <3>3. CASE s = tick.season /\ tick.job = "versus"
        <4>1. \A i \in DOMAIN all : VersusBehind(s, all[i])
          BY <1>3, <2>1, <2>6, <3>3, InsertIsBehind
        <4>2. VersusBehind(s, Written(all))
          BY <4>1, WrittenByOne DEF VersusBehind
        <4>3. table'["versus"][s] = Written(all) /\ table'["combos"][s] = table["combos"][s]
          BY <2>4, <3>3 DEF Cumulative
        <4>4. QED
          BY <3>1, <4>2, <4>3
      <3>4. CASE ~(s = tick.season /\ tick.job \in {"combos", "versus"})
        <4>1. table'["versus"][s] = table["versus"][s] /\ table'["combos"][s] = table["combos"][s]
          BY <2>4, <3>4 DEF Cumulative
        <4>2. QED
          BY <3>1, <4>1
      <3>5. QED
        BY <3>2, <3>3, <3>4
    <2>8. TablesAreBehind'
      BY <1>1, <2>2, <2>7, DailyStays, TablesStay DEF RollupInv, TablesAreBehind
    <2>9. TablesAreShaped'
      BY <1>1, <2>1, <2>2, <2>3, <1>3 DEF RollupInv, TablesAreShaped
    <2>10. QED
      BY <1>2, <2>8, <2>9 DEF RollupInv
  <1>6. QED
    BY <1>4, <1>5

LEMMA StepRollupInv == RollupInv /\ [RollupNext]_rollupVars => RollupInv'
  <1> SUFFICES ASSUME RollupInv, [RollupNext]_rollupVars PROVE RollupInv'
    OBVIOUS
  <1>1. ASSUME landed' = landed, played' = played, daily' = daily, table' = table,
               tick' = tick \/ tick' = Idle
        PROVE  RollupInv'
    BY <1>1, UnmovedStay, TickStays, QuietStep
  <1>2. ASSUME NEW s \in Seasons, CreateSeason(s) \/ Transition(s) PROVE RollupInv'
    BY <1>1, <1>2 DEF CreateSeason, Transition, dataVars
  <1>3. CASE CacheExpires
    BY <1>1, <1>3 DEF CacheExpires, dataVars
  <1>4. CASE \E m \in Matches, d \in Days : Land(m, d)
    BY <1>4, LandRollupInv
  <1>5. CASE NewDay
    BY <1>1, <1>5 DEF NewDay, dataVars
  <1>6. CASE \E job \in Jobs : TickStarts(job)
    BY <1>6, TickStartsRollupInv
  <1>7. CASE Statement
    BY <1>7, StatementRollupInv
  <1>8. CASE Commit
    BY <1>8, CommitRollupInv
  <1>9. CASE TickFails
    BY <1>1, <1>9 DEF TickFails, dataVars
  <1>10. CASE Purge
    BY <1>1, <1>10 DEF Purge
  <1>11. CASE UNCHANGED rollupVars
    BY <1>1, <1>11 DEF rollupVars
  <1>12. QED
    BY <1>2, <1>3, <1>4, <1>5, <1>6, <1>7, <1>8, <1>9, <1>10, <1>11 DEF RollupNext

LEMMA AlwaysRollupInv == RollupSpec => []RollupInv
  BY InitRollupInv, StepRollupInv, PTL DEF RollupSpec

-----------------------------------------------------------------------------
(* What the pages read *)

LEMMA DisjointAdd ==
    ASSUME NEW S, NEW T, IsFiniteSet(S), IsFiniteSet(T), S \cap T = {}
    PROVE  Cardinality(S \cup T) = Cardinality(S) + Cardinality(T)
  <1>1. Cardinality(S \cap T) = 0
    BY FS_EmptySet
  <1>2. Cardinality(S) \in Nat /\ Cardinality(T) \in Nat
    BY FS_CardinalityType
  <1>3. Cardinality(S \cup T)
          = Cardinality(S) + Cardinality(T) - Cardinality(S \cap T)
    BY FS_Union
  <1>4. QED
    BY <1>1, <1>2, <1>3

\* The games of a champion day by day are no more than all of them: a match is
\* played on one day.
LEMMA DaysAddUp ==
    ASSUME RollupInv, NEW s \in Seasons, NEW c
    PROVE  OverDays(s, c, Days).games <= Cardinality(SoloLive(s, c))
  <1> DEFINE entries == {d \in Days : c \in DOMAIN daily[s][d]}
             f == [d \in entries |-> daily[s][d][c]["games"]]
             On(t) == {p \in SoloLive(s, c) : played[p.match] \in t}
             P == {t \in SUBSET entries : SumFunctionOnSet(f, t) <= Cardinality(On(t))}
  <1>1. OverDays(s, c, Days).games = SumFunctionOnSet(f, entries)
    BY DEF OverDays, SumFunction
  <1>2. IsFiniteSet(entries)
    <2>1. IsFiniteSet(Days)
      BY RollupAssumption, FS_Interval DEF Days
    <2>2. QED
      BY <2>1, FS_Subset
  <1>3. ASSUME NEW d \in entries
        PROVE  /\ f[d] \in Int /\ f[d] <= Cardinality(SoloOn(s, c, d))
               /\ Cardinality(SoloOn(s, c, d)) \in Nat
    <2>1. f[d] \in 0 .. Cardinality(SoloOn(s, c, d))
      BY DEF RollupInv, TablesAreBehind, DailyBehind
    <2>2. Cardinality(SoloOn(s, c, d)) \in Nat
      BY CountedIsFinite, FS_CardinalityType
    <2>3. QED
      BY <2>1, <2>2
  <1>4. ASSUME NEW t PROVE IsFiniteSet(On(t)) /\ Cardinality(On(t)) \in Nat
    <2>1. On(t) \in SUBSET Rows
      BY DEF SoloLive, Counted
    <2>2. QED
      BY <2>1, TuplesAreFinite, FS_CardinalityType
  <1>5. {} \in P
    <2>1. SumFunctionOnSet(f, {}) = 0
      BY SumOfNothing
    <2>2. QED
      BY <1>4, <2>1
  <1>6. ASSUME NEW t \in SUBSET entries, NEW d \in entries \ t, t \in P
        PROVE  t \cup {d} \in P
    <2>1. On(t \cup {d}) = On(t) \cup SoloOn(s, c, d) /\ On(t) \cap SoloOn(s, c, d) = {}
      BY <1>6 DEF SoloOn, SoloLive
    <2>2. IsFiniteSet(On(t)) /\ IsFiniteSet(SoloOn(s, c, d))
      BY <1>4, CountedIsFinite
    <2>3. Cardinality(On(t \cup {d})) = Cardinality(On(t)) + Cardinality(SoloOn(s, c, d))
      BY <2>1, <2>2, DisjointAdd
    <2>4. IsFiniteSet(t) /\ \A x \in t \cup {d} : f[x] \in Int
      BY <1>2, <1>3, <1>6, FS_Subset
    <2> HIDE DEF f, entries, On
    <2>5. SumFunctionOnSet(f, t \cup {d}) = f[d] + SumFunctionOnSet(f, t)
      BY <1>6, <2>4, SumOfMore
    <2>6. SumFunctionOnSet(f, t) \in Int
      BY <2>4, SumIsInteger
    <2>7. SumFunctionOnSet(f, t) <= Cardinality(On(t))
      BY <1>6
    <2>8. SumFunctionOnSet(f, t \cup {d}) <= Cardinality(On(t \cup {d}))
      <3>1. f[d] \in Int /\ f[d] <= Cardinality(SoloOn(s, c, d))
        BY <1>3
      <3>2. Cardinality(On(t)) \in Nat /\ Cardinality(SoloOn(s, c, d)) \in Nat
        BY <2>2, FS_CardinalityType
      <3>3. QED
        BY <2>3, <2>5, <2>6, <2>7, <3>1, <3>2
    <2>9. QED
      BY <2>8
  <1> HIDE DEF f, entries, P
  <1>7. entries \in P
    BY <1>2, <1>5, <1>6, SetInduction
  <1>8. SumFunctionOnSet(f, entries) <= Cardinality(On(entries))
    BY <1>7 DEF P
  <1>9. Cardinality(On(entries)) <= Cardinality(SoloLive(s, c))
    <2>1. SoloLive(s, c) \in SUBSET Rows
      BY DEF SoloLive, Counted
    <2>2. IsFiniteSet(SoloLive(s, c))
      BY <2>1, TuplesAreFinite
    <2>3. QED
      BY <2>2, FS_Subset
  <1>10. SumFunctionOnSet(f, entries) \in Int
    BY <1>2, <1>3, SumIsInteger
  <1>11. Cardinality(SoloLive(s, c)) \in Nat
    <2>1. SoloLive(s, c) \in SUBSET Rows
      BY DEF SoloLive, Counted
    <2>2. QED
      BY <2>1, TuplesAreFinite, FS_CardinalityType
  <1>12. QED
    BY <1>1, <1>4, <1>8, <1>9, <1>10, <1>11

\* Two champions are seen from either of them.
LEMMA PairsAreSeen ==
    ASSUME NEW s, NEW c, NEW x
    PROVE  /\ 0 .. Cardinality(PairsWith(s, c, x)) \subseteq 0 .. Cardinality(PartnersLive(s, c, x))
           /\ 0 .. Cardinality(PairsWith(s, x, c)) \subseteq 0 .. Cardinality(PartnersLive(s, c, x))
           /\ 0 .. Cardinality(MeetingsWith(s, c, x)) \subseteq 0 .. Cardinality(OpponentsLive(s, c, x))
           /\ 0 .. Cardinality(MeetingsWith(s, x, c)) \subseteq 0 .. Cardinality(OpponentsLive(s, c, x))
  <1> DEFINE A == PartnersLive(s, c, x)
             B == OpponentsLive(s, c, x)
             seen == [t \in Rows \X Rows |-> [id |-> t, place |-> t[1].place]]
             id == [o \in A \cup B |-> o.id]
             turned == [o \in A \cup B |-> <<o.id[2], o.id[1]>>]
  <1>1. IsFiniteSet(A) /\ IsFiniteSet(B)
    <2> DEFINE all == {seen[t] : t \in Rows \X Rows}
    <2>1. IsFiniteSet(all)
      <3>1. IsFiniteSet(Rows \X Rows)
        BY TuplesAreFinite
      <3> HIDE DEF seen
      <3>2. QED
        BY <3>1, ImageIsFinite
    <2>2. A \in SUBSET all /\ B \in SUBSET all
      <3>1. SoloLive(s, c) \X SoloLive(s, x) \in SUBSET (Rows \X Rows)
        BY DEF SoloLive, Counted
      <3>2. ASSUME NEW t \in SoloLive(s, c) \X SoloLive(s, x)
            PROVE  [id |-> t, place |-> t[1].place] \in all
        <4>1. t \in Rows \X Rows
          BY <3>1
        <4>2. seen[t] = [id |-> t, place |-> t[1].place]
          BY <4>1
        <4> HIDE DEF seen
        <4>3. QED
          BY <4>1, <4>2
      <3> HIDE DEF all
      <3>3. ASSUME NEW o \in A PROVE o \in all
        <4>1. PICK t \in SoloLive(s, c) \X SoloLive(s, x) : o = [id |-> t, place |-> t[1].place]
          BY DEF PartnersLive
        <4>2. QED
          BY <3>2, <4>1
      <3>4. ASSUME NEW o \in B PROVE o \in all
        <4>1. PICK t \in SoloLive(s, c) \X SoloLive(s, x) : o = [id |-> t, place |-> t[1].place]
          BY DEF OpponentsLive
        <4>2. QED
          BY <3>2, <4>1
      <3>5. QED
        BY <3>3, <3>4
    <2> HIDE DEF all, A, B
    <2>3. QED
      BY <2>1, <2>2, FS_Subset
  <1>2. ASSUME NEW t \in PairsWith(s, c, x) PROVE \E o \in A : id[o] = t
    <2>1. t \in SoloLive(s, c) \X SoloLive(s, x) /\ SameTeam(t[1], t[2])
      BY DEF PairsWith, PairTuples, SoloLive
    <2>2. [id |-> t, place |-> t[1].place] \in A
      BY <2>1 DEF PartnersLive
    <2>3. QED
      BY <2>2
  <1>3. ASSUME NEW t \in PairsWith(s, x, c) PROVE \E o \in A : turned[o] = t
    <2> DEFINE u == <<t[2], t[1]>>
    <2>1. u \in SoloLive(s, c) \X SoloLive(s, x) /\ SameTeam(u[1], u[2]) /\ t = <<u[2], u[1]>>
      BY DEF PairsWith, PairTuples, SoloLive, SameTeam
    <2>2. [id |-> u, place |-> u[1].place] \in A
      BY <2>1 DEF PartnersLive
    <2>3. QED
      BY <2>1, <2>2
  <1>4. ASSUME NEW t \in MeetingsWith(s, c, x) PROVE \E o \in B : id[o] = t
    <2>1. /\ t \in SoloLive(s, c) \X SoloLive(s, x)
          /\ t[1].match = t[2].match /\ t[1].team # t[2].team
      BY DEF MeetingsWith, Meetings, SoloLive
    <2>2. [id |-> t, place |-> t[1].place] \in B
      BY <2>1 DEF OpponentsLive
    <2>3. QED
      BY <2>2
  <1>5. ASSUME NEW t \in MeetingsWith(s, x, c) PROVE \E o \in B : turned[o] = t
    <2> DEFINE u == <<t[2], t[1]>>
    <2>1. /\ u \in SoloLive(s, c) \X SoloLive(s, x) /\ t = <<u[2], u[1]>>
          /\ u[1].match = u[2].match /\ u[1].team # u[2].team
      BY DEF MeetingsWith, Meetings, SoloLive
    <2>2. [id |-> u, place |-> u[1].place] \in B
      BY <2>1 DEF OpponentsLive
    <2>3. QED
      BY <2>1, <2>2
  <1> HIDE DEF A, B, id, turned
  <1>6. /\ PairsWith(s, c, x) \in SUBSET {id[o] : o \in A}
        /\ PairsWith(s, x, c) \in SUBSET {turned[o] : o \in A}
        /\ MeetingsWith(s, c, x) \in SUBSET {id[o] : o \in B}
        /\ MeetingsWith(s, x, c) \in SUBSET {turned[o] : o \in B}
    BY <1>2, <1>3, <1>4, <1>5
  <1>7. /\ Cardinality(PairsWith(s, c, x)) \in 0 .. Cardinality(A)
        /\ Cardinality(PairsWith(s, x, c)) \in 0 .. Cardinality(A)
        /\ Cardinality(MeetingsWith(s, c, x)) \in 0 .. Cardinality(B)
        /\ Cardinality(MeetingsWith(s, x, c)) \in 0 .. Cardinality(B)
    BY <1>1, <1>6, CoveredIsSmaller
  <1>8. QED
    BY <1>1, <1>7, FS_CardinalityType DEF A, B

LEMMA NothingIsAhead == RollupInv => NeverAhead
  <1> SUFFICES ASSUME RollupInv, NEW s \in Seasons, NEW c \in Champs
               PROVE  /\ OverDays(s, c, Days).games <= Cardinality(SoloLive(s, c))
                      /\ \A x \in DOMAIN DuoPartners(s, c, 0) :
                            DuoPartners(s, c, 0)[x].games <= Cardinality(PartnersLive(s, c, x))
                      /\ \A x \in DOMAIN Opponents(s, c, 0) :
                            Opponents(s, c, 0)[x].games <= Cardinality(OpponentsLive(s, c, x))
    BY DEF NeverAhead
  <1>1. ASSUME NEW x \in DOMAIN DuoPartners(s, c, 0)
        PROVE  DuoPartners(s, c, 0)[x].games <= Cardinality(PartnersLive(s, c, x))
    <2> DEFINE k == IF c < x THEN <<c, x, 0>> ELSE <<x, c, 0>>
               entries == table["combos"][s]
    <2>1. k \in DOMAIN entries /\ DuoPartners(s, c, 0)[x].games = entries[k].games
      BY DEF DuoPartners, Synergies
    <2>2. entries[k].games \in 0 .. Cardinality(PairsWith(s, k[1], k[2]))
      BY <2>1 DEF RollupInv, TablesAreBehind, CombosBehind
    <2>3. entries[k].games \in 0 .. Cardinality(PartnersLive(s, c, x))
      <3>1. (k[1] = c /\ k[2] = x) \/ (k[1] = x /\ k[2] = c)
        <4>1. k = <<c, x, 0>> \/ k = <<x, c, 0>>
          OBVIOUS
        <4> HIDE DEF k
        <4>2. QED
          BY <4>1
      <3> HIDE DEF k, entries
      <3>2. QED
        BY <2>2, <3>1, PairsAreSeen
    <2>4. QED
      BY <2>1, <2>3
  <1>2. ASSUME NEW x \in DOMAIN Opponents(s, c, 0)
        PROVE  Opponents(s, c, 0)[x].games <= Cardinality(OpponentsLive(s, c, x))
    <2> DEFINE entries == table["versus"][s]
               mine == {j \in DOMAIN entries : entries[j].games >= Floored(0) /\ c \in {j[1], j[2]}}
               other(j) == IF j[1] = c THEN j[2] ELSE j[1]
               k == CHOOSE j \in mine : other(j) = x
    <2>1. x \in {other(j) : j \in mine} /\ Opponents(s, c, 0)[x].games = entries[k].games
      BY DEF Opponents
    <2>2. k \in mine /\ other(k) = x
      <3> HIDE DEF mine, other
      <3>1. \E j \in mine : other(j) = x
        BY <2>1
      <3>2. QED
        BY <3>1
    <2>3. entries[k].games \in 0 .. Cardinality(MeetingsWith(s, k[1], k[2]))
      BY <2>2 DEF RollupInv, TablesAreBehind, VersusBehind
    <2>4. (k[1] = c /\ k[2] = x) \/ (k[1] = x /\ k[2] = c)
      <3> HIDE DEF k
      <3> QED BY <2>2
    <2> HIDE DEF k, entries
    <2>5. entries[k].games \in 0 .. Cardinality(OpponentsLive(s, c, x))
      BY <2>3, <2>4, PairsAreSeen
    <2>6. QED
      BY <2>1, <2>5
  <1>3. QED
    BY <1>1, <1>2, DaysAddUp

\* No page shows a game that was not played, for any matches, days of the window
\* and floors, and however the ticks overlap with matches that land
\* (rebuild_*: delete-then-insert, committed at once).
THEOREM PagesAreNeverAhead == RollupSpec => []NeverAhead
  BY AlwaysRollupInv, NothingIsAhead, PTL

-----------------------------------------------------------------------------
(* Two profiles *)

\* The pairs the two sides count are each other's mirror images.
LEMMA MirrorImage ==
    ASSUME NEW S, IsFiniteSet(S), NEW T, \A t \in S : <<t[2], t[1]>> \in T,
           \A t \in S : t = <<t[1], t[2]>>, \A t \in T : t = <<t[1], t[2]>>,
           \A t \in T : <<t[2], t[1]>> \in S
    PROVE  Cardinality(S) = Cardinality(T)
  <1> DEFINE f == [t \in S |-> <<t[2], t[1]>>]
             g == [t \in T |-> <<t[2], t[1]>>]
  <1>1. ASSUME NEW t \in T PROVE \E u \in S : f[u] = t
    <2>1. g[t] \in S /\ f[g[t]] = t
      OBVIOUS
    <2>2. QED
      BY <2>1
  <1>2. ASSUME NEW t \in S PROVE \E u \in T : g[u] = t
    <2>1. f[t] \in T /\ g[f[t]] = t
      OBVIOUS
    <2>2. QED
      BY <2>1
  <1> HIDE DEF f, g
  <1>3. T \in SUBSET {f[u] : u \in S} /\ S \in SUBSET {g[u] : u \in T}
    BY <1>1, <1>2
  <1>4. IsFiniteSet(T)
    <2>1. IsFiniteSet({f[u] : u \in S})
      BY ImageIsFinite
    <2>2. QED
      BY <1>3, <2>1, FS_Subset
  <1>5. Cardinality(T) \in 0 .. Cardinality(S) /\ Cardinality(S) \in 0 .. Cardinality(T)
    BY <1>3, <1>4, CoveredIsSmaller
  <1>6. QED
    BY <1>5

LEMMA SharedMatchesMirror == TeamsHoldPlaces => HeadToHeadMirrors
  <1> SUFFICES ASSUME TeamsHoldPlaces, NEW w, NEW v
               PROVE  LET h == HeadToHead(w, v)
                          g == HeadToHead(v, w)
                      IN /\ h.games = g.games /\ h.together = g.together
                         /\ h.wins + g.wins = h.games + h.together
    BY DEF HeadToHeadMirrors
  <1> DEFINE of(u) == {p \in Rows : p.who = u /\ landed[p.match] # Nobody}
             shared(a, b) == {t \in of(a) \X of(b) : t[1].match = t[2].match}
             S == shared(w, v)
             T == shared(v, w)
             wins == {t \in S : t[1].place <= t[2].place}
             losses == {t \in S : t[2].place <= t[1].place}
             theirs == {t \in T : t[1].place <= t[2].place}
             duo == {t \in S : t[1].team = t[2].team}
             duoToo == {t \in T : t[1].team = t[2].team}
  <1>1. S \in SUBSET (Rows \X Rows) /\ T \in SUBSET (Rows \X Rows)
    OBVIOUS
  <1>2. IsFiniteSet(S) /\ IsFiniteSet(wins) /\ IsFiniteSet(losses) /\ IsFiniteSet(duo)
    BY <1>1, TuplesAreFinite, FS_Subset
  <1>3. /\ \A t \in S : t = <<t[1], t[2]>> /\ <<t[2], t[1]>> \in T
        /\ \A t \in T : t = <<t[1], t[2]>> /\ <<t[2], t[1]>> \in S
    OBVIOUS
  <1>4. Cardinality(S) = Cardinality(T)
    <2> HIDE DEF S, T
    <2> QED BY <1>2, <1>3, MirrorImage
  <1>5. Cardinality(losses) = Cardinality(theirs)
    <2>1. /\ \A t \in losses : t = <<t[1], t[2]>> /\ <<t[2], t[1]>> \in theirs
          /\ \A t \in theirs : t = <<t[1], t[2]>> /\ <<t[2], t[1]>> \in losses
      <3> HIDE DEF S, T
      <3> QED BY <1>3
    <2> HIDE DEF losses, theirs
    <2>2. QED
      BY <1>2, <2>1, MirrorImage
  <1>6. Cardinality(duo) = Cardinality(duoToo)
    <2>1. /\ \A t \in duo : t = <<t[1], t[2]>> /\ <<t[2], t[1]>> \in duoToo
          /\ \A t \in duoToo : t = <<t[1], t[2]>> /\ <<t[2], t[1]>> \in duo
      <3> HIDE DEF S, T
      <3> QED BY <1>3
    <2> HIDE DEF duo, duoToo
    <2>2. QED
      BY <1>2, <2>1, MirrorImage
  <1>7. wins \cup losses = S /\ wins \cap losses = duo
    <2>1. ASSUME NEW t \in S
          PROVE  /\ t[1].place <= t[2].place \/ t[2].place <= t[1].place
                 /\ t[1].team = t[2].team
                      <=> t[1].place <= t[2].place /\ t[2].place <= t[1].place
      <3>1. t[1] \in Rows /\ t[2] \in Rows /\ t[1].match = t[2].match
        OBVIOUS
      <3>2. t[1].place \in Nat /\ t[2].place \in Nat
        BY <3>1, RollupAssumption
      <3>3. t[1].team = t[2].team <=> t[1].place = t[2].place
        BY <3>1 DEF TeamsHoldPlaces
      <3>4. QED
        BY <3>2, <3>3
    <2> HIDE DEF S
    <2>2. QED
      BY <2>1
  <1> HIDE DEF wins, losses, theirs, duo, duoToo, S, T
  <1>8. Cardinality(wins) + Cardinality(losses) = Cardinality(S) + Cardinality(duo)
    <2>1. Cardinality(S) = Cardinality(wins) + Cardinality(losses) - Cardinality(duo)
      BY <1>2, <1>7, FS_Union
    <2>2. /\ Cardinality(wins) \in Nat /\ Cardinality(losses) \in Nat
          /\ Cardinality(S) \in Nat /\ Cardinality(duo) \in Nat
      BY <1>2, FS_CardinalityType
    <2>3. QED
      BY <2>1, <2>2
  <1>9. /\ HeadToHead(w, v) = [games |-> Cardinality(S), wins |-> Cardinality(wins),
                              together |-> Cardinality(duo)]
        /\ HeadToHead(v, w) = [games |-> Cardinality(T), wins |-> Cardinality(theirs),
                              together |-> Cardinality(duoToo)]
    BY DEF HeadToHead, S, T, wins, theirs, duo, duoToo
  <1>10. QED
    BY <1>4, <1>5, <1>6, <1>8, <1>9

\* The break is the first game that is not a first place, so every run is as long
\* as the games before it at most.
LEMMA StreakStopsAtTheBreak == StreakIsARun
  <1> SUFFICES ASSUME NEW s \in Seasons, NEW w \in Persons
               PROVE  LET seq    == Newest(s, w)
                          run(n) == \A i \in 1..n : seq[i].place = 1
                      IN TopOneStreak(s, w) = Max({n \in 0..Len(seq) : run(n)})
    BY DEF StreakIsARun
  <1> DEFINE seq == Newest(s, w)
             n == Len(seq)
             breaks == {i \in DOMAIN seq : seq[i].place # 1}
             runs == {k \in 0 .. n : \A i \in 1 .. k : seq[i].place = 1}
  <1>1. DOMAIN seq = 1 .. n /\ n \in Nat
    <2>1. Played(s, w) \in SUBSET Rows
      BY DEF Played
    <2>2. Cardinality(Played(s, w)) \in Nat
      BY <2>1, TuplesAreFinite, FS_CardinalityType
    <2>3. DOMAIN seq = 1 .. Cardinality(Played(s, w))
      BY DEF Newest
    <2>4. QED
      BY <2>2, <2>3
  <1>2. TopOneStreak(s, w) = IF breaks = {} THEN n ELSE Min(breaks) - 1
    BY DEF TopOneStreak
  <1> HIDE DEF seq, n
  <1>3. ASSUME NEW k \in runs, \A j \in runs : k >= j
        PROVE  Max(runs) = k
    <2>1. Max(runs) \in runs /\ \A j \in runs : Max(runs) >= j
      BY <1>3 DEF Max
    <2>2. k \in Int /\ Max(runs) \in Int
      BY <1>1, <2>1
    <2>3. QED
      BY <1>3, <2>1, <2>2
  <1>4. ASSUME breaks = {} PROVE TopOneStreak(s, w) = Max(runs)
    <2>1. n \in runs /\ \A j \in runs : n >= j
      BY <1>1, <1>4
    <2>2. QED
      BY <1>2, <1>3, <1>4, <2>1
  <1>5. ASSUME breaks # {} PROVE TopOneStreak(s, w) = Max(runs)
    <2> DEFINE b == Min(breaks)
    <2>1. \E i \in breaks : \A j \in breaks : i <= j
      <3>1. breaks \in SUBSET Nat
        BY <1>1
      <3> HIDE DEF breaks
      <3>2. QED
        BY <1>5, <3>1, LeastNatural
    <2>2. b \in breaks /\ \A j \in breaks : b <= j
      BY <2>1 DEF Min
    <2> HIDE DEF b
    <2>3. b \in 1 .. n /\ b - 1 \in 0 .. n
      BY <1>1, <2>2
    <2>4. b - 1 \in runs
      BY <1>1, <2>2, <2>3
    <2>5. ASSUME NEW j \in runs PROVE b - 1 >= j
      <3>1. b \notin 1 .. j
        BY <2>2
      <3>2. QED
        BY <1>1, <2>3, <3>1
    <2>6. Max(runs) = b - 1
      BY <1>3, <2>4, <2>5
    <2>7. QED
      BY <1>2, <1>5, <2>6 DEF b
  <1>6. QED
    BY <1>4, <1>5 DEF seq, n

\* Where a payload gives the members of a team one place and no two teams the
\* same, two profiles agree on the matches they share, and each streak with the
\* matches listed under it (head_to_head, top1_streak_by_player).
THEOREM ProfilesAlwaysAgree ==
    ASSUME TeamsHoldPlaces PROVE RollupSpec => []ProfilesAgree
  <1>1. ProfilesAgree
    BY SharedMatchesMirror, StreakStopsAtTheBreak DEF ProfilesAgree
  <1>2. QED
    BY <1>1, PTL
=============================================================================
