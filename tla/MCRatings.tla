------------------------------ MODULE MCRatings ------------------------------
(* The trios curves of production, in tenths of a PDL, over three players who  *)
(* start thirty PDL above zero.                                              *)
EXTENDS Profiles, SequencesExt

Tenfold(s) == [i \in DOMAIN s |-> 10 * s[i]]

MCParams ==
    [mu0 |-> 10000, sigma0 |-> 2000, base_offset |-> -3700,
     placement_weights |-> 6 :> <<108, 99, 93, 93, 99, 108>>,
     placement_amp |-> 100, placement_match_count |-> 2,
     streak_loss_floor |-> 50, streak_win_ceil |-> 135, streak_threshold |-> 3,
     soft_cap_threshold |-> 600, soft_cap_scale |-> 10000,
     max_delta_mu |-> 800, dispersion_sigma_ref |-> 2000,
     base_cap |-> 6 :> Tenfold(<<40, 34, 26, 26, 34, 40>>),
     loss_cap |-> 6 :> Tenfold(<<30, 30, 30, 30, 45, 68>>),
     min_gain |-> 6 :> Tenfold(<<15, 10, 5, 0, 0, 0>>),
     mismatch_beta |-> 1000, mismatch_threshold |-> 5, mismatch_slope |-> 25,
     mismatch_max_mult |-> 125, mismatch_sigma_gate |-> 1500,
     mismatch_games_gate |-> 2,
     high_cr_midpoint |-> 700, high_cr_steepness |-> 100,
     high_cr_max_reduction |-> 40,
     composite_floor |-> 50, composite_ceil |-> 125,
     half |-> 3, window |-> 2]

\* Before August: losses clamped flat, no minimum gain.
MCEarlier ==
    [base_cap |-> 6 :> Tenfold(<<40, 34, 26, 26, 34, 40>>),
     loss_cap |-> 6 :> Tenfold(<<68, 68, 68, 68, 68, 68>>),
     min_gain |-> 6 :> Tenfold(<<0, 0, 0, 0, 0, 0>>)]

MCPremade == [strength |-> 15, repeat_threshold |-> 3, homogeneity_gap |-> 4000]

\* A result counts less the better the player is for the lobby.
MCDelta(place, mu, mean) ==
    <<397, 211, 83, -57, -243, -991, -1200, -1400>>[place] - (mu - mean) \div 4

\* The fourth place of a favourite costs it almost as much as the last.
MCSteep(place, mu, mean) == IF place = 4 THEN -960 ELSE MCDelta(place, mu, mean)

MCSigma(sigma) == sigma - sigma \div 40

\* An estimate that moves less and less.
MCSettled(sigma) == sigma - sigma \div 100

\* A participant, and the three of a team: the followed ones first, then others.
One(who, team, place) ==
    [who |-> who, team |-> team, placement |-> place, subteamPlacement |-> Absent,
     surrendered |-> FALSE, played |-> 900]
Trio(team, place, names) ==
    [k \in 1 .. 3 |-> One(IF k <= Len(names) THEN names[k] ELSE "other", team, place)]

Teams(names, at) == FlattenSeq([t \in DOMAIN at |-> Trio(t, at[t], names[t])])

Payload(people) ==
    [queue |-> 1750, cherry |-> TRUE, duration |-> 1000, start |-> 0, creation |-> 50,
     end |-> 0, people |-> people]

Known(seq, who) == CHOOSE k \in DOMAIN seq : seq[k].who = who
With(seq, who, field, value) ==
    [seq EXCEPT ![Known(seq, who)] = [@ EXCEPT ![field] = value]]

MCChampions == "a" :> 1 @@ "b" :> 1 @@ "c" :> 2

O == <<>>
DuoWins  == Teams(<< <<"a", "b">>, O, O, <<"c">>, O, O >>, <<1, 2, 3, 4, 5, 6>>)
DuoLoses == Teams(<< <<"c">>, O, O, O, O, <<"a", "b">> >>, <<1, 2, 3, 4, 5, 6>>)
\* a left after a minute.
Leaver   == With(Teams(<< <<"b", "c">>, O, O, <<"a">>, O, O >>, <<6, 1, 2, 3, 4, 5>>),
                 "a", "played", 60)
Apart    == Teams(<< <<"a">>, <<"b">>, <<"c">>, O, O, O >>, <<4, 2, 3, 1, 5, 6>>)
\* A team short, two teams tied, and c without a placement of its own.
Tied     == With(Teams(<< <<"c">>, <<"a">>, <<"b">>, O, O >>, <<5, 2, 5, 3, 1>>),
                 "c", "subteamPlacement", Null)
\* Riot stamped everybody with subteam 0.
Stamped  == [k \in 1 .. 18 |-> One(IF k <= 3 THEN <<"a", "b", "c">>[k] ELSE "other", 0, 0)]

MCListed ==
    {Payload(DuoWins), Payload(DuoLoses), Payload(Leaver), Payload(Tied),
     \* a queue id nobody has heard of
     [Payload(Apart) EXCEPT !.queue = 1760],
     \* another game mode; too early, by the end of the game; no teams
     [Payload(Apart) EXCEPT !.queue = 450, !.cherry = FALSE],
     [Payload(Apart) EXCEPT !.creation = 0, !.end = 1009],
     Payload(Stamped)}
==============================================================================
