--------------------------- MODULE CongressSample ---------------------------
(***************************************************************************)
(* CongressSample over a sampled format. Entries are counted by sample       *)
(* group; once per interval, when an entry finds the interval over, each      *)
(* group gets a new sample rate from its average frequency: the house gives   *)
(* groups seats by size, the senate gives each the same, and the larger of    *)
(* both is scaled to the target. An entry that is kept is written with a      *)
(* multiplicity that makes up for those that were not.                      *)
(*                                                                         *)
(* Rates and averages are exact fractions here and f32 in the code; a random  *)
(* draw is a choice between its possible outcomes.                           *)
(***************************************************************************)
EXTENDS Integers, FiniteSets, Functions

CONSTANTS
  Groups,         \* Entry::sample_group of the entries
  Target,         \* target_observed
  Window,         \* EXP_MOVING_AVERAGE_WINDOW
  MaxPerInterval, \* bound on the entries of an interval
  MaxUpdates      \* bound on the number of updates

Ttl == Window \div 2  \* NO_OBSERVATIONS_TTL

ASSUME CongressAssumption ==
  /\ Target \in Nat \ {0}
  /\ Window \in Nat \ {0}
  /\ MaxPerInterval \in Nat /\ MaxUpdates \in Nat

VARIABLES
  groups,            \* CongressSample::groups
  current_observed,
  elapsed,           \* the interval is over
  formatted,         \* the last entry: its group, rate and multiplicity
  updates, silent    \* history: updates so far; those since each group was seen

congress_vars == <<groups, current_observed, elapsed, formatted, updates, silent>>

-----------------------------------------------------------------------------
Gcd[p \in Nat \X Nat] == IF p[2] = 0 THEN p[1] ELSE Gcd[<<p[2], p[1] % p[2]>>]

(* Fractions <<n, d>> with n >= 0 and d > 0, in lowest terms. *)
Frac(n, d) == <<n \div Gcd[<<n, d>>], d \div Gcd[<<n, d>>]>>
Plus(a, b) == Frac(a[1] * b[2] + b[1] * a[2], a[2] * b[2])
Times(a, b) == Frac(a[1] * b[1], a[2] * b[2])
Over(a, b) == Frac(a[1] * b[2], a[2] * b[1])
Leq(a, b) == a[1] * b[2] <= b[1] * a[2]
Less(a, b) == a[1] * b[2] < b[1] * a[2]
Least(a, b) == IF Leq(a, b) THEN a ELSE b
Whole(n) == <<n, 1>>
Total(f, S) == FoldFunctionOnSet(Plus, Whole(0), f, S)

-----------------------------------------------------------------------------
NewGroup ==
  [current_observed |-> 0, no_observations |-> 0, samples |-> 0, average |-> Whole(0),
   rate |-> Whole(1)]

(* CongressSampleBuilder::build; the first interval is over at once. *)
CongressInit ==
  /\ groups = [g \in {} |-> NewGroup]
  /\ current_observed = 0
  /\ elapsed \in BOOLEAN
  /\ formatted = [kept |-> FALSE]
  /\ updates = 0 /\ silent = [g \in Groups |-> Ttl + 2]

(* ExpMovingAverage::add_sample *)
AddSample(s) ==
  LET n == IF s.samples < Window THEN s.samples + 1 ELSE Window
  IN  [s EXCEPT !.samples = n,
                !.average = Plus(Frac(s.current_observed, n), Times(Frac(n - 1, n), @))]

(* Mutation: one interval longer. *)
RetainedLonger(s) == s.current_observed > 0 \/ s.no_observations <= Ttl

(* GroupState::update_and_retain *)
Retained(s) == s.current_observed > 0 \/ s.no_observations < Ttl

Updated(s) ==
  IF s.current_observed > 0
  THEN [AddSample(s) EXCEPT !.current_observed = 0, !.no_observations = 0]
  ELSE [s EXCEPT !.no_observations = @ + 1]

(* size_in_congress *)
Seats(average, flat_rate, senate) ==
  LET house == Times(flat_rate, average)
  IN  IF Less(house, senate) THEN Least(average, senate) ELSE house

(* Mutation: the congress is not scaled down to the target. *)
ScaleFactorOne(seats) == Whole(1)

ScaleFactor(seats) == Over(Whole(Target), Total(seats, DOMAIN seats))

(* CongressSample::update_rates *)
UpdateRates ==
  LET kept == {g \in DOMAIN groups : Retained(groups[g])}
      next == [g \in kept |-> Updated(groups[g])]
      seats == [g \in kept |->
                  Seats(next[g].average, Frac(Target, current_observed),
                        Frac(Target, Cardinality(kept)))]
      rate(g) == IF next[g].average[1] <= 0 THEN Whole(1)
                 ELSE Least(Over(Times(seats[g], ScaleFactor(seats)), next[g].average), Whole(1))
  IN  [g \in kept |->
         [next[g] EXCEPT !.rate = IF current_observed <= Target THEN Whole(1) ELSE rate(g)]]

(* rate_to_n_alpha of SampledEmf and SampledJson: n = floor(1 / rate), drawn   *)
(* with probability alpha = n + 1 - 1 / rate, and n + 1 otherwise.            *)
RateToN(rate) == rate[2] \div rate[1]
Alpha(rate) == Frac((RateToN(rate) + 1) * rate[1] - rate[2], rate[1])

(* Mutation: rng.random() <= alpha, or a draw that ignores alpha. *)
MultiplicitiesEither(rate) == {RateToN(rate), RateToN(rate) + 1}

(* rate_to_n: rng.random() < alpha *)
Multiplicities(rate) ==
  {RateToN(rate)} \cup (IF Less(Alpha(rate), Whole(1)) THEN {RateToN(rate) + 1} ELSE {})

IntervalEnds ==
  /\ ~elapsed
  /\ elapsed' = TRUE
  /\ UNCHANGED <<groups, current_observed, formatted, updates, silent>>

(* CongressSample::format and sample_rate *)
Format(g) ==
  LET refreshed == IF elapsed THEN UpdateRates ELSE groups
      state == IF g \in DOMAIN refreshed THEN refreshed[g] ELSE NewGroup
  IN  /\ IF elapsed THEN updates < MaxUpdates ELSE current_observed < MaxPerInterval
      /\ groups' = [h \in DOMAIN refreshed \cup {g} |->
                      IF h = g THEN [state EXCEPT !.current_observed = @ + 1] ELSE refreshed[h]]
      /\ current_observed' = IF elapsed THEN 1 ELSE current_observed + 1
      /\ elapsed' = FALSE
      /\ updates' = IF elapsed THEN updates + 1 ELSE updates
      /\ silent' = [h \in Groups |-> IF h = g THEN 0 ELSE IF elapsed THEN silent[h] + 1 ELSE silent[h]]
      /\ \/ \E n \in Multiplicities(state.rate) :
              formatted' = [kept |-> TRUE, rate |-> state.rate, n |-> n]
         \/ state.rate # Whole(1) /\ formatted' = [kept |-> FALSE]

CongressNext == IntervalEnds \/ \E g \in Groups : Format(g)

CongressSpec == CongressInit /\ [][CongressNext]_congress_vars

-----------------------------------------------------------------------------
(* Whatever the history of the groups: no rate is zero or above one (the       *)
(* format would refuse the entry), a group is never sampled harder than a      *)
(* more frequent one, and when anything is dropped the expected output of an   *)
(* average interval is within the target.                                    *)
RatesAreFair ==
  LET rate == [g \in DOMAIN groups |-> groups[g].rate]
      expected == [g \in DOMAIN groups |-> Times(groups[g].average, rate[g])]
  IN  /\ \A g \in DOMAIN groups : rate[g][1] > 0 /\ Leq(rate[g], Whole(1))
      /\ \A g, h \in DOMAIN groups :
           Leq(groups[g].average, groups[h].average) => Leq(rate[h], rate[g])
      /\ (\E g \in DOMAIN groups : rate[g] # Whole(1)) =>
           Leq(Total(expected, DOMAIN groups), Whole(Target))

(* Sampling is unbiased: the multiplicity drawn for an entry is 1 / rate on    *)
(* average, from two outcomes that both have their probability in (0, 1]; an   *)
(* entry that could not have been dropped counts once.                        *)
WeightsAreUnbiased ==
  formatted.kept =>
    LET rate == formatted.rate
        n == RateToN(rate)
        alpha == Alpha(rate)
        beta == Frac(alpha[2] - alpha[1], alpha[2])
    IN  /\ alpha[1] > 0 /\ Leq(alpha, Whole(1))
        /\ Plus(Times(alpha, Whole(n)), Times(beta, Whole(n + 1))) = Over(Whole(1), rate)
        /\ formatted.n = n \/ (formatted.n = n + 1 /\ beta[1] > 0)

(* The map of groups, whose keys come from the entries, holds exactly the      *)
(* groups seen in the last Ttl + 1 intervals, so it cannot grow for ever, and  *)
(* a group that pauses for less keeps its average.                           *)
SilentGroupsAreForgotten == DOMAIN groups = {g \in Groups : silent[g] <= Ttl + 1}

(* An inductive invariant of AccountingProofs: how long a group has been        *)
(* silent shows in its state, and the groups that are gone were silent for     *)
(* longer than any that is kept.                                              *)
SilenceIsKept ==
  /\ silent \in [Groups -> Nat]
  /\ DOMAIN groups \subseteq Groups
  /\ \A g \in DOMAIN groups :
       /\ DOMAIN groups[g] = DOMAIN NewGroup
       /\ groups[g].current_observed \in Nat
       /\ groups[g].no_observations \in 0..Ttl
       /\ silent[g] = IF groups[g].current_observed > 0 THEN 0
                      ELSE groups[g].no_observations + 1
  /\ \A g \in Groups \ DOMAIN groups : silent[g] > Ttl + 1
(* The inductive invariant of the proofs about rates: the fractions are in      *)
(* lowest terms, a group that was observed in an earlier interval has an        *)
(* average above zero, and one that was not is not sampled yet.                *)
Fractions == {a \in Nat \X (Nat \ {0}) : a = Frac(a[1], a[2])}

Rated(s) ==
  /\ DOMAIN s = DOMAIN NewGroup
  /\ s.current_observed \in Nat /\ s.samples \in Nat
  /\ s.average \in Fractions /\ s.rate \in Fractions
  /\ s.average[1] = 0 => s.rate = Whole(1)
  /\ s.current_observed = 0 => s.average[1] > 0

Drawn(rate, n) ==
  rate \in Fractions /\ rate[1] > 0 /\ Leq(rate, Whole(1)) /\ n \in Multiplicities(rate)

RatesInv ==
  /\ IsFiniteSet(DOMAIN groups) /\ current_observed \in Nat
  /\ \A g \in DOMAIN groups : Rated(groups[g])
  /\ RatesAreFair
  /\ formatted.kept => Drawn(formatted.rate, formatted.n)
=============================================================================
