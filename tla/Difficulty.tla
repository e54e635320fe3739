----------------------------- MODULE Difficulty -----------------------------
(***************************************************************************)
(* The checks of a sampled proof that compare epoch difficulties:           *)
(* EpochDifficultyTrend, verify_tau and verify_total_difficulty.  The       *)
(* difficulty of an epoch is the difficulty of its blocks times its length; *)
(* from one epoch to the next it changes by at most the factor Tau.         *)
(***************************************************************************)
EXTENDS Naturals

CONSTANT Tau   \* TAU (2)

ASSUME TauAssumption == Tau \in Nat \ {0, 1}

\* A position in the chain: the epoch number, the index and the length of the
\* EpochNumberWithFraction, and the difficulty that the compact target stands
\* for.
EpochDifficulty(e) == e.block * e.length

\* EpochDifficultyTrend::new.
Trend(start, end) ==
    IF start = end THEN "unchanged" ELSE IF start < end THEN "increased" ELSE "decreased"

\* The difficulty after each of n epochs that go up or down by the factor Tau;
\* divisions round down.
Walk(start, goesUp, n) ==
    LET curr[i \in 0 .. n] == IF i = 0 THEN start
                              ELSE IF goesUp[i] THEN curr[i - 1] * Tau ELSE curr[i - 1] \div Tau
    IN  curr

SumUpTo(f, n) ==
    LET sum[i \in 0 .. n] == IF i = 0 THEN 0 ELSE sum[i - 1] + f[i] IN sum[n]

\* EpochDifficultyTrend::check_tau.
CheckTau(start, end, switches) ==
    LET up   == Trend(start, end) = "increased"
        curr == Walk(start, [i \in 1 .. switches |-> up], switches)
    IN  \/ Trend(start, end) = "unchanged"
        \/ up /\ end <= curr[switches]
        \/ ~up /\ end >= curr[switches]

\* calculate_tau_exponent: the first k < limit with the end within k + 1 steps
\* of the start, or limit for None.
TauExponent(start, end, limit) ==
    LET up   == Trend(start, end) = "increased"
        curr == Walk(start, [i \in 1 .. limit |-> up], limit)
        ks   == {k \in 0 .. limit - 1 : IF up THEN curr[k + 1] >= end ELSE curr[k + 1] <= end}
    IN  IF Trend(start, end) = "unchanged" THEN 0
        ELSE IF ks = {} THEN limit ELSE CHOOSE k \in ks : \A j \in ks : k <= j

\* Mutant: increasing and decreasing epochs are swapped.
SplitEpochsSwapped(limit, trend, n, k) ==
    CASE trend = "unchanged" -> (n + 1) \div 2
      [] (limit = "min") = (trend = "increased") -> (n - k + 1) \div 2 + k
      [] OTHER -> (n - k + 1) \div 2

\* split_epochs: how many of n epochs the first group has, the decreased ones
\* for the lower limit and the increased ones for the upper limit.
SplitEpochs(limit, trend, n, k) ==
    CASE trend = "unchanged" -> (n + 1) \div 2
      [] (limit = "min") = (trend = "increased") -> (n - k + 1) \div 2
      [] OTHER -> (n - k + 1) \div 2 + k

\* check_total_difficulty_limit, with remove_last_epoch: the last epoch is left
\* out, it is part of what is unaligned.
CheckTotalDifficultyLimit(limit, start, end, n, k, actual, unaligned) ==
    LET first == SplitEpochs(limit, Trend(start, end), n, k)
        goesUp == [i \in 1 .. n - 1 |-> (limit = "max") = (i <= first)]
        total == SumUpTo(Walk(start, goesUp, n - 1), n - 1)
    IN  IF limit = "max" THEN total >= actual \/ total + unaligned >= actual
                         ELSE total < actual /\ total + unaligned <= actual

\* verify_tau: "invalid" is a status that blames the peer, "failed" only asks for
\* new samples.
VerifyTau(start, end) ==
    IF start.number = end.number
    THEN IF start.block = end.block THEN "ok" ELSE "invalid"
    ELSE IF CheckTau(EpochDifficulty(start), EpochDifficulty(end), end.number - start.number)
         THEN "ok" ELSE "failed"

\* The difficulty of the blocks after the start in its epoch and of those up to
\* the end in the last epoch.
Unaligned(start, end) ==
    start.block * (start.length - start.index - 1) + end.block * (end.index + 1)

\* verify_total_difficulty, for total difficulties that do not decrease.
VerifyTotalDifficulty(start, end, total) ==
    LET n  == end.number - start.number
        ds == EpochDifficulty(start)
        de == EpochDifficulty(end)
        k  == TauExponent(ds, de, n)
    IN  IF n = 0 THEN total = start.block * (end.index - start.index)
        ELSE /\ k < n
             /\ IF n = 1 THEN total = Unaligned(start, end)
                ELSE \A limit \in {"min", "max"} :
                        CheckTotalDifficultyLimit(limit, ds, de, n, k, total, Unaligned(start, end))
=============================================================================
