----------------------------- MODULE TideSearch -----------------------------
(***************************************************************************)
(* The auto-ML search of Hohonu-1 (tide_ml_engine.run_auto_ml_search) as   *)
(* operators: which candidates are scored, and which of them a strategy    *)
(* blends into its forecast, with which weights.                           *)
(*                                                                         *)
(* Abstractions.                                                           *)
(*  - A candidate is its position in Grid.  Scoring it by time-series      *)
(*    cross-validation gives an RMSE of 1..MaxRmse, or 0 for a candidate   *)
(*    that is dropped (too few rows, no estimator, a prediction that is    *)
(*    not finite); an estimator whose fit raises ends the search.          *)
(*  - RMSE values are proportions of each other; the 1e-6 added to them    *)
(*    before they are inverted is left out.                                *)
(*  - A forecast is the sequence of the models blended into it, each with  *)
(*    the model whose weight or coefficient it is multiplied by.           *)
(***************************************************************************)
EXTENDS Naturals, Sequences, FiniteSets, FiniteSetsExt, SequencesExt

CONSTANTS
  Grid,           \* the families of the candidates, in the grid's order
  MaxRmse,        \* bound: distinct RMSE values
  EnsembleSize, MetaTopK, MixSize   \* ensemble_size, meta_top_k, candidate_mix_max_size

ASSUME SearchAssumption ==
  /\ Grid \in Seq(STRING) /\ MaxRmse \in Nat
  /\ {EnsembleSize, MetaTopK, MixSize} \subseteq Nat

Strategies == {"best", "ensemble", "meta", "mix"}
AtMost(a, b) == IF a < b THEN a ELSE b
AtLeast(a, b) == IF a < b THEN b ELSE a
FirstOf(s, n) == SubSeq(s, 1, AtMost(n, Len(s)))

-----------------------------------------------------------------------------
(* The candidate grid. *)
Neural == {"lstm", "pinn"}
DefaultGrid(neural) == {i \in DOMAIN Grid : Grid[i] \in Neural => neural}

\* The spellings of a family that differ from its key.
Aliases ==
  [rf |-> {"randomforest", "random_forest"}, arima |-> {"auto_arima", "sarima"},
   elastic |-> {"elasticnet", "en"}, knn |-> {"knearest"},
   svr |-> {"supportvector", "support_vector_regressor"},
   hgb |-> {"histgradientboosting", "hist_gradient_boosting"},
   mlp |-> {"mlpregressor", "neural"}, extra |-> {"extratrees", "extra_trees"},
   gbr |-> {"gradientboosting", "gradient_boosting", "gbm"},
   exp_smooth |-> {"ets", "exponential_smoothing", "holt_winters"}]
Family(token) ==
  IF \E f \in DOMAIN Aliases : token \in Aliases[f]
  THEN CHOOSE f \in DOMAIN Aliases : token \in Aliases[f]
  ELSE token
\* Without repetitions, in the order asked for.
NormalizeFamilies(tokens) ==
  FoldLeft(LAMBDA fs, t : IF Contains(fs, Family(t)) THEN fs ELSE Append(fs, Family(t)),
           <<>>, tokens)

\* What a search scores; no candidate left is a ValueError.
Filtered(grid, families) ==
  IF families = <<>> THEN grid ELSE {i \in grid : Contains(families, Grid[i])}

\* _score_candidate leaves the lags out when it makes the estimator: the neural
\* ones cannot be made and are dropped, and a dropped candidate scores nothing.
Scores(grid, rows) ==
  {s \in [DOMAIN Grid -> 0..MaxRmse] :
     \A i \in DOMAIN Grid : i \notin grid \/ Grid[i] \in Neural \/ rows < 52 => s[i] = 0}
Scored(s) == {i \in DOMAIN s : s[i] > 0}
\* By RMSE; candidates of one RMSE keep the grid's order.
Ordered(s) ==
  SetToSortSeq(Scored(s), LAMBDA i, j : s[i] < s[j] \/ (s[i] = s[j] /\ i < j))

-----------------------------------------------------------------------------
(* A blend: models, and whose weight each forecast is multiplied by. *)
Blend(models) == [models |-> models, weights |-> models]
Persistence == Blend(<<>>)
Best(s) == Blend(FirstOf(Ordered(s), 1))

Ensemble(s) == Blend(FirstOf(Ordered(s), AtLeast(2, EnsembleSize)))

\* The best candidate of every family asked for, in the order of the request; when
\* that is one model only, the two best of all.
MixBase(s, families) ==
  LET ranked == Ordered(s)
      bestOf(f) == SelectInSeq(ranked, LAMBDA i : Grid[i] = f)
      present == SelectSeq(families, LAMBDA f : bestOf(f) > 0)
  IN  CASE Len(present) = 0 -> ranked
        [] Len(present) = 1 -> FirstOf(ranked, 2)
        [] OTHER -> [k \in DOMAIN present |-> ranked[bestOf(present[k])]]

\* 1 / rmse, in units that divide by every RMSE.
Units == FoldFunction(LAMBDA a, b : a * b, 1, [r \in 1..MaxRmse |-> r])
InverseSum(combo, base, s) == MapThenSumSet(LAMBDA k : Units \div s[base[k]], combo)
\* A bug: the weights are not normalised before the average.
SumNotAverage(c, d, base, s) == Cardinality(c) < Cardinality(d)
\* The average of the RMSEs of c, weighted by their inverses, is below that of d.
Lower(c, d, base, s) ==
  Cardinality(c) * InverseSum(d, base, s) < Cardinality(d) * InverseSum(c, base, s)
\* combinations(): smaller ones first, then in lexicographic order.
Before(c, d) ==
  \/ Cardinality(c) < Cardinality(d)
  \/ /\ Cardinality(c) = Cardinality(d)
     /\ c # d /\ Min(SymDiff(c, d)) \in c
BestCombo(base, s) ==
  LET cap == AtLeast(2, AtMost(Len(base), AtLeast(2, MixSize)))
      combos == {c \in SUBSET DOMAIN base : Cardinality(c) \in 2..cap}
  IN  CHOOSE c \in combos :
        \A d \in combos \ {c} :
          ~Lower(d, c, base, s) /\ (Lower(c, d, base, s) \/ Before(c, d))
\* Nothing to mix, or a forecast of no steps: the best model alone.
Mix(s, families, steps) ==
  LET base == MixBase(s, families)
      combo == BestCombo(base, s)
      order == SetToSortSeq(combo, <)
  IN  IF Len(base) < 2 \/ steps = 0 THEN Best(s)
      ELSE Blend([k \in DOMAIN order |-> base[order[k]]])

\* _fit_meta_ensemble: the models whose hold-out forecast could be made.  A
\* coefficient is fitted for each of those, in their order.
MetaTop(s) == FirstOf(Ordered(s), AtLeast(2, MetaTopK))
MetaTried(s) == {i \in Scored(s) : Contains(MetaTop(s), i)}
\* A bug: the models of the stack are those that were tried.
TriedModels(s, kept) == MetaTop(s)
MetaUsed(s, kept) == SelectSeq(MetaTop(s), LAMBDA i : i \in kept)
MetaPool(s, kept) == SelectSeq(MetaTop(s), LAMBDA i : i \in kept)
\* A forecast is multiplied by the coefficient at its own position.
Meta(s, kept, rows, steps) ==
  LET used == MetaUsed(s, kept)
      pool == MetaPool(s, kept)
  IN  IF rows < 120 \/ Len(pool) < 2 \/ steps = 0 THEN Best(s)
      ELSE [models |-> used, weights |-> [k \in DOMAIN used |-> IF k <= Len(pool) THEN pool[k] ELSE 0]]

\* The answer of run_auto_ml_search.
Answer(strategy, s, families, kept, rows, steps) ==
  CASE Scored(s) = {} -> Persistence
    [] strategy = "best" -> Best(s)
    [] strategy = "ensemble" -> Ensemble(s)
    [] strategy = "mix" -> Mix(s, families, steps)
    [] strategy = "meta" -> Meta(s, kept, rows, steps)
=============================================================================
