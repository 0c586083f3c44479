----------------------------- MODULE Selection -----------------------------
(***************************************************************************)
(* The choices the experiments make from numbers: the search candidate, the *)
(* calibration method and the technical threshold, each of them an          *)
(* algorithm over a small table.                                            *)
(*                                                                         *)
(* Metrics are integers, in a unit of which Tolerance make the tolerance of *)
(* the code.  Non-finite metrics, which every one of these functions        *)
(* refuses, are not inputs here.  The threshold search compares fractions   *)
(* of class sizes, by cross-multiplication: two that differ do so by far    *)
(* more than its tolerance.                                                 *)
(***************************************************************************)
EXTENDS Task, Integers, Sequences, FiniteSets, FiniteSetsExt

CONSTANTS
  Candidates,  \* how many candidates the search sampled
  Tolerance,   \* ties: eps of float64, and selection_tolerance of the settings
  TopMetric,   \* bound on the metrics of a table
  Sample       \* how many rows the threshold is chosen on

ASSUME SelectionAssumption ==
  /\ {Candidates, Sample} \subseteq Nat \ {0}
  /\ {Tolerance, TopMetric} \subseteq Nat

Methods == <<"identity", "sigmoid", "isotonic">>   \* simplest first

Metrics == 0..TopMetric

(* cv_results_; a candidate's parameters enter as how simple they are, a   *)
(* smaller number for the smaller tuple of depth, trees, -lambda, -alpha,  *)
(* -gamma.                                                                 *)
SearchTables ==
  [auc : [1..Candidates -> Metrics], ap : [1..Candidates -> Metrics],
   simplicity : [1..Candidates -> 0..1]]

CalibrationTables ==
  [brier : [1..Len(Methods) -> Metrics], loss : [1..Len(Methods) -> Metrics]]

(* Both target classes are required (binary_target).                       *)
Predictions ==
  {d \in [y : [1..Sample -> {0, 1}], p : [1..Sample -> 0..TopP]] :
     {d.y[i] : i \in 1..Sample} = {0, 1}}

-----------------------------------------------------------------------------

Tied(values, among, best) == {i \in among : best - values[i] <= Tolerance}

BestOf(values, among) == Max({values[i] : i \in among})

(* Faulty: candidates tied on AUC go straight to simplicity.               *)
SelectCandidateWithoutAp(table) ==
  LET onAuc == Tied(table.auc, 1..Candidates, BestOf(table.auc, 1..Candidates))
  IN  CHOOSE c \in onAuc : \A d \in onAuc :
        \/ table.simplicity[c] < table.simplicity[d]
        \/ table.simplicity[c] = table.simplicity[d] /\ c <= d

(* AUC, then average precision among those tied on it, then simplicity,    *)
(* then the order of sampling.                                             *)
SelectCandidate(table) ==
  LET onAuc == Tied(table.auc, 1..Candidates, BestOf(table.auc, 1..Candidates))
      onAp  == Tied(table.ap, onAuc, BestOf(table.ap, onAuc))
  IN  CHOOSE c \in onAp : \A d \in onAp :
        \/ table.simplicity[c] < table.simplicity[d]
        \/ table.simplicity[c] = table.simplicity[d] /\ c <= d

(* Faulty: of the methods tied on the Brier score the most flexible.       *)
ChooseMethodMostFlexible(table) ==
  LET all     == 1..Len(Methods)
      onBrier == {i \in all : table.brier[i] - Min({table.brier[j] : j \in all}) <= Tolerance}
  IN  Methods[Max(onBrier)]

(* The Brier score, then the log loss among those tied on it, then the     *)
(* simplest: smaller is better for both scores.                            *)
ChooseMethod(table) ==
  LET all     == 1..Len(Methods)
      least(values, among) == Min({values[i] : i \in among})
      onBrier == {i \in all : table.brier[i] - least(table.brier, all) <= Tolerance}
      onLoss  == {i \in onBrier :
                    table.loss[i] - least(table.loss, onBrier) <= Tolerance}
  IN  Methods[Min(onLoss)]

Count(d, class, p) == Cardinality({i \in 1..Sample : d.y[i] = class /\ d.p[i] >= p})

ClassSize(d, class) == Count(d, class, 0)

(* The confusion matrix at a threshold: a row at the threshold is positive.*)
ThresholdMetrics(d, threshold) ==
  [tp |-> Count(d, 1, threshold), fp |-> Count(d, 0, threshold),
   fn |-> ClassSize(d, 1) - Count(d, 1, threshold),
   tn |-> ClassSize(d, 0) - Count(d, 0, threshold)]

(* tpr - fpr, times the product of the two class sizes.                    *)
Separation(d, threshold) ==
  Count(d, 1, threshold) * ClassSize(d, 0) - Count(d, 0, threshold) * ClassSize(d, 1)

(* The thresholds roc_curve returns with drop_intermediate=False: every    *)
(* predicted probability once, and a sentinel above them that selects      *)
(* nobody; the finite ones in [0, 1] are kept.                             *)
RocThresholds(d) == {d.p[i] : i \in 1..Sample}

(* Faulty: of several best thresholds the smallest.                        *)
SelectThresholdLowest(d) ==
  LET best == Max({Separation(d, t) : t \in RocThresholds(d)})
  IN  Min({t \in RocThresholds(d) : Separation(d, t) = best})

(* Of several best thresholds the largest.                                 *)
SelectThreshold(d) ==
  LET best == Max({Separation(d, t) : t \in RocThresholds(d)})
  IN  Max({t \in RocThresholds(d) : Separation(d, t) = best})

-----------------------------------------------------------------------------

SelectionInit ==
  /\ \/ \E t \in SearchTables : task = [kind |-> "search", table |-> t]
     \/ \E t \in CalibrationTables : task = [kind |-> "calibration", table |-> t]
     \/ \E d \in Predictions : task = [kind |-> "threshold", data |-> d]
  /\ answer = Pending

Search ==
  /\ task.kind = "search"
  /\ answer = Pending
  /\ answer' = [candidate |-> SelectCandidate(task.table)]
  /\ UNCHANGED task

Calibrate ==
  /\ task.kind = "calibration"
  /\ answer = Pending
  /\ answer' = [method |-> ChooseMethod(task.table)]
  /\ UNCHANGED task

Threshold ==
  /\ task.kind = "threshold"
  /\ answer = Pending
  /\ LET t == SelectThreshold(task.data)
     IN  answer' = [threshold |-> t, matrix |-> ThresholdMetrics(task.data, t)]
  /\ UNCHANGED task

SelectionNext == Search \/ Calibrate \/ Threshold

SelectionSpec == SelectionInit /\ [][SelectionNext]_vars

-----------------------------------------------------------------------------

(* The search's two tolerances are taken from the two maxima and not        *)
(* between candidates, so that being tied is not transitive.  All the same  *)
(* nobody has a clearly greater AUC than the candidate chosen, and nobody   *)
(* who is no worse on both scores is clearly better on one, simpler, or as  *)
(* simple and sampled earlier (select_candidate).                           *)
NobodyDominatesTheCandidate ==
  Answered("search") =>
    LET t == task.table
        c == answer.candidate
    IN  \A d \in 1..Candidates :
          /\ t.auc[d] <= t.auc[c] + Tolerance
          /\ t.auc[d] >= t.auc[c] /\ t.ap[d] >= t.ap[c] =>
               /\ t.ap[d] <= t.ap[c] + Tolerance
               /\ t.simplicity[d] >= t.simplicity[c]
               /\ t.simplicity[d] = t.simplicity[c] => d >= c

(* A calibration method is never chosen over a simpler one for nothing:     *)
(* although both comparisons tolerate a loss, the method chosen is strictly *)
(* better than every simpler one on one of the two scores (choose_method).  *)
ComplexityIsPaidFor ==
  Answered("calibration") =>
    \A i, j \in 1..Len(Methods) :
      i < j /\ Methods[j] = answer.method =>
        \/ task.table.brier[j] < task.table.brier[i]
        \/ task.table.loss[j] < task.table.loss[i]

(* No threshold at all, predicted or not, separates the classes better than *)
(* the one selected; none that is larger and still selects somebody does as *)
(* well; and at the one selected some default is caught, so that recall and *)
(* precision are positive (select_train_threshold, threshold_metrics).      *)
ThresholdIsTheLargestBest ==
  Answered("threshold") =>
    LET d == task.data
        selected == answer.threshold
    IN  /\ \A t \in 0..(TopP + 1) : Separation(d, t) <= Separation(d, selected)
        /\ \A t \in (selected + 1)..TopP :
             (\E i \in 1..Sample : d.p[i] >= t) => Separation(d, t) < Separation(d, selected)
        /\ answer.matrix.tp > 0

=============================================================================
