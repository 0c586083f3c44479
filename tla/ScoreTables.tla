---------------------------- MODULE ScoreTables ----------------------------
(***************************************************************************)
(* How predictions are put into groups: the reliability bins of the         *)
(* calibration, the score deciles of the explanation, the ranking table of  *)
(* the final evaluation, and the score bins that monitoring derives from    *)
(* the deciles.  As in Selection, a behaviour is given one column of        *)
(* probabilities and answers with its tables.                               *)
(*                                                                          *)
(* Probabilities and scores are numbers of units in the last place: two     *)
(* scores one apart have no number between them, which is where the middle  *)
(* of a gap has to be rounded.  The means and default rates that the rows   *)
(* of a table also carry are left out.                                      *)
(***************************************************************************)
EXTENDS Task, Integers, Sequences, FiniteSets, FiniteSetsExt

CONSTANTS
  MaxRows,   \* bound on the number of predictions
  Epsilon,   \* the score keeps this far from the probabilities 0 and 1
  MaxGroups, \* bound on the number of score deciles, which are ten in the code
  MaxBins    \* bound on the requested reliability bins

ASSUME ScoreTablesAssumption ==
  /\ {MaxRows, Epsilon, MaxGroups, MaxBins} \subseteq Nat
  /\ MaxRows > 1 /\ MaxGroups > 0 /\ MaxBins > 0
  /\ 2 * Epsilon < TopP

(* At least two predictions, for there are two target classes.             *)
Columns == UNION {[1..n -> 0..TopP] : n \in 2..MaxRows}

-----------------------------------------------------------------------------

Rows(p) == DOMAIN p

(* A higher probability is a lower score, clipped near 0 and 1.            *)
Score(p) == [i \in Rows(p) |-> TopP - Max({Epsilon, Min({p[i], TopP - Epsilon})})]

\* Faulty: every ranking passes.
RankAccepted(p) == TRUE

(* rank_validation refuses scores that confuse two probabilities; that its *)
(* two areas under the curve agree follows from the order.                 *)
RankValidated(p) ==
  LET score == Score(p)
  IN  \A i, j \in Rows(p) :
        /\ p[i] < p[j] => score[i] > score[j]
        /\ p[i] = p[j] => score[i] = score[j]

(* numpy's array_split: the first (n % parts) parts have one row more.     *)
Part(order, parts, g) ==
  LET n     == Len(order)
      first == (g - 1) * (n \div parts) + Min({g - 1, n % parts})
      size  == (n \div parts) + (IF g <= n % parts THEN 1 ELSE 0)
  IN  {order[first + k] : k \in 1..size}

Grouped(score, order, groups) ==
  LET parts == Min({groups, Len(order)})
  IN  [g \in 1..parts |->
         LET rows   == Part(order, parts, g)
             scores == {score[i] : i \in rows}
         IN  [rows |-> rows, count |-> Cardinality(rows),
              min |-> Min(scores), max |-> Max(scores)]]

(* Highest score first; the row's position breaks ties.                    *)
ScoreDeciles(p, groups) ==
  LET score == Score(p)
  IN  Grouped(score, Ordered(Rows(p), LAMBDA j, i :
        score[j] > score[i] \/ (score[j] = score[i] /\ j < i)), groups)

\* Faulty: highest score first.
RankingTableDescending(p, groups) ==
  LET score == Score(p)
  IN  Grouped(score, Ordered(Rows(p), LAMBDA j, i :
        score[j] > score[i] \/ (score[j] = score[i] /\ j < i)), groups)

(* The final evaluation's table: lowest score first.                       *)
RankingTable(p, groups) ==
  LET score == Score(p)
  IN  Grouped(score, Ordered(Rows(p), LAMBDA j, i :
        score[j] < score[i] \/ (score[j] = score[i] /\ j < i)), groups)

\* Faulty: the edges of equally wide bins.
EqualWidthEdges(p, bins) == {j * TopP : j \in 1..(bins - 1)}

(* The quantiles j/bins of the probabilities, times bins: numpy's linear   *)
(* interpolation between the two nearest, without repetitions and strictly *)
(* inside the range.                                                       *)
QuantileEdges(p, bins) ==
  LET order == Ordered(Rows(p), LAMBDA j, i : p[j] < p[i] \/ (p[j] = p[i] /\ j < i))
      quantile(j) ==
        LET at   == j * (Len(p) - 1)
            low  == (at \div bins) + 1
            high == Min({low + 1, Len(p)})
        IN  p[order[low]] * (bins - (at % bins)) + p[order[high]] * (at % bins)
      range == {p[i] : i \in Rows(p)}
  IN  {e \in {quantile(j) : j \in 1..(bins - 1)} :
         bins * Min(range) < e /\ e < bins * Max(range)}

(* np.searchsorted with side="right": a value at an edge is above it.      *)
BinOf(value, edges) == Cardinality({e \in edges : e <= value})

(* The rows of each nonempty bin, lowest probabilities first.              *)
Reliability(p, bins) ==
  LET edges  == QuantileEdges(p, bins)
      labels == {BinOf(bins * p[i], edges) : i \in Rows(p)}
      label  == Ordered(labels, LAMBDA k, l : k < l)
  IN  [b \in 1..Cardinality(labels) |->
         {i \in Rows(p) : BinOf(bins * p[i], edges) = label[b]}]

(* The middle of a gap in floating point: to the even neighbour.           *)
Middle(a, b) ==
  LET half == (a + b) \div 2
  IN  IF (a + b) % 2 = 1 /\ half % 2 = 1 THEN half + 1 ELSE half

\* Faulty: deciles that share a score are accepted.
BuildBaselineWithTies(deciles, groups) ==
  LET n     == Len(deciles)
      inner == 1..(n - 1)
      row   == [b \in 1..n |-> deciles[n + 1 - b]]
  IN  IF n # groups \/ \E b \in inner : row[b].max > row[b + 1].min
      THEN Refused
      ELSE [boundaries |-> [b \in inner |-> Middle(row[b].max, row[b + 1].min)],
            counts |-> [b \in 1..n |-> row[b].count],
            gaps |-> {row[b + 1].min - row[b].max : b \in inner}]

(* The monitoring baseline, from the deciles in ascending order.  Scores   *)
(* in two deciles of which neither is wholly below the other are refused.  *)
BuildBaseline(deciles, groups) ==
  LET low   == Ordered(DOMAIN deciles, LAMBDA h, g :
                 \/ deciles[h].min < deciles[g].min
                 \/ deciles[h].min = deciles[g].min /\ h < g)
      row   == [b \in DOMAIN deciles |-> deciles[low[b]]]
      inner == 1..(Len(deciles) - 1)
  IN  IF Len(deciles) # groups \/ \E b \in inner : row[b].max >= row[b + 1].min
      THEN Refused
      ELSE [boundaries |-> [b \in inner |-> Middle(row[b].max, row[b + 1].min)],
            counts |-> [b \in DOMAIN deciles |-> row[b].count],
            gaps |-> {row[b + 1].min - row[b].max : b \in inner}]

(* Monitoring counts scores into the bins of the baseline, and refuses     *)
(* boundaries that do not increase.                                        *)
BinCounts(scores, boundaries) ==
  IF \E b \in 1..(Len(boundaries) - 1) : boundaries[b] >= boundaries[b + 1]
  THEN <<>>
  ELSE [b \in 1..(Len(boundaries) + 1) |->
          Cardinality({i \in DOMAIN scores :
            Cardinality({c \in DOMAIN boundaries : boundaries[c] <= scores[i]}) = b - 1})]

-----------------------------------------------------------------------------

ScoreTablesInit ==
  /\ \/ \E p \in Columns, groups \in 1..MaxGroups :
          task = [kind |-> "scores", p |-> p, groups |-> groups]
     \/ \E p \in Columns, bins \in 1..MaxBins :
          task = [kind |-> "reliability", p |-> p, bins |-> bins]
  /\ answer = Pending

(* Deciles are published only after the ranking has been validated, and    *)
(* the baseline is built from the published ones; the final evaluation     *)
(* makes its table of the same scores without it, but publishes nothing    *)
(* when the ranking fails.                                                 *)
RankScores ==
  /\ task.kind = "scores"
  /\ answer = Pending
  /\ answer' = IF ~ RankValidated(task.p) THEN Refused
               ELSE [deciles |-> ScoreDeciles(task.p, task.groups), ranking |-> RankingTable(task.p, task.groups),
                     baseline |-> BuildBaseline(ScoreDeciles(task.p, task.groups), task.groups)]
  /\ UNCHANGED task

BinPredictions ==
  /\ task.kind = "reliability"
  /\ answer = Pending
  /\ answer' = [bins |-> Reliability(task.p, task.bins)]
  /\ UNCHANGED task

ScoreTablesNext == RankScores \/ BinPredictions

ScoreTablesSpec == ScoreTablesInit /\ [][ScoreTablesNext]_vars

-----------------------------------------------------------------------------

Published == Answered("scores") /\ answer # Refused

Binned == Answered("reliability")

Distinct(p) == \A i, j \in Rows(p) : p[i] = p[j] => i = j

Partitions(parts, p) ==
  /\ {} \notin {parts[g] : g \in DOMAIN parts}
  /\ UNION {parts[g] : g \in DOMAIN parts} = Rows(p)
  /\ \A g, h \in DOMAIN parts : g # h => parts[g] \cap parts[h] = {}

(* The published deciles order the probabilities, and not only the scores  *)
(* that clipping can make equal: every row is in one decile, nobody in an  *)
(* earlier decile has a higher probability than somebody in a later one,   *)
(* and no decile is more than one row larger than another (score_deciles,  *)
(* rank_validation).                                                       *)
DecilesFollowRisk ==
  Published =>
    /\ Partitions([g \in DOMAIN answer.deciles |-> answer.deciles[g].rows], task.p)
    /\ \A g, h \in DOMAIN answer.deciles :
         /\ answer.deciles[g].count - answer.deciles[h].count \in -1..1
         /\ g < h => \A i \in answer.deciles[g].rows, j \in answer.deciles[h].rows :
                       task.p[i] <= task.p[j]

(* Decile numbers mean opposite things in the two tables, and only that:   *)
(* without ties, and when the deciles have all the same size, the final    *)
(* evaluation's table is the other read backwards (score_deciles,          *)
(* ranking_tables).                                                        *)
TablesMirror ==
  Published /\ Distinct(task.p) /\ Len(task.p) % task.groups = 0 =>
    \A g \in DOMAIN answer.deciles :
      answer.deciles[g] = answer.ranking[Len(answer.ranking) + 1 - g]

(* Monitoring finds the population that the baseline was made from where   *)
(* the baseline says it is: a baseline that is accepted has boundaries     *)
(* that bin_counts accepts, and the scores counted into them give its own  *)
(* counts, so that their stability index is zero.  Two deciles whose       *)
(* scores are neighbouring floats are the exception, for the middle of     *)
(* their gap is one of the two (build_baseline, bin_counts).               *)
BaselineCountsItself ==
  Published /\ answer.baseline # Refused =>
    1 \in answer.baseline.gaps \/
      BinCounts(Score(task.p), answer.baseline.boundaries) = answer.baseline.counts

(* Without ties the reliability bins are as equally filled as can be,      *)
(* though the quantiles are interpolated and values at an edge go up; with *)
(* ties no probability is found in two bins (reliability).                 *)
BinsAreEquallyFilled ==
  Binned =>
    /\ Len(answer.bins) \in 1..task.bins
    /\ Partitions(answer.bins, task.p)
    /\ \A b, c \in DOMAIN answer.bins :
         /\ Distinct(task.p) =>
              Cardinality(answer.bins[b]) - Cardinality(answer.bins[c]) \in -1..1
         /\ b < c => \A i \in answer.bins[b], j \in answer.bins[c] : task.p[i] < task.p[j]

=============================================================================
