---------------------------- MODULE Explanation ----------------------------
(***************************************************************************)
(* What is made of the contributions of the transformed columns to the     *)
(* margin of each row: sums by source feature and by family, the global    *)
(* importances, and the score points and drivers of one record             *)
(* (explainability/aggregation.py, local.py, reason_codes.py, score.py).   *)
(* As in Selection, a behaviour is given one task and answers it.          *)
(*                                                                         *)
(* Features are named by numbers, in the order of their names.  The        *)
(* contributions are integers; that base and contributions add up to the   *)
(* margin has been checked before (shap_explainer.py).  The score is       *)
(* linear in the margin up to where the probability is clipped.            *)
(***************************************************************************)
EXTENDS Task, Integers, Sequences, FiniteSets, FiniteSetsExt, Functions

CONSTANTS
  Width,        \* columns, and at most as many sources and families
  TopShap,      \* bound on the contribution of a column
  GlobalRows,   \* rows of a global explanation
  TopMargin,    \* beyond this margin the probability is clipped for the score
  Factor,       \* points of score in a unit of the margin
  Offset        \* the score of the margin 0

ASSUME ExplanationAssumption ==
  /\ {Width, TopShap, GlobalRows, Factor} \subseteq Nat \ {0}
  /\ {TopMargin, Offset} \subseteq Nat

Names == 1..Width
Contributions == [Names -> -TopShap..TopShap]

(* Lineage: each column is of one source, and each source of one family.   *)
Lineages == {l \in [Names -> Names] : \A n \in Names : l[n] <= n}

GlobalTasks ==
  [kind : {"importance"}, values : [1..GlobalRows -> [Names -> -1..1]],
   source : Lineages, family : Lineages]

LocalTasks ==
  [kind : {"record"}, values : Contributions, source : Lineages,
   base : {0, TopMargin}, top_k : 1..2, identity : BOOLEAN]

Abs(x) == IF x < 0 THEN -x ELSE x

SumOf(row, columns) == MapThenSumSet(LAMBDA c : row[c], columns)
Total(row) == SumOf(row, DOMAIN row)

(* One row of aggregate: signed sums over the columns with a label.        *)
Aggregate(row, label) ==
  [n \in Range(label) |-> SumOf(row, {c \in DOMAIN row : label[c] = n})]

(* The check at the end of aggregate.                                      *)
TotalKept(row, label) == Total(Aggregate(row, label)) = Total(row)

(* The greater is before the smaller, and of equals the name decides.      *)
Ranked(names, weight) ==
  Ordered(names, LAMBDA a, b :
    weight[a] > weight[b] \/ (weight[a] = weight[b] /\ a < b))

(* The means are left as sums over the same number of rows.                *)
Importance(values) ==
  LET names == DOMAIN values[1]
      magnitude == [n \in names |-> Total([r \in DOMAIN values |-> Abs(values[r][n])])]
      signed == [n \in names |-> Total([r \in DOMAIN values |-> values[r][n]])]
      order == Ranked(names, magnitude)
  IN  [i \in DOMAIN order |->
         [name |-> order[i], magnitude |-> magnitude[order[i]],
          signed |-> signed[order[i]]]]

GlobalImportance(values, source, family) ==
  LET bySource == [r \in DOMAIN values |-> Aggregate(values[r], source)]
      byFamily == [r \in DOMAIN values |->
                     Aggregate(bySource[r], [s \in Range(source) |-> family[s]])]
      kept == \A r \in DOMAIN values :
                /\ TotalKept(values[r], source)
                /\ TotalKept(bySource[r], [s \in Range(source) |-> family[s]])
  IN  IF ~kept THEN Refused
      ELSE [columns |-> Importance(values), sources |-> Importance(bySource),
            families |-> Importance(byFamily), rows |-> byFamily]

Clipped(margin) == margin \notin -TopMargin..TopMargin

(* InternalScore.transform, of the probability of a margin.                *)
ScoreOf(margin) == Offset - Factor * Max({-TopMargin, Min({margin, TopMargin})})

(* Faulty: decomposed whether or not the score was clipped.                *)
SupportedAlways(margin, identity) == identity

Supported(margin, identity) == identity /\ ~Clipped(margin)

(* Faulty: the strongest are taken first, then those of the direction.     *)
DriversOfTheStrongest(values, sign, top_k) ==
  LET strongest == SubSeq(Ranked(DOMAIN values, [s \in DOMAIN values |-> Abs(values[s])]),
                          1, Min({top_k, Cardinality(DOMAIN values)}))
  IN  SelectSeq(strongest, LAMBDA s : sign * values[s] > 0)

(* One direction of reason_codes.                                          *)
Drivers(values, sign, top_k) ==
  LET pushing == {s \in DOMAIN values : sign * values[s] > 0}
  IN  SubSeq(Ranked(pushing, [s \in pushing |-> sign * values[s]]),
             1, Min({top_k, Cardinality(pushing)}))

(* The points of the sources, which have to add up to the score.           *)
Decompose(base, values, margin, identity) ==
  LET points    == [s \in DOMAIN values |-> -Factor * values[s]]
      scoreBase == Offset - Factor * base
      supported == Supported(margin, identity)
  IN  [supported |-> supported, points |-> points, scoreBase |-> scoreBase,
       failed |-> supported /\ scoreBase + Total(points) # ScoreOf(margin)]

(* explain_record, of a margin that is base and contributions; another     *)
(* calibration than the identity is refused.                               *)
ExplainRecord(t) ==
  LET margin == t.base + Total(t.values)
      values == Aggregate(t.values, t.source)
      decomposition == Decompose(t.base, values, margin, t.identity)
  IN  IF ~t.identity \/ ~TotalKept(t.values, t.source) \/ decomposition.failed THEN Refused
      ELSE [margin |-> margin, score |-> ScoreOf(margin),
            supported |-> decomposition.supported, contributions |-> values,
            increasing |-> Drivers(values, 1, t.top_k),
            decreasing |-> Drivers(values, -1, t.top_k)]

-----------------------------------------------------------------------------

ExplanationInit ==
  /\ task \in GlobalTasks \cup LocalTasks
  /\ answer = Pending

ExplainGlobally ==
  /\ task.kind = "importance"
  /\ answer = Pending
  /\ answer' = GlobalImportance(task.values, task.source, task.family)
  /\ UNCHANGED task

ExplainLocally ==
  /\ task.kind = "record"
  /\ answer = Pending
  /\ answer' = ExplainRecord(task)
  /\ UNCHANGED task

ExplanationNext == ExplainGlobally \/ ExplainLocally

ExplanationSpec == ExplanationInit /\ [][ExplanationNext]_vars

-----------------------------------------------------------------------------

SignedTotal(ranking) ==
  Total([i \in DOMAIN ranking |-> ranking[i].signed])

(* An explanation adds up on every level, although a family is summed from *)
(* sources and not from columns, and none of the checks on the way ever    *)
(* fails: each row's value of a family is the sum of its columns, the      *)
(* signed importances of columns, sources and families have one total, and *)
(* a family weighs less than its columns together exactly where they       *)
(* cancel in a row ("aggregate signed local contributions before global    *)
(* magnitude", aggregate, global_importance).  A record is explained       *)
(* unless the calibration is not the identity, its sources give the margin *)
(* from the base, and only a clipped score goes without points             *)
(* (explain_record, decompose).                                            *)
ExplanationAddsUp ==
  /\ Answered("importance") =>
       LET of(f) == {c \in Names : task.family[task.source[c]] = f}
       IN  /\ answer # Refused
           /\ SignedTotal(answer.columns) = SignedTotal(answer.sources)
           /\ SignedTotal(answer.sources) = SignedTotal(answer.families)
           /\ \A r \in 1..GlobalRows : \A f \in DOMAIN answer.rows[r] :
                answer.rows[r][f] = SumOf(task.values[r], of(f))
           /\ \A i \in DOMAIN answer.families :
                LET f == answer.families[i].name
                    apart == SumOf([j \in DOMAIN answer.columns |-> answer.columns[j].magnitude],
                               {j \in DOMAIN answer.columns : answer.columns[j].name \in of(f)})
                IN  /\ answer.families[i].magnitude <= apart
                    /\ answer.families[i].magnitude < apart <=>
                         \E r \in 1..GlobalRows, b, c \in of(f) :
                           task.values[r][b] > 0 /\ task.values[r][c] < 0
  /\ Answered("record") =>
       /\ answer = Refused <=> ~task.identity
       /\ answer # Refused =>
            /\ task.base + Total(answer.contributions) = answer.margin
            /\ answer.supported <=> ~Clipped(task.base + Total(task.values))

(* The drivers of a direction are the strongest sources that push in it:   *)
(* none is missing while there is room, none that is listed is weaker than *)
(* one that is not, and ties go by name, whatever the columns' order and   *)
(* however strong the other direction is.                                  *)
DriversAreTheStrongest ==
  Answered("record") /\ answer # Refused =>
    \A sign \in {1, -1} :
      LET list == IF sign = 1 THEN answer.increasing ELSE answer.decreasing
          push == [s \in DOMAIN answer.contributions |-> sign * answer.contributions[s]]
          listed == {list[i] : i \in DOMAIN list}
          Stronger(a, b) == push[a] > push[b] \/ (push[a] = push[b] /\ a < b)
      IN  /\ \A s \in listed : push[s] > 0
          /\ \A i, j \in DOMAIN list : i < j => Stronger(list[i], list[j])
          /\ \A s \in DOMAIN push \ listed :
               push[s] > 0 => Len(list) = task.top_k /\ \A l \in listed : Stronger(l, s)

=============================================================================
