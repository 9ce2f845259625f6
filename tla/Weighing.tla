------------------------------ MODULE Weighing ------------------------------
(***************************************************************************)
(* How a score is computed from the stamps that deduplication kept, in     *)
(* Python (scorer_weighted/computation.py, registry/atasks.py) and in Rust *)
(* (rust-scorer/src/domain/scoring.rs, models/translation.rs), while       *)
(* administrators change the weights it reads.  ScorePipeline and          *)
(* RustScorer have where the stamps come from and when the row is saved.   *)
(***************************************************************************)
EXTENDS Integers, Sequences, FiniteSets, FiniteSetsExt, Functions

CONSTANTS
  Providers,
  ListStamps,   \* those of allow lists, AllowList#name
  RuleStamps,   \* and those of custom credentials
  WeightSets,   \* the weights a scorer may have
  Thresholds,
  CustomWeight, \* the weight that a customization gives
  KeptStamps,   \* what deduplication keeps: sequences of stamps
  ClashSets,    \* and takes out: the expiry of each provider's stamp
  NoWeight, NoDate

VARIABLES
  weights,      \* of the scorer
  threshold,
  custom,       \* weights of the community's customization, or NoWeight
  scoring,      \* the scoring: its program, step, and what it has read
  fields,          \* the fields of the Score it is about to save
  sure          \* history: the providers whose weight did not change meanwhile

weighVars == <<weights, threshold, custom, scoring, fields, sure>>

Customized == ListStamps \cup RuleStamps
NoRow == [raw |-> 0, threshold |-> 0, success |-> FALSE, points |-> <<>>,
          expires |-> NoDate, stamps |-> <<>>]
NoScoring == [program |-> "none", step |-> "ready", kept |-> <<>>,
              clashing |-> <<>>, weights |-> <<>>, threshold |-> 0]

WeighTypeOK ==
  /\ weights \in WeightSets
  /\ threshold \in Thresholds
  /\ custom \in [Customized -> {NoWeight, CustomWeight}]
  /\ scoring.program \in {"none", "python", "rust"}
  /\ scoring.step \in {"ready", "lists", "credentials", "stamps", "save"}
  /\ scoring.step # "ready" => scoring.kept \in KeptStamps
  /\ DOMAIN fields.points \subseteq DOMAIN fields.stamps
  /\ sure \subseteq Providers

WeighInit ==
  /\ weights \in WeightSets
  /\ threshold \in Thresholds
  /\ custom = [p \in Customized |-> NoWeight]
  /\ scoring = NoScoring
  /\ fields = NoRow
  /\ sure = Providers

-----------------------------------------------------------------------------
(* The command recalculate_scores, or an administrator.                    *)
ChangeWeights ==
  /\ \E w \in WeightSets \ {weights} :
       /\ weights' = w
       /\ sure' = {p \in sure : w[p] = weights[p]}
  /\ UNCHANGED <<threshold, custom, scoring, fields>>

(* Allow lists and custom credentials come to a customization, and go.     *)
ChangeCustom ==
  /\ \E p \in Customized, w \in {NoWeight, CustomWeight} :
       custom' = [custom EXCEPT ![p] = w] /\ sure' = sure \ {p}
  /\ UNCHANGED <<weights, threshold, scoring, fields>>

-----------------------------------------------------------------------------
(* Only the first stamp of a provider counts.                              *)
Counted(kept) ==
  {i \in DOMAIN kept : \A j \in 1..(i - 1) : kept[j].provider # kept[i].provider}
ProvidersOf(kept) == {kept[i].provider : i \in DOMAIN kept}
Repeated(kept) == {kept[i].provider : i \in DOMAIN kept \ Counted(kept)}
CountedOf(kept, p) == kept[CHOOSE i \in Counted(kept) : kept[i].provider = p]
LastOf(kept, p) ==
  kept[CHOOSE i \in DOMAIN kept : /\ kept[i].provider = p
                                  /\ \A j \in DOMAIN kept :
                                       kept[j].provider = p => j <= i]

SumOfWeights(w, kept) ==
  MapThenSumSet(LAMBDA i : w[kept[i].provider], Counted(kept))
Earliest(kept) ==
  IF kept = <<>> THEN NoDate ELSE Min({kept[i].expires : i \in Counted(kept)})

ShownAs(points, dedup, expires) ==
  [score |-> points, dedup |-> dedup, expires |-> expires]

RowWith(w, limit, kept, expires, points, stamps) ==
  [raw |-> SumOfWeights(w, kept), threshold |-> limit,
   success |-> SumOfWeights(w, kept) >= limit, points |-> points,
   expires |-> expires, stamps |-> stamps]

(* acalculate_weighted_score, with the fields that acalculate_score makes  *)
(* of it: a repeated stamp sets the points of its provider to 0 although   *)
(* the sum counts the first, and a clashing one its mark and date.         *)
PythonRow(w, limit, kept, clashing) ==
  LET points == [p \in ProvidersOf(kept) |-> IF p \in Repeated(kept) THEN 0
                                             ELSE w[p]] IN
  RowWith(w, limit, kept, Earliest(kept), points,
    [p \in ProvidersOf(kept) \cup DOMAIN clashing |->
       ShownAs(IF p \in DOMAIN points THEN points[p] ELSE 0,
             p \in DOMAIN clashing,
             IF p \in DOMAIN clashing THEN clashing[p]
             ELSE CountedOf(kept, p).expires)])

(* Plausible bug: the expiry is that of the last stamp read.               *)
PythonRowLastExpiry(w, limit, kept, clashing) ==
  [PythonRow(w, limit, kept, clashing) EXCEPT
     !.expires = IF kept = <<>> THEN NoDate ELSE kept[Len(kept)].expires]

(* build_scoring_result and to_django_score_fields: repeated stamps, and   *)
(* then the clashing ones, are shown as deduplicated over the counted.     *)
RustRow(w, limit, kept, clashing) ==
  RowWith(w, limit, kept, Earliest(kept), [p \in ProvidersOf(kept) |-> w[p]],
    [p \in ProvidersOf(kept) \cup DOMAIN clashing |->
       IF p \in DOMAIN clashing THEN ShownAs(0, TRUE, clashing[p])
       ELSE IF p \in Repeated(kept) THEN ShownAs(0, TRUE, LastOf(kept, p).expires)
       ELSE ShownAs(w[p], FALSE, CountedOf(kept, p).expires)])

-----------------------------------------------------------------------------
(* aget_scorer, or load_scorer_config: weights and threshold of one row.   *)
ReadScorer(program, next) ==
  /\ scoring.step = "ready"
  /\ \E kept \in KeptStamps, clashing \in ClashSets :
       scoring' = [program |-> program, step |-> next, kept |-> kept,
                   clashing |-> clashing, weights |-> weights,
                   threshold |-> threshold]
  /\ sure' = Providers
  /\ UNCHANGED <<weights, threshold, custom, fields>>

ReadPythonScorer == ReadScorer("python", "lists")
ReadRustScorer == ReadScorer("rust", "stamps")

Overridden(from) ==
  [p \in Providers |-> IF p \in from /\ custom[p] # NoWeight THEN custom[p]
                       ELSE scoring.weights[p]]

ReadCustom(step, from, next) ==
  /\ scoring.step = step
  /\ scoring' = [scoring EXCEPT !.step = next, !.weights = Overridden(from)]
  /\ UNCHANGED <<weights, threshold, custom, fields, sure>>

(* aget_customization_dynamic_weights, two queries.                        *)
ReadLists == ReadCustom("lists", ListStamps, "credentials")
ReadCredentials == ReadCustom("credentials", RuleStamps, "stamps")

(* Plausible bug: the scorer's weights take precedence where it has some.  *)
ReadCredentialsAfter ==
  /\ scoring.step = "credentials"
  /\ scoring' = [scoring EXCEPT !.step = "stamps", !.weights =
       [p \in Providers |-> IF scoring.weights[p] # 0 THEN scoring.weights[p]
                            ELSE Overridden(RuleStamps)[p]]]
  /\ UNCHANGED <<weights, threshold, custom, fields, sure>>

(* The rows of the stamps come from the table in any order.                *)
Orders(kept) ==
  {[i \in DOMAIN kept |-> kept[f[i]]] : f \in Bijection(DOMAIN kept, DOMAIN kept)}

Weigh ==
  /\ scoring.step = "stamps"
  /\ \/ /\ scoring.program = "python"
        /\ \E kept \in Orders(scoring.kept) :
             fields' = PythonRow(scoring.weights, scoring.threshold, kept,
                              scoring.clashing)
     \/ /\ scoring.program = "rust"
        /\ fields' = RustRow(scoring.weights, scoring.threshold, scoring.kept,
                          scoring.clashing)
  /\ scoring' = [scoring EXCEPT !.step = "save"]
  /\ UNCHANGED <<weights, threshold, custom, sure>>

(* score.asave, or upsert_score.                                           *)
SaveRow ==
  /\ scoring.step = "save"
  /\ scoring' = NoScoring
  /\ fields' = NoRow
  /\ UNCHANGED <<weights, threshold, custom, sure>>

WeighNext ==
  \/ ChangeWeights \/ ChangeCustom
  \/ ReadPythonScorer \/ ReadRustScorer \/ ReadLists \/ ReadCredentials
  \/ Weigh \/ SaveRow

-----------------------------------------------------------------------------
Saving == scoring.step = "save"
Plain(kept, clashing) ==
  Repeated(kept) = {} /\ ProvidersOf(kept) \cap DOMAIN clashing = {}

(* What a row shows adds up: the stamps that count give its raw score,     *)
(* unless their provider has two, and none of them is past when the score  *)
(* expires; the score passes if its evidence says so.                      *)
RowsAddUp ==
  LET counted == {p \in DOMAIN fields.stamps : ~fields.stamps[p].dedup}
      total == MapThenSumSet(LAMBDA p : fields.stamps[p].score, counted) IN
  Saving =>
    /\ (fields.success <=> fields.raw >= fields.threshold)
    /\ total <= fields.raw
    /\ Plain(scoring.kept, scoring.clashing) =>
         /\ total = fields.raw
         /\ counted = DOMAIN fields.points
         /\ \A p \in counted : fields.expires <= fields.stamps[p].expires
         /\ counted # {} => \E p \in counted : fields.expires = fields.stamps[p].expires

(* A stamp weighs what the community's customization gives it, and only    *)
(* without one what the scorer does, if neither changed while the score    *)
(* was computed; in Rust it always weighs what the scorer gives it.        *)
WeightsAreTheirs ==
  Saving =>
    \A p \in DOMAIN fields.points \cap (sure \ Repeated(scoring.kept)) :
      fields.points[p] =
        IF scoring.program = "python" /\ p \in Customized
             /\ custom[p] # NoWeight
        THEN custom[p] ELSE weights[p]

(* From the same stamps both programs save the same row, in whatever order *)
(* they meet them, where no customization gives weights, no provider has   *)
(* two and none is both kept and taken out.                                *)
ProgramsAgree ==
  (\A p \in Customized : custom[p] = NoWeight) =>
    \A kept \in KeptStamps, clashing \in ClashSets :
      Plain(kept, clashing) =>
        \A order \in Orders(kept) :
          PythonRow(weights, threshold, order, clashing)
            = RustRow(weights, threshold, kept, clashing)
=============================================================================
