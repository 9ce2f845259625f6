----------------------------- MODULE Rescoring -----------------------------
(***************************************************************************)
(* The weights of scorers and the recalculation of many communities        *)
(* (src/api/registry: weight_models.py, admin.py, recalculate_scores.py).  *)
(* An administrator activates a configuration.  The command copies it to   *)
(* the scorers, one kind after the other, and walks through the passports  *)
(* of each community by id, in batches; scoring requests and new passports *)
(* come in between.  Every statement commits by itself.  ScorePipeline has *)
(* what happens to one passport in detail.                                 *)
(***************************************************************************)
EXTENDS Integers, FiniteSets

CONSTANTS
  Versions,      \* the configurations
  Groups,        \* the communities, in the order the command takes them: 1..n
  Binary,        \* those with a binary scorer
  Commands,      \* the runs of the command, the admin action, the lambda
  Scorers,       \* workers that score passports
  FirstPassports, \* the community of each passport at the start, by id
  MaxPassport,   \* bound on the ids of passports
  BatchLimit     \* batch_size

VARIABLES
  config,      \* the active WeightConfiguration
  weights,     \* the configuration that the scorer of each community copies
  threshold,   \* and the one its threshold is from
  passports,   \* the community of each passport
  scored,      \* the weights that each Score was computed with, or Unscored
  command,     \* each run: its step, what it has read, and its RescoreRequest
  scoring,     \* each worker: the passport and weights it has read
  torn,        \* history: scorers set by a run that saw an activation between
               \* its two reads
  outdated,    \* history: communities without a successful recalculation since
               \* their weights changed
  late         \* history: passports last scored with weights read before they
               \* changed

rescoreVars == <<config, weights, threshold, passports, scored, command,
                 scoring, torn, outdated, late>>

Unscored == 0
Ready ==
  [step |-> "ready", weights |-> 0, threshold |-> 0, at |-> 0, last |-> 0,
   batch |-> {}, done |-> 0, status |-> "none", sure |-> {}]
Resting == [passport |-> 0, weights |-> 0]
PassportIds == DOMAIN passports
Of(g) == {p \in PassportIds : passports[p] = g}

RescoreTypeOK ==
  /\ config \in Versions
  /\ weights \in [Groups -> Versions] /\ threshold \in [Groups -> Versions]
  /\ PassportIds \in {1..n : n \in 0..MaxPassport}
  /\ passports \in [PassportIds -> Groups]
  /\ scored \in [PassportIds -> Versions \cup {Unscored}]
  /\ \A k \in Commands :
       /\ command[k].step \in {"ready", "weights", "threshold", "weighted",
            "binary", "create", "community", "batch", "write", "count", "over"}
       /\ command[k].batch \subseteq PassportIds
       /\ command[k].status \in {"none", "RUNNING", "SUCCESS", "FAILED"}
       /\ command[k].status = "SUCCESS" => command[k].done = Cardinality(Groups)
  /\ \A s \in Scorers : scoring[s].passport \in PassportIds \cup {0}

RescoreInit ==
  /\ config \in Versions
  /\ weights = [g \in Groups |-> config]
  /\ threshold = [g \in Groups |-> config]
  /\ passports = FirstPassports
  /\ scored = [p \in DOMAIN FirstPassports |-> config]
  /\ command = [k \in Commands |-> Ready]
  /\ scoring = [s \in Scorers |-> Resting]
  /\ torn = {}
  /\ outdated = {}
  /\ late = {}

-----------------------------------------------------------------------------
(* activate_configuration, a transaction.                                  *)
Activate ==
  /\ \E v \in Versions \ {config} : config' = v
  /\ UNCHANGED <<weights, threshold, passports, scored, command, scoring, torn,
                 outdated, late>>

Move(k, from, to) ==
  command[k].step = from /\ command' = [command EXCEPT ![k] = to]
At(k, step) == [command[k] EXCEPT !.step = step]

(* A run that is over has left its RescoreRequest.                         *)
Over(k, status) ==
  [Ready EXCEPT !.step = "over", !.done = command[k].done, !.status = status]

(* Command.handle.                                                         *)
StartCommand(k) ==
  /\ Move(k, "ready", At(k, "weights"))
  /\ UNCHANGED <<config, weights, threshold, passports, scored, scoring, torn,
                 outdated, late>>

(* The lambda, which an admin action calls, leaves the weights alone.      *)
StartRescore(k) ==
  /\ Move(k, "ready", At(k, "create"))
  /\ UNCHANGED <<config, weights, threshold, passports, scored, scoring, torn,
                 outdated, late>>

(* get_active_weights, and get_active_threshold in a query of its own.     *)
ReadWeights(k) ==
  /\ Move(k, "weights", [At(k, "threshold") EXCEPT !.weights = config])
  /\ UNCHANGED <<config, weights, threshold, passports, scored, scoring, torn,
                 outdated, late>>

ReadThreshold(k) ==
  /\ Move(k, "threshold", [At(k, "weighted") EXCEPT !.threshold = config])
  /\ UNCHANGED <<config, weights, threshold, passports, scored, scoring, torn,
                 outdated, late>>

(* An UPDATE of the weights of some scorers; who has loaded one of them     *)
(* goes on with what it has loaded.                                        *)
Copy(k, groups, from, next) ==
  LET changed == {g \in groups : weights[g] # command[k].weights} IN
  /\ command[k].step = from
  /\ weights' = [g \in Groups |-> IF g \in groups THEN command[k].weights
                                  ELSE weights[g]]
  /\ outdated' = outdated \cup changed
  /\ command' = [c \in Commands |->
       [IF c = k THEN At(k, next) ELSE command[c] EXCEPT !.sure = @ \ changed]]
  /\ UNCHANGED <<config, passports, scored, scoring, late>>

(* weighted_scorers.update, which leaves their threshold alone.            *)
UpdateWeighted(k) ==
  /\ Copy(k, Groups \ Binary, "weighted", "binary")
  /\ UNCHANGED <<threshold, torn>>

UpdateBinaryTo(k, value) ==
  /\ Copy(k, Binary, "binary", "create")
  /\ threshold' = [g \in Groups |->
       IF g \in Binary THEN value ELSE threshold[g]]
  /\ torn' = IF command[k].weights = command[k].threshold
             THEN torn \ Binary ELSE torn \cup Binary

(* Plausible bug: the threshold is read again for the update.              *)
UpdateBinaryAnew(k) == UpdateBinaryTo(k, config)

(* binary_weighted_scorers.update, of both columns.                        *)
UpdateBinary(k) == UpdateBinaryTo(k, command[k].threshold)

-----------------------------------------------------------------------------
(* recalculate_scores creates the RescoreRequest.                          *)
CreateRequest(k) ==
  /\ Move(k, "create",
          [At(k, "community") EXCEPT !.at = 1, !.status = "RUNNING"])
  /\ UNCHANGED <<config, weights, threshold, passports, scored, scoring, torn,
                 outdated, late>>

LoadScorerAt(k, last) ==
  LET g == command[k].at IN
  /\ Move(k, "community",
          [At(k, "batch") EXCEPT !.weights = weights[g], !.last = last,
                                 !.sure = @ \cup {g}])
  /\ UNCHANGED <<config, weights, threshold, passports, scored, scoring, torn,
                 outdated, late>>

(* Plausible bug: last_id goes on from the community before.               *)
LoadScorerOnly(k) == LoadScorerAt(k, command[k].last)

(* community.get_scorer(), and last_id = 0.                                *)
LoadScorer(k) == LoadScorerAt(k, 0)

(* The next passports of the community by id, their stamps and points.     *)
ReadPassports(k) ==
  LET rest == {p \in Of(command[k].at) : p > command[k].last}
      page == {p \in rest : Cardinality({q \in rest : q <= p}) <= BatchLimit} IN
  /\ Move(k, "batch",
          IF page = {} THEN At(k, "count")
          ELSE [At(k, "write") EXCEPT !.batch = page,
                  !.last = CHOOSE p \in page : \A q \in page : q <= p])
  /\ UNCHANGED <<config, weights, threshold, passports, scored, scoring, torn,
                 outdated, late>>

(* What a Score computed with these weights makes of the history.          *)
Score(ps, v) ==
  /\ scored' = [p \in PassportIds |-> IF p \in ps THEN v ELSE scored[p]]
  /\ late' = (late \ ps) \cup {p \in ps : weights[passports[p]] # v}

(* bulk_create and bulk_update.                                            *)
WriteScores(k) ==
  /\ Move(k, "write", [At(k, "batch") EXCEPT !.batch = {}])
  /\ Score(command[k].batch, command[k].weights)
  /\ UNCHANGED <<config, weights, threshold, passports, scoring, torn,
                 outdated>>

CountCommunityAs(k, processed) ==
  LET x == command[k] IN
  /\ x.step = "count"
  /\ IF x.at < Cardinality(Groups)
     THEN /\ command' = [command EXCEPT ![k] =
               [At(k, "community") EXCEPT !.at = @ + 1, !.done = processed]]
          /\ UNCHANGED outdated
     ELSE /\ command' = [command EXCEPT ![k] =
               [Over(k, "SUCCESS") EXCEPT !.done = processed]]
          /\ outdated' = outdated \ x.sure
  /\ UNCHANGED <<config, weights, threshold, passports, scored, scoring, torn,
                 late>>

(* Plausible bug: the index of the community is taken for the number.      *)
CountCommunityIndex(k) == CountCommunityAs(k, command[k].at - 1)

(* num_communities_processed, and SUCCESS after the last community.        *)
CountCommunity(k) == CountCommunityAs(k, command[k].at)

(* An exception makes the request FAILED; a crash leaves it RUNNING.       *)
CommandFails(k) ==
  /\ command[k].step \notin {"ready", "over"}
  /\ command' = [command EXCEPT ![k] =
       Over(k, IF @.status = "none" THEN "none" ELSE "FAILED")]
  /\ UNCHANGED <<config, weights, threshold, passports, scored, scoring, torn,
                 outdated, late>>

CommandDies(k) ==
  /\ command[k].step \notin {"ready", "over"}
  /\ command' = [command EXCEPT ![k] = Over(k, @.status)]
  /\ UNCHANGED <<config, weights, threshold, passports, scored, scoring, torn,
                 outdated, late>>

-----------------------------------------------------------------------------
(* ascore_passport: a passport, perhaps a new one, and its scorer are read. *)
StartScoring(s) ==
  /\ scoring[s] = Resting
  /\ \/ \E p \in PassportIds :
          /\ scoring' = [scoring EXCEPT ![s] =
               [passport |-> p, weights |-> weights[passports[p]]]]
          /\ UNCHANGED <<passports, scored>>
     \/ \E g \in Groups :
          LET p == Cardinality(PassportIds) + 1 IN
          /\ p <= MaxPassport
          /\ passports' = [q \in 1..p |-> IF q = p THEN g ELSE passports[q]]
          /\ scored' = [q \in 1..p |-> IF q = p THEN Unscored ELSE scored[q]]
          /\ scoring' = [scoring EXCEPT ![s] =
               [passport |-> p, weights |-> weights[g]]]
  /\ UNCHANGED <<config, weights, threshold, command, torn, outdated, late>>

(* The request saves its score, fails, or dies.                            *)
EndScoring(s) ==
  /\ scoring[s] # Resting
  /\ \/ Score({scoring[s].passport}, scoring[s].weights)
     \/ UNCHANGED <<scored, late>>
  /\ scoring' = [scoring EXCEPT ![s] = Resting]
  /\ UNCHANGED <<config, weights, threshold, passports, command, torn,
                 outdated>>

CommandNext(k) ==
  \/ StartCommand(k) \/ StartRescore(k) \/ ReadWeights(k) \/ ReadThreshold(k)
  \/ UpdateWeighted(k) \/ UpdateBinary(k) \/ CreateRequest(k)
  \/ LoadScorer(k) \/ ReadPassports(k) \/ WriteScores(k)
  \/ CountCommunity(k) \/ CommandFails(k) \/ CommandDies(k)

ScoringNext(s) == StartScoring(s) \/ EndScoring(s)

-----------------------------------------------------------------------------
(* Once a recalculation that began after the weights changed is recorded   *)
(* as a success, every score of its communities is computed with the       *)
(* weights their scorer has, whatever passports and requests came in       *)
(* between; what was scored with weights read before is the exception.     *)
SuccessReachesAll ==
  \A p \in PassportIds :
    scored[p] \notin {Unscored, weights[passports[p]]} =>
      passports[p] \in outdated \/ p \in late

(* A binary scorer has its weights and its threshold from one and the same *)
(* configuration, also when activations and other runs come in between,    *)
(* unless one came between the two reads of the run that set them.         *)
ScorersAreConsistent ==
  \A g \in Binary : weights[g] = threshold[g] \/ g \in torn
=============================================================================
