------------------------------ MODULE Analyses ------------------------------
(***************************************************************************)
(* The analysis of an address by models behind other services              *)
(* (handle_get_analysis in passport/api.py): the models that were asked    *)
(* for are called at the same time and answer in any order; the aggregate  *)
(* model is then told what its submodels said, of which those that were    *)
(* not asked for are called first.                                         *)
(***************************************************************************)
EXTENDS Integers, Sequences, SequencesExt

CONSTANTS
  Models,     \* MODEL_ENDPOINTS, the aggregate among them
  Aggregate,  \* AGGREGATE_MODEL_NAME
  SubModels,  \* MODEL_AGGREGATION_NAMES
  Asked,      \* the model lists of clients, as sets of names
  MostCalls,  \* bound on the calls of one model
  None

VARIABLES
  analysis,  \* the request: its step, and whether one model is allowed only
  fetches,     \* the calls under way or done together: a model and its response
  paired,    \* the responses that were paired with their models
  payload,   \* what the aggregate model is told
  said       \* history: what each model said in each call

analysisVars == <<analysis, fetches, paired, payload, said>>

(* A response with the status 200 may come without data.                   *)
Kinds == {"ok", "empty", "bad"}
Response == [kind: Kinds, score: Models \X (1..MostCalls)]
Pair(model, response) == [model |-> model, response |-> response]
IsOk(p) == p.response.kind # "bad"

AnalysisTypeOK ==
  /\ analysis.step \in {"ready", "fetch", "submodels", "aggregate", "build",
                        "answered", "refused", "error"}
  /\ analysis.names \subseteq Models /\ analysis.single \in BOOLEAN
  /\ \A i \in DOMAIN fetches : fetches[i].response \in Response \cup {None}
  /\ \A p \in paired \cup payload : p \in [model: Models, response: Response]
  /\ \A m \in Models : said[m] \in Seq(Response) /\ Len(said[m]) <= MostCalls

AnalysisInit ==
  /\ analysis \in [step: {"ready"}, names: {{}}, single: BOOLEAN]
  /\ fetches = <<>>
  /\ paired = {}
  /\ payload = {}
  /\ said = [m \in Models |-> <<>>]

-----------------------------------------------------------------------------
Goto(step) == analysis' = [analysis EXCEPT !.step = step]

(* list(set(...)) puts them in any order.                                  *)
CallAll(models) ==
  \E order \in SetToSeqs(models) :
    fetches' = [i \in DOMAIN order |-> Pair(order[i], None)]

(* An empty list asks for a default; names that are not models, and more   *)
(* than one where one is allowed, are refused.                             *)
Ask ==
  /\ analysis.step = "ready"
  /\ \E names \in Asked :
       IF names \subseteq Models /\ (analysis.single => \A m, n \in names : m = n)
       THEN /\ analysis' = [analysis EXCEPT !.step = "fetch", !.names = names]
            /\ CallAll(names \ {Aggregate})
       ELSE Goto("refused") /\ UNCHANGED fetches
  /\ UNCHANGED <<paired, payload, said>>

(* A model answers one of the calls, at any time; an exception counts as a *)
(* response with the status 500.                                           *)
Respond(i, kind) ==
  LET m == fetches[i].model
      response == [kind |-> kind, score |-> <<m, Len(said[m]) + 1>>] IN
  /\ fetches[i].response = None
  /\ fetches' = [fetches EXCEPT ![i].response = response]
  /\ said' = [said EXCEPT ![m] = Append(@, response)]
  /\ UNCHANGED <<analysis, paired, payload>>

ModelAnswers == \E i \in DOMAIN fetches, kind \in Kinds : Respond(i, kind)

(* Plausible bug: responses are collected in the order in which they come. *)
FetchAsCompleted ==
  \E i \in DOMAIN fetches, kind \in Kinds :
    LET m == fetches[i].model
        first == CHOOSE j \in DOMAIN fetches :
                   /\ fetches[j].response = None
                   /\ \A k \in 1..(j - 1) : fetches[k].response # None
        response == [kind |-> kind, score |-> <<m, Len(said[m]) + 1>>] IN
    /\ said[m] = <<>> /\ \E j \in DOMAIN fetches : fetches[j].response = None
    /\ fetches' = [fetches EXCEPT ![first].response = response]
    /\ said' = [said EXCEPT ![m] = Append(@, response)]
    /\ UNCHANGED <<analysis, paired, payload>>

(* asyncio.gather waits for all of them and keeps their order.             *)
Gathered == \A i \in DOMAIN fetches : fetches[i].response # None
Zipped == {fetches[i] : i \in DOMAIN fetches}
AllOk(pairs) == \A p \in pairs : IsOk(p)

GatherAsked ==
  /\ analysis.step = "fetch" /\ Gathered
  /\ paired' = Zipped
  /\ IF ~AllOk(Zipped) THEN Goto("error") /\ fetches' = <<>>
     ELSE IF Aggregate \in analysis.names
     THEN Goto("submodels") /\ CallAll(SubModels \ analysis.names)
     ELSE Goto("build") /\ fetches' = <<>>
  /\ UNCHANGED <<payload, said>>

(* get_aggregate_model_response; data that is None raises an exception.    *)
TellAggregate ==
  LET told == {p \in paired : p.model \in SubModels} \cup Zipped IN
  /\ analysis.step = "submodels" /\ Gathered
  /\ IF \A p \in told : p.response.kind = "ok"
     THEN Goto("aggregate") /\ payload' = told /\ CallAll({Aggregate})
     ELSE Goto("error") /\ fetches' = <<>> /\ UNCHANGED payload
  /\ UNCHANGED <<paired, said>>

GatherAggregate ==
  /\ analysis.step = "aggregate" /\ Gathered
  /\ paired' = paired \cup Zipped
  /\ fetches' = <<>>
  /\ IF AllOk(Zipped) THEN Goto("build") ELSE Goto("error")
  /\ UNCHANGED <<payload, said>>

BuildAnswer ==
  /\ analysis.step = "build"
  /\ IF \A p \in paired : p.response.kind = "ok"
     THEN Goto("answered") ELSE Goto("error")
  /\ UNCHANGED <<fetches, paired, payload, said>>

AnalysisNext ==
  \/ Ask \/ ModelAnswers \/ GatherAsked \/ TellAggregate
  \/ GatherAggregate \/ BuildAnswer

-----------------------------------------------------------------------------
(* Each model that was asked for has its own score in the answer and no    *)
(* other has one, in whatever order the models answered; the aggregate was *)
(* told one score of each submodel, and of those that are shown the one    *)
(* that is shown; an answer is whole or an error.                          *)
AnalysesAreTheirs ==
  analysis.step = "answered" =>
    /\ {p.model : p \in paired} = analysis.names
    /\ \A p \in paired :
         /\ \A q \in paired : q.model = p.model => q = p
         /\ p.response.kind = "ok" /\ \E i \in DOMAIN said[p.model] :
              said[p.model][i] = p.response
    /\ Aggregate \in analysis.names =>
         /\ {p.model : p \in payload} = SubModels
         /\ \A p \in payload :
              /\ said[p.model] = <<p.response>>
              /\ p.model \in analysis.names => p \in paired
=============================================================================
