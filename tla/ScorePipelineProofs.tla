------------------------ MODULE ScorePipelineProofs ------------------------
(***************************************************************************)
(* Proofs about ScorePipeline, for any number of workers, recalculations,  *)
(* credentials and providers.                                              *)
(***************************************************************************)
EXTENDS ScorePipeline, TLAPS

USE PipelineAssumption DEF tables, locals, Processes, ExpiryDates

-----------------------------------------------------------------------------
(* A cleared score is a score that counts nothing (clear_on_error).        *)
LEMMA ClearedType ==
  /\ \A st \in {"PROCESSING", "DONE", "ERROR"} :
       Cleared(st) \in ScoreRow /\ Cleared(st).counted = {}
  /\ Cleared("PROCESSING").status = "PROCESSING"
  /\ Cleared("ERROR").status = "ERROR"
  BY DEF Cleared, ScoreRow

(* The stamps counted by acalculate_weighted_score are rows of the         *)
(* passport, one of each provider, and the score is well formed.           *)
LEMMA ComputedType ==
  ASSUME NEW counted \in SUBSET Stored, NEW clashes \in SUBSET Credentials,
         NEW expires \in ExpiryDates
  PROVE  /\ counted \subseteq Credentials
         /\ Repeated \subseteq Providers
         /\ ScoreOf(counted, clashes, expires) \in ScoreRow
         /\ ScoreOf(counted, clashes, expires).counted = counted
         /\ ScoreOf(counted, clashes, expires).zeroed = Repeated
<1>1. counted \subseteq Credentials /\ Stored \subseteq Credentials
  BY DEF Stored
<1>2. \A creds \in SUBSET Credentials : ProvidersOf(creds) \subseteq Providers
  BY DEF ProvidersOf
<1>3. Repeated \subseteq Providers
  BY DEF Repeated, Stored
<1> QED
  BY <1>1, <1>2, <1>3 DEF ScoreOf, ScoreRow

(* When the rows are the stamps of one request, all of them count and none *)
(* is repeated.                                                            *)
LEMMA ExactRows ==
  ASSUME NEW creds \in SUBSET Credentials, RowsAre(creds),
         \A c, d \in creds : ProviderOf[c] = ProviderOf[d] => c = d,
         NEW counted \in SUBSET Stored, FirstOfEach(counted)
  PROVE  counted = creds /\ Repeated = {}
<1>1. Stored = creds
  BY DEF Stored, RowsAre
<1>2. \A c \in creds : \E d \in counted : ProviderOf[d] = ProviderOf[c]
  BY <1>1 DEF FirstOfEach, ProvidersOf
<1>3. counted = creds
  BY <1>1, <1>2
<1>4. Repeated = {}
  BY <1>1 DEF Repeated, RowsAre
<1> QED
  BY <1>3, <1>4

-----------------------------------------------------------------------------
(* The invariant holds before the first request.                           *)
LEMMA Initially == Init => IInv
<1> SUFFICES ASSUME Init PROVE IInv
  OBVIOUS
<1>1. TypeOK
  BY ClearedType DEF Init, TypeOK, Nothing, Stages
<1>2. OnlyAcceptedStampsCount
  BY DEF Init, OnlyAcceptedStampsCount, Stored
<1>3. MemoryInv
  BY ClearedType DEF Init, MemoryInv, Nothing, Sound
<1> QED
  BY <1>1, <1>2, <1>3
     DEF IInv, Init, CacheInv, FoundInv, SoloInv, SoloRowsInv, SoloRequestsHeal

(* Types: every step of a request.                                         *)
LEMMA WorkerTypes ==
  ASSUME TypeOK, NEW w \in Workers, Arrive(w) \/ Step(w) \/ Crash(w)
  PROVE  TypeOK'
<1> USE DEF TypeOK
<1>1. CASE Arrive(w)
  BY <1>1 DEF Arrive, Begin, Goto, Stages
<1>2. CASE GetScore(w)
  BY <1>2, ClearedType DEF GetScore, Goto, Stages
<1>3. CASE Load(w)
  BY <1>3 DEF Load, Goto, Stages
<1>4. CASE Decide(w)
  <2>1. Valid(w) \subseteq Credentials
    BY DEF Valid
  <2> QED
    BY <1>4, <2>1 DEF Decide, Goto, Stages
<1>5. CASE DeleteRows(w)
  BY <1>5 DEF DeleteRows, Goto, Stages
<1>6. CASE CreateRow(w)
  BY <1>6 DEF CreateRow
<1>7. CASE RowsCreated(w)
  BY <1>7 DEF RowsCreated, Goto, Stages
<1>8. CASE Compute(w)
  <2>1. PICK counted \in SUBSET Stored, expires \in ExpiryDates :
          result' = [result EXCEPT ![w] = ScoreOf(counted, clashing[w], expires)]
    BY <1>8 DEF Compute
  <2>2. ScoreOf(counted, clashing[w], expires) \in ScoreRow
    BY ComputedType
  <2> QED
    BY <1>8, <2>1, <2>2 DEF Compute, Goto, Stages
<1>9. CASE Award(w)
  BY <1>9 DEF Award, Goto, Stages
<1>10. CASE Fail(w)
  BY <1>10, ClearedType DEF Fail, Goto, Stages
<1>11. CASE LogEvent(w)
  BY <1>11 DEF LogEvent, Goto, Stages
<1>12. CASE Save(w)
  BY <1>12, ClearedType DEF Save, End, ForgetRequest, Goto, Stages
<1>13. CASE Crash(w)
  BY <1>13, ClearedType DEF Crash, End, ForgetRequest, Goto, Stages
<1> QED
  BY <1>1, <1>2, <1>3, <1>4, <1>5, <1>6, <1>7, <1>8, <1>9, <1>10, <1>11,
     <1>12, <1>13 DEF Step

(* Types: every step of a recalculation, and of the environment.           *)
LEMMA OtherTypes ==
  ASSUME TypeOK, FoundInv,
         \/ \E b \in Batches : Recalculate(b) \/ BatchStep(b)
         \/ \E p \in Providers, c \in Credentials \cup {None} : CacheChanges(p, c)
         \/ Tick
  PROVE  TypeOK'
<1> USE DEF TypeOK
<1>1. ASSUME NEW b \in Batches, Recalculate(b) PROVE TypeOK'
  BY <1>1 DEF Recalculate, Begin, Goto, Stages
<1>2. ASSUME NEW b \in Batches, RecalcRead(b) PROVE TypeOK'
  <2>1. PICK counted \in SUBSET Stored :
          result' = [result EXCEPT ![b] =
            [Cleared("DONE") EXCEPT !.counted = counted, !.zeroed = Repeated]]
    BY <1>2 DEF RecalcRead
  <2>2. counted \in SUBSET Credentials /\ Repeated \in SUBSET Providers
    BY ComputedType
  <2>3. [Cleared("DONE") EXCEPT !.counted = counted, !.zeroed = Repeated] \in ScoreRow
    BY <2>2, ClearedType DEF ScoreRow
  <2> QED
    BY <1>2, <2>1, <2>3 DEF RecalcRead, Goto, Stages
<1>3. ASSUME NEW b \in Batches, RecalcFind(b) PROVE TypeOK'
  BY <1>3 DEF RecalcFind, Goto, Stages
<1>4. ASSUME NEW b \in Batches, RecalcInsert(b) PROVE TypeOK'
  BY <1>4, ClearedType DEF RecalcInsert, End, Goto, Stages
<1>5. ASSUME NEW b \in Batches, RecalcUpdate(b) PROVE TypeOK'
  <2>1. score \in ScoreRow
    BY <1>5 DEF RecalcUpdate, FoundInv
  <2>2. score' \in ScoreRow
    BY <1>5, <2>1 DEF RecalcUpdate, ScoreRow
  <2> QED
    BY <1>5, <2>2, ClearedType DEF RecalcUpdate, End, Goto, Stages
<1>6. ASSUME NEW p \in Providers, NEW c \in Credentials \cup {None}, CacheChanges(p, c)
      PROVE  TypeOK'
  BY <1>6 DEF CacheChanges
<1>7. CASE Tick
  BY <1>7 DEF Tick
<1> QED
  BY <1>1, <1>2, <1>3, <1>4, <1>5, <1>6, <1>7 DEF BatchStep

-----------------------------------------------------------------------------
(* A request keeps the invariant's part about what is stored and what is   *)
(* in memory.                                                              *)
LEMMA WorkerSound ==
  ASSUME TypeOK, OnlyAcceptedStampsCount, MemoryInv, CacheInv,
         NEW w \in Workers, Arrive(w) \/ Step(w) \/ Crash(w)
  PROVE  OnlyAcceptedStampsCount' /\ MemoryInv' /\ CacheInv'
<1> USE DEF TypeOK, OnlyAcceptedStampsCount, MemoryInv, CacheInv, Stored, Sound
<1>1. CASE Arrive(w)
  BY <1>1 DEF Arrive
<1>2. CASE GetScore(w)
  BY <1>2, ClearedType DEF GetScore
<1>3. CASE Load(w)
  BY <1>3 DEF Load
<1>4. CASE Decide(w)
  <2>1. Valid(w) \subseteq loaded[w]
    BY DEF Valid
  <2>2. PICK clashes \in SUBSET Valid(w) :
          /\ kept' = [kept EXCEPT ![w] = Valid(w) \ clashes]
          /\ todo' = [todo EXCEPT ![w] = Valid(w) \ clashes]
          /\ accepted' = accepted \cup (Valid(w) \ clashes)
    BY <1>4 DEF Decide
  <2> QED
    BY <1>4, <2>1, <2>2 DEF Decide
<1>5. CASE DeleteRows(w)
  BY <1>5 DEF DeleteRows
<1>6. CASE CreateRow(w)
  <2>1. PICK c \in todo[w] : /\ rows' = [rows EXCEPT ![c] = @ + 1]
                             /\ todo' = [todo EXCEPT ![w] = @ \ {c}]
    BY <1>6 DEF CreateRow
  <2>2. Stored' \subseteq Stored \cup {c}
    BY <2>1
  <2> QED
    BY <1>6, <2>1, <2>2 DEF CreateRow
<1>7. CASE RowsCreated(w)
  BY <1>7 DEF RowsCreated
<1>8. CASE Compute(w)
  <2>1. PICK counted \in SUBSET Stored, expires \in ExpiryDates :
          /\ FirstOfEach(counted)
          /\ result' = [result EXCEPT ![w] = ScoreOf(counted, clashing[w], expires)]
    BY <1>8 DEF Compute
  <2>2. ScoreOf(counted, clashing[w], expires).counted = counted
    <3> HIDE DEF Stored
    <3>1. clashing[w] \in SUBSET Credentials
      OBVIOUS
    <3> QED
      BY <3>1, ComputedType
  <2>3. \A c, d \in counted : ProviderOf[c] = ProviderOf[d] => c = d
    BY <2>1 DEF FirstOfEach
  <2>4. Sound(result[w])'
    BY <1>8, <2>1, <2>2, <2>3 DEF Compute
  <2>5. \A p \in Processes : Sound(result[p])'
    <3> SUFFICES ASSUME NEW p \in Processes, p # w PROVE Sound(result[p])'
      BY <2>4
    <3>1. result'[p] = result[p]
      BY <2>1
    <3> QED
      BY <1>8, <3>1 DEF Compute
  <2> QED
    BY <1>8, <2>5 DEF Compute
<1>9. CASE Award(w)
  BY <1>9 DEF Award
<1>10. CASE Fail(w)
  BY <1>10, ClearedType DEF Fail
<1>11. CASE LogEvent(w)
  BY <1>11 DEF LogEvent
<1>12. CASE Save(w)
  BY <1>12, ClearedType DEF Save, End, ForgetRequest
<1>13. CASE Crash(w)
  BY <1>13, ClearedType DEF Crash, End, ForgetRequest
<1> QED
  BY <1>1, <1>2, <1>3, <1>4, <1>5, <1>6, <1>7, <1>8, <1>9, <1>10, <1>11,
     <1>12, <1>13 DEF Step

(* So do a recalculation and the environment.                              *)
LEMMA OtherSound ==
  ASSUME TypeOK, OnlyAcceptedStampsCount, MemoryInv, CacheInv, FoundInv,
         \/ \E b \in Batches : Recalculate(b) \/ BatchStep(b)
         \/ \E p \in Providers, c \in Credentials \cup {None} : CacheChanges(p, c)
         \/ Tick
  PROVE  OnlyAcceptedStampsCount' /\ MemoryInv' /\ CacheInv'
<1> USE DEF TypeOK, OnlyAcceptedStampsCount, MemoryInv, CacheInv, Stored, Sound
<1> DEFINE Goal == OnlyAcceptedStampsCount' /\ MemoryInv' /\ CacheInv'
<1>1. ASSUME NEW b \in Batches, Recalculate(b) PROVE Goal
  BY <1>1 DEF Recalculate
<1>2. ASSUME NEW b \in Batches, RecalcRead(b) PROVE Goal
  <2>1. PICK counted \in SUBSET Stored :
          /\ FirstOfEach(counted)
          /\ result' = [result EXCEPT ![b] =
               [Cleared("DONE") EXCEPT !.counted = counted, !.zeroed = Repeated]]
    BY <1>2 DEF RecalcRead
  <2>2. [Cleared("DONE") EXCEPT !.counted = counted, !.zeroed = Repeated].counted
          = counted
    BY DEF Cleared
  <2>3. \A c, d \in counted : ProviderOf[c] = ProviderOf[d] => c = d
    BY <2>1 DEF FirstOfEach
  <2>4. Sound(result[b])'
    BY <1>2, <2>1, <2>2, <2>3 DEF RecalcRead
  <2>5. \A p \in Processes : Sound(result[p])'
    <3> SUFFICES ASSUME NEW p \in Processes, p # b PROVE Sound(result[p])'
      BY <2>4
    <3>1. result'[p] = result[p]
      BY <2>1
    <3> QED
      BY <1>2, <3>1 DEF RecalcRead
  <2> QED
    BY <1>2, <2>5 DEF RecalcRead
<1>3. ASSUME NEW b \in Batches, RecalcFind(b) PROVE Goal
  BY <1>3 DEF RecalcFind
<1>4. ASSUME NEW b \in Batches, RecalcInsert(b) PROVE Goal
  BY <1>4, ClearedType DEF RecalcInsert, End
<1>5. ASSUME NEW b \in Batches, RecalcUpdate(b) PROVE Goal
  <2>1. score \in ScoreRow
    BY <1>5 DEF RecalcUpdate, FoundInv
  <2>2. score'.counted = result[b].counted
    BY <1>5, <2>1 DEF RecalcUpdate, ScoreRow
  <2> QED
    BY <1>5, <2>2, ClearedType DEF RecalcUpdate, End
<1>6. ASSUME NEW p \in Providers, NEW c \in Credentials \cup {None}, CacheChanges(p, c)
      PROVE  Goal
  BY <1>6 DEF CacheChanges
<1>7. CASE Tick
  BY <1>7 DEF Tick
<1> QED
  BY <1>1, <1>2, <1>3, <1>4, <1>5, <1>6, <1>7 DEF BatchStep

-----------------------------------------------------------------------------
(* Who has run alone.  A process that begins is alone only when all others *)
(* are idle, and any other step is one of a process that is not idle.      *)
LEMMA SoloSteps ==
  ASSUME TypeOK, SoloInv, NEW p \in Processes, NEW q \in solo,
         pc[p] # "idle"
  PROVE  p = q
BY DEF SoloInv, TypeOK

(* A request keeps the invariant's part about solo processes.              *)
LEMMA WorkerSolo ==
  ASSUME IInv, NEW w \in Workers, Arrive(w) \/ Step(w) \/ Crash(w)
  PROVE  FoundInv' /\ SoloInv' /\ SoloRowsInv' /\ SoloRequestsHeal'
<1> USE DEF IInv, TypeOK, FoundInv, SoloInv, SoloRowsInv, SoloRequestsHeal
<1>1. CASE Arrive(w)
  <2>1. solo' \subseteq {w} /\ pc'[w] = "score"
    BY <1>1 DEF Arrive, Begin, Goto
  <2>2. \A p \in Processes : p # w => pc'[p] = pc[p]
    BY <1>1 DEF Arrive, Begin, Goto
  <2>3. w \in solo' => \A q \in Processes \ {w} : pc[q] = "idle"
    BY <1>1 DEF Arrive, Begin
  <2>4. FoundInv'
    BY <1>1, <2>2 DEF Arrive
  <2> QED
    BY <2>1, <2>2, <2>3, <2>4
<1>2. CASE GetScore(w)
  BY <1>2 DEF GetScore, Goto
<1>3. CASE Load(w)
  BY <1>3 DEF Load, Goto
<1>4. CASE Decide(w)
  BY <1>4 DEF Decide, Goto
<1>5. CASE DeleteRows(w)
  BY <1>5 DEF DeleteRows, Goto, RowsAre, MemoryInv
<1>6. CASE CreateRow(w)
  BY <1>6 DEF CreateRow, RowsAre, MemoryInv
<1>7. CASE RowsCreated(w)
  BY <1>7 DEF RowsCreated, Goto, RowsAre
<1>8. CASE Compute(w)
  <2>1. PICK counted \in SUBSET Stored, expires \in ExpiryDates :
          /\ FirstOfEach(counted)
          /\ result' = [result EXCEPT ![w] = ScoreOf(counted, clashing[w], expires)]
    BY <1>8 DEF Compute
  <2>2. /\ result'[w].counted = counted
        /\ result'[w].zeroed = Repeated
    BY <2>1 DEF ScoreOf
  <2>3. w \in solo => counted = kept[w] /\ Repeated = {}
    <3>1. w \in solo => RowsAre(kept[w])
      BY <1>8 DEF Compute
    <3>2. \A c, d \in kept[w] : ProviderOf[c] = ProviderOf[d] => c = d
      BY DEF MemoryInv
    <3>3. kept[w] \in SUBSET Credentials
      OBVIOUS
    <3> QED
      BY <2>1, <3>1, <3>2, <3>3, ExactRows
  <2>4. RowsAre(kept[w])' <=> RowsAre(kept[w])
    BY <1>8 DEF Compute, RowsAre
  <2>5. \A q \in Processes : q # w => pc'[q] = pc[q]
    BY <1>8 DEF Compute, Goto
  <2>6. /\ pc'[w] = "award" /\ pc[w] = "compute"
        /\ UNCHANGED <<score, solo, kept, todo>>
    BY <1>8 DEF Compute, Goto
  <2>7. \A q \in solo : q = w
    BY <2>6, SoloSteps
  <2>8. FoundInv' /\ SoloInv'
    BY <2>5, <2>6
  <2>9. SoloRowsInv'
    BY <2>6, <2>7
  <2>10. SoloRequestsHeal'
    BY <1>8, <2>2, <2>3, <2>4, <2>6, <2>7 DEF Compute
  <2> QED
    BY <2>8, <2>9, <2>10
<1>9. CASE Award(w)
  BY <1>9 DEF Award, Goto, RowsAre
<1>10. CASE Fail(w)
  BY <1>10, ClearedType DEF Fail, Goto
<1>11. CASE LogEvent(w)
  BY <1>11 DEF LogEvent, Goto, RowsAre
<1>12. CASE Save(w)
  BY <1>12 DEF Save, End, ForgetRequest, Goto
<1>13. CASE Crash(w)
  BY <1>13 DEF Crash, End, ForgetRequest, Goto
<1> QED
  BY <1>1, <1>2, <1>3, <1>4, <1>5, <1>6, <1>7, <1>8, <1>9, <1>10, <1>11,
     <1>12, <1>13 DEF Step

(* So do a recalculation and the environment.                              *)
LEMMA OtherSolo ==
  ASSUME IInv,
         \/ \E b \in Batches : Recalculate(b) \/ BatchStep(b)
         \/ \E p \in Providers, c \in Credentials \cup {None} : CacheChanges(p, c)
         \/ Tick
  PROVE  FoundInv' /\ SoloInv' /\ SoloRowsInv' /\ SoloRequestsHeal'
<1> USE DEF IInv, TypeOK, FoundInv, SoloInv, SoloRowsInv, SoloRequestsHeal
<1> DEFINE Goal == FoundInv' /\ SoloInv' /\ SoloRowsInv' /\ SoloRequestsHeal'
<1>1. ASSUME NEW b \in Batches, Recalculate(b) PROVE Goal
  BY <1>1 DEF Recalculate, Begin, Goto
<1>2. ASSUME NEW b \in Batches, RecalcRead(b) PROVE Goal
  BY <1>2 DEF RecalcRead, Goto
<1>3. ASSUME NEW b \in Batches, RecalcFind(b) PROVE Goal
  BY <1>3 DEF RecalcFind, Goto
<1>4. ASSUME NEW b \in Batches, RecalcInsert(b) PROVE Goal
  BY <1>4 DEF RecalcInsert, End, Goto
<1>5. ASSUME NEW b \in Batches, RecalcUpdate(b) PROVE Goal
  <2>1. score \in ScoreRow
    BY <1>5 DEF RecalcUpdate, FoundInv
  <2>2. score' \in ScoreRow
    BY <1>5, <2>1 DEF RecalcUpdate, ScoreRow
  <2>3. FoundInv'
    BY <2>2
  <2>4. solo' = solo \ {b} /\ pc[b] # "idle" /\ UNCHANGED <<rows, kept, todo>>
    BY <1>5 DEF RecalcUpdate, End
  <2>5. solo' = {}
    BY <2>4, SoloSteps
  <2> QED
    BY <2>3, <2>5
<1>6. ASSUME NEW p \in Providers, NEW c \in Credentials \cup {None}, CacheChanges(p, c)
      PROVE  Goal
  BY <1>6 DEF CacheChanges, RowsAre
<1>7. CASE Tick
  BY <1>7 DEF Tick, RowsAre
<1> QED
  BY <1>1, <1>2, <1>3, <1>4, <1>5, <1>6, <1>7 DEF BatchStep

-----------------------------------------------------------------------------
(* Every step of the program, and every stutter, keeps the invariant.      *)
LEMMA Inductive == IInv /\ [Next]_vars => IInv'
<1> SUFFICES ASSUME IInv, [Next]_vars PROVE IInv'
  OBVIOUS
<1>1. CASE UNCHANGED vars
  BY <1>1 DEF vars, IInv, TypeOK, OnlyAcceptedStampsCount, MemoryInv, CacheInv,
              FoundInv, SoloInv, SoloRowsInv, SoloRequestsHeal, Stored, Sound,
              RowsAre
<1>2. ASSUME NEW w \in Workers, Arrive(w) \/ Step(w) \/ Crash(w) PROVE IInv'
  BY <1>2, WorkerTypes, WorkerSound, WorkerSolo DEF IInv
<1>3. ASSUME \/ \E b \in Batches : Recalculate(b) \/ BatchStep(b)
             \/ \E p \in Providers, c \in Credentials \cup {None} : CacheChanges(p, c)
             \/ Tick
      PROVE  IInv'
  BY <1>3, OtherTypes, OtherSound, OtherSolo DEF IInv
<1> QED
  BY <1>1, <1>2, <1>3 DEF Next

(* The inductive invariant, the types among its parts, holds in every      *)
(* reachable state.                                                        *)
THEOREM PipelineInvariance == Spec => []IInv
<1> QED
  BY Initially, Inductive, PTL DEF Spec

(* Every score, saved or about to be saved, is well formed, and a process  *)
(* works on credentials of the passport only.                              *)
THEOREM PipelineTypes == Spec => []TypeOK
<1>1. IInv => TypeOK
  BY DEF IInv
<1> QED
  BY <1>1, PipelineInvariance, PTL

(* However requests, recalculations, failures and crashes interleave, only *)
(* stamps that some request accepted are stored or count, once for each    *)
(* provider.                                                               *)
THEOREM AcceptedTheorem == Spec => []OnlyAcceptedStampsCount
<1>1. IInv => OnlyAcceptedStampsCount
  BY DEF IInv
<1> QED
  BY <1>1, PipelineInvariance, PTL

(* A request that runs alone replaces whatever was left behind by the      *)
(* stamps it kept.                                                         *)
THEOREM HealingTheorem == Spec => []SoloRequestsHeal
<1>1. IInv => SoloRequestsHeal
  BY DEF IInv
<1> QED
  BY <1>1, PipelineInvariance, PTL

-----------------------------------------------------------------------------
(* Where nothing is recalculated, what a request is about to save, and     *)
(* what it saves, has an event and the expiry of its earliest stamp.       *)
Complete ==
  /\ DoneScoresAreInHistory
  /\ ScoresExpireWithTheirStamps
  /\ \A w \in Workers : result[w].status = "DONE" =>
       /\ EarliestExpiry(result[w].counted, result[w].expires)
       /\ pc[w] = "save" => logged[w]

(* Before the first request there is no done score.                        *)
LEMMA CompleteInitially == Init => Complete
BY ClearedType DEF Init, Complete, DoneScoresAreInHistory, ScoresExpireWithTheirStamps

(* Without recalculation, each step keeps the done scores complete.        *)
LEMMA CompleteStep ==
  ASSUME Batches = {}, TypeOK, Complete, [Next]_vars
  PROVE  Complete'
<1> USE DEF TypeOK, Complete, DoneScoresAreInHistory, ScoresExpireWithTheirStamps
<1>1. CASE UNCHANGED vars
  BY <1>1 DEF vars, EarliestExpiry
<1>2. ASSUME NEW w \in Workers, Arrive(w) PROVE Complete'
  BY <1>2 DEF Arrive, Begin, Goto, EarliestExpiry
<1>3. ASSUME NEW w \in Workers, GetScore(w) PROVE Complete'
  BY <1>3, ClearedType DEF GetScore, Goto, EarliestExpiry
<1>4. ASSUME NEW w \in Workers, Load(w) \/ Decide(w) PROVE Complete'
  BY <1>4 DEF Load, Decide, Goto, EarliestExpiry
<1>5. ASSUME NEW w \in Workers, DeleteRows(w) \/ CreateRow(w) \/ RowsCreated(w)
      PROVE  Complete'
  BY <1>5 DEF DeleteRows, CreateRow, RowsCreated, Goto, EarliestExpiry
<1>6. ASSUME NEW w \in Workers, Compute(w) PROVE Complete'
  <2>1. PICK counted \in SUBSET Stored, expires \in ExpiryDates :
          /\ EarliestExpiry(counted, expires)
          /\ result' = [result EXCEPT ![w] = ScoreOf(counted, clashing[w], expires)]
    BY <1>6 DEF Compute
  <2>2. result'[w].counted = counted /\ result'[w].expires = expires
    BY <2>1 DEF ScoreOf
  <2>3. \A v \in Workers : v # w => result'[v] = result[v] /\ pc'[v] = pc[v]
    BY <1>6, <2>1 DEF Compute, Goto
  <2>4. pc'[w] = "award" /\ UNCHANGED <<score, recorded, logged>>
    BY <1>6 DEF Compute, Goto
  <2> HIDE DEF EarliestExpiry
  <2> QED
    BY <2>1, <2>2, <2>3, <2>4
<1>7. ASSUME NEW w \in Workers, Award(w) PROVE Complete'
  BY <1>7 DEF Award, Goto, EarliestExpiry
<1>8. ASSUME NEW w \in Workers, Fail(w) PROVE Complete'
  BY <1>8, ClearedType DEF Fail, Goto, EarliestExpiry
<1>9. ASSUME NEW w \in Workers, LogEvent(w) PROVE Complete'
  BY <1>9, ZenonT(60) DEF LogEvent, Goto, EarliestExpiry
<1>10. ASSUME NEW w \in Workers, Save(w) PROVE Complete'
  BY <1>10, ClearedType DEF Save, End, ForgetRequest, Goto, EarliestExpiry
<1>11. ASSUME NEW w \in Workers, Crash(w) PROVE Complete'
  BY <1>11, ClearedType DEF Crash, End, ForgetRequest, Goto, EarliestExpiry
<1>12. ASSUME NEW p \in Providers, NEW c \in Credentials \cup {None},
              CacheChanges(p, c) \/ Tick
       PROVE  Complete'
  BY <1>12 DEF CacheChanges, Tick, EarliestExpiry
<1>13. CASE Tick
  BY <1>13 DEF Tick, EarliestExpiry
<1> QED
  BY <1>1, <1>2, <1>3, <1>4, <1>5, <1>6, <1>7, <1>8, <1>9, <1>10, <1>11,
     <1>12, <1>13 DEF Next, Step

(* In a deployment that never recalculates, a done score is in the history *)
(* even when workers die between the event and the row.                    *)
THEOREM HistoryTheorem ==
  ASSUME Batches = {}
  PROVE  Spec => []DoneScoresAreInHistory
<1>1. IInv /\ Complete /\ [Next]_vars => Complete'
  BY CompleteStep DEF IInv
<1>2. Complete => DoneScoresAreInHistory
  BY DEF Complete
<1> QED
  BY <1>1, <1>2, CompleteInitially, PipelineInvariance, PTL DEF Spec

(* In such a deployment a score expires with its earliest stamp.           *)
THEOREM ExpiryTheorem ==
  ASSUME Batches = {}
  PROVE  Spec => []ScoresExpireWithTheirStamps
<1>1. IInv /\ Complete /\ [Next]_vars => Complete'
  BY CompleteStep DEF IInv
<1>2. Complete => ScoresExpireWithTheirStamps
  BY DEF Complete
<1> QED
  BY <1>1, <1>2, CompleteInitially, PipelineInvariance, PTL DEF Spec

-----------------------------------------------------------------------------
(* What a recalculation that runs alone has read is still what the rows    *)
(* say when it writes.                                                     *)
ReadsAreCurrent ==
  \A b \in Batches \cap solo :
    pc[b] \in {"find", "insert", "update"} =>
      FirstOfEach(result[b].counted) /\ result[b].zeroed = Repeated

(* No request comes between the reading and the writing of a               *)
(* recalculation that runs alone.                                          *)
LEMMA ReadsStayCurrent ==
  ASSUME IInv, ReadsAreCurrent, [Next]_vars
  PROVE  ReadsAreCurrent'
<1> USE DEF TypeOK
<1>0. TypeOK /\ SoloInv
  BY DEF IInv
<1>1. CASE UNCHANGED vars
  BY <1>1 DEF vars, ReadsAreCurrent, FirstOfEach, Repeated, Stored, ProvidersOf
<1>2. ASSUME NEW w \in Workers, Arrive(w) PROVE ReadsAreCurrent'
  BY <1>2 DEF Arrive, Begin, ReadsAreCurrent
<1>3. ASSUME NEW w \in Workers, Step(w) \/ Crash(w) PROVE ReadsAreCurrent'
  <2>1. pc[w] # "idle" /\ solo' \subseteq solo
    BY <1>3 DEF Step, GetScore, Load, Decide, DeleteRows, CreateRow, RowsCreated,
                Compute, Award, Fail, LogEvent, Save, Crash, End
  <2>2. solo' \subseteq {w}
    BY <1>0, <2>1, SoloSteps
  <2> QED BY <2>2 DEF ReadsAreCurrent
<1>4. ASSUME NEW b \in Batches, Recalculate(b) PROVE ReadsAreCurrent'
  <2>1. solo' \subseteq {b} /\ pc'[b] = "read"
    BY <1>0, <1>4 DEF Recalculate, Begin, Goto
  <2> QED BY <2>1 DEF ReadsAreCurrent
<1>5. ASSUME NEW b \in Batches, BatchStep(b) PROVE ReadsAreCurrent'
  <2>1. pc[b] # "idle" /\ solo' \subseteq solo
    BY <1>5 DEF BatchStep, RecalcRead, RecalcFind, RecalcInsert, RecalcUpdate, End
  <2>2. solo' \subseteq {b}
    BY <1>0, <2>1, SoloSteps
  <2>3. CASE RecalcRead(b)
    <3>1. PICK counted \in SUBSET Stored :
            /\ FirstOfEach(counted)
            /\ result' = [result EXCEPT ![b] =
                 [Cleared("DONE") EXCEPT !.counted = counted, !.zeroed = Repeated]]
      BY <2>3 DEF RecalcRead
    <3>2. result'[b].counted = counted /\ result'[b].zeroed = Repeated
      BY <1>0, <3>1 DEF Cleared
    <3>3. rows' = rows
      BY <2>3 DEF RecalcRead
    <3>4. FirstOfEach(counted)' /\ Repeated' = Repeated
      BY <3>1, <3>3 DEF FirstOfEach, Repeated, Stored, ProvidersOf
    <3> QED BY <2>2, <3>2, <3>4 DEF ReadsAreCurrent
  <2>4. CASE RecalcFind(b)
    <3>1. UNCHANGED <<rows, result, solo>> /\ pc[b] = "find"
      BY <2>4 DEF RecalcFind
    <3> QED BY <2>2, <3>1 DEF ReadsAreCurrent, FirstOfEach, Repeated, Stored, ProvidersOf
  <2>5. CASE RecalcInsert(b) \/ RecalcUpdate(b)
    <3>1. solo' = {}
      BY <2>2, <2>5 DEF RecalcInsert, RecalcUpdate, End
    <3> QED BY <3>1 DEF ReadsAreCurrent
  <2> QED BY <1>5, <2>3, <2>4, <2>5 DEF BatchStep
<1>6. ASSUME NEW p \in Providers, NEW c \in Credentials \cup {None}, CacheChanges(p, c)
      PROVE  ReadsAreCurrent'
  BY <1>6 DEF CacheChanges, ReadsAreCurrent, FirstOfEach, Repeated, Stored, ProvidersOf
<1>7. CASE Tick
  BY <1>7 DEF Tick, ReadsAreCurrent, FirstOfEach, Repeated, Stored, ProvidersOf
<1> QED
  BY <1>1, <1>2, <1>3, <1>4, <1>5, <1>6, <1>7 DEF Next

(* Only its update ends a recalculation that is about to update.           *)
LEMMA OnlyUpdateEnds ==
  ASSUME TypeOK, [Next]_vars, NEW b \in Batches, pc[b] = "update", pc'[b] = "idle"
  PROVE  RecalcUpdate(b)
<1> USE DEF TypeOK, Goto
<1>1. pc' # pc
  OBVIOUS
<1>2. ASSUME NEW w \in Workers, Arrive(w) \/ Step(w) \/ Crash(w) PROVE FALSE
  <2>1. pc'[b] = pc[b]
    BY <1>2 DEF Arrive, Begin, Step, GetScore, Load, Decide, DeleteRows, CreateRow,
                RowsCreated, Compute, Award, Fail, LogEvent, Save, Crash, End
  <2> QED BY <2>1
<1>3. ASSUME NEW c \in Batches, Recalculate(c) \/ BatchStep(c) PROVE RecalcUpdate(b)
  BY <1>3 DEF Recalculate, Begin, BatchStep, RecalcRead, RecalcFind, RecalcInsert,
              RecalcUpdate, End
<1> QED
  BY <1>1, <1>2, <1>3 DEF Next, vars, CacheChanges, Tick

(* Recalculating a score that agrees with the rows changes nothing, unless *)
(* a request runs meanwhile.                                               *)
THEOREM RecalculationTheorem == Spec => RecalculationIsIdempotent
<1>1. Init => ReadsAreCurrent
  BY DEF Init, ReadsAreCurrent
<1>2. IInv /\ ReadsAreCurrent /\ [Next]_vars => ReadsAreCurrent'
  BY ReadsStayCurrent
<1> DEFINE Same ==
      \A b \in Batches \cap solo :
        /\ pc[b] = "update" /\ pc'[b] = "idle"
        /\ score.status = "DONE" /\ RowsAre(score.counted) /\ score.zeroed = {}
        => score' = score
<1>3. IInv /\ ReadsAreCurrent /\ [Next]_vars => Same
  <2> SUFFICES ASSUME IInv, ReadsAreCurrent, [Next]_vars, NEW b \in Batches \cap solo,
                      pc[b] = "update", pc'[b] = "idle",
                      score.status = "DONE", RowsAre(score.counted), score.zeroed = {}
               PROVE  score' = score
    OBVIOUS
  <2>1. RecalcUpdate(b)
    BY OnlyUpdateEnds DEF IInv
  <2>2. score \in ScoreRow /\ result[b] \in ScoreRow
    BY <2>1 DEF IInv, FoundInv, TypeOK
  <2>3. FirstOfEach(result[b].counted) /\ result[b].zeroed = Repeated
    BY DEF ReadsAreCurrent
  <2>4. \A c, d \in score.counted : ProviderOf[c] = ProviderOf[d] => c = d
    BY <2>2 DEF IInv, OnlyAcceptedStampsCount
  <2>5. result[b].counted = score.counted /\ Repeated = {}
    <3>1. score.counted \in SUBSET Credentials
      BY <2>2 DEF ScoreRow
    <3>2. result[b].counted \in SUBSET Stored
      BY <2>3 DEF FirstOfEach
    <3> QED BY <2>3, <2>4, <3>1, <3>2, ExactRows
  <2>6. score' = [score EXCEPT !.status = "DONE", !.counted = result[b].counted,
                               !.zeroed = result[b].zeroed]
    BY <2>1 DEF RecalcUpdate
  <2> QED BY <2>2, <2>3, <2>5, <2>6 DEF ScoreRow
<1>4. IInv /\ ReadsAreCurrent /\ [Next]_vars => [Same]_vars
  BY <1>3
<1> QED
  BY <1>1, <1>2, <1>4, PipelineInvariance, PTL DEF Spec, RecalculationIsIdempotent
=============================================================================
