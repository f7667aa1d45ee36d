--------------------------- MODULE PostprocessProofs ---------------------------
(***************************************************************************)
(* What the markers of the shards, the repairs and the pipeline mean, for  *)
(* every number of shards, subtars and faults: types without assumption,   *)
(* done markers for plans that stay (~Replan), and the aggregated corpus   *)
(* for repairs that are made once and of whole shards.                     *)
(***************************************************************************)
EXTENDS Postprocess, TLAPS

\* What a rebuild, whole or cut short, does to the files of the subtar t.
FilesStep(t) ==
  /\ tar' \in Contents /\ manifest' \in Contents
  /\ \A u \in Subtar : u # t => tar'[u] = tar[u] /\ manifest'[u] = manifest[u]
  /\ tar[t] # 0 => tar'[t] # 0
  /\ manifest[t] # 0 => manifest'[t] # 0

LEMMA NoneParts ==
  /\ \A p \in Pod : p # None
  /\ \A p \in Pipeline : p # None
  /\ \A c \in Aggregate : c # None
BY NoneAssumption, PipelineAssumption

LEMMA SubtarParts ==
  ASSUME NEW s \in Shard, NEW m \in Sub
  PROVE  <<s, m>> \in Subtar
BY DEF Subtar

LEMMA RebuildType ==
  ASSUME ShardTypeOK, NEW t \in Subtar
  PROVE  Rebuild(t) \in Nat /\ Rebuild(t) # 0 /\ tar[t] \in Nat /\ manifest[t] \in Nat
BY DEF ShardTypeOK, Rebuild, Larger

LEMMA FaultType ==
  ASSUME ShardTypeOK, Fault PROVE faults' \in Nat
BY DEF ShardTypeOK, Fault

LEMMA CutShortStep ==
  ASSUME ShardTypeOK, NEW t \in Subtar, CutShort(t)
  PROVE  FilesStep(t)
<1>1. Rebuild(t) \in Nat /\ Rebuild(t) # 0
  BY RebuildType
<1>2. tar \in Contents /\ manifest \in Contents
  BY DEF ShardTypeOK, Contents
<1> QED
  BY <1>1, <1>2 DEF CutShort, FilesStep, Contents

LEMMA RebuildStep ==
  ASSUME ShardTypeOK, NEW t \in Subtar,
         tar' = [tar EXCEPT ![t] = Rebuild(t)],
         manifest' = [manifest EXCEPT ![t] = Rebuild(t)]
  PROVE  /\ FilesStep(t)
         /\ tar'[t] = manifest'[t] /\ tar'[t] # 0
<1>1. Rebuild(t) \in Nat /\ Rebuild(t) # 0
  BY RebuildType
<1>2. tar \in Contents /\ manifest \in Contents
  BY DEF ShardTypeOK, Contents
<1> QED
  BY <1>1, <1>2 DEF FilesStep, Contents

LEMMA StillStep ==
  ASSUME ShardTypeOK, UNCHANGED <<tar, manifest>>, NEW t
  PROVE  FilesStep(t)
BY DEF ShardTypeOK, FilesStep, Contents

\* A pod moves on: the new pods and heartbeats.
LEMMA MovesOnType ==
  ASSUME ShardTypeOK, NEW s \in Shard, NEW m, pod[s] # None, PodMovesOn(s, m)
  PROVE  /\ pod' \in [Shard -> Pod \cup {None}]
         /\ heartbeat' \in [Shard -> {"none", "fresh", "old"}]
         /\ pod'[s] # None /\ pod'[s].kind = pod[s].kind
         /\ pod'[s].full = pod[s].full /\ pod'[s].todo = pod[s].todo \ {m}
         /\ \A r \in Shard : r # s => pod'[r] = pod[r]
<1>1. pod[s] \in Pod
  BY DEF ShardTypeOK
<1>2. [pod[s] EXCEPT !.todo = @ \ {m}] \in Pod
  BY <1>1 DEF Pod
<1>3. pod'[s] = [pod[s] EXCEPT !.todo = @ \ {m}]
  BY DEF PodMovesOn, ShardTypeOK
<1>4. /\ pod' \in [Shard -> Pod \cup {None}]
      /\ \A r \in Shard : r # s => pod'[r] = pod[r]
  BY <1>2 DEF PodMovesOn, ShardTypeOK
<1>5. /\ pod'[s].kind = pod[s].kind /\ pod'[s].full = pod[s].full
      /\ pod'[s].todo = pod[s].todo \ {m}
  BY <1>1, <1>3 DEF Pod
<1>6. heartbeat' \in [Shard -> {"none", "fresh", "old"}]
  BY DEF PodMovesOn, ShardTypeOK
<1> QED
  BY <1>2, <1>3, <1>4, <1>5, <1>6, NoneParts

LEMMA EndsType ==
  ASSUME ShardTypeOK, NEW s \in Shard, PodEnds(s)
  PROVE  /\ pod' \in [Shard -> Pod \cup {None}] /\ pod'[s] = None
         /\ \A r \in Shard : r # s => pod'[r] = pod[r]
BY DEF ShardTypeOK, PodEnds

LEMMA StartsType ==
  ASSUME ShardTypeOK, NEW s \in Shard, NEW kind \in {"worker", "repair"},
         NEW todo \in SUBSET Sub, NEW full \in BOOLEAN, StartPod(s, kind, todo, full)
  PROVE  /\ pod' \in [Shard -> Pod \cup {None}]
         /\ heartbeat' \in [Shard -> {"none", "fresh", "old"}]
         /\ pod'[s] # None /\ pod'[s].kind = kind
         /\ pod'[s].full = full /\ pod'[s].todo = todo
         /\ \A r \in Shard : r # s => pod'[r] = pod[r]
<1>1. [kind |-> kind, todo |-> todo, full |-> full] \in Pod
  BY DEF Pod
<1> QED
  BY <1>1, NoneParts DEF ShardTypeOK, StartPod

(***************************************************************************)
(* The types.                                                              *)
(***************************************************************************)
LEMMA TypeStep == TypeOK /\ [Next]_vars => TypeOK'
<1> SUFFICES ASSUME TypeOK, [Next]_vars PROVE TypeOK'
  OBVIOUS
<1> USE DEF TypeOK
<1>1. ASSUME ShardNext, UNCHANGED <<markerVars, aggregated, pipe>> PROVE TypeOK'
  <2>1. ASSUME StartPlanning PROVE ShardTypeOK'
    BY <2>1 DEF StartPlanning, ShardTypeOK, fileVars
  <2>2. ASSUME NEW t \in Subtar, WritePlan(t) PROVE ShardTypeOK'
    BY <2>2 DEF WritePlan, ShardTypeOK, fileVars
  <2>3. ASSUME WriteMeta PROVE ShardTypeOK'
    BY <2>3 DEF WriteMeta, ShardTypeOK, fileVars
  <2>4. ASSUME KillPlanner PROVE ShardTypeOK'
    BY <2>4, FaultType DEF KillPlanner, ShardTypeOK, fileVars
  <2>5. ASSUME NEW s \in Shard, Resubmit(s) PROVE ShardTypeOK'
    <3>1. PlansOf(s) \in SUBSET Sub
      BY DEF PlansOf
    <3> QED
      BY <2>5, <3>1, StartsType DEF Resubmit, ShardTypeOK, fileVars, planVars
  <2>6. ASSUME NEW s \in Shard, NEW todo \in SUBSET Sub, SubmitSome(s, todo)
        PROVE ShardTypeOK'
    <3>1. StartPod(s, "worker", todo, FALSE) /\ faults' \in Nat
      BY <2>6, FaultType DEF SubmitSome
    <3>2. UNCHANGED <<planVars, fileVars, shardDone>>
      BY <2>6 DEF SubmitSome
    <3> QED
      BY <3>1, <3>2, StartsType DEF ShardTypeOK, fileVars, planVars
  <2>7. ASSUME NEW s \in Shard, HeartAges(s) PROVE ShardTypeOK'
    BY <2>7 DEF HeartAges, ShardTypeOK, fileVars, planVars
  <2>8. ASSUME NEW s \in Shard, NEW m \in Sub, SkipSub(s, m) PROVE ShardTypeOK'
    BY <2>8, MovesOnType DEF SkipSub, At, ShardTypeOK, fileVars, planVars
  <2>9. ASSUME NEW s \in Shard, NEW m \in Sub, ProcessSub(s, m) PROVE ShardTypeOK'
    <3>1. FilesStep(<<s, m>>) /\ <<s, m>> \in Subtar
      BY <2>9, RebuildStep, SubtarParts DEF ProcessSub
    <3> QED
      BY <2>9, <3>1, MovesOnType
      DEF ProcessSub, At, ShardTypeOK, planVars, FilesStep, Contents
  <2>10. ASSUME NEW s \in Shard, NEW m \in Sub, FailSub(s, m) PROVE ShardTypeOK'
    <3>1. FilesStep(<<s, m>>) /\ <<s, m>> \in Subtar
      BY <2>10, CutShortStep, SubtarParts DEF FailSub
    <3> QED
      BY <2>10, <3>1, EndsType
      DEF FailSub, Fault, ShardTypeOK, planVars, FilesStep, Contents
  <2>11. ASSUME NEW s \in Shard, KillWorker(s) PROVE ShardTypeOK'
    <3>1. tar' \in Contents /\ manifest' \in Contents
      BY <2>11, StillStep, CutShortStep, SubtarParts DEF KillWorker, FilesStep
    <3> QED
      BY <2>11, <3>1, EndsType DEF KillWorker, Fault, ShardTypeOK, planVars, Contents
  <2>12. ASSUME NEW s \in Shard, EndShard(s) PROVE ShardTypeOK'
    BY <2>12, EndsType DEF EndShard, ShardTypeOK, planVars, fileVars
  <2>13. ShardTypeOK'
    BY <1>1, <2>1, <2>2, <2>3, <2>4, <2>5, <2>6, <2>7, <2>8, <2>9, <2>10, <2>11, <2>12
    DEF ShardNext, WorkerStep
  <2> QED
    BY <1>1, <2>13 DEF markerVars
<1>2. ASSUME NEW s \in Shard,
             (\E todo \in SUBSET Sub : StartRepair(s, todo)) \/ RepairStep(s)
               \/ StopRepair(s) \/ VerifyJob(s)
      PROVE  TypeOK'
  <2>1. ASSUME NEW todo \in SUBSET Sub, StartRepair(s, todo) PROVE TypeOK'
    BY <2>1, StartsType DEF StartRepair, ShardTypeOK, fileVars, planVars, markerVars
  <2>2. ASSUME NEW m \in Sub, RepairNothing(s, m) PROVE TypeOK'
    BY <2>2, MovesOnType
    DEF RepairNothing, At, ShardTypeOK, fileVars, planVars, markerVars
  <2>3. ASSUME NEW m \in Sub, RepairSub(s, m) PROVE TypeOK'
    <3>1. FilesStep(<<s, m>>) /\ <<s, m>> \in Subtar
      BY <2>3, RebuildStep, SubtarParts DEF RepairSub
    <3> QED
      BY <2>3, <3>1, MovesOnType
      DEF RepairSub, At, ShardTypeOK, planVars, markerVars, FilesStep, Contents
  <2>4. ASSUME EndRepair(s) PROVE TypeOK'
    BY <2>4, EndsType DEF EndRepair, ShardTypeOK, planVars, fileVars
  <2>5. ASSUME StopRepair(s) PROVE TypeOK'
    <3>1. tar' \in Contents /\ manifest' \in Contents
      BY <2>5, StillStep, CutShortStep, SubtarParts DEF StopRepair, FilesStep
    <3> QED
      BY <2>5, <3>1, EndsType
      DEF StopRepair, Fault, ShardTypeOK, planVars, markerVars, Contents
  <2>6. ASSUME VerifyJob(s) PROVE TypeOK'
    BY <2>6 DEF VerifyJob, Fault, ShardTypeOK, planVars, fileVars
  <2> QED
    BY <1>2, <2>1, <2>2, <2>3, <2>4, <2>5, <2>6 DEF RepairStep
<1>3. ASSUME PipeUnchanged, faults' \in Nat PROVE ShardTypeOK'
  BY <1>3 DEF PipeUnchanged, ShardTypeOK, planVars, fileVars
<1>4. ASSUME NEW waits \in WaitRepair, StartPipeline(waits) PROVE TypeOK'
  <2>0. waits \in BOOLEAN
    BY RepairsAssumption
  <2>1. [pc |-> IF waits THEN "wait" ELSE "verify", waits |-> waits, toVerify |-> Shard,
         errors |-> FALSE, listed |-> {}, read |-> {}, found |-> NoContents] \in Pipeline
    BY <2>0 DEF Pipeline, Contents, NoContents
  <2>2. faults' \in Nat
    BY <1>4, FaultType DEF StartPipeline, ShardTypeOK
  <2> QED
    BY <1>3, <1>4, <2>1, <2>2 DEF StartPipeline, markerVars
<1>5. ASSUME PipeStep \/ StopPipeline PROVE TypeOK'
  <2>1. PipeUnchanged /\ faults' \in Nat /\ pipe \in Pipeline
    <3>1. faults' = faults \/ Fault
      BY <1>5 DEF PipeStep, StopPipeline, WaitOver, VerifyOne, VerifyFails, VerifyEnds,
         ListManifests, ReadShard, WriteAggregate, ReadSummary, Finish
    <3>2. PipeUnchanged /\ pipe # None
      BY <1>5 DEF PipeStep, StopPipeline, WaitOver, VerifyOne, VerifyFails, VerifyEnds,
         ListManifests, ReadShard, WriteAggregate, ReadSummary, Finish, PipeAt
    <3> QED
      BY <3>1, <3>2, FaultType DEF ShardTypeOK
  <2>2. pipe' \in Pipeline \cup {None}
    <3>1. CASE WaitOver
      BY <2>1, <3>1 DEF WaitOver, Pipeline
    <3>2. CASE \E s \in Shard : VerifyOne(s) \/ VerifyFails(s)
      <4> PICK s \in Shard : VerifyOne(s) \/ VerifyFails(s)
        BY <3>2
      <4>1. pipe.toVerify \ {s} \in SUBSET Shard
        BY <2>1 DEF Pipeline
      <4>2. \/ pipe' = [pipe EXCEPT !.toVerify = @ \ {s}]
            \/ pipe' = [pipe EXCEPT !.toVerify = @ \ {s}, !.errors = TRUE]
        BY DEF VerifyOne, VerifyFails
      <4> QED
        BY <2>1, <4>1, <4>2 DEF Pipeline
    <3>3. CASE \E s \in Shard : ReadShard(s)
      <4> PICK s \in Shard : ReadShard(s)
        BY <3>3
      <4> DEFINE f == [t \in Subtar |-> IF t[1] = s /\ t \in pipe.listed
                                        THEN manifest[t] ELSE pipe.found[t]]
      <4>1. f \in Contents
        BY <2>1 DEF Contents, Pipeline, ShardTypeOK
      <4>2. pipe' = [pipe EXCEPT !.read = @ \cup {s}, !.found = f]
        BY DEF ReadShard
      <4> HIDE DEF f
      <4> QED
        BY <2>1, <4>1, <4>2 DEF Pipeline
    <3>4. CASE VerifyEnds \/ ReadSummary
      BY <2>1, <3>4 DEF VerifyEnds, ReadSummary, Pipeline
    <3>6. CASE ListManifests
      BY <2>1, <3>6 DEF ListManifests, Pipeline
    <3>7. CASE WriteAggregate
      <4>1. pipe' = [pipe EXCEPT !.pc = "summary", !.listed = {}, !.read = {},
                                 !.found = NoContents]
        BY <3>7 DEF WriteAggregate
      <4>2. NoContents \in Contents
        BY DEF NoContents, Contents
      <4> QED
        BY <2>1, <4>1, <4>2 DEF Pipeline
    <3>5. CASE Finish \/ StopPipeline
      BY <3>5 DEF Finish, StopPipeline
    <3> QED
      BY <1>5, <3>1, <3>2, <3>3, <3>4, <3>5, <3>6, <3>7 DEF PipeStep
  <2>3. /\ repairDone' \in SUBSET Shard /\ verifyDone' \in SUBSET Shard
        /\ summary' \in BOOLEAN /\ aggregateDone' \in BOOLEAN
        /\ pipelineDone' \in BOOLEAN
    BY <1>5 DEF PipeStep, StopPipeline, WaitOver, VerifyOne, VerifyFails, VerifyEnds,
       ListManifests, ReadShard, WriteAggregate, ReadSummary, Finish, markerVars
  <2>4. aggregated' \in Aggregate \cup {None}
    <3>1. CASE WriteAggregate
      <4>1. pipe.found \in Contents /\ NoContents \in Contents /\ pipe.waits \in BOOLEAN
        BY <2>1 DEF Pipeline, Contents, NoContents
      <4> QED
        BY <3>1, <4>1 DEF WriteAggregate, Aggregate
    <3>2. CASE ~WriteAggregate
      BY <1>5, <3>2 DEF PipeStep, StopPipeline, WaitOver, VerifyOne, VerifyFails,
         VerifyEnds, ListManifests, ReadShard, ReadSummary, Finish
    <3> QED
      BY <3>1, <3>2
  <2> QED
    BY <1>3, <2>1, <2>2, <2>3, <2>4
<1>6. ASSUME UNCHANGED vars PROVE TypeOK'
  BY <1>6 DEF vars, shardVars, planVars, fileVars, markerVars, ShardTypeOK
<1> QED
  BY <1>1, <1>2, <1>4, <1>5, <1>6 DEF Next

LEMMA InitType == Init => TypeOK
<1> SUFFICES ASSUME Init PROVE TypeOK
  OBVIOUS
<1>1. ShardTypeOK
  BY DEF Init, ShardInit, ShardTypeOK
<1>2. summary \in BOOLEAN
  BY RepairsAssumption DEF Init
<1> QED
  BY <1>1, <1>2 DEF Init, TypeOK

\* Every variable has its type in every reachable state.
THEOREM TypeCorrect == Spec => []TypeOK
<1>1. Init => TypeOK
  BY InitType
<1> QED
  BY <1>1, TypeStep, PTL DEF Spec

(***************************************************************************)
(* The done markers, for plans that stay.                                  *)
(***************************************************************************)
LEMMA ShardFrame ==
  ASSUME ShardInv, ShardTypeOK',
         UNCHANGED <<planVars, tar, manifest, subDone, shardDone, pod>>
  PROVE  ShardInv'
<1>1. PlansOK' /\ MarkersOK'
  BY DEF ShardInv, PlansOK, MarkersOK, planVars
<1>2. WorkersOK' /\ ShardDoneMeansAll'
  BY DEF ShardInv, WorkersOK, ShardDoneMeansAll, planVars
<1> QED
  BY <1>1, <1>2 DEF ShardInv

\* The pod of s ends, or moves on from a subtar m that is done when it is a
\* worker; the files of t, if any, are rebuilt, and t may be marked done.
LEMMA WorkStep ==
  ASSUME ShardInv, ShardTypeOK', UNCHANGED <<planVars, shardDone>>,
         NEW s \in Shard, NEW m, NEW t, FilesStep(t),
         subDone' = subDone \/ (subDone' = subDone \cup {t} /\ tar'[t] # 0
                                 /\ manifest'[t] # 0),
         \A r \in Shard : r # s => pod'[r] = pod[r],
         \/ pod'[s] = None
         \/ /\ pod[s] # None /\ pod'[s].kind = pod[s].kind
            /\ pod'[s].full = pod[s].full /\ pod'[s].todo = pod[s].todo \ {m}
            /\ pod[s].kind = "worker" => <<s, m>> \in subDone'
  PROVE  ShardInv'
<1> USE DEF ShardInv
<1>1. PlansOK'
  BY DEF PlansOK, planVars
<1>2. MarkersOK'
  BY DEF MarkersOK, FilesStep, ShardTypeOK
<1>3. WorkersOK'
  <2> SUFFICES ASSUME NEW r \in Shard, pod'[r] # None
               PROVE  /\ meta'
                      /\ pod'[r].kind = "worker" /\ pod'[r].full =>
                           \A k \in Sub \ pod'[r].todo : <<r, k>> \in subDone'
    BY DEF WorkersOK
  <2>1. CASE r # s
    BY <2>1 DEF WorkersOK, planVars
  <2>2. CASE r = s
    BY <2>2 DEF WorkersOK, planVars
  <2> QED
    BY <2>1, <2>2
<1>4. ShardDoneMeansAll'
  <2> SUFFICES ASSUME NEW r \in shardDone, NEW k \in Sub
               PROVE  /\ <<r, k>> \in plans /\ <<r, k>> \in subDone'
                      /\ tar'[<<r, k>>] # 0 /\ manifest'[<<r, k>>] # 0
    BY DEF ShardDoneMeansAll, planVars
  <2>1. /\ <<r, k>> \in plans /\ <<r, k>> \in subDone /\ <<r, k>> \in Subtar
        /\ tar[<<r, k>>] # 0 /\ manifest[<<r, k>>] # 0
    BY SubtarParts DEF ShardDoneMeansAll, ShardTypeOK
  <2> QED
    BY <2>1 DEF FilesStep
<1> QED
  BY <1>1, <1>2, <1>3, <1>4

\* A pod starts on all the plans of a shard, or is no full worker.
LEMMA StartStep ==
  ASSUME ShardInv, ShardTypeOK', UNCHANGED <<planVars, tar, manifest, subDone, shardDone>>,
         NEW s \in Shard, NEW kind \in {"worker", "repair"}, NEW todo \in SUBSET Sub,
         NEW full \in BOOLEAN, StartPod(s, kind, todo, full),
         kind = "worker" /\ full => todo = PlansOf(s)
  PROVE  ShardInv'
<1> USE DEF ShardInv
<1>1. PlansOK' /\ MarkersOK' /\ ShardDoneMeansAll'
  BY DEF PlansOK, MarkersOK, ShardDoneMeansAll, planVars
<1>2. meta /\ PlansOf(s) = Sub
  BY SubtarParts DEF StartPod, PlansOK, PlansOf
<1>3. /\ pod'[s].kind = kind /\ pod'[s].full = full /\ pod'[s].todo = todo
      /\ \A r \in Shard : r # s => pod'[r] = pod[r]
  BY StartsType
<1>4. WorkersOK'
  <2> SUFFICES ASSUME NEW r \in Shard, pod'[r] # None
               PROVE  /\ meta'
                      /\ pod'[r].kind = "worker" /\ pod'[r].full =>
                           \A k \in Sub \ pod'[r].todo : <<r, k>> \in subDone'
    BY DEF WorkersOK
  <2>1. CASE r # s
    BY <1>3, <2>1 DEF WorkersOK, planVars
  <2>2. CASE r = s
    BY <1>2, <1>3, <2>2 DEF planVars
  <2> QED
    BY <2>1, <2>2
<1> QED
  BY <1>1, <1>4

\* A pod that is stopped may leave one subtar's files cut short.
LEMMA StopStep ==
  ASSUME ShardInv, ShardTypeOK', UNCHANGED <<planVars, subDone, shardDone>>,
         NEW s \in Shard, PodEnds(s),
         \/ UNCHANGED <<tar, manifest>>
         \/ \E m \in Sub : CutShort(<<s, m>>)
  PROVE  ShardInv'
<1>1. PICK t : FilesStep(t)
  BY StillStep, CutShortStep, SubtarParts DEF ShardInv
<1> QED
  BY <1>1, EndsType, WorkStep DEF ShardInv

LEMMA ShardNextStep ==
  ASSUME ShardInv, ShardTypeOK', ~Replan, ShardNext
  PROVE  ShardInv'
<1> USE DEF ShardInv
<1>1. ASSUME StartPlanning PROVE ShardInv'
  <2>1. ~meta /\ meta' = meta /\ shardDone = {}
    BY <1>1 DEF StartPlanning, MayPlan, PlansOK
  <2>2. UNCHANGED <<tar, manifest, subDone, shardDone, pod>>
    BY <1>1 DEF StartPlanning, fileVars
  <2>3. \A s \in Shard : pod[s] = None
    BY <2>1 DEF WorkersOK
  <2> QED
    BY <2>1, <2>2, <2>3 DEF PlansOK, MarkersOK, WorkersOK, ShardDoneMeansAll
<1>2. ASSUME (\E t \in Subtar : WritePlan(t)) \/ KillPlanner PROVE ShardInv'
  <2>1. ~meta /\ meta' = meta /\ shardDone = {}
    BY <1>2 DEF WritePlan, KillPlanner, PlansOK
  <2>2. UNCHANGED <<tar, manifest, subDone, shardDone, pod>>
    BY <1>2 DEF WritePlan, KillPlanner, fileVars
  <2>3. \A s \in Shard : pod[s] = None
    BY <2>1 DEF WorkersOK
  <2> QED
    BY <2>1, <2>2, <2>3 DEF PlansOK, MarkersOK, WorkersOK, ShardDoneMeansAll
<1>3. ASSUME WriteMeta PROVE ShardInv'
  <2>1. plans = Subtar /\ plans' = plans /\ ~planning' /\ shardDone = {}
    BY <1>3 DEF WriteMeta, ShardTypeOK, PlansOK
  <2>2. UNCHANGED <<tar, manifest, subDone, shardDone, pod>>
    BY <1>3 DEF WriteMeta, fileVars
  <2>3. \A s \in Shard : pod[s] = None
    BY <1>3 DEF WriteMeta, WorkersOK, PlansOK
  <2> QED
    BY <2>1, <2>2, <2>3 DEF PlansOK, MarkersOK, WorkersOK, ShardDoneMeansAll
<1>4. ASSUME NEW s \in Shard, Resubmit(s) PROVE ShardInv'
  <2>1. PlansOf(s) \in SUBSET Sub
    BY DEF PlansOf
  <2> QED
    BY <1>4, <2>1, StartStep DEF Resubmit, fileVars
<1>5. ASSUME NEW s \in Shard, NEW todo \in SUBSET Sub, SubmitSome(s, todo)
      PROVE  ShardInv'
  BY <1>5, StartStep DEF SubmitSome, fileVars
<1>6. ASSUME NEW s \in Shard, HeartAges(s) PROVE ShardInv'
  BY <1>6, ShardFrame DEF HeartAges, fileVars
<1>7. ASSUME NEW s \in Shard, NEW m \in Sub, SkipSub(s, m) PROVE ShardInv'
  <2>1. FilesStep(<<s, m>>) /\ subDone' = subDone /\ <<s, m>> \in subDone
    BY <1>7, StillStep DEF SkipSub, fileVars
  <2> QED
    BY <1>7, <2>1, MovesOnType, WorkStep DEF SkipSub, At
<1>8. ASSUME NEW s \in Shard, NEW m \in Sub, ProcessSub(s, m) PROVE ShardInv'
  <2>1. /\ FilesStep(<<s, m>>) /\ subDone' = subDone \cup {<<s, m>>}
        /\ tar'[<<s, m>>] # 0 /\ manifest'[<<s, m>>] # 0
    BY <1>8, RebuildStep, SubtarParts DEF ProcessSub
  <2> QED
    BY <1>8, <2>1, MovesOnType, WorkStep DEF ProcessSub, At
<1>9. ASSUME NEW s \in Shard, NEW m \in Sub, FailSub(s, m) PROVE ShardInv'
  BY <1>9, StopStep DEF FailSub
<1>10. ASSUME NEW s \in Shard, KillWorker(s) PROVE ShardInv'
  BY <1>10, StopStep DEF KillWorker
<1>11. ASSUME NEW s \in Shard, EndShard(s) PROVE ShardInv'
  <2>1. /\ pod[s] # None /\ pod[s].kind = "worker" /\ pod[s].todo = {}
        /\ UNCHANGED <<planVars, tar, manifest, subDone>>
        /\ pod'[s] = None /\ \A r \in Shard : r # s => pod'[r] = pod[r]
    BY <1>11, EndsType DEF EndShard, At, fileVars
  <2>2. meta /\ (pod[s].full => \A m \in Sub : <<s, m>> \in subDone)
    BY <2>1 DEF WorkersOK
  <2>3. shardDone' = IF pod[s].full THEN shardDone \cup {s} ELSE shardDone
    BY <1>11 DEF EndShard
  <2>4. PlansOK' /\ MarkersOK'
    BY <2>1, <2>2 DEF PlansOK, MarkersOK, planVars
  <2>5. WorkersOK'
    BY <2>1 DEF WorkersOK, planVars
  <2>6. ShardDoneMeansAll'
    BY <2>1, <2>2, <2>3, SubtarParts DEF ShardDoneMeansAll, PlansOK, MarkersOK, planVars
  <2> QED
    BY <2>4, <2>5, <2>6
<1> QED
  BY <1>1, <1>2, <1>3, <1>4, <1>5, <1>6, <1>7, <1>8, <1>9, <1>10, <1>11
  DEF ShardNext, WorkerStep

LEMMA ShardStep ==
  ASSUME TypeOK, ShardInv, ~Replan, [Next]_vars
  PROVE  ShardInv'
<1>1. ShardTypeOK'
  BY TypeStep DEF TypeOK
<1> USE DEF ShardInv
<1>2. ASSUME NEW s \in Shard, NEW todo \in SUBSET Sub, StartRepair(s, todo)
      PROVE  ShardInv'
  BY <1>1, <1>2, StartStep DEF StartRepair, fileVars
<1>3. ASSUME NEW s \in Shard, NEW m \in Sub, RepairNothing(s, m) PROVE ShardInv'
  <2>1. FilesStep(<<s, m>>) /\ subDone' = subDone
    BY <1>3, StillStep DEF RepairNothing, fileVars
  <2> QED
    BY <1>1, <1>3, <2>1, MovesOnType, WorkStep DEF RepairNothing, At
<1>4. ASSUME NEW s \in Shard, NEW m \in Sub, RepairSub(s, m) PROVE ShardInv'
  <2>1. /\ FilesStep(<<s, m>>) /\ subDone' = subDone \cup {<<s, m>>}
        /\ tar'[<<s, m>>] # 0 /\ manifest'[<<s, m>>] # 0
    BY <1>4, RebuildStep, SubtarParts DEF RepairSub
  <2> QED
    BY <1>1, <1>4, <2>1, MovesOnType, WorkStep DEF RepairSub, At
<1>5. ASSUME NEW s \in Shard, StopRepair(s) PROVE ShardInv'
  BY <1>1, <1>5, StopStep DEF StopRepair
<1>6. ASSUME NEW s \in Shard, EndRepair(s) PROVE ShardInv'
  BY <1>1, <1>6, StopStep DEF EndRepair, fileVars
<1>7. ASSUME (\E s \in Shard : VerifyJob(s)) \/ (\E waits \in WaitRepair : StartPipeline(waits))
               \/ PipeStep \/ StopPipeline \/ UNCHANGED vars
      PROVE  ShardInv'
  <2>1. UNCHANGED <<planVars, tar, manifest, subDone, shardDone, pod>>
    BY <1>7 DEF VerifyJob, StartPipeline, PipeStep, StopPipeline, WaitOver, VerifyOne,
       VerifyFails, VerifyEnds, ListManifests, ReadShard, WriteAggregate, ReadSummary, Finish,
       PipeUnchanged, fileVars, vars, shardVars
  <2> QED
    BY <1>1, <2>1, ShardFrame
<1> QED
  BY <1>1, <1>2, <1>3, <1>4, <1>5, <1>6, <1>7, ShardNextStep DEF Next, RepairStep

LEMMA InitShard == Init => ShardInv
BY InitType DEF Init, ShardInit, TypeOK, ShardInv, PlansOK, MarkersOK, WorkersOK,
   ShardDoneMeansAll

\* main of the worker, build_shards.py and recover.sh: as long as no --force
\* replaces plans that are in use, a shard's done marker is true.
THEOREM ShardDoneCorrect ==
  ASSUME ~Replan PROVE Spec => []ShardDoneMeansAll
<1>1. Init => TypeOK /\ ShardInv
  BY InitType, InitShard
<1>2. TypeOK /\ ShardInv /\ [Next]_vars => (TypeOK /\ ShardInv)'
  BY TypeStep, ShardStep
<1>3. ShardInv => ShardDoneMeansAll
  BY DEF ShardInv
<1> QED
  BY <1>1, <1>2, <1>3, PTL DEF Spec

(***************************************************************************)
(* The repairs and the pipeline, for repairs that are made once and of     *)
(* whole shards.                                                           *)
(***************************************************************************)

\* The files of the shard s stay as they are.
Kept(s) ==
  \A m \in Sub : tar'[<<s, m>>] = tar[<<s, m>>] /\ manifest'[<<s, m>>] = manifest[<<s, m>>]

LEMMA OthersKept ==
  ASSUME NEW s \in Shard, NEW m \in Sub, FilesStep(<<s, m>>)
  PROVE  \A r \in Shard : r # s => Kept(r)
BY SubtarParts DEF FilesStep, Kept

LEMMA StillKept ==
  ASSUME UNCHANGED <<tar, manifest>>
  PROVE  \A r \in Shard : Kept(r)
BY DEF Kept

\* Rebuilding an unmarked subtar touches no shard that is done.
LEMMA DoneKept ==
  ASSUME ShardInv, NEW s \in Shard, NEW m \in Sub, FilesStep(<<s, m>>),
         <<s, m>> \notin subDone
  PROVE  \A r \in shardDone : Kept(r)
BY OthersKept DEF ShardInv, ShardDoneMeansAll, ShardTypeOK

\* The download leaves done shards and running repairs alone.
LEMMA DownloadKeeps ==
  ASSUME IInv, ShardNext
  PROVE  /\ shardDone \subseteq shardDone'
         /\ \A r \in shardDone : Kept(r)
         /\ \A r \in Shard : pod'[r] # None /\ pod'[r].kind = "repair" => pod'[r] = pod[r]
<1> USE DEF IInv, ShardInv
<1>0. shardDone \subseteq Shard
  BY DEF ShardTypeOK
<1>1. CASE StartPlanning \/ (\E t \in Subtar : WritePlan(t)) \/ WriteMeta \/ KillPlanner
             \/ (\E s \in Shard : HeartAges(s))
  <2>1. UNCHANGED <<tar, manifest, shardDone, pod>>
    BY <1>1 DEF StartPlanning, WritePlan, WriteMeta, KillPlanner, HeartAges, fileVars
  <2> QED
    BY <1>0, <2>1, StillKept
<1>2. ASSUME NEW s \in Shard, Resubmit(s) \/ \E todo \in SUBSET Sub : SubmitSome(s, todo)
      PROVE  /\ UNCHANGED <<tar, manifest, shardDone>>
             /\ \A r \in Shard : r # s => pod'[r] = pod[r]
             /\ pod'[s].kind = "worker"
  <2>1. PlansOf(s) \in SUBSET Sub
    BY DEF PlansOf
  <2> QED
    BY <1>2, <2>1, StartsType DEF Resubmit, SubmitSome, fileVars
<1>3. ASSUME NEW s \in Shard, NEW m \in Sub, SkipSub(s, m)
      PROVE  /\ UNCHANGED <<tar, manifest, shardDone>>
             /\ \A r \in Shard : r # s => pod'[r] = pod[r]
             /\ pod'[s].kind = "worker"
  BY <1>3, MovesOnType DEF SkipSub, At, fileVars
<1>4. ASSUME NEW s \in Shard, NEW m \in Sub, ProcessSub(s, m)
      PROVE  /\ shardDone' = shardDone /\ \A r \in shardDone : Kept(r)
             /\ \A r \in Shard : r # s => pod'[r] = pod[r]
             /\ pod'[s].kind = "worker"
  <2>1. FilesStep(<<s, m>>)
    BY <1>4, RebuildStep, SubtarParts DEF ProcessSub
  <2> QED
    BY <1>4, <2>1, DoneKept, MovesOnType DEF ProcessSub, At
<1>5. ASSUME NEW s \in Shard, KillWorker(s) \/ \E m \in Sub : FailSub(s, m)
      PROVE  /\ shardDone' = shardDone /\ \A r \in shardDone : Kept(r)
             /\ \A r \in Shard : r # s => pod'[r] = pod[r]
             /\ pod'[s] = None
  <2>1. PodEnds(s) /\ shardDone' = shardDone
    BY <1>5 DEF KillWorker, FailSub
  <2>2. CASE UNCHANGED <<tar, manifest>>
    BY <1>0, <2>1, <2>2, StillKept, EndsType
  <2>3. ASSUME NEW m \in Sub, CutShort(<<s, m>>), <<s, m>> \notin subDone
        PROVE  \A r \in shardDone : Kept(r)
    BY <2>3, CutShortStep, DoneKept, SubtarParts
  <2> QED
    BY <1>5, <2>1, <2>2, <2>3, EndsType DEF KillWorker, FailSub
<1>6. ASSUME NEW s \in Shard, EndShard(s)
      PROVE  /\ UNCHANGED <<tar, manifest>> /\ shardDone \subseteq shardDone'
             /\ \A r \in Shard : r # s => pod'[r] = pod[r]
             /\ pod'[s] = None
  BY <1>6, EndsType DEF EndShard, fileVars
<1> QED
  BY <1>0, <1>1, <1>2, <1>3, <1>4, <1>5, <1>6, StillKept DEF ShardNext, WorkerStep

\* The pipeline notices no change of a manifest before all repairs are done.
LEMMA PipelineFrame ==
  ASSUME IInv, TypeOK', UNCHANGED <<pipe, aggregated>>,
         repairDone \subseteq repairDone', verifyDone \subseteq verifyDone',
         repairDone = Shard => \A r \in Shard : Kept(r)
  PROVE  PipelineOK' /\ AggregateOK'
<1> USE DEF IInv
<1>1. repairDone' \subseteq Shard /\ verifyDone' \subseteq Shard
  BY DEF TypeOK
<1>2. PipelineOK'
  <2> SUFFICES ASSUME pipe # None PROVE VerifiedOK' /\ ReadOK'
    BY DEF PipelineOK
  <2>1. VerifiedOK'
    BY <1>1 DEF PipelineOK, VerifiedOK
  <2>2. pipe.waits /\ pipe.pc # "wait" =>
          repairDone = Shard /\ repairDone' = Shard /\ \A s \in Shard : Kept(s)
    BY <1>1 DEF PipelineOK, ReadOK
  <2>3. pipe.read \subseteq Shard
    BY DEF TypeOK, Pipeline
  <2>4. ReadOK'
    BY <2>2, <2>3 DEF PipelineOK, ReadOK, Kept
  <2> QED
    BY <2>1, <2>4
<1>3. AggregateOK'
  <2> SUFFICES ASSUME aggregated # None PROVE AggregateOK'
    BY DEF AggregateOK
  <2>1. CASE aggregated.waited
    <3>1. repairDone = Shard /\ verifyDone = Shard /\ aggregated.contents = manifest
      BY <2>1 DEF AggregateOK
    <3>2. \A t \in Subtar : manifest'[t] = manifest[t]
      BY <3>1 DEF Kept, Subtar
    <3>3. manifest' = manifest
      BY <3>2 DEF TypeOK, ShardTypeOK
    <3> QED
      BY <1>1, <3>1, <3>3 DEF AggregateOK
  <2>2. CASE ~aggregated.waited
    BY <1>1, <2>2 DEF AggregateOK
  <2> QED
    BY <2>1, <2>2
<1> QED
  BY <1>2, <1>3

\* The pipeline goes on and leaves what it has aggregated.
LEMMA StillAggregated ==
  ASSUME AggregateOK, UNCHANGED <<aggregated, manifest, repairDone>>,
         verifyDone \subseteq verifyDone', verifyDone' \subseteq Shard
  PROVE  AggregateOK'
BY DEF AggregateOK

LEMMA RepairsFrame ==
  ASSUME RepairsOK, SettledOK, UNCHANGED <<tar, manifest, shardDone, pod, repairDone>>
  PROVE  RepairsOK' /\ SettledOK'
BY DEF RepairsOK, SettledOK, Torn

\* A repair changes the files and the pod of its own shard.
LEMMA RepairFrame ==
  ASSUME IInv, TypeOK', NEW s \in Shard, At(s, "repair"),
         UNCHANGED <<shardDone, verifyDone, pipe, aggregated>>,
         \A r \in Shard : r # s => Kept(r) /\ pod'[r] = pod[r],
         \/ repairDone' = repairDone
         \/ repairDone' = repairDone \cup {s} /\ ~Torn(s)',
         pod'[s] = None \/
           /\ repairDone' = repairDone /\ pod'[s].kind = "repair"
           /\ \A m \in Sub \ pod'[s].todo : tar'[<<s, m>>] = manifest'[<<s, m>>]
  PROVE  RepairsOK' /\ SettledOK' /\ PipelineOK' /\ AggregateOK'
<1> USE DEF IInv
<1>1. s \in shardDone /\ s \notin repairDone
  BY DEF RepairsOK, At
<1>2. RepairsOK'
  <2> SUFFICES ASSUME NEW r \in Shard, pod'[r] # None, pod'[r].kind = "repair"
               PROVE  /\ r \in shardDone /\ r \notin repairDone'
                      /\ \A m \in Sub \ pod'[r].todo : tar'[<<r, m>>] = manifest'[<<r, m>>]
    BY DEF RepairsOK
  <2>1. CASE r = s
    BY <1>1, <2>1
  <2>2. CASE r # s
    BY <2>2 DEF RepairsOK, Kept
  <2> QED
    BY <2>1, <2>2
<1>3. SettledOK'
  <2> SUFFICES ASSUME NEW r \in repairDone' PROVE r \in shardDone /\ ~Torn(r)'
    BY DEF SettledOK
  <2>1. CASE r = s
    BY <1>1, <2>1
  <2>2. CASE r # s
    <3>1. r \in repairDone /\ r \in Shard
      BY <2>2 DEF TypeOK
    <3> QED
      BY <2>2, <3>1 DEF SettledOK, Torn, Kept
  <2> QED
    BY <2>1, <2>2
<1> QED
  BY <1>1, <1>2, <1>3, PipelineFrame

LEMMA IInvStep ==
  ASSUME IInv, ~Replan, ~RepairAgain, ~RepairSome, [Next]_vars
  PROVE  IInv'
<1> USE DEF IInv
<1>0. TypeOK' /\ ShardInv'
  BY TypeStep, ShardStep
<1>1. ASSUME ShardNext, UNCHANGED <<markerVars, aggregated, pipe>> PROVE IInv'
  <2>1. /\ shardDone \subseteq shardDone' /\ \A r \in shardDone : Kept(r)
        /\ \A r \in Shard :
             pod'[r] # None /\ pod'[r].kind = "repair" => pod'[r] = pod[r]
    BY <1>1, DownloadKeeps
  <2>2. UNCHANGED <<repairDone, verifyDone, pipe, aggregated>>
    BY <1>1 DEF markerVars
  <2>3. RepairsOK'
    BY <2>1, <2>2 DEF RepairsOK, Kept
  <2>4. SettledOK'
    BY <2>1, <2>2 DEF SettledOK, Torn, Kept
  <2>5. repairDone = Shard => \A r \in Shard : Kept(r)
    BY <2>1 DEF SettledOK
  <2> QED
    BY <1>0, <2>2, <2>3, <2>4, <2>5, PipelineFrame
<1>2. ASSUME NEW s \in Shard, NEW todo \in SUBSET Sub, StartRepair(s, todo) PROVE IInv'
  <2>1. /\ UNCHANGED <<tar, manifest, shardDone, repairDone, verifyDone, pipe, aggregated>>
        /\ s \in shardDone /\ s \notin repairDone /\ todo = PlansOf(s)
    BY <1>2 DEF StartRepair, fileVars, markerVars
  <2>2. todo = Sub
    BY <2>1, SubtarParts DEF ShardInv, PlansOK, PlansOf
  <2>3. /\ pod'[s].todo = Sub /\ \A r \in Shard : r # s => pod'[r] = pod[r]
    BY <1>2, <2>2, StartsType DEF StartRepair, ShardInv
  <2>4. RepairsOK'
    BY <2>1, <2>3 DEF RepairsOK
  <2>5. SettledOK'
    BY <2>1 DEF SettledOK, Torn
  <2> QED
    BY <1>0, <2>1, <2>4, <2>5, StillKept, PipelineFrame
<1>3. ASSUME NEW s \in Shard, NEW m \in Sub, RepairNothing(s, m) PROVE IInv'
  <2>1. /\ At(s, "repair") /\ PodMovesOn(s, m) /\ tar[<<s, m>>] = manifest[<<s, m>>]
        /\ UNCHANGED <<tar, manifest, shardDone, repairDone, verifyDone, pipe, aggregated>>
    BY <1>3 DEF RepairNothing, fileVars, markerVars
  <2>2. /\ pod'[s].kind = "repair" /\ pod'[s].todo = pod[s].todo \ {m}
        /\ \A r \in Shard : r # s => pod'[r] = pod[r]
    BY <2>1, MovesOnType DEF At, ShardInv
  <2>3. \A k \in Sub \ pod'[s].todo : tar'[<<s, k>>] = manifest'[<<s, k>>]
    BY <2>1, <2>2 DEF RepairsOK, At
  <2> QED
    BY <1>0, <2>1, <2>2, <2>3, StillKept, RepairFrame
<1>4. ASSUME NEW s \in Shard, NEW m \in Sub, RepairSub(s, m) PROVE IInv'
  <2>1. /\ At(s, "repair") /\ PodMovesOn(s, m)
        /\ FilesStep(<<s, m>>) /\ tar'[<<s, m>>] = manifest'[<<s, m>>]
        /\ UNCHANGED <<shardDone, repairDone, verifyDone, pipe, aggregated>>
    BY <1>4, RebuildStep, SubtarParts DEF RepairSub, markerVars, ShardInv
  <2>2. /\ pod'[s].kind = "repair" /\ pod'[s].todo = pod[s].todo \ {m}
        /\ \A r \in Shard : r # s => pod'[r] = pod[r]
    BY <2>1, MovesOnType DEF At, ShardInv
  <2>3. \A k \in Sub \ pod'[s].todo : tar'[<<s, k>>] = manifest'[<<s, k>>]
    BY <2>1, <2>2, SubtarParts DEF RepairsOK, At, FilesStep
  <2> QED
    BY <1>0, <2>1, <2>2, <2>3, OthersKept, RepairFrame
<1>5. ASSUME NEW s \in Shard, StopRepair(s) PROVE IInv'
  <2>1. /\ At(s, "repair") /\ PodEnds(s)
        /\ UNCHANGED <<shardDone, repairDone, verifyDone, pipe, aggregated>>
        /\ UNCHANGED <<tar, manifest>> \/ \E m \in Sub : CutShort(<<s, m>>)
    BY <1>5 DEF StopRepair, markerVars
  <2>2. \A r \in Shard : r # s => Kept(r)
    BY <2>1, StillKept, CutShortStep, OthersKept, SubtarParts DEF ShardInv
  <2> QED
    BY <1>0, <2>1, <2>2, EndsType, RepairFrame DEF ShardInv
<1>6. ASSUME NEW s \in Shard, EndRepair(s) PROVE IInv'
  <2>1. /\ At(s, "repair") /\ PodEnds(s) /\ pod[s].todo = {}
        /\ repairDone' = repairDone \cup {s}
        /\ UNCHANGED <<tar, manifest, shardDone, verifyDone, pipe, aggregated>>
    BY <1>6 DEF EndRepair, fileVars
  <2>2. ~Torn(s)'
    BY <2>1 DEF RepairsOK, At, Torn
  <2> QED
    BY <1>0, <2>1, <2>2, StillKept, EndsType, RepairFrame DEF ShardInv
<1>7. ASSUME NEW s \in Shard, VerifyJob(s) PROVE IInv'
  <2>1. /\ UNCHANGED <<tar, manifest, shardDone, pod, repairDone, pipe, aggregated>>
        /\ verifyDone \subseteq verifyDone'
    BY <1>7 DEF VerifyJob, fileVars
  <2> QED
    BY <1>0, <2>1, RepairsFrame, StillKept, PipelineFrame
<1>8. ASSUME (\E waits \in WaitRepair : StartPipeline(waits)) \/ PipeStep \/ StopPipeline
      PROVE  IInv'
  <2>1. UNCHANGED <<tar, manifest, shardDone, pod, repairDone>>
    BY <1>8 DEF StartPipeline, PipeStep, StopPipeline, WaitOver, VerifyOne,
       VerifyFails, VerifyEnds, ListManifests, ReadShard, WriteAggregate, ReadSummary, Finish,
       PipeUnchanged, fileVars, markerVars
  <2>2. RepairsOK' /\ SettledOK'
    BY <2>1, RepairsFrame
  <2>3. pipe \in Pipeline \cup {None} /\ verifyDone' \subseteq Shard
    BY <1>0 DEF TypeOK
  <2>4. ASSUME NEW waits \in WaitRepair, StartPipeline(waits) PROVE IInv'
    <3>1. UNCHANGED <<verifyDone, aggregated>>
      BY <2>4 DEF StartPipeline, markerVars
    <3>2. /\ pipe'.pc = (IF waits THEN "wait" ELSE "verify") /\ pipe'.waits = waits
          /\ pipe'.toVerify = Shard /\ pipe'.read = {}
      BY <2>4 DEF StartPipeline
    <3>3. PipelineOK'
      BY <3>2 DEF PipelineOK, VerifiedOK, ReadOK
    <3> QED
      BY <1>0, <2>1, <2>2, <2>3, <3>1, <3>3, StillAggregated
  <2>5. CASE WaitOver
    <3>1. /\ UNCHANGED <<verifyDone, aggregated>> /\ repairDone = Shard /\ pipe # None
          /\ pipe.pc = "wait" /\ pipe' = [pipe EXCEPT !.pc = "verify"]
      BY <2>5 DEF WaitOver, PipeAt, markerVars
    <3>2. /\ pipe'.pc = "verify" /\ pipe'.toVerify = pipe.toVerify
          /\ pipe'.read = pipe.read /\ pipe'.errors = pipe.errors
      BY <2>3, <3>1 DEF Pipeline
    <3>3. PipelineOK'
      BY <2>1, <3>1, <3>2 DEF PipelineOK, VerifiedOK, ReadOK
    <3> QED
      BY <1>0, <2>1, <2>2, <2>3, <3>1, <3>3, StillAggregated
  <2>6. ASSUME NEW s \in Shard, VerifyOne(s) \/ VerifyFails(s) PROVE IInv'
    <3>1. /\ pipe # None /\ pipe.pc = "verify" /\ aggregated' = aggregated
          /\ verifyDone \subseteq verifyDone'
          /\ \/ s \in verifyDone' /\ pipe' = [pipe EXCEPT !.toVerify = @ \ {s}]
             \/ pipe' = [pipe EXCEPT !.toVerify = @ \ {s}, !.errors = TRUE]
      BY <2>6 DEF VerifyOne, VerifyFails, PipeAt, markerVars
    <3>2. /\ pipe'.pc = "verify" /\ pipe'.toVerify = pipe.toVerify \ {s}
          /\ pipe'.read = pipe.read /\ pipe'.waits = pipe.waits
          /\ (s \in verifyDone' /\ pipe'.errors = pipe.errors) \/ pipe'.errors
      BY <2>3, <3>1 DEF Pipeline
    <3>3. PipelineOK'
      BY <2>1, <2>3, <3>1, <3>2 DEF PipelineOK, VerifiedOK, ReadOK
    <3> QED
      BY <1>0, <2>1, <2>2, <2>3, <3>1, <3>3, StillAggregated
  <2>7. CASE VerifyEnds
    <3>1. /\ UNCHANGED <<verifyDone, aggregated>> /\ pipe # None
          /\ pipe.pc = "verify" /\ pipe.toVerify = {}
          /\ pipe' = None \/ (~pipe.errors /\ pipe' = [pipe EXCEPT !.pc = "list"])
      BY <2>7 DEF VerifyEnds, PipeAt, markerVars
    <3>2. CASE pipe' = None
      BY <1>0, <2>1, <2>2, <2>3, <3>1, <3>2, StillAggregated DEF PipelineOK
    <3>3. CASE ~pipe.errors /\ pipe' = [pipe EXCEPT !.pc = "list"]
      <4>1. pipe'.pc = "list" /\ pipe'.read = pipe.read /\ pipe'.waits = pipe.waits
        BY <2>3, <3>1, <3>3 DEF Pipeline
      <4>2. verifyDone' = Shard
        BY <2>3, <3>1, <3>3 DEF PipelineOK, VerifiedOK
      <4>3. PipelineOK'
        BY <2>1, <3>1, <4>1, <4>2 DEF PipelineOK, VerifiedOK, ReadOK
      <4> QED
        BY <1>0, <2>1, <2>2, <2>3, <3>1, <4>3, StillAggregated
    <3> QED
      BY <3>1, <3>2, <3>3
  <2>8. CASE ListManifests
    <3> DEFINE listed == {t \in Subtar : manifest[t] # 0}
    <3>1. /\ UNCHANGED <<verifyDone, aggregated>> /\ pipe # None /\ pipe.pc = "list"
          /\ pipe' = None \/ pipe' = [pipe EXCEPT !.pc = "read", !.listed = listed]
      BY <2>8 DEF ListManifests, PipeAt, markerVars
    <3>2. CASE pipe' = None
      BY <1>0, <2>1, <2>2, <2>3, <3>1, <3>2, StillAggregated DEF PipelineOK
    <3>3. CASE pipe' = [pipe EXCEPT !.pc = "read", !.listed = listed]
      <4>1. pipe.waits => repairDone = Shard
        BY <3>1 DEF PipelineOK, ReadOK
      <4>2. pipe.waits => listed = Subtar
        BY <4>1 DEF SettledOK, ShardInv, ShardDoneMeansAll, Subtar
      <4> HIDE DEF listed
      <4>3. /\ pipe'.pc = "read" /\ pipe'.read = pipe.read /\ pipe'.waits = pipe.waits
            /\ pipe'.listed = listed
        BY <2>3, <3>1, <3>3 DEF Pipeline
      <4>4. pipe.read = {} /\ verifyDone = Shard
        BY <3>1 DEF PipelineOK, VerifiedOK, ReadOK
      <4>5. PipelineOK'
        BY <2>1, <3>1, <4>1, <4>2, <4>3, <4>4 DEF PipelineOK, VerifiedOK, ReadOK
      <4> QED
        BY <1>0, <2>1, <2>2, <2>3, <3>1, <4>5, StillAggregated
    <3> QED
      BY <3>1, <3>2, <3>3
  <2>9. ASSUME NEW s \in Shard, ReadShard(s) PROVE IInv'
    <3> DEFINE f == [t \in Subtar |-> IF t[1] = s /\ t \in pipe.listed
                                      THEN manifest[t] ELSE pipe.found[t]]
    <3>1. /\ UNCHANGED <<verifyDone, aggregated>> /\ pipe # None /\ pipe.pc = "read"
          /\ pipe' = [pipe EXCEPT !.read = @ \cup {s}, !.found = f]
      BY <2>9 DEF ReadShard, PipeAt, markerVars
    <3>2. pipe.read \subseteq Shard
      BY <2>3, <3>1 DEF Pipeline
    <3>3. pipe.waits =>
            \A r \in pipe.read \cup {s}, m \in Sub : f[<<r, m>>] = manifest[<<r, m>>]
      BY <3>1, <3>2, SubtarParts DEF PipelineOK, ReadOK
    <3> HIDE DEF f
    <3>4. /\ pipe'.pc = "read" /\ pipe'.read = pipe.read \cup {s} /\ pipe'.found = f
          /\ pipe'.waits = pipe.waits /\ pipe'.listed = pipe.listed
      BY <2>3, <3>1 DEF Pipeline
    <3>5. VerifiedOK'
      BY <3>1, <3>4 DEF PipelineOK, VerifiedOK
    <3>6. ReadOK'
      BY <2>1, <3>1, <3>3, <3>4 DEF PipelineOK, ReadOK
    <3> QED
      BY <1>0, <2>1, <2>2, <2>3, <3>1, <3>5, <3>6, StillAggregated DEF PipelineOK
  <2>10. CASE WriteAggregate
    <3>1. /\ UNCHANGED verifyDone /\ pipe # None /\ pipe.pc = "read" /\ pipe.read = Shard
          /\ aggregated' = [waited |-> pipe.waits,
                            contents |-> IF pipe.waits THEN pipe.found ELSE NoContents]
          /\ pipe' = [pipe EXCEPT !.pc = "summary", !.listed = {}, !.read = {},
                                  !.found = NoContents]
      BY <2>10 DEF WriteAggregate, PipeAt, markerVars
    <3>2. /\ pipe'.pc = "summary" /\ pipe'.read = {} /\ pipe'.waits = pipe.waits
          /\ pipe.found \in Contents
      BY <2>3, <3>1 DEF Pipeline
    <3>3. verifyDone = Shard /\ (pipe.waits => repairDone = Shard)
      BY <3>1 DEF PipelineOK, VerifiedOK, ReadOK
    <3>4. pipe.waits => \A t \in Subtar : pipe.found[t] = manifest[t]
      BY <3>1 DEF PipelineOK, ReadOK, Subtar
    <3>5. pipe.waits => pipe.found = manifest
      BY <3>2, <3>4 DEF Contents, TypeOK, ShardTypeOK
    <3>6. PipelineOK'
      BY <2>1, <3>1, <3>2, <3>3 DEF PipelineOK, VerifiedOK, ReadOK
    <3>7. AggregateOK'
      BY <2>1, <3>1, <3>3, <3>5 DEF AggregateOK
    <3> QED
      BY <1>0, <2>2, <3>6, <3>7
  <2>11. CASE ReadSummary \/ Finish \/ StopPipeline
    <3>1. /\ UNCHANGED <<verifyDone, aggregated>> /\ pipe # None
          /\ pipe' = None \/ (pipe.pc = "summary" /\ pipe' = [pipe EXCEPT !.pc = "finish"])
      BY <2>11 DEF ReadSummary, Finish, StopPipeline, PipeAt, markerVars
    <3>2. CASE pipe' = None
      BY <1>0, <2>1, <2>2, <2>3, <3>1, <3>2, StillAggregated DEF PipelineOK
    <3>3. CASE pipe.pc = "summary" /\ pipe' = [pipe EXCEPT !.pc = "finish"]
      <4>1. pipe'.pc = "finish" /\ pipe'.read = pipe.read /\ pipe'.waits = pipe.waits
        BY <2>3, <3>1, <3>3 DEF Pipeline
      <4>2. PipelineOK'
        BY <2>1, <3>1, <3>3, <4>1 DEF PipelineOK, VerifiedOK, ReadOK
      <4> QED
        BY <1>0, <2>1, <2>2, <2>3, <3>1, <4>2, StillAggregated
    <3> QED
      BY <3>1, <3>2, <3>3
  <2> QED
    BY <1>8, <2>4, <2>5, <2>6, <2>7, <2>8, <2>9, <2>10, <2>11 DEF PipeStep
<1>9. ASSUME UNCHANGED vars PROVE IInv'
  <2>1. UNCHANGED <<tar, manifest, shardDone, pod, repairDone, verifyDone, pipe,
                    aggregated>>
    BY <1>9 DEF vars, shardVars, fileVars, markerVars
  <2> QED
    BY <1>0, <2>1, RepairsFrame, StillKept, PipelineFrame
<1> QED
  BY <1>1, <1>2, <1>3, <1>4, <1>5, <1>6, <1>7, <1>8, <1>9 DEF Next, RepairStep

LEMMA InitInv == Init => IInv
BY InitType, InitShard
DEF Init, ShardInit, IInv, RepairsOK, SettledOK, PipelineOK, AggregateOK

\* The markers of repair_retries.py, verify_shard.py and the pipeline: with one
\* whole repair of each shard, what is aggregated describes the tars beside it.
THEOREM AggregatedCorrect ==
  ASSUME ~Replan, ~RepairAgain, ~RepairSome PROVE Spec => []AggregatedSound
<1>1. Init => IInv
  BY InitInv
<1>2. IInv /\ [Next]_vars => IInv'
  BY IInvStep
<1>3. IInv => AggregatedSound
  BY DEF IInv, AggregateOK, SettledOK, Torn, Subtar, ShardInv, ShardDoneMeansAll,
     AggregatedSound
<1> QED
  BY <1>1, <1>2, <1>3, PTL DEF Spec
===============================================================================
