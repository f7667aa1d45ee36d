------------------------------ MODULE Postprocess ------------------------------
(***************************************************************************)
(* After the download: main of repair_retries.py repairs the shards that   *)
(* are done, and postprocess_pipeline.py waits for the repair markers      *)
(* unless it is told not to, verifies every shard (verify_shard.py),       *)
(* aggregates the manifests that are there (aggregate_manifest.py) and     *)
(* marks the corpus done.                                                  *)
(*                                                                         *)
(* What RepairSubtar models in its steps is one step here, or one that is  *)
(* cut short.  Verification compares the members that a manifest names     *)
(* with those of the tar, so it may take a pair of two rebuilds for right. *)
(***************************************************************************)
EXTENDS ShardRun

CONSTANTS
  RepairAgain,  \* may a shard be repaired after its repair marker is there?
  RepairSome,   \* may a repair take some subtars only (MAX_SUBTARS)?
  WaitRepair,   \* the values of --wait-repair-done
  Leftover      \* may a manifest.summary.json be there from elsewhere?

ASSUME RepairsAssumption ==
  /\ RepairAgain \in BOOLEAN /\ RepairSome \in BOOLEAN
  /\ WaitRepair \subseteq BOOLEAN /\ Leftover \subseteq BOOLEAN

VARIABLES
  repairDone,    \* the shards with a repair marker
  verifyDone,    \* the shards with a verify marker
  summary,       \* is there a manifest.summary.json?
  aggregated,    \* manifest.jsonl, or None
  aggregateDone, pipelineDone,  \* the markers of the pipeline
  pipe           \* the running pipeline, or None

markerVars == <<repairDone, verifyDone, summary, aggregateDone, pipelineDone>>
vars == <<shardVars, markerVars, aggregated, pipe>>

Contents == [Subtar -> Nat]
NoContents == [t \in Subtar |-> 0]

\* Whether the pipeline had waited, and what manifest.jsonl was then made of.
Aggregate == [contents : Contents, waited : BOOLEAN]

\* listed: the manifests to be read; read: the shards whose manifests were
\* read; found: what they described, 0 for what was not listed.
Pipeline ==
  [pc : {"wait", "verify", "list", "read", "summary", "finish"},
   waits : BOOLEAN, toVerify : SUBSET Shard, errors : BOOLEAN,
   listed : SUBSET Subtar, read : SUBSET Shard, found : Contents]

ASSUME PipelineAssumption == None \notin Pipeline /\ None \notin Aggregate

TypeOK ==
  /\ ShardTypeOK
  /\ repairDone \in SUBSET Shard /\ verifyDone \in SUBSET Shard
  /\ summary \in BOOLEAN
  /\ aggregated \in Aggregate \cup {None}
  /\ aggregateDone \in BOOLEAN /\ pipelineDone \in BOOLEAN
  /\ pipe \in Pipeline \cup {None}

Init ==
  /\ ShardInit
  /\ repairDone = {} /\ verifyDone = {}
  /\ summary \in Leftover
  /\ aggregated = None
  /\ aggregateDone = FALSE /\ pipelineDone = FALSE
  /\ pipe = None

(***************************************************************************)
(* main of repair_retries.py, for the finalized subtars it is meant for.   *)
(***************************************************************************)
StartRepair(s, todo) ==
  /\ s \in shardDone
  /\ s \in repairDone => RepairAgain
  /\ IF RepairSome THEN todo \subseteq PlansOf(s) ELSE todo = PlansOf(s)
  /\ StartPod(s, "repair", todo, TRUE)
  /\ UNCHANGED <<planVars, fileVars, shardDone, faults, markerVars, aggregated, pipe>>

Present(t) == tar[t] # 0 /\ manifest[t] # 0

\* repair_noop: no row of the subtar is to be repaired.
RepairNothing(s, m) ==
  /\ At(s, "repair") /\ NextSub(s, m)
  /\ Present(<<s, m>>) /\ tar[<<s, m>>] = manifest[<<s, m>>]
  /\ PodMovesOn(s, m)
  /\ UNCHANGED <<planVars, fileVars, shardDone, faults, markerVars, aggregated, pipe>>

RepairSub(s, m) ==
  /\ At(s, "repair") /\ NextSub(s, m)
  /\ Present(<<s, m>>)
  /\ tar' = [tar EXCEPT ![<<s, m>>] = Rebuild(<<s, m>>)]
  /\ manifest' = [manifest EXCEPT ![<<s, m>>] = Rebuild(<<s, m>>)]
  /\ subDone' = subDone \cup {<<s, m>>}
  /\ PodMovesOn(s, m)
  /\ UNCHANGED <<planVars, incomplete, shardDone, faults, markerVars, aggregated,
                 pipe>>

\* Plausible mistake: the marker is written though the repair has failed.
StopRepairMarked(s) ==
  /\ At(s, "repair")
  /\ Fault
  /\ \/ UNCHANGED <<tar, manifest>>
     \/ \E m \in Sub : /\ NextSub(s, m) /\ Present(<<s, m>>)
                       /\ CutShort(<<s, m>>)
  /\ PodEnds(s)
  /\ repairDone' = repairDone \cup {s}
  /\ UNCHANGED <<planVars, subDone, incomplete, shardDone, heartbeat, verifyDone,
                 summary, aggregateDone, pipelineDone, aggregated, pipe>>

\* The repair is killed, or raises, for want of a tar or in the rebuild.
StopRepair(s) ==
  /\ At(s, "repair")
  /\ Fault
  /\ \/ UNCHANGED <<tar, manifest>>
     \/ \E m \in Sub : /\ NextSub(s, m) /\ Present(<<s, m>>)
                       /\ CutShort(<<s, m>>)
  /\ PodEnds(s)
  /\ UNCHANGED <<planVars, subDone, incomplete, shardDone, heartbeat, markerVars,
                 aggregated, pipe>>

EndRepair(s) ==
  /\ At(s, "repair") /\ pod[s].todo = {}
  /\ repairDone' = repairDone \cup {s}
  /\ PodEnds(s)
  /\ UNCHANGED <<planVars, fileVars, shardDone, heartbeat, faults, verifyDone,
                 summary, aggregateDone, pipelineDone, aggregated, pipe>>

RepairStep(s) ==
  \/ (\E m \in Sub : RepairNothing(s, m) \/ RepairSub(s, m))
  \/ EndRepair(s)

(***************************************************************************)
(* verify_shard.py, as a job of its own or for the pipeline.  It looks at  *)
(* the manifests that are there; a tar and a manifest of the same rebuild  *)
(* pass.                                                                   *)
(***************************************************************************)
FoundTorn(s) ==
  \E m \in Sub : manifest[<<s, m>>] # 0 /\ tar[<<s, m>>] # manifest[<<s, m>>]

VerifyJob(s) ==
  /\ meta
  /\ Fault
  /\ verifyDone' = verifyDone \cup {s}
  /\ UNCHANGED <<planVars, fileVars, shardDone, heartbeat, pod, repairDone,
                 summary, aggregateDone, pipelineDone, aggregated, pipe>>

(***************************************************************************)
(* postprocess_pipeline.py.                                                *)
(***************************************************************************)
PipeUnchanged == UNCHANGED <<planVars, fileVars, shardDone, heartbeat, pod>>

\* With --no-wait-repair-done the verification comes first.
StartPipeline(waits) ==
  /\ meta /\ pipe = None
  /\ IF waits /\ ~pipelineDone THEN UNCHANGED faults ELSE Fault
  /\ pipe' = [pc |-> IF waits THEN "wait" ELSE "verify",
              waits |-> waits, toVerify |-> Shard, errors |-> FALSE,
              listed |-> {}, read |-> {}, found |-> NoContents]
  /\ PipeUnchanged
  /\ UNCHANGED <<markerVars, aggregated>>

PipeAt(pc) == pipe # None /\ pipe.pc = pc

\* wait_for_repair.
WaitOver ==
  /\ PipeAt("wait") /\ repairDone = Shard
  /\ pipe' = [pipe EXCEPT !.pc = "verify"]
  /\ PipeUnchanged
  /\ UNCHANGED <<faults, markerVars, aggregated>>

\* verify_one: the verification passes, or the marker is there and trusted.
VerifyOne(s) ==
  /\ PipeAt("verify") /\ s \in pipe.toVerify
  /\ pipe' = [pipe EXCEPT !.toVerify = @ \ {s}]
  /\ verifyDone' = verifyDone \cup {s}
  /\ PipeUnchanged
  /\ UNCHANGED <<faults, repairDone, summary, aggregateDone, pipelineDone, aggregated>>

\* A verification that fails leaves an old marker as it is.  With a marker it
\* takes --force-verify; without, marked shards are among those that pass.
VerifyFails(s) ==
  /\ PipeAt("verify") /\ s \in pipe.toVerify
  /\ IF FoundTorn(s) THEN UNCHANGED faults ELSE Fault
  /\ pipe' = [pipe EXCEPT !.toVerify = @ \ {s}, !.errors = TRUE]
  /\ PipeUnchanged
  /\ UNCHANGED <<markerVars, aggregated>>

VerifyEnds ==
  /\ PipeAt("verify") /\ pipe.toVerify = {}
  /\ pipe' = IF pipe.errors THEN None ELSE [pipe EXCEPT !.pc = "list"]
  /\ PipeUnchanged
  /\ UNCHANGED <<faults, markerVars, aggregated>>

\* aggregate_manifest.py lists the manifests, and raises if there is none.
ListManifests ==
  /\ PipeAt("list")
  /\ LET listed == {t \in Subtar : manifest[t] # 0}
     IN  pipe' = IF listed = {} THEN None
                 ELSE [pipe EXCEPT !.pc = "read", !.listed = listed]
  /\ PipeUnchanged
  /\ UNCHANGED <<faults, markerVars, aggregated>>

\* It reads them in the order of their names.
ReadShard(s) ==
  /\ PipeAt("read") /\ s \in Shard \ pipe.read
  /\ \A r \in Shard \ pipe.read : s <= r
  /\ pipe' = [pipe EXCEPT
                !.read = @ \cup {s},
                !.found = [t \in Subtar |->
                             IF t[1] = s /\ t \in pipe.listed THEN manifest[t] ELSE @[t]]]
  /\ PipeUnchanged
  /\ UNCHANGED <<faults, markerVars, aggregated>>

\* It writes manifest.jsonl and manifest.jsonl.summary.json, and ends.  What it
\* has made of manifests that nobody waited for is not told apart.
WriteAggregate ==
  /\ PipeAt("read") /\ pipe.read = Shard
  /\ aggregated' = [waited |-> pipe.waits,
                    contents |-> IF pipe.waits THEN pipe.found ELSE NoContents]
  /\ pipe' = [pipe EXCEPT !.pc = "summary",
                          !.listed = {}, !.read = {}, !.found = NoContents]
  /\ PipeUnchanged
  /\ UNCHANGED <<faults, markerVars>>

\* The pipeline reads manifest.summary.json, and raises if there is none.
ReadSummary ==
  /\ PipeAt("summary")
  /\ aggregateDone' = (aggregateDone \/ summary)
  /\ pipe' = IF summary THEN [pipe EXCEPT !.pc = "finish"] ELSE None
  /\ PipeUnchanged
  /\ UNCHANGED <<faults, repairDone, verifyDone, summary, pipelineDone, aggregated>>

Finish ==
  /\ PipeAt("finish")
  /\ pipelineDone' = TRUE
  /\ pipe' = None
  /\ PipeUnchanged
  /\ UNCHANGED <<faults, repairDone, verifyDone, summary, aggregateDone, aggregated>>

\* The pipeline is killed, or its waiting times out.
StopPipeline ==
  /\ pipe # None
  /\ Fault
  /\ pipe' = None
  /\ PipeUnchanged
  /\ UNCHANGED <<markerVars, aggregated>>

PipeStep ==
  \/ WaitOver
  \/ (\E s \in Shard : VerifyOne(s) \/ VerifyFails(s) \/ ReadShard(s))
  \/ VerifyEnds \/ ListManifests \/ WriteAggregate \/ ReadSummary \/ Finish

Next ==
  \/ ShardNext /\ UNCHANGED <<markerVars, aggregated, pipe>>
  \/ (\E s \in Shard :
        \/ (\E todo \in SUBSET Sub : StartRepair(s, todo))
        \/ RepairStep(s) \/ StopRepair(s) \/ VerifyJob(s))
  \/ (\E waits \in WaitRepair : StartPipeline(waits))
  \/ PipeStep \/ StopPipeline

Spec == Init /\ [][Next]_vars

(***************************************************************************)
(* As long as there is work for the planner, a pod, or an operator who     *)
(* follows recover.sh and submits the repairs, some of it gets done.  The  *)
(* pipeline runs, and is started again when it has failed.                 *)
(***************************************************************************)
Work ==
  \/ StartPlanning \/ WriteMeta \/ (\E t \in Subtar : WritePlan(t))
  \/ \E s \in Shard :
       \/ WorkerStep(s) \/ HeartAges(s) \/ Resubmit(s)
       \/ RepairStep(s) \/ (\E todo \in SUBSET Sub : StartRepair(s, todo))

FairSpec ==
  /\ Spec
  /\ WF_shardVars(Work)
  /\ WF_vars(~pipelineDone /\ \E waits \in WaitRepair : StartPipeline(waits))
  /\ WF_vars(PipeStep)

(***************************************************************************)
(* Properties.                                                             *)
(***************************************************************************)

(***************************************************************************)
(* Nothing is aggregated before every shard has its verify marker.  What a *)
(* pipeline that waits for the repairs aggregates is the whole corpus, and *)
(* each manifest that went into it still describes the tar that stands     *)
(* beside it - though repairs were killed between the two files, markers   *)
(* were written before and after, and pipelines that did not wait have     *)
(* left markers on shards that were not finished.                          *)
(***************************************************************************)
AggregatedSound ==
  aggregated # None =>
    /\ verifyDone = Shard
    /\ aggregated.waited =>
         \A t \in Subtar : /\ aggregated.contents[t] # 0
                           /\ aggregated.contents[t] = manifest[t]
                           /\ manifest[t] = tar[t]

(***************************************************************************)
(* With finitely many faults the corpus is aggregated in the end, early if *)
(* a pipeline does not wait, and otherwise because no shard is forgotten   *)
(* between the markers that planning, workers, repairs and the pipeline    *)
(* leave for each other.                                                   *)
(***************************************************************************)
EventuallyAggregated == <>(aggregated # None)

(***************************************************************************)
(* submit_postprocess.sh: the pipeline waits for all repair markers,       *)
(* verifies every shard, and then aggregates, which writes                 *)
(* manifest.summary.json.  So it should come to its end.                   *)
(***************************************************************************)
EventuallyPostprocessed == <>pipelineDone

(***************************************************************************)
(* The inductive invariant of the proofs, for repairs that are made once   *)
(* and of whole shards.                                                    *)
(***************************************************************************)
RepairsOK ==
  \A s \in Shard : pod[s] # None /\ pod[s].kind = "repair" =>
    /\ s \in shardDone \ repairDone
    /\ \A m \in Sub \ pod[s].todo : tar[<<s, m>>] = manifest[<<s, m>>]

Torn(s) == \E m \in Sub : tar[<<s, m>>] # manifest[<<s, m>>]

SettledOK == \A s \in repairDone : s \in shardDone /\ ~Torn(s)

VerifiedOK ==
  IF pipe.pc \in {"wait", "verify"}
  THEN pipe.errors \/ Shard \ pipe.toVerify \subseteq verifyDone
  ELSE verifyDone = Shard

\* A pipeline that waits reads the manifests of shards that are repaired.
ReadOK ==
  /\ pipe.pc # "read" => pipe.read = {}
  /\ pipe.waits /\ pipe.pc # "wait" => repairDone = Shard
  /\ pipe.waits /\ pipe.pc = "read" =>
       /\ pipe.listed = Subtar
       /\ \A s \in pipe.read, m \in Sub : pipe.found[<<s, m>>] = manifest[<<s, m>>]

PipelineOK == pipe # None => VerifiedOK /\ ReadOK

AggregateOK ==
  aggregated # None =>
    /\ verifyDone = Shard
    /\ aggregated.waited => repairDone = Shard /\ aggregated.contents = manifest

IInv ==
  TypeOK /\ ShardInv /\ RepairsOK /\ SettledOK /\ PipelineOK /\ AggregateOK
===============================================================================
