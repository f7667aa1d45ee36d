------------------------------- MODULE ShardRun -------------------------------
(***************************************************************************)
(* The corpus as shards of subtars: build_shards.py writes the plans, a    *)
(* pod per shard runs the main of download_worker.py over them, and        *)
(* recover.sh tells from the markers which shards to submit again.         *)
(*                                                                         *)
(* What SubtarDownload models in its steps, process_subtar, is one step    *)
(* here, or one that is cut short: tar, manifest and done marker come in   *)
(* that order.  What a subtar holds is the number of its last rebuild, 0   *)
(* when there is none.                                                     *)
(***************************************************************************)
EXTENDS Integers, FiniteSets

CONSTANTS
  NumShards,    \* --n-shards
  NumSubs,      \* subtars per shard
  Replan,       \* may build_shards --force run over plans in use?
  MaxFaults,    \* bound: kills, failures, runs of a part or out of turn
  None          \* no process

ASSUME SizesAssumption == NumShards \in Nat /\ NumSubs \in Nat /\ MaxFaults \in Nat
ASSUME ReplanAssumption == Replan \in BOOLEAN

Shard == 0 .. NumShards - 1
Sub == 0 .. NumSubs - 1
Subtar == Shard \X Sub

Pod == [kind : {"worker", "repair"}, todo : SUBSET Sub, full : BOOLEAN]

ASSUME NoneAssumption == None \notin Pod

VARIABLES
  plans,       \* the subtars that have a plan file
  meta,        \* is there an index/shards.meta.json?
  planning,    \* is build_shards running?
  toPlan,      \* the plans it has still to write
  tar,         \* what each sub-MMM.tar holds
  manifest,    \* what each sub-MMM.jsonl describes
  subDone,     \* the subtars with a done marker
  incomplete,  \* the subtars with an incomplete marker
  shardDone,   \* the shards with a done marker
  heartbeat,   \* the age of each shard's heartbeat
  pod,         \* the pod of each shard, or None
  faults       \* faults so far

planVars == <<plans, meta, planning, toPlan>>
fileVars == <<tar, manifest, subDone, incomplete>>
shardVars == <<planVars, fileVars, shardDone, heartbeat, pod, faults>>

ShardTypeOK ==
  /\ plans \in SUBSET Subtar
  /\ meta \in BOOLEAN
  /\ planning \in BOOLEAN /\ toPlan \in SUBSET Subtar
  /\ planning => plans \cap toPlan = {} /\ plans \cup toPlan = Subtar
  /\ tar \in [Subtar -> Nat] /\ manifest \in [Subtar -> Nat]
  /\ subDone \in SUBSET Subtar /\ incomplete \in SUBSET Subtar
  /\ shardDone \in SUBSET Shard
  /\ heartbeat \in [Shard -> {"none", "fresh", "old"}]
  /\ pod \in [Shard -> Pod \cup {None}]
  /\ faults \in Nat

ShardInit ==
  /\ plans = {} /\ meta = FALSE /\ planning = FALSE /\ toPlan = {}
  /\ tar = [t \in Subtar |-> 0] /\ manifest = [t \in Subtar |-> 0]
  /\ subDone = {} /\ incomplete = {} /\ shardDone = {}
  /\ heartbeat = [s \in Shard |-> "none"]
  /\ pod = [s \in Shard |-> None]
  /\ faults = 0

Fault == faults < MaxFaults /\ faults' = faults + 1

(***************************************************************************)
(* build_shards.py.  A directory that is not empty takes --force; the meta *)
(* file is written last.  A removal that is cut short leaves no more than  *)
(* a writing that is.                                                      *)
(***************************************************************************)
MayPlan == ~planning /\ (meta => Replan)

\* Plausible mistake: the old plans stay where they are.
StartPlanningOver ==
  /\ MayPlan
  /\ planning' = TRUE
  /\ toPlan' = Subtar
  /\ UNCHANGED <<plans, meta, fileVars, shardDone, heartbeat, pod, faults>>

StartPlanning ==
  /\ MayPlan
  /\ plans' = {}
  /\ planning' = TRUE
  /\ toPlan' = Subtar
  /\ UNCHANGED <<meta, fileVars, shardDone, heartbeat, pod, faults>>

Before(t, u) == t[1] < u[1] \/ (t[1] = u[1] /\ t[2] <= u[2])

WritePlan(t) ==
  /\ planning /\ t \in toPlan
  /\ \A u \in toPlan : Before(t, u)
  /\ plans' = plans \cup {t}
  /\ toPlan' = toPlan \ {t}
  /\ UNCHANGED <<meta, planning, fileVars, shardDone, heartbeat, pod, faults>>

WriteMeta ==
  /\ planning /\ toPlan = {}
  /\ meta' = TRUE
  /\ planning' = FALSE
  /\ UNCHANGED <<plans, toPlan, fileVars, shardDone, heartbeat, pod, faults>>

KillPlanner ==
  /\ planning
  /\ Fault
  /\ planning' = FALSE
  /\ toPlan' = {}
  /\ UNCHANGED <<plans, meta, fileVars, shardDone, heartbeat, pod>>

(***************************************************************************)
(* recover.sh and the submission of pods.  A pod has the name of its       *)
(* shard, so there is one at a time.                                       *)
(***************************************************************************)
\* Plausible mistake: any heartbeat means that somebody is at work.
ShardStateTrusting(s) ==
  IF s \in shardDone THEN "done"
  ELSE IF heartbeat[s] # "none" THEN "active"
  ELSE IF \E m \in Sub : <<s, m>> \in subDone \cup incomplete THEN "partial"
  ELSE "missing"

ShardState(s) ==
  IF s \in shardDone THEN "done"
  ELSE IF heartbeat[s] = "old" THEN "stale"
  ELSE IF heartbeat[s] = "fresh" THEN "active"
  ELSE IF \E m \in Sub : <<s, m>> \in subDone \cup incomplete THEN "partial"
  ELSE "missing"

PlansOf(s) == {m \in Sub : <<s, m>> \in plans}

\* A pod starts: it lists the plans, and writes a heartbeat.
StartPod(s, kind, todo, full) ==
  /\ meta /\ pod[s] = None
  /\ pod' = [pod EXCEPT ![s] = [kind |-> kind, todo |-> todo, full |-> full]]
  /\ heartbeat' = [heartbeat EXCEPT ![s] = "fresh"]

Resubmit(s) ==
  /\ meta
  /\ ShardState(s) \in {"partial", "stale", "missing"}
  /\ StartPod(s, "worker", PlansOf(s), TRUE)
  /\ UNCHANGED <<planVars, fileVars, shardDone, faults>>

\* --subtar-id, --max-subtars: a worker for some of the subtars.
SubmitSome(s, todo) ==
  /\ Fault
  /\ todo # {} /\ todo \subseteq PlansOf(s)
  /\ StartPod(s, "worker", todo, FALSE)
  /\ UNCHANGED <<planVars, fileVars, shardDone>>

\* Nobody writes the heartbeat for STALE_SECONDS, with or without a pod.
HeartAges(s) ==
  /\ heartbeat[s] = "fresh" /\ s \notin shardDone
  /\ heartbeat' = [heartbeat EXCEPT ![s] = "old"]
  /\ UNCHANGED <<planVars, fileVars, shardDone, pod, faults>>

(***************************************************************************)
(* main of the worker.                                                     *)
(***************************************************************************)
At(s, kind) == pod[s] # None /\ pod[s].kind = kind

NextSub(s, m) == m \in pod[s].todo /\ \A k \in pod[s].todo : m <= k

Larger(a, b) == IF a > b THEN a ELSE b
Rebuild(t) == Larger(tar[t], manifest[t]) + 1

PodMovesOn(s, m) ==
  /\ pod' = [pod EXCEPT ![s].todo = @ \ {m}]
  /\ heartbeat' = [heartbeat EXCEPT ![s] = "fresh"]

PodEnds(s) == pod' = [pod EXCEPT ![s] = None]

SkipSub(s, m) ==
  /\ At(s, "worker") /\ NextSub(s, m)
  /\ <<s, m>> \in subDone
  /\ PodMovesOn(s, m)
  /\ UNCHANGED <<planVars, fileVars, shardDone, faults>>

ProcessSub(s, m) ==
  /\ At(s, "worker") /\ NextSub(s, m)
  /\ <<s, m>> \notin subDone
  /\ tar' = [tar EXCEPT ![<<s, m>>] = Rebuild(<<s, m>>)]
  /\ manifest' = [manifest EXCEPT ![<<s, m>>] = Rebuild(<<s, m>>)]
  /\ subDone' = subDone \cup {<<s, m>>}
  /\ PodMovesOn(s, m)
  /\ UNCHANGED <<planVars, incomplete, shardDone, faults>>

\* How far a rebuild of tar and manifest may get.
CutShort(t) ==
  \/ UNCHANGED <<tar, manifest>>
  \/ tar' = [tar EXCEPT ![t] = Rebuild(t)] /\ UNCHANGED manifest
  \/ /\ tar' = [tar EXCEPT ![t] = Rebuild(t)]
     /\ manifest' = [manifest EXCEPT ![t] = Rebuild(t)]

\* Plausible mistake: the run goes on with the next subtar.
FailSubOn(s, m) ==
  /\ At(s, "worker") /\ NextSub(s, m)
  /\ <<s, m>> \notin subDone
  /\ Fault
  /\ CutShort(<<s, m>>)
  /\ incomplete' = incomplete \cup {<<s, m>>}
  /\ PodMovesOn(s, m)
  /\ UNCHANGED <<planVars, subDone, shardDone>>

\* An exception ends the run; it leaves an incomplete marker.
FailSub(s, m) ==
  /\ At(s, "worker") /\ NextSub(s, m)
  /\ <<s, m>> \notin subDone
  /\ Fault
  /\ CutShort(<<s, m>>)
  /\ incomplete' = incomplete \cup {<<s, m>>}
  /\ PodEnds(s)
  /\ heartbeat' = [heartbeat EXCEPT ![s] = "fresh"]
  /\ UNCHANGED <<planVars, subDone, shardDone>>

KillWorker(s) ==
  /\ At(s, "worker")
  /\ Fault
  /\ \/ UNCHANGED <<tar, manifest>>
     \/ \E m \in Sub : /\ NextSub(s, m) /\ <<s, m>> \notin subDone
                       /\ CutShort(<<s, m>>)
  /\ PodEnds(s)
  /\ UNCHANGED <<planVars, subDone, incomplete, shardDone, heartbeat>>

EndShard(s) ==
  /\ At(s, "worker") /\ pod[s].todo = {}
  /\ shardDone' = IF pod[s].full THEN shardDone \cup {s} ELSE shardDone
  /\ PodEnds(s)
  /\ UNCHANGED <<planVars, fileVars, heartbeat, faults>>

WorkerStep(s) ==
  \/ (\E m \in Sub : SkipSub(s, m) \/ ProcessSub(s, m))
  \/ EndShard(s)

ShardNext ==
  \/ StartPlanning \/ (\E t \in Subtar : WritePlan(t)) \/ WriteMeta
  \/ KillPlanner
  \/ \E s \in Shard :
       \/ Resubmit(s) \/ (\E todo \in SUBSET Sub : SubmitSome(s, todo))
       \/ HeartAges(s) \/ WorkerStep(s) \/ (\E m \in Sub : FailSub(s, m))
       \/ KillWorker(s)

(***************************************************************************)
(* Properties.                                                             *)
(***************************************************************************)

(***************************************************************************)
(* A shard's done marker, which recover.sh believes for good, means that   *)
(* every planned subtar of it was published and has its own marker:        *)
(* whatever was killed, failed, run for some subtars only, or started      *)
(* while the plans were still being written.                               *)
(***************************************************************************)
ShardDoneMeansAll ==
  \A s \in shardDone, m \in Sub :
    /\ <<s, m>> \in plans \cap subDone
    /\ tar[<<s, m>>] # 0 /\ manifest[<<s, m>>] # 0

(***************************************************************************)
(* The inductive invariant of the proofs, for plans that stay.             *)
(***************************************************************************)
PlansOK ==
  /\ meta => plans = Subtar /\ ~planning
  /\ shardDone # {} => meta

MarkersOK == \A t \in subDone : tar[t] # 0 /\ manifest[t] # 0

WorkersOK ==
  \A s \in Shard : pod[s] # None =>
    /\ meta
    /\ pod[s].kind = "worker" /\ pod[s].full =>
         \A m \in Sub \ pod[s].todo : <<s, m>> \in subDone

ShardInv ==
  ShardTypeOK /\ PlansOK /\ MarkersOK /\ WorkersOK /\ ShardDoneMeansAll
===============================================================================
