# SciELO full-text download: TLA+ specification

The repository downloads SciELO articles in stages that talk to each other only
through files on a shared file system: identifier pages, ArticleMeta rows, a
seed manifest, shard plans, tars of packages with their manifests, and markers
that say what is complete. Every stage is a batch program that the cluster may
kill at any moment and that is then simply submitted again. What it leaves on
disk is therefore its whole interface to its own next run and to the others,
and that is what these modules specify.

## 1. The system

| component | source | state on disk | operations | interacts with |
|---|---|---|---|---|
| identifier harvest | `scripts/harvest_identifiers.py` | pages, one state file | fetch a page, write it, advance the state | ArticleMeta fetch reads pages and state |
| ArticleMeta fetch | `scripts/fetch_articlemeta.py` | one output per (sub-)shard, temporary files | restore rows of an earlier run, fetch the others with a thread pool, publish by rename | build_manifest reads the outputs |
| manifest and plans | `build_manifest.py`, `build_shards.py` | seed manifest, plans, `shards.meta.json` | select, deduplicate, partition; replace the plans with `--force` | worker, repair and pipeline read plans and meta file |
| subtar download | `download_worker.py` (`process_subtar`) | `sub-MMM.work/` with row caches and retry states, `sub-MMM.tar`, `sub-MMM.jsonl`, `sub-MMM.done` | scan caches, fetch rows, retry or block them, assemble, mark done, clean | repair, verification and aggregation read tar and manifest |
| shard run | `download_worker.py` (`main`), `recover.sh` | `.incomplete`, shard `.done`, heartbeat | loop over the plans, record failures | recover.sh classifies shards by the markers and says which to submit again |
| row fetching | `download_worker.py` (`process_row`, `fetch_xml`, `fetch_figure`) | none | fetch XML, check license and body, fetch figures, build the package | called by download and repair |
| repair | `repair_retries.py` | `sub-MMM.repair.work/`, replaces tar and manifest, shard `.repair.done` | pick blocked and retryable rows, fetch them again, rebuild the pair | works on published subtars; postprocess waits for it |
| rate limits, proxies | `common.py` | `.rate` files shared by pods | reserve a slot, pick a proxy, retry a request | used by every stage with network access |
| license policy | `common.py` | none | classify license text and URLs | row fetching |
| verification, pipeline | `verify_shard.py`, `postprocess_pipeline.py` | `.verify.done`, `aggregate.done`, pipeline `.done` | wait for repair, verify, aggregate | reads every marker above |
| aggregation | `aggregate_manifest.py` | corpus manifest and its summary | normalise outcomes, decide the license again, join with the seed | reads the manifests of all subtars |
| backfill | `backfill_manifest_provenance*.py` | enriched manifest and its summary, a temporary database | add exact package hashes from the tars | reads a manifest and the tars |
| converter preparation | `prepare_converter.py` | converter directories and lists | admit rows, extract packages | last stage |

The behaviours that are hard: kills between any two writes (several files have
to agree, and each is replaced on its own), reruns with other options, results
of a thread pool in any order while retried rows re-enter the queue, retry
budgets that have to survive restarts, retries of retries, markers that outlive
what they vouched for or are trusted by another program, inputs that are replaced
while they are read, and two pods on the same files.

What would make each component correct:

* subtar download: a done marker stands over a tar and a manifest of the same
  attempts; no recorded outcome is lost or changed by a kill; final rows are not
  fetched again; retries stay in their budget; every subtar is published in the
  end, and what the removal of its work directory leaves behind does no harm.
* harvest and ArticleMeta fetch: each identifier exactly once, resumable from
  every state a kill can leave.
* repair: a published subtar stays consistent, or becomes so when the repair is
  run again; rows outside the repair keep their packages.
* rate limits: no proxy gets more than its rate, whichever pods share it.
* row fetching: a row makes no more requests than its options allow, and a
  package is what its manifest row says of it.
* shard run: no shard is forgotten, and a shard marker means that every planned
  subtar was published.
* repair, verification, pipeline: what is aggregated is the whole corpus, and
  describes the tars that stand beside it.
* aggregation: what it admits is licensed, packaged and complete, and what it
  calls retryable a repair would fetch again.
* backfill: a summary vouches for one version of the input, with the hash of every
  admitted package and nothing else changed.

## 2. The modules

`RowOutcome` holds the data of a row and the pure functions on it: which
statuses may be retried (`retryable_row_status`), what a fetch attempt returns
(`process_row`), what blocking and annotation change (`mark_retry_blocked`,
`annotate_retry_success`), and what is kept of it in the row cache
(`write_row_cache`). The status string is reduced to the four classes the
worker distinguishes; the prefix `retry_blocked_` is a flag. Package bytes are
represented by the number of the attempt that produced them: a package contains
its download time, so two attempts never produce the same bytes, and a mix-up
of two attempts is visible.

`SubtarDownload` is `process_subtar`. Its state is in three parts:

| variables | in the code |
|---|---|
| `rowManifest`, `rowPayload`, `retryState` | `row-NNNNNN.json`, `.tar`, `.retry.json` in the work directory |
| `tar`, `manifest`, `done`, `incomplete` | the published pair, the done marker, the `.incomplete` marker |
| `pc`, `opts`, `cursor`, `outRows`, `attempts`, `histories`, `queue`, `pending`, `result` | the locals of `process_subtar` and its closures, lost in a kill |
| `fetched`, `runs` | observation only |

One action is one effect on the file system, so that a kill (`Crash`) or a
failing write (`Fail`, which ends in the `.incomplete` marker of `main`) can
come between any two of them:

| phase | actions | code |
|---|---|---|
| start | `Start` | done marker (then "skip") and `--force` |
| scan | `ScanCached`, `ScanMissing`, `ScanRetried`, `DropRowManifest`, `DropRowPayload`, `LoadRetryStates` | the loop over `read_row_cache`, `delete_row_cache`, reading the retry states |
| loop | `FillPending`, `Requeue`, `Block`, `Accept` | the queue, the thread pool, `finish_attempt` |
| row cache | `WriteRowPayload`, `WriteRowManifest`, `DropRetryState` | `write_row_cache`, `delete_row_retry_state` |
| assembly | `AssembleTar`, `WriteManifest`, `MarkDone` | `assemble_subtar`, the done marker |
| clean, skip | `CleanFile`, `Finish` | `shutil.rmtree` after the marker, its errors ignored; of a done subtar, where they are raised |

Both programs end with a removal of the work directory whose errors are ignored
(`download_worker.py:997`, `repair_retries.py:338`): `Finish` takes place with
whatever is left. Only a later run that finds the done marker needs the directory to
be gone (`download_worker.py:828-830`), and raises if it cannot remove it.

A fetch changes nothing before the main thread takes up its result, so its
outcome is chosen there. With `--workers` 1 the code has no pool; `MaxPending`
is 1 then, and twice the workers otherwise.

`SubtarResult` is the abstract specification: each row gets one outcome, a
recorded outcome is given up only if it may be retried, and publication
happens once and freezes all outcomes. `SubtarDownload!ImplementsResult` maps
the worker's files to it: before the marker the outcome of a row is its
readable row cache, afterwards its manifest row and its package in the tar.

`RepairSubtar` is `repair_subtar`. It starts from any pair a worker can have
published and shares the row functions with the worker. `tar` and `manifest` are
the published pair; `rowManifest`, `rowPayload`, `retriesUsed` are the files of
`sub-MMM.repair.work/`; `pc`, `opts`, `targets`, `outRows`, `attempts`,
`cursor`, `result` are its locals. The queue and the pool are abstracted to "a
result may come of any row that is not done", since the order of the queue was
the subject of `SubtarDownload`. The actions:

| phase | actions | code |
|---|---|---|
| start | `StartNothing`, `Start` | targets, cached rows, retry states |
| loop | `Requeue`, `Block`, `Accept` | `finish_attempt` |
| row cache | `WriteRowPayload`, `WriteRowManifest`, `DropRetryState` | `write_row_cache`, `delete_row_retry_state` |
| rebuild | `ReplaceTar`, `ReplaceManifest`, `MarkDone`, `FailRebuild` | the new tar, the two renames, the done marker, the `except` branch (also of a member that cannot be copied) |
| clean | `CleanFile`, `Finish` | `shutil.rmtree`, its errors ignored |

`HarvestIdentifiers` is `main` of the harvest: `pages` and `state` are its
files, and between `WritePage` and `WriteState` it may be killed. An identifier
is its position in the server's list; the server chooses how many it gives and
whether it gives a total.

`FetchArticleMeta` is `main` of the ArticleMeta fetch for a shard and its
parts, with several pods:

| variables | in the code |
|---|---|
| `complete`, `published` | which outputs exist, and their rows |
| `files`, `name`, `rows`, `rank` | the temporary files in the directory, the output each is for, the rows that have reached it, and the order of their modification times |
| `pc`, `out`, `tmp`, `source`, `toRestore`, `written` | the locals of a run: its output, its temporary file, `resume_path`, and `done_keys` |

`Start` picks the file to resume from and makes a temporary file, `Open` reads the
source, `Restore` and `FetchRow` write rows, `Flush` is the buffer reaching the
file, `Close`, `Replace` and `Unlink` end the run. `Kill` loses what is in the
buffer, and `FetchFails` is an exception that `fetch_articlemeta_row` does not
catch, which closes the file first. A file that has been unlinked stays readable
and writable for a pod that has it open, as on the file system, and `ReplaceFails`
is what such a pod meets at its end. A row is its key; the order in which the pool
fetches, and the status of a row, are abstracted.

`SharedRateLimit` is `SharedRateLimiter` for one proxy: `age` is the content of
its `.rate` file, `flock` and `mutex` are the two locks, and each thread goes
through `expected_wait` (`Pick`, `TryLock`, `Locked`, `Peek`) and `wait` (`Enter`,
`Lock`, `Truncate`, `Stamp`, `Unlock`). Times are ages up to the interval, so the
clock needs no bound.

`FetchRow` is one attempt at one row: `process_row` with `fetch_xml`,
`fetch_figure` and the request loop `fetch_bytes`. What `SubtarDownload` takes as
one free outcome is here made step by step:

| variables | in the code |
|---|---|
| `attempt`, `directError` | the loop variable of `fetch_bytes`, `direct_error` of `fetch_xml` |
| `article` | the parsed XML, as what is asked of it: license evidence, caption terms, body, number of media |
| `figures`, `figureFiles` | `figure_manifest`, `figure_files` |
| `out`, `opts`, `pc` | the result, the options, the place |
| `requests` | observation only |

| phase | actions | code |
|---|---|---|
| start | `PassThrough`, `StartFetch` | a row that is not planned; the choice of the first address |
| XML | `Repeat`, `FallBack`, `XmlFails`, `ResolveElsewhere`, `ResolveSame`, `GetXml` | `fetch_bytes`, `fetch_xml`, `resolve_final_url` |
| checks | `ParseFails`, `Refuse`, `Admit` | the early returns of `process_row`, in their order |
| media | `Repeat`, `GetFigure`, `FigureFails` | `fetch_figure` |
| package | `Package`, `RowFails` | rewriting, status, members and hashes; `process_row_safe` |

License evidence is a set of kinds (an exact license, generic attribution prose, a
restrictive term, something else) in text and links. How wording is told to be of
a kind, XML parsing and the rendering of images are abstracted to their results;
a rendered medium gets another member name, which is what can go wrong with it.

`ManifestRow` extends it by what becomes of the result: `PublishBlocked`
(`mark_retry_blocked`) or `Publish`, and `Aggregate`, which is `normalize_record`:
`_status`, the second license decision, the check of hashes against members, the
quarantine. `decide_license`, `license_codes_agree` and
`manifest_row_is_convertible` are of the package docgraph, which is not in the
repository; they are modelled from their use and the tests.

`ShardRun` is the corpus above the subtar. Plans are written one by one and the meta
file last (`StartPlanning`, `WritePlan`, `WriteMeta`, `KillPlanner`); a pod goes
through the plans it found at its start (`Resubmit`, `SubmitSome`, `SkipSub`,
`ProcessSub`, `FailSub`, `KillWorker`, `EndShard`); `ShardState` is the
classification of `recover.sh`, and `HeartAges` the time that passes. The steps of
`process_subtar` are those of `SubtarDownload`; here it is one step, or one that is
cut short after the tar or after the manifest. `tar[t]` and `manifest[t]` are the
number of the rebuild that made them, so that a mix of two is visible.

`Postprocess` extends it by `main` of the repair (`StartRepair`, `RepairNothing`,
`RepairSub`, `StopRepair`, `EndRepair`), by verification (`VerifyJob`, `VerifyOne`,
`VerifyFails`) and by the pipeline (`StartPipeline`, `WaitOver`, `VerifyEnds`,
`ListManifests`, `ReadShard`, `WriteAggregate`, `ReadSummary`, `Finish`,
`StopPipeline`), all running beside each other on the same files:

| variables | in the code |
|---|---|
| `plans`, `meta`, `planning`, `toPlan` | plan files, `shards.meta.json`, the run of `build_shards.py` |
| `tar`, `manifest`, `subDone`, `incomplete` | the pairs and markers of the subtars |
| `shardDone`, `repairDone`, `verifyDone`, `aggregateDone`, `pipelineDone` | the markers in `state/` |
| `heartbeat`, `pod` | age of the heartbeat, and the worker or repair of each shard |
| `summary`, `aggregated` | `manifest.summary.json`, and what the corpus manifest was made of |
| `pipe` | the locals of the pipeline |

`StartPipeline` takes the value of `--wait-repair-done`: a pipeline with
`--no-wait-repair-done` (`WAIT_FOR_REPAIR_DONE=0`) verifies and aggregates at once,
over the manifests that are there. `aggregated` tells the manifest of a pipeline that
waited from that of one that did not; what went into the latter is not kept, since
nothing is said of it. `--force-verify` needs no variable: with it a marked shard may
fail, without it marked shards are among those that pass.

Verification compares the members a manifest names with those of the tar, not their
bytes, so it may take a pair of two rebuilds for right: `VerifyOne` is free to.

`BackfillManifest` is both backfill tools on one set of files. `input` is the version
of the manifest, `corpus` the tars, `output`, `complete` and `summary` what a tool
leaves, `sha`, `staged`, `rows`, `tarsLeft` its memory and database. A tool takes
the checksum (`HashInput`), stages (`Stage`), enriches tar by tar (`EnrichTar`),
writes (`Write`, from a second reading of the input in the bounded tool), verifies
and summarises; each can fail, and `Kill` and `ReplaceInput` come at any time. A
hash is what goes into it: the members with their bytes, in order.

`MCSubtarDownload`, `MCRepairSubtar`, `MCHarvestIdentifiers`, `MCFetchArticleMeta`,
`MCManifestRow` and `MCBackfillManifest` only name the options, parts, articles,
manifests and tars that the runs use. The modules named `...Proofs` hold the
theorems.

Abstractions: a rename is atomic and durable, and there is no power loss
(`atomic_write_text` does not sync); temporary files a kill leaves are never
read; a subtar has one process at a time, worker or repair; the clock of the
rate limiter is common to the pods and is not set back, and the file system
honours `flock` between them; a row cache or retry state that
cannot be parsed is not modelled, since files only appear by rename; heartbeats
within a subtar are left out, as is what a heartbeat says; a shard has one pod at a
time, since a pod has the name of its shard (`submit_shards.sh`), and repairs are of
shards that are done (`submit_shards.sh:75`).

## 3. The runs

| run | instance | shows |
|---|---|---|
| `subtar_restart` | 2 rows, pool of 2 workers, 2 retries, 3 starts, fair | `TypeOK`; `DoneAgrees`: the marker stands over a consistent pair; `NothingMissing`: assembly never raises; `HistoryAccounts`: `row_attempts` and `retry_history` agree across restarts; `FetchesBounded`: retries + 1 fetches and one per further start; `FinalNotRefetched`; `PublishedUnchanged`; `EventuallyDone`: published for good, whatever killed runs have left |
| `subtar_mixed` | 2 rows, 1 worker, 4 starts, each with no retries, retries, or retries but no `--retry-cached-rows` | `CacheAgrees`; `ImplementsResult` |
| `subtar_forced` | 1 row, some starts with `--force` | refutes `MarkerMeansAgreement` |
| `repair_restart` | 2 rows, 1 retry, 3 repairs, fair | `TypeOK`; `RepairAgrees`: a finished repair leaves a consistent pair; `MismatchHealable`: an interrupted one can be completed without a fetch; `OthersKept`: what is not repaired is not touched; `EventuallyRepaired` |
| `harvest_pages` | 4 identifiers, `--limit` 2, `--max-pages` 1 or enough, 2 kills, fair | `TypeOK`; `PagesContiguous`; `CompleteMeansAll`; `PagesRetained`; `EventuallyComplete` (or stuck as in the next run) |
| `harvest_resume` | 2 identifiers, 1 kill | refutes `Resumable` |
| `articlemeta_pods` | a shard of 2 keys and one of its parts, 2 pods, 1 kill or failing fetch, 1 run beside another or with `--no-resume`, fair | `TypeOK`; `OutputComplete`: an output that exists has all its rows; `RowsRetained`: no row that reached a file is lost; `EventuallyPublished` |
| `rate_shared` | 2 processes of 2 threads, a request each, interval 2, 2 kills, fair | `TypeOK`; `GrantsSpaced`; `AllGranted` |
| `row_manifest` | 1 row, 1 retry for XML and figures, up to 2 media, four kinds of HTTP error, 47 articles, the options of `fetch_xml` and of the figures | `TypeOK`; `RequestsBounded`: retries do not multiply beyond addresses and media; `PackageSound`: members, hashes, links and status agree; `AdmittedSound`: what the corpus manifest admits is licensed, packaged and accepted; `RetryFlagsAgree`: the three tables of transient errors agree but for 409 and 425 |
| `corpus` | 2 shards of 2 subtars, 2 faults, pipelines that wait for the repairs and pipelines that do not, a `manifest.summary.json` left from elsewhere, fair | `TypeOK`; `ShardDoneMeansAll`; `AggregatedSound`: nothing is aggregated unverified, and what a pipeline that waited aggregates is complete and describes the tars; `EventuallyAggregated` |
| `corpus_summary` | 2 shards of 1 subtar, 1 fault, both kinds of pipeline, no leftover summary, fair | refutes `EventuallyPostprocessed` |
| `backfill` | 3 rows, 10 versions of the input, 7 kinds of tar, 2 kills or replacements of the input, fair | `TypeOK`; `SummaryMeansBackfilled`: a summary vouches for one version, every admitted row of it hashed and the others untouched; `OnlyExactPackages`; `EventuallySummarised` |

Bounds. Two rows are the least that can be out of step with each other in the
queue, the scan and the assembly; rows do not share any state beyond that. With
three starts there are two faults, so a run that recovers from a fault is itself
interrupted; the mixed run has a third, because it takes one run to cache a
retryable row, one to be killed while dropping it, and one to be killed while
writing the new one. `MaxRuns` is the only bound that cuts behaviours of the two
subtar modules: a fault needs one further start to be left, so that the last run
always gets through. The pool of two workers takes all rows at once; the single
worker makes the queue wait, which is the other case of `MaxPending`.

For the ArticleMeta fetch a shard of two keys and one part of one key are enough for
a part to find rows that are not its own. `MaxRuns` is the number of temporary
files the other two bounds allow, so that it cuts nothing; one kill and one extra
run together give a killed run of the shard from which a part and a new run of the
shard resume, and two runs for one output of which one removes the file of the
other.

The harvest has four identifiers in pages of at most two, so that there are
full, short and empty pages, up to five of them; its only bound on behaviours is
`MaxKills`. The rate limiter has two processes of two threads because a thread
can meet three kinds of others: one that holds its own mutex, one that holds the
file, and one that waits for either; four requests give three gaps, and two kills
can hit the file while it is empty and again while it is being recovered.

One row is enough for `row_manifest`, since rows share nothing while they are
fetched; two media are the least of which one can be had and the other not. The
error codes are one that is final, one that is repeated by requests only, one that is
transient for rows only, and one that is transient throughout. The articles are every
license of one text and one link, and every other fault of an article with a good
license. Its only bounds are these constants.

Two shards of two subtars are the least for a shard that is done beside one that is
not, and a subtar that is published beside one that is not; two faults let a repair or
a pipeline be stopped after a worker was. `corpus` starts with the summary file that
`ReadSummary` looks for, so that the pipeline can get to its last marker; without the
file (`corpus_summary`) it never does, and its restarts add states but no step that
changes what was aggregated. The theorems hold for both. `MaxFaults` counts kills, failures, partial
runs, verification jobs, and pipelines that do not wait or are started again after the
corpus was marked done: two are enough for a pipeline that leaves verify markers on
unfinished shards and for a repair that is then killed between tar and manifest, before
a pipeline that waits trusts those markers. The inputs of `backfill` are a manifest and its versions,
each differing in one way a newer aggregation can differ, and tars with each fault the
tool looks for; two faults are a replacement of the input and a kill, or two
replacements.

Every run has `CHECK_DEADLOCK FALSE`, since all of these programs stop when their
work is done.

Fairness. `WF(Step)`: a running process goes on, since each request has a time
limit and its own bounded retries, so every fetch returns. `WF(Start)`,
`WF(Begin)`: a process that is down is submitted again, which is what
`recover.sh` prints as long as the shard has no done marker, and what an operator
does for the harvest and the repair. Of a subtar that is published nothing of the kind
is assumed. In the corpus it is only assumed that some work gets done as long as there
is any (`Work`: plans get written, pods run, time passes, whoever is in charge follows
`recover.sh` and submits the repair of shards that are done), and that the pipeline
runs and is started again until the corpus is marked done; nothing is
assumed of which shard comes first, of whether the pipeline waits, or of what a
verification may find. In the backfill,
whoever runs the tools removes an output that has no summary. In the rate limiter every thread is
scheduled and time passes; that the locks are fair is not assumed, which is why
its liveness is about finitely many requests. Nothing is assumed of which result
comes back first, nor of the outcome of a fetch. Without a bound on the faults a
process could be killed for ever, and nothing would follow.

### Divergences found

1. *--force under an old marker.* The done marker is not removed when `--force`
   rebuilds a subtar. A kill between the renames of tar and manifest leaves the
   new tar beside the old manifest, and the old marker makes later runs skip
   the subtar and delete the work directory that could have healed it
   (`subtar_forced`).
2. *Harvest killed between page and state.* Every later run finds the page and
   refuses to overwrite it (`harvest_resume`); someone has to remove the file.
3. *The pipeline's summary.* It reads `manifest.summary.json`, as
   `submit_postprocess.sh` announces it, but the aggregation puts its summary beside
   the output as `manifest.jsonl.summary.json`. So the pipeline raises after the
   aggregation, and `aggregate.done` and `postprocess-pipeline.done` are never written
   (`corpus_summary`), unless a file of that name is left from elsewhere, which it then
   records as the aggregation's.

### Observed without a run of their own

These follow from the code when options are used that the runs exclude by a named
assumption; TLC shows each when the assumption is dropped.

* *Runs with different row retries* (`RetriesAgree`). A retry state that has used up more
  retries than the run at hand allows is cut off to its number
  (`download_worker.py:869`), and `row_attempts` with it, while `retry_history` keeps
  its entries: `HistoryAccounts` fails after a run with two retries and one with one.
* *Runs without row retries among others* (`AllOrNoneRetry`). Such a run deletes the
  retry states it finds and caches a failure that a later run takes up again from its
  first attempt: `FetchesBounded` fails. Different positive numbers do no harm.
* *Repair and the leftovers of a repair* (`RepairsAlike`: row retries). With
  `ROW_RETRIES=0` a failed row is cached unblocked and so stays a target. If the removal
  of the work directory is interrupted, or fails, its row manifest may stay without its payload,
  and if the next repair is killed after it wrote a new payload, the one after that
  pairs the two and publishes the hash of another package. With row retries this is
  impossible (theorem `RepairAgreement`).
* *Repair with a cap* (`RepairsAll`: no `--max-repair-rows`). A
  `retry_blocked_partial_figures` row still names the members of its dropped package.
  When such a row is left for later, copying its members raises `KeyError`, in this pass
  and in every later one. Without a cap it cannot happen (theorem `CopyAlways`).
  What was published stays as it was, if all repairs have the same cap (theorems
  `RepairAgreement` and `OthersStay`). When a killed repair is followed by one with a
  smaller cap, a row can be left out whose new package is in the tar already, and its
  old manifest row is published beside it (`RepairsAlike`).
* *Parts of a single shard* (`SeveralShards`). With `--n-shards 1` the output of every
  part is `index/articlemeta.jsonl.gz`. The part that ends first publishes its own rows
  there, and the others take the output for complete. With several shards each part has
  an output of its own (theorem `OutputsCorrect`).
* *New plans under old markers* (`Replan`). `build_shards.py --force` removes neither the
  markers nor the caches of the old plans: a shard that was done stays so, though its
  plans are new, and `ShardDoneMeansAll` fails as soon as the new plans are being
  written.
* *Repairs of some subtars, and second passes* (`RepairSome`, `RepairAgain`). A repair
  with `--max-subtars` or `--subtar-id` writes the repair marker of the whole shard; and
  while a second pass is running, the marker of the first stands. A kill between tar and
  manifest is then not waited for: the pipeline trusts the verify marker, or verifies
  the names only, and aggregates a manifest that does not describe its tar
  (`AggregatedSound`).
* *Pipelines that do not wait* (`WaitRepair`). With `WAIT_FOR_REPAIR_DONE=0`
  (`submit_postprocess.sh:201`, `postprocess_worker.sh:57`) the pipeline verifies
  shards that are unfinished or being repaired, over the manifests that are there, none
  included, marks them verified and the corpus aggregated and done. Nothing is claimed of
  what it aggregates, and nothing later tells its markers from others. That a pipeline
  which waits is not misled by them is part of `AggregatedSound`; without the condition
  `aggregated.waited` it fails.
* *The checksum of a replaced input.* Both backfill tools take it before they read the
  input; an input that is replaced in between is enriched under the checksum of the
  other. `SummaryMeansBackfilled` therefore only says that there is one version, not
  that the checksum is its own.

Also seen while modelling: with row retries
`mark_retry_blocked` drops the files of the last attempt, so that an article whose
figures stay unreachable is published without its XML, as
`retry_blocked_partial_figures`, though `docs/CAVEATS.md:31-32` says that such
articles are kept; likewise a repair of a `partial_figures` row that ends blocked
takes away the package the row was published with (`repair_retries.py:285`); an
ArticleMeta run that is killed while it restores rows leaves a newer and shorter
temporary file, which the next run prefers to the longer one (no row is lost, since
the longer file stays, but they are fetched again); an answer that is not UTF-8 ends
the run, and every further run that meets it; caches that an interrupted or silently failed
removal leaves behind are taken for results by the next repair, which then marks
the subtar done without having retried these rows; a repair whose done marker
could not be written is followed by a `repair_noop` that leaves `.repair.work`
and `.repair.incomplete` behind for good, which is why `EventuallyRepaired` does
not mention them; the
requests for a row are repeated after a 409 or 425, but a row that ends with one is
final at once (`common.py:27`, `download_worker.py:61`); the worker packages an article
that only speaks of a Creative Commons attribution license, and the aggregation rejects
it for want of an exact one, so the worker's policy alone admits more than the corpus
manifest does.

## 4. The proofs

### Worker

`SubtarDownloadProofs` proves, for every number of rows, workers, starts and
every set of options:

| theorem | statement |
|---|---|
| `TypeCorrect` | `Spec => []TypeOK` |
| `InvCorrect` | `Spec => []IInv` |
| `CacheAgreement`, `DoneAgreement`, `AssemblyComplete` | `CacheAgrees`, `DoneAgrees`, `NothingMissing` always |
| `HistoriesCorrect` | `HistoryAccounts` always, if `RetriesAgree` |
| `BudgetCorrect` | `FetchesBounded` always, if `AllOrNoneRetry` |
| `PublishedStays`, `FinalKept` | the action properties `PublishedUnchanged`, `FinalNotRefetched` |
| `Refinement` | `Spec => ImplementsResult` |

`TypeCorrect` needs the assumptions on the constants only; the others assume
`NoForce`, and `subtar_forced` shows that `DoneAgrees` is false without it.
`RetriesAgree` and `AllOrNoneRetry` restrict with which `--row-retries` the runs of one
shard are started; section 3 says what happens otherwise.

`IInv` is the inductive strengthening. `DoneAgrees` alone is not inductive: the
tar is assembled from the work directory, so one has to know that a row
manifest has its own payload (`CachesOK`), that what is in memory is what is on
disk (`ScanOK`, `LoopOK`), how far a cache write has come (`WriteOK`), and that
no row is lost between queue and pool (`QueueOK`, `LoopOK`). `CachesOK` has two
cases because the removal of the work directory, in any order, may take a
payload before its manifest, which is harmless only because the marker is
there. The proof that a step preserves it has one step per action and one per
conjunct that the action disturbs; the facts about appending to and taking from
the queue, and about the row functions, are lemmas.

`HistoriesCorrect` and `BudgetCorrect` have invariants of their own beside `IInv`, since
they speak of the past of a row. `AccountsOK` follows a row through every place that
keeps one (cache, memory, pool, the retry state): each is right by itself, and what is in memory continues
the retry state on disk, so a kill at any point falls back to a right one. `BudgetOK`
says that nothing is cached that a run would fetch again, so every result that was
taken up is in the retry state, but for the one that each run may have lost.

`Refinement` maps each step: `WriteRowManifest` records an outcome,
`DropRowManifest` retracts a retryable one, `MarkDone` publishes, and all the
others, kills included, stutter.

### Repair

`RepairSubtarProofs` proves, for every number of rows and repairs, `TypeCorrect` for all
options, `InvCorrect`, `RepairAgreement`, `Healable` and `OthersStay` for repairs with
row retries and the same cap or none (`RepairsAlike`), and `CopyAlways` for those
without a cap (`RepairsAll`). Section 3 says what happens otherwise.
`MismatchHealable` is what carries the argument: a row on which tar
and manifest differ is a target with a readable cache that has the tar's
package, hence the next repair fetches no such row and replaces the manifest row
by the one that fits. For that a cached row has to be blocked or final
(`Settled`), so that a removal of the work directory, in any order, can only take
payloads of rows that are no targets any more; and it has to be among the rows that the
next repair takes (`Chosen`). With a cap these are the first targets in the order of the
plan, and a row once taken stays among them, because repairing only ever removes
targets: fewer of them are before it (`ChosenKept`). The run has no cap, since repairs
with one may never end (section 3); TLC agrees with the theorems on two and three rows
with a cap of one or two as well.

### Harvest

`HarvestIdentifiersProofs` proves, for every window, limit, page limit and number
of kills, `TypeCorrect`, `PagesCorrect`, `CompleteCorrect` and `PagesStay`.
`CompleteMeansAll` needs the invariant `Covered`, that every identifier below the
offset reached is in a page, which each `WriteState` extends by the page that is
already there; that page numbers fit follows from every page but the last having
an identifier.

### ArticleMeta fetch

`FetchArticleMetaProofs` proves, for any keys, parts, pods, kills and overlapping
runs, `TypeCorrect`, `InvCorrect`, `OutputsCorrect` and `RowsStay`, when the shard is
one of several (`SeveralShards`; section 3 says what happens
otherwise). The invariant says that a file has only rows of the output it is for,
that pods have temporary files of their own, with nothing in them that the pod does
not know of, and that a pod renames a full one. `RowsStay` follows because a file is
unlinked only after the output of the same name was published, and that output has
every row a file for it can have.

### Rate limiter

`SharedRateLimitProofs` proves `TypeCorrect`, `LocksCorrect` and `SpacingCorrect`
for any processes, threads, interval and kills. `SpacingInv` is the reason: the
stamp is the last grant, or the file is empty and the next grant is due, because
it is truncated only after the sleep. So a kill between truncation and stamp
forgets a request that is already an interval old. A grant is the moment of the
stamp; the request itself follows it and may be late.

### Row and manifest

`ManifestRowProofs` proves, for any numbers of retries, error codes, articles, media and
options, `TypeCorrect`, `InvCorrect`, `RequestBudget`, `PackagesCorrect`,
`AdmittedCorrect` and `RetryFlagsCorrect`, from the assumptions on the constants alone.
`RequestsOK` carries the budget: it says of each phase how many requests the addresses
and media before it may have taken, and that the one at hand has taken `attempt`. A
product of two variables (requests per address) is beyond the provers, so lemmas state
what they need of it. `FiguresOK` says that `figure_files` has the members of the "ok"
figures, each once, which is what makes a count of files equal to the count of figures
mean that all were had. `OutOK` keeps of a row what was true when it was packaged, so
that blocking, which drops only the files, cannot make it admissible.

### Corpus

`PostprocessProofs` proves, for any number of shards, subtars and faults, `TypeCorrect`
without an assumption, `ShardDoneCorrect` if plans in use are not replaced, and
`AggregatedCorrect` if repairs also are of whole shards and made once; section 3 says
what happens otherwise. `AggregatedCorrect` speaks of pipelines that waited, beside
and after any number of pipelines that did not. A worker's knowledge is that the subtars it is through with
have their markers (`WorkersOK`), and that it began under a complete set of plans
(`PlansOK`), so its marker is right. `RepairsOK` says that a running repair has left no
torn pair behind and that the repair marker is not there yet; `SettledOK`, that under a
repair marker nothing is torn, and, since no pod can start on such a shard, nothing
changes any more. So a pipeline that has waited lists
every manifest, and what it has read stays what is there (`ReadOK`, `AggregateOK`);
that all shards are marked verified by then holds of every pipeline (`VerifiedOK`), and
adds nothing to the argument.

### Backfill

`BackfillManifestProofs` proves, for any versions of the input, tars and faults,
`InvCorrect`, `TypeCorrect`, `SummaryCorrect` and `ExactPackagesCorrect`, from the
assumptions on the constants alone. Not even `TypeOK` is inductive: that an output row is
well formed depends on how far the run has come. `StagedOK` says that each row is
settled, or is still as it was and its tar unopened. The whole-corpus
tool writes the rows it has in memory. The bounded one merges staged rows into a second
pass over the input and verifies only identities, the number of admitted rows and a
digest of the others. `VerifiedRows` is the lemma that this is enough: identities place
the admitted rows, equal numbers mean that none of them is missing, and equal digests
that the others are the input's, in its order. Rows are digested one after the other,
so its lemmas need induction over their number; `NumbersInduction` states induction for
a set of numbers instead of a predicate, and is proved from the fact that a finite set
cannot be mapped one-to-one onto a proper part of itself.

### Only model-checked

Liveness (and the fairness it rests on) is out of the prover's reach. Every safety
invariant and every action property that a passing run checks is stated by a theorem.
Where one component is one step of another module (`process_subtar` and
`repair_subtar` in `ShardRun` and `Postprocess`), that the step stands for the detailed
module's behaviour is argued in its comments, not proved.

## 5. Not modelled, and what could come next

* `build_manifest.py`: one pass over one file; what it selects depends on wording of
  metadata. Of `build_shards.py` the hash that assigns a row to a subtar.
* `prepare_converter.py`: only its admission rule is modelled (`ConverterAccepts`, part of
  `AdmittedSound`). Its export is started anew as a whole. A model of it would have the
  admitted rows, the extracted directories and the work lists as state; its question
  would be whether a list ever names a directory that is not fully there. Note that its
  default input, `manifest.jsonl`, is written by the pipeline in the format of
  `manifest.parquet` and with normalised statuses, none of which it admits.
* The join of the aggregation with the seed manifest, and its refusal of duplicate ids.
* In `common.py`: `RateLimiter` (the same computation as `SharedRateLimiter` under one
  mutex), the choice among proxies and their partition by position (a fact of one list
  expression), the waiting times between retries.
* Text matching, XML parsing, image rendering, date and name formatting: data work
  without state.
* The `aggregate` mode of `postprocess_worker.sh`: the aggregation as a job of its own,
  without waiting, verification or markers.
* The submission scripts: argument checks and calls of the cluster's command line.
  `estimate_volume.py`, `xml_probe.py`, the repository checks and the container build:
  reporting and tools.
* Two processes on one subtar. The scripts exclude it by the pod's name; names of
  temporary files contain the process id, which in containers is usually the same, so two
  pods on one shard would not even have files of their own.

Next would be: `ShardRun!ProcessSub` as an abstraction of `SubtarDownload` (a refinement
with `tar` and `manifest` mapped to rebuild numbers), and the same for `repair_subtar`.
