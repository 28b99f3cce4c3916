# TLA+ models of fv

`fv` verifies a project by running *evidence recipes* (provers, model checkers,
test suites), keeping what they produced, and concluding for every claim of a
reviewed policy whether its evidence stands. Order, failure and restart matter in
two places. One is the v4 evidence producer, `src/tools/evidence-v4/`, with the
Python gate that reads what it publishes. The other is the set of Python tools a
project is run with: the scaffold, the migration from the legacy layout, the
pyramid of verification layers, the manifest of an adversarial pass, the
fan-out, the deliberation panel, and the older record producer with its gate and
dashboard. These modules model both. Every safety property of
the producer, of its gate and of the other Python tools is proved for all values of the
constants; liveness is model-checked.

## 1. Inventory

| Component | State | Operations | What must hold |
|---|---|---|---|
| **Store** `evidence-v4-store.ts` | event files `history/<seq>.json`; committed execution directories; observation files (request, streams, `check.json`); recovered-owner snapshots; `writeEpoch` | `publishExecution`, `appendHistory`, `selectCandidates`, `readHistory`, `accountPending`, `publishClaim/Run/Current` | what is committed is accounted for; a failure stays a barrier; reads accept exactly the consistent stores |
| **Run** `evidence-v4-run.ts` | queue, active workers, `halted`, `observationBarrier`, `observationAbort`, `checkpoint` (a Serial), assessments | `preflightAll`, `schedule`, `executePhysical`, `observe`, `assessFullHistory`, `publish` | admission limits, T1 (first failure stops dispatch) as far as it is kept, every member observed, the loop returns |
| **Native session** `evidence-v4-native.ts` | owner file with `pending_results`, `spawn_windows`, `children`; lock files and their registry | `createNativeSession`, `beginPending`, `clearPending`, `tryAcquireResources`, `runOwned`, `release`, `recoverOwner` | one owner; pending before dispatch; locks outlive no process; recovery takes over only a dead owner |
| **Policy, source, toolchain, attachments** | none | expansion, hashing, identification | pure or file input; they appear as constants and as the *version of the bound inputs* |
| **Consumer gate** `scripts/fv_evidence_v4.py` | none | `assess_v4` derives the same conclusions in Python | VERIFIED only what stands; no failure overlooked; agreement with the producer |
| **Record gate** `tools/evidence-run.ts`, `check_evidence_records.py`, `coverage_dashboard.py` | one record file and its artifacts per claim | run a cohort of tools; judge all records; render them | VERIFIED only for the inputs the gate saw; both readers agree |
| **Scaffold** `fv_init.py`, `fv_project.py` | helper scripts, route, policy, config, marker | install, refresh, `--force` | a success is whole; the policy never binds less than the owner's |
| **Migration** `fv_migrate.py` | the legacy tree, the destinations, run directories under the staging prefix | inventory and plan, apply, roll back, ledger remediation | all or nothing; nothing lost; no obligation dropped; a second run is idle unless it elects another intent |
| **Pyramid** `pyramid_run.py` | statuses of layers | select the plan, run each layer, aggregate | VERIFIED is never less than what ran |
| **Pass manifest** `fv_run.py` | `run.json`, one output per voice | `complete`, `error`, `reset`, `synthesize` | no lost update, no lost attempt, no silent omission |
| **Fan-out** `omp_fanout.py` | records of voices, `summary.json` | preflight, wave, attribution | the summary says who answered |
| **Panel** `omp_panel.py`, `panel_contract.py` | staging, three waves, Gate B status | draft, review, synthesis, verdict guard | the verdict is Gate B's; seats are blind; outputs survive |
| **MCP servers**, ledger gates, `fv_doctor.py`, benchmarks, repository checks | none kept | one request or one pass | not planned, except `runproc.py` |

How they interact: `Invocation.run` opens a session (owner file), checks the
whole store once, then `schedule` admits recipes. A worker (`executePhysical`)
takes resource and key locks, writes a pending result into the owner file, has
the session spawn the command inside a *spawn window*, commits the artifact and
its history event inside the `checkpoint` Serial, clears the pending result and
releases the locks; then it observes each member with the claim checker in the
same pattern. When the process dies, the owner file stays, and an operator runs
`recoverOwner`, which accounts for each pending result and retires the owner.

The Python tools share files: `fv_migrate.py` writes the plan that
`pyramid_run.py` runs and the obligations the record gate judges; `fv_init.py`
writes the policy whose snapshot binds every record; the panel runs the record
gate on a copy of the records.

What is hard here: awaits between a test and the act it guards; workers that
share one `halted` flag, one barrier counter and one set of windows; a crash
after any file operation; a half-published file; and recovery that may itself
die and be run again. `PROJECT.json` lists these hazards at their lines.

## 2. Modules

| Module | Models | Extends |
|---|---|---|
| `EvidenceHistory` | the events and the pure conclusions drawn from them | |
| `EvidenceStore` | sessions, workers and recovery over the durable state | `EvidenceHistory` |
| `EvidenceStoreProofs` | theorems about `EvidenceStore` | `EvidenceStore`, `TLAPS` |
| `EvidenceHistoryProofs` | theorems about what the store leaves in its history | `EvidenceStoreProofs` |
| `EvidenceSchedule` | the schedule loop, its workers, the locks | |
| `EvidenceScheduleProofs` | theorems about the schedule | `EvidenceSchedule`, `TLAPS` |
| `EvidencePublication` | successive invocations: what each concludes, writes and points to | `EvidenceHistory` |
| `EvidenceGate` | the Python gate reading while invocations go on | `EvidencePublication` |
| `EvidenceGateProofs` | theorems about the published generations and the gate | `EvidenceGate`, `WellFoundedInduction`, `TLAPS` |
| `MigrationPromise` | what `--apply` promises to somebody who looks between invocations | |
| `MigrationApply` | staging, moving, rollback and kills of `fv_migrate.py`; implements `MigrationPromise` | |
| `MigrationApplyProofs` | proofs that it implements the promise and keeps the originals | `MigrationApply`, `TLAPS` |
| `MigrationPlan` | `Migration.build`: what each legacy file becomes, or why it is refused | |
| `PyramidRun` | `pyramid_run.py`: plan, layers, verdict | |
| `MigratedProject` | a migrated project run by the pyramid | `MigrationPlan`, `PyramidRun` |
| `ProjectScaffold` | `fv_init.py`, the policy of `fv_project.py` | |
| `DispatchManifest` | `fv_run.py`: concurrent commands on `run.json` | |
| `DispatchManifestProofs` | theorems about its lock, attempts and synthesis | `DispatchManifest`, `TLAPS` |
| `FanoutRun` | `omp_fanout.py` | |
| `PanelRun` | `omp_panel.py`, `panel_contract.py` | |
| `RecordGate` | `evidence-run.ts`, `check_evidence_records.py`, `coverage_dashboard.py` | |
| `ProjectLifecycle` | the tools that write `.fv`, one at work in a behaviour | `MigratedProject`, `MigrationApply`, `ProjectScaffold` |
| `ProjectLifecycleProofs` | theorems about the scaffold, the plan, the pyramid and the composition | `ProjectLifecycle`, `FiniteSetTheorems`, `TLAPS` |
| `ReviewTools` | the tools that gather opinions and evidence, likewise | `DispatchManifest`, `FanoutRun`, `PanelRun`, `RecordGate` |
| `ReviewToolsProofs` | theorems about `FanoutRun`, `PanelRun`, `RecordGate` and the composition | `ReviewTools`, `DispatchManifestProofs` |
| `MCEvidenceStore`, `MCEvidenceSchedule`, `MCEvidenceGate`, `MCProjectLifecycle`, `MCReviewTools` | constants for TLC | the above |

### EvidenceHistory

An event keeps its kind, execution key, attempt, member (or `NoMember` for a
null `claim_id`), result, whether it references a committed file, and the run of
its observation receipt or recovered owner. An execution key hashes everything
the descriptor binds, so it is a pair of a physical slot and a version of the
inputs. `BarrierApplies`, `Eligible`, `IsCandidate` and `SelectionState` are
`barrierApplies` and `selectCandidates`; `BindingAllowed` is
`validateEventBindings`; `AccountsArtifact` and `AccountsReceipt` are the two
accounting walks.

### EvidenceStore

Durable variables survive a crash: `history`, `artifacts`, `receipts`, `owner`,
`pending`, `windows`, `snapshots`, `guard`, and the two kinds of two-link file
(`eventAlias`, `fileAlias`). The store publishes with `link(staging, target)`
followed by `unlink(staging)`; each publication of an event, a request, a
stream or a receipt is therefore two actions, and `Readable` is false in
between. The worker of a slot is a record in `work` whose `at` names the await it
stands at; its actions follow `executePhysical` and `observe` line by line
(`Select`, `BeginExecution`, `Spawn`, `ExecutionEnds`, `PublishExecution`,
`LinkExecutionEvent`, `UnlinkEvent`, `SettleExecution`, `LinkRequest`, ...).
`serial` is the slot inside `checkpoint.run`. `StorageError` is any other thrown
await; `Crash` forgets the volatile part at any step. `Recover` follows
`recoverOwner` and `accountPending`, and `RecoveryCrash`, `RecoveryThrows` end
it at any step.

`failedAt` is a ghost: the sequence number at which the last observed FAIL of an
association would have entered the history. It lets `NoResurrection` speak of a
failure that a crash kept out of the history.

### EvidenceSchedule

Every await is a point where other workers run, the code between two awaits is
one action. `phase` is where the loop stands: `top`, `trying` a position of the
queue (inside `tryAcquireResources`), `granted` (the await returned a lock),
`racing` (`Promise.race`), `sleeping`, `joining` (`finally`), `done`. `at[p]` is
where a worker stands. `barrier` is the set of workers counted in
`observationBarrier`. `recorded` is a ghost: the workers whose execution event
is durable. The last look at `halted` (`Miss`) and the durable pending result
(`Announce`) are two steps with a worker `announcing` between them, since `beginPending`
waits its turn among the writes of the owner record; `Launch` is a third, which looks at
the signal but not at `halted`. `failed` and `late` are ghosts: an execution or an
observation ended other than PASS, and the recipes whose command started after that.
Other sessions on the host take and return locks
(`ForeignTake`, `ForeignRelease`).

### EvidencePublication

Invocations follow each other on one store. `inv` is the running one; its
`stage` says which await of `Invocation.run` and `publish` it stands at. Preflight, executions
and observations appear by their outcomes: the event they append, the pending
result they leave, and what they do to the `assessments` of the slots, for a
throw before the commit, after it, after the event and before the clearing
alike. What follows is modelled in full: `ScheduleEnds`, `FinalScan`, `Assess`
(`assessFullHistory` with `retainKnownBarriers`, and the three ways it can find
the store unreadable), `PublishClaims` (claim results, demotion, run result),
`PublishRun` (`ValidGeneration` is `validateGeneration`), `SettleRun`,
`ReplaceCurrent` and `SyncCurrent` (the two halves of `publishCurrent`) and
`Return`. `settled` and `synced` are what a power loss leaves; `Crash` may take
an unsettled `run.json` and move the pointer back to `synced`. `inputs` is the
version of everything a descriptor binds; it is edited between invocations only,
because an invocation that sees its inputs move fails.

What the loop alone reads (`resume`, `work`, `halted`) is reset when the loop
ends. A slot refers to its attempt and to the event of its receipt instead of to
their hashes.

### EvidenceGate

`gate` is one run of `assess_v4`: `GateRead` follows the pointer, `GateAssess`
reads the history and the inputs and concludes every slot, `GateFinish` reads
the history again, takes slots back, closes dependencies, scans the inputs
again and gives the verdict. `Contradicts` is the checks whose failure the gate
turns into ERROR. The gate's operators are translated from the Python source and share
nothing with the producer's; the properties compare both with definitions of
their own (`StandsBy`, `StandsFailed`). `GateNext` ends a behaviour with its verdict.

### Migration

`MigrationPlan` has one action per step of `build`, in the code's order, over a
tree whose files have *roles* (intent, ledger, obligations, claims, runs, inputs,
notes); the bytes of a file are its role's, so "the same bytes" is an equality.
Scan, intent election, the live or legacy ledger and its gate, the join of the two
obligation manifests, the plan with its tool ids, the required-evidence check, the
policy, the route, the history copies and the preflight are each translated with
their refusals. `RunAgain` migrates once more over what the first run wrote. What the legacy documents
cite as their intent counts as far as it resolves to a file of the project (`Cited`):
`found` is the destinations that existed when the invocation began, so what the first run
wrote can be elected by the second (`Elected`). A recorded
run is a layer and a number of segments (`Segments`); `ToolId` numbers them as the plan
does, so a plan layer is the set of its tool ids and whether it gates. A manifest of
runs with no run in it is refused like one that is malformed.

`MigrationApply` takes a non-empty plan through `apply`: preflight, the run's own
directory, staging, then per destination guard, move aside, land; any step may
fail, a rollback step may fail in turn, a kill may hit anywhere, and the operator
may write a destination at any time. `--stage-ledger-remediation` is a mode of the
same machine. `MigrationPromise` is what an observer sees who looks only between
invocations: `Begin` with the destinations it is asked for (all of them, or the
ledger alone), then `Commit`, `Abort` or `Die`, or `Decline` at once. `Commit` demands that
every destination asked for holds `Migrated` of what was there (the new bytes where there
was nothing, the adopted route where the old one was) and that no other changed, so an
apply that drops a write and reports success breaks it; `Abort` that none changed but those the report
names; `Decline` that a run which ends well without writing had nothing to do, and that
only bytes of the operator block one. The refinement mapping
(`Promise == INSTANCE MigrationPromise WITH ...`) shows it the destinations as they
stood before the invocation under way, and as *unrestored* what the report of a
failed one calls "written" or "lost". `KeepsPromise` is checked over two
invocations.

### Pyramid

`PyramidRun` records for every layer its status and, as history, the outcomes of
the commands that ran, each `ok` or `bad`. Floors has the outcomes of its two own checks
instead, `feature_matrix` and `property_bar`, either of which may not apply to the crate;
its third check reads what fuzz ran. `crate` is what a run may find: profile, options, plan,
harnesses, tools, fuzz targets and how much of their list survives the cut of the
output at 500 characters. A plan replaces the built-in commands of its layers and
may add layers; it never takes one out of the profile's. The executions of a plan layer
are a set: each has a tool id of its own, or its place. `Runnable` is what `parse_plan` and
the options guarantee of a crate. `MigratedProject` composes the pyramid with the plan a
migration wrote: a tree marked `verify` is run afterwards on any of `Hosts`.

### Scaffold

`ProjectScaffold` runs `fv_init` up to `MaxInits` times over any project. Helper
scripts are preflighted together and replaced by rename; the other files are
written in place, so a kill may leave one truncated (`Emptied`).
`Selected` is `InputPolicy.selects`.

### Pass manifest, fan-out, panel

In `DispatchManifest` a command locks, loads, changes its copy and saves; `reset`
renames the output between load and save; `synthesize` reads without the lock.
`told` is a ghost: the status last saved for each voice. `disturbed` marks voices
whose output a reset took while a synthesis read, or whose reset died half-way.

`FanoutRun` keeps apart who *really* answered (external) and what the bridge
reports, which may be an echo of the request. `PanelRun` goes from the hash of the
intent, the frozen snapshot and Gate B's copy of the evidence through the three
waves to `_finish`; the owner edits the project at any point. `parallel()`
belongs to the harness and is external: it is assumed to settle every thunk before it
raises what one of them threw.

### Record gate

A producer takes the bindings, runs each tool of its cohort, and reads the bindings
again after each; the gate loads the records, binds to source and intent, and
judges. `artifacts` says on which inputs each tool ran, which is what
`VerifiedIsCurrent` compares with the inputs the gate saw. `Revert` puts an input
back as it was at some earlier version, but not between a tool's start and the reading
after it: a change that is undone within one tool's run is invisible to the producer
(see section 6). An edit (`EditInput`) always makes contents nobody has seen, which is
what a hash tells apart; `committed` is the version of the source that git holds. The
gate and the dashboard each have their own rules, as in the code.

A first match among conditions that overlap (the statuses of both readers, the plan of a
legacy file, the verdict of a layer) is an `IF` / `ELSE IF` chain in the order of the
code: a `CASE` whose guards overlap would choose freely among its arms.

## 3. Runs

| Run | Question | Instance |
|---|---|---|
| `store_concurrent` | What can two interleaving workers, a crash and a fault do to the store? | 2 slots, 3 members of 2 claims (one claim shared by both slots), 1 session, 2 attempts, 1 crash, 1 fault |
| `store_sessions` | Does recovery between sessions settle everything, promote nothing and revive nothing? | 1 slot, 2 members, 2 versions, 2 sessions, 2 attempts, 2 crashes, 1 fault |
| `store_liveness` | Is every owner eventually retired? | 1 slot, 1 member, 2 sessions, 1 crash, 1 fault |
| `store_recovery_accounts` | Does recovery always account for what it finds? (violated) | 1 slot, 2 members, 1 session, 1 crash during the session, none later |
| `schedule_admission` | Limits, lock discipline, commands that still start after a failure, whether the loop returns and the state it leaves | 4 recipes, 2 jobs, 1 exclusive, 2 resources, 1 foreign take, 1 fault |
| `schedule_barrier` | Is nothing admitted while members are being assessed? (violated) | 3 recipes, no fault |
| `schedule_held` | Are resources back once the checkpoint is durable? (violated) | 2 recipes, 1 fault |
| `publication_generations` | Is every published PASS, every acknowledged result and every verdict backed by the history? | 1 slot, 2 members, a claim and a system claim that depends on it, 2 invocations, 2 attempts, 2 versions and 1 edit, 1 trouble, one gate at any time |
| `publication_refuses` | Is a generation refused only for a failure that stands? (violated) | the same without the edit |
| `project_lifecycle` | Do the tools that write `.fv` keep what the project had, and conclude only from what ran? | 84 projects and 2 invocations of `fv_init`; 3 destinations in 12 mixtures, 2 invocations, 2 file-system errors, 1 kill, 1 write of the operator; 5 families of legacy trees; crates of 3 profiles |
| `project_reapply` | Is a second migration always idle? (violated) | the family of trees whose documents cite files under `.fv` |
| `review_tools` | Do the tools that gather opinions and evidence lose none and claim no more than they have? | 2 voices, 2 commands, 1 reset each, 1 kill; 2 routes; 3 seats of 2 families, 1 criterion, 2 edits; 2 claims, 1 producer, 2 cohort runs, 1 edit |

Safety properties of the store: `Accounted`, `OwnerlessReadable`,
`AccountingSuffices`, `NoResurrection`, `AppendsBind`,
`RecoveryPromotesNothing`. Of the schedule: `AdmissionLimits`,
`ProcessesSerialize`, `WaitsHoldingNothing`, `LateBounded`, `Settles`, and the liveness `Returns`. Each is
stated in words above its definition, and each has a mutant of the code that
breaks it (`(mutant)` definitions beside the originals). Of the publication:
`PublishedPassStands`, `FailuresReported`, `AcknowledgedStays`,
`PointerResolves`. Of the gate: `GateSound`, `GateReportsFailures`,
`GateConfirms`. Of the scaffold: `ScaffoldComplete`, `CoverageKept`. Of the
migration: `KeepsPromise` (a refinement), `OriginalsSurvive`, `NothingLost`,
`ReapplyIsIdentity`, `NoOmission`, `ClaimedLayersRan`. Of the pyramid:
`VerifiedMeansRun`. Of the review tools: `UpdatesKept`, `AttemptsKept`,
`SynthesisAccounts`, `RoutesHonest`, `VerdictEvidenced`, `OutputsVisible`,
`VerifiedIsCurrent`, `DashboardAgrees`.

**Bounds.** `MaxAttempts`, `MaxCrashes`, `MaxFaults`, `MaxTakes` stand in guards.
Two attempts are enough for a retained execution and one that competes with it;
two crashes for a session's death followed by a recovery's death; one fault for
each error path, and the combination of fault and crash. Two slots whose members share a
claim are what the barrier rules distinguish. Four recipes with two
jobs let the loop await one while two run and a third is observed, and an exclusive one
wait behind a shared one. `MaxTroubles` counts cancellations, crashes (with and without loss of power) and
thrown steps of an invocation together: one trouble at every point of either of
two invocations, the other of which runs through, covers each error path and
what the next invocation and the gate make of its remains. Two versions are
interchangeable, and so are the values TLC explores up to permutation of them
(`VersionSymmetry`). Deadlock checking is off: the system may stop, with
nothing left to run, once its bounds are used up. The two runs over the Python
tools are sums: a behaviour chooses one tool and the others keep their first state,
because the tools share no step, only files, and where one reads what another wrote
(`MigratedProject`) the two are composed. In the migration two errors are a
failure and a rollback that fails; a second invocation meets what the first left.
Three seats of two families are the smallest panel with both quorums; one reset per
voice is what the manifest needs for a stale harness. The legacy trees vary one
group of features at a time (documents, citations of what a migration writes, manifests,
damage) over a plain tree.

**Fairness.** JavaScript settles every promise whose operation ends, commands end
within their timeouts, so each worker's steps, the loop's and the recovery's are
weakly fair. That an operator runs recovery at all is assumed of `OwnersRetire`
and stated there. Another session gives its locks back (`ForeignRelease`);
`MaxTakes` bounds how often it takes them, so weak fairness of `Acquire` does not
hide a starving poll: with takers without end `acquireResources` could poll for
ever, which the code does not exclude. Nothing is assumed of crashes, faults,
reboots, cancellations or new sessions.

**Where recovery is wedged.** `OwnersRetire` holds up to `Wedged`: a guard file
whose process died (a person must remove `recovery.lock`), a half-written
owner snapshot, a two-link observation file, a two-link event no pending result announces
(the indeterminate event of an earlier recovery), and, on the same boot, a window whose processes nobody can
prove gone. Each is a case in which the code refuses and stays refused.

## 4. Findings

* `store_recovery_accounts`: a crash between link and unlink of an observation
  file leaves a file with two links. Recovery retires such aliases for history
  events only, so its closing `readHistory` refuses the store for good.
* `schedule_barrier`: the observation barrier is tested before the await of
  `tryAcquireResources` and not after it, so a recipe can be admitted while
  the members of a completed execution are still unassessed.
* `schedule_held`: after a throw before the spawn, the pending result is
  cleared only when *every* window of the session is closed. With another job in
  flight it never is, and the resources stay locked; an observation that needs
  one of them polls without end (`Starved`, excepted in `Returns`).
* `publication_refuses`: `validateGeneration` takes every retained FAIL of a
  member that is neither PASS nor FAIL for a hidden failure, also one that a
  later success superseded. A member that failed, succeeded, and then meets an
  operational error makes `publishRun` throw; the documented INCOMPLETE
  generation is never published and the pointer stays at the one before.
* `project_reapply`: a legacy `intent.md` that mentions `.fv/intent.md` cites nothing in
  the first run, which carries it there; in the second the citation resolves, is elected,
  and the legacy file gets a copy under `.fv/history`. The test's header says that
  re-applying is byte-idempotent; `ReapplyIsIdentity` is that with the exception.

Disagreements the models made visible without a run of their own are in section 6
under *Known limits of the code*.

## 5. Proofs

`EvidenceStoreProofs` proves, for every set of slots, members, versions and runs
and every bound,

* `TypeCorrect`: `Spec => []TypeOK`;
* `AccountedAlways`: `Spec => []Accounted`.

The assumptions are `HistoryAssumption` and `StoreAssumption`, which state the
kinds of the constants; TLC evaluates them in the runs.

`Accounted` is not inductive by itself: clearing a pending result must not
orphan an artifact, so one has to know that the event is durable at that point
and says what the artifact says. `AccountingInv` adds

* `InvocationsAnnounced`: a dispatched invocation has its pending result;
* `FreshAttempts`: a running attempt has no artifact but its own, with its
  result;
* `Settled`: at the point of clearing, artifact and receipt are accounted for;
* `Ownership`: a live session owns the store, a recovery works on a dead
  owner, and what it verified stays accounted for until it retires the owner.

The lemmas about the history (an append keeps what was accounted for; the last
event of an attempt decides for its artifact) come first, then one lemma per group
of actions, then the two theorems. `Ownership` is what connects `Verify` to `Retire`: the pending
results may be dropped because the final read found nothing unaccounted.

`EvidenceHistoryProofs` goes on from there to the other properties of the store:
`OwnerlessAlwaysReadable`, `AccountingAlwaysSuffices`, `AppendsAlwaysBind`,
`NothingResurrects` and the action property `RecoveryNeverPromotes`. `HistoryInv` adds to
`AccountingInv`

* `ChainValid`: every event was allowed by the events before it, and its file is there;
* `RecoveryInv`: what each stage of a recovery has established, and that a half-published
  event has its pending result;
* `Decided`: the last event of an attempt accounts for its artifact;
* `Numbered`: attempts and runs come in the order in which they begin;
* `Working`: what the history holds at each stage of an invocation: nothing of its attempt
  before the append, the passing execution while a member is observed, nothing of this
  run about a member still to do. That makes `appendHistory` accept every event;
* `FailuresKept`: a failure that was observed is either barred by a later event, or some
  pending result will bar it, by the worker that observed it or as indeterminate by the
  recovery of its owner. `NoResurrection` needs it, since it speaks only of moments without
  an owner.

`EvidenceScheduleProofs` proves all six safety properties of `EvidenceSchedule`
(`ScheduleTypeCorrect`, `AdmissionAlwaysLimited`, `ProcessesAlwaysSerialize`,
`WaitsAlwaysHoldNothing`, `AlwaysSettles`, `LateAlwaysBounded`) for any recipes, resources
and `--jobs`, any number of foreign takes and faults. `ScheduleAssumption`: the order lists
every recipe once, `--jobs` and the number of members of a recipe are at least one, and the
admission lock is none of the declared resources. In `ScheduleInv`

* `QueueInv` and `LoopInv` keep the conditions under which the loop chose a recipe true
  over its awaits: the workers that run meanwhile can only leave;
* `Holding` and `Outcome` say for each stage of a worker which locks it has and
  what a worker that is past that stage has shown; only with them is `TypeOK` inductive
  (a member's count never goes below zero);
* `LateInv`, for `LateBounded`: while nothing halted no failure was observed; once a run is
  halted and not cancelled, the workers that started late and those that are past their look
  at `halted` without a command (`Committed`) are together fewer than the jobs. The worker
  whose failure halted the run is the one that makes it fewer;
* `LockInv` and `WindowInv`: locks are disjoint, and an open window has those it uses.

`DispatchManifestProofs` proves `UpdatesAlwaysKept`, `ManifestSpec =>
[]UpdatesKept`, for any voices, commands and bounds. `UpdatesKept` is not inductive:
a save writes back the entries of *all* voices from the copy its command loaded.
`LockInv` adds `Exclusive` (a command under way holds the lock, and its copy is what
is on disk) and the shape of the records. `OutputInv` adds that a complete voice has an
output unless a reset disturbed it (`CompleteSupported`), also in the copy a synthesis
reads without the lock (`ReadSupported`); `SynthesisAlwaysAccounts` and the action
property `AttemptsAlwaysKept` follow. `CommandsAssumption`: no command is called like
the free lock, and the bound on resets is a number.

`ReviewToolsProofs` proves the properties of the other review tools.

* `RoutesAlwaysHonest`. `FanoutInv` adds `ReportTrue`: an explicit flag and a foreign name are
  true of the answer, an echo of the request says nothing, and a certified configuration has no
  fallback that could serve one.
* `VerdictAlwaysEvidenced`, `OutputsAlwaysVisible`. `PanelInv` follows the run's stages: what
  is not there before a wave (`NothingYet`), what may be in the project during one
  (`Blind`), where each answer is (`AnswersKept`), that Gate B judged a copy of the evidence
  at a frozen basis (`EvidenceArchived`), that the summary is the last thing written
  (`SummaryLast`), and that a wave behind the draft barrier had its families
  (`DraftsDiverse`). `FamiliesAssumption`: the value for no answer is no family.
* `VerifiedAlwaysCurrent`, `DashboardAlwaysAgrees`. `RecordInv` has three parts. `RunInv`
  is about producers and records: runs in flight are numbered apart (`RunsApart`), what a
  tool of a clean run ran on is what the run took before, or a reading that will find a
  change is still to come (`RunFaithful`), and a clean record is bound to what its tools ran
  on, at paths no run in flight writes to (`RecordFaithful`). `GateShaped` is about what the
  gate loaded. `VerdictInv` is the pair of properties, proved where `Judge` computes both
  verdicts, with `StillBacked`: a verdict is kept true while producers go on, since none
  writes to the paths it rests on. Assumed: nobody but the producer writes a record of
  schema v3 (`HandWrittenAssumption`; neither reader authenticates a record, so a forged one
  with artifacts to match would pass) and the tools of a cohort are tools
  (`CohortsAssumption`).
* `ToolsImplement`: `ReviewSpec => ManifestSpec /\ FanoutSpec /\ PanelSpec /\ GateSpec`: the
  composition the run explores is each tool's own specification, so the theorems hold of it.

Two attempts failed for a reason in the model, and the model was changed. `RecordGate`
let an edit make a version by counting from the present one, so an edit after a `Revert` could
make again the contents a producer had read, which a hash would tell from a new edit; with two
edits `VerifiedIsCurrent` did not hold. And several definitions chose the first
matching arm with a `CASE` whose guards overlap.

`MigrationApplyProofs` proves `ApplyKeepsPromise`, `ApplySpec => KeepsPromise`: the
staged apply implements `MigrationPromise` for any destinations in any order, any
number of invocations, failures, kills and writes of the operator.
`MigrationAssumption` says that the order lists every destination once and that only
`.fv/dispatch.json` starts as the old route. The invariant, `ApplyInv`, places
every destination that nobody else wrote by its position in the order (`Tracked`):

* going forward, those the run passed are `Landed`, those ahead `Untouched`, and the
  one it works on is `MovedAside` just before its bytes land;
* going back, those the rollback passed are `Restored` (back, or in the report) and
  the others still in one of the three states;
* `Intended`: bytes are landed exactly where preflight found nothing, or the old route, at a
  destination the run was asked for; everything else it was asked for is already as the
  migration makes it. So what is true of the landed destinations at the end is true of all
  that were asked for, and `Commit` is "all of them";
* `OneApplies`, `Cursor`, `Fresh` and `OldRoutes` say that runs take turns, where a
  run is, that a run starts with nothing, and where the old route can be.

There is one lemma per action for the invariant; then every step inside a run is a
stutter of the promise, `ApplyPreflight` is `Begin` or `Decline`, and `Finish`,
`Cleanup` and `Kill` are `Commit`, `Abort` and `Die`.

The same module proves `OriginalsAlwaysSurvive`, `ApplySpec => []OriginalsSurvive`.
`SafeInv` adds `InTree` (what a run moved aside is in a tree of its own) and `AllSafe`:
seen between invocations, the operator's bytes are at their destination, in the tree
of a run that is over, or adopted by one that succeeded (`Safe`). Steps inside a run do
not change that; a run that ends gives back, adopts, or leaves its tree; and during a run
`Whereabouts`, which comes from `ApplyInv`, says where its destination's bytes are now.
Both theorems share the model's limit: one invocation at a time.

`ProjectLifecycleProofs` proves the rest of the run over the tools that write `.fv`, for any
projects, legacy trees, plans and crates.

* `ScaffoldAlwaysComplete`, `CoverageAlwaysKept`. `ScaffoldInv` says what the stages before
  the one at work have established, or that one of them reported an error (`StagesBefore`),
  where the helper scripts are (`Advancing`), and that the policy is the owner's, or one that
  excludes no more and is there only because the owner had none, forced it or was hit by a
  kill (`PolicyKept`). Assumed (`ProjectsAssumption`): the shapes of the files a project can have.
* `MigrationLosesNothing`, `MigrationOmitsNothing`, `MigrationReapplies`. The three properties
  speak of an applied migration, and the third of two in a row, so the invariant has to carry
  what each of ten steps decided. `PlanInv` names what the legacy tree *alone* determines: the
  intent (`Goal`), the plan (`TreePlan`), the policy (`TreePolicy`), whether the claims and the
  runs fit (`ClaimsFit`, `RunsFit`). `BuiltInv` says that, as long as nothing was refused, the
  files to write are exactly those up to the step `build` stands at (`IntentMade`,
  `LedgerMade`, ..., `HistoryMade`); `RowsInv` that each file is classified once. After the
  apply the same predicates hold of what is under `.fv` (`Settled`), and the second pass is
  shown, step by step, to write what is there, if it elects the same intent (`SameTarget`: the
  exception of `project_reapply`). `NoOmission` then counts: tool ids are a
  bijection from the recorded segments. `TreesAssumption` says that history paths are distinct,
  a recorded run has a segment, a citation is a path, and a route that can be parsed has a
  target.
* `VerifiedAlwaysMeansRun`. `PyramidInv` says that a layer that passed ran what is declared of
  it, or at least something where nothing is, and had no bad outcome (`PassedRan`, floors
  included), and that floors passed on the fuzz results there will ever be
  (`FloorsSettled`: fuzz comes before floors in the order of the layers).
* `ClaimedLayersAlwaysRan` joins the two: `ProjectInv` says that the plan the pyramid runs is
  the tree's (`Verifying`), every claimed layer is in it and gates. `HostsAssumption`: a
  project that is verified after its migration had no plan of its own before it; what a
  migration makes of one that had is covered by the theorems before.
* `LifecycleParts`: `LifecycleSpec => ScaffoldSpec /\ ApplySpec /\ ProjectSpec`, and
  `LifecycleSafe`, the seven properties of the composition that the run explores.

The operators of `MigrationPlan` and `PyramidRun` are written with sets and functions and
without folds, of which nothing can be proved here for all inputs.

`EvidenceGateProofs` proves the properties of `EvidencePublication` and `EvidenceGate`, for any
policy, number of invocations, attempts, troubles and edits, and a gate that reads while the
invocations go on. They are theorems of `GateSpec`, of which `Spec` is the part without the
gate. The invariant has four parts.

* `PointerInv` follows publication: runs are numbered in order, a run is settled before the
  pointer names it, and its manifest is the draft its invocation holds until then.
  `PointerAlwaysResolves` and `AcknowledgedAlwaysStays` follow, the second because a later run's
  number is greater.
* `AttemptInv`: an attempt belongs to one key, is executed once, and is observed after that; a
  pending execution of a running worker has neither a commit nor an event yet; what a slot cites
  was executed on its own inputs. Without it a slot could cite an attempt whose number another
  slot's execution bears.
* `GenerationInv`: what an invocation writes was concluded from the history as it still is, since
  nothing is appended after its assessment; each manifest cites executions on its version
  (`Cites`), refers to receipts of its own members (`Refers`), and a passing one is valid on the
  prefix of the history that it captured (`Backed`). All three survive the appends of later
  invocations. `PublishedPassAlwaysStands` and `FailuresAlwaysReported` follow.
* `GateInv`: what the gate concluded is `GateSlot` of the prefix it read, for a manifest that was
  published. The producer computes barriers from the members an event touches, the gate from
  those it applies to; `GateBarriers` shows that on a history of this producer they are the same
  set. The second reading is compared with the first slot by slot: a slot that passed at first
  passes later only if its execution is still past every barrier (`LaterStands`), and a failure
  that stands is one at both readings (`SlotFails`). `GateAlwaysSound` and `GateAlwaysReports`
  follow.

`GateAlwaysConfirms`, an action property, joins the two sides: if history and inputs are those of
the generation then the gate has read the captured prefix, `SlotConfirmed` takes each slot that
the producer found valid through the gate's rules, and `UnaccountedStays` says that a committed
result without an event, which the first reading counts as an error, stays one as long as nothing
is appended.

Two assumptions were added for these proofs. `PublicationAssumption` says that a record names an
evidence tool once (`evidence-v4-policy.ts:146` refuses a policy in which one does not): the gate
counts an observation of any member of the same association, the producer one of the member
itself, and only where associations are unique within a slot are these the same.
`NoneAssumption`: the value for no manifest is no manifest.

Only model-checked: both liveness properties, `OwnersRetire` and `Returns` (liveness and
ENABLED are beyond the prover). Every other property of a passing run is a theorem. That `EvidenceStore` and `EvidenceSchedule` describe the same workers, each with
what the other leaves out, is not a theorem.

## 6. Not modelled, and why

* The inside of `preflightAll` (its checks and resources), plan mode and the work
  records of a manifest: an invocation's preflight appears by how far it came.
* The gate's checks of schemas, hashes and policy, its replay of the claim checker
  and the claims outside the policy.
* The protocol of `runOwned` (gates, child registration, process groups,
  drains): a window is opened, and closes or stays indeterminate with its
  processes stopped or not; how the session finds out is planned.
* Lock files of several sessions: a foreign session's locks are a set that is taken and
  returned; half-written lock files and stale registries are planned.
* Contents: hashes, schemas and canonical encoding. A corrupted file is not a
  state of these models; a read either sees what was written or a file with two
  links.
* The legacy formats, reports, `fv_run status` and `wait`, `fv_doctor.py`, prompts,
  redaction and the patterns of secret scans; the refusal of symlinks under the
  staging prefix. Two migrations that overlap: the model has one invocation at a time.
* A fuzz target whose name, cut at 500 characters, is the name of another target.
* A pre-cohort (v2) record's own artifact: such a record is sound by its text here.
* `writeEpoch` in full: a scan that overlaps another worker's writes is allowed to
  throw (`SelectThrows`), which is a superset of what the counter does.

**Known limits of the code** that the properties except, in so many words:

* `fv_run.py:355`: the number of a reset comes from the saved history, so a reset
  that dies between rename and save leaves an output set aside under a number the
  next reset uses again; `AttemptsKept` speaks of the numbers the history counts. The
  voice stays complete without an output, and an unlabelled synthesis omits it
  (`disturbed` in `SynthesisAccounts`).
* `omp_panel.py:970`: a prompt builder of the synthesis that raises leaves the run
  without `summary.json` (`SynthesisThrows`); outputs survive all the same.
* `fv_migrate.py:2498`: a kill between moving the route aside and landing it makes
  the next run write the example route and report success; the original is only in
  the staging tree of the killed run. `OriginalsSurvive` counts that tree. It assumes
  that the operator writes nothing meanwhile: a file written between preflight and
  move is moved aside and discarded.
* `omp_panel.py:505`: the skill hashes the intent for Gate B before the panel takes its
  snapshot, so an edit between is judged against the older hash.
* `evidence-run.ts:761`: inputs that change and change back within one tool's run
  are not noticed.
* `fv_migrate.py:1045`: the election of the intent reads the project as it is, so a second
  run may elect what the first one wrote (`SameTarget` in `ReapplyIsIdentity`,
  `project_reapply`).
* `pyramid_run.py:762`: fuzz runs the targets that are left of the list after it was cut;
  only for surfaces declared under floors does a target that fell off keep a run from
  VERIFIED.
* `evidence-v4-run.ts:728`: a worker looks at `halted` for the last time before it awaits
  `beginPending` and then `session.run`. A failure that another worker observes meanwhile
  does not keep its command from starting, although T1 of
  `docs/execution-evidence-v4.md:19` says that the first observed failure stops new
  dispatch (`:502` lets commands already admitted finish). `LateBounded` is what holds:
  fewer than `--jobs` commands still start, so none with one job.
* A legacy layer that no claim names does not gate after the migration
  (`ClaimedLayersRan` speaks of those that are named).

## 7. Plan

1. `EvidenceHistory`, `EvidenceStore`, `EvidenceStoreProofs`, `EvidenceSchedule`: done.
2. `NativeLocks`: lock files, registry, `.admission` and recovery across
   sessions; mutual exclusion, and recovery removes only its owner's locks.
3. `OwnedRun`: the spawn window protocol of `runOwned` and `canRecoverWindow`;
   a closed window has no process left.
4. `EvidencePublication`, `EvidenceGate`: done.
5. `MigrationApply` and its promise, `MigrationPlan`, `PyramidRun`, `ProjectScaffold`,
   `DispatchManifest`, `FanoutRun`, `PanelRun`, `RecordGate`: done.
6. `RunProc`: the timeout and kill sequence of `src/mcp/_shared/runproc.py`.
7. An abstract specification of the evidence store (a set of verdicts that grows,
   failures that never heal) implemented by `EvidenceStore`.
8. Theorems about all of these: done, but for liveness. What remains is to relate
   `EvidenceSchedule` and `EvidenceStore`, two views of the same workers, by one specification
   that both abstract.
