# A TLA+ verification of m1nd's control plane and durable runtime

m1nd is a Rust workspace: a code-graph engine (`m1nd-core`, `m1nd-ingest`) served
over MCP (`m1nd-mcp`), with a control plane (`m1nd-control`, and the owner-side
services of `m1nd-mcp`) through which agents propose, execute, review and land
changes. The control plane, and the runtime under it that keeps jobs, brains and
owner-authorized files, are where durable state, crashes, retries and several actors
meet, so they are what this project models. Paths below are relative to the
repository.

## 1. Inventory

### The mission control plane

| Part | Source | Durable state | Operations |
|---|---|---|---|
| Mission contracts | `m1nd-control/src/mission.rs` | none | transition table; checks of intents, dispatches, ACKs, results, reviews |
| Mission service | `m1nd-mcp/src/mission_service.rs` | state file (letters, receipts, blocks, replay keys), land plans | open/repair/recover, transition, dispatch, runner started/terminal, land, replay |
| Owner outbox | `m1nd-mcp/src/execution_dispatch.rs` | append-only journal | register, preflight, ACK, mark EXECUTING, result, mark result, reconcile |
| Runner inbox | same file | append-only journal, at the runner | claim for spawn, process started, ACK, observe, result, reconcile |
| Authority WAL | `m1nd-mcp/src/authority_wal.rs`, `protected_journal_head.rs` | append-only log and an anti-rollback head kept elsewhere | PREPARE, PROVISIONAL, COMMIT, ABORT, terminal replay |
| Transport | `m1nd-mcp/src/mission_service_transport.rs` | none | samples the clock, takes the operation lock, opens the service from disk, routes one request |

A *mission* is a chain of *letters*. Each letter extends the head by one edge of
the transition table. A mission is judged, dispatched to a runner, executed,
gated, reviewed, and finally landed, which issues a receipt and moves every
canonical block to the next store version.

How the parts interact:

* Every request takes one lock, opens the mission service from its files, does one
  operation and drops the service. Nothing survives in memory between requests, so
  all trouble comes from what is on disk.
* The execution lifecycle writes two durable things in turn: the outbox journal
  (ACK and result *before* the letter, registration and marks *after* it) and the
  state file. Opening repairs the outbox from the letters.
* The runner has a journal of its own. Dispatches, ACKs, heads and results travel
  between the two by messages that may be lost, repeated or late.
* Landing writes three durable things: plan file, WAL, state file. Opening settles
  every plan, forward after COMMIT and backward otherwise.

What is hard about it: a crash between any two of those writes; retries that meet
what the first attempt left; a runner that restarts and signs its evidence again;
clock samples taken before the lock; identities chosen by clients and reused; a
landing that invalidates everybody else's store version; a WAL ahead of its
protected head. The `hazards` of `PROJECT.json` list these at their lines.

### The durable runtime

| Part | Source (`m1nd-mcp/src`) | Durable state | Operations |
|---|---|---|---|
| Runtime jobs | `runtime_jobs.rs` | append-only journal of job snapshots | open/replay/close interrupted, submit, supervise, cancel, deadline, reserve commit, finish, shutdown |
| Checkpoint store | `checkpoint_store.rs` | immutable checkpoint directories, CURRENT with its fallback | create, load, reconcile, gc |
| Brain runtime | `brain_runtime.rs`, `project_brains.rs` | none of its own | snapshot, commit, execute, checkpoint, rollback, quarantine, reconcile, fence, stop, boot |
| External mutations | `external_mutation_service.rs`, `external_mutation_journal.rs` | journal, staging files, the files themselves | execute (inspect, stage, prepare, commit, publish), recover before each request and at boot, conservation scan |
| Authorization broker | `owner_authorization_broker.rs` | append-only journal of leases | issue, reserve, finalize, abort, recover, gc |

How the parts interact:

* A job is a thread with two closures of its caller. *Prepare* may be cancelled at
  any time; *commit* may run once, after the registry made its reservation durable.
* A brain's actor is one thread. Each turn that changes the brain ends in a
  checkpoint, and the caller is answered after CURRENT selects it. Proposals are
  computed outside the actor, from a snapshot, and committed against its version.
  A heartbeat thread fences the actor when the lease of its runtime root is lost.
* An external mutation is paid for with a one-shot lease. Broker journal, mutation
  journal and the replaced files are three durable things; the admission barrier of
  every request brings them together again before it looks at anything else.

What is hard about it: renames that are visible before they are durable; a failed
step that may have happened; a retry of a half-done step; deciding by something read
before the lock; commits whose effect nobody can see after a crash; several files
replaced one by one; and writers of the same files that know nothing of the journal.

### Stateful parts that are not modelled

| Part | Source (`m1nd-mcp/src` unless said) | State | What makes it correct |
|---|---|---|---|
| Instance registry | `instance_registry.rs` | lease and lifetime-guard files | one writer per runtime root; collection never removes a live lease |
| Authority runtime | `authority_runtime.rs`, `enclave_authority.rs` | challenges, approvals, constitution epoch | no approval is used twice or after revocation |
| Source edits | `surgical_handlers/source_edit_transaction.rs` | multi-file edit with backups | all files change or none |
| Evidence spine | `evidence_spine.rs` | append-only log | projection of the mission service, idempotent |
| Autonomy, replay ledger | `m1nd-control/src/autonomy_runtime.rs`, `replay_ledger.rs` | grants, budgets, nonces | no nonce twice, no budget exceeded |
| Mailbox, presence, delegation | `mailbox.rs`, `presence.rs`, `delegation_handlers.rs` | messages, leases | each message delivered to its owner once |
| Perspectives, locks | `perspective/`, `lock_handlers.rs` | versioned route sets, region locks | no action on a stale route set |
| Auto-ingest, daemon | `auto_ingest.rs`, `daemon_handlers.rs` | change queue, manifest | every change is eventually ingested |

Graph algorithms (`m1nd-core`), extractors (`m1nd-ingest`), protocol framing
(`server.rs`, `http_server.rs`, `mcp_http.rs`), analysis handlers, the runner
daemon's process handling, the UI and the tooling keep no protocol state of their
own, or compute over floating-point or parsed data, and are not modelled.

## 2. Modules

```
MissionRules                 the transition table
  +- MissionChain            abstract: a mission grows along the table
  +- ExecutionRecords        dispatch, ACK, result and journal entries, with their checks
  |    +- RunnerInbox        the runner: inbox, driver, processes
  |         +- MissionExecution   the owner: letters, outbox, requests, repair
  |                               (implements MissionChain)
  +- MissionLanding          landing over the authority WAL (implements MissionChain)
RuntimeJobs                  the job registry
CheckpointStore              checkpoint directories and CURRENT, what is synced and what is not
  +- BrainRuntime            the actor of one brain over it
ExternalMutation             mutation journal, leases, files and their recovery
MC<module>                   instances for TLC
<module>Proofs               theorems for TLAPS
```

**MissionRules** is `MISSION_TRANSITION_RULES` with the iteration and packet rules
of `MissionTransitionIntentV1::validate`. The `role` column is a function of
`source` in the table and is left out.

**MissionChain** is what clients may rely on: every mission is a chain that grows
by one letter along a rule. Both detailed modules are shown to implement it, so it has
no run of its own: `execution` checks its properties on the letters of the service.

**ExecutionRecords** has the records and the predicates `validate_*` of the two
journals. Digests and signatures are abstracted to equality. `execution_id` and
the dispatch's `idempotency_key` are one identity, since both are refused on reuse.
Revision counters follow from the evidence an entry holds.

**RunnerInbox** keeps `inbox` (latest snapshot per execution, which is what the
journal replays to), `inboxTorn`, `runnerUp`, `permits` (unspent `SpawnPermitV1`s),
`spawned` (processes ever started), `signed` (ACKs ever signed) and `now`. One
action per inbox operation; `Spawn`, `SignAck` and `Tick` are the driver and the
clock, which are outside the repository. `RunnerCrash` stands for every crash and
for `DispatchFailpoint`; `RunnerCrashTorn` leaves the tail that `open` refuses. The
`validate_runner_transition` that precedes each append is left out of the actions:
`InboxReplayable` and `InboxStepsLegal` show that it never refuses what the guards
before it let through.

**MissionExecution** extends it with `letters` (state file), `outbox`, `outboxTorn`
and `job`, the request holding the lock. A request is `Open`, the repair steps,
one `Request...` (validation and `prepare_execution_lifecycle`), `PersistLetter`
and `Finalize`; `Abandon` ends it anywhere: refusal, I/O error and crash leave the
same disk. `RequestStarted` accepts a stale STARTED snapshot with any signed ACK,
as the service does. Requests carry a clock sample up to `MaxLag` old.
`transition_replays` is written in the same file write as its letter, so it is not
a variable.

**MissionLanding** keeps `heads`, `store` and `receipts` (state file), `plans`,
`wal` (last phase per transaction), `fenced` (the log is ahead of its protected
head) and `job`. A torn WAL append is truncated at the next open, hence an
`Abandon`. An append that is fsynced while the protected head does not advance sets
`fenced`, after which no open succeeds. Execution steps are ordinary letters here.

**RuntimeJobs** keeps `job` (snapshots in memory), `journal` (per job, every snapshot
on disk, so that replay can be asked whether it accepts the sequence), `torn`,
`poisoned`, `accepting`, `phase`, `pc` (where the submitter, then the controller
thread of a job is) and `drain` (the shutdown call). `commits` and `effect` record
what the callers' closures really did; the registry does not read them. Each reading
of the clock against a deadline is a free choice, since the wall clock may step. A
failing append may or may not leave its bytes, whole or torn, and poisons the
registry. A cancel or a shutdown may come while a submission is between registration
and start: `ProjectBrainRegistry::shutdown` drains the calls it admitted, but the host
of the external mutations keeps a clone of the registry that it does not count
(`mcp_http.rs:1036`). `Replays` is what `replay_journal` and the key check demand,
`validate_job_shape` included, and `Open` has it as its guard. The closures of
`Careless` jobs may end them under one of `UnfitCodes`, which stand for the strings
that `validate_identifier` refuses and that nothing checks when they are written.

**CheckpointStore** keeps what a reader sees (`dirs`, `ptr`) beside what a power loss
leaves (`safeDirs`, `safePtr`), one action fragment per rename or directory sync.
Manifests are numbered; their number stands for the digest.

**BrainRuntime** extends it with the actor: where it is in its turn (`at`,
`attempt`), the cell that holds the session (`live`, checked `out`, in the
quarantine `vault`), the session (`mem`: the updates in it, the read turns that drifted
its weights, and how many of them `asked` for a persist), generation and version, the
manifest it believes current, the packet of a pending reconciliation or rollback, the
fence, and the proposals in the world. The turn's steps are separate where the heartbeat
thread or a crash can come between. A read turn is one of two kinds, because `execute`
counts and checkpoints only those whose handler asked (`should_persist`, and the
sidecar notes): the others leave drift and nothing else. The fence is `"yes"` after a
heartbeat that failed, which the next one may clear, and `"left"` after one that ended
its thread (owner released, or a panic), which only a new start of the actor clears.

**ExternalMutation** keeps `lease`, `entry` (phase in the journal), `before` (sealed
preimages), `staged`, `target`, `fenced`, and `busy`, the call that holds `broker_operation`
and the broker's writer lock. The content of a file is the sequence of the writes that
made it, so a lost or repeated update is visible. `system_blocks.ratify` replaces one
file, `brain.promote` several (up to four: both copies and their histories) and then
needs a graph checkpoint. Recovery takes the entries in any order, which includes the
journal's. `OtherWrite` stands for the writers that do not ask the journal: the
gardener's auto-reconcile, candidate leases and edits, memory claims. The verdicts of
the authority (`Refused`) are free. Each append to the broker or the journal is one of
`Appended` (record synced, protected head moved), `FailsAhead` and `CrashesAhead`
(record synced, head not moved: the log is `fenced`, and no `Request` and no `Boot`
opens it again), or, before its record is whole, `Fail` and `Crash`. `BootDone` needs the
conservation scan to find nothing; `OutcomesAgree` states that it never finds anything
the recovery before it did not settle.

Some operators are introduced as "fault" or "without": each is a plausible wrong
version of the operator after it. Nothing uses them; the `mutants` of
`PROJECT.json` substitute them one at a time, and each must break its property.

## 3. Runs

| Run | Config | Checks | Outcome |
|---|---|---|---|
| `inbox` | `MCRunnerInbox.cfg` | `AtMostOneProcess`, `InboxReplayable`, `InboxStepsLegal` | pass |
| `execution` | `MCMissionExecution.cfg` | `TypeOK`, `ExecutingIsReal`, `OutboxNamesLetters`, `ResultAgreement`, `MergeWaitEarned`, `ServesRepaired`, `OutboxReplayable`, `ExecutionBoundOnce`, `ChainInv`, `OutboxStepsLegal`, `ReplayIsInert`, `ImplementsChain`, `IterationBindsPacket`, `TerminalFrozen` | pass |
| `repair` | `MCMissionExecution_Live.cfg` | `NoRepairBlocked`, `LettersReflected` | pass |
| `clock_lag` | `MCMissionExecution_Lag.cfg` | `NoRepairBlocked` | violated, see below |
| `landing` | `MCMissionLanding.cfg` | `TypeOK`, `VisibleOnlyCommitted`, `CommitNeverLost`, `LandingsSerial`, `StaleMissionsFrozen`, `ImplementsChain` | pass |
| `landing_settles` | `MCMissionLanding_Live.cfg` | `OneLandingInFlight`, `RecoveryNeverStuck`, `PlansSettle` | pass |
| `landing_keys` | `MCMissionLanding_Keys.cfg` | `RecoveryNeverStuck` | violated, see below |
| `jobs` | `MCRuntimeJobs.cfg` | `TypeOK`, `OutcomeTruthful`, `JournalReplays`, `JobsEnd` | pass |
| `jobs_fence` | `MCRuntimeJobs_Fence.cfg` | `CancelledBeforeExecution` | violated, see below |
| `brain` | `MCBrainRuntime.cfg` | `TypeOK`, `AcknowledgedSurvives`, `ServedIsCurrent`, `ProposalsFresh`, `QuarantineEnds` | pass |
| `external` | `MCExternalMutation.cfg` | `OutcomesAgree`, `FilesOnlyGrow`, `LeasesSettle` | pass |
| `external_conflict` | `MCExternalMutation_Conflict.cfg` | `NoThirdValue` | violated, see below |

What they show:

* However dispatches are repeated, delayed or signed twice, and wherever the runner
  crashes, at most one process starts per execution and per packet of a head. The
  price is visible too: a crash between claim and spawn never respawns.
* A mission says EXECUTING only about a process that exists, MERGE_WAIT only about
  an execution of its own iteration and packet that succeeded, and owner and runner
  hold the same ACK, head and result for a finished execution, although the runner
  may sign several ACKs.
* Neither journal of an execution ever writes something its own replay would refuse,
  and an execution id is bound once, also when the registration of the first is missing.
* A landed letter and its receipt exist exactly when the WAL committed; a COMMIT can
  always still be applied; landings number the store versions without gaps.
* `StaleMissionsFrozen` states a consequence that is easy to miss: a landing bumps
  the version of *all* blocks, and `transition_internal` requires the head's own
  version to be current, so every other live mission can never move again, not even
  to FAILED or ARCHIVED.
* Whatever cancels, times out, fails to be written or crashes, the job journal tells
  the truth about the commit closure: SUCCEEDED means it took effect, a cancelled job
  never ran it, and after a crash in between the job is marked ambiguous.
* The job journal can hold two kinds of record that its own replay refuses, and no
  other: one under a code its closure chose, and a second CANCELLED on top of a
  shutdown's. `JournalReplays` names both; `Replays` is what the code asks for.
* What a power loss could leave of CURRENT always holds every update a caller was told
  of; a proposal is applied only to the state it was computed from.
* A brain answers only from what CURRENT selects, give or take the drift of read turns.
  What bounds that drift is the number of turns that *asked* for a persist, which stays
  below `auto_persist_interval`. Turns that do not ask drift without bound until
  another turn owes a checkpoint. The wiki's "auto-persists every 50 queries"
  (`docs/wiki/src/concepts/hebbian-plasticity.md:176`) is not what `execute` does: a
  query asks at every 50th query, and only the 50th turn that asked makes a checkpoint.
* A quarantined brain with CURRENT in place comes back by itself, unless the heartbeat
  ended and left its fence.
* Broker, journal and files never tell different stories of an external mutation; no
  update of a file is lost or made twice, by whomever; every reserved lease ends, unless
  another writer got between a COMMIT and its publication, or a log was left ahead of
  its protected head, where the code means to stop (`protected_journal_head.rs:4`).

### The four disagreements

**`clock_lag`.** The transport samples the clock before it waits for the lock
(`mission_service_transport.rs:1034`). Request B, sampled at 1, journals the ACK and
fails before its letter is persisted. Request A, a concurrent retry sampled at 0,
finds the ACK there, persists an EXECUTING letter with `created_at` 0, and
`mark_executing_transition` at that time is refused as a clock regression. The
repair of every later open makes the same call, so the service no longer opens.
`docs/M1ND-10-PRD.md:511` and `:984` promise that a restart reconciles an ACK
without a transition, with concurrent retries. With `MaxLag = 0` (`repair`) the
property holds.

**`landing_keys`.** `land_internal` persists its plan before PREPARE. If the key was
used by an aborted transaction with a different intent, PREPARE is refused, the
plan stays, and `recover_plans` returns that refusal from every later open
(`mission_service.rs:3504`). The comment above it says the plan can then be
"terminally ABORTED". With clients that never use a key for two intents
(`ClientReusesKeys = FALSE`, run `landing_settles`) recovery always proceeds.

**`jobs_fence`.** `shutdown` reads a job as PENDING and lets go of the lock. A clone of
the registry that is in the middle of `submit_prepared` moves the job to RUNNING, since
admission is asked only by `register_pending`; a cancel makes it CANCELLING; and
`shutdown` writes CANCELLED, which that state allows, with the message "job was
cancelled before execution during shutdown" (`runtime_jobs.rs:1262`), of a job whose
preparation runs on. If its deadline passes, `finish_after_prepare`, which asks only
for CANCELLING or the deadline (:809), appends a second CANCELLED, and
`apply_replayed_job` (:580) refuses that journal at the next open. The comment at :1234
says that a retained clone "cannot submit in the drain-to-shutdown window": it cannot
begin to, but it can go on.

**`external_conflict`.** A ratification reaches its COMMIT and fails before its rename,
in a process that lives on. The actor turn ends, and with it what kept other writers
off the file. One of them replaces it before the next request recovers the entry, which
then finds the file at neither sealed digest. It and every later request and boot are
refused with `external_mutation_occ_conflict` (`external_mutation_service.rs:5148`,
`:5231`). The comment at :5126 says recovery "may
observe either side of the idempotent rename, but never a third value", and the ones at
:2804 and :2824 that the operation is "forward-completed idempotently" and "converged".
`LeasesSettle` therefore excepts it.

### Behaviours the properties leave out

These were met while modelling. Each is a reachable behaviour of the code that a
property excludes by name, or that the model keeps out; none has a run of its own.

**An unfit code** (`runtime_jobs.rs:914`). `RuntimeJobSuccess::new` and
`RuntimeJobFailure::new` take any string (:127-155), and no check stands between it and
the journal. An empty or overlong code, or one with control characters, is written, and
`validate_job_shape` (:1551) refuses the journal at the next open. The callers in `src/`
pass literals that are fit. `JournalReplays` excepts the records of `Careless` jobs.

**A cancel before the start** (`runtime_jobs.rs:1091`). A job cancelled between its
PENDING and its RUNNING record gets no controller and stays CANCELLING, counted as
active, until the next restart closes it. `JobsEnd` excepts it (`CancelledUnstarted`).

**A fence that stays** (`brain_runtime.rs:3451`, `:3477`). When the heartbeat finds its
owner released, or panics, it publishes the fence and its thread ends. Writes are
refused and reconciliation is put off from then on, and a pending packet puts `stop`
off as well. `QuarantineEnds` excepts it (`fenced = "left"`).

**A log ahead of its protected head** (`external_mutation_journal.rs:851`,
`owner_authorization_broker.rs:1391`). Every later open is refused on purpose, so a
lease may stay RESERVED; `LeasesSettle` excepts it (`fenced # {}`). The two safety
properties hold in it.

**A first checkpoint in doubt** (`brain_runtime.rs:2337`). If the bootstrap checkpoint
fails twice before CURRENT exists and CURRENT cannot be read when the outcome is
classified, the brain is quarantined with no CURRENT to reconcile against, and each
reconciliation is refused with PointerMissing. `QuarantineEnds` asks for `ptr # None`.

**A generation bumped next to an existing checkpoint.** `lock_mut_before_actor` can give
two different sessions one version, and a stale proposal would then pass the check. No
production path does it; `PreActorBump` is limited to newborn brains.

**Garbage collection beside an unsynced CURRENT** is safe only because `gc` also keeps
the fallback's own predecessor; `gc` has no production caller at this commit.

**Leftovers.** Staging files of a promotion that died before PREPARED are never removed
(only those of ratifications and source edits are). `recover_reserved` of the broker has
no production caller, so the lease of a landing that crashed after
FINALIZATION_PREPARED stays RESERVED.

### Bounds, and why they are enough

* `inbox`: two execution ids and four dispatches, which pair every way two can
  conflict (same id, same packet of a head, neither); deadlines 2 and 3 in a clock
  of 0..3, so claims, starts and ACKs fall before, at and after them.
* `execution`: one mission with 9 letters: dispatch, or judge, revise, dispatch,
  execute, gate, reject in review, revise and execute again. Ids are offered for more
  than one head, and the first execution's again after the rejected review, so that
  they collide across the gap between a letter and its registration. `MaxLag` 1.
  259 229 states. A collision of two missions goes through the same check and is
  covered by the theorem `ExecutionsBoundOnce`, which is for any missions.
* `repair`, `clock_lag`: three letters (dispatch, execute, settle) and a clock of
  0..2; every repair concerns one letter at a time.
* `landing`: two missions, three transactions, two keys, 7 letters: one landing may
  be aborted, retried under the same and under another key while the other mission
  lands. Transaction ids and keys are symmetric. No liveness is checked under
  symmetry.
* `landing_settles`, `landing_keys`: two or three transactions, 5 letters, which is
  the shortest landing.
* `jobs`: two jobs and two keys in two places, the second job under either key and with
  careless closures, so that keys collide and jobs run side by side; one failing write
  and one crash, each of which may hit any step of either job and of the restart that
  follows. 457 425 states. `jobs_fence` needs neither fault nor crash.
* `brain`: one write, one proposal, two drifting reads of either kind with `Debounce` 2,
  three manifests, two faults, one power loss, one bump before the first boot. The
  second attempt of a checkpoint may fail with the first at no further cost, so two
  faults reach both attempts and the classification after them. 2 602 484 states.
* `external`: two ratifications of one file, so that they overtake each other, a
  promotion of two files, one write by another writer anywhere, two faults and a crash:
  a request may fail, its recovery fail too, and the process die, each also between a
  record and its head. 468 403 states. `external_conflict`: the same with one fault.
Deadlock checking is off: terminal missions rest, the clock stops, a torn or fenced log
legitimately never reopens, and jobs, leases and checkpoints run out.

### Fairness

`FairSpec` of MissionExecution is `WF(OwnerStep) /\ SF(Repair)`, of MissionLanding
`WF(Next) /\ SF(Recover)`. Weak fairness says only that the owner keeps being called.
Strong fairness says that a service opened again and again gets through one more
append of its repair or recovery: every append is durable on its own and the code
restarts where it stopped, so a fault may cut one attempt short, not all of them.
No fairness is assumed of the runner, of clients, or of the absence of crashes.
`LettersReflected` excepts a torn outbox and `PlansSettle` a fenced WAL.

`FairSpec` of RuntimeJobs is weak fairness of each controller thread (the closures of
the callers return) and of the open that ends interrupted jobs; of BrainRuntime, of the
reconciliation that the actor's thread tries between commands, and of the clearing of a
fence, because after a failed heartbeat another is sent every second until one succeeds
or the thread ends (`HeartbeatEnds` disables it for good); of ExternalMutation, of the
owner's calls taken together, so any request or boot will do.
None of them promises that a particular request is made, or that faults stop coming
other than by their bound.

## 4. Proofs

All theorems hold for every value of the constants, under the named assumptions in the
modules: bounds are naturals and intervals positive, `None` is none of the records,
writes are no proposals. Each safety property of section 3 is a theorem; the runs came
first, and each strengthening below was an invariant of a run before it was proved. Two
results ask for more, because the property fails without it: `RecoveryNeverStuck` (no
key for two missions) and `NoRepairBlocked` (no clock lag). The runs `landing_keys` and
`clock_lag` show what happens otherwise.

**MissionChainProofs** proves `ChainInv`, `TerminalFrozen` and `IterationBindsPacket`.
`ChainInv` is not inductive: to show that a further iteration costs two letters one
must know that a mission in REVISING has already paid one, `RevisingInHand`. The runs
check the three properties on the service, which implements the chain.

**RunnerInboxProofs** proves the type invariant, `AtMostOneProcess`,
`InboxReplayable` and `InboxStepsLegal`, for any set of dispatches and heads. The
strengthening: every entry has the shape of its state (`EntrySound`); no two entries
bind one packet of a head (`BindingsDistinct`); an execution that has no entry has
neither a permit nor a process, and one that has a process has no permit
(`SpawnOnce`). The last is the argument for `AtMostOneProcess`: the permit is made
only with the entry, and the entry is never unmade.

**MissionExecutionProofs** proves every safety property of the execution lifecycle
(`TypeOK`, `ExecutingIsReal`, `OutboxNamesLetters`, `ResultAgreement`,
`MergeWaitEarned`, `ServesRepaired`, `ExecutionBoundOnce`, `OutboxReplayable`,
`OutboxStepsLegal`, `ReplayIsInert`), and that MissionExecution implements
MissionChain, for any missions, packets, executions and runner deliveries; an instance
of MissionChainProofs (`ChainFacts`) then carries the three properties of the chain over
to the service's letters. Letters,
outbox and inbox are written one after the other, so in a crash state they disagree;
`LifecycleInv` says how far. A lifecycle letter fits the letter before it; the
dispatch alone tells which letters an execution has and where; what the outbox holds
is backed by letters and by the inbox; and the letter a request is about to persist
fits before it is persisted, because nobody but the request in progress extends a
chain. `NoRepairBlocked` needs in addition the order of times along an execution
(`Timed`), which holds only if a request carries the clock it is served at.

The service is also put in the place of the environment the runner was proved against.
`ServiceWithinRunnerSpec` shows that every behaviour of MissionExecution is one of
RunnerSpec: RunnerInbox lets an owner deliver any offered dispatch and any head for an
ACK the runner signed, at any time, and the letters and the outbox only ever hold such
dispatches and ACKs (`Genuine`, from the moment a request has built its letter, because
a signature is never withdrawn). Its hypothesis `Heads = MissionHeads` says that
the service is compared with the runner that may be told of any head; MissionExecution
itself has no use for `Heads`, and its runs leave it empty. `ServiceStartsOneProcess` states `AtMostOneProcess` in the composed system
without it, and `MergedWorkAlwaysRanOnce` closes the circle from the letter to the
process: a mission waits to be merged only on an execution for which exactly one
process was started and whose result is the one in the runner's own journal.

**MissionLandingProofs** proves `TypeOK`, `VisibleOnlyCommitted`, `CommitNeverLost`,
`LandingsSerial`, `StaleMissionsFrozen`, `OneLandingInFlight`, `RecoveryNeverStuck` and
that MissionLanding implements MissionChain. The strengthening `LandingIndInv`: at most
one transaction is pending (`OnePending`), because requests are served only after
recovery settled every plan (`ServesSettled`), and the head and the store version a
pending transaction was planned for are still in place (`PendingReserved`,
`JobHoldsReservation`), because only a served request moves them. Plans are unique per
transaction and the WAL only knows planned transactions (`PlansUnique`,
`WalNamesPlans`); receipts and landed heads belong to each other
(`ReceiptsCommitted`, `LandedHasReceipt`). `FlightInv` adds what the two properties
about open plans need: a settled plan stays settled, so the only plan that can be open
while a request is served is the request's own (`OneUnsettled`, `JobOwnsUnsettled`);
a planned mission is in MERGE_WAIT at the head its plan binds, or past it
(`PlansAtHead`); MERGE_WAIT leads only to LANDED and ARCHIVED, so two plans of a mission
have one intent (`PlansAlike`); and no receipt uses the key of a plan the WAL does not
know yet (`KeyFree`). With a key per mission (`KeysAlike`) PREPARE therefore never meets
another intent under its key, the one refusal recovery cannot get past.

**ExternalMutationProofs** proves `OutcomesAgree` and `FilesOnlyGrow` for any
operations, files and other writers and with no bound on faults and crashes, those
between a record and its protected head included, from
`FilesAssumption` (an operation lists files) and `WritersAssumption` (a writer is no
operation). Neither is inductive. The strengthening `EMIndInv` adds what the call in
progress may rely on: the lease and the phase of its operation are those its place in
the code implies (`CallKnows`), because between two of its steps nothing but another
writer's turn or a crash happens, and neither moves them; the files it has counted as
published show the operation (`CallPublishes`); and a sealed preimage does not contain
the operation it belongs to (`PreimagesClean`), because it is read while the lease is
unused and an unused lease has changed no file. The last one carries
`FilesOnlyGrow`: a file that equals its sealed preimage cannot hold the operation yet,
and one that equals the staged content is left as it is, so neither a retry nor a
replay after a crash publishes twice or over another writer's update.

**RuntimeJobsProofs** proves `TypeOK`, `OutcomeTruthful` and `JournalReplays`, for any
jobs, keys, clones, careless closures and failed writes. What the last record of a job
says of its commit survives the next write because memory is what the disk holds unless
the registry is poisoned, and because a controller past the reservation finds the
reserved snapshot in both (`JobSound`); a shutdown ends only registered jobs
(`DrainSound`). For the replay one must know more: a job with a live controller is
RUNNING or CANCELLING, or shutdown has cancelled it as not yet started (`PcSound`,
`BeforeStart`). In the first case what `finish_after_prepare` writes follows by
`ValidRecord`; in the second a passed deadline may write the one record `CancelledAgain`
describes, and everything else is refused. An unfit code comes only from a closure, so
only from a careless job. `OutcomesAreFinal` then follows from two facts: a step leaves
a job's journal as it is or appends one record to it (`JournalGrows`), and no record
that `ValidRecord` accepts comes after a terminal one (`NoneAfterTerminal`); what is left
is `CancelledAgain`.

**BrainRuntimeProofs** proves `TypeOK`, `AcknowledgedSurvives`, `ServedIsCurrent` and
`ProposalsFresh`, for any writes, proposals and intervals and with no bound on
checkpoints, faults and crashes. `BrainInv` has three parts. The store (`StoreInv`): a
manifest extends the log of its predecessor, and CURRENT as a reader sees it and as a
power loss would leave it are at most one publication apart (`PointersAdjacent`). That
is why the three checkpoints gc keeps are enough and two would not be. The proposals
(`ProposalsInv`): a snapshot that still waits for its commit is CURRENT's, or its
version is older than CURRENT's (`PreparedSound`), because CURRENT moves only to newer
versions; so equal versions mean equal logs. The actor (`ActorInv`): what holds at each
step of a turn. The rename of CURRENT is not synced only while its checkpoint is in the
making (`SyncKnown`); a session that answers has the version of its checkpoint and no
generation beyond it, and the persists asked for since are at most the deferred ones
(`Serving`), so a refresh invents no version and `ServedIsCurrent` bounds them by the
interval; the fence is no part of it, so it holds whichever way the heartbeat went; a
fallback is served only while CURRENT's bytes are bad, and nothing repairs them (`DegradedSound`), so
within a process the brain never jumps from a fallback back to CURRENT.

Two action properties rest on the same invariant. `CurrentKeepsToOneLine`: only
`publish_current` and a power loss move CURRENT (`PointerMoves`); the one moves it to a
checkpoint whose predecessor is the one it named, under a newer version and with all
its updates, the other takes back at most the rename that was not synced. So CURRENT
neither skips nor forks, whatever was retried, reconciled or rolled back.
`AnswersOnlyGrow`: only the end of a turn and a reconciliation answer a caller
(`AcksMove`), both with a CURRENT that a power loss would leave in place, and each
answer holds every update of the answers before.

Only model-checked are the liveness properties, because fairness is beyond the prover:
`LettersReflected`, `PlansSettle`, `JobsEnd`, `QuarantineEnds` and `LeasesSettle`.
`ChainTypeOK` and `RunnerTypeOK` are proved and part of what the other proofs rest on,
and are not repeated in the runs.

## 5. Abstractions and limits

* Authentication, signatures, capabilities and leases: every request is one the
  authority checks accept; a refused request is an `Abandon`.
* No operation of the service changes a block's boundary or contract version, so
  `validate_scope` is modelled by the store version alone, in MissionLanding.
* `MissionServiceStateV1::validate`, re-run on the whole file before each persist and
  at each open, is not an action guard. It walks every chain along the transition
  table and pairs receipts with LANDED letters; `ImplementsChain` and
  `VisibleOnlyCommitted` show that it never refuses what the service wrote.
* Review results are the transitions they cause; hunk-level evidence is data.
* MissionExecution and MissionLanding are two views of one service; a composed
  module is not needed for the properties above, since landing needs from execution
  only that letters follow MissionChain. One coupling is lost by it: both journals are
  opened by the same `open_internal`, so a torn outbox also keeps landings from being
  recovered, and `PlansSettle` holds only as long as the outbox opens.
* RuntimeJobs: the calls that only wait or read (health, wait, list) are left out, and so
  is the content of results.
* CheckpointStore: digests, file contents, the migration of legacy schemas and the
  replacement path for Windows are left out; a decayed directory is one whose digests no
  longer match. BrainRuntime: read-only attach, the bound and the pause of the command
  queue, eviction, adoption of legacy brain ids and the bytes of the working files are
  left out, and so are read turns that change nothing. Drift is not part of the version, in the code as here.
* ExternalMutation: `source.edit.commit`, `graph.ingest.*` and previews are left out;
  leases exist from the start and do not expire; a fenced log is a full stop, as in
  MissionLanding: the tools that repair it are an operator's.
  A rename counts as durable when it is done: `forward_publish` does not sync the
  directory again when it finds the postimage in place, so a power loss after a failed
  sync is outside the model.

## 6. Not modelled, and the plan

The instance registry rests on file locks, process ids and their reuse; a model of it
would be a model of the operating system. Graph algorithms, extractors, protocol
framing, analysis handlers, the UI and the tooling keep no protocol state. The share of
the repository's lines that the modules stand for is therefore small, and most of it is
in the files named in section 1.

What would come next:

1. `source.edit.commit` as a third kind of operation in ExternalMutation, with the
   backups and the rollback of `source_edit_transaction.rs`.
2. The broker composed with MissionLanding (`finalize_wal`).
3. `ReplayLedger`, autonomy budgets, evidence spine, mailbox, perspectives, the
   auto-ingest queue.
