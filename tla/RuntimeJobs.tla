---------------------------- MODULE RuntimeJobs ----------------------------
(***************************************************************************)
(* The durable job registry of m1nd-mcp/src/runtime_jobs.rs: submission,   *)
(* the controller thread of each job (supervise_operation), cancellation,  *)
(* the deadline, the commit reservation, shutdown, journal faults, crashes *)
(* and the restart that closes interrupted jobs.                           *)
(*                                                                         *)
(* The prepare and commit closures belong to the callers: a preparation    *)
(* returns a value, returns an error or panics, and a commit takes its     *)
(* external effect or not and then returns or panics.  `commits` and       *)
(* `effect` record what the closures really did, which the registry cannot *)
(* see after a crash.                                                      *)
(*                                                                         *)
(* The clock is read afresh at each use and may step either way, so every  *)
(* reading of "the deadline has passed" is a free choice.                  *)
(*                                                                         *)
(* Operators introduced with "fault" or "without" are deliberate wrong     *)
(* versions of the operator that follows them.  Nothing uses them; they    *)
(* are there so that the properties can be shown to notice the difference. *)
(***************************************************************************)
EXTENDS Naturals, Sequences, FiniteSets

CONSTANTS Jobs,         \* job ids
          Keys,         \* idempotency keys
          KeysOf,       \* KeysOf[j]: the keys job j may be submitted under
          None,
          Careless,     \* the jobs whose closures may choose a code replay refuses
          MaxInFlight,  \* max_in_flight
          MaxFaults,    \* bound: journal writes that fail
          MaxCrashes    \* bound: crashes of the process

ASSUME NoneAssumption == None \notin Jobs \cup Keys
ASSUME KeysOfAssumption == KeysOf \in [Jobs -> SUBSET Keys]
ASSUME CarelessAssumption == Careless \subseteq Jobs
ASSUME MaxInFlightAssumption == MaxInFlight \in Nat \ {0}
ASSUME MaxFaultsAssumption == MaxFaults \in Nat
ASSUME MaxCrashesAssumption == MaxCrashes \in Nat

VARIABLES job,        \* job[j]: the snapshot in memory, None while not registered
          journal,    \* journal[j]: the snapshots of job j on disk, in order
          key,        \* key[j]: the idempotency key of the journaled job
          torn,       \* the journal ends in a half-written record
          poisoned,   \* an append failed: the registry writes no more
          accepting,  \* submission is open
          phase,      \* "down", "recovering" (open has not returned) or "open"
          pc,         \* pc[j]: where the submitter and then the controller of j are
          drain,      \* the shutdown call: the jobs left to end and what it last read
          commits,    \* commits[j]: invocations of the commit closure
          effect,     \* effect[j]: the commit closure took its effect
          faults, crashes

vars == <<job, journal, key, torn, poisoned, accepting, phase, pc, drain, commits,
          effect, faults, crashes>>

Terminal == {"Succeeded", "Failed", "Cancelled"}

States == {"Pending", "Running", "Cancelling"} \cup Terminal

\* A failed preparation, a commit and a failed commit are recorded under the code the
\* closure chose.  RuntimeJobSuccess::new and RuntimeJobFailure::new take any string;
\* the codes below are the ones validate_identifier refuses (empty, too long, or with
\* control characters).
UnfitCodes == {"unfit_preparation_failed", "unfit_committed", "unfit_commit_failed"}

\* The codes the closures of job j may choose for an outcome: a fit one, or, if they are
\* careless, the unfit one.
Chosen(j, fit, unfit) == IF j \in Careless THEN {fit, unfit} ELSE {fit}

\* Codes of RuntimeJobTerminalResultV1; deadline_cancelled is "cancelled".
Codes == {"none", "cancelled", "shutdown_before_start", "preparation_failed",
          "worker_panicked", "spawn_failed", "committed", "commit_failed",
          "restart_interrupted", "restart_interrupted_commit_ambiguous"} \cup UnfitCodes

\* RuntimeJobV1 without its identity and times.
Snapshots == [st : States, rev : Nat, late : BOOLEAN, reserved : BOOLEAN, code : Codes]

ASSUME NoSnapshotAssumption == None \notin Snapshots

PcValues == {"none", "registered", "spawning", "preparing", "overdue", "prepared",
             "failed", "panicked", "discarding", "committing", "effective",
             "ineffective", "done"}

Registered(j) == job[j] # None

Active(j) == Registered(j) /\ job[j].st \notin Terminal

\* finish_after_prepare writes twice under one lock when it discards a result.
LockFree == \A j \in Jobs : pc[j] # "discarding"

Serving == phase = "open" /\ LockFree

RegisteredSnapshot ==
    [st |-> "Pending", rev |-> 0, late |-> FALSE, reserved |-> FALSE, code |-> "none"]

\* transition: the next snapshot of a job that moves to state st.
Moved(s, st, late, code) ==
    [st |-> st, rev |-> s.rev + 1, late |-> s.late \/ late,
     reserved |-> (s.reserved /\ st \notin Terminal), code |-> code]

ValidTransition(from, to) ==
    \/ from = "Pending" /\ to \in {"Running", "Cancelling", "Cancelled", "Failed"}
    \/ from = "Running" /\ to \in {"Cancelling", "Succeeded", "Failed"}
    \/ from = "Cancelling" /\ to \in {"Cancelled", "Failed"}

\* The conditions transition() checks before it writes.
MayTransition(s, to) ==
    /\ ~(s.reserved /\ to \in {"Cancelling", "Cancelled"})
    /\ ValidTransition(s.st, to)

-----------------------------------------------------------------------------
(* Writing a snapshot. *)

\* append_then_replace succeeds: the record is on disk, then in memory.
Written(j, s) ==
    /\ ~poisoned
    /\ journal' = [journal EXCEPT ![j] = Append(@, s)]
    /\ job' = [job EXCEPT ![j] = s]
    /\ UNCHANGED <<torn, poisoned, faults>>

\* JournalWriter::append fails (fault: the registry stays in service).
WriteFailsUnnoticed(j, s) ==
    /\ ~poisoned
    /\ faults < MaxFaults
    /\ faults' = faults + 1
    /\ \/ UNCHANGED <<journal, torn>>
       \/ journal' = [journal EXCEPT ![j] = Append(@, s)] /\ UNCHANGED torn
       \/ torn' = TRUE /\ UNCHANGED journal
    /\ UNCHANGED <<job, poisoned>>

\* JournalWriter::append fails: nothing, all or a part of the record reached the
\* disk.  The registry is poisoned and memory keeps the old snapshot.
WriteFails(j, s) ==
    /\ ~poisoned
    /\ faults < MaxFaults
    /\ faults' = faults + 1
    /\ poisoned' = TRUE
    /\ \/ UNCHANGED <<journal, torn>>
       \/ journal' = [journal EXCEPT ![j] = Append(@, s)] /\ UNCHANGED torn
       \/ torn' = TRUE /\ UNCHANGED journal
    /\ UNCHANGED job

WriteRefused ==
    /\ poisoned
    /\ UNCHANGED <<job, journal, torn, poisoned, faults>>

\* append_then_replace, and where its caller goes on: ok or err.
Persist(j, s, ok, err) ==
    \/ Written(j, s) /\ pc' = [pc EXCEPT ![j] = ok]
    \/ WriteFails(j, s) /\ pc' = [pc EXCEPT ![j] = err]
    \/ WriteRefused /\ pc' = [pc EXCEPT ![j] = err]

\* The caller goes on without a write.
NoWrite(j, to) ==
    /\ pc' = [pc EXCEPT ![j] = to]
    /\ UNCHANGED <<job, journal, torn, poisoned, faults>>

-----------------------------------------------------------------------------
(* submit_prepared. *)

\* register_pending: capacity, id and key are checked and the PENDING record is
\* journaled under one lock.
RegisterPending(j, k) ==
    /\ Serving
    /\ ~poisoned
    /\ accepting
    /\ pc[j] = "none"
    /\ Cardinality({i \in Jobs : Active(i)}) < MaxInFlight
    /\ ~Registered(j)
    /\ \A i \in Jobs : Registered(i) => key[i] # k
    /\ Persist(j, RegisteredSnapshot, "registered", "none")
    /\ key' = [key EXCEPT ![j] = IF journal'[j] = <<>> THEN None ELSE k]
    /\ UNCHANGED <<accepting, phase, drain, commits, effect, crashes>>

\* The move to RUNNING, under the lock again: refused if the job was cancelled
\* in between, and then no controller is ever started.
StartRunning(j) ==
    /\ Serving
    /\ pc[j] = "registered"
    /\ IF MayTransition(job[j], "Running")
       THEN Persist(j, Moved(job[j], "Running", FALSE, "none"), "spawning", "done")
       ELSE NoWrite(j, "done")
    /\ UNCHANGED <<key, accepting, phase, drain, commits, effect, crashes>>

\* The controller and its preparation thread start.
SpawnWorker(j) ==
    /\ phase = "open"
    /\ pc[j] = "spawning"
    /\ pc' = [pc EXCEPT ![j] = "preparing"]
    /\ UNCHANGED <<job, journal, key, torn, poisoned, accepting, phase, drain, commits,
                   effect, faults, crashes>>

\* Either thread cannot be spawned.
SpawnFails(j) ==
    /\ Serving
    /\ pc[j] = "spawning"
    /\ IF MayTransition(job[j], "Failed")
       THEN Persist(j, Moved(job[j], "Failed", FALSE, "spawn_failed"), "done", "done")
       ELSE NoWrite(j, "done")
    /\ UNCHANGED <<key, accepting, phase, drain, commits, effect, crashes>>

-----------------------------------------------------------------------------
(* Cancellation. *)

\* RegistryCore::request_cancel writes: the job is not terminal, its commit is not
\* reserved (CancellationTooLate), and a job that is CANCELLING already is written
\* again only to record the timeout.
CancelWrites(s, late) ==
    /\ ~s.reserved
    /\ s.st = "Cancelling" => late /\ ~s.late

Cancelled(s, late) == Moved(s, "Cancelling", late, "none")

\* The registry's request_cancel, at any time in the life of the job, its submission
\* included.
RequestCancel(j) ==
    /\ Serving
    /\ Active(j)
    /\ CancelWrites(job[j], FALSE)
    /\ Persist(j, Cancelled(job[j], FALSE), pc[j], pc[j])
    /\ UNCHANGED <<key, accepting, phase, drain, commits, effect, crashes>>

\* supervise_operation: recv_timeout runs out; the controller cancels the job
\* (whatever request_cancel answers) and waits for the preparation without limit.
DeadlineReached(j) ==
    /\ Serving
    /\ pc[j] = "preparing"
    /\ IF Active(j) /\ CancelWrites(job[j], TRUE)
       THEN Persist(j, Cancelled(job[j], TRUE), "overdue", "overdue")
       ELSE NoWrite(j, "overdue")
    /\ UNCHANGED <<key, accepting, phase, drain, commits, effect, crashes>>

-----------------------------------------------------------------------------
(* The controller after the preparation. *)

\* The preparation thread returns a value, an error, or is gone.
PrepareReturns(j) ==
    /\ phase = "open"
    /\ pc[j] \in {"preparing", "overdue"}
    /\ \E result \in {"prepared", "failed", "panicked"} : pc' = [pc EXCEPT ![j] = result]
    /\ UNCHANGED <<job, journal, key, torn, poisoned, accepting, phase, drain, commits,
                   effect, faults, crashes>>

\* finish_panicked.  The snapshot it starts from reports a passed deadline.
FinishPanicked(j) ==
    /\ Serving
    /\ pc[j] = "panicked"
    /\ \E late \in BOOLEAN :
          IF MayTransition(job[j], "Failed")
          THEN Persist(j, Moved(job[j], "Failed", late, "worker_panicked"), "done", "done")
          ELSE NoWrite(j, "done")
    /\ UNCHANGED <<key, accepting, phase, drain, commits, effect, crashes>>

\* finish_after_prepare, deadline passed while still RUNNING: the job is first
\* made CANCELLING, and the lock is kept.
DiscardLate(j) ==
    /\ Serving
    /\ pc[j] \in {"prepared", "failed"}
    /\ job[j].st = "Running"
    /\ Persist(j, Cancelled(job[j], TRUE), "discarding", "done")
    /\ UNCHANGED <<key, accepting, phase, drain, commits, effect, crashes>>

\* finish_after_prepare of a CANCELLING job (fault: only a prepared value is
\* discarded, an error is dropped).
DiscardValueOnly(j) ==
    /\ phase = "open"
    /\ pc[j] \in {"discarding", "prepared"}
    /\ job[j].st = "Cancelling"
    /\ Persist(j, Moved(job[j], "Cancelled", FALSE, "cancelled"), "done", "done")
    /\ UNCHANGED <<key, accepting, phase, drain, commits, effect, crashes>>

\* finish_after_prepare of a job that is not RUNNING: the result is discarded.  A
\* passed deadline writes CANCELLED whatever the state is.
Discard(j) ==
    /\ phase = "open"
    /\ \/ pc[j] = "discarding"
       \/ pc[j] \in {"prepared", "failed"} /\ LockFree
    /\ job[j].st # "Running"
    /\ \E late \in BOOLEAN :
          IF job[j].st = "Cancelling" \/ late
          THEN Persist(j, Moved(job[j], "Cancelled", FALSE, "cancelled"), "done", "done")
          ELSE NoWrite(j, "done")
    /\ UNCHANGED <<key, accepting, phase, drain, commits, effect, crashes>>

\* finish_after_prepare of an error, in time.
PreparationFailed(j) ==
    /\ Serving
    /\ pc[j] = "failed"
    /\ job[j].st = "Running"
    /\ \E code \in Chosen(j, "preparation_failed", "unfit_preparation_failed") :
          Persist(j, Moved(job[j], "Failed", FALSE, code), "done", "done")
    /\ UNCHANGED <<key, accepting, phase, drain, commits, effect, crashes>>

\* finish_after_prepare of a value, in time: the durable reservation, from which
\* on nothing cancels the job.  The lock is released before the commit runs.
ReserveCommit(j) ==
    /\ Serving
    /\ pc[j] = "prepared"
    /\ job[j].st = "Running"
    /\ Persist(j, [job[j] EXCEPT !.rev = @ + 1, !.reserved = TRUE], "committing", "done")
    /\ UNCHANGED <<key, accepting, phase, drain, commits, effect, crashes>>

\* The commit closure runs, with or without its effect.
CommitRuns(j) ==
    /\ phase = "open"
    /\ pc[j] = "committing"
    /\ commits' = [commits EXCEPT ![j] = @ + 1]
    /\ \E done \in BOOLEAN :
          /\ effect' = [effect EXCEPT ![j] = @ \/ done]
          /\ pc' = [pc EXCEPT ![j] = IF done THEN "effective" ELSE "ineffective"]
    /\ UNCHANGED <<job, journal, key, torn, poisoned, accepting, phase, drain, faults,
                   crashes>>

\* The closure returned, or panicked (possibly after its effect).
RecordOutcome(j) ==
    /\ Serving
    /\ pc[j] \in {"effective", "ineffective"}
    /\ job[j].st = "Running" /\ job[j].reserved
    /\ \E late \in BOOLEAN :
          \/ /\ pc[j] = "effective"
             /\ \E code \in Chosen(j, "committed", "unfit_committed") :
                   Persist(j, Moved(job[j], "Succeeded", late, code), "done", "done")
          \/ \E code \in Chosen(j, "commit_failed", "unfit_commit_failed") :
                Persist(j, Moved(job[j], "Failed", late, code), "done", "done")
    /\ UNCHANGED <<key, accepting, phase, drain, commits, effect, crashes>>

-----------------------------------------------------------------------------
(* close_admission and shutdown. *)

NoDrain == [todo |-> {}, at |-> None, pending |-> FALSE, on |-> FALSE]

CloseAdmission ==
    /\ Serving
    /\ accepting
    /\ accepting' = FALSE
    /\ UNCHANGED <<job, journal, key, torn, poisoned, phase, pc, drain, commits, effect,
                   faults, crashes>>

\* shutdown closes admission and lists the active jobs.  ProjectBrainRegistry
\* waits for the calls it admitted before it gets here; a caller that kept a clone
\* of the registry (the host of the external mutations does) is not among them and
\* may be anywhere in its submission.
ShutdownBegins ==
    /\ Serving
    /\ ~drain.on
    /\ accepting' = FALSE
    /\ drain' = [todo |-> {j \in Jobs : Active(j)}, at |-> None, pending |-> FALSE, on |-> TRUE]
    /\ UNCHANGED <<job, journal, key, torn, poisoned, phase, pc, commits, effect, faults,
                   crashes>>

\* It reads one job, lets go of the lock, ...
ShutdownReads(j) ==
    /\ Serving
    /\ drain.on /\ drain.at = None
    /\ j \in drain.todo
    /\ drain' = [drain EXCEPT !.at = j, !.pending = job[j].st = "Pending"]
    /\ UNCHANGED <<job, journal, key, torn, poisoned, accepting, phase, pc, commits, effect,
                   faults, crashes>>

\* The job is done with; shutdown goes on with the others or returns an error.
DrainOn(j) == drain' = [drain EXCEPT !.todo = @ \ {j}, !.at = None, !.pending = FALSE]

\* ... and then writes what that reading asks for, or stops at the first error.
ShutdownWrites(j) ==
    /\ Serving
    /\ drain.at = j
    /\ LET s == IF drain.pending
                THEN Moved(job[j], "Cancelled", FALSE, "shutdown_before_start")
                ELSE Cancelled(job[j], FALSE)
       IN /\ IF drain.pending
             THEN MayTransition(job[j], "Cancelled")
             ELSE Active(j) /\ CancelWrites(job[j], FALSE)
          /\ \/ Written(j, s) /\ DrainOn(j)
             \/ (WriteFails(j, s) \/ WriteRefused) /\ drain' = NoDrain
    /\ UNCHANGED <<key, accepting, phase, pc, commits, effect, crashes>>

\* Nothing to write: the job ended or is being cancelled or committed, which
\* request_cancel reports without an error; a job read as PENDING that has started
\* since is an illegal transition, and shutdown returns.
ShutdownSkips(j) ==
    /\ Serving
    /\ drain.at = j
    /\ IF drain.pending
       THEN ~MayTransition(job[j], "Cancelled") /\ drain' = NoDrain
       ELSE ~(Active(j) /\ CancelWrites(job[j], FALSE)) /\ DrainOn(j)
    /\ UNCHANGED <<job, journal, key, torn, poisoned, accepting, phase, pc, commits, effect,
                   faults, crashes>>

\* The wait with its grace period, and the report.
ShutdownReturns ==
    /\ Serving
    /\ drain.on /\ drain.todo = {}
    /\ drain' = NoDrain
    /\ UNCHANGED <<job, journal, key, torn, poisoned, accepting, phase, pc, commits, effect,
                   faults, crashes>>

-----------------------------------------------------------------------------
(* Crash and restart. *)

\* Everything in memory goes; every thread goes.
Stopped ==
    /\ phase' = "down"
    /\ job' = [j \in Jobs |-> None]
    /\ pc' = [j \in Jobs |-> IF journal'[j] = <<>> THEN "none" ELSE "done"]
    /\ drain' = NoDrain
    /\ poisoned' = FALSE
    /\ accepting' = TRUE

Crash ==
    /\ phase # "down"
    /\ crashes < MaxCrashes
    /\ crashes' = crashes + 1
    /\ UNCHANGED <<journal, key, torn, commits, effect, faults>>
    /\ Stopped

\* valid_snapshot_transition, with the revision and timeout checks of
\* apply_replayed_job.
ValidRecord(p, n) ==
    /\ n.rev = p.rev + 1
    /\ p.late => n.late
    /\ n.reserved => n.st = "Running"
    /\ \/ p.reserved /\ p.st = "Running" /\ n.st \in {"Succeeded", "Failed"} /\ ~n.reserved
       \/ ~p.reserved /\ n.reserved /\ p.st = "Running"
       \/ ~p.reserved /\ ~n.reserved /\ ValidTransition(p.st, n.st)
       \/ /\ ~p.reserved /\ ~n.reserved
          /\ p.st = "Cancelling" /\ n.st = "Cancelling" /\ ~p.late /\ n.late

\* validate_job_shape, which replay_journal applies to every record and nothing
\* applies before it is written.
ValidShape(s) ==
    /\ s.st \in Terminal <=> s.code # "none"
    /\ s.reserved => s.st = "Running"
    /\ s.code \notin UnfitCodes

\* The key check of open_with_max_in_flight.
DistinctKeys ==
    \A i, j \in Jobs : i # j /\ journal[i] # <<>> /\ journal[j] # <<>> => key[i] # key[j]

\* replay_journal: what a journal without a torn tail must satisfy for the registry
\* to open.
Replays ==
    /\ \A j \in Jobs : journal[j] # <<>> =>
          /\ journal[j][1] = RegisteredSnapshot
          /\ \A n \in 2..Len(journal[j]) :
                ValidRecord(journal[j][n - 1], journal[j][n]) /\ ValidShape(journal[j][n])
    /\ DistinctKeys

\* The last record of a job on disk.
Latest(j) == journal[j][Len(journal[j])]

Open ==
    /\ phase = "down"
    /\ ~torn /\ Replays
    /\ phase' = "recovering"
    /\ job' = [j \in Jobs |-> IF journal[j] = <<>> THEN None ELSE Latest(j)]
    /\ UNCHANGED <<journal, key, torn, poisoned, accepting, pc, drain, commits, effect,
                   faults, crashes>>

\* fail_closed_interrupted_jobs (fault: a reserved commit is taken for never
\* invoked).
ForgetsReservation(s, late) ==
    IF s.st = "Running" /\ ~s.reserved
    THEN Cancelled(s, late)
    ELSE Moved(s, "Failed", late, "restart_interrupted")

\* fail_closed_interrupted_jobs (fault: the reason is stored as the code).
ReasonAsCode(s, late) ==
    IF s.st = "Running" /\ ~s.reserved
    THEN Cancelled(s, late)
    ELSE Moved(s, "Failed", late, "restart_failed_closed")

\* fail_closed_interrupted_jobs, the next record of an interrupted job: a RUNNING
\* job is CANCELLING first, every job ends FAILED, and a reserved commit is
\* reported as ambiguous.
FailClosed(s, late) ==
    IF s.st = "Running" /\ ~s.reserved
    THEN Cancelled(s, late)
    ELSE Moved(s, "Failed", late,
               IF s.reserved THEN "restart_interrupted_commit_ambiguous"
                             ELSE "restart_interrupted")

\* One write of the recovery; open returns the error of a failed one and the
\* registry is gone again.
RecoverJob(j) ==
    /\ phase = "recovering"
    /\ Active(j)
    /\ UNCHANGED <<key, commits, effect, crashes>>
    /\ \E late \in BOOLEAN :
          \/ /\ Written(j, FailClosed(job[j], late))
             /\ UNCHANGED <<accepting, phase, pc, drain>>
          \/ /\ faults < MaxFaults
             /\ faults' = faults + 1
             /\ \/ UNCHANGED <<journal, torn>>
                \/ /\ journal' = [journal EXCEPT ![j] = Append(@, FailClosed(job[j], late))]
                   /\ UNCHANGED torn
                \/ torn' = TRUE /\ UNCHANGED journal
             /\ Stopped

RecoveryDone ==
    /\ phase = "recovering"
    /\ \A j \in Jobs : ~Active(j)
    /\ phase' = "open"
    /\ UNCHANGED <<job, journal, key, torn, poisoned, accepting, pc, drain, commits, effect,
                   faults, crashes>>

-----------------------------------------------------------------------------
Init ==
    /\ job = [j \in Jobs |-> None]
    /\ journal = [j \in Jobs |-> <<>>]
    /\ key = [j \in Jobs |-> None]
    /\ torn = FALSE
    /\ poisoned = FALSE
    /\ accepting = TRUE
    /\ phase = "open"
    /\ pc = [j \in Jobs |-> "none"]
    /\ drain = NoDrain
    /\ commits = [j \in Jobs |-> 0]
    /\ effect = [j \in Jobs |-> FALSE]
    /\ faults = 0
    /\ crashes = 0

\* The steps of the submitter and the controller of job j that the code takes by
\* itself once the job is registered.
Work(j) ==
    \/ StartRunning(j)
    \/ SpawnWorker(j)
    \/ PrepareReturns(j)
    \/ FinishPanicked(j)
    \/ DiscardLate(j)
    \/ Discard(j)
    \/ PreparationFailed(j)
    \/ ReserveCommit(j)
    \/ CommitRuns(j)
    \/ RecordOutcome(j)

\* The steps of open once it has replayed the journal.
Opening == RecoveryDone \/ \E j \in Jobs : RecoverJob(j)

Next ==
    \/ \E j \in Jobs :
          \/ \E k \in KeysOf[j] : RegisterPending(j, k)
          \/ Work(j)
          \/ SpawnFails(j)
          \/ RequestCancel(j)
          \/ DeadlineReached(j)
          \/ ShutdownReads(j)
          \/ ShutdownWrites(j)
          \/ ShutdownSkips(j)
          \/ RecoverJob(j)
    \/ CloseAdmission
    \/ ShutdownBegins
    \/ ShutdownReturns
    \/ Crash
    \/ Open
    \/ RecoveryDone

Spec == Init /\ [][Next]_vars

\* Threads are scheduled, the callers' closures return, and a registry that is
\* being opened goes on.  Nobody promises a cancel, a shutdown or a restart.
FairSpec ==
    /\ Spec
    /\ \A j \in Jobs : WF_vars(Work(j))
    /\ WF_vars(Opening)

-----------------------------------------------------------------------------
TypeOK ==
    /\ job \in [Jobs -> Snapshots \cup {None}]
    /\ journal \in [Jobs -> Seq(Snapshots)]
    /\ key \in [Jobs -> Keys \cup {None}]
    /\ torn \in BOOLEAN /\ poisoned \in BOOLEAN /\ accepting \in BOOLEAN
    /\ phase \in {"down", "recovering", "open"}
    /\ pc \in [Jobs -> PcValues]
    /\ drain \in [todo : SUBSET Jobs, at : Jobs \cup {None}, pending : BOOLEAN, on : BOOLEAN]
    /\ commits \in [Jobs -> Nat]
    /\ effect \in [Jobs -> BOOLEAN]
    /\ faults \in 0..MaxFaults
    /\ crashes \in 0..MaxCrashes

(***************************************************************************)
(* What the journal says of a job is true of its commit closure, whatever  *)
(* was cancelled, timed out, failed to be written or was cut off by a      *)
(* crash: a SUCCEEDED job took its effect; a job that is being cancelled   *)
(* or ended by anything but its commit or an ambiguous restart never had   *)
(* its commit invoked; and no commit is invoked twice.                     *)
(***************************************************************************)
OutcomeTruthful ==
    \A j \in Jobs :
        /\ commits[j] <= 1
        /\ commits[j] > 0 => journal[j] # <<>>
        /\ journal[j] # <<>> =>
              /\ Latest(j).st = "Succeeded" => effect[j]
              /\ commits[j] > 0 =>
                    \/ Latest(j).reserved
                    \/ Latest(j).code \in {"committed", "unfit_committed", "commit_failed",
                                           "unfit_commit_failed",
                                           "restart_interrupted_commit_ambiguous"}

\* Record n is the CANCELLED that finish_after_prepare writes at a passed deadline,
\* on top of the one shutdown wrote of a job it had read as PENDING.
CancelledAgain(p, n) ==
    /\ p.st = "Cancelled" /\ p.code = "shutdown_before_start"
    /\ n = Moved(p, "Cancelled", FALSE, "cancelled")

\* Record n of job j follows record p.
Follows(j, p, n) ==
    /\ ValidRecord(p, n) \/ CancelledAgain(p, n)
    /\ ValidShape(n) \/ (j \in Careless /\ n.code \in UnfitCodes)

(***************************************************************************)
(* Whatever overlaps, fails to be written, crashes and restarts, the       *)
(* registry's journal has one job per idempotency key and only two         *)
(* kinds of record that replay_journal refuses (the torn tail apart): one  *)
(* under a code that its caller's closure chose and that is no identifier, *)
(* and the second CANCELLED of a job that shutdown cancelled as not yet    *)
(* started while its submission went on.                                   *)
(***************************************************************************)
JournalReplays ==
    /\ \A j \in Jobs : journal[j] # <<>> =>
          /\ journal[j][1] = RegisteredSnapshot
          /\ \A n \in 2..Len(journal[j]) : Follows(j, journal[j][n - 1], journal[j][n])
    /\ DistinctKeys

(***************************************************************************)
(* A job that shutdown ends as cancelled "before execution" (the message   *)
(* of its terminal result) has not been executed: once shutdown has closed *)
(* admission, no submission that is under way in another clone of the      *)
(* registry starts the job.  Not so: shutdown reads the job, lets go of    *)
(* the lock and writes, and admission is asked only at the registration.   *)
(***************************************************************************)
CancelledBeforeExecution ==
    \A j \in Jobs :
        journal[j] # <<>> /\ Latest(j).code = "shutdown_before_start" =>
            \A n \in 1..Len(journal[j]) : journal[j][n].st # "Running"

\* Cancelled between its registration and the start of its controller: RUNNING is
\* refused, nothing waits for a preparation, and nobody moves the job any more.
CancelledUnstarted(j) ==
    job[j].st = "Cancelling" /\ \A n \in 1..Len(journal[j]) : journal[j][n].st # "Running"

(***************************************************************************)
(* A registered job ends: its controller brings it to a terminal state,    *)
(* and open ends what a crash left over, unless the registry was poisoned  *)
(* or stopped on the way, or the job was cancelled before it had a         *)
(* controller: that one stays CANCELLING until the next start.             *)
(***************************************************************************)
JobsEnd ==
    \A j \in Jobs :
        (phase # "down" /\ Active(j)) ~>
            (~Active(j) \/ poisoned \/ phase = "down" \/ CancelledUnstarted(j))
=============================================================================
