------------------------- MODULE RuntimeJobsProofs -------------------------
(***************************************************************************)
(* Proofs about the job registry, for any jobs and keys, any number of     *)
(* places, failed writes and crashes, whoever overlaps whom: what the      *)
(* journal says of a commit is true, the journal can be replayed but for   *)
(* two kinds of record, and an outcome once written is final but for one.  *)
(***************************************************************************)
EXTENDS RuntimeJobs, TLAPS

(***************************************************************************)
(* The inductive invariant.  What the last record of a job says of its     *)
(* commit (Truthful) survives a write because memory and disk agree while  *)
(* the registry is not poisoned, and because a controller that is past the *)
(* reservation finds the reserved snapshot in both, whatever happened to   *)
(* other jobs (JobSound).                                                  *)
(***************************************************************************)
CommitCodes == {"committed", "unfit_committed", "commit_failed", "unfit_commit_failed",
                "restart_interrupted_commit_ambiguous"}

Truthful(s, invoked, took) ==
    /\ s.st = "Succeeded" => took
    /\ invoked > 0 => s.reserved \/ s.code \in CommitCodes
    /\ s.code # "none" => s.st \in Terminal
    /\ s.reserved => s.st = "Running"

Committing == {"committing", "effective", "ineffective"}

JobSound(j) ==
    /\ commits[j] <= 1
    /\ journal[j] = <<>> => commits[j] = 0 /\ ~Registered(j)
    /\ journal[j] # <<>> => Truthful(Latest(j), commits[j], effect[j])
    /\ phase = "down" => ~Registered(j)
    /\ phase # "down" /\ ~poisoned /\ journal[j] # <<>> => job[j] = Latest(j)
    /\ pc[j] \notin {"none", "done"} => phase = "open" /\ Registered(j)
    /\ pc[j] \in Committing => job[j] = Latest(j) /\ job[j].reserved
    /\ pc[j] \notin {"effective", "ineffective", "done"} => commits[j] = 0
    /\ pc[j] = "effective" => effect[j]
    /\ Registered(j) /\ job[j].reserved => pc[j] \in Committing \cup {"done"}
    /\ phase # "open" => pc[j] = IF journal[j] = <<>> THEN "none" ELSE "done"

\* The jobs a shutdown still has to end are registered.
DrainSound ==
    /\ \A j \in drain.todo : Registered(j)
    /\ drain.at # None => drain.at \in drain.todo

JobsInv ==
    /\ TypeOK
    /\ phase # "open" => ~poisoned
    /\ \A j \in Jobs : JobSound(j)
    /\ DrainSound

-----------------------------------------------------------------------------
(* One write. *)

\* What append_then_replace may leave of job j, and where its caller goes on.
WriteOutcome(j, s, ok, err) ==
    /\ \A i \in Jobs : i # j => job'[i] = job[i] /\ journal'[i] = journal[i] /\ pc'[i] = pc[i]
    /\ \/ /\ ~poisoned /\ ~poisoned'
          /\ job'[j] = s /\ journal'[j] = Append(journal[j], s) /\ pc'[j] = ok
       \/ /\ poisoned'
          /\ job'[j] = job[j] /\ pc'[j] = err
          /\ \/ journal'[j] = journal[j]
             \/ ~poisoned /\ journal'[j] = Append(journal[j], s)

\* The type of what a write may change.
WriteTypes ==
    /\ job \in [Jobs -> Snapshots \cup {None}]
    /\ journal \in [Jobs -> Seq(Snapshots)]
    /\ torn \in BOOLEAN /\ poisoned \in BOOLEAN
    /\ pc \in [Jobs -> PcValues]
    /\ faults \in 0..MaxFaults

\* The record just appended is the last one.
LEMMA LatestAppended ==
    ASSUME NEW j \in Jobs, journal[j] \in Seq(Snapshots), NEW s \in Snapshots,
           journal'[j] = Append(journal[j], s)
    PROVE  journal'[j] # <<>> /\ Latest(j)' = s
<1>1. \A q \in Seq(Snapshots) :
         /\ Append(q, s) \in Seq(Snapshots) /\ Len(Append(q, s)) = Len(q) + 1 /\ Len(q) \in Nat
         /\ Append(q, s)[Len(q) + 1] = s
  OBVIOUS
<1>2. /\ Len(journal'[j]) = Len(journal[j]) + 1 /\ Len(journal[j]) \in Nat
      /\ journal'[j][Len(journal[j]) + 1] = s
  BY <1>1
<1> QED
  BY <1>2 DEF Latest

\* append_then_replace.
LEMMA PersistWrites ==
    ASSUME JobsInv, NEW j \in Jobs, NEW s \in Snapshots, NEW ok \in PcValues,
           NEW err \in PcValues, Persist(j, s, ok, err)
    PROVE  WriteTypes' /\ WriteOutcome(j, s, ok, err)
<1>1. /\ job \in [Jobs -> Snapshots \cup {None}] /\ journal \in [Jobs -> Seq(Snapshots)]
      /\ torn \in BOOLEAN /\ poisoned \in BOOLEAN /\ pc \in [Jobs -> PcValues]
      /\ faults \in 0..MaxFaults /\ MaxFaults \in Nat
  BY MaxFaultsAssumption DEF JobsInv, TypeOK
<1>2. Append(journal[j], s) \in Seq(Snapshots)
  BY <1>1
<1>3. CASE Written(j, s) /\ pc' = [pc EXCEPT ![j] = ok]
  BY <1>1, <1>2, <1>3 DEF Written, WriteTypes, WriteOutcome
<1>4. CASE WriteFails(j, s) /\ pc' = [pc EXCEPT ![j] = err]
  <2>1. /\ ~poisoned /\ poisoned' = TRUE /\ job' = job
        /\ journal' = journal \/ journal' = [journal EXCEPT ![j] = Append(journal[j], s)]
        /\ torn' \in BOOLEAN
        /\ faults < MaxFaults /\ faults' = faults + 1
    BY <1>1, <1>4 DEF WriteFails
  <2>2. pc' = [pc EXCEPT ![j] = err] /\ journal' \in [Jobs -> Seq(Snapshots)]
    BY <1>1, <1>2, <1>4, <2>1
  <2>3. faults' \in 0..MaxFaults
    BY <1>1, <2>1
  <2>4. WriteTypes'
    BY <1>1, <2>1, <2>2, <2>3 DEF WriteTypes
  <2>5. WriteOutcome(j, s, ok, err)
    BY <1>1, <2>1, <2>2 DEF WriteOutcome
  <2> QED
    BY <2>4, <2>5
<1>5. CASE WriteRefused /\ pc' = [pc EXCEPT ![j] = err]
  BY <1>1, <1>2, <1>5 DEF WriteRefused, WriteTypes, WriteOutcome
<1> QED
  BY <1>3, <1>4, <1>5 DEF Persist

\* A write of a truthful snapshot keeps the job sound.  A caller goes past the
\* reservation only by writing it.
LEMMA WriteKeeps ==
    ASSUME JobsInv, WriteTypes', NEW j \in Jobs, NEW s \in Snapshots,
           NEW ok \in PcValues, NEW err \in PcValues,
           WriteOutcome(j, s, ok, err),
           UNCHANGED <<phase, commits, effect>>, phase # "down",
           Registered(j) \/ (pc[j] = "none" /\ ~poisoned),
           phase = "open" \/ (ok = "done" /\ err = "done"),
           phase = "open" \/ ~poisoned',
           ~poisoned => Truthful(s, commits[j], effect[j]),
           ok \in Committing => ok = "committing" /\ s.reserved,
           ~poisoned /\ s.reserved => ok = "committing",
           Registered(j) /\ job[j].reserved => err = "done",
           err \notin Committing,
           ok # "done" \/ err # "done" => commits[j] = 0,
           err # "none" => err = "done" \/ Registered(j)
    PROVE  \A i \in Jobs : JobSound(i)' /\ (Registered(i) => Registered(i)')
<1>1. /\ \A i \in Jobs : JobSound(i)
      /\ journal \in [Jobs -> Seq(Snapshots)] /\ commits \in [Jobs -> Nat]
      /\ job \in [Jobs -> Snapshots \cup {None}] /\ pc \in [Jobs -> PcValues]
  BY DEF JobsInv, TypeOK
<1>2. ASSUME NEW i \in Jobs, i # j
      PROVE  JobSound(i)' /\ (Registered(i) => Registered(i)')
  <2>1. /\ job'[i] = job[i] /\ journal'[i] = journal[i] /\ pc'[i] = pc[i]
        /\ ~poisoned' => ~poisoned
    BY <1>2 DEF WriteOutcome
  <2>2. Latest(i)' = Latest(i)
    BY <2>1 DEF Latest
  <2> QED
    BY <1>1, <2>1, <2>2 DEF JobSound, Registered
<1>3. JobSound(j)' /\ (Registered(j) => Registered(j)')
  <2>1. s # None /\ (Registered(j) => journal[j] # <<>>)
    BY <1>1, NoSnapshotAssumption DEF JobSound
  <2>2. CASE /\ ~poisoned /\ ~poisoned'
             /\ job'[j] = s /\ journal'[j] = Append(journal[j], s) /\ pc'[j] = ok
    <3>1. journal'[j] # <<>> /\ Latest(j)' = s
      BY <1>1, <2>2, LatestAppended DEF Latest
    <3>2. ok = "effective" => FALSE
      BY DEF Committing
    <3> QED
      BY <1>1, <2>1, <2>2, <3>1, <3>2 DEF JobSound, Registered, Committing
  <2>3. CASE /\ poisoned'
             /\ job'[j] = job[j] /\ pc'[j] = err
             /\ \/ journal'[j] = journal[j]
                \/ ~poisoned /\ journal'[j] = Append(journal[j], s)
    <3>1. CASE journal'[j] = journal[j]
      <4>1. Latest(j)' = Latest(j)
        BY <3>1 DEF Latest
      <4> QED
        BY <1>1, <2>1, <2>3, <3>1, <4>1 DEF JobSound, Registered, Committing
    <3>2. CASE ~poisoned /\ journal'[j] = Append(journal[j], s)
      <4>1. journal'[j] # <<>> /\ Latest(j)' = s
        BY <1>1, <3>2, LatestAppended DEF Latest
      <4> QED
        BY <1>1, <2>1, <2>3, <3>2, <4>1 DEF JobSound, Registered, Committing
    <3> QED
      BY <2>3, <3>1, <3>2
  <2> QED
    BY <2>2, <2>3 DEF WriteOutcome
<1> QED
  BY <1>2, <1>3

\* The same for a whole step of an open registry.
LEMMA PersistKeeps ==
    ASSUME JobsInv, NEW j \in Jobs, NEW s \in Snapshots,
           NEW ok \in PcValues, NEW err \in PcValues,
           Persist(j, s, ok, err),
           UNCHANGED <<accepting, phase, drain, commits, effect, crashes>>,
           key' \in [Jobs -> Keys \cup {None}],
           phase = "open",
           Registered(j) \/ (pc[j] = "none" /\ ~poisoned),
           ~poisoned => Truthful(s, commits[j], effect[j]),
           ok \in Committing => ok = "committing" /\ s.reserved,
           ~poisoned /\ s.reserved => ok = "committing",
           Registered(j) /\ job[j].reserved => err = "done",
           err \notin Committing,
           ok # "done" \/ err # "done" => commits[j] = 0,
           err # "none" => err = "done" \/ Registered(j)
    PROVE  JobsInv'
<1>1. WriteTypes' /\ WriteOutcome(j, s, ok, err)
  BY PersistWrites
<1>2. \A i \in Jobs : JobSound(i)' /\ (Registered(i) => Registered(i)')
  BY <1>1, WriteKeeps
<1>3. TypeOK'
  BY <1>1 DEF JobsInv, TypeOK, WriteTypes
<1>4. DrainSound'
  BY <1>2 DEF JobsInv, DrainSound, TypeOK
<1> QED
  BY <1>2, <1>3, <1>4 DEF JobsInv

\* The caller of j goes on without a write.
LEMMA NoWriteKeeps ==
    ASSUME JobsInv, NEW j \in Jobs, NEW to \in PcValues, NoWrite(j, to),
           UNCHANGED <<key, accepting, phase, drain, commits, effect, crashes>>,
           phase = "open",
           to \notin Committing,
           to # "done" => commits[j] = 0 /\ Registered(j) /\ ~job[j].reserved
    PROVE  JobsInv'
<1>1. /\ \A i \in Jobs : JobSound(i)
      /\ pc \in [Jobs -> PcValues] /\ pc' = [pc EXCEPT ![j] = to]
      /\ UNCHANGED <<job, journal, torn, poisoned, faults>>
  BY DEF JobsInv, TypeOK, NoWrite
<1>2. TypeOK' /\ DrainSound'
  BY <1>1 DEF JobsInv, TypeOK, DrainSound, Registered
<1>3. ASSUME NEW i \in Jobs PROVE JobSound(i)'
  <2>1. Latest(i)' = Latest(i) /\ JobSound(i)
    BY <1>1 DEF Latest
  <2>2. pc'[i] = IF i = j THEN to ELSE pc[i]
    BY <1>1
  <2>3. CASE i = j
    BY <1>1, <2>1, <2>2, <2>3 DEF JobSound, Registered, Committing
  <2>4. CASE i # j
    BY <1>1, <2>1, <2>2, <2>4 DEF JobSound, Registered
  <2> QED
    BY <2>3, <2>4
<1> QED
  BY <1>1, <1>2, <1>3 DEF JobsInv

\* Memory tells the truth unless the registry is poisoned.
LEMMA InMemory ==
    ASSUME JobsInv, NEW j \in Jobs, Registered(j)
    PROVE  /\ job[j] \in Snapshots
           /\ phase # "down"
           /\ ~poisoned => job[j] = Latest(j) /\ Truthful(job[j], commits[j], effect[j])
BY DEF JobsInv, TypeOK, JobSound, Registered

\* What transition builds is a snapshot, and as truthful as its code.
LEMMA MovedSnapshot ==
    ASSUME NEW s \in Snapshots, NEW st \in States, NEW late \in BOOLEAN, NEW code \in Codes
    PROVE  /\ Moved(s, st, late, code) \in Snapshots
           /\ Moved(s, st, late, code).st = st
           /\ Moved(s, st, late, code).code = code
           /\ Moved(s, st, late, code).reserved <=> s.reserved /\ st \notin Terminal
<1>1. s.rev + 1 \in Nat /\ s.late \in BOOLEAN /\ s.reserved \in BOOLEAN
  BY DEF Snapshots
<1>2. (s.late \/ late) \in BOOLEAN /\ (s.reserved /\ st \notin Terminal) \in BOOLEAN
  BY <1>1, Zenon
<1> QED
  BY <1>1, <1>2 DEF Moved, Snapshots

\* The reservation changes nothing else.
LEMMA ReservedSnapshot ==
    ASSUME NEW s \in Snapshots, NEW r, r = [s EXCEPT !.rev = s.rev + 1, !.reserved = TRUE]
    PROVE  /\ r \in Snapshots
           /\ r.st = s.st /\ r.reserved /\ r.code = s.code /\ r.late = s.late
           /\ r.rev = s.rev + 1
<1>1. s.rev + 1 \in Nat
  BY DEF Snapshots
<1>2. r.st = s.st /\ r.reserved = TRUE /\ r.code = s.code /\ r.late = s.late /\ r.rev = s.rev + 1
  BY DEF Snapshots
<1>3. r \in Snapshots
  BY <1>1 DEF Snapshots
<1> QED
  BY <1>2, <1>3

\* A job that is not past its reservation is moved to a state that is no success.
LEMMA MovedKeeps ==
    ASSUME JobsInv, phase = "open", NEW j \in Jobs, Registered(j),
           NEW st \in States, NEW late \in BOOLEAN, NEW code \in Codes,
           NEW ok \in PcValues \ Committing, NEW err \in PcValues \ Committing,
           Persist(j, Moved(job[j], st, late, code), ok, err),
           st # "Succeeded",
           code # "none" => st \in Terminal,
           ~poisoned => ~job[j].reserved \/ st \in Terminal,
           job[j].reserved => err = "done",
           ~poisoned => commits[j] = 0 \/ code \in CommitCodes,
           ok # "done" \/ err # "done" => commits[j] = 0,
           UNCHANGED <<key, accepting, phase, drain, commits, effect, crashes>>
    PROVE  JobsInv'
<1>1. job[j] \in Snapshots
  BY InMemory
<1>2. PICK s \in Snapshots :
         /\ s = Moved(job[j], st, late, code)
         /\ s.st = st /\ s.code = code /\ (s.reserved <=> job[j].reserved /\ st \notin Terminal)
  BY <1>1, MovedSnapshot
<1>3. ~poisoned => Truthful(s, commits[j], effect[j])
  BY <1>2 DEF Truthful, JobsInv, TypeOK
<1>4. key' \in [Jobs -> Keys \cup {None}]
  BY DEF JobsInv, TypeOK
<1> QED
  BY <1>2, <1>3, <1>4, PersistKeeps

-----------------------------------------------------------------------------
(* The invariant, action by action. *)

\* A controller is where JobSound says.
LEMMA AtWork ==
    ASSUME JobsInv, NEW j \in Jobs, pc[j] \notin {"none", "done"}
    PROVE  /\ Registered(j) /\ phase = "open"
           /\ pc[j] \notin {"effective", "ineffective"} => commits[j] = 0
           /\ pc[j] \notin Committing => ~job[j].reserved
BY DEF JobsInv, JobSound

\* submit_prepared up to the PENDING record.
LEMMA RegisterKeeps ==
    ASSUME JobsInv, NEW j \in Jobs, NEW k \in Keys, RegisterPending(j, k)
    PROVE  JobsInv'
<1>1. /\ phase = "open" /\ ~poisoned /\ pc[j] = "none"
      /\ Persist(j, RegisteredSnapshot, "registered", "none")
      /\ UNCHANGED <<accepting, phase, drain, commits, effect, crashes>>
  BY DEF RegisterPending, Serving
<1>2. key' \in [Jobs -> Keys \cup {None}]
  BY DEF RegisterPending, JobsInv, TypeOK
<1>3. commits[j] = 0
  BY <1>1 DEF JobsInv, JobSound
<1>4. PICK s \in Snapshots : s = RegisteredSnapshot
  BY DEF RegisteredSnapshot, Snapshots, States, Codes
<1>5. Truthful(s, commits[j], effect[j]) /\ ~s.reserved
  BY <1>3, <1>4 DEF Truthful, RegisteredSnapshot
<1>6. ~Registered(j)
  BY DEF RegisterPending
<1> QED
  BY <1>6, <1>1, <1>2, <1>3, <1>4, <1>5, PersistKeeps DEF PcValues, Committing

\* submit_prepared from there on.
LEMMA SubmitKeeps ==
    ASSUME JobsInv, NEW j \in Jobs, StartRunning(j) \/ SpawnWorker(j) \/ SpawnFails(j)
    PROVE  JobsInv'
<1>0. UNCHANGED <<key, accepting, phase, drain, commits, effect, crashes>>
  BY DEF StartRunning, SpawnWorker, SpawnFails
<1>1. CASE StartRunning(j)
  <2>1. Registered(j) /\ phase = "open" /\ commits[j] = 0 /\ ~job[j].reserved
    BY <1>1, AtWork DEF StartRunning, Committing
  <2>2. CASE MayTransition(job[j], "Running")
    BY <1>0, <1>1, <2>1, <2>2, MovedKeeps
       DEF StartRunning, States, Codes, PcValues, Committing
  <2>3. CASE ~MayTransition(job[j], "Running")
    BY <1>0, <1>1, <2>1, <2>3, NoWriteKeeps DEF StartRunning, PcValues, Committing
  <2> QED
    BY <2>2, <2>3
<1>2. CASE SpawnWorker(j)
  <2>1. Registered(j) /\ phase = "open" /\ commits[j] = 0 /\ ~job[j].reserved
    BY <1>2, AtWork DEF SpawnWorker, Committing
  <2>2. NoWrite(j, "preparing")
    BY <1>2 DEF SpawnWorker, NoWrite
  <2> QED
    BY <1>0, <2>1, <2>2, NoWriteKeeps DEF PcValues, Committing
<1>3. CASE SpawnFails(j)
  <2>1. Registered(j) /\ phase = "open" /\ commits[j] = 0 /\ ~job[j].reserved
    BY <1>3, AtWork DEF SpawnFails, Committing
  <2>2. CASE MayTransition(job[j], "Failed")
    BY <1>0, <1>3, <2>1, <2>2, MovedKeeps
       DEF SpawnFails, States, Terminal, Codes, PcValues, Committing
  <2>3. CASE ~MayTransition(job[j], "Failed")
    BY <1>0, <1>3, <2>1, <2>3, NoWriteKeeps DEF SpawnFails, PcValues, Committing
  <2> QED
    BY <2>2, <2>3
<1> QED
  BY <1>1, <1>2, <1>3

\* A job that may still be cancelled has not had its commit invoked.
LEMMA CancelledInTime ==
    ASSUME JobsInv, NEW j \in Jobs, Active(j), ~job[j].reserved
    PROVE  /\ ~poisoned => commits[j] = 0
           /\ pc[j] \notin Committing
<1>1. Registered(j) /\ job[j].st \notin Terminal
  BY DEF Active
<1>2. pc[j] \notin Committing
  BY DEF JobsInv, JobSound
<1>3. ASSUME ~poisoned PROVE commits[j] = 0
  <2>1. Truthful(job[j], commits[j], effect[j]) /\ commits[j] \in Nat
    BY <1>1, <1>3, InMemory DEF JobsInv, TypeOK
  <2> QED
    BY <1>1, <2>1 DEF Truthful, CommitCodes
<1> QED
  BY <1>2, <1>3

\* request_cancel, by a caller or at the deadline.
LEMMA CancelKeeps ==
    ASSUME JobsInv, NEW j \in Jobs, RequestCancel(j) \/ DeadlineReached(j)
    PROVE  JobsInv'
<1>0. UNCHANGED <<key, accepting, phase, drain, commits, effect, crashes>> /\ phase = "open"
  BY DEF RequestCancel, DeadlineReached, Serving
<1>1. ASSUME RequestCancel(j), ~poisoned PROVE JobsInv'
  <2>1. Active(j) /\ Registered(j) /\ ~job[j].reserved
    BY <1>1 DEF RequestCancel, CancelWrites, Active
  <2>2. commits[j] = 0 /\ pc[j] \in PcValues \ Committing
    BY <1>1, <2>1, CancelledInTime DEF JobsInv, TypeOK
  <2>3. PICK q \in PcValues \ Committing : q = pc[j]
    BY <2>2
  <2>4. Persist(j, Moved(job[j], "Cancelling", FALSE, "none"), q, q)
    BY <1>1, <2>3 DEF RequestCancel, Cancelled
  <2> QED
    BY <1>0, <2>1, <2>2, <2>4, MovedKeeps DEF States, Codes
<1>2. ASSUME RequestCancel(j), poisoned PROVE UNCHANGED vars
  <2>1. WriteRefused /\ pc' = [pc EXCEPT ![j] = pc[j]]
    BY <1>2 DEF RequestCancel, Persist, Written, WriteFails
  <2> QED
    BY <1>0, <2>1 DEF WriteRefused, vars, JobsInv, TypeOK
<1>3. CASE DeadlineReached(j)
  <2>1. Registered(j) /\ commits[j] = 0 /\ pc[j] \notin Committing /\ ~job[j].reserved
    BY <1>3, AtWork DEF DeadlineReached, Committing
  <2>2. CASE Active(j) /\ CancelWrites(job[j], TRUE)
    <3>1. Persist(j, Moved(job[j], "Cancelling", TRUE, "none"), "overdue", "overdue")
      BY <1>3, <2>2 DEF DeadlineReached, Cancelled
    <3> QED
      BY <1>0, <2>1, <2>2, <3>1, MovedKeeps
         DEF CancelWrites, States, Codes, PcValues, Committing
  <2>3. CASE ~(Active(j) /\ CancelWrites(job[j], TRUE))
    BY <1>0, <1>3, <2>1, <2>3, NoWriteKeeps DEF DeadlineReached, PcValues, Committing
  <2> QED
    BY <2>2, <2>3
<1>4. UNCHANGED vars => JobsInv'
  BY DEF vars, JobsInv, TypeOK, JobSound, DrainSound, Registered, Latest
<1> QED
  BY <1>1, <1>2, <1>3, <1>4

\* The controller up to the end of a job that is not committed.
LEMMA FinishKeeps ==
    ASSUME JobsInv, NEW j \in Jobs,
           \/ PrepareReturns(j) \/ FinishPanicked(j) \/ DiscardLate(j) \/ Discard(j)
           \/ PreparationFailed(j)
    PROVE  JobsInv'
<1>0. UNCHANGED <<key, accepting, phase, drain, commits, effect, crashes>>
  BY DEF PrepareReturns, FinishPanicked, DiscardLate, Discard, PreparationFailed
<1>1. pc[j] \in {"preparing", "overdue", "panicked", "prepared", "failed", "discarding"}
  BY DEF PrepareReturns, FinishPanicked, DiscardLate, Discard, PreparationFailed
<1>2. Registered(j) /\ phase = "open" /\ commits[j] = 0 /\ ~job[j].reserved
  BY <1>1, AtWork DEF Committing
<1> USE DEF States, Terminal, Codes, PcValues, Committing
<1>3. CASE PrepareReturns(j)
  <2>1. PICK result \in {"prepared", "failed", "panicked"} : pc' = [pc EXCEPT ![j] = result]
    BY <1>3 DEF PrepareReturns
  <2>2. NoWrite(j, result)
    BY <1>3, <2>1 DEF PrepareReturns, NoWrite
  <2> QED
    BY <1>0, <1>2, <2>2, NoWriteKeeps
<1>4. CASE FinishPanicked(j)
  <2>1. PICK late \in BOOLEAN :
          IF MayTransition(job[j], "Failed")
          THEN Persist(j, Moved(job[j], "Failed", late, "worker_panicked"), "done", "done")
          ELSE NoWrite(j, "done")
    BY <1>4 DEF FinishPanicked
  <2>2. CASE MayTransition(job[j], "Failed")
    BY <1>0, <1>2, <2>1, <2>2, MovedKeeps
  <2>3. CASE ~MayTransition(job[j], "Failed")
    BY <1>0, <1>2, <2>1, <2>3, NoWriteKeeps
  <2> QED
    BY <2>2, <2>3
<1>5. CASE DiscardLate(j)
  <2>1. Persist(j, Moved(job[j], "Cancelling", TRUE, "none"), "discarding", "done")
    BY <1>5 DEF DiscardLate, Cancelled
  <2> QED
    BY <1>0, <1>2, <2>1, MovedKeeps
<1>6. CASE Discard(j)
  <2>1. PICK late \in BOOLEAN :
          IF job[j].st = "Cancelling" \/ late
          THEN Persist(j, Moved(job[j], "Cancelled", FALSE, "cancelled"), "done", "done")
          ELSE NoWrite(j, "done")
    BY <1>6 DEF Discard
  <2>2. CASE job[j].st = "Cancelling" \/ late
    BY <1>0, <1>2, <2>1, <2>2, MovedKeeps
  <2>3. CASE ~(job[j].st = "Cancelling" \/ late)
    BY <1>0, <1>2, <2>1, <2>3, NoWriteKeeps
  <2> QED
    BY <2>2, <2>3
<1>7. CASE PreparationFailed(j)
  <2>1. PICK code \in {"preparation_failed", "unfit_preparation_failed"} :
          Persist(j, Moved(job[j], "Failed", FALSE, code), "done", "done")
    BY <1>7 DEF PreparationFailed, Chosen
  <2>2. code \in Codes /\ code # "none"
    BY DEF Codes, UnfitCodes
  <2> QED
    BY <1>0, <1>2, <2>1, <2>2, MovedKeeps
<1> QED
  BY <1>3, <1>4, <1>5, <1>6, <1>7

\* The reservation, the commit and its outcome.
LEMMA CommitKeeps ==
    ASSUME JobsInv, NEW j \in Jobs, ReserveCommit(j) \/ CommitRuns(j) \/ RecordOutcome(j)
    PROVE  JobsInv'
<1>0. UNCHANGED <<key, accepting, phase, drain, crashes>>
      /\ key' \in [Jobs -> Keys \cup {None}]
  BY DEF ReserveCommit, CommitRuns, RecordOutcome, JobsInv, TypeOK
<1>1. CASE ReserveCommit(j)
  <2>1. Registered(j) /\ phase = "open" /\ commits[j] = 0 /\ ~job[j].reserved
    BY <1>1, AtWork DEF ReserveCommit, Committing
  <2>2. job[j] \in Snapshots /\ job[j].st = "Running"
    BY <1>1, <2>1, InMemory DEF ReserveCommit
  <2>3. PICK s \in Snapshots :
          /\ s = [job[j] EXCEPT !.rev = job[j].rev + 1, !.reserved = TRUE]
          /\ s.st = "Running" /\ s.reserved /\ s.code = job[j].code
    <3>1. PICK x \in Snapshots : x = job[j]
      BY <2>2
    <3>2. PICK y : y = [x EXCEPT !.rev = x.rev + 1, !.reserved = TRUE]
      OBVIOUS
    <3>3. y \in Snapshots /\ y.st = x.st /\ y.reserved /\ y.code = x.code
      BY <3>2, ReservedSnapshot
    <3> QED
      BY <2>2, <3>1, <3>2, <3>3
  <2>4. ~poisoned => Truthful(s, commits[j], effect[j])
    BY <2>1, <2>2, <2>3, InMemory DEF Truthful, Terminal
  <2>5. Persist(j, s, "committing", "done")
    BY <1>1, <2>3 DEF ReserveCommit
  <2>6. UNCHANGED <<commits, effect>>
    BY <1>1 DEF ReserveCommit
  <2> QED
    BY <1>0, <2>1, <2>3, <2>4, <2>5, <2>6, PersistKeeps DEF PcValues, Committing
<1>2. CASE CommitRuns(j)
  <2>1. PICK done \in BOOLEAN :
          /\ effect' = [effect EXCEPT ![j] = effect[j] \/ done]
          /\ pc' = [pc EXCEPT ![j] = IF done THEN "effective" ELSE "ineffective"]
    BY <1>2 DEF CommitRuns
  <2>2. /\ commits' = [commits EXCEPT ![j] = commits[j] + 1]
        /\ UNCHANGED <<job, journal, torn, poisoned, faults>>
        /\ pc[j] = "committing"
    BY <1>2 DEF CommitRuns
  <2>3. /\ Registered(j) /\ phase = "open" /\ commits[j] = 0
        /\ job[j] = Latest(j) /\ job[j].reserved /\ journal[j] # <<>>
    BY <2>2 DEF JobsInv, JobSound, Committing
  <2>4. /\ commits \in [Jobs -> Nat] /\ effect \in [Jobs -> BOOLEAN] /\ pc \in [Jobs -> PcValues]
        /\ \A i \in Jobs : JobSound(i)
    BY DEF JobsInv, TypeOK
  <2>5. /\ commits'[j] = 1 /\ (effect'[j] <=> effect[j] \/ done)
        /\ pc'[j] = IF done THEN "effective" ELSE "ineffective"
        /\ \A i \in Jobs : i # j => /\ commits'[i] = commits[i] /\ effect'[i] = effect[i]
                                    /\ pc'[i] = pc[i]
    BY <2>1, <2>2, <2>3, <2>4
  <2>6. effect' \in [Jobs -> BOOLEAN]
    <3>1. (effect[j] \/ done) \in BOOLEAN
      BY <2>4, Zenon
    <3> QED
      BY <2>1, <2>4, <3>1
  <2>7. TypeOK' /\ DrainSound'
    BY <1>0, <2>1, <2>2, <2>4, <2>6
       DEF JobsInv, TypeOK, DrainSound, Registered, PcValues
  <2>8. ASSUME NEW i \in Jobs, i # j PROVE JobSound(i)'
    <3>1. Latest(i)' = Latest(i) /\ (Registered(i)' <=> Registered(i))
      BY <2>2 DEF Latest, Registered
    <3> QED
      BY <1>0, <2>2, <2>4, <2>5, <2>8, <3>1 DEF JobSound
  <2>9. JobSound(j)'
    <3>1. Latest(j)' = Latest(j) /\ (Registered(j)' <=> Registered(j))
      BY <2>2 DEF Latest, Registered
    <3>2. Truthful(Latest(j), commits'[j], effect'[j])
      BY <2>3, <2>4, <2>5 DEF JobSound, Truthful
    <3> QED
      BY <1>0, <2>2, <2>3, <2>4, <2>5, <3>1, <3>2 DEF JobSound, Committing
  <2> QED
    BY <1>0, <2>2, <2>7, <2>8, <2>9 DEF JobsInv
<1>3. CASE RecordOutcome(j)
  <2>1. /\ Registered(j) /\ phase = "open" /\ pc[j] \in {"effective", "ineffective"}
        /\ UNCHANGED <<commits, effect>>
    BY <1>3, AtWork DEF RecordOutcome
  <2>0. /\ {"committed", "unfit_committed", "commit_failed", "unfit_commit_failed"}
              \subseteq Codes \cap CommitCodes
        /\ "Failed" \in States /\ "Failed" \in Terminal
        /\ "Succeeded" \in States /\ "Succeeded" \in Terminal
        /\ "done" \in PcValues /\ "done" \notin Committing
    BY DEF Codes, UnfitCodes, CommitCodes, States, Terminal, PcValues, Committing
  <2>2. PICK late \in BOOLEAN, code \in Codes \cap CommitCodes :
          \/ /\ pc[j] = "effective"
             /\ Persist(j, Moved(job[j], "Succeeded", late, code), "done", "done")
          \/ Persist(j, Moved(job[j], "Failed", late, code), "done", "done")
    BY <1>3, <2>0 DEF RecordOutcome, Chosen
  <2>3. CASE Persist(j, Moved(job[j], "Failed", late, code), "done", "done")
    BY <1>0, <2>0, <2>1, <2>3, MovedKeeps
  <2>4. CASE /\ pc[j] = "effective"
             /\ Persist(j, Moved(job[j], "Succeeded", late, code), "done", "done")
    <3>0. effect[j]
      BY <2>4 DEF JobsInv, JobSound
    <3>1. job[j] \in Snapshots
      BY <2>1, InMemory
    <3>2. PICK s \in Snapshots :
            /\ s = Moved(job[j], "Succeeded", late, code)
            /\ s.st = "Succeeded" /\ s.code = code /\ ~s.reserved
      BY <2>0, <3>1, MovedSnapshot
    <3>3. Truthful(s, commits[j], effect[j])
      BY <2>0, <3>0, <3>2 DEF Truthful
    <3> QED
      BY <1>0, <2>0, <2>1, <2>4, <3>2, <3>3, PersistKeeps
  <2> QED
    BY <2>2, <2>3, <2>4
<1> QED
  BY <1>1, <1>2, <1>3

\* A write of shutdown, or of open, next to a controller that stays where it is.
LEMMA WriteBeside ==
    ASSUME JobsInv, NEW j \in Jobs, NEW s \in Snapshots,
           Written(j, s) \/ WriteFails(j, s) \/ WriteRefused, UNCHANGED pc
    PROVE  WriteTypes' /\ WriteOutcome(j, s, pc[j], pc[j])
<1>1. pc[j] \in PcValues /\ pc' = [pc EXCEPT ![j] = pc[j]]
  BY DEF JobsInv, TypeOK
<1>2. PICK q \in PcValues : q = pc[j]
  BY <1>1
<1>3. Persist(j, s, q, q)
  BY <1>1, <1>2 DEF Persist
<1> QED
  BY <1>2, <1>3, PersistWrites

\* close_admission and the steps of shutdown that write nothing.
LEMMA ShutdownKeeps ==
    ASSUME JobsInv, CloseAdmission \/ ShutdownBegins \/ ShutdownReturns
                    \/ (\E j \in Jobs : ShutdownReads(j) \/ ShutdownSkips(j))
    PROVE  JobsInv'
<1>1. /\ UNCHANGED <<job, journal, key, torn, poisoned, phase, pc, commits, effect, faults,
                     crashes>>
      /\ accepting' \in BOOLEAN
  BY DEF CloseAdmission, ShutdownBegins, ShutdownReturns, ShutdownReads, ShutdownSkips,
         JobsInv, TypeOK
<1>2. \A i \in Jobs : JobSound(i)' /\ (Registered(i)' <=> Registered(i))
  BY <1>1 DEF JobsInv, JobSound, Registered, Latest
<1>3. /\ drain' \in [todo : SUBSET Jobs, at : Jobs \cup {None}, pending : BOOLEAN, on : BOOLEAN]
      /\ \A j \in drain'.todo : Registered(j)
      /\ drain'.at # None => drain'.at \in drain'.todo
  <2>0. /\ drain \in [todo : SUBSET Jobs, at : Jobs \cup {None}, pending : BOOLEAN, on : BOOLEAN]
        /\ \A j \in drain.todo : Registered(j)
        /\ drain.at # None => drain.at \in drain.todo
    BY DEF JobsInv, TypeOK, DrainSound
  <2>1. CASE CloseAdmission
    BY <2>0, <2>1 DEF CloseAdmission
  <2>2. CASE ShutdownBegins
    BY <2>2 DEF ShutdownBegins, Active
  <2>3. CASE drain' = NoDrain
    BY <2>3 DEF NoDrain
  <2>4. ASSUME NEW j \in Jobs, DrainOn(j)
        PROVE  /\ drain' \in [todo : SUBSET Jobs, at : Jobs \cup {None}, pending : BOOLEAN,
                              on : BOOLEAN]
               /\ \A i \in drain'.todo : Registered(i)
               /\ drain'.at # None => drain'.at \in drain'.todo
    BY <2>0, <2>4 DEF DrainOn
  <2>5. ASSUME NEW j \in Jobs, ShutdownReads(j)
        PROVE  /\ drain' \in [todo : SUBSET Jobs, at : Jobs \cup {None}, pending : BOOLEAN,
                              on : BOOLEAN]
               /\ \A i \in drain'.todo : Registered(i)
               /\ drain'.at # None => drain'.at \in drain'.todo
    <3>1. PICK b \in BOOLEAN : b = (job[j].st = "Pending")
      BY Zenon
    <3>2. drain' = [drain EXCEPT !.at = j, !.pending = b] /\ j \in drain.todo
      BY <2>5, <3>1 DEF ShutdownReads
    <3> QED
      BY <2>0, <3>2
  <2>6. ASSUME NEW j \in Jobs, ShutdownSkips(j) PROVE drain' = NoDrain \/ DrainOn(j)
    BY <2>6 DEF ShutdownSkips
  <2> QED
    BY <2>1, <2>2, <2>3, <2>4, <2>5, <2>6 DEF ShutdownReturns
<1>4. TypeOK' /\ DrainSound'
  <2>1. drain'.todo \subseteq Jobs
    BY <1>3
  <2> QED
    BY <1>1, <1>2, <1>3, <2>1 DEF JobsInv, TypeOK, DrainSound
<1> QED
  BY <1>1, <1>2, <1>4 DEF JobsInv

\* The step of shutdown that cancels a job.
LEMMA ShutdownWriteKeeps ==
    ASSUME JobsInv, NEW j \in Jobs, ShutdownWrites(j)
    PROVE  JobsInv'
<1>1. /\ UNCHANGED <<key, accepting, phase, pc, commits, effect, crashes>>
      /\ phase = "open" /\ drain.at = j
  BY DEF ShutdownWrites, Serving
<1>2. Registered(j) /\ job[j] \in Snapshots
  BY <1>1, InMemory, NoneAssumption DEF JobsInv, DrainSound
<1>3. Active(j) /\ ~job[j].reserved
  <2>1. CASE drain.pending
    BY <1>2, <2>1 DEF ShutdownWrites, MayTransition, ValidTransition, Active, Terminal
  <2>2. CASE ~drain.pending
    BY <2>2 DEF ShutdownWrites, CancelWrites
  <2> QED
    BY <2>1, <2>2
<1>4. /\ ~poisoned => commits[j] = 0
      /\ pc[j] \notin Committing /\ pc[j] \in PcValues
      /\ pc[j] # "done" => commits[j] = 0
  BY <1>3, CancelledInTime DEF JobsInv, TypeOK, JobSound, Committing
<1>5. PICK s \in Snapshots :
        /\ (Written(j, s) /\ DrainOn(j)) \/ ((WriteFails(j, s) \/ WriteRefused) /\ drain' = NoDrain)
        /\ s.st \in {"Cancelled", "Cancelling"} /\ ~s.reserved
        /\ s.code # "none" => s.st \in Terminal
  <2>0. /\ "Cancelled" \in States /\ "Cancelling" \in States /\ "Cancelled" \in Terminal
        /\ "shutdown_before_start" \in Codes /\ "none" \in Codes /\ FALSE \in BOOLEAN
    BY DEF States, Terminal, Codes
  <2>1. CASE drain.pending
    <3>1. PICK s \in Snapshots : s = Moved(job[j], "Cancelled", FALSE, "shutdown_before_start")
      BY <1>2, <2>0, MovedSnapshot
    <3>2. s.st = "Cancelled" /\ ~s.reserved
      BY <1>2, <2>0, <3>1, MovedSnapshot
    <3>3. (Written(j, s) /\ DrainOn(j)) \/ ((WriteFails(j, s) \/ WriteRefused) /\ drain' = NoDrain)
      BY <2>1, <3>1, Zenon DEF ShutdownWrites
    <3> QED
      BY <2>0, <3>2, <3>3
  <2>2. CASE ~drain.pending
    <3>1. PICK s \in Snapshots : s = Moved(job[j], "Cancelling", FALSE, "none")
      BY <1>2, <2>0, MovedSnapshot
    <3>2. s.st = "Cancelling" /\ s.code = "none" /\ ~s.reserved
      BY <1>3, <3>1 DEF Moved
    <3>3. (Written(j, s) /\ DrainOn(j)) \/ ((WriteFails(j, s) \/ WriteRefused) /\ drain' = NoDrain)
      BY <2>2, <3>1, Zenon DEF ShutdownWrites, Cancelled
    <3> QED
      BY <3>2, <3>3
  <2> QED
    BY <2>1, <2>2
<1>6. WriteTypes' /\ WriteOutcome(j, s, pc[j], pc[j])
  BY <1>1, <1>5, WriteBeside
<1>7. ~poisoned => Truthful(s, commits[j], effect[j])
  BY <1>4, <1>5 DEF Truthful
<1>8. \A i \in Jobs : JobSound(i)' /\ (Registered(i) => Registered(i)')
  <2>1. PICK q \in PcValues : q = pc[j]
    BY <1>4
  <2> QED
    BY <1>1, <1>2, <1>3, <1>4, <1>5, <1>6, <1>7, <2>1, WriteKeeps
<1>9. /\ drain' \in [todo : SUBSET Jobs, at : Jobs \cup {None}, pending : BOOLEAN, on : BOOLEAN]
      /\ drain'.todo \subseteq drain.todo
      /\ drain'.at = None
  <2>1. drain \in [todo : SUBSET Jobs, at : Jobs \cup {None}, pending : BOOLEAN, on : BOOLEAN]
    BY DEF JobsInv, TypeOK
  <2>2. CASE DrainOn(j)
    BY <2>1, <2>2 DEF DrainOn
  <2>3. CASE drain' = NoDrain
    BY <2>1, <2>3 DEF NoDrain
  <2> QED
    BY <1>5, <2>2, <2>3
<1>10. TypeOK' /\ DrainSound'
  BY <1>1, <1>6, <1>8, <1>9 DEF JobsInv, TypeOK, WriteTypes, DrainSound
<1> QED
  BY <1>1, <1>8, <1>10 DEF JobsInv

\* Nothing of the memory is left; what the disk says is still true.
LEMMA StoppedKeeps ==
    ASSUME JobsInv, Stopped, UNCHANGED <<key, commits, effect>>,
           journal' \in [Jobs -> Seq(Snapshots)], torn' \in BOOLEAN,
           faults' \in 0..MaxFaults, crashes' \in 0..MaxCrashes,
           \A i \in Jobs : journal'[i] = <<>> => journal[i] = <<>>,
           \A i \in Jobs : journal'[i] # <<>> => Truthful(Latest(i)', commits[i], effect[i])
    PROVE  JobsInv'
<1>1. /\ phase' = "down" /\ poisoned' = FALSE /\ accepting' = TRUE /\ drain' = NoDrain
      /\ job' = [j \in Jobs |-> None]
      /\ pc' = [j \in Jobs |-> IF journal'[j] = <<>> THEN "none" ELSE "done"]
  BY DEF Stopped
<1>2. TypeOK'
  BY <1>1 DEF JobsInv, TypeOK, NoDrain, PcValues
<1>3. ASSUME NEW i \in Jobs PROVE JobSound(i)'
  <2>1. /\ job'[i] = None /\ pc'[i] = IF journal'[i] = <<>> THEN "none" ELSE "done"
        /\ commits[i] <= 1 /\ (journal[i] = <<>> => commits[i] = 0)
    BY <1>1 DEF JobsInv, JobSound
  <2> QED
    BY <1>1, <2>1 DEF JobSound, Registered, Committing
<1>4. DrainSound'
  BY <1>1 DEF DrainSound, NoDrain
<1> QED
  BY <1>1, <1>2, <1>3, <1>4 DEF JobsInv

\* The process dies.
LEMMA CrashKeeps ==
    ASSUME JobsInv, Crash
    PROVE  JobsInv'
<1>1. /\ Stopped /\ UNCHANGED <<journal, key, torn, commits, effect, faults>>
      /\ crashes' \in 0..MaxCrashes
  BY MaxCrashesAssumption DEF Crash, JobsInv, TypeOK
<1>2. \A i \in Jobs : journal[i] # <<>> => Truthful(Latest(i)', commits[i], effect[i])
  BY <1>1 DEF JobsInv, JobSound, Latest
<1> QED
  BY <1>1, <1>2, StoppedKeeps DEF JobsInv, TypeOK

\* open reads the last record of every job.
LEMMA OpenKeeps ==
    ASSUME JobsInv, Open
    PROVE  JobsInv'
<1>1. /\ phase = "down" /\ phase' = "recovering"
      /\ job' = [j \in Jobs |-> IF journal[j] = <<>> THEN None ELSE Latest(j)]
      /\ UNCHANGED <<journal, key, torn, poisoned, accepting, pc, drain, commits, effect,
                     faults, crashes>>
  BY DEF Open
<1>2. ASSUME NEW j \in Jobs, journal[j] # <<>> PROVE Latest(j) \in Snapshots
  <2>1. journal[j] \in Seq(Snapshots)
    BY DEF JobsInv, TypeOK
  <2>2. \A q \in Seq(Snapshots) : q # <<>> => q[Len(q)] \in Snapshots
    OBVIOUS
  <2> QED
    BY <1>2, <2>1, <2>2 DEF Latest
<1>3. TypeOK'
  BY <1>1, <1>2 DEF JobsInv, TypeOK
<1>4. ASSUME NEW j \in Jobs PROVE JobSound(j)'
  <2>1. /\ Latest(j)' = Latest(j) /\ job'[j] = (IF journal[j] = <<>> THEN None ELSE Latest(j))
        /\ JobSound(j)
    BY <1>1 DEF Latest, JobsInv
  <2>2. pc[j] = IF journal[j] = <<>> THEN "none" ELSE "done"
    BY <1>1, <2>1 DEF JobSound
  <2>3. CASE journal[j] = <<>>
    BY <1>1, <2>1, <2>2, <2>3 DEF JobSound, Registered, Committing
  <2>4. CASE journal[j] # <<>>
    BY <1>1, <2>1, <2>2, <2>4 DEF JobSound, Registered, Committing
  <2> QED
    BY <2>3, <2>4
<1>5. DrainSound'
  <2>1. \A j \in drain.todo : FALSE
    BY <1>1 DEF JobsInv, DrainSound, JobSound, TypeOK
  <2> QED
    BY <1>1, <2>1 DEF JobsInv, DrainSound
<1> QED
  BY <1>1, <1>3, <1>4, <1>5 DEF JobsInv

\* What open writes for an interrupted job never denies an invoked commit.
LEMMA FailClosedTruthful ==
    ASSUME JobsInv, NEW j \in Jobs, Active(j), ~poisoned, NEW late \in BOOLEAN
    PROVE  /\ FailClosed(job[j], late) \in Snapshots
           /\ Truthful(FailClosed(job[j], late), commits[j], effect[j])
           /\ ~FailClosed(job[j], late).reserved
<1>1. /\ Registered(j) /\ job[j] \in Snapshots /\ Truthful(job[j], commits[j], effect[j])
      /\ job[j].st \notin Terminal /\ commits[j] \in Nat
  BY InMemory DEF Active, JobsInv, TypeOK
<1>2. /\ "Cancelling" \in States \ Terminal /\ "Failed" \in States /\ "Failed" \in Terminal
      /\ "none" \in Codes /\ "restart_interrupted" \in Codes
      /\ "restart_interrupted_commit_ambiguous" \in Codes
  BY DEF States, Terminal, Codes
<1>3. commits[j] > 0 => job[j].reserved
  BY <1>1 DEF Truthful, CommitCodes
<1>4. CASE job[j].st = "Running" /\ ~job[j].reserved
  <2>1. PICK s \in Snapshots : s = Moved(job[j], "Cancelling", late, "none")
    BY <1>1, <1>2, MovedSnapshot
  <2>2. s.st = "Cancelling" /\ s.code = "none" /\ ~s.reserved
    BY <1>1, <1>2, <1>4, <2>1, MovedSnapshot
  <2>3. FailClosed(job[j], late) = s
    BY <1>4, <2>1 DEF FailClosed, Cancelled
  <2>4. Truthful(s, commits[j], effect[j])
    BY <1>1, <1>3, <1>4, <2>2 DEF Truthful
  <2> QED
    BY <2>2, <2>3, <2>4
<1>5. CASE ~(job[j].st = "Running" /\ ~job[j].reserved)
  <2>1. PICK c \in Codes :
          c = IF job[j].reserved THEN "restart_interrupted_commit_ambiguous"
                                 ELSE "restart_interrupted"
    BY <1>2
  <2>2. PICK s \in Snapshots : s = Moved(job[j], "Failed", late, c)
    BY <1>1, <1>2, MovedSnapshot
  <2>3. s.st = "Failed" /\ s.code = c /\ ~s.reserved
    BY <1>1, <1>2, <2>2, MovedSnapshot
  <2>4. FailClosed(job[j], late) = s
    BY <1>5, <2>1, <2>2 DEF FailClosed
  <2>5. Truthful(s, commits[j], effect[j])
    BY <1>1, <1>2, <1>3, <2>1, <2>3 DEF Truthful, CommitCodes
  <2> QED
    BY <2>3, <2>4, <2>5
<1> QED
  BY <1>4, <1>5

\* open ends an interrupted job, or fails at it.
LEMMA RecoverKeeps ==
    ASSUME JobsInv, NEW j \in Jobs, RecoverJob(j)
    PROVE  JobsInv'
<1>1. /\ phase = "recovering" /\ Active(j) /\ Registered(j)
      /\ UNCHANGED <<key, commits, effect, crashes>>
  BY DEF RecoverJob, Active
<1>2. ~poisoned /\ pc[j] = "done" /\ journal[j] # <<>>
  BY <1>1 DEF JobsInv, JobSound
<1>3. PICK late \in BOOLEAN :
        \/ /\ Written(j, FailClosed(job[j], late))
           /\ UNCHANGED <<accepting, phase, pc, drain>>
        \/ /\ faults < MaxFaults
           /\ faults' = faults + 1
           /\ \/ UNCHANGED <<journal, torn>>
              \/ /\ journal' = [journal EXCEPT ![j] = Append(journal[j], FailClosed(job[j], late))]
                 /\ UNCHANGED torn
              \/ torn' = TRUE /\ UNCHANGED journal
           /\ Stopped
  BY DEF RecoverJob
<1>4. PICK s \in Snapshots : s = FailClosed(job[j], late)
  BY <1>1, <1>2, FailClosedTruthful
<1>5. Truthful(s, commits[j], effect[j]) /\ ~s.reserved
  BY <1>1, <1>2, <1>4, FailClosedTruthful
<1>6. CASE Written(j, s) /\ UNCHANGED <<accepting, phase, pc, drain>>
  <2>1. WriteTypes' /\ WriteOutcome(j, s, "done", "done")
    BY <1>2, <1>6, WriteBeside
  <2>2. ~poisoned'
    BY <1>6 DEF Written
  <2>3. \A i \in Jobs : JobSound(i)' /\ (Registered(i) => Registered(i)')
    BY <1>1, <1>2, <1>5, <1>6, <2>1, <2>2, WriteKeeps DEF PcValues, Committing
  <2>4. TypeOK' /\ DrainSound'
    BY <1>1, <1>6, <2>1, <2>3 DEF JobsInv, TypeOK, WriteTypes, DrainSound
  <2> QED
    BY <2>2, <2>3, <2>4 DEF JobsInv
<1>7. CASE /\ faults < MaxFaults
           /\ faults' = faults + 1
           /\ \/ UNCHANGED <<journal, torn>>
              \/ /\ journal' = [journal EXCEPT ![j] = Append(journal[j], s)]
                 /\ UNCHANGED torn
              \/ torn' = TRUE /\ UNCHANGED journal
           /\ Stopped
  <2>1. /\ journal \in [Jobs -> Seq(Snapshots)] /\ torn \in BOOLEAN /\ MaxFaults \in Nat
        /\ faults \in 0..MaxFaults /\ crashes \in 0..MaxCrashes
        /\ \A i \in Jobs : journal[i] # <<>> => Truthful(Latest(i), commits[i], effect[i])
    BY MaxFaultsAssumption DEF JobsInv, TypeOK, JobSound
  <2>2. faults' \in 0..MaxFaults /\ crashes' \in 0..MaxCrashes
    BY <1>1, <1>7, <2>1
  <2>3. journal' \in [Jobs -> Seq(Snapshots)] /\ torn' \in BOOLEAN
    <3>1. Append(journal[j], s) \in Seq(Snapshots)
      BY <2>1
    <3> QED
      BY <1>7, <2>1, <3>1
  <2>4. ASSUME NEW i \in Jobs
        PROVE  /\ journal'[i] = <<>> => journal[i] = <<>>
               /\ journal'[i] # <<>> => Truthful(Latest(i)', commits[i], effect[i])
    <3>1. CASE journal'[i] = journal[i]
      BY <2>1, <3>1 DEF Latest
    <3>2. CASE i = j /\ journal'[i] = Append(journal[i], s)
      <4>1. journal'[i] # <<>> /\ Latest(i)' = s
        BY <2>1, <3>2, LatestAppended
      <4> QED
        BY <1>5, <3>2, <4>1
    <3> QED
      BY <1>7, <2>1, <3>1, <3>2
  <2> QED
    BY <1>1, <1>7, <2>2, <2>3, <2>4, StoppedKeeps
<1> QED
  BY <1>3, <1>4, <1>6, <1>7

\* open returns.
LEMMA RecoveryDoneKeeps ==
    ASSUME JobsInv, RecoveryDone
    PROVE  JobsInv'
<1>1. /\ phase = "recovering" /\ phase' = "open"
      /\ UNCHANGED <<job, journal, key, torn, poisoned, accepting, pc, drain, commits, effect,
                     faults, crashes>>
  BY DEF RecoveryDone
<1>2. TypeOK' /\ DrainSound'
  BY <1>1 DEF JobsInv, TypeOK, DrainSound, Registered
<1>3. ASSUME NEW i \in Jobs PROVE JobSound(i)'
  BY <1>1 DEF JobsInv, JobSound, Registered, Latest
<1> QED
  BY <1>1, <1>2, <1>3 DEF JobsInv

\* Every step keeps the invariant.
LEMMA NextKeeps ==
    ASSUME JobsInv, [Next]_vars
    PROVE  JobsInv'
<1>1. CASE UNCHANGED vars
  BY <1>1 DEF vars, JobsInv, TypeOK, JobSound, DrainSound, Registered, Latest
<1>2. CASE Next
  <2>1. ASSUME NEW j \in Jobs, Work(j) PROVE JobsInv'
    BY <2>1, SubmitKeeps, FinishKeeps, CommitKeeps DEF Work
  <2>2. ASSUME NEW j \in Jobs, NEW k \in KeysOf[j], RegisterPending(j, k) PROVE JobsInv'
    BY <2>2, KeysOfAssumption, RegisterKeeps
  <2> QED
    BY <1>2, <2>1, <2>2, SubmitKeeps, CancelKeeps, ShutdownKeeps,
       ShutdownWriteKeeps, CrashKeeps, OpenKeeps, RecoverKeeps, RecoveryDoneKeeps DEF Next
<1> QED
  BY <1>1, <1>2

\* The registry of a new file.
LEMMA InitSound == Init => JobsInv
<1> SUFFICES ASSUME Init PROVE JobsInv
  OBVIOUS
<1>1. TypeOK
  <2>1. faults \in 0..MaxFaults /\ crashes \in 0..MaxCrashes
    BY MaxFaultsAssumption, MaxCrashesAssumption DEF Init
  <2>2. drain \in [todo : SUBSET Jobs, at : Jobs \cup {None}, pending : BOOLEAN, on : BOOLEAN]
    BY DEF Init, NoDrain
  <2>3. pc \in [Jobs -> PcValues]
    BY DEF Init, PcValues
  <2>4. journal \in [Jobs -> Seq(Snapshots)]
    <3>1. <<>> \in Seq(Snapshots)
      OBVIOUS
    <3> QED
      BY <3>1 DEF Init
  <2>5. /\ job \in [Jobs -> Snapshots \cup {None}] /\ key \in [Jobs -> Keys \cup {None}]
        /\ commits \in [Jobs -> Nat] /\ effect \in [Jobs -> BOOLEAN]
    BY DEF Init
  <2> QED
    BY <2>1, <2>2, <2>3, <2>4, <2>5 DEF Init, TypeOK
<1>2. \A j \in Jobs : JobSound(j)
  BY DEF Init, JobSound, Registered, Committing
<1>3. DrainSound
  BY DEF Init, DrainSound, NoDrain
<1> QED
  BY <1>1, <1>2, <1>3 DEF Init, JobsInv

\* The invariant of the registry.
THEOREM RegistryInvariant == Spec => []JobsInv
<1>1. JobsInv /\ [Next]_vars => JobsInv'
  BY NextKeeps
<1> QED
  BY <1>1, InitSound, PTL DEF Spec

(***************************************************************************)
(* The types of the registry's memory and journal.                         *)
(***************************************************************************)
THEOREM JobTypes == Spec => []TypeOK
<1>1. JobsInv => TypeOK
  BY DEF JobsInv
<1> QED
  BY <1>1, RegistryInvariant, PTL

(***************************************************************************)
(* runtime_jobs.rs never misreports a commit, whatever was cancelled, timed *)
(* out, failed to be written or was cut off, and whichever calls overlap:  *)
(* SUCCEEDED means the effect was taken, and a record that rules out the   *)
(* commit means it was never invoked.                                      *)
(***************************************************************************)
THEOREM JobsTellTheTruth == Spec => []OutcomeTruthful
<1>1. JobsInv => OutcomeTruthful
  <2>1. SUFFICES ASSUME JobsInv, NEW j \in Jobs
                 PROVE  /\ commits[j] <= 1
                        /\ commits[j] > 0 => journal[j] # <<>>
                        /\ journal[j] # <<>> =>
                              /\ Latest(j).st = "Succeeded" => effect[j]
                              /\ commits[j] > 0 =>
                                    \/ Latest(j).reserved
                                    \/ Latest(j).code \in CommitCodes
    BY DEF OutcomeTruthful, CommitCodes
  <2>2. JobSound(j) /\ commits[j] \in Nat
    BY <2>1 DEF JobsInv, TypeOK
  <2> QED
    BY <2>2 DEF JobSound, Truthful
<1> QED
  BY <1>1, RegistryInvariant, PTL

-----------------------------------------------------------------------------
(***************************************************************************)
(* Replay.  Each record follows from the last one on disk because the      *)
(* snapshot in memory is that record, and because it is where the          *)
(* controller left it (PcSound): a job with a live controller is RUNNING   *)
(* or CANCELLING, so that what finish_after_prepare writes is legal, or    *)
(* shutdown has cancelled it as not yet started (BeforeStart), and then the *)
(* controller can still write one CANCELLED.                               *)
(***************************************************************************)
Started == {"spawning", "preparing", "overdue", "prepared", "failed", "panicked"}

RecordsValid(j) ==
    journal[j] # <<>> =>
        /\ journal[j][1] = RegisteredSnapshot
        /\ \A n \in 2..Len(journal[j]) : Follows(j, journal[j][n - 1], journal[j][n])

\* A snapshot shutdown wrote of a job it had read as PENDING.
BeforeStart(s) == s.st = "Cancelled" /\ s.code = "shutdown_before_start"

PcSound(j) ==
    /\ pc[j] \in Started => job[j].st \in {"Running", "Cancelling"} \/ BeforeStart(job[j])
    /\ pc[j] = "discarding" => job[j].st = "Cancelling"

ReplayInv ==
    /\ JobsInv
    /\ \A j \in Jobs : RecordsValid(j)
    /\ DistinctKeys
    /\ \A j \in Jobs : PcSound(j)

\* A journal that stays as it is stays valid.
LEMMA RecordsStay ==
    ASSUME NEW j \in Jobs, RecordsValid(j), journal'[j] = journal[j]
    PROVE  RecordsValid(j)'
BY DEF RecordsValid, RegisteredSnapshot, Follows, ValidRecord, ValidTransition, CancelledAgain,
       Moved, ValidShape, UnfitCodes, Terminal

\* A legal record at the end keeps the records of a job legal.
LEMMA AppendValid ==
    ASSUME NEW j \in Jobs, journal[j] \in Seq(Snapshots), NEW s \in Snapshots,
           journal'[j] = Append(journal[j], s), RecordsValid(j),
           journal[j] = <<>> => s = RegisteredSnapshot,
           journal[j] # <<>> => Follows(j, Latest(j), s)
    PROVE  RecordsValid(j)'
<1>1. PICK q \in Seq(Snapshots) : q = journal[j]
  OBVIOUS
<1>2. /\ Len(q) \in Nat /\ Len(journal'[j]) = Len(q) + 1
      /\ \A n \in 1..Len(q) : journal'[j][n] = q[n]
      /\ journal'[j][Len(q) + 1] = s
      /\ q = <<>> <=> Len(q) = 0
  BY <1>1
<1>3. journal'[j][1] = RegisteredSnapshot
  BY <1>1, <1>2 DEF RecordsValid
<1>4. ASSUME NEW n \in 2..Len(journal'[j])
      PROVE  Follows(j, journal'[j][n - 1], journal'[j][n])
  <2>1. CASE n <= Len(q)
    <3>1. n \in 2..Len(q) /\ n \in 1..Len(q) /\ n - 1 \in 1..Len(q) /\ q # <<>>
      BY <1>2, <2>1
    <3>2. Follows(j, q[n - 1], q[n])
      BY <1>1, <3>1 DEF RecordsValid
    <3> QED
      BY <1>2, <3>1, <3>2
  <2>2. CASE n = Len(q) + 1
    <3>1. n - 1 = Len(q) /\ n - 1 \in 1..Len(q) /\ q # <<>>
      BY <1>2, <2>2
    <3>2. journal'[j][n - 1] = q[Len(q)] /\ journal'[j][n] = s
      BY <1>2, <2>2, <3>1
    <3>3. Follows(j, q[Len(q)], s)
      BY <1>1, <3>1 DEF Latest
    <3> QED
      BY <3>2, <3>3
  <2> QED
    BY <1>2, <2>1, <2>2
<1> QED
  BY <1>3, <1>4 DEF RecordsValid, RegisteredSnapshot, Follows, ValidRecord, ValidTransition,
                    CancelledAgain, Moved, ValidShape, UnfitCodes, Terminal

\* So does append_then_replace, whatever it leaves.
LEMMA WriteRecords ==
    ASSUME ReplayInv, NEW j \in Jobs, NEW s \in Snapshots, NEW ok, NEW err,
           WriteOutcome(j, s, ok, err), phase # "down",
           Registered(j) \/ ~poisoned,
           ~poisoned => IF Registered(j) THEN Follows(j, job[j], s) ELSE s = RegisteredSnapshot
    PROVE  /\ \A i \in Jobs : RecordsValid(i)'
           /\ \A i \in Jobs : i # j \/ Registered(j) => (journal'[i] # <<>> <=> journal[i] # <<>>)
<1>1. /\ \A i \in Jobs : JobSound(i) /\ RecordsValid(i)
      /\ journal \in [Jobs -> Seq(Snapshots)] /\ job \in [Jobs -> Snapshots \cup {None}]
  BY DEF ReplayInv, JobsInv, TypeOK
<1>2. ASSUME NEW i \in Jobs, journal'[i] = journal[i] PROVE RecordsValid(i)'
  BY <1>1, <1>2, RecordsStay
<1>3. ASSUME ~poisoned, journal'[j] = Append(journal[j], s)
      PROVE  RecordsValid(j)' /\ journal'[j] # <<>>
  <2>1. /\ journal[j] = <<>> => ~Registered(j)
        /\ journal[j] # <<>> => job[j] = Latest(j)
        /\ phase # "down"
    BY <1>1, <1>3 DEF JobSound
  <2>3. journal[j] = <<>> => s = RegisteredSnapshot
    BY <1>3, <2>1
  <2>4. ASSUME journal[j] # <<>> PROVE Follows(j, Latest(j), s)
    <3>1. \A q \in Seq(Snapshots) : q # <<>> => q[Len(q)] \in Snapshots
      OBVIOUS
    <3>2. Latest(j) \in Snapshots
      BY <1>1, <2>4, <3>1 DEF Latest
    <3>3. Registered(j)
      BY <2>1, <2>4, <3>2, NoSnapshotAssumption DEF Registered
    <3> QED
      BY <1>3, <2>1, <2>4, <3>3
  <2>2. journal'[j] # <<>>
    BY <1>1, <1>3, LatestAppended
  <2> QED
    BY <1>1, <1>3, <2>2, <2>3, <2>4, AppendValid
<1>4. /\ \A i \in Jobs : i # j => journal'[i] = journal[i]
      /\ journal'[j] = journal[j] \/ (~poisoned /\ journal'[j] = Append(journal[j], s))
  BY DEF WriteOutcome
<1>5. Registered(j) => journal[j] # <<>>
  BY <1>1 DEF JobSound
<1> QED
  BY <1>2, <1>3, <1>4, <1>5

\* Where a write of a registered job may leave its controller, in an open registry.
WriteSound(j, s, ok, err) ==
    /\ ok \in Started => s.st \in {"Running", "Cancelling"} \/ BeforeStart(s)
    /\ ok = "discarding" => s.st = "Cancelling"
    /\ Follows(j, job[j], s)

\* One such write keeps the journal one that replay accepts, and the controllers sound.
LEMMA WriteReplays ==
    ASSUME ReplayInv, JobsInv', NEW j \in Jobs, NEW s \in Snapshots,
           NEW ok \in PcValues, NEW err \in PcValues,
           WriteOutcome(j, s, ok, err), UNCHANGED <<key, phase>>, phase = "open",
           Registered(j),
           ~poisoned => WriteSound(j, s, ok, err),
           err \in Started => pc[j] \in Started,
           err = "discarding" => pc[j] = "discarding"
    PROVE  ReplayInv'
<1>1. /\ \A i \in Jobs : RecordsValid(i)'
      /\ \A i \in Jobs : journal'[i] # <<>> <=> journal[i] # <<>>
  BY WriteRecords DEF WriteSound
<1>2. DistinctKeys'
  BY <1>1 DEF ReplayInv, DistinctKeys
<1>3. ASSUME NEW i \in Jobs PROVE PcSound(i)'
  <2>1. PcSound(i)
    BY DEF ReplayInv
  <2>2. CASE i # j
    BY <2>1, <2>2 DEF WriteOutcome, PcSound, BeforeStart
  <2>3. CASE i = j
    <3>1. CASE ~poisoned /\ ~poisoned' /\ job'[j] = s /\ pc'[j] = ok
      BY <2>3, <3>1 DEF PcSound, WriteSound, BeforeStart
    <3>2. CASE poisoned' /\ job'[j] = job[j] /\ pc'[j] = err
      BY <2>1, <2>3, <3>2 DEF PcSound, BeforeStart
    <3> QED
      BY <3>1, <3>2 DEF WriteOutcome
  <2> QED
    BY <2>2, <2>3
<1> QED
  BY <1>1, <1>2, <1>3 DEF ReplayInv

\* A whole step of the submitter, of the controller or of request_cancel.
LEMMA PersistReplays ==
    ASSUME ReplayInv, JobsInv', NEW j \in Jobs, NEW s \in Snapshots,
           NEW ok \in PcValues, NEW err \in PcValues,
           Persist(j, s, ok, err), UNCHANGED <<key, phase>>, phase = "open",
           Registered(j),
           ~poisoned => WriteSound(j, s, ok, err),
           err \in Started => pc[j] \in Started,
           err = "discarding" => pc[j] = "discarding"
    PROVE  ReplayInv'
<1>1. WriteOutcome(j, s, ok, err)
  BY PersistWrites DEF ReplayInv
<1> QED
  BY <1>1, WriteReplays

\* A step that moves a caller and writes nothing.
LEMMA NoWriteReplays ==
    ASSUME ReplayInv, JobsInv', NEW j \in Jobs, NEW to \in PcValues, NoWrite(j, to),
           UNCHANGED key,
           to \in Started => pc[j] \in Started,
           to # "discarding"
    PROVE  ReplayInv'
<1>1. /\ UNCHANGED <<job, journal>> /\ pc' = [pc EXCEPT ![j] = to]
      /\ pc \in [Jobs -> PcValues]
  BY DEF NoWrite, ReplayInv, JobsInv, TypeOK
<1>2. /\ \A i \in Jobs : RecordsValid(i)'
      /\ DistinctKeys'
  BY <1>1, RecordsStay DEF ReplayInv, DistinctKeys
<1>3. ASSUME NEW i \in Jobs PROVE PcSound(i)'
  <2>1. PcSound(i) /\ pc'[i] = IF i = j THEN to ELSE pc[i]
    BY <1>1 DEF ReplayInv
  <2> QED
    BY <1>1, <2>1 DEF PcSound, BeforeStart
<1> QED
  BY <1>2, <1>3 DEF ReplayInv

\* What transition lets through, replay accepts.
LEMMA TransitionValid ==
    ASSUME NEW j, NEW s \in Snapshots, s.reserved => s.st = "Running", NEW to \in States,
           NEW late \in BOOLEAN, NEW code \in Codes, MayTransition(s, to),
           to \in Terminal <=> code # "none",
           code \in UnfitCodes => j \in Careless
    PROVE  Follows(j, s, Moved(s, to, late, code))
<1>1. PICK n : n = Moved(s, to, late, code)
  OBVIOUS
<1>2. n.st = to /\ n.rev = s.rev + 1 /\ n.code = code
  BY <1>1 DEF Moved
<1>3. (s.late => n.late) /\ (n.reserved <=> s.reserved /\ to \notin Terminal)
  BY <1>1 DEF Moved
<1>4. ValidRecord(s, n) /\ ~n.reserved
  <2>1. CASE s.reserved
    <3>1. s.st = "Running" /\ to \in {"Succeeded", "Failed"} /\ ~n.reserved
      BY <1>3, <2>1 DEF MayTransition, ValidTransition, Terminal
    <3> QED
      BY <1>2, <1>3, <2>1, <3>1 DEF ValidRecord
  <2>2. CASE ~s.reserved
    <3>1. ~n.reserved /\ ValidTransition(s.st, to)
      BY <1>3, <2>2 DEF MayTransition
    <3> QED
      BY <1>2, <1>3, <2>2, <3>1 DEF ValidRecord
  <2> QED
    BY <2>1, <2>2
<1>5. ValidShape(n) \/ (j \in Careless /\ n.code \in UnfitCodes)
  BY <1>2, <1>4 DEF ValidShape
<1> QED
  BY <1>1, <1>4, <1>5 DEF Follows

\* What request_cancel writes, replay accepts.
LEMMA CancelValid ==
    ASSUME NEW j, NEW s \in Snapshots, s.st \notin Terminal, NEW late \in BOOLEAN,
           CancelWrites(s, late)
    PROVE  Follows(j, s, Moved(s, "Cancelling", late, "none"))
<1>1. PICK n : n = Moved(s, "Cancelling", late, "none")
  OBVIOUS
<1>2. n.st = "Cancelling" /\ n.rev = s.rev + 1 /\ n.code = "none"
  BY <1>1 DEF Moved
<1>3. (s.late => n.late) /\ (late => n.late) /\ ~n.reserved /\ ~s.reserved
  BY <1>1 DEF Moved, CancelWrites
<1>4. ValidRecord(s, n)
  <2>1. CASE s.st = "Cancelling"
    BY <1>2, <1>3, <2>1 DEF ValidRecord, CancelWrites
  <2>2. CASE s.st \in {"Pending", "Running"}
    <3>1. ValidTransition(s.st, n.st)
      BY <1>2, <2>2 DEF ValidTransition
    <3> QED
      BY <1>2, <1>3, <3>1 DEF ValidRecord
  <2> QED
    BY <2>1, <2>2 DEF Snapshots, States
<1>5. ValidShape(n)
  BY <1>2, <1>3 DEF ValidShape, Terminal, UnfitCodes
<1> QED
  BY <1>1, <1>4, <1>5 DEF Follows

\* The CANCELLED of a late result on top of the one of shutdown.
LEMMA AgainValid ==
    ASSUME NEW j, NEW s \in Snapshots, BeforeStart(s), ~s.reserved
    PROVE  Follows(j, s, Moved(s, "Cancelled", FALSE, "cancelled"))
<1>1. PICK n : n = Moved(s, "Cancelled", FALSE, "cancelled")
  OBVIOUS
<1>2. n.st = "Cancelled" /\ ~n.reserved /\ n.code = "cancelled"
  BY <1>1 DEF Moved
<1>3. ValidShape(n) /\ CancelledAgain(s, n)
  BY <1>1, <1>2 DEF ValidShape, CancelledAgain, BeforeStart, Terminal, UnfitCodes
<1> QED
  BY <1>1, <1>3 DEF Follows

\* What a moved job is in, and that it may be moved.
LEMMA MovedReplays ==
    ASSUME ReplayInv, JobsInv', NEW j \in Jobs, Registered(j), phase = "open",
           NEW st \in States, NEW late \in BOOLEAN, NEW code \in Codes,
           NEW ok \in PcValues, NEW err \in PcValues,
           Persist(j, Moved(job[j], st, late, code), ok, err),
           UNCHANGED <<key, phase>>,
           ~poisoned => Follows(j, job[j], Moved(job[j], st, late, code)),
           ok \in Started => st \in {"Running", "Cancelling"},
           ok = "discarding" => st = "Cancelling",
           err \in Started => pc[j] \in Started,
           err = "discarding" => pc[j] = "discarding"
    PROVE  ReplayInv'
<1>1. job[j] \in Snapshots
  BY InMemory DEF ReplayInv
<1>2. PICK s \in Snapshots : s = Moved(job[j], st, late, code) /\ s.st = st
  BY <1>1, MovedSnapshot
<1>3. ~poisoned => WriteSound(j, s, ok, err)
  BY <1>2 DEF WriteSound
<1> QED
  BY <1>2, <1>3, PersistReplays

\* The snapshot a controller works on.
LEMMA Controlled ==
    ASSUME ReplayInv, NEW j \in Jobs, pc[j] \notin {"none", "done"}
    PROVE  /\ Registered(j) /\ phase = "open" /\ job[j] \in Snapshots
           /\ ~poisoned => (job[j].reserved => job[j].st = "Running")
           /\ pc[j] \notin Committing => ~job[j].reserved
           /\ pc[j] \in Started => job[j].st \in {"Running", "Cancelling"} \/ BeforeStart(job[j])
           /\ pc[j] = "discarding" => job[j].st = "Cancelling"
           /\ ~poisoned /\ job[j].st = "Running" => job[j].code = "none"
<1>1. JobsInv /\ PcSound(j)
  BY DEF ReplayInv
<1>2. Registered(j) /\ phase = "open" /\ (pc[j] \notin Committing => ~job[j].reserved)
  BY <1>1, AtWork
<1>3. ~poisoned => Truthful(job[j], commits[j], effect[j])
  BY <1>1, <1>2, InMemory
<1> QED
  BY <1>1, <1>2, <1>3, InMemory DEF PcSound, Truthful, Terminal

\* submit_prepared up to the PENDING record: the id has no record yet, and the key
\* is of no job on disk, since every job on disk is in memory.
LEMMA RegisterReplays ==
    ASSUME ReplayInv, JobsInv', NEW j \in Jobs, NEW k \in Keys, RegisterPending(j, k)
    PROVE  ReplayInv'
<1>1. /\ phase = "open" /\ ~poisoned /\ pc[j] = "none" /\ ~Registered(j)
      /\ \A i \in Jobs : Registered(i) => key[i] # k
      /\ Persist(j, RegisteredSnapshot, "registered", "none")
      /\ key' = [key EXCEPT ![j] = IF journal'[j] = <<>> THEN None ELSE k]
      /\ UNCHANGED phase
  BY DEF RegisterPending, Serving
<1>2. PICK s \in Snapshots : s = RegisteredSnapshot
  BY DEF RegisteredSnapshot, Snapshots, States, Codes
<1>3. "registered" \in PcValues /\ "none" \in PcValues
  BY DEF PcValues
<1>4. WriteOutcome(j, s, "registered", "none")
  BY <1>1, <1>2, <1>3, PersistWrites DEF ReplayInv
<1>5. /\ \A i \in Jobs : RecordsValid(i)'
      /\ \A i \in Jobs : i # j => (journal'[i] # <<>> <=> journal[i] # <<>>)
  BY <1>1, <1>2, <1>4, WriteRecords
<1>6. ASSUME NEW i \in Jobs, journal[i] # <<>> PROVE Registered(i)
  <2>1. \A q \in Seq(Snapshots) : q # <<>> => q[Len(q)] \in Snapshots
    OBVIOUS
  <2>2. job[i] = Latest(i) /\ Latest(i) \in Snapshots
    BY <1>1, <1>6, <2>1 DEF ReplayInv, JobsInv, JobSound, TypeOK, Latest
  <2> QED
    BY <2>2, NoSnapshotAssumption DEF Registered
<1>7. DistinctKeys'
  <2>1. key \in [Jobs -> Keys \cup {None}]
    BY DEF ReplayInv, JobsInv, TypeOK
  <2>2. SUFFICES ASSUME NEW a \in Jobs, NEW b \in Jobs, a # b, journal'[a] # <<>>,
                        journal'[b] # <<>>
                 PROVE  key'[a] # key'[b]
    BY DEF DistinctKeys
  <2>3. CASE a # j /\ b # j
    BY <1>1, <1>5, <2>1, <2>2, <2>3 DEF ReplayInv, DistinctKeys
  <2>4. CASE a = j
    BY <1>1, <1>5, <1>6, <2>1, <2>2, <2>4
  <2>5. CASE b = j
    BY <1>1, <1>5, <1>6, <2>1, <2>2, <2>5
  <2> QED
    BY <2>3, <2>4, <2>5
<1>8. ASSUME NEW i \in Jobs PROVE PcSound(i)'
  <2>1. CASE i # j
    BY <1>1, <1>4, <2>1 DEF WriteOutcome, ReplayInv, PcSound, BeforeStart
  <2>2. CASE i = j
    BY <1>1, <1>4, <2>2 DEF WriteOutcome, PcSound, Started
  <2> QED
    BY <2>1, <2>2
<1> QED
  BY <1>5, <1>7, <1>8 DEF ReplayInv

\* submit_prepared from there on.
LEMMA SubmitReplays ==
    ASSUME ReplayInv, JobsInv', NEW j \in Jobs,
           StartRunning(j) \/ SpawnWorker(j) \/ SpawnFails(j)
    PROVE  ReplayInv'
<1>0. UNCHANGED <<key, phase>>
  BY DEF StartRunning, SpawnWorker, SpawnFails
<1>1. pc[j] \in {"registered", "spawning"}
  BY DEF StartRunning, SpawnWorker, SpawnFails
<1>2. Registered(j) /\ phase = "open" /\ job[j] \in Snapshots /\ ~job[j].reserved
  BY <1>1, Controlled DEF Committing
<1>3. /\ "Running" \in States \ Terminal /\ "Failed" \in States /\ "Failed" \in Terminal
      /\ "none" \in Codes /\ "spawn_failed" \in Codes
      /\ "done" \in PcValues /\ "spawning" \in PcValues /\ "preparing" \in PcValues
      /\ "done" \notin Started /\ "spawning" \in Started /\ "preparing" \in Started
      /\ "none" \notin UnfitCodes /\ "spawn_failed" \notin UnfitCodes
  BY DEF States, Terminal, Codes, UnfitCodes, PcValues, Started
<1>4. CASE StartRunning(j) /\ MayTransition(job[j], "Running")
  <2>1. Persist(j, Moved(job[j], "Running", FALSE, "none"), "spawning", "done")
    BY <1>4 DEF StartRunning
  <2>2. Follows(j, job[j], Moved(job[j], "Running", FALSE, "none"))
    BY <1>2, <1>3, <1>4, TransitionValid
  <2> QED
    BY <1>0, <1>2, <1>3, <2>1, <2>2, MovedReplays
<1>5. CASE StartRunning(j) /\ ~MayTransition(job[j], "Running")
  <2>1. NoWrite(j, "done")
    BY <1>5 DEF StartRunning
  <2> QED
    BY <1>0, <1>2, <1>3, <2>1, NoWriteReplays
<1>6. CASE SpawnWorker(j)
  <2>1. NoWrite(j, "preparing") /\ pc[j] = "spawning"
    BY <1>6 DEF SpawnWorker, NoWrite
  <2> QED
    BY <1>0, <1>2, <1>3, <2>1, NoWriteReplays
<1>7. CASE SpawnFails(j) /\ MayTransition(job[j], "Failed")
  <2>1. Persist(j, Moved(job[j], "Failed", FALSE, "spawn_failed"), "done", "done")
    BY <1>7 DEF SpawnFails
  <2>2. Follows(j, job[j], Moved(job[j], "Failed", FALSE, "spawn_failed"))
    BY <1>2, <1>3, <1>7, TransitionValid
  <2> QED
    BY <1>0, <1>2, <1>3, <2>1, <2>2, MovedReplays
<1>8. CASE SpawnFails(j) /\ ~MayTransition(job[j], "Failed")
  <2>1. NoWrite(j, "done")
    BY <1>8 DEF SpawnFails
  <2> QED
    BY <1>0, <1>2, <1>3, <2>1, NoWriteReplays
<1> QED
  BY <1>4, <1>5, <1>6, <1>7, <1>8

\* request_cancel, by a caller or at the deadline.
LEMMA CancelReplays ==
    ASSUME ReplayInv, JobsInv', NEW j \in Jobs, RequestCancel(j) \/ DeadlineReached(j)
    PROVE  ReplayInv'
<1>0. UNCHANGED <<key, phase>> /\ phase = "open"
  BY DEF RequestCancel, DeadlineReached, Serving
<1>1. /\ "Cancelling" \in States /\ "none" \in Codes /\ "overdue" \in PcValues
      /\ "overdue" \in Started /\ "preparing" \in Started
  BY DEF States, Codes, PcValues, Started
<1>2. CASE RequestCancel(j)
  <2>1. /\ Registered(j) /\ job[j].st \notin Terminal /\ CancelWrites(job[j], FALSE)
        /\ Persist(j, Moved(job[j], "Cancelling", FALSE, "none"), pc[j], pc[j])
    BY <1>2 DEF RequestCancel, Active, Cancelled
  <2>2. job[j] \in Snapshots /\ pc[j] \in PcValues
    BY <2>1, InMemory DEF ReplayInv, JobsInv, TypeOK
  <2>3. PICK q \in PcValues : q = pc[j]
    BY <2>2
  <2>4. Follows(j, job[j], Moved(job[j], "Cancelling", FALSE, "none"))
    BY <2>1, <2>2, CancelValid
  <2> QED
    BY <1>0, <1>1, <2>1, <2>3, <2>4, MovedReplays
<1>3. CASE DeadlineReached(j)
  <2>1. pc[j] = "preparing"
    BY <1>3 DEF DeadlineReached
  <2>2. Registered(j) /\ job[j] \in Snapshots
    BY <2>1, Controlled
  <2>3. CASE Active(j) /\ CancelWrites(job[j], TRUE)
    <3>1. Persist(j, Moved(job[j], "Cancelling", TRUE, "none"), "overdue", "overdue")
      BY <1>3, <2>3 DEF DeadlineReached, Cancelled
    <3>2. Follows(j, job[j], Moved(job[j], "Cancelling", TRUE, "none"))
      BY <2>2, <2>3, CancelValid DEF Active
    <3>3. PICK q \in PcValues, late \in BOOLEAN : q = "overdue" /\ late = TRUE
      BY <1>1
    <3>4. /\ Persist(j, Moved(job[j], "Cancelling", late, "none"), q, q)
          /\ Follows(j, job[j], Moved(job[j], "Cancelling", late, "none"))
          /\ pc[j] \in Started /\ q # "discarding"
      BY <1>1, <2>1, <3>1, <3>2, <3>3
    <3> QED
      BY <1>0, <1>1, <2>2, <3>4, MovedReplays
  <2>4. CASE ~(Active(j) /\ CancelWrites(job[j], TRUE))
    <3>1. NoWrite(j, "overdue")
      BY <1>3, <2>4 DEF DeadlineReached
    <3> QED
      BY <1>0, <1>1, <2>1, <3>1, NoWriteReplays
  <2> QED
    BY <2>3, <2>4
<1> QED
  BY <1>2, <1>3

\* The controller up to the end of a job that is not committed: a job whose
\* controller lives is RUNNING or CANCELLING.
LEMMA FinishReplays ==
    ASSUME ReplayInv, JobsInv', NEW j \in Jobs,
           \/ PrepareReturns(j) \/ FinishPanicked(j) \/ DiscardLate(j) \/ Discard(j)
           \/ PreparationFailed(j)
    PROVE  ReplayInv'
<1>0. UNCHANGED <<key, phase>>
  BY DEF PrepareReturns, FinishPanicked, DiscardLate, Discard, PreparationFailed
<1>1. pc[j] \in {"preparing", "overdue", "panicked", "prepared", "failed", "discarding"}
  BY DEF PrepareReturns, FinishPanicked, DiscardLate, Discard, PreparationFailed
<1>2. /\ Registered(j) /\ phase = "open" /\ job[j] \in Snapshots /\ ~job[j].reserved
      /\ job[j].st \in {"Running", "Cancelling"} \/ BeforeStart(job[j])
  BY <1>1, Controlled DEF Committing, Started
<1>3. /\ {"Cancelling", "Cancelled", "Failed"} \subseteq States
      /\ {"Cancelled", "Failed"} \subseteq Terminal
      /\ {"none", "worker_panicked", "cancelled", "preparation_failed",
          "unfit_preparation_failed"} \subseteq Codes
      /\ {"worker_panicked", "cancelled", "preparation_failed"} \cap UnfitCodes = {}
      /\ {"done", "discarding"} \subseteq PcValues
      /\ "done" \notin Started /\ "discarding" \notin Started
  BY DEF States, Terminal, Codes, UnfitCodes, PcValues, Started
<1>4. CASE PrepareReturns(j)
  <2>1. PICK result \in {"prepared", "failed", "panicked"} : pc' = [pc EXCEPT ![j] = result]
    BY <1>4 DEF PrepareReturns
  <2>2. NoWrite(j, result) /\ pc[j] \in Started /\ result \in PcValues
    BY <1>4, <2>1 DEF PrepareReturns, NoWrite, Started, PcValues
  <2> QED
    BY <1>0, <1>2, <2>2, NoWriteReplays
<1>5. CASE FinishPanicked(j)
  <2>1. PICK late \in BOOLEAN :
          IF MayTransition(job[j], "Failed")
          THEN Persist(j, Moved(job[j], "Failed", late, "worker_panicked"), "done", "done")
          ELSE NoWrite(j, "done")
    BY <1>5 DEF FinishPanicked
  <2>2. CASE MayTransition(job[j], "Failed")
    <3>1. Follows(j, job[j], Moved(job[j], "Failed", late, "worker_panicked"))
      BY <1>2, <1>3, <2>2, TransitionValid
    <3> QED
      BY <1>0, <1>2, <1>3, <2>1, <2>2, <3>1, MovedReplays
  <2>3. CASE ~MayTransition(job[j], "Failed")
    BY <1>0, <1>2, <1>3, <2>1, <2>3, NoWriteReplays
  <2> QED
    BY <2>2, <2>3
<1>6. CASE DiscardLate(j)
  <2>1. /\ Persist(j, Moved(job[j], "Cancelling", TRUE, "none"), "discarding", "done")
        /\ job[j].st = "Running"
    BY <1>6 DEF DiscardLate, Cancelled
  <2>2. Follows(j, job[j], Moved(job[j], "Cancelling", TRUE, "none"))
    BY <1>2, <2>1, CancelValid DEF CancelWrites, Terminal
  <2> QED
    BY <1>0, <1>2, <1>3, <2>1, <2>2, MovedReplays
<1>7. CASE Discard(j)
  <2>1. PICK late \in BOOLEAN :
          IF job[j].st = "Cancelling" \/ late
          THEN Persist(j, Moved(job[j], "Cancelled", FALSE, "cancelled"), "done", "done")
          ELSE NoWrite(j, "done")
    BY <1>7 DEF Discard
  <2>2. CASE ~(job[j].st = "Cancelling" \/ late)
    BY <1>0, <1>2, <1>3, <2>1, <2>2, NoWriteReplays
  <2>3. CASE job[j].st = "Cancelling" \/ late
    <3>1. PICK onTime \in BOOLEAN : onTime = FALSE
      OBVIOUS
    <3>2. Persist(j, Moved(job[j], "Cancelled", onTime, "cancelled"), "done", "done")
      BY <2>1, <2>3, <3>1
    <3>3. Follows(j, job[j], Moved(job[j], "Cancelled", onTime, "cancelled"))
      <4>1. CASE job[j].st = "Cancelling"
        <5>1. MayTransition(job[j], "Cancelled")
          BY <1>2, <4>1 DEF MayTransition, ValidTransition
        <5> QED
          BY <1>2, <1>3, <5>1, TransitionValid
      <4>2. CASE BeforeStart(job[j])
        BY <1>2, <3>1, <4>2, AgainValid
      <4> QED
        BY <1>2, <1>7, <4>1, <4>2 DEF Discard
    <3> QED
      BY <1>0, <1>2, <1>3, <3>2, <3>3, MovedReplays
  <2> QED
    BY <2>2, <2>3
<1>8. CASE PreparationFailed(j)
  <2>1. PICK code \in Chosen(j, "preparation_failed", "unfit_preparation_failed") :
          Persist(j, Moved(job[j], "Failed", FALSE, code), "done", "done")
    BY <1>8 DEF PreparationFailed
  <2>2. MayTransition(job[j], "Failed")
    BY <1>2, <1>8 DEF PreparationFailed, MayTransition, ValidTransition
  <2>3. PICK onTime \in BOOLEAN : onTime = FALSE
    OBVIOUS
  <2>4. Persist(j, Moved(job[j], "Failed", onTime, code), "done", "done")
    BY <2>1, <2>3
  <2>5. code \in Codes /\ code # "none" /\ (code \in UnfitCodes => j \in Careless)
    BY <1>3, <2>1 DEF Chosen
  <2>6. Follows(j, job[j], Moved(job[j], "Failed", onTime, code))
    BY <1>2, <1>3, <2>2, <2>5, TransitionValid
  <2> QED
    BY <1>0, <1>2, <1>3, <2>4, <2>5, <2>6, MovedReplays
<1> QED
  BY <1>4, <1>5, <1>6, <1>7, <1>8

\* The reservation follows the RUNNING record of a job that is not reserved.
LEMMA ReserveReplays ==
    ASSUME ReplayInv, JobsInv', NEW j \in Jobs, ReserveCommit(j)
    PROVE  ReplayInv'
<1>1. /\ UNCHANGED <<key, phase>>
      /\ pc[j] = "prepared" /\ job[j].st = "Running"
      /\ Persist(j, [job[j] EXCEPT !.rev = @ + 1, !.reserved = TRUE], "committing", "done")
  BY DEF ReserveCommit
<1>2. /\ Registered(j) /\ phase = "open" /\ job[j] \in Snapshots /\ ~job[j].reserved
      /\ ~poisoned => job[j].code = "none"
  BY <1>1, Controlled DEF Committing
<1>3. PICK x \in Snapshots : x = job[j]
  BY <1>2
<1>4. PICK y : y = [x EXCEPT !.rev = x.rev + 1, !.reserved = TRUE]
  OBVIOUS
<1>5. /\ y \in Snapshots /\ y.st = x.st /\ y.reserved /\ y.late = x.late
      /\ y.rev = x.rev + 1 /\ y.code = x.code
  BY <1>4, ReservedSnapshot
<1>6. /\ "committing" \in PcValues /\ "done" \in PcValues
      /\ "committing" \notin Started /\ "done" \notin Started
  BY DEF PcValues, Started
<1>7. ~poisoned => WriteSound(j, y, "committing", "done")
  <2>1. ValidRecord(job[j], y) /\ y.st = "Running"
    BY <1>1, <1>2, <1>3, <1>5 DEF ValidRecord
  <2>2. ~poisoned => ValidShape(y)
    BY <1>2, <1>3, <1>5, <2>1 DEF ValidShape, Terminal, UnfitCodes
  <2> QED
    BY <1>6, <2>1, <2>2 DEF WriteSound, Follows
<1>8. Persist(j, y, "committing", "done")
  BY <1>1, <1>3, <1>4
<1> QED
  BY <1>1, <1>2, <1>5, <1>6, <1>7, <1>8, PersistReplays

\* The commit and its outcome.
LEMMA CommitReplays ==
    ASSUME ReplayInv, JobsInv', NEW j \in Jobs, CommitRuns(j) \/ RecordOutcome(j)
    PROVE  ReplayInv'
<1>0. UNCHANGED <<key, phase>> /\ phase = "open"
  BY DEF CommitRuns, RecordOutcome, Serving
<1>1. CASE CommitRuns(j)
  <2>1. PICK to \in {"effective", "ineffective"} : NoWrite(j, to)
    BY <1>1 DEF CommitRuns, NoWrite
  <2>2. to \in PcValues /\ to \notin Started /\ pc[j] = "committing"
    BY <1>1 DEF PcValues, Started, CommitRuns
  <2> QED
    BY <1>0, <2>1, <2>2, NoWriteReplays
<1>2. CASE RecordOutcome(j)
  <2>1. /\ pc[j] \in {"effective", "ineffective"} /\ job[j].st = "Running"
    BY <1>2 DEF RecordOutcome
  <2>2. /\ Registered(j) /\ job[j] \in Snapshots
        /\ ~poisoned => (job[j].reserved => job[j].st = "Running")
    BY <2>1, Controlled
  <2>3. PICK late \in BOOLEAN, st \in {"Succeeded", "Failed"},
             code \in Chosen(j, "committed", "unfit_committed")
                         \cup Chosen(j, "commit_failed", "unfit_commit_failed") :
          Persist(j, Moved(job[j], st, late, code), "done", "done")
    BY <1>2 DEF RecordOutcome
  <2>4. /\ st \in States /\ st \in Terminal /\ code \in Codes /\ code # "none"
        /\ code \in UnfitCodes => j \in Careless
        /\ "done" \in PcValues /\ "done" \notin Started
    BY DEF States, Terminal, Codes, UnfitCodes, Chosen, PcValues, Started
  <2>5. MayTransition(job[j], st)
    BY <2>1 DEF MayTransition, ValidTransition
  <2>6. ~poisoned => Follows(j, job[j], Moved(job[j], st, late, code))
    BY <2>2, <2>4, <2>5, TransitionValid
  <2> QED
    BY <1>0, <2>2, <2>3, <2>4, <2>6, MovedReplays
<1> QED
  BY <1>1, <1>2

\* The steps that leave jobs and journal alone.
LEMMA ShutdownReplays ==
    ASSUME ReplayInv, JobsInv',
           CloseAdmission \/ ShutdownBegins \/ ShutdownReturns
           \/ (\E j \in Jobs : ShutdownReads(j) \/ ShutdownSkips(j))
    PROVE  ReplayInv'
<1>1. UNCHANGED <<job, journal, key, pc>>
  BY DEF CloseAdmission, ShutdownBegins, ShutdownReturns, ShutdownReads, ShutdownSkips
<1>2. \A i \in Jobs : RecordsValid(i)' /\ PcSound(i)'
  BY <1>1, RecordsStay DEF ReplayInv, PcSound, BeforeStart
<1>3. DistinctKeys'
  BY <1>1 DEF ReplayInv, DistinctKeys
<1> QED
  BY <1>2, <1>3 DEF ReplayInv

\* What shutdown writes next to a controller that stays where it is, and does not hold
\* the lock.
LEMMA ShutdownWriteReplays ==
    ASSUME ReplayInv, JobsInv', NEW j \in Jobs, ShutdownWrites(j)
    PROVE  ReplayInv'
<1>1. /\ UNCHANGED <<key, phase, pc>> /\ phase = "open" /\ drain.at = j
      /\ pc[j] # "discarding"
  BY DEF ShutdownWrites, Serving, LockFree
<1>2. Registered(j) /\ job[j] \in Snapshots /\ pc[j] \in PcValues
  BY <1>1, InMemory, NoneAssumption DEF ReplayInv, JobsInv, DrainSound, TypeOK
<1>3. /\ "Cancelled" \in States /\ "Cancelling" \in States /\ "Cancelled" \in Terminal
      /\ "shutdown_before_start" \in Codes /\ "none" \in Codes /\ FALSE \in BOOLEAN
      /\ "shutdown_before_start" \notin UnfitCodes
  BY DEF States, Terminal, Codes, UnfitCodes
<1>4. ~poisoned => (job[j].reserved => job[j].st = "Running")
  BY <1>2, InMemory DEF Truthful, ReplayInv
<1>5. PICK q \in PcValues : q = pc[j] /\ q # "discarding"
  BY <1>1, <1>2
<1>6. PICK s \in Snapshots :
        /\ Written(j, s) \/ WriteFails(j, s) \/ WriteRefused
        /\ ~poisoned => WriteSound(j, s, q, q)
  <2>1. CASE drain.pending
    <3>1. PICK late \in BOOLEAN : late = FALSE
      OBVIOUS
    <3>2. PICK s \in Snapshots : s = Moved(job[j], "Cancelled", late, "shutdown_before_start")
      BY <1>2, <1>3, MovedSnapshot
    <3>3. Written(j, s) \/ WriteFails(j, s) \/ WriteRefused
      BY <2>1, <3>1, <3>2, Zenon DEF ShutdownWrites
    <3>4. MayTransition(job[j], "Cancelled")
      BY <2>1 DEF ShutdownWrites
    <3>5. ~poisoned => Follows(j, job[j], s)
      BY <1>2, <1>3, <1>4, <3>2, <3>4, TransitionValid
    <3>6. BeforeStart(s)
      BY <3>2 DEF BeforeStart, Moved
    <3> QED
      BY <1>5, <3>3, <3>5, <3>6 DEF WriteSound
  <2>2. CASE ~drain.pending
    <3>1. PICK s \in Snapshots : s = Moved(job[j], "Cancelling", FALSE, "none")
      BY <1>2, <1>3, MovedSnapshot
    <3>2. Written(j, s) \/ WriteFails(j, s) \/ WriteRefused
      BY <2>2, <3>1, Zenon DEF ShutdownWrites, Cancelled
    <3>3. job[j].st \notin Terminal /\ CancelWrites(job[j], FALSE)
      BY <2>2 DEF ShutdownWrites, Active
    <3>4. Follows(j, job[j], s)
      BY <1>2, <1>3, <3>1, <3>3, CancelValid
    <3>5. s.st = "Cancelling"
      BY <3>1 DEF Moved
    <3> QED
      BY <3>2, <3>4, <3>5 DEF WriteSound
  <2> QED
    BY <2>1, <2>2
<1>7. WriteOutcome(j, s, q, q)
  BY <1>1, <1>5, <1>6, WriteBeside DEF ReplayInv
<1> QED
  BY <1>1, <1>2, <1>5, <1>6, <1>7, WriteReplays

\* A registry that is gone leaves its records.
LEMMA StoppedReplays ==
    ASSUME ReplayInv, JobsInv', Stopped, UNCHANGED key,
           \A i \in Jobs : RecordsValid(i)',
           \A i \in Jobs : journal'[i] # <<>> <=> journal[i] # <<>>
    PROVE  ReplayInv'
<1>1. /\ pc' = [j \in Jobs |-> IF journal'[j] = <<>> THEN "none" ELSE "done"]
  BY DEF Stopped
<1>2. DistinctKeys'
  BY DEF ReplayInv, DistinctKeys
<1>3. ASSUME NEW i \in Jobs PROVE PcSound(i)'
  <2>1. pc'[i] \in {"none", "done"}
    BY <1>1
  <2> QED
    BY <1>1, <2>1 DEF PcSound, Started
<1> QED
  BY <1>2, <1>3 DEF ReplayInv

\* What open writes for an interrupted job, replay accepts.
LEMMA FailClosedValid ==
    ASSUME NEW j, NEW s \in Snapshots, s.st \notin Terminal, s.reserved => s.st = "Running",
           NEW late \in BOOLEAN
    PROVE  Follows(j, s, FailClosed(s, late))
<1>1. /\ "Failed" \in States /\ "Failed" \in Terminal
      /\ {"restart_interrupted", "restart_interrupted_commit_ambiguous"}
            \subseteq Codes \ (UnfitCodes \cup {"none"})
  BY DEF States, Terminal, Codes, UnfitCodes
<1>2. CASE s.st = "Running" /\ ~s.reserved
  <2>1. FailClosed(s, late) = Moved(s, "Cancelling", late, "none")
    BY <1>2 DEF FailClosed, Cancelled
  <2>2. CancelWrites(s, late)
    BY <1>2 DEF CancelWrites
  <2>3. Follows(j, s, Moved(s, "Cancelling", late, "none"))
    BY <2>2, CancelValid
  <2> QED
    BY <2>1, <2>3
<1>3. CASE ~(s.st = "Running" /\ ~s.reserved)
  <2>1. PICK c \in Codes \ (UnfitCodes \cup {"none"}) :
          c = IF s.reserved THEN "restart_interrupted_commit_ambiguous"
                            ELSE "restart_interrupted"
    BY <1>1
  <2>2. FailClosed(s, late) = Moved(s, "Failed", late, c)
    BY <1>3, <2>1 DEF FailClosed
  <2>3. MayTransition(s, "Failed")
    BY DEF MayTransition, ValidTransition, Snapshots, States, Terminal
  <2>4. Follows(j, s, Moved(s, "Failed", late, c))
    BY <1>1, <2>3, TransitionValid
  <2> QED
    BY <2>2, <2>4
<1> QED
  BY <1>2, <1>3

\* Crash, open and its recovery.
LEMMA RestartReplays ==
    ASSUME ReplayInv, JobsInv', Crash \/ Open \/ RecoveryDone
    PROVE  ReplayInv'
<1>0. JobsInv'
  OBVIOUS
<1>1. UNCHANGED <<journal, key>>
  BY DEF Crash, Open, RecoveryDone
<1>2. /\ \A i \in Jobs : RecordsValid(i)'
      /\ DistinctKeys'
  BY <1>1, RecordsStay DEF ReplayInv, DistinctKeys
<1>3. CASE Crash
  BY <1>0, <1>1, <1>2, <1>3, StoppedReplays DEF Crash
<1>4. ASSUME Open \/ RecoveryDone PROVE ReplayInv'
  <2>1. phase # "open" /\ pc' = pc
    BY <1>4 DEF Open, RecoveryDone
  <2>2. \A i \in Jobs : pc[i] \in {"none", "done"}
    BY <2>1 DEF ReplayInv, JobsInv, JobSound
  <2>3. \A i \in Jobs : PcSound(i)'
    BY <2>1, <2>2 DEF PcSound, Started
  <2> QED
    BY <1>0, <1>2, <2>3 DEF ReplayInv
<1> QED
  BY <1>0, <1>3, <1>4

\* One write of the recovery.
LEMMA RecoverReplays ==
    ASSUME ReplayInv, JobsInv', NEW j \in Jobs, RecoverJob(j)
    PROVE  ReplayInv'
<1>1. /\ phase = "recovering" /\ Registered(j) /\ job[j].st \notin Terminal
      /\ UNCHANGED key
  BY DEF RecoverJob, Active
<1>2. /\ JobsInv /\ ~poisoned /\ \A i \in Jobs : pc[i] \in {"none", "done"}
  BY <1>1 DEF ReplayInv, JobsInv, JobSound
<1>3. PICK late \in BOOLEAN :
        \/ /\ Written(j, FailClosed(job[j], late))
           /\ UNCHANGED <<accepting, phase, pc, drain>>
        \/ /\ faults < MaxFaults
           /\ faults' = faults + 1
           /\ \/ UNCHANGED <<journal, torn>>
              \/ /\ journal' = [journal EXCEPT ![j] = Append(journal[j], FailClosed(job[j], late))]
                 /\ UNCHANGED torn
              \/ torn' = TRUE /\ UNCHANGED journal
           /\ Stopped
  BY DEF RecoverJob
<1>4. job[j] \in Snapshots /\ job[j] = Latest(j) /\ (job[j].reserved => job[j].st = "Running")
  BY <1>1, <1>2, InMemory DEF Truthful
<1>5. PICK s \in Snapshots : s = FailClosed(job[j], late)
  BY <1>1, <1>2, FailClosedTruthful DEF Active
<1>6. Follows(j, job[j], s)
  BY <1>1, <1>4, <1>5, FailClosedValid
<1>7. CASE Written(j, s) /\ UNCHANGED <<accepting, phase, pc, drain>>
  <2>1. WriteOutcome(j, s, pc[j], pc[j])
    BY <1>2, <1>7, WriteBeside
  <2>2. /\ \A i \in Jobs : RecordsValid(i)'
        /\ \A i \in Jobs : journal'[i] # <<>> <=> journal[i] # <<>>
    BY <1>1, <1>6, <2>1, WriteRecords
  <2>3. DistinctKeys'
    BY <1>1, <2>2 DEF ReplayInv, DistinctKeys
  <2>4. \A i \in Jobs : PcSound(i)'
    BY <1>1, <1>2, <1>7 DEF PcSound, Started
  <2> QED
    BY <2>2, <2>3, <2>4 DEF ReplayInv
<1>8. CASE /\ \/ journal' = journal
              \/ journal' = [journal EXCEPT ![j] = Append(journal[j], s)]
           /\ Stopped
  <2>1. /\ journal \in [Jobs -> Seq(Snapshots)] /\ journal[j] # <<>>
        /\ \A i \in Jobs : RecordsValid(i)
    BY <1>1 DEF ReplayInv, JobsInv, TypeOK, JobSound
  <2>2. ASSUME NEW i \in Jobs PROVE RecordsValid(i)' /\ (journal'[i] # <<>> <=> journal[i] # <<>>)
    <3>1. CASE journal'[i] = journal[i]
      BY <2>1, <3>1, RecordsStay
    <3>2. CASE i = j /\ journal'[i] = Append(journal[i], s)
      <4>1. RecordsValid(j)'
        BY <1>4, <1>6, <2>1, <3>2, AppendValid
      <4>2. journal'[j] # <<>>
        BY <2>1, <3>2, LatestAppended
      <4> QED
        BY <2>1, <3>2, <4>1, <4>2
    <3> QED
      BY <1>8, <2>1, <3>1, <3>2
  <2> QED
    BY <1>1, <1>8, <2>2, StoppedReplays
<1> QED
  BY <1>3, <1>5, <1>7, <1>8

\* Every step.
LEMMA NextReplays ==
    ASSUME ReplayInv, [Next]_vars
    PROVE  ReplayInv'
<1>0. JobsInv'
  BY NextKeeps DEF ReplayInv
<1>1. CASE UNCHANGED vars
  <2>1. UNCHANGED <<job, journal, key, pc>>
    BY <1>1 DEF vars
  <2>2. \A i \in Jobs : RecordsValid(i)' /\ PcSound(i)'
    BY <2>1, RecordsStay DEF ReplayInv, PcSound, BeforeStart
  <2>3. DistinctKeys'
    BY <2>1 DEF ReplayInv, DistinctKeys
  <2> QED
    BY <1>0, <2>2, <2>3 DEF ReplayInv
<1>2. CASE Next
  <2>1. ASSUME NEW j \in Jobs, Work(j) PROVE ReplayInv'
    BY <1>0, <2>1, SubmitReplays, FinishReplays, ReserveReplays, CommitReplays DEF Work
  <2>2. ASSUME NEW j \in Jobs, NEW k \in KeysOf[j], RegisterPending(j, k) PROVE ReplayInv'
    BY <1>0, <2>2, KeysOfAssumption, RegisterReplays
  <2> QED
    BY <1>0, <1>2, <2>1, <2>2, SubmitReplays, CancelReplays, ShutdownReplays,
       ShutdownWriteReplays, RecoverReplays, RestartReplays DEF Next
<1> QED
  BY <1>1, <1>2

\* The replay invariant holds in every reachable state.
LEMMA ReplayInvariant == Spec => []ReplayInv
<1>1. Init => ReplayInv
  <2>1. ASSUME Init PROVE ReplayInv
    <3>1. \A j \in Jobs : RecordsValid(j) /\ PcSound(j)
      BY <2>1 DEF Init, RecordsValid, PcSound, Started
    <3>2. DistinctKeys
      BY <2>1 DEF Init, DistinctKeys
    <3> QED
      BY <2>1, <3>1, <3>2, InitSound DEF ReplayInv
  <2> QED
    BY <2>1
<1>2. ReplayInv /\ [Next]_vars => ReplayInv'
  BY NextReplays
<1> QED
  BY <1>1, <1>2, PTL DEF Spec

(***************************************************************************)
(* Whatever overlaps, fails to be written or is cut off, the journal of    *)
(* runtime_jobs.rs is one that replay_journal accepts, but for a code that *)
(* a careless caller chose and for the second CANCELLED of a job shutdown  *)
(* cancelled as not yet started.                                           *)
(***************************************************************************)
THEOREM JournalAlwaysReplays == Spec => []JournalReplays
<1>1. ReplayInv => JournalReplays
  BY DEF ReplayInv, JournalReplays, RecordsValid
<1> QED
  BY <1>1, ReplayInvariant, PTL

-----------------------------------------------------------------------------
(* What a job's journal says last. *)

\* The journal of job j stays, or one record is added at its end.
Grows(j) == journal'[j] = journal[j] \/ \E s : journal'[j] = Append(journal[j], s)

\* append_then_replace.
LEMMA PersistGrows ==
    ASSUME journal \in [Jobs -> Seq(Snapshots)], NEW j \in Jobs, NEW s, NEW ok, NEW err,
           Persist(j, s, ok, err)
    PROVE  \A i \in Jobs : Grows(i)
<1>1. journal' = journal \/ journal' = [journal EXCEPT ![j] = Append(journal[j], s)]
  BY DEF Persist, Written, WriteFails, WriteRefused
<1> QED
  BY <1>1 DEF Grows

\* No step takes a record back.
LEMMA JournalGrows ==
    ASSUME JobsInv, [Next]_vars
    PROVE  \A i \in Jobs : Grows(i)
<1>0. journal \in [Jobs -> Seq(Snapshots)]
  BY DEF JobsInv, TypeOK
<1>1. ASSUME journal' = journal PROVE \A i \in Jobs : Grows(i)
  BY <1>1 DEF Grows
<1>2. ASSUME NEW j \in Jobs, NEW k, RegisterPending(j, k)
      PROVE  \A i \in Jobs : Grows(i)
  BY <1>0, <1>2, PersistGrows DEF RegisterPending
<1>3. ASSUME NEW j \in Jobs,
             \/ StartRunning(j) \/ SpawnFails(j) \/ RequestCancel(j) \/ DeadlineReached(j)
      PROVE  \A i \in Jobs : Grows(i)
  <2>1. journal' = journal \/ \E s, ok, err : Persist(j, s, ok, err)
    BY <1>3 DEF StartRunning, SpawnFails, RequestCancel, DeadlineReached, NoWrite
  <2> QED
    BY <1>0, <1>1, <2>1, PersistGrows
<1>4. ASSUME NEW j \in Jobs,
             FinishPanicked(j) \/ DiscardLate(j) \/ Discard(j) \/ PreparationFailed(j)
      PROVE  \A i \in Jobs : Grows(i)
  <2>1. journal' = journal \/ \E s, ok, err : Persist(j, s, ok, err)
    BY <1>4 DEF FinishPanicked, DiscardLate, Discard, PreparationFailed, NoWrite
  <2> QED
    BY <1>0, <1>1, <2>1, PersistGrows
<1>5. ASSUME NEW j \in Jobs, ReserveCommit(j) \/ RecordOutcome(j)
      PROVE  \A i \in Jobs : Grows(i)
  <2>1. \E s, ok, err : Persist(j, s, ok, err)
    BY <1>5 DEF ReserveCommit, RecordOutcome
  <2> QED
    BY <1>0, <2>1, PersistGrows
<1>6. ASSUME NEW j \in Jobs, ShutdownWrites(j) PROVE \A i \in Jobs : Grows(i)
  <2>1. journal' = journal \/ \E s : journal' = [journal EXCEPT ![j] = Append(journal[j], s)]
    BY <1>6 DEF ShutdownWrites, Written, WriteFails, WriteRefused
  <2> QED
    BY <1>0, <2>1 DEF Grows
<1>7. ASSUME NEW j \in Jobs, RecoverJob(j) PROVE \A i \in Jobs : Grows(i)
  <2>1. journal' = journal \/ \E s : journal' = [journal EXCEPT ![j] = Append(journal[j], s)]
    BY <1>7 DEF RecoverJob, Written
  <2> QED
    BY <1>0, <2>1 DEF Grows
<1>8. ASSUME NEW j \in Jobs,
             \/ SpawnWorker(j) \/ PrepareReturns(j) \/ CommitRuns(j)
             \/ ShutdownReads(j) \/ ShutdownSkips(j)
      PROVE  \A i \in Jobs : Grows(i)
  BY <1>1, <1>8 DEF SpawnWorker, PrepareReturns, CommitRuns, ShutdownReads, ShutdownSkips
<1>9. ASSUME CloseAdmission \/ ShutdownBegins \/ ShutdownReturns \/ Crash \/ Open \/ RecoveryDone
      PROVE  \A i \in Jobs : Grows(i)
  BY <1>1, <1>9 DEF CloseAdmission, ShutdownBegins, ShutdownReturns, Crash, Open, RecoveryDone
<1>10. ASSUME UNCHANGED vars PROVE \A i \in Jobs : Grows(i)
  BY <1>1, <1>10 DEF vars
<1>11. ASSUME NEW j \in Jobs, Work(j) PROVE \A i \in Jobs : Grows(i)
  BY <1>3, <1>4, <1>5, <1>8, <1>11 DEF Work
<1> QED
  BY <1>2, <1>3, <1>6, <1>7, <1>8, <1>9, <1>10, <1>11 DEF Next

\* A terminal snapshot has no legal successor.
LEMMA NoneAfterTerminal ==
    ASSUME NEW p, p.st \in Terminal, NEW n, ValidRecord(p, n)
    PROVE  FALSE
<1>1. /\ p.st # "Running" /\ p.st # "Cancelling" /\ p.st # "Pending"
  BY DEF Terminal
<1> QED
  BY <1>1 DEF ValidRecord, ValidTransition

(***************************************************************************)
(* The outcome a job's journal records is final: no later cancel, timeout, *)
(* shutdown, late result, failed write or restart adds a record to it, so  *)
(* what a caller was once told of a job is what it is told ever after.     *)
(* The exception is the job that shutdown cancelled as not yet started and *)
(* that has a controller: it may be CANCELLED once more.                   *)
(***************************************************************************)
OutcomeFinal ==
    [][\A j \in Jobs : journal[j] # <<>> /\ Latest(j).st \in Terminal =>
                           journal'[j] = journal[j] \/ CancelledAgain(Latest(j), Latest(j)')]_vars

(***************************************************************************)
(* A terminal record of runtime_jobs.rs is the last of its job, across     *)
(* restarts, but for the one that CancelledAgain describes.                *)
(***************************************************************************)
THEOREM OutcomesAreFinal == Spec => OutcomeFinal
<1>1. ReplayInv /\ [Next]_vars =>
        [\A j \in Jobs : journal[j] # <<>> /\ Latest(j).st \in Terminal =>
             journal'[j] = journal[j] \/ CancelledAgain(Latest(j), Latest(j)')]_vars
  <2> SUFFICES ASSUME ReplayInv, [Next]_vars, NEW j \in Jobs,
                      journal[j] # <<>>, Latest(j).st \in Terminal
               PROVE  journal'[j] = journal[j] \/ CancelledAgain(Latest(j), Latest(j)')
      OBVIOUS
  <2>1. JobsInv /\ Grows(j)
    BY JournalGrows DEF ReplayInv
  <2>2. ReplayInv'
    BY NextReplays
  <2>3. journal[j] \in Seq(Snapshots) /\ journal'[j] \in Seq(Snapshots)
    BY <2>1, <2>2 DEF ReplayInv, JobsInv, TypeOK
  <2>4. ASSUME NEW s, journal'[j] = Append(journal[j], s)
        PROVE  CancelledAgain(Latest(j), Latest(j)')
    <3>1. PICK k \in Nat : k = Len(journal[j])
      BY <2>3
    <3>2. k # 0
      BY <2>3, <3>1
    <3>3. Len(journal'[j]) = k + 1 /\ journal'[j][k] = journal[j][k]
      BY <2>3, <2>4, <3>1, <3>2
    <3>4. journal'[j] # <<>> /\ k + 1 \in 2..Len(journal'[j])
      BY <2>3, <3>2, <3>3
    <3>5. Follows(j, journal'[j][(k + 1) - 1], journal'[j][k + 1])
      <4>1. RecordsValid(j)'
        BY <2>2 DEF ReplayInv
      <4> QED
        BY <3>4, <4>1 DEF RecordsValid, Follows, ValidRecord, ValidTransition, CancelledAgain,
                          Moved, ValidShape, UnfitCodes, Terminal
    <3>6. PICK p, n : p = journal'[j][k] /\ n = journal'[j][k + 1]
      OBVIOUS
    <3>7. ValidRecord(p, n) \/ CancelledAgain(p, n)
      BY <3>5, <3>6 DEF Follows
    <3>8. p = Latest(j) /\ n = Latest(j)'
      BY <3>1, <3>3, <3>6 DEF Latest
    <3> QED
      BY <3>7, <3>8, NoneAfterTerminal
  <2> QED
    BY <2>1, <2>4 DEF Grows
<1> QED
  BY <1>1, ReplayInvariant, PTL DEF Spec, OutcomeFinal

=============================================================================
