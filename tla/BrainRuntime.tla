---------------------------- MODULE BrainRuntime ----------------------------
(***************************************************************************)
(* The actor that owns one brain, m1nd-mcp/src/brain_runtime.rs, over its  *)
(* checkpoint store: snapshots and optimistic commits, mutating and read   *)
(* turns, the checkpoint of a turn, rollback, quarantine, reconciliation,  *)
(* the lease fence, stop, crash and boot.                                  *)
(*                                                                         *)
(* The brain's durable state is the sequence of the updates applied to it, *)
(* with a count of the read turns that drifted its weights and sidecars,   *)
(* and of those among them whose handler asked for a persist.  A write is  *)
(* the callback of execute or execute_with_checkpoint_ack, a proposal is   *)
(* what a runtime job computed from a snapshot and hands to commit.        *)
(*                                                                         *)
(* The actor is one thread.  Its steps are told apart where another thread *)
(* (the heartbeat) or a crash can come between them.  A command waiting in *)
(* the actor's queue is one that has not started.                          *)
(*                                                                         *)
(* Operators introduced with "fault" or "without" are deliberate wrong     *)
(* versions of the operator that follows them.  Nothing uses them; they    *)
(* are there so that the properties can be shown to notice the difference. *)
(***************************************************************************)
EXTENDS CheckpointStore, SequencesExt

CONSTANTS Writes, Proposals,
          Debounce,       \* auto_persist_interval, in persists asked for
          MaxDrift,       \* bound: read turns that drift the weights
          MaxPreActor,    \* bound: generation bumps made before the actor starts
          MaxManifests,   \* bound: candidates built
          MaxFaults,      \* bound: I/O errors, fences and decayed directories
          MaxCrashes      \* bound: crashes

ASSUME UpdatesAssumption == Writes \cap Proposals = {}
ASSUME DebounceAssumption == Debounce \in Nat \ {0}
ASSUME BoundsAssumption == MaxFaults \in Nat /\ MaxCrashes \in Nat

VARIABLES proc,      \* "down", "stopped" (the process lives, no actor) or "run"
          at,        \* where the actor is in its turn
          attempt,   \* which of the two create_checkpoint calls
          turn,      \* the command being run: its kind and its update
          cell,      \* BrainSessionCell: "live", "out" (checked out) or "vault"
          mem,       \* SessionState: the updates, the drift and the persists asked for
          gen,       \* session_generation
          ver,       \* the actor's version
          current,   \* current_manifest
          pend,      \* pending_reconciliation or pending_rollback
          deferred,  \* deferred_read_publishes
          degraded,  \* degraded_fallback
          fenced,    \* lease_fenced: "no", "yes", or "left" by a heartbeat that ended
          prop,      \* prop[p]: the snapshot p was computed from, and how p fared
          acked,     \* the last checkpoint a caller was told of, 0 before
          faults, crashes

actor == <<at, attempt, turn, cell, mem, gen, ver, current, pend, deferred, degraded>>

vars == <<store, actor, proc, fenced, prop, acked, faults, crashes>>

Fresh == Version(0, 0)

Blank == [log |-> <<>>, drift |-> 0, asked |-> 0]

NoTurn == [kind |-> "none", who |-> None]

NoPend == [kind |-> "none", cand |-> None, prev |-> None, before |-> Fresh]

\* begin_state_stage arms the rollback before anything can go wrong.
RollbackPacket == [kind |-> "rollback", cand |-> None, prev |-> current, before |-> ver']

Idle == proc = "run" /\ at = "idle"

\* ensure_checkpointable; ensure_writable too while the session is not quarantined.
Checkpointable == fenced = "no" /\ ~degraded

Fault == faults < MaxFaults /\ faults' = faults + 1

\* refresh_external_generation.
Refreshed == IF gen > ver.g THEN Version(gen, ver.r + 1) ELSE ver

-----------------------------------------------------------------------------
(* Turns. *)

\* read_snapshot.
Snapshot(p) ==
    /\ Idle /\ cell = "live"
    /\ prop[p].st = "none"
    /\ ver' = Refreshed
    /\ prop' = [prop EXCEPT ![p] = [st |-> "prepared", ver |-> Refreshed, log |-> mem.log]]
    /\ UNCHANGED <<store, proc, at, attempt, turn, cell, mem, gen, current, pend, deferred,
                   degraded, fenced, acked, faults, crashes>>

\* The session is checked out, the version refreshed and the rollback armed.
Begin(kind, who) ==
    /\ Idle /\ cell = "live"
    /\ Len(man) < MaxManifests
    /\ cell' = "out"
    /\ ver' = Refreshed
    /\ turn' = [kind |-> kind, who |-> who]
    /\ pend' = RollbackPacket
    /\ at' = "callback"
    /\ UNCHANGED <<store, proc, attempt, mem, gen, current, deferred, degraded, fenced, acked,
                   faults, crashes>>

\* execute of a mutation, and execute_with_checkpoint_ack.
BeginWrite(w) ==
    /\ Checkpointable
    /\ \A n \in 1..Len(mem.log) : mem.log[n] # w
    /\ Begin("write", w)
    /\ UNCHANGED prop

\* execute of a read-only verb that drifts the weights.  "asking" is one whose handler
\* calls persist or note_durable_sidecar_drift: a query does at every interval-th query,
\* other verbs never or always.
BeginRead ==
    /\ mem.drift < MaxDrift
    /\ \E kind \in {"read", "asking"} : Begin(kind, None)
    /\ UNCHANGED prop

\* commit, whose snapshot is current (without the comparison).
AnyVersion(p, v) == TRUE

\* commit, whose snapshot is current.
SnapshotIsCurrent(p, v) == prop[p].ver = v

BeginCommit(p) ==
    /\ Checkpointable
    /\ prop[p].st = "prepared"
    /\ SnapshotIsCurrent(p, Refreshed)
    /\ Begin("commit", p)
    /\ prop' = [prop EXCEPT ![p].st = "tried"]

\* commit answers SnapshotStale; apply is not called.
CommitStale(p) ==
    /\ Idle /\ cell = "live"
    /\ Checkpointable
    /\ prop[p].st = "prepared"
    /\ ~SnapshotIsCurrent(p, Refreshed)
    /\ ver' = Refreshed
    /\ prop' = [prop EXCEPT ![p].st = "tried"]
    /\ UNCHANGED <<store, proc, at, attempt, turn, cell, mem, gen, current, pend, deferred,
                   degraded, fenced, acked, faults, crashes>>

\* The session as the callback leaves it.
Reading == turn.kind \in {"read", "asking"}

Applied ==
    IF Reading
    THEN [log |-> mem.log, drift |-> mem.drift + 1,
          asked |-> IF turn.kind = "asking" THEN mem.asked + 1 ELSE mem.asked]
    ELSE [mem EXCEPT !.log = Append(@, turn.who)]

AppliedGen == IF Reading THEN gen ELSE gen + 1

\* The callback answers an error or panics, the lease was fenced meanwhile, or
\* the state it left cannot be serialised.
CallbackRefused ==
    /\ proc = "run" /\ at = "callback"
    /\ mem' \in {mem, Applied}
    /\ at' = "rollback"
    /\ UNCHANGED <<store, proc, attempt, turn, cell, gen, ver, current, pend, deferred,
                   degraded, fenced, prop, acked, faults, crashes>>

\* execute, whether a read turn owes a checkpoint (fault: one turn too late).
DueLate == turn.kind = "asking" /\ deferred >= Debounce

\* execute, whether a read turn owes a checkpoint: only a turn that asked for a persist
\* does, or counts.
Due == turn.kind = "asking" /\ deferred + 1 >= Debounce

\* A read turn that only drifted the weights leaves no checkpoint.
ReadDeferred ==
    /\ proc = "run" /\ at = "callback"
    /\ Reading
    /\ Checkpointable
    /\ ~Due
    /\ mem' = Applied
    /\ deferred' = IF turn.kind = "asking" THEN deferred + 1 ELSE deferred
    /\ pend' = NoPend
    /\ cell' = "live"
    /\ at' = "idle"
    /\ turn' = NoTurn
    /\ UNCHANGED <<store, proc, attempt, gen, ver, current, degraded, fenced, prop, acked,
                   faults, crashes>>

\* checkpoint_state builds the candidate of version v with state s and trades the
\* rollback packet for a packet that names both outcomes.
Candidate(s, v) ==
    LET c == Len(man) + 1
    IN /\ man' = Append(man, [prev |-> current, ver |-> v, state |-> s])
       /\ pend' = [kind |-> "checkpoint", cand |-> c, prev |-> current, before |-> ver]
       /\ ver' = v
       /\ at' = "write"
       /\ attempt' = 1
       /\ UNCHANGED <<dirs, safeDirs, ptr, safePtr, bad>>

CallbackReturns ==
    /\ proc = "run" /\ at = "callback"
    /\ Checkpointable
    /\ Reading => Due
    /\ mem' = Applied
    /\ gen' = AppliedGen
    /\ Candidate(Applied, Version(IF ver.g + 1 > AppliedGen THEN ver.g + 1 ELSE AppliedGen,
                                  ver.r + 1))
    /\ UNCHANGED <<proc, turn, cell, current, deferred, degraded, fenced, prop, acked, faults,
                   crashes>>

\* checkpoint_current of a running actor, or the first checkpoint of a new brain:
\* the state is published as it stands, under a version beyond CURRENT's unless
\* nothing changed, in which case the candidate is CURRENT itself.
CheckpointCurrent(kind) ==
    /\ cell' = "out"
    /\ turn' = [kind |-> kind, who |-> None]
    /\ LET v == Refreshed
           unchanged == current # None /\ man[current].ver = v /\ man[current].state = mem
           next == IF current # None /\ ~Newer(v, man[current].ver)
                   THEN Version(v.g + 1, v.r + 1)
                   ELSE v
       IN IF unchanged
          THEN /\ pend' = [kind |-> "checkpoint", cand |-> current, prev |-> current,
                           before |-> ver]
               /\ at' = "write"
               /\ attempt' = 1
               /\ UNCHANGED <<store, ver>>
          ELSE Candidate(mem, next)
    /\ UNCHANGED <<proc, mem, gen, current, deferred, degraded, fenced, prop, acked, faults,
                   crashes>>

Flush ==
    /\ Idle /\ cell = "live"
    /\ Checkpointable
    /\ Len(man) < MaxManifests
    /\ CheckpointCurrent("flush")

Bootstrap ==
    /\ proc = "run" /\ at = "bootstrap"
    /\ CheckpointCurrent("bootstrap")

-----------------------------------------------------------------------------
(* The checkpoint of a turn: create_checkpoint is called up to twice. *)

StepTo(next) ==
    /\ at' = next
    /\ UNCHANGED <<proc, attempt, turn, cell, mem, gen, ver, current, pend, deferred, degraded,
                   fenced, prop, acked, faults, crashes>>

CreateStarts ==
    /\ proc = "run" /\ at = "write"
    /\ IF AlreadyCurrent(pend.cand)
       THEN Intact(pend.cand) /\ UNCHANGED store /\ StepTo("syncroot")
       ELSE MaySucceed(pend.cand) /\ WriteImmutable(pend.cand) /\ StepTo("syncdirs")

CreateSyncsDirectory ==
    /\ proc = "run" /\ at = "syncdirs"
    /\ SyncCheckpoints
    /\ StepTo("publish")

CreatePublishes ==
    /\ proc = "run" /\ at = "publish"
    /\ PublishCurrent(pend.cand)
    /\ StepTo("syncroot")

CreateSyncsRoot ==
    /\ proc = "run" /\ at = "syncroot"
    /\ SyncRoot
    /\ StepTo("confirm")

\* The ACK proves that CURRENT names the candidate.
CreateConfirms ==
    /\ proc = "run" /\ at = "confirm"
    /\ Confirmed(pend.cand)
    /\ current' = pend.cand
    /\ at' = "load" /\ attempt' = 1
    /\ UNCHANGED <<store, proc, turn, cell, mem, gen, ver, pend, deferred, degraded,
                   fenced, prop, acked, faults, crashes>>

\* The end of a failed attempt (without a limit).
RetryForever ==
    /\ at' = "write" /\ attempt' = attempt + 1
    /\ UNCHANGED <<store, proc, turn, cell, mem, gen, ver, current, pend, deferred, degraded,
                   fenced, prop, acked, crashes>>

\* The end of a failed attempt.
NextAttempt ==
    /\ IF attempt = 1 THEN at' = "write" /\ attempt' = 2
                      ELSE at' = "classify" /\ attempt' = 1
    /\ UNCHANGED <<store, proc, turn, cell, mem, gen, ver, current, pend, deferred, degraded,
                   fenced, prop, acked, crashes>>

\* A step of the attempt fails.  What fails it may last, so the retry's failure is not
\* counted again.
CreateFails ==
    /\ proc = "run" /\ at \in {"write", "syncdirs", "publish", "syncroot", "confirm"}
    /\ IF attempt = 1 THEN Fault ELSE UNCHANGED faults
    /\ NextAttempt

\* The predecessor no longer validates.
CreateRefused ==
    /\ proc = "run" /\ at = "write"
    /\ IF AlreadyCurrent(pend.cand) THEN ~Intact(pend.cand) ELSE ~MaySucceed(pend.cand)
    /\ NextAttempt
    /\ UNCHANGED faults

\* quarantine (fault: the packet is dropped).
QuarantineDropsPacket ==
    /\ cell' = "vault"
    /\ at' = "idle"
    /\ turn' = NoTurn
    /\ pend' = NoPend
    /\ UNCHANGED <<store, proc, attempt, mem, gen, ver, deferred, degraded, fenced, prop,
                   acked, crashes>>

\* quarantine: the session goes to the vault and the packet stays.
Quarantine ==
    /\ cell' = "vault"
    /\ at' = "idle"
    /\ turn' = NoTurn
    /\ UNCHANGED <<store, proc, attempt, mem, gen, ver, pend, deferred, degraded, fenced, prop,
                   acked, crashes>>

\* Both attempts failed: CURRENT tells whether the candidate was selected.
ClassifyInDoubt ==
    /\ proc = "run" /\ at = "classify"
    /\ Current # current \/ Current = pend.cand
    /\ current' = IF Current = pend.cand THEN pend.cand ELSE current
    /\ Quarantine
    /\ UNCHANGED faults

\* Both attempts failed and CURRENT is the predecessor, or still missing.
ClassifyNotSelected ==
    /\ proc = "run" /\ at = "classify"
    /\ Current = current /\ Current # pend.cand
    /\ at' = "rollback"
    /\ UNCHANGED <<store, proc, attempt, turn, cell, mem, gen, ver, current, pend, deferred,
                   degraded, fenced, prop, acked, faults, crashes>>

\* Both attempts failed and CURRENT cannot be read (fault: taken for not selected).
UnreadableRollsBack ==
    /\ proc = "run" /\ at = "classify"
    /\ Fault
    /\ at' = "rollback"
    /\ UNCHANGED <<store, proc, attempt, turn, cell, mem, gen, ver, current, pend, deferred,
                   degraded, fenced, prop, acked, crashes>>

\* Both attempts failed and CURRENT cannot be read.
ClassifyUnreadable ==
    /\ proc = "run" /\ at = "classify"
    /\ Fault
    /\ UNCHANGED current
    /\ Quarantine

\* After the ACK: load_current, the projection of the working files, the
\* post-commit effects and the end of the stage.  The caller gets its answer.  Only
\* execute counts the deferred requests anew.
TurnEnds ==
    /\ proc = "run" /\ at = "load"
    /\ Intact(pend.cand)
    /\ acked' = pend.cand
    /\ pend' = NoPend
    /\ cell' = "live"
    /\ at' = "idle"
    /\ turn' = NoTurn
    /\ \/ turn.kind \in {"write", "asking"} /\ deferred' = 0
       \/ turn.kind # "asking" /\ deferred' = deferred
    /\ UNCHANGED <<store, proc, attempt, mem, gen, ver, current, degraded, fenced, prop,
                   faults, crashes>>

\* One of those steps fails after CURRENT selected the candidate.
TurnUnconfirmed ==
    /\ proc = "run" /\ at = "load"
    /\ Fault
    /\ UNCHANGED current
    /\ Quarantine

-----------------------------------------------------------------------------
(* Rollback and reconciliation. *)

\* The session is rebuilt from checkpoint c and handed out again.
Restored(c) ==
    /\ mem' = man[c].state
    /\ gen' = 0
    /\ ver' = man[c].ver
    /\ current' = c
    /\ pend' = NoPend
    /\ cell' = "live"
    /\ at' = "idle"
    /\ turn' = NoTurn
    /\ UNCHANGED <<proc, attempt, deferred, degraded, fenced, prop, acked, faults, crashes>>

\* rollback_callback_state, and quarantine_failed_state before CURRENT moved.
Rollback ==
    /\ proc = "run" /\ at = "rollback"
    /\ current # None /\ Intact(current)
    /\ Restored(current)
    /\ UNCHANGED store

\* The same for the first checkpoint of a brain: the session is as it was, and the
\* start of the actor fails.
BootstrapRollback ==
    /\ proc = "run" /\ at = "rollback"
    /\ current = None
    /\ proc' = "stopped"
    /\ ver' = pend.before
    /\ pend' = NoPend
    /\ cell' = "live"
    /\ at' = "idle"
    /\ turn' = NoTurn
    /\ UNCHANGED <<store, attempt, mem, gen, current, deferred, degraded, fenced, prop, acked,
                   faults, crashes>>

\* The rollback itself fails: the session is quarantined with its packet.
RollbackFails ==
    /\ proc = "run" /\ at = "rollback"
    /\ current # None
    /\ \/ Intact(current) /\ Fault
       \/ ~Intact(current) /\ UNCHANGED faults
    /\ UNCHANGED current
    /\ Quarantine

\* run_actor, between commands, while a packet is pending.
Reconciling(kind) == Idle /\ cell = "vault" /\ pend.kind = kind /\ Checkpointable

\* reconcile_pending_checkpoint: CURRENT selected the candidate, which the vault
\* still holds.  The root is synced and the candidate confirmed before it is served.
ReconcileForward ==
    /\ Reconciling("checkpoint")
    /\ Confirmed(pend.cand)
    /\ mem = man[pend.cand].state
    /\ SyncRoot
    /\ ver' = man[pend.cand].ver
    /\ current' = pend.cand
    /\ acked' = pend.cand
    /\ pend' = NoPend
    /\ cell' = "live"
    /\ UNCHANGED <<proc, at, attempt, turn, mem, gen, deferred, degraded, fenced, prop, faults,
                   crashes>>

\* reconcile_pending_checkpoint fails after the sync and is tried again later.
ReconcileFails ==
    /\ Reconciling("checkpoint")
    /\ Confirmed(pend.cand)
    /\ Fault
    /\ SyncRoot
    /\ UNCHANGED <<actor, proc, fenced, prop, acked, crashes>>

\* reconcile_pending_checkpoint: CURRENT is still the predecessor.
ReconcileBack ==
    /\ Reconciling("checkpoint")
    /\ pend.prev # None /\ Current = pend.prev /\ Current # pend.cand
    /\ Intact(pend.prev)
    /\ Restored(pend.prev)
    /\ UNCHANGED store

\* reconcile_pending_rollback.
ReconcileRollback ==
    /\ Reconciling("rollback")
    /\ pend.prev # None /\ Current = pend.prev
    /\ Intact(pend.prev)
    /\ Restored(pend.prev)
    /\ UNCHANGED store

Reconcile == ReconcileForward \/ ReconcileBack \/ ReconcileRollback

-----------------------------------------------------------------------------
(* The lease, the life of the process and the store's own calls. *)

\* A heartbeat fails.
FenceRaised ==
    /\ proc = "run" /\ fenced = "no"
    /\ Fault
    /\ fenced' = "yes"
    /\ UNCHANGED <<store, actor, proc, prop, acked, crashes>>

\* The heartbeat finds its owner released, or panics: it raises the fence and ends.
HeartbeatEnds ==
    /\ proc = "run" /\ fenced # "left"
    /\ Fault
    /\ fenced' = "left"
    /\ UNCHANGED <<store, actor, proc, prop, acked, crashes>>

\* A heartbeat succeeds after one that failed.
FenceCleared ==
    /\ proc = "run" /\ fenced = "yes"
    /\ fenced' = "no"
    /\ UNCHANGED <<store, actor, proc, prop, acked, faults, crashes>>

\* stop: refused, or put off, while a packet is pending.
Stop ==
    /\ Idle /\ pend = NoPend
    /\ proc' = "stopped"
    /\ UNCHANGED <<store, actor, fenced, prop, acked, faults, crashes>>

\* lock_mut_before_actor: a newborn brain's generation moves before its actor starts.
PreActorBump ==
    /\ proc # "run" /\ cell = "live"
    /\ ptr = None
    /\ gen < MaxPreActor
    /\ gen' = gen + 1
    /\ UNCHANGED <<store, proc, at, attempt, turn, cell, mem, ver, current, pend, deferred,
                   degraded, fenced, prop, acked, faults, crashes>>

\* The actor starts from checkpoint c.  Process state survives only next to the
\* very state the checkpoint holds.
BootFrom(c, fallback) ==
    /\ proc \in {"stopped", "down"} /\ cell = "live"
    /\ proc' = "run"
    /\ gen' = IF mem = man[c].state THEN gen ELSE 0
    /\ mem' = man[c].state
    /\ ver' = man[c].ver
    /\ current' = c
    /\ degraded' = fallback
    /\ deferred' = 0
    /\ fenced' = "no"
    /\ OpenStore
    /\ UNCHANGED <<at, attempt, turn, cell, pend, prop, acked, faults, crashes>>

BootCurrent == LoadsCurrent /\ BootFrom(ptr.cur, FALSE)

BootFallback == LoadsFallback /\ BootFrom(ptr.fb, TRUE)

\* No CURRENT: a new brain, which takes no command before its first checkpoint.
BootFresh ==
    /\ proc \in {"stopped", "down"} /\ cell = "live"
    /\ ptr = None
    /\ Len(man) < MaxManifests
    /\ proc' = "run"
    /\ at' = "bootstrap"
    /\ ver' = Fresh
    /\ current' = None
    /\ degraded' = FALSE
    /\ deferred' = 0
    /\ fenced' = "no"
    /\ OpenStore
    /\ UNCHANGED <<attempt, turn, cell, mem, gen, pend, prop, acked, faults, crashes>>

\* The recovery of an existing brain fails half-way: the session is quarantined and
\* no actor owns it.  Only a new process helps.
BootFails ==
    /\ proc \in {"stopped", "down"} /\ cell = "live"
    /\ ptr # None
    /\ Fault
    /\ proc' = "stopped"
    /\ cell' = "vault"
    /\ OpenStore
    /\ UNCHANGED <<at, attempt, turn, mem, gen, ver, current, pend, deferred, degraded, fenced,
                   prop, acked, crashes>>

Crash ==
    /\ proc # "down"
    /\ crashes < MaxCrashes
    /\ crashes' = crashes + 1
    /\ DiskAfterCrash
    /\ proc' = "down"
    /\ at' = "idle"
    /\ attempt' = 1
    /\ turn' = NoTurn
    /\ cell' = "live"
    /\ mem' = Blank
    /\ gen' = 0
    /\ ver' = Fresh
    /\ current' = None
    /\ pend' = NoPend
    /\ deferred' = 0
    /\ degraded' = FALSE
    /\ fenced' = "no"
    /\ prop' = [p \in Proposals |->
                  IF prop[p].st = "prepared" THEN [prop[p] EXCEPT !.st = "tried"] ELSE prop[p]]
    /\ UNCHANGED <<acked, faults>>

\* gc, between two calls of the store.
CollectGarbage ==
    /\ proc = "run" /\ at \in {"idle", "callback", "load", "classify", "rollback"}
    /\ Gc
    /\ UNCHANGED <<actor, proc, fenced, prop, acked, faults, crashes>>

\* The media decay while the actor is between commands or not running.
Decay ==
    /\ at = "idle"
    /\ Fault
    /\ Rot
    /\ UNCHANGED <<actor, proc, fenced, prop, acked, crashes>>

-----------------------------------------------------------------------------
Init ==
    /\ StoreInit
    /\ proc = "down"
    /\ at = "idle"
    /\ attempt = 1
    /\ turn = NoTurn
    /\ cell = "live"
    /\ mem = Blank
    /\ gen = 0
    /\ ver = Fresh
    /\ current = None
    /\ pend = NoPend
    /\ deferred = 0
    /\ degraded = FALSE
    /\ fenced = "no"
    /\ prop = [p \in Proposals |-> [st |-> "none", ver |-> Fresh, log |-> <<>>]]
    /\ acked = 0
    /\ faults = 0
    /\ crashes = 0

\* What the actor does by itself once a command has started.
ActorStep ==
    \/ CallbackReturns
    \/ CallbackRefused
    \/ ReadDeferred
    \/ Bootstrap
    \/ CreateStarts
    \/ CreateSyncsDirectory
    \/ CreatePublishes
    \/ CreateSyncsRoot
    \/ CreateConfirms
    \/ CreateRefused
    \/ ClassifyInDoubt
    \/ ClassifyNotSelected
    \/ TurnEnds
    \/ Rollback
    \/ BootstrapRollback
    \/ Reconcile

Next ==
    \/ ActorStep
    \/ \E p \in Proposals : Snapshot(p) \/ BeginCommit(p) \/ CommitStale(p)
    \/ \E w \in Writes : BeginWrite(w)
    \/ BeginRead
    \/ Flush
    \/ CreateFails
    \/ ClassifyUnreadable
    \/ TurnUnconfirmed
    \/ RollbackFails
    \/ ReconcileFails
    \/ FenceRaised
    \/ HeartbeatEnds
    \/ FenceCleared
    \/ Stop
    \/ PreActorBump
    \/ BootCurrent
    \/ BootFallback
    \/ BootFresh
    \/ BootFails
    \/ Crash
    \/ CollectGarbage
    \/ Decay

Spec == Init /\ [][Next]_vars

\* The actor's thread reconciles between commands, and after a failed heartbeat another
\* one is sent every second until one succeeds or the thread ends.
FairSpec == Spec /\ WF_vars(Reconcile) /\ WF_vars(FenceCleared)

-----------------------------------------------------------------------------
Updates == Writes \cup Proposals

SessionStates == [log : Seq(Updates), drift : Nat, asked : Nat]

Versions == [g : Nat, r : Nat]

Ids == 1..Len(man)

Fences == {"no", "yes", "left"}

Pointers == [cur : Ids, fb : Ids \cup {None}] \cup {None}

TypeOK ==
    /\ man \in Seq([prev : Nat \cup {None}, ver : Versions, state : SessionStates])
    /\ dirs \subseteq Ids /\ safeDirs \subseteq dirs /\ bad \subseteq Ids
    /\ ptr \in Pointers /\ safePtr \in Pointers
    /\ proc \in {"down", "stopped", "run"}
    /\ at \in {"idle", "callback", "bootstrap", "write", "syncdirs", "publish", "syncroot",
               "confirm", "load", "classify", "rollback"}
    /\ attempt \in 1..2
    /\ turn \in [kind : {"none", "write", "read", "asking", "commit", "flush", "bootstrap"},
                 who : Updates \cup {None}]
    /\ cell \in {"live", "out", "vault"}
    /\ mem \in SessionStates
    /\ gen \in Nat
    /\ ver \in Versions
    /\ current \in Ids \cup {None}
    /\ pend \in [kind : {"none", "checkpoint", "rollback"}, cand : Ids \cup {None},
                 prev : Ids \cup {None}, before : Versions]
    /\ deferred \in Nat
    /\ degraded \in BOOLEAN /\ fenced \in Fences
    /\ prop \in [Proposals -> [st : {"none", "prepared", "tried"}, ver : Versions,
                               log : Seq(Updates)]]
    /\ acked \in 0..Len(man)
    /\ faults \in 0..MaxFaults /\ crashes \in 0..MaxCrashes

(***************************************************************************)
(* What a power loss could leave of CURRENT is always a checkpoint whose   *)
(* directory, and whose fallback's directory, are on disk, and it holds    *)
(* every update a caller was told of: neither the order of the writes and  *)
(* syncs in create_checkpoint, nor its retry, nor the garbage collector    *)
(* working next to a rename that is not synced yet, loses one.             *)
(***************************************************************************)
AcknowledgedSurvives ==
    \A x \in {ptr, safePtr} :
        /\ acked > 0 => x # None
        /\ x # None =>
              /\ {x.cur, x.fb} \ {None} \subseteq safeDirs
              /\ acked > 0 => IsPrefix(man[acked].state.log, man[x.cur].state.log)

(***************************************************************************)
(* The session that answers commands is the one CURRENT names (the         *)
(* fallback's on a degraded boot), give or take the drift of read turns.   *)
(* Of these, fewer than auto_persist_interval asked for a persist; turns   *)
(* that ask for none count for nothing, and their drift waits, unbounded,  *)
(* for a checkpoint that another turn owes.  A candidate whose checkpoint  *)
(* failed, is in doubt, or was rolled back half-way is never served,       *)
(* whichever step failed and however often.                                *)
(***************************************************************************)
ServedIsCurrent ==
    Idle /\ cell = "live" =>
        /\ ptr # None
        /\ LET served == man[IF degraded THEN ptr.fb ELSE ptr.cur].state
           IN mem.log = served.log /\ mem.asked < served.asked + Debounce

(***************************************************************************)
(* A proposal is applied to the very state it was computed from: between   *)
(* its snapshot and its commit no other update got in and none was rolled  *)
(* back.                                                                   *)
(***************************************************************************)
ProposalsFresh ==
    \A c \in Ids : \A n \in 1..Len(man[c].state.log) :
        LET p == man[c].state.log[n]
        IN p \in Proposals => SubSeq(man[c].state.log, 1, n - 1) = prop[p].log

(***************************************************************************)
(* A quarantine ends: with CURRENT in place and its directory intact, the  *)
(* actor's reconciliation gives the brain back by itself, unless the       *)
(* heartbeat ended and left its fence, which only a new process removes:   *)
(* the fence puts reconciliation off, and the packet puts stop off.        *)
(***************************************************************************)
QuarantineEnds ==
    (proc = "run" /\ cell = "vault" /\ ptr # None)
        ~> (proc # "run" \/ cell # "vault" \/ Current \in bad \/ fenced = "left")
=============================================================================
