-------------------------- MODULE ExternalMutation --------------------------
(***************************************************************************)
(* Typed external mutations, m1nd-mcp/src/external_mutation_service.rs,    *)
(* over their journal (external_mutation_journal.rs) and the one-shot      *)
(* leases of the owner's broker (owner_authorization_broker.rs): admission *)
(* with its recovery barrier, reservation, staging, the handshake with the *)
(* actor, FINALIZATION_PREPARED, COMMIT, consumption, publication file by  *)
(* file, and what a failure or a crash at any point leaves to the next     *)
(* request or boot.                                                        *)
(*                                                                         *)
(* A lease authorizes one operation, so the two are one identity here.     *)
(* system_blocks.ratify replaces one file; brain.promote replaces several, *)
(* in order, and then needs the graph checkpoint that makes it RECONCILED. *)
(* The content of a file is the sequence of the writes that made it, by    *)
(* operations and by the other writers of these files (the gardener's      *)
(* auto-reconcile, candidate leases and edits, memory claims), which know  *)
(* nothing of the journal.                                                 *)
(*                                                                         *)
(* Broker and journal are logs with a protected head each: an append syncs *)
(* its record and then moves the head.  A log whose last record the head   *)
(* does not cover is refused by every later open, on purpose, and with it  *)
(* every request and every boot: fenced says which log was left so.        *)
(*                                                                         *)
(* Operators introduced with "fault" or "without" are deliberate wrong     *)
(* versions of the operator that follows them.  Nothing uses them; they    *)
(* are there so that the properties can be shown to notice the difference. *)
(***************************************************************************)
EXTENDS Naturals, Sequences

CONSTANTS Ops,         \* operations, one per lease
          Promotes,    \* those that are brain.promote; the others ratify
          Targets,     \* files
          Files,       \* Files[o]: the files o replaces, in the order of publication
          Writers,     \* writes by others
          None,
          MaxFaults,   \* bound: I/O errors and failed checkpoints
          MaxCrashes   \* bound: crashes

ASSUME PromotesAssumption == Promotes \subseteq Ops
ASSUME FilesAssumption == Files \in [Ops -> Seq(Targets)]
ASSUME WritersAssumption == Writers \cap Ops = {} /\ None \notin Ops

VARIABLES lease,     \* lease[o]; "Finalizing" is RESERVED with a finalization snapshot
          entry,     \* entry[o]: its phase in the journal
          before,    \* before[o]: the sealed preimages of its files
          staged,    \* the staging files on disk, as <<operation, file>>
          target,    \* target[t]: the file
          fenced,    \* the logs, of "broker" and "journal", a record ahead of their head
          up,        \* "down", "booting" (recover_for_boot has not returned) or "up"
          busy,      \* who holds broker_operation and the broker's writer lock
          faults, crashes

vars == <<lease, entry, before, staged, target, fenced, up, busy, faults, crashes>>

\* Journal phases of a COMMIT that is not published.
Pending == {"Committed", "RecoveryRequired"}

\* The sealed postimage of a file.
After(o, t) == Append(before[o][t], o)

FilesOf(o) == {Files[o][n] : n \in DOMAIN Files[o]}

\* The write x is part of file t.
Visible(x, t) == \E i \in DOMAIN target[t] : target[t][i] = x

At(p) == busy # None /\ busy.at = p

\* An actor turn holds the operation's files: the session, or the target locks.
TurnHolds(t) ==
    /\ \E p \in {"ready", "finalizing", "consume", "publishing"} : At(p)
    /\ t \in FilesOf(busy.cur)

To(p) == [busy EXCEPT !.at = p]

\* The call returns: a request is answered, a boot fails.
Returns ==
    /\ busy' = None
    /\ up' = IF up = "booting" THEN "down" ELSE up

Fault == faults < MaxFaults /\ faults' = faults + 1

\* An append that moved the head: the call goes on as next says.
Appended(next) == busy' = next /\ UNCHANGED <<fenced, up, faults, crashes>>

\* The record is synced, its head is not moved and the call is over.
FailsAhead(log) ==
    /\ Fault
    /\ fenced' = fenced \cup {log}
    /\ Returns
    /\ UNCHANGED crashes

CrashesAhead(log) ==
    /\ crashes < MaxCrashes /\ crashes' = crashes + 1
    /\ fenced' = fenced \cup {log}
    /\ up' = "down" /\ busy' = None
    /\ UNCHANGED faults

\* One append to the log, with what can become of a record that is there.
Appends(log, next) == Appended(next) \/ FailsAhead(log) \/ CrashesAhead(log)

-----------------------------------------------------------------------------
(* Admission: execute and recover_for_boot take the locks, open both logs    *)
(* and settle what is left before anything else.                             *)

Request(o) ==
    /\ up = "up" /\ busy = None /\ fenced = {}
    /\ busy' = [req |-> o, cur |-> None, at |-> "recover", n |-> 0, rec |-> TRUE]
    /\ UNCHANGED <<lease, entry, before, staged, target, fenced, up, faults, crashes>>

Boot ==
    /\ up = "down" /\ fenced = {}
    /\ up' = "booting"
    /\ busy' = [req |-> None, cur |-> None, at |-> "recover", n |-> 0, rec |-> TRUE]
    /\ UNCHANGED <<lease, entry, before, staged, target, fenced, faults, crashes>>

\* recover_prepared_entry_with_broker (fault: the journal is not asked again for the
\* absence of a COMMIT).
AbortUnproved(o) ==
    /\ At("recover")
    /\ entry[o] \in {"Prepared", "Committed"}
    /\ lease[o] \in {"Reserved", "Finalizing"}
    /\ lease' = [lease EXCEPT ![o] = "Aborted"]
    /\ Appends("broker", busy)
    /\ UNCHANGED <<entry, before, staged, target>>

\* recover_prepared_entry_with_broker: PREPARED without COMMIT aborts the lease, also
\* after FINALIZATION_PREPARED.
AbortPrepared(o) ==
    /\ At("recover")
    /\ entry[o] = "Prepared"
    /\ lease[o] \in {"Reserved", "Finalizing"}
    /\ lease' = [lease EXCEPT ![o] = "Aborted"]
    /\ Appends("broker", busy)
    /\ UNCHANGED <<entry, before, staged, target>>

\* cleanup_unpublished, a file at a time.
CleanUp(o) ==
    /\ At("recover")
    /\ entry[o] = "Prepared" /\ lease[o] = "Aborted"
    /\ \E t \in FilesOf(o) : <<o, t>> \in staged /\ staged' = staged \ {<<o, t>>}
    /\ UNCHANGED <<lease, entry, before, target, fenced, up, busy, faults, crashes>>

\* A broker that was not told of the COMMIT is told (promote, before its turn).
RecoverConsume(o) ==
    /\ At("recover")
    /\ o \in Promotes
    /\ entry[o] \in Pending /\ lease[o] = "Finalizing"
    /\ lease' = [lease EXCEPT ![o] = "Consumed"]
    /\ Appends("broker", busy)
    /\ UNCHANGED <<entry, before, staged, target>>

\* validate_forward_preimage: either side of the rename, never a third value.
ForwardPreimage(o) ==
    \A t \in FilesOf(o) :
        \/ target[t] = After(o, t)
        \/ target[t] = before[o][t] /\ <<o, t>> \in staged

\* The actor turn that completes a COMMIT.  Ratify checks its preimage first and
\* tells the broker within the turn.
RecoverTurn(o) ==
    /\ At("recover")
    /\ entry[o] \in Pending
    /\ IF o \in Promotes THEN lease[o] = "Consumed" ELSE ForwardPreimage(o)
    /\ busy' = [busy EXCEPT !.cur = o, !.n = 0,
                            !.at = IF o \in Promotes THEN "publishing" ELSE "consume"]
    /\ UNCHANGED <<lease, entry, before, staged, target, fenced, up, faults, crashes>>

\* external_mutation_occ_conflict: the barrier fails, and with it every request and
\* every boot.
RecoverRefused(o) ==
    /\ At("recover")
    /\ entry[o] \in Pending /\ o \notin Promotes
    /\ ~ForwardPreimage(o)
    /\ Returns
    /\ UNCHANGED <<lease, entry, before, staged, target, fenced, faults, crashes>>

\* A RECONCILED entry lacks only its PUBLISHED record.
RecoverReconciled(o) ==
    /\ At("recover")
    /\ entry[o] = "Reconciled"
    /\ entry' = [entry EXCEPT ![o] = "Published"]
    /\ Appends("journal", busy)
    /\ UNCHANGED <<lease, before, staged, target>>

\* The loop over the journal is through (fault: it takes only the entries that were
\* marked for recovery).
SettledUnlessMarked ==
    \A o \in Ops :
        /\ entry[o] \in {"none", "Prepared", "Committed", "Published"}
        /\ entry[o] = "Prepared" =>
              lease[o] = "Aborted" /\ \A t \in FilesOf(o) : <<o, t>> \notin staged

\* The loop over the journal is through.
EntriesSettled ==
    \A o \in Ops :
        /\ entry[o] \in {"none", "Prepared", "Published"}
        /\ entry[o] = "Prepared" =>
              lease[o] = "Aborted" /\ \A t \in FilesOf(o) : <<o, t>> \notin staged

\* recover_external_reserved_without_journal.
AbortOrphan(o) ==
    /\ At("recover") /\ EntriesSettled
    /\ entry[o] = "none" /\ lease[o] = "Reserved"
    /\ lease' = [lease EXCEPT ![o] = "Aborted"]
    /\ Appends("broker", busy)
    /\ UNCHANGED <<entry, before, staged, target>>

\* cleanup_ratify_orphans_without_journal; staging files of a promotion stay.
CleanUpOrphan(o) ==
    /\ At("recover") /\ EntriesSettled
    /\ o \notin Promotes
    /\ entry[o] = "none" /\ lease[o] = "Aborted"
    /\ \E t \in FilesOf(o) : <<o, t>> \in staged /\ staged' = staged \ {<<o, t>>}
    /\ UNCHANGED <<lease, entry, before, target, fenced, up, busy, faults, crashes>>

BarrierPassed ==
    /\ At("recover") /\ EntriesSettled
    /\ \A o \in Ops : entry[o] = "none" =>
          /\ lease[o] # "Reserved"
          /\ o \notin Promotes => \A t \in FilesOf(o) : <<o, t>> \notin staged

\* conservation_scan: what journal and broker must not say of one operation.
Anomalous(o) ==
    \/ entry[o] = "none" /\ lease[o] \in {"Reserved", "Finalizing", "Consumed"}
    \/ entry[o] = "Prepared" /\ lease[o] \in {"Unused", "Consumed"}
    \/ entry[o] \in Pending /\ lease[o] \notin {"Finalizing", "Consumed"}
    \/ entry[o] \in {"Reconciled", "Published"} /\ lease[o] # "Consumed"

\* The owner is exposed only when the scan finds nothing.
BootDone ==
    /\ BarrierPassed /\ busy.req = None
    /\ ~\E o \in Ops : Anomalous(o)
    /\ up' = "up" /\ busy' = None
    /\ UNCHANGED <<lease, entry, before, staged, target, fenced, faults, crashes>>

\* A retry gets the sealed result; a lease that was aborted gets a refusal.
ReplyTerminal ==
    /\ BarrierPassed /\ busy.req # None
    /\ lease[busy.req] # "Unused"
    /\ Returns
    /\ UNCHANGED <<lease, entry, before, staged, target, fenced, faults, crashes>>

-----------------------------------------------------------------------------
(* A new operation. *)

\* inspect_request_actor_only seals the preimages, in a turn of its own.
Inspect ==
    /\ BarrierPassed /\ busy.req # None
    /\ lease[busy.req] = "Unused"
    /\ before' = [before EXCEPT ![busy.req] = [t \in FilesOf(busy.req) |-> target[t]]]
    /\ busy' = [busy EXCEPT !.cur = busy.req, !.at = "reserve", !.n = 0, !.rec = FALSE]
    /\ UNCHANGED <<lease, entry, staged, target, fenced, up, faults, crashes>>

\* The request or its object is not what the receipt authorizes, or not any more.
Refused ==
    /\ \E p \in {"reserve", "ready"} : At(p)
    /\ Returns
    /\ UNCHANGED <<lease, entry, before, staged, target, fenced, faults, crashes>>

Reserve ==
    /\ At("reserve")
    /\ lease' = [lease EXCEPT ![busy.cur] = "Reserved"]
    /\ Appends("broker", To("stage"))
    /\ UNCHANGED <<entry, before, staged, target>>

Stage ==
    /\ At("stage") /\ busy.n < Len(Files[busy.cur])
    /\ staged' = staged \cup {<<busy.cur, Files[busy.cur][busy.n + 1]>>}
    /\ busy' = [busy EXCEPT !.n = @ + 1]
    /\ UNCHANGED <<lease, entry, before, target, fenced, up, faults, crashes>>

JournalPrepare ==
    /\ At("stage") /\ busy.n = Len(Files[busy.cur])
    /\ entry' = [entry EXCEPT ![busy.cur] = "Prepared"]
    /\ Appends("journal", To("prepared"))
    /\ UNCHANGED <<lease, before, staged, target>>

\* revalidate_before_commit, with the turn already held.
Revalidated(o) ==
    \A t \in FilesOf(o) : target[t] = before[o][t] /\ <<o, t>> \in staged

\* The actor reports READY; nothing is published yet.
ActorReady ==
    /\ At("prepared") /\ Revalidated(busy.cur)
    /\ busy' = [busy EXCEPT !.at = "ready", !.n = 0]
    /\ UNCHANGED <<lease, entry, before, staged, target, fenced, up, faults, crashes>>

ActorRefuses ==
    /\ At("prepared") /\ ~Revalidated(busy.cur)
    /\ Returns
    /\ UNCHANGED <<lease, entry, before, staged, target, fenced, faults, crashes>>

\* finalize_external_mutation, up to its callback.
FinalizationPrepared ==
    /\ At("ready")
    /\ lease' = [lease EXCEPT ![busy.cur] = "Finalizing"]
    /\ Appends("broker", To("finalizing"))
    /\ UNCHANGED <<entry, before, staged, target>>

\* The callback.
JournalCommit ==
    /\ At("finalizing")
    /\ entry' = [entry EXCEPT ![busy.cur] = "Committed"]
    /\ Appends("journal", To("consume"))
    /\ UNCHANGED <<lease, before, staged, target>>

\* mark_promote_recovery_required_if_committed, by a call that leaves the logs f ahead:
\* best effort, in a request only, and an append like any other.
Marked(f) ==
    \/ fenced' = f /\ UNCHANGED entry
    \/ /\ ~busy.rec
       /\ entry[busy.cur] \in Pending /\ "journal" \notin f
       /\ entry' = [entry EXCEPT ![busy.cur] = "RecoveryRequired"]
       /\ fenced' \in {f, f \cup {"journal"}}

\* The rest of finalize_external_mutation, or recover_broker_commit_with_broker.  The
\* request that cannot finish the append has its COMMIT and marks it.
ConsumeLease ==
    /\ At("consume")
    /\ lease' = [lease EXCEPT ![busy.cur] = "Consumed"]
    /\ \/ Appended(To("publishing")) /\ UNCHANGED entry
       \/ CrashesAhead("broker") /\ UNCHANGED entry
       \/ Fault /\ Marked({"broker"}) /\ Returns /\ UNCHANGED crashes
    /\ UNCHANGED <<before, staged, target>>

-----------------------------------------------------------------------------
(* Publication, in the actor turn, and the records after it. *)

Unpublished == At("publishing") /\ busy.n < Len(Files[busy.cur])

\* forward_publish (fault: the file is replaced whatever it holds).
PublishUnchecked ==
    /\ Unpublished
    /\ LET o == busy.cur
           t == Files[o][busy.n + 1]
       IN /\ <<o, t>> \in staged
          /\ target' = [target EXCEPT ![t] = After(o, t)]
          /\ staged' = staged \ {<<o, t>>}
    /\ busy' = [busy EXCEPT !.n = @ + 1]
    /\ UNCHANGED <<lease, entry, before, fenced, up, faults, crashes>>

\* forward_publish: the rename, or nothing if an earlier attempt renamed.
PublishFile ==
    /\ Unpublished
    /\ LET o == busy.cur
           t == Files[o][busy.n + 1]
       IN /\ \/ target[t] = After(o, t)
             \/ target[t] = before[o][t] /\ <<o, t>> \in staged
          /\ target' = [target EXCEPT ![t] = After(o, t)]
          /\ staged' = staged \ {<<o, t>>}
    /\ busy' = [busy EXCEPT !.n = @ + 1]
    /\ UNCHANGED <<lease, entry, before, fenced, up, faults, crashes>>

\* forward_publish meets a third value.
PublishRefused ==
    /\ Unpublished
    /\ LET o == busy.cur
           t == Files[o][busy.n + 1]
       IN target[t] # After(o, t) /\ target[t] # before[o][t]
    /\ Marked(fenced)
    /\ Returns
    /\ UNCHANGED <<lease, before, staged, target, faults, crashes>>

\* The turn ends: a ratification only has to be sealed, a promotion returns with the
\* checkpoint of the graph that ingested it.
TurnDone ==
    /\ At("publishing") /\ busy.n = Len(Files[busy.cur])
    /\ busy' = To(IF busy.cur \in Promotes THEN "reconcile" ELSE "seal")
    /\ UNCHANGED <<lease, entry, before, staged, target, fenced, up, faults, crashes>>

MarkReconciled ==
    /\ At("reconcile")
    /\ entry' = [entry EXCEPT ![busy.cur] = "Reconciled"]
    /\ Appends("journal", To("seal"))
    /\ UNCHANGED <<lease, before, staged, target>>

\* A request is answered; recovery goes on with the next entry.
MarkPublished ==
    /\ At("seal")
    /\ entry' = [entry EXCEPT ![busy.cur] = "Published"]
    /\ Appends("journal", IF busy.rec THEN [To("recover") EXCEPT !.cur = None, !.n = 0] ELSE None)
    /\ UNCHANGED <<lease, before, staged, target>>

-----------------------------------------------------------------------------
(* Faults, crashes and the other writers. *)

\* Any write, sync or checkpoint may fail, of an append before its record is whole or
\* after its head has moved; after the COMMIT the request marks the entry if it can.
Fail ==
    /\ busy # None
    /\ Fault
    /\ IF \E p \in {"consume", "publishing", "reconcile"} : At(p)
       THEN Marked(fenced)
       ELSE UNCHANGED <<entry, fenced>>
    /\ Returns
    /\ UNCHANGED <<lease, before, staged, target, crashes>>

\* A torn record is cut off by the next open, so a crash in an append is this one or
\* CrashesAhead.
Crash ==
    /\ up # "down" /\ crashes < MaxCrashes
    /\ crashes' = crashes + 1
    /\ up' = "down" /\ busy' = None
    /\ UNCHANGED <<lease, entry, before, staged, target, fenced, faults>>

\* Another writer replaces a file in a turn of its own.
OtherWrite(w, t) ==
    /\ up = "up"
    /\ ~TurnHolds(t)
    /\ \A u \in Targets : ~Visible(w, u)
    /\ target' = [target EXCEPT ![t] = Append(@, w)]
    /\ UNCHANGED <<lease, entry, before, staged, fenced, up, busy, faults, crashes>>

-----------------------------------------------------------------------------
Init ==
    /\ lease = [o \in Ops |-> "Unused"]
    /\ entry = [o \in Ops |-> "none"]
    /\ before = [o \in Ops |-> <<>>]
    /\ staged = {} /\ fenced = {}
    /\ target = [t \in Targets |-> <<>>]
    /\ up = "down"
    /\ busy = None
    /\ faults = 0 /\ crashes = 0

Recover ==
    \E o \in Ops :
        \/ AbortPrepared(o)
        \/ CleanUp(o)
        \/ RecoverConsume(o)
        \/ RecoverTurn(o)
        \/ RecoverRefused(o)
        \/ RecoverReconciled(o)
        \/ AbortOrphan(o)
        \/ CleanUpOrphan(o)

OwnerStep ==
    \/ \E o \in Ops : Request(o)
    \/ Boot
    \/ Recover
    \/ BootDone
    \/ ReplyTerminal
    \/ Inspect
    \/ Refused
    \/ Reserve
    \/ Stage
    \/ JournalPrepare
    \/ ActorReady
    \/ ActorRefuses
    \/ FinalizationPrepared
    \/ JournalCommit
    \/ ConsumeLease
    \/ PublishFile
    \/ PublishRefused
    \/ TurnDone
    \/ MarkReconciled
    \/ MarkPublished

Next ==
    \/ OwnerStep
    \/ Fail
    \/ Crash
    \/ \E w \in Writers, t \in Targets : OtherWrite(w, t)

Spec == Init /\ [][Next]_vars

\* The owner is started and called again, and its calls go on.
FairSpec == Spec /\ WF_vars(OwnerStep)

-----------------------------------------------------------------------------
(***************************************************************************)
(* Broker, journal and files never tell different stories of an operation, *)
(* wherever a request failed or the process died: the boot's conservation  *)
(* scan would find nothing but a reservation not journaled yet, no file    *)
(* shows an operation whose lease is not consumed, so an aborted one left  *)
(* no byte, and one that is RECONCILED or PUBLISHED is in all its files.   *)
(***************************************************************************)
OutcomesAgree ==
    \A o \in Ops :
        /\ Anomalous(o) => entry[o] = "none" /\ lease[o] = "Reserved"
        /\ (\E t \in Targets : Visible(o, t)) => lease[o] = "Consumed"
        /\ entry[o] \in {"Reconciled", "Published"} => \A t \in FilesOf(o) : Visible(o, t)

(***************************************************************************)
(* No update is lost and none is made twice: every step leaves each file   *)
(* an extension of what it was by at most one write that was not in it,    *)
(* although preimages are sealed in one turn and replaced in a later one,  *)
(* or after a crash.                                                       *)
(***************************************************************************)
FilesOnlyGrow ==
    [][\A t \in Targets :
          \/ target'[t] = target[t]
          \/ \E x \in Ops \cup Writers :
                ~Visible(x, t) /\ target'[t] = Append(target[t], x)]_vars

\* A committed operation that can be neither published nor taken back.
Conflict(o) ==
    /\ entry[o] \in Pending
    /\ \E t \in FilesOf(o) : target[t] # before[o][t] /\ target[t] # After(o, t)

(***************************************************************************)
(* Every lease that was reserved ends, with its operation published or     *)
(* without a trace of it, as long as the owner keeps being called, unless  *)
(* another writer got between a COMMIT and its PUBLISHED record, or a log  *)
(* was left ahead of its head.  The code means to stop for the second and  *)
(* says of the first that it cannot happen: NoThirdValue.                  *)
(***************************************************************************)
LeasesSettle ==
    \A o \in Ops :
        lease[o] = "Reserved"
            ~> \/ lease[o] = "Aborted"
               \/ lease[o] = "Consumed" /\ entry[o] = "Published"
               \/ \E p \in Ops : Conflict(p)
               \/ fenced # {}

(***************************************************************************)
(* Recovery "may observe either side of the idempotent rename, but never a *)
(* third value", says the preimage check that every later call then fails  *)
(* on.  It may: a call that fails after its COMMIT gives back the turn     *)
(* that kept the other writers off its files.                              *)
(***************************************************************************)
NoThirdValue == At("recover") => \A o \in Ops : ~Conflict(o)
=============================================================================
