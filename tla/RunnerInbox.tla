---------------------------- MODULE RunnerInbox -----------------------------
(***************************************************************************)
(* The runner's side of an execution: RunnerExecutionInbox of              *)
(* m1nd-mcp/src/execution_dispatch.rs, together with the runner driver     *)
(* that calls it (external to the repository) and the processes the driver *)
(* spawns.                                                                 *)
(*                                                                         *)
(* The inbox is an append-only journal of snapshots, fsynced before an     *)
(* operation returns; `inbox` is the latest snapshot per execution, which  *)
(* is both what the journal replays to and what an open inbox holds in     *)
(* memory.  A crash after the fsync and before the caller sees the answer  *)
(* (DispatchFailpoint) is the operation followed by RunnerCrash; a crash   *)
(* during the write leaves an unterminated tail (RunnerCrashTorn).         *)
(*                                                                         *)
(* Before each append the code also runs validate_runner_transition on the *)
(* snapshot it is about to write.  The actions leave that check out:       *)
(* InboxReplayable and InboxStepsLegal show that it never refuses what the *)
(* guards before it let through.                                           *)
(***************************************************************************)
EXTENDS ExecutionRecords

CONSTANTS Offers,    \* the signed dispatches that may ever be delivered
          Heads,     \* the EXECUTING heads the runner may ever be told about
          MaxTime    \* the clock stops here

ASSUME OffersAssumption == Offers \subseteq Dispatches
ASSUME HeadsAssumption == Heads \subseteq MissionHeads
ASSUME MaxTimeAssumption == MaxTime \in Nat

VARIABLES inbox,       \* inbox[e]: the latest durable snapshot of execution e
          inboxTorn,   \* the journal ends in an unterminated record
          runnerUp,    \* the inbox is open
          permits,     \* executions whose SpawnPermitV1 the driver holds, unspent
          spawned,     \* spawned[e]: processes ever started for execution e
          signed,      \* ACKs the runner ever signed
          now          \* the clock

runnerVars == <<inbox, inboxTorn, runnerUp, permits, spawned, signed, now>>

RunnerInit ==
    /\ inbox = [e \in Execs |-> None]
    /\ inboxTorn = FALSE
    /\ runnerUp = TRUE
    /\ permits = {}
    /\ spawned = [e \in Execs |-> 0]
    /\ signed = {}
    /\ now = 0

Claimed(e) == inbox[e] # None

-----------------------------------------------------------------------------
(* Operators introduced with "fault" or "without" are deliberate wrong versions  *)
(* of the operator that follows them.  Nothing uses them; they are there so that *)
(* the properties can be shown to notice the difference.                         *)

\* claim_for_spawn (fault: a redelivered dispatch that is still CLAIMED is claimed
\* again).
RespawnAllowed(d) ==
    /\ runnerUp
    /\ ~Collides(inbox, d) \/ (Claimed(d.exec) /\ inbox[d.exec].state = "CLAIMED")
    /\ ValidNewDispatch(d, now)
    /\ inbox' = [inbox EXCEPT ![d.exec] =
                    [dispatch |-> d, state |-> "CLAIMED", claimed |-> now, updated |-> now,
                     started |-> None, ack |-> None, head |-> None, result |-> None]]
    /\ permits' = permits \cup {d.exec}
    /\ UNCHANGED <<inboxTorn, runnerUp, spawned, signed, now>>

\* RunnerExecutionInbox::claim_for_spawn.  An execution that has an entry is
\* answered AlreadyClaimed or refused, so a permit exists only for a new entry.
ClaimForSpawn(d) ==
    /\ runnerUp
    /\ ~Collides(inbox, d)
    /\ ValidNewDispatch(d, now)
    /\ inbox' = [inbox EXCEPT ![d.exec] =
                    [dispatch |-> d, state |-> "CLAIMED", claimed |-> now, updated |-> now,
                     started |-> None, ack |-> None, head |-> None, result |-> None]]
    /\ permits' = permits \cup {d.exec}
    /\ UNCHANGED <<inboxTorn, runnerUp, spawned, signed, now>>

\* The driver spends the permit: SpawnPermitV1 is moved out, never cloned.
Spawn(e) ==
    /\ runnerUp
    /\ e \in permits
    /\ permits' = permits \ {e}
    /\ spawned' = [spawned EXCEPT ![e] = @ + 1]
    /\ UNCHANGED <<inbox, inboxTorn, runnerUp, signed, now>>

\* mark_process_started without the deadline.
LateStart(e, s) ==
    /\ runnerUp
    /\ spawned[e] > 0
    /\ Claimed(e) /\ inbox[e].state = "CLAIMED"
    /\ inbox[e].claimed <= s
    /\ inbox' = [inbox EXCEPT ![e].state = "STARTED", ![e].started = s, ![e].updated = s]
    /\ UNCHANGED <<inboxTorn, runnerUp, permits, spawned, signed, now>>

\* mark_process_started: the driver reports the start time s of a process it
\* spawned.
MarkProcessStarted(e, s) ==
    /\ runnerUp
    /\ spawned[e] > 0
    /\ Claimed(e) /\ inbox[e].state = "CLAIMED"
    /\ inbox[e].claimed <= s /\ s < inbox[e].dispatch.deadline
    /\ inbox' = [inbox EXCEPT ![e].state = "STARTED", ![e].started = s, ![e].updated = s]
    /\ UNCHANGED <<inboxTorn, runnerUp, permits, spawned, signed, now>>

\* The driver signs an ACK for a STARTED entry (AcceptanceAckRequired of
\* reconcile).  Nothing durable remembers a signature that was not recorded, so a
\* restarted driver may sign a second ACK.
SignAck(e) ==
    /\ runnerUp
    /\ Claimed(e) /\ inbox[e].state = "STARTED"
    /\ LET a == [dispatch |-> inbox[e].dispatch, at |-> now]
       IN  /\ AckBinds(a, inbox[e].dispatch)
           /\ inbox[e].started <= a.at
           /\ a \notin signed
           /\ signed' = signed \cup {a}
    /\ UNCHANGED <<inbox, inboxTorn, runnerUp, permits, spawned, now>>

\* record_ack, without the check that an execution binds exactly one ACK.
ReplaceAck(a) ==
    LET e == a.dispatch.exec IN
    /\ runnerUp
    /\ Claimed(e) /\ inbox[e].state \in {"STARTED", "ACKED"}
    /\ AckBinds(a, inbox[e].dispatch)
    /\ inbox[e].started <= a.at /\ a.at <= now /\ inbox[e].updated <= now
    /\ inbox' = [inbox EXCEPT ![e].state = "ACKED", ![e].ack = a, ![e].updated = now]
    /\ UNCHANGED <<inboxTorn, runnerUp, permits, spawned, signed, now>>

\* record_ack.  The same ACK again is deduplicated, another one is refused.
RecordAck(a) ==
    LET e == a.dispatch.exec IN
    /\ runnerUp
    /\ Claimed(e) /\ inbox[e].state = "STARTED"
    /\ AckBinds(a, inbox[e].dispatch)
    /\ inbox[e].started <= a.at /\ a.at <= now /\ inbox[e].updated <= now
    /\ inbox' = [inbox EXCEPT ![e].state = "ACKED", ![e].ack = a, ![e].updated = now]
    /\ UNCHANGED <<inboxTorn, runnerUp, permits, spawned, signed, now>>

\* observe_executing_transition, without comparing the ACK digest.
ObserveAnyAck(e, a, h) ==
    /\ runnerUp
    /\ Claimed(e) /\ inbox[e].ack # None
    /\ inbox[e].state = "ACKED" /\ inbox[e].head = None
    /\ HeadBinds(h, inbox[e].dispatch)
    /\ inbox[e].updated <= now
    /\ inbox' = [inbox EXCEPT ![e].head = h, ![e].updated = now]
    /\ UNCHANGED <<inboxTorn, runnerUp, permits, spawned, signed, now>>

\* observe_executing_transition: the owner published head h for ACK a.
ObserveExecuting(e, a, h) ==
    /\ runnerUp
    /\ Claimed(e) /\ inbox[e].ack # None /\ inbox[e].ack = a
    /\ inbox[e].state = "ACKED" /\ inbox[e].head = None
    /\ HeadBinds(h, inbox[e].dispatch)
    /\ inbox[e].updated <= now
    /\ inbox' = [inbox EXCEPT ![e].head = h, ![e].updated = now]
    /\ UNCHANGED <<inboxTorn, runnerUp, permits, spawned, signed, now>>

\* record_result: the driver signs and records how the process ended.
RecordResult(e, outcome) ==
    /\ runnerUp
    /\ Claimed(e) /\ inbox[e].state = "ACKED" /\ inbox[e].head # None
    /\ inbox[e].started <= now /\ inbox[e].updated <= now
    /\ LET r == [dispatch |-> inbox[e].dispatch, head |-> inbox[e].head,
                 outcome |-> outcome, started |-> inbox[e].started, ended |-> now]
       IN  /\ ResultBinds(r, inbox[e].dispatch, inbox[e].head)
           /\ inbox' = [inbox EXCEPT ![e].state = TerminalEntryState(r),
                                     ![e].result = r, ![e].updated = now]
    /\ UNCHANGED <<inboxTorn, runnerUp, permits, spawned, signed, now>>

\* The runner stops, or an append errs and poisons the writer.  Unspent permits
\* die with it; processes and signed ACKs do not.
RunnerCrash ==
    /\ runnerUp
    /\ runnerUp' = FALSE
    /\ permits' = {}
    /\ UNCHANGED <<inbox, inboxTorn, spawned, signed, now>>

\* The crash cuts an append short.
RunnerCrashTorn ==
    /\ runnerUp
    /\ runnerUp' = FALSE
    /\ inboxTorn' = TRUE
    /\ permits' = {}
    /\ UNCHANGED <<inbox, spawned, signed, now>>

\* RunnerExecutionInbox::open replays the journal and refuses a torn tail.
RunnerOpen ==
    /\ ~runnerUp
    /\ ~inboxTorn
    /\ runnerUp' = TRUE
    /\ UNCHANGED <<inbox, inboxTorn, permits, spawned, signed, now>>

Tick ==
    /\ now < MaxTime
    /\ now' = now + 1
    /\ UNCHANGED <<inbox, inboxTorn, runnerUp, permits, spawned, signed>>

\* What the driver may do on its own, whoever talks to it.
DriverStep ==
    \/ \E e \in Execs : Spawn(e)
    \/ \E e \in Execs, s \in 0..MaxTime : s <= now /\ MarkProcessStarted(e, s)
    \/ \E e \in Execs : SignAck(e)
    \/ \E a \in signed : RecordAck(a)
    \/ \E e \in Execs, outcome \in Outcomes : RecordResult(e, outcome)
    \/ RunnerCrash
    \/ RunnerCrashTorn
    \/ RunnerOpen

\* The most hostile owner: any offered dispatch is delivered any number of times
\* in any order, and any head is reported for any ACK.
RunnerNext ==
    \/ \E d \in Offers : ClaimForSpawn(d)
    \/ \E a \in signed, h \in Heads : ObserveExecuting(a.dispatch.exec, a, h)
    \/ DriverStep
    \/ Tick

RunnerSpec == RunnerInit /\ [][RunnerNext]_runnerVars

-----------------------------------------------------------------------------
RunnerTypeOK ==
    /\ inbox \in [Execs -> RunnerEntries \cup {None}]
    /\ inboxTorn \in BOOLEAN
    /\ runnerUp \in BOOLEAN
    /\ permits \subseteq Execs
    /\ spawned \in [Execs -> Nat]
    /\ signed \subseteq Acks
    /\ now \in Nat

(***************************************************************************)
(* However often a dispatch is delivered and wherever the runner crashes   *)
(* and reopens, claim_for_spawn lets at most one process be started for an *)
(* execution id, and at most one for a packet of a mission head even when  *)
(* the owner signs it under two execution ids.                             *)
(***************************************************************************)
AtMostOneProcess ==
    /\ \A e \in Execs : spawned[e] <= 1
    /\ \A e, f \in Execs :
          /\ spawned[e] > 0 /\ spawned[f] > 0 /\ e # f
          => ~SamePacketBinding(inbox[e].dispatch, inbox[f].dispatch)

(***************************************************************************)
(* RunnerExecutionInbox::open never rejects what the inbox itself wrote:   *)
(* every snapshot has the shape validate_runner_shape demands, under its   *)
(* own execution id, and no two collide.                                   *)
(***************************************************************************)
InboxReplayable ==
    \A e \in Execs : Claimed(e) =>
        /\ inbox[e].dispatch.exec = e
        /\ RunnerShape(inbox[e])
        /\ ~Collides([inbox EXCEPT ![e] = None], inbox[e].dispatch)

(***************************************************************************)
(* Evidence in the inbox is final: each step leaves every snapshot alone,  *)
(* claims a new execution, or makes one of the deltas the replay accepts,  *)
(* so no start, ACK, head or result is ever replaced or withdrawn.         *)
(***************************************************************************)
InboxStepsLegal ==
    [][\A e \in Execs : \/ inbox'[e] = inbox[e]
                        \/ inbox[e] = None /\ inbox'[e].state = "CLAIMED"
                        \/ inbox[e] # None /\ RunnerDelta(inbox[e], inbox'[e])]_runnerVars
=============================================================================
