-------------------------- MODULE ExecutionRecords --------------------------
(***************************************************************************)
(* The signed records an execution is made of (m1nd-control/src/mission.rs)*)
(* and the entries the two dispatch journals store about it                *)
(* (m1nd-mcp/src/execution_dispatch.rs), with the checks the code makes on *)
(* them.  Digests and signatures are abstracted: two records are the same  *)
(* record exactly when they are equal, so "the digest matches" is          *)
(* equality.  execution_id and the dispatch idempotency_key are both       *)
(* client-chosen identities refused on reuse; one field, exec, stands for  *)
(* them.                                                                   *)
(***************************************************************************)
EXTENDS MissionRules

CONSTANTS Missions,   \* mission ids
          Packets,    \* packet digests
          Execs,      \* execution ids
          None,       \* Option::None
          ClockSkew   \* DEFAULT_MISSION_CLOCK_SKEW_MS, in model time units

\* A mission head as execution records name it: ExecutionMissionHeadV1, and the
\* (mission_head_id, iteration_id, packet_digest) fields of a dispatch.  seq is
\* the position of the letter in its chain; 0 is the anchor of a genesis dispatch.
MissionHeads == [mission : Missions, seq : Nat, iteration : Nat, packet : Packets]

\* ExecutionDispatchV1: bound to the head it was issued against.
Dispatches == [exec : Execs, head : MissionHeads, issued : Nat, deadline : Nat]

\* ExecutionDispatchAckV1: names its dispatch by digest.
Acks == [dispatch : Dispatches, at : Nat]

Outcomes == {"succeeded", "failed"}

\* ExecutionResultV1: names its dispatch by digest, bound to the EXECUTING head.
Results == [dispatch : Dispatches, head : MissionHeads, outcome : Outcomes,
            started : Nat, ended : Nat]

\* OwnerDispatchEntryV1 and RunnerInboxEntryV1.  The revision counters are left
\* out: the evidence an entry holds determines how often it was extended.
OwnerStates == {"INTENT", "ACKED", "COMPLETED", "FAILED"}

OwnerEntries ==
    [dispatch : Dispatches, state : OwnerStates, registered : Nat, updated : Nat,
     ack : Acks \cup {None}, head : MissionHeads \cup {None},
     result : Results \cup {None}, settled : Nat \cup {None}]

RunnerStates == {"CLAIMED", "STARTED", "ACKED", "COMPLETED", "FAILED"}

RunnerEntries ==
    [dispatch : Dispatches, state : RunnerStates, claimed : Nat, updated : Nat,
     started : Nat \cup {None}, ack : Acks \cup {None},
     head : MissionHeads \cup {None}, result : Results \cup {None}]

ASSUME NoneAssumption == None \notin Nat /\ None \notin Acks /\ None \notin MissionHeads
                         /\ None \notin Results /\ None \notin Dispatches
                         /\ None \notin OwnerEntries /\ None \notin RunnerEntries
ASSUME ClockSkewAssumption == ClockSkew \in Nat

-----------------------------------------------------------------------------
\* validate_expiring_record, through ExecutionDispatchV1::validate and
\* validate_new_dispatch: not issued beyond the skew, and not yet expired.
ValidNewDispatch(d, t) ==
    /\ d.issued < d.deadline
    /\ d.issued <= t + ClockSkew
    /\ t < d.deadline

\* same_packet_binding: two dispatches of the same packet from the same head.
SamePacketBinding(d1, d2) == d1.head = d2.head

\* refuse_identity_collision, over every entry of a journal.
Collides(entries, d) ==
    \E e \in Execs : /\ entries[e] # None
                     /\ \/ entries[e].dispatch.exec = d.exec
                        \/ SamePacketBinding(entries[e].dispatch, d)

\* ExecutionDispatchAckV1::validate_against.
AckBinds(a, d) == /\ a.dispatch = d
                  /\ d.issued <= a.at
                  /\ a.at < d.deadline

\* ExecutionMissionHeadV1::validate_against.  The EXECUTING head is a letter of
\* the dispatched iteration that binds the dispatched packet.
HeadBinds(h, d) == /\ h.iteration = d.head.iteration
                   /\ h.packet = d.head.packet

\* ExecutionResultV1::validate_against, with head.context(dispatch).
ResultBinds(r, d, h) == /\ r.dispatch = d
                        /\ r.head = h
                        /\ HeadBinds(h, d)
                        /\ r.started <= r.ended

\* ExecutionResultV1::expected_transition, and the journal state it settles in.
ExpectedTransition(r) == IF r.outcome = "succeeded" THEN "gate" ELSE "failed"
\* (fault: the outcome's own name is written as the entry's state)
OutcomeAsState(r) == r.outcome
TerminalEntryState(r) == IF r.outcome = "succeeded" THEN "COMPLETED" ELSE "FAILED"

-----------------------------------------------------------------------------
\* validate_runner_shape: what the inbox demands of every snapshot it replays.
RunnerShape(x) ==
    /\ x.updated >= x.claimed
    /\ ValidNewDispatch(x.dispatch, x.claimed)
    /\ x.started # None => x.claimed <= x.started /\ x.started < x.dispatch.deadline
    /\ x.ack # None => /\ AckBinds(x.ack, x.dispatch)
                       /\ x.started # None
                       /\ x.started <= x.ack.at
    /\ x.head # None => HeadBinds(x.head, x.dispatch)
    /\ x.result # None => /\ x.head # None
                          /\ ResultBinds(x.result, x.dispatch, x.head)
                          /\ x.result.started = x.started
    /\ x.state = "CLAIMED" =>
          x.started = None /\ x.ack = None /\ x.head = None /\ x.result = None
    /\ x.state = "STARTED" =>
          x.started # None /\ x.ack = None /\ x.head = None /\ x.result = None
    /\ x.state = "ACKED" =>
          x.started # None /\ x.ack # None /\ x.result = None
    /\ x.state \in {"COMPLETED", "FAILED"} =>
          /\ x.started # None /\ x.ack # None /\ x.head # None /\ x.result # None
          /\ x.state = TerminalEntryState(x.result)

\* validate_snapshot_identity and validate_runner_transition: the only deltas a
\* replay accepts between two snapshots of one execution.
RunnerDelta(x, y) ==
    /\ y.dispatch = x.dispatch /\ y.claimed = x.claimed /\ x.updated <= y.updated
    /\ \/ /\ x.state = "CLAIMED" /\ y.state = "STARTED"
          /\ x.started = None /\ y.started # None
          /\ y.ack = x.ack /\ y.head = x.head /\ y.result = x.result
       \/ /\ x.state = "STARTED" /\ y.state = "ACKED"
          /\ y.started = x.started
          /\ x.ack = None /\ y.ack # None
          /\ y.head = x.head /\ y.result = x.result
       \/ /\ x.state = "ACKED" /\ y.state = "ACKED"
          /\ y.started = x.started /\ y.ack = x.ack
          /\ x.head = None /\ y.head # None
          /\ y.result = x.result
       \/ /\ x.state = "ACKED" /\ y.state \in {"COMPLETED", "FAILED"}
          /\ y.started = x.started /\ y.ack = x.ack /\ y.head = x.head
          /\ x.result = None /\ y.result # None

\* validate_owner_shape.
OwnerShape(x) ==
    /\ x.updated >= x.registered
    /\ ValidNewDispatch(x.dispatch, x.registered)
    /\ x.ack # None => AckBinds(x.ack, x.dispatch)
    /\ x.head # None => HeadBinds(x.head, x.dispatch)
    /\ x.result # None => x.head # None /\ ResultBinds(x.result, x.dispatch, x.head)
    /\ x.state = "INTENT" =>
          x.ack = None /\ x.head = None /\ x.result = None /\ x.settled = None
    /\ x.state = "ACKED" =>
          x.ack # None /\ x.result = None /\ x.settled = None
    /\ x.state \in {"COMPLETED", "FAILED"} =>
          /\ x.ack # None /\ x.head # None /\ x.result # None
          /\ x.state = TerminalEntryState(x.result)

\* validate_snapshot_identity and validate_owner_transition.
OwnerDelta(x, y) ==
    /\ y.dispatch = x.dispatch /\ y.registered = x.registered /\ x.updated <= y.updated
    /\ \/ /\ x.state = "INTENT" /\ y.state = "ACKED"
          /\ x.ack = None /\ y.ack # None
          /\ y.head = x.head /\ y.result = x.result /\ y.settled = x.settled
       \/ /\ x.state = "ACKED" /\ y.state = "ACKED"
          /\ y.ack = x.ack
          /\ x.head = None /\ y.head # None
          /\ y.result = x.result /\ y.settled = x.settled
       \/ /\ x.state = "ACKED" /\ y.state \in {"COMPLETED", "FAILED"}
          /\ y.ack = x.ack /\ y.head = x.head
          /\ x.result = None /\ y.result # None
          /\ y.settled = x.settled
       \/ /\ x.state \in {"COMPLETED", "FAILED"} /\ y.state = x.state
          /\ y.ack = x.ack /\ y.head = x.head /\ y.result = x.result
          /\ x.settled = None /\ y.settled # None
=============================================================================
