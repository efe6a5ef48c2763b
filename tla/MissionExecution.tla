-------------------------- MODULE MissionExecution --------------------------
(***************************************************************************)
(* The execution lifecycle of the mission service: MissionService of       *)
(* m1nd-mcp/src/mission_service.rs with its OwnerExecutionOutbox           *)
(* (execution_dispatch.rs), reached through the authority transport        *)
(* (mission_service_transport.rs), against the runner of RunnerInbox.      *)
(*                                                                         *)
(* The owner keeps two durable things that no single write covers: the     *)
(* mission state file (`letters`), replaced as a whole by persist_state,   *)
(* and the outbox journal (`outbox`).  A request takes the operation lock, *)
(* opens the service from disk (repairing the outbox from the letters),    *)
(* does one operation and drops the service.  So between requests nothing  *)
(* is kept in memory, and a refusal, an I/O error or a crash all leave the *)
(* disk as it is and the lock free: Abandon.                               *)
(*                                                                         *)
(* Requests carry the owner clock sampled before the lock was taken: a     *)
(* request served at `now` may carry any time down to now - MaxLag.        *)
(*                                                                         *)
(* Signatures, capabilities and leases are not modelled: every request is  *)
(* one the authority checks accept.  transition_replays is not a variable: *)
(* it is written by the same persist_state as the letter it points at, so  *)
(* "the idempotency key was used" is "the letter exists".                  *)
(***************************************************************************)
EXTENDS RunnerInbox, Sequences

CONSTANTS MaxLag,      \* how far a request's clock sample may lag behind
          MaxLetters   \* bound on the letters of one mission

ASSUME MaxLagAssumption == MaxLag \in Nat
ASSUME MaxLettersAssumption == MaxLetters \in Nat

VARIABLES letters,     \* letters[m]: the mission's letters, oldest first
          outbox,      \* outbox[e]: the latest owner snapshot of execution e
          outboxTorn,  \* the outbox journal ends in an unterminated record
          job          \* the request that holds the operation lock

ownerVars == <<letters, outbox, outboxTorn, job>>
vars == <<runnerVars, ownerVars>>

-----------------------------------------------------------------------------
(* Operators introduced with "fault" or "without" are deliberate wrong versions  *)
(* of the operator that follows them.  Nothing uses them; they are there so that *)
(* the properties can be shown to notice the difference.                         *)

(* Letters. *)

\* MissionLetterV1.  ack is the record behind source_digest when the source is an
\* ACK.  receipt_candidate is not a field: a letter has one exactly when it has a
\* successful result and is not REVISING.
Letters == [state : MissionStates, iteration : Nat, packet : Packets, source : Sources,
            dispatch : Dispatches \cup {None}, ack : Acks \cup {None},
            result : Results \cup {None}, at : Nat]

\* MissionServiceState::head.
HasHead(m) == letters[m] # <<>>
Head1(m) == letters[m][Len(letters[m])]
HeadState(m) == IF HasHead(m) THEN Head1(m).state ELSE NoState
HeadIteration(m) == IF HasHead(m) THEN Head1(m).iteration ELSE 0

\* The seq-th letter of mission m as execution records name it
\* (execution_head_from_letter).
HeadId(m, seq) == [mission |-> m, seq |-> seq, iteration |-> letters[m][seq].iteration,
                   packet |-> letters[m][seq].packet]

\* Extends without the rule's origin (fault: the rule is looked up by its target).
ExtendsAnywhere(m, r, packet) ==
    /\ Len(letters[m]) < MaxLetters
    /\ HasHead(m) <=> r.from # NoState
    /\ HasHead(m) => PacketAllowed(r, Head1(m).packet, packet)

\* Where the letter of a rule would go: intent.validate against the head.
Extends(m, r, packet) ==
    /\ Len(letters[m]) < MaxLetters
    /\ HeadState(m) = r.from
    /\ HasHead(m) => PacketAllowed(r, Head1(m).packet, packet)

\* (fault: a letter dated by the head it extends)
LetterKeepsHeadTime(m, r, packet, t) ==
    [state |-> r.to, iteration |-> NextIteration(r, HeadIteration(m)), packet |-> packet,
     source |-> r.source, dispatch |-> None, ack |-> None, result |-> None,
     at |-> IF HasHead(m) THEN Head1(m).at ELSE t]

\* The letter transition_internal builds, dated by the request's clock sample.
Letter(m, r, packet, t) ==
    [state |-> r.to, iteration |-> NextIteration(r, HeadIteration(m)), packet |-> packet,
     source |-> r.source, dispatch |-> None, ack |-> None, result |-> None, at |-> t]

\* transition_uses_execution_lifecycle.
InLifecycle(l) == l.state = "dispatching" \/ l.source \in {"ack", "result"}

-----------------------------------------------------------------------------
(* Jobs: how far the request that holds the lock has come. *)

Idle == [pc |-> "idle", mission |-> None, seq |-> 0, letter |-> None]

Job(pc, m, seq, letter) == [pc |-> pc, mission |-> m, seq |-> seq, letter |-> letter]

OwnerInit ==
    /\ letters = [m \in Missions |-> <<>>]
    /\ outbox = [e \in Execs |-> None]
    /\ outboxTorn = FALSE
    /\ job = Idle

Init == RunnerInit /\ OwnerInit

-----------------------------------------------------------------------------
(* OwnerExecutionOutbox: each operation as the snapshot it would append. *)

\* preflight_intent, without the identity collisions.
PreflightAnyExec(d, t) == ValidNewDispatch(d, t)

\* preflight_intent: the entry is there already, or may be registered.
Preflight(d, t) ==
    \/ outbox[d.exec] # None /\ outbox[d.exec].dispatch = d
    \/ ~Collides(outbox, d) /\ ValidNewDispatch(d, t)

\* register_intent (fault: dated by the clock, not by the letter).
RegisteredNow(d, t) ==
    IF outbox[d.exec] # None THEN outbox
    ELSE [outbox EXCEPT ![d.exec] =
            [dispatch |-> d, state |-> "INTENT", registered |-> now, updated |-> now,
             ack |-> None, head |-> None, result |-> None, settled |-> None]]

\* register_intent.
Registered(d, t) ==
    IF outbox[d.exec] # None THEN outbox
    ELSE [outbox EXCEPT ![d.exec] =
            [dispatch |-> d, state |-> "INTENT", registered |-> t, updated |-> t,
             ack |-> None, head |-> None, result |-> None, settled |-> None]]

\* record_ack: the same ACK again is deduplicated.
MayRecordAck(x, a, t) ==
    \/ x.ack = a
    \/ /\ x.ack = None /\ x.state = "INTENT"
       /\ AckBinds(a, x.dispatch)
       /\ a.at <= t /\ x.updated <= t

\* (fault: the ACK is checked and forgotten)
AckNotJournaled(x, a, t) == x

\* (fault: an ACK that is there already is written again)
AckOverwrites(x, a, t) == [x EXCEPT !.state = "ACKED", !.ack = a, !.updated = t]

AckRecorded(x, a, t) ==
    IF x.ack = a THEN x ELSE [x EXCEPT !.state = "ACKED", !.ack = a, !.updated = t]

\* mark_executing_transition, without the clock check.
MarkAnyTime(x, a, h, t) ==
    /\ x.ack # None /\ x.ack = a
    /\ \/ x.head = h
       \/ /\ x.head = None /\ x.state = "ACKED"
          /\ HeadBinds(h, x.dispatch)

\* mark_executing_transition.
MayMarkExecuting(x, a, h, t) ==
    /\ x.ack # None /\ x.ack = a
    /\ \/ x.head = h
       \/ /\ x.head = None /\ x.state = "ACKED"
          /\ HeadBinds(h, x.dispatch)
          /\ x.updated <= t

\* (fault: the head before the EXECUTING letter is named)
MarksPreviousHead(x, h, t) ==
    IF x.head = h THEN x ELSE [x EXCEPT !.head = [h EXCEPT !.seq = @ - 1], !.updated = t]

ExecutingMarked(x, h, t) ==
    IF x.head = h THEN x ELSE [x EXCEPT !.head = h, !.updated = t]

\* record_result.
MayRecordResult(x, r, t) ==
    \/ x.result = r
    \/ /\ x.result = None /\ x.state = "ACKED" /\ x.head # None
       /\ ResultBinds(r, x.dispatch, x.head)
       /\ r.ended <= t /\ x.updated <= t

ResultRecorded(x, r, t) ==
    IF x.result = r THEN x
    ELSE [x EXCEPT !.state = TerminalEntryState(r), !.result = r, !.updated = t]

\* mark_result_transition_applied.
MayMarkResult(x, r, seq, t) ==
    /\ x.result # None /\ x.result = r
    /\ \/ x.settled = seq
       \/ /\ x.settled = None /\ x.state \in {"COMPLETED", "FAILED"}
          /\ x.updated <= t

ResultMarked(x, seq, t) ==
    IF x.settled = seq THEN x ELSE [x EXCEPT !.settled = seq, !.updated = t]

-----------------------------------------------------------------------------
(* Opening the service: repair_execution_lifecycle_from_letters. *)

\* The (mission, seq) of the letters that are in state s.
LettersIn(s) == {h \in Missions \X (1..MaxLetters) :
                    h[2] <= Len(letters[h[1]]) /\ letters[h[1]][h[2]].state = s}

\* DISPATCHING letters whose dispatch the outbox does not know.
Unregistered == {h \in LettersIn("dispatching") :
                    outbox[letters[h[1]][h[2]].dispatch.exec] = None}

\* (fault: no EXECUTING letter is ever repaired)
NoUnmarked == {}

\* EXECUTING letters answering ApplyExecutingTransition of reconcile.
Unmarked == {h \in LettersIn("executing") :
                LET l == letters[h[1]][h[2]]
                    x == outbox[l.dispatch.exec]
                IN  x # None /\ x.state = "ACKED" /\ x.head = None /\ x.ack = l.ack}

\* Result letters answering ApplyResultTransition of reconcile.
Unsettled == {h \in LettersIn("gate") \cup LettersIn("failed") :
                LET l == letters[h[1]][h[2]] IN
                /\ l.source = "result"
                /\ LET x == outbox[l.dispatch.exec]
                   IN  x # None /\ x.result = l.result /\ x.result # None /\ x.settled = None}

\* MissionService::open_internal up to the repair.  A torn outbox refuses to open.
Open ==
    /\ job = Idle
    /\ ~outboxTorn
    /\ job' = [Idle EXCEPT !.pc = "repair"]
    /\ UNCHANGED <<letters, outbox, outboxTorn, runnerVars>>

RepairRegister(m, i) ==
    /\ job.pc = "repair"
    /\ <<m, i>> \in Unregistered
    /\ LET l == letters[m][i] IN
       /\ Preflight(l.dispatch, l.at)
       /\ outbox' = Registered(l.dispatch, l.at)
    /\ UNCHANGED <<letters, outboxTorn, job, runnerVars>>

RepairMarkExecuting(m, i) ==
    /\ job.pc = "repair"
    /\ Unregistered = {}
    /\ <<m, i>> \in Unmarked
    /\ LET l == letters[m][i]
           e == l.dispatch.exec
       IN  /\ MayMarkExecuting(outbox[e], l.ack, HeadId(m, i), l.at)
           /\ outbox' = [outbox EXCEPT ![e] = ExecutingMarked(@, HeadId(m, i), l.at)]
    /\ UNCHANGED <<letters, outboxTorn, job, runnerVars>>

RepairMarkResult(m, i) ==
    /\ job.pc = "repair"
    /\ Unregistered = {}
    /\ <<m, i>> \in Unsettled
    /\ LET l == letters[m][i]
           e == l.dispatch.exec
       IN  /\ MayMarkResult(outbox[e], l.result, i, l.at)
           /\ outbox' = [outbox EXCEPT ![e] = ResultMarked(@, i, l.at)]
    /\ UNCHANGED <<letters, outboxTorn, job, runnerVars>>

\* RepairDone, skipping the repair of EXECUTING letters.
RepairSkipped ==
    /\ job.pc = "repair"
    /\ Unregistered = {} /\ Unsettled = {}
    /\ job' = [Idle EXCEPT !.pc = "serve"]
    /\ UNCHANGED <<letters, outbox, outboxTorn, runnerVars>>

\* Nothing is left to repair: the service is open.
RepairDone ==
    /\ job.pc = "repair"
    /\ Unregistered = {} /\ Unmarked = {} /\ Unsettled = {}
    /\ job' = [Idle EXCEPT !.pc = "serve"]
    /\ UNCHANGED <<letters, outbox, outboxTorn, runnerVars>>

-----------------------------------------------------------------------------
(* One request: validated against the open service, then prepared.  Each ends *)
(* at "persist" with the letter that transition_internal has built.           *)

\* The clock samples a request being served may carry.
Samples == {t \in 0..MaxTime : t <= now /\ now <= t + MaxLag}

\* What validate_transition_evidence lets decisions and reviews inherit from the
\* head; a proposal inherits nothing.
InheritedDispatch(m, r) ==
    IF r.source \in {"decision", "review"} /\ HasHead(m) THEN Head1(m).dispatch ELSE None
InheritedResult(m, r) ==
    IF r.source \in {"decision", "review"} /\ HasHead(m) THEN Head1(m).result ELSE None

\* create_execution_dispatch, through transition_internal, validate_dispatch and
\* prepare_execution_lifecycle: the outbox is only asked whether it would accept.
RequestDispatch(d, r, t) ==
    LET m == d.head.mission IN
    /\ job.pc = "serve"
    /\ r.to = "dispatching"
    /\ Extends(m, r, d.head.packet)
    /\ d.head.seq = Len(letters[m])
    /\ d.head.iteration = NextIteration(r, HeadIteration(m))
    /\ ValidNewDispatch(d, t)
    /\ Preflight(d, t)
    /\ job' = Job("persist", m, Len(letters[m]) + 1,
                  [Letter(m, r, d.head.packet, t) EXCEPT
                      !.dispatch = d, !.result = InheritedResult(m, r)])
    /\ UNCHANGED <<letters, outbox, outboxTorn, runnerVars>>

\* A transition outside the execution lifecycle.  The transport refuses LANDED and
\* everything that carries a dispatch, an ACK or a result on this route.
RequestTransition(m, r, packet, t) ==
    /\ job.pc = "serve"
    /\ r.source \in {"decision", "proposal", "review"}
    /\ r.to \notin {"dispatching", "landed"}
    /\ Extends(m, r, packet)
    /\ r.to = "merge_wait" => Head1(m).result # None
    /\ job' = Job("persist", m, Len(letters[m]) + 1,
                  [Letter(m, r, packet, t) EXCEPT
                      !.dispatch = InheritedDispatch(m, r),
                      !.result = InheritedResult(m, r)])
    /\ UNCHANGED <<letters, outbox, outboxTorn, runnerVars>>

\* reconcile_runner_started_snapshot.  The snapshot delivered may be any STARTED
\* or ACKED one the runner ever wrote; a STARTED one says nothing about the ACK,
\* so any signed ACK no older than the start may come with it.
RequestStarted(a, t) ==
    LET e == a.dispatch.exec
        m == a.dispatch.head.mission
        r == Rule("dispatching", "executing", "ack", "preserve")
    IN  /\ job.pc = "serve"
        /\ inbox[e] # None /\ inbox[e].started # None /\ inbox[e].started <= a.at
        /\ outbox[e] # None /\ outbox[e].dispatch = inbox[e].dispatch
        /\ HasHead(m) /\ Head1(m).dispatch = inbox[e].dispatch
        /\ Extends(m, r, a.dispatch.head.packet)
        /\ AckBinds(a, Head1(m).dispatch)
        /\ MayRecordAck(outbox[e], a, t)
        /\ outbox' = [outbox EXCEPT ![e] = AckRecorded(@, a, t)]
        /\ job' = Job("persist", m, Len(letters[m]) + 1,
                      [Letter(m, r, Head1(m).packet, t) EXCEPT
                          !.dispatch = Head1(m).dispatch, !.ack = a])
        /\ UNCHANGED <<letters, outboxTorn, runnerVars>>

\* RequestTerminal, without the check that the snapshot binds the owner's head.
TerminalUnbound(e, t) ==
    LET m == inbox[e].dispatch.head.mission
        res == inbox[e].result
        r == Rule("executing", ExpectedTransition(res), "result", "preserve")
    IN  /\ job.pc = "serve"
        /\ inbox[e] # None /\ inbox[e].result # None
        /\ outbox[e] # None /\ outbox[e].dispatch = inbox[e].dispatch
        /\ HasHead(m) /\ Head1(m).dispatch.exec = e
        /\ Extends(m, r, Head1(m).packet)
        /\ job' = Job("persist", m, Len(letters[m]) + 1,
                      [Letter(m, r, Head1(m).packet, t) EXCEPT
                          !.dispatch = Head1(m).dispatch, !.result = res])
        /\ UNCHANGED <<letters, outbox, outboxTorn, runnerVars>>

\* reconcile_runner_terminal_snapshot.  A terminal snapshot is the last one.
RequestTerminal(e, t) ==
    LET m == inbox[e].dispatch.head.mission
        res == inbox[e].result
        r == Rule("executing", ExpectedTransition(res), "result", "preserve")
    IN  /\ job.pc = "serve"
        /\ inbox[e] # None /\ inbox[e].result # None
        /\ outbox[e] # None /\ outbox[e].dispatch = inbox[e].dispatch
        /\ outbox[e].head = inbox[e].head
        /\ HasHead(m) /\ Head1(m).dispatch = inbox[e].dispatch
        /\ inbox[e].head = HeadId(m, Len(letters[m]))
        /\ Extends(m, r, Head1(m).packet)
        /\ ResultBinds(res, Head1(m).dispatch, HeadId(m, Len(letters[m])))
        /\ MayRecordResult(outbox[e], res, t)
        /\ outbox' = [outbox EXCEPT ![e] = ResultRecorded(@, res, t)]
        /\ job' = Job("persist", m, Len(letters[m]) + 1,
                      [Letter(m, r, Head1(m).packet, t) EXCEPT
                          !.dispatch = Head1(m).dispatch, !.result = res])
        /\ UNCHANGED <<letters, outboxTorn, runnerVars>>

\* ReplayRequest (fault: the stored letter is persisted again).
ReplayAppends(m, i, t) ==
    /\ job.pc = "serve"
    /\ i <= Len(letters[m])
    /\ Len(letters[m]) < MaxLetters
    /\ InLifecycle(letters[m][i])
    /\ job' = Job("persist", m, Len(letters[m]) + 1, letters[m][i])
    /\ UNCHANGED <<letters, outbox, outboxTorn, runnerVars>>

\* A request whose idempotency key was used for letter i: prepare and finalize run
\* again for the stored letter, and no letter is added.
ReplayRequest(m, i, t) ==
    /\ job.pc = "serve"
    /\ i <= Len(letters[m])
    /\ LET l == letters[m][i]
           e == l.dispatch.exec
       IN  \/ /\ l.state = "dispatching"
              /\ Preflight(l.dispatch, t)
              /\ UNCHANGED outbox
           \/ /\ l.source = "ack"
              /\ MayRecordAck(outbox[e], l.ack, t)
              /\ outbox' = [outbox EXCEPT ![e] = AckRecorded(@, l.ack, t)]
           \/ /\ l.source = "result"
              /\ MayRecordResult(outbox[e], l.result, t)
              /\ outbox' = [outbox EXCEPT ![e] = ResultRecorded(@, l.result, t)]
    /\ job' = Job("replay", m, i, letters[m][i])
    /\ UNCHANGED <<letters, outboxTorn, runnerVars>>

-----------------------------------------------------------------------------
\* persist_state: the state file with the new letter replaces the old one.
PersistLetter ==
    /\ job.pc = "persist"
    /\ letters' = [letters EXCEPT ![job.mission] = Append(@, job.letter)]
    /\ job' = IF InLifecycle(job.letter) THEN [job EXCEPT !.pc = "finalize"] ELSE Idle
    /\ UNCHANGED <<outbox, outboxTorn, runnerVars>>

\* finalize_execution_lifecycle, at the letter's own time.
Finalize ==
    /\ job.pc \in {"finalize", "replay"}
    /\ LET l == job.letter
           e == l.dispatch.exec
           h == HeadId(job.mission, job.seq)
       IN  \/ /\ l.state = "dispatching"
              /\ Preflight(l.dispatch, l.at)
              /\ outbox' = Registered(l.dispatch, l.at)
           \/ /\ l.source = "ack"
              /\ MayMarkExecuting(outbox[e], l.ack, h, l.at)
              /\ outbox' = [outbox EXCEPT ![e] = ExecutingMarked(@, h, l.at)]
           \/ /\ l.source = "result"
              /\ MayMarkResult(outbox[e], l.result, job.seq, l.at)
              /\ outbox' = [outbox EXCEPT ![e] = ResultMarked(@, job.seq, l.at)]
    /\ job' = Idle
    /\ UNCHANGED <<letters, outboxTorn, runnerVars>>

\* The request ends where it stands: refused, failed or crashed.
Abandon ==
    /\ job # Idle
    /\ job' = Idle
    /\ UNCHANGED <<letters, outbox, outboxTorn, runnerVars>>

\* A crash cuts an outbox append short.
OwnerTornAppend ==
    /\ job.pc \in {"repair", "serve", "finalize"}
    /\ LettersIn("dispatching") # {}
    /\ outboxTorn' = TRUE
    /\ job' = Idle
    /\ UNCHANGED <<letters, outbox, runnerVars>>

-----------------------------------------------------------------------------
Repair ==
    \/ \E m \in Missions, i \in 1..MaxLetters :
          \/ RepairRegister(m, i)
          \/ RepairMarkExecuting(m, i)
          \/ RepairMarkResult(m, i)
    \/ RepairDone

Request ==
    \E t \in Samples :
        \/ \E d \in Offers, r \in TransitionRules : RequestDispatch(d, r, t)
        \/ \E m \in Missions, r \in TransitionRules, p \in Packets :
              RequestTransition(m, r, p, t)
        \/ \E a \in signed : RequestStarted(a, t)
        \/ \E e \in Execs : inbox[e] # None /\ RequestTerminal(e, t)
        \/ \E m \in Missions, i \in 1..MaxLetters : ReplayRequest(m, i, t)

OwnerStep ==
    \/ Open
    \/ Repair
    \/ Request
    \/ PersistLetter
    \/ Finalize
    \/ Abandon
    \/ OwnerTornAppend

\* The runner sees registered dispatches and published EXECUTING letters, as often
\* and as late as the transport likes.
RunnerStep ==
    /\ \/ \E e \in Execs : outbox[e] # None /\ ClaimForSpawn(outbox[e].dispatch)
       \/ \E h \in LettersIn("executing") :
             LET l == letters[h[1]][h[2]]
             IN  ObserveExecuting(l.dispatch.exec, l.ack, HeadId(h[1], h[2]))
       \/ DriverStep
       \/ Tick
    /\ UNCHANGED ownerVars

Next == OwnerStep \/ RunnerStep

Spec == Init /\ [][Next]_vars

\* The owner keeps being called, and a service that is opened again and again gets
\* through one more repair append: a fault may cut any one attempt short, but not
\* all of them.
FairSpec == Spec /\ WF_vars(OwnerStep) /\ SF_vars(Repair)

-----------------------------------------------------------------------------
TypeOK ==
    /\ RunnerTypeOK
    /\ letters \in [Missions -> Seq(Letters)]
    /\ outbox \in [Execs -> OwnerEntries \cup {None}]
    /\ outboxTorn \in BOOLEAN
    /\ job \in [pc : {"idle", "repair", "serve", "persist", "finalize", "replay"},
                mission : Missions \cup {None}, seq : Nat, letter : Letters \cup {None}]

\* The outbox says of letter i what the letter says of itself.
Reflected(m, i) ==
    LET l == letters[m][i]
        x == outbox[l.dispatch.exec]
    IN  /\ x # None /\ x.dispatch = l.dispatch
        /\ l.source = "ack" => x.ack = l.ack /\ x.head = HeadId(m, i)
        /\ l.source = "result" => x.result = l.result /\ x.settled = i

LifecycleLetters == {h \in Missions \X (1..MaxLetters) :
                        h[2] <= Len(letters[h[1]]) /\ InLifecycle(letters[h[1]][h[2]])}

(***************************************************************************)
(* A mission says EXECUTING only about a process that exists: exactly one  *)
(* was spawned for the execution, its start is durable at the runner, and  *)
(* the ACK the letter rests on is durable at the owner, in every crash     *)
(* state between the journals and the state file.                          *)
(***************************************************************************)
ExecutingIsReal ==
    \A h \in LettersIn("executing") :
        LET l == letters[h[1]][h[2]]
            e == l.dispatch.exec
        IN  /\ outbox[e] # None /\ outbox[e].ack = l.ack /\ outbox[e].dispatch = l.dispatch
            /\ inbox[e] # None /\ inbox[e].dispatch = l.dispatch
            /\ inbox[e].started # None /\ inbox[e].started <= l.ack.at
            /\ spawned[e] = 1

(***************************************************************************)
(* The outbox never runs ahead of the letters: a head or a settlement in   *)
(* it names a letter that was persisted, of that execution and with that   *)
(* evidence, so mark_executing_transition and                              *)
(* mark_result_transition_applied never record a transition that a crash   *)
(* took back.                                                              *)
(***************************************************************************)
OutboxNamesLetters ==
    \A e \in Execs : outbox[e] # None =>
        LET x == outbox[e]
            m == x.dispatch.head.mission
        IN  /\ x.head # None =>
                 /\ <<m, x.head.seq>> \in LettersIn("executing")
                 /\ x.head = HeadId(m, x.head.seq)
                 /\ letters[m][x.head.seq].ack = x.ack
            /\ x.settled # None =>
                 /\ x.settled \in 1..Len(letters[m])
                 /\ letters[m][x.settled].source = "result"
                 /\ letters[m][x.settled].result = x.result

(***************************************************************************)
(* Owner and runner agree on a finished execution: a result letter, the    *)
(* owner's entry and the runner's entry hold the same result for the same  *)
(* EXECUTING head, and both sides hold the same ACK, although the runner   *)
(* may have signed several and nothing orders their delivery.              *)
(***************************************************************************)
ResultAgreement ==
    \A e \in Execs : outbox[e] # None /\ outbox[e].result # None =>
        /\ inbox[e] # None
        /\ inbox[e].result = outbox[e].result
        /\ inbox[e].head = outbox[e].head
        /\ inbox[e].ack = outbox[e].ack

(***************************************************************************)
(* A mission waits to be merged only on an execution that succeeded: the   *)
(* result a MERGE_WAIT letter carries is a success, is the one the outbox  *)
(* settled, and was produced under an EXECUTING letter of the same         *)
(* mission, iteration and packet, even after REVIEW sent the packet back   *)
(* and a second execution ran.                                             *)
(***************************************************************************)
MergeWaitEarned ==
    \A h \in LettersIn("merge_wait") :
        LET l == letters[h[1]][h[2]]
            x == outbox[l.dispatch.exec]
        IN  /\ l.result # None /\ l.result.outcome = "succeeded"
            /\ l.result.dispatch = l.dispatch
            /\ x # None /\ x.state = "COMPLETED" /\ x.result = l.result
            /\ <<h[1], l.result.head.seq>> \in LettersIn("executing")
            /\ l.result.head.seq < h[2]
            /\ l.result.head = HeadId(h[1], l.result.head.seq)
            /\ l.iteration = l.result.head.iteration /\ l.packet = l.result.head.packet

(***************************************************************************)
(* A service that has opened serves from a repaired outbox: whatever       *)
(* crashed before, every lifecycle letter is reflected in the outbox       *)
(* before the next request is looked at.                                   *)
(***************************************************************************)
ServesRepaired ==
    job.pc \in {"serve", "replay"} => \A h \in LifecycleLetters : Reflected(h[1], h[2])

(***************************************************************************)
(* An execution id is bound to one DISPATCHING letter of one mission, and  *)
(* so is a packet of a head, although the outbox learns of a dispatch only *)
(* after its letter is durable.                                            *)
(***************************************************************************)
ExecutionBoundOnce ==
    \A g, h \in LettersIn("dispatching") :
        LET d1 == letters[g[1]][g[2]].dispatch
            d2 == letters[h[1]][h[2]].dispatch
        IN  d1.exec = d2.exec \/ SamePacketBinding(d1, d2) => g = h

(***************************************************************************)
(* OwnerExecutionOutbox::open never rejects what the outbox wrote: every   *)
(* snapshot has the shape validate_owner_shape demands and none collide.   *)
(***************************************************************************)
OutboxReplayable ==
    \A e \in Execs : outbox[e] # None =>
        /\ outbox[e].dispatch.exec = e
        /\ OwnerShape(outbox[e])
        /\ ~Collides([outbox EXCEPT ![e] = None], outbox[e].dispatch)

(***************************************************************************)
(* Evidence in the outbox is final: a step leaves a snapshot alone,        *)
(* registers a new one or makes one of the deltas the replay accepts.      *)
(***************************************************************************)
OutboxStepsLegal ==
    [][\A e \in Execs : \/ outbox'[e] = outbox[e]
                        \/ outbox[e] = None /\ outbox'[e].state = "INTENT"
                        \/ outbox[e] # None /\ OwnerDelta(outbox[e], outbox'[e])]_vars

(***************************************************************************)
(* A retried request changes nothing durable: prepare and finalize find    *)
(* everything in place.                                                    *)
(***************************************************************************)
ReplayIsInert ==
    [][(job.pc = "replay" /\ job' = Idle) \/ job'.pc = "replay"
            => UNCHANGED <<letters, outbox>>]_vars

(***************************************************************************)
(* The durable state never makes the next open fail: every repair that is  *)
(* due would be accepted by the outbox, in particular no letter's time     *)
(* lies before the snapshot it must extend.                                *)
(***************************************************************************)
NoRepairBlocked ==
    /\ \A h \in Unregistered : LET l == letters[h[1]][h[2]] IN Preflight(l.dispatch, l.at)
    /\ \A h \in Unmarked :
          LET l == letters[h[1]][h[2]]
          IN  MayMarkExecuting(outbox[l.dispatch.exec], l.ack, HeadId(h[1], h[2]), l.at)
    /\ \A h \in Unsettled :
          LET l == letters[h[1]][h[2]]
          IN  MayMarkResult(outbox[l.dispatch.exec], l.result, h[2], l.at)

(***************************************************************************)
(* Every lifecycle letter is eventually reflected in the outbox, unless a  *)
(* crash tore the outbox journal: a DISPATCHING letter is registered (and  *)
(* so deliverable), an EXECUTING or result letter is marked.               *)
(***************************************************************************)
LettersReflected ==
    \A m \in Missions, i \in 1..MaxLetters :
        <<m, i>> \in LifecycleLetters ~> (outboxTorn \/ (<<m, i>> \in LifecycleLetters /\ Reflected(m, i)))

-----------------------------------------------------------------------------
\* The mission chains the letters spell.
ChainOf(m) ==
    IF HasHead(m)
    THEN [state |-> Head1(m).state, seq |-> Len(letters[m]),
          iteration |-> Head1(m).iteration, packet |-> Head1(m).packet]
    ELSE [state |-> NoState, seq |-> 0, iteration |-> 0, packet |-> CHOOSE p \in Packets : TRUE]

Chain == INSTANCE MissionChain WITH chain <- [m \in Missions |-> ChainOf(m)]

(***************************************************************************)
(* The service implements MissionChain: in whatever order requests,        *)
(* replays, crashes and repairs come, a mission only ever grows by one     *)
(* letter along a transition rule.                                         *)
(***************************************************************************)
ImplementsChain == Chain!ChainSpec

\* MissionChain's properties, of the chains the letters spell.
ChainInv == Chain!ChainInv
IterationBindsPacket == Chain!IterationBindsPacket
TerminalFrozen == Chain!TerminalFrozen
=============================================================================
