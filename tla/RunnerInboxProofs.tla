-------------------------- MODULE RunnerInboxProofs --------------------------
(***************************************************************************)
(* Proofs about RunnerInbox, for any executions, missions, offers and      *)
(* clock range: the runner starts at most one process per execution and    *)
(* per packet binding, and always reopens what it wrote.                   *)
(***************************************************************************)
EXTENDS RunnerInbox, TLAPS

(***************************************************************************)
(* The inductive invariant.  AtMostOneProcess alone says nothing of the    *)
(* permits and claims a spawn consumes: a permit exists only for a claimed *)
(* execution with no process, a process only for a claimed execution, and  *)
(* claims never collide.  The shape of an entry is what later operations   *)
(* rely on, and CLAIMED entries were not touched since the claim, which is *)
(* why a start time is never before the snapshot it extends.               *)
(***************************************************************************)
EntrySound(e) ==
    Claimed(e) => /\ inbox[e].dispatch.exec = e
                  /\ RunnerShape(inbox[e])
                  /\ inbox[e].state = "CLAIMED" => inbox[e].updated = inbox[e].claimed

BindingsDistinct ==
    \A e, f \in Execs :
        Claimed(e) /\ Claimed(f) /\ e # f
        => ~SamePacketBinding(inbox[e].dispatch, inbox[f].dispatch)

SpawnOnce(e) ==
    /\ e \in permits => Claimed(e) /\ spawned[e] = 0
    /\ spawned[e] <= 1
    /\ spawned[e] > 0 => Claimed(e)

RunnerIndInv ==
    /\ RunnerTypeOK
    /\ \A e \in Execs : EntrySound(e)
    /\ BindingsDistinct
    /\ \A e \in Execs : SpawnOnce(e)

\* What one step does to the entry of execution e.
EntryStep(e) ==
    \/ inbox'[e] = inbox[e]
    \/ inbox[e] = None /\ inbox'[e].state = "CLAIMED"
    \/ inbox[e] # None /\ RunnerDelta(inbox[e], inbox'[e])

-----------------------------------------------------------------------------
(* What each operation writes: an entry of the right type and shape that a  *)
(* replay accepts after the one it extends.                                 *)

\* claim_for_spawn writes a well-shaped CLAIMED entry.
LEMMA ClaimedEntry ==
    ASSUME NEW d \in Dispatches, NEW t \in Nat, ValidNewDispatch(d, t),
           NEW y, y = [dispatch |-> d, state |-> "CLAIMED", claimed |-> t, updated |-> t,
                       started |-> None, ack |-> None, head |-> None, result |-> None]
    PROVE  y \in RunnerEntries /\ RunnerShape(y) /\ y # None
BY NoneAssumption DEF RunnerEntries, RunnerStates, RunnerShape

\* mark_process_started extends a CLAIMED entry.
LEMMA StartedEntry ==
    ASSUME NEW x \in RunnerEntries, RunnerShape(x), x.state = "CLAIMED", x.updated = x.claimed,
           NEW s \in Nat, x.claimed <= s, s < x.dispatch.deadline,
           NEW y, y = [x EXCEPT !.state = "STARTED", !.started = s, !.updated = s]
    PROVE  y \in RunnerEntries /\ RunnerShape(y) /\ RunnerDelta(x, y) /\ y.state # "CLAIMED"
<1>1. y \in RunnerEntries /\ y.state # "CLAIMED"
  BY DEF RunnerEntries, RunnerStates
<1>2. RunnerShape(y)
  BY NoneAssumption DEF RunnerShape, RunnerEntries
<1>3. RunnerDelta(x, y)
  BY NoneAssumption DEF RunnerShape, RunnerDelta, RunnerEntries
<1> QED
  BY <1>1, <1>2, <1>3

\* record_ack extends a STARTED entry.
LEMMA AckedEntry ==
    ASSUME NEW x \in RunnerEntries, RunnerShape(x), x.state = "STARTED",
           NEW a \in Acks, AckBinds(a, x.dispatch), x.started <= a.at,
           NEW t \in Nat, x.updated <= t,
           NEW y, y = [x EXCEPT !.state = "ACKED", !.ack = a, !.updated = t]
    PROVE  y \in RunnerEntries /\ RunnerShape(y) /\ RunnerDelta(x, y) /\ y.state # "CLAIMED"
<1>1. y \in RunnerEntries /\ y.state # "CLAIMED"
  BY DEF RunnerEntries, RunnerStates
<1>2. RunnerShape(y)
  BY NoneAssumption DEF RunnerShape, RunnerEntries
<1>3. RunnerDelta(x, y)
  BY NoneAssumption DEF RunnerShape, RunnerDelta, RunnerEntries
<1> QED
  BY <1>1, <1>2, <1>3

\* observe_executing_transition adds the head to an ACKED entry.
LEMMA ObservedEntry ==
    ASSUME NEW x \in RunnerEntries, RunnerShape(x), x.state = "ACKED", x.head = None,
           NEW h \in MissionHeads, HeadBinds(h, x.dispatch),
           NEW t \in Nat, x.updated <= t,
           NEW y, y = [x EXCEPT !.head = h, !.updated = t]
    PROVE  y \in RunnerEntries /\ RunnerShape(y) /\ RunnerDelta(x, y) /\ y.state # "CLAIMED"
<1>1. y \in RunnerEntries /\ y.state # "CLAIMED"
  BY DEF RunnerEntries, RunnerStates
<1>2. RunnerShape(y)
  BY NoneAssumption DEF RunnerShape, RunnerEntries
<1>3. RunnerDelta(x, y)
  BY NoneAssumption DEF RunnerShape, RunnerDelta, RunnerEntries
<1> QED
  BY <1>1, <1>2, <1>3

\* record_result ends an ACKED entry that has a head.
LEMMA SettledEntry ==
    ASSUME NEW x \in RunnerEntries, RunnerShape(x), x.state = "ACKED", x.head # None,
           NEW r \in Results, ResultBinds(r, x.dispatch, x.head), r.started = x.started,
           NEW t \in Nat, x.updated <= t,
           NEW y, y = [x EXCEPT !.state = TerminalEntryState(r), !.result = r, !.updated = t]
    PROVE  y \in RunnerEntries /\ RunnerShape(y) /\ RunnerDelta(x, y) /\ y.state # "CLAIMED"
<1>1. y \in RunnerEntries /\ y.state # "CLAIMED"
  BY DEF RunnerEntries, RunnerStates, TerminalEntryState
<1>2. RunnerShape(y)
  BY NoneAssumption DEF RunnerShape, RunnerEntries, TerminalEntryState
<1>3. RunnerDelta(x, y)
  BY NoneAssumption DEF RunnerShape, RunnerDelta, RunnerEntries, TerminalEntryState
<1> QED
  BY <1>1, <1>2, <1>3

-----------------------------------------------------------------------------
\* Replacing the entry of one claimed execution along a legal delta, and touching
\* neither permits nor processes, preserves the invariant.
LEMMA ExtendEntry ==
    ASSUME RunnerIndInv,
           NEW e \in Execs, Claimed(e),
           NEW y \in RunnerEntries, RunnerShape(y), RunnerDelta(inbox[e], y),
           y.state # "CLAIMED",
           inbox' = [inbox EXCEPT ![e] = y],
           UNCHANGED <<inboxTorn, runnerUp, permits, spawned, signed, now>>
    PROVE  RunnerIndInv' /\ \A f \in Execs : EntryStep(f)
<1>1. /\ inbox \in [Execs -> RunnerEntries \cup {None}]
      /\ inbox'[e] = y
      /\ \A f \in Execs : f # e => inbox'[f] = inbox[f]
      /\ y # None
  BY NoneAssumption DEF RunnerIndInv, RunnerTypeOK
<1>2. RunnerTypeOK'
  BY DEF RunnerIndInv, RunnerTypeOK
<1>3. y.dispatch = inbox[e].dispatch
  BY DEF RunnerDelta
<1>4. ASSUME NEW f \in Execs PROVE EntrySound(f)'
  BY <1>1, <1>3 DEF RunnerIndInv, EntrySound, Claimed
<1>5. \A f \in Execs : Claimed(f)' <=> Claimed(f)
  BY <1>1 DEF Claimed
<1>6. \A f \in Execs : Claimed(f) => inbox'[f].dispatch = inbox[f].dispatch
  BY <1>1, <1>3
<1>7. BindingsDistinct'
  BY <1>5, <1>6 DEF RunnerIndInv, BindingsDistinct, SamePacketBinding
<1>8. ASSUME NEW f \in Execs PROVE SpawnOnce(f)'
  BY <1>5 DEF RunnerIndInv, SpawnOnce
<1>9. \A f \in Execs : EntryStep(f)
  BY <1>1 DEF EntryStep, Claimed
<1> QED
  BY <1>2, <1>4, <1>7, <1>8, <1>9 DEF RunnerIndInv

\* A step that leaves the entries alone and spends at most the permits it has.
LEMMA KeepEntries ==
    ASSUME RunnerIndInv, UNCHANGED inbox, RunnerTypeOK',
           permits' \subseteq permits, UNCHANGED spawned
    PROVE  RunnerIndInv' /\ \A f \in Execs : EntryStep(f)
<1>1. \A f \in Execs : Claimed(f)' <=> Claimed(f)
  BY DEF Claimed
<1>2. ASSUME NEW f \in Execs PROVE EntrySound(f)'
  BY DEF RunnerIndInv, EntrySound, Claimed
<1>3. BindingsDistinct'
  BY DEF RunnerIndInv, BindingsDistinct, Claimed
<1>4. ASSUME NEW f \in Execs PROVE SpawnOnce(f)'
  BY <1>1 DEF RunnerIndInv, SpawnOnce
<1> QED
  BY <1>2, <1>3, <1>4 DEF RunnerIndInv, EntryStep

-----------------------------------------------------------------------------
\* claim_for_spawn: the claimed execution had no entry, so it has no process yet
\* and no other entry binds its packet.
LEMMA ClaimPreserves ==
    ASSUME RunnerIndInv, NEW d \in Dispatches, ClaimForSpawn(d)
    PROVE  RunnerIndInv' /\ \A f \in Execs : EntryStep(f)
<1> DEFINE e == d.exec
           y == [dispatch |-> d, state |-> "CLAIMED", claimed |-> now, updated |-> now,
                 started |-> None, ack |-> None, head |-> None, result |-> None]
<1>0. e \in Execs
  BY DEF Dispatches
<1>1. ~Claimed(e)
  BY <1>0 DEF ClaimForSpawn, Collides, RunnerIndInv, EntrySound, Claimed
<1>2. \A f \in Execs : Claimed(f) => ~SamePacketBinding(inbox[f].dispatch, d)
  BY DEF ClaimForSpawn, Collides, Claimed
<1>3. y \in RunnerEntries /\ RunnerShape(y) /\ y # None
  <2>1. now \in Nat /\ ValidNewDispatch(d, now)
    BY DEF RunnerIndInv, RunnerTypeOK, ClaimForSpawn
  <2> QED
    BY <2>1, ClaimedEntry
<1>4. y.dispatch = d /\ y.state = "CLAIMED" /\ y.updated = y.claimed
  OBVIOUS
<1>5. inbox' = [inbox EXCEPT ![e] = y] /\ permits' = permits \cup {e}
      /\ UNCHANGED <<inboxTorn, runnerUp, spawned, signed, now>>
  BY DEF ClaimForSpawn
<1> HIDE DEF y
<1>6. /\ inbox \in [Execs -> RunnerEntries \cup {None}]
      /\ inbox'[e] = y
      /\ \A f \in Execs : f # e => inbox'[f] = inbox[f]
  BY <1>0, <1>5 DEF RunnerIndInv, RunnerTypeOK
<1>7. RunnerTypeOK'
  BY <1>0, <1>3, <1>5 DEF RunnerIndInv, RunnerTypeOK
<1>8. ASSUME NEW f \in Execs PROVE EntrySound(f)'
  BY <1>3, <1>4, <1>6 DEF RunnerIndInv, EntrySound, Claimed
<1>9. \A f \in Execs : f # e => (Claimed(f)' <=> Claimed(f)) /\ inbox'[f].dispatch = inbox[f].dispatch
  BY <1>6 DEF Claimed
<1>10. BindingsDistinct'
  <2> SUFFICES ASSUME NEW f \in Execs, NEW g \in Execs, Claimed(f)', Claimed(g)', f # g
               PROVE  ~SamePacketBinding(inbox'[f].dispatch, inbox'[g].dispatch)
      BY DEF BindingsDistinct
  <2>1. CASE f = e
    BY <2>1, <1>2, <1>4, <1>6, <1>9 DEF SamePacketBinding
  <2>2. CASE g = e
    BY <2>2, <1>2, <1>4, <1>6, <1>9 DEF SamePacketBinding
  <2>3. CASE f # e /\ g # e
    BY <2>3, <1>9 DEF RunnerIndInv, BindingsDistinct, SamePacketBinding
  <2> QED
    BY <2>1, <2>2, <2>3
<1>11. ASSUME NEW f \in Execs PROVE SpawnOnce(f)'
  <2>1. CASE f = e
    <3>1. Claimed(f)'
      BY <2>1, <1>3, <1>6 DEF Claimed
    <3>2. spawned[f] \in Nat /\ ~(spawned[f] > 0)
      BY <2>1, <1>1 DEF RunnerIndInv, SpawnOnce, RunnerTypeOK
    <3> QED
      BY <3>1, <3>2, <1>5 DEF SpawnOnce
  <2>2. CASE f # e
    BY <2>2, <1>5, <1>9 DEF RunnerIndInv, SpawnOnce
  <2> QED
    BY <2>1, <2>2
<1>12. \A f \in Execs : EntryStep(f)
  BY <1>1, <1>4, <1>6 DEF EntryStep, Claimed
<1> QED
  BY <1>7, <1>8, <1>10, <1>11, <1>12 DEF RunnerIndInv

\* Spending a permit starts the first process of its execution.
LEMMA SpawnPreserves ==
    ASSUME RunnerIndInv, NEW e \in Execs, Spawn(e)
    PROVE  RunnerIndInv' /\ \A f \in Execs : EntryStep(f)
<1>1. RunnerTypeOK'
  BY DEF RunnerIndInv, RunnerTypeOK, Spawn
<1>2. ASSUME NEW f \in Execs PROVE EntrySound(f)' /\ (Claimed(f)' <=> Claimed(f)) /\ EntryStep(f)
  BY DEF RunnerIndInv, EntrySound, Claimed, Spawn, EntryStep
<1>3. BindingsDistinct'
  BY DEF RunnerIndInv, BindingsDistinct, Claimed, Spawn
<1>4. ASSUME NEW f \in Execs PROVE SpawnOnce(f)'
  <2>1. spawned \in [Execs -> Nat] /\ SpawnOnce(f) /\ SpawnOnce(e)
    BY DEF RunnerIndInv, RunnerTypeOK
  <2>2. CASE f = e
    BY <2>1, <2>2, <1>2 DEF SpawnOnce, Spawn
  <2>3. CASE f # e
    BY <2>1, <2>3, <1>2 DEF SpawnOnce, Spawn
  <2> QED
    BY <2>2, <2>3
<1> QED
  BY <1>1, <1>2, <1>3, <1>4 DEF RunnerIndInv

\* mark_process_started.
LEMMA StartPreserves ==
    ASSUME RunnerIndInv, NEW e \in Execs, NEW s \in Nat, MarkProcessStarted(e, s)
    PROVE  RunnerIndInv' /\ \A f \in Execs : EntryStep(f)
<1> DEFINE y == [inbox[e] EXCEPT !.state = "STARTED", !.started = s, !.updated = s]
<1>1. inbox[e] \in RunnerEntries /\ EntrySound(e) /\ Claimed(e)
  BY DEF RunnerIndInv, RunnerTypeOK, MarkProcessStarted, Claimed
<1>2. y \in RunnerEntries /\ RunnerShape(y) /\ RunnerDelta(inbox[e], y) /\ y.state # "CLAIMED"
  BY <1>1, StartedEntry DEF MarkProcessStarted, EntrySound
<1>3. /\ inbox' = [inbox EXCEPT ![e] = y]
      /\ UNCHANGED <<inboxTorn, runnerUp, permits, spawned, signed, now>>
  BY <1>1 DEF MarkProcessStarted, RunnerIndInv, RunnerTypeOK, RunnerEntries
<1> QED
  BY <1>1, <1>2, <1>3, ExtendEntry

\* record_ack.
LEMMA RecordAckPreserves ==
    ASSUME RunnerIndInv, NEW a \in signed, RecordAck(a)
    PROVE  RunnerIndInv' /\ \A f \in Execs : EntryStep(f)
<1> DEFINE e == a.dispatch.exec
           y == [inbox[e] EXCEPT !.state = "ACKED", !.ack = a, !.updated = now]
<1>1. a \in Acks /\ e \in Execs /\ now \in Nat
  BY DEF RunnerIndInv, RunnerTypeOK, Acks, Dispatches
<1>2. inbox[e] \in RunnerEntries /\ EntrySound(e) /\ Claimed(e)
  BY <1>1 DEF RunnerIndInv, RunnerTypeOK, RecordAck, Claimed
<1>3. y \in RunnerEntries /\ RunnerShape(y) /\ RunnerDelta(inbox[e], y) /\ y.state # "CLAIMED"
  BY <1>1, <1>2, AckedEntry DEF RecordAck, EntrySound
<1>4. /\ inbox' = [inbox EXCEPT ![e] = y]
      /\ UNCHANGED <<inboxTorn, runnerUp, permits, spawned, signed, now>>
  BY <1>1, <1>2 DEF RecordAck, RunnerIndInv, RunnerTypeOK, RunnerEntries
<1> QED
  BY <1>1, <1>2, <1>3, <1>4, ExtendEntry

\* observe_executing_transition.
LEMMA ObservePreserves ==
    ASSUME RunnerIndInv, NEW e \in Execs, NEW a, NEW h \in MissionHeads,
           ObserveExecuting(e, a, h)
    PROVE  RunnerIndInv' /\ \A f \in Execs : EntryStep(f)
<1> DEFINE y == [inbox[e] EXCEPT !.head = h, !.updated = now]
<1>1. inbox[e] \in RunnerEntries /\ EntrySound(e) /\ Claimed(e) /\ now \in Nat
  BY DEF RunnerIndInv, RunnerTypeOK, ObserveExecuting, Claimed
<1>2. y \in RunnerEntries /\ RunnerShape(y) /\ RunnerDelta(inbox[e], y) /\ y.state # "CLAIMED"
  BY <1>1, ObservedEntry DEF ObserveExecuting, EntrySound
<1>3. /\ inbox' = [inbox EXCEPT ![e] = y]
      /\ UNCHANGED <<inboxTorn, runnerUp, permits, spawned, signed, now>>
  BY <1>1 DEF ObserveExecuting, RunnerIndInv, RunnerTypeOK, RunnerEntries
<1> QED
  BY <1>1, <1>2, <1>3, ExtendEntry

\* record_result.
LEMMA RecordResultPreserves ==
    ASSUME RunnerIndInv, NEW e \in Execs, NEW o \in Outcomes, RecordResult(e, o)
    PROVE  RunnerIndInv' /\ \A f \in Execs : EntryStep(f)
<1> DEFINE r == [dispatch |-> inbox[e].dispatch, head |-> inbox[e].head,
                 outcome |-> o, started |-> inbox[e].started, ended |-> now]
           y == [inbox[e] EXCEPT !.state = TerminalEntryState(r), !.result = r,
                                 !.updated = now]
<1>1. inbox[e] \in RunnerEntries /\ EntrySound(e) /\ Claimed(e) /\ now \in Nat
  BY DEF RunnerIndInv, RunnerTypeOK, RecordResult, Claimed
<1>2. r \in Results /\ r.started = inbox[e].started
  BY <1>1 DEF RunnerEntries, Results, RecordResult, EntrySound, RunnerShape
<1>3. /\ ResultBinds(r, inbox[e].dispatch, inbox[e].head)
      /\ inbox[e].state = "ACKED" /\ inbox[e].head # None /\ inbox[e].updated <= now
  BY DEF RecordResult
<1>4. /\ inbox' = [inbox EXCEPT ![e] = y]
      /\ UNCHANGED <<inboxTorn, runnerUp, permits, spawned, signed, now>>
  BY <1>1 DEF RecordResult, RunnerIndInv, RunnerTypeOK, RunnerEntries
<1> HIDE DEF r
<1>5. y \in RunnerEntries /\ RunnerShape(y) /\ RunnerDelta(inbox[e], y) /\ y.state # "CLAIMED"
  BY <1>1, <1>2, <1>3, SettledEntry DEF EntrySound
<1> QED
  BY <1>1, <1>4, <1>5, ExtendEntry

\* Signing an ACK, crashing, reopening and the clock leave every entry alone.
LEMMA OtherPreserves ==
    ASSUME RunnerIndInv,
           \/ \E e \in Execs : SignAck(e)
           \/ RunnerCrash
           \/ RunnerCrashTorn
           \/ RunnerOpen
           \/ Tick
    PROVE  RunnerIndInv' /\ \A f \in Execs : EntryStep(f)
<1> USE DEF RunnerIndInv, RunnerTypeOK
<1>1. ASSUME NEW e \in Execs, SignAck(e)
      PROVE  RunnerTypeOK' /\ permits' \subseteq permits /\ UNCHANGED <<inbox, spawned>>
  <2>1. [dispatch |-> inbox[e].dispatch, at |-> now] \in Acks
    BY <1>1 DEF SignAck, Claimed, RunnerEntries, Acks
  <2> QED
    BY <1>1, <2>1 DEF SignAck
<1>2. CASE RunnerCrash
  BY <1>2, KeepEntries DEF RunnerCrash
<1>3. CASE RunnerCrashTorn
  BY <1>3, KeepEntries DEF RunnerCrashTorn
<1>4. CASE RunnerOpen
  BY <1>4, KeepEntries DEF RunnerOpen
<1>5. CASE Tick
  BY <1>5, KeepEntries DEF Tick
<1> QED
  BY <1>1, <1>2, <1>3, <1>4, <1>5, KeepEntries

-----------------------------------------------------------------------------
\* The empty inbox satisfies the invariant.
LEMMA RunnerInitInv == RunnerInit => RunnerIndInv
<1> SUFFICES ASSUME RunnerInit PROVE RunnerIndInv
    OBVIOUS
<1>1. \A e \in Execs : ~Claimed(e) /\ e \notin permits /\ spawned[e] = 0
  BY DEF RunnerInit, Claimed
<1>2. RunnerTypeOK
  BY DEF RunnerInit, RunnerTypeOK
<1> QED
  BY <1>1, <1>2 DEF RunnerIndInv, EntrySound, BindingsDistinct, SpawnOnce

\* Every step preserves the invariant and moves every entry legally.
LEMMA RunnerNextInv ==
    ASSUME RunnerIndInv, [RunnerNext]_runnerVars
    PROVE  RunnerIndInv' /\ \A f \in Execs : EntryStep(f)
<1>1. ASSUME NEW d \in Offers, ClaimForSpawn(d)
      PROVE  RunnerIndInv' /\ \A f \in Execs : EntryStep(f)
  BY <1>1, ClaimPreserves, OffersAssumption
<1>2. ASSUME NEW a \in signed, NEW h \in Heads, ObserveExecuting(a.dispatch.exec, a, h)
      PROVE  RunnerIndInv' /\ \A f \in Execs : EntryStep(f)
  <2>1. a.dispatch.exec \in Execs
    BY DEF RunnerIndInv, RunnerTypeOK, Acks, Dispatches
  <2> QED
    BY <1>2, <2>1, ObservePreserves, HeadsAssumption
<1>3. CASE DriverStep
  <2>1. CASE \E e \in Execs : Spawn(e)
    BY <2>1, SpawnPreserves
  <2>2. CASE \E e \in Execs, s \in 0..MaxTime : s <= now /\ MarkProcessStarted(e, s)
    BY <2>2, StartPreserves, MaxTimeAssumption
  <2>3. CASE \E a \in signed : RecordAck(a)
    BY <2>3, RecordAckPreserves
  <2>4. CASE \E e \in Execs, outcome \in Outcomes : RecordResult(e, outcome)
    BY <2>4, RecordResultPreserves
  <2> QED
    BY <1>3, <2>1, <2>2, <2>3, <2>4, OtherPreserves DEF DriverStep
<1>4. CASE UNCHANGED runnerVars
  BY <1>4, KeepEntries DEF runnerVars, RunnerIndInv, RunnerTypeOK
<1> QED
  BY <1>1, <1>2, <1>3, <1>4, OtherPreserves DEF RunnerNext

(***************************************************************************)
(* The strengthened invariant holds in every state of the runner.          *)
(***************************************************************************)
THEOREM RunnerIndInvariant == RunnerSpec => []RunnerIndInv
<1>1. RunnerInit => RunnerIndInv
  BY RunnerInitInv
<1>2. RunnerIndInv /\ [RunnerNext]_runnerVars => RunnerIndInv'
  BY RunnerNextInv
<1> QED
  BY <1>1, <1>2, PTL DEF RunnerSpec

(***************************************************************************)
(* Type correctness of the runner.                                         *)
(***************************************************************************)
THEOREM RunnerTypeCorrect == RunnerSpec => []RunnerTypeOK
<1>1. RunnerIndInv => RunnerTypeOK
  BY DEF RunnerIndInv
<1> QED
  BY <1>1, RunnerIndInvariant, PTL

(***************************************************************************)
(* claim_for_spawn lets at most one process be started per execution id    *)
(* and per packet binding, whatever is redelivered and wherever the runner *)
(* crashes.                                                                *)
(***************************************************************************)
THEOREM AtMostOneProcessEver == RunnerSpec => []AtMostOneProcess
<1>1. RunnerIndInv => AtMostOneProcess
  BY DEF RunnerIndInv, AtMostOneProcess, SpawnOnce, BindingsDistinct
<1> QED
  BY <1>1, RunnerIndInvariant, PTL

(***************************************************************************)
(* The inbox always reopens what it wrote: every stored snapshot passes    *)
(* validate_runner_shape and refuse_identity_collision.                    *)
(***************************************************************************)
THEOREM InboxAlwaysReplayable == RunnerSpec => []InboxReplayable
<1>1. RunnerIndInv => InboxReplayable
  <2> SUFFICES ASSUME RunnerIndInv, NEW e \in Execs, Claimed(e)
               PROVE  /\ inbox[e].dispatch.exec = e
                      /\ RunnerShape(inbox[e])
                      /\ ~Collides([inbox EXCEPT ![e] = None], inbox[e].dispatch)
      BY DEF InboxReplayable
  <2>1. EntrySound(e)
    BY DEF RunnerIndInv
  <2>2. ASSUME NEW f \in Execs, [inbox EXCEPT ![e] = None][f] # None
        PROVE  /\ [inbox EXCEPT ![e] = None][f] = inbox[f]
               /\ f # e /\ Claimed(f) /\ inbox[f].dispatch.exec = f
    BY <2>2 DEF RunnerIndInv, RunnerTypeOK, EntrySound, Claimed
  <2>3. ~Collides([inbox EXCEPT ![e] = None], inbox[e].dispatch)
    BY <2>1, <2>2 DEF Collides, RunnerIndInv, BindingsDistinct, EntrySound
  <2> QED
    BY <2>1, <2>3 DEF EntrySound
<1> QED
  BY <1>1, RunnerIndInvariant, PTL

(***************************************************************************)
(* Evidence in the inbox is final: every step makes only the deltas that   *)
(* validate_runner_transition accepts.                                     *)
(***************************************************************************)
THEOREM InboxEvidenceFinal == RunnerSpec => InboxStepsLegal
<1>1. RunnerIndInv /\ [RunnerNext]_runnerVars
        => [\A e \in Execs : \/ inbox'[e] = inbox[e]
                             \/ inbox[e] = None /\ inbox'[e].state = "CLAIMED"
                             \/ inbox[e] # None /\ RunnerDelta(inbox[e], inbox'[e])]_runnerVars
  BY RunnerNextInv DEF EntryStep
<1> QED
  BY <1>1, RunnerIndInvariant, PTL DEF RunnerSpec, InboxStepsLegal
=============================================================================
