----------------------- MODULE MissionExecutionProofs -----------------------
(***************************************************************************)
(* Proofs about the execution lifecycle, for any missions, packets,        *)
(* executions, offers, clock range and lag: letters, outbox and inbox tell *)
(* one story in every crash state, an execution id is bound once, a retry  *)
(* changes nothing, the letters grow along the transition rules, and to    *)
(* the runner the service is one of the owners it was proved against.      *)
(***************************************************************************)
EXTENDS MissionExecution, RunnerInboxProofs

(***************************************************************************)
(* The inductive invariant.  A letter of the lifecycle fits the letter     *)
(* before it (Fits): the dispatch of a DISPATCHING letter names the        *)
(* letter's own place in the chain, an EXECUTING letter directly follows   *)
(* it and a result letter directly follows that one.  So a dispatch alone  *)
(* tells where its letters are, which is what ties an outbox entry to them *)
(* (OutboxSound).  The letter a request is about to persist fits already   *)
(* (JobSound): what its evidence rests on was journaled before, and no     *)
(* other request comes in between.                                         *)
(***************************************************************************)
DispatchFits(l, m, i) ==
    l.state = "dispatching" =>
        /\ l.source \notin {"ack", "result"}
        /\ l.dispatch \in Dispatches
        /\ l.dispatch.head.mission = m /\ l.dispatch.head.seq + 1 = i
        /\ l.dispatch.head.iteration = l.iteration /\ l.dispatch.head.packet = l.packet
        /\ ValidNewDispatch(l.dispatch, l.at)

\* Letter l, after letter p, goes on with the same dispatch and packet.
GoesOn(l, p) ==
    /\ l.dispatch = p.dispatch
    /\ l.iteration = p.iteration /\ l.packet = p.packet

AckFits(l, p, i) ==
    l.source = "ack" \/ l.state = "executing" =>
        /\ l.source = "ack" /\ l.state = "executing"
        /\ i > 1 /\ p.state = "dispatching" /\ GoesOn(l, p)
        /\ l.ack \in Acks /\ AckBinds(l.ack, l.dispatch)
        /\ outbox[l.dispatch.exec] # None /\ outbox[l.dispatch.exec].ack = l.ack

ResultFits(l, p, i) ==
    l.source = "result" \/ l.state = "gate" =>
        /\ l.source = "result" /\ l.state = ExpectedTransition(l.result)
        /\ i > 1 /\ p.state = "executing" /\ GoesOn(l, p)
        /\ l.result \in Results /\ l.result.dispatch = l.dispatch
        /\ outbox[l.dispatch.exec] # None /\ outbox[l.dispatch.exec].result = l.result

\* What a letter after a successful execution rests on.
Earned(l, m, i) ==
    l.state \in {"gate", "review", "merge_wait"} =>
        /\ l.result \in Results /\ l.result.outcome = "succeeded"
        /\ l.result.dispatch = l.dispatch
        /\ outbox[l.dispatch.exec] # None /\ outbox[l.dispatch.exec].result = l.result
        /\ l.result.head.seq \in 1..(i - 1) /\ l.result.head.seq <= Len(letters[m])
        /\ letters[m][l.result.head.seq].state = "executing"
        /\ l.result.head = HeadId(m, l.result.head.seq)
        /\ l.iteration = l.result.head.iteration /\ l.packet = l.result.head.packet

Fits(l, p, m, i) ==
    /\ DispatchFits(l, m, i)
    /\ AckFits(l, p, i)
    /\ ResultFits(l, p, i)
    /\ Earned(l, m, i)

Places(m) == 1..Len(letters[m])

LetterSound(m, i) == Fits(letters[m][i], letters[m][i - 1], m, i)

\* An execution id is in one DISPATCHING letter.
ExecOnce ==
    \A m, n \in Missions : \A i \in Places(m), k \in Places(n) :
        /\ letters[m][i].state = "dispatching" /\ letters[n][k].state = "dispatching"
        /\ letters[m][i].dispatch.exec = letters[n][k].dispatch.exec
        => m = n /\ i = k

\* The letters of dispatch d: where they would be.
DispatchedAt(d) == d.head.seq + 1
ExecutingAt(d) == d.head.seq + 2
ResultAt(d) == d.head.seq + 3

\* The letters that outbox entry x rests on are there.
Backed(x) ==
    LET d == x.dispatch
        m == d.head.mission
    IN  /\ DispatchedAt(d) \in Places(m)
        /\ letters[m][DispatchedAt(d)].state = "dispatching"
        /\ letters[m][DispatchedAt(d)].dispatch = d
        /\ x.head # None =>
              /\ ExecutingAt(d) \in Places(m)
              /\ letters[m][ExecutingAt(d)].state = "executing"
              /\ letters[m][ExecutingAt(d)].ack = x.ack
              /\ x.head = HeadId(m, ExecutingAt(d))
        /\ x.settled # None =>
              /\ x.settled = ResultAt(d)
              /\ ResultAt(d) \in Places(m)
              /\ letters[m][ResultAt(d)].source = "result"
              /\ letters[m][ResultAt(d)].result = x.result

OutboxSound(e) ==
    outbox[e] # None => outbox[e].dispatch.exec = e /\ OwnerShape(outbox[e]) /\ Backed(outbox[e])

\* What outbox entry x and inbox entry y of an execution with n processes know of
\* each other.
Agree(x, y, n) ==
    /\ y # None =>
          /\ x # None /\ x.dispatch = y.dispatch
          /\ y.started # None => n = 1
          /\ y.head # None => x.ack # None /\ x.ack = y.ack
    /\ x # None =>
          /\ x.ack # None => y # None /\ y.started # None /\ y.started <= x.ack.at
          /\ x.result # None => y # None /\ y.result = x.result /\ y.head = x.head /\ y.ack = x.ack

JournalsAgree(e) == Agree(outbox[e], inbox[e], spawned[e])

\* Letter l is what some rule appends to mission m.
Follows(l, m) ==
    \E r \in TransitionRules :
        /\ HeadState(m) = r.from /\ l.state = r.to
        /\ l.iteration = NextIteration(r, HeadIteration(m))
        /\ HasHead(m) => PacketAllowed(r, Head1(m).packet, l.packet)

JobSound ==
    /\ job.pc \in {"persist", "finalize", "replay"} =>
          job.mission \in Missions /\ job.letter \in Letters
    /\ job.pc = "persist" =>
          /\ job.seq = Len(letters[job.mission]) + 1 /\ job.seq <= MaxLetters
          /\ Fits(job.letter, Head1(job.mission), job.mission, job.seq)
          /\ Follows(job.letter, job.mission)
          /\ job.letter.state = "dispatching" =>
                \A m \in Missions : \A i \in Places(m) :
                    letters[m][i].state = "dispatching" =>
                        letters[m][i].dispatch.exec # job.letter.dispatch.exec
    /\ job.pc \in {"finalize", "replay"} =>
          job.seq \in Places(job.mission) /\ job.letter = letters[job.mission][job.seq]
    /\ job.pc \in {"serve", "replay"} =>
          \A m \in Missions : \A i \in Places(m) :
              InLifecycle(letters[m][i]) => Reflected(m, i)

CoreInv ==
    /\ RunnerIndInv
    /\ letters \in [Missions -> Seq(Letters)]
    /\ outbox \in [Execs -> OwnerEntries \cup {None}]
    /\ outboxTorn \in BOOLEAN
    /\ \A m \in Missions : Len(letters[m]) <= MaxLetters
    /\ \A m \in Missions : \A i \in Places(m) : LetterSound(m, i)
    /\ ExecOnce
    /\ \A e \in Execs : OutboxSound(e)
    /\ \A e \in Execs : JournalsAgree(e)

Jobs == [pc : {"idle", "repair", "serve", "persist", "finalize", "replay"},
         mission : Missions \cup {None}, seq : Nat, letter : Letters \cup {None}]

LifecycleInv ==
    /\ CoreInv
    /\ job \in Jobs
    /\ JobSound

\* What one step does to the outbox entry of execution e.
OwnerEntryStep(e) ==
    \/ outbox'[e] = outbox[e]
    \/ outbox[e] = None /\ outbox'[e].state = "INTENT"
    \/ outbox[e] # None /\ outbox'[e] # None /\ OwnerDelta(outbox[e], outbox'[e])

-----------------------------------------------------------------------------
(* What each operation of OwnerExecutionOutbox appends. *)

\* register_intent.
LEMMA IntentEntry ==
    ASSUME NEW d \in Dispatches, NEW t \in Nat, ValidNewDispatch(d, t),
           NEW y, y = [dispatch |-> d, state |-> "INTENT", registered |-> t, updated |-> t,
                       ack |-> None, head |-> None, result |-> None, settled |-> None]
    PROVE  y \in OwnerEntries /\ OwnerShape(y) /\ y # None
BY NoneAssumption DEF OwnerEntries, OwnerStates, OwnerShape

\* record_ack.
LEMMA AckExtends ==
    ASSUME NEW x \in OwnerEntries, OwnerShape(x), x.ack = None, x.state = "INTENT",
           NEW a \in Acks, AckBinds(a, x.dispatch), NEW t \in Nat, x.updated <= t,
           NEW y \in OwnerEntries, y.state = "ACKED" /\ y.ack = a /\ y.updated = t,
           y.dispatch = x.dispatch /\ y.registered = x.registered /\ y.head = x.head,
           y.result = x.result /\ y.settled = x.settled
    PROVE  /\ OwnerShape(y) /\ OwnerDelta(x, y)
           /\ y.ack = a /\ y.head = None /\ y.result = None /\ y.settled = None
<1>1. OwnerShape(y)
  BY NoneAssumption DEF OwnerShape, OwnerEntries
<1>2. OwnerDelta(x, y)
  BY NoneAssumption DEF OwnerShape, OwnerDelta, OwnerEntries
<1>3. y.ack = a /\ y.head = None /\ y.result = None /\ y.settled = None
  BY DEF OwnerShape, OwnerEntries
<1> QED
  BY <1>1, <1>2, <1>3

\* mark_executing_transition.
LEMMA HeadExtends ==
    ASSUME NEW x \in OwnerEntries, OwnerShape(x), x.state = "ACKED", x.head = None,
           NEW h \in MissionHeads, HeadBinds(h, x.dispatch), NEW t \in Nat, x.updated <= t,
           NEW y \in OwnerEntries, y.head = h /\ y.updated = t,
           y.dispatch = x.dispatch /\ y.state = x.state /\ y.registered = x.registered,
           y.ack = x.ack /\ y.result = x.result /\ y.settled = x.settled
    PROVE  /\ OwnerShape(y) /\ OwnerDelta(x, y)
           /\ y.ack = x.ack /\ y.head = h /\ y.result = None /\ y.settled = None
<1>1. OwnerShape(y)
  BY NoneAssumption DEF OwnerShape, OwnerEntries
<1>2. OwnerDelta(x, y)
  BY NoneAssumption DEF OwnerShape, OwnerDelta, OwnerEntries
<1>3. y.ack = x.ack /\ y.head = h /\ y.result = None /\ y.settled = None
  BY DEF OwnerShape, OwnerEntries
<1> QED
  BY <1>1, <1>2, <1>3

\* record_result.
LEMMA ResultExtends ==
    ASSUME NEW x \in OwnerEntries, OwnerShape(x), x.state = "ACKED", x.head # None,
           x.result = None,
           NEW r \in Results, ResultBinds(r, x.dispatch, x.head), NEW t \in Nat, x.updated <= t,
           NEW y \in OwnerEntries, y.state = TerminalEntryState(r) /\ y.result = r /\ y.updated = t,
           y.dispatch = x.dispatch /\ y.registered = x.registered /\ y.ack = x.ack,
           y.head = x.head /\ y.settled = x.settled
    PROVE  /\ OwnerShape(y) /\ OwnerDelta(x, y)
           /\ y.ack = x.ack /\ y.head = x.head /\ y.result = r /\ y.settled = None
<1>1. OwnerShape(y)
  BY NoneAssumption DEF OwnerShape, OwnerEntries, TerminalEntryState
<1>2. OwnerDelta(x, y)
  BY NoneAssumption DEF OwnerShape, OwnerDelta, OwnerEntries, TerminalEntryState
<1>3. y.ack = x.ack /\ y.head = x.head /\ y.result = r /\ y.settled = None
  BY DEF OwnerShape, OwnerEntries
<1> QED
  BY <1>1, <1>2, <1>3

\* mark_result_transition_applied.
LEMMA SettlementExtends ==
    ASSUME NEW x \in OwnerEntries, OwnerShape(x), x.state \in {"COMPLETED", "FAILED"},
           x.settled = None, NEW i \in Nat, NEW t \in Nat, x.updated <= t,
           NEW y \in OwnerEntries, y.settled = i /\ y.updated = t,
           y.dispatch = x.dispatch /\ y.state = x.state /\ y.registered = x.registered,
           y.ack = x.ack /\ y.head = x.head /\ y.result = x.result
    PROVE  /\ OwnerShape(y) /\ OwnerDelta(x, y)
           /\ y.ack = x.ack /\ y.head = x.head /\ y.result = x.result /\ y.settled = i
<1>1. OwnerShape(y)
  BY NoneAssumption DEF OwnerShape, OwnerEntries
<1>2. OwnerDelta(x, y)
  BY NoneAssumption DEF OwnerShape, OwnerDelta, OwnerEntries
<1>3. y.ack = x.ack /\ y.head = x.head /\ y.result = x.result /\ y.settled = i
  BY DEF OwnerEntries
<1> QED
  BY <1>1, <1>2, <1>3

\* Evidence is final along a delta.
LEMMA DeltaKeeps ==
    ASSUME NEW x \in OwnerEntries, NEW y \in OwnerEntries, OwnerDelta(x, y)
    PROVE  /\ y.dispatch = x.dispatch
           /\ x.ack # None => y.ack = x.ack
           /\ x.head # None => y.head = x.head
           /\ x.result # None => y.result = x.result
           /\ x.settled # None => y.settled = x.settled
BY DEF OwnerDelta

-----------------------------------------------------------------------------
(* Steps that leave the letters alone. *)

\* Nothing of the runner changes.
LEMMA RunnerFrame ==
    ASSUME RunnerIndInv, UNCHANGED runnerVars
    PROVE  RunnerIndInv'
BY KeepEntries DEF runnerVars, RunnerIndInv, RunnerTypeOK

\* The outbox only learns.
OutboxGrows ==
    \A e \in Execs : outbox[e] # None =>
        /\ outbox'[e] # None
        /\ outbox[e].ack # None => outbox'[e].ack = outbox[e].ack
        /\ outbox[e].result # None => outbox'[e].result = outbox[e].result

\* A letter keeps fitting when the outbox learns more.
LEMMA FitsKept ==
    ASSUME NEW l \in Letters, NEW p, NEW m \in Missions, NEW i \in Nat,
           Fits(l, p, m, i), OutboxGrows, UNCHANGED letters
    PROVE  Fits(l, p, m, i)'
<1>1. DispatchFits(l, m, i)'
  BY DEF Fits, DispatchFits
<1>2. AckFits(l, p, i)'
  <2>1. l.source = "ack" \/ l.state = "executing" => l.dispatch.exec \in Execs /\ l.ack # None
    BY NoneAssumption DEF Fits, AckFits, AckBinds, Acks, Dispatches
  <2> QED
    BY <2>1 DEF Fits, AckFits, OutboxGrows
<1>3. l.result \in Results /\ l.result.dispatch = l.dispatch
        => l.dispatch.exec \in Execs /\ l.result # None
  BY NoneAssumption DEF Results, Dispatches
<1>4. ResultFits(l, p, i)'
  BY <1>3 DEF Fits, ResultFits, OutboxGrows
<1>5. Earned(l, m, i)'
  BY <1>3 DEF Fits, Earned, OutboxGrows, HeadId
<1> QED
  BY <1>1, <1>2, <1>4, <1>5 DEF Fits

\* Writing one outbox entry, with what it rests on in place.
LEMMA WriteEntry ==
    ASSUME CoreInv, NEW e \in Execs, NEW y \in OwnerEntries,
           \/ outbox[e] = None /\ y.state = "INTENT"
           \/ outbox[e] # None /\ OwnerDelta(outbox[e], y),
           y.dispatch.exec = e, OwnerShape(y), Backed(y), Agree(y, inbox[e], spawned[e]),
           outbox' = [outbox EXCEPT ![e] = y],
           UNCHANGED <<letters, outboxTorn, runnerVars>>
    PROVE  CoreInv' /\ OutboxGrows /\ \A f \in Execs : OwnerEntryStep(f)
<1>1. /\ outbox \in [Execs -> OwnerEntries \cup {None}]
      /\ outbox'[e] = y /\ y # None
      /\ \A f \in Execs : f # e => outbox'[f] = outbox[f]
  BY NoneAssumption DEF CoreInv
<1>2. OutboxGrows
  <2> SUFFICES ASSUME NEW f \in Execs, outbox[f] # None
               PROVE  /\ outbox'[f] # None
                      /\ outbox[f].ack # None => outbox'[f].ack = outbox[f].ack
                      /\ outbox[f].result # None => outbox'[f].result = outbox[f].result
      BY DEF OutboxGrows
  <2>1. CASE f = e
    BY <1>1, <2>1, DeltaKeeps
  <2>2. CASE f # e
    BY <1>1, <2>2
  <2> QED
    BY <2>1, <2>2
<1>3. \A f \in Execs : OwnerEntryStep(f)
  BY <1>1 DEF OwnerEntryStep
<1>4. RunnerIndInv'
  BY RunnerFrame DEF CoreInv
<1>5. outbox' \in [Execs -> OwnerEntries \cup {None}]
  BY <1>1
<1>6. ASSUME NEW m \in Missions, NEW i \in Places(m)' PROVE LetterSound(m, i)'
  <2>1. i \in Places(m) /\ LetterSound(m, i) /\ letters[m][i] \in Letters /\ i \in Nat
    BY DEF CoreInv, Places
  <2>2. PICK l \in Letters : l = letters[m][i]
    BY <2>1
  <2>3. PICK p : p = letters[m][i - 1]
    OBVIOUS
  <2>4. Fits(l, p, m, i)'
    BY <1>2, <2>1, <2>2, <2>3, FitsKept DEF LetterSound
  <2>5. l = letters'[m][i] /\ p = letters'[m][i - 1]
    BY <2>2, <2>3
  <2> QED
    BY <2>4, <2>5 DEF LetterSound
<1>7. ExecOnce'
  BY DEF CoreInv, ExecOnce, Places
<1>8. ASSUME NEW f \in Execs PROVE OutboxSound(f)'
  <2>1. CASE f = e
    <3>1. Backed(y)'
      BY DEF Backed, Places, HeadId
    <3> QED
      BY <1>1, <2>1, <3>1 DEF OutboxSound
  <2>2. CASE f # e
    <3>1. OutboxSound(f) /\ outbox'[f] = outbox[f]
      BY <1>1, <2>2 DEF CoreInv
    <3> QED
      BY <3>1 DEF OutboxSound, Backed, Places, HeadId
  <2> QED
    BY <2>1, <2>2
<1>9. ASSUME NEW f \in Execs PROVE JournalsAgree(f)'
  <2>1. inbox' = inbox /\ spawned' = spawned
    BY DEF runnerVars
  <2>2. CASE f = e
    BY <1>1, <2>1, <2>2 DEF JournalsAgree
  <2>3. CASE f # e
    BY <1>1, <2>1, <2>3 DEF CoreInv, JournalsAgree
  <2> QED
    BY <2>2, <2>3
<1> QED
  BY <1>2, <1>3, <1>4, <1>5, <1>6, <1>7, <1>8, <1>9 DEF CoreInv

\* A step that touches neither journals nor letters.
LEMMA KeepCore ==
    ASSUME CoreInv, UNCHANGED <<letters, outbox, runnerVars>>, outboxTorn' \in BOOLEAN
    PROVE  CoreInv' /\ OutboxGrows /\ \A f \in Execs : OwnerEntryStep(f)
<1>1. RunnerIndInv' /\ inbox' = inbox /\ spawned' = spawned
  BY RunnerFrame DEF CoreInv, runnerVars
<1>2. ASSUME NEW m \in Missions, NEW i \in Places(m)' PROVE LetterSound(m, i)'
  <2>1. i \in Places(m) /\ LetterSound(m, i)
    BY DEF CoreInv, Places
  <2> QED
    BY <2>1 DEF LetterSound, Fits, DispatchFits, AckFits, ResultFits, Earned, HeadId
<1>3. ExecOnce'
  BY DEF CoreInv, ExecOnce, Places
<1>4. ASSUME NEW f \in Execs PROVE OutboxSound(f)' /\ JournalsAgree(f)'
  BY <1>1 DEF CoreInv, OutboxSound, Backed, Places, HeadId, JournalsAgree
<1> QED
  BY <1>1, <1>2, <1>3, <1>4 DEF CoreInv, OutboxGrows, OwnerEntryStep

\* A step of the runner only.
LEMMA RunnerKeeps ==
    ASSUME CoreInv, RunnerIndInv', UNCHANGED ownerVars,
           \A e \in Execs : JournalsAgree(e)'
    PROVE  CoreInv' /\ \A f \in Execs : OwnerEntryStep(f)
<1>1. letters' = letters /\ outbox' = outbox /\ outboxTorn' = outboxTorn
  BY DEF ownerVars
<1>2. ASSUME NEW m \in Missions, NEW i \in Places(m)' PROVE LetterSound(m, i)'
  <2>1. i \in Places(m) /\ LetterSound(m, i)
    BY <1>1 DEF CoreInv, Places
  <2> QED
    BY <1>1, <2>1 DEF LetterSound, Fits, DispatchFits, AckFits, ResultFits, Earned, HeadId
<1>3. ExecOnce'
  BY <1>1 DEF CoreInv, ExecOnce, Places
<1>4. ASSUME NEW f \in Execs PROVE OutboxSound(f)'
  BY <1>1 DEF CoreInv, OutboxSound, Backed, Places, HeadId
<1> QED
  BY <1>1, <1>2, <1>3, <1>4 DEF CoreInv, OwnerEntryStep

-----------------------------------------------------------------------------
(* Where the letters of a dispatch are. *)

\* Every letter in place is a letter.
LEMMA LetterTyped ==
    ASSUME CoreInv, NEW m \in Missions, NEW i \in Places(m)
    PROVE  letters[m][i] \in Letters /\ i \in Nat /\ i >= 1 /\ i <= Len(letters[m])
<1>1. letters[m] \in Seq(Letters)
  BY DEF CoreInv
<1> QED
  BY <1>1 DEF Places

\* An EXECUTING letter is in the second place of its dispatch, and the outbox entry
\* it rests on is the one of that dispatch.
LEMMA ExecutingLocated ==
    ASSUME CoreInv, NEW m \in Missions, NEW i \in Places(m),
           letters[m][i].source = "ack" \/ letters[m][i].state = "executing"
    PROVE  /\ letters[m][i].source = "ack" /\ letters[m][i].state = "executing"
           /\ letters[m][i].dispatch \in Dispatches /\ letters[m][i].ack \in Acks
           /\ letters[m][i].dispatch.head.mission = m
           /\ ExecutingAt(letters[m][i].dispatch) = i
           /\ HeadId(m, i) \in MissionHeads
           /\ HeadBinds(HeadId(m, i), letters[m][i].dispatch)
           /\ outbox[letters[m][i].dispatch.exec] \in OwnerEntries
           /\ outbox[letters[m][i].dispatch.exec].dispatch = letters[m][i].dispatch
           /\ outbox[letters[m][i].dispatch.exec].ack = letters[m][i].ack
<1>1. LetterSound(m, i) /\ letters[m][i] \in Letters /\ i \in Nat /\ letters[m] \in Seq(Letters)
  BY DEF CoreInv, Places
<1>2. PICK l \in Letters : l = letters[m][i]
  BY <1>1
<1>3. PICK p : p = letters[m][i - 1]
  OBVIOUS
<1>4. AckFits(l, p, i) /\ (l.source = "ack" \/ l.state = "executing")
  BY <1>1, <1>2, <1>3 DEF LetterSound, Fits
<1>5. i - 1 \in Places(m)
  BY <1>1, <1>4 DEF AckFits, Places
<1>6. LetterSound(m, i - 1)
  BY <1>5 DEF CoreInv
<1>7. DispatchFits(p, m, i - 1) /\ p.state = "dispatching"
  BY <1>3, <1>4, <1>6 DEF LetterSound, Fits, AckFits
<1>8. /\ l.source = "ack" /\ l.state = "executing"
      /\ l.dispatch \in Dispatches /\ l.ack \in Acks /\ AckBinds(l.ack, l.dispatch)
      /\ l.dispatch.head.mission = m /\ l.dispatch.head.seq + 1 = i - 1
      /\ l.dispatch.head.iteration = l.iteration /\ l.dispatch.head.packet = l.packet
      /\ outbox[l.dispatch.exec] # None /\ outbox[l.dispatch.exec].ack = l.ack
  BY <1>4, <1>7 DEF AckFits, DispatchFits, GoesOn
<1>9. ExecutingAt(l.dispatch) = i
  BY <1>1, <1>8 DEF ExecutingAt, Dispatches, MissionHeads
<1>10. HeadId(m, i) \in MissionHeads /\ HeadBinds(HeadId(m, i), l.dispatch)
  BY <1>1, <1>2, <1>8 DEF HeadId, MissionHeads, HeadBinds, Letters
<1>11. l.dispatch.exec \in Execs
  BY <1>8 DEF Dispatches
<1>12. outbox[l.dispatch.exec] \in OwnerEntries /\ OwnerShape(outbox[l.dispatch.exec])
  BY <1>8, <1>11 DEF CoreInv, OutboxSound
<1>13. outbox[l.dispatch.exec].dispatch = l.dispatch
  BY <1>8, <1>12, NoneAssumption DEF OwnerShape, AckBinds
<1> QED
  BY <1>2, <1>8, <1>9, <1>10, <1>12, <1>13

\* A result letter is in the third place of its dispatch.
LEMMA ResultLocated ==
    ASSUME CoreInv, NEW m \in Missions, NEW i \in Places(m), letters[m][i].source = "result"
    PROVE  /\ letters[m][i].dispatch \in Dispatches /\ letters[m][i].result \in Results
           /\ letters[m][i].dispatch.head.mission = m
           /\ ResultAt(letters[m][i].dispatch) = i
           /\ outbox[letters[m][i].dispatch.exec] \in OwnerEntries
           /\ outbox[letters[m][i].dispatch.exec].dispatch = letters[m][i].dispatch
           /\ outbox[letters[m][i].dispatch.exec].result = letters[m][i].result
<1>1. LetterSound(m, i) /\ letters[m][i] \in Letters /\ i \in Nat /\ letters[m] \in Seq(Letters)
  BY DEF CoreInv, Places
<1>2. PICK l \in Letters : l = letters[m][i]
  BY <1>1
<1>3. PICK p : p = letters[m][i - 1]
  OBVIOUS
<1>4. ResultFits(l, p, i) /\ l.source = "result"
  BY <1>1, <1>2, <1>3 DEF LetterSound, Fits
<1>5. i - 1 \in Places(m)
  BY <1>1, <1>4 DEF ResultFits, Places
<1>6. /\ p.dispatch \in Dispatches /\ p.dispatch.head.mission = m
      /\ ExecutingAt(p.dispatch) = i - 1
  BY <1>3, <1>4, <1>5, ExecutingLocated DEF ResultFits
<1>7. /\ l.dispatch = p.dispatch /\ l.result \in Results /\ l.result.dispatch = l.dispatch
      /\ outbox[l.dispatch.exec] # None /\ outbox[l.dispatch.exec].result = l.result
  BY <1>4 DEF ResultFits, GoesOn
<1>8. ResultAt(l.dispatch) = i
  BY <1>1, <1>6, <1>7 DEF ResultAt, ExecutingAt, Dispatches, MissionHeads
<1>9. l.dispatch.exec \in Execs
  BY <1>6, <1>7 DEF Dispatches
<1>10. outbox[l.dispatch.exec] \in OwnerEntries /\ OwnerShape(outbox[l.dispatch.exec])
  BY <1>7, <1>9 DEF CoreInv, OutboxSound
<1>11. outbox[l.dispatch.exec].dispatch = l.dispatch
  BY <1>7, <1>10, NoneAssumption DEF OwnerShape, ResultBinds
<1> QED
  BY <1>2, <1>6, <1>7, <1>8, <1>10, <1>11

\* A DISPATCHING letter is in the first place, and if the outbox has an entry for its
\* execution then it is the entry of this dispatch.
LEMMA DispatchingLocated ==
    ASSUME CoreInv, NEW m \in Missions, NEW i \in Places(m), letters[m][i].state = "dispatching"
    PROVE  /\ letters[m][i].dispatch \in Dispatches /\ letters[m][i].source \notin {"ack", "result"}
           /\ letters[m][i].dispatch.head.mission = m
           /\ DispatchedAt(letters[m][i].dispatch) = i
           /\ ValidNewDispatch(letters[m][i].dispatch, letters[m][i].at)
           /\ outbox[letters[m][i].dispatch.exec] # None =>
                outbox[letters[m][i].dispatch.exec].dispatch = letters[m][i].dispatch
<1>1. LetterSound(m, i) /\ letters[m][i] \in Letters /\ i \in Nat
  BY DEF CoreInv, Places
<1>2. PICK l \in Letters : l = letters[m][i]
  BY <1>1
<1>3. DispatchFits(l, m, i) /\ l.state = "dispatching"
  BY <1>1, <1>2 DEF LetterSound, Fits
<1>4. /\ l.dispatch \in Dispatches /\ l.source \notin {"ack", "result"}
      /\ l.dispatch.head.mission = m /\ DispatchedAt(l.dispatch) = i
      /\ ValidNewDispatch(l.dispatch, l.at) /\ l.dispatch.exec \in Execs
  BY <1>1, <1>3 DEF DispatchFits, DispatchedAt, Dispatches
<1>5. ASSUME outbox[l.dispatch.exec] # None
      PROVE  outbox[l.dispatch.exec].dispatch = l.dispatch
  <2>1. PICK x \in OwnerEntries : x = outbox[l.dispatch.exec]
    BY <1>4, <1>5 DEF CoreInv
  <2>2. x.dispatch.exec = l.dispatch.exec /\ Backed(x)
    BY <1>4, <1>5, <2>1 DEF CoreInv, OutboxSound
  <2>3. PICK n \in Missions : n = x.dispatch.head.mission
    BY <2>1 DEF OwnerEntries, Dispatches, MissionHeads
  <2>4. PICK k \in Places(n) : k = DispatchedAt(x.dispatch)
    BY <2>2, <2>3 DEF Backed
  <2>5. letters[n][k].state = "dispatching" /\ letters[n][k].dispatch = x.dispatch
    BY <2>2, <2>3, <2>4 DEF Backed
  <2>6. n = m /\ k = i
    BY <1>2, <1>3, <2>2, <2>5 DEF CoreInv, ExecOnce
  <2> QED
    BY <1>2, <2>1, <2>5, <2>6
<1> QED
  BY <1>2, <1>4, <1>5

-----------------------------------------------------------------------------
(* The outbox appends that rest on a letter: of a repair, or of the end of a *)
(* request.                                                                  *)

\* register_intent for a DISPATCHING letter.
LEMMA RegisterKeeps ==
    ASSUME CoreInv, NEW m \in Missions, NEW i \in Places(m),
           letters[m][i].state = "dispatching",
           outbox' = Registered(letters[m][i].dispatch, letters[m][i].at),
           UNCHANGED <<letters, outboxTorn, runnerVars>>
    PROVE  /\ CoreInv' /\ \A f \in Execs : OwnerEntryStep(f)
           /\ outbox[letters[m][i].dispatch.exec] # None => outbox' = outbox
<1>1. PICK d \in Dispatches : d = letters[m][i].dispatch
  BY DispatchingLocated
<1>2. PICK t \in Nat : t = letters[m][i].at
  BY LetterTyped DEF Letters
<1>3. /\ d.head.mission = m /\ DispatchedAt(d) = i /\ ValidNewDispatch(d, t) /\ d.exec \in Execs
  BY <1>1, <1>2, DispatchingLocated DEF Dispatches
<1>4. CASE outbox[d.exec] # None
  <2>1. outbox' = outbox
    BY <1>1, <1>4 DEF Registered
  <2>2. outboxTorn' \in BOOLEAN
    BY DEF CoreInv
  <2> QED
    BY <2>1, <2>2, KeepCore
<1>5. CASE outbox[d.exec] = None
  <2>1. PICK y : y = [dispatch |-> d, state |-> "INTENT", registered |-> t, updated |-> t,
                      ack |-> None, head |-> None, result |-> None, settled |-> None]
    OBVIOUS
  <2>2. y \in OwnerEntries /\ OwnerShape(y)
    BY <1>3, <2>1, IntentEntry
  <2>3. outbox' = [outbox EXCEPT ![d.exec] = y]
    BY <1>1, <1>2, <1>5, <2>1 DEF Registered
  <2>4. /\ y.dispatch = d /\ y.state = "INTENT" /\ y.ack = None /\ y.head = None
        /\ y.result = None /\ y.settled = None
    BY <2>1
  <2>5. Backed(y)
    BY <1>1, <1>3, <2>4 DEF Backed
  <2>6. Agree(y, inbox[d.exec], spawned[d.exec])
    BY <1>3, <1>5, <2>4 DEF CoreInv, JournalsAgree, Agree
  <2> QED
    BY <1>1, <1>3, <1>5, <2>2, <2>3, <2>4, <2>5, <2>6, WriteEntry
<1> QED
  BY <1>4, <1>5

\* mark_executing_transition for an EXECUTING letter.
LEMMA MarkExecutingKeeps ==
    ASSUME CoreInv, NEW m \in Missions, NEW i \in Places(m),
           letters[m][i].source = "ack" \/ letters[m][i].state = "executing",
           NEW e, e = letters[m][i].dispatch.exec,
           MayMarkExecuting(outbox[e], letters[m][i].ack, HeadId(m, i), letters[m][i].at),
           outbox' = [outbox EXCEPT ![e] = ExecutingMarked(@, HeadId(m, i), letters[m][i].at)],
           UNCHANGED <<letters, outboxTorn, runnerVars>>
    PROVE  /\ CoreInv' /\ \A f \in Execs : OwnerEntryStep(f)
           /\ outbox[e].head = HeadId(m, i) => outbox' = outbox
<1>0. outbox \in [Execs -> OwnerEntries \cup {None}] /\ outboxTorn' \in BOOLEAN
  BY DEF CoreInv
<1>1. PICK d \in Dispatches : d = letters[m][i].dispatch
  BY ExecutingLocated, ZenonT(30)
<1>2. PICK t \in Nat : t = letters[m][i].at
  BY LetterTyped DEF Letters
<1>3. PICK h \in MissionHeads : h = HeadId(m, i)
  BY ExecutingLocated, ZenonT(30)
<1>4. PICK x \in OwnerEntries : x = outbox[e]
  BY ExecutingLocated, ZenonT(30)
<1>5. /\ d.head.mission = m /\ ExecutingAt(d) = i /\ HeadBinds(h, d) /\ e = d.exec /\ e \in Execs
      /\ x.dispatch = d /\ x.ack = letters[m][i].ack /\ x # None
      /\ letters[m][i].state = "executing"
  <2>1. /\ letters[m][i].state = "executing" /\ letters[m][i].dispatch.head.mission = m
        /\ ExecutingAt(letters[m][i].dispatch) = i
        /\ HeadBinds(HeadId(m, i), letters[m][i].dispatch)
    BY ExecutingLocated, ZenonT(30)
  <2>2. /\ outbox[letters[m][i].dispatch.exec].dispatch = letters[m][i].dispatch
        /\ outbox[letters[m][i].dispatch.exec].ack = letters[m][i].ack
    BY ExecutingLocated, ZenonT(30)
  <2>3. e = d.exec /\ x.dispatch = d /\ x.ack = letters[m][i].ack
    BY <1>1, <1>4, <2>2
  <2>4. e \in Execs
    BY <2>3 DEF Dispatches
  <2>5. x # None
    BY NoneAssumption
  <2>6. d.head.mission = m /\ ExecutingAt(d) = i /\ HeadBinds(h, d)
    BY <1>1, <1>3, <2>1
  <2> QED
    BY <2>1, <2>3, <2>4, <2>5, <2>6
<1>6. OwnerShape(x) /\ Backed(x) /\ Agree(x, inbox[e], spawned[e]) /\ x.dispatch.exec = e
  BY <1>4, <1>5 DEF CoreInv, OutboxSound, JournalsAgree
<1>7. CASE x.head = h
  <2>1. ExecutingMarked(x, h, t) = x
    BY <1>7 DEF ExecutingMarked
  <2>2. outbox' = outbox
    BY <1>0, <1>2, <1>3, <1>4, <2>1
  <2> QED
    BY <1>0, <2>2, KeepCore
<1>8. CASE x.head # h
  <2>1. PICK y : y = [x EXCEPT !.head = h, !.updated = t]
    OBVIOUS
  <2>2. ExecutingMarked(x, h, t) = y
    BY <1>8, <2>1 DEF ExecutingMarked
  <2>3. outbox' = [outbox EXCEPT ![e] = y]
    BY <1>0, <1>2, <1>3, <1>4, <2>2
  <2>4. x.head = None /\ x.state = "ACKED" /\ x.updated <= t
    BY <1>2, <1>3, <1>4, <1>8 DEF MayMarkExecuting
  <2>5. /\ y \in OwnerEntries /\ OwnerShape(y) /\ OwnerDelta(x, y)
        /\ y.ack = x.ack /\ y.head = h /\ y.result = None /\ y.settled = None
    <3>1. HeadBinds(h, x.dispatch)
      BY <1>5
    <3>2. y \in OwnerEntries
      BY <2>1 DEF OwnerEntries
    <3>3. /\ y.head = h /\ y.updated = t /\ y.dispatch = x.dispatch /\ y.state = x.state
          /\ y.registered = x.registered /\ y.ack = x.ack /\ y.result = x.result
          /\ y.settled = x.settled
      BY <2>1 DEF OwnerEntries
    <3>4. OwnerShape(x) /\ x.state = "ACKED" /\ x.head = None /\ x.updated <= t
      BY <1>6, <2>4
    <3>5. OwnerShape(y) /\ OwnerDelta(x, y) /\ y.result = None /\ y.settled = None
      BY <3>1, <3>2, <3>3, <3>4, HeadExtends
    <3> QED
      BY <3>2, <3>3, <3>5
  <2>6. y.dispatch = d
    BY <1>5, <2>5 DEF OwnerDelta
  <2>7. Backed(y)
    BY <1>3, <1>5, <1>6, <2>5, <2>6 DEF Backed
  <2>8. Agree(y, inbox[e], spawned[e])
    <3>1. y # None
      BY <2>5, NoneAssumption
    <3> QED
      BY <1>5, <1>6, <2>5, <2>6, <3>1 DEF Agree
  <2>9. outbox[e] # None /\ OwnerDelta(outbox[e], y)
    BY <1>4, <1>5, <2>5
  <2>10. CoreInv' /\ \A f \in Execs : OwnerEntryStep(f)
    BY <1>5, <2>3, <2>5, <2>6, <2>7, <2>8, <2>9, WriteEntry
  <2> QED
    BY <1>3, <1>4, <1>8, <2>10
<1> QED
  BY <1>7, <1>8

\* mark_result_transition_applied for a result letter.
LEMMA MarkResultKeeps ==
    ASSUME CoreInv, NEW m \in Missions, NEW i \in Places(m),
           letters[m][i].source = "result",
           NEW e, e = letters[m][i].dispatch.exec,
           MayMarkResult(outbox[e], letters[m][i].result, i, letters[m][i].at),
           outbox' = [outbox EXCEPT ![e] = ResultMarked(@, i, letters[m][i].at)],
           UNCHANGED <<letters, outboxTorn, runnerVars>>
    PROVE  /\ CoreInv' /\ \A f \in Execs : OwnerEntryStep(f)
           /\ outbox[e].settled = i => outbox' = outbox
<1>0. outbox \in [Execs -> OwnerEntries \cup {None}] /\ outboxTorn' \in BOOLEAN /\ i \in Nat
  BY DEF CoreInv, Places
<1>1. PICK d \in Dispatches : d = letters[m][i].dispatch
  BY ResultLocated, ZenonT(30)
<1>2. PICK t \in Nat : t = letters[m][i].at
  BY LetterTyped DEF Letters
<1>3. PICK x \in OwnerEntries : x = outbox[e]
  BY ResultLocated, ZenonT(30)
<1>4. /\ d.head.mission = m /\ ResultAt(d) = i /\ e = d.exec /\ e \in Execs
      /\ x.dispatch = d /\ x.result = letters[m][i].result /\ x # None
  <2>1. /\ letters[m][i].dispatch.head.mission = m
        /\ ResultAt(letters[m][i].dispatch) = i
    BY ResultLocated, ZenonT(30)
  <2>2. /\ outbox[letters[m][i].dispatch.exec].dispatch = letters[m][i].dispatch
        /\ outbox[letters[m][i].dispatch.exec].result = letters[m][i].result
    BY ResultLocated, ZenonT(30)
  <2>3. e = d.exec /\ x.dispatch = d /\ x.result = letters[m][i].result
    BY <1>1, <1>3, <2>2
  <2>4. e \in Execs
    BY <2>3 DEF Dispatches
  <2>5. x # None
    BY NoneAssumption
  <2>6. d.head.mission = m /\ ResultAt(d) = i
    BY <1>1, <2>1
  <2> QED
    BY <2>3, <2>4, <2>5, <2>6
<1>5. OwnerShape(x) /\ Backed(x) /\ Agree(x, inbox[e], spawned[e]) /\ x.dispatch.exec = e
  BY <1>3, <1>4 DEF CoreInv, OutboxSound, JournalsAgree
<1>6. CASE x.settled = i
  <2>1. ResultMarked(x, i, t) = x
    BY <1>6 DEF ResultMarked
  <2>2. outbox' = outbox
    BY <1>0, <1>2, <1>3, <2>1
  <2> QED
    BY <1>0, <2>2, KeepCore
<1>7. CASE x.settled # i
  <2>1. PICK y : y = [x EXCEPT !.settled = i, !.updated = t]
    OBVIOUS
  <2>2. ResultMarked(x, i, t) = y
    BY <1>7, <2>1 DEF ResultMarked
  <2>3. outbox' = [outbox EXCEPT ![e] = y]
    BY <1>0, <1>2, <1>3, <2>2
  <2>4. x.settled = None /\ x.state \in {"COMPLETED", "FAILED"} /\ x.updated <= t
    BY <1>2, <1>3, <1>7 DEF MayMarkResult
  <2>5. /\ y \in OwnerEntries /\ OwnerShape(y) /\ OwnerDelta(x, y)
        /\ y.ack = x.ack /\ y.head = x.head /\ y.result = x.result /\ y.settled = i
    <3>1. y \in OwnerEntries
      BY <1>0, <2>1 DEF OwnerEntries
    <3>2. /\ y.settled = i /\ y.updated = t /\ y.dispatch = x.dispatch /\ y.state = x.state
          /\ y.registered = x.registered /\ y.ack = x.ack /\ y.head = x.head
          /\ y.result = x.result
      BY <2>1 DEF OwnerEntries
    <3> QED
      BY <1>0, <1>5, <2>4, <3>1, <3>2, SettlementExtends
  <2>6. y.dispatch = d
    BY <1>4, <2>5 DEF OwnerDelta
  <2>7. Backed(y)
    BY <1>4, <1>5, <2>5, <2>6 DEF Backed
  <2>8. Agree(y, inbox[e], spawned[e])
    <3>1. y # None
      BY <2>5, NoneAssumption
    <3> QED
      BY <1>4, <1>5, <2>5, <2>6, <3>1 DEF Agree
  <2>9. outbox[e] # None /\ OwnerDelta(outbox[e], y)
    BY <1>3, <1>4, <2>5
  <2>10. CoreInv' /\ \A f \in Execs : OwnerEntryStep(f)
    BY <1>4, <2>3, <2>5, <2>6, <2>7, <2>8, <2>9, WriteEntry
  <2> QED
    BY <1>3, <1>7, <2>10
<1> QED
  BY <1>6, <1>7

-----------------------------------------------------------------------------
(* The request that holds the lock. *)

\* A letter stays reflected while letters and outbox stay as they are.
LEMMA ReflectionFrame ==
    ASSUME letters' = letters, outbox' = outbox,
           \A m \in Missions : \A i \in Places(m) : InLifecycle(letters[m][i]) => Reflected(m, i)
    PROVE  \A m \in Missions : \A i \in Places(m)' : InLifecycle(letters[m][i])' => Reflected(m, i)'
<1> SUFFICES ASSUME NEW m \in Missions, NEW i \in Places(m)', InLifecycle(letters[m][i])'
             PROVE  Reflected(m, i)'
    OBVIOUS
<1>1. i \in Places(m)
  BY DEF Places
<1>2. InLifecycle(letters[m][i])
  OBVIOUS
<1>3. Reflected(m, i)
  BY <1>1, <1>2
<1>4. HeadId(m, i)' = HeadId(m, i)
  BY DEF HeadId
<1> QED
  BY <1>3, <1>4 DEF Reflected

\* What a letter rests on is still there while letters and outbox stay as they are.
LEMMA FitsFrame ==
    ASSUME letters' = letters, outbox' = outbox, NEW l, NEW p, NEW m, NEW i, Fits(l, p, m, i)
    PROVE  Fits(l, p, m, i)'
<1>1. DispatchFits(l, m, i)'
  BY DEF Fits, DispatchFits
<1>2. AckFits(l, p, i)'
  BY DEF Fits, AckFits
<1>3. ResultFits(l, p, i)'
  BY DEF Fits, ResultFits
<1>4. Earned(l, m, i)'
  BY DEF Fits, Earned, HeadId
<1> QED
  BY <1>1, <1>2, <1>3, <1>4 DEF Fits

\* The request in hand stays sound while nothing it speaks of changes.
LEMMA JobFrame ==
    ASSUME JobSound, job' = job, letters' = letters, outbox' = outbox
    PROVE  JobSound'
<1>1. job'.pc \in {"persist", "finalize", "replay"} =>
         job'.mission \in Missions /\ job'.letter \in Letters
  BY DEF JobSound
<1>2. ASSUME job.pc = "persist"
      PROVE  Fits(job.letter, Head1(job.mission), job.mission, job.seq)'
  <2>1. PICK l, p, m, i : /\ l = job.letter /\ p = Head1(job.mission)
                          /\ m = job.mission /\ i = job.seq
    OBVIOUS
  <2>2. Fits(l, p, m, i)
    BY <1>2, <2>1 DEF JobSound
  <2>3. Fits(l, p, m, i)'
    BY <2>2, FitsFrame
  <2>4. /\ job'.letter = l /\ Head1(job.mission)' = p
        /\ job'.mission = m /\ job'.seq = i
    BY <2>1 DEF Head1
  <2> QED
    BY <2>3, <2>4
<1>3. ASSUME job.pc = "persist"
      PROVE  Follows(job.letter, job.mission)'
  <2>1. Follows(job.letter, job.mission)
    BY <1>3 DEF JobSound
  <2>2. PICK m : m = job.mission
    OBVIOUS
  <2>3. /\ HasHead(m)' = HasHead(m) /\ Head1(m)' = Head1(m)
        /\ HeadState(m)' = HeadState(m) /\ HeadIteration(m)' = HeadIteration(m)
    BY DEF HasHead, Head1, HeadState, HeadIteration
  <2> QED
    BY <2>1, <2>2, <2>3 DEF Follows
<1>4. job'.pc = "persist" =>
         /\ job'.seq = Len(letters'[job'.mission]) + 1 /\ job'.seq <= MaxLetters
         /\ job'.letter.state = "dispatching" =>
               \A m \in Missions : \A i \in Places(m)' :
                   letters'[m][i].state = "dispatching" =>
                       letters'[m][i].dispatch.exec # job'.letter.dispatch.exec
  BY DEF JobSound, Places
<1>5. job'.pc \in {"finalize", "replay"} =>
         job'.seq \in Places(job.mission)' /\ job'.letter = letters'[job'.mission][job'.seq]
  BY DEF JobSound, Places
<1>6. job'.pc \in {"serve", "replay"} =>
         \A m \in Missions : \A i \in Places(m)' : InLifecycle(letters[m][i])' => Reflected(m, i)'
  BY ReflectionFrame DEF JobSound
<1> QED
  BY <1>1, <1>2, <1>3, <1>4, <1>5, <1>6 DEF JobSound

\* Without a letter in hand there is nothing to say.
LEMMA QuietJob ==
    ASSUME job' = Idle \/ job' = [Idle EXCEPT !.pc = "repair"]
    PROVE  job' \in Jobs /\ JobSound' /\ job'.pc \in {"idle", "repair"}
<1>1. /\ job'.pc \in {"idle", "repair"} /\ job'.mission = None /\ job'.seq = 0
      /\ job'.letter = None
  BY DEF Idle
<1>2. job' \in Jobs
  BY DEF Idle, Jobs
<1>3. JobSound'
  BY <1>1 DEF JobSound
<1> QED
  BY <1>1, <1>2, <1>3

\* A request that reached persist_state with a letter that fits.
LEMMA PersistJob ==
    ASSUME letters \in [Missions -> Seq(Letters)], UNCHANGED letters,
           NEW m \in Missions, NEW l \in Letters,
           job' = Job("persist", m, Len(letters[m]) + 1, l),
           Len(letters[m]) < MaxLetters,
           Fits(l, Head1(m), m, Len(letters[m]) + 1)',
           Follows(l, m),
           l.state = "dispatching" =>
               \A n \in Missions : \A i \in Places(n) :
                   letters[n][i].state = "dispatching" => letters[n][i].dispatch.exec # l.dispatch.exec
    PROVE  job' \in Jobs /\ JobSound' /\ job'.pc = "persist"
<1>1. /\ job'.pc = "persist" /\ job'.mission = m /\ job'.seq = Len(letters[m]) + 1
      /\ job'.letter = l
  BY DEF Job
<1>2. Len(letters[m]) \in Nat
  OBVIOUS
<1>3. job' \in Jobs
  BY <1>2 DEF Job, Jobs
<1>4. Follows(l, m)'
  BY DEF Follows, HeadState, HeadIteration, HasHead, Head1, NextIteration, PacketAllowed
<1>5. /\ job'.seq = Len(letters'[m]) + 1 /\ job'.seq <= MaxLetters
  BY <1>1, <1>2, MaxLettersAssumption
<1>6. l.state = "dispatching" =>
         \A n \in Missions : \A i \in Places(n)' :
             letters'[n][i].state = "dispatching" => letters'[n][i].dispatch.exec # l.dispatch.exec
  BY DEF Places
<1>7. Fits(job.letter, Head1(job.mission), job.mission, job.seq)'
  <2>1. PICK s : s = Len(letters[m]) + 1
    OBVIOUS
  <2>2. PICK p : p = Head1(m)
    OBVIOUS
  <2>3. job'.letter = l /\ job'.mission = m /\ job'.seq = s /\ Head1(job.mission)' = p
    BY <1>1, <2>1, <2>2 DEF Head1
  <2>4. Fits(l, p, m, s)'
    BY <2>1, <2>2 DEF Head1
  <2> QED
    BY <2>3, <2>4
<1>8. Follows(job.letter, job.mission)'
  BY <1>1, <1>4 DEF Follows, HeadState, HeadIteration, HasHead, Head1
<1> QED
  BY <1>1, <1>3, <1>5, <1>6, <1>7, <1>8 DEF JobSound

\* What a letter rests on stays in place when a letter is appended.
LEMMA FitsExtended ==
    ASSUME NEW l, NEW p, NEW q, NEW m \in Missions, NEW i \in Nat, i >= 1,
           Fits(l, p, m, i), i > 1 => q = p,
           UNCHANGED outbox, Len(letters[m]) <= Len(letters'[m]),
           Len(letters[m]) \in Nat, Len(letters'[m]) \in Nat,
           \A k \in 1..Len(letters[m]) : letters'[m][k] = letters[m][k]
    PROVE  Fits(l, q, m, i)'
<1>1. DispatchFits(l, m, i)'
  BY DEF Fits, DispatchFits
<1>2. AckFits(l, q, i)'
  BY DEF Fits, AckFits
<1>3. ResultFits(l, q, i)'
  BY DEF Fits, ResultFits
<1>4. Earned(l, m, i)'
  <2> SUFFICES ASSUME l.state \in {"gate", "review", "merge_wait"} PROVE Earned(l, m, i)'
      BY DEF Earned
  <2>1. Earned(l, m, i)
    BY DEF Fits
  <2>2. PICK k : k = l.result.head.seq
    OBVIOUS
  <2>3. k \in 1..(i - 1) /\ k <= Len(letters[m])
    BY <2>1, <2>2 DEF Earned
  <2>4. k \in 1..Len(letters[m])
    BY <2>3
  <2>5. letters'[m][k] = letters[m][k] /\ k <= Len(letters'[m])
    BY <2>3, <2>4
  <2> QED
    BY <2>1, <2>2, <2>3, <2>5 DEF Earned, HeadId
<1> QED
  BY <1>1, <1>2, <1>3, <1>4 DEF Fits

\* The letters an entry rests on stay in place.
LEMMA BackedExtended ==
    ASSUME NEW x \in OwnerEntries, Backed(x),
           \A m \in Missions : \A k \in Places(m) : k \in Places(m)' /\ letters'[m][k] = letters[m][k]
    PROVE  Backed(x)'
<1>1. PICK m \in Missions : m = x.dispatch.head.mission
  BY DEF OwnerEntries, Dispatches, MissionHeads
<1>2. PICK d \in Dispatches : d = x.dispatch
  BY DEF OwnerEntries
<1>3. /\ DispatchedAt(d) \in Places(m)' /\ letters'[m][DispatchedAt(d)] = letters[m][DispatchedAt(d)]
  BY <1>1, <1>2 DEF Backed
<1>4. x.head # None =>
         /\ ExecutingAt(d) \in Places(m)' /\ letters'[m][ExecutingAt(d)] = letters[m][ExecutingAt(d)]
  BY <1>1, <1>2 DEF Backed
<1>5. x.settled # None =>
         /\ ResultAt(d) \in Places(m)' /\ letters'[m][ResultAt(d)] = letters[m][ResultAt(d)]
  BY <1>1, <1>2 DEF Backed
<1> QED
  BY <1>1, <1>2, <1>3, <1>4, <1>5 DEF Backed, HeadId

\* persist_state with the request's letter.
LEMMA PersistKeeps ==
    ASSUME LifecycleInv, PersistLetter
    PROVE  LifecycleInv' /\ \A f \in Execs : OwnerEntryStep(f)
<1>1. /\ CoreInv /\ JobSound /\ job \in Jobs /\ job.pc = "persist"
      /\ outbox' = outbox /\ outboxTorn' = outboxTorn /\ UNCHANGED runnerVars
  BY DEF LifecycleInv, PersistLetter
<1>2. PICK m \in Missions : m = job.mission
  BY <1>1 DEF JobSound
<1>3. PICK l \in Letters : l = job.letter
  BY <1>1 DEF JobSound
<1>4. letters \in [Missions -> Seq(Letters)] /\ letters[m] \in Seq(Letters) /\ Len(letters[m]) \in Nat
  BY <1>1 DEF CoreInv
<1>5. PICK s \in Nat : s = Len(letters[m]) + 1
  BY <1>4
<1>6. /\ job.seq = s /\ s <= MaxLetters /\ Fits(l, letters[m][s - 1], m, s)
      /\ l.state = "dispatching" =>
            \A n \in Missions : \A i \in Places(n) :
                letters[n][i].state = "dispatching" => letters[n][i].dispatch.exec # l.dispatch.exec
  <2>1. s - 1 = Len(letters[m])
    BY <1>4, <1>5
  <2> QED
    BY <1>1, <1>2, <1>3, <1>5, <2>1 DEF JobSound, Head1
<1>7. letters' = [letters EXCEPT ![m] = Append(letters[m], l)]
  BY <1>2, <1>3 DEF PersistLetter
<1>8. /\ letters'[m] = Append(letters[m], l)
      /\ \A n \in Missions : n # m => letters'[n] = letters[n]
  BY <1>4, <1>7
<1>9. Append(letters[m], l) \in Seq(Letters)
  BY <1>4
<1>10. /\ Len(letters'[m]) = s /\ letters'[m][s] = l
       /\ \A k \in 1..Len(letters[m]) : letters'[m][k] = letters[m][k]
  BY <1>4, <1>5, <1>8
<1>11. letters' \in [Missions -> Seq(Letters)]
  BY <1>4, <1>7, <1>9
<1>12. \A n \in Missions : Len(letters'[n]) <= MaxLetters
  BY <1>1, <1>6, <1>8, <1>10 DEF CoreInv
<1>13. \A n \in Missions : \A k \in Places(n) :
          k \in Places(n)' /\ letters'[n][k] = letters[n][k]
  BY <1>4, <1>5, <1>8, <1>10 DEF Places
<1>14. \A n \in Missions : \A k \in Places(n)' : k \in Places(n) \/ (n = m /\ k = s)
  BY <1>4, <1>5, <1>8, <1>10 DEF Places
<1>15. ASSUME NEW n \in Missions, NEW i \in Places(n)' PROVE LetterSound(n, i)'
  <2>0. /\ Len(letters[n]) <= Len(letters'[n]) /\ Len(letters[n]) \in Nat /\ Len(letters'[n]) \in Nat
        /\ i \in Nat /\ i >= 1
    <3>1. Len(letters[n]) \in Nat /\ Len(letters'[n]) \in Nat
      BY <1>4, <1>11
    <3>2. Len(letters[n]) <= Len(letters'[n])
      BY <1>4, <1>5, <1>8, <1>10, <3>1
    <3>3. i \in Nat /\ i >= 1
      BY <3>1 DEF Places
    <3> QED
      BY <3>1, <3>2, <3>3
  <2>1. PICK p : p = letters[n][i - 1]
    OBVIOUS
  <2>2. PICK q : q = letters'[n][i - 1]
    OBVIOUS
  <2>3. i > 1 => q = p
    <3> SUFFICES ASSUME i > 1 PROVE q = p
        OBVIOUS
    <3>1. i - 1 \in Places(n)
      BY <1>4, <1>5, <1>14, <2>0 DEF Places
    <3> QED
      BY <1>13, <2>1, <2>2, <3>1
  <2>4. PICK x : x = letters'[n][i]
    OBVIOUS
  <2>5. Fits(x, p, n, i)
    <3>1. CASE i \in Places(n)
      BY <1>1, <1>13, <2>1, <2>4, <3>1 DEF CoreInv, LetterSound
    <3>2. CASE n = m /\ i = s
      BY <1>6, <1>10, <2>1, <2>4, <3>2
    <3> QED
      BY <1>14, <3>1, <3>2
  <2>6. \A k \in 1..Len(letters[n]) : letters'[n][k] = letters[n][k]
    BY <1>13 DEF Places
  <2>7. Fits(x, q, n, i)'
    BY <1>1, <2>0, <2>3, <2>5, <2>6, FitsExtended
  <2> QED
    BY <2>2, <2>4, <2>7 DEF LetterSound
<1>16. ExecOnce'
  <2> SUFFICES ASSUME NEW n \in Missions, NEW o \in Missions,
                      NEW i \in Places(n)', NEW k \in Places(o)',
                      letters'[n][i].state = "dispatching", letters'[o][k].state = "dispatching",
                      letters'[n][i].dispatch.exec = letters'[o][k].dispatch.exec
               PROVE  n = o /\ i = k
      BY DEF ExecOnce
  <2>1. CASE i \in Places(n) /\ k \in Places(o)
    <3>1. letters'[n][i] = letters[n][i] /\ letters'[o][k] = letters[o][k]
      BY <1>13, <2>1
    <3>2. ExecOnce
      BY <1>1 DEF CoreInv
    <3> QED
      BY <2>1, <3>1, <3>2 DEF ExecOnce
  <2>2. CASE i \in Places(n) /\ o = m /\ k = s
    BY <1>6, <1>10, <1>13, <2>2
  <2>3. CASE n = m /\ i = s /\ k \in Places(o)
    BY <1>6, <1>10, <1>13, <2>3
  <2> QED
    BY <1>14, <2>1, <2>2, <2>3
<1>17. ASSUME NEW f \in Execs PROVE OutboxSound(f)' /\ JournalsAgree(f)'
  <2>1. inbox' = inbox /\ spawned' = spawned /\ OutboxSound(f) /\ JournalsAgree(f)
    BY <1>1 DEF runnerVars, CoreInv
  <2>2. JournalsAgree(f)'
    BY <1>1, <2>1 DEF JournalsAgree
  <2>3. ASSUME outbox[f] # None PROVE Backed(outbox[f])'
    <3>1. PICK x \in OwnerEntries : x = outbox[f]
      BY <1>1, <2>3 DEF CoreInv
    <3>2. Backed(x)
      BY <2>1, <2>3, <3>1 DEF OutboxSound
    <3>3. Backed(x)'
      BY <1>13, <3>2, BackedExtended
    <3> QED
      BY <1>1, <3>1, <3>3 DEF Backed, Places, HeadId
  <2> QED
    BY <1>1, <2>1, <2>2, <2>3 DEF OutboxSound
<1>18. CoreInv'
  <2>1. RunnerIndInv'
    BY <1>1, RunnerFrame DEF CoreInv
  <2> QED
    BY <1>1, <1>11, <1>12, <1>15, <1>16, <1>17, <2>1 DEF CoreInv
<1>19. job' \in Jobs /\ JobSound'
  <2>1. CASE InLifecycle(job.letter)
    <3>1. job' = [job EXCEPT !.pc = "finalize"]
      BY <2>1 DEF PersistLetter
    <3>2. job' \in Jobs
      BY <1>1, <3>1 DEF Jobs
    <3>3. job'.pc = "finalize" /\ job'.mission = m /\ job'.seq = s /\ job'.letter = l
      BY <1>1, <1>2, <1>3, <1>6, <3>1 DEF Jobs
    <3>4. s \in Places(m)' /\ l = letters'[m][s]
      BY <1>4, <1>5, <1>10 DEF Places
    <3>5. JobSound'
      BY <3>3, <3>4 DEF JobSound, Places
    <3> QED
      BY <3>2, <3>5
  <2>2. CASE ~InLifecycle(job.letter)
    BY <2>2, QuietJob DEF PersistLetter
  <2> QED
    BY <2>1, <2>2
<1> QED
  BY <1>1, <1>18, <1>19 DEF LifecycleInv, OwnerEntryStep

-----------------------------------------------------------------------------
(* The requests. *)

\* The rules a request may follow: only an ACK leads to EXECUTING, only a result to
\* GATE, and what follows a successful execution comes from GATE or REVIEW.
LEMMA RuleFacts ==
    ASSUME NEW r \in TransitionRules
    PROVE  /\ r.to \in MissionStates /\ r.source \in Sources
           /\ r.iteration \in {"initialize", "preserve", "advance"}
           /\ r.to = "executing" => r.source = "ack"
           /\ r.to = "gate" => r.source = "result"
           /\ r.to = "dispatching" => r.source \in {"decision", "review", "proposal"}
           /\ r.to \in {"review", "merge_wait"} =>
                 /\ r.from \in {"gate", "review"} /\ r.iteration = "preserve"
                 /\ r.source \in {"decision", "review"}
BY DEF TransitionRules, Rule, MissionStates, Sources, NoState

\* The iteration of a new letter.
LEMMA IterationFacts ==
    ASSUME NEW r \in TransitionRules, NEW n \in Nat
    PROVE  /\ NextIteration(r, n) \in Nat
           /\ r.iteration = "preserve" => NextIteration(r, n) = n
BY RuleFacts DEF NextIteration

\* The head of a mission that has letters.
LEMMA HeadInPlace ==
    ASSUME CoreInv, NEW m \in Missions, HasHead(m)
    PROVE  /\ Len(letters[m]) \in Places(m) /\ Len(letters[m]) \in Nat /\ Len(letters[m]) >= 1
           /\ Head1(m) = letters[m][Len(letters[m])] /\ Head1(m) \in Letters
           /\ HeadState(m) = Head1(m).state /\ HeadIteration(m) = Head1(m).iteration
<1>1. letters[m] \in Seq(Letters) /\ letters[m] # <<>>
  BY DEF CoreInv, HasHead
<1>2. Len(letters[m]) \in Places(m) /\ Len(letters[m]) \in Nat /\ Len(letters[m]) >= 1
  BY <1>1 DEF Places
<1>3. letters[m][Len(letters[m])] \in Letters
  BY <1>1, <1>2
<1> QED
  BY <1>2, <1>3 DEF Head1, HeadState, HeadIteration

\* A mission whose head has a state has letters.
LEMMA HasHeadFacts ==
    ASSUME CoreInv, NEW m \in Missions
    PROVE  /\ HeadIteration(m) \in Nat
           /\ HeadState(m) # NoState => HasHead(m)
           /\ Len(letters[m]) \in Nat
<1>1. CASE HasHead(m)
  BY <1>1, HeadInPlace DEF Letters
<1>2. CASE ~HasHead(m)
  <2>1. letters[m] \in Seq(Letters)
    BY DEF CoreInv
  <2> QED
    BY <1>2, <2>1 DEF HeadIteration, HeadState
<1> QED
  BY <1>1, <1>2

\* transition_internal outside the execution lifecycle.
LEMMA TransitionKeeps ==
    ASSUME LifecycleInv, NEW m \in Missions, NEW r \in TransitionRules, NEW p \in Packets,
           NEW t \in Nat, RequestTransition(m, r, p, t)
    PROVE  LifecycleInv' /\ \A f \in Execs : OwnerEntryStep(f)
<1>0. /\ CoreInv /\ letters' = letters /\ outbox' = outbox /\ outboxTorn' = outboxTorn
      /\ UNCHANGED runnerVars /\ letters \in [Missions -> Seq(Letters)] /\ outboxTorn \in BOOLEAN
  BY DEF LifecycleInv, CoreInv, RequestTransition
<1>1. CoreInv' /\ \A f \in Execs : OwnerEntryStep(f)
  BY <1>0, KeepCore
<1>2. PICK l : l = [Letter(m, r, p, t) EXCEPT !.dispatch = InheritedDispatch(m, r),
                                              !.result = InheritedResult(m, r)]
  OBVIOUS
<1>3. /\ l.state = r.to /\ l.iteration = NextIteration(r, HeadIteration(m)) /\ l.packet = p
      /\ l.source = r.source /\ l.dispatch = InheritedDispatch(m, r)
      /\ l.result = InheritedResult(m, r)
  BY <1>2 DEF Letter
<1>4. InheritedDispatch(m, r) \in Dispatches \cup {None} /\ InheritedResult(m, r) \in Results \cup {None}
  BY <1>0, HeadInPlace DEF InheritedDispatch, InheritedResult, Letters
<1>5. NextIteration(r, HeadIteration(m)) \in Nat
  BY <1>0, HasHeadFacts, IterationFacts
<1>6. l \in Letters
  BY <1>2, <1>4, <1>5, RuleFacts DEF Letter, Letters
<1>7. /\ job' = Job("persist", m, Len(letters[m]) + 1, l)
      /\ Extends(m, r, p) /\ r.source \in {"decision", "proposal", "review"}
      /\ r.to \notin {"dispatching", "landed"}
  BY <1>2 DEF RequestTransition
<1>8. Len(letters[m]) < MaxLetters /\ HeadState(m) = r.from
      /\ (HasHead(m) => PacketAllowed(r, Head1(m).packet, p))
  BY <1>7 DEF Extends
<1>9. Follows(l, m)
  BY <1>3, <1>8 DEF Follows
<1>10. PICK s \in Nat : s = Len(letters[m]) + 1
  BY <1>0, HasHeadFacts
<1>11. Fits(l, Head1(m), m, s)
  <2>1. l.state \notin {"dispatching", "executing", "gate"} /\ l.source \notin {"ack", "result"}
    BY <1>3, <1>7, RuleFacts
  <2>2. DispatchFits(l, m, s) /\ AckFits(l, Head1(m), s) /\ ResultFits(l, Head1(m), s)
    BY <2>1 DEF DispatchFits, AckFits, ResultFits
  <2>3. ASSUME l.state \in {"gate", "review", "merge_wait"} PROVE Earned(l, m, s)
    <3>1. /\ r.from \in {"gate", "review"} /\ r.iteration = "preserve"
          /\ r.source \in {"decision", "review"}
      BY <1>3, <2>1, <2>3, RuleFacts
    <3>2. HasHead(m)
      BY <1>0, <1>8, <3>1, HasHeadFacts DEF NoState
    <3>3. PICK q \in Letters : q = Head1(m)
      BY <1>0, <3>2, HeadInPlace
    <3>4. PICK k \in Places(m) : k = Len(letters[m])
      BY <1>0, <3>2, HeadInPlace
    <3>5. Earned(q, m, k) /\ q.state \in {"gate", "review"} /\ q = letters[m][k]
      BY <1>0, <1>8, <3>1, <3>2, <3>3, <3>4, HeadInPlace DEF CoreInv, LetterSound, Fits
    <3>6. l.dispatch = q.dispatch /\ l.result = q.result
      BY <1>3, <3>1, <3>2, <3>3 DEF InheritedDispatch, InheritedResult
    <3>7. l.iteration = q.iteration
      BY <1>0, <1>3, <3>1, <3>2, <3>3, HeadInPlace, HasHeadFacts, IterationFacts
    <3>8. l.packet = q.packet
      BY <1>3, <1>8, <3>1, <3>2, <3>3 DEF PacketAllowed
    <3>9. s = k + 1 /\ k \in Nat
      BY <1>0, <1>10, <3>2, <3>4, HeadInPlace
    <3> QED
      BY <3>5, <3>6, <3>7, <3>8, <3>9 DEF Earned
  <2>4. Earned(l, m, s)
    BY <2>3 DEF Earned
  <2> QED
    BY <2>2, <2>4 DEF Fits
<1>12. Fits(l, Head1(m), m, Len(letters[m]) + 1)'
  BY <1>0, <1>10, <1>11
     DEF Fits, DispatchFits, AckFits, ResultFits, Earned, HeadId, Head1
<1>13. l.state # "dispatching"
  BY <1>3, <1>7
<1>14. job' \in Jobs /\ JobSound'
  BY <1>0, <1>6, <1>7, <1>8, <1>9, <1>12, <1>13, PersistJob
<1> QED
  BY <1>1, <1>14 DEF LifecycleInv

\* create_execution_dispatch: the outbox knows every dispatch of the letters, so a
\* dispatch it would register has an execution id of its own.
LEMMA DispatchKeeps ==
    ASSUME LifecycleInv, NEW d \in Dispatches, NEW r \in TransitionRules, NEW t \in Nat,
           RequestDispatch(d, r, t)
    PROVE  LifecycleInv' /\ \A f \in Execs : OwnerEntryStep(f)
<1>0. /\ CoreInv /\ letters' = letters /\ outbox' = outbox /\ outboxTorn' = outboxTorn
      /\ UNCHANGED runnerVars /\ letters \in [Missions -> Seq(Letters)] /\ outboxTorn \in BOOLEAN
      /\ JobSound /\ job.pc = "serve"
  BY DEF LifecycleInv, CoreInv, RequestDispatch
<1>1. CoreInv' /\ \A f \in Execs : OwnerEntryStep(f)
  BY <1>0, KeepCore
<1>2. PICK m \in Missions : m = d.head.mission
  BY DEF Dispatches, MissionHeads
<1>3. PICK p \in Packets : p = d.head.packet
  BY DEF Dispatches, MissionHeads
<1>4. PICK l : l = [Letter(m, r, p, t) EXCEPT !.dispatch = d, !.result = InheritedResult(m, r)]
  OBVIOUS
<1>5. /\ l.state = r.to /\ l.iteration = NextIteration(r, HeadIteration(m)) /\ l.packet = p
      /\ l.source = r.source /\ l.dispatch = d /\ l.result = InheritedResult(m, r) /\ l.at = t
  BY <1>4 DEF Letter
<1>6. InheritedResult(m, r) \in Results \cup {None}
  BY <1>0, HeadInPlace DEF InheritedResult, Letters
<1>7. NextIteration(r, HeadIteration(m)) \in Nat
  BY <1>0, HasHeadFacts, IterationFacts
<1>8. l \in Letters
  BY <1>4, <1>6, <1>7, RuleFacts DEF Letter, Letters
<1>9. /\ job' = Job("persist", m, Len(letters[m]) + 1, l)
      /\ r.to = "dispatching" /\ Extends(m, r, p)
      /\ d.head.seq = Len(letters[m])
      /\ d.head.iteration = NextIteration(r, HeadIteration(m))
      /\ ValidNewDispatch(d, t) /\ Preflight(d, t)
  BY <1>2, <1>3, <1>4 DEF RequestDispatch
<1>10. Len(letters[m]) < MaxLetters /\ HeadState(m) = r.from
       /\ (HasHead(m) => PacketAllowed(r, Head1(m).packet, p))
  BY <1>9 DEF Extends
<1>11. Follows(l, m)
  BY <1>5, <1>10 DEF Follows
<1>12. PICK s \in Nat : s = Len(letters[m]) + 1
  BY <1>0, HasHeadFacts
<1>13. Fits(l, Head1(m), m, s)
  <2>1. l.source \notin {"ack", "result"} /\ l.state = "dispatching"
    BY <1>5, <1>9, RuleFacts
  <2>2. DispatchFits(l, m, s)
    BY <1>2, <1>3, <1>5, <1>9, <1>12, <2>1 DEF DispatchFits
  <2>3. AckFits(l, Head1(m), s) /\ ResultFits(l, Head1(m), s) /\ Earned(l, m, s)
    BY <2>1 DEF AckFits, ResultFits, Earned
  <2> QED
    BY <2>2, <2>3 DEF Fits
<1>14. Fits(l, Head1(m), m, Len(letters[m]) + 1)'
  BY <1>0, <1>12, <1>13
     DEF Fits, DispatchFits, AckFits, ResultFits, Earned, HeadId, Head1
<1>15. ASSUME NEW n \in Missions, NEW i \in Places(n), letters[n][i].state = "dispatching"
       PROVE  letters[n][i].dispatch.exec # l.dispatch.exec
  <2> SUFFICES ASSUME letters[n][i].dispatch.exec = d.exec PROVE FALSE
      BY <1>5
  <2>1. outbox[d.exec] # None /\ outbox[d.exec].dispatch = letters[n][i].dispatch
    BY <1>0, <1>15 DEF JobSound, InLifecycle, Reflected
  <2>2. d.exec \in Execs
    BY DEF Dispatches
  <2>3. outbox[d.exec].dispatch.exec = d.exec
    BY <1>0, <2>1, <2>2 DEF CoreInv, OutboxSound
  <2>4. Collides(outbox, d)
    BY <2>1, <2>2, <2>3 DEF Collides
  <2>5. letters[n][i].dispatch = d
    BY <1>9, <2>1, <2>4 DEF Preflight
  <2>6. n = m /\ i = d.head.seq + 1
    BY <1>0, <1>2, <1>15, <2>5, DispatchingLocated DEF DispatchedAt
  <2>7. i <= Len(letters[n])
    BY <1>0, LetterTyped
  <2> QED
    BY <1>0, <1>9, <2>6, <2>7, HasHeadFacts
<1>16. job' \in Jobs /\ JobSound'
  BY <1>0, <1>8, <1>9, <1>10, <1>11, <1>14, <1>15, PersistJob
<1> QED
  BY <1>1, <1>16 DEF LifecycleInv

\* reconcile_runner_started_snapshot: the ACK is journaled before the EXECUTING
\* letter is built.
LEMMA StartedKeeps ==
    ASSUME LifecycleInv, NEW a \in signed, NEW t \in Nat, RequestStarted(a, t)
    PROVE  LifecycleInv' /\ \A f \in Execs : OwnerEntryStep(f)
<1>0. /\ CoreInv /\ letters' = letters /\ outboxTorn' = outboxTorn
      /\ UNCHANGED runnerVars /\ letters \in [Missions -> Seq(Letters)] /\ outboxTorn \in BOOLEAN
      /\ outbox \in [Execs -> OwnerEntries \cup {None}]
  BY DEF LifecycleInv, CoreInv, RequestStarted
<1>1. a \in Acks
  BY <1>0 DEF CoreInv, RunnerIndInv, RunnerTypeOK
<1>2. PICK d \in Dispatches : d = a.dispatch
  BY <1>1 DEF Acks
<1>3. PICK e \in Execs : e = d.exec
  BY DEF Dispatches
<1>4. PICK m \in Missions : m = d.head.mission
  BY DEF Dispatches, MissionHeads
<1>5. PICK r \in TransitionRules : r = Rule("dispatching", "executing", "ack", "preserve")
  BY DEF TransitionRules
<1>6. /\ inbox[e] # None /\ inbox[e].started # None /\ inbox[e].started <= a.at
      /\ outbox[e] # None /\ outbox[e].dispatch = inbox[e].dispatch
      /\ HasHead(m) /\ Head1(m).dispatch = inbox[e].dispatch
      /\ Extends(m, r, d.head.packet)
      /\ AckBinds(a, Head1(m).dispatch)
      /\ MayRecordAck(outbox[e], a, t)
      /\ outbox' = [outbox EXCEPT ![e] = AckRecorded(outbox[e], a, t)]
      /\ job' = Job("persist", m, Len(letters[m]) + 1,
                    [Letter(m, r, Head1(m).packet, t) EXCEPT !.dispatch = Head1(m).dispatch, !.ack = a])
  BY <1>2, <1>3, <1>4, <1>5 DEF RequestStarted
<1>7. PICK x \in OwnerEntries : x = outbox[e]
  BY <1>0, <1>6
<1>8. OwnerShape(x) /\ Backed(x) /\ Agree(x, inbox[e], spawned[e]) /\ x.dispatch.exec = e
  BY <1>0, <1>6, <1>7 DEF CoreInv, OutboxSound, JournalsAgree
<1>9. Head1(m).dispatch = d /\ x.dispatch = d
  BY <1>2, <1>6, <1>7 DEF AckBinds
<1>10. /\ CoreInv' /\ OutboxGrows /\ \A f \in Execs : OwnerEntryStep(f)
       /\ outbox'[e] # None /\ outbox'[e].ack = a
  <2>1. CASE x.ack = a
    <3>1. outbox' = outbox
      BY <1>0, <1>6, <1>7, <2>1 DEF AckRecorded
    <3> QED
      BY <1>0, <1>6, <1>7, <2>1, <3>1, KeepCore
  <2>2. CASE x.ack # a
    <3>1. PICK y : y = [x EXCEPT !.state = "ACKED", !.ack = a, !.updated = t]
      OBVIOUS
    <3>2. outbox' = [outbox EXCEPT ![e] = y]
      BY <1>6, <1>7, <2>2, <3>1 DEF AckRecorded
    <3>3. x.ack = None /\ x.state = "INTENT" /\ AckBinds(a, x.dispatch) /\ x.updated <= t
      BY <1>6, <1>7, <2>2 DEF MayRecordAck
    <3>4. y \in OwnerEntries
      BY <1>1, <3>1 DEF OwnerEntries, OwnerStates
    <3>5. /\ y.state = "ACKED" /\ y.ack = a /\ y.updated = t /\ y.dispatch = x.dispatch
          /\ y.registered = x.registered /\ y.head = x.head /\ y.result = x.result
          /\ y.settled = x.settled
      BY <3>1 DEF OwnerEntries
    <3>6. OwnerShape(y) /\ OwnerDelta(x, y) /\ y.head = None /\ y.result = None /\ y.settled = None
      BY <1>1, <1>8, <3>3, <3>4, <3>5, AckExtends
    <3>7. Backed(y)
      BY <1>8, <3>5, <3>6 DEF Backed
    <3>8. Agree(y, inbox[e], spawned[e])
      <4>1. y # None
        BY <3>4, NoneAssumption
      <4> QED
        BY <1>6, <1>7, <1>8, <3>3, <3>5, <3>6, <4>1 DEF Agree
    <3>9. outbox[e] # None /\ OwnerDelta(outbox[e], y) /\ y.dispatch.exec = e
      BY <1>6, <1>7, <1>8, <3>5, <3>6
    <3>10. CoreInv' /\ OutboxGrows /\ \A f \in Execs : OwnerEntryStep(f)
      BY <1>0, <3>2, <3>4, <3>6, <3>7, <3>8, <3>9, WriteEntry
    <3>11. outbox'[e] = y /\ y # None
      BY <1>0, <3>2, <3>4, NoneAssumption
    <3> QED
      BY <3>5, <3>10, <3>11
  <2> QED
    BY <2>1, <2>2
<1>11. PICK q \in Letters : q = Head1(m)
  BY <1>0, <1>6, HeadInPlace
<1>12. PICK l : l = [Letter(m, r, q.packet, t) EXCEPT !.dispatch = d, !.ack = a]
  OBVIOUS
<1>13. job' = Job("persist", m, Len(letters[m]) + 1, l)
  BY <1>6, <1>9, <1>11, <1>12
<1>14. Len(letters[m]) < MaxLetters /\ HeadState(m) = r.from
  BY <1>6 DEF Extends
<1>15. q.state = "dispatching" /\ HeadIteration(m) = q.iteration /\ q.iteration \in Nat
       /\ q.packet \in Packets /\ q.dispatch = d
  BY <1>0, <1>5, <1>6, <1>9, <1>11, <1>14, HeadInPlace DEF Rule, Letters
<1>16. NextIteration(r, q.iteration) = q.iteration
  BY <1>5, <1>15, IterationFacts DEF Rule
<1>17. l \in Letters
  <2>1. r.to \in MissionStates /\ r.source \in Sources
    BY <1>5 DEF Rule, MissionStates, Sources
  <2>2. PICK k : k = Letter(m, r, q.packet, t)
    OBVIOUS
  <2>3. k \in Letters
    BY <1>11, <1>15, <1>16, <2>1, <2>2 DEF Letter, Letters
  <2> QED
    BY <1>1, <1>12, <2>2, <2>3 DEF Letters
<1>18. /\ l.state = "executing" /\ l.iteration = q.iteration /\ l.packet = q.packet
       /\ l.source = "ack" /\ l.dispatch = d /\ l.ack = a
  BY <1>5, <1>12, <1>15, <1>16 DEF Letter, Rule
<1>19. Follows(l, m)
  BY <1>5, <1>11, <1>14, <1>15, <1>16, <1>18 DEF Follows, PacketAllowed, Rule
<1>20. PICK s \in Nat : s = Len(letters[m]) + 1
  BY <1>0, HasHeadFacts
<1>21. s > 1
  BY <1>0, <1>6, <1>20, HeadInPlace
<1>22. Fits(l, q, m, s)'
  <2>1. DispatchFits(l, m, s)' /\ ResultFits(l, q, s)' /\ Earned(l, m, s)'
    BY <1>18 DEF DispatchFits, ResultFits, Earned
  <2>2. AckBinds(a, d)
    BY <1>6, <1>9
  <2>3. AckFits(l, q, s)'
    BY <1>1, <1>3, <1>10, <1>15, <1>18, <1>21, <2>2 DEF AckFits, GoesOn, AckBinds
  <2> QED
    BY <2>1, <2>3 DEF Fits
<1>23. Fits(l, Head1(m), m, Len(letters[m]) + 1)'
  BY <1>0, <1>11, <1>20, <1>22
     DEF Fits, DispatchFits, AckFits, ResultFits, Earned, HeadId, Head1
<1>24. job' \in Jobs /\ JobSound'
  BY <1>0, <1>13, <1>14, <1>17, <1>18, <1>19, <1>23, PersistJob
<1> QED
  BY <1>10, <1>24 DEF LifecycleInv

\* reconcile_runner_terminal_snapshot: the result is journaled before the letter that
\* applies it is built.
LEMMA TerminalKeeps ==
    ASSUME LifecycleInv, NEW e \in Execs, NEW t \in Nat, RequestTerminal(e, t)
    PROVE  LifecycleInv' /\ \A f \in Execs : OwnerEntryStep(f)
<1>0. /\ CoreInv /\ letters' = letters /\ outboxTorn' = outboxTorn
      /\ UNCHANGED runnerVars /\ letters \in [Missions -> Seq(Letters)] /\ outboxTorn \in BOOLEAN
      /\ outbox \in [Execs -> OwnerEntries \cup {None}]
      /\ inbox[e] # None /\ inbox[e].result # None
  BY DEF LifecycleInv, CoreInv, RequestTerminal
<1>1. PICK z \in RunnerEntries : z = inbox[e]
  BY <1>0 DEF CoreInv, RunnerIndInv, RunnerTypeOK
<1>2. PICK res \in Results : res = z.result
  BY <1>0, <1>1 DEF RunnerEntries
<1>3. PICK d \in Dispatches : d = z.dispatch
  BY DEF RunnerEntries
<1>4. PICK m \in Missions : m = d.head.mission
  BY DEF Dispatches, MissionHeads
<1>5. PICK r \in TransitionRules : r = Rule("executing", ExpectedTransition(res), "result", "preserve")
  BY DEF TransitionRules, ExpectedTransition
<1>6. PICK k \in Nat : k = Len(letters[m])
  BY <1>0
<1>7. /\ outbox[e] # None /\ outbox[e].dispatch = d /\ outbox[e].head = z.head
      /\ HasHead(m) /\ Head1(m).dispatch = d
      /\ z.head = HeadId(m, k)
      /\ Extends(m, r, Head1(m).packet)
      /\ ResultBinds(res, d, HeadId(m, k))
      /\ MayRecordResult(outbox[e], res, t)
      /\ outbox' = [outbox EXCEPT ![e] = ResultRecorded(outbox[e], res, t)]
      /\ job' = Job("persist", m, Len(letters[m]) + 1,
                    [Letter(m, r, Head1(m).packet, t) EXCEPT !.dispatch = Head1(m).dispatch, !.result = res])
  BY <1>1, <1>2, <1>3, <1>4, <1>5, <1>6 DEF RequestTerminal
<1>8. PICK x \in OwnerEntries : x = outbox[e]
  BY <1>0, <1>7
<1>9. OwnerShape(x) /\ Backed(x) /\ Agree(x, z, spawned[e]) /\ x.dispatch.exec = e
  BY <1>0, <1>1, <1>7, <1>8 DEF CoreInv, OutboxSound, JournalsAgree
<1>10. x.dispatch = d /\ x.head = z.head /\ z # None /\ z.result = res /\ res # None /\ z.head # None
  <2>1. RunnerShape(z)
    BY <1>0, <1>1 DEF CoreInv, RunnerIndInv, EntrySound, Claimed
  <2>2. z.head # None
    BY <1>0, <1>1, <2>1 DEF RunnerShape
  <2> QED
    BY <1>0, <1>1, <1>2, <1>7, <1>8, <2>2
<1>11. /\ CoreInv' /\ OutboxGrows /\ \A f \in Execs : OwnerEntryStep(f)
       /\ outbox'[e] # None /\ outbox'[e].result = res
  <2>1. CASE x.result = res
    <3>1. outbox' = outbox
      BY <1>0, <1>7, <1>8, <2>1 DEF ResultRecorded
    <3> QED
      BY <1>0, <1>7, <1>8, <2>1, <3>1, KeepCore
  <2>2. CASE x.result # res
    <3>1. PICK y : y = [x EXCEPT !.state = TerminalEntryState(res), !.result = res, !.updated = t]
      OBVIOUS
    <3>2. outbox' = [outbox EXCEPT ![e] = y]
      BY <1>7, <1>8, <2>2, <3>1 DEF ResultRecorded
    <3>3. /\ x.result = None /\ x.state = "ACKED" /\ x.head # None
          /\ ResultBinds(res, x.dispatch, x.head) /\ x.updated <= t
      BY <1>7, <1>8, <2>2 DEF MayRecordResult
    <3>4. y \in OwnerEntries
      BY <3>1 DEF OwnerEntries, OwnerStates, TerminalEntryState
    <3>5. /\ y.state = TerminalEntryState(res) /\ y.result = res /\ y.updated = t
          /\ y.dispatch = x.dispatch /\ y.registered = x.registered /\ y.ack = x.ack
          /\ y.head = x.head /\ y.settled = x.settled
      BY <3>1 DEF OwnerEntries
    <3>6. OwnerShape(y) /\ OwnerDelta(x, y) /\ y.settled = None
      BY <1>9, <3>3, <3>4, <3>5, ResultExtends
    <3>7. Backed(y)
      BY <1>9, <3>5, <3>6 DEF Backed
    <3>8. Agree(y, z, spawned[e])
      <4>1. y # None
        BY <3>4, NoneAssumption
      <4> QED
        BY <1>9, <1>10, <3>5, <4>1 DEF Agree
    <3>9. /\ outbox[e] # None /\ OwnerDelta(outbox[e], y) /\ y.dispatch.exec = e
          /\ Agree(y, inbox[e], spawned[e])
      BY <1>1, <1>7, <1>8, <1>9, <3>5, <3>6, <3>8
    <3>10. CoreInv' /\ OutboxGrows /\ \A f \in Execs : OwnerEntryStep(f)
      BY <1>0, <3>2, <3>4, <3>6, <3>7, <3>9, WriteEntry
    <3>11. outbox'[e] = y /\ y # None
      BY <1>0, <3>2, <3>4, NoneAssumption
    <3> QED
      BY <3>5, <3>10, <3>11
  <2> QED
    BY <2>1, <2>2
<1>12. PICK q \in Letters : q = Head1(m)
  BY <1>0, <1>7, HeadInPlace
<1>13. PICK l : l = [Letter(m, r, q.packet, t) EXCEPT !.dispatch = d, !.result = res]
  OBVIOUS
<1>14. job' = Job("persist", m, Len(letters[m]) + 1, l)
  BY <1>7, <1>12, <1>13
<1>15. Len(letters[m]) < MaxLetters /\ HeadState(m) = r.from
  BY <1>7 DEF Extends
<1>16. /\ q.state = "executing" /\ HeadIteration(m) = q.iteration /\ q.iteration \in Nat
       /\ q.packet \in Packets /\ q.dispatch = d /\ q = letters[m][k] /\ k >= 1
  BY <1>0, <1>5, <1>6, <1>7, <1>12, <1>15, HeadInPlace DEF Rule, Letters
<1>17. NextIteration(r, q.iteration) = q.iteration
  BY <1>5, <1>16, IterationFacts DEF Rule
<1>18. ExpectedTransition(res) \in {"gate", "failed"} /\ ExpectedTransition(res) \in MissionStates
  BY DEF ExpectedTransition, MissionStates
<1>19. l \in Letters
  <2>1. r.to \in MissionStates /\ r.source \in Sources
    BY <1>5, <1>18 DEF Rule, Sources
  <2>2. PICK g : g = Letter(m, r, q.packet, t)
    OBVIOUS
  <2>3. g \in Letters
    BY <1>12, <1>16, <1>17, <2>1, <2>2 DEF Letter, Letters
  <2> QED
    BY <1>13, <2>2, <2>3 DEF Letters
<1>20. /\ l.state = ExpectedTransition(res) /\ l.iteration = q.iteration /\ l.packet = q.packet
       /\ l.source = "result" /\ l.dispatch = d /\ l.result = res
  BY <1>5, <1>13, <1>16, <1>17 DEF Letter, Rule
<1>21. Follows(l, m)
  BY <1>5, <1>12, <1>15, <1>16, <1>17, <1>20 DEF Follows, PacketAllowed, Rule
<1>22. PICK s \in Nat : s = Len(letters[m]) + 1
  BY <1>0, HasHeadFacts
<1>23. s = k + 1 /\ s > 1
  BY <1>6, <1>16, <1>22
<1>24. d.exec = e
  BY <1>9, <1>10
<1>25. Fits(l, q, m, s)'
  <2>1. DispatchFits(l, m, s)' /\ AckFits(l, q, s)'
    BY <1>18, <1>20 DEF DispatchFits, AckFits
  <2>2. res.dispatch = d /\ res.head = HeadId(m, k)
    BY <1>7 DEF ResultBinds
  <2>3. ResultFits(l, q, s)'
    BY <1>11, <1>16, <1>20, <1>23, <1>24, <2>2 DEF ResultFits, GoesOn, ExpectedTransition
  <2>4. res.head.seq = k /\ res.head.iteration = q.iteration /\ res.head.packet = q.packet
    BY <1>16, <2>2 DEF HeadId
  <2>5. l.state \in {"gate", "review", "merge_wait"} => res.outcome = "succeeded"
    BY <1>20 DEF ExpectedTransition
  <2>6. k \in 1..(s - 1) /\ k <= Len(letters[m])
    BY <1>6, <1>16, <1>23
  <2>7. Earned(l, m, s)'
    BY <1>0, <1>11, <1>16, <1>20, <1>24, <2>2, <2>4, <2>5, <2>6 DEF Earned, HeadId
  <2> QED
    BY <2>1, <2>3, <2>7 DEF Fits
<1>26. Fits(l, Head1(m), m, Len(letters[m]) + 1)'
  BY <1>0, <1>12, <1>22, <1>25
     DEF Fits, DispatchFits, AckFits, ResultFits, Earned, HeadId, Head1
<1>27. l.state # "dispatching"
  BY <1>18, <1>20
<1>28. job' \in Jobs /\ JobSound'
  BY <1>0, <1>14, <1>15, <1>19, <1>21, <1>26, <1>27, PersistJob
<1> QED
  BY <1>11, <1>28 DEF LifecycleInv

\* A retried request finds everything in place.
LEMMA ReplayKeeps ==
    ASSUME LifecycleInv, NEW m \in Missions, NEW i \in 1..MaxLetters, NEW t \in Nat,
           ReplayRequest(m, i, t)
    PROVE  LifecycleInv' /\ outbox' = outbox /\ \A f \in Execs : OwnerEntryStep(f)
<1>0. /\ CoreInv /\ letters' = letters /\ outboxTorn' = outboxTorn
      /\ UNCHANGED runnerVars /\ outboxTorn \in BOOLEAN
      /\ outbox \in [Execs -> OwnerEntries \cup {None}]
      /\ JobSound /\ job.pc = "serve" /\ i <= Len(letters[m])
      /\ job' = Job("replay", m, i, letters[m][i])
  BY DEF LifecycleInv, CoreInv, ReplayRequest
<1>1. i \in Places(m)
  <2>1. i \in Nat /\ i >= 1
    BY MaxLettersAssumption
  <2> QED
    BY <1>0, <2>1, HasHeadFacts DEF Places
<1>2. PICK l \in Letters : l = letters[m][i]
  BY <1>0, <1>1, LetterTyped
<1>3. InLifecycle(l) => Reflected(m, i)
  BY <1>0, <1>1, <1>2 DEF JobSound
<1>4. outbox' = outbox
  <2>1. CASE l.state = "dispatching" /\ UNCHANGED outbox
    BY <2>1
  <2>2. CASE l.source = "ack" /\ outbox' = [outbox EXCEPT ![l.dispatch.exec] =
                                               AckRecorded(outbox[l.dispatch.exec], l.ack, t)]
    <3>1. outbox[l.dispatch.exec].ack = l.ack
      BY <1>2, <1>3, <2>2 DEF InLifecycle, Reflected
    <3> QED
      BY <1>0, <2>2, <3>1 DEF AckRecorded
  <2>3. CASE l.source = "result" /\ outbox' = [outbox EXCEPT ![l.dispatch.exec] =
                                                 ResultRecorded(outbox[l.dispatch.exec], l.result, t)]
    <3>1. outbox[l.dispatch.exec].result = l.result
      BY <1>2, <1>3, <2>3 DEF InLifecycle, Reflected
    <3> QED
      BY <1>0, <2>3, <3>1 DEF ResultRecorded
  <2> QED
    BY <1>2, <2>1, <2>2, <2>3 DEF ReplayRequest
<1>5. CoreInv' /\ \A f \in Execs : OwnerEntryStep(f)
  BY <1>0, <1>4, KeepCore
<1>6. job'.pc = "replay" /\ job'.mission = m /\ job'.seq = i /\ job'.letter = l
  BY <1>0, <1>2 DEF Job
<1>7. job' \in Jobs
  BY <1>0, <1>2, MaxLettersAssumption DEF Job, Jobs
<1>8. \A n \in Missions : \A k \in Places(n)' : InLifecycle(letters[n][k])' => Reflected(n, k)'
  BY <1>0, <1>4, ReflectionFrame DEF JobSound
<1>9. JobSound'
  BY <1>0, <1>1, <1>2, <1>6, <1>8 DEF JobSound, Places
<1> QED
  BY <1>4, <1>5, <1>7, <1>9 DEF LifecycleInv

-----------------------------------------------------------------------------
(* Opening the service and finishing a request. *)

\* A letter in place as repair names it.
LEMMA LetterInPlace ==
    ASSUME CoreInv, NEW m \in Missions, NEW i \in 1..MaxLetters, i <= Len(letters[m])
    PROVE  i \in Places(m)
<1>1. i \in Nat /\ i >= 1 /\ Len(letters[m]) \in Nat
  BY MaxLettersAssumption, HasHeadFacts
<1> QED
  BY <1>1 DEF Places

\* Every letter in place is one repair looks at.
LEMMA PlaceInRange ==
    ASSUME CoreInv, NEW m \in Missions, NEW i \in Places(m)
    PROVE  <<m, i>> \in Missions \X (1..MaxLetters)
<1>1. i \in Nat /\ i >= 1 /\ i <= Len(letters[m]) /\ Len(letters[m]) <= MaxLetters /\ Len(letters[m]) \in Nat
  BY LetterTyped, HasHeadFacts DEF CoreInv
<1> QED
  BY <1>1, MaxLettersAssumption

\* When repair finds nothing to do, the outbox reflects every letter.
LEMMA RepairedReflects ==
    ASSUME CoreInv, Unregistered = {}, Unmarked = {}, Unsettled = {},
           NEW m \in Missions, NEW i \in Places(m), InLifecycle(letters[m][i])
    PROVE  Reflected(m, i)
<1>1. PICK l \in Letters : l = letters[m][i]
  BY LetterTyped
<1>2. i <= Len(letters[m]) /\ <<m, i>> \in Missions \X (1..MaxLetters)
  BY LetterTyped, PlaceInRange
<1>3. CASE l.state = "dispatching"
  <2>1. outbox[l.dispatch.exec] # None
    BY <1>1, <1>2, <1>3 DEF Unregistered, LettersIn
  <2>2. outbox[l.dispatch.exec].dispatch = l.dispatch /\ l.source \notin {"ack", "result"}
    BY <1>1, <1>3, <2>1, DispatchingLocated
  <2> QED
    BY <1>1, <2>1, <2>2 DEF Reflected
<1>4. CASE l.source = "ack"
  <2>1. PICK x \in OwnerEntries : x = outbox[l.dispatch.exec]
    BY <1>1, <1>4, ExecutingLocated
  <2>2. /\ l.state = "executing" /\ l.dispatch \in Dispatches /\ l.dispatch.head.mission = m
        /\ ExecutingAt(l.dispatch) = i /\ x.dispatch = l.dispatch /\ x.ack = l.ack
        /\ l.ack \in Acks /\ x # None
    BY <1>1, <1>4, <2>1, ExecutingLocated, NoneAssumption
  <2>3. l.dispatch.exec \in Execs
    BY <2>2 DEF Dispatches
  <2>4. OwnerShape(x) /\ Backed(x)
    BY <2>1, <2>2, <2>3 DEF CoreInv, OutboxSound
  <2>5. ~(x.state = "ACKED" /\ x.head = None)
    <3> SUFFICES ASSUME x.state = "ACKED" /\ x.head = None PROVE FALSE
        OBVIOUS
    <3>1. <<m, i>> \in LettersIn("executing")
      BY <1>1, <1>2, <2>2 DEF LettersIn
    <3>2. <<m, i>> \in Unmarked
      BY <1>1, <2>1, <2>2, <3>1 DEF Unmarked
    <3> QED
      BY <3>2
  <2>6. x.head # None
    BY <2>2, <2>4, <2>5, NoneAssumption DEF OwnerShape, OwnerEntries, OwnerStates
  <2>7. x.head = HeadId(m, i)
    BY <2>2, <2>4, <2>6 DEF Backed
  <2> QED
    BY <1>1, <1>4, <2>1, <2>2, <2>7 DEF Reflected
<1>5. CASE l.source = "result"
  <2>1. PICK x \in OwnerEntries : x = outbox[l.dispatch.exec]
    BY <1>1, <1>5, ResultLocated
  <2>2. /\ l.dispatch \in Dispatches /\ l.dispatch.head.mission = m
        /\ ResultAt(l.dispatch) = i /\ x.dispatch = l.dispatch /\ x.result = l.result
        /\ l.result \in Results /\ x # None
    BY <1>1, <1>5, <2>1, ResultLocated, NoneAssumption
  <2>3. l.dispatch.exec \in Execs /\ l.result # None
    BY <2>2, NoneAssumption DEF Dispatches
  <2>4. Backed(x)
    BY <2>1, <2>2, <2>3 DEF CoreInv, OutboxSound
  <2>5. l.state \in {"gate", "failed"}
    <3>1. ResultFits(l, letters[m][i - 1], i)
      BY <1>1 DEF CoreInv, LetterSound, Fits
    <3> QED
      BY <1>5, <3>1 DEF ResultFits, ExpectedTransition
  <2>6. x.settled # None
    <3> SUFFICES ASSUME x.settled = None PROVE FALSE
        OBVIOUS
    <3>1. <<m, i>> \in LettersIn("gate") \cup LettersIn("failed")
      BY <1>1, <1>2, <2>5 DEF LettersIn
    <3>2. <<m, i>> \in Unsettled
      BY <1>1, <1>5, <2>1, <2>2, <2>3, <3>1 DEF Unsettled
    <3> QED
      BY <3>2
  <2>7. x.settled = i
    BY <2>2, <2>4, <2>6 DEF Backed
  <2> QED
    BY <1>1, <1>5, <2>1, <2>2, <2>7 DEF Reflected
<1> QED
  BY <1>1, <1>3, <1>4, <1>5 DEF InLifecycle

\* The repair of one letter.
LEMMA RepairKeeps ==
    ASSUME LifecycleInv, NEW m \in Missions, NEW i \in 1..MaxLetters,
           RepairRegister(m, i) \/ RepairMarkExecuting(m, i) \/ RepairMarkResult(m, i)
    PROVE  LifecycleInv' /\ \A f \in Execs : OwnerEntryStep(f)
<1>0. /\ CoreInv /\ job \in Jobs /\ job.pc = "repair" /\ job' = job
      /\ UNCHANGED <<letters, outboxTorn, runnerVars>>
  BY DEF LifecycleInv, RepairRegister, RepairMarkExecuting, RepairMarkResult
<1>1. i <= Len(letters[m])
  BY DEF RepairRegister, RepairMarkExecuting, RepairMarkResult, Unregistered, Unmarked, Unsettled,
         LettersIn
<1>2. i \in Places(m)
  BY <1>0, <1>1, LetterInPlace
<1>3. CoreInv' /\ \A f \in Execs : OwnerEntryStep(f)
  <2>1. CASE RepairRegister(m, i)
    <3>1. /\ letters[m][i].state = "dispatching"
          /\ outbox' = Registered(letters[m][i].dispatch, letters[m][i].at)
      BY <2>1 DEF RepairRegister, Unregistered, LettersIn
    <3> QED
      BY <1>0, <1>2, <3>1, RegisterKeeps
  <2>2. CASE RepairMarkExecuting(m, i)
    <3>1. PICK e : e = letters[m][i].dispatch.exec
      OBVIOUS
    <3>2. /\ letters[m][i].state = "executing"
          /\ MayMarkExecuting(outbox[e], letters[m][i].ack, HeadId(m, i), letters[m][i].at)
          /\ outbox' = [outbox EXCEPT ![e] = ExecutingMarked(@, HeadId(m, i), letters[m][i].at)]
      BY <2>2, <3>1 DEF RepairMarkExecuting, Unmarked, LettersIn
    <3> QED
      BY <1>0, <1>2, <3>1, <3>2, MarkExecutingKeeps
  <2>3. CASE RepairMarkResult(m, i)
    <3>1. PICK e : e = letters[m][i].dispatch.exec
      OBVIOUS
    <3>2. /\ letters[m][i].source = "result"
          /\ MayMarkResult(outbox[e], letters[m][i].result, i, letters[m][i].at)
          /\ outbox' = [outbox EXCEPT ![e] = ResultMarked(@, i, letters[m][i].at)]
      BY <2>3, <3>1 DEF RepairMarkResult, Unsettled, LettersIn
    <3> QED
      BY <1>0, <1>2, <3>1, <3>2, MarkResultKeeps
  <2> QED
    BY <2>1, <2>2, <2>3
<1>4. job' \in Jobs /\ JobSound'
  BY <1>0 DEF JobSound
<1> QED
  BY <1>3, <1>4 DEF LifecycleInv

\* The service is open.
LEMMA RepairDoneKeeps ==
    ASSUME LifecycleInv, RepairDone
    PROVE  LifecycleInv' /\ \A f \in Execs : OwnerEntryStep(f)
<1>0. /\ CoreInv /\ letters' = letters /\ outbox' = outbox /\ outboxTorn' = outboxTorn
      /\ UNCHANGED runnerVars /\ outboxTorn \in BOOLEAN
      /\ Unregistered = {} /\ Unmarked = {} /\ Unsettled = {}
      /\ job' = [Idle EXCEPT !.pc = "serve"]
  BY DEF LifecycleInv, CoreInv, RepairDone
<1>1. CoreInv' /\ \A f \in Execs : OwnerEntryStep(f)
  BY <1>0, KeepCore
<1>2. job'.pc = "serve" /\ job' \in Jobs
  BY <1>0 DEF Idle, Jobs
<1>3. \A m \in Missions : \A i \in Places(m) : InLifecycle(letters[m][i]) => Reflected(m, i)
  BY <1>0, RepairedReflects
<1>4. \A m \in Missions : \A i \in Places(m)' : InLifecycle(letters[m][i])' => Reflected(m, i)'
  BY <1>0, <1>3, ReflectionFrame
<1>5. JobSound'
  BY <1>2, <1>4 DEF JobSound
<1> QED
  BY <1>1, <1>2, <1>5 DEF LifecycleInv

\* finalize_execution_lifecycle: what it appends rests on the letter that persist_state
\* wrote, and after a retry it appends nothing.
LEMMA FinalizeKeeps ==
    ASSUME LifecycleInv, Finalize
    PROVE  /\ LifecycleInv' /\ \A f \in Execs : OwnerEntryStep(f)
           /\ job.pc = "replay" => outbox' = outbox
<1>0. /\ CoreInv /\ JobSound /\ job.pc \in {"finalize", "replay"} /\ job' = Idle
      /\ UNCHANGED <<letters, outboxTorn, runnerVars>>
  BY DEF LifecycleInv, Finalize
<1>1. PICK m \in Missions : m = job.mission
  BY <1>0 DEF JobSound
<1>2. PICK i \in Places(m) : i = job.seq
  BY <1>0, <1>1 DEF JobSound
<1>3. PICK l \in Letters : l = job.letter /\ l = letters[m][i]
  BY <1>0, <1>1, <1>2, LetterTyped DEF JobSound
<1>4. job.pc = "replay" => (InLifecycle(l) => Reflected(m, i))
  BY <1>0, <1>3 DEF JobSound
<1>5. PICK e : e = l.dispatch.exec
  OBVIOUS
<1>6. /\ CoreInv' /\ \A f \in Execs : OwnerEntryStep(f)
      /\ job.pc = "replay" => outbox' = outbox
  <2>1. CASE l.state = "dispatching" /\ outbox' = Registered(l.dispatch, l.at)
    <3>1. /\ CoreInv' /\ \A f \in Execs : OwnerEntryStep(f)
          /\ outbox[e] # None => outbox' = outbox
      BY <1>0, <1>3, <1>5, <2>1, RegisterKeeps
    <3>2. job.pc = "replay" => outbox[e] # None
      BY <1>3, <1>4, <1>5, <2>1 DEF InLifecycle, Reflected
    <3> QED
      BY <3>1, <3>2
  <2>2. CASE /\ l.source = "ack" /\ MayMarkExecuting(outbox[e], l.ack, HeadId(m, i), l.at)
             /\ outbox' = [outbox EXCEPT ![e] = ExecutingMarked(@, HeadId(m, i), l.at)]
    <3>1. /\ CoreInv' /\ \A f \in Execs : OwnerEntryStep(f)
          /\ outbox[e].head = HeadId(m, i) => outbox' = outbox
      BY <1>0, <1>3, <1>5, <2>2, MarkExecutingKeeps
    <3>2. job.pc = "replay" => outbox[e].head = HeadId(m, i)
      BY <1>3, <1>4, <1>5, <2>2 DEF InLifecycle, Reflected
    <3> QED
      BY <3>1, <3>2
  <2>3. CASE /\ l.source = "result" /\ MayMarkResult(outbox[e], l.result, i, l.at)
             /\ outbox' = [outbox EXCEPT ![e] = ResultMarked(@, i, l.at)]
    <3>1. /\ CoreInv' /\ \A f \in Execs : OwnerEntryStep(f)
          /\ outbox[e].settled = i => outbox' = outbox
      BY <1>0, <1>3, <1>5, <2>3, MarkResultKeeps
    <3>2. job.pc = "replay" => outbox[e].settled = i
      BY <1>3, <1>4, <1>5, <2>3 DEF InLifecycle, Reflected
    <3> QED
      BY <3>1, <3>2
  <2> QED
    BY <1>1, <1>2, <1>3, <1>5, <2>1, <2>2, <2>3 DEF Finalize
<1>7. job' \in Jobs /\ JobSound'
  BY <1>0, QuietJob
<1> QED
  BY <1>6, <1>7 DEF LifecycleInv

\* Opening, giving up, and a crash in the middle of an append.
LEMMA QuietKeeps ==
    ASSUME LifecycleInv, Open \/ Abandon \/ OwnerTornAppend
    PROVE  LifecycleInv' /\ outbox' = outbox /\ \A f \in Execs : OwnerEntryStep(f)
<1>1. /\ CoreInv /\ UNCHANGED <<letters, outbox, runnerVars>> /\ outboxTorn \in BOOLEAN
  BY DEF LifecycleInv, CoreInv, Open, Abandon, OwnerTornAppend
<1>2. outboxTorn' \in BOOLEAN
  BY <1>1 DEF Open, Abandon, OwnerTornAppend
<1>3. job' = Idle \/ job' = [Idle EXCEPT !.pc = "repair"]
  BY DEF Open, Abandon, OwnerTornAppend
<1> QED
  BY <1>1, <1>2, <1>3, KeepCore, QuietJob DEF LifecycleInv

-----------------------------------------------------------------------------
(* The runner. *)

\* A runner step changes at most what the two journals know of each other.
LEMMA RunnerStepKeeps ==
    ASSUME LifecycleInv, RunnerStep
    PROVE  LifecycleInv' /\ UNCHANGED ownerVars /\ \A f \in Execs : OwnerEntryStep(f)
<1>0. CoreInv /\ RunnerIndInv /\ UNCHANGED ownerVars /\ outbox' = outbox
  BY DEF LifecycleInv, CoreInv, RunnerStep, ownerVars
<1>1. /\ inbox \in [Execs -> RunnerEntries \cup {None}] /\ spawned \in [Execs -> Nat]
      /\ \A f \in Execs : Agree(outbox[f], inbox[f], spawned[f])
      /\ \A f \in Execs : EntrySound(f) /\ SpawnOnce(f)
  BY <1>0 DEF CoreInv, JournalsAgree, RunnerIndInv, RunnerTypeOK
<1>2. ASSUME RunnerIndInv', \A f \in Execs : Agree(outbox[f], inbox'[f], spawned'[f])
      PROVE  LifecycleInv' /\ \A f \in Execs : OwnerEntryStep(f)
  <2>1. \A f \in Execs : JournalsAgree(f)'
    BY <1>0, <1>2 DEF JournalsAgree
  <2>2. CoreInv' /\ \A f \in Execs : OwnerEntryStep(f)
    BY <1>0, <1>2, <2>1, RunnerKeeps
  <2>3. job' \in Jobs
    BY <1>0 DEF LifecycleInv, ownerVars
  <2>4. job' = job /\ letters' = letters /\ outbox' = outbox
    BY <1>0 DEF ownerVars
  <2>5. JobSound'
    BY <2>4, JobFrame DEF LifecycleInv
  <2> QED
    BY <2>2, <2>3, <2>5 DEF LifecycleInv
<1>3. ASSUME NEW e \in Execs, outbox[e] # None, ClaimForSpawn(outbox[e].dispatch)
      PROVE  LifecycleInv' /\ \A f \in Execs : OwnerEntryStep(f)
  <2>1. PICK x \in OwnerEntries : x = outbox[e]
    BY <1>0, <1>3 DEF CoreInv
  <2>2. PICK d \in Dispatches : d = x.dispatch
    BY DEF OwnerEntries
  <2>3. d.exec = e
    BY <1>0, <1>3, <2>1, <2>2 DEF CoreInv, OutboxSound
  <2>4. RunnerIndInv'
    BY <1>0, <1>3, <2>1, <2>2, ClaimPreserves
  <2>5. PICK y : y = [dispatch |-> d, state |-> "CLAIMED", claimed |-> now, updated |-> now,
                      started |-> None, ack |-> None, head |-> None, result |-> None]
    OBVIOUS
  <2>6. y.dispatch = d /\ y.started = None /\ y.head = None /\ y.ack = None /\ y.result = None
    BY <2>5
  <2>7. inbox' = [inbox EXCEPT ![e] = y] /\ spawned' = spawned
    BY <1>3, <2>1, <2>2, <2>3, <2>5 DEF ClaimForSpawn
  <2>8. inbox[e] = None
    <3> SUFFICES ASSUME inbox[e] # None PROVE FALSE
        OBVIOUS
    <3>1. inbox[e].dispatch.exec = e
      BY <1>1 DEF EntrySound, Claimed
    <3>2. Collides(inbox, d)
      BY <2>3, <3>1 DEF Collides
    <3> QED
      BY <1>3, <2>1, <2>2, <3>2 DEF ClaimForSpawn
  <2>9. x.ack = None /\ x.result = None
    BY <1>1, <1>3, <2>1, <2>8 DEF Agree
  <2>10. Agree(x, y, spawned[e])
    BY <1>3, <2>1, <2>2, <2>6, <2>9 DEF Agree
  <2>11. \A f \in Execs : Agree(outbox[f], inbox'[f], spawned'[f])
    BY <1>1, <2>1, <2>7, <2>10
  <2> QED
    BY <1>2, <2>4, <2>11
<1>4. ASSUME NEW h \in LettersIn("executing"),
             ObserveExecuting(letters[h[1]][h[2]].dispatch.exec, letters[h[1]][h[2]].ack,
                              HeadId(h[1], h[2]))
      PROVE  LifecycleInv' /\ \A f \in Execs : OwnerEntryStep(f)
  <2>1. PICK m \in Missions : m = h[1]
    BY DEF LettersIn
  <2>2. PICK i \in 1..MaxLetters : i = h[2]
    BY DEF LettersIn
  <2>3. i \in Places(m) /\ letters[m][i].state = "executing"
    BY <1>0, <2>1, <2>2, LetterInPlace DEF LettersIn
  <2>4. PICK g \in MissionHeads : g = HeadId(m, i)
    BY <1>0, <2>3, ExecutingLocated
  <2>5. PICK d \in Dispatches : d = letters[m][i].dispatch
    BY <1>0, <2>3, ExecutingLocated
  <2>6. PICK e \in Execs : e = d.exec
    BY DEF Dispatches
  <2>7. PICK a : a = letters[m][i].ack
    OBVIOUS
  <2>8. ObserveExecuting(e, a, g)
    BY <1>4, <2>1, <2>2, <2>4, <2>5, <2>6, <2>7
  <2>9. RunnerIndInv'
    BY <1>0, <2>8, ObservePreserves
  <2>10. outbox[e].ack = a /\ outbox[e] # None
    BY <1>0, <2>3, <2>5, <2>6, <2>7, ExecutingLocated, NoneAssumption
  <2>11. PICK z \in RunnerEntries : z = inbox[e]
    BY <1>1, <2>8 DEF ObserveExecuting, Claimed
  <2>12. PICK y : y = [z EXCEPT !.head = g, !.updated = now]
    OBVIOUS
  <2>13. inbox' = [inbox EXCEPT ![e] = y] /\ spawned' = spawned
    BY <1>1, <2>8, <2>11, <2>12 DEF ObserveExecuting, RunnerEntries
  <2>14. y.dispatch = z.dispatch /\ y.started = z.started /\ y.ack = z.ack /\ y.result = z.result
    BY <2>12 DEF RunnerEntries
  <2>15. z.ack = a /\ a # None /\ z.state = "ACKED" /\ RunnerShape(z) /\ z # None
    BY <1>1, <2>8, <2>11 DEF ObserveExecuting, EntrySound, Claimed
  <2>16. z.result = None
    BY <2>15 DEF RunnerShape
  <2>17. y # None
    <3>1. y \in RunnerEntries
      BY <2>12, <2>9, <1>0 DEF RunnerEntries, RunnerIndInv, RunnerTypeOK
    <3> QED
      BY <3>1, NoneAssumption
  <2>18. Agree(outbox[e], y, spawned[e])
    BY <1>1, <2>10, <2>11, <2>14, <2>15, <2>16, <2>17 DEF Agree
  <2>19. \A f \in Execs : Agree(outbox[f], inbox'[f], spawned'[f])
    BY <1>1, <2>13, <2>18
  <2> QED
    BY <1>2, <2>9, <2>19
<1>5. ASSUME NEW e \in Execs, Spawn(e)
      PROVE  LifecycleInv' /\ \A f \in Execs : OwnerEntryStep(f)
  <2>1. RunnerIndInv'
    BY <1>0, <1>5, SpawnPreserves
  <2>2. spawned' = [spawned EXCEPT ![e] = spawned[e] + 1] /\ inbox' = inbox /\ spawned[e] = 0
    BY <1>1, <1>5 DEF Spawn, SpawnOnce
  <2>3. spawned'[e] = 1
    BY <1>1, <2>2
  <2>4. Agree(outbox[e], inbox[e], 1)
    BY <1>1 DEF Agree
  <2>5. \A f \in Execs : Agree(outbox[f], inbox'[f], spawned'[f])
    BY <1>1, <2>2, <2>3, <2>4
  <2> QED
    BY <1>2, <2>1, <2>5
<1>6. ASSUME NEW e \in Execs, NEW s \in Nat, MarkProcessStarted(e, s)
      PROVE  LifecycleInv' /\ \A f \in Execs : OwnerEntryStep(f)
  <2>1. RunnerIndInv'
    BY <1>0, <1>6, StartPreserves
  <2>2. PICK z \in RunnerEntries : z = inbox[e]
    BY <1>1, <1>6 DEF MarkProcessStarted, Claimed
  <2>3. PICK y : y = [z EXCEPT !.state = "STARTED", !.started = s, !.updated = s]
    OBVIOUS
  <2>4. inbox' = [inbox EXCEPT ![e] = y] /\ spawned' = spawned
    BY <1>1, <1>6, <2>2, <2>3 DEF MarkProcessStarted, RunnerEntries
  <2>5. y.dispatch = z.dispatch /\ y.head = z.head /\ y.ack = z.ack /\ y.result = z.result
    BY <2>3 DEF RunnerEntries
  <2>6. z.state = "CLAIMED" /\ RunnerShape(z) /\ z # None /\ spawned[e] = 1
    BY <1>1, <1>6, <2>2 DEF MarkProcessStarted, EntrySound, Claimed, SpawnOnce
  <2>7. z.started = None /\ z.head = None /\ z.result = None
    BY <2>6 DEF RunnerShape
  <2>8. outbox[e] # None /\ outbox[e].dispatch = z.dispatch /\ outbox[e].ack = None
        /\ outbox[e].result = None
    BY <1>1, <2>2, <2>6, <2>7 DEF Agree
  <2>9. Agree(outbox[e], y, spawned[e])
    BY <2>5, <2>6, <2>7, <2>8 DEF Agree
  <2>10. \A f \in Execs : Agree(outbox[f], inbox'[f], spawned'[f])
    BY <1>1, <2>4, <2>9
  <2> QED
    BY <1>2, <2>1, <2>10
<1>7. ASSUME NEW a \in signed, RecordAck(a)
      PROVE  LifecycleInv' /\ \A f \in Execs : OwnerEntryStep(f)
  <2>1. RunnerIndInv'
    BY <1>0, <1>7, RecordAckPreserves
  <2>2. a \in Acks
    BY <1>0 DEF RunnerIndInv, RunnerTypeOK
  <2>3. PICK e \in Execs : e = a.dispatch.exec
    BY <2>2 DEF Acks, Dispatches
  <2>4. PICK z \in RunnerEntries : z = inbox[e]
    BY <1>1, <1>7, <2>3 DEF RecordAck, Claimed
  <2>5. PICK y : y = [z EXCEPT !.state = "ACKED", !.ack = a, !.updated = now]
    OBVIOUS
  <2>6. inbox' = [inbox EXCEPT ![e] = y] /\ spawned' = spawned
    BY <1>1, <1>7, <2>3, <2>4, <2>5 DEF RecordAck, RunnerEntries
  <2>7. y.dispatch = z.dispatch /\ y.started = z.started /\ y.head = z.head /\ y.result = z.result
    BY <2>5 DEF RunnerEntries
  <2>8. z.state = "STARTED" /\ RunnerShape(z) /\ z # None
    BY <1>1, <1>7, <2>3, <2>4 DEF RecordAck, EntrySound, Claimed
  <2>9. z.head = None /\ z.result = None
    BY <2>8 DEF RunnerShape
  <2>10. y # None
    <3>1. y \in RunnerEntries
      BY <2>2, <2>5, <1>0 DEF RunnerEntries, RunnerStates, RunnerIndInv, RunnerTypeOK
    <3> QED
      BY <3>1, NoneAssumption
  <2>11. Agree(outbox[e], y, spawned[e])
    BY <1>1, <2>4, <2>7, <2>8, <2>9, <2>10 DEF Agree
  <2>12. \A f \in Execs : Agree(outbox[f], inbox'[f], spawned'[f])
    BY <1>1, <2>6, <2>11
  <2> QED
    BY <1>2, <2>1, <2>12
<1>8. ASSUME NEW e \in Execs, NEW o \in Outcomes, RecordResult(e, o)
      PROVE  LifecycleInv' /\ \A f \in Execs : OwnerEntryStep(f)
  <2>1. RunnerIndInv' /\ \A f \in Execs : EntryStep(f)
    BY <1>0, <1>8, RecordResultPreserves
  <2>2. PICK z \in RunnerEntries : z = inbox[e]
    BY <1>1, <1>8 DEF RecordResult, Claimed
  <2>3. PICK r : r = [dispatch |-> z.dispatch, head |-> z.head, outcome |-> o,
                      started |-> z.started, ended |-> now]
    OBVIOUS
  <2>4. PICK y : y = [z EXCEPT !.state = TerminalEntryState(r), !.result = r, !.updated = now]
    OBVIOUS
  <2>5. inbox' = [inbox EXCEPT ![e] = y] /\ spawned' = spawned
    BY <1>1, <1>8, <2>2, <2>3, <2>4 DEF RecordResult, RunnerEntries
  <2>6. y.dispatch = z.dispatch /\ y.started = z.started /\ y.head = z.head /\ y.ack = z.ack
    BY <2>4 DEF RunnerEntries
  <2>7. z.state = "ACKED" /\ RunnerShape(z) /\ z # None
    BY <1>1, <1>8, <2>2 DEF RecordResult, EntrySound, Claimed
  <2>8. z.result = None
    BY <2>7 DEF RunnerShape
  <2>9. y # None
    <3>1. r \in Results
      BY <1>0, <1>8, <2>2, <2>3, <2>7
         DEF Results, RunnerEntries, RunnerShape, RecordResult, RunnerIndInv, RunnerTypeOK
    <3>2. y \in RunnerEntries
      BY <1>0, <2>4, <3>1
         DEF RunnerEntries, RunnerStates, TerminalEntryState, RunnerIndInv, RunnerTypeOK
    <3> QED
      BY <3>2, NoneAssumption
  <2>10. outbox[e] # None => outbox[e].result = None
    <3>1. z.result # None \/ outbox[e] = None \/ outbox[e].result = None
      BY <1>1, <2>2 DEF Agree
    <3> QED
      BY <2>8, <3>1
  <2>11. Agree(outbox[e], y, spawned[e])
    BY <1>1, <2>2, <2>6, <2>7, <2>9, <2>10 DEF Agree
  <2>12. \A f \in Execs : Agree(outbox[f], inbox'[f], spawned'[f])
    BY <1>1, <2>5, <2>11
  <2> QED
    BY <1>2, <2>1, <2>12
<1>9. ASSUME (\E e \in Execs : SignAck(e)) \/ RunnerCrash \/ RunnerCrashTorn \/ RunnerOpen \/ Tick
      PROVE  LifecycleInv' /\ \A f \in Execs : OwnerEntryStep(f)
  <2>1. RunnerIndInv'
    BY <1>0, <1>9, OtherPreserves
  <2>2. inbox' = inbox /\ spawned' = spawned
    BY <1>9 DEF SignAck, RunnerCrash, RunnerCrashTorn, RunnerOpen, Tick
  <2> QED
    BY <1>1, <1>2, <2>1, <2>2
<1>10. ASSUME DriverStep
       PROVE  LifecycleInv' /\ \A f \in Execs : OwnerEntryStep(f)
  <2>1. ASSUME NEW e \in Execs, NEW s \in 0..MaxTime, MarkProcessStarted(e, s)
        PROVE  LifecycleInv' /\ \A f \in Execs : OwnerEntryStep(f)
    BY <1>6, <2>1, MaxTimeAssumption
  <2>2. CASE \E e \in Execs : Spawn(e)
    BY <1>5, <2>2
  <2>3. CASE \E a \in signed : RecordAck(a)
    BY <1>7, <2>3
  <2>4. CASE \E e \in Execs, outcome \in Outcomes : RecordResult(e, outcome)
    BY <1>8, <2>4
  <2>5. CASE (\E e \in Execs : SignAck(e)) \/ RunnerCrash \/ RunnerCrashTorn \/ RunnerOpen
    BY <1>9, <2>5
  <2> QED
    BY <1>10, <2>1, <2>2, <2>3, <2>4, <2>5 DEF DriverStep
<1> QED
  BY <1>0, <1>3, <1>4, <1>9, <1>10 DEF RunnerStep

-----------------------------------------------------------------------------
(* The invariant. *)

\* The empty service satisfies the invariant.
LEMMA LifecycleInit == Init => LifecycleInv
<1> SUFFICES ASSUME Init PROVE LifecycleInv
    OBVIOUS
<1>1. RunnerIndInv
  BY RunnerInitInv DEF Init
<1>2. letters \in [Missions -> Seq(Letters)] /\ \A m \in Missions : letters[m] = <<>>
  <2>1. <<>> \in Seq(Letters)
    OBVIOUS
  <2> QED
    BY <2>1 DEF Init, OwnerInit
<1>3. \A m \in Missions : Len(letters[m]) = 0 /\ Places(m) = {}
  BY <1>2 DEF Places
<1>4. /\ outbox \in [Execs -> OwnerEntries \cup {None}] /\ outboxTorn \in BOOLEAN
      /\ \A e \in Execs : outbox[e] = None /\ inbox[e] = None
  BY DEF Init, OwnerInit, RunnerInit
<1>5. \A e \in Execs : OutboxSound(e) /\ JournalsAgree(e)
  BY <1>4 DEF OutboxSound, JournalsAgree, Agree
<1>6. ExecOnce
  BY <1>3 DEF ExecOnce
<1>7. CoreInv
  BY <1>1, <1>2, <1>3, <1>4, <1>5, <1>6, MaxLettersAssumption DEF CoreInv
<1>8. job = Idle
  BY DEF Init, OwnerInit
<1>9. job \in Jobs /\ job.pc = "idle"
  BY <1>8 DEF Idle, Jobs
<1> QED
  BY <1>7, <1>9 DEF LifecycleInv, JobSound

\* A request.
LEMMA RequestKeeps ==
    ASSUME LifecycleInv, Request
    PROVE  LifecycleInv' /\ \A f \in Execs : OwnerEntryStep(f)
<1>1. PICK t \in Samples :
        \/ \E d \in Offers, r \in TransitionRules : RequestDispatch(d, r, t)
        \/ \E m \in Missions, r \in TransitionRules, p \in Packets : RequestTransition(m, r, p, t)
        \/ \E a \in signed : RequestStarted(a, t)
        \/ \E e \in Execs : inbox[e] # None /\ RequestTerminal(e, t)
        \/ \E m \in Missions, i \in 1..MaxLetters : ReplayRequest(m, i, t)
  BY DEF Request
<1>2. t \in Nat
  BY MaxTimeAssumption DEF Samples
<1>3. CASE \E d \in Offers, r \in TransitionRules : RequestDispatch(d, r, t)
  BY <1>2, <1>3, OffersAssumption, DispatchKeeps
<1>4. CASE \E m \in Missions, r \in TransitionRules, p \in Packets : RequestTransition(m, r, p, t)
  BY <1>2, <1>4, TransitionKeeps
<1>5. CASE \E a \in signed : RequestStarted(a, t)
  BY <1>2, <1>5, StartedKeeps
<1>6. CASE \E e \in Execs : inbox[e] # None /\ RequestTerminal(e, t)
  BY <1>2, <1>6, TerminalKeeps
<1>7. CASE \E m \in Missions, i \in 1..MaxLetters : ReplayRequest(m, i, t)
  BY <1>2, <1>7, ReplayKeeps
<1> QED
  BY <1>1, <1>3, <1>4, <1>5, <1>6, <1>7

\* Every step preserves the invariant and moves every outbox entry legally.
LEMMA LifecycleNext ==
    ASSUME LifecycleInv, [Next]_vars
    PROVE  LifecycleInv' /\ \A f \in Execs : OwnerEntryStep(f)
<1>1. CASE Open \/ Abandon \/ OwnerTornAppend
  BY <1>1, QuietKeeps
<1>2. CASE Repair
  <2>1. CASE \E m \in Missions, i \in 1..MaxLetters :
                RepairRegister(m, i) \/ RepairMarkExecuting(m, i) \/ RepairMarkResult(m, i)
    BY <2>1, RepairKeeps
  <2>2. CASE RepairDone
    BY <2>2, RepairDoneKeeps
  <2> QED
    BY <1>2, <2>1, <2>2 DEF Repair
<1>3. CASE Request
  BY <1>3, RequestKeeps
<1>4. CASE PersistLetter
  BY <1>4, PersistKeeps
<1>5. CASE Finalize
  BY <1>5, FinalizeKeeps
<1>6. CASE RunnerStep
  BY <1>6, RunnerStepKeeps
<1>7. CASE UNCHANGED vars
  <2>1. /\ job' = job /\ letters' = letters /\ outbox' = outbox /\ outboxTorn' = outboxTorn
        /\ UNCHANGED runnerVars
    BY <1>7 DEF vars, ownerVars
  <2>2. CoreInv' /\ \A f \in Execs : OwnerEntryStep(f)
    BY <2>1, KeepCore DEF LifecycleInv, CoreInv
  <2>3. JobSound'
    BY <2>1, JobFrame DEF LifecycleInv
  <2> QED
    BY <2>1, <2>2, <2>3 DEF LifecycleInv
<1> QED
  BY <1>1, <1>2, <1>3, <1>4, <1>5, <1>6, <1>7 DEF Next, OwnerStep

(***************************************************************************)
(* Letters, outbox and inbox tell one story in every reachable state.      *)
(***************************************************************************)
THEOREM LifecycleInvariant == Spec => []LifecycleInv
<1>1. Init => LifecycleInv
  BY LifecycleInit
<1>2. LifecycleInv /\ [Next]_vars => LifecycleInv'
  BY LifecycleNext
<1> QED
  BY <1>1, <1>2, PTL DEF Spec

(***************************************************************************)
(* Type correctness of the owner and the runner.                           *)
(***************************************************************************)
THEOREM ServiceTypes == Spec => []TypeOK
<1>1. LifecycleInv => TypeOK
  BY DEF LifecycleInv, CoreInv, RunnerIndInv, Jobs, TypeOK
<1> QED
  BY <1>1, LifecycleInvariant, PTL

\* A named letter as a place.
LEMMA NamedLetter ==
    ASSUME CoreInv, NEW s, NEW h \in LettersIn(s)
    PROVE  /\ h[1] \in Missions /\ h[2] \in Places(h[1]) /\ letters[h[1]][h[2]].state = s
           /\ h = <<h[1], h[2]>>
<1>1. h[1] \in Missions /\ h[2] \in 1..MaxLetters /\ h = <<h[1], h[2]>>
  BY DEF LettersIn
<1>2. h[2] <= Len(letters[h[1]]) /\ letters[h[1]][h[2]].state = s
  BY DEF LettersIn
<1> QED
  BY <1>1, <1>2, LetterInPlace

(***************************************************************************)
(* A mission says EXECUTING only about a process that exists: every crash  *)
(* between the runner's journal, the outbox and the state file leaves an   *)
(* EXECUTING letter with its ACK at the owner, its start at the runner and *)
(* exactly one process.                                                    *)
(***************************************************************************)
THEOREM ExecutingAlwaysReal == Spec => []ExecutingIsReal
<1>1. LifecycleInv => ExecutingIsReal
  <2> SUFFICES ASSUME CoreInv, NEW h \in LettersIn("executing")
               PROVE  LET l == letters[h[1]][h[2]]
                          e == l.dispatch.exec
                      IN  /\ outbox[e] # None /\ outbox[e].ack = l.ack
                          /\ outbox[e].dispatch = l.dispatch
                          /\ inbox[e] # None /\ inbox[e].dispatch = l.dispatch
                          /\ inbox[e].started # None /\ inbox[e].started <= l.ack.at
                          /\ spawned[e] = 1
      BY DEF LifecycleInv, ExecutingIsReal
  <2>1. PICK m \in Missions : m = h[1]
    BY NamedLetter
  <2>2. PICK i \in Places(m) : i = h[2]
    BY <2>1, NamedLetter
  <2>3. PICK l \in Letters : l = letters[m][i]
    BY LetterTyped
  <2>4. l.state = "executing"
    BY <2>1, <2>2, <2>3, NamedLetter
  <2>5. PICK x \in OwnerEntries : x = outbox[l.dispatch.exec]
    BY <2>3, <2>4, ExecutingLocated
  <2>6. x.dispatch = l.dispatch /\ x.ack = l.ack /\ l.ack # None /\ x # None /\ l.dispatch \in Dispatches
    BY <2>3, <2>4, <2>5, ExecutingLocated, NoneAssumption
  <2>7. PICK e \in Execs : e = l.dispatch.exec
    BY <2>6 DEF Dispatches
  <2>8. Agree(x, inbox[e], spawned[e])
    BY <2>5, <2>7 DEF CoreInv, JournalsAgree
  <2>9. /\ inbox[e] # None /\ inbox[e].dispatch = l.dispatch
        /\ inbox[e].started # None /\ inbox[e].started <= l.ack.at
        /\ spawned[e] = 1
    BY <2>6, <2>8 DEF Agree
  <2> QED
    BY <2>1, <2>2, <2>3, <2>5, <2>6, <2>7, <2>9
<1> QED
  BY <1>1, LifecycleInvariant, PTL

(***************************************************************************)
(* The outbox never runs ahead of the letters: mark_executing_transition   *)
(* and mark_result_transition_applied name letters that were persisted.    *)
(***************************************************************************)
THEOREM OutboxAlwaysNamesLetters == Spec => []OutboxNamesLetters
<1>1. LifecycleInv => OutboxNamesLetters
  <2> SUFFICES ASSUME CoreInv, NEW e \in Execs, outbox[e] # None
               PROVE  LET x == outbox[e]
                          m == x.dispatch.head.mission
                      IN  /\ x.head # None =>
                               /\ <<m, x.head.seq>> \in LettersIn("executing")
                               /\ x.head = HeadId(m, x.head.seq)
                               /\ letters[m][x.head.seq].ack = x.ack
                          /\ x.settled # None =>
                               /\ x.settled \in 1..Len(letters[m])
                               /\ letters[m][x.settled].source = "result"
                               /\ letters[m][x.settled].result = x.result
      BY DEF LifecycleInv, OutboxNamesLetters
  <2>1. PICK x \in OwnerEntries : x = outbox[e]
    BY DEF CoreInv
  <2>2. Backed(x)
    BY <2>1 DEF CoreInv, OutboxSound
  <2>3. PICK m \in Missions : m = x.dispatch.head.mission
    BY DEF OwnerEntries, Dispatches, MissionHeads
  <2>4. ASSUME x.head # None
        PROVE  /\ <<m, x.head.seq>> \in LettersIn("executing")
               /\ x.head = HeadId(m, x.head.seq)
               /\ letters[m][x.head.seq].ack = x.ack
    <3>1. PICK i \in Places(m) : i = ExecutingAt(x.dispatch)
      BY <2>2, <2>3, <2>4 DEF Backed
    <3>2. letters[m][i].state = "executing" /\ letters[m][i].ack = x.ack /\ x.head = HeadId(m, i)
      BY <2>2, <2>3, <2>4, <3>1 DEF Backed
    <3>3. x.head.seq = i
      BY <3>2 DEF HeadId
    <3>4. <<m, i>> \in LettersIn("executing")
      BY <3>2, LetterTyped, PlaceInRange DEF LettersIn
    <3> QED
      BY <3>2, <3>3, <3>4
  <2>5. x.settled # None =>
           /\ x.settled \in 1..Len(letters[m])
           /\ letters[m][x.settled].source = "result"
           /\ letters[m][x.settled].result = x.result
    BY <2>2, <2>3 DEF Backed, Places
  <2> QED
    BY <2>1, <2>3, <2>4, <2>5
<1> QED
  BY <1>1, LifecycleInvariant, PTL

(***************************************************************************)
(* Owner and runner agree on every finished execution, whichever of the    *)
(* ACKs the runner signed was delivered first.                             *)
(***************************************************************************)
THEOREM ResultsAgree == Spec => []ResultAgreement
<1>1. LifecycleInv => ResultAgreement
  BY DEF LifecycleInv, CoreInv, JournalsAgree, Agree, ResultAgreement
<1> QED
  BY <1>1, LifecycleInvariant, PTL

(***************************************************************************)
(* A mission waits to be merged only on an execution that succeeded under  *)
(* an EXECUTING letter of the same mission, iteration and packet.          *)
(***************************************************************************)
THEOREM MergeWaitAlwaysEarned == Spec => []MergeWaitEarned
<1>1. LifecycleInv => MergeWaitEarned
  <2> SUFFICES ASSUME CoreInv, NEW h \in LettersIn("merge_wait")
               PROVE  LET l == letters[h[1]][h[2]]
                          x == outbox[l.dispatch.exec]
                      IN  /\ l.result # None /\ l.result.outcome = "succeeded"
                          /\ l.result.dispatch = l.dispatch
                          /\ x # None /\ x.state = "COMPLETED" /\ x.result = l.result
                          /\ <<h[1], l.result.head.seq>> \in LettersIn("executing")
                          /\ l.result.head.seq < h[2]
                          /\ l.result.head = HeadId(h[1], l.result.head.seq)
                          /\ l.iteration = l.result.head.iteration
                          /\ l.packet = l.result.head.packet
      BY DEF LifecycleInv, MergeWaitEarned
  <2>1. PICK m \in Missions : m = h[1]
    BY NamedLetter
  <2>2. PICK i \in Places(m) : i = h[2]
    BY <2>1, NamedLetter
  <2>3. PICK l \in Letters : l = letters[m][i]
    BY LetterTyped
  <2>4. l.state = "merge_wait" /\ Earned(l, m, i)
    BY <2>1, <2>2, <2>3, NamedLetter DEF CoreInv, LetterSound, Fits
  <2>5. PICK k : k = l.result.head.seq
    OBVIOUS
  <2>6. /\ l.result \in Results /\ l.result.outcome = "succeeded" /\ l.result.dispatch = l.dispatch
        /\ outbox[l.dispatch.exec] # None /\ outbox[l.dispatch.exec].result = l.result
        /\ k \in 1..(i - 1) /\ k <= Len(letters[m]) /\ letters[m][k].state = "executing"
        /\ l.result.head = HeadId(m, k)
        /\ l.iteration = l.result.head.iteration /\ l.packet = l.result.head.packet
    BY <2>4, <2>5 DEF Earned
  <2>7. i \in Nat /\ i >= 1 /\ i <= Len(letters[m]) /\ Len(letters[m]) \in Nat
    BY LetterTyped, HasHeadFacts
  <2>8. k \in Places(m) /\ k < i
    BY <2>6, <2>7 DEF Places
  <2>9. <<m, k>> \in LettersIn("executing")
    BY <2>6, <2>8, PlaceInRange DEF LettersIn
  <2>10. l.dispatch.exec \in Execs /\ l.result # None
    BY <2>6, NoneAssumption DEF Results, Dispatches
  <2>11. PICK x \in OwnerEntries : x = outbox[l.dispatch.exec]
    BY <2>6, <2>10 DEF CoreInv
  <2>12. OwnerShape(x) /\ x.result = l.result
    BY <2>6, <2>10, <2>11 DEF CoreInv, OutboxSound
  <2>13. x.state = "COMPLETED"
    BY <2>6, <2>10, <2>12 DEF OwnerShape, OwnerEntries, OwnerStates, TerminalEntryState
  <2> QED
    BY <2>1, <2>2, <2>3, <2>5, <2>6, <2>8, <2>9, <2>10, <2>11, <2>13
<1> QED
  BY <1>1, LifecycleInvariant, PTL

(***************************************************************************)
(* A service that has opened serves from a repaired outbox: open_internal  *)
(* returns only after repair_execution_lifecycle_from_letters has nothing  *)
(* left to do, and then every lifecycle letter is in the outbox.           *)
(***************************************************************************)
THEOREM AlwaysServesRepaired == Spec => []ServesRepaired
<1>1. LifecycleInv => ServesRepaired
  <2> SUFFICES ASSUME CoreInv, JobSound, job.pc \in {"serve", "replay"}, NEW h \in LifecycleLetters
               PROVE  Reflected(h[1], h[2])
      BY DEF LifecycleInv, ServesRepaired
  <2>1. /\ h[1] \in Missions /\ h[2] \in 1..MaxLetters /\ h[2] <= Len(letters[h[1]])
        /\ InLifecycle(letters[h[1]][h[2]])
    BY DEF LifecycleLetters
  <2>2. h[2] \in Places(h[1])
    BY <2>1, LetterInPlace
  <2> QED
    BY <2>1, <2>2 DEF JobSound
<1> QED
  BY <1>1, LifecycleInvariant, PTL

(***************************************************************************)
(* An execution id, and a packet of a head, is bound to one DISPATCHING    *)
(* letter: preflight_intent refuses the second although the outbox learns  *)
(* of a dispatch only after its letter is durable.                         *)
(***************************************************************************)
THEOREM ExecutionsBoundOnce == Spec => []ExecutionBoundOnce
<1>1. LifecycleInv => ExecutionBoundOnce
  <2> SUFFICES ASSUME CoreInv, NEW g \in LettersIn("dispatching"), NEW h \in LettersIn("dispatching"),
                      \/ letters[g[1]][g[2]].dispatch.exec = letters[h[1]][h[2]].dispatch.exec
                      \/ SamePacketBinding(letters[g[1]][g[2]].dispatch, letters[h[1]][h[2]].dispatch)
               PROVE  g = h
      BY DEF LifecycleInv, ExecutionBoundOnce
  <2>1. /\ g[1] \in Missions /\ g[2] \in Places(g[1]) /\ letters[g[1]][g[2]].state = "dispatching"
        /\ h[1] \in Missions /\ h[2] \in Places(h[1]) /\ letters[h[1]][h[2]].state = "dispatching"
        /\ g = <<g[1], g[2]>> /\ h = <<h[1], h[2]>>
    BY NamedLetter
  <2>2. CASE letters[g[1]][g[2]].dispatch.exec = letters[h[1]][h[2]].dispatch.exec
    BY <2>1, <2>2 DEF CoreInv, ExecOnce
  <2>3. CASE SamePacketBinding(letters[g[1]][g[2]].dispatch, letters[h[1]][h[2]].dispatch)
    <3>1. /\ letters[g[1]][g[2]].dispatch.head.mission = g[1]
          /\ DispatchedAt(letters[g[1]][g[2]].dispatch) = g[2]
          /\ letters[h[1]][h[2]].dispatch.head.mission = h[1]
          /\ DispatchedAt(letters[h[1]][h[2]].dispatch) = h[2]
      <4>1. /\ letters[g[1]][g[2]].dispatch.head.mission = g[1]
            /\ DispatchedAt(letters[g[1]][g[2]].dispatch) = g[2]
        <5>1. PICK m \in Missions : m = g[1]
          BY <2>1
        <5>2. PICK i \in Places(m) : i = g[2]
          BY <2>1, <5>1
        <5>3. letters[m][i].state = "dispatching"
          BY <2>1, <5>1, <5>2
        <5>4. letters[m][i].dispatch.head.mission = m /\ DispatchedAt(letters[m][i].dispatch) = i
          BY <5>3, DispatchingLocated
        <5> QED
          BY <5>1, <5>2, <5>4
      <4>2. /\ letters[h[1]][h[2]].dispatch.head.mission = h[1]
            /\ DispatchedAt(letters[h[1]][h[2]].dispatch) = h[2]
        <5>1. PICK m \in Missions : m = h[1]
          BY <2>1
        <5>2. PICK i \in Places(m) : i = h[2]
          BY <2>1, <5>1
        <5>3. letters[m][i].state = "dispatching"
          BY <2>1, <5>1, <5>2
        <5>4. letters[m][i].dispatch.head.mission = m /\ DispatchedAt(letters[m][i].dispatch) = i
          BY <5>3, DispatchingLocated
        <5> QED
          BY <5>1, <5>2, <5>4
      <4> QED
        BY <4>1, <4>2
    <3> QED
      BY <2>1, <2>3, <3>1 DEF SamePacketBinding, DispatchedAt
  <2> QED
    BY <2>2, <2>3
<1> QED
  BY <1>1, LifecycleInvariant, PTL

(***************************************************************************)
(* OwnerExecutionOutbox::open never rejects what the outbox wrote.         *)
(***************************************************************************)
THEOREM OutboxAlwaysReplayable == Spec => []OutboxReplayable
<1>1. LifecycleInv => OutboxReplayable
  <2> SUFFICES ASSUME CoreInv, NEW e \in Execs, outbox[e] # None
               PROVE  /\ outbox[e].dispatch.exec = e
                      /\ OwnerShape(outbox[e])
                      /\ ~Collides([outbox EXCEPT ![e] = None], outbox[e].dispatch)
      BY DEF LifecycleInv, OutboxReplayable
  <2>1. outbox[e].dispatch.exec = e /\ OwnerShape(outbox[e]) /\ Backed(outbox[e])
    BY DEF CoreInv, OutboxSound
  <2>2. ASSUME NEW f \in Execs, [outbox EXCEPT ![e] = None][f] # None
        PROVE  /\ [outbox EXCEPT ![e] = None][f] = outbox[f] /\ f # e /\ outbox[f] # None
    BY <2>2 DEF CoreInv
  <2>3. ASSUME NEW f \in Execs, f # e, outbox[f] # None
        PROVE  /\ outbox[f].dispatch.exec # e
               /\ ~SamePacketBinding(outbox[f].dispatch, outbox[e].dispatch)
    <3>1. outbox[f].dispatch.exec = f /\ Backed(outbox[f])
      BY <2>3 DEF CoreInv, OutboxSound
    <3> SUFFICES ASSUME SamePacketBinding(outbox[f].dispatch, outbox[e].dispatch) PROVE FALSE
        BY <2>3, <3>1
    <3>2. outbox[f].dispatch = outbox[e].dispatch
      BY <2>1, <3>1 DEF Backed, SamePacketBinding, DispatchedAt
    <3> QED
      BY <2>1, <2>3, <3>1, <3>2
  <2>4. ~Collides([outbox EXCEPT ![e] = None], outbox[e].dispatch)
    BY <2>1, <2>2, <2>3 DEF Collides
  <2> QED
    BY <2>1, <2>4
<1> QED
  BY <1>1, LifecycleInvariant, PTL

(***************************************************************************)
(* Evidence in the outbox is final: every step makes only the deltas that  *)
(* validate_owner_transition accepts.                                      *)
(***************************************************************************)
THEOREM OutboxEvidenceFinal == Spec => OutboxStepsLegal
<1>1. LifecycleInv /\ [Next]_vars
        => [\A e \in Execs : \/ outbox'[e] = outbox[e]
                             \/ outbox[e] = None /\ outbox'[e].state = "INTENT"
                             \/ outbox[e] # None /\ OwnerDelta(outbox[e], outbox'[e])]_vars
  BY LifecycleNext DEF OwnerEntryStep
<1> QED
  BY <1>1, LifecycleInvariant, PTL DEF Spec, OutboxStepsLegal

\* What the steps around a retry change.
LEMMA ReplayStep ==
    ASSUME LifecycleInv, [Next]_vars, (job.pc = "replay" /\ job' = Idle) \/ job'.pc = "replay"
    PROVE  UNCHANGED <<letters, outbox>>
<1>1. job' = Idle => job'.pc # "replay"
  BY DEF Idle
<1>2. CASE Open \/ Abandon \/ OwnerTornAppend
  BY <1>2 DEF Open, Abandon, OwnerTornAppend
<1>3. CASE Repair
  <2>1. job.pc = "repair"
    BY <1>3 DEF Repair, RepairRegister, RepairMarkExecuting, RepairMarkResult, RepairDone
  <2>2. job' = job \/ job' = [Idle EXCEPT !.pc = "serve"]
    BY <1>3 DEF Repair, RepairRegister, RepairMarkExecuting, RepairMarkResult, RepairDone
  <2> QED
    BY <1>1, <2>1, <2>2 DEF Idle
<1>4. CASE Request
  <2>1. PICK t \in Samples :
        \/ \E d \in Offers, r \in TransitionRules : RequestDispatch(d, r, t)
        \/ \E m \in Missions, r \in TransitionRules, p \in Packets : RequestTransition(m, r, p, t)
        \/ \E a \in signed : RequestStarted(a, t)
        \/ \E e \in Execs : inbox[e] # None /\ RequestTerminal(e, t)
        \/ \E m \in Missions, i \in 1..MaxLetters : ReplayRequest(m, i, t)
    BY <1>4 DEF Request
  <2>2. ASSUME NEW m \in Missions, NEW i \in 1..MaxLetters, ReplayRequest(m, i, t)
        PROVE  UNCHANGED <<letters, outbox>>
    <3>1. t \in Nat
      BY MaxTimeAssumption DEF Samples
    <3> QED
      BY <2>2, <3>1, ReplayKeeps DEF ReplayRequest
  <2>3. ASSUME NEW m, NEW n, NEW l, job' = Job("persist", m, n, l), job.pc = "serve" PROVE FALSE
    BY <1>1, <2>3 DEF Job
  <2>4. ASSUME NEW d \in Offers, NEW r \in TransitionRules, RequestDispatch(d, r, t) PROVE FALSE
    BY <2>3, <2>4 DEF RequestDispatch
  <2>5. ASSUME NEW m \in Missions, NEW r \in TransitionRules, NEW p \in Packets,
               RequestTransition(m, r, p, t)
        PROVE  FALSE
    BY <2>3, <2>5 DEF RequestTransition
  <2>6. ASSUME NEW a \in signed, RequestStarted(a, t) PROVE FALSE
    BY <2>3, <2>6 DEF RequestStarted
  <2>7. ASSUME NEW e \in Execs, RequestTerminal(e, t) PROVE FALSE
    BY <2>3, <2>7 DEF RequestTerminal
  <2> QED
    BY <2>1, <2>2, <2>4, <2>5, <2>6, <2>7
<1>5. CASE PersistLetter
  <2>1. job.pc = "persist"
    BY <1>5 DEF PersistLetter
  <2>2. job'.pc # "replay"
    <3>1. job' = [job EXCEPT !.pc = "finalize"] \/ job' = Idle
      BY <1>5 DEF PersistLetter
    <3> QED
      BY <1>1, <3>1 DEF LifecycleInv, Jobs
  <2> QED
    BY <2>1, <2>2
<1>6. CASE Finalize
  <2>1. job' = Idle /\ letters' = letters
    BY <1>6 DEF Finalize
  <2> QED
    BY <1>1, <1>6, <2>1, FinalizeKeeps
<1>7. CASE RunnerStep
  BY <1>7 DEF RunnerStep, ownerVars
<1>8. CASE UNCHANGED vars
  BY <1>8 DEF vars, ownerVars
<1> QED
  BY <1>2, <1>3, <1>4, <1>5, <1>6, <1>7, <1>8 DEF Next, OwnerStep

(***************************************************************************)
(* A retried request changes nothing durable, wherever the first attempt   *)
(* crashed.                                                                *)
(***************************************************************************)
THEOREM RetriesAreInert == Spec => ReplayIsInert
<1>1. LifecycleInv /\ [Next]_vars
        => [(job.pc = "replay" /\ job' = Idle) \/ job'.pc = "replay"
                => UNCHANGED <<letters, outbox>>]_vars
  BY ReplayStep
<1> QED
  BY <1>1, LifecycleInvariant, PTL DEF Spec, ReplayIsInert

-----------------------------------------------------------------------------
(* The service implements MissionChain, whose actions are used through the  *)
(* instance Chain.                                                          *)

chainOf == [m \in Missions |-> ChainOf(m)]

\* The instance's transition rules are the rules the service follows.
LEMMA SameRules ==
    /\ Chain!NoState = NoState
    /\ Chain!TransitionRules = TransitionRules
    /\ \A r, i : Chain!NextIteration(r, i) = NextIteration(r, i)
    /\ \A r, old, new : Chain!PacketAllowed(r, old, new) <=> PacketAllowed(r, old, new)
<1>1. Chain!NoState = NoState
  BY DEF Chain!NoState, NoState
<1>2. Chain!TransitionRules = TransitionRules
  BY DEF Chain!TransitionRules, TransitionRules, Chain!Rule, Rule, Chain!NoState, NoState
<1>3. \A r, i : Chain!NextIteration(r, i) = NextIteration(r, i)
  BY DEF Chain!NextIteration, NextIteration
<1>4. \A r, old, new : Chain!PacketAllowed(r, old, new) <=> PacketAllowed(r, old, new)
  BY DEF Chain!PacketAllowed, PacketAllowed
<1> QED
  BY <1>1, <1>2, <1>3, <1>4

\* Without letters every chain is MissionChain's initial one.
LEMMA ChainInitRefines == Init => Chain!ChainInit
<1> SUFFICES ASSUME Init PROVE Chain!ChainInit
    OBVIOUS
<1>1. \A m \in Missions : letters[m] = <<>>
  BY DEF Init, OwnerInit
<1>2. \A m \in Missions : ChainOf(m) = Chain!NoChain
  BY <1>1, SameRules DEF ChainOf, HasHead, Chain!NoChain, Chain!AnyPacket
<1> QED
  BY <1>2 DEF Chain!ChainInit

\* What the chain of a mission says.
LEMMA ChainFields ==
    ASSUME CoreInv, NEW m \in Missions
    PROVE  /\ ChainOf(m).state = HeadState(m) /\ ChainOf(m).iteration = HeadIteration(m)
           /\ ChainOf(m).seq = Len(letters[m])
           /\ HasHead(m) => ChainOf(m).packet = Head1(m).packet
<1>1. CASE HasHead(m)
  BY <1>1 DEF ChainOf, HeadState, HeadIteration
<1>2. CASE ~HasHead(m)
  <2>1. letters[m] = <<>> /\ Len(letters[m]) = 0
    BY <1>2 DEF HasHead
  <2> QED
    BY <1>2, <2>1 DEF ChainOf, HeadState, HeadIteration
<1> QED
  BY <1>1, <1>2

\* persist_state is MissionChain's Append1.
LEMMA PersistRefines ==
    ASSUME LifecycleInv, PersistLetter
    PROVE  Chain!ChainNext
<1>1. CoreInv /\ JobSound /\ job.pc = "persist" /\ letters \in [Missions -> Seq(Letters)]
  BY DEF LifecycleInv, CoreInv, PersistLetter
<1>2. PICK m \in Missions : m = job.mission
  BY <1>1 DEF JobSound
<1>3. PICK l \in Letters : l = job.letter
  BY <1>1 DEF JobSound
<1>4. PICK r \in TransitionRules :
         /\ HeadState(m) = r.from /\ l.state = r.to
         /\ l.iteration = NextIteration(r, HeadIteration(m))
         /\ HasHead(m) => PacketAllowed(r, Head1(m).packet, l.packet)
  BY <1>1, <1>2, <1>3 DEF JobSound, Follows
<1>5. PICK p \in Packets : p = l.packet
  BY DEF Letters
<1>6. /\ letters' = [letters EXCEPT ![m] = Append(letters[m], l)]
      /\ letters'[m] = Append(letters[m], l)
      /\ \A n \in Missions : n # m => letters'[n] = letters[n]
  BY <1>1, <1>2, <1>3 DEF PersistLetter
<1>7. /\ Len(letters'[m]) = Len(letters[m]) + 1 /\ letters'[m][Len(letters'[m])] = l
      /\ letters'[m] # <<>>
  <2>1. letters[m] \in Seq(Letters)
    BY <1>1
  <2> QED
    BY <1>6, <2>1
<1>8. ChainOf(m)' = [state |-> r.to, seq |-> Len(letters[m]) + 1,
                     iteration |-> NextIteration(r, HeadIteration(m)), packet |-> p]
  BY <1>4, <1>5, <1>7 DEF ChainOf, HasHead, Head1
<1>9. \A n \in Missions : n # m => ChainOf(n)' = ChainOf(n)
  BY <1>6 DEF ChainOf, HasHead, Head1
<1>10. ChainOf(m).state = r.from /\ ChainOf(m).iteration = HeadIteration(m)
       /\ ChainOf(m).seq = Len(letters[m])
  BY <1>1, <1>4, ChainFields
<1>11. PacketAllowed(r, ChainOf(m).packet, p)
  <2>1. CASE HasHead(m)
    BY <1>1, <1>4, <1>5, <2>1, ChainFields
  <2>2. CASE ~HasHead(m)
    <3>1. r.from = NoState
      BY <1>4, <2>2 DEF HeadState
    <3>2. r.iteration = "initialize"
      BY <3>1 DEF TransitionRules, Rule, NoState
    <3> QED
      BY <3>2 DEF PacketAllowed
  <2> QED
    BY <2>1, <2>2
<1>12. chainOf' = [chainOf EXCEPT ![m] =
                     [state     |-> r.to,
                      seq       |-> chainOf[m].seq + 1,
                      iteration |-> NextIteration(r, chainOf[m].iteration),
                      packet    |-> p]]
  <2>1. PICK c : c = [state |-> r.to, seq |-> Len(letters[m]) + 1,
                      iteration |-> NextIteration(r, HeadIteration(m)), packet |-> p]
    OBVIOUS
  <2>2. chainOf' = [chainOf EXCEPT ![m] = c]
    BY <1>8, <1>9, <2>1 DEF chainOf
  <2>3. chainOf[m] = ChainOf(m)
    BY DEF chainOf
  <2> QED
    BY <1>10, <2>1, <2>2, <2>3
<1>13. chainOf[m].state = r.from /\ PacketAllowed(r, chainOf[m].packet, p)
  BY <1>10, <1>11 DEF chainOf
<1>14. Chain!Append1(m, r, p)
  BY <1>12, <1>13, SameRules DEF Chain!Append1, chainOf
<1> QED
  BY <1>14, SameRules DEF Chain!ChainNext

\* Every step of the service is a step of MissionChain or leaves the chains alone.
LEMMA StepRefines ==
    ASSUME LifecycleInv, [Next]_vars
    PROVE  Chain!ChainNext \/ UNCHANGED [m \in Missions |-> ChainOf(m)]
<1>1. CASE PersistLetter
  BY <1>1, PersistRefines
<1>2. CASE UNCHANGED letters
  BY <1>2 DEF ChainOf, HasHead, Head1
<1>3. CASE Open \/ Abandon \/ OwnerTornAppend
  BY <1>2, <1>3 DEF Open, Abandon, OwnerTornAppend
<1>4. CASE Repair
  BY <1>2, <1>4 DEF Repair, RepairRegister, RepairMarkExecuting, RepairMarkResult, RepairDone
<1>5. CASE Request
  <2>1. UNCHANGED letters
    <3>1. PICK t \in Samples :
            \/ \E d \in Offers, r \in TransitionRules : RequestDispatch(d, r, t)
            \/ \E m \in Missions, r \in TransitionRules, p \in Packets : RequestTransition(m, r, p, t)
            \/ \E a \in signed : RequestStarted(a, t)
            \/ \E e \in Execs : inbox[e] # None /\ RequestTerminal(e, t)
            \/ \E m \in Missions, i \in 1..MaxLetters : ReplayRequest(m, i, t)
      BY <1>5 DEF Request
    <3>2. ASSUME NEW d, NEW r, RequestDispatch(d, r, t) PROVE UNCHANGED letters
      BY <3>2 DEF RequestDispatch
    <3>3. ASSUME NEW m, NEW r, NEW p, RequestTransition(m, r, p, t) PROVE UNCHANGED letters
      BY <3>3 DEF RequestTransition
    <3>4. ASSUME NEW a, RequestStarted(a, t) PROVE UNCHANGED letters
      BY <3>4 DEF RequestStarted
    <3>5. ASSUME NEW e, RequestTerminal(e, t) PROVE UNCHANGED letters
      BY <3>5 DEF RequestTerminal
    <3>6. ASSUME NEW m, NEW i, ReplayRequest(m, i, t) PROVE UNCHANGED letters
      BY <3>6 DEF ReplayRequest
    <3> QED
      BY <3>1, <3>2, <3>3, <3>4, <3>5, <3>6
  <2> QED
    BY <1>2, <2>1
<1>6. CASE Finalize
  BY <1>2, <1>6 DEF Finalize
<1>7. CASE RunnerStep \/ UNCHANGED vars
  BY <1>2, <1>7 DEF RunnerStep, vars, ownerVars
<1> QED
  BY <1>1, <1>3, <1>4, <1>5, <1>6, <1>7 DEF Next, OwnerStep

(***************************************************************************)
(* The service implements MissionChain: every behaviour, with its crashes, *)
(* retries, repairs and late deliveries, is a growth of mission chains     *)
(* along the transition rules.                                             *)
(***************************************************************************)
THEOREM ServiceImplementsChain == Spec => ImplementsChain
<1>1. Init => Chain!ChainInit
  BY ChainInitRefines
<1>2. LifecycleInv /\ [Next]_vars => [Chain!ChainNext]_([m \in Missions |-> ChainOf(m)])
  BY StepRefines
<1> QED
  BY <1>1, <1>2, LifecycleInvariant, PTL DEF Spec, ImplementsChain, Chain!ChainSpec

-----------------------------------------------------------------------------
(* What MissionChainProofs proves of every mission chain holds of the chains *)
(* the service's letters spell.  It is the same module under two names:      *)
(* Chain of the model, and ChainFacts with its theorems.                     *)

ChainFacts == INSTANCE MissionChainProofs WITH chain <- [m \in Missions |-> ChainOf(m)]

\* Both names have the same transition table.
LEMMA SameTable ==
    /\ Chain!NoState = ChainFacts!NoState
    /\ Chain!TransitionRules = ChainFacts!TransitionRules
<1>1. Chain!NoState = ChainFacts!NoState
  BY DEF Chain!NoState, ChainFacts!NoState
<1>2. Chain!TransitionRules = ChainFacts!TransitionRules
  BY DEF Chain!TransitionRules, ChainFacts!TransitionRules, Chain!Rule, ChainFacts!Rule,
         Chain!NoState, ChainFacts!NoState, Chain!TerminalStates, ChainFacts!TerminalStates
<1> QED
  BY <1>1, <1>2

\* So a behaviour of the service is one of the chains those theorems are about.
LEMMA ServiceIsChain == Spec => ChainFacts!ChainSpec
<1>1. Chain!ChainInit => ChainFacts!ChainInit
  BY SameTable DEF Chain!ChainInit, ChainFacts!ChainInit, Chain!NoChain, ChainFacts!NoChain,
                   Chain!AnyPacket, ChainFacts!AnyPacket
<1>2. Chain!ChainNext => ChainFacts!ChainNext
  BY SameTable DEF Chain!ChainNext, ChainFacts!ChainNext, Chain!Append1, ChainFacts!Append1,
                   Chain!PacketAllowed, ChainFacts!PacketAllowed,
                   Chain!NextIteration, ChainFacts!NextIteration
<1> QED
  BY <1>1, <1>2, ServiceImplementsChain, PTL
     DEF ImplementsChain, Chain!ChainSpec, ChainFacts!ChainSpec

(***************************************************************************)
(* The state file of the mission service, through every crash, retry and   *)
(* repair, keeps letters, state and iteration of a mission together as     *)
(* MissionTransitionIntentV1::validate maintains them.                     *)
(***************************************************************************)
THEOREM LettersKeepChainInv == Spec => []ChainInv
<1>1. ChainFacts!ChainInv => ChainInv
  BY SameTable DEF ChainInv, Chain!ChainInv, ChainFacts!ChainInv
<1> QED
  BY <1>1, ServiceIsChain, ChainFacts!ChainInvariant, PTL

(***************************************************************************)
(* The service never persists a letter after LANDED, FAILED or ARCHIVED.   *)
(***************************************************************************)
THEOREM EndedMissionsStay == Spec => TerminalFrozen
BY ServiceIsChain, ChainFacts!TerminalStaysFrozen, PTL
   DEF TerminalFrozen, Chain!TerminalFrozen, ChainFacts!TerminalFrozen,
       Chain!TerminalStates, ChainFacts!TerminalStates

(***************************************************************************)
(* Across every request of the service, packet and iteration of a mission  *)
(* change only together, and only when it leaves REVISING.                 *)
(***************************************************************************)
THEOREM LettersBindPacket == Spec => IterationBindsPacket
BY ServiceIsChain, ChainFacts!IterationKeepsPacket, PTL
   DEF IterationBindsPacket, Chain!IterationBindsPacket, ChainFacts!IterationBindsPacket

-----------------------------------------------------------------------------
(* Repair is never refused, if a request carries the clock at which it is   *)
(* served.  The outbox refuses a snapshot dated before the one it extends,  *)
(* and repair dates by the letter: the letter must not be older than the    *)
(* entry it still has to be written to.                                     *)

Timely(l) ==
    /\ l.at <= now
    /\ l.source = "ack" /\ outbox[l.dispatch.exec].head = None =>
          outbox[l.dispatch.exec].updated <= l.at
    /\ l.source = "result" /\ outbox[l.dispatch.exec].settled = None =>
          outbox[l.dispatch.exec].updated <= l.at

Timed ==
    /\ \A e \in Execs : outbox[e] # None => outbox[e].updated <= now
    /\ \A m \in Missions : \A i \in Places(m) : Timely(letters[m][i])
    /\ job.pc = "persist" => Timely(job.letter)

\* A letter stays timely: an entry that already holds its evidence is only extended
\* by marking it.
LEMMA TimelyKept ==
    ASSUME CoreInv, CoreInv', \A f \in Execs : OwnerEntryStep(f), now <= now', now' \in Nat,
           NEW l \in Letters, NEW p, NEW m \in Missions, NEW i \in Nat,
           Fits(l, p, m, i), Timely(l)
    PROVE  Timely(l)'
<1>1. l.at <= now'
  BY DEF CoreInv, RunnerIndInv, RunnerTypeOK, Timely, Letters
<1>2. PICK e : e = l.dispatch.exec
  OBVIOUS
<1>3. ASSUME l.source = "ack", outbox'[e].head = None PROVE outbox'[e].updated <= l.at
  <2>1. l.ack \in Acks /\ AckBinds(l.ack, l.dispatch) /\ outbox[e] # None /\ outbox[e].ack = l.ack
    BY <1>2, <1>3 DEF Fits, AckFits
  <2>2. e \in Execs /\ l.ack # None
    BY <1>2, <2>1, NoneAssumption DEF AckBinds, Acks, Dispatches
  <2>3. PICK x \in OwnerEntries : x = outbox[e]
    BY <2>1, <2>2 DEF CoreInv
  <2>4. PICK y : y = outbox'[e]
    OBVIOUS
  <2>5. CASE y = x
    BY <1>2, <1>3, <2>3, <2>4, <2>5 DEF Timely
  <2>6. CASE y # None /\ OwnerDelta(x, y)
    <3>1. OwnerShape(x)
      BY <2>1, <2>2, <2>3 DEF CoreInv, OutboxSound
    <3>2. OwnerShape(y)
      BY <2>2, <2>4, <2>6 DEF CoreInv, OutboxSound
    <3>3. y.head # None
      BY <2>1, <2>2, <2>3, <2>6, <3>1, <3>2 DEF OwnerDelta, OwnerShape
    <3> QED
      BY <1>3, <2>4, <3>3
  <2> QED
    BY <2>1, <2>2, <2>3, <2>4, <2>5, <2>6 DEF OwnerEntryStep
<1>4. ASSUME l.source = "result", outbox'[e].settled = None PROVE outbox'[e].updated <= l.at
  <2>1. /\ l.result \in Results /\ l.result.dispatch = l.dispatch
        /\ outbox[e] # None /\ outbox[e].result = l.result
    BY <1>2, <1>4 DEF Fits, ResultFits
  <2>2. e \in Execs /\ l.result # None
    BY <1>2, <2>1, NoneAssumption DEF Results, Dispatches
  <2>3. PICK x \in OwnerEntries : x = outbox[e]
    BY <2>1, <2>2 DEF CoreInv
  <2>4. PICK y : y = outbox'[e]
    OBVIOUS
  <2>5. OwnerShape(x)
    BY <2>1, <2>2, <2>3 DEF CoreInv, OutboxSound
  <2>6. CASE y = x
    BY <1>2, <1>4, <2>3, <2>4, <2>6 DEF Timely
  <2>7. CASE OwnerDelta(x, y)
    <3>1. y.settled # None
      BY <2>1, <2>2, <2>3, <2>5, <2>7 DEF OwnerDelta, OwnerShape
    <3> QED
      BY <1>4, <2>4, <3>1
  <2> QED
    BY <2>1, <2>2, <2>3, <2>4, <2>6, <2>7 DEF OwnerEntryStep
<1> QED
  BY <1>1, <1>2, <1>3, <1>4 DEF Timely

\* What record_ack writes is dated by its time argument.
LEMMA AckedAt ==
    ASSUME outbox \in [Execs -> OwnerEntries \cup {None}], NEW e \in Execs, NEW t, NEW a,
           outbox[e] \in OwnerEntries,
           outbox' = [outbox EXCEPT ![e] = AckRecorded(outbox[e], a, t)]
    PROVE  \A f \in Execs : outbox'[f] = outbox[f] \/ outbox'[f].updated = t
<1>1. PICK x \in OwnerEntries : x = outbox[e]
  OBVIOUS
<1>2. AckRecorded(x, a, t) = x \/ AckRecorded(x, a, t).updated = t
  BY DEF AckRecorded, OwnerEntries
<1> QED
  BY <1>1, <1>2

\* The same for record_result.
LEMMA RecordedAt ==
    ASSUME outbox \in [Execs -> OwnerEntries \cup {None}], NEW e \in Execs, NEW t, NEW r,
           outbox[e] \in OwnerEntries,
           outbox' = [outbox EXCEPT ![e] = ResultRecorded(outbox[e], r, t)]
    PROVE  \A f \in Execs : outbox'[f] = outbox[f] \/ outbox'[f].updated = t
<1>1. PICK x \in OwnerEntries : x = outbox[e]
  OBVIOUS
<1>2. ResultRecorded(x, r, t) = x \/ ResultRecorded(x, r, t).updated = t
  BY DEF ResultRecorded, OwnerEntries
<1> QED
  BY <1>1, <1>2

\* The same for mark_executing_transition.
LEMMA MarkedAt ==
    ASSUME outbox \in [Execs -> OwnerEntries \cup {None}], NEW e \in Execs, NEW t, NEW h,
           outbox[e] \in OwnerEntries,
           outbox' = [outbox EXCEPT ![e] = ExecutingMarked(outbox[e], h, t)]
    PROVE  \A f \in Execs : outbox'[f] = outbox[f] \/ outbox'[f].updated = t
<1>1. PICK x \in OwnerEntries : x = outbox[e]
  OBVIOUS
<1>2. ExecutingMarked(x, h, t) = x \/ ExecutingMarked(x, h, t).updated = t
  BY DEF ExecutingMarked, OwnerEntries
<1> QED
  BY <1>1, <1>2

\* The same for mark_result_transition_applied.
LEMMA SettledAt ==
    ASSUME outbox \in [Execs -> OwnerEntries \cup {None}], NEW e \in Execs, NEW t, NEW k,
           outbox[e] \in OwnerEntries,
           outbox' = [outbox EXCEPT ![e] = ResultMarked(outbox[e], k, t)]
    PROVE  \A f \in Execs : outbox'[f] = outbox[f] \/ outbox'[f].updated = t
<1>1. PICK x \in OwnerEntries : x = outbox[e]
  OBVIOUS
<1>2. ResultMarked(x, k, t) = x \/ ResultMarked(x, k, t).updated = t
  BY DEF ResultMarked, OwnerEntries
<1> QED
  BY <1>1, <1>2

\* register_intent likewise.
LEMMA RegisteredAt ==
    ASSUME outbox \in [Execs -> OwnerEntries \cup {None}], NEW d \in Dispatches, NEW t,
           outbox' = Registered(d, t)
    PROVE  \A f \in Execs : outbox'[f] = outbox[f] \/ outbox'[f].updated = t
BY DEF Registered, Dispatches

\* A step that adds no letter and dates what it writes by now at the latest.
LEMMA TimedFrame ==
    ASSUME LifecycleInv, CoreInv', Timed, \A f \in Execs : OwnerEntryStep(f),
           now <= now', now' \in Nat, UNCHANGED letters,
           \A f \in Execs : outbox'[f] = outbox[f] \/ outbox'[f].updated <= now',
           job'.pc = "persist" => job' = job \/ Timely(job.letter)'
    PROVE  Timed'
<1>0. CoreInv /\ JobSound /\ now \in Nat /\ outbox \in [Execs -> OwnerEntries \cup {None}]
  BY DEF LifecycleInv, CoreInv, RunnerIndInv, RunnerTypeOK
<1>1. ASSUME NEW e \in Execs, outbox'[e] # None PROVE outbox'[e].updated <= now'
  <2>1. CASE outbox'[e] = outbox[e]
    <3>1. outbox[e].updated <= now /\ outbox[e].updated \in Nat
      BY <1>0, <1>1, <2>1 DEF Timed, OwnerEntries
    <3> QED
      BY <1>0, <2>1, <3>1
  <2> QED
    BY <2>1
<1>2. ASSUME NEW m \in Missions, NEW i \in Places(m)' PROVE Timely(letters[m][i])'
  <2>1. i \in Places(m)
    BY DEF Places
  <2>2. PICK l \in Letters : l = letters[m][i]
    BY <1>0, <2>1, LetterTyped
  <2>3. PICK p : p = letters[m][i - 1]
    OBVIOUS
  <2>4. Fits(l, p, m, i) /\ Timely(l) /\ i \in Nat
    BY <1>0, <2>1, <2>2, <2>3, LetterTyped DEF CoreInv, LetterSound, Timed
  <2>5. Timely(l)'
    BY <1>0, <2>4, TimelyKept
  <2> QED
    BY <2>2, <2>5 DEF Timely
<1>3. ASSUME job'.pc = "persist" PROVE Timely(job.letter)'
  <2>1. CASE job' = job
    <3>1. PICK l \in Letters : l = job.letter
      BY <1>0, <1>3, <2>1 DEF JobSound
    <3>2. PICK m \in Missions : m = job.mission
      BY <1>0, <1>3, <2>1 DEF JobSound
    <3>3. PICK p : p = Head1(m)
      OBVIOUS
    <3>4. PICK i \in Nat : i = job.seq
      BY DEF LifecycleInv, Jobs
    <3>5. Fits(l, p, m, i) /\ Timely(l)
      BY <1>0, <1>3, <2>1, <3>1, <3>2, <3>3, <3>4 DEF JobSound, Timed
    <3>6. Timely(l)'
      BY <1>0, <3>5, TimelyKept
    <3> QED
      BY <2>1, <3>1, <3>6 DEF Timely
  <2> QED
    BY <1>3, <2>1
<1> QED
  BY <1>1, <1>2, <1>3 DEF Timed

\* persist_state adds a letter that was timely in the request's hands.
LEMMA TimedPersist ==
    ASSUME LifecycleInv, Timed, PersistLetter
    PROVE  Timed'
<1>0. /\ CoreInv /\ JobSound /\ job.pc = "persist" /\ outbox' = outbox /\ now' = now
      /\ letters \in [Missions -> Seq(Letters)] /\ job \in Jobs
  BY DEF LifecycleInv, CoreInv, PersistLetter, runnerVars
<1>1. job'.pc # "persist"
  <2>1. job' = [job EXCEPT !.pc = "finalize"] \/ job' = Idle
    BY DEF PersistLetter
  <2> QED
    BY <1>0, <2>1 DEF Jobs, Idle
<1>2. PICK m \in Missions : m = job.mission
  BY <1>0 DEF JobSound
<1>3. PICK l \in Letters : l = job.letter
  BY <1>0 DEF JobSound
<1>4. letters' = [letters EXCEPT ![m] = Append(letters[m], l)]
  BY <1>2, <1>3 DEF PersistLetter
<1>5. ASSUME NEW n \in Missions, NEW i \in Places(n)'
      PROVE  letters'[n][i] = l \/ (i \in Places(n) /\ letters'[n][i] = letters[n][i])
  <2>1. CASE n = m
    <3>1. letters[m] \in Seq(Letters) /\ letters'[n] = Append(letters[m], l)
      BY <1>0, <1>4, <2>1
    <3> QED
      BY <2>1, <3>1 DEF Places
  <2>2. CASE n # m
    BY <1>0, <1>4, <2>2 DEF Places
  <2> QED
    BY <2>1, <2>2
<1>6. ASSUME NEW n \in Missions, NEW i \in Places(n)' PROVE Timely(letters[n][i])'
  <2>1. PICK x : x = letters'[n][i]
    OBVIOUS
  <2>2. Timely(x)
    BY <1>0, <1>3, <1>5, <2>1 DEF Timed
  <2> QED
    BY <1>0, <2>1, <2>2 DEF Timely
<1> QED
  BY <1>0, <1>1, <1>6 DEF Timed

\* Before the first request there is nothing to date.
LEMMA TimedInit == Init => Timed
<1> SUFFICES ASSUME Init PROVE Timed
    OBVIOUS
<1>1. /\ letters = [m \in Missions |-> <<>>] /\ outbox = [e \in Execs |-> None] /\ job = Idle
  BY DEF Init, OwnerInit
<1>2. \A m \in Missions : Places(m) = {}
  BY <1>1 DEF Places
<1>3. job.pc # "persist"
  BY <1>1 DEF Idle
<1> QED
  BY <1>1, <1>2, <1>3 DEF Timed

\* A repair, or the end of a request, dates its append by the letter it rests on.
LEMMA TimedMark ==
    ASSUME LifecycleInv, Timed, CoreInv', \A f \in Execs : OwnerEntryStep(f), now' = now,
           UNCHANGED letters, job'.pc = "persist" => job' = job,
           NEW m \in Missions, NEW i \in Places(m), NEW l \in Letters, l = letters[m][i],
           \/ l.state = "dispatching" /\ outbox' = Registered(l.dispatch, l.at)
           \/ /\ l.source = "ack"
              /\ \E h : outbox' = [outbox EXCEPT ![l.dispatch.exec] =
                                     ExecutingMarked(outbox[l.dispatch.exec], h, l.at)]
           \/ /\ l.source = "result"
              /\ \E k : outbox' = [outbox EXCEPT ![l.dispatch.exec] =
                                     ResultMarked(outbox[l.dispatch.exec], k, l.at)]
    PROVE  Timed'
<1>0. /\ CoreInv /\ outbox \in [Execs -> OwnerEntries \cup {None}] /\ now \in Nat
      /\ l.at \in Nat /\ l.at <= now
  BY DEF LifecycleInv, CoreInv, RunnerIndInv, RunnerTypeOK, Timed, Timely, Letters
<1>1. \A f \in Execs : outbox'[f] = outbox[f] \/ outbox'[f].updated = l.at
  <2>1. CASE l.state = "dispatching" /\ outbox' = Registered(l.dispatch, l.at)
    <3>1. l.dispatch \in Dispatches
      BY <1>0, <2>1, DispatchingLocated
    <3> QED
      BY <1>0, <2>1, <3>1, RegisteredAt
  <2>2. CASE /\ l.source = "ack"
             /\ \E h : outbox' = [outbox EXCEPT ![l.dispatch.exec] =
                                    ExecutingMarked(outbox[l.dispatch.exec], h, l.at)]
    <3>1. l.dispatch \in Dispatches /\ outbox[l.dispatch.exec] \in OwnerEntries
      BY <1>0, <2>2, ExecutingLocated
    <3>2. PICK e \in Execs : e = l.dispatch.exec
      BY <3>1 DEF Dispatches
    <3>3. PICK t \in Nat : t = l.at
      BY <1>0
    <3>4. PICK h : outbox' = [outbox EXCEPT ![e] = ExecutingMarked(outbox[e], h, t)]
      BY <2>2, <3>2, <3>3
    <3>5. outbox \in [Execs -> OwnerEntries \cup {None}] /\ outbox[e] \in OwnerEntries
      BY <1>0, <3>1, <3>2
    <3>6. \A f \in Execs : outbox'[f] = outbox[f] \/ outbox'[f].updated = t
      BY <3>4, <3>5, MarkedAt
    <3> QED
      BY <3>3, <3>6
  <2>3. CASE /\ l.source = "result"
             /\ \E k : outbox' = [outbox EXCEPT ![l.dispatch.exec] =
                                    ResultMarked(outbox[l.dispatch.exec], k, l.at)]
    <3>1. l.dispatch \in Dispatches /\ outbox[l.dispatch.exec] \in OwnerEntries
      BY <1>0, <2>3, ResultLocated
    <3>2. PICK e \in Execs : e = l.dispatch.exec
      BY <3>1 DEF Dispatches
    <3>3. PICK t \in Nat : t = l.at
      BY <1>0
    <3>4. PICK k : outbox' = [outbox EXCEPT ![e] = ResultMarked(outbox[e], k, t)]
      BY <2>3, <3>2, <3>3
    <3>5. outbox \in [Execs -> OwnerEntries \cup {None}] /\ outbox[e] \in OwnerEntries
      BY <1>0, <3>1, <3>2
    <3>6. \A f \in Execs : outbox'[f] = outbox[f] \/ outbox'[f].updated = t
      BY <3>4, <3>5, SettledAt
    <3> QED
      BY <3>3, <3>6
  <2> QED
    BY <2>1, <2>2, <2>3
<1> QED
  BY <1>0, <1>1, TimedFrame

\* A request that writes nothing, or one entry at the time of the letter it builds.
LEMMA TimedRequest ==
    ASSUME LifecycleInv, Timed, LifecycleInv', \A f \in Execs : OwnerEntryStep(f), now' = now,
           UNCHANGED letters,
           \A f \in Execs : outbox'[f] = outbox[f] \/ outbox'[f].updated = now,
           NEW l, job'.letter = l, l.at = now,
           l.source \in {"ack", "result"} => l.dispatch.exec \in Execs /\ outbox'[l.dispatch.exec] # None
    PROVE  Timed'
<1>0. now \in Nat /\ CoreInv' /\ outbox' \in [Execs -> OwnerEntries \cup {None}]
  BY DEF LifecycleInv, CoreInv, RunnerIndInv, RunnerTypeOK
<1>1. \A f \in Execs : outbox'[f] # None => outbox'[f].updated <= now
  <2> SUFFICES ASSUME NEW f \in Execs, outbox'[f] # None PROVE outbox'[f].updated <= now
      OBVIOUS
  <2>1. CASE outbox'[f] = outbox[f]
    BY <2>1 DEF Timed
  <2>2. CASE outbox'[f].updated = now
    BY <1>0, <2>2
  <2> QED
    BY <2>1, <2>2
<1>2. Timely(job.letter)'
  BY <1>0, <1>1 DEF Timely
<1>3. \A f \in Execs : outbox'[f] = outbox[f] \/ outbox'[f].updated <= now'
  BY <1>0
<1> QED
  BY <1>0, <1>2, <1>3, TimedFrame

\* A request that carries the clock at which it is served.
LEMMA TimedServed ==
    ASSUME MaxLag = 0, LifecycleInv, Timed, Request, LifecycleInv',
           \A f \in Execs : OwnerEntryStep(f)
    PROVE  Timed'
<1>0. now \in Nat /\ CoreInv /\ outbox \in [Execs -> OwnerEntries \cup {None}]
  BY DEF LifecycleInv, CoreInv, RunnerIndInv, RunnerTypeOK
<1>1. PICK t \in Samples :
        \/ \E d \in Offers, r \in TransitionRules : RequestDispatch(d, r, t)
        \/ \E m \in Missions, r \in TransitionRules, p \in Packets : RequestTransition(m, r, p, t)
        \/ \E a \in signed : RequestStarted(a, t)
        \/ \E e \in Execs : inbox[e] # None /\ RequestTerminal(e, t)
        \/ \E m \in Missions, i \in 1..MaxLetters : ReplayRequest(m, i, t)
  BY DEF Request
<1>2. t = now
  BY <1>0, MaxTimeAssumption DEF Samples
<1>3. ASSUME NEW d \in Offers, NEW r \in TransitionRules, RequestDispatch(d, r, t) PROVE Timed'
  <2>1. /\ outbox' = outbox /\ letters' = letters /\ now' = now
        /\ r.to = "dispatching"
    BY <1>3 DEF RequestDispatch, runnerVars
  <2>2. job'.letter.at = t /\ job'.letter.source = r.source
    BY <1>3 DEF RequestDispatch, Job, Letter
  <2>3. r.source \notin {"ack", "result"}
    BY <2>1, RuleFacts
  <2> QED
    BY <1>2, <2>1, <2>2, <2>3, TimedRequest
<1>4. ASSUME NEW m \in Missions, NEW r \in TransitionRules, NEW p \in Packets,
             RequestTransition(m, r, p, t)
      PROVE  Timed'
  <2>1. /\ outbox' = outbox /\ letters' = letters /\ now' = now
        /\ r.source \in {"decision", "proposal", "review"}
    BY <1>4 DEF RequestTransition, runnerVars
  <2>2. job'.letter.at = t /\ job'.letter.source = r.source
    BY <1>4 DEF RequestTransition, Job, Letter
  <2> QED
    BY <1>2, <2>1, <2>2, TimedRequest
<1>5. ASSUME NEW a \in signed, RequestStarted(a, t) PROVE Timed'
  <2>1. a \in Acks
    BY <1>0 DEF CoreInv, RunnerIndInv, RunnerTypeOK
  <2>2. PICK e \in Execs : e = a.dispatch.exec
    BY <2>1 DEF Acks, Dispatches
  <2>3. PICK m \in Missions : m = a.dispatch.head.mission
    BY <2>1 DEF Acks, Dispatches, MissionHeads
  <2>4. /\ outbox' = [outbox EXCEPT ![e] = AckRecorded(outbox[e], a, t)]
        /\ letters' = letters /\ now' = now /\ outbox[e] # None
        /\ AckBinds(a, Head1(m).dispatch)
    BY <1>5, <2>2, <2>3 DEF RequestStarted, runnerVars
  <2>5. job'.letter.at = t /\ job'.letter.dispatch = Head1(m).dispatch
    BY <1>5, <2>3 DEF RequestStarted, Job, Letter
  <2>6. job'.letter.dispatch.exec = e
    BY <2>2, <2>4, <2>5 DEF AckBinds
  <2>7. outbox[e] \in OwnerEntries
    BY <1>0, <2>4
  <2>8. \A f \in Execs : outbox'[f] = outbox[f] \/ outbox'[f].updated = t
    BY <1>0, <2>4, <2>7, AckedAt
  <2>9. outbox'[e] # None
    <3>1. CASE outbox'[e] = outbox[e]
      BY <2>4, <3>1
    <3>2. CASE outbox'[e] # outbox[e]
      BY <2>7, <3>2, NoneAssumption DEF OwnerEntryStep
    <3> QED
      BY <3>1, <3>2
  <2> QED
    BY <1>2, <2>4, <2>5, <2>6, <2>8, <2>9, TimedRequest
<1>6. ASSUME NEW e \in Execs, inbox[e] # None, RequestTerminal(e, t) PROVE Timed'
  <2>1. PICK m : m = inbox[e].dispatch.head.mission
    OBVIOUS
  <2>2. /\ outbox' = [outbox EXCEPT ![e] = ResultRecorded(outbox[e], inbox[e].result, t)]
        /\ letters' = letters /\ now' = now /\ outbox[e] # None
        /\ outbox[e].dispatch = inbox[e].dispatch
        /\ Head1(m).dispatch = inbox[e].dispatch
    BY <1>6, <2>1 DEF RequestTerminal, runnerVars
  <2>3. job'.letter.at = t /\ job'.letter.dispatch = Head1(m).dispatch
    BY <1>6, <2>1 DEF RequestTerminal, Job, Letter
  <2>4. job'.letter.dispatch.exec = e
    BY <1>0, <2>2, <2>3 DEF CoreInv, OutboxSound
  <2>5. outbox[e] \in OwnerEntries
    BY <1>0, <2>2
  <2>6. \A f \in Execs : outbox'[f] = outbox[f] \/ outbox'[f].updated = t
    BY <1>0, <2>2, <2>5, RecordedAt
  <2>7. outbox'[e] # None
    <3>1. CASE outbox'[e] = outbox[e]
      BY <2>2, <3>1
    <3>2. CASE outbox'[e] # outbox[e]
      BY <2>5, <3>2, NoneAssumption DEF OwnerEntryStep
    <3> QED
      BY <3>1, <3>2
  <2> QED
    BY <1>2, <2>2, <2>3, <2>4, <2>6, <2>7, TimedRequest
<1>7. ASSUME NEW m \in Missions, NEW i \in 1..MaxLetters, ReplayRequest(m, i, t) PROVE Timed'
  <2>1. outbox' = outbox
    BY <1>0, <1>2, <1>7, ReplayKeeps
  <2>2. letters' = letters /\ now' = now /\ job'.pc = "replay"
    BY <1>7 DEF ReplayRequest, runnerVars, Job
  <2> QED
    BY <1>0, <2>1, <2>2, TimedFrame DEF LifecycleInv
<1> QED
  BY <1>1, <1>3, <1>4, <1>5, <1>6, <1>7

\* The clock only advances.
LEMMA ClockAdvances ==
    ASSUME now \in Nat, RunnerStep
    PROVE  now' \in Nat /\ now <= now'
<1>1. now' = now \/ now' = now + 1
  BY DEF RunnerStep, ClaimForSpawn, ObserveExecuting, DriverStep, Tick, Spawn, MarkProcessStarted,
         SignAck, RecordAck, RecordResult, RunnerCrash, RunnerCrashTorn, RunnerOpen
<1> QED
  BY <1>1

\* Every step keeps letters and entries timely.
LEMMA TimedNext ==
    ASSUME MaxLag = 0, LifecycleInv, Timed, [Next]_vars
    PROVE  Timed'
<1>0. /\ CoreInv /\ JobSound /\ job \in Jobs /\ now \in Nat
      /\ LifecycleInv' /\ CoreInv' /\ \A f \in Execs : OwnerEntryStep(f)
  BY LifecycleNext DEF LifecycleInv, CoreInv, RunnerIndInv, RunnerTypeOK
<1>1. CASE Open \/ Abandon \/ OwnerTornAppend
  <2>1. UNCHANGED <<letters, outbox>> /\ now' = now
    BY <1>1 DEF Open, Abandon, OwnerTornAppend, runnerVars
  <2>2. job'.pc # "persist"
    BY <1>1 DEF Open, Abandon, OwnerTornAppend, Idle
  <2> QED
    BY <1>0, <2>1, <2>2, TimedFrame
<1>2. CASE Repair
  <2>1. ASSUME NEW m \in Missions, NEW i \in 1..MaxLetters,
               RepairRegister(m, i) \/ RepairMarkExecuting(m, i) \/ RepairMarkResult(m, i)
        PROVE  Timed'
    <3>1. /\ UNCHANGED letters /\ now' = now /\ job' = job
          /\ i <= Len(letters[m])
      BY <2>1 DEF RepairRegister, RepairMarkExecuting, RepairMarkResult, Unregistered, Unmarked,
                  Unsettled, LettersIn, runnerVars
    <3>2. i \in Places(m)
      BY <1>0, <3>1, LetterInPlace
    <3>3. PICK l \in Letters : l = letters[m][i]
      BY <1>0, <3>2, LetterTyped
    <3>4. ASSUME RepairRegister(m, i)
          PROVE  l.state = "dispatching" /\ outbox' = Registered(l.dispatch, l.at)
      BY <3>3, <3>4 DEF RepairRegister, Unregistered, LettersIn
    <3>5. ASSUME RepairMarkExecuting(m, i)
          PROVE  /\ l.source = "ack"
                 /\ \E h : outbox' = [outbox EXCEPT ![l.dispatch.exec] =
                                        ExecutingMarked(outbox[l.dispatch.exec], h, l.at)]
      <4>1. l.state = "executing"
        BY <3>3, <3>5 DEF RepairMarkExecuting, Unmarked, LettersIn
      <4>2. l.source = "ack"
        BY <1>0, <3>2, <3>3, <4>1, ExecutingLocated
      <4>3. PICK h : h = HeadId(m, i)
        OBVIOUS
      <4>4. outbox' = [outbox EXCEPT ![l.dispatch.exec] =
                         ExecutingMarked(outbox[l.dispatch.exec], h, l.at)]
        BY <3>3, <3>5, <4>3 DEF RepairMarkExecuting
      <4> QED
        BY <4>2, <4>4
    <3>6. ASSUME RepairMarkResult(m, i)
          PROVE  /\ l.source = "result"
                 /\ \E k : outbox' = [outbox EXCEPT ![l.dispatch.exec] =
                                        ResultMarked(outbox[l.dispatch.exec], k, l.at)]
      BY <3>3, <3>6 DEF RepairMarkResult, Unsettled
    <3>7. \/ l.state = "dispatching" /\ outbox' = Registered(l.dispatch, l.at)
          \/ /\ l.source = "ack"
             /\ \E h : outbox' = [outbox EXCEPT ![l.dispatch.exec] =
                                    ExecutingMarked(outbox[l.dispatch.exec], h, l.at)]
          \/ /\ l.source = "result"
             /\ \E k : outbox' = [outbox EXCEPT ![l.dispatch.exec] =
                                    ResultMarked(outbox[l.dispatch.exec], k, l.at)]
      BY <2>1, <3>4, <3>5, <3>6
    <3>8. now' = now /\ UNCHANGED letters /\ (job'.pc = "persist" => job' = job)
      BY <3>1
    <3> QED
      BY <1>0, <3>2, <3>3, <3>7, <3>8, TimedMark
  <2>2. CASE RepairDone
    <3>1. UNCHANGED <<letters, outbox>> /\ now' = now /\ job'.pc # "persist"
      BY <2>2 DEF RepairDone, runnerVars, Idle
    <3> QED
      BY <1>0, <3>1, TimedFrame
  <2> QED
    BY <1>2, <2>1, <2>2 DEF Repair
<1>3. CASE Request
  BY <1>0, <1>3, TimedServed
<1>4. CASE PersistLetter
  BY <1>4, TimedPersist
<1>5. CASE Finalize
  <2>1. /\ UNCHANGED letters /\ now' = now /\ job'.pc # "persist"
        /\ job.pc \in {"finalize", "replay"}
    BY <1>5 DEF Finalize, runnerVars, Idle
  <2>2. PICK m \in Missions : m = job.mission
    BY <1>0, <2>1 DEF JobSound
  <2>3. PICK i \in Places(m) : i = job.seq
    BY <1>0, <2>1, <2>2 DEF JobSound
  <2>4. PICK l \in Letters : l = job.letter /\ l = letters[m][i]
    BY <1>0, <2>1, <2>2, <2>3, LetterTyped DEF JobSound
  <2>5. \/ l.state = "dispatching" /\ outbox' = Registered(l.dispatch, l.at)
        \/ /\ l.source = "ack"
           /\ \E h : outbox' = [outbox EXCEPT ![l.dispatch.exec] =
                                  ExecutingMarked(outbox[l.dispatch.exec], h, l.at)]
        \/ /\ l.source = "result"
           /\ \E k : outbox' = [outbox EXCEPT ![l.dispatch.exec] =
                                  ResultMarked(outbox[l.dispatch.exec], k, l.at)]
    BY <1>5, <2>4 DEF Finalize
  <2> QED
    BY <1>0, <2>1, <2>4, <2>5, TimedMark
<1>6. CASE RunnerStep \/ UNCHANGED vars
  <2>1. UNCHANGED <<letters, outbox, job>>
    BY <1>6 DEF RunnerStep, vars, ownerVars
  <2>2. now' \in Nat /\ now <= now'
    <3>1. CASE RunnerStep
      BY <1>0, <3>1, ClockAdvances
    <3>2. CASE UNCHANGED vars
      BY <1>0, <3>2 DEF vars, runnerVars
    <3> QED
      BY <1>6, <3>1, <3>2
  <2> QED
    BY <1>0, <2>1, <2>2, TimedFrame
<1> QED
  BY <1>1, <1>2, <1>3, <1>4, <1>5, <1>6 DEF Next, OwnerStep

(***************************************************************************)
(* When requests carry the clock at which they are served, the durable     *)
(* state never makes the next open fail: every repair that is due would be *)
(* accepted by the outbox, at the letter's own time.                       *)
(***************************************************************************)
THEOREM RepairNeverBlocked ==
    ASSUME MaxLag = 0
    PROVE  Spec => []NoRepairBlocked
<1>1. LifecycleInv /\ Timed => NoRepairBlocked
  <2> SUFFICES ASSUME LifecycleInv, Timed PROVE NoRepairBlocked
      OBVIOUS
  <2>0. CoreInv
    BY DEF LifecycleInv
  <2>1. ASSUME NEW h \in Unregistered
        PROVE  Preflight(letters[h[1]][h[2]].dispatch, letters[h[1]][h[2]].at)
    <3>1. h \in LettersIn("dispatching") /\ outbox[letters[h[1]][h[2]].dispatch.exec] = None
      BY DEF Unregistered
    <3>2. PICK m \in Missions : m = h[1]
      BY <2>0, <3>1, NamedLetter
    <3>3. PICK i \in Places(m) : i = h[2]
      BY <2>0, <3>1, <3>2, NamedLetter
    <3>4. PICK l \in Letters : l = letters[m][i]
      BY <2>0, LetterTyped
    <3>5. l.state = "dispatching"
      BY <2>0, <3>1, <3>2, <3>3, <3>4, NamedLetter
    <3>6. l.dispatch \in Dispatches /\ ValidNewDispatch(l.dispatch, l.at)
          /\ l.dispatch.head.mission = m /\ DispatchedAt(l.dispatch) = i
      BY <2>0, <3>4, <3>5, DispatchingLocated
    <3>7. ASSUME NEW f \in Execs, outbox[f] # None
          PROVE  /\ outbox[f].dispatch.exec # l.dispatch.exec
                 /\ ~SamePacketBinding(outbox[f].dispatch, l.dispatch)
      <4>1. outbox[f].dispatch.exec = f /\ Backed(outbox[f])
        BY <2>0, <3>7 DEF CoreInv, OutboxSound
      <4>2. f # l.dispatch.exec
        BY <3>1, <3>2, <3>3, <3>4, <3>7
      <4>3. ASSUME SamePacketBinding(outbox[f].dispatch, l.dispatch) PROVE FALSE
        <5>1. letters[m][i].dispatch = outbox[f].dispatch
          BY <3>6, <4>1, <4>3 DEF Backed, SamePacketBinding, DispatchedAt
        <5> QED
          BY <3>4, <4>1, <4>2, <5>1
      <4> QED
        BY <4>1, <4>2, <4>3
    <3> QED
      BY <3>2, <3>3, <3>4, <3>6, <3>7 DEF Preflight, Collides
  <2>2. ASSUME NEW h \in Unmarked
        PROVE  MayMarkExecuting(outbox[letters[h[1]][h[2]].dispatch.exec], letters[h[1]][h[2]].ack,
                                HeadId(h[1], h[2]), letters[h[1]][h[2]].at)
    <3>1. h \in LettersIn("executing")
      BY DEF Unmarked
    <3>2. PICK m \in Missions : m = h[1]
      BY <2>0, <3>1, NamedLetter
    <3>3. PICK i \in Places(m) : i = h[2]
      BY <2>0, <3>1, <3>2, NamedLetter
    <3>4. PICK l \in Letters : l = letters[m][i]
      BY <2>0, LetterTyped
    <3>5. PICK x : x = outbox[l.dispatch.exec]
      OBVIOUS
    <3>6. x.state = "ACKED" /\ x.head = None
      BY <3>2, <3>3, <3>4, <3>5 DEF Unmarked
    <3>7. /\ l.source = "ack" /\ l.ack \in Acks /\ x.ack = l.ack /\ x.dispatch = l.dispatch
          /\ HeadBinds(HeadId(m, i), l.dispatch)
      <4>0. letters[m][i].state = "executing"
        BY <2>0, <3>1, <3>2, <3>3, NamedLetter
      <4>1. /\ letters[m][i].source = "ack" /\ letters[m][i].ack \in Acks
            /\ HeadBinds(HeadId(m, i), letters[m][i].dispatch)
        BY <2>0, <4>0, ExecutingLocated
      <4>2. /\ outbox[letters[m][i].dispatch.exec].dispatch = letters[m][i].dispatch
            /\ outbox[letters[m][i].dispatch.exec].ack = letters[m][i].ack
        BY <2>0, <4>0, ExecutingLocated
      <4> QED
        BY <3>4, <3>5, <4>1, <4>2
    <3>8. x.updated <= l.at
      BY <3>4, <3>5, <3>6, <3>7 DEF Timed, Timely
    <3>9. MayMarkExecuting(x, l.ack, HeadId(m, i), l.at)
      BY <3>6, <3>7, <3>8, NoneAssumption DEF MayMarkExecuting
    <3> QED
      BY <3>2, <3>3, <3>4, <3>5, <3>9
  <2>3. ASSUME NEW h \in Unsettled
        PROVE  MayMarkResult(outbox[letters[h[1]][h[2]].dispatch.exec], letters[h[1]][h[2]].result,
                             h[2], letters[h[1]][h[2]].at)
    <3>1. h \in LettersIn("gate") \/ h \in LettersIn("failed")
      BY DEF Unsettled
    <3>2. PICK m \in Missions : m = h[1]
      BY <2>0, <3>1, NamedLetter
    <3>3. PICK i \in Places(m) : i = h[2]
      BY <2>0, <3>1, <3>2, NamedLetter
    <3>4. PICK l \in Letters : l = letters[m][i]
      BY <2>0, LetterTyped
    <3>5. PICK x : x = outbox[l.dispatch.exec]
      OBVIOUS
    <3>6. /\ l.source = "result" /\ x # None /\ x.result = l.result /\ x.result # None
          /\ x.settled = None
      BY <3>2, <3>3, <3>4, <3>5 DEF Unsettled
    <3>7. x \in OwnerEntries /\ l.dispatch \in Dispatches
      BY <2>0, <3>4, <3>5, <3>6, ResultLocated
    <3>8. OwnerShape(x)
      BY <2>0, <3>5, <3>6, <3>7 DEF CoreInv, OutboxSound, Dispatches
    <3>9. x.state \in {"COMPLETED", "FAILED"}
      BY <3>6, <3>7, <3>8 DEF OwnerShape, OwnerEntries, OwnerStates
    <3>10. x.updated <= l.at
      BY <3>4, <3>5, <3>6 DEF Timed, Timely
    <3>11. MayMarkResult(x, l.result, i, l.at)
      BY <3>6, <3>9, <3>10 DEF MayMarkResult
    <3> QED
      BY <3>2, <3>3, <3>4, <3>5, <3>11
  <2> QED
    BY <2>1, <2>2, <2>3 DEF NoRepairBlocked
<1>2. Init => Timed
  BY TimedInit
<1>3. LifecycleInv /\ Timed /\ [Next]_vars => Timed'
  BY TimedNext
<1> QED
  BY <1>1, <1>2, <1>3, LifecycleInvariant, PTL DEF Spec

-----------------------------------------------------------------------------
(* The service as the environment of the runner. *)

(***************************************************************************)
(* What the runner is shown goes back to what was signed: a DISPATCHING    *)
(* letter carries an offered dispatch and an EXECUTING letter an ACK of    *)
(* the runner, from the moment a request has built the letter.             *)
(***************************************************************************)
Genuine(l) ==
    /\ l.state = "dispatching" => l.dispatch \in Offers
    /\ l.source = "ack" => l.ack \in signed

AllGenuine ==
    /\ \A m \in Missions : \A i \in Places(m) : Genuine(letters[m][i])
    /\ job.pc = "persist" => Genuine(job.letter)

\* No owner step writes the runner's state.
LEMMA OwnerLeavesRunner ==
    ASSUME OwnerStep
    PROVE  UNCHANGED runnerVars
<1>1. ASSUME Open \/ PersistLetter \/ Finalize \/ Abandon \/ OwnerTornAppend
      PROVE  UNCHANGED runnerVars
  BY <1>1 DEF Open, PersistLetter, Finalize, Abandon, OwnerTornAppend
<1>2. ASSUME Repair PROVE UNCHANGED runnerVars
  <2>1. ASSUME NEW m, NEW i,
               RepairRegister(m, i) \/ RepairMarkExecuting(m, i) \/ RepairMarkResult(m, i)
        PROVE  UNCHANGED runnerVars
    BY <2>1 DEF RepairRegister, RepairMarkExecuting, RepairMarkResult
  <2>2. ASSUME RepairDone PROVE UNCHANGED runnerVars
    BY <2>2 DEF RepairDone
  <2> QED
    BY <1>2, <2>1, <2>2 DEF Repair
<1>3. ASSUME Request PROVE UNCHANGED runnerVars
  <2>1. ASSUME NEW d, NEW r, NEW t, RequestDispatch(d, r, t) PROVE UNCHANGED runnerVars
    BY <2>1 DEF RequestDispatch
  <2>2. ASSUME NEW m, NEW r, NEW p, NEW t, RequestTransition(m, r, p, t)
        PROVE  UNCHANGED runnerVars
    BY <2>2 DEF RequestTransition
  <2>3. ASSUME NEW a, NEW t, RequestStarted(a, t) PROVE UNCHANGED runnerVars
    BY <2>3 DEF RequestStarted
  <2>4. ASSUME NEW e, NEW t, RequestTerminal(e, t) PROVE UNCHANGED runnerVars
    BY <2>4 DEF RequestTerminal
  <2>5. ASSUME NEW m, NEW i, NEW t, ReplayRequest(m, i, t) PROVE UNCHANGED runnerVars
    BY <2>5 DEF ReplayRequest
  <2> QED
    BY <1>3, <2>1, <2>2, <2>3, <2>4, <2>5 DEF Request
<1> QED
  BY <1>1, <1>2, <1>3 DEF OwnerStep

\* Signatures are never withdrawn.
LEMMA SignaturesStay ==
    ASSUME [Next]_vars
    PROVE  signed \subseteq signed'
<1>1. CASE OwnerStep
  <2>1. signed' = signed
    BY <1>1, OwnerLeavesRunner DEF runnerVars
  <2> QED
    BY <2>1
<1>2. CASE RunnerStep
  <2>1. ASSUME NEW e \in Execs, SignAck(e) PROVE signed \subseteq signed'
    BY <2>1 DEF SignAck
  <2> QED
    BY <1>2, <2>1 DEF RunnerStep, ClaimForSpawn, ObserveExecuting, DriverStep, Tick, Spawn,
                      MarkProcessStarted, RecordAck, RecordResult, RunnerCrash,
                      RunnerCrashTorn, RunnerOpen
<1>3. CASE UNCHANGED vars
  BY <1>3 DEF vars, runnerVars
<1> QED
  BY <1>1, <1>2, <1>3 DEF Next

\* A letter stays genuine.
LEMMA GenuineKept ==
    ASSUME NEW l, Genuine(l), signed \subseteq signed'
    PROVE  Genuine(l)'
BY DEF Genuine

\* A step that writes no letter, and leaves the request at persist alone or builds
\* a genuine letter.
LEMMA GenuineFrame ==
    ASSUME AllGenuine, signed \subseteq signed', letters' = letters,
           job'.pc = "persist" => (job' = job \/ Genuine(job'.letter))
    PROVE  AllGenuine'
<1>1. ASSUME NEW m \in Missions, NEW i \in Places(m)' PROVE Genuine(letters[m][i])'
  <2>1. PICK l : l = letters[m][i]
    OBVIOUS
  <2>2. Genuine(l)
    BY <2>1 DEF AllGenuine, Places
  <2>3. Genuine(l)'
    BY <2>2, GenuineKept
  <2> QED
    BY <2>1, <2>3
<1>2. ASSUME job'.pc = "persist" PROVE Genuine(job.letter)'
  <2>1. PICK l : l = job'.letter
    OBVIOUS
  <2>2. Genuine(l)
    BY <1>2, <2>1 DEF AllGenuine
  <2>3. Genuine(l)'
    BY <2>2, GenuineKept
  <2> QED
    BY <2>1, <2>3
<1> QED
  BY <1>1, <1>2 DEF AllGenuine

\* A request builds a genuine letter: its dispatch is the one offered, its ACK the
\* one delivered.
LEMMA GenuineRequest ==
    ASSUME Request
    PROVE  letters' = letters /\ (job'.pc = "persist" => Genuine(job'.letter))
<1>1. PICK t \in Samples :
        \/ \E d \in Offers, r \in TransitionRules : RequestDispatch(d, r, t)
        \/ \E m \in Missions, r \in TransitionRules, p \in Packets : RequestTransition(m, r, p, t)
        \/ \E a \in signed : RequestStarted(a, t)
        \/ \E e \in Execs : inbox[e] # None /\ RequestTerminal(e, t)
        \/ \E m \in Missions, i \in 1..MaxLetters : ReplayRequest(m, i, t)
  BY DEF Request
<1>2. ASSUME NEW d \in Offers, NEW r \in TransitionRules, RequestDispatch(d, r, t)
      PROVE  letters' = letters /\ Genuine(job'.letter)
  <2>1. /\ letters' = letters /\ r.to = "dispatching"
        /\ job'.letter.dispatch = d /\ job'.letter.source = r.source
    BY <1>2 DEF RequestDispatch, Job, Letter
  <2>2. r.source # "ack"
    BY <2>1, RuleFacts
  <2> QED
    BY <2>1, <2>2 DEF Genuine
<1>3. ASSUME NEW m \in Missions, NEW r \in TransitionRules, NEW p \in Packets,
             RequestTransition(m, r, p, t)
      PROVE  letters' = letters /\ Genuine(job'.letter)
  <2>1. /\ letters' = letters /\ r.to # "dispatching" /\ r.source # "ack"
        /\ job'.letter.state = r.to /\ job'.letter.source = r.source
    BY <1>3 DEF RequestTransition, Job, Letter
  <2> QED
    BY <2>1 DEF Genuine
<1>4. ASSUME NEW a \in signed, RequestStarted(a, t)
      PROVE  letters' = letters /\ Genuine(job'.letter)
  <2>1. letters' = letters /\ job'.letter.ack = a /\ job'.letter.state = "executing"
    BY <1>4 DEF RequestStarted, Job, Letter, Rule
  <2> QED
    BY <2>1 DEF Genuine
<1>5. ASSUME NEW e \in Execs, RequestTerminal(e, t)
      PROVE  letters' = letters /\ Genuine(job'.letter)
  <2>1. PICK s : s = ExpectedTransition(inbox[e].result)
    OBVIOUS
  <2>2. s # "dispatching"
    BY <2>1 DEF ExpectedTransition
  <2>3. letters' = letters /\ job'.letter.source = "result" /\ job'.letter.state = s
    BY <1>5, <2>1 DEF RequestTerminal, Job, Letter, Rule
  <2> QED
    BY <2>2, <2>3 DEF Genuine
<1>6. ASSUME NEW m \in Missions, NEW i \in 1..MaxLetters, ReplayRequest(m, i, t)
      PROVE  letters' = letters /\ job'.pc # "persist"
  BY <1>6 DEF ReplayRequest, Job
<1> QED
  BY <1>1, <1>2, <1>3, <1>4, <1>5, <1>6

\* persist_state writes the letter the request built.
LEMMA GenuinePersist ==
    ASSUME LifecycleInv, AllGenuine, PersistLetter, signed \subseteq signed'
    PROVE  AllGenuine'
<1>0. /\ JobSound /\ job.pc = "persist" /\ job \in Jobs
      /\ letters \in [Missions -> Seq(Letters)]
  BY DEF LifecycleInv, CoreInv, PersistLetter
<1>1. job'.pc # "persist"
  <2>1. job' = [job EXCEPT !.pc = "finalize"] \/ job' = Idle
    BY DEF PersistLetter
  <2> QED
    BY <1>0, <2>1 DEF Jobs, Idle
<1>2. PICK m \in Missions : m = job.mission
  BY <1>0 DEF JobSound
<1>3. PICK l \in Letters : l = job.letter
  BY <1>0 DEF JobSound
<1>4. letters' = [letters EXCEPT ![m] = Append(letters[m], l)]
  BY <1>2, <1>3 DEF PersistLetter
<1>5. ASSUME NEW n \in Missions, NEW i \in Places(n)'
      PROVE  letters'[n][i] = l \/ (i \in Places(n) /\ letters'[n][i] = letters[n][i])
  <2>1. CASE n = m
    <3>1. letters[m] \in Seq(Letters) /\ letters'[n] = Append(letters[m], l)
      BY <1>0, <1>4, <2>1
    <3> QED
      BY <2>1, <3>1 DEF Places
  <2>2. CASE n # m
    BY <1>0, <1>4, <2>2 DEF Places
  <2> QED
    BY <2>1, <2>2
<1>6. ASSUME NEW n \in Missions, NEW i \in Places(n)' PROVE Genuine(letters[n][i])'
  <2>1. PICK x : x = letters'[n][i]
    OBVIOUS
  <2>2. Genuine(x)
    BY <1>0, <1>3, <1>5, <2>1 DEF AllGenuine
  <2>3. Genuine(x)'
    BY <2>2, GenuineKept
  <2> QED
    BY <2>1, <2>3
<1> QED
  BY <1>1, <1>6 DEF AllGenuine

\* Every step keeps the letters genuine.
LEMMA GenuineNext ==
    ASSUME LifecycleInv, AllGenuine, [Next]_vars
    PROVE  AllGenuine'
<1>0. signed \subseteq signed'
  BY SignaturesStay
<1>1. CASE Request
  BY <1>0, <1>1, GenuineRequest, GenuineFrame
<1>2. CASE PersistLetter
  BY <1>0, <1>2, GenuinePersist
<1>3. CASE Open \/ Abandon \/ OwnerTornAppend \/ Finalize
  <2>1. letters' = letters /\ job'.pc # "persist"
    BY <1>3 DEF Open, Abandon, OwnerTornAppend, Finalize, Idle
  <2> QED
    BY <1>0, <2>1, GenuineFrame
<1>4. CASE Repair
  <2>1. letters' = letters /\ (job' = job \/ job'.pc # "persist")
    BY <1>4 DEF Repair, RepairRegister, RepairMarkExecuting, RepairMarkResult, RepairDone, Idle
  <2> QED
    BY <1>0, <2>1, GenuineFrame
<1>5. CASE RunnerStep \/ UNCHANGED vars
  <2>1. letters' = letters /\ job' = job
    BY <1>5 DEF RunnerStep, vars, ownerVars
  <2> QED
    BY <1>0, <2>1, GenuineFrame
<1> QED
  BY <1>1, <1>2, <1>3, <1>4, <1>5 DEF Next, OwnerStep

\* Seen from the runner, every step is one of its own with its most hostile owner,
\* or none.
LEMMA RunnerStepRefines ==
    ASSUME Heads = MissionHeads, LifecycleInv, AllGenuine, [Next]_vars
    PROVE  [RunnerNext]_runnerVars
<1>0. CoreInv
  BY DEF LifecycleInv
<1>1. CASE OwnerStep
  <2>1. UNCHANGED runnerVars
    BY <1>1, OwnerLeavesRunner
  <2> QED
    BY <2>1
<1>2. ASSUME NEW e \in Execs, outbox[e] # None, ClaimForSpawn(outbox[e].dispatch)
      PROVE  RunnerNext
  <2>1. PICK x \in OwnerEntries : x = outbox[e]
    BY <1>0, <1>2 DEF CoreInv
  <2>2. PICK d \in Dispatches : d = x.dispatch
    BY DEF OwnerEntries
  <2>3. PICK m \in Missions : m = d.head.mission
    BY DEF Dispatches, MissionHeads
  <2>4. Backed(x)
    BY <1>0, <1>2, <2>1 DEF CoreInv, OutboxSound
  <2>5. /\ DispatchedAt(d) \in Places(m)
        /\ letters[m][DispatchedAt(d)].state = "dispatching"
        /\ letters[m][DispatchedAt(d)].dispatch = d
    BY <2>2, <2>3, <2>4 DEF Backed
  <2>6. d \in Offers
    BY <2>5 DEF AllGenuine, Genuine
  <2> QED
    BY <1>2, <2>1, <2>2, <2>6 DEF RunnerNext
<1>3. ASSUME NEW h \in LettersIn("executing"),
             ObserveExecuting(letters[h[1]][h[2]].dispatch.exec, letters[h[1]][h[2]].ack,
                              HeadId(h[1], h[2]))
      PROVE  RunnerNext
  <2>1. PICK m \in Missions : m = h[1]
    BY <1>0, NamedLetter
  <2>2. PICK i \in Places(m) : i = h[2]
    BY <1>0, <2>1, NamedLetter
  <2>3. letters[m][i].state = "executing"
    BY <1>0, <2>1, <2>2, NamedLetter
  <2>4. letters[m][i].source = "ack" /\ HeadId(m, i) \in MissionHeads
    BY <1>0, <2>3, ExecutingLocated
  <2>5. PICK l : l = letters[m][i]
    OBVIOUS
  <2>6. l.ack \in signed
    BY <2>4, <2>5 DEF AllGenuine, Genuine
  <2>7. AckBinds(l.ack, l.dispatch)
    BY <1>0, <2>3, <2>5 DEF CoreInv, LetterSound, Fits, AckFits
  <2>8. PICK a \in signed : a = l.ack
    BY <2>6
  <2>9. PICK g \in Heads : g = HeadId(m, i)
    BY <2>4
  <2>10. ObserveExecuting(a.dispatch.exec, a, g)
    BY <1>3, <2>1, <2>2, <2>5, <2>7, <2>8, <2>9 DEF AckBinds
  <2> QED
    BY <2>10 DEF RunnerNext
<1>4. CASE RunnerStep
  BY <1>2, <1>3, <1>4 DEF RunnerStep, RunnerNext
<1>5. CASE UNCHANGED vars
  BY <1>5 DEF vars
<1> QED
  BY <1>1, <1>4, <1>5 DEF Next

(***************************************************************************)
(* The mission service is one of the owners the runner is proved against:  *)
(* whatever requests, crashes and repairs do, all a runner sees of it are  *)
(* offered dispatches and heads for ACKs it signed itself.  So everything  *)
(* proved of RunnerExecutionInbox alone holds in the composed system.      *)
(***************************************************************************)
THEOREM ServiceWithinRunnerSpec ==
    ASSUME Heads = MissionHeads
    PROVE  Spec => RunnerSpec
<1>1. Init => RunnerInit /\ AllGenuine
  <2> SUFFICES ASSUME Init PROVE RunnerInit /\ AllGenuine
      OBVIOUS
  <2>1. RunnerInit /\ job.pc = "idle" /\ letters = [m \in Missions |-> <<>>]
    BY DEF Init, OwnerInit, Idle
  <2>2. \A m \in Missions : Places(m) = {}
    BY <2>1 DEF Places
  <2> QED
    BY <2>1, <2>2 DEF AllGenuine
<1>2. LifecycleInv /\ AllGenuine /\ [Next]_vars => AllGenuine'
  BY GenuineNext
<1>3. LifecycleInv /\ AllGenuine /\ [Next]_vars => [RunnerNext]_runnerVars
  BY RunnerStepRefines
<1> QED
  BY <1>1, <1>2, <1>3, LifecycleInvariant, PTL DEF Spec, RunnerSpec

(***************************************************************************)
(* A mission waits to be merged only on work that was really done, once:   *)
(* for the execution of a MERGE_WAIT letter exactly one process was ever   *)
(* started, whatever was redelivered or repaired, and the result the       *)
(* letter carries is the one in the runner's own journal.                  *)
(***************************************************************************)
MergedWorkRanOnce ==
    \A h \in LettersIn("merge_wait") :
        LET l == letters[h[1]][h[2]]
            e == l.dispatch.exec
        IN  /\ spawned[e] = 1
            /\ inbox[e] # None /\ inbox[e].dispatch = l.dispatch /\ inbox[e].result = l.result

(***************************************************************************)
(* Across both journals and the state file, a MERGE_WAIT letter stands for *)
(* one process and the result it left at the runner.                       *)
(***************************************************************************)
THEOREM MergedWorkAlwaysRanOnce == Spec => []MergedWorkRanOnce
<1>1. LifecycleInv => MergedWorkRanOnce
  <2> SUFFICES ASSUME CoreInv, NEW h \in LettersIn("merge_wait")
               PROVE  LET l == letters[h[1]][h[2]]
                          e == l.dispatch.exec
                      IN  /\ spawned[e] = 1
                          /\ inbox[e] # None /\ inbox[e].dispatch = l.dispatch
                          /\ inbox[e].result = l.result
      BY DEF LifecycleInv, MergedWorkRanOnce
  <2>1. PICK m \in Missions : m = h[1]
    BY NamedLetter
  <2>2. PICK i \in Places(m) : i = h[2]
    BY <2>1, NamedLetter
  <2>3. PICK l \in Letters : l = letters[m][i]
    BY LetterTyped
  <2>4. l.state = "merge_wait" /\ Earned(l, m, i)
    BY <2>1, <2>2, <2>3, NamedLetter DEF CoreInv, LetterSound, Fits
  <2>5. /\ l.result \in Results /\ l.result.dispatch = l.dispatch
        /\ outbox[l.dispatch.exec] # None /\ outbox[l.dispatch.exec].result = l.result
    BY <2>4 DEF Earned
  <2>6. PICK e \in Execs : e = l.dispatch.exec
    BY <2>5 DEF Results, Dispatches
  <2>7. PICK x \in OwnerEntries : x = outbox[e]
    BY <2>5, <2>6 DEF CoreInv
  <2>8. PICK y, n : y = inbox[e] /\ n = spawned[e]
    OBVIOUS
  <2>9. x # None /\ x.result = l.result /\ x.result # None
    BY <2>5, <2>6, <2>7, NoneAssumption
  <2>10. Agree(x, y, n) /\ OwnerShape(x)
    BY <2>7, <2>8, <2>9 DEF CoreInv, JournalsAgree, OutboxSound
  <2>11. y # None /\ y.result = x.result /\ x.dispatch = y.dispatch
    BY <2>9, <2>10 DEF Agree
  <2>12. y \in RunnerEntries /\ RunnerShape(y)
    BY <2>8, <2>11 DEF CoreInv, RunnerIndInv, RunnerTypeOK, EntrySound, Claimed
  <2>13. x.ack # None
    BY <2>9, <2>10, <2>7 DEF OwnerShape, OwnerEntries, OwnerStates
  <2>14. y.started # None
    BY <2>9, <2>10, <2>13 DEF Agree
  <2>15. n = 1
    BY <2>10, <2>11, <2>14 DEF Agree
  <2>16. x.dispatch = l.dispatch
    BY <2>5, <2>9, <2>10 DEF OwnerShape, ResultBinds
  <2> QED
    BY <2>1, <2>2, <2>3, <2>6, <2>8, <2>9, <2>11, <2>15, <2>16
<1> QED
  BY <1>1, LifecycleInvariant, PTL

(***************************************************************************)
(* With the mission service as its owner, its crashes and repairs          *)
(* included, the runner still starts at most one process for an execution  *)
(* id, and for a packet of a mission head under two execution ids.         *)
(***************************************************************************)
THEOREM ServiceStartsOneProcess == Spec => []AtMostOneProcess
<1>1. LifecycleInv => AtMostOneProcess
  BY DEF LifecycleInv, CoreInv, RunnerIndInv, AtMostOneProcess, SpawnOnce, BindingsDistinct
<1> QED
  BY <1>1, LifecycleInvariant, PTL
=============================================================================
