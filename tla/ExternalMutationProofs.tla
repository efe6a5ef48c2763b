----------------------- MODULE ExternalMutationProofs -----------------------
(***************************************************************************)
(* ExternalMutation's safety, for any operations, files and writers, and   *)
(* without a bound on faults and crashes: OutcomesAgree and FilesOnlyGrow. *)
(*                                                                         *)
(* OutcomesAgree is not inductive.  The strengthening says what the call   *)
(* that holds the locks knows of its operation at each place (CallKnows,   *)
(* CallPublishes), because nobody else touches leases or journal before it *)
(* returns, and that a sealed preimage never holds the operation it was    *)
(* sealed for (PreimagesClean), because it is sealed while the lease is    *)
(* unused.                                                                 *)
(***************************************************************************)
EXTENDS ExternalMutation, TLAPS

LeaseStates == {"Unused", "Reserved", "Finalizing", "Aborted", "Consumed"}

Phases == {"none", "Prepared", "Committed", "RecoveryRequired", "Reconciled", "Published"}

Places == {"recover", "reserve", "stage", "prepared", "ready", "finalizing", "consume",
           "publishing", "reconcile", "seal"}

Calls == [req : Ops \cup {None}, cur : Ops \cup {None}, at : Places, n : Nat, rec : BOOLEAN]

TypeInv ==
    /\ lease \in [Ops -> LeaseStates]
    /\ entry \in [Ops -> Phases]
    /\ before = [o \in Ops |-> before[o]]
    /\ target \in [Targets -> Seq(Ops \cup Writers)]
    /\ busy # None => busy \in Calls

\* What the running call knows of the lease and the journal.
CallKnows ==
    busy # None /\ busy.at # "recover" =>
        /\ busy.cur \in Ops
        /\ busy.at = "reserve" => lease[busy.cur] = "Unused" /\ entry[busy.cur] = "none"
        /\ busy.at = "stage" => lease[busy.cur] = "Reserved" /\ entry[busy.cur] = "none"
        /\ busy.at \in {"prepared", "ready"} =>
              lease[busy.cur] = "Reserved" /\ entry[busy.cur] = "Prepared"
        /\ busy.at = "finalizing" =>
              lease[busy.cur] = "Finalizing" /\ entry[busy.cur] = "Prepared"
        /\ busy.at = "consume" =>
              lease[busy.cur] \in {"Finalizing", "Consumed"} /\ entry[busy.cur] \in Pending
        /\ busy.at \in {"publishing", "reconcile"} =>
              lease[busy.cur] = "Consumed" /\ entry[busy.cur] \in Pending
        /\ busy.at = "seal" =>
              lease[busy.cur] = "Consumed" /\ entry[busy.cur] \in Pending \cup {"Reconciled"}

\* What it has published.
CallPublishes ==
    busy # None =>
        /\ busy.at \in {"ready", "finalizing", "consume"} => busy.n = 0
        /\ busy.at = "publishing" =>
              /\ busy.n <= Len(Files[busy.cur])
              /\ \A i \in 1..busy.n : Visible(busy.cur, Files[busy.cur][i])
        /\ busy.at \in {"reconcile", "seal"} =>
              \A t \in FilesOf(busy.cur) : Visible(busy.cur, t)

\* o is not part of its own preimage of t.
Clean(o, t) ==
    /\ before[o][t] \in Seq(Ops \cup Writers)
    /\ \A i \in DOMAIN before[o][t] : before[o][t][i] # o

Sealed(o) == entry[o] # "none" \/ (busy # None /\ busy.at # "recover" /\ busy.cur = o)

PreimagesClean == \A o \in Ops : Sealed(o) => \A t \in FilesOf(o) : Clean(o, t)

EMIndInv == TypeInv /\ CallKnows /\ CallPublishes /\ PreimagesClean /\ OutcomesAgree

-----------------------------------------------------------------------------
\* The files of an operation are files.
LEMMA FilesAreTargets ==
    ASSUME NEW o \in Ops
    PROVE  /\ Len(Files[o]) \in Nat
           /\ FilesOf(o) \subseteq Targets
           /\ \A i \in 1..Len(Files[o]) : Files[o][i] \in FilesOf(o)
           /\ \A t \in FilesOf(o) : \E i \in 1..Len(Files[o]) : t = Files[o][i]
<1>1. Files[o] \in Seq(Targets)
  BY FilesAssumption
<1>2. DOMAIN Files[o] = 1..Len(Files[o]) /\ Len(Files[o]) \in Nat
  BY <1>1
<1>3. \A i \in 1..Len(Files[o]) : Files[o][i] \in Targets
  BY <1>1
<1> QED
  BY <1>2, <1>3 DEF FilesOf

\* What is appended to a file can be read there.
LEMMA LastIsShown ==
    ASSUME NEW S, NEW s \in Seq(S), NEW x \in S
    PROVE  \E i \in DOMAIN Append(s, x) : Append(s, x)[i] = x
<1>1. Len(s) + 1 \in DOMAIN Append(s, x) /\ Append(s, x)[Len(s) + 1] = x
  OBVIOUS
<1> QED
  BY <1>1

\* A step that appends x to file t makes x visible there, and nothing else.
LEMMA AppendShows ==
    ASSUME TypeInv, NEW t \in Targets, NEW x \in Ops \cup Writers,
           target' = [target EXCEPT ![t] = Append(target[t], x)]
    PROVE  /\ target' \in [Targets -> Seq(Ops \cup Writers)]
           /\ Visible(x, t)'
           /\ \A y, u : u \in Targets => (Visible(y, u) => Visible(y, u)')
           /\ \A y, u : u \in Targets /\ y # x => (Visible(y, u)' => Visible(y, u))
<1>1. target[t] \in Seq(Ops \cup Writers)
  BY DEF TypeInv
<1>2. /\ Append(target[t], x) \in Seq(Ops \cup Writers)
      /\ DOMAIN Append(target[t], x) = 1..(Len(target[t]) + 1)
      /\ DOMAIN target[t] = 1..Len(target[t]) /\ Len(target[t]) \in Nat
      /\ Append(target[t], x)[Len(target[t]) + 1] = x
      /\ \A i \in 1..Len(target[t]) : Append(target[t], x)[i] = target[t][i]
  BY <1>1
<1>3. target'[t] = Append(target[t], x) /\ \A u \in Targets : u # t => target'[u] = target[u]
  BY DEF TypeInv
<1>4. target' \in [Targets -> Seq(Ops \cup Writers)]
  BY <1>2 DEF TypeInv
<1>5. Visible(x, t)'
  BY <1>2, <1>3 DEF Visible
<1>6. ASSUME NEW y, NEW u \in Targets, Visible(y, u) PROVE Visible(y, u)'
  <2>1. PICK i \in DOMAIN target[u] : target[u][i] = y
    BY <1>6 DEF Visible
  <2>2. i \in DOMAIN target'[u] /\ target'[u][i] = y
    BY <2>1, <1>2, <1>3
  <2> QED
    BY <2>2 DEF Visible
<1>7. ASSUME NEW y, NEW u \in Targets, y # x, Visible(y, u)' PROVE Visible(y, u)
  <2>1. PICK i \in DOMAIN target'[u] : target'[u][i] = y
    BY <1>7 DEF Visible
  <2>2. i \in DOMAIN target[u] /\ target[u][i] = y
    BY <2>1, <1>2, <1>3, <1>7
  <2> QED
    BY <2>2 DEF Visible
<1> QED
  BY <1>4, <1>5, <1>6, <1>7

-----------------------------------------------------------------------------
(* Steps that leave the files alone. *)

\* The call returns; journal and leases stay, or the entry is marked.
LEMMA ReturnsKeeps ==
    ASSUME EMIndInv, busy' = None, UNCHANGED <<lease, before, target>>,
           \/ UNCHANGED entry
           \/ \E o \in Ops : /\ entry[o] \in Pending
                             /\ entry' = [entry EXCEPT ![o] = "RecoveryRequired"]
    PROVE  EMIndInv'
<1>1. \A x, t : Visible(x, t)' <=> Visible(x, t)
  BY DEF Visible
<1>2. \A o, t : Clean(o, t)' <=> Clean(o, t)
  BY DEF Clean
<1>3. TypeInv' /\ CallKnows' /\ CallPublishes'
  BY DEF EMIndInv, TypeInv, CallKnows, CallPublishes, Phases
<1>4. \A o \in Ops : Sealed(o)' => Sealed(o)
  BY DEF EMIndInv, TypeInv, Sealed, Pending
<1>5. PreimagesClean'
  BY <1>2, <1>4 DEF EMIndInv, PreimagesClean, FilesOf
<1>6. OutcomesAgree'
  BY <1>1 DEF EMIndInv, TypeInv, OutcomesAgree, Anomalous, Pending, FilesOf
<1> QED
  BY <1>3, <1>5, <1>6 DEF EMIndInv
\* What a step that leaves files and preimages alone cannot change.
LEMMA SameFiles ==
    ASSUME UNCHANGED <<before, target>>
    PROVE  /\ \A x, t : Visible(x, t)' <=> Visible(x, t)
           /\ \A o, t : Clean(o, t)' <=> Clean(o, t)
BY DEF Visible, Clean

\* Counting a published file leaves a well-formed call.
LEMMA CountedCall ==
    ASSUME NEW b \in Calls
    PROVE  [b EXCEPT !.n = b.n + 1] \in Calls
<1>1. b.n + 1 \in Nat
  BY DEF Calls
<1> QED
  BY <1>1 DEF Calls

\* An append goes on or ends the call.
LEMMA AppendEnds ==
    ASSUME NEW log, NEW next, Appends(log, next)
    PROVE  busy' = None \/ busy' = next
BY DEF Appends, Appended, FailsAhead, CrashesAhead, Returns

\* The steps of a request that leave the files alone.
LEMMA CallStepsKeep ==
    ASSUME EMIndInv,
           \/ Reserve
           \/ Stage
           \/ JournalPrepare
           \/ ActorReady
           \/ FinalizationPrepared
           \/ JournalCommit
           \/ ConsumeLease
           \/ TurnDone
           \/ MarkReconciled
           \/ MarkPublished
    PROVE  EMIndInv'
<1> USE DEF At, EMIndInv, TypeInv, CallKnows, CallPublishes, Calls, Places, Pending
<1>1. CASE Reserve
  <2>0. \A x, t : (Visible(x, t)' <=> Visible(x, t)) /\ (Clean(x, t)' <=> Clean(x, t))
    BY <1>1, SameFiles DEF Reserve
  <2>5. busy' = None \/ busy' = To("stage")
    BY <1>1, AppendEnds, Zenon DEF Reserve
  <2>1. TypeInv'
    BY <1>1, <2>5 DEF Reserve, To, LeaseStates, Phases
  <2>2. CallKnows' /\ CallPublishes'
    BY <1>1, <2>0, <2>5, FilesAreTargets DEF Reserve, To
  <2>3. PreimagesClean'
    BY <1>1, <2>0, <2>5 DEF Reserve, To, PreimagesClean, Sealed, FilesOf
  <2>4. OutcomesAgree'
    BY <1>1, <2>0, <2>5 DEF Reserve, To, OutcomesAgree, Anomalous, FilesOf, LeaseStates, Phases
  <2> QED
    BY <2>1, <2>2, <2>3, <2>4
<1>2. CASE Stage
  <2>0. \A x, t : (Visible(x, t)' <=> Visible(x, t)) /\ (Clean(x, t)' <=> Clean(x, t))
    BY <1>2, SameFiles DEF Stage
  <2>5. busy \in Calls /\ busy' = [busy EXCEPT !.n = busy.n + 1]
    BY <1>2 DEF Stage
  <2>6. busy' \in Calls
    BY <2>5, CountedCall
  <2>1. TypeInv'
    BY <1>2, <2>6 DEF Stage
  <2>2. CallKnows' /\ CallPublishes'
    BY <1>2, <2>0, FilesAreTargets DEF Stage
  <2>3. PreimagesClean'
    BY <1>2, <2>0 DEF Stage, PreimagesClean, Sealed, FilesOf
  <2>4. OutcomesAgree'
    BY <1>2, <2>0 DEF Stage, OutcomesAgree, Anomalous, FilesOf, LeaseStates, Phases
  <2> QED
    BY <2>1, <2>2, <2>3, <2>4
<1>3. CASE JournalPrepare
  <2>0. \A x, t : (Visible(x, t)' <=> Visible(x, t)) /\ (Clean(x, t)' <=> Clean(x, t))
    BY <1>3, SameFiles DEF JournalPrepare
  <2>5. busy' = None \/ busy' = To("prepared")
    BY <1>3, AppendEnds, Zenon DEF JournalPrepare
  <2>1. TypeInv'
    BY <1>3, <2>5 DEF JournalPrepare, To, LeaseStates, Phases
  <2>2. CallKnows' /\ CallPublishes'
    BY <1>3, <2>0, <2>5, FilesAreTargets DEF JournalPrepare, To
  <2>3. PreimagesClean'
    BY <1>3, <2>0, <2>5 DEF JournalPrepare, To, PreimagesClean, Sealed, FilesOf
  <2>4. OutcomesAgree'
    BY <1>3, <2>0, <2>5 DEF JournalPrepare, To, OutcomesAgree, Anomalous, FilesOf, LeaseStates, Phases
  <2> QED
    BY <2>1, <2>2, <2>3, <2>4
<1>4. CASE ActorReady
  <2>0. \A x, t : (Visible(x, t)' <=> Visible(x, t)) /\ (Clean(x, t)' <=> Clean(x, t))
    BY <1>4, SameFiles DEF ActorReady
  <2>1. TypeInv'
    BY <1>4 DEF ActorReady, LeaseStates, Phases
  <2>2. CallKnows' /\ CallPublishes'
    BY <1>4, <2>0, FilesAreTargets DEF ActorReady
  <2>3. PreimagesClean'
    BY <1>4, <2>0 DEF ActorReady, PreimagesClean, Sealed, FilesOf
  <2>4. OutcomesAgree'
    BY <1>4, <2>0 DEF ActorReady, OutcomesAgree, Anomalous, FilesOf, LeaseStates, Phases
  <2> QED
    BY <2>1, <2>2, <2>3, <2>4
<1>5. CASE FinalizationPrepared
  <2>0. \A x, t : (Visible(x, t)' <=> Visible(x, t)) /\ (Clean(x, t)' <=> Clean(x, t))
    BY <1>5, SameFiles DEF FinalizationPrepared
  <2>5. busy' = None \/ busy' = To("finalizing")
    BY <1>5, AppendEnds, Zenon DEF FinalizationPrepared
  <2>1. TypeInv'
    BY <1>5, <2>5 DEF FinalizationPrepared, To, LeaseStates, Phases
  <2>2. CallKnows' /\ CallPublishes'
    BY <1>5, <2>0, <2>5, FilesAreTargets DEF FinalizationPrepared, To
  <2>3. PreimagesClean'
    BY <1>5, <2>0, <2>5 DEF FinalizationPrepared, To, PreimagesClean, Sealed, FilesOf
  <2>4. OutcomesAgree'
    BY <1>5, <2>0, <2>5 DEF FinalizationPrepared, To, OutcomesAgree, Anomalous, FilesOf, LeaseStates, Phases
  <2> QED
    BY <2>1, <2>2, <2>3, <2>4
<1>6. CASE JournalCommit
  <2>0. \A x, t : (Visible(x, t)' <=> Visible(x, t)) /\ (Clean(x, t)' <=> Clean(x, t))
    BY <1>6, SameFiles DEF JournalCommit
  <2>5. busy' = None \/ busy' = To("consume")
    BY <1>6, AppendEnds, Zenon DEF JournalCommit
  <2>1. TypeInv'
    BY <1>6, <2>5 DEF JournalCommit, To, LeaseStates, Phases
  <2>2. CallKnows' /\ CallPublishes'
    BY <1>6, <2>0, <2>5, FilesAreTargets DEF JournalCommit, To
  <2>3. PreimagesClean'
    BY <1>6, <2>0, <2>5 DEF JournalCommit, To, PreimagesClean, Sealed, FilesOf
  <2>4. OutcomesAgree'
    BY <1>6, <2>0, <2>5 DEF JournalCommit, To, OutcomesAgree, Anomalous, FilesOf, LeaseStates, Phases
  <2> QED
    BY <2>1, <2>2, <2>3, <2>4
<1>7. CASE ConsumeLease
  <2>0. \A x, t : (Visible(x, t)' <=> Visible(x, t)) /\ (Clean(x, t)' <=> Clean(x, t))
    BY <1>7, SameFiles DEF ConsumeLease
  <2>5. /\ busy # None /\ busy.cur \in Ops /\ busy.at = "consume"
        /\ lease' = [lease EXCEPT ![busy.cur] = "Consumed"]
        /\ UNCHANGED <<before, target>>
    BY <1>7 DEF ConsumeLease
  <2>6. \/ busy' = To("publishing") /\ UNCHANGED entry
        \/ busy' = None /\ UNCHANGED entry
        \/ /\ busy' = None
           /\ entry' = [entry EXCEPT ![busy.cur] = "RecoveryRequired"]
    BY <1>7 DEF ConsumeLease, Appended, CrashesAhead, Returns, Marked
  <2>1. TypeInv'
    BY <2>5, <2>6 DEF To, LeaseStates, Phases
  <2>2. CallKnows' /\ CallPublishes'
    BY <2>0, <2>5, <2>6, FilesAreTargets DEF To
  <2>3. PreimagesClean'
    BY <2>0, <2>5, <2>6 DEF To, PreimagesClean, Sealed, FilesOf
  <2>4. OutcomesAgree'
    BY <2>0, <2>5, <2>6 DEF OutcomesAgree, Anomalous, FilesOf, LeaseStates, Phases
  <2> QED
    BY <2>1, <2>2, <2>3, <2>4
<1>8. CASE TurnDone
  <2>0. \A x, t : (Visible(x, t)' <=> Visible(x, t)) /\ (Clean(x, t)' <=> Clean(x, t))
    BY <1>8, SameFiles DEF TurnDone
  <2>5. /\ busy # None /\ busy \in Calls /\ busy.cur \in Ops /\ busy.at = "publishing"
        /\ busy.n = Len(Files[busy.cur])
        /\ UNCHANGED <<lease, entry, before, target>>
    BY <1>8 DEF TurnDone
  <2>6. busy' = [busy EXCEPT !.at = "reconcile"] \/ busy' = [busy EXCEPT !.at = "seal"]
    BY <1>8 DEF TurnDone, To
  <2>1. TypeInv'
    BY <2>5, <2>6 DEF LeaseStates, Phases
  <2>7. busy'.cur = busy.cur /\ busy'.at \in {"reconcile", "seal"}
    BY <2>5, <2>6
  <2>8. CallKnows'
    BY <2>5, <2>7
  <2>9. \A t \in FilesOf(busy.cur) : Visible(busy.cur, t)
    <3>1. \A i \in 1..Len(Files[busy.cur]) : Visible(busy.cur, Files[busy.cur][i])
      BY <2>5
    <3> QED
      BY <2>5, <3>1, FilesAreTargets
  <2>2. CallPublishes'
    BY <2>0, <2>7, <2>9 DEF FilesOf
  <2>3. PreimagesClean'
    BY <2>0, <2>5, <2>6 DEF PreimagesClean, Sealed, FilesOf
  <2>4. OutcomesAgree'
    BY <2>0, <2>5 DEF OutcomesAgree, Anomalous, FilesOf
  <2> QED
    BY <2>1, <2>2, <2>3, <2>4, <2>8
<1>9. CASE MarkReconciled
  <2>0. \A x, t : (Visible(x, t)' <=> Visible(x, t)) /\ (Clean(x, t)' <=> Clean(x, t))
    BY <1>9, SameFiles DEF MarkReconciled
  <2>5. busy' = None \/ busy' = To("seal")
    BY <1>9, AppendEnds, Zenon DEF MarkReconciled
  <2>1. TypeInv'
    BY <1>9, <2>5 DEF MarkReconciled, To, LeaseStates, Phases
  <2>2. CallKnows' /\ CallPublishes'
    BY <1>9, <2>0, <2>5, FilesAreTargets DEF MarkReconciled, To
  <2>3. PreimagesClean'
    BY <1>9, <2>0, <2>5 DEF MarkReconciled, To, PreimagesClean, Sealed, FilesOf
  <2>4. OutcomesAgree'
    BY <1>9, <2>0, <2>5 DEF MarkReconciled, To, OutcomesAgree, Anomalous, FilesOf, LeaseStates, Phases
  <2> QED
    BY <2>1, <2>2, <2>3, <2>4
<1>10. CASE MarkPublished
  <2>0. \A x, t : (Visible(x, t)' <=> Visible(x, t)) /\ (Clean(x, t)' <=> Clean(x, t))
    BY <1>10, SameFiles DEF MarkPublished
  <2>5. /\ busy # None /\ busy.cur \in Ops /\ busy.at = "seal"
        /\ entry' = [entry EXCEPT ![busy.cur] = "Published"]
        /\ UNCHANGED <<lease, before, target>>
    BY <1>10 DEF MarkPublished
  <2>6. busy' = None \/ (busy' \in Calls /\ busy'.at = "recover")
    <3>1. \/ busy' = None
          \/ busy' = IF busy.rec THEN [To("recover") EXCEPT !.cur = None, !.n = 0] ELSE None
      BY <1>10, AppendEnds, Zenon DEF MarkPublished
    <3>2. PICK b : b = To("recover")
      OBVIOUS
    <3>3. b \in Calls /\ b.at = "recover"
      BY <2>5, <3>2 DEF To
    <3>4. [b EXCEPT !.cur = None, !.n = 0] \in Calls /\ [b EXCEPT !.cur = None, !.n = 0].at = "recover"
      BY <3>3
    <3> QED
      BY <3>1, <3>2, <3>4
  <2>1. TypeInv'
    BY <2>5, <2>6 DEF Phases
  <2>2. CallKnows' /\ CallPublishes'
    BY <2>6
  <2>3. PreimagesClean'
    BY <2>0, <2>5, <2>6 DEF PreimagesClean, Sealed, FilesOf
  <2>4. OutcomesAgree'
    BY <2>0, <2>5 DEF OutcomesAgree, Anomalous, FilesOf, LeaseStates, Phases
  <2> QED
    BY <2>1, <2>2, <2>3, <2>4
<1> QED
  BY <1>1, <1>2, <1>3, <1>4, <1>5, <1>6, <1>7, <1>8, <1>9, <1>10

\* The steps of recovery.
LEMMA RecoveryStepsKeep ==
    ASSUME EMIndInv, NEW o \in Ops,
           \/ AbortPrepared(o)
           \/ CleanUp(o)
           \/ RecoverConsume(o)
           \/ RecoverTurn(o)
           \/ RecoverReconciled(o)
           \/ AbortOrphan(o)
           \/ CleanUpOrphan(o)
    PROVE  EMIndInv'
<1> USE DEF At, EMIndInv, TypeInv, CallKnows, CallPublishes, Calls, Places, Pending
<1>1. CASE AbortPrepared(o)
  <2>0. \A x, t : (Visible(x, t)' <=> Visible(x, t)) /\ (Clean(x, t)' <=> Clean(x, t))
    BY <1>1, SameFiles DEF AbortPrepared
  <2>5. busy' = None \/ busy' = busy
    BY <1>1, AppendEnds, Zenon DEF AbortPrepared
  <2>1. TypeInv'
    BY <1>1, <2>5 DEF AbortPrepared, LeaseStates, Phases
  <2>2. CallKnows' /\ CallPublishes'
    BY <1>1, <2>0, <2>5, FilesAreTargets DEF AbortPrepared
  <2>3. PreimagesClean'
    BY <1>1, <2>0, <2>5 DEF AbortPrepared, PreimagesClean, Sealed, FilesOf
  <2>4. OutcomesAgree'
    BY <1>1, <2>0, <2>5 DEF AbortPrepared, OutcomesAgree, Anomalous, FilesOf, LeaseStates, Phases
  <2> QED
    BY <2>1, <2>2, <2>3, <2>4
<1>2. CASE CleanUp(o)
  <2>0. \A x, t : (Visible(x, t)' <=> Visible(x, t)) /\ (Clean(x, t)' <=> Clean(x, t))
    BY <1>2, SameFiles DEF CleanUp
  <2>1. TypeInv'
    BY <1>2 DEF CleanUp, LeaseStates, Phases
  <2>2. CallKnows' /\ CallPublishes'
    BY <1>2, <2>0, FilesAreTargets DEF CleanUp
  <2>3. PreimagesClean'
    BY <1>2, <2>0 DEF CleanUp, PreimagesClean, Sealed, FilesOf
  <2>4. OutcomesAgree'
    BY <1>2, <2>0 DEF CleanUp, OutcomesAgree, Anomalous, FilesOf, LeaseStates, Phases
  <2> QED
    BY <2>1, <2>2, <2>3, <2>4
<1>3. CASE RecoverConsume(o)
  <2>0. \A x, t : (Visible(x, t)' <=> Visible(x, t)) /\ (Clean(x, t)' <=> Clean(x, t))
    BY <1>3, SameFiles DEF RecoverConsume
  <2>5. busy' = None \/ busy' = busy
    BY <1>3, AppendEnds, Zenon DEF RecoverConsume
  <2>1. TypeInv'
    BY <1>3, <2>5 DEF RecoverConsume, LeaseStates, Phases
  <2>2. CallKnows' /\ CallPublishes'
    BY <1>3, <2>0, <2>5, FilesAreTargets DEF RecoverConsume
  <2>3. PreimagesClean'
    BY <1>3, <2>0, <2>5 DEF RecoverConsume, PreimagesClean, Sealed, FilesOf
  <2>4. OutcomesAgree'
    BY <1>3, <2>0, <2>5 DEF RecoverConsume, OutcomesAgree, Anomalous, FilesOf, LeaseStates, Phases
  <2> QED
    BY <2>1, <2>2, <2>3, <2>4
<1>4. CASE RecoverTurn(o)
  <2>0. \A x, t : (Visible(x, t)' <=> Visible(x, t)) /\ (Clean(x, t)' <=> Clean(x, t))
    BY <1>4, SameFiles DEF RecoverTurn
  <2>1. TypeInv'
    BY <1>4 DEF RecoverTurn, LeaseStates, Phases
  <2>2. CallKnows' /\ CallPublishes'
    <3>1. entry[o] \in Pending /\ lease[o] \in {"Finalizing", "Consumed"}
      BY <1>4 DEF RecoverTurn, OutcomesAgree, Anomalous
    <3>2. /\ busy' # None => busy' \in Calls /\ busy'.cur = o /\ busy'.n = 0
          /\ busy'.at = "consume" \/ (busy'.at = "publishing" /\ lease[o] = "Consumed")
          /\ UNCHANGED <<lease, entry>>
      BY <1>4 DEF RecoverTurn
    <3> QED
      BY <3>1, <3>2, FilesAreTargets
  <2>3. PreimagesClean'
    BY <1>4, <2>0 DEF RecoverTurn, PreimagesClean, Sealed, FilesOf
  <2>4. OutcomesAgree'
    BY <1>4, <2>0 DEF RecoverTurn, OutcomesAgree, Anomalous, FilesOf, LeaseStates, Phases
  <2> QED
    BY <2>1, <2>2, <2>3, <2>4
<1>5. CASE RecoverReconciled(o)
  <2>0. \A x, t : (Visible(x, t)' <=> Visible(x, t)) /\ (Clean(x, t)' <=> Clean(x, t))
    BY <1>5, SameFiles DEF RecoverReconciled
  <2>5. busy' = None \/ busy' = busy
    BY <1>5, AppendEnds, Zenon DEF RecoverReconciled
  <2>1. TypeInv'
    BY <1>5, <2>5 DEF RecoverReconciled, LeaseStates, Phases
  <2>2. CallKnows' /\ CallPublishes'
    BY <1>5, <2>0, <2>5, FilesAreTargets DEF RecoverReconciled
  <2>3. PreimagesClean'
    BY <1>5, <2>0, <2>5 DEF RecoverReconciled, PreimagesClean, Sealed, FilesOf
  <2>4. OutcomesAgree'
    BY <1>5, <2>0, <2>5 DEF RecoverReconciled, OutcomesAgree, Anomalous, FilesOf, LeaseStates, Phases
  <2> QED
    BY <2>1, <2>2, <2>3, <2>4
<1>6. CASE AbortOrphan(o)
  <2>0. \A x, t : (Visible(x, t)' <=> Visible(x, t)) /\ (Clean(x, t)' <=> Clean(x, t))
    BY <1>6, SameFiles DEF AbortOrphan
  <2>5. busy' = None \/ busy' = busy
    BY <1>6, AppendEnds, Zenon DEF AbortOrphan
  <2>1. TypeInv'
    BY <1>6, <2>5 DEF AbortOrphan, LeaseStates, Phases
  <2>2. CallKnows' /\ CallPublishes'
    BY <1>6, <2>0, <2>5, FilesAreTargets DEF AbortOrphan
  <2>3. PreimagesClean'
    BY <1>6, <2>0, <2>5 DEF AbortOrphan, PreimagesClean, Sealed, FilesOf
  <2>4. OutcomesAgree'
    BY <1>6, <2>0, <2>5 DEF AbortOrphan, OutcomesAgree, Anomalous, FilesOf, LeaseStates, Phases
  <2> QED
    BY <2>1, <2>2, <2>3, <2>4
<1>7. CASE CleanUpOrphan(o)
  <2>0. \A x, t : (Visible(x, t)' <=> Visible(x, t)) /\ (Clean(x, t)' <=> Clean(x, t))
    BY <1>7, SameFiles DEF CleanUpOrphan
  <2>1. TypeInv'
    BY <1>7 DEF CleanUpOrphan, LeaseStates, Phases
  <2>2. CallKnows' /\ CallPublishes'
    BY <1>7, <2>0, FilesAreTargets DEF CleanUpOrphan
  <2>3. PreimagesClean'
    BY <1>7, <2>0 DEF CleanUpOrphan, PreimagesClean, Sealed, FilesOf
  <2>4. OutcomesAgree'
    BY <1>7, <2>0 DEF CleanUpOrphan, OutcomesAgree, Anomalous, FilesOf, LeaseStates, Phases
  <2> QED
    BY <2>1, <2>2, <2>3, <2>4
<1> QED
  BY <1>1, <1>2, <1>3, <1>4, <1>5, <1>6, <1>7

\* A call begins, with recovery.
LEMMA AdmissionKeeps ==
    ASSUME EMIndInv, UNCHANGED <<lease, entry, before, target>>,
           busy' \in Calls, busy'.at = "recover"
    PROVE  EMIndInv'
<1>0. \A x, t : (Visible(x, t)' <=> Visible(x, t)) /\ (Clean(x, t)' <=> Clean(x, t))
  BY SameFiles
<1>1. TypeInv' /\ CallKnows' /\ CallPublishes'
  BY DEF EMIndInv, TypeInv, CallKnows, CallPublishes
<1>2. PreimagesClean'
  BY <1>0 DEF EMIndInv, PreimagesClean, Sealed, FilesOf
<1>3. OutcomesAgree'
  BY <1>0 DEF EMIndInv, OutcomesAgree, Anomalous, FilesOf
<1> QED
  BY <1>1, <1>2, <1>3 DEF EMIndInv

\* The preimages are sealed while the lease is unused, so they are clean.
LEMMA InspectKeeps ==
    ASSUME EMIndInv, Inspect
    PROVE  EMIndInv'
<1>0. PICK o : o = busy.req
  OBVIOUS
<1>1. /\ busy # None /\ busy \in Calls /\ o \in Ops
      /\ lease[o] = "Unused" /\ busy.at = "recover"
      /\ before' = [before EXCEPT ![o] = [t \in FilesOf(o) |-> target[t]]]
      /\ busy' = [busy EXCEPT !.cur = o, !.at = "reserve", !.n = 0, !.rec = FALSE]
      /\ UNCHANGED <<lease, entry, target>>
  BY <1>0 DEF Inspect, BarrierPassed, At, EMIndInv, TypeInv, Calls
<1>2. entry[o] = "none" /\ \A t \in Targets : ~Visible(o, t)
  BY <1>1 DEF EMIndInv, TypeInv, OutcomesAgree, Anomalous, Pending, Phases
<1>3. \A x, t : Visible(x, t)' <=> Visible(x, t)
  BY <1>1 DEF Visible
<1>4. busy' \in Calls /\ busy'.cur = o /\ busy'.at = "reserve"
  BY <1>1 DEF Calls, Places
<1>5. TypeInv'
  BY <1>1, <1>4 DEF EMIndInv, TypeInv
<1>6. CallKnows' /\ CallPublishes'
  BY <1>1, <1>2, <1>4 DEF CallKnows, CallPublishes
<1>7. PreimagesClean'
  <2>1. ASSUME NEW t \in FilesOf(o) PROVE Clean(o, t)'
    <3>1. before'[o][t] = target[t] /\ t \in Targets /\ target[t] \in Seq(Ops \cup Writers)
      BY <1>1, FilesAreTargets DEF EMIndInv, TypeInv
    <3> QED
      BY <1>2, <3>1 DEF Clean, Visible
  <2>2. ASSUME NEW x \in Ops, x # o PROVE (Sealed(x)' => Sealed(x)) /\ before'[x] = before[x]
    BY <1>1, <1>4, <2>2 DEF Sealed, EMIndInv, TypeInv
  <2>3. ASSUME NEW x \in Ops, x # o, Sealed(x)', NEW t \in FilesOf(x) PROVE Clean(x, t)'
    BY <2>2, <2>3 DEF Clean, EMIndInv, PreimagesClean
  <2> QED
    BY <2>1, <2>3 DEF PreimagesClean, FilesOf
<1>8. OutcomesAgree'
  BY <1>1, <1>3 DEF EMIndInv, OutcomesAgree, Anomalous, FilesOf
<1> QED
  BY <1>5, <1>6, <1>7, <1>8 DEF EMIndInv

-----------------------------------------------------------------------------
(* Steps that write files. *)

\* One file of the running operation is published: it was, or it is appended to a
\* file that does not show the operation yet.
LEMMA PublishShape ==
    ASSUME EMIndInv, PublishFile, NEW o, o = busy.cur, NEW t, t = Files[o][busy.n + 1]
    PROVE  /\ o \in Ops /\ t \in Targets /\ t \in FilesOf(o)
           /\ busy # None /\ busy \in Calls /\ busy.at = "publishing"
           /\ busy.n + 1 \in 1..Len(Files[o])
           /\ \/ target' = target /\ Visible(o, t)
              \/ /\ target' = [target EXCEPT ![t] = Append(target[t], o)]
                 /\ ~Visible(o, t)
<1>1. /\ busy # None /\ busy \in Calls /\ busy.at = "publishing" /\ busy.n \in Nat
      /\ o \in Ops /\ busy.n < Len(Files[o])
  BY DEF PublishFile, Unpublished, At, EMIndInv, TypeInv, CallKnows, Calls
<1>2. /\ busy.n + 1 \in 1..Len(Files[o])
      /\ t \in FilesOf(o) /\ t \in Targets
  BY <1>1, FilesAreTargets
<1>3. /\ target[t] = After(o, t) \/ target[t] = before[o][t]
      /\ target' = [target EXCEPT ![t] = After(o, t)]
  BY DEF PublishFile
<1>4. Clean(o, t)
  BY <1>1, <1>2 DEF EMIndInv, PreimagesClean, Sealed
<1>5. CASE target[t] = before[o][t]
  <2>1. target' = [target EXCEPT ![t] = Append(target[t], o)]
    BY <1>3, <1>5 DEF After
  <2>2. ~Visible(o, t)
    BY <1>4, <1>5 DEF Clean, Visible
  <2> QED
    BY <1>1, <1>2, <2>1, <2>2
<1>6. CASE target[t] # before[o][t]
  <2>1. target[t] = After(o, t)
    BY <1>3, <1>6
  <2>2. target' = target
    BY <1>2, <1>3, <2>1 DEF EMIndInv, TypeInv
  <2>3. Visible(o, t)
    <3>1. PICK s \in Seq(Ops \cup Writers) : s = before[o][t]
      BY <1>4 DEF Clean
    <3>2. o \in Ops \cup Writers
      BY <1>1
    <3>3. \E i \in DOMAIN Append(s, o) : Append(s, o)[i] = o
      BY ONLY <3>2, s \in Seq(Ops \cup Writers), LastIsShown, Zenon
    <3>4. target[t] = Append(s, o)
      BY <2>1, <3>1 DEF After
    <3> QED
      BY <3>3, <3>4 DEF Visible
  <2> QED
    BY <1>1, <1>2, <2>2, <2>3
<1> QED
  BY <1>5, <1>6

\* Publishing one file.
LEMMA PublishKeeps ==
    ASSUME EMIndInv, PublishFile
    PROVE  EMIndInv'
<1>0. PICK o, t : o = busy.cur /\ t = Files[o][busy.n + 1]
  OBVIOUS
<1>1. /\ o \in Ops /\ t \in Targets /\ t \in FilesOf(o)
      /\ busy # None /\ busy \in Calls /\ busy.at = "publishing"
      /\ busy.n + 1 \in 1..Len(Files[o])
      /\ \/ target' = target /\ Visible(o, t)
         \/ target' = [target EXCEPT ![t] = Append(target[t], o)]
  BY <1>0, PublishShape
<1>2. /\ target' \in [Targets -> Seq(Ops \cup Writers)]
      /\ Visible(o, t)'
      /\ \A y, u : u \in Targets => (Visible(y, u) => Visible(y, u)')
      /\ \A y, u : u \in Targets /\ y # o => (Visible(y, u)' => Visible(y, u))
  <2>1. CASE target' = target /\ Visible(o, t)
    BY <2>1 DEF Visible, EMIndInv, TypeInv
  <2>2. CASE target' = [target EXCEPT ![t] = Append(target[t], o)]
    BY <1>1, <2>2, AppendShows DEF EMIndInv
  <2> QED
    BY <1>1, <2>1, <2>2
<1>3. /\ busy' = [busy EXCEPT !.n = busy.n + 1]
      /\ UNCHANGED <<lease, entry, before>>
      /\ lease[o] = "Consumed" /\ entry[o] \in Pending
  BY <1>0, <1>1 DEF PublishFile, EMIndInv, CallKnows
<1>4. /\ busy' \in Calls /\ busy'.at = "publishing" /\ busy'.cur = o
      /\ busy'.n = busy.n + 1 /\ busy.n \in Nat
  <2>1. busy' \in Calls
    BY <1>1, <1>3, CountedCall
  <2> QED
    BY <1>0, <1>1, <1>3, <2>1 DEF Calls
<1>5. TypeInv'
  BY <1>2, <1>3, <1>4 DEF EMIndInv, TypeInv
<1>6. CallKnows'
  BY <1>1, <1>3, <1>4 DEF CallKnows
<1>7. CallPublishes'
  <2>1. \A i \in 1..busy.n : Visible(o, Files[o][i])
    BY <1>0, <1>1 DEF EMIndInv, CallPublishes
  <2>2. \A i \in 1..(busy.n + 1) : Files[o][i] \in Targets
    BY <1>1, <1>4, FilesAreTargets
  <2>3. ASSUME NEW i \in 1..(busy.n + 1) PROVE Visible(o, Files[o][i])'
    <3>1. CASE i = busy.n + 1
      BY <1>0, <1>2, <3>1
    <3>2. CASE i \in 1..busy.n
      BY <1>2, <2>1, <2>2, <3>2
    <3> QED
      BY <1>4, <3>1, <3>2
  <2> QED
    BY <1>1, <1>4, <2>3, FilesAreTargets DEF CallPublishes
<1>8. PreimagesClean'
  <2>1. \A x \in Ops : Sealed(x)' => Sealed(x)
    BY <1>0, <1>1, <1>3, <1>4 DEF Sealed
  <2>2. \A x, u : Clean(x, u)' <=> Clean(x, u)
    BY <1>3 DEF Clean
  <2> QED
    BY <2>1, <2>2 DEF EMIndInv, PreimagesClean, FilesOf
<1>9. OutcomesAgree'
  <2>1. \A x \in Ops : Anomalous(x)' <=> Anomalous(x)
    BY <1>3 DEF Anomalous
  <2>2. ASSUME NEW x \in Ops, NEW u \in Targets, Visible(x, u)' PROVE lease'[x] = "Consumed"
    BY <1>2, <1>3, <2>2 DEF EMIndInv, OutcomesAgree
  <2>3. ASSUME NEW x \in Ops, entry'[x] \in {"Reconciled", "Published"}, NEW u \in FilesOf(x)
        PROVE  Visible(x, u)'
    BY <1>2, <1>3, <2>3, FilesAreTargets DEF EMIndInv, OutcomesAgree
  <2> QED
    BY <1>3, <2>1, <2>2, <2>3 DEF EMIndInv, OutcomesAgree, FilesOf
<1> QED
  BY <1>5, <1>6, <1>7, <1>8, <1>9 DEF EMIndInv

\* Another writer appends to a file in a turn of its own.
LEMMA OtherWriteKeeps ==
    ASSUME EMIndInv, NEW w \in Writers, NEW t \in Targets, OtherWrite(w, t)
    PROVE  EMIndInv'
<1>1. /\ target' = [target EXCEPT ![t] = Append(target[t], w)]
      /\ UNCHANGED <<lease, entry, before, busy>>
  BY DEF OtherWrite
<1>2. w \notin Ops
  BY WritersAssumption
<1>3. /\ target' \in [Targets -> Seq(Ops \cup Writers)]
      /\ \A x \in Ops, u \in Targets : Visible(x, u)' <=> Visible(x, u)
  BY <1>1, <1>2, AppendShows DEF EMIndInv
<1>4. TypeInv' /\ CallKnows'
  BY <1>1, <1>3 DEF EMIndInv, TypeInv, CallKnows
<1>5. CallPublishes'
  <2>1. SUFFICES ASSUME busy # None, busy.at \in {"publishing", "reconcile", "seal"}
                 PROVE  CallPublishes'
    BY <1>1 DEF EMIndInv, CallPublishes
  <2>2. busy.cur \in Ops /\ busy.n \in Nat
    BY <2>1 DEF EMIndInv, CallKnows, TypeInv, Calls
  <2>3. /\ FilesOf(busy.cur) \subseteq Targets
        /\ busy.n <= Len(Files[busy.cur]) => \A i \in 1..busy.n : Files[busy.cur][i] \in Targets
    BY <2>2, FilesAreTargets
  <2> QED
    BY <1>1, <1>3, <2>2, <2>3 DEF EMIndInv, CallPublishes, FilesOf
<1>6. PreimagesClean'
  BY <1>1 DEF EMIndInv, PreimagesClean, Sealed, Clean, FilesOf
<1>7. OutcomesAgree'
  <2>1. \A x \in Ops : FilesOf(x) \subseteq Targets
    BY FilesAreTargets
  <2> QED
    BY <1>1, <1>3, <2>1 DEF EMIndInv, OutcomesAgree, Anomalous, FilesOf
<1> QED
  BY <1>4, <1>5, <1>6, <1>7 DEF EMIndInv

-----------------------------------------------------------------------------
\* The invariant holds at first boot.
LEMMA InitKeeps == Init => EMIndInv
<1> SUFFICES ASSUME Init PROVE EMIndInv
  OBVIOUS
<1>1. TypeInv /\ CallKnows /\ CallPublishes
  BY DEF Init, TypeInv, CallKnows, CallPublishes, LeaseStates, Phases
<1>2. PreimagesClean
  BY DEF Init, PreimagesClean, Sealed
<1>3. OutcomesAgree
  <2>1. \A o \in Ops : lease[o] = "Unused" /\ entry[o] = "none"
    BY DEF Init
  <2>2. \A o \in Ops : ~Anomalous(o)
    BY <2>1 DEF Anomalous, Pending
  <2>3. \A o \in Ops, t \in Targets : ~Visible(o, t)
    BY DEF Init, Visible
  <2> QED
    BY <2>1, <2>2, <2>3 DEF OutcomesAgree
<1> QED
  BY <1>1, <1>2, <1>3 DEF EMIndInv

\* Every step keeps the invariant: one case per action of Next.
LEMMA NextKeeps == EMIndInv /\ [Next]_vars => EMIndInv'
<1> SUFFICES ASSUME EMIndInv, [Next]_vars PROVE EMIndInv'
  OBVIOUS
<1>1. ASSUME NEW o \in Ops, Request(o) PROVE EMIndInv'
  <2>1. busy' \in Calls /\ busy'.at = "recover"
    BY <1>1 DEF Request, Calls, Places
  <2> QED
    BY <1>1, <2>1, AdmissionKeeps DEF Request
<1>2. CASE Boot
  <2>1. busy' \in Calls /\ busy'.at = "recover"
    BY <1>2 DEF Boot, Calls, Places
  <2> QED
    BY <1>2, <2>1, AdmissionKeeps DEF Boot
<1>3. CASE Recover
  <2>1. PICK o \in Ops :
          \/ AbortPrepared(o) \/ CleanUp(o) \/ RecoverConsume(o) \/ RecoverTurn(o)
          \/ RecoverReconciled(o) \/ AbortOrphan(o) \/ CleanUpOrphan(o)
          \/ RecoverRefused(o)
    BY <1>3 DEF Recover
  <2>2. CASE RecoverRefused(o)
    BY <2>2, ReturnsKeeps DEF RecoverRefused, Returns
  <2> QED
    BY <2>1, <2>2, RecoveryStepsKeep
<1>4. CASE BootDone \/ ReplyTerminal \/ Refused \/ ActorRefuses \/ Crash
  BY <1>4, ReturnsKeeps DEF BootDone, ReplyTerminal, Refused, ActorRefuses, Crash, Returns
<1>5. CASE PublishRefused \/ Fail
  <2>1. busy # None /\ busy' = None /\ UNCHANGED <<lease, before, target>>
    BY <1>5 DEF PublishRefused, Fail, Returns, Unpublished, At
  <2>2. \/ UNCHANGED entry
        \/ /\ busy.at \in {"consume", "publishing", "reconcile"}
           /\ entry[busy.cur] \in Pending
           /\ entry' = [entry EXCEPT ![busy.cur] = "RecoveryRequired"]
    BY <1>5 DEF PublishRefused, Fail, Marked, Unpublished, At
  <2>3. busy.at \in {"consume", "publishing", "reconcile"} => busy.cur \in Ops
    BY <2>1 DEF EMIndInv, CallKnows
  <2> QED
    BY <2>1, <2>2, <2>3, ReturnsKeeps
<1>6. CASE Inspect
  BY <1>6, InspectKeeps
<1>7. CASE \/ Reserve \/ Stage \/ JournalPrepare \/ ActorReady \/ FinalizationPrepared
           \/ JournalCommit \/ ConsumeLease \/ TurnDone \/ MarkReconciled \/ MarkPublished
  BY <1>7, CallStepsKeep
<1>8. CASE PublishFile
  BY <1>8, PublishKeeps
<1>9. ASSUME NEW w \in Writers, NEW t \in Targets, OtherWrite(w, t) PROVE EMIndInv'
  BY <1>9, OtherWriteKeeps
<1>10. CASE UNCHANGED vars
  <2>1. \A x, t : (Visible(x, t)' <=> Visible(x, t)) /\ (Clean(x, t)' <=> Clean(x, t))
    BY <1>10, SameFiles DEF vars
  <2>2. TypeInv' /\ CallKnows' /\ CallPublishes'
    BY <1>10, <2>1 DEF vars, EMIndInv, TypeInv, CallKnows, CallPublishes, FilesOf
  <2>3. PreimagesClean' /\ OutcomesAgree'
    BY <1>10, <2>1 DEF vars, EMIndInv, PreimagesClean, Sealed, OutcomesAgree, Anomalous, FilesOf
  <2> QED
    BY <2>2, <2>3 DEF EMIndInv
<1> QED
  BY <1>1, <1>2, <1>3, <1>4, <1>5, <1>6, <1>7, <1>8, <1>9, <1>10 DEF Next, OwnerStep

(***************************************************************************)
(* Broker, journal and files agree about every operation, for any number   *)
(* of operations, files, writers, faults and crashes                       *)
(* (external_mutation_service.rs, owner_authorization_broker.rs).          *)
(***************************************************************************)
THEOREM OutcomesAlwaysAgree == Spec => []OutcomesAgree
<1>1. EMIndInv => OutcomesAgree
  BY DEF EMIndInv
<1> QED
  BY <1>1, InitKeeps, NextKeeps, PTL DEF Spec

(***************************************************************************)
(* No step of the service, its recovery or another writer takes a write    *)
(* out of a file or makes one twice (StagedFileV1::forward_publish).       *)
(***************************************************************************)
THEOREM NoUpdateLost == Spec => FilesOnlyGrow
<1> DEFINE Grow == \A t \in Targets :
                      \/ target'[t] = target[t]
                      \/ \E x \in Ops \cup Writers :
                            ~Visible(x, t) /\ target'[t] = Append(target[t], x)
<1>1. ASSUME EMIndInv, [Next]_vars PROVE [Grow]_vars
  <2>1. CASE PublishFile
    <3>1. PICK o, t : o = busy.cur /\ t = Files[o][busy.n + 1]
      OBVIOUS
    <3>2. /\ o \in Ops /\ t \in Targets
          /\ \/ target' = target
             \/ /\ target' = [target EXCEPT ![t] = Append(target[t], o)]
                /\ ~Visible(o, t)
      BY <1>1, <2>1, <3>1, PublishShape
    <3> QED
      BY <1>1, <3>2 DEF EMIndInv, TypeInv
  <2>2. ASSUME NEW w \in Writers, NEW t \in Targets, OtherWrite(w, t) PROVE Grow
    <3>1. target' = [target EXCEPT ![t] = Append(target[t], w)] /\ ~Visible(w, t)
      BY <2>2 DEF OtherWrite
    <3> QED
      BY <1>1, <3>1 DEF EMIndInv, TypeInv
  <2>3. CASE UNCHANGED target
    BY <2>3
  <2>4. Next => \/ PublishFile \/ UNCHANGED target
                \/ \E w \in Writers, t \in Targets : OtherWrite(w, t)
    BY DEF Next, OwnerStep, Recover, Request, Boot, AbortPrepared, CleanUp, RecoverConsume,
           RecoverTurn, RecoverRefused, RecoverReconciled, AbortOrphan, CleanUpOrphan,
           BootDone, ReplyTerminal, Inspect, Refused, Reserve, Stage, JournalPrepare,
           ActorReady, ActorRefuses, FinalizationPrepared, JournalCommit, ConsumeLease,
           PublishRefused, TurnDone, MarkReconciled, MarkPublished, Fail, Crash
  <2> QED
    BY <1>1, <2>1, <2>2, <2>3, <2>4
<1> QED
  BY <1>1, InitKeeps, NextKeeps, PTL DEF Spec, FilesOnlyGrow
=============================================================================
