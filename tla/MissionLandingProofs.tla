------------------------ MODULE MissionLandingProofs ------------------------
(***************************************************************************)
(* Proofs about MissionLanding, for any missions, packets, transactions    *)
(* and keys and whatever keys the clients reuse: a landing is visible      *)
(* exactly when its COMMIT is durable and applied, no COMMIT is lost, and  *)
(* landings are serial.                                                    *)
(***************************************************************************)
EXTENDS MissionLanding, FiniteSetTheorems, TLAPS

Landing == {"prepare", "provisional", "commit", "apply"}

\* The head and store version that transaction x was made for are in place.
Reserved(x) == Extensible(x) /\ heads[x.mission].store = x.store

\* A COMMIT that recovery has still to apply.
Pending(id) == PhaseOf(id) = "commit" /\ ~Applied(wal[id].tx)

(***************************************************************************)
(* The inductive invariant.  CommitNeverLost needs to know why nobody      *)
(* moves a head or the store version under a COMMIT: a request is served   *)
(* only when no COMMIT is pending, a landing that is under way holds its   *)
(* reservation, and so at most one COMMIT is ever pending.  That rests on  *)
(* plans and WAL naming each other one to one.                             *)
(***************************************************************************)
PlansUnique == \A x, y \in plans : x.id = y.id => x = y

WalNamesPlans == \A id \in TxIds : wal[id] # None => wal[id].tx \in plans /\ wal[id].tx.id = id

JobHoldsReservation ==
    job.pc \in Landing => /\ job.tx \in plans
                          /\ job.pc # "apply" => Reserved(job.tx) /\ PhaseOf(job.tx.id) # "commit"

ServesSettled ==
    job.pc \notin {"idle", "recover"} =>
        \A id \in TxIds : Pending(id) => job.pc = "apply" /\ id = job.tx.id

OnePending == \A id, jd \in TxIds : Pending(id) /\ Pending(jd) => id = jd

PendingReserved == \A id \in TxIds : Pending(id) => Reserved(wal[id].tx)

ReceiptsCommitted ==
    \A rc \in receipts : /\ PhaseOf(rc.tx.id) = "commit" /\ wal[rc.tx.id].tx = rc.tx
                         /\ heads[rc.tx.mission].state = "landed"
                         /\ heads[rc.tx.mission].seq = rc.tx.seq + 1
                         /\ heads[rc.tx.mission].store = rc.resulting

LandedHasReceipt ==
    \A m \in Missions : heads[m].state = "landed" => \E rc \in receipts : rc.tx.mission = m

StorePositive == store >= 1

LettersHaveState == \A m \in Missions : heads[m].seq = 0 => heads[m].state = NoState

LandingIndInv ==
    /\ TypeOK
    /\ PlansUnique
    /\ WalNamesPlans
    /\ JobHoldsReservation
    /\ ServesSettled
    /\ OnePending
    /\ PendingReserved
    /\ ReceiptsCommitted
    /\ LandedHasReceipt
    /\ LettersHaveState
    /\ StorePositive
    /\ LandingsSerial

-----------------------------------------------------------------------------
(* The parts of the invariant that the job does not appear in. *)

DiskInv ==
    /\ PlansUnique
    /\ WalNamesPlans
    /\ OnePending
    /\ PendingReserved
    /\ ReceiptsCommitted
    /\ LandedHasReceipt
    /\ LettersHaveState
    /\ StorePositive
    /\ LandingsSerial

JobTypes == [pc : {"idle", "recover", "serve"}, tx : {None}]
            \cup [pc : Landing, tx : Transactions]

\* A job that is not landing has no transaction; one that is has one.
LEMMA JobShape ==
    ASSUME TypeOK
    PROVE  /\ job \in JobTypes
           /\ job.pc \in Landing => job.tx \in Transactions /\ job = [pc |-> job.pc, tx |-> job.tx]
           /\ job.pc \notin Landing => job = [pc |-> job.pc, tx |-> None]
BY DEF TypeOK, JobTypes, Landing

\* Moving a landing's job on keeps its transaction.
LEMMA JobAdvances ==
    ASSUME NEW j, NEW c, NEW d, NEW x, j = [pc |-> c, tx |-> x]
    PROVE  [j EXCEPT !.pc = d] = [pc |-> d, tx |-> x]
OBVIOUS

\* The invariant is its disk part, the type and the two facts about the job.
LEMMA IndInvParts ==
    LandingIndInv <=> TypeOK /\ DiskInv /\ JobHoldsReservation /\ ServesSettled
BY DEF LandingIndInv, DiskInv

\* A step that only moves the job keeps the disk part.
LEMMA DiskUnchanged ==
    ASSUME DiskInv, UNCHANGED <<heads, store, receipts, plans, wal>>
    PROVE  DiskInv' /\ \A id : Pending(id)' <=> Pending(id)
<1>1. \A id : PhaseOf(id)' = PhaseOf(id)
  BY DEF PhaseOf
<1>2. \A x : Applied(x)' <=> Applied(x)
  BY DEF Applied
<1>3. \A x : Reserved(x)' <=> Reserved(x)
  BY DEF Reserved, Extensible
<1>4. \A id : Pending(id)' <=> Pending(id)
  BY <1>1, <1>2 DEF Pending
<1>5. PlansUnique' /\ WalNamesPlans'
  BY DEF DiskInv, PlansUnique, WalNamesPlans
<1>6. OnePending' /\ PendingReserved'
  BY <1>3, <1>4 DEF DiskInv, OnePending, PendingReserved
<1>7. ReceiptsCommitted'
  BY <1>1 DEF DiskInv, ReceiptsCommitted
<1>8. LandedHasReceipt' /\ LettersHaveState' /\ StorePositive' /\ LandingsSerial'
  BY DEF DiskInv, LandedHasReceipt, LettersHaveState, StorePositive, LandingsSerial
<1> QED
  BY <1>4, <1>5, <1>6, <1>7, <1>8 DEF DiskInv

\* What the WAL says after a phase of transaction x was appended.
LEMMA WalPhases ==
    ASSUME TypeOK, NEW x \in Transactions, NEW ph \in Phases,
           wal' = [wal EXCEPT ![x.id] = [phase |-> ph, tx |-> x]]
    PROVE  /\ x.id \in TxIds
           /\ PhaseOf(x.id)' = ph /\ wal'[x.id] # None /\ wal'[x.id].tx = x
           /\ \A id \in TxIds : id # x.id => wal'[id] = wal[id] /\ PhaseOf(id)' = PhaseOf(id)
           /\ wal' \in [TxIds -> WalEntries \cup {None}]
<1>1. x.id \in TxIds
  BY DEF Transactions
<1>2. [phase |-> ph, tx |-> x] \in WalEntries
  BY DEF WalEntries
<1>3. wal'[x.id] = [phase |-> ph, tx |-> x] /\ wal'[x.id] # None
  BY <1>1, <1>2, LandingNoneAssumption DEF TypeOK
<1> QED
  BY <1>1, <1>2, <1>3 DEF TypeOK, PhaseOf

\* Appending a phase other than COMMIT over one other than COMMIT disturbs no
\* receipt and no pending COMMIT.
LEMMA AppendKeepsDisk ==
    ASSUME TypeOK, DiskInv, NEW x \in plans, NEW ph \in Phases, ph # "commit",
           PhaseOf(x.id) # "commit",
           wal' = [wal EXCEPT ![x.id] = [phase |-> ph, tx |-> x]],
           UNCHANGED <<heads, store, receipts, plans>>
    PROVE  DiskInv' /\ \A id \in TxIds : Pending(id)' <=> Pending(id)
<1>0. x \in Transactions
  BY DEF TypeOK
<1>1. /\ x.id \in TxIds
      /\ PhaseOf(x.id)' = ph /\ wal'[x.id] # None /\ wal'[x.id].tx = x
      /\ \A id \in TxIds : id # x.id => wal'[id] = wal[id] /\ PhaseOf(id)' = PhaseOf(id)
  BY <1>0, WalPhases
<1>2. \A y : (Applied(y)' <=> Applied(y)) /\ (Reserved(y)' <=> Reserved(y))
  BY DEF Applied, Reserved, Extensible
<1>3. ASSUME NEW id \in TxIds PROVE Pending(id)' <=> Pending(id)
  BY <1>1, <1>2 DEF Pending
<1>4. PlansUnique' /\ WalNamesPlans'
  BY <1>1 DEF DiskInv, PlansUnique, WalNamesPlans
<1>5. OnePending'
  BY <1>3 DEF DiskInv, OnePending
<1>6. PendingReserved'
  <2> SUFFICES ASSUME NEW id \in TxIds, Pending(id)' PROVE Reserved(wal[id].tx)'
      BY DEF PendingReserved
  <2>1. Pending(id) /\ id # x.id
    BY <1>1, <1>3 DEF Pending
  <2> QED
    BY <2>1, <1>1 DEF DiskInv, PendingReserved, Reserved, Extensible
<1>7. ReceiptsCommitted'
  <2> SUFFICES ASSUME NEW rc \in receipts
               PROVE  PhaseOf(rc.tx.id)' = "commit" /\ wal'[rc.tx.id].tx = rc.tx
      BY DEF DiskInv, ReceiptsCommitted
  <2>1. rc.tx.id \in TxIds /\ rc.tx.id # x.id
    BY DEF TypeOK, Receipts, Transactions, DiskInv, ReceiptsCommitted
  <2> QED
    BY <2>1, <1>1 DEF DiskInv, ReceiptsCommitted
<1>8. LandedHasReceipt' /\ LettersHaveState' /\ StorePositive' /\ LandingsSerial'
  BY DEF DiskInv, LandedHasReceipt, LettersHaveState, StorePositive, LandingsSerial
<1> QED
  BY <1>3, <1>4, <1>5, <1>6, <1>7, <1>8 DEF DiskInv

\* COMMIT of the transaction that holds the reservation, when no other COMMIT is
\* pending, makes it the pending one.
LEMMA CommitKeepsDisk ==
    ASSUME TypeOK, DiskInv, NEW x \in plans, PhaseOf(x.id) # "commit", Reserved(x),
           \A id \in TxIds : ~Pending(id),
           wal' = [wal EXCEPT ![x.id] = [phase |-> "commit", tx |-> x]],
           UNCHANGED <<heads, store, receipts, plans>>
    PROVE  DiskInv' /\ \A id \in TxIds : Pending(id)' => id = x.id
<1>0. x \in Transactions /\ "commit" \in Phases
  BY DEF TypeOK, Phases
<1>1. /\ x.id \in TxIds
      /\ PhaseOf(x.id)' = "commit" /\ wal'[x.id] # None /\ wal'[x.id].tx = x
      /\ \A id \in TxIds : id # x.id => wal'[id] = wal[id] /\ PhaseOf(id)' = PhaseOf(id)
  BY <1>0, WalPhases
<1>2. ASSUME NEW id \in TxIds, Pending(id)' PROVE id = x.id
  BY <1>1, <1>2 DEF Pending, Applied
<1>3. PlansUnique' /\ WalNamesPlans'
  BY <1>1 DEF DiskInv, PlansUnique, WalNamesPlans
<1>4. OnePending'
  BY <1>2 DEF OnePending
<1>5. PendingReserved'
  BY <1>1, <1>2 DEF PendingReserved, Reserved, Extensible
<1>6. ReceiptsCommitted'
  <2> SUFFICES ASSUME NEW rc \in receipts
               PROVE  PhaseOf(rc.tx.id)' = "commit" /\ wal'[rc.tx.id].tx = rc.tx
      BY DEF DiskInv, ReceiptsCommitted
  <2>1. rc.tx.id \in TxIds /\ rc.tx.id # x.id
    BY DEF TypeOK, Receipts, Transactions, DiskInv, ReceiptsCommitted
  <2> QED
    BY <2>1, <1>1 DEF DiskInv, ReceiptsCommitted
<1>7. LandedHasReceipt' /\ LettersHaveState' /\ StorePositive' /\ LandingsSerial'
  BY DEF DiskInv, LandedHasReceipt, LettersHaveState, StorePositive, LandingsSerial
<1> QED
  BY <1>2, <1>3, <1>4, <1>5, <1>6, <1>7 DEF DiskInv

\* apply_committed_bundle for a pending COMMIT: one mission lands, the store
\* version moves by one, and nothing is pending afterwards.
LEMMA ApplyKeepsDisk ==
    ASSUME TypeOK, DiskInv, NEW x \in plans, ApplyBundle(x), UNCHANGED <<plans, wal>>
    PROVE  /\ DiskInv' /\ \A id \in TxIds : Pending(id)' => Pending(id) /\ id # x.id
           /\ heads' \in [Missions -> LandingHeads] /\ store' \in Nat /\ receipts' \subseteq Receipts
<1>0. x \in Transactions /\ x.id \in TxIds /\ x.mission \in Missions
      /\ x.store \in Nat /\ x.seq \in Nat
  BY DEF TypeOK, Transactions
<1>1. MayApply(x)
  BY DEF ApplyBundle
<1>2. CASE Applied(x)
  <2>1. UNCHANGED <<heads, store, receipts, plans, wal>>
    BY <1>2 DEF ApplyBundle
  <2>2. ASSUME NEW id \in TxIds, Pending(id) PROVE id # x.id
    BY <2>2, <1>1, <1>2 DEF Pending, MayApply
  <2>3. DiskInv' /\ \A id : Pending(id)' <=> Pending(id)
    BY <2>1, DiskUnchanged
  <2> QED
    BY <2>1, <2>2, <2>3 DEF TypeOK
<1>3. CASE ~Applied(x)
  <2> DEFINE m == x.mission
             rn == [tx |-> x, resulting |-> x.store + 1]
  <2>1. /\ heads' = [heads EXCEPT ![m].state = "landed", ![m].seq = x.seq + 1,
                                  ![m].store = x.store + 1]
        /\ store' = x.store + 1
        /\ receipts' = receipts \cup {rn}
    BY <1>3 DEF ApplyBundle
  <2>2. Pending(x.id) /\ wal[x.id].tx = x /\ PhaseOf(x.id) = "commit"
    BY <1>1, <1>3 DEF MayApply, Pending
  <2>3. heads[m].state = "merge_wait" /\ heads[m].seq = x.seq /\ store = x.store
    BY <1>1, <1>3 DEF MayApply, Extensible
  <2>4. heads[m] \in LandingHeads
    BY <1>0 DEF TypeOK
  <2>5. /\ heads'[m] \in LandingHeads
        /\ heads'[m].state = "landed" /\ heads'[m].seq = x.seq + 1
        /\ heads'[m].store = x.store + 1
        /\ \A n \in Missions : n # m => heads'[n] = heads[n]
    <3>1. PICK q \in Nat, v \in Nat : q = x.seq + 1 /\ v = x.store + 1
      BY <1>0
    <3>2. PICK h \in LandingHeads : h = heads[m]
      BY <2>4
    <3>3. PICK y : y = [h EXCEPT !.state = "landed", !.seq = q, !.store = v]
      OBVIOUS
    <3>4. heads' = [heads EXCEPT ![m] = y]
      BY <1>0, <2>1, <3>2, <3>1, <3>3 DEF TypeOK, LandingHeads
    <3>5. y \in LandingHeads /\ y.state = "landed" /\ y.seq = q /\ y.store = v
      BY <3>3 DEF LandingHeads, MissionStates
    <3> QED
      BY <1>0, <3>1, <3>4, <3>5 DEF TypeOK
  <2>6. heads' \in [Missions -> LandingHeads] /\ store' \in Nat /\ receipts' \subseteq Receipts
    <3>1. rn \in Receipts
      BY <1>0 DEF Receipts
    <3>2. heads' \in [Missions -> LandingHeads]
      BY <1>0, <2>1, <2>4, <2>5 DEF TypeOK
    <3> QED
      BY <1>0, <2>1, <3>1, <3>2 DEF TypeOK
  <2>7. \A rc \in receipts : rc.tx.mission # m /\ rc.tx \in Transactions /\ rc.tx.mission \in Missions
    BY <2>3 DEF DiskInv, ReceiptsCommitted, TypeOK, Receipts, Transactions
  <2>8. \A id \in TxIds : PhaseOf(id)' = PhaseOf(id) /\ wal'[id] = wal[id]
    BY DEF PhaseOf
  <2>9. ASSUME NEW id \in TxIds PROVE ~Pending(id)'
    <3>1. CASE id = x.id
      <4>0. rn \in receipts' /\ rn.tx = x
        BY <2>1
      <4>1. Applied(x)'
        BY <4>0 DEF Applied
      <4> QED
        BY <3>1, <4>1, <2>2 DEF Pending, Applied
    <3>2. CASE id # x.id
      <4>1. ~Pending(id)
        BY <3>2, <1>0, <2>2 DEF DiskInv, OnePending
      <4> QED
        BY <4>1, <2>1, <2>8 DEF Pending, Applied
    <3> QED
      BY <3>1, <3>2
  <2>10. PlansUnique' /\ WalNamesPlans'
    BY DEF DiskInv, PlansUnique, WalNamesPlans
  <2>11. OnePending' /\ PendingReserved'
    BY <2>9 DEF OnePending, PendingReserved
  <2>12. ReceiptsCommitted'
    <3> SUFFICES ASSUME NEW rc \in receipts'
                 PROVE  /\ PhaseOf(rc.tx.id)' = "commit" /\ wal'[rc.tx.id].tx = rc.tx
                        /\ heads'[rc.tx.mission].state = "landed"
                        /\ heads'[rc.tx.mission].seq = rc.tx.seq + 1
                        /\ heads'[rc.tx.mission].store = rc.resulting
        BY DEF ReceiptsCommitted
    <3>1. CASE rc = rn
      BY <3>1, <1>0, <2>2, <2>5, <2>8
    <3>2. CASE rc \in receipts
      <4>1. rc.tx.id \in TxIds
        BY <3>2, <2>7 DEF Transactions
      <4>2. heads'[rc.tx.mission] = heads[rc.tx.mission]
        BY <3>2, <2>5, <2>7
      <4> QED
        BY <3>2, <4>1, <4>2, <2>8 DEF DiskInv, ReceiptsCommitted
    <3> QED
      BY <3>1, <3>2, <2>1
  <2>13. LandedHasReceipt'
    <3> SUFFICES ASSUME NEW n \in Missions, heads'[n].state = "landed"
                 PROVE  \E rc \in receipts' : rc.tx.mission = n
        BY DEF LandedHasReceipt
    <3>1. CASE n = m
      <4>1. rn \in receipts' /\ rn.tx.mission = m
        BY <2>1
      <4> QED
        BY <3>1, <4>1
    <3>2. CASE n # m
      BY <3>2, <2>1, <2>5 DEF DiskInv, LandedHasReceipt
    <3> QED
      BY <3>1, <3>2
  <2>14. LettersHaveState' /\ StorePositive'
    <3>1. StorePositive'
      BY <1>0, <2>1 DEF StorePositive
    <3>2. heads'[m].seq # 0
      BY <1>0, <2>5
    <3>3. LettersHaveState'
      BY <3>2, <2>5 DEF DiskInv, LettersHaveState
    <3> QED
      BY <3>1, <3>3
  <2>15. LandingsSerial'
    <3>1. /\ \A rc \in receipts : /\ rc.resulting = rc.tx.store + 1 /\ rc.resulting \in 2..store
                                 /\ rc.tx.mission # m
          /\ \A v \in 2..store : \E rc \in receipts : rc.resulting = v
          /\ \A rc, rd \in receipts :
                rc.tx.mission = rd.tx.mission \/ rc.resulting = rd.resulting => rc = rd
      BY <2>7 DEF DiskInv, LandingsSerial
    <3>2. rn.resulting = store + 1 /\ rn.tx = x /\ rn.tx.mission = m /\ store \in Nat /\ store >= 1
      BY <2>3 DEF TypeOK, DiskInv, StorePositive
    <3>3. ASSUME NEW rc \in receipts'
          PROVE  rc.resulting = rc.tx.store + 1 /\ rc.resulting \in 2..store'
      BY <3>1, <3>2, <2>1, <2>3
    <3>4. ASSUME NEW rc \in receipts', NEW rd \in receipts',
                 rc.tx.mission = rd.tx.mission \/ rc.resulting = rd.resulting
          PROVE  rc = rd
      BY <3>1, <3>2, <3>4, <2>1
    <3>5. ASSUME NEW v \in 2..store' PROVE \E rc \in receipts' : rc.resulting = v
      <4>1. CASE v = store + 1
        BY <4>1, <3>2, <2>1
      <4>2. CASE v # store + 1
        BY <4>2, <3>1, <3>2, <2>1, <2>3
      <4> QED
        BY <4>1, <4>2
    <3> QED
      BY <3>3, <3>4, <3>5 DEF LandingsSerial
  <2> QED
    BY <2>6, <2>9, <2>10, <2>11, <2>12, <2>13, <2>14, <2>15 DEF DiskInv
<1> QED
  BY <1>2, <1>3

-----------------------------------------------------------------------------
(* Each action preserves the invariant. *)

\* A service that closes, or recovers, owes nothing about a job.
LEMMA NoJob ==
    ASSUME TypeOK', DiskInv', job'.pc \in {"idle", "recover"}
    PROVE  LandingIndInv'
BY IndInvParts DEF LandingIndInv, DiskInv, JobHoldsReservation, ServesSettled, Landing

\* Opening, and ending a request, move only the job.
LEMMA OpenOrAbandonPreserves ==
    ASSUME LandingIndInv, Open \/ Abandon
    PROVE  LandingIndInv'
<1>1. UNCHANGED <<heads, store, receipts, plans, wal, fenced>>
      /\ (job' = At("recover") \/ job' = Idle)
  BY DEF Open, Abandon
<1>2. TypeOK' /\ job'.pc \in {"idle", "recover"}
  BY <1>1 DEF LandingIndInv, TypeOK, At, Idle
<1>3. DiskInv'
  BY <1>1, IndInvParts, DiskUnchanged
<1> QED
  BY <1>2, <1>3, NoJob

\* Recovery that got past every plan leaves no COMMIT pending.
LEMMA RecoverDonePreserves ==
    ASSUME LandingIndInv, RecoverDone
    PROVE  LandingIndInv'
<1>1. UNCHANGED <<heads, store, receipts, plans, wal, fenced>> /\ job' = At("serve")
  BY DEF RecoverDone
<1>2. TypeOK'
  BY <1>1 DEF LandingIndInv, TypeOK, At
<1>3. DiskInv' /\ \A id : Pending(id)' <=> Pending(id)
  BY <1>1, IndInvParts, DiskUnchanged
<1>4. ASSUME NEW id \in TxIds PROVE ~Pending(id)
  <2> SUFFICES ASSUME Pending(id) PROVE FALSE
      OBVIOUS
  <2>1. wal[id] # None /\ wal[id].tx \in plans /\ wal[id].tx.id = id
    BY DEF Pending, PhaseOf, LandingIndInv, WalNamesPlans
  <2>2. Settled(wal[id].tx)
    BY <2>1 DEF RecoverDone
  <2> QED
    BY <2>1, <2>2 DEF Settled, Pending
<1>5. JobHoldsReservation' /\ ServesSettled'
  BY <1>1, <1>3, <1>4 DEF JobHoldsReservation, ServesSettled, At, Landing
<1> QED
  BY <1>2, <1>3, <1>5, IndInvParts DEF LandingIndInv, DiskInv

\* Recovery appends PREPARE or ABORT for a plan that is not committed.
LEMMA RecoverAppendPreserves ==
    ASSUME LandingIndInv, NEW x \in plans, RecoverPrepare(x) \/ RecoverAbort(x)
    PROVE  LandingIndInv'
<1>0. x \in Transactions
  BY DEF LandingIndInv, TypeOK
<1>1. PICK q \in {"prepare", "abort"} :
        /\ PhaseOf(x.id) # "commit"
        /\ job.pc = "recover"
        /\ WalAppend(x, q, job)
        /\ UNCHANGED <<heads, store, receipts, plans>>
  <2>1. CASE RecoverPrepare(x)
    BY <2>1 DEF RecoverPrepare, PrepareAppends, PhaseOf
  <2>2. CASE RecoverAbort(x)
    BY <2>2 DEF RecoverAbort
  <2> QED
    BY <2>1, <2>2
<1>2. /\ wal' = [wal EXCEPT ![x.id] = [phase |-> q, tx |-> x]]
      /\ fenced' \in BOOLEAN /\ (job' = job \/ job' = Idle)
  BY <1>1 DEF WalAppend
<1>3. DiskInv'
  BY <1>1, <1>2, IndInvParts, AppendKeepsDisk DEF Phases
<1>4. wal' \in [TxIds -> WalEntries \cup {None}]
  BY <1>0, <1>2, WalPhases DEF LandingIndInv, Phases
<1>5. TypeOK' /\ job'.pc \in {"idle", "recover"}
  BY <1>1, <1>2, <1>4 DEF LandingIndInv, TypeOK, Idle
<1> QED
  BY <1>3, <1>5, NoJob

\* Recovery, or the landing itself, applies a committed bundle.
LEMMA ApplyPreserves ==
    ASSUME LandingIndInv, LandApply \/ \E x \in plans : RecoverApply(x)
    PROVE  LandingIndInv'
<1>1. PICK x \in plans : ApplyBundle(x) /\ UNCHANGED <<plans, wal, fenced>>
                        /\ (job' = Idle \/ (job' = job /\ job.pc = "recover"))
  BY DEF LandApply, RecoverApply, LandingIndInv, JobHoldsReservation, Landing
<1>2. /\ DiskInv'
      /\ heads' \in [Missions -> LandingHeads] /\ store' \in Nat /\ receipts' \subseteq Receipts
  BY <1>1, IndInvParts, ApplyKeepsDisk
<1>3. TypeOK' /\ job'.pc \in {"idle", "recover"}
  BY <1>1, <1>2 DEF LandingIndInv, TypeOK, Idle
<1> QED
  BY <1>2, <1>3, NoJob

\* transition_internal.  No COMMIT is pending while a request is served, so moving
\* a head breaks no reservation, and a LANDED head is never moved.
LEMMA TransitionPreserves ==
    ASSUME LandingIndInv, NEW m \in Missions, NEW r \in TransitionRules, NEW p \in Packets,
           RequestTransition(m, r, p)
    PROVE  LandingIndInv'
<1> DEFINE y == [state |-> r.to, seq |-> heads[m].seq + 1,
                 iteration |-> NextIteration(r, heads[m].iteration),
                 packet |-> p, store |-> store]
<1>1. /\ heads' = [heads EXCEPT ![m] = y]
      /\ job' = Idle /\ job.pc = "serve" /\ r.to # "landed" /\ heads[m].state = r.from
      /\ UNCHANGED <<store, receipts, plans, wal, fenced>>
  BY DEF RequestTransition
<1>2. /\ r.to \in MissionStates /\ r.from # "landed" /\ NextIteration(r, heads[m].iteration) \in Nat
  BY DEF TransitionRules, Rule, MissionStates, NextIteration, LandingIndInv, TypeOK, LandingHeads, NoState
<1>3. y \in LandingHeads /\ y.seq # 0 /\ y.state = r.to
  BY <1>2 DEF LandingIndInv, TypeOK, LandingHeads
<1> HIDE DEF y
<1>4. /\ heads'[m] = y /\ heads' \in [Missions -> LandingHeads]
      /\ \A n \in Missions : n # m => heads'[n] = heads[n]
  BY <1>1, <1>3 DEF LandingIndInv, TypeOK
<1>5. TypeOK'
  BY <1>1, <1>4 DEF LandingIndInv, TypeOK, Idle
<1>6. \A id \in TxIds : ~Pending(id)
  BY <1>1 DEF LandingIndInv, ServesSettled
<1>7. \A id \in TxIds : ~Pending(id)'
  BY <1>1, <1>6 DEF Pending, PhaseOf, Applied
<1>8. ReceiptsCommitted'
  <2> SUFFICES ASSUME NEW rc \in receipts PROVE
                 /\ PhaseOf(rc.tx.id)' = "commit" /\ wal'[rc.tx.id].tx = rc.tx
                 /\ heads'[rc.tx.mission].state = "landed"
                 /\ heads'[rc.tx.mission].seq = rc.tx.seq + 1
                 /\ heads'[rc.tx.mission].store = rc.resulting
      BY <1>1 DEF ReceiptsCommitted
  <2>1. rc.tx.mission \in Missions /\ rc.tx.mission # m
    BY <1>1, <1>2 DEF LandingIndInv, ReceiptsCommitted, TypeOK, Receipts, Transactions
  <2> QED
    BY <2>1, <1>1, <1>4 DEF LandingIndInv, ReceiptsCommitted, PhaseOf
<1>9. LandedHasReceipt'
  BY <1>1, <1>3, <1>4 DEF LandingIndInv, LandedHasReceipt
<1>10. LettersHaveState'
  BY <1>3, <1>4 DEF LandingIndInv, LettersHaveState
<1>11. PlansUnique' /\ WalNamesPlans' /\ StorePositive' /\ LandingsSerial'
  BY <1>1 DEF LandingIndInv, PlansUnique, WalNamesPlans, StorePositive, LandingsSerial
<1>12. OnePending' /\ PendingReserved'
  BY <1>7 DEF OnePending, PendingReserved
<1>13. DiskInv'
  BY <1>8, <1>9, <1>10, <1>11, <1>12 DEF DiskInv
<1> QED
  BY <1>1, <1>5, <1>13, NoJob DEF Idle

\* land_internal up to the plan: the new transaction holds its reservation.
LEMMA RequestLandPreserves ==
    ASSUME LandingIndInv, NEW id \in TxIds, NEW k \in Keys, NEW m \in Missions,
           RequestLand(id, k, m)
    PROVE  LandingIndInv'
<1>2. PICK x \in Transactions :
        x = [id |-> id, key |-> k, mission |-> m, seq |-> heads[m].seq, store |-> heads[m].store]
  BY DEF LandingIndInv, TypeOK, LandingHeads, Transactions
<1>1. /\ job.pc = "serve" /\ ~Terminal(id)
      /\ heads[m].state = "merge_wait" /\ heads[m].store = store
      /\ \A y \in plans : y.id # id
      /\ plans' = plans \cup {x} /\ job' = [pc |-> "prepare", tx |-> x]
      /\ UNCHANGED <<heads, store, receipts, wal, fenced>>
  BY <1>2 DEF RequestLand
<1>3. x.id = id /\ x.mission = m /\ x.seq = heads[m].seq /\ x.store = heads[m].store
  BY <1>2
<1>4. TypeOK'
  BY <1>1, <1>2 DEF LandingIndInv, TypeOK
<1>5. \A jd : (PhaseOf(jd)' = PhaseOf(jd)) /\ (Pending(jd)' <=> Pending(jd))
  BY <1>1 DEF Pending, PhaseOf, Applied
<1>6. PlansUnique' /\ WalNamesPlans'
  BY <1>1, <1>3 DEF LandingIndInv, PlansUnique, WalNamesPlans
<1>7. JobHoldsReservation'
  <2>1. Reserved(x)'
    BY <1>1, <1>3 DEF Reserved, Extensible
  <2>2. PhaseOf(x.id)' # "commit"
    BY <1>1, <1>3, <1>5 DEF Terminal
  <2>3. job'.tx = x /\ x \in plans'
    BY <1>1
  <2> QED
    BY <2>1, <2>2, <2>3 DEF JobHoldsReservation, Reserved, Extensible, PhaseOf
<1>8. ServesSettled'
  BY <1>1, <1>5 DEF LandingIndInv, ServesSettled
<1>9. OnePending' /\ PendingReserved'
  BY <1>1, <1>5 DEF LandingIndInv, OnePending, PendingReserved, Reserved, Extensible
<1>10. /\ ReceiptsCommitted' /\ LandedHasReceipt' /\ LettersHaveState' /\ StorePositive'
       /\ LandingsSerial'
  BY <1>1, <1>5 DEF LandingIndInv, ReceiptsCommitted, LandedHasReceipt, LettersHaveState,
                    StorePositive, LandingsSerial
<1> QED
  BY <1>4, <1>6, <1>7, <1>8, <1>9, <1>10 DEF LandingIndInv

\* PREPARE and PROVISIONAL: the landing moves on and keeps its reservation.
LEMMA LandAppendPreserves ==
    ASSUME LandingIndInv, LandPrepare \/ LandProvisional
    PROVE  LandingIndInv'
<1>0. PICK x : x = job.tx
  OBVIOUS
<1>1. PICK q \in {"prepare", "provisional"}, pc \in {"provisional", "commit"} :
        /\ job.pc \in {"prepare", "provisional"}
        /\ WalAppend(x, q, [job EXCEPT !.pc = pc])
        /\ UNCHANGED <<heads, store, receipts, plans>>
  BY <1>0 DEF LandPrepare, LandProvisional
<1>2. x \in Transactions /\ x \in plans /\ Reserved(x) /\ PhaseOf(x.id) # "commit"
      /\ job = [pc |-> job.pc, tx |-> x]
  BY <1>0, <1>1, JobShape DEF LandingIndInv, JobHoldsReservation, Landing
<1>3. /\ wal' = [wal EXCEPT ![x.id] = [phase |-> q, tx |-> x]]
      /\ fenced' \in BOOLEAN
      /\ job' = [pc |-> pc, tx |-> x] \/ job' = Idle
  <2>1. [job EXCEPT !.pc = pc] = [pc |-> pc, tx |-> x]
    BY <1>2, JobAdvances
  <2> QED
    BY <1>1, <2>1 DEF WalAppend
<1>4. DiskInv' /\ \A id \in TxIds : Pending(id)' <=> Pending(id)
  BY <1>1, <1>2, <1>3, IndInvParts, AppendKeepsDisk DEF Phases
<1>5. PhaseOf(x.id)' = q /\ wal' \in [TxIds -> WalEntries \cup {None}]
  BY <1>2, <1>3, WalPhases DEF LandingIndInv, Phases
<1>6. CASE job' = Idle
  <2>1. TypeOK'
    BY <1>1, <1>3, <1>5, <1>6 DEF LandingIndInv, TypeOK, Idle
  <2> QED
    BY <1>4, <1>6, <2>1, NoJob DEF Idle
<1>7. CASE job' = [pc |-> pc, tx |-> x]
  <2>1. TypeOK'
    BY <1>1, <1>2, <1>3, <1>5, <1>7 DEF LandingIndInv, TypeOK
  <2>2. job'.pc = pc /\ job'.tx = x
    BY <1>7
  <2>3. x \in plans' /\ Reserved(x)'
    BY <1>1, <1>2 DEF Reserved, Extensible
  <2>4. JobHoldsReservation'
    BY <2>2, <2>3, <1>5 DEF JobHoldsReservation, Reserved, Extensible, PhaseOf
  <2>5. ServesSettled'
    BY <1>1, <1>4, <2>2 DEF LandingIndInv, ServesSettled
  <2> QED
    BY <1>4, <2>1, <2>4, <2>5 DEF LandingIndInv, DiskInv
<1> QED
  BY <1>3, <1>6, <1>7

\* COMMIT: the landing's own transaction becomes the only pending one.
LEMMA LandCommitPreserves ==
    ASSUME LandingIndInv, LandCommit
    PROVE  LandingIndInv'
<1>0. PICK x : x = job.tx
  OBVIOUS
<1>1. /\ job.pc = "commit"
      /\ WalAppend(x, "commit", [job EXCEPT !.pc = "apply"])
      /\ UNCHANGED <<heads, store, receipts, plans>>
  BY <1>0 DEF LandCommit
<1>2. x \in Transactions /\ x \in plans /\ Reserved(x) /\ PhaseOf(x.id) # "commit"
      /\ job = [pc |-> job.pc, tx |-> x]
  BY <1>0, <1>1, JobShape DEF LandingIndInv, JobHoldsReservation, Landing
<1>3. /\ wal' = [wal EXCEPT ![x.id] = [phase |-> "commit", tx |-> x]]
      /\ fenced' \in BOOLEAN
      /\ job' = [pc |-> "apply", tx |-> x] \/ job' = Idle
  <2>1. [job EXCEPT !.pc = "apply"] = [pc |-> "apply", tx |-> x]
    BY <1>2, JobAdvances
  <2> QED
    BY <1>1, <2>1 DEF WalAppend
<1>4. \A id \in TxIds : ~Pending(id)
  BY <1>1 DEF LandingIndInv, ServesSettled
<1>5. DiskInv' /\ \A id \in TxIds : Pending(id)' => id = x.id
  BY <1>1, <1>2, <1>3, <1>4, IndInvParts, CommitKeepsDisk
<1>6. wal' \in [TxIds -> WalEntries \cup {None}]
  BY <1>2, <1>3, WalPhases DEF LandingIndInv, Phases
<1>7. CASE job' = Idle
  <2>1. TypeOK'
    BY <1>1, <1>3, <1>6, <1>7 DEF LandingIndInv, TypeOK, Idle
  <2> QED
    BY <1>5, <1>7, <2>1, NoJob DEF Idle
<1>8. CASE job' = [pc |-> "apply", tx |-> x]
  <2>1. TypeOK'
    BY <1>1, <1>2, <1>3, <1>6, <1>8 DEF LandingIndInv, TypeOK
  <2>2. job'.pc = "apply" /\ job'.tx = x
    BY <1>8
  <2>3. JobHoldsReservation'
    BY <2>2, <1>1, <1>2 DEF JobHoldsReservation
  <2>4. ServesSettled'
    BY <1>5, <2>2 DEF ServesSettled
  <2> QED
    BY <1>5, <2>1, <2>3, <2>4 DEF LandingIndInv, DiskInv
<1> QED
  BY <1>3, <1>7, <1>8

-----------------------------------------------------------------------------
\* Before anything has happened.
LEMMA LandingInitInv == Init => LandingIndInv
<1> SUFFICES ASSUME Init PROVE LandingIndInv
    OBVIOUS
<1>1. NoHead \in LandingHeads /\ NoHead.state = NoState
  <2>1. (CHOOSE p \in Packets : TRUE) \in Packets
    BY LandingPacketsAssumption
  <2> QED
    BY <2>1 DEF NoHead, LandingHeads
<1>2. \A m \in Missions : heads[m].state = NoState
  BY <1>1 DEF Init
<1>3. TypeOK
  BY <1>1 DEF Init, TypeOK, Idle
<1>4. \A id \in TxIds : wal[id] = None /\ ~Pending(id)
  BY DEF Init, Pending, PhaseOf
<1>5. PlansUnique /\ WalNamesPlans /\ OnePending /\ PendingReserved
  BY <1>4 DEF Init, PlansUnique, WalNamesPlans, OnePending, PendingReserved
<1>6. ReceiptsCommitted /\ LandedHasReceipt /\ LettersHaveState
  BY <1>2 DEF Init, ReceiptsCommitted, LandedHasReceipt, LettersHaveState, NoState
<1>7. StorePositive /\ LandingsSerial
  BY DEF Init, StorePositive, LandingsSerial
<1>8. JobHoldsReservation /\ ServesSettled
  BY DEF Init, JobHoldsReservation, ServesSettled, Idle, Landing
<1> QED
  BY <1>3, <1>5, <1>6, <1>7, <1>8 DEF LandingIndInv

\* Every step preserves the invariant.
LEMMA LandingNextInv == LandingIndInv /\ [Next]_vars => LandingIndInv'
<1> SUFFICES ASSUME LandingIndInv, [Next]_vars PROVE LandingIndInv'
    OBVIOUS
<1>1. CASE Recover
  BY <1>1, RecoverDonePreserves, RecoverAppendPreserves, ApplyPreserves DEF Recover
<1>2. CASE \E m \in Missions, r \in TransitionRules, p \in Packets : RequestTransition(m, r, p)
  BY <1>2, TransitionPreserves
<1>3. CASE \E id \in TxIds, k \in Keys, m \in Missions : RequestLand(id, k, m)
  BY <1>3, RequestLandPreserves
<1>4. CASE UNCHANGED vars
  <2>1. UNCHANGED <<heads, store, receipts, plans, wal>> /\ UNCHANGED <<fenced, job>>
    BY <1>4 DEF vars
  <2>2. TypeOK'
    BY <2>1 DEF LandingIndInv, TypeOK
  <2>3. DiskInv' /\ \A id : Pending(id)' <=> Pending(id)
    BY <2>1, IndInvParts, DiskUnchanged
  <2>4. JobHoldsReservation'
    BY <2>1 DEF LandingIndInv, JobHoldsReservation, Reserved, Extensible, PhaseOf
  <2>5. ServesSettled'
    BY <2>1, <2>3 DEF LandingIndInv, ServesSettled
  <2> QED
    BY <2>2, <2>3, <2>4, <2>5 DEF LandingIndInv, DiskInv
<1> QED
  BY <1>1, <1>2, <1>3, <1>4, OpenOrAbandonPreserves, LandAppendPreserves, LandCommitPreserves,
     ApplyPreserves DEF Next

(***************************************************************************)
(* The strengthened invariant holds in every state.                        *)
(***************************************************************************)
THEOREM LandingIndInvariant == Spec => []LandingIndInv
<1>1. Init => LandingIndInv
  BY LandingInitInv
<1>2. LandingIndInv /\ [Next]_vars => LandingIndInv'
  BY LandingNextInv
<1> QED
  BY <1>1, <1>2, PTL DEF Spec

(***************************************************************************)
(* Type correctness of landing.                                            *)
(***************************************************************************)
THEOREM LandingTypeCorrect == Spec => []TypeOK
<1>1. LandingIndInv => TypeOK
  BY DEF LandingIndInv
<1> QED
  BY <1>1, LandingIndInvariant, PTL

(***************************************************************************)
(* A receipt and its LANDED letter are visible only after the durable      *)
(* COMMIT of their transaction, and never one without the other.           *)
(***************************************************************************)
THEOREM LandingVisibleOnlyCommitted == Spec => []VisibleOnlyCommitted
<1>1. LandingIndInv => VisibleOnlyCommitted
  BY DEF LandingIndInv, VisibleOnlyCommitted, ReceiptsCommitted, LandedHasReceipt
<1> QED
  BY <1>1, LandingIndInvariant, PTL

(***************************************************************************)
(* apply_committed_bundle succeeds for every durable COMMIT, wherever the  *)
(* service crashed after it.                                               *)
(***************************************************************************)
THEOREM LandingCommitNeverLost == Spec => []CommitNeverLost
<1>1. LandingIndInv => CommitNeverLost
  <2> SUFFICES ASSUME LandingIndInv, NEW id \in TxIds, PhaseOf(id) = "commit"
               PROVE  MayApply(wal[id].tx)
      BY DEF CommitNeverLost
  <2>1. wal[id].tx.id = id
    BY DEF LandingIndInv, WalNamesPlans, PhaseOf
  <2>2. Applied(wal[id].tx) \/ Extensible(wal[id].tx)
    BY DEF LandingIndInv, PendingReserved, Pending, Reserved
  <2> QED
    BY <2>1, <2>2 DEF MayApply
<1> QED
  BY <1>1, LandingIndInvariant, PTL

(***************************************************************************)
(* Landings are serial over the store version, without gaps or repeats.    *)
(***************************************************************************)
THEOREM LandingsAreSerial == Spec => []LandingsSerial
<1>1. LandingIndInv => LandingsSerial
  BY DEF LandingIndInv
<1> QED
  BY <1>1, LandingIndInvariant, PTL

\* Which heads a step may move: the one whose transition was requested at the
\* current store version, or the one whose pending COMMIT is applied.
LEMMA HeadMoves ==
    ASSUME LandingIndInv, [Next]_vars
    PROVE  \/ UNCHANGED <<heads, store>>
           \/ \E m \in Missions, r \in TransitionRules, p \in Packets : RequestTransition(m, r, p)
           \/ \E x \in plans : ApplyBundle(x) /\ ~Applied(x) /\ Reserved(x)
<1>1. ASSUME NEW x \in plans, ApplyBundle(x)
      PROVE  UNCHANGED <<heads, store>> \/ (ApplyBundle(x) /\ ~Applied(x) /\ Reserved(x))
  <2>1. CASE Applied(x)
    BY <1>1, <2>1 DEF ApplyBundle
  <2>2. CASE ~Applied(x)
    <3>1. x.id \in TxIds
      BY DEF LandingIndInv, TypeOK, Transactions
    <3>2. Pending(x.id) /\ wal[x.id].tx = x
      BY <1>1, <2>2 DEF ApplyBundle, MayApply, Pending
    <3> QED
      BY <1>1, <2>2, <3>1, <3>2 DEF LandingIndInv, PendingReserved
  <2> QED
    BY <2>1, <2>2
<1>2. CASE Recover
  BY <1>1, <1>2 DEF Recover, RecoverApply, RecoverPrepare, RecoverAbort, RecoverDone
<1>3. CASE LandApply
  BY <1>1, <1>3 DEF LandApply, LandingIndInv, JobHoldsReservation, Landing
<1>4. CASE \E id \in TxIds, k \in Keys, m \in Missions : RequestLand(id, k, m)
  BY <1>4 DEF RequestLand
<1>5. CASE Open \/ LandPrepare \/ LandProvisional \/ LandCommit \/ Abandon
  BY <1>5 DEF Open, LandPrepare, LandProvisional, LandCommit, Abandon
<1>6. CASE UNCHANGED vars
  BY <1>6 DEF vars
<1> QED
  BY <1>2, <1>3, <1>4, <1>5, <1>6 DEF Next

(***************************************************************************)
(* A landing freezes every other live mission: a letter that binds an      *)
(* older store version is never extended.                                  *)
(***************************************************************************)
THEOREM StaleStayFrozen == Spec => StaleMissionsFrozen
<1>1. LandingIndInv /\ [Next]_vars
        => [\A m \in Missions : heads[m].seq > 0 /\ heads[m].store < store
                => heads'[m] = heads[m] /\ store <= store']_vars
  <2> SUFFICES ASSUME LandingIndInv, [Next]_vars,
                      NEW n \in Missions, heads[n].seq > 0, heads[n].store < store
               PROVE  heads'[n] = heads[n] /\ store <= store'
      OBVIOUS
  <2>0. store \in Nat /\ heads \in [Missions -> LandingHeads] /\ heads[n].store \in Nat
    BY DEF LandingIndInv, TypeOK, LandingHeads
  <2>1. CASE UNCHANGED <<heads, store>>
    BY <2>0, <2>1
  <2>2. ASSUME NEW m \in Missions, NEW r \in TransitionRules, NEW p \in Packets,
               RequestTransition(m, r, p)
        PROVE  heads'[n] = heads[n] /\ store <= store'
    <3>1. n # m
      BY <2>0, <2>2 DEF RequestTransition
    <3> QED
      BY <2>0, <2>2, <3>1 DEF RequestTransition
  <2>3. ASSUME NEW x \in plans, ApplyBundle(x), ~Applied(x), Reserved(x)
        PROVE  heads'[n] = heads[n] /\ store <= store'
    <3>1. store = x.store /\ n # x.mission /\ x.mission \in Missions
      BY <2>0, <2>3 DEF Reserved, Extensible, LandingIndInv, TypeOK, Transactions
    <3> QED
      BY <2>0, <2>3, <3>1 DEF ApplyBundle
  <2> QED
    BY <2>1, <2>2, <2>3, HeadMoves
<1> QED
  BY <1>1, LandingIndInvariant, PTL DEF Spec, StaleMissionsFrozen

-----------------------------------------------------------------------------
(* Landing implements MissionChain.  chain is the heads without the store   *)
(* version, and MissionChain's actions are used through the instance Chain. *)

chainOf == [m \in Missions |-> ChainOf(m)]

\* The instance's transition rules are the rules landing follows.
LEMMA SameRules ==
    /\ Chain!NoState = NoState
    /\ Chain!TransitionRules = TransitionRules
    /\ \A r, i : Chain!NextIteration(r, i) = NextIteration(r, i)
    /\ \A r, old, new : Chain!PacketAllowed(r, old, new) <=> PacketAllowed(r, old, new)
<1>1. Chain!NoState = NoState
  BY DEF Chain!NoState, NoState
<1>2. Chain!TransitionRules = TransitionRules
  BY DEF Chain!TransitionRules, TransitionRules, Chain!Rule, Rule, Chain!NoState, NoState
<1>3. \A r, i : Chain!NextIteration(r, i) = NextIteration(r, i)
  BY DEF Chain!NextIteration, NextIteration
<1>4. \A r, old, new : Chain!PacketAllowed(r, old, new) <=> PacketAllowed(r, old, new)
  BY DEF Chain!PacketAllowed, PacketAllowed
<1> QED
  BY <1>1, <1>2, <1>3, <1>4

\* The initial heads are MissionChain's initial chains.
LEMMA InitRefines == Init => Chain!ChainInit
<1> SUFFICES ASSUME Init PROVE Chain!ChainInit
    OBVIOUS
<1>1. \A m \in Missions : ChainOf(m) = Chain!NoChain
  BY SameRules DEF Init, ChainOf, NoHead, Chain!NoChain, Chain!AnyPacket
<1> QED
  BY <1>1 DEF Chain!ChainInit

\* Moving the head of one mission along a rule is MissionChain's Append1.
LEMMA MoveRefines ==
    ASSUME NEW m \in Missions, NEW r \in TransitionRules, NEW p \in Packets,
           heads[m].state = r.from,
           PacketAllowed(r, heads[m].packet, p),
           heads'[m].state = r.to, heads'[m].seq = heads[m].seq + 1,
           heads'[m].iteration = NextIteration(r, heads[m].iteration),
           heads'[m].packet = p,
           \A n \in Missions : n # m => heads'[n] = heads[n]
    PROVE  Chain!ChainNext
<1>1. chainOf' = [chainOf EXCEPT ![m] =
                    [state     |-> r.to,
                     seq       |-> chainOf[m].seq + 1,
                     iteration |-> NextIteration(r, chainOf[m].iteration),
                     packet    |-> p]]
  BY DEF chainOf, ChainOf
<1>2. chainOf[m].state = r.from /\ PacketAllowed(r, chainOf[m].packet, p)
  BY DEF chainOf, ChainOf
<1>3. Chain!Append1(m, r, p)
  BY <1>1, <1>2, SameRules DEF Chain!Append1, chainOf
<1> QED
  BY <1>3, SameRules DEF Chain!ChainNext

\* Every step of landing is a step of MissionChain or leaves the chains alone.
LEMMA NextRefines ==
    ASSUME LandingIndInv, [Next]_vars
    PROVE  Chain!ChainNext \/ UNCHANGED [m \in Missions |-> ChainOf(m)]
<1>0. heads \in [Missions -> LandingHeads]
  BY DEF LandingIndInv, TypeOK
<1>1. CASE UNCHANGED <<heads, store>>
  BY <1>1 DEF ChainOf
<1>2. ASSUME NEW m \in Missions, NEW r \in TransitionRules, NEW p \in Packets,
             RequestTransition(m, r, p)
      PROVE  Chain!ChainNext
  <2>1. PacketAllowed(r, heads[m].packet, p)
    <3>1. CASE heads[m].seq > 0
      BY <1>2, <3>1 DEF RequestTransition
    <3>2. CASE ~(heads[m].seq > 0)
      <4>1. heads[m].seq = 0
        BY <1>0, <3>2 DEF LandingHeads
      <4>2. r.from = NoState
        BY <1>2, <4>1 DEF RequestTransition, LandingIndInv, LettersHaveState
      <4>3. r.iteration = "initialize"
        BY <4>2 DEF TransitionRules, Rule, NoState
      <4> QED
        BY <4>3 DEF PacketAllowed
    <3> QED
      BY <3>1, <3>2
  <2>2. /\ heads[m].state = r.from
        /\ heads'[m].state = r.to /\ heads'[m].seq = heads[m].seq + 1
        /\ heads'[m].iteration = NextIteration(r, heads[m].iteration)
        /\ heads'[m].packet = p
        /\ \A n \in Missions : n # m => heads'[n] = heads[n]
    BY <1>0, <1>2 DEF RequestTransition
  <2> QED
    BY <2>1, <2>2, MoveRefines
<1>3. ASSUME NEW x \in plans, ApplyBundle(x), ~Applied(x), Reserved(x)
      PROVE  Chain!ChainNext
  <2>1. PICK m \in Missions : m = x.mission
    BY DEF LandingIndInv, TypeOK, Transactions
  <2>2. PICK r \in TransitionRules : r = Rule("merge_wait", "landed", "decision", "preserve")
    BY DEF TransitionRules
  <2>3. /\ r.from = "merge_wait" /\ r.to = "landed"
        /\ NextIteration(r, heads[m].iteration) = heads[m].iteration
        /\ PacketAllowed(r, heads[m].packet, heads[m].packet)
    BY <2>2 DEF Rule, NextIteration, PacketAllowed
  <2>4. /\ heads' = [heads EXCEPT ![m].state = "landed", ![m].seq = x.seq + 1,
                                  ![m].store = x.store + 1]
        /\ heads[m].state = "merge_wait" /\ heads[m].seq = x.seq
    BY <1>3, <2>1 DEF ApplyBundle, Reserved, Extensible
  <2>5. /\ heads'[m].state = "landed" /\ heads'[m].seq = heads[m].seq + 1
        /\ heads'[m].iteration = heads[m].iteration /\ heads'[m].packet = heads[m].packet
        /\ \A n \in Missions : n # m => heads'[n] = heads[n]
    BY <1>0, <2>4 DEF LandingHeads
  <2>6. PICK p \in Packets : p = heads[m].packet
    BY <1>0 DEF LandingHeads
  <2> QED
    BY <2>3, <2>4, <2>5, <2>6, MoveRefines
<1> QED
  BY <1>1, <1>2, <1>3, HeadMoves

(***************************************************************************)
(* Landing implements MissionChain: every behaviour of landing, with its   *)
(* crashes, recoveries and retries, is a growth of mission chains along    *)
(* the transition rules.                                                   *)
(***************************************************************************)
THEOREM LandingImplementsChain == Spec => ImplementsChain
<1>1. Init => Chain!ChainInit
  BY InitRefines
<1>2. LandingIndInv /\ [Next]_vars => [Chain!ChainNext]_([m \in Missions |-> ChainOf(m)])
  BY NextRefines
<1> QED
  BY <1>1, <1>2, LandingIndInvariant, PTL DEF Spec, ImplementsChain, Chain!ChainSpec

-----------------------------------------------------------------------------
(* One landing at a time, and recovery that is never stuck.                 *)
(*                                                                          *)
(* Requests are served when every plan is settled, and a settled plan stays *)
(* settled, so only the plan of the landing under way can be unsettled      *)
(* (FlightInv).  MERGE_WAIT leads only to LANDED and ARCHIVED, so two plans *)
(* of one mission have one intent: with a key per mission, the WAL's answer *)
(* to a PREPARE it refuses is the ABORT of that very intent.                *)

OneUnsettled == \A x, y \in plans : ~Settled(x) /\ ~Settled(y) => x = y

JobOwnsUnsettled ==
    job.pc \notin {"idle", "recover"} => \A x \in plans : ~Settled(x) => x = job.tx

\* The head a plan was made for is still there, or was landed or archived.
PlansAtHead ==
    \A x \in plans :
        /\ heads[x.mission].state \in {"merge_wait", "landed", "archived"}
        /\ heads[x.mission].state = "merge_wait" =>
              heads[x.mission].seq = x.seq /\ heads[x.mission].store = x.store

PlansAlike == \A x, y \in plans : x.mission = y.mission => x.seq = y.seq /\ x.store = y.store

\* No landing took the key of a plan whose PREPARE is still to come.
KeyFree ==
    \A x \in plans : ~Settled(x) /\ wal[x.id] = None => \A rc \in receipts : rc.tx.key # x.key

FlightInv ==
    /\ OneUnsettled
    /\ JobOwnsUnsettled
    /\ PlansAtHead
    /\ PlansAlike
    /\ KeyFree

\* What clients that use a key for one mission only guarantee.
KeysAlike == \A x, y \in plans : x.key = y.key => x.mission = y.mission

\* What a step appends to the WAL: a phase of a plan that is not settled, and of the
\* landing under way if there is one.
LEMMA WalMoves ==
    ASSUME LandingIndInv, [Next]_vars
    PROVE  \/ wal' = wal
           \/ \E y \in plans, ph \in Phases :
                 /\ PrepareAppends(y) \/ PhaseOf(y.id) \in {"prepare", "provisional"}
                 /\ wal' = [wal EXCEPT ![y.id] = [phase |-> ph, tx |-> y]]
                 /\ UNCHANGED <<heads, store, receipts, plans>>
<1>1. ASSUME NEW x \in plans, RecoverPrepare(x) \/ RecoverAbort(x)
      PROVE  \E ph \in Phases :
                 /\ PrepareAppends(x) \/ PhaseOf(x.id) \in {"prepare", "provisional"}
                 /\ wal' = [wal EXCEPT ![x.id] = [phase |-> ph, tx |-> x]]
                 /\ UNCHANGED <<heads, store, receipts, plans>>
  BY <1>1 DEF RecoverPrepare, RecoverAbort, WalAppend, Phases
<1>2. CASE LandPrepare \/ LandProvisional \/ LandCommit
  <2>1. PICK x \in plans : x = job.tx
    BY <1>2 DEF LandPrepare, LandProvisional, LandCommit, LandingIndInv, JobHoldsReservation, Landing
  <2>2. PICK ph \in Phases :
                 /\ PrepareAppends(x) \/ PhaseOf(x.id) \in {"prepare", "provisional"}
                 /\ wal' = [wal EXCEPT ![x.id] = [phase |-> ph, tx |-> x]]
                 /\ UNCHANGED <<heads, store, receipts, plans>>
    BY <1>2, <2>1 DEF LandPrepare, LandProvisional, LandCommit, WalAppend, Phases
  <2> QED
    BY <2>2
<1>3. CASE Recover
  BY <1>1, <1>3 DEF Recover, RecoverApply, RecoverDone
<1>4. CASE LandApply \/ Open \/ Abandon \/ UNCHANGED vars
  BY <1>4 DEF LandApply, Open, Abandon, vars
<1>5. CASE \E id \in TxIds, k \in Keys, m \in Missions : RequestLand(id, k, m)
  BY <1>5 DEF RequestLand
<1>6. CASE \E m \in Missions, r \in TransitionRules, p \in Packets : RequestTransition(m, r, p)
  BY <1>6 DEF RequestTransition
<1> QED
  BY <1>2, <1>3, <1>4, <1>5, <1>6 DEF Next

\* Receipts are only added, and only for a plan that was not settled.
LEMMA ReceiptMoves ==
    ASSUME LandingIndInv, [Next]_vars
    PROVE  \/ receipts' = receipts
           \/ \E x \in plans : /\ ~Settled(x) /\ wal[x.id] # None /\ wal' = wal /\ plans' = plans
                               /\ receipts' = receipts \cup {[tx |-> x, resulting |-> x.store + 1]}
<1>1. ASSUME NEW x \in plans, ApplyBundle(x), UNCHANGED <<plans, wal>>
      PROVE  \/ receipts' = receipts
             \/ /\ ~Settled(x) /\ wal[x.id] # None /\ wal' = wal /\ plans' = plans
                /\ receipts' = receipts \cup {[tx |-> x, resulting |-> x.store + 1]}
  BY <1>1 DEF ApplyBundle, MayApply, Settled, PhaseOf
<1>2. CASE Recover
  BY <1>1, <1>2 DEF Recover, RecoverApply, RecoverPrepare, RecoverAbort, RecoverDone
<1>3. CASE LandApply
  BY <1>1, <1>3 DEF LandApply, LandingIndInv, JobHoldsReservation, Landing
<1>4. CASE Open \/ LandPrepare \/ LandProvisional \/ LandCommit \/ Abandon \/ UNCHANGED vars
  BY <1>4 DEF Open, LandPrepare, LandProvisional, LandCommit, Abandon, vars
<1>5. CASE \E id \in TxIds, k \in Keys, m \in Missions : RequestLand(id, k, m)
  BY <1>5 DEF RequestLand
<1>6. CASE \E m \in Missions, r \in TransitionRules, p \in Packets : RequestTransition(m, r, p)
  BY <1>6 DEF RequestTransition
<1> QED
  BY <1>2, <1>3, <1>4, <1>5, <1>6 DEF Next

\* A settled plan stays settled.
LEMMA SettledKept ==
    ASSUME LandingIndInv, [Next]_vars, NEW x \in plans, Settled(x)
    PROVE  Settled(x)'
<1>0. x \in Transactions /\ x.id \in TxIds /\ TypeOK
  BY DEF LandingIndInv, TypeOK, Transactions
<1>1. Applied(x) => Applied(x)'
  BY ReceiptMoves DEF Applied
<1>2. CASE wal' = wal
  BY <1>1, <1>2 DEF Settled, PhaseOf, PrepareRepliesAborted, Holders
<1>3. ASSUME NEW y \in plans, NEW ph \in Phases,
             PrepareAppends(y) \/ PhaseOf(y.id) \in {"prepare", "provisional"},
             wal' = [wal EXCEPT ![y.id] = [phase |-> ph, tx |-> y]]
      PROVE  Settled(x)'
  <2>1. y \in Transactions
    BY DEF LandingIndInv, TypeOK
  <2>2. \A id \in TxIds : id # y.id => wal'[id] = wal[id] /\ PhaseOf(id)' = PhaseOf(id)
    BY <1>0, <1>3, <2>1, WalPhases
  <2>3. PhaseOf(y.id) \notin {"commit", "abort"}
    BY <1>3 DEF PrepareAppends, PhaseOf
  <2>4. x.id # y.id
    <3> SUFFICES ASSUME x = y PROVE FALSE
        BY DEF LandingIndInv, PlansUnique
    <3> QED
      BY <1>3, <2>3 DEF Settled, PrepareAppends, PrepareRepliesAborted, PhaseOf
  <2>5. PhaseOf(x.id)' = PhaseOf(x.id) /\ wal'[x.id] = wal[x.id]
    BY <1>0, <2>2, <2>4
  <2>6. PrepareRepliesAborted(x) => PrepareRepliesAborted(x)'
    <3> SUFFICES ASSUME NEW id \in Holders(x.key), wal[id].phase = "abort", SameIntent(wal[id].tx, x)
                 PROVE  PrepareRepliesAborted(x)'
        BY DEF PrepareRepliesAborted
    <3>1. id \in TxIds /\ wal[id] # None /\ wal[id].tx.key = x.key
      BY DEF Holders
    <3>2. id # y.id
      BY <2>3, <3>1 DEF PhaseOf
    <3>3. wal'[id] = wal[id]
      BY <2>2, <3>1, <3>2
    <3> QED
      BY <3>1, <3>3 DEF PrepareRepliesAborted, Holders, SameIntent
  <2> QED
    BY <1>1, <2>5, <2>6 DEF Settled
<1> QED
  BY <1>2, <1>3, WalMoves

\* How a step changes the plans and the job.
LEMMA PlanMoves ==
    ASSUME LandingIndInv, [Next]_vars
    PROVE  \/ /\ plans' = plans
              /\ \/ job'.pc \in {"idle", "recover"}
                 \/ \A x \in plans : Settled(x)'
                 \/ job.pc \notin {"idle", "recover"} /\ job'.tx = job.tx
           \/ \E id \in TxIds, k \in Keys, m \in Missions : RequestLand(id, k, m)
<1>1. CASE Open \/ Abandon \/ LandApply
  BY <1>1 DEF Open, Abandon, LandApply, At, Idle
<1>2. CASE RecoverDone
  <2>1. \A x \in plans : Settled(x)
    BY <1>2 DEF RecoverDone
  <2> QED
    BY <1>2, <2>1, SettledKept DEF RecoverDone
<1>3. ASSUME NEW x \in plans, RecoverApply(x) \/ RecoverPrepare(x) \/ RecoverAbort(x)
      PROVE  plans' = plans /\ job'.pc \in {"idle", "recover"}
  BY <1>3 DEF RecoverApply, RecoverPrepare, RecoverAbort, WalAppend, Idle
<1>4. CASE LandPrepare \/ LandProvisional \/ LandCommit
  <2>1. PICK c : job' = [job EXCEPT !.pc = c] \/ job' = Idle
    BY <1>4 DEF LandPrepare, LandProvisional, LandCommit, WalAppend
  <2>2. job.pc \in Landing
    BY <1>4 DEF LandPrepare, LandProvisional, LandCommit, Landing
  <2>3. job = [pc |-> job.pc, tx |-> job.tx]
    BY <2>2, JobShape DEF LandingIndInv
  <2>4. job'.tx = job.tx \/ job'.pc = "idle"
    BY <2>1, <2>3 DEF Idle
  <2> QED
    BY <1>4, <2>2, <2>4 DEF LandPrepare, LandProvisional, LandCommit, Landing
<1>5. CASE \E m \in Missions, r \in TransitionRules, p \in Packets : RequestTransition(m, r, p)
  BY <1>5 DEF RequestTransition, Idle
<1>6. CASE UNCHANGED vars
  BY <1>6 DEF vars
<1> QED
  BY <1>1, <1>2, <1>3, <1>4, <1>5, <1>6 DEF Next, Recover

\* MERGE_WAIT leads only to LANDED and ARCHIVED, and those lead nowhere.
LEMMA RulesFromMergeWait ==
    ASSUME NEW r \in TransitionRules, r.from \in {"merge_wait", "landed", "archived"}
    PROVE  r.to \in {"landed", "archived"}
BY DEF TransitionRules, Rule, NoState

\* The head of a planned mission moves only to LANDED or ARCHIVED.
LEMMA PlannedHeadMoves ==
    ASSUME LandingIndInv, [Next]_vars, NEW n \in Missions,
           heads[n].state \in {"merge_wait", "landed", "archived"}
    PROVE  heads'[n] = heads[n] \/ heads'[n].state \in {"landed", "archived"}
<1>0. heads \in [Missions -> LandingHeads]
  BY DEF LandingIndInv, TypeOK
<1>1. CASE UNCHANGED <<heads, store>>
  BY <1>1
<1>2. ASSUME NEW m \in Missions, NEW r \in TransitionRules, NEW p \in Packets,
             RequestTransition(m, r, p)
      PROVE  heads'[n] = heads[n] \/ heads'[n].state \in {"landed", "archived"}
  <2>1. CASE n = m
    <3>1. heads'[n].state = r.to /\ heads[n].state = r.from
      BY <1>0, <1>2, <2>1 DEF RequestTransition
    <3> QED
      BY <3>1, RulesFromMergeWait
  <2>2. CASE n # m
    BY <1>0, <1>2, <2>2 DEF RequestTransition
  <2> QED
    BY <2>1, <2>2
<1>3. ASSUME NEW x \in plans, ApplyBundle(x), ~Applied(x)
      PROVE  heads'[n] = heads[n] \/ heads'[n].state \in {"landed", "archived"}
  <2>1. heads' = [heads EXCEPT ![x.mission].state = "landed",
                               ![x.mission].seq = x.seq + 1,
                               ![x.mission].store = x.store + 1]
    BY <1>3 DEF ApplyBundle
  <2>2. CASE n = x.mission
    <3>1. heads[n] \in LandingHeads
      BY <1>0
    <3>2. heads'[n].state = "landed"
      BY <1>0, <2>1, <2>2, <3>1 DEF LandingHeads
    <3> QED
      BY <3>2
  <2>3. CASE n # x.mission
    BY <1>0, <2>1, <2>3
  <2> QED
    BY <2>2, <2>3
<1> QED
  BY <1>1, <1>2, <1>3, HeadMoves

\* A request to land finds every plan settled, and its own intent in the plans of
\* its mission.
LEMMA LandKeepsFlight ==
    ASSUME LandingIndInv, FlightInv, NEW id \in TxIds, NEW k \in Keys, NEW m \in Missions,
           RequestLand(id, k, m)
    PROVE  FlightInv' /\ (ClientReusesKeys = FALSE /\ KeysAlike => KeysAlike')
<1>1. PICK x \in Transactions :
        x = [id |-> id, key |-> k, mission |-> m, seq |-> heads[m].seq, store |-> heads[m].store]
  BY DEF LandingIndInv, TypeOK, LandingHeads, Transactions
<1>2. /\ job.pc = "serve" /\ UsableKey(k, m)
      /\ \A y \in plans : y.id # id
      /\ \A rc \in receipts : rc.tx.key # k
      /\ heads[m].state = "merge_wait"
      /\ plans' = plans \cup {x} /\ job' = [pc |-> "prepare", tx |-> x]
      /\ UNCHANGED <<heads, store, receipts, wal, fenced>>
  BY <1>1 DEF RequestLand
<1>3. x.id = id /\ x.key = k /\ x.mission = m /\ x.seq = heads[m].seq /\ x.store = heads[m].store
  BY <1>1
<1>4. ASSUME NEW y \in plans PROVE Settled(y)
  <2>1. job.tx = None
    BY <1>2, JobShape DEF LandingIndInv, Landing
  <2>2. y # None
    BY LandingNoneAssumption DEF LandingIndInv, TypeOK
  <2> QED
    BY <1>2, <2>1, <2>2 DEF FlightInv, JobOwnsUnsettled
<1>5. \A y : Settled(y)' <=> Settled(y)
  BY <1>2 DEF Settled, PhaseOf, Applied, PrepareRepliesAborted, Holders
<1>6. \A y \in plans' : ~Settled(y)' => y = x
  BY <1>2, <1>4, <1>5
<1>7. OneUnsettled' /\ JobOwnsUnsettled'
  BY <1>2, <1>6 DEF OneUnsettled, JobOwnsUnsettled
<1>8. PlansAtHead'
  BY <1>2, <1>3 DEF FlightInv, PlansAtHead
<1>9. PlansAlike'
  BY <1>2, <1>3 DEF FlightInv, PlansAtHead, PlansAlike
<1>10. KeyFree'
  BY <1>2, <1>3, <1>6 DEF KeyFree
<1>11. ClientReusesKeys = FALSE /\ KeysAlike => KeysAlike'
  BY <1>2, <1>3 DEF UsableKey, KeysAlike
<1> QED
  BY <1>7, <1>8, <1>9, <1>10, <1>11 DEF FlightInv

\* Every step keeps at most one landing in flight.
LEMMA FlightNext ==
    ASSUME LandingIndInv, FlightInv, [Next]_vars
    PROVE  FlightInv' /\ (ClientReusesKeys = FALSE /\ KeysAlike => KeysAlike')
<1>1. CASE \E id \in TxIds, k \in Keys, m \in Missions : RequestLand(id, k, m)
  BY <1>1, LandKeepsFlight
<1>2. CASE /\ plans' = plans
           /\ \/ job'.pc \in {"idle", "recover"}
              \/ \A x \in plans : Settled(x)'
              \/ job.pc \notin {"idle", "recover"} /\ job'.tx = job.tx
  <2>1. \A x \in plans : ~Settled(x)' => ~Settled(x)
    BY SettledKept
  <2>2. OneUnsettled'
    BY <1>2, <2>1 DEF FlightInv, OneUnsettled
  <2>3. JobOwnsUnsettled'
    BY <1>2, <2>1 DEF FlightInv, JobOwnsUnsettled
  <2>4. PlansAtHead'
    <3> SUFFICES ASSUME NEW x \in plans
                 PROVE  /\ heads'[x.mission].state \in {"merge_wait", "landed", "archived"}
                        /\ heads'[x.mission].state = "merge_wait" =>
                              heads'[x.mission].seq = x.seq /\ heads'[x.mission].store = x.store
        BY <1>2 DEF PlansAtHead
    <3>1. x.mission \in Missions
      BY DEF LandingIndInv, TypeOK, Transactions
    <3> QED
      BY <3>1, PlannedHeadMoves DEF FlightInv, PlansAtHead
  <2>5. PlansAlike' /\ (KeysAlike => KeysAlike')
    BY <1>2 DEF FlightInv, PlansAlike, KeysAlike
  <2>6. KeyFree'
    <3> SUFFICES ASSUME NEW x \in plans, ~Settled(x)', wal'[x.id] = None, NEW rc \in receipts'
                 PROVE  rc.tx.key # x.key
        BY <1>2 DEF KeyFree
    <3>1. ~Settled(x) /\ x \in Transactions /\ x.id \in TxIds
      BY <2>1 DEF LandingIndInv, TypeOK, Transactions
    <3>2. wal[x.id] = None
      <4>1. CASE wal' = wal
        BY <4>1
      <4>2. ASSUME NEW y \in plans, NEW ph \in Phases,
                   wal' = [wal EXCEPT ![y.id] = [phase |-> ph, tx |-> y]]
            PROVE  wal[x.id] = None
        <5>1. y \in Transactions /\ TypeOK
          BY DEF LandingIndInv, TypeOK
        <5>2. wal'[y.id] # None /\ \A id \in TxIds : id # y.id => wal'[id] = wal[id]
          BY <4>2, <5>1, WalPhases
        <5> QED
          BY <3>1, <5>2
      <4> QED
        BY <4>1, <4>2, WalMoves
    <3>3. \A rd \in receipts : rd.tx.key # x.key
      BY <3>1, <3>2 DEF FlightInv, KeyFree
    <3>4. CASE receipts' = receipts
      BY <3>3, <3>4
    <3>5. ASSUME NEW y \in plans, ~Settled(y), wal[y.id] # None
          PROVE  FALSE
      BY <3>1, <3>2, <3>5 DEF FlightInv, OneUnsettled
    <3> QED
      BY <3>4, <3>5, ReceiptMoves
  <2> QED
    BY <2>2, <2>3, <2>4, <2>5, <2>6 DEF FlightInv
<1> QED
  BY <1>1, <1>2, PlanMoves

\* Before the first landing there is no plan.
LEMMA FlightInit == Init => FlightInv /\ KeysAlike
BY DEF Init, FlightInv, OneUnsettled, JobOwnsUnsettled, PlansAtHead, PlansAlike, KeyFree, KeysAlike,
       Idle

\* The plans that are not settled: none, or one.
THEOREM FlightInvariant == Spec => []FlightInv
<1>1. Init => FlightInv
  BY FlightInit
<1>2. LandingIndInv /\ FlightInv /\ [Next]_vars => FlightInv'
  BY FlightNext
<1> QED
  BY <1>1, <1>2, LandingIndInvariant, PTL DEF Spec

(***************************************************************************)
(* No second landing starts while one is unsettled, whatever keys the      *)
(* clients use and wherever requests crash: the operation lock and         *)
(* recover_plans make landings take turns.                                 *)
(***************************************************************************)
THEOREM LandingsTakeTurns == Spec => []OneLandingInFlight
<1>1. FlightInv => OneLandingInFlight
  <2> SUFFICES ASSUME FlightInv PROVE OneLandingInFlight
      OBVIOUS
  <2>1. PICK U : U = {x \in plans : ~Settled(x)}
    OBVIOUS
  <2>2. \A x, y \in U : x = y
    BY <2>1 DEF FlightInv, OneUnsettled
  <2>3. Cardinality(U) <= 1
    <3>1. CASE U = {}
      BY <3>1, FS_EmptySet
    <3>2. CASE U # {}
      <4>1. PICK x : U = {x}
        BY <2>2, <3>2
      <4> QED
        BY <4>1, FS_Singleton
    <3> QED
      BY <3>1, <3>2
  <2>4. job.pc \notin {"idle", "recover"} => U \subseteq {job.tx}
    BY <2>1 DEF FlightInv, JobOwnsUnsettled
  <2> QED
    BY <2>1, <2>3, <2>4 DEF OneLandingInFlight
<1> QED
  BY <1>1, FlightInvariant, PTL

(***************************************************************************)
(* When no key is used for two missions, recover_plans can take its next   *)
(* step on every plan, in every state a crash can leave: no plan makes the *)
(* service refuse to open.                                                 *)
(***************************************************************************)
THEOREM RecoveryAlwaysGoesOn ==
    ASSUME ClientReusesKeys = FALSE
    PROVE  Spec => []RecoveryNeverStuck
<1>1. LandingIndInv /\ FlightInv /\ KeysAlike => RecoveryNeverStuck
  <2> SUFFICES ASSUME LandingIndInv, FlightInv, KeysAlike, NEW x \in plans, ~Settled(x)
               PROVE  \/ PhaseOf(x.id) \in {"prepare", "provisional"}
                      \/ PhaseOf(x.id) = "commit" /\ MayApply(x)
                      \/ PrepareAppends(x)
      BY DEF RecoveryNeverStuck
  <2>1. x \in Transactions /\ x.id \in TxIds
    BY DEF LandingIndInv, TypeOK, Transactions
  <2>2. CASE wal[x.id] # None
    <3>1. wal[x.id] \in WalEntries /\ wal[x.id].tx = x
      BY <2>1, <2>2 DEF LandingIndInv, TypeOK, WalNamesPlans, PlansUnique
    <3>2. PhaseOf(x.id) \in Phases
      BY <2>2, <3>1 DEF PhaseOf, WalEntries
    <3>3. PhaseOf(x.id) # "abort"
      BY DEF Settled
    <3>4. ASSUME PhaseOf(x.id) = "commit" PROVE MayApply(x)
      <4>1. Pending(x.id)
        BY <3>1, <3>4 DEF Settled, Pending
      <4> QED
        BY <2>1, <3>1, <3>4, <4>1 DEF LandingIndInv, PendingReserved, Reserved, MayApply
    <3> QED
      BY <3>2, <3>3, <3>4 DEF Phases
  <2>3. CASE wal[x.id] = None
    <3> SUFFICES ASSUME NEW id \in TxIds, wal[id] # None, wal[id].tx.key = x.key PROVE FALSE
        BY <2>3 DEF PrepareAppends, Holders
    <3>1. PICK y \in plans : y = wal[id].tx /\ y.id = id
      BY DEF LandingIndInv, WalNamesPlans
    <3>2. SameIntent(wal[id].tx, x)
      BY <3>1 DEF KeysAlike, FlightInv, PlansAlike, SameIntent
    <3>3. Settled(y)
      BY <2>3, <3>1 DEF FlightInv, OneUnsettled
    <3>4. CASE PhaseOf(id) = "commit" /\ Applied(y)
      BY <2>3, <3>1, <3>4 DEF FlightInv, KeyFree, Applied
    <3>5. CASE PhaseOf(id) = "abort"
      <4>1. id \in Holders(x.key) /\ wal[id].phase = "abort"
        BY <3>5 DEF Holders, PhaseOf
      <4> QED
        BY <2>3, <3>2, <4>1 DEF Settled, PrepareRepliesAborted
    <3> QED
      BY <3>1, <3>3, <3>4, <3>5 DEF Settled
  <2> QED
    BY <2>2, <2>3
<1>2. Init => KeysAlike
  BY FlightInit
<1>3. LandingIndInv /\ FlightInv /\ KeysAlike /\ [Next]_vars => KeysAlike'
  BY FlightNext
<1> QED
  BY <1>1, <1>2, <1>3, LandingIndInvariant, FlightInvariant, PTL DEF Spec
=============================================================================
