--------------------------- MODULE MissionLanding ---------------------------
(***************************************************************************)
(* Landing a mission: MissionService::land_internal and its recovery in    *)
(* m1nd-mcp/src/mission_service.rs, over the AuthorityWal of               *)
(* m1nd-mcp/src/authority_wal.rs.                                          *)
(*                                                                         *)
(* Landing turns a MERGE_WAIT head into a LANDED letter with a receipt and *)
(* moves every canonical block to the next store version.  Three durable   *)
(* things take part and no write covers two of them: the plan files, the   *)
(* WAL and the state file.  The plan comes first, then PREPARE,            *)
(* PROVISIONAL and COMMIT, then the state.  Every request opens the        *)
(* service from disk under one lock, and opening settles every plan:       *)
(* forward when the WAL says COMMIT, backward otherwise.  Execution steps  *)
(* are ordinary letters here; MissionExecution has their detail.           *)
(*                                                                         *)
(* Signatures, capabilities and expiry are not modelled: a request that    *)
(* fails them, a coordinator that refuses the COMMIT and a crash all leave *)
(* the disk as it is (Abandon).  A WAL append cut short leaves a tail that *)
(* the next open truncates, so it is also an Abandon.                      *)
(***************************************************************************)
EXTENDS MissionRules, FiniteSets

CONSTANTS Missions,          \* mission ids
          Packets,           \* packet digests
          TxIds,             \* transaction ids, each signed into one transaction
          Keys,              \* client idempotency keys
          None,              \* Option::None
          MaxSeq,            \* bound on the letters of one mission
          ClientReusesKeys   \* may a client use one key for two different intents?

ASSUME MaxSeqAssumption == MaxSeq \in Nat
ASSUME ClientReusesKeysAssumption == ClientReusesKeys \in BOOLEAN

\* AuthorityTransactionV1, with the fields of LandIntentCoreV1 it binds: the
\* MERGE_WAIT head (mission, seq), the store version it saw and the key.
Transactions == [id : TxIds, key : Keys, mission : Missions, seq : Nat, store : Nat]

SameIntent(x, y) == /\ x.mission = y.mission /\ x.seq = y.seq
                    /\ x.store = y.store /\ x.key = y.key

\* What the WAL's replay knows of a transaction: ReplayTransaction.
Phases == {"prepare", "provisional", "commit", "abort"}
WalEntries == [phase : Phases, tx : Transactions]

\* The head letter of a mission, with the store version it binds.
LandingHeads == [state : MissionStates \cup {NoState}, seq : Nat, iteration : Nat,
                 packet : Packets, store : Nat]

\* A LANDED letter's receipt: the transaction and resulting_store_version.
Receipts == [tx : Transactions, resulting : Nat]

ASSUME LandingNoneAssumption == None \notin WalEntries /\ None \notin Transactions
ASSUME LandingPacketsAssumption == Packets # {}

VARIABLES heads,      \* heads[m]: the head letter of mission m      (state file)
          store,      \* store_version of the canonical blocks       (state file)
          receipts,   \* the receipts, and so the used land_replays  (state file)
          plans,      \* transactions with a durable provisional plan
          wal,        \* wal[id]: the last phase of transaction id
          fenced,     \* the WAL is ahead of its protected head
          job         \* the request that holds the operation lock

vars == <<heads, store, receipts, plans, wal, fenced, job>>

NoHead == [state |-> NoState, seq |-> 0, iteration |-> 0,
           packet |-> CHOOSE p \in Packets : TRUE, store |-> 0]

Idle == [pc |-> "idle", tx |-> None]
At(pc) == [pc |-> pc, tx |-> None]

Init ==
    /\ heads = [m \in Missions |-> NoHead]
    /\ store = 1
    /\ receipts = {}
    /\ plans = {}
    /\ wal = [id \in TxIds |-> None]
    /\ fenced = FALSE
    /\ job = Idle

-----------------------------------------------------------------------------
(* Operators introduced with "fault" or "without" are deliberate wrong versions  *)
(* of the operator that follows them.  Nothing uses them; they are there so that *)
(* the properties can be shown to notice the difference.                         *)

(* The AuthorityWal. *)

PhaseOf(id) == IF wal[id] = None THEN "absent" ELSE wal[id].phase
Terminal(id) == PhaseOf(id) \in {"commit", "abort"}

\* The transactions whose PREPARE is in the WAL under key k: at most one, the
\* idempotency index.
Holders(k) == {id \in TxIds : wal[id] # None /\ wal[id].tx.key = k}

\* Outcomes of appending PREPARE for x (terminal_replay_for_prepare, apply_record):
\* appended, answered with a terminal outcome, or refused.
PrepareAppends(x) == Holders(x.key) = {} /\ wal[x.id] = None
\* (fault: an aborted transaction under the same key and intent is not recognised)
PrepareNeverReplies(x) == FALSE

PrepareRepliesAborted(x) ==
    \E id \in Holders(x.key) : wal[id].phase = "abort" /\ SameIntent(wal[id].tx, x)

\* AuthorityWal::append once the record is accepted: fsynced, and then the
\* protected head advances or is lost, which fences every later open.  The caller
\* continues as next only if it advanced.
WalAppend(x, phase, next) ==
    /\ wal' = [wal EXCEPT ![x.id] = [phase |-> phase, tx |-> x]]
    /\ \/ fenced' = FALSE /\ job' = next
       \/ fenced' = TRUE /\ job' = Idle

-----------------------------------------------------------------------------
(* apply_committed_bundle. *)

Applied(x) == \E rc \in receipts : rc.tx = x

\* The head and the store reservation the plan was made for are still there.
Extensible(x) ==
    /\ heads[x.mission].state = "merge_wait" /\ heads[x.mission].seq = x.seq
    /\ store = x.store

MayApply(x) == /\ PhaseOf(x.id) = "commit" /\ wal[x.id].tx = x
               /\ Applied(x) \/ Extensible(x)

\* (fault: the canonical blocks keep their store version)
ApplyForgetsStore(x) ==
    /\ MayApply(x)
    /\ IF Applied(x) THEN UNCHANGED <<heads, store, receipts>>
       ELSE /\ heads' = [heads EXCEPT ![x.mission].state = "landed",
                                      ![x.mission].seq = x.seq + 1,
                                      ![x.mission].store = x.store + 1]
            /\ receipts' = receipts \cup {[tx |-> x, resulting |-> x.store + 1]}
            /\ UNCHANGED store

\* (fault: the LANDED letter replaces the head instead of extending it)
ApplyKeepsSeq(x) ==
    /\ MayApply(x)
    /\ IF Applied(x) THEN UNCHANGED <<heads, store, receipts>>
       ELSE /\ heads' = [heads EXCEPT ![x.mission].state = "landed",
                                      ![x.mission].store = x.store + 1]
            /\ store' = x.store + 1
            /\ receipts' = receipts \cup {[tx |-> x, resulting |-> x.store + 1]}

ApplyBundle(x) ==
    /\ MayApply(x)
    /\ IF Applied(x) THEN UNCHANGED <<heads, store, receipts>>
       ELSE /\ heads' = [heads EXCEPT ![x.mission].state = "landed",
                                      ![x.mission].seq = x.seq + 1,
                                      ![x.mission].store = x.store + 1]
            /\ store' = x.store + 1
            /\ receipts' = receipts \cup {[tx |-> x, resulting |-> x.store + 1]}

-----------------------------------------------------------------------------
(* Opening the service: recover_plans. *)

\* Nothing is left to do for plan x.
Settled(x) ==
    \/ PhaseOf(x.id) = "commit" /\ Applied(x)
    \/ PhaseOf(x.id) = "abort"
    \/ wal[x.id] = None /\ PrepareRepliesAborted(x)

\* MissionService::open_internal up to recovery.  A WAL that is ahead of its
\* protected head refuses to open.
Open ==
    /\ job = Idle
    /\ ~fenced
    /\ job' = At("recover")
    /\ UNCHANGED <<heads, store, receipts, plans, wal, fenced>>

\* The WAL says COMMIT: complete the landing.  (A PREPARE answered with another
\* transaction's COMMIT leads here too, and apply_committed_bundle then refuses.)
RecoverApply(x) ==
    /\ job.pc = "recover"
    /\ x \in plans /\ ~Settled(x)
    /\ PhaseOf(x.id) = "commit"
    /\ ApplyBundle(x)
    /\ UNCHANGED <<plans, wal, fenced, job>>

\* PREPARE never reached the WAL: append it so that the transaction can be aborted.
RecoverPrepare(x) ==
    /\ job.pc = "recover"
    /\ x \in plans /\ ~Settled(x)
    /\ PrepareAppends(x)
    /\ WalAppend(x, "prepare", job)
    /\ UNCHANGED <<heads, store, receipts, plans>>

\* RecoverAbort (fault: any plan that is not settled, committed ones included).
RecoverAbortsAnything(x) ==
    /\ job.pc = "recover"
    /\ x \in plans /\ wal[x.id] # None /\ PhaseOf(x.id) # "abort"
    /\ WalAppend(x, "abort", job)
    /\ UNCHANGED <<heads, store, receipts, plans>>

\* RecoverAbort (fault: a PROVISIONAL transaction is left alone).
RecoverAbortPreparedOnly(x) ==
    /\ job.pc = "recover"
    /\ x \in plans
    /\ PhaseOf(x.id) = "prepare"
    /\ WalAppend(x, "abort", job)
    /\ UNCHANGED <<heads, store, receipts, plans>>

\* PREPARE or PROVISIONAL without COMMIT: the landing did not happen.
RecoverAbort(x) ==
    /\ job.pc = "recover"
    /\ x \in plans
    /\ PhaseOf(x.id) \in {"prepare", "provisional"}
    /\ WalAppend(x, "abort", job)
    /\ UNCHANGED <<heads, store, receipts, plans>>

\* RecoverDone (fault: it only looks at transactions the WAL has not finished, and
\* so serves requests before a committed landing is applied).
RecoverDoneEarly ==
    /\ job.pc = "recover"
    /\ \A x \in plans : Settled(x) \/ Terminal(x.id)
    /\ job' = At("serve")
    /\ UNCHANGED <<heads, store, receipts, plans, wal, fenced>>

\* recover_plans returned Ok: the service is open.
RecoverDone ==
    /\ job.pc = "recover"
    /\ \A x \in plans : Settled(x)
    /\ job' = At("serve")
    /\ UNCHANGED <<heads, store, receipts, plans, wal, fenced>>

-----------------------------------------------------------------------------
(* Requests. *)

\* RequestTransition without validate_scope on the head's own store version.
UnscopedTransition(m, r, p) ==
    /\ job.pc = "serve"
    /\ r.to # "landed"
    /\ heads[m].state = r.from
    /\ heads[m].seq < MaxSeq
    /\ heads[m].seq > 0 => PacketAllowed(r, heads[m].packet, p)
    /\ heads' = [heads EXCEPT ![m] =
                    [state |-> r.to, seq |-> heads[m].seq + 1,
                     iteration |-> NextIteration(r, heads[m].iteration),
                     packet |-> p, store |-> store]]
    /\ job' = Idle
    /\ UNCHANGED <<store, receipts, plans, wal, fenced>>

\* transition_internal: any transition but LANDED, persisted in one write.  The
\* payload and the head must both bind the current store version.
RequestTransition(m, r, p) ==
    /\ job.pc = "serve"
    /\ r.to # "landed"
    /\ heads[m].state = r.from
    /\ heads[m].seq < MaxSeq
    /\ heads[m].seq > 0 => PacketAllowed(r, heads[m].packet, p) /\ heads[m].store = store
    /\ heads' = [heads EXCEPT ![m] =
                    [state |-> r.to, seq |-> heads[m].seq + 1,
                     iteration |-> NextIteration(r, heads[m].iteration),
                     packet |-> p, store |-> store]]
    /\ job' = Idle
    /\ UNCHANGED <<store, receipts, plans, wal, fenced>>

\* The keys a client may sign into an intent for mission m.
UsableKey(k, m) ==
    ClientReusesKeys \/ \A x \in plans : x.key = k => x.mission = m

\* RequestLand (fault: the transaction is not handed on).
RequestLandForgetsTx(id, k, m) ==
    LET x == [id |-> id, key |-> k, mission |-> m, seq |-> heads[m].seq,
              store |-> heads[m].store]
    IN  /\ job.pc = "serve"
        /\ heads[m].state = "merge_wait" /\ heads[m].store = store
        /\ heads[m].seq < MaxSeq
        /\ plans' = plans \cup {x}
        /\ job' = At("prepare")
        /\ UNCHANGED <<heads, store, receipts, wal, fenced>>

\* land_internal up to persist_plan.  The candidate was bound at GATE to the store
\* version its mission's letters bind, and validate_candidate_against_catalog
\* compares it with the blocks again.
RequestLand(id, k, m) ==
    LET x == [id |-> id, key |-> k, mission |-> m, seq |-> heads[m].seq,
              store |-> heads[m].store]
    IN  /\ job.pc = "serve"
        /\ UsableKey(k, m)
        /\ \A y \in plans : y.id # id
        /\ \A rc \in receipts : rc.tx.key # k
        /\ ~Terminal(id)
        /\ heads[m].state = "merge_wait" /\ heads[m].store = store
        /\ heads[m].seq < MaxSeq
        /\ plans' = plans \cup {x}
        /\ job' = [pc |-> "prepare", tx |-> x]
        /\ UNCHANGED <<heads, store, receipts, wal, fenced>>

LandPrepare ==
    /\ job.pc = "prepare"
    /\ PrepareAppends(job.tx)
    /\ WalAppend(job.tx, "prepare", [job EXCEPT !.pc = "provisional"])
    /\ UNCHANGED <<heads, store, receipts, plans>>

LandProvisional ==
    /\ job.pc = "provisional"
    /\ PhaseOf(job.tx.id) = "prepare"
    /\ WalAppend(job.tx, "provisional", [job EXCEPT !.pc = "commit"])
    /\ UNCHANGED <<heads, store, receipts, plans>>

LandCommit ==
    /\ job.pc = "commit"
    /\ PhaseOf(job.tx.id) = "provisional"
    /\ WalAppend(job.tx, "commit", [job EXCEPT !.pc = "apply"])
    /\ UNCHANGED <<heads, store, receipts, plans>>

LandApply ==
    /\ job.pc = "apply"
    /\ ApplyBundle(job.tx)
    /\ job' = Idle
    /\ UNCHANGED <<plans, wal, fenced>>

Abandon ==
    /\ job # Idle
    /\ job' = Idle
    /\ UNCHANGED <<heads, store, receipts, plans, wal, fenced>>

-----------------------------------------------------------------------------
Recover ==
    \/ \E x \in plans : RecoverApply(x) \/ RecoverPrepare(x) \/ RecoverAbort(x)
    \/ RecoverDone

Next ==
    \/ Open
    \/ Recover
    \/ \E m \in Missions, r \in TransitionRules, p \in Packets : RequestTransition(m, r, p)
    \/ \E id \in TxIds, k \in Keys, m \in Missions : RequestLand(id, k, m)
    \/ LandPrepare
    \/ LandProvisional
    \/ LandCommit
    \/ LandApply
    \/ Abandon

Spec == Init /\ [][Next]_vars
\* The owner keeps being called, and a service that is opened again and again gets
\* through one more recovery append.
FairSpec == Spec /\ WF_vars(Next) /\ SF_vars(Recover)

-----------------------------------------------------------------------------
TypeOK ==
    /\ heads \in [Missions -> LandingHeads]
    /\ store \in Nat
    /\ receipts \subseteq Receipts
    /\ plans \subseteq Transactions
    /\ wal \in [TxIds -> WalEntries \cup {None}]
    /\ fenced \in BOOLEAN
    /\ job \in [pc : {"idle", "recover", "serve"}, tx : {None}]
               \cup [pc : {"prepare", "provisional", "commit", "apply"}, tx : Transactions]

(***************************************************************************)
(* "Provisional receipt/letter are invisible until durable WAL COMMIT":    *)
(* every receipt belongs to a transaction the WAL committed and to a       *)
(* mission that is LANDED, and every LANDED mission has one.               *)
(***************************************************************************)
VisibleOnlyCommitted ==
    /\ \A rc \in receipts : /\ PhaseOf(rc.tx.id) = "commit" /\ wal[rc.tx.id].tx = rc.tx
                            /\ heads[rc.tx.mission].state = "landed"
                            /\ heads[rc.tx.mission].seq = rc.tx.seq + 1
                            /\ heads[rc.tx.mission].store = rc.resulting
    /\ \A m \in Missions : heads[m].state = "landed" => \E rc \in receipts : rc.tx.mission = m

(***************************************************************************)
(* A COMMIT is never lost: until its bundle is applied, the head and the   *)
(* store version it was made for stay as they were, so                     *)
(* apply_committed_bundle never meets its "cannot extend canonical head"   *)
(* or "store reservation no longer matches" corruption.                    *)
(***************************************************************************)
CommitNeverLost ==
    \A id \in TxIds : PhaseOf(id) = "commit" => MayApply(wal[id].tx)

(***************************************************************************)
(* Landings are serial: each moves the store version by exactly one, no    *)
(* two land the same mission or rest on the same store version, and none   *)
(* is missing in between.                                                  *)
(***************************************************************************)
LandingsSerial ==
    /\ \A rc \in receipts : rc.resulting = rc.tx.store + 1 /\ rc.resulting \in 2..store
    /\ \A rc, rd \in receipts :
          rc.tx.mission = rd.tx.mission \/ rc.resulting = rd.resulting => rc = rd
    /\ \A v \in 2..store : \E rc \in receipts : rc.resulting = v

(***************************************************************************)
(* No second landing starts while one is unsettled: at most one plan is    *)
(* neither applied nor aborted, and a request past recovery that finds     *)
(* such a plan is the landing that wrote it.                               *)
(***************************************************************************)
OneLandingInFlight ==
    LET unsettled == {x \in plans : ~Settled(x)} IN
    /\ Cardinality(unsettled) <= 1
    /\ job.pc \notin {"idle", "recover"} => unsettled \subseteq {job.tx}

(***************************************************************************)
(* A landing by one mission freezes every other live mission for good: a   *)
(* letter that binds an older store version is never extended, not even to *)
(* FAILED or ARCHIVED.                                                     *)
(***************************************************************************)
StaleMissionsFrozen ==
    [][\A m \in Missions : heads[m].seq > 0 /\ heads[m].store < store
            => heads'[m] = heads[m] /\ store <= store']_vars

(***************************************************************************)
(* Opening never gets stuck on a plan: as long as the WAL is not fenced,   *)
(* recovery can take its next step on every plan that is not settled.      *)
(***************************************************************************)
RecoveryNeverStuck ==
    \A x \in plans : \/ Settled(x)
                     \/ PhaseOf(x.id) \in {"prepare", "provisional"}
                     \/ PhaseOf(x.id) = "commit" /\ MayApply(x)
                     \/ PrepareAppends(x)

(***************************************************************************)
(* Every plan is eventually landed or aborted, unless the WAL is fenced.   *)
(***************************************************************************)
PlansSettle ==
    \A id \in TxIds :
        (\E x \in plans : x.id = id) ~> (fenced \/ \E x \in plans : x.id = id /\ Settled(x))

-----------------------------------------------------------------------------
\* The mission chains the heads stand for.
ChainOf(m) == [state |-> heads[m].state, seq |-> heads[m].seq,
               iteration |-> heads[m].iteration, packet |-> heads[m].packet]

Chain == INSTANCE MissionChain WITH chain <- [m \in Missions |-> ChainOf(m)]

(***************************************************************************)
(* Landing implements MissionChain: a landed letter, whoever applies it    *)
(* and however late, extends the MERGE_WAIT head by one letter of the same *)
(* iteration and packet.                                                   *)
(***************************************************************************)
ImplementsChain == Chain!ChainSpec
=============================================================================
