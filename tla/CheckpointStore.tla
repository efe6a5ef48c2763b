-------------------------- MODULE CheckpointStore --------------------------
(***************************************************************************)
(* The checkpoint store of m1nd-mcp/src/checkpoint_store.rs: immutable     *)
(* checkpoint directories, the CURRENT pointer that selects one of them    *)
(* and names its predecessor as the fallback, and the garbage collector.   *)
(*                                                                         *)
(* A checkpoint id is the digest of its manifest; here it is the place of  *)
(* the manifest in `man`.  A rename is visible at once and survives a      *)
(* power loss only after its directory was synced, so the store keeps what *)
(* a reader sees (dirs, ptr) and what is known to be on disk (safeDirs,    *)
(* safePtr).                                                               *)
(*                                                                         *)
(* create_checkpoint runs under the operation lock in the steps of this    *)
(* module; who calls it, and what a failed step leads to, is BrainRuntime. *)
(*                                                                         *)
(* Operators introduced with "fault" or "without" are deliberate wrong     *)
(* versions of the operator that follows them.  Nothing uses them; they    *)
(* are there so that the properties can be shown to notice the difference. *)
(***************************************************************************)
EXTENDS Naturals, Sequences

CONSTANT None

ASSUME NoneAssumption == None \notin Nat /\ None \notin [cur : Nat, fb : Nat \cup {None}]

VARIABLES man,       \* man[c]: the manifest of checkpoint c
          dirs,      \* the checkpoint directories a reader finds
          safeDirs,  \* those a power loss cannot take away
          ptr,       \* CURRENT, None while the file is missing
          safePtr,   \* CURRENT as a power loss would leave it
          bad        \* directories whose bytes no longer match their digests

store == <<man, dirs, safeDirs, ptr, safePtr, bad>>

\* BrainVersionV1 within one epoch, and its order.
Version(g, r) == [g |-> g, r |-> r]

Newer(v, w) == v.g > w.g \/ (v.g = w.g /\ v.r > w.r)

Pointer(cur, fb) == [cur |-> cur, fb |-> fb]

\* What CURRENT names, None while there is no CURRENT.
Current == IF ptr = None THEN None ELSE ptr.cur

\* validate_checkpoint_directory.
Intact(c) == c \in dirs /\ c \notin bad

-----------------------------------------------------------------------------
(* create_checkpoint, one step for each thing that reaches the disk. *)

\* CURRENT selects the candidate already: only the sync and the confirmation of
\* an earlier attempt are left.
AlreadyCurrent(c) == Current = c

\* The optimistic check against CURRENT, the validated predecessor and
\* validate_monotonic_successor.
MaySucceed(c) ==
    /\ man[c].prev = Current
    /\ man[c].prev # None =>
          Intact(man[c].prev) /\ Newer(man[c].ver, man[man[c].prev].ver)

\* write_immutable_checkpoint: staged, synced and renamed into place.  An earlier
\* attempt may have got this far.
WriteImmutable(c) ==
    /\ dirs' = dirs \cup {c}
    /\ UNCHANGED <<man, safeDirs, ptr, safePtr, bad>>

\* The sync of checkpoints/, before CURRENT can name the directory.
SyncCheckpoints ==
    /\ safeDirs' = dirs
    /\ UNCHANGED <<man, dirs, ptr, safePtr, bad>>

\* build_next_pointer and the rename of publish_current.
PublishCurrent(c) ==
    /\ ptr' = Pointer(c, Current)
    /\ UNCHANGED <<man, dirs, safeDirs, safePtr, bad>>

\* The sync of the root.
SyncRoot ==
    /\ safePtr' = ptr
    /\ UNCHANGED <<man, dirs, safeDirs, ptr, bad>>

\* confirm_ack, and the same checks in reconcile_current_manifest.
Confirmed(c) == Current = c /\ ptr.fb = man[c].prev /\ Intact(c)

-----------------------------------------------------------------------------
(* open, load and gc. *)

\* open removes what was never renamed into place and syncs both directories.
OpenStore ==
    /\ safeDirs' = dirs
    /\ safePtr' = ptr
    /\ UNCHANGED <<man, dirs, ptr, bad>>

\* load_with_fallback.
LoadsCurrent == ptr # None /\ Intact(ptr.cur) /\ ptr.fb = man[ptr.cur].prev

LoadsFallback == ptr # None /\ ~Intact(ptr.cur) /\ ptr.fb # None /\ Intact(ptr.fb)

\* gc, what it keeps (without the predecessor of the fallback).
KeepsPair == {ptr.cur, ptr.fb}

\* gc, what it keeps of the chain.
Keeps == {ptr.cur, ptr.fb} \cup (IF ptr.fb = None THEN {} ELSE {man[ptr.fb].prev})

\* gc under the operation lock: any directories beyond those go, depending on the
\* caller's policy and on where it was cut off.
Gc ==
    /\ ptr # None
    /\ (Keeps \ {None}) \subseteq dirs
    /\ \E gone \in SUBSET (dirs \ Keeps) :
          /\ gone # {}
          /\ dirs' = dirs \ gone
          /\ safeDirs' = safeDirs \ gone
    /\ UNCHANGED <<man, ptr, safePtr, bad>>

-----------------------------------------------------------------------------
(* The disk below. *)

\* The process dies, or the machine loses its power and with it what was not synced.
DiskAfterCrash ==
    /\ \/ UNCHANGED <<dirs, ptr>>
       \/ /\ ptr' \in {ptr, safePtr}
          /\ \E lost \in SUBSET (dirs \ safeDirs) : dirs' = dirs \ lost
    /\ UNCHANGED <<man, safeDirs, safePtr, bad>>

\* The bytes of the current checkpoint decay.
Rot ==
    /\ ptr # None
    /\ bad' = bad \cup {ptr.cur}
    /\ UNCHANGED <<man, dirs, safeDirs, ptr, safePtr>>

StoreInit ==
    /\ man = <<>>
    /\ dirs = {}
    /\ safeDirs = {}
    /\ ptr = None
    /\ safePtr = None
    /\ bad = {}
=============================================================================
