------------------------- MODULE BrainRuntimeProofs -------------------------
(***************************************************************************)
(* Proofs about the brain actor on its checkpoint store, for any writes    *)
(* and proposals and with no bound on checkpoints, faults and crashes: no  *)
(* crash loses what a caller was told of, the session that answers is the  *)
(* one CURRENT names, a proposal is applied to the state it was computed   *)
(* from, and CURRENT moves along one line of versions.                     *)
(***************************************************************************)
EXTENDS BrainRuntime, SequenceTheorems, TLAPS

Manifests == [prev : Nat \cup {None}, ver : Versions, state : SessionStates]

(***************************************************************************)
(* The inductive invariant, the store's part.  A manifest extends the log  *)
(* of its predecessor (ManifestsChain).  CURRENT, as a reader sees it and  *)
(* as a power loss would leave it, names a checkpoint and its predecessor  *)
(* (PointerSound), and the two are at most one publication apart           *)
(* (PointersAdjacent), which is why the three checkpoints gc keeps are     *)
(* enough.                                                                 *)
(***************************************************************************)
StoreTypes ==
    /\ man \in Seq(Manifests)
    /\ dirs \subseteq Ids /\ safeDirs \subseteq dirs /\ bad \subseteq Ids
    /\ ptr \in Pointers /\ safePtr \in Pointers
    /\ acked \in 0..Len(man)

ManifestsChain ==
    \A c \in Ids : man[c].prev # None =>
        man[c].prev \in 1..(c - 1) /\ IsPrefix(man[man[c].prev].state.log, man[c].state.log)

PointerSound(x) ==
    /\ acked > 0 => x # None
    /\ x # None =>
          /\ x.fb = man[x.cur].prev
          /\ x.cur \in safeDirs /\ (x.fb # None => x.fb \in safeDirs)
          /\ acked > 0 => IsPrefix(man[acked].state.log, man[x.cur].state.log)

PointersAdjacent ==
    ptr = safePtr \/ (ptr # None /\ ptr.fb = (IF safePtr = None THEN None ELSE safePtr.cur))

StoreInv ==
    /\ StoreTypes
    /\ ManifestsChain
    /\ PointerSound(ptr)
    /\ PointerSound(safePtr)
    /\ PointersAdjacent

(***************************************************************************)
(* The proposals' part.  A proposal in a log was tried and stands on its   *)
(* snapshot.  One that is still prepared was computed from CURRENT, or its *)
(* version is older than CURRENT's.                                        *)
(***************************************************************************)
FreshLog(log) ==
    \A n \in 1..Len(log) : log[n] \in Proposals =>
        prop[log[n]].st = "tried" /\ SubSeq(log, 1, n - 1) = prop[log[n]].log

LogsFresh == FreshLog(mem.log) /\ \A c \in Ids : FreshLog(man[c].state.log)

PreparedSound ==
    ~degraded => \A p \in Proposals : prop[p].st = "prepared" =>
        /\ ptr # None
        /\ \/ Newer(man[ptr.cur].ver, prop[p].ver)
           \/ prop[p].ver = man[ptr.cur].ver /\ prop[p].log = man[ptr.cur].state.log

(***************************************************************************)
(* The actor's part: what it may rely on at each of its steps.             *)
(***************************************************************************)
Served == IF degraded THEN ptr.fb ELSE ptr.cur

\* A fallback is served only while the bytes of CURRENT's checkpoint are bad, and
\* nothing repairs them.
DegradedSound == degraded => ptr # None /\ ptr.fb # None /\ ptr.cur \in bad

\* The rename of CURRENT is not synced only while its checkpoint is being made.
SyncKnown ==
    proc # "down" /\ ptr # safePtr =>
        pend.kind = "checkpoint" /\ ptr # None /\ ptr.cur = pend.cand

\* The session is the one of the checkpoint that is served.
Serving ==
    /\ ptr # None /\ current = Served
    /\ mem.log = man[current].state.log
    /\ mem.asked <= man[current].state.asked + deferred
    /\ ~degraded => ver = man[current].ver /\ gen <= ver.g

Creating == {"write", "syncdirs", "publish", "syncroot", "confirm", "load", "classify"}

AtRest ==
    /\ proc # "run" => at = "idle" /\ pend = NoPend
    /\ proc # "run" /\ ptr # None /\ ~degraded => gen <= man[ptr.cur].ver.g
    /\ Idle /\ cell = "live" => Serving /\ pend = NoPend
    /\ Idle /\ cell # "live" => pend # NoPend
    /\ at = "bootstrap" => /\ ptr = None /\ current = None /\ ver = Fresh
                           /\ ~degraded /\ pend = NoPend

AtCallback ==
    at = "callback" =>
        /\ Serving
        /\ pend.kind = "rollback"
        /\ turn.kind \in {"write", "read", "asking", "commit"}
        /\ turn.kind = "write" => turn.who \in Writes
        /\ turn.kind = "commit" => /\ turn.who \in Proposals /\ prop[turn.who].st = "tried"
                                   /\ prop[turn.who].log = mem.log

AtCreate ==
    /\ pend.kind = "checkpoint" => pend.cand \in Ids /\ gen <= man[pend.cand].ver.g
    /\ at \in Creating => /\ ~degraded /\ pend.kind = "checkpoint"
                          /\ mem = man[pend.cand].state /\ ver = man[pend.cand].ver
    /\ at \in {"syncdirs", "publish"} =>
          /\ man[pend.cand].prev = Current /\ Current # pend.cand
          /\ Current # None => Newer(man[pend.cand].ver, man[Current].ver)
          /\ pend.cand \in dirs
    /\ at = "publish" => pend.cand \in safeDirs
    /\ at \in {"syncroot", "confirm", "load"} => ptr # None /\ ptr.cur = pend.cand
    /\ at \in {"confirm", "load"} => ptr = safePtr
    /\ at = "load" => current = pend.cand

AtRollback ==
    at = "rollback" => /\ ptr = safePtr /\ pend # NoPend
                       /\ current = None => ptr = None
                       /\ current # None => ptr # None /\ current = Served

ActorTypes ==
    /\ proc \in {"down", "stopped", "run"}
    /\ at \in {"idle", "callback", "bootstrap", "write", "syncdirs", "publish", "syncroot",
               "confirm", "load", "classify", "rollback"}
    /\ attempt \in 1..2
    /\ turn \in [kind : {"none", "write", "read", "asking", "commit", "flush", "bootstrap"},
                 who : Updates \cup {None}]
    /\ cell \in {"live", "out", "vault"}
    /\ mem \in SessionStates
    /\ gen \in Nat
    /\ ver \in Versions
    /\ current \in Ids \cup {None}
    /\ pend \in [kind : {"none", "checkpoint", "rollback"}, cand : Ids \cup {None},
                 prev : Ids \cup {None}, before : Versions]
    /\ deferred \in 0..(Debounce - 1)
    /\ degraded \in BOOLEAN /\ fenced \in Fences
    /\ faults \in 0..MaxFaults /\ crashes \in 0..MaxCrashes

Props == [Proposals -> [st : {"none", "prepared", "tried"}, ver : Versions, log : Seq(Updates)]]

ProposalsInv == prop \in Props /\ LogsFresh /\ PreparedSound

ActorInv ==
    /\ ActorTypes
    /\ DegradedSound
    /\ SyncKnown
    /\ AtRest
    /\ AtCallback
    /\ AtCreate
    /\ AtRollback

BrainInv == StoreInv /\ ProposalsInv /\ ActorInv

-----------------------------------------------------------------------------
(* Logs and versions. *)

\* A log is a prefix of itself, and of itself with one more update.
LEMMA PrefixAppend ==
    ASSUME NEW S, NEW s \in Seq(S), NEW u \in S
    PROVE  IsPrefix(s, s) /\ IsPrefix(s, Append(s, u))
<1>1. Len(s) \in Nat /\ Append(s, u) \in Seq(S) /\ Len(Append(s, u)) = Len(s) + 1
      /\ \A i \in 1..Len(s) : Append(s, u)[i] = s[i] /\ s[i] \in S
    BY AppendProperties, LenProperties, ElementOfSeq
<1>2. /\ SubSeq(s, 1, Len(s)) \in Seq(S) /\ Len(SubSeq(s, 1, Len(s))) = Len(s)
      /\ \A i \in 1..Len(s) : SubSeq(s, 1, Len(s))[i] = s[i]
    BY <1>1, SubSeqFull
<1>3. /\ SubSeq(Append(s, u), 1, Len(s)) \in Seq(S)
      /\ Len(SubSeq(Append(s, u), 1, Len(s))) = Len(s)
      /\ \A i \in 1..Len(s) : SubSeq(Append(s, u), 1, Len(s))[i] = s[i]
    BY <1>1, SubSeqProperties
<1>4. SubSeq(s, 1, Len(s)) = SubSeq(Append(s, u), 1, Len(s))
    BY <1>2, <1>3, SeqEqual
<1> QED
    BY <1>1, <1>4 DEF IsPrefix

\* What precedes an entry of a log stays what it was when an update is appended, and
\* the whole log precedes the new one.
LEMMA BeforeAppend ==
    ASSUME NEW S, NEW s \in Seq(S), NEW u \in S, NEW n \in 1..(Len(s) + 1)
    PROVE  SubSeq(Append(s, u), 1, n - 1) = IF n = Len(s) + 1 THEN s ELSE SubSeq(s, 1, n - 1)
<1>1. Len(s) \in Nat /\ Append(s, u) \in Seq(S) /\ Len(Append(s, u)) = Len(s) + 1
      /\ \A i \in 1..Len(s) : Append(s, u)[i] = s[i] /\ s[i] \in S
    BY AppendProperties, LenProperties, ElementOfSeq
<1>2. PICK m \in Nat : m = n - 1 /\ m <= Len(s)
    BY <1>1
<1>3. /\ SubSeq(s, 1, m) \in Seq(S) /\ Len(SubSeq(s, 1, m)) = m
      /\ \A i \in 1..m : SubSeq(s, 1, m)[i] = s[i]
  <2>1. \A i \in 1..m : s[i] \in S
      BY <1>1, <1>2
  <2> QED
      BY <2>1, <1>2, SubSeqProperties
<1>4. /\ SubSeq(Append(s, u), 1, m) \in Seq(S) /\ Len(SubSeq(Append(s, u), 1, m)) = m
      /\ \A i \in 1..m : SubSeq(Append(s, u), 1, m)[i] = s[i]
  <2>1. \A i \in 1..m : Append(s, u)[i] \in S /\ Append(s, u)[i] = s[i]
      BY <1>1, <1>2
  <2> QED
      BY <2>1, <1>2, SubSeqProperties
<1>5. SubSeq(s, 1, m) = SubSeq(Append(s, u), 1, m)
    BY <1>3, <1>4, SeqEqual
<1>6. SubSeq(s, 1, Len(s)) = s
    BY SubSeqFull
<1> QED
    BY <1>1, <1>2, <1>5, <1>6

\* A prefix of a prefix is a prefix.
LEMMA PrefixTrans ==
    ASSUME NEW S, NEW s \in Seq(S), NEW t \in Seq(S), NEW u \in Seq(S),
           IsPrefix(s, t), IsPrefix(t, u)
    PROVE  IsPrefix(s, u)
<1>1. /\ Len(s) \in Nat /\ Len(t) \in Nat /\ Len(u) \in Nat
      /\ Len(s) <= Len(t) /\ Len(t) <= Len(u)
    BY LenProperties DEF IsPrefix
<1>2. \A i \in 1..Len(s) : s[i] = t[i] /\ s[i] \in S
  <2>1. \A i \in 1..Len(s) : s[i] \in S /\ t[i] \in S
      BY <1>1, ElementOfSeq
  <2>2. SubSeq(s, 1, Len(s)) = SubSeq(t, 1, Len(s))
      BY DEF IsPrefix
  <2> QED
      BY <2>1, <2>2, <1>1, SubSeqProperties
<1>3. \A i \in 1..Len(t) : t[i] = u[i] /\ t[i] \in S
  <2>1. \A i \in 1..Len(t) : t[i] \in S /\ u[i] \in S
      BY <1>1, ElementOfSeq
  <2>2. SubSeq(t, 1, Len(t)) = SubSeq(u, 1, Len(t))
      BY DEF IsPrefix
  <2> QED
      BY <2>1, <2>2, <1>1, SubSeqProperties
<1>4. /\ SubSeq(s, 1, Len(s)) \in Seq(S) /\ Len(SubSeq(s, 1, Len(s))) = Len(s)
      /\ \A i \in 1..Len(s) : SubSeq(s, 1, Len(s))[i] = s[i]
    BY <1>1, SubSeqFull
<1>5. /\ SubSeq(u, 1, Len(s)) \in Seq(S) /\ Len(SubSeq(u, 1, Len(s))) = Len(s)
      /\ \A i \in 1..Len(s) : SubSeq(u, 1, Len(s))[i] = s[i]
  <2>1. \A i \in 1..Len(s) : u[i] \in S /\ u[i] = s[i]
      BY <1>1, <1>2, <1>3
  <2> QED
      BY <2>1, <1>1, SubSeqProperties
<1>6. SubSeq(s, 1, Len(s)) = SubSeq(u, 1, Len(s))
    BY <1>4, <1>5, SeqEqual
<1> QED
    BY <1>1, <1>6 DEF IsPrefix

\* The order of versions is irreflexive and transitive.
LEMMA NewerOrder ==
    ASSUME NEW a \in Versions, NEW b \in Versions, NEW c \in Versions
    PROVE  ~Newer(a, a) /\ (Newer(a, b) /\ Newer(b, c) => Newer(a, c))
BY DEF Newer, Versions

-----------------------------------------------------------------------------
(* The store. *)

\* A manifest of the store.
LEMMA ManifestTypes ==
    ASSUME StoreTypes, NEW c \in Ids
    PROVE  /\ Len(man) \in Nat /\ c \in Nat
           /\ man[c] \in Manifests
           /\ man[c].prev \in Nat \cup {None}
           /\ man[c].ver \in Versions
           /\ man[c].state \in SessionStates
           /\ man[c].state.log \in Seq(Updates)
<1>1. Len(man) \in Nat /\ c \in Nat /\ man[c] \in Manifests
    BY DEF StoreTypes, Ids
<1> QED
    BY <1>1 DEF Manifests, SessionStates

\* What does not touch the store.
LEMMA StoreFrame ==
    ASSUME StoreInv, UNCHANGED <<store, acked>>
    PROVE  StoreInv'
BY DEF StoreInv, store, StoreTypes, ManifestsChain, PointerSound, PointersAdjacent, Ids, Pointers

\* A candidate is added to the manifests: the others stay what they were.
LEMMA StoreGrows ==
    ASSUME StoreInv, NEW m \in Manifests,
           m.prev # None => m.prev \in Ids /\ IsPrefix(man[m.prev].state.log, m.state.log),
           man' = Append(man, m),
           UNCHANGED <<dirs, safeDirs, ptr, safePtr, bad, acked>>
    PROVE  /\ StoreInv'
           /\ Len(man) \in Nat /\ Len(man') = Len(man) + 1
           /\ \A c \in Ids : man'[c] = man[c]
           /\ man'[Len(man) + 1] = m
<1>1. /\ man' \in Seq(Manifests) /\ Len(man) \in Nat /\ Len(man') = Len(man) + 1
      /\ \A c \in Ids : man'[c] = man[c]
      /\ man'[Len(man) + 1] = m
    BY AppendProperties DEF StoreInv, StoreTypes, Ids
<1>2. Ids' = Ids \cup {Len(man) + 1} /\ Ids \subseteq Ids'
    BY <1>1 DEF Ids
<1>3. StoreTypes'
  <2>1. dirs' \subseteq Ids' /\ safeDirs' \subseteq dirs' /\ bad' \subseteq Ids'
      BY <1>2 DEF StoreInv, StoreTypes
  <2>2. ptr' \in Pointers' /\ safePtr' \in Pointers'
      BY <1>2 DEF StoreInv, StoreTypes, Pointers
  <2>3. acked' \in 0..Len(man')
      BY <1>1 DEF StoreInv, StoreTypes
  <2> QED
      BY <1>1, <2>1, <2>2, <2>3 DEF StoreTypes
<1>4. ManifestsChain'
  <2> SUFFICES ASSUME NEW c \in Ids', man'[c].prev # None
               PROVE  man'[c].prev \in 1..(c - 1)
                      /\ IsPrefix(man'[man'[c].prev].state.log, man'[c].state.log)
      BY DEF ManifestsChain
  <2>1. CASE c \in Ids
    <3>1. man[c].prev \in 1..(c - 1) /\ IsPrefix(man[man[c].prev].state.log, man[c].state.log)
        BY <2>1, <1>1 DEF StoreInv, ManifestsChain
    <3>2. man[c].prev \in Ids
        BY <3>1, <2>1, <1>1 DEF Ids
    <3> QED
        BY <3>1, <3>2, <2>1, <1>1
  <2>2. CASE c = Len(man) + 1
    <3>1. m.prev \in Ids /\ man'[m.prev] = man[m.prev] /\ man'[c] = m
        BY <2>2, <1>1
    <3> QED
        BY <3>1, <2>2, <1>1 DEF Ids
  <2> QED
      BY <2>1, <2>2, <1>2
<1>5. acked > 0 => acked \in Ids
    BY DEF StoreInv, StoreTypes, Ids
<1>6. PointerSound(ptr)'
  <2>1. ptr # None => ptr.cur \in Ids
      BY DEF StoreInv, StoreTypes, Pointers
  <2> QED
      BY <2>1, <1>1, <1>5 DEF StoreInv, PointerSound
<1>7. PointerSound(safePtr)'
  <2>1. safePtr # None => safePtr.cur \in Ids
      BY DEF StoreInv, StoreTypes, Pointers
  <2> QED
      BY <2>1, <1>1, <1>5 DEF StoreInv, PointerSound
<1>8. PointersAdjacent'
    BY DEF StoreInv, PointersAdjacent
<1> QED
    BY <1>1, <1>3, <1>4, <1>6, <1>7, <1>8 DEF StoreInv

\* What changes only which directories are there, which are synced, and which are bad.
LEMMA StoreDirs ==
    ASSUME StoreInv, UNCHANGED <<man, ptr, safePtr, acked>>,
           dirs' \subseteq Ids, safeDirs' \subseteq dirs', bad' \subseteq Ids,
           \A x \in {ptr, safePtr} : x # None =>
               x.cur \in safeDirs' /\ (x.fb # None => x.fb \in safeDirs')
    PROVE  StoreInv'
<1>1. Ids' = Ids /\ Pointers' = Pointers
    BY DEF Ids, Pointers
<1>2. StoreTypes'
    BY <1>1 DEF StoreInv, StoreTypes
<1>3. ManifestsChain'
    BY <1>1 DEF StoreInv, ManifestsChain
<1>4. PointerSound(ptr)' /\ PointerSound(safePtr)'
    BY DEF StoreInv, PointerSound
<1>5. PointersAdjacent'
    BY DEF StoreInv, PointersAdjacent
<1> QED
    BY <1>2, <1>3, <1>4, <1>5 DEF StoreInv

\* The directory of a candidate appears.
LEMMA WriteKeepsStore ==
    ASSUME StoreInv, NEW c \in Ids, WriteImmutable(c), acked' = acked
    PROVE  StoreInv'
<1>1. \A x \in {ptr, safePtr} : x # None =>
               x.cur \in safeDirs' /\ (x.fb # None => x.fb \in safeDirs')
    BY DEF StoreInv, PointerSound, WriteImmutable
<1> QED
    BY <1>1, StoreDirs DEF StoreInv, StoreTypes, WriteImmutable

\* The directories are synced.
LEMMA SyncKeepsStore ==
    ASSUME StoreInv, SyncCheckpoints, acked' = acked
    PROVE  StoreInv'
<1>1. \A x \in {ptr, safePtr} : x # None =>
               x.cur \in safeDirs' /\ (x.fb # None => x.fb \in safeDirs')
    BY DEF StoreInv, StoreTypes, PointerSound, SyncCheckpoints
<1> QED
    BY <1>1, StoreDirs DEF StoreInv, StoreTypes, SyncCheckpoints

\* gc spares both what a reader sees and what a power loss would leave, because the
\* two pointers are at most one publication apart.
LEMMA GcKeepsStore ==
    ASSUME StoreInv, Gc, acked' = acked
    PROVE  StoreInv'
<1>1. PICK gone \in SUBSET (dirs \ Keeps) : dirs' = dirs \ gone /\ safeDirs' = safeDirs \ gone
    BY DEF Gc
<1>2. ptr # None /\ UNCHANGED <<man, ptr, safePtr, bad>>
    BY DEF Gc
<1>3. ptr.cur \in safeDirs' /\ (ptr.fb # None => ptr.fb \in safeDirs')
    BY <1>1, <1>2 DEF StoreInv, PointerSound, Keeps
<1>4. safePtr # None => safePtr.cur \in safeDirs' /\ (safePtr.fb # None => safePtr.fb \in safeDirs')
  <2>1. CASE ptr = safePtr
      BY <2>1, <1>3
  <2>2. CASE safePtr # None /\ ptr.fb = safePtr.cur
    <3>1. safePtr.cur \in Ids /\ safePtr.cur # None
        BY <2>2, NoneAssumption DEF StoreInv, StoreTypes, Pointers, Ids
    <3>2. safePtr.fb = man[ptr.fb].prev
        BY <2>2 DEF StoreInv, PointerSound
    <3> QED
        BY <3>1, <3>2, <2>2, <1>1, <1>2 DEF StoreInv, PointerSound, Keeps
  <2> QED
      BY <2>1, <2>2, <1>2 DEF StoreInv, PointersAdjacent
<1>5. \A x \in {ptr, safePtr} : x # None =>
               x.cur \in safeDirs' /\ (x.fb # None => x.fb \in safeDirs')
    BY <1>3, <1>4
<1> QED
    BY <1>1, <1>2, <1>5, StoreDirs DEF StoreInv, StoreTypes

\* The bytes of a directory decay.
LEMMA RotKeepsStore ==
    ASSUME StoreInv, Rot, acked' = acked
    PROVE  StoreInv'
<1>1. \A x \in {ptr, safePtr} : x # None =>
               x.cur \in safeDirs' /\ (x.fb # None => x.fb \in safeDirs')
    BY DEF StoreInv, PointerSound, Rot
<1>2. bad' \subseteq Ids
    BY DEF StoreInv, StoreTypes, Pointers, Rot
<1> QED
    BY <1>1, <1>2, StoreDirs DEF StoreInv, StoreTypes, Rot

\* CURRENT moves to a candidate that succeeds it.
LEMMA PublishKeepsStore ==
    ASSUME StoreInv, NEW c \in safeDirs, PublishCurrent(c), acked' = acked,
           ptr = safePtr, man[c].prev = Current
    PROVE  StoreInv'
<1>1. Ids' = Ids /\ Pointers' = Pointers
    BY DEF Ids, Pointers, PublishCurrent
<1>2. ptr # None => ptr.cur \in Ids /\ ptr.cur # None
    BY NoneAssumption DEF StoreInv, StoreTypes, Pointers, Ids
<1>3. /\ c \in Ids /\ ptr' = [cur |-> c, fb |-> Current] /\ ptr' \in Pointers
      /\ safePtr' = ptr /\ man' = man /\ safeDirs' = safeDirs
    BY <1>2 DEF StoreInv, StoreTypes, Pointers, PublishCurrent, Pointer, Current
<1>4. ptr' # None
    BY <1>3, NoneAssumption DEF Ids, Current, StoreInv, StoreTypes, Pointers
<1>5. StoreTypes'
    BY <1>1, <1>3 DEF StoreInv, StoreTypes, PublishCurrent
<1>6. ManifestsChain'
    BY <1>1, <1>3 DEF StoreInv, ManifestsChain
<1>7. PointerSound(ptr)'
  <2>1. ptr'.cur \in safeDirs' /\ ptr'.fb = man'[ptr'.cur].prev
      BY <1>3
  <2>2. ptr'.fb # None => ptr'.fb \in safeDirs'
      BY <1>3 DEF StoreInv, PointerSound, Current
  <2>3. ASSUME acked > 0 PROVE IsPrefix(man[acked].state.log, man[c].state.log)
    <3>1. ptr # None /\ IsPrefix(man[acked].state.log, man[ptr.cur].state.log)
        BY <2>3 DEF StoreInv, PointerSound
    <3>2. IsPrefix(man[ptr.cur].state.log, man[c].state.log)
        BY <3>1, <1>2, <1>3 DEF StoreInv, ManifestsChain, Current
    <3>3. acked \in Ids
        BY <2>3 DEF StoreInv, StoreTypes, Ids
    <3>4. /\ man[acked].state.log \in Seq(Updates) /\ man[ptr.cur].state.log \in Seq(Updates)
          /\ man[c].state.log \in Seq(Updates)
        BY <3>1, <3>3, <1>2, <1>3, ManifestTypes DEF StoreInv
    <3> QED
        BY <3>1, <3>2, <3>4, PrefixTrans
  <2> QED
      BY <2>1, <2>2, <2>3, <1>3, <1>4 DEF PointerSound
<1>8. PointerSound(safePtr)'
    BY <1>3 DEF StoreInv, PointerSound
<1>9. PointersAdjacent'
    BY <1>3, <1>4 DEF PointersAdjacent, Current
<1> QED
    BY <1>5, <1>6, <1>7, <1>8, <1>9 DEF StoreInv

\* The root is synced, alone or with the directories; CURRENT may be acknowledged.
LEMMA RootKeepsStore ==
    ASSUME StoreInv, UNCHANGED <<man, dirs, ptr, bad>>,
           safeDirs' = safeDirs \/ safeDirs' = dirs,
           safePtr' = ptr,
           acked' = acked \/ (ptr # None /\ acked' = ptr.cur)
    PROVE  StoreInv'
<1>1. Ids' = Ids /\ Pointers' = Pointers
    BY DEF Ids, Pointers
<1>2. ptr # None => ptr.cur \in Ids
    BY DEF StoreInv, StoreTypes, Pointers
<1>3. StoreTypes'
  <2>1. acked' \in 0..Len(man)
      BY <1>2 DEF StoreInv, StoreTypes, Ids
  <2> QED
      BY <2>1, <1>1 DEF StoreInv, StoreTypes
<1>4. ManifestsChain'
    BY <1>1 DEF StoreInv, ManifestsChain
<1>5. PointerSound(ptr)'
  <2>1. CASE acked' = acked
      BY <2>1 DEF StoreInv, StoreTypes, PointerSound
  <2>2. CASE ptr # None /\ acked' = ptr.cur
    <3>1. man[ptr.cur].state.log \in Seq(Updates)
        BY <2>2, <1>2, ManifestTypes DEF StoreInv
    <3>2. IsPrefix(man[ptr.cur].state.log, man[ptr.cur].state.log)
        BY <3>1 DEF IsPrefix
    <3> QED
        BY <3>2, <2>2 DEF StoreInv, StoreTypes, PointerSound
  <2> QED
      BY <2>1, <2>2
<1>6. PointerSound(safePtr)'
    BY <1>5 DEF PointerSound
<1>7. PointersAdjacent'
    BY DEF PointersAdjacent
<1> QED
    BY <1>3, <1>4, <1>5, <1>6, <1>7 DEF StoreInv

\* A power loss takes what was not synced.
LEMMA CrashKeepsStore ==
    ASSUME StoreInv, DiskAfterCrash, acked' = acked
    PROVE  StoreInv'
<1>1. Ids' = Ids /\ Pointers' = Pointers
    BY DEF Ids, Pointers, DiskAfterCrash
<1>2. /\ ptr' = ptr \/ ptr' = safePtr
      /\ dirs' \subseteq dirs /\ safeDirs \subseteq dirs'
      /\ UNCHANGED <<man, safeDirs, safePtr, bad>>
    BY DEF DiskAfterCrash, StoreInv, StoreTypes
<1>3. StoreTypes'
    BY <1>1, <1>2 DEF StoreInv, StoreTypes
<1>4. ManifestsChain'
    BY <1>1, <1>2 DEF StoreInv, ManifestsChain
<1>5. PointerSound(ptr)' /\ PointerSound(safePtr)'
    BY <1>2 DEF StoreInv, PointerSound
<1>6. PointersAdjacent'
    BY <1>2 DEF StoreInv, PointersAdjacent
<1> QED
    BY <1>3, <1>4, <1>5, <1>6 DEF StoreInv

-----------------------------------------------------------------------------
(* The proposals. *)

\* Logs stay fresh as long as a tried proposal stays tried with its snapshot.
LEMMA FreshKept ==
    ASSUME LogsFresh, UNCHANGED man, mem'.log = mem.log \/ mem'.log = <<>>,
           \A p \in Proposals : prop[p].st = "tried" =>
               prop'[p].st = "tried" /\ prop'[p].log = prop[p].log
    PROVE  LogsFresh'
<1>1. Ids' = Ids
    BY DEF Ids
<1>2. FreshLog(mem.log)'
  <2>1. CASE mem'.log = mem.log
      BY <2>1 DEF LogsFresh, FreshLog
  <2>2. CASE mem'.log = <<>>
      BY <2>2 DEF FreshLog
  <2> QED
      BY <2>1, <2>2
<1> QED
    BY <1>1, <1>2 DEF LogsFresh, FreshLog

\* What leaves the manifests and the proposals alone, and puts into memory no log
\* that is not known.
LEMMA PropsFrame ==
    ASSUME ProposalsInv, UNCHANGED <<man, ptr, prop, degraded>>,
           \/ mem'.log = mem.log
           \/ mem'.log = <<>>
           \/ \E c \in Ids : mem'.log = man[c].state.log
    PROVE  ProposalsInv'
<1>1. Ids' = Ids
    BY DEF Ids
<1>2. FreshLog(mem.log)'
  <2>1. CASE mem'.log = mem.log
      BY <2>1 DEF ProposalsInv, LogsFresh, FreshLog
  <2>2. CASE mem'.log = <<>>
      BY <2>2 DEF FreshLog
  <2>3. CASE \E c \in Ids : mem'.log = man[c].state.log
      BY <2>3 DEF ProposalsInv, LogsFresh, FreshLog
  <2> QED
      BY <2>1, <2>2, <2>3
<1>3. LogsFresh'
    BY <1>1, <1>2 DEF ProposalsInv, LogsFresh, FreshLog
<1>4. PreparedSound'
    BY DEF ProposalsInv, PreparedSound
<1> QED
    BY <1>3, <1>4 DEF ProposalsInv, Props, Updates

-----------------------------------------------------------------------------
(* Making a checkpoint. *)

\* The candidate is written, or found to be CURRENT already.
LEMMA CreateStartsKeeps ==
    ASSUME BrainInv, CreateStarts
    PROVE  BrainInv'
<1>1. /\ UNCHANGED <<man, ptr, safePtr, bad, safeDirs, proc, attempt, turn, cell, mem, gen, ver,
                     current, pend, deferred, degraded, fenced, prop, acked, faults, crashes>>
      /\ proc = "run" /\ at = "write" /\ pend.cand \in Ids
      /\ \/ at' = "syncroot" /\ dirs' = dirs /\ Current = pend.cand
         \/ /\ at' = "syncdirs" /\ dirs' = dirs \cup {pend.cand} /\ Current # pend.cand
            /\ man[pend.cand].prev = Current
            /\ Current # None => Newer(man[pend.cand].ver, man[Current].ver)
    BY DEF CreateStarts, AlreadyCurrent, MaySucceed, WriteImmutable, StepTo, store, BrainInv,
           ActorInv, AtCreate, Creating
<1>2. StoreInv'
  <2>1. CASE dirs' = dirs
      BY <2>1, <1>1, StoreFrame DEF BrainInv, store
  <2>2. CASE dirs' = dirs \cup {pend.cand}
      BY <2>2, <1>1, WriteKeepsStore DEF BrainInv, WriteImmutable
  <2> QED
      BY <2>1, <2>2, <1>1
<1>3. ProposalsInv'
    BY <1>1, PropsFrame DEF BrainInv
<1>4. ActorTypes'
    BY <1>1 DEF BrainInv, ActorInv, ActorTypes, Ids
<1>5. DegradedSound' /\ SyncKnown'
    BY <1>1 DEF BrainInv, ActorInv, DegradedSound, SyncKnown
<1>6. AtRest' /\ AtCallback' /\ AtRollback'
    BY <1>1 DEF BrainInv, ActorInv, AtRest, AtCallback, AtRollback, Idle
<1>7. AtCreate'
    BY <1>1, NoneAssumption
       DEF BrainInv, ActorInv, AtCreate, Creating, Ids, Current, StoreInv, StoreTypes, Pointers
<1> QED
    BY <1>2, <1>3, <1>4, <1>5, <1>6, <1>7 DEF BrainInv, ActorInv

\* The sync of the directories comes before CURRENT can name the candidate.
LEMMA CreateSyncsDirectoryKeeps ==
    ASSUME BrainInv, CreateSyncsDirectory
    PROVE  BrainInv'
<1>1. /\ UNCHANGED <<man, dirs, ptr, safePtr, bad, proc, attempt, turn, cell, mem, gen, ver,
                     current, pend, deferred, degraded, fenced, prop, acked, faults, crashes>>
      /\ proc = "run" /\ at = "syncdirs" /\ at' = "publish" /\ safeDirs' = dirs
    BY DEF CreateSyncsDirectory, SyncCheckpoints, StepTo
<1>2. StoreInv'
    BY <1>1, SyncKeepsStore DEF BrainInv, CreateSyncsDirectory
<1>3. ProposalsInv'
    BY <1>1, PropsFrame DEF BrainInv
<1>4. ActorTypes'
    BY <1>1 DEF BrainInv, ActorInv, ActorTypes, Ids
<1>5. DegradedSound' /\ SyncKnown'
    BY <1>1 DEF BrainInv, ActorInv, DegradedSound, SyncKnown
<1>6. AtRest' /\ AtCallback' /\ AtRollback'
    BY <1>1 DEF BrainInv, ActorInv, AtRest, AtCallback, AtRollback, Idle
<1>7. AtCreate'
    BY <1>1 DEF BrainInv, ActorInv, AtCreate, Creating, Ids, Current
<1> QED
    BY <1>2, <1>3, <1>4, <1>5, <1>6, <1>7 DEF BrainInv, ActorInv

\* CURRENT moves to the candidate.  It was synced before, and every snapshot that is
\* still waiting for its commit is older than the candidate.
LEMMA CreatePublishesKeeps ==
    ASSUME BrainInv, CreatePublishes
    PROVE  BrainInv'
<1>1. /\ UNCHANGED <<man, dirs, safeDirs, safePtr, bad, proc, attempt, turn, cell, mem, gen, ver,
                     current, pend, deferred, degraded, fenced, prop, acked, faults, crashes>>
      /\ proc = "run" /\ at = "publish" /\ at' = "syncroot"
      /\ ptr' = [cur |-> pend.cand, fb |-> Current]
      /\ PublishCurrent(pend.cand)
    BY DEF CreatePublishes, PublishCurrent, Pointer, StepTo
<1>2. /\ pend.cand \in Ids /\ pend.cand \in safeDirs /\ man[pend.cand].prev = Current
      /\ Current # pend.cand /\ ~degraded /\ pend.kind = "checkpoint"
      /\ Current # None => Newer(man[pend.cand].ver, man[Current].ver)
    BY <1>1 DEF BrainInv, ActorInv, AtCreate, Creating
<1>3. ptr = safePtr
    BY <1>1, <1>2 DEF BrainInv, ActorInv, SyncKnown, Current
<1>4. StoreInv'
    BY <1>1, <1>2, <1>3, PublishKeepsStore DEF BrainInv
<1>5. ptr' # None
    BY <1>1, <1>2, <1>4, NoneAssumption DEF BrainInv, StoreInv, StoreTypes, Pointers, Ids, Current
<1>6. ProposalsInv'
  <2>1. LogsFresh'
      BY <1>1, FreshKept DEF BrainInv, ProposalsInv
  <2>2. ASSUME NEW p \in Proposals, prop[p].st = "prepared"
        PROVE  Newer(man[pend.cand].ver, prop[p].ver)
    <3>1. /\ ptr # None
          /\ \/ Newer(man[ptr.cur].ver, prop[p].ver)
             \/ prop[p].ver = man[ptr.cur].ver
        BY <2>2, <1>2 DEF BrainInv, ProposalsInv, PreparedSound
    <3>2. ptr.cur \in Ids /\ ptr.cur # None
        BY <3>1, NoneAssumption DEF BrainInv, StoreInv, StoreTypes, Pointers, Ids
    <3>3. Newer(man[pend.cand].ver, man[ptr.cur].ver)
        BY <1>2, <3>1, <3>2 DEF Current
    <3>4. man[pend.cand].ver \in Versions /\ man[ptr.cur].ver \in Versions /\ prop[p].ver \in Versions
        BY <1>2, <3>2, ManifestTypes DEF BrainInv, StoreInv, ProposalsInv, Props
    <3> QED
        BY <3>1, <3>3, <3>4, NewerOrder
  <2>3. PreparedSound'
      BY <2>2, <1>1, <1>5 DEF PreparedSound
  <2> QED
      BY <2>1, <2>3, <1>1 DEF BrainInv, ProposalsInv, Props, Updates
<1>7. ActorTypes'
    BY <1>1 DEF BrainInv, ActorInv, ActorTypes, Ids
<1>8. DegradedSound' /\ SyncKnown'
    BY <1>1, <1>2, <1>5 DEF DegradedSound, SyncKnown
<1>9. AtRest' /\ AtCallback' /\ AtRollback'
    BY <1>1 DEF BrainInv, ActorInv, AtRest, AtCallback, AtRollback, Idle
<1>10. AtCreate'
    BY <1>1, <1>2, <1>5 DEF BrainInv, ActorInv, AtCreate, Creating, Ids
<1> QED
    BY <1>4, <1>6, <1>7, <1>8, <1>9, <1>10 DEF BrainInv, ActorInv

\* The rename of CURRENT is synced.
LEMMA CreateSyncsRootKeeps ==
    ASSUME BrainInv, CreateSyncsRoot
    PROVE  BrainInv'
<1>1. /\ UNCHANGED <<man, dirs, safeDirs, ptr, bad, proc, attempt, turn, cell, mem, gen, ver,
                     current, pend, deferred, degraded, fenced, prop, acked, faults, crashes>>
      /\ proc = "run" /\ at = "syncroot" /\ at' = "confirm" /\ safePtr' = ptr
    BY DEF CreateSyncsRoot, SyncRoot, StepTo
<1>2. StoreInv'
    BY <1>1, RootKeepsStore DEF BrainInv
<1>3. ProposalsInv'
    BY <1>1, PropsFrame DEF BrainInv
<1>4. ActorTypes'
    BY <1>1 DEF BrainInv, ActorInv, ActorTypes, Ids
<1>5. DegradedSound' /\ SyncKnown'
    BY <1>1 DEF BrainInv, ActorInv, DegradedSound, SyncKnown
<1>6. AtRest' /\ AtCallback' /\ AtRollback'
    BY <1>1 DEF BrainInv, ActorInv, AtRest, AtCallback, AtRollback, Idle
<1>7. AtCreate'
    BY <1>1 DEF BrainInv, ActorInv, AtCreate, Creating, Ids
<1> QED
    BY <1>2, <1>3, <1>4, <1>5, <1>6, <1>7 DEF BrainInv, ActorInv

\* The steps of the turn that leave the store, the session and the packet alone: the
\* confirmation of the candidate, a failed attempt, and a rollback decided upon.
LEMMA CreateMovesOn ==
    ASSUME BrainInv,
           UNCHANGED <<store, proc, turn, cell, mem, gen, ver, pend, deferred, degraded, fenced,
                       prop, acked, crashes>>,
           proc = "run", at \in Creating, attempt' \in 1..2, faults' \in 0..MaxFaults,
           \/ at' = "load" /\ at = "confirm" /\ current' = pend.cand
           \/ at' \in {"write", "classify"} /\ current' = current
           \/ at' = "rollback" /\ current' = current /\ Current = current /\ Current # pend.cand
    PROVE  BrainInv'
<1>1. UNCHANGED <<man, dirs, safeDirs, ptr, safePtr, bad>>
    BY DEF store
<1>2. StoreInv'
    BY StoreFrame DEF BrainInv
<1>3. ProposalsInv'
    BY <1>1, PropsFrame DEF BrainInv
<1>4. pend.cand \in Ids /\ ~degraded /\ pend.kind = "checkpoint"
    BY DEF BrainInv, ActorInv, AtCreate
<1>5. ActorTypes'
    BY <1>1, <1>4 DEF BrainInv, ActorInv, ActorTypes, Ids
<1>6. DegradedSound' /\ SyncKnown'
    BY <1>1 DEF BrainInv, ActorInv, DegradedSound, SyncKnown
<1>7. AtRest' /\ AtCallback'
    BY <1>1 DEF BrainInv, ActorInv, AtRest, AtCallback, Idle
<1>8. AtCreate'
    BY <1>1 DEF BrainInv, ActorInv, AtCreate, Creating, Ids
<1>9. AtRollback'
  <2> SUFFICES ASSUME at' = "rollback" PROVE AtRollback'
      BY DEF AtRollback
  <2>1. ptr = safePtr
      BY <1>4 DEF BrainInv, ActorInv, SyncKnown, Current
  <2>2. (current = None => ptr = None) /\ (current # None => ptr # None /\ current = ptr.cur)
      BY NoneAssumption DEF BrainInv, StoreInv, StoreTypes, Pointers, Ids, Current
  <2> QED
      BY <1>1, <1>4, <2>1, <2>2 DEF AtRollback, NoPend, Served
<1> QED
    BY <1>2, <1>3, <1>5, <1>6, <1>7, <1>8, <1>9 DEF BrainInv, ActorInv

\* A session is quarantined with its packet.
LEMMA QuarantineKeeps ==
    ASSUME BrainInv, Quarantine, proc = "run", at \in Creating \cup {"rollback"},
           current' \in Ids \cup {None}, faults' \in 0..MaxFaults
    PROVE  BrainInv'
<1>1. /\ UNCHANGED <<man, dirs, safeDirs, ptr, safePtr, bad, proc, attempt, mem, gen, ver, pend,
                     deferred, degraded, fenced, prop, acked, crashes>>
      /\ cell' = "vault" /\ at' = "idle" /\ turn' = NoTurn
    BY DEF Quarantine, store
<1>2. StoreInv'
    BY <1>1, StoreFrame DEF BrainInv, store
<1>3. ProposalsInv'
    BY <1>1, PropsFrame DEF BrainInv
<1>4. pend # NoPend
    BY DEF BrainInv, ActorInv, AtCreate, AtRollback, NoPend
<1>5. ActorTypes'
    BY <1>1 DEF BrainInv, ActorInv, ActorTypes, Ids, NoTurn
<1>6. DegradedSound' /\ SyncKnown'
    BY <1>1 DEF BrainInv, ActorInv, DegradedSound, SyncKnown
<1>7. AtRest' /\ AtCallback' /\ AtRollback'
    BY <1>1, <1>4 DEF BrainInv, ActorInv, AtRest, AtCallback, AtRollback, Idle
<1>8. AtCreate'
    BY <1>1 DEF BrainInv, ActorInv, AtCreate, Creating, Ids
<1> QED
    BY <1>2, <1>3, <1>5, <1>6, <1>7, <1>8 DEF BrainInv, ActorInv

\* The turn ends: the candidate is what CURRENT names, on disk as well, and the
\* session is the candidate's.
LEMMA TurnEndsKeeps ==
    ASSUME BrainInv, TurnEnds
    PROVE  BrainInv'
<1>1. /\ UNCHANGED <<man, dirs, safeDirs, ptr, safePtr, bad, proc, attempt, mem, gen, ver,
                     current, degraded, fenced, prop, faults, crashes>>
      /\ proc = "run" /\ at = "load" /\ at' = "idle" /\ cell' = "live" /\ turn' = NoTurn
      /\ pend' = NoPend /\ acked' = pend.cand /\ deferred' \in {0, deferred}
    BY DEF TurnEnds, store
<1>2. /\ pend.cand \in Ids /\ ~degraded /\ pend.kind = "checkpoint" /\ gen <= man[pend.cand].ver.g
      /\ mem = man[pend.cand].state /\ ver = man[pend.cand].ver
      /\ ptr # None /\ ptr.cur = pend.cand /\ ptr = safePtr /\ current = pend.cand
    BY <1>1 DEF BrainInv, ActorInv, AtCreate, Creating
<1>3. StoreInv'
    BY <1>1, <1>2, RootKeepsStore DEF BrainInv
<1>4. ProposalsInv'
    BY <1>1, PropsFrame DEF BrainInv
<1>5. ActorTypes'
    BY <1>1, NoneAssumption, DebounceAssumption
       DEF BrainInv, ActorInv, ActorTypes, Ids, NoTurn, NoPend, Fresh, Version, Versions
<1>6. DegradedSound' /\ SyncKnown'
    BY <1>1, <1>2 DEF DegradedSound, SyncKnown
<1>7. Serving'
  <2>1. mem.asked \in Nat /\ deferred' \in Nat
      BY <1>5, DebounceAssumption DEF ActorTypes, SessionStates, BrainInv, ActorInv
  <2> QED
      BY <1>1, <1>2, <2>1 DEF Serving, Served
<1>8. AtRest' /\ AtCallback' /\ AtRollback'
    BY <1>1, <1>7 DEF BrainInv, ActorInv, AtRest, AtCallback, AtRollback, Idle
<1>9. AtCreate'
    BY <1>1 DEF AtCreate, Creating, NoPend
<1> QED
    BY <1>3, <1>4, <1>5, <1>6, <1>8, <1>9 DEF BrainInv, ActorInv

-----------------------------------------------------------------------------
(* Rollback and reconciliation. *)

\* The session is rebuilt from the checkpoint that is served.
LEMMA RestoredKeeps ==
    ASSUME BrainInv, NEW c \in Ids, Restored(c), UNCHANGED store,
           proc = "run", ptr = safePtr, ptr # None, c = Served
    PROVE  BrainInv'
<1>1. /\ UNCHANGED <<man, dirs, safeDirs, ptr, safePtr, bad, proc, attempt, deferred, degraded,
                     fenced, prop, acked, faults, crashes>>
      /\ mem' = man[c].state /\ gen' = 0 /\ ver' = man[c].ver /\ current' = c
      /\ pend' = NoPend /\ cell' = "live" /\ at' = "idle" /\ turn' = NoTurn
    BY DEF Restored, store
<1>2. man[c].state \in SessionStates /\ man[c].ver \in Versions
    BY ManifestTypes DEF BrainInv, StoreInv
<1>3. StoreInv'
    BY <1>1, StoreFrame DEF BrainInv, store
<1>4. ProposalsInv'
    BY <1>1, PropsFrame DEF BrainInv
<1>5. ActorTypes'
    BY <1>1, <1>2, NoneAssumption
       DEF BrainInv, ActorInv, ActorTypes, Ids, NoTurn, NoPend, Fresh, Version, Versions
<1>6. DegradedSound' /\ SyncKnown'
    BY <1>1 DEF BrainInv, ActorInv, DegradedSound, SyncKnown
<1>7. Serving'
  <2>1. man[c].state.asked \in Nat /\ deferred \in Nat /\ man[c].ver.g \in Nat
      BY <1>2, DebounceAssumption DEF ActorTypes, SessionStates, Versions, BrainInv, ActorInv
  <2> QED
      BY <1>1, <2>1 DEF Serving, Served
<1>8. AtRest' /\ AtCallback' /\ AtRollback'
    BY <1>1, <1>7 DEF BrainInv, ActorInv, AtRest, AtCallback, AtRollback, Idle
<1>9. AtCreate'
    BY <1>1 DEF AtCreate, Creating, NoPend
<1> QED
    BY <1>3, <1>4, <1>5, <1>6, <1>8, <1>9 DEF BrainInv, ActorInv

\* A rollback, while CURRENT is the checkpoint the turn began with.
LEMMA RollbackKeeps ==
    ASSUME BrainInv, Rollback
    PROVE  BrainInv'
<1>1. proc = "run" /\ at = "rollback" /\ current # None /\ Restored(current) /\ UNCHANGED store
    BY DEF Rollback
<1>2. ptr = safePtr /\ ptr # None /\ current = Served /\ current \in Ids
    BY <1>1 DEF BrainInv, ActorInv, AtRollback, ActorTypes
<1> QED
    BY <1>1, <1>2, RestoredKeeps

\* The first checkpoint of a brain is rolled back: there is still no CURRENT.
LEMMA BootstrapRollbackKeeps ==
    ASSUME BrainInv, BootstrapRollback
    PROVE  BrainInv'
<1>1. /\ UNCHANGED <<man, dirs, safeDirs, ptr, safePtr, bad, attempt, mem, gen, current, deferred,
                     degraded, fenced, prop, acked, faults, crashes>>
      /\ at = "rollback" /\ current = None /\ proc' = "stopped" /\ ver' = pend.before
      /\ pend' = NoPend /\ cell' = "live" /\ at' = "idle" /\ turn' = NoTurn
    BY DEF BootstrapRollback, store
<1>2. ptr = None /\ safePtr = None
    BY <1>1 DEF BrainInv, ActorInv, AtRollback
<1>3. StoreInv'
    BY <1>1, StoreFrame DEF BrainInv, store
<1>4. ProposalsInv'
    BY <1>1, PropsFrame DEF BrainInv
<1>5. ActorTypes'
    BY <1>1, NoneAssumption
       DEF BrainInv, ActorInv, ActorTypes, Ids, NoTurn, NoPend, Fresh, Version, Versions
<1>6. DegradedSound' /\ SyncKnown'
    BY <1>1, <1>2 DEF BrainInv, ActorInv, DegradedSound, SyncKnown
<1>7. AtRest' /\ AtCallback' /\ AtRollback'
    BY <1>1, <1>2 DEF AtRest, AtCallback, AtRollback, Idle
<1>8. AtCreate'
    BY <1>1 DEF AtCreate, Creating, NoPend
<1> QED
    BY <1>3, <1>4, <1>5, <1>6, <1>7, <1>8 DEF BrainInv, ActorInv

\* The rollback fails and the session is quarantined.
LEMMA RollbackFailsKeeps ==
    ASSUME BrainInv, RollbackFails
    PROVE  BrainInv'
<1>1. /\ proc = "run" /\ at = "rollback" /\ Quarantine
      /\ current' = current /\ current \in Ids \cup {None}
    BY DEF RollbackFails, BrainInv, ActorInv, ActorTypes
<1>2. faults' \in 0..MaxFaults
    BY BoundsAssumption DEF RollbackFails, Fault, BrainInv, ActorInv, ActorTypes
<1> QED
    BY <1>1, <1>2, QuarantineKeeps

\* The candidate in the vault is confirmed: it is served, and its caller may count on it.
LEMMA ReconcileForwardKeeps ==
    ASSUME BrainInv, ReconcileForward
    PROVE  BrainInv'
<1>1. /\ UNCHANGED <<man, dirs, safeDirs, ptr, bad, proc, at, attempt, turn, mem, gen, deferred,
                     degraded, fenced, prop, faults, crashes>>
      /\ proc = "run" /\ at = "idle" /\ cell' = "live" /\ pend' = NoPend /\ safePtr' = ptr
      /\ ver' = man[pend.cand].ver /\ current' = pend.cand /\ acked' = pend.cand
      /\ mem = man[pend.cand].state /\ ~degraded /\ pend.kind = "checkpoint"
      /\ Current = pend.cand
    BY DEF ReconcileForward, Reconciling, Idle, Checkpointable, SyncRoot, Confirmed
<1>2. pend.cand \in Ids /\ gen <= man[pend.cand].ver.g
    BY <1>1 DEF BrainInv, ActorInv, AtCreate
<1>3. ptr # None /\ ptr.cur = pend.cand
    BY <1>1, <1>2, NoneAssumption DEF Current, Ids
<1>4. StoreInv'
    BY <1>1, <1>3, RootKeepsStore DEF BrainInv
<1>5. ProposalsInv'
    BY <1>1, PropsFrame DEF BrainInv
<1>6. man[pend.cand].ver \in Versions
    BY <1>2, ManifestTypes DEF BrainInv, StoreInv
<1>7. ActorTypes'
    BY <1>1, <1>2, <1>6, NoneAssumption
       DEF BrainInv, ActorInv, ActorTypes, Ids, NoPend, Fresh, Version, Versions
<1>8. DegradedSound' /\ SyncKnown'
    BY <1>1 DEF DegradedSound, SyncKnown
<1>9. Serving'
  <2>1. mem.asked \in Nat /\ deferred \in Nat
      BY DebounceAssumption DEF BrainInv, ActorInv, ActorTypes, SessionStates
  <2> QED
      BY <1>1, <1>2, <1>3, <2>1 DEF Serving, Served
<1>10. AtRest' /\ AtCallback' /\ AtRollback'
    BY <1>1, <1>9 DEF AtRest, AtCallback, AtRollback, Idle
<1>11. AtCreate'
    BY <1>1 DEF AtCreate, Creating, NoPend
<1> QED
    BY <1>4, <1>5, <1>7, <1>8, <1>10, <1>11 DEF BrainInv, ActorInv

\* CURRENT is still what it was before the turn: the session goes back to it.
LEMMA ReconcileBackKeeps ==
    ASSUME BrainInv, ReconcileBack \/ ReconcileRollback
    PROVE  BrainInv'
<1>1. /\ proc = "run" /\ ~degraded /\ pend.prev # None /\ Current = pend.prev
      /\ Restored(pend.prev) /\ UNCHANGED store
      /\ pend.kind # "checkpoint" \/ Current # pend.cand
    BY DEF ReconcileBack, ReconcileRollback, Reconciling, Idle, Checkpointable
<1>2. ptr = safePtr
    BY <1>1 DEF BrainInv, ActorInv, SyncKnown, Current
<1>3. ptr # None /\ pend.prev = Served /\ pend.prev \in Ids
    BY <1>1 DEF Current, Served, BrainInv, ActorInv, ActorTypes
<1> QED
    BY <1>1, <1>2, <1>3, RestoredKeeps

\* The actor stays where it is while the root is synced, directories go or decay, or
\* the lease is fenced.
LEMMA ActorFrame ==
    ASSUME BrainInv, StoreInv', UNCHANGED <<actor, proc, prop, acked, crashes, man, ptr>>,
           fenced' \in Fences, faults' \in 0..MaxFaults,
           safePtr' = safePtr \/ safePtr' = ptr,
           bad \subseteq bad',
           at \in {"syncdirs", "publish"} => dirs' = dirs /\ safeDirs' = safeDirs
    PROVE  BrainInv'
<1>1. UNCHANGED <<at, attempt, turn, cell, mem, gen, ver, current, pend, deferred, degraded>>
    BY DEF actor
<1>2. ProposalsInv'
    BY <1>1, PropsFrame DEF BrainInv
<1>3. ActorTypes'
    BY <1>1 DEF BrainInv, ActorInv, ActorTypes, Ids
<1>4. DegradedSound' /\ SyncKnown'
    BY <1>1 DEF BrainInv, ActorInv, DegradedSound, SyncKnown
<1>5. AtRest'
    BY <1>1 DEF BrainInv, ActorInv, AtRest, Idle, Serving, Served
<1>6. AtCallback'
    BY <1>1 DEF BrainInv, ActorInv, AtCallback, Serving, Served
<1>7. AtCreate'
    BY <1>1 DEF BrainInv, ActorInv, AtCreate, Creating, Ids, Current
<1>8. AtRollback'
    BY <1>1 DEF BrainInv, ActorInv, AtRollback, Served
<1> QED
    BY <1>2, <1>3, <1>4, <1>5, <1>6, <1>7, <1>8 DEF BrainInv, ActorInv

\* A reconciliation that fails after its sync.
LEMMA ReconcileFailsKeeps ==
    ASSUME BrainInv, ReconcileFails
    PROVE  BrainInv'
<1>1. /\ UNCHANGED <<actor, proc, prop, acked, crashes, fenced, man, dirs, safeDirs, ptr, bad>>
      /\ safePtr' = ptr /\ faults' \in 0..MaxFaults
    BY BoundsAssumption
       DEF ReconcileFails, SyncRoot, Fault, BrainInv, ActorInv, ActorTypes
<1>2. StoreInv'
    BY <1>1, RootKeepsStore DEF BrainInv
<1>3. fenced' \in Fences
    BY <1>1 DEF BrainInv, ActorInv, ActorTypes
<1> QED
    BY <1>1, <1>2, <1>3, ActorFrame

-----------------------------------------------------------------------------
(* The lease, the life of the process and the store's own calls. *)

\* The lease is fenced, and freed again or left so, whatever the actor is doing.
LEMMA FenceKeeps ==
    ASSUME BrainInv, FenceRaised \/ HeartbeatEnds \/ FenceCleared
    PROVE  BrainInv'
<1>1. UNCHANGED <<actor, proc, prop, acked, crashes, store>> /\ faults' \in 0..MaxFaults
    BY BoundsAssumption DEF FenceRaised, HeartbeatEnds, FenceCleared, Fault, BrainInv, ActorInv, ActorTypes
<1>2. UNCHANGED <<man, dirs, safeDirs, ptr, safePtr, bad>>
    BY <1>1 DEF store
<1>3. StoreInv'
    BY <1>1, StoreFrame DEF BrainInv
<1>4. fenced' \in Fences
    BY DEF FenceRaised, HeartbeatEnds, FenceCleared, Fences
<1> QED
    BY <1>1, <1>2, <1>3, <1>4, ActorFrame

\* The garbage collector works between two calls of the store.
LEMMA CollectGarbageKeeps ==
    ASSUME BrainInv, CollectGarbage
    PROVE  BrainInv'
<1>1. /\ UNCHANGED <<actor, proc, fenced, prop, acked, faults, crashes, man, ptr, safePtr, bad>>
      /\ at \notin {"syncdirs", "publish"}
    BY DEF CollectGarbage, Gc
<1>2. StoreInv'
    BY <1>1, GcKeepsStore DEF BrainInv, CollectGarbage
<1>3. faults' \in 0..MaxFaults /\ fenced' \in Fences
    BY <1>1 DEF BrainInv, ActorInv, ActorTypes
<1> QED
    BY <1>1, <1>2, <1>3, ActorFrame

\* The current checkpoint decays.
LEMMA DecayKeeps ==
    ASSUME BrainInv, Decay
    PROVE  BrainInv'
<1>1. /\ UNCHANGED <<actor, proc, fenced, prop, acked, crashes, man, dirs, safeDirs, ptr, safePtr>>
      /\ bad \subseteq bad'
    BY DEF Decay, Rot
<1>2. StoreInv'
    BY <1>1, RotKeepsStore DEF BrainInv, Decay
<1>3. faults' \in 0..MaxFaults /\ fenced' \in Fences
    BY <1>1, BoundsAssumption DEF Decay, Fault, BrainInv, ActorInv, ActorTypes
<1> QED
    BY <1>1, <1>2, <1>3, ActorFrame

\* The actor stops, with nothing pending.
LEMMA StopKeeps ==
    ASSUME BrainInv, Stop
    PROVE  BrainInv'
<1>1. /\ UNCHANGED <<man, dirs, safeDirs, ptr, safePtr, bad, at, attempt, turn, cell, mem, gen,
                     ver, current, pend, deferred, degraded, fenced, prop, acked, faults, crashes>>
      /\ Idle /\ at = "idle" /\ pend = NoPend /\ proc' = "stopped"
    BY DEF Stop, Idle, actor, store
<1>2. Serving
    BY <1>1 DEF BrainInv, ActorInv, AtRest
<1>3. StoreInv'
    BY <1>1, StoreFrame DEF BrainInv, store
<1>4. ProposalsInv'
    BY <1>1, PropsFrame DEF BrainInv
<1>5. ActorTypes'
    BY <1>1 DEF BrainInv, ActorInv, ActorTypes, Ids
<1>6. DegradedSound' /\ SyncKnown'
    BY <1>1 DEF BrainInv, ActorInv, DegradedSound, SyncKnown, Idle
<1>7. AtRest' /\ AtCallback' /\ AtRollback'
    BY <1>1, <1>2 DEF AtRest, AtCallback, AtRollback, Idle, Serving, Served
<1>8. AtCreate'
    BY <1>1 DEF AtCreate, Creating, NoPend
<1> QED
    BY <1>3, <1>4, <1>5, <1>6, <1>7, <1>8 DEF BrainInv, ActorInv

\* The generation of a newborn brain moves.
LEMMA PreActorBumpKeeps ==
    ASSUME BrainInv, PreActorBump
    PROVE  BrainInv'
<1>1. /\ UNCHANGED <<man, dirs, safeDirs, ptr, safePtr, bad, proc, at, attempt, turn, cell, mem,
                     ver, current, pend, deferred, degraded, fenced, prop, acked, faults, crashes>>
      /\ proc # "run" /\ ptr = None /\ gen' = gen + 1
    BY DEF PreActorBump, store
<1>2. at = "idle" /\ pend = NoPend
    BY <1>1 DEF BrainInv, ActorInv, AtRest
<1>3. StoreInv'
    BY <1>1, StoreFrame DEF BrainInv, store
<1>4. ProposalsInv'
    BY <1>1, PropsFrame DEF BrainInv
<1>5. ActorTypes'
    BY <1>1 DEF BrainInv, ActorInv, ActorTypes, Ids
<1>6. DegradedSound' /\ SyncKnown'
    BY <1>1 DEF BrainInv, ActorInv, DegradedSound, SyncKnown
<1>7. AtRest' /\ AtCallback' /\ AtRollback'
    BY <1>1, <1>2 DEF AtRest, AtCallback, AtRollback, Idle
<1>8. AtCreate'
    BY <1>1, <1>2 DEF AtCreate, Creating, NoPend
<1> QED
    BY <1>3, <1>4, <1>5, <1>6, <1>7, <1>8 DEF BrainInv, ActorInv

\* The actor starts from CURRENT, or from its fallback when the bytes of CURRENT are
\* bad.  They stay bad, so CURRENT is never served after its fallback within a process.
LEMMA BootKeeps ==
    ASSUME BrainInv, BootCurrent \/ BootFallback
    PROVE  BrainInv'
<1> DEFINE c == current'
<1>1. /\ ptr # None
      /\ ~degraded' => c = ptr.cur /\ Intact(c)
      /\ degraded' => c = ptr.fb /\ c # None /\ ~Intact(ptr.cur)
    BY DEF BootCurrent, BootFallback, LoadsCurrent, LoadsFallback, BootFrom
<1>2. /\ UNCHANGED <<man, dirs, ptr, bad, at, attempt, turn, cell, pend, prop, acked, faults, crashes>>
      /\ proc # "run" /\ cell = "live" /\ proc' = "run" /\ safeDirs' = dirs /\ safePtr' = ptr
      /\ gen' = (IF mem = man[c].state THEN gen ELSE 0)
      /\ mem' = man[c].state /\ ver' = man[c].ver /\ deferred' = 0
    BY DEF BootCurrent, BootFallback, BootFrom, OpenStore
<1>3. at = "idle" /\ pend = NoPend
    BY <1>2 DEF BrainInv, ActorInv, AtRest
<1>4. c \in Ids /\ ptr.cur \in Ids /\ ptr.cur \in dirs
    BY <1>1 DEF BrainInv, StoreInv, StoreTypes, Pointers, PointerSound
<1>5. /\ man[c].state \in SessionStates /\ man[c].ver \in Versions
      /\ man[c].state.asked \in Nat /\ man[c].ver.g \in Nat
    BY <1>4, ManifestTypes DEF BrainInv, StoreInv, SessionStates, Versions
<1>6. ~degraded' => ~degraded
    BY <1>1 DEF BrainInv, ActorInv, DegradedSound, Intact
<1>7. degraded' => ptr.cur \in bad
    BY <1>1, <1>4 DEF Intact
<1>8. StoreInv'
    BY <1>2, RootKeepsStore DEF BrainInv
<1>9. ProposalsInv'
  <2>1. Ids' = Ids
      BY <1>2 DEF Ids
  <2>2. LogsFresh'
      BY <2>1, <1>2, <1>4 DEF BrainInv, ProposalsInv, LogsFresh, FreshLog
  <2>3. PreparedSound'
      BY <1>2, <1>6 DEF BrainInv, ProposalsInv, PreparedSound
  <2> QED
      BY <2>2, <2>3, <1>2 DEF BrainInv, ProposalsInv, Props, Updates
<1>10. ActorTypes'
  <2>1. degraded' \in BOOLEAN /\ fenced' \in Fences
      BY DEF BootCurrent, BootFallback, BootFrom, Fences
  <2> QED
      BY <2>1, <1>2, <1>4, <1>5, DebounceAssumption DEF BrainInv, ActorInv, ActorTypes, Ids
<1>11. DegradedSound' /\ SyncKnown'
    BY <1>1, <1>2, <1>7 DEF DegradedSound, SyncKnown
<1>12. Serving'
  <2>1. ~degraded' => gen' <= man[c].ver.g
      BY <1>1, <1>2, <1>5, <1>6 DEF BrainInv, ActorInv, AtRest
  <2> QED
      BY <2>1, <1>1, <1>2, <1>5 DEF Serving, Served
<1>13. AtRest' /\ AtCallback' /\ AtRollback'
    BY <1>2, <1>3, <1>12 DEF AtRest, AtCallback, AtRollback, Idle
<1>14. AtCreate'
    BY <1>2, <1>3 DEF AtCreate, Creating, NoPend
<1> QED
    BY <1>8, <1>9, <1>10, <1>11, <1>13, <1>14 DEF BrainInv, ActorInv

\* A new brain starts.
LEMMA BootFreshKeeps ==
    ASSUME BrainInv, BootFresh
    PROVE  BrainInv'
<1>1. /\ UNCHANGED <<man, dirs, ptr, bad, attempt, turn, cell, mem, gen, pend, prop, acked,
                     faults, crashes>>
      /\ proc # "run" /\ ptr = None /\ proc' = "run" /\ safeDirs' = dirs /\ safePtr' = ptr
      /\ at' = "bootstrap" /\ ver' = Fresh /\ current' = None
      /\ degraded' = FALSE /\ deferred' = 0 /\ fenced' = "no"
    BY DEF BootFresh, OpenStore
<1>2. pend = NoPend /\ ~degraded
    BY <1>1 DEF BrainInv, ActorInv, AtRest, DegradedSound
<1>3. StoreInv'
    BY <1>1, RootKeepsStore DEF BrainInv
<1>4. ProposalsInv'
  <2>1. degraded' = degraded
      BY <1>1, <1>2 DEF BrainInv, ActorInv, ActorTypes
  <2> QED
      BY <2>1, <1>1, PropsFrame DEF BrainInv
<1>5. ActorTypes'
  <2>1. degraded' \in BOOLEAN /\ fenced' \in Fences
      BY <1>1 DEF Fences
  <2> QED
      BY <2>1, <1>1, DebounceAssumption
         DEF BrainInv, ActorInv, ActorTypes, Ids, Fresh, Version, Versions
<1>6. DegradedSound' /\ SyncKnown'
    BY <1>1 DEF DegradedSound, SyncKnown
<1>7. AtRest' /\ AtCallback' /\ AtRollback'
    BY <1>1, <1>2 DEF AtRest, AtCallback, AtRollback, Idle
<1>8. AtCreate'
    BY <1>1, <1>2 DEF AtCreate, Creating, NoPend
<1> QED
    BY <1>3, <1>4, <1>5, <1>6, <1>7, <1>8 DEF BrainInv, ActorInv

\* A start that fails leaves no actor.
LEMMA BootFailsKeeps ==
    ASSUME BrainInv, BootFails
    PROVE  BrainInv'
<1>1. /\ UNCHANGED <<man, dirs, ptr, bad, at, attempt, turn, mem, gen, ver, current, pend,
                     deferred, degraded, fenced, prop, acked, crashes>>
      /\ proc # "run" /\ proc' = "stopped" /\ cell' = "vault"
      /\ safeDirs' = dirs /\ safePtr' = ptr
    BY DEF BootFails, OpenStore
<1>2. at = "idle" /\ pend = NoPend
    BY <1>1 DEF BrainInv, ActorInv, AtRest
<1>3. StoreInv'
    BY <1>1, RootKeepsStore DEF BrainInv
<1>4. ProposalsInv'
    BY <1>1, PropsFrame DEF BrainInv
<1>5. ActorTypes'
    BY <1>1, BoundsAssumption DEF BootFails, Fault, BrainInv, ActorInv, ActorTypes, Ids
<1>6. DegradedSound' /\ SyncKnown'
    BY <1>1 DEF BrainInv, ActorInv, DegradedSound, SyncKnown
<1>7. AtRest' /\ AtCallback' /\ AtRollback'
    BY <1>1, <1>2 DEF BrainInv, ActorInv, AtRest, AtCallback, AtRollback, Idle
<1>8. AtCreate'
    BY <1>1, <1>2 DEF AtCreate, Creating, NoPend
<1> QED
    BY <1>3, <1>4, <1>5, <1>6, <1>7, <1>8 DEF BrainInv, ActorInv

\* A crash leaves the disk, and no snapshot to commit.
LEMMA CrashKeeps ==
    ASSUME BrainInv, Crash
    PROVE  BrainInv'
<1>1. /\ UNCHANGED <<man, acked, faults>> /\ DiskAfterCrash
      /\ proc' = "down" /\ at' = "idle" /\ attempt' = 1 /\ turn' = NoTurn /\ cell' = "live"
      /\ mem' = Blank /\ gen' = 0 /\ ver' = Fresh /\ current' = None /\ pend' = NoPend
      /\ deferred' = 0 /\ degraded' = FALSE /\ fenced' = "no"
      /\ crashes < MaxCrashes /\ crashes' = crashes + 1
      /\ prop' = [p \in Proposals |->
                    IF prop[p].st = "prepared" THEN [prop[p] EXCEPT !.st = "tried"] ELSE prop[p]]
    BY DEF Crash, DiskAfterCrash
<1>2. StoreInv'
    BY <1>1, CrashKeepsStore DEF BrainInv
<1>3. <<>> \in Seq(Updates)
    OBVIOUS
<1>4. mem' \in SessionStates /\ mem'.log = <<>>
    BY <1>1, <1>3 DEF Blank, SessionStates
<1>5. ProposalsInv'
  <2>1. prop' \in Props
      BY <1>1 DEF BrainInv, ProposalsInv, Props
  <2>2. \A p \in Proposals : /\ prop'[p].st # "prepared"
                             /\ prop[p].st = "tried" =>
                                   prop'[p].st = "tried" /\ prop'[p].log = prop[p].log
      BY <1>1 DEF BrainInv, ProposalsInv, Props
  <2>3. LogsFresh'
      BY <2>2, <1>1, <1>4, FreshKept DEF BrainInv, ProposalsInv
  <2>4. PreparedSound'
      BY <2>2 DEF PreparedSound
  <2> QED
      BY <2>1, <2>3, <2>4 DEF ProposalsInv, Props, Updates
<1>6. ActorTypes'
  <2>1. degraded' \in BOOLEAN /\ fenced' \in Fences
      BY <1>1 DEF Fences
  <2> QED
      BY <2>1, <1>1, <1>4, BoundsAssumption, NoneAssumption, DebounceAssumption
         DEF BrainInv, ActorInv, ActorTypes, Ids, NoTurn, NoPend, Fresh, Version, Versions
<1>7. DegradedSound' /\ SyncKnown'
    BY <1>1 DEF DegradedSound, SyncKnown
<1>8. AtRest' /\ AtCallback' /\ AtRollback'
  <2>1. ptr' # None => man'[ptr'.cur].ver.g \in Nat
    <3>1. ASSUME ptr' # None PROVE ptr'.cur \in Ids /\ man[ptr'.cur].ver \in Versions
      <4>1. ptr'.cur \in Ids
          BY <3>1, <1>1, <1>2 DEF StoreInv, StoreTypes, Pointers, Ids
      <4> QED
          BY <4>1, ManifestTypes DEF BrainInv, StoreInv
    <3> QED
        BY <3>1, <1>1 DEF Versions
  <2> QED
      BY <2>1, <1>1 DEF AtRest, AtCallback, AtRollback, Idle
<1>9. AtCreate'
    BY <1>1 DEF AtCreate, Creating, NoPend
<1> QED
    BY <1>2, <1>5, <1>6, <1>7, <1>8, <1>9 DEF BrainInv, ActorInv

-----------------------------------------------------------------------------
(* Turns. *)

\* A session that is served belongs to a checkpoint, and unless it is the fallback's
\* the version needs no refresh.
LEMMA ServingFacts ==
    ASSUME BrainInv, Serving
    PROVE  /\ current \in Ids /\ current # None /\ ptr # None /\ current = Served
           /\ Refreshed \in Versions
           /\ ~degraded => Refreshed = ver
           /\ mem \in SessionStates /\ mem.log \in Seq(Updates) /\ mem.asked \in Nat
           /\ ver \in Versions /\ ver.g \in Nat /\ ver.r \in Nat /\ gen \in Nat
<1>1. current \in Ids /\ current # None
    BY NoneAssumption DEF BrainInv, ActorInv, DegradedSound, StoreInv, StoreTypes, Pointers,
                          Serving, Served, Ids
<1>2. mem \in SessionStates /\ ver \in Versions /\ gen \in Nat
    BY DEF BrainInv, ActorInv, ActorTypes
<1>3. mem.log \in Seq(Updates) /\ mem.asked \in Nat /\ ver.g \in Nat /\ ver.r \in Nat
    BY <1>2 DEF SessionStates, Versions
<1>4. Refreshed \in Versions
    BY <1>2, <1>3 DEF Refreshed, Version, Versions
<1>5. ~degraded => Refreshed = ver
    BY <1>2, <1>3 DEF Serving, Refreshed
<1> QED
    BY <1>1, <1>2, <1>3, <1>4, <1>5 DEF Serving

\* While a command waits for its turn the actor is at rest on the session it serves.
LEMMA IdleFacts ==
    ASSUME BrainInv, Idle, cell = "live"
    PROVE  /\ Serving /\ pend = NoPend /\ ptr = safePtr /\ proc = "run" /\ at = "idle"
BY DEF BrainInv, ActorInv, AtRest, SyncKnown, Idle, NoPend

\* A proposal takes its snapshot, or finds at its commit that the snapshot is stale.
LEMMA SnapshotKeeps ==
    ASSUME BrainInv, NEW p \in Proposals, Snapshot(p) \/ CommitStale(p)
    PROVE  BrainInv'
<1>1. /\ UNCHANGED <<man, dirs, safeDirs, ptr, safePtr, bad, proc, at, attempt, turn, cell, mem,
                     gen, current, pend, deferred, degraded, fenced, acked, faults, crashes>>
      /\ ver' = Refreshed /\ Idle /\ cell = "live"
    BY DEF Snapshot, CommitStale, store
<1>2. Serving /\ pend = NoPend /\ proc = "run" /\ at = "idle"
    BY <1>1, IdleFacts
<1>3. /\ Refreshed \in Versions /\ mem.log \in Seq(Updates)
      /\ ~degraded => Refreshed = ver /\ ver = man[ptr.cur].ver
                      /\ mem.log = man[ptr.cur].state.log
      /\ ptr # None
    BY <1>2, ServingFacts DEF Serving, Served
<1>4. /\ prop' \in Props
      /\ \A q \in Proposals : prop[q].st = "tried" =>
            prop'[q].st = "tried" /\ prop'[q].log = prop[q].log
      /\ \A q \in Proposals : prop'[q].st = "prepared" =>
            prop'[q] = prop[q] \/ (prop'[q].ver = Refreshed /\ prop'[q].log = mem.log)
  <2>1. prop \in Props
      BY DEF BrainInv, ProposalsInv
  <2>2. CASE Snapshot(p)
    <3>1. /\ prop[p].st = "none"
          /\ prop' = [prop EXCEPT ![p] = [st |-> "prepared", ver |-> Refreshed, log |-> mem.log]]
        BY <2>2 DEF Snapshot
    <3> QED
        BY <2>1, <3>1, <1>3 DEF Props
  <2>3. CASE CommitStale(p)
    <3>1. prop[p].st = "prepared" /\ prop' = [prop EXCEPT ![p].st = "tried"]
        BY <2>3 DEF CommitStale
    <3> QED
        BY <2>1, <3>1, <1>3 DEF Props
  <2> QED
      BY <2>2, <2>3
<1>5. StoreInv'
    BY <1>1, StoreFrame DEF BrainInv, store
<1>6. ProposalsInv'
  <2>1. LogsFresh'
      BY <1>1, <1>4, FreshKept DEF BrainInv, ProposalsInv
  <2>2. PreparedSound'
      BY <1>1, <1>3, <1>4 DEF BrainInv, ProposalsInv, PreparedSound
  <2> QED
      BY <2>1, <2>2, <1>4 DEF ProposalsInv, Props, Updates
<1>7. ActorTypes'
    BY <1>1, <1>3 DEF BrainInv, ActorInv, ActorTypes, Ids
<1>8. DegradedSound' /\ SyncKnown'
    BY <1>1 DEF BrainInv, ActorInv, DegradedSound, SyncKnown
<1>9. Serving'
    BY <1>1, <1>2, <1>3 DEF Serving, Served
<1>10. AtRest' /\ AtCallback' /\ AtRollback'
    BY <1>1, <1>2, <1>9 DEF AtRest, AtCallback, AtRollback, Idle
<1>11. AtCreate'
    BY <1>1, <1>2 DEF AtCreate, Creating, NoPend
<1> QED
    BY <1>5, <1>6, <1>7, <1>8, <1>10, <1>11 DEF BrainInv, ActorInv

\* A turn begins.  The commit of a proposal whose version is the session's finds the
\* session it was computed from: any other session's version would be newer.
LEMMA BeginKeeps ==
    ASSUME BrainInv, NEW kind, NEW who, Begin(kind, who),
           \/ kind = "write" /\ who \in Writes /\ prop' = prop
           \/ kind \in {"read", "asking"} /\ who = None /\ prop' = prop
           \/ kind = "commit" /\ who \in Proposals /\ BeginCommit(who)
    PROVE  BrainInv'
<1>1. /\ UNCHANGED <<man, dirs, safeDirs, ptr, safePtr, bad, proc, attempt, mem, gen, current,
                     deferred, degraded, fenced, acked, faults, crashes>>
      /\ Idle /\ cell = "live" /\ cell' = "out" /\ ver' = Refreshed
      /\ turn' = [kind |-> kind, who |-> who] /\ at' = "callback"
      /\ pend' = [kind |-> "rollback", cand |-> None, prev |-> current, before |-> ver']
    BY DEF Begin, store, RollbackPacket
<1>2. Serving /\ ptr = safePtr /\ proc = "run" /\ at = "idle"
    BY <1>1, IdleFacts
<1>3. /\ Refreshed \in Versions /\ current \in Ids /\ mem.log \in Seq(Updates)
      /\ ~degraded => Refreshed = ver /\ ver = man[ptr.cur].ver /\ ver \in Versions
                      /\ mem.log = man[ptr.cur].state.log
      /\ ptr # None
    BY <1>2, ServingFacts DEF Serving, Served
<1>4. /\ prop' \in Props
      /\ \A q \in Proposals : prop[q].st = "tried" =>
            prop'[q].st = "tried" /\ prop'[q].log = prop[q].log
      /\ \A q \in Proposals : prop'[q].st = "prepared" => prop'[q] = prop[q]
      /\ kind = "commit" => prop'[who].st = "tried" /\ prop'[who].log = mem.log
  <2>1. prop \in Props
      BY DEF BrainInv, ProposalsInv
  <2>2. ASSUME kind # "commit" PROVE <1>4!1 /\ <1>4!2 /\ <1>4!3
      BY <2>1, <2>2
  <2>3. ASSUME kind = "commit" PROVE <1>4
    <3>1. /\ who \in Proposals /\ ~degraded /\ prop[who].st = "prepared"
          /\ prop[who].ver = Refreshed /\ prop' = [prop EXCEPT ![who].st = "tried"]
        BY <2>3 DEF BeginCommit, Checkpointable, SnapshotIsCurrent
    <3>2. prop[who].log = mem.log
      <4>1. \/ Newer(man[ptr.cur].ver, prop[who].ver)
            \/ prop[who].log = man[ptr.cur].state.log
          BY <3>1 DEF BrainInv, ProposalsInv, PreparedSound
      <4> QED
          BY <4>1, <3>1, <1>3, NewerOrder
    <3> QED
        BY <2>1, <3>1, <3>2 DEF Props
  <2> QED
      BY <2>2, <2>3
<1>5. StoreInv'
    BY <1>1, StoreFrame DEF BrainInv, store
<1>6. ProposalsInv'
  <2>1. LogsFresh'
      BY <1>1, <1>4, FreshKept DEF BrainInv, ProposalsInv
  <2>2. PreparedSound'
      BY <1>1, <1>4 DEF BrainInv, ProposalsInv, PreparedSound
  <2> QED
      BY <2>1, <2>2, <1>4 DEF ProposalsInv, Props, Updates
<1>7. ActorTypes'
    BY <1>1, <1>3 DEF BrainInv, ActorInv, ActorTypes, Ids, Updates
<1>8. DegradedSound' /\ SyncKnown'
    BY <1>1, <1>2 DEF BrainInv, ActorInv, DegradedSound, SyncKnown
<1>9. Serving'
    BY <1>1, <1>2, <1>3 DEF Serving, Served
<1>10. AtRest' /\ AtCallback' /\ AtRollback'
    BY <1>1, <1>2, <1>4, <1>9 DEF AtRest, AtCallback, AtRollback, Idle
<1>11. AtCreate'
    BY <1>1 DEF AtCreate, Creating
<1> QED
    BY <1>5, <1>6, <1>7, <1>8, <1>10, <1>11 DEF BrainInv, ActorInv

\* What the callback leaves extends the session's log by an update that belongs there.
LEMMA AppliedFacts ==
    ASSUME BrainInv, at = "callback"
    PROVE  /\ Applied \in SessionStates /\ Applied.log \in Seq(Updates) /\ AppliedGen \in Nat
           /\ IsPrefix(mem.log, Applied.log)
           /\ FreshLog(Applied.log)
           /\ Reading => Applied.log = mem.log /\ AppliedGen = gen
           /\ turn.kind = "read" => Applied.asked = mem.asked
           /\ turn.kind = "asking" => Applied.asked = mem.asked + 1
           /\ ~Reading => AppliedGen = gen + 1
<1>1. Serving /\ turn.kind \in {"write", "read", "asking", "commit"}
    BY DEF BrainInv, ActorInv, AtCallback
<1>2. /\ mem \in SessionStates /\ mem.log \in Seq(Updates) /\ gen \in Nat
      /\ mem.asked \in Nat /\ mem.drift \in Nat
    BY <1>1, ServingFacts DEF SessionStates
<1>3. FreshLog(mem.log)
    BY DEF BrainInv, ProposalsInv, LogsFresh
<1>4. CASE Reading
  <2>1. PICK asked \in Nat :
            asked = IF turn.kind = "asking" THEN mem.asked + 1 ELSE mem.asked
      BY <1>2
  <2>2. Applied = [log |-> mem.log, drift |-> mem.drift + 1, asked |-> asked] /\ AppliedGen = gen
      BY <2>1, <1>4 DEF Applied, AppliedGen
  <2>4. Applied \in SessionStates /\ Applied.log = mem.log /\ Applied.asked = asked
      BY <2>2, <1>2 DEF SessionStates
  <2>3. IsPrefix(mem.log, Applied.log)
      BY <2>4, <1>2 DEF IsPrefix
  <2> QED
      BY <2>1, <2>2, <2>4, <2>3, <1>2, <1>3, <1>4
<1>5. CASE ~Reading
  <2>1. Applied = [mem EXCEPT !.log = Append(mem.log, turn.who)] /\ AppliedGen = gen + 1
      BY <1>5 DEF Applied, AppliedGen
  <2>2. /\ turn.who \in Updates
        /\ turn.who \in Proposals => prop[turn.who].st = "tried" /\ prop[turn.who].log = mem.log
      BY <1>1, <1>5, UpdatesAssumption DEF BrainInv, ActorInv, AtCallback, Updates, Reading
  <2>3. PICK u \in Updates : u = turn.who
      BY <2>2
  <2>4. /\ Append(mem.log, u) \in Seq(Updates) /\ Len(Append(mem.log, u)) = Len(mem.log) + 1
        /\ Len(mem.log) \in Nat
        /\ \A i \in 1..Len(mem.log) : Append(mem.log, u)[i] = mem.log[i]
        /\ Append(mem.log, u)[Len(mem.log) + 1] = u
      BY <1>2, AppendProperties, LenProperties
  <2>5. Applied \in SessionStates /\ Applied.log = Append(mem.log, u)
      BY <2>1, <2>3, <2>4, <1>2 DEF SessionStates
  <2>6. IsPrefix(mem.log, Applied.log)
      BY <2>5, <1>2, PrefixAppend
  <2>7. FreshLog(Append(mem.log, u))
    <3> SUFFICES ASSUME NEW n \in 1..(Len(mem.log) + 1), Append(mem.log, u)[n] \in Proposals
                 PROVE  LET p == Append(mem.log, u)[n]
                        IN prop[p].st = "tried"
                           /\ SubSeq(Append(mem.log, u), 1, n - 1) = prop[p].log
        BY <2>4 DEF FreshLog
    <3>1. SubSeq(Append(mem.log, u), 1, n - 1) =
              IF n = Len(mem.log) + 1 THEN mem.log ELSE SubSeq(mem.log, 1, n - 1)
        BY <1>2, BeforeAppend
    <3>2. CASE n = Len(mem.log) + 1
        BY <3>1, <3>2, <2>2, <2>3, <2>4
    <3>3. CASE n \in 1..Len(mem.log)
        BY <3>1, <3>3, <2>4, <1>3 DEF FreshLog
    <3> QED
        BY <3>2, <3>3, <2>4
  <2> QED
      BY <2>1, <2>4, <2>5, <2>6, <2>7, <1>2, <1>5 DEF Reading
<1> QED
    BY <1>4, <1>5

\* The callback fails and a rollback follows: CURRENT was not touched.
LEMMA CallbackRefusedKeeps ==
    ASSUME BrainInv, CallbackRefused
    PROVE  BrainInv'
<1>1. /\ UNCHANGED <<man, dirs, safeDirs, ptr, safePtr, bad, proc, attempt, turn, cell, gen, ver,
                     current, pend, deferred, degraded, fenced, prop, acked, faults, crashes>>
      /\ proc = "run" /\ at = "callback" /\ at' = "rollback" /\ mem' \in {mem, Applied}
    BY DEF CallbackRefused, store
<1>2. Serving /\ pend.kind = "rollback"
    BY <1>1 DEF BrainInv, ActorInv, AtCallback
<1>3. current # None /\ ptr # None /\ current = Served /\ mem \in SessionStates
    BY <1>2, ServingFacts
<1>4. Applied \in SessionStates /\ FreshLog(Applied.log)
    BY <1>1, AppliedFacts
<1>5. ptr = safePtr
    BY <1>1, <1>2 DEF BrainInv, ActorInv, SyncKnown
<1>6. StoreInv'
    BY <1>1, StoreFrame DEF BrainInv, store
<1>7. ProposalsInv'
  <2>1. Ids' = Ids
      BY <1>1 DEF Ids
  <2>2. LogsFresh'
      BY <2>1, <1>1, <1>4 DEF BrainInv, ProposalsInv, LogsFresh, FreshLog
  <2>3. PreparedSound'
      BY <1>1 DEF BrainInv, ProposalsInv, PreparedSound
  <2> QED
      BY <2>2, <2>3, <1>1 DEF BrainInv, ProposalsInv, Props, Updates
<1>8. ActorTypes'
    BY <1>1, <1>3, <1>4 DEF BrainInv, ActorInv, ActorTypes, Ids
<1>9. DegradedSound' /\ SyncKnown'
    BY <1>1 DEF BrainInv, ActorInv, DegradedSound, SyncKnown
<1>10. AtRest' /\ AtCallback' /\ AtRollback'
    BY <1>1, <1>2, <1>3, <1>5 DEF AtRest, AtCallback, AtRollback, Idle, NoPend, Served
<1>11. AtCreate'
    BY <1>1, <1>2 DEF AtCreate, Creating
<1> QED
    BY <1>6, <1>7, <1>8, <1>9, <1>10, <1>11 DEF BrainInv, ActorInv

\* A read turn leaves its drift in memory only.
LEMMA ReadDeferredKeeps ==
    ASSUME BrainInv, ReadDeferred
    PROVE  BrainInv'
<1>1. /\ UNCHANGED <<man, dirs, safeDirs, ptr, safePtr, bad, proc, attempt, gen, ver, current,
                     degraded, fenced, prop, acked, faults, crashes>>
      /\ proc = "run" /\ at = "callback" /\ Reading
      /\ turn.kind = "asking" => ~(deferred + 1 >= Debounce)
      /\ deferred' = IF turn.kind = "asking" THEN deferred + 1 ELSE deferred
      /\ mem' = Applied /\ pend' = NoPend /\ cell' = "live"
      /\ at' = "idle" /\ turn' = NoTurn
    BY DEF ReadDeferred, Due, store
<1>2. Serving /\ pend.kind = "rollback"
    BY <1>1 DEF BrainInv, ActorInv, AtCallback
<1>3. /\ Applied \in SessionStates /\ Applied.log = mem.log
      /\ \/ turn.kind = "read" /\ Applied.asked = mem.asked
         \/ turn.kind = "asking" /\ Applied.asked = mem.asked + 1
    BY <1>1, AppliedFacts DEF Reading
<1>4. ptr = safePtr
    BY <1>1, <1>2 DEF BrainInv, ActorInv, SyncKnown
<1>5. StoreInv'
    BY <1>1, StoreFrame DEF BrainInv, store
<1>6. ProposalsInv'
    BY <1>1, <1>3, PropsFrame DEF BrainInv
<1>7. deferred' \in 0..(Debounce - 1)
    BY <1>1, DebounceAssumption DEF BrainInv, ActorInv, ActorTypes
<1>8. ActorTypes'
    BY <1>1, <1>3, <1>7, NoneAssumption
       DEF BrainInv, ActorInv, ActorTypes, Ids, NoTurn, NoPend, Fresh, Version, Versions
<1>9. DegradedSound' /\ SyncKnown'
    BY <1>1, <1>4 DEF BrainInv, ActorInv, DegradedSound, SyncKnown
<1>10. Serving'
  <2>1. current \in Ids /\ mem.asked \in Nat
      BY <1>2, ServingFacts
  <2>2. man[current].state.asked \in Nat /\ deferred \in Nat
      BY <2>1, DebounceAssumption, ManifestTypes
         DEF SessionStates, BrainInv, StoreInv, ActorInv, ActorTypes
  <2> QED
      BY <2>1, <2>2, <1>1, <1>2, <1>3 DEF Serving, Served
<1>11. AtRest' /\ AtCallback' /\ AtRollback'
    BY <1>1, <1>10 DEF AtRest, AtCallback, AtRollback, Idle
<1>12. AtCreate'
    BY <1>1 DEF AtCreate, Creating, NoPend
<1> QED
    BY <1>5, <1>6, <1>8, <1>9, <1>11, <1>12 DEF BrainInv, ActorInv

\* A candidate is built from the session as it stands: it succeeds the checkpoint that
\* is served, and the manifests before it stay what they were.
LEMMA CandidateKeeps ==
    ASSUME BrainInv, NEW v \in Versions, mem' \in SessionStates, FreshLog(mem'.log),
           Candidate(mem', v),
           UNCHANGED <<proc, current, deferred, degraded, fenced, prop, acked, faults, crashes>>,
           turn' \in [kind : {"write", "read", "asking", "commit", "flush", "bootstrap"},
                      who : Updates \cup {None}],
           cell' \in {"live", "out", "vault"}, proc = "run", ~degraded, ptr = safePtr,
           gen' \in Nat, gen' <= v.g,
           current # None => IsPrefix(man[current].state.log, mem'.log)
    PROVE  BrainInv'
<1> DEFINE m == [prev |-> current, ver |-> v, state |-> mem']
<1> DEFINE new == Len(man) + 1
<1>1. /\ man' = Append(man, m)
      /\ pend' = [kind |-> "checkpoint", cand |-> new, prev |-> current, before |-> ver]
      /\ ver' = v /\ at' = "write" /\ attempt' = 1
      /\ UNCHANGED <<dirs, safeDirs, ptr, safePtr, bad>>
    BY DEF Candidate
<1>2. current \in Ids \cup {None} /\ ver \in Versions
    BY DEF BrainInv, ActorInv, ActorTypes
<1>3. m \in Manifests /\ m.prev = current /\ m.ver = v /\ m.state = mem'
    BY <1>2 DEF Manifests, Ids
<1>4. StoreInv
    BY DEF BrainInv
<1>5. /\ StoreInv' /\ Len(man) \in Nat /\ Len(man') = new
      /\ \A c \in Ids : man'[c] = man[c]
      /\ man'[new] = m
  <2> HIDE DEF m
  <2> QED
      BY <1>1, <1>2, <1>3, <1>4, StoreGrows
<1>6. Ids' = Ids \cup {new} /\ new \in Ids' /\ new # None
    BY <1>5, NoneAssumption DEF Ids
<1>7. ProposalsInv'
  <2>1. ASSUME NEW c \in Ids' PROVE FreshLog(man'[c].state.log)
    <3>1. CASE c \in Ids
        BY <3>1, <1>5 DEF BrainInv, ProposalsInv, LogsFresh
    <3>2. CASE c = new
        BY <3>2, <1>3, <1>5
    <3> QED
        BY <3>1, <3>2, <1>6
  <2>2. LogsFresh'
      BY <2>1 DEF LogsFresh, FreshLog
  <2>3. PreparedSound'
    <3>1. ptr # None => ptr.cur \in Ids
        BY <1>4 DEF StoreInv, StoreTypes, Pointers
    <3> QED
        BY <3>1, <1>1, <1>5 DEF BrainInv, ProposalsInv, PreparedSound
  <2> QED
      BY <2>2, <2>3 DEF BrainInv, ProposalsInv, Props, Updates
<1>8. ActorTypes'
  <2>1. pend' \in [kind : {"none", "checkpoint", "rollback"}, cand : Ids' \cup {None},
                   prev : Ids' \cup {None}, before : Versions]
      BY <1>1, <1>2, <1>6
  <2>2. current' \in Ids' \cup {None}
      BY <1>2, <1>6
  <2> QED
      BY <2>1, <2>2, <1>1 DEF BrainInv, ActorInv, ActorTypes
<1>9. DegradedSound' /\ SyncKnown'
    BY <1>1 DEF BrainInv, ActorInv, DegradedSound, SyncKnown
<1>10. AtRest' /\ AtCallback' /\ AtRollback'
    BY <1>1 DEF AtRest, AtCallback, AtRollback, Idle
<1>11. AtCreate'
  <2>1. /\ pend'.kind = "checkpoint" /\ pend'.cand = new
        /\ man'[pend'.cand].ver = v /\ man'[pend'.cand].state = mem'
      BY <1>1, <1>3, <1>5
  <2> QED
      BY <2>1, <1>1, <1>6 DEF AtCreate, Creating
<1> QED
    BY <1>5, <1>7, <1>8, <1>9, <1>10, <1>11 DEF BrainInv, ActorInv

\* The callback returns and its candidate is built.
LEMMA CallbackReturnsKeeps ==
    ASSUME BrainInv, CallbackReturns
    PROVE  BrainInv'
<1>1. /\ UNCHANGED <<proc, turn, cell, current, deferred, degraded, fenced, prop, acked, faults,
                     crashes>>
      /\ proc = "run" /\ at = "callback" /\ ~degraded /\ mem' = Applied /\ gen' = AppliedGen
    BY DEF CallbackReturns, Checkpointable
<1>2. Serving /\ pend.kind = "rollback" /\ turn.kind \in {"write", "read", "asking", "commit"}
    BY <1>1 DEF BrainInv, ActorInv, AtCallback
<1>3. ptr = safePtr
    BY <1>1, <1>2 DEF BrainInv, ActorInv, SyncKnown
<1>4. /\ Applied \in SessionStates /\ FreshLog(Applied.log) /\ AppliedGen \in Nat
      /\ IsPrefix(mem.log, Applied.log)
    BY <1>1, AppliedFacts
<1>5. current \in Ids /\ ver.g \in Nat /\ ver.r \in Nat /\ mem.log = man[current].state.log
    BY <1>2, ServingFacts DEF Serving
<1>6. PICK v \in Versions : AppliedGen <= v.g /\ Candidate(mem', v)
  <2>1. PICK g \in Nat : /\ AppliedGen <= g
                         /\ g = IF ver.g + 1 > AppliedGen THEN ver.g + 1 ELSE AppliedGen
      BY <1>4, <1>5
  <2>2. Candidate(Applied, Version(g, ver.r + 1))
      BY <2>1 DEF CallbackReturns
  <2>3. Version(g, ver.r + 1) \in Versions /\ Version(g, ver.r + 1).g = g
      BY <1>5 DEF Version, Versions
  <2> QED
      BY <2>1, <2>2, <2>3, <1>1
<1>7. turn \in [kind : {"write", "read", "asking", "commit", "flush", "bootstrap"},
               who : Updates \cup {None}]
    BY <1>2 DEF BrainInv, ActorInv, ActorTypes
<1>8. cell \in {"live", "out", "vault"}
    BY DEF BrainInv, ActorInv, ActorTypes
<1> QED
    BY <1>1, <1>3, <1>4, <1>5, <1>6, <1>7, <1>8, CandidateKeeps

\* The state is published as it stands.  When nothing changed the candidate is CURRENT.
LEMMA CheckpointCurrentKeeps ==
    ASSUME BrainInv, NEW kind \in {"flush", "bootstrap"}, CheckpointCurrent(kind),
           proc = "run", ~degraded, ptr = safePtr,
           \/ Serving
           \/ current = None /\ ver = Fresh
    PROVE  BrainInv'
<1>1. /\ cell' = "out" /\ turn' = [kind |-> kind, who |-> None]
      /\ UNCHANGED <<proc, mem, gen, current, deferred, degraded, fenced, prop, acked, faults,
                     crashes>>
    BY DEF CheckpointCurrent
<1>2. turn' \in [kind : {"write", "read", "asking", "commit", "flush", "bootstrap"},
                who : Updates \cup {None}]
    BY <1>1
<1>3. /\ mem \in SessionStates /\ mem.log \in Seq(Updates) /\ FreshLog(mem.log)
      /\ gen \in Nat /\ ver \in Versions /\ ver.g \in Nat /\ ver.r \in Nat
      /\ current \in Ids \cup {None}
    BY DEF BrainInv, ActorInv, ActorTypes, SessionStates, Versions, ProposalsInv, LogsFresh
<1>4. PICK v : v = Refreshed
    OBVIOUS
<1>5. v \in Versions /\ v.g \in Nat /\ v.r \in Nat /\ gen <= v.g
    BY <1>3, <1>4 DEF Refreshed, Version, Versions, Fresh
<1>6. CASE current # None /\ man[current].ver = v /\ man[current].state = mem
  <2>1. /\ pend' = [kind |-> "checkpoint", cand |-> current, prev |-> current, before |-> ver]
        /\ at' = "write" /\ attempt' = 1 /\ ver' = ver
        /\ UNCHANGED <<man, dirs, safeDirs, ptr, safePtr, bad>>
      BY <1>4, <1>6 DEF CheckpointCurrent, store
  <2>2. Serving /\ current \in Ids /\ v = ver
      BY <1>3, <1>4, <1>6, ServingFacts
  <2>3. StoreInv'
      BY <2>1, <1>1, StoreFrame DEF BrainInv, store
  <2>4. ProposalsInv'
      BY <2>1, <1>1, PropsFrame DEF BrainInv
  <2>5. ActorTypes'
      BY <2>1, <2>2, <1>1, <1>2, <1>3 DEF BrainInv, ActorInv, ActorTypes, Ids
  <2>6. DegradedSound' /\ SyncKnown'
      BY <2>1, <1>1 DEF DegradedSound, SyncKnown
  <2>7. AtRest' /\ AtCallback' /\ AtRollback'
      BY <2>1, <1>1 DEF AtRest, AtCallback, AtRollback, Idle
  <2>8. AtCreate'
      BY <2>1, <2>2, <1>1, <1>5, <1>6 DEF AtCreate, Creating, Ids
  <2> QED
      BY <2>3, <2>4, <2>5, <2>6, <2>7, <2>8 DEF BrainInv, ActorInv
<1>7. CASE ~(current # None /\ man[current].ver = v /\ man[current].state = mem)
  <2>1. PICK next : /\ Candidate(mem, next)
                    /\ next = v \/ next = Version(v.g + 1, v.r + 1)
      BY <1>4, <1>7 DEF CheckpointCurrent
  <2>2. next \in Versions /\ gen <= next.g
      BY <2>1, <1>3, <1>5 DEF Version, Versions
  <2>3. current # None => IsPrefix(man[current].state.log, mem.log)
      BY <1>3, ServingFacts DEF Serving, IsPrefix
  <2>4. mem' = mem /\ gen' = gen
      BY <1>1
  <2> QED
      BY <2>1, <2>2, <2>3, <2>4, <1>1, <1>2, <1>3, CandidateKeeps
<1> QED
    BY <1>6, <1>7

\* A flush, and the first checkpoint of a new brain.
LEMMA FlushKeeps ==
    ASSUME BrainInv, Flush \/ Bootstrap
    PROVE  BrainInv'
<1>1. CASE Flush
  <2>1. Idle /\ cell = "live" /\ ~degraded /\ CheckpointCurrent("flush")
      BY <1>1 DEF Flush, Checkpointable
  <2>2. Serving /\ ptr = safePtr /\ proc = "run"
      BY <2>1, IdleFacts
  <2> QED
      BY <2>1, <2>2, CheckpointCurrentKeeps
<1>2. CASE Bootstrap
  <2>1. proc = "run" /\ at = "bootstrap" /\ CheckpointCurrent("bootstrap")
      BY <1>2 DEF Bootstrap
  <2>2. current = None /\ ver = Fresh /\ ~degraded /\ ptr = safePtr
      BY <2>1 DEF BrainInv, ActorInv, AtRest, SyncKnown, NoPend
  <2> QED
      BY <2>1, <2>2, CheckpointCurrentKeeps
<1> QED
    BY <1>1, <1>2

\* The steps of create_checkpoint and of the classification after it.
LEMMA CreateStepsKeep ==
    ASSUME BrainInv,
           \/ CreateConfirms \/ CreateFails \/ CreateRefused
           \/ ClassifyInDoubt \/ ClassifyNotSelected \/ ClassifyUnreadable \/ TurnUnconfirmed
    PROVE  BrainInv'
<1>1. /\ attempt \in 1..2 /\ faults \in 0..MaxFaults /\ current \in Ids \cup {None}
      /\ Fault => faults' \in 0..MaxFaults
    BY BoundsAssumption DEF Fault, BrainInv, ActorInv, ActorTypes
<1>2. at \in Creating => pend.cand \in Ids
    BY DEF BrainInv, ActorInv, AtCreate
<1>3. ASSUME CreateConfirms PROVE BrainInv'
  <2>1. at \in Creating
      BY <1>3 DEF CreateConfirms, Creating
  <2> QED
      BY <1>1, <1>3, <2>1, CreateMovesOn DEF CreateConfirms
<1>4. ASSUME CreateFails \/ CreateRefused PROVE BrainInv'
  <2>1. /\ proc = "run" /\ at \in Creating /\ NextAttempt /\ faults' \in 0..MaxFaults
      BY <1>1, <1>4 DEF CreateFails, CreateRefused, Creating
  <2>2. at' \in {"write", "classify"} /\ attempt' \in 1..2 /\ current' = current
      BY <1>1, <2>1 DEF NextAttempt
  <2> QED
      BY <2>1, <2>2, CreateMovesOn DEF NextAttempt
<1>5. ASSUME ClassifyNotSelected PROVE BrainInv'
  <2>1. at \in Creating
      BY <1>5 DEF ClassifyNotSelected, Creating
  <2> QED
      BY <1>1, <1>5, <2>1, CreateMovesOn DEF ClassifyNotSelected
<1>6. ASSUME ClassifyInDoubt \/ ClassifyUnreadable \/ TurnUnconfirmed PROVE BrainInv'
  <2>1. proc = "run" /\ at \in Creating /\ Quarantine /\ faults' \in 0..MaxFaults
      BY <1>1, <1>6 DEF ClassifyInDoubt, ClassifyUnreadable, TurnUnconfirmed, Creating
  <2>2. current' \in Ids \cup {None}
      BY <1>1, <1>2, <2>1, <1>6 DEF ClassifyInDoubt, ClassifyUnreadable, TurnUnconfirmed
  <2> QED
      BY <2>1, <2>2, QuarantineKeeps
<1> QED
    BY <1>3, <1>4, <1>5, <1>6

\* A write, a read turn or a commit begins.
LEMMA BeginsKeep ==
    ASSUME BrainInv,
           \/ \E w \in Writes : BeginWrite(w)
           \/ BeginRead
           \/ \E p \in Proposals : BeginCommit(p)
    PROVE  BrainInv'
<1>1. ASSUME NEW w \in Writes, BeginWrite(w) PROVE BrainInv'
  <2>1. Begin("write", w) /\ prop' = prop
      BY <1>1 DEF BeginWrite
  <2> QED
      BY <2>1, BeginKeeps
<1>2. ASSUME BeginRead PROVE BrainInv'
  <2>1. prop' = prop /\ (Begin("read", None) \/ Begin("asking", None))
      BY <1>2 DEF BeginRead
  <2> QED
      BY <2>1, BeginKeeps
<1>3. ASSUME NEW p \in Proposals, BeginCommit(p) PROVE BrainInv'
  <2>1. Begin("commit", p)
      BY <1>3 DEF BeginCommit
  <2> QED
      BY <1>3, <2>1, BeginKeeps
<1> QED
    BY <1>1, <1>2, <1>3

\* Before the first start there is nothing.
LEMMA BrainInit ==
    Init => BrainInv
<1> SUFFICES ASSUME Init PROVE BrainInv
    OBVIOUS
<1>1. /\ man = <<>> /\ dirs = {} /\ safeDirs = {} /\ ptr = None /\ safePtr = None /\ bad = {}
      /\ proc = "down" /\ at = "idle" /\ attempt = 1 /\ turn = NoTurn /\ cell = "live"
      /\ mem = Blank /\ gen = 0 /\ ver = Fresh /\ current = None /\ pend = NoPend
      /\ deferred = 0 /\ degraded = FALSE /\ fenced = "no"
      /\ prop = [p \in Proposals |-> [st |-> "none", ver |-> Fresh, log |-> <<>>]]
      /\ acked = 0 /\ faults = 0 /\ crashes = 0
    BY DEF Init, StoreInit
<1>2. man \in Seq(Manifests) /\ Len(man) = 0 /\ <<>> \in Seq(Updates)
    BY <1>1
<1>3. StoreInv
    BY <1>1, <1>2 DEF StoreInv, StoreTypes, ManifestsChain, PointerSound, PointersAdjacent, Ids,
                      Pointers
<1>4. mem \in SessionStates /\ mem.log = <<>> /\ Fresh \in Versions
    BY <1>1, <1>2 DEF Blank, SessionStates, Fresh, Version, Versions
<1>5. ProposalsInv
  <2>1. prop \in Props
      BY <1>1, <1>2, <1>4 DEF Props
  <2>2. LogsFresh
      BY <1>2, <1>4 DEF LogsFresh, FreshLog, Ids
  <2>3. PreparedSound
      BY <1>1 DEF PreparedSound
  <2> QED
      BY <2>1, <2>2, <2>3 DEF ProposalsInv
<1>6. ActorTypes
  <2>1. degraded \in BOOLEAN /\ fenced \in Fences
      BY <1>1 DEF Fences
  <2> QED
      BY <2>1, <1>1, <1>2, <1>4, DebounceAssumption, BoundsAssumption
         DEF ActorTypes, Ids, NoTurn, NoPend
<1>7. DegradedSound /\ SyncKnown /\ AtRest /\ AtCallback /\ AtCreate /\ AtRollback
    BY <1>1 DEF DegradedSound, SyncKnown, AtRest, AtCallback, AtCreate, AtRollback, Creating,
                NoPend, Idle
<1> QED
    BY <1>3, <1>5, <1>6, <1>7 DEF BrainInv, ActorInv

\* Every step keeps the invariant.
LEMMA BrainNext ==
    BrainInv /\ [Next]_vars => BrainInv'
<1> SUFFICES ASSUME BrainInv, [Next]_vars PROVE BrainInv'
    OBVIOUS
<1>1. ASSUME Next PROVE BrainInv'
  <2>1. ASSUME ActorStep PROVE BrainInv'
    <3>1. ASSUME \/ CreateStarts \/ CreateSyncsDirectory \/ CreatePublishes \/ CreateSyncsRoot
                 \/ CreateConfirms \/ CreateRefused \/ ClassifyInDoubt \/ ClassifyNotSelected
                 \/ TurnEnds
          PROVE  BrainInv'
        BY <3>1, CreateStartsKeeps, CreateSyncsDirectoryKeeps, CreatePublishesKeeps,
           CreateSyncsRootKeeps, CreateStepsKeep, TurnEndsKeeps
    <3>2. ASSUME CallbackReturns \/ CallbackRefused \/ ReadDeferred \/ Bootstrap PROVE BrainInv'
        BY <3>2, CallbackReturnsKeeps, CallbackRefusedKeeps, ReadDeferredKeeps, FlushKeeps
    <3>3. ASSUME Rollback \/ BootstrapRollback \/ Reconcile PROVE BrainInv'
        BY <3>3, RollbackKeeps, BootstrapRollbackKeeps, ReconcileForwardKeeps, ReconcileBackKeeps
           DEF Reconcile
    <3> QED
        BY <2>1, <3>1, <3>2, <3>3 DEF ActorStep
  <2>2. ASSUME NEW p \in Proposals, Snapshot(p) \/ BeginCommit(p) \/ CommitStale(p)
        PROVE  BrainInv'
      BY <2>2, SnapshotKeeps, BeginsKeep
  <2>3. ASSUME (\E w \in Writes : BeginWrite(w)) \/ BeginRead \/ Flush PROVE BrainInv'
      BY <2>3, BeginsKeep, FlushKeeps
  <2>4. ASSUME CreateFails \/ ClassifyUnreadable \/ TurnUnconfirmed \/ RollbackFails \/ ReconcileFails
        PROVE  BrainInv'
      BY <2>4, CreateStepsKeep, RollbackFailsKeeps, ReconcileFailsKeeps
  <2>5. ASSUME FenceRaised \/ HeartbeatEnds \/ FenceCleared \/ Stop \/ PreActorBump PROVE BrainInv'
      BY <2>5, FenceKeeps, StopKeeps, PreActorBumpKeeps
  <2>6. ASSUME BootCurrent \/ BootFallback \/ BootFresh \/ BootFails PROVE BrainInv'
      BY <2>6, BootKeeps, BootFreshKeeps, BootFailsKeeps
  <2>7. ASSUME Crash \/ CollectGarbage \/ Decay PROVE BrainInv'
      BY <2>7, CrashKeeps, CollectGarbageKeeps, DecayKeeps
  <2> QED
      BY <1>1, <2>1, <2>2, <2>3, <2>4, <2>5, <2>6, <2>7 DEF Next
<1>2. ASSUME UNCHANGED vars PROVE BrainInv'
  <2>1. UNCHANGED <<actor, proc, prop, acked, crashes, store, fenced, faults>>
      BY <1>2 DEF vars
  <2>2. UNCHANGED <<man, dirs, safeDirs, ptr, safePtr, bad>>
      BY <2>1 DEF store
  <2>3. StoreInv'
      BY <2>1, StoreFrame DEF BrainInv
  <2>4. fenced' \in Fences /\ faults' \in 0..MaxFaults
      BY <2>1 DEF BrainInv, ActorInv, ActorTypes
  <2> QED
      BY <2>1, <2>2, <2>3, <2>4, ActorFrame
<1> QED
    BY <1>1, <1>2

-----------------------------------------------------------------------------
(***************************************************************************)
(* The invariant of run_actor over its checkpoint store holds in every     *)
(* reachable state.                                                        *)
(***************************************************************************)
THEOREM BrainInvariant == Spec => []BrainInv
<1> QED
    BY BrainInit, BrainNext, PTL DEF Spec

(***************************************************************************)
(* The brain's variables keep their types.                                 *)
(***************************************************************************)
THEOREM BrainTypes == Spec => []TypeOK
<1>1. BrainInv => TypeOK
  <2> SUFFICES ASSUME BrainInv PROVE TypeOK
      OBVIOUS
  <2>1. deferred \in Nat
      BY DebounceAssumption DEF BrainInv, ActorInv, ActorTypes
  <2> QED
      BY <2>1 DEF TypeOK, BrainInv, StoreInv, StoreTypes, ActorInv, ActorTypes, ProposalsInv, Props,
                  Manifests
<1> QED
    BY <1>1, BrainInvariant, PTL

(***************************************************************************)
(* Whatever a power loss leaves of CURRENT is a checkpoint that is on disk *)
(* with its fallback and holds every update whose turn was confirmed to    *)
(* its caller: create_checkpoint, its retry, the reconciliation and gc     *)
(* lose none, in any order of faults and crashes.                          *)
(***************************************************************************)
THEOREM AcknowledgedNeverLost == Spec => []AcknowledgedSurvives
<1>1. BrainInv => AcknowledgedSurvives
    BY DEF BrainInv, StoreInv, PointerSound, AcknowledgedSurvives
<1> QED
    BY <1>1, BrainInvariant, PTL

(***************************************************************************)
(* The session that answers commands is CURRENT's, or its fallback's on a  *)
(* degraded boot, up to the drift of read turns, of which fewer than       *)
(* auto_persist_interval asked for a persist, for every interval.          *)
(***************************************************************************)
THEOREM ServedAlwaysCurrent == Spec => []ServedIsCurrent
<1>1. BrainInv => ServedIsCurrent
  <2> SUFFICES ASSUME BrainInv, Idle, cell = "live"
               PROVE  /\ ptr # None
                      /\ LET served == man[IF degraded THEN ptr.fb ELSE ptr.cur].state
                         IN mem.log = served.log /\ mem.asked < served.asked + Debounce
      BY DEF ServedIsCurrent
  <2>1. Serving
      BY IdleFacts
  <2>2. current \in Ids /\ current = Served /\ ptr # None /\ mem.asked \in Nat
      BY <2>1, ServingFacts
  <2>3. man[current].state.asked \in Nat
      BY <2>2, ManifestTypes DEF BrainInv, StoreInv, SessionStates
  <2>4. mem.asked < man[current].state.asked + Debounce
      BY <2>1, <2>2, <2>3, DebounceAssumption DEF Serving, BrainInv, ActorInv, ActorTypes
  <2> QED
      BY <2>1, <2>2, <2>4 DEF Serving, Served
<1> QED
    BY <1>1, BrainInvariant, PTL

(***************************************************************************)
(* commit applies a proposal only to the state its snapshot was read from: *)
(* the comparison of versions catches every update, rollback and           *)
(* reconciliation in between, for any number of concurrent proposals.      *)
(***************************************************************************)
THEOREM ProposalsAlwaysFresh == Spec => []ProposalsFresh
<1>1. BrainInv => ProposalsFresh
    BY DEF BrainInv, ProposalsInv, LogsFresh, FreshLog, ProposalsFresh
<1> QED
    BY <1>1, BrainInvariant, PTL

-----------------------------------------------------------------------------
(* What one step may do to CURRENT and to what callers were told. *)

\* Only publish_current and a power loss move CURRENT.
LEMMA PointerMoves ==
    ASSUME [Next]_vars, ptr' # ptr
    PROVE  CreatePublishes \/ Crash
<1>1. ASSUME ActorStep PROVE CreatePublishes
  <2>1. ASSUME \/ CreateStarts \/ CreateSyncsDirectory \/ CreateSyncsRoot
               \/ CreateConfirms \/ CreateRefused \/ ClassifyInDoubt \/ ClassifyNotSelected
               \/ TurnEnds
        PROVE  ptr' = ptr
    BY <2>1 DEF CreateStarts, CreateSyncsDirectory, CreateSyncsRoot, CreateConfirms,
                CreateRefused, ClassifyInDoubt, ClassifyNotSelected, TurnEnds, WriteImmutable,
                SyncCheckpoints, SyncRoot, NextAttempt, Quarantine, store
  <2>2. ASSUME CallbackReturns \/ CallbackRefused \/ ReadDeferred \/ Bootstrap PROVE ptr' = ptr
    BY <2>2 DEF CallbackReturns, CallbackRefused, ReadDeferred, Bootstrap, CheckpointCurrent,
                Candidate, store
  <2>3. ASSUME Rollback \/ BootstrapRollback \/ Reconcile PROVE ptr' = ptr
    BY <2>3 DEF Rollback, BootstrapRollback, Reconcile, ReconcileForward, ReconcileBack,
                ReconcileRollback, SyncRoot, store
  <2> QED
    BY <1>1, <2>1, <2>2, <2>3 DEF ActorStep
<1>2. ASSUME NEW p \in Proposals, Snapshot(p) \/ BeginCommit(p) \/ CommitStale(p)
      PROVE  ptr' = ptr
  BY <1>2 DEF Snapshot, BeginCommit, CommitStale, Begin, store
<1>3. ASSUME (\E w \in Writes : BeginWrite(w)) \/ BeginRead \/ Flush PROVE ptr' = ptr
  BY <1>3 DEF BeginWrite, BeginRead, Begin, Flush, CheckpointCurrent, Candidate, store
<1>4. ASSUME CreateFails \/ ClassifyUnreadable \/ TurnUnconfirmed \/ RollbackFails \/ ReconcileFails
      PROVE  ptr' = ptr
  BY <1>4 DEF CreateFails, ClassifyUnreadable, TurnUnconfirmed, RollbackFails, ReconcileFails,
              NextAttempt, Quarantine, SyncRoot, store
<1>5. ASSUME FenceRaised \/ HeartbeatEnds \/ FenceCleared \/ Stop \/ PreActorBump PROVE ptr' = ptr
  BY <1>5 DEF FenceRaised, HeartbeatEnds, FenceCleared, Stop, PreActorBump, store
<1>6. ASSUME BootCurrent \/ BootFallback \/ BootFresh \/ BootFails PROVE ptr' = ptr
  BY <1>6 DEF BootCurrent, BootFallback, BootFrom, BootFresh, BootFails, OpenStore
<1>7. ASSUME CollectGarbage \/ Decay PROVE ptr' = ptr
  BY <1>7 DEF CollectGarbage, Decay, Gc, Rot
<1>8. ASSUME UNCHANGED vars PROVE ptr' = ptr
  BY <1>8 DEF vars, store
<1> QED
  BY <1>1, <1>2, <1>3, <1>4, <1>5, <1>6, <1>7, <1>8 DEF Next

\* Only the end of a turn and a forward reconciliation tell a caller of a checkpoint.
LEMMA AcksMove ==
    ASSUME [Next]_vars, acked' # acked
    PROVE  TurnEnds \/ ReconcileForward
<1>1. ASSUME ActorStep PROVE TurnEnds \/ ReconcileForward
  <2>1. ASSUME \/ CreateStarts \/ CreateSyncsDirectory \/ CreatePublishes \/ CreateSyncsRoot
               \/ CreateConfirms \/ CreateRefused \/ ClassifyInDoubt \/ ClassifyNotSelected
        PROVE  acked' = acked
    BY <2>1 DEF CreateStarts, CreateSyncsDirectory, CreatePublishes, CreateSyncsRoot,
                CreateConfirms, CreateRefused, ClassifyInDoubt, ClassifyNotSelected, StepTo,
                NextAttempt, Quarantine
  <2>2. ASSUME CallbackReturns \/ CallbackRefused \/ ReadDeferred \/ Bootstrap
        PROVE  acked' = acked
    BY <2>2 DEF CallbackReturns, CallbackRefused, ReadDeferred, Bootstrap, CheckpointCurrent
  <2>3. ASSUME Rollback \/ BootstrapRollback \/ ReconcileBack \/ ReconcileRollback
        PROVE  acked' = acked
    BY <2>3 DEF Rollback, BootstrapRollback, ReconcileBack, ReconcileRollback, Restored
  <2> QED
    BY <1>1, <2>1, <2>2, <2>3 DEF ActorStep, Reconcile
<1>2. ASSUME NEW p \in Proposals, Snapshot(p) \/ BeginCommit(p) \/ CommitStale(p)
      PROVE  acked' = acked
  BY <1>2 DEF Snapshot, BeginCommit, CommitStale, Begin
<1>3. ASSUME (\E w \in Writes : BeginWrite(w)) \/ BeginRead \/ Flush PROVE acked' = acked
  BY <1>3 DEF BeginWrite, BeginRead, Begin, Flush, CheckpointCurrent
<1>4. ASSUME CreateFails \/ ClassifyUnreadable \/ TurnUnconfirmed \/ RollbackFails \/ ReconcileFails
      PROVE  acked' = acked
  BY <1>4 DEF CreateFails, ClassifyUnreadable, TurnUnconfirmed, RollbackFails, ReconcileFails,
              NextAttempt, Quarantine
<1>5. ASSUME FenceRaised \/ HeartbeatEnds \/ FenceCleared \/ Stop \/ PreActorBump PROVE acked' = acked
  BY <1>5 DEF FenceRaised, HeartbeatEnds, FenceCleared, Stop, PreActorBump
<1>6. ASSUME BootCurrent \/ BootFallback \/ BootFresh \/ BootFails PROVE acked' = acked
  BY <1>6 DEF BootCurrent, BootFallback, BootFrom, BootFresh, BootFails
<1>7. ASSUME Crash \/ CollectGarbage \/ Decay PROVE acked' = acked
  BY <1>7 DEF Crash, CollectGarbage, Decay
<1>8. ASSUME UNCHANGED vars PROVE acked' = acked
  BY <1>8 DEF vars
<1> QED
  BY <1>1, <1>2, <1>3, <1>4, <1>5, <1>6, <1>7, <1>8 DEF Next

(***************************************************************************)
(* CURRENT moves only to a successor of the checkpoint it names, under a   *)
(* newer version and with every update of it, or, in a power loss, back by *)
(* the one rename that was not synced: a retried, reconciled or rolled     *)
(* back checkpoint never makes it skip, fork or repeat one.                *)
(***************************************************************************)
CurrentStep ==
    ptr' # ptr =>
        \/ /\ ptr' # None /\ ptr'.fb = Current
           /\ man[ptr'.cur].prev = Current
           /\ Current # None => /\ Newer(man[ptr'.cur].ver, man[Current].ver)
                                /\ IsPrefix(man[Current].state.log, man[ptr'.cur].state.log)
        \/ /\ proc' = "down" /\ ptr' = safePtr /\ ptr # None
           /\ ptr.fb = IF safePtr = None THEN None ELSE safePtr.cur

CurrentMoves == [][CurrentStep]_vars

(***************************************************************************)
(* publish_current after the checks of create_checkpoint, and whatever the *)
(* disk keeps of it, move CURRENT along one line of versions.              *)
(***************************************************************************)
THEOREM CurrentKeepsToOneLine == Spec => CurrentMoves
<1>1. BrainInv /\ [Next]_vars => [CurrentStep]_vars
  <2> SUFFICES ASSUME BrainInv, [Next]_vars, ptr' # ptr PROVE CurrentStep
      BY DEF CurrentStep
  <2>1. ASSUME CreatePublishes PROVE CurrentStep
    <3>1. at = "publish" /\ ptr' = Pointer(pend.cand, Current)
      BY <2>1 DEF CreatePublishes, PublishCurrent
    <3>2. /\ pend.cand \in Ids /\ man[pend.cand].prev = Current
          /\ Current # None => Newer(man[pend.cand].ver, man[Current].ver)
      BY <3>1 DEF BrainInv, ActorInv, AtCreate, Creating
    <3>3. Current # None => IsPrefix(man[Current].state.log, man[pend.cand].state.log)
      BY <3>2 DEF BrainInv, StoreInv, ManifestsChain
    <3>4. ptr'.cur = pend.cand /\ ptr'.fb = Current
      BY <3>1 DEF Pointer
    <3>5. ptr' # None
      <4>1. pend.cand \in Nat /\ (Current = None \/ Current \in Nat)
        BY <3>2, NoneAssumption DEF Ids, Current, Pointers, BrainInv, StoreInv, StoreTypes
      <4>2. Pointer(pend.cand, Current) \in [cur : Nat, fb : Nat \cup {None}]
        BY <4>1 DEF Pointer
      <4> QED
        BY <3>1, <4>2, NoneAssumption
    <3> QED
      BY <3>2, <3>3, <3>4, <3>5 DEF CurrentStep
  <2>2. ASSUME Crash PROVE CurrentStep
    <3>1. proc' = "down" /\ ptr' = safePtr /\ ptr # safePtr
      BY <2>2 DEF Crash, DiskAfterCrash
    <3>2. ptr # None /\ ptr.fb = IF safePtr = None THEN None ELSE safePtr.cur
      BY <3>1 DEF BrainInv, StoreInv, PointersAdjacent
    <3> QED
      BY <3>1, <3>2 DEF CurrentStep
  <2> QED
    BY <2>1, <2>2, PointerMoves
<1> QED
  BY <1>1, BrainInvariant, PTL DEF Spec, CurrentMoves

(***************************************************************************)
(* A caller is told of a checkpoint only when CURRENT names it and would   *)
(* still name it after a power loss, and what callers are told only grows: *)
(* it holds every update of what any caller was told before.               *)
(***************************************************************************)
AckStep ==
    acked' # acked =>
        /\ ptr' # None /\ ptr' = ptr /\ safePtr' = ptr
        /\ acked' = ptr.cur
        /\ acked > 0 => IsPrefix(man[acked].state.log, man[acked'].state.log)

AcksOnlyGrow == [][AckStep]_vars

(***************************************************************************)
(* The two places of run_actor that answer a caller, the end of a turn and *)
(* the reconciliation of a checkpoint in doubt, answer with a synced       *)
(* CURRENT that extends every earlier answer.                              *)
(***************************************************************************)
THEOREM AnswersOnlyGrow == Spec => AcksOnlyGrow
<1>1. BrainInv /\ [Next]_vars => [AckStep]_vars
  <2> SUFFICES ASSUME BrainInv, [Next]_vars, acked' # acked PROVE AckStep
      BY DEF AckStep
  <2>1. /\ ptr # None /\ ptr' = ptr /\ safePtr' = ptr /\ acked' = ptr.cur
    <3>1. ASSUME TurnEnds
          PROVE  ptr # None /\ ptr' = ptr /\ safePtr' = ptr /\ acked' = ptr.cur
      <4>1. at = "load" /\ acked' = pend.cand /\ ptr' = ptr /\ safePtr' = safePtr
        BY <3>1 DEF TurnEnds, store
      <4>2. ptr # None /\ ptr.cur = pend.cand /\ ptr = safePtr
        BY <4>1 DEF BrainInv, ActorInv, AtCreate
      <4> QED
        BY <4>1, <4>2
    <3>2. ASSUME ReconcileForward
          PROVE  ptr # None /\ ptr' = ptr /\ safePtr' = ptr /\ acked' = ptr.cur
      <4>1. /\ acked' = pend.cand /\ ptr' = ptr /\ safePtr' = ptr /\ Current = pend.cand
            /\ pend.kind = "checkpoint"
        BY <3>2 DEF ReconcileForward, Reconciling, Confirmed, SyncRoot
      <4>2. pend.cand \in Ids
        BY <4>1 DEF BrainInv, ActorInv, AtCreate
      <4>3. pend.cand # None
        BY <4>2, NoneAssumption DEF Ids, BrainInv, StoreInv, StoreTypes
      <4> QED
        BY <4>1, <4>3 DEF Current
    <3> QED
      BY <3>1, <3>2, AcksMove
  <2>2. acked > 0 => IsPrefix(man[acked].state.log, man[ptr.cur].state.log)
    BY <2>1 DEF BrainInv, StoreInv, PointerSound
  <2> QED
    BY <2>1, <2>2 DEF AckStep
<1> QED
  BY <1>1, BrainInvariant, PTL DEF Spec, AcksOnlyGrow
=============================================================================
