------------------------- MODULE MissionChainProofs -------------------------
(***************************************************************************)
(* Proofs about MissionChain, for any sets of missions and packets and for *)
(* chains of any length.                                                   *)
(***************************************************************************)
EXTENDS MissionChain, TLAPS

(***************************************************************************)
(* ChainInv bounds the iterations by the letters, but not tightly enough   *)
(* to survive the step out of REVISING, which adds one letter and one      *)
(* iteration: there a mission must have a letter in hand.                  *)
(***************************************************************************)
RevisingInHand ==
    \A m \in Missions : chain[m].state = "revising" => 2 * chain[m].iteration <= chain[m].seq

ChainIndInv == ChainTypeOK /\ ChainInv /\ RevisingInHand

-----------------------------------------------------------------------------
\* A rule leads from the initial state or a live one to a state of the enum.
LEMMA RuleStates ==
    ASSUME NEW r \in TransitionRules
    PROVE  /\ r.from \in MissionStates \cup {NoState}
           /\ r.to \in MissionStates
           /\ r.to # NoState
           /\ r.from \notin TerminalStates
BY DEF TransitionRules, Rule, MissionStates, NoState, TerminalStates

\* Rules open a mission, preserve its iteration or, out of REVISING only, advance it.
LEMMA RuleIterations ==
    ASSUME NEW r \in TransitionRules
    PROVE  /\ r.iteration \in IterationRules
           /\ r.iteration = "initialize" <=> r.from = NoState
           /\ r.iteration = "advance" <=> r.from = "revising"
           /\ r.iteration = "advance" => r.to \in {"judging", "dispatching"}
           /\ r.to = "revising" => r.iteration = "preserve"
BY DEF TransitionRules, Rule, IterationRules, NoState

\* What one appended letter does to the iteration of its mission.
LEMMA NextIterationValue ==
    ASSUME NEW r \in TransitionRules, NEW i \in Nat
    PROVE  /\ NextIteration(r, i) \in Nat
           /\ r.iteration = "initialize" => NextIteration(r, i) = 1
           /\ r.iteration = "preserve" => NextIteration(r, i) = i
           /\ r.iteration = "advance" => NextIteration(r, i) = i + 1
BY RuleIterations DEF NextIteration, IterationRules

-----------------------------------------------------------------------------
\* The initial state, where no mission has a letter, satisfies the invariant.
LEMMA ChainInitInv == ChainInit => ChainIndInv
<1> SUFFICES ASSUME ChainInit PROVE ChainIndInv
    OBVIOUS
<1>1. NoChain \in Chains
  BY DEF NoChain, Chains
<1>2. ChainTypeOK
  BY <1>1 DEF ChainInit, ChainTypeOK
<1>3. \A m \in Missions : chain[m].state = "none" /\ chain[m].seq = 0
  BY DEF ChainInit, NoChain, NoState
<1>4. ChainInv /\ RevisingInHand
  BY <1>3 DEF ChainInv, RevisingInHand, NoState
<1> QED
  BY <1>2, <1>4 DEF ChainIndInv

\* Appending a letter along any rule preserves the invariant.
LEMMA AppendInv ==
    ASSUME ChainIndInv,
           NEW m \in Missions, NEW r \in TransitionRules, NEW p \in Packets, Append1(m, r, p)
    PROVE  ChainIndInv'
<1> USE DEF ChainIndInv
<1> DEFINE c == [state |-> r.to, seq |-> chain[m].seq + 1,
                 iteration |-> NextIteration(r, chain[m].iteration), packet |-> p]
<1>1. chain[m] \in Chains /\ chain[m].seq \in Nat /\ chain[m].iteration \in Nat
  BY DEF ChainTypeOK, Chains
<1>2. /\ chain' = [chain EXCEPT ![m] = c]
      /\ chain[m].state = r.from
  BY DEF Append1
<1>3. /\ chain'[m] = c
      /\ \A n \in Missions : n # m => chain'[n] = chain[n]
  BY <1>2 DEF ChainTypeOK
<1>4. c \in Chains
  BY <1>1, RuleStates, NextIterationValue DEF Chains
<1>5. ChainTypeOK'
  BY <1>2, <1>4 DEF ChainTypeOK
<1>6. /\ c.state # NoState /\ c.seq # 0
      /\ c.iteration >= 1
      /\ 2 * c.iteration <= c.seq + 1
      /\ c.state = "revising" => 2 * c.iteration <= c.seq
  <2>1. CASE r.iteration = "initialize"
    BY <2>1, <1>1, RuleStates, RuleIterations, NextIterationValue
  <2>2. CASE r.iteration = "preserve"
    <3>1. chain[m].seq > 0 /\ chain[m].iteration >= 1
          /\ 2 * chain[m].iteration <= chain[m].seq + 1
      BY <2>2, <1>1, <1>2, RuleIterations DEF ChainInv
    <3> QED
      BY <2>2, <3>1, <1>1, RuleStates, NextIterationValue
  <2>3. CASE r.iteration = "advance"
    <3>1. 2 * chain[m].iteration <= chain[m].seq
      BY <2>3, <1>1, <1>2, RuleIterations DEF RevisingInHand
    <3>2. r.to # "revising"
      BY <2>3, RuleIterations
    <3> QED
      BY <2>3, <3>1, <3>2, <1>1, RuleStates, NextIterationValue
  <2> QED
    BY <2>1, <2>2, <2>3, RuleIterations DEF IterationRules
<1>7. ChainInv'
  BY <1>1, <1>3, <1>6 DEF ChainInv
<1>8. RevisingInHand'
  BY <1>3, <1>6 DEF RevisingInHand
<1> QED
  BY <1>5, <1>7, <1>8

\* Every step preserves the invariant.
LEMMA ChainNextInv == ChainIndInv /\ [ChainNext]_chain => ChainIndInv'
<1> SUFFICES ASSUME ChainIndInv, [ChainNext]_chain PROVE ChainIndInv'
    OBVIOUS
<1>1. CASE ChainNext
  BY <1>1, AppendInv DEF ChainNext
<1>2. CASE UNCHANGED chain
  BY <1>2 DEF ChainIndInv, ChainTypeOK, ChainInv, RevisingInHand
<1> QED
  BY <1>1, <1>2

(***************************************************************************)
(* The strengthened invariant holds in every state of a mission chain.     *)
(***************************************************************************)
THEOREM ChainIndInvariant == ChainSpec => []ChainIndInv
<1>1. ChainInit => ChainIndInv
  BY ChainInitInv
<1>2. ChainIndInv /\ [ChainNext]_chain => ChainIndInv'
  BY ChainNextInv
<1> QED
  BY <1>1, <1>2, PTL DEF ChainSpec

(***************************************************************************)
(* Letters, state and iteration of a mission go together: MissionState,    *)
(* seq and iteration_id as MissionTransitionIntentV1::validate maintains   *)
(* them.                                                                   *)
(***************************************************************************)
THEOREM ChainInvariant == ChainSpec => [](ChainTypeOK /\ ChainInv)
<1>1. ChainIndInv => ChainTypeOK /\ ChainInv
  BY DEF ChainIndInv
<1> QED
  BY <1>1, ChainIndInvariant, PTL

(***************************************************************************)
(* No letter ever follows LANDED, FAILED or ARCHIVED.                      *)
(***************************************************************************)
THEOREM TerminalStaysFrozen == ChainSpec => TerminalFrozen
<1>1. ChainIndInv /\ [ChainNext]_chain
        => [\A m \in Missions : chain[m].state \in TerminalStates => chain'[m] = chain[m]]_chain
  <2> SUFFICES ASSUME ChainIndInv, ChainNext,
                      NEW n \in Missions, chain[n].state \in TerminalStates
               PROVE  chain'[n] = chain[n]
      OBVIOUS
  <2>1. PICK m \in Missions, r \in TransitionRules, p \in Packets : Append1(m, r, p)
    BY DEF ChainNext
  <2>2. n # m
    BY <2>1, RuleStates DEF Append1
  <2> QED
    BY <2>1, <2>2 DEF Append1, ChainIndInv, ChainTypeOK
<1> QED
  BY <1>1, ChainIndInvariant, PTL DEF ChainSpec, TerminalFrozen

(***************************************************************************)
(* A mission's packet and iteration change only together and only when a   *)
(* proposal takes it out of REVISING: what was dispatched is what is       *)
(* executed, gated, reviewed and landed.                                   *)
(***************************************************************************)
THEOREM IterationKeepsPacket == ChainSpec => IterationBindsPacket
<1> DEFINE Keeps(m) ==
              \/ /\ chain'[m].packet = chain[m].packet
                 /\ chain'[m].iteration = chain[m].iteration
              \/ /\ chain[m].state = "revising"
                 /\ chain'[m].state \in {"judging", "dispatching"}
                 /\ chain'[m].packet # chain[m].packet
                 /\ chain'[m].iteration = chain[m].iteration + 1
<1>1. ChainIndInv /\ [ChainNext]_chain
        => [\A m \in Missions : chain[m].seq > 0 => Keeps(m)]_chain
  <2> SUFFICES ASSUME ChainIndInv, ChainNext, NEW n \in Missions, chain[n].seq > 0
               PROVE  Keeps(n)
      OBVIOUS
  <2>1. PICK m \in Missions, r \in TransitionRules, p \in Packets : Append1(m, r, p)
    BY DEF ChainNext
  <2>2. CASE n # m
    BY <2>1, <2>2 DEF Append1, ChainIndInv, ChainTypeOK
  <2>3. CASE n = m
    <3>1. /\ chain'[n] = [state |-> r.to, seq |-> chain[n].seq + 1,
                          iteration |-> NextIteration(r, chain[n].iteration), packet |-> p]
          /\ chain[n].state = r.from
          /\ PacketAllowed(r, chain[n].packet, p)
          /\ chain[n].iteration \in Nat /\ chain[n].seq \in Nat
      BY <2>1, <2>3 DEF Append1, ChainIndInv, ChainTypeOK, Chains
    <3>2. r.iteration # "initialize"
      BY <3>1, RuleIterations DEF ChainIndInv, ChainInv
    <3>3. CASE r.iteration = "preserve"
      BY <3>1, <3>3, NextIterationValue DEF PacketAllowed
    <3>4. CASE r.iteration = "advance"
      BY <3>1, <3>4, NextIterationValue, RuleIterations DEF PacketAllowed
    <3> QED
      BY <3>2, <3>3, <3>4, RuleIterations DEF IterationRules
  <2> QED
    BY <2>2, <2>3
<1> QED
  BY <1>1, ChainIndInvariant, PTL DEF ChainSpec, IterationBindsPacket
=============================================================================
