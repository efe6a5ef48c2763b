---------------------------- MODULE MissionChain ----------------------------
(***************************************************************************)
(* What the mission service promises about missions, and nothing about how *)
(* it stores them: every mission is a chain that grows one letter at a     *)
(* time along TransitionRules, whatever crashes, retries and races happen  *)
(* underneath.  MissionExecution and MissionLanding implement it.          *)
(***************************************************************************)
EXTENDS MissionRules

CONSTANTS Missions,  \* mission ids
          Packets    \* packet digests

VARIABLE chain       \* chain[m]: what the head letter of mission m says

\* A mission without letters: seq 0.  Its packet is immaterial.
AnyPacket == CHOOSE p \in Packets : TRUE

NoChain == [state |-> NoState, seq |-> 0, iteration |-> 0, packet |-> AnyPacket]

Chains == [state     : MissionStates \cup {NoState},
           seq       : Nat,
           iteration : Nat,
           packet    : Packets \cup {AnyPacket}]

ChainInit == chain = [m \in Missions |-> NoChain]

\* One letter is appended to mission m along rule r.
Append1(m, r, p) ==
    /\ chain[m].state = r.from
    /\ PacketAllowed(r, chain[m].packet, p)
    /\ chain' = [chain EXCEPT ![m] =
                    [state     |-> r.to,
                     seq       |-> chain[m].seq + 1,
                     iteration |-> NextIteration(r, chain[m].iteration),
                     packet    |-> p]]

ChainNext == \E m \in Missions, r \in TransitionRules, p \in Packets : Append1(m, r, p)

ChainSpec == ChainInit /\ [][ChainNext]_chain

-----------------------------------------------------------------------------
ChainTypeOK == chain \in [Missions -> Chains]

(***************************************************************************)
(* Letters and state go together: a mission has a state exactly when it    *)
(* has letters, its first letter opens iteration 1, and no mission is ever *)
(* back in the state before its first letter.  An iteration beyond the     *)
(* first cost at least two letters, the one that went to REVISING and the  *)
(* one that left it.                                                       *)
(***************************************************************************)
ChainInv ==
    \A m \in Missions :
        /\ (chain[m].state = NoState) <=> (chain[m].seq = 0)
        /\ chain[m].seq > 0 => chain[m].iteration >= 1
        /\ chain[m].seq > 0 => 2 * chain[m].iteration <= chain[m].seq + 1

(***************************************************************************)
(* What was dispatched is what is executed, gated, reviewed and landed: a  *)
(* mission changes its packet or its iteration only when a proposal takes  *)
(* it out of REVISING, and then it changes both.                           *)
(***************************************************************************)
IterationBindsPacket ==
    [][\A m \in Missions : chain[m].seq > 0 =>
          \/ /\ chain'[m].packet = chain[m].packet
             /\ chain'[m].iteration = chain[m].iteration
          \/ /\ chain[m].state = "revising"
             /\ chain'[m].state \in {"judging", "dispatching"}
             /\ chain'[m].packet # chain[m].packet
             /\ chain'[m].iteration = chain[m].iteration + 1]_chain

\* No step extends a mission whose head is LANDED, FAILED or ARCHIVED: the table
\* has no rule that leaves them.
TerminalFrozen ==
    [][\A m \in Missions : chain[m].state \in TerminalStates => chain'[m] = chain[m]]_chain
=============================================================================
