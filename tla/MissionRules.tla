---------------------------- MODULE MissionRules ----------------------------
(***************************************************************************)
(* The closed mission state machine of m1nd-control/src/mission.rs.        *)
(*                                                                         *)
(* A mission is a chain of letters; each letter carries one MissionState.  *)
(* MISSION_TRANSITION_RULES is the whole machine: an edge that is not in   *)
(* the table is refused.  The code's `role` column is left out: in the     *)
(* table it is a function of `source` (MissionServiceDecision comes from   *)
(* the MissionService, AuthorProposal from the Author, ReviewResult from   *)
(* the Reviewer, ExecutionDispatchAck and ExecutionResult from the         *)
(* Runner).                                                                *)
(***************************************************************************)
EXTENDS Integers

(* Operators introduced with "fault" or "without" are deliberate wrong versions  *)
(* of the operator that follows them.  Nothing uses them; they are there so that *)
(* the properties can be shown to notice the difference.                         *)

\* Option<MissionState>::None, the state of a mission that has no letter yet.
NoState == "none"

\* enum MissionState.
MissionStates ==
    {"judging", "revising", "dispatching", "executing", "gate", "review",
     "merge_wait", "landed", "failed", "archived"}

\* MissionState::is_terminal.
TerminalStates == {"landed", "failed", "archived"}

\* enum MissionTransitionSource.
Sources == {"decision", "proposal", "review", "ack", "result"}

\* enum IterationRule.
IterationRules == {"initialize", "preserve", "advance"}

Rule(from, to, source, iteration) ==
    [from |-> from, to |-> to, source |-> source, iteration |-> iteration]

\* MISSION_TRANSITION_RULES, in the order of the code's table.
TransitionRules ==
    { Rule(NoState,       "judging",     "decision", "initialize"),
      Rule(NoState,       "dispatching", "decision", "initialize"),
      Rule("judging",     "dispatching", "review",   "preserve"),
      Rule("judging",     "revising",    "review",   "preserve"),
      Rule("judging",     "failed",      "review",   "preserve"),
      Rule("revising",    "judging",     "proposal", "advance"),
      Rule("revising",    "dispatching", "proposal", "advance"),
      Rule("dispatching", "executing",   "ack",      "preserve"),
      Rule("dispatching", "failed",      "decision", "preserve"),
      Rule("executing",   "gate",        "result",   "preserve"),
      Rule("executing",   "failed",      "result",   "preserve"),
      Rule("gate",        "review",      "decision", "preserve"),
      Rule("gate",        "merge_wait",  "decision", "preserve"),
      Rule("gate",        "failed",      "decision", "preserve"),
      Rule("review",      "revising",    "review",   "preserve"),
      Rule("review",      "merge_wait",  "review",   "preserve"),
      Rule("review",      "failed",      "review",   "preserve"),
      Rule("merge_wait",  "landed",      "decision", "preserve"),
      Rule("merge_wait",  "archived",    "decision", "preserve") }

\* (fault: a mission that starts by dispatching starts at iteration 0)
IterationFromZero(rule, iteration) ==
    IF rule.iteration = "advance" THEN iteration + 1 ELSE iteration

\* The iteration the next letter must carry (MissionTransitionIntentV1::validate).
NextIteration(rule, iteration) ==
    CASE rule.iteration = "initialize" -> 1
      [] rule.iteration = "preserve"   -> iteration
      [] rule.iteration = "advance"    -> iteration + 1

\* (fault: a new iteration may run the old packet again)
SamePacketAgain(rule, oldPacket, newPacket) ==
    rule.iteration = "preserve" => newPacket = oldPacket

\* The packet rule: an advancing letter binds a new packet, a preserving letter
\* the packet of the head it extends, an initial letter any packet.
PacketAllowed(rule, oldPacket, newPacket) ==
    /\ rule.iteration = "advance"  => newPacket # oldPacket
    /\ rule.iteration = "preserve" => newPacket = oldPacket
=============================================================================
