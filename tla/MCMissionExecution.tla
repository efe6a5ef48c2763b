------------------------- MODULE MCMissionExecution -------------------------
(***************************************************************************)
(* Instances of MissionExecution.  The offered dispatches are chosen so    *)
(* that execution ids collide: one mission is dispatched at once, after a  *)
(* revision and again after a rejected review; both ids are tried for the  *)
(* revised packet, and the id of the first execution for the second one.   *)
(***************************************************************************)
EXTENDS MissionExecution

CONSTANTS m1, p1, p2, e1, e2

MCHead(m, seq, iteration, packet) ==
    [mission |-> m, seq |-> seq, iteration |-> iteration, packet |-> packet]

MCDispatch(e, head, issued, deadline) ==
    [exec |-> e, head |-> head, issued |-> issued, deadline |-> deadline]

ReworkOffers ==
    { MCDispatch(e1, MCHead(m1, 0, 1, p1), 0, 2),
      MCDispatch(e1, MCHead(m1, 2, 2, p2), 0, 1),
      MCDispatch(e2, MCHead(m1, 2, 2, p2), 1, 2),
      MCDispatch(e2, MCHead(m1, 5, 2, p2), 0, 2),
      MCDispatch(e1, MCHead(m1, 5, 2, p2), 0, 2) }

MCHeads == {}
=============================================================================
