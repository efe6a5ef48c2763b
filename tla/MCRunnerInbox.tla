--------------------------- MODULE MCRunnerInbox ----------------------------
(***************************************************************************)
(* One mission, two execution ids and four signed dispatches: two ids for  *)
(* the same packet of the same head, and each id again for the next        *)
(* iteration, with deadlines inside the clock's range so that claims,      *)
(* starts and ACKs also come too late.                                     *)
(***************************************************************************)
EXTENDS RunnerInbox

CONSTANTS m1, p1, p2, e1, e2

MCHead(seq, iteration, packet) ==
    [mission |-> m1, seq |-> seq, iteration |-> iteration, packet |-> packet]

MCDispatch(e, head, issued, deadline) ==
    [exec |-> e, head |-> head, issued |-> issued, deadline |-> deadline]

MCOffers ==
    { MCDispatch(e1, MCHead(0, 1, p1), 0, 2),
      MCDispatch(e2, MCHead(0, 1, p1), 0, 3),
      MCDispatch(e1, MCHead(4, 2, p2), 1, 3),
      MCDispatch(e2, MCHead(4, 2, p2), 2, 3) }

MCHeads == {MCHead(2, 1, p1), MCHead(6, 2, p2)}
=============================================================================
