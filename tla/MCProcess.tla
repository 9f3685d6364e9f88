----------------------------- MODULE MCProcess ------------------------------
(* Process with triggers of each kind: plain, stamped just or far ahead of  *)
(* the clock, with a time of its own, with too long a postroll; chunks of   *)
(* one and of two triggers, and a damaged one.                              *)
EXTENDS ProcessInv

Plain(q) == [time |-> 0, post |-> 0, pub |-> q]

MCPayloads == {[time |-> 2, post |-> 0], [time |-> 0, post |-> 1]}
MCChunks ==
    {[damaged |-> FALSE, triggers |-> <<Plain(1)>>],
     [damaged |-> FALSE, triggers |-> <<Plain(9), Plain(1)>>],
     [damaged |-> TRUE, triggers |-> <<Plain(1)>>]}
=============================================================================
