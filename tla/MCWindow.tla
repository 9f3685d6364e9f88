----------------------------- MODULE MCWindow -------------------------------
(* Window with small widths: seconds of 2, the last one that fits is 1, so  *)
(* that stamps from 4 on wrap; a clock that is set forward and back; odd    *)
(* payloads that each fail, or pass, another check.                         *)
EXTENDS WindowInv

MCSteps == <<1, -2>>
Plain(sec, nanosec) ==
    [enc |-> "cdr", name |-> "plain", stamp |-> [sec |-> sec, nanosec |-> nanosec],
     pre |-> 0, post |-> 1]
MCOdd ==
    {Plain(-1, 0), Plain(0, 3), Plain(1, 5),
     [Plain(0, 0) EXCEPT !.enc = "other"],
     [Plain(0, 0) EXCEPT !.name = "unsafe"],
     [Plain(0, 0) EXCEPT !.post = 2],
     [Plain(0, 0) EXCEPT !.pre = 2]}
=============================================================================
