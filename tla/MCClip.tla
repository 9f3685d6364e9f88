------------------------------- MODULE MCClip -------------------------------
(* Clip over a small disk: a window that reaches back over a rollover.      *)
EXTENDS ClipInv

MCWindows == {[from |-> 1, to |-> 2]}
=============================================================================
