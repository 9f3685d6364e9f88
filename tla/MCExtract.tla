----------------------------- MODULE MCExtract ------------------------------
(* Extract, with bounds that weigh the records a writer registers against  *)
(* what may go wrong with them.                                            *)
EXTENDS ExtractInv

MCBounds ==
    [s \in Styles |->
       CASE s = "copper"  -> [clock |-> 2, ticks |-> 2, damage |-> 0]
         [] s = "custom"  -> [clock |-> 3, ticks |-> 2, damage |-> 1]
         [] s = "chunked" -> [clock |-> 3, ticks |-> 3, damage |-> 2]]
MCFaults ==
    [s \in Styles |->
       CASE s = "copper" -> 1 [] s = "custom" -> 1 [] s = "chunked" -> 2]
=============================================================================
