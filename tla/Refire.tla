------------------------------- MODULE Refire -------------------------------
(***************************************************************************)
(* Process with a history of what was recorded before the run began: what  *)
(* the repository says of a restart is about that.                         *)
(***************************************************************************)
EXTENDS Process

VARIABLE onDisk     \* history: records there were when this run began

RefireInit == Init /\ onDisk = << >>

RefireNext ==
    /\ Next
    /\ onDisk' = IF runs' = runs THEN onDisk ELSE [f \in DOMAIN files |-> Len(files[f])]

RefireSpec == RefireInit /\ [][RefireNext]_<<vars, onDisk>>

(* "A trigger already on disk before clipper started never fires": no      *)
(* handler of this run is for a record that was there when it began.       *)
NeverRefires ==
    \A h \in running : cell.interface = "mcap" /\ h.src[4] \in DOMAIN onDisk =>
        h.src[2] > onDisk[h.src[4]]
=============================================================================
