------------------------------- MODULE ClipInv ------------------------------
(***************************************************************************)
(* The inductive invariant behind the theorems about Clip.                 *)
(*                                                                         *)
(* CutComplete speaks of a clip, and of what is on disk by then; what      *)
(* makes it true happens before.  Coverage that released a handler was     *)
(* past its window (ReleasedIsCovered), so nothing the recorder still      *)
(* writes falls into the window; and the snapshot taken then names every   *)
(* message of the window (PlanComplete) in files that only grow.           *)
(***************************************************************************)
EXTENDS Clip, TailInv

InTime(h) == released[h] /\ Source = "log"

(* Plans name written parts of files in the order of their creation, but   *)
(* for those a listing overlooked.                                         *)
PlansInOrder ==
    \A h \in Handlers :
        /\ \A i \in DOMAIN plans[h] : plans[h][i].upto <= Len(recs[plans[h][i].file])
        /\ \A i, j \in DOMAIN plans[h] : i < j =>
             plans[h][i].file < plans[h][j].file \/ plans[h][j].file \in overlooked

(* Segments hold records of files in that order.                           *)
ClipInOrder ==
    \A h \in Handlers :
        /\ \A i \in DOMAIN clip[h] : \A m \in clip[h][i] :
             m[1] \in Files /\ m[2] \in 1..Len(recs[m[1]])
        /\ \A i, j \in DOMAIN clip[h] : i < j =>
             \A m \in clip[h][i], n \in clip[h][j] : m[1] < n[1] \/ n[1] \in overlooked

ReleasedIsCovered ==
    \A h \in Handlers : InTime(h) => coverage.log >= window[h].to

(* A record the clip of h owes its reader.                                 *)
Owed(h, f, k) ==
    /\ window[h].from <= recs[f][k].log
    /\ recs[f][k].log < window[h].to
    /\ atPlan[h].clock <= recs[f][k].log + Watch

Planned(h, f, k) == \E i \in DOMAIN plans[h] : plans[h][i].file = f /\ k <= plans[h][i].upto

PlanComplete ==
    \A h \in Handlers : phase[h] = "stage" /\ InTime(h) =>
        \A f \in atPlan[h].files : \A k \in 1..Len(recs[f]) :
            Owed(h, f, k) => Planned(h, f, k)

(* Only a handler that waits can be released, and its window is set.       *)
NotYet ==
    \A h \in Handlers : phase[h] \in {"idle", "postroll", "coverage"} => ~released[h]

ClipInvariant ==
    /\ ClipTypeOK
    /\ PlansInOrder
    /\ ClipInOrder
    /\ ReleasedIsCovered
    /\ NotYet
    /\ PlanComplete
    /\ CutComplete
CInv == IInv /\ ClipInvariant
=============================================================================
