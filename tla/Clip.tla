-------------------------------- MODULE Clip --------------------------------
(***************************************************************************)
(* Trigger handlers over the tail: record_clip up to the staged segments.  *)
(*                                                                         *)
(* A handler waits for the end of its window on the wall clock, then for   *)
(* coverage (or for the grace period to run out), snapshots the index      *)
(* under the tail's lock, and copies what the snapshot names.  The tail,   *)
(* its retention and the recorder run on in between.  A plan pins its      *)
(* file (Arc<File>), so the copy reads the file and not its name.          *)
(*                                                                         *)
(* Handlers share nothing with each other up to here; what they do in the  *)
(* output directory is module Publish.                                     *)
(***************************************************************************)
EXTENDS Tail, Ranks

CONSTANTS
    Handlers,       \* trigger handlers
    Windows,        \* the windows triggers ask for, [from, to], inclusive
    Source          \* --time-source: "log" or "publish"

ASSUME ClipAssumption ==
    /\ Windows \subseteq [from : Time, to : Time]
    /\ Source \in {"log", "publish"}

VARIABLES
    phase,      \* handler -> where it is in record_clip
    window,     \* handler -> its window
    released,   \* handler -> the wait ended on coverage, not on grace
    atPlan,     \* history: the clock and the files there at the snapshot
    plans,      \* handler -> its snapshot: per recording, what was indexed
    clip        \* handler -> its segments, each a set of records <<file, k>>

handlerVars == <<phase, window, released, atPlan, plans, clip>>
clipVars == <<vars, handlerVars>>

StampOf(m) == IF Source = "log" THEN m.log ELSE m.pub
Mark == IF Source = "log" THEN coverage.log ELSE coverage.pub
InWindow(m, w) == w.from <= StampOf(m) /\ StampOf(m) <= w.to

(* A recording overlaps a window if the bounds of its stamps do.           *)
Overlaps(id, w) ==
    /\ \E m \in Scanned(id) : StampOf(m) >= w.from
    /\ \E m \in Scanned(id) : StampOf(m) <= w.to

MutPlanOrder(S, i) == Nth(S, Cardinality(S) + 1 - i)          \* newest first
PlanOrder(S, i) == Nth(S, i)
(* One plan per recording, oldest first.                                   *)
SnapshotOf(S) ==
    [i \in 1..Cardinality(S) |->
       [file |-> rec[PlanOrder(S, i)].file, upto |-> rec[PlanOrder(S, i)].offset]]

Copied(plan, w) ==
    {<<plan.file, k>> : k \in {k \in 1..plan.upto : InWindow(recs[plan.file][k], w)}}

Full(segments) == {i \in DOMAIN segments : segments[i] # {}}
MutKept(segments) == Retain(segments, Full(segments))           \* even the last
(* Empty segments are dropped beside full ones; one segment always stays.  *)
Kept(segments) ==
    IF Full(segments) = {} THEN << {} >> ELSE Retain(segments, Full(segments))

-----------------------------------------------------------------------------
ClipInit ==
    /\ Init
    /\ phase = [h \in Handlers |-> "idle"]
    /\ window = [h \in Handlers |-> [from |-> 0, to |-> 0]]
    /\ released = [h \in Handlers |-> FALSE]
    /\ atPlan = [h \in Handlers |-> [clock |-> 0, files |-> {}]]
    /\ plans = [h \in Handlers |-> << >>]
    /\ clip = [h \in Handlers |-> << >>]

Fire(h) ==
    /\ phase[h] = "idle"
    /\ \E w \in Windows : window' = [window EXCEPT ![h] = w]
    /\ phase' = [phase EXCEPT ![h] = "postroll"]
    /\ UNCHANGED <<vars, released, atPlan, plans, clip>>

(* Postroll wall floor: not before the clock has reached the window end.   *)
PostrollPassed(h) ==
    /\ phase[h] = "postroll"
    /\ window[h].to <= clock
    /\ phase' = [phase EXCEPT ![h] = "coverage"]
    /\ UNCHANGED <<vars, window, released, atPlan, plans, clip>>

MutReaches(mark, w) == mark >= w.from           \* the wrong end of the window
Reaches(mark, w) == mark >= w.to

Covered(h) ==
    /\ phase[h] = "coverage"
    /\ Reaches(Mark, window[h])
    /\ released' = [released EXCEPT ![h] = TRUE]
    /\ phase' = [phase EXCEPT ![h] = "plan"]
    /\ UNCHANGED <<vars, window, atPlan, plans, clip>>

MutGraceOver(h) == window[h].to < clock     \* grace counted from the window
GraceOver(h) == ~Reaches(Mark, window[h])

GraceExpires(h) ==
    /\ phase[h] = "coverage"
    /\ GraceOver(h)
    /\ phase' = [phase EXCEPT ![h] = "plan"]
    /\ UNCHANGED <<vars, window, released, atPlan, plans, clip>>

(* plan_window, under the state lock, which the tail may hold for long.    *)
PlanWindow(h) ==
    /\ phase[h] = "plan"
    /\ ~StateLocked
    /\ plans' = [plans EXCEPT ![h] =
                   SnapshotOf({id \in held : Overlaps(id, window[h])})]
    /\ atPlan' = [atPlan EXCEPT ![h] = [clock |-> clock, files |-> Present \ (Skipped \cup overlooked)]]
    /\ phase' = [phase EXCEPT ![h] = "stage"]
    /\ UNCHANGED <<vars, window, released, clip>>

(* The workers copy the planned extents, any time after the snapshot.      *)
StageSegments(h) ==
    /\ phase[h] = "stage"
    /\ clip' = [clip EXCEPT ![h] =
                  Kept([i \in DOMAIN plans[h] |-> Copied(plans[h][i], window[h])])]
    /\ phase' = [phase EXCEPT ![h] = "cut"]
    /\ UNCHANGED <<vars, window, released, atPlan, plans>>

HandlerStep(h) ==
    \/ PostrollPassed(h) \/ Covered(h) \/ GraceExpires(h) \/ PlanWindow(h)
    \/ StageSegments(h)

ClipNext ==
    \/ Next /\ UNCHANGED handlerVars
    \/ \E h \in Handlers : Fire(h) \/ HandlerStep(h)

ClipSpec == ClipInit /\ [][ClipNext]_clipVars

(* Time passes, a wait bounded by grace ends, and a handler gets a lock    *)
(* that is released again and again.  Of the tail, which may have died,    *)
(* only that unlinking under the lock ends; of the recorder nothing.       *)
FairClipSpec ==
    /\ ClipSpec
    /\ WF_clipVars(Tick /\ UNCHANGED <<tailVars, handlerVars>>)
    /\ WF_clipVars((Unlink \/ Unlinked) /\ UNCHANGED handlerVars)
    /\ \A h \in Handlers : SF_clipVars(HandlerStep(h))

-----------------------------------------------------------------------------
(* Correctness.                                                            *)

ClipTypeOK ==
    /\ phase \in [Handlers -> {"idle", "postroll", "coverage", "plan", "stage", "cut"}]
    /\ window \in [Handlers -> [from : Time, to : Time]]
    /\ released \in [Handlers -> BOOLEAN]
    /\ atPlan \in [Handlers -> [clock : Time, files : SUBSET Files]]
    /\ plans \in [Handlers -> Seq([file : Files, upto : Nat])]
    /\ clip \in [Handlers -> Seq(SUBSET (Files \X Nat))]
    /\ \A h \in Handlers : phase[h] = "cut" => Len(clip[h]) > 0

InClip(h, f, k) == \E i \in DOMAIN clip[h] : <<f, k>> \in clip[h][i]

(* Completeness of a log-domain cut: released by coverage, the clip holds  *)
(* every message of the window that is on disk, then or ever after, in any *)
(* file that was in the directory at the snapshot and that the tail had    *)
(* in its turn (see CoverageSound), back to the watch floor                *)
(* of that moment: whatever rolled over, was pruned or was unlinked before *)
(* the copy.  The stamp of the window end itself is excepted, as in        *)
(* CoverageSound.                                                          *)
CutComplete ==
    \A h \in Handlers : phase[h] = "cut" /\ released[h] /\ Source = "log" =>
        \A f \in atPlan[h].files : \A k \in 1..Len(recs[f]) :
            /\ window[h].from <= recs[f][k].log
            /\ recs[f][k].log < window[h].to
            /\ atPlan[h].clock <= recs[f][k].log + Watch
            => InClip(h, f, k)

(* The segments of a clip follow each other in time, as their numbers in   *)
(* the file names say, but for those of a file that a listing overlooked.  *)
SegmentsInOrder ==
    \A h \in Handlers : \A i, j \in DOMAIN clip[h] : i < j =>
        \A m \in clip[h][i], n \in clip[h][j] :
            recs[m[1]][m[2]].log <= recs[n[1]][n[2]].log \/ n[1] \in overlooked

(* Every admitted trigger gets its clip, coverage or not: also when the    *)
(* tail has died or the recorder has stopped.                              *)
TriggerIsCut ==
    \A h \in Handlers : phase[h] = "postroll" ~> phase[h] = "cut"
=============================================================================
