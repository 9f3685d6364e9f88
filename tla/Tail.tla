-------------------------------- MODULE Tail --------------------------------
(***************************************************************************)
(* The tail thread of clipper: Tailer::run and what it calls, over the     *)
(* record directory of module Recorder.                                    *)
(*                                                                         *)
(* The thread adopts the newest file at startup, then loops: index the     *)
(* files that appeared, prune aged-out recordings, scan the current        *)
(* recording once.  Between two of its file-system calls the recorder may  *)
(* do anything, so each loop body is split where that shows.  Everything   *)
(* under one state lock is one step.                                       *)
(*                                                                         *)
(* A recording keeps its id and its record here after retention drops it   *)
(* from the collection ("held"): nothing reads a dropped one, but what the *)
(* tail promises is about those files too.  The time bounds a recording    *)
(* carries are those of the records up to its offset, so they are derived. *)
(*                                                                         *)
(* A listing of the directory may overlook a file: a stat fails, two       *)
(* modification times are equal and the younger one comes first, the file  *)
(* is made while the directory is read, or the whole directory cannot be   *)
(* read.  A seen file that is overlooked is forgotten, so it is yielded    *)
(* and indexed again; an unseen one may be indexed behind a younger one.   *)
(* The history `overlooked` names these files.  Which of these causes it   *)
(* was, and what a number used again for another inode adds, is module     *)
(* Discovery.                                                              *)
(*                                                                         *)
(* A definition named MutX is X with a plausible bug, for the mutation     *)
(* runs that show the properties have teeth.                               *)
(***************************************************************************)
EXTENDS Recorder, FiniteSets

CONSTANTS
    Watch,          \* retention: age of the newest data beyond which to drop
    DeleteOld,      \* --delete-old-files
    MaxFaults,      \* MAX_SCAN_FAULTS
    MaxMisses       \* bound: files overlooked, over all listings

ASSUME TailAssumption ==
    /\ Watch \in Nat
    /\ DeleteOld \in BOOLEAN
    /\ MaxFaults \in Nat \ {0}
    /\ MaxMisses \in Nat

VARIABLES
    pc,         \* where the tail thread is in its loop
    seen,       \* NewFileWatchIterator.seen: files yielded or seeded past
    indexed,    \* number of recordings indexed so far (next_id)
    rec,        \* id -> the recording's index entry
    held,       \* the ids in TailState.recordings
    current,    \* TailState.current
    unlinking,  \* pruned recordings whose files are still to be removed
    pass,       \* locals of poll_current: file length at the snapshot, outcome
    faults,     \* consecutive faulted passes
    coverage,   \* the coverage watch
    misses,     \* files overlooked so far, over all listings
    overlooked  \* history: the files they overlooked

listing == <<seen, misses, overlooked>>
tailVars ==
    <<pc, listing, indexed, rec, held, current, unlinking, pass, faults, coverage>>
vars == <<disk, tailVars>>

NoId == 0
Recording == [file : Files, state : {"New", "Tailing", "Ended"},
              offset : Nat]
Pass == [len : Nat, footer : BOOLEAN, moved : BOOLEAN,
         how : {"clean", "footer", "fault"}]
NoPass == [len |-> 0, footer |-> FALSE, moved |-> FALSE, how |-> "clean"]

-----------------------------------------------------------------------------
(* What the tail has read of a recording, and what it derives from it.     *)

Scanned(id) == {recs[rec[id].file][k] : k \in 1..rec[id].offset}
MutHeldMessages ==                          \* on disk, not what was applied
    UNION {{recs[rec[id].file][k] : k \in 1..Len(recs[rec[id].file])} : id \in held}
HeldMessages == UNION {Scanned(id) : id \in held}

(* h is the high-water of a set of stamps: its maximum, 0 if it is empty.  *)
IsHighWater(h, S) == h \in S \cup {0} /\ \A s \in S : s <= h
MutIsOldest(x, S) == x \in S                               \* in any order
IsOldest(x, S) == x \in S /\ \A y \in S : x <= y
IsNewest(x, S) == x \in S /\ \A y \in S : y <= x
MutAtLeast(a, b) == b                                   \* the mark may fall
AtLeast(a, b) == IF a < b THEN b ELSE a

Present == {f \in 1..created : Linked(f)}
Live == {id \in held : rec[id].state # "Ended"}
MutHasSuccessor(id) == \E f \in Present : f > rec[id].file   \* on disk suffices
HasSuccessor(id) == \E other \in held : other > id
InodeChanged(id) == ~Linked(rec[id].file)

MutExpiredByMin(id) ==                          \* the oldest data decides
    /\ rec[id].state = "Ended"
    /\ id # current
    /\ \E m \in Scanned(id) : m.log + Watch < clock
MutExpiredByAge(id) ==                              \* whatever its state
    /\ Scanned(id) # {}
    /\ \A m \in Scanned(id) : m.log + Watch < clock
(* Saturating: nothing is older than a floor of 0.                         *)
Expired(id) ==
    /\ rec[id].state = "Ended"
    /\ id # current
    /\ Scanned(id) # {}
    /\ \A m \in Scanned(id) : m.log + Watch < clock
MutToPrune == {id \in held : current # NoId /\ Expired(id)}
ToPrune == {id \in held : Expired(id)}

MutExhausted(n) == n > MaxFaults
Exhausted(n) == n >= MaxFaults

-----------------------------------------------------------------------------
Init ==
    /\ RecorderInit
    /\ pc = "start"
    /\ seen = {}
    /\ indexed = 0
    /\ rec = << >>
    /\ held = {}
    /\ current = NoId
    /\ unlinking = {}
    /\ pass = NoPass
    /\ faults = 0
    /\ coverage = [log |-> 0, pub |-> 0]
    /\ misses = 0
    /\ overlooked = {}

MutCurrentAfterInsert(id) == id                   \* jump to the newest file
CurrentAfterInsert(id) == IF current = NoId THEN id ELSE current

(* insert_new_recording: at the back, adopted when nothing is current.     *)
InsertNewRecording(f) ==
    /\ indexed' = indexed + 1
    /\ rec' = [id \in 1..(indexed + 1) |->
                 IF id <= indexed THEN rec[id]
                 ELSE [file |-> f, state |-> "New", offset |-> 0]]
    /\ held' = held \cup {indexed + 1}
    /\ current' = CurrentAfterInsert(indexed + 1)

(* index_recording: a file that cannot be opened is skipped for good.      *)
IndexRecording(f) ==
    \/ InsertNewRecording(f)
    \/ UNCHANGED <<indexed, rec, held, current>>

(* What one listing shows when it overlooks S.                             *)
Overlook(S) ==
    /\ misses + Cardinality(S) <= MaxMisses
    /\ misses' = misses + Cardinality(S)
    /\ overlooked' = overlooked \cup S

(* The newest file present at startup is adopted: a younger one is passed  *)
(* over only if it was overlooked.  No file, or no directory that can be   *)
(* read, and the iterator starts out with everything unseen.               *)
AdoptNone ==
    /\ pc = "start"
    /\ pc' = "discover"
    /\ UNCHANGED <<disk, listing, indexed, rec, held, current, unlinking, pass, faults,
                   coverage>>

Adopt ==
    /\ pc = "start"
    /\ \E f \in Present :
         /\ Overlook({g \in Present : f < g})
         /\ IndexRecording(f)
    /\ pc' = "seed"
    /\ UNCHANGED <<disk, seen, unlinking, pass, faults, coverage>>

(* A second directory read seeds the iterator past all it finds there: a   *)
(* file it overlooks, all of them if the directory cannot be read, will be *)
(* yielded, the adopted one again and the backlog behind it.               *)
Seed ==
    /\ pc = "seed"
    /\ \E S \in SUBSET Present :
         /\ Overlook(S)
         /\ seen' = Present \ S
    /\ pc' = "discover"
    /\ UNCHANGED <<disk, indexed, rec, held, current, unlinking, pass, faults,
                   coverage>>

Retained(S) == (seen \cap Present) \ S
SeenWith(f, S) == Retained(S) \cup {f}

(* One next() of the iterator: of the unseen files the listing shows, the  *)
(* oldest is indexed, and what it does not show is forgotten.  The name it *)
(* yields is opened at once: that another file takes the name in between   *)
(* is left to module Discovery.                                            *)
Discover ==
    /\ pc = "discover"
    /\ \E S \in SUBSET Present : \E f \in (Present \ S) \ seen :
         /\ IsOldest(f, (Present \ S) \ seen)
         /\ Overlook(S)
         /\ seen' = SeenWith(f, S)
         /\ IndexRecording(f)
    /\ UNCHANGED <<disk, pc, unlinking, pass, faults, coverage>>

DiscoverNone ==
    /\ pc = "discover"
    /\ \E S \in SUBSET Present :
         /\ Present \ S \subseteq seen
         /\ Overlook(S)
         /\ seen' = Retained(S)
    /\ pc' = "prune"
    /\ UNCHANGED <<disk, indexed, rec, held, current, unlinking, pass, faults,
                   coverage>>

(* The directory cannot be read this time: the next poll tries again.      *)
DirUnreadable ==
    /\ pc = "discover"
    /\ pc' = "prune"
    /\ UNCHANGED <<disk, listing, indexed, rec, held, current, unlinking, pass, faults,
                   coverage>>

(* The state lock is taken here and, a temporary of the loop over the      *)
(* pruned paths, held until the last of their files is unlinked.           *)
Prune ==
    /\ pc = "prune"
    /\ held' = held \ ToPrune
    /\ unlinking' = IF DeleteOld THEN ToPrune ELSE {}
    /\ pc' = "unlink"
    /\ UNCHANGED <<disk, listing, indexed, rec, current, pass, faults, coverage>>

(* remove_file on the path of a pruned recording: whatever the name means  *)
(* by now, and a failure is only logged.                                   *)
Unlink ==
    /\ pc = "unlink"
    /\ \E id \in unlinking :
         /\ dir' \in {dir, [dir EXCEPT ![name[rec[id].file]] = NoFile]}
         /\ unlinking' = unlinking \ {id}
    /\ UNCHANGED <<clock, created, name, magic, recs, footer, writer, lastLog>>
    /\ UNCHANGED <<pc, listing, indexed, rec, held, current, pass, faults, coverage>>

StateLocked == pc = "unlink"

Unlinked ==
    /\ pc = "unlink"
    /\ unlinking = {}
    /\ pc' = IF current = NoId THEN "discover" ELSE "poll"
    /\ UNCHANGED <<disk, listing, indexed, rec, held, current, unlinking, pass,
                   faults, coverage>>

-----------------------------------------------------------------------------
(* One poll of the current recording.                                      *)

MutEndCurrent ==                       \* the next file waits for discovery
    /\ rec' = [rec EXCEPT ![current].state = "Ended"]
    /\ current' = NoId

(* mark_ended_and_advance: to the oldest recording not ended, if any.      *)
EndCurrent ==
    /\ rec' = [rec EXCEPT ![current].state = "Ended"]
    /\ LET rest == Live \ {current} IN
         \/ rest = {} /\ current' = NoId
         \/ \E next \in rest : IsOldest(next, rest) /\ current' = next

(* Fewer than 8 bytes: wait for the magic, unless the file is gone.        *)
PollTooShort ==
    /\ pc = "poll"
    /\ rec[current].state = "New"
    /\ ~magic[rec[current].file]
    /\ pc' = "short"
    /\ UNCHANGED <<disk, listing, indexed, rec, held, current, unlinking, pass,
                   faults, coverage>>

NotReady ==
    /\ pc = "short"
    /\ ~InodeChanged(current)
    /\ pc' = "discover"
    /\ UNCHANGED <<disk, listing, indexed, rec, held, current, unlinking, pass,
                   faults, coverage>>

VanishedBeforeMagic ==
    /\ pc = "short"
    /\ InodeChanged(current)
    /\ EndCurrent
    /\ faults' = 0
    /\ pc' = "discover"
    /\ UNCHANGED <<disk, listing, indexed, held, unlinking, pass, coverage>>

(* The magic is verified on first contact; then the length is read, and    *)
(* with it how much the scan may consume.                                  *)
Measure ==
    /\ pc = "poll"
    /\ LET f == rec[current].file IN
         /\ magic[f]
         /\ pass' = [NoPass EXCEPT !.len = Len(recs[f]), !.footer = footer[f]]
    /\ rec' = [rec EXCEPT ![current].state = "Tailing"]
    /\ pc' = "scan"
    /\ UNCHANGED <<disk, listing, indexed, held, current, unlinking, faults, coverage>>

(* scan_available: consume records up to the measured length.  A fault     *)
(* (an IO error, a length that cannot be) may stop the pass at any record; *)
(* what was read so far is applied all the same.                           *)
Scan ==
    /\ pc = "scan"
    /\ \E stop \in rec[current].offset..pass.len,
          how \in {"clean", "footer", "fault"} :
         /\ how = "clean" => stop = pass.len /\ ~pass.footer
         /\ how = "footer" => stop = pass.len /\ pass.footer
         /\ pass' = [pass EXCEPT !.how = how,
                                 !.moved = stop # rec[current].offset]
         /\ rec' = [rec EXCEPT ![current].offset = stop]
    /\ pc' = "publish"
    /\ UNCHANGED <<disk, listing, indexed, held, current, unlinking, faults, coverage>>

(* The tail of apply_to_current: each mark is raised, never lowered.  The  *)
(* marks were read under the lock; only this thread changes what they are  *)
(* read from, so they are computed here.                                   *)
PublishCoverage ==
    /\ pc = "publish"
    /\ \E hw \in Time, phw \in PublishTimes \cup {0} :
         /\ IsHighWater(hw, {m.log : m \in HeldMessages})
         /\ IsHighWater(phw, {m.pub : m \in HeldMessages})
         /\ coverage' = [log |-> AtLeast(coverage.log, hw),
                         pub |-> AtLeast(coverage.pub, phw)]
    /\ pc' = "decide"
    /\ UNCHANGED <<disk, listing, indexed, rec, held, current, unlinking, pass, faults>>

MutFaultRecovered ==                     \* ...and the count goes on with the next
    /\ pc = "decide"
    /\ pass.how = "fault"
    /\ InodeChanged(current)
    /\ EndCurrent
    /\ pc' = "discover"
    /\ pass' = NoPass
    /\ UNCHANGED <<disk, listing, indexed, held, unlinking, coverage, faults>>
(* A fault in a file that is gone is the end of that file.                 *)
FaultRecovered ==
    /\ pc = "decide"
    /\ pass.how = "fault"
    /\ InodeChanged(current)
    /\ EndCurrent
    /\ faults' = 0
    /\ pc' = "discover"
    /\ pass' = NoPass
    /\ UNCHANGED <<disk, listing, indexed, held, unlinking, coverage>>

Faulted ==
    /\ pc = "decide"
    /\ pass.how = "fault"
    /\ ~InodeChanged(current)
    /\ faults' = faults + 1
    /\ pc' = IF Exhausted(faults + 1) THEN "dead" ELSE "discover"
    /\ pass' = NoPass
    /\ UNCHANGED <<disk, listing, indexed, rec, held, current, unlinking,
                   coverage>>

Finished ==
    \/ pass.how = "footer"
    \/ InodeChanged(current)
    \/ HasSuccessor(current) /\ ~pass.moved

Retire ==
    /\ pc = "decide"
    /\ pass.how # "fault"
    /\ Finished
    /\ EndCurrent
    /\ faults' = 0
    /\ pc' = "discover"
    /\ pass' = NoPass
    /\ UNCHANGED <<disk, listing, indexed, held, unlinking, coverage>>

(* Progressed and Idle differ only in whether the thread sleeps.           *)
KeepTailing ==
    /\ pc = "decide"
    /\ pass.how # "fault"
    /\ ~Finished
    /\ faults' = 0
    /\ pc' = "discover"
    /\ pass' = NoPass
    /\ UNCHANGED <<disk, listing, indexed, rec, held, current, unlinking,
                   coverage>>

(* A stat or a read of the magic fails, or the file is not an MCAP file:   *)
(* run returns the error and the supervisor exits the process.             *)
PollError ==
    /\ pc \in {"poll", "short", "decide"}
    /\ pc' = "dead"
    /\ UNCHANGED <<disk, listing, indexed, rec, held, current, unlinking, pass,
                   faults, coverage>>

TailStep ==
    \/ AdoptNone \/ Adopt \/ Seed \/ Discover \/ DiscoverNone \/ Prune \/ Unlink \/ Unlinked
    \/ PollTooShort \/ NotReady \/ VanishedBeforeMagic \/ Measure \/ Scan
    \/ PublishCoverage \/ FaultRecovered \/ Faulted \/ Retire \/ KeepTailing

RecorderStep == RecorderNext /\ UNCHANGED tailVars

Next == TailStep \/ DirUnreadable \/ PollError \/ RecorderStep

Spec == Init /\ [][Next]_vars

(* The tail is a thread the OS schedules, and the directory can be read    *)
(* again and again; nothing obliges the recorder.                          *)
FairSpec == Spec /\ WF_vars(TailStep) /\ SF_vars(Discover)
-----------------------------------------------------------------------------
(* Correctness.                                                            *)

TypeOK ==
    /\ DiskTypeOK
    /\ pc \in {"start", "seed", "discover", "prune", "unlink", "poll", "short",
              "scan", "publish", "decide", "dead"}
    /\ seen \subseteq Files
    /\ indexed \in Nat
    /\ rec \in [1..indexed -> Recording]
    /\ held \subseteq 1..indexed
    /\ current \in 0..indexed
    /\ unlinking \subseteq 1..indexed
    /\ pass \in Pass
    /\ faults \in 0..MaxFaults /\ (pc # "dead" => faults < MaxFaults)
    /\ coverage \in [log : Nat, pub : Nat]
    /\ misses \in 0..MaxMisses
    /\ overlooked \subseteq Files

Read(f, k) == \E id \in 1..indexed : rec[id].file = f /\ k <= rec[id].offset
(* A recording is in turn while only younger files are indexed behind it.  *)
(* What is behind it tells the tail that its file has a successor: if that *)
(* is an older file, or the very same one, the tail is misled.             *)
InTurn(id) == \A other \in 1..indexed : other > id => rec[other].file > rec[id].file
(* Files the tail may never read to their end: the startup backlog, failed *)
(* opens, and those it gives up for a file that is not their successor.    *)
Skipped == {f \in seen : ~\E id \in 1..indexed : rec[id].file = f /\ InTurn(id)}
(* Everything on disk was read, and nothing more will be written.          *)
Drained(id) ==
    /\ rec[id].offset = Len(recs[rec[id].file])
    /\ writer # rec[id].file

(* The completeness promise a log-domain cut rests on (the Coverage doc):  *)
(* once the published high-water is past a stamp, every message on disk    *)
(* with that stamp, in any file still in the directory, has been read.     *)
(* The stamp the mark stands at is not included: a message logged in the   *)
(* same instant may still be appended.  Nor is a file that a listing ever  *)
(* overlooked, or that one indexed out of turn cut short: the mark may     *)
(* have passed those before they were read.                                *)
CoverageSound ==
    \A f \in 1..created : Linked(f) /\ f \notin Skipped \cup overlooked =>
        \A k \in 1..Len(recs[f]) :
            recs[f][k].log < coverage.log => Read(f, k)

(* Coverage never runs ahead of the index: the mark is a stamp that was    *)
(* read and applied, so a handler it releases finds that message indexed.  *)
CoverageBacked ==
    coverage.log > 0 =>
        \E id \in 1..indexed :
            \E m \in Scanned(id) : m.log = coverage.log

(* Scanning is strictly in index order, one recording at a time, also when *)
(* files are indexed again: everything before the current recording has    *)
(* ended and nothing behind it has been touched; with nothing current,     *)
(* everything has ended.                                                   *)
OldestFirst ==
    /\ current # NoId => /\ current \in held
                         /\ rec[current].state # "Ended"
    /\ \A id \in 1..indexed :
         /\ current = NoId \/ id < current => rec[id].state = "Ended"
         /\ current # NoId /\ id > current =>
               rec[id].state = "New" /\ rec[id].offset = 0

(* The fault budget is one recording's: whatever faults are on the count   *)
(* were met in the recording that is current, so no file inherits the      *)
(* faults of one that ended, and the tail does not give up on a sound one. *)
FaultsAreCurrent ==
    faults > 0 /\ pc # "dead" =>
        current # NoId /\ rec[current].state = "Tailing"

(* A retired recording whose file is still in the directory was read to    *)
(* its end and has no writer: neither the footer nor the length-stable     *)
(* successor signal gives up on a file too early, unless the successor is  *)
(* none (InTurn).                                                          *)
EndedIsDrained ==
    \A id \in 1..indexed :
        rec[id].state = "Ended" /\ Linked(rec[id].file) /\ InTurn(id) => Drained(id)

(* Retention is never mid-file: of a recording it dropped, whatever is on  *)
(* disk under its name is older than the watch floor, unless the recording *)
(* was retired for a file that is not its successor.                       *)
PrunedIsAged ==
    \A id \in (1..indexed) \ held : Linked(rec[id].file) /\ InTurn(id) =>
        \A k \in 1..Len(recs[rec[id].file]) :
            recs[rec[id].file][k].log + Watch < clock

(* --delete-old-files removes whole old files, "never the current one":    *)
(* the file a recorder is writing stays in the directory, unless that file *)
(* was itself indexed again, or one older than it behind it.               *)
Misled(f) == \E id \in 1..indexed : rec[id].file = f /\ ~InTurn(id)
LiveFileLinked == writer # NoFile => Linked(writer) \/ Misled(writer)

(* Both marks only rise, whatever retention drops.                         *)
CoverageMonotone ==
    [][coverage'.log >= coverage.log /\ coverage'.pub >= coverage.pub]_vars

(* Every finished recording is eventually read to its end, whatever ended  *)
(* before it and however the passes in between fault, unless it was        *)
(* skipped, its name is gone, or the tail has given up with an error.      *)
FinishedIsRead ==
    []<>(pc = "dead" \/ \A f \in Files : footer[f] =>
            Read(f, Len(recs[f])) \/ f \in Skipped \/ ~Linked(f))

(* The same beside any recorder, unless the tail stays for ever with a     *)
(* file that never gets its magic bytes: its recorder died before, or      *)
(* idles, and the file is in front of an older one.                        *)
Blocked == current # NoId /\ ~magic[rec[current].file]
FinishedIsReadOrBlocked == <>[]Blocked \/ FinishedIsRead

(* Retention runs on every poll, also while the recorder idles: a          *)
(* recording that has aged out is dropped.                                 *)
AgedIsDropped == []<>(pc = "dead" \/ ~\E id \in held : Expired(id))
=============================================================================
