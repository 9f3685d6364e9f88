----------------------------- MODULE Discovery ------------------------------
(***************************************************************************)
(* Finding recordings: newest_mcap and NewFileWatchIterator over a record  *)
(* directory that changes while it is read, and index_recording, which     *)
(* opens by name what was found by name.                                   *)
(*                                                                         *)
(* Module Tail takes a listing, and the open after it, as one step over    *)
(* files that are never confused, some of which it overlooks.  Here is     *)
(* why: a directory is read first and its entries are stat'ed one by one   *)
(* afterwards; a file is known by its inode number, which the file system  *)
(* gives again once the file is unlinked and closed by everybody; entries  *)
(* are ordered by modification times, which may be equal; a name may       *)
(* change hands before it is opened; reads, stats and opens fail.          *)
(*                                                                         *)
(* What then goes wrong, goes wrong for a reason: the histories `lost`,    *)
(* `reused` and `again` name the files with which something happened that  *)
(* the iterator cannot make good, and the properties hold of all others.   *)
(***************************************************************************)
EXTENDS Naturals, FiniteSets, SequencesExt

CONSTANTS
    MaxFiles,       \* bound: files ever created
    MaxClock,       \* bound: the last modification time
    MaxFaults,      \* bound: reads, stats and opens that fail
    Paths,          \* the names ending in .mcap in the directory
    Inodes          \* the inode numbers of the file system

ASSUME DiscoveryAssumption ==
    /\ MaxFiles \in Nat /\ MaxClock \in Nat \ {0} /\ MaxFaults \in Nat
    /\ Inodes \subseteq Nat \ {0}

VARIABLES
    clock,      \* the clock files are dated by
    created,    \* files created so far; file f is the f-th
    dir,        \* name -> file, or NoFile
    ino,        \* file -> inode number
    mtime,      \* file -> modification time
    birth,      \* file -> time of creation
    writer,     \* the file a recorder holds open, or NoFile
    mode,       \* which read of the directory is due or under way
    walking,    \* it is under way
    todo,       \* names listed and not stat'ed yet
    stats,      \* what the stats returned
    opening,    \* an entry yielded and not opened yet: at most one
    seen,       \* inodes seen (NewFileWatchIterator::seen)
    held,       \* files the tail holds open
    faults,     \* failures so far
    log,        \* history: the files indexed, in order
    backlog,    \* history: the files there when the tail started
    adopted,    \* history: the one it adopted, or NoFile
    prior,      \* history: the inodes the last complete walk met
    lost,       \* history: files that may stay unknown
    reused,     \* history: files created under an inode known to be another's
    again,      \* history: files that may be indexed again or out of turn
    listed      \* history: the files created before the listing

disk == <<clock, created, dir, ino, mtime, birth, writer>>
walk == <<mode, walking, todo, stats, opening>>
history == <<log, backlog, adopted, prior, lost, reused, again, listed>>
vars == <<disk, walk, seen, held, faults, history>>

Files == 1..MaxFiles
NoFile == 0
Present == {dir[p] : p \in Paths} \ {NoFile}
Ids(S) == {s.id : s \in S}

-----------------------------------------------------------------------------
(* The directory.                                                          *)

DiskInit ==
    /\ clock = 1
    /\ created = 0
    /\ dir = [p \in Paths |-> NoFile]
    /\ ino = [f \in Files |-> 0]
    /\ mtime = [f \in Files |-> 0]
    /\ birth = [f \in Files |-> 0]
    /\ writer = NoFile

Tick ==
    /\ clock < MaxClock
    /\ clock' = clock + 1
    /\ UNCHANGED <<created, dir, ino, mtime, birth, writer, walk, seen, held, faults, history>>

(* An inode is free when no name and no open handle keeps its file.        *)
FreeInodes == Inodes \ {ino[f] : f \in Present \cup held \cup ({writer} \ {NoFile})}

OpenFile(p, i) ==
    /\ writer = NoFile /\ created < MaxFiles /\ dir[p] = NoFile
    /\ i \in FreeInodes
    /\ LET f == created + 1
       IN  /\ created' = f
           /\ dir' = [dir EXCEPT ![p] = f]
           /\ ino' = [ino EXCEPT ![f] = i]
           /\ mtime' = [mtime EXCEPT ![f] = clock]
           /\ birth' = [birth EXCEPT ![f] = clock]
           /\ writer' = f
           /\ reused' = IF i \in prior \cup Ids(stats) THEN reused \cup {f} ELSE reused
    /\ UNCHANGED <<clock, walk, seen, held, faults, log, backlog, adopted, prior, lost, again,
                   listed>>

AppendRecord ==
    /\ writer # NoFile
    /\ mtime[writer] < clock
    /\ mtime' = [mtime EXCEPT ![writer] = clock]
    /\ UNCHANGED <<clock, created, dir, ino, birth, writer, walk, seen, held, faults, history>>

CloseFile ==
    /\ writer # NoFile
    /\ writer' = NoFile
    /\ UNCHANGED <<clock, created, dir, ino, mtime, birth, walk, seen, held, faults, history>>

RemoveFile(p) ==
    /\ dir[p] \notin {NoFile, writer}
    /\ dir' = [dir EXCEPT ![p] = NoFile]
    /\ UNCHANGED <<clock, created, ino, mtime, birth, writer, walk, seen, held, faults, history>>

DiskNext ==
    \/ Tick \/ AppendRecord \/ CloseFile
    \/ \E p \in Paths : RemoveFile(p) \/ \E i \in Inodes : OpenFile(p, i)

-----------------------------------------------------------------------------
(* Reading the directory: newest_mcap, then seeded() if that found a file, *)
(* then next() again and again.                                            *)

WalkInit ==
    /\ mode = "newest" /\ walking = FALSE
    /\ todo = {} /\ stats = {} /\ opening = << >>
    /\ seen = {} /\ held = {} /\ faults = 0
    /\ log = << >> /\ backlog = {} /\ adopted = NoFile /\ prior = {}
    /\ lost = {} /\ reused = {} /\ again = {} /\ listed = 0

Idle == ~walking /\ opening = << >> /\ mode \in {"newest", "seed", "next"}

ReadDir ==
    /\ Idle
    /\ walking' = TRUE
    /\ todo' = {p \in Paths : dir[p] # NoFile}
    /\ stats' = {}
    /\ IF mode = "newest"       \* all but the latest are left alone on purpose
       THEN /\ backlog' = Present
            /\ lost' = {f \in Present : \E g \in Present : f < g}
       ELSE UNCHANGED <<backlog, lost>>
    /\ UNCHANGED <<disk, mode, opening, seen, held, faults, log, adopted, prior, reused, again>>
    /\ listed' = created

(* next() returns None and keeps what it has seen.  At startup, a          *)
(* directory that cannot be read is taken for one with nothing in it.      *)
DirFails ==
    /\ Idle
    /\ faults < MaxFaults
    /\ faults' = faults + 1
    /\ mode' = IF mode = "next" THEN "drained" ELSE "next"
    /\ stats' = {}
    /\ backlog' = IF mode = "newest" THEN Present ELSE backlog
    /\ again' = IF mode = "next" THEN again ELSE again \cup Present
    /\ UNCHANGED <<disk, walking, todo, opening, seen, held, log, adopted, prior, lost, reused, listed>>

(* No metadata sorts before any time in newest_mcap; otherwise the entry   *)
(* is passed over.                                                         *)
Unknown(p) == [path |-> p, file |-> NoFile, id |-> 0, mtime |-> 0]
MutWithoutMetadata(p) == stats \cup {Unknown(p)}                 \* listed by any walk
WithoutMetadata(p) == IF mode = "newest" THEN stats \cup {Unknown(p)} ELSE stats

Stat(p) ==
    /\ p \in todo
    /\ todo' = todo \ {p}
    /\ stats' = IF dir[p] = NoFile THEN WithoutMetadata(p)
                ELSE stats \cup {[path |-> p, file |-> dir[p], id |-> ino[dir[p]],
                                  mtime |-> mtime[dir[p]]]}
    /\ again' = IF dir[p] > listed THEN again \cup {dir[p]} ELSE again
    /\ UNCHANGED <<disk, mode, walking, opening, seen, held, faults, log, backlog, adopted,
                   prior, lost, reused, listed>>

StatFails(p) ==
    /\ p \in todo /\ dir[p] # NoFile
    /\ faults < MaxFaults
    /\ faults' = faults + 1
    /\ todo' = todo \ {p}
    /\ stats' = WithoutMetadata(p)
    /\ lost' = IF mode = "newest" THEN lost \cup {dir[p]} ELSE lost
    /\ again' = IF mode = "newest" THEN again ELSE again \cup {dir[p]}
    /\ UNCHANGED <<disk, mode, walking, opening, seen, held, log, backlog, adopted, prior,
                   reused, listed>>

Walked == walking /\ todo = {}

(* max_by_key keeps the last of equals, and a directory has no order.      *)
Newest ==
    /\ Walked /\ mode = "newest"
    /\ \/ /\ stats = {}
          /\ mode' = "next"
          /\ UNCHANGED <<opening, lost>>
       \/ \E s \in stats :
            /\ \A t \in stats : t.mtime <= s.mtime
            /\ opening' = <<s>>
            /\ lost' = lost \cup {t.file : t \in {t \in stats : t.mtime = s.mtime /\ t # s}}
            /\ UNCHANGED mode
    /\ walking' = FALSE
    /\ UNCHANGED <<disk, todo, stats, seen, held, faults, log, backlog, adopted, prior,
                   reused, again, listed>>

(* Whatever is there now counts as seen, also what came after the listing  *)
(* of newest_mcap.                                                         *)
Seeded ==
    /\ Walked /\ mode = "seed"
    /\ seen' = Ids(stats)
    /\ prior' = Ids(stats)
    /\ lost' = lost \cup ({s.file : s \in stats} \ backlog)
    /\ mode' = "next" /\ walking' = FALSE
    /\ UNCHANGED <<disk, todo, stats, opening, held, faults, log, backlog, adopted, reused, again,
                   listed>>

MutRetained == seen                                 \* nothing is forgotten
Retained == seen \cap Ids(stats)
Candidates == {s \in stats : s.id \notin seen}
MutFirst(s) == \A t \in Candidates : t.mtime <= s.mtime         \* the newest
First(s) == \A t \in Candidates : s.mtime <= t.mtime
MutSeenWith(s) == Retained                          \* the yield is not remembered
SeenWith(s) == Retained \cup {s.id}

Yield ==
    /\ Walked /\ mode = "next"
    /\ \E s \in Candidates :
         /\ First(s)
         /\ seen' = SeenWith(s)
         /\ opening' = <<s>>
    /\ prior' = Ids(stats)
    /\ walking' = FALSE
    /\ UNCHANGED <<disk, mode, todo, stats, held, faults, log, backlog, adopted, lost, reused,
                   again, listed>>

NoneLeft ==
    /\ Walked /\ mode = "next"
    /\ Candidates = {}
    /\ seen' = Retained
    /\ prior' = Ids(stats)
    /\ mode' = "drained" /\ walking' = FALSE
    /\ UNCHANGED <<disk, todo, stats, opening, held, faults, log, backlog, adopted, lost, reused,
                   again, listed>>

-----------------------------------------------------------------------------
(* The tail around it.                                                     *)

(* The name of the newest changed hands while it was being adopted: the    *)
(* backlog is left alone all the same.                                     *)
LeftOut ==
    LET s == opening[1]
    IN  IF mode = "newest" /\ (dir[s.path] # s.file \/ s.file > listed)
        THEN backlog ELSE {}
Opened == opening' = << >> /\ mode' = IF mode = "newest" THEN "seed" ELSE mode

(* index_recording opens the name: by now it may be another file's.        *)
IndexRecording ==
    /\ opening # << >>
    /\ LET f == dir[opening[1].path]
       IN  IF f = NoFile THEN UNCHANGED <<held, log, adopted, again>>
           ELSE /\ held' = held \cup {f}
                /\ log' = Append(log, f)
                /\ adopted' = IF mode = "newest" THEN f ELSE adopted
                /\ again' = IF f = opening[1].file THEN again ELSE again \cup {f}
    /\ lost' = lost \cup LeftOut
    /\ Opened
    /\ UNCHANGED <<disk, walking, todo, stats, seen, faults, backlog, prior, reused, listed>>

(* A file that cannot be opened is passed over, for good.                  *)
OpenFails ==
    /\ opening # << >>
    /\ dir[opening[1].path] # NoFile
    /\ faults < MaxFaults
    /\ faults' = faults + 1
    /\ lost' = lost \cup LeftOut \cup {dir[opening[1].path]}
    /\ Opened
    /\ UNCHANGED <<disk, walking, todo, stats, seen, held, log, backlog, adopted, prior, reused,
                   again, listed>>

(* Retention drops the handle of a recording that has ended, the last one  *)
(* too; with delete_old_files its name goes, too (RemoveFile).  What ends  *)
(* a recording is module Tail's: any may have.                             *)
Prune(f) ==
    /\ mode = "drained"
    /\ f \in held
    /\ held' = held \ {f}
    /\ UNCHANGED <<disk, walk, seen, faults, history>>

NextPoll ==
    /\ mode = "drained"
    /\ mode' = "next"
    /\ UNCHANGED <<disk, walking, todo, stats, opening, seen, held, faults, history>>

WalkStep ==
    \/ ReadDir \/ Newest \/ Seeded \/ Yield \/ NoneLeft \/ IndexRecording \/ NextPoll
    \/ \E p \in Paths : Stat(p)

Init == DiskInit /\ WalkInit
Next ==
    \/ DiskNext \/ WalkStep \/ DirFails \/ OpenFails
    \/ \E p \in Paths : StatFails(p)
    \/ \E f \in Files : Prune(f)

Spec == Init /\ [][Next]_vars

-----------------------------------------------------------------------------
(* Correctness.                                                            *)

TypeOK ==
    /\ created \in 0..MaxFiles /\ writer \in 0..created
    /\ dir \in [Paths -> Files \cup {NoFile}]
    /\ mode \in {"newest", "seed", "next", "drained"}
    /\ todo \subseteq Paths /\ (todo # {} => walking)
    /\ \A s \in stats : s.path \in Paths \ todo
    /\ opening # << >> => ~walking /\ opening[1] \in stats
    /\ seen \subseteq Inodes
    /\ held \subseteq Range(log)
    /\ \A f, g \in Present \cup held : f # g => ino[f] # ino[g]

(* None means that there is nothing newer: every file the walk met has     *)
(* been indexed, but for those left at startup, never opened, or created   *)
(* under an inode number the last walk still took for another file.        *)
NoneIsExact ==
    mode = "drained" => \A s \in stats : s.file \in Range(log) \cup lost \cup reused

(* Each recording is indexed once, and of the backlog only the one that is *)
(* adopted, unless a stat or the read at startup failed, or a name changed *)
(* hands between the listing and the open.  A file indexed twice has its   *)
(* triggers fired twice.                                                   *)
IndexedOnce ==
    \A j \in DOMAIN log :
        \/ log[j] \in again
        \/ /\ \A i \in 1..j-1 : log[i] # log[j]
           /\ log[j] \in backlog => log[j] = adopted

(* Recordings are indexed in the order they were created, whatever mtimes  *)
(* did meanwhile: the tail numbers them as they come and scans them in     *)
(* that order.  Only files created at the very time the earlier one was    *)
(* last written to may change places.                                      *)
IndexedInOrder ==
    \A i, j \in DOMAIN log : i < j /\ log[i] > log[j] =>
        \/ log[j] \in again \/ log[i] \in again
        \/ mtime[log[j]] = birth[log[i]]

(* discover.rs:17-19 promises of a reused inode what the walk does not see *)
(* when the old file goes and the new one comes between two polls.         *)
ReusedIsYielded ==
    mode = "drained" => \A s \in stats : s.file \in Range(log) \cup lost
=============================================================================
