------------------------------ MODULE Recorder ------------------------------
(***************************************************************************)
(* The recorder side of the record directory: what clipper finds on disk.  *)
(*                                                                         *)
(* A recorder (rosbag2, or the example writer cu-mcap-record) is a separate *)
(* process.  It writes one MCAP file at a time: creates it, writes the     *)
(* magic bytes, appends records, and either closes it with a footer (a     *)
(* split, a clean stop) or dies without one.  The next file is opened only *)
(* after the previous one was closed or abandoned.  A file that no writer  *)
(* holds may be removed from the directory: by scripts/record.sh, which    *)
(* wipes the bag directory before it restarts the recorder, or by a        *)
(* pruner (scripts/prune-record.sh).                                       *)
(*                                                                         *)
(* A file is named by its creation number, which stands for its inode: it  *)
(* keeps its contents for whoever holds it open after its name is gone.    *)
(* Only records that are complete on disk are modelled: a record in the    *)
(* writer's cache or half-written is not yet appended.                     *)
(***************************************************************************)
EXTENDS Naturals, Sequences, FiniteSets

CONSTANTS
    MaxFiles,           \* bound: how many files recorders ever create
    MaxRecs,            \* bound: how many records a file ever holds
    MaxWritten,         \* bound: how many records are ever written, in all files
    MaxTime,            \* bound: the last value of the wall clock
    Paths,              \* the file names in the record directory, numbered
    ReuseNames,         \* whether a restarted recorder numbers from 1 again
    CrashBeforeMagic,   \* whether a recorder may die before the magic bytes
    PublishTimes        \* the publish stamps the recorded messages carry

ASSUME RecorderAssumption ==
    /\ MaxFiles \in Nat /\ MaxRecs \in Nat /\ MaxWritten \in Nat /\ MaxTime \in Nat \ {0}
    /\ Paths \subseteq Nat \ {0}
    /\ ReuseNames \in BOOLEAN /\ CrashBeforeMagic \in BOOLEAN
    /\ PublishTimes \subseteq Nat

VARIABLES
    clock,      \* the wall clock that stamps messages and dates retention
    created,    \* number of files created so far; file f is the f-th
    name,       \* file -> the name it was created under
    dir,        \* name -> the file it resolves to, NoFile if none
    magic,      \* file -> its 8 magic bytes are on disk
    recs,       \* file -> its complete records, in offset order
    footer,     \* file -> its DataEnd/Footer is on disk
    writer,     \* the file a recorder holds open for writing, or NoFile
    lastLog     \* log stamp of the last message written, in any file

disk == <<clock, created, name, dir, magic, recs, footer, writer, lastLog>>

Files == 1..MaxFiles
NoFile == 0
NoName == 0
Time == 0..MaxTime
Message == [log : Nat, pub : Nat]

Linked(f) == f \in 1..created /\ dir[name[f]] = f

DiskTypeOK ==
    /\ clock \in Time
    /\ created \in 0..MaxFiles
    /\ name \in [Files -> Paths \cup {NoName}]
    /\ dir \in [Paths -> Files \cup {NoFile}]
    /\ magic \in [Files -> BOOLEAN]
    /\ recs \in [Files -> Seq(Message)]
    /\ footer \in [Files -> BOOLEAN]
    /\ writer \in 0..created
    /\ lastLog \in Time

RecorderInit ==
    /\ clock = 1
    /\ created = 0
    /\ name = [f \in Files |-> NoName]
    /\ dir = [p \in Paths |-> NoFile]
    /\ magic = [f \in Files |-> FALSE]
    /\ recs = [f \in Files |-> << >>]
    /\ footer = [f \in Files |-> FALSE]
    /\ writer = NoFile
    /\ lastLog = 1

Tick ==
    /\ clock < MaxTime
    /\ clock' = clock + 1
    /\ UNCHANGED <<created, name, dir, magic, recs, footer, writer, lastLog>>

(* A recorder opens its next file: the first one, a split, or a restart.   *)
OpenFile(p) ==
    /\ writer = NoFile
    /\ created < MaxFiles
    /\ dir[p] = NoFile
    /\ ReuseNames \/ p = created + 1
    /\ created' = created + 1
    /\ name' = [name EXCEPT ![created + 1] = p]
    /\ dir' = [dir EXCEPT ![p] = created + 1]
    /\ writer' = created + 1
    /\ UNCHANGED <<clock, magic, recs, footer, lastLog>>

WriteMagic ==
    /\ writer # NoFile
    /\ ~magic[writer]
    /\ magic' = [magic EXCEPT ![writer] = TRUE]
    /\ UNCHANGED <<clock, created, name, dir, recs, footer, writer, lastLog>>

Written == UNION {{<<f, k>> : k \in DOMAIN recs[f]} : f \in Files}

(* A record reaches the file.  One writer stamps log_time at receive, so   *)
(* stamps never fall, and none is ahead of the clock; publish_time is      *)
(* whatever the sender put there.                                          *)
AppendRecord(t, p) ==
    /\ writer # NoFile
    /\ magic[writer]
    /\ Len(recs[writer]) < MaxRecs /\ Cardinality(Written) < MaxWritten
    /\ recs' = [recs EXCEPT ![writer] = Append(@, [log |-> t, pub |-> p])]
    /\ lastLog' = t
    /\ UNCHANGED <<clock, created, name, dir, magic, footer, writer>>

CloseFile ==
    /\ writer # NoFile
    /\ magic[writer]
    /\ footer' = [footer EXCEPT ![writer] = TRUE]
    /\ writer' = NoFile
    /\ UNCHANGED <<clock, created, name, dir, magic, recs, lastLog>>

(* The recorder dies, or splits without its footer reaching the disk.      *)
AbandonFile ==
    /\ writer # NoFile
    /\ magic[writer] \/ CrashBeforeMagic
    /\ writer' = NoFile
    /\ UNCHANGED <<clock, created, name, dir, magic, recs, footer, lastLog>>

RemoveFile(p) ==
    /\ dir[p] # NoFile
    /\ dir[p] # writer
    /\ dir' = [dir EXCEPT ![p] = NoFile]
    /\ UNCHANGED <<clock, created, name, magic, recs, footer, writer, lastLog>>

RecorderNext ==
    \/ Tick
    \/ \E p \in Paths : OpenFile(p)
    \/ WriteMagic
    \/ \E t \in lastLog..clock, p \in PublishTimes : AppendRecord(t, p)
    \/ CloseFile
    \/ AbandonFile
    \/ \E p \in Paths : RemoveFile(p)
=============================================================================
