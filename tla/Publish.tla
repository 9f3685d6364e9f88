------------------------------ MODULE Publish -------------------------------
(***************************************************************************)
(* From planned segments to published clips: the staging worker pool, the  *)
(* second half of record_clip, and stage_clip/publish_clip on the two      *)
(* directories, with failures, crashes and restarts.                       *)
(*                                                                         *)
(* A worker copies a segment into a fresh file of the capturing directory  *)
(* and syncs it.  The handler, once it has all segments, drops the empty   *)
(* ones, hard-links the others into out_dir under names nobody holds,      *)
(* removes the staged names, syncs out_dir and announces.  Every system    *)
(* call is a step.  Files are reached by name, as in the code: a link      *)
(* publishes, and an unlink removes, what the name stands for by then.     *)
(*                                                                         *)
(* The plans come from module Clip; here only whether a segment copied any *)
(* message matters.                                                        *)
(***************************************************************************)
EXTENDS Ranks, Sequences

CONSTANTS
    Handlers,       \* trigger handlers, of this and of later runs
    Workers,        \* --extract-parallelism staging threads
    Bases,          \* the clip names "<anchor>_<name>" triggers ask for
    BaseOf,         \* handler -> its clip name; duplicate triggers share one
    Earlier,        \* the clip names that clips of earlier runs have taken
    MaxSegments,    \* bound: segments a window is planned over
    MaxSuffix,      \* the last "_<n>" tried (1000 in the code)
    MaxCrashes      \* bound: crashes

ASSUME PublishAssumption ==
    /\ BaseOf \in [Handlers -> Bases] /\ Earlier \subseteq Bases
    /\ "earlier" \notin Handlers
    /\ MaxSegments \in Nat \ {0}
    /\ MaxSuffix \in Nat
    /\ MaxCrashes \in Nat

VARIABLES
    up, crashes,                    \* the process runs; crashes so far
    captured,   \* capturing dir: name -> the file it stands for
    out,        \* out_dir: name -> the file it stands for
    durable,    \* names in out_dir that survive a power failure
    content,    \* file -> how much of it is there
    stranded,   \* history: files whose removal nobody will try again
    hpc,        \* handler -> where it is in record_clip
    planned,    \* handler -> per planned segment, whether it has messages
    staged,     \* handler -> its staged clips, in segment order
    dropping,   \* handler -> staged names still to be removed by Drop
    trying,     \* handler -> suffix of its next link attempt
    published,  \* handler -> where its clips landed
    queue,      \* the staging channel
    reply,      \* handler -> the reply channel of its current job
    wpc, job, suffix    \* worker -> where it is, on what, at which attempt

dirVars == <<captured, out, durable, content, stranded>>
handlerVars == <<hpc, planned, staged, dropping, trying, published>>
poolVars == <<queue, reply, wpc, job, suffix>>
vars == <<up, crashes, dirVars, handlerVars, poolVars>>

(* A handler's k-th segment, or a clip of an earlier run.                  *)
File == Handlers \X (1..MaxSegments) \cup {"earlier"} \X Earlier
None == <<>>
(* seg 0 is the bare name; below ten segments "_NN" and "_n" never meet.   *)
Name == [base : Bases, seg : 0..MaxSegments, suffix : 0..MaxSuffix]
NoReply == [how |-> "none", at |-> 0]
Active == {"submit", "await", "trim", "dropEmpty", "dropFailed", "publish", "unlink",
           "syncdir", "announce"}

StagedName(h, n) == [base |-> BaseOf[h], seg |-> 0, suffix |-> n]
(* A window in one file keeps the bare name.                               *)
FinalName(h, k, n) ==
    [base |-> BaseOf[h], seg |-> IF Len(staged[h]) > 1 THEN k ELSE 0, suffix |-> n]

MutFree(dir, n) == TRUE                             \* rename would replace
Free(dir, n) == dir[n] = None
MutNextSuffix(n) == n                               \* tries the same again
NextSuffix(n) == n + 1
MutMoreNames(n) == n <= MaxSuffix                   \* one too many
MoreNames(n) == n < MaxSuffix

-----------------------------------------------------------------------------
Init ==
    /\ up = TRUE /\ crashes = 0
    /\ captured = [n \in Name |-> None]
    /\ out = [n \in Name |->
         IF n.base \in Earlier /\ n.seg = 0 /\ n.suffix = 0
         THEN <<"earlier", n.base>> ELSE None]
    /\ durable = {n \in Name : out[n] # None}
    /\ content = [f \in File |-> IF f[1] = "earlier" THEN "synced" ELSE "absent"]
    /\ stranded = {}
    /\ hpc = [h \in Handlers |-> "idle"]
    /\ planned = [h \in Handlers |-> << >>]
    /\ staged = [h \in Handlers |-> << >>]
    /\ dropping = [h \in Handlers |-> {}]
    /\ trying = [h \in Handlers |-> 0]
    /\ published = [h \in Handlers |-> << >>]
    /\ queue = << >>
    /\ reply = [h \in Handlers |-> NoReply]
    /\ wpc = [w \in Workers |-> "idle"]
    /\ job = [w \in Workers |-> None]
    /\ suffix = [w \in Workers |-> 0]

Goto(h, where) == hpc' = [hpc EXCEPT ![h] = where]
WorkerAt(w, where) == wpc' = [wpc EXCEPT ![w] = where]

(* remove_file on a staged name.  A failure is only logged.                *)
RemoveStaged(n) ==
    \/ captured' = [captured EXCEPT ![n] = None] /\ UNCHANGED stranded
    \/ UNCHANGED captured /\ stranded' = stranded \cup {captured[n]}

-----------------------------------------------------------------------------
(* A staging worker.                                                       *)

Take(w) ==
    /\ wpc[w] = "idle"
    /\ queue # << >>
    /\ job' = [job EXCEPT ![w] = Head(queue)]
    /\ queue' = Tail(queue)
    /\ WorkerAt(w, "create")
    /\ UNCHANGED <<up, crashes, dirVars, handlerVars, reply, suffix>>

JobName(w) == StagedName(job[w][1], suffix[w])
Reply(w, how) ==
    /\ reply' = [reply EXCEPT ![job[w][1]] = [how |-> how, at |-> suffix[w]]]
    /\ WorkerAt(w, "idle")
    /\ job' = [job EXCEPT ![w] = None]
    /\ suffix' = [suffix EXCEPT ![w] = 0]
    /\ UNCHANGED queue

(* create_new: only a name that is free, else the next suffix.             *)
Create(w) ==
    /\ wpc[w] = "create"
    /\ Free(captured, JobName(w))
    /\ captured' = [captured EXCEPT ![JobName(w)] = job[w]]
    /\ content' = [content EXCEPT ![job[w]] = "partial"]
    /\ WorkerAt(w, "copy")
    /\ UNCHANGED <<up, crashes, out, durable, stranded, handlerVars, queue, reply, job,
                   suffix>>

CreateTaken(w) ==
    /\ wpc[w] = "create"
    /\ ~Free(captured, JobName(w))
    /\ MoreNames(suffix[w])
    /\ suffix' = [suffix EXCEPT ![w] = NextSuffix(suffix[w])]
    /\ UNCHANGED <<up, crashes, dirVars, handlerVars, queue, reply, wpc, job>>

CreateExhausted(w) ==
    /\ wpc[w] = "create"
    /\ ~Free(captured, JobName(w)) /\ ~MoreNames(suffix[w])
    /\ Reply(w, "error")
    /\ UNCHANGED <<up, crashes, dirVars, handlerVars>>

(* Any other error.                                                        *)
CreateFails(w) ==
    /\ wpc[w] = "create"
    /\ Reply(w, "error")
    /\ UNCHANGED <<up, crashes, dirVars, handlerVars>>

(* copy_window: all extents, finish, flush...                              *)
Copy(w) ==
    /\ wpc[w] = "copy"
    /\ content' = [content EXCEPT ![job[w]] = "complete"]
    /\ WorkerAt(w, "sync")
    /\ UNCHANGED <<up, crashes, captured, out, durable, stranded, handlerVars, queue,
                   reply, job, suffix>>

MutSynced(c) == c                                   \* no sync_all
Synced(c) == "synced"

(* ...and sync_all.                                                        *)
Sync(w) ==
    /\ wpc[w] = "sync"
    /\ content' = [content EXCEPT ![job[w]] = Synced(content[job[w]])]
    /\ Reply(w, "staged")
    /\ UNCHANGED <<up, crashes, captured, out, durable, stranded, handlerVars>>

(* A failed copy removes its partial file, then reports.                   *)
CopyFails(w) ==
    /\ wpc[w] \in {"copy", "sync"}
    /\ RemoveStaged(JobName(w))
    /\ Reply(w, "error")
    /\ UNCHANGED <<up, crashes, out, durable, content, handlerVars>>

(* A panic is caught and reported; no one removes the file.                *)
StagePanics(w) ==
    /\ wpc[w] \in {"create", "copy", "sync"}
    /\ stranded' = IF wpc[w] = "create" THEN stranded ELSE stranded \cup {job[w]}
    /\ Reply(w, "error")
    /\ UNCHANGED <<up, crashes, captured, out, durable, content, handlerVars>>

-----------------------------------------------------------------------------
(* A handler.                                                              *)

(* No plan at all stages one empty segment.                                *)
Begin(h) ==
    /\ up /\ hpc[h] = "idle"
    /\ \E n \in 1..MaxSegments : \E hasData \in [1..n -> BOOLEAN] :
         planned' = [planned EXCEPT ![h] = hasData]
    /\ Goto(h, "submit")
    /\ UNCHANGED <<up, crashes, dirVars, staged, dropping, trying, published, poolVars>>

Submit(h) ==
    /\ hpc[h] = "submit"
    /\ queue' = Append(queue, <<h, Len(staged[h]) + 1>>)
    /\ Goto(h, "await")
    /\ UNCHANGED <<up, crashes, dirVars, planned, staged, dropping, trying, published,
                   reply, wpc, job, suffix>>

Receive(h) ==
    /\ hpc[h] = "await"
    /\ reply[h].how = "staged"
    /\ LET k == Len(staged[h]) + 1 IN
         /\ staged' = [staged EXCEPT ![h] =
              Append(@, [name |-> StagedName(h, reply[h].at), empty |-> ~planned[h][k]])]
         /\ Goto(h, IF k = Len(planned[h]) THEN "trim" ELSE "submit")
    /\ reply' = [reply EXCEPT ![h] = NoReply]
    /\ UNCHANGED <<up, crashes, dirVars, planned, dropping, trying, published, queue,
                   wpc, job, suffix>>

MutNamesFrom(h, k) == {}                         \* nothing cleans up
NamesFrom(h, k) == {staged[h][i].name : i \in k..Len(staged[h])}

(* A segment failed: the clips staged so far are dropped.                  *)
ReceiveError(h) ==
    /\ hpc[h] = "await"
    /\ reply[h].how = "error"
    /\ dropping' = [dropping EXCEPT ![h] = NamesFrom(h, 1)]
    /\ Goto(h, "dropFailed")
    /\ reply' = [reply EXCEPT ![h] = NoReply]
    /\ UNCHANGED <<up, crashes, dirVars, planned, staged, trying, published, queue, wpc,
                   job, suffix>>

Full(clips) == {i \in DOMAIN clips : ~clips[i].empty}
MutKept(clips) == <<clips[1]>>                           \* the first will do
(* Empty segments go when others have data; one segment always stays.      *)
Kept(clips) == IF Full(clips) = {} THEN <<clips[1]>> ELSE Retain(clips, Full(clips))

Trim(h) ==
    /\ hpc[h] = "trim"
    /\ LET kept == Kept(staged[h]) IN
         /\ staged' = [staged EXCEPT ![h] = kept]
         /\ dropping' = [dropping EXCEPT ![h] =
              NamesFrom(h, 1) \ {kept[i].name : i \in DOMAIN kept}]
    /\ Goto(h, "dropEmpty")
    /\ UNCHANGED <<up, crashes, dirVars, planned, trying, published, poolVars>>

(* Drop of an unpublished StagedClip.                                      *)
DropStaged(h) ==
    /\ hpc[h] \in {"dropEmpty", "dropFailed"}
    /\ \E n \in dropping[h] :
         /\ RemoveStaged(n)
         /\ dropping' = [dropping EXCEPT ![h] = @ \ {n}]
    /\ UNCHANGED <<up, crashes, out, durable, content, hpc, planned, staged, trying,
                   published, poolVars>>

Dropped(h) ==
    /\ hpc[h] = "dropEmpty"
    /\ dropping[h] = {}
    /\ Goto(h, "publish")
    /\ UNCHANGED <<up, crashes, dirVars, planned, staged, dropping, trying, published,
                   poolVars>>

(* The thread ends with an error, and its locals with it.                  *)
Fail(h) ==
    /\ hpc[h] = "dropFailed"
    /\ dropping[h] = {}
    /\ Goto(h, "failed")
    /\ planned' = [planned EXCEPT ![h] = << >>]
    /\ staged' = [staged EXCEPT ![h] = << >>]
    /\ trying' = [trying EXCEPT ![h] = 0]
    /\ published' = [published EXCEPT ![h] = << >>]
    /\ UNCHANGED <<up, crashes, dirVars, dropping, poolVars>>

At(h) == Len(published[h]) + 1                  \* the segment being published
Target(h) == FinalName(h, At(h), trying[h])

(* hard_link: whatever the staged name stands for, under a free name.      *)
Link(h) ==
    /\ hpc[h] = "publish"
    /\ Free(out, Target(h))
    /\ captured[staged[h][At(h)].name] # None
    /\ out' = [out EXCEPT ![Target(h)] = captured[staged[h][At(h)].name]]
    /\ published' = [published EXCEPT ![h] = Append(@, Target(h))]
    /\ trying' = [trying EXCEPT ![h] = 0]
    /\ Goto(h, "unlink")
    /\ UNCHANGED <<up, crashes, captured, durable, content, stranded, planned, staged,
                   dropping, poolVars>>

LinkTaken(h) ==
    /\ hpc[h] = "publish"
    /\ ~Free(out, Target(h))
    /\ MoreNames(trying[h])
    /\ trying' = [trying EXCEPT ![h] = NextSuffix(@)]
    /\ UNCHANGED <<up, crashes, dirVars, hpc, planned, staged, dropping, published,
                   poolVars>>

(* This clip and those after it are dropped; those before it are out.      *)
DropRest(h) ==
    /\ dropping' = [dropping EXCEPT ![h] = NamesFrom(h, At(h))]
    /\ Goto(h, "dropFailed")
    /\ UNCHANGED <<up, crashes, dirVars, planned, staged, trying, published, poolVars>>

LinkExhausted(h) ==
    /\ hpc[h] = "publish"
    /\ ~Free(out, Target(h)) /\ ~MoreNames(trying[h])
    /\ DropRest(h)

(* Any other error.                                                        *)
LinkFails(h) == hpc[h] = "publish" /\ DropRest(h)

Unlink(h) ==
    /\ hpc[h] = "unlink"
    /\ RemoveStaged(staged[h][Len(published[h])].name)
    /\ Goto(h, "syncdir")
    /\ UNCHANGED <<up, crashes, out, durable, content, planned, staged, dropping, trying,
                   published, poolVars>>

InOut == {n \in Name : out[n] # None}
MutDirSynced == durable                             \* only the file was synced
DirSynced == InOut

SyncDir(h) ==
    /\ hpc[h] = "syncdir"
    /\ durable' = DirSynced
    /\ Goto(h, IF Len(published[h]) = Len(staged[h]) THEN "announce" ELSE "publish")
    /\ UNCHANGED <<up, crashes, captured, out, content, stranded, planned, staged,
                   dropping, trying, published, poolVars>>

SyncDirFails(h) == hpc[h] = "syncdir" /\ DropRest(h)

(* One completion names every segment.                                     *)
Announce(h) ==
    /\ hpc[h] = "announce"
    /\ Goto(h, "done")
    /\ UNCHANGED <<up, crashes, dirVars, planned, staged, dropping, trying, published,
                   poolVars>>

-----------------------------------------------------------------------------
Survivors(local) ==
    [h \in Handlers |-> IF hpc[h] \in Active THEN << >> ELSE local[h]]

(* The process dies (a supervisor's restart, a signal, a power failure).   *)
(* A power failure may lose the names that were not synced into out_dir    *)
(* and tear the files that were not synced.                                *)
Crash ==
    /\ up
    /\ crashes < MaxCrashes
    /\ up' = FALSE
    /\ crashes' = crashes + 1
    /\ \E lost \in SUBSET (InOut \ durable) :
         out' = [n \in Name |-> IF n \in lost THEN None ELSE out[n]]
    /\ \E torn \in SUBSET {f \in File : content[f] = "complete"} :
         content' = [f \in File |-> IF f \in torn THEN "partial" ELSE content[f]]
    /\ hpc' = [h \in Handlers |-> IF hpc[h] \in Active THEN "killed" ELSE hpc[h]]
    /\ planned' = Survivors(planned)
    /\ staged' = Survivors(staged)
    /\ published' = Survivors(published)
    /\ trying' = [h \in Handlers |-> 0]
    /\ dropping' = [h \in Handlers |-> {}]
    /\ queue' = << >>
    /\ reply' = [h \in Handlers |-> NoReply]
    /\ wpc' = [w \in Workers |-> "idle"]
    /\ job' = [w \in Workers |-> None]
    /\ suffix' = [w \in Workers |-> 0]
    /\ UNCHANGED <<captured, durable, stranded>>

(* reset_capturing_dir, before anything else of the next run.              *)
Restart ==
    /\ ~up
    /\ up' = TRUE
    /\ captured' = [n \in Name |-> None]
    /\ stranded' = {}
    /\ UNCHANGED <<crashes, out, durable, content, handlerVars, poolVars>>

WorkerStep(w) ==
    \/ Take(w) \/ Create(w) \/ CreateTaken(w) \/ CreateExhausted(w) \/ Copy(w) \/ Sync(w)

WorkerFault(w) == CreateFails(w) \/ CopyFails(w) \/ StagePanics(w)

HandlerStep(h) ==
    \/ Submit(h) \/ Receive(h) \/ ReceiveError(h) \/ Trim(h) \/ DropStaged(h)
    \/ Dropped(h) \/ Fail(h) \/ Link(h) \/ LinkTaken(h) \/ LinkExhausted(h) \/ Unlink(h)
    \/ SyncDir(h) \/ Announce(h)

HandlerFault(h) == LinkFails(h) \/ SyncDirFails(h)

Next ==
    \/ \E w \in Workers : WorkerStep(w) \/ WorkerFault(w)
    \/ \E h \in Handlers : Begin(h) \/ HandlerStep(h) \/ HandlerFault(h)
    \/ Crash
    \/ Restart

Spec == Init /\ [][Next]_vars

(* Threads are scheduled.  Triggers need not come, and nothing need fail.  *)
FairSpec ==
    /\ Spec
    /\ \A w \in Workers : WF_vars(WorkerStep(w))
    /\ \A h \in Handlers : WF_vars(HandlerStep(h))

-----------------------------------------------------------------------------
(* Correctness.                                                            *)

TypeOK ==
    /\ up \in BOOLEAN /\ crashes \in 0..MaxCrashes
    /\ captured \in [Name -> File \cup {None}]
    /\ out \in [Name -> File \cup {None}]
    /\ durable \subseteq Name
    /\ content \in [File -> {"absent", "partial", "complete", "synced"}]
    /\ stranded \subseteq File
    /\ hpc \in [Handlers -> Active \cup {"idle", "done", "failed", "killed"}]
    /\ planned \in [Handlers -> Seq(BOOLEAN)]
    /\ staged \in [Handlers -> Seq([name : Name, empty : BOOLEAN])]
    /\ dropping \in [Handlers -> SUBSET Name]
    /\ trying \in [Handlers -> 0..MaxSuffix]
    /\ published \in [Handlers -> Seq(Name)]
    /\ queue \in Seq(File)
    /\ reply \in [Handlers -> [how : {"none", "staged", "error"}, at : 0..MaxSuffix]]
    /\ wpc \in [Workers -> {"idle", "create", "copy", "sync"}]
    /\ job \in [Workers -> File \cup {None}]
    /\ suffix \in [Workers -> 0..MaxSuffix]
    /\ \A h \in Handlers : Len(published[h]) <= Len(staged[h])

(* The segments of a handler's window that must reach out_dir, in order.   *)
Owed(h) ==
    LET data == {k \in DOMAIN planned[h] : planned[h][k]} IN
    IF data = {} THEN {1} ELSE data

(* What a completion announces is on disk for good: each announced name is *)
(* a synced file under a synced name, the announcing handler's own clip,   *)
(* and between them they are every segment with data, in segment order.    *)
(* Concurrent duplicates of the trigger and crashes included.              *)
AnnouncedIsDurable ==
    \A h \in Handlers : hpc[h] = "done" =>
        /\ Len(published[h]) = Cardinality(Owed(h))
        /\ \A i \in DOMAIN published[h] :
             /\ published[h][i] \in durable
             /\ content[out[published[h][i]]] = "synced"
             /\ \E k \in Owed(h) :
                  /\ out[published[h][i]] = <<h, k>>
                  /\ Cardinality({l \in Owed(h) : l <= k}) = i

(* out_dir only ever holds complete clips, after a power failure too.      *)
OutIsComplete == \A n \in InOut : content[out[n]] = "synced"

(* The capturing directory holds no clip of a handler that is through with *)
(* it, but for files a panic or a failed removal stranded, and those until *)
(* the next restart only.                                                  *)
CapturingIsReclaimed ==
    up => \A n \in Name : captured[n] # None /\ captured[n] \notin stranded =>
            hpc[captured[n][1]] \in Active

(* A crash apart, a name in out_dir keeps its file: publication never      *)
(* replaces a clip.                                                        *)
NeverReplaced ==
    [][up' => \A n \in InOut : out'[n] = out[n]]_vars

(* The promise to consumers, with a file that is not a complete synced clip *)
(* standing for none of the clips the store may hold.                      *)
StoredAs(f) == IF f = None \/ content[f] = "synced" THEN f ELSE <<"torn", f>>
Store == INSTANCE ClipStore WITH
    Names <- Name, Clips <- File, Nothing <- None,
    store <- [n \in Name |-> StoredAs(out[n])],
    fixed <- durable,
    announced <- [h \in Handlers |->
        IF hpc[h] = "done" THEN {published[h][i] : i \in DOMAIN published[h]} ELSE {}]

(* Publication implements the store.                                       *)
StoreImplemented == Store!StoreSpec

(* Every handler comes to an end, over and over: no wait on the pool, no   *)
(* search for a name goes on for ever.                                     *)
HandlerEnds == \A h \in Handlers : []<>(hpc[h] \notin Active)
=============================================================================
