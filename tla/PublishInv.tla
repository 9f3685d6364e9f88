----------------------------- MODULE PublishInv -----------------------------
(***************************************************************************)
(* The inductive invariant behind the theorems about Publish.              *)
(*                                                                         *)
(* Files are reached by name, and names are used again.  What makes it     *)
(* safe is ownership: a segment is with one party at a time (OneAtATime),  *)
(* and whoever has still to publish or remove a name finds its own file    *)
(* under it, synced if it was staged (WorkerOwns, ReplyOwns, StagedOwns,   *)
(* DroppingOwns).                                                          *)
(***************************************************************************)
EXTENDS Publish

Staging == {"submit", "await", "trim"}
Publishing == {"dropEmpty", "publish", "unlink", "syncdir", "announce"}

(* The segment a handler has submitted, or submits next.                   *)
Current(h) == <<h, Len(staged[h]) + 1>>
Waits(h) == hpc[h] = "await" /\ reply[h].how = "none"

(* How far a handler is.                                                   *)
ProgressOf(h) ==
    /\ hpc[h] \in Staging \cup Publishing \cup {"done"} =>
         Len(planned[h]) \in 1..MaxSegments
    /\ hpc[h] \in {"idle"} \cup Staging =>
         published[h] = << >> /\ trying[h] = 0
    /\ hpc[h] \in {"submit", "await"} => Len(staged[h]) < Len(planned[h])
    /\ hpc[h] = "trim" => Len(staged[h]) = Len(planned[h])
    /\ hpc[h] \in Staging => \A i \in DOMAIN staged[h] : staged[h][i].empty = ~planned[h][i]
    /\ hpc[h] = "dropEmpty" => published[h] = << >>
    /\ hpc[h] \in Publishing \cup {"done"} => Len(staged[h]) = Cardinality(Owed(h))
    /\ hpc[h] = "publish" => Len(published[h]) < Len(staged[h])
    /\ hpc[h] \in {"unlink", "syncdir"} => Len(published[h]) > 0
    /\ hpc[h] \in {"announce", "done"} => Len(published[h]) = Len(staged[h])
    /\ hpc[h] = "idle" => staged[h] = << >>
    /\ hpc[h] \notin {"dropEmpty", "dropFailed"} => dropping[h] = {}

Progress == \A h \in Handlers : ProgressOf(h)

Busy(w) == wpc[w] # "idle"

(* A submitted segment is in the queue once, with one worker, or answered. *)
OneAtATime ==
    /\ \A i \in DOMAIN queue :
         \E h \in Handlers : Waits(h) /\ queue[i] = Current(h)
    /\ \A i, j \in DOMAIN queue : queue[i] = queue[j] => i = j
    /\ \A w \in Workers : Busy(w) =>
         /\ \E h \in Handlers : Waits(h) /\ job[w] = Current(h)
         /\ \A i \in DOMAIN queue : queue[i] # job[w]
    /\ \A v, w \in Workers : Busy(v) /\ Busy(w) /\ job[v] = job[w] => v = w
    /\ \A h \in Handlers : reply[h].how # "none" => hpc[h] = "await"

(* Segments not yet staged are not there at all.                           *)
Fresh ==
    /\ \A h \in Handlers : \A k \in 1..MaxSegments :
         /\ hpc[h] = "idle" => content[<<h, k>>] = "absent"
         /\ hpc[h] = "submit" /\ k > Len(staged[h]) => content[<<h, k>>] = "absent"
         /\ hpc[h] = "await" /\ k > Len(staged[h]) + 1 => content[<<h, k>>] = "absent"
    /\ \A i \in DOMAIN queue : content[queue[i]] = "absent"
    /\ \A w \in Workers : wpc[w] = "create" => content[job[w]] = "absent"

WorkerOwns ==
    \A w \in Workers : wpc[w] \in {"copy", "sync"} =>
        captured[JobName(w)] = job[w] /\ content[job[w]] # "synced"

OwnsSynced(name, f) == captured[name] = f /\ content[f] = "synced"

ReplyOwns ==
    \A h \in Handlers : reply[h].how = "staged" =>
        OwnsSynced(StagedName(h, reply[h].at), Current(h))

(* The segment that the i-th clip of h stands for.                         *)
SegmentOf(h, i) == IF hpc[h] \in Staging THEN i ELSE Nth(Owed(h), i)
(* The first clip of h whose staged name is yet to be removed.             *)
FirstLeft(h) == IF hpc[h] = "unlink" THEN Len(published[h]) ELSE Len(published[h]) + 1

StagedOwns ==
    \A h \in Handlers : hpc[h] \in Staging \cup Publishing =>
        \A i \in FirstLeft(h)..Len(staged[h]) :
            OwnsSynced(staged[h][i].name, <<h, SegmentOf(h, i)>>)

DroppingOwns ==
    \A h \in Handlers : \A n \in dropping[h] :
        /\ \E k \in 1..MaxSegments : captured[n] = <<h, k>>
        /\ hpc[h] = "dropEmpty" => \A i \in DOMAIN staged[h] : staged[h][i].name # n

(* Whoever is to remove the name n of the capturing directory.             *)
Reclaims(h, n) ==
    \/ \E w \in Workers : wpc[w] \in {"copy", "sync"} /\ job[w][1] = h /\ JobName(w) = n
    \/ reply[h].how = "staged" /\ StagedName(h, reply[h].at) = n
    \/ /\ hpc[h] \in Staging \cup Publishing
       /\ \E i \in FirstLeft(h)..Len(staged[h]) : staged[h][i].name = n
    \/ n \in dropping[h]

Reclaimed ==
    up => \A n \in Name : captured[n] # None /\ captured[n] \notin stranded =>
            \E h \in Handlers : captured[n][1] = h /\ Reclaims(h, n)

PublishedIsOut ==
    \A h \in Handlers : hpc[h] \in Publishing \cup {"done"} =>
        \A i \in DOMAIN published[h] : out[published[h][i]] = <<h, Nth(Owed(h), i)>>

Durability ==
    /\ durable \subseteq InOut
    /\ \A h \in Handlers : hpc[h] \in {"announce", "done"} =>
         \A i \in DOMAIN published[h] : published[h][i] \in durable

Down ==
    ~up => /\ \A h \in Handlers : hpc[h] \notin Active
           /\ \A w \in Workers : ~Busy(w)
           /\ queue = << >>

PublishInvariant ==
    /\ TypeOK
    /\ Progress
    /\ OneAtATime
    /\ Fresh
    /\ WorkerOwns
    /\ ReplyOwns
    /\ StagedOwns
    /\ DroppingOwns
    /\ Reclaimed
    /\ OutIsComplete
    /\ PublishedIsOut
    /\ Durability
    /\ Down
=============================================================================
