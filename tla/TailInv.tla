------------------------------ MODULE TailInv -------------------------------
(***************************************************************************)
(* The inductive invariant behind the theorems about Tail.                 *)
(*                                                                         *)
(* CoverageSound is not inductive.  It rests on the recorder writing       *)
(* stamps in order over all its files (StampsSorted), on the tail reading  *)
(* the files in that order (OldestFirst, EntriesInTurn, UnseenIsNewer), on *)
(* leaving none before its end (EndedIsDrained), which in turn rests on    *)
(* what the poll in flight measured (PassInv), and on the mark being a     *)
(* stamp that was read (MarkIsRead).  A file that a listing overlooked is  *)
(* excepted from the order, and a recording indexed before it from what    *)
(* the order is used for.                                                  *)
(***************************************************************************)
EXTENDS Tail

(* The stamps of all records, by file and offset, never fall.              *)
StampsSorted ==
    /\ lastLog <= clock
    /\ \A f \in Files : \A k \in 1..Len(recs[f]) : recs[f][k].log <= lastLog
    /\ \A f, g \in Files : \A k \in 1..Len(recs[f]), l \in 1..Len(recs[g]) :
         (f < g \/ (f = g /\ k <= l)) => recs[f][k].log <= recs[g][l].log

(* Only the newest file is ever written, and none after its footer.        *)
OneWriter ==
    /\ writer # NoFile => writer = created
    /\ \A f \in Files :
         /\ footer[f] => f # writer
         /\ f <= created => name[f] \in Paths
         /\ f > created => recs[f] = << >> /\ ~footer[f]

DiskInv == StampsSorted /\ OneWriter

IndexWellFormed ==
    \A id \in 1..indexed :
        /\ rec[id].file \in 1..created
        /\ rec[id].offset <= Len(recs[rec[id].file])

DroppedAreEnded == \A id \in (1..indexed) \ held : rec[id].state = "Ended"

(* Recordings are indexed in the order of their files, each file once, but *)
(* for those a listing overlooked.                                         *)
EntriesInTurn ==
    \A i, j \in 1..indexed : i < j =>
        rec[i].file < rec[j].file \/ rec[j].file \in overlooked

(* What discovery has not seen yet is newer than all that is indexed.      *)
UnseenIsNewer ==
    /\ pc \in {"start", "seed"} => coverage.log = 0 /\ indexed <= 1
    /\ pc = "start" => indexed = 0
    /\ pc \notin {"start", "seed"} =>
         \A f \in Present \ (seen \cup overlooked) : \A id \in 1..indexed : rec[id].file < f

(* A poll in flight is about the current recording; what it measured is    *)
(* the end of the file if the file has its footer or a successor.          *)
PassInv ==
    LET r == rec[current]  end == Len(recs[r.file]) IN
    /\ pc \in {"poll", "short", "scan", "publish", "decide"} => current # NoId
    /\ pc = "scan" =>
         /\ r.state = "Tailing"
         /\ r.offset <= pass.len /\ pass.len <= end
         /\ pass.footer => footer[r.file] /\ pass.len = end
         /\ HasSuccessor(current) /\ InTurn(current) => pass.len = end
    /\ pc \in {"publish", "decide"} =>
         /\ r.state = "Tailing"
         /\ pass.how = "footer" => footer[r.file] /\ r.offset = end
         /\ pass.how = "clean" /\ HasSuccessor(current) /\ InTurn(current) => r.offset = end

MarkIsRead ==
    coverage.log > 0 =>
        \E id \in 1..indexed : \E k \in 1..rec[id].offset :
            recs[rec[id].file][k].log = coverage.log

TailInvariant ==
    /\ IndexWellFormed
    /\ EntriesInTurn
    /\ DroppedAreEnded
    /\ OldestFirst
    /\ UnseenIsNewer
    /\ PassInv
    /\ EndedIsDrained
    /\ PrunedIsAged
    /\ MarkIsRead

IInv == TypeOK /\ DiskInv /\ TailInvariant

(* Where names are not used again, one name stands for one file, and what  *)
(* is to be unlinked is out of the index: it has ended.                    *)
NamesAreFiles ==
    /\ \A f \in 1..created : name[f] = f
    /\ \A p \in Paths : dir[p] \in {NoFile, p}
LiveInv ==
    /\ NamesAreFiles
    /\ unlinking \subseteq (1..indexed) \ held
    /\ LiveFileLinked
=============================================================================
