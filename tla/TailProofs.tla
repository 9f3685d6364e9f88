----------------------------- MODULE TailProofs -----------------------------
(***************************************************************************)
(* Theorems about Tail, for every value of its constants.                  *)
(***************************************************************************)
EXTENDS TailInv, FiniteSetTheorems, TLAPS

-----------------------------------------------------------------------------
(* What any step on the disk preserves, seen by a tail that did not move:  *)
(* files only grow, names only disappear, and a file without a writer      *)
(* stays as it is.                                                         *)
DiskStep ==
    /\ created <= created'
    /\ clock <= clock'
    /\ \A f \in 1..created : Linked(f)' => Linked(f)
    /\ \A f \in Files :
         /\ Len(recs[f]) <= Len(recs'[f])
         /\ \A k \in 1..Len(recs[f]) : recs'[f][k] = recs[f][k]
         /\ footer[f] => footer'[f]
    /\ \A f \in 1..created : f # writer => recs'[f] = recs[f] /\ writer' # f

(* Every step of the recorder, the clock and the pruner is such a step.    *)
LEMMA RecorderStepsDisk ==
    ASSUME DiskTypeOK, DiskInv, RecorderNext
    PROVE  DiskTypeOK' /\ DiskInv' /\ DiskStep
<1> USE RecorderAssumption DEF Files, NoFile, NoName
<1>1. CASE Tick
  <2> USE <1>1 DEF Tick
  <2>1. DiskTypeOK'  BY DEF DiskTypeOK, Time
  <2>2. DiskInv'     BY DEF DiskInv, StampsSorted, OneWriter, DiskTypeOK, Time
  <2>3. DiskStep     BY DEF DiskStep, Linked, DiskTypeOK, Time, OneWriter, DiskInv
  <2> QED BY <2>1, <2>2, <2>3
<1>2. ASSUME NEW p \in Paths, OpenFile(p) PROVE DiskTypeOK' /\ DiskInv' /\ DiskStep
  <2> USE <1>2 DEF OpenFile
  <2>1. DiskTypeOK'  BY DEF DiskTypeOK
  <2>a. /\ created \in 0..MaxFiles /\ created' = created + 1 /\ created' \in Files
        /\ writer = 0 /\ writer' = created'
        /\ name'[created'] = p /\ dir'[p] = created'
        /\ \A f \in Files : f <= created => f # created' /\ name'[f] = name[f]
        /\ \A q \in Paths : q # p => dir'[q] = dir[q]
    BY DEF DiskTypeOK
  <2>2. DiskInv'
    <3>1. StampsSorted'  BY DEF DiskInv, StampsSorted
    <3>2. OneWriter'     BY <2>a DEF DiskInv, OneWriter
    <3> QED BY <3>1, <3>2 DEF DiskInv
  <2>3. DiskStep
    <3>1. ASSUME NEW f \in 1..created, Linked(f)' PROVE Linked(f)
      <4>1. f \in Files /\ name'[f] = name[f] /\ name[f] \in Paths /\ f # created'
        BY <2>a DEF DiskInv, OneWriter
      <4>2. dir'[name[f]] = f  BY <3>1, <4>1 DEF Linked
      <4> QED BY <4>1, <4>2, <2>a DEF Linked
    <3>2. \A f \in Files : Len(recs[f]) <= Len(recs[f])  BY DEF DiskTypeOK
    <3>3. clock \in Nat  BY DEF DiskTypeOK, Time
    <3> QED BY <2>a, <3>1, <3>2, <3>3 DEF DiskStep
  <2> QED BY <2>1, <2>2, <2>3
<1>3. CASE WriteMagic
  <2> USE <1>3 DEF WriteMagic
  <2>1. DiskTypeOK'  BY DEF DiskTypeOK
  <2>2. DiskInv'     BY DEF DiskInv, StampsSorted, OneWriter, DiskTypeOK
  <2>3. DiskStep     BY DEF DiskStep, Linked, DiskTypeOK, Time, OneWriter, DiskInv
  <2> QED BY <2>1, <2>2, <2>3
<1>4. ASSUME NEW t \in lastLog..clock, NEW p \in PublishTimes, AppendRecord(t, p)
      PROVE  DiskTypeOK' /\ DiskInv' /\ DiskStep
  <2> DEFINE m == [log |-> t, pub |-> p]
  <2> USE <1>4 DEF AppendRecord
  <2>1. t \in Time /\ m \in Message /\ writer \in Files
    BY DEF DiskTypeOK, Time, Message
  <2>2. recs'[writer] = Append(recs[writer], m) /\ \A f \in Files \ {writer} : recs'[f] = recs[f]
    BY <2>1 DEF DiskTypeOK
  <2>3. recs[writer] \in Seq(Message) /\ recs'[writer] \in Seq(Message)
    BY <2>1, <2>2 DEF DiskTypeOK
  <2>4. /\ Len(recs'[writer]) = Len(recs[writer]) + 1
        /\ \A k \in 1..Len(recs[writer]) : recs'[writer][k] = recs[writer][k]
        /\ recs'[writer][Len(recs[writer]) + 1] = m
    BY <2>1, <2>2, <2>3
  <2>5. DiskTypeOK'  BY <2>1, <2>2, <2>3 DEF DiskTypeOK
  <2>6. StampsSorted'
    <3>1. ASSUME NEW f \in Files, NEW k \in 1..Len(recs'[f])
          PROVE  \/ f = writer /\ k = Len(recs[f]) + 1 /\ recs'[f][k].log = t
                 \/ k \in 1..Len(recs[f]) /\ recs'[f][k].log = recs[f][k].log
      <4>1. CASE f = writer  BY <4>1, <2>4, <2>3, <2>1
      <4>2. CASE f # writer  BY <4>2, <2>2
      <4> QED BY <4>1, <4>2
    <3>2. ASSUME NEW f \in Files, NEW k \in 1..Len(recs'[f]) PROVE recs'[f][k].log <= t
      <4>1. lastLog \in Nat /\ t \in Nat /\ lastLog <= t  BY DEF DiskTypeOK, Time
      <4>2. CASE recs'[f][k].log = t  BY <4>1, <4>2
      <4>3. CASE k \in 1..Len(recs[f]) /\ recs'[f][k].log = recs[f][k].log
        <5>1. recs[f][k].log <= lastLog  BY <4>3 DEF DiskInv, StampsSorted
        <5>2. recs[f] \in Seq(Message)  BY DEF DiskTypeOK
        <5>3. recs[f][k] \in Message  BY <4>3, <5>2
        <5>4. recs[f][k].log \in Nat  BY <5>3 DEF Message
        <5> QED BY <5>1, <5>4, <4>1, <4>3
      <4> QED BY <4>2, <4>3, <3>1
    <3>3. ASSUME NEW f \in Files, NEW g \in Files, NEW k \in 1..Len(recs'[f]),
                 NEW l \in 1..Len(recs'[g]), f < g \/ (f = g /\ k <= l)
          PROVE  recs'[f][k].log <= recs'[g][l].log
      <4>1. CASE recs'[g][l].log = t  BY <4>1, <3>2
      <4>2. CASE l \in 1..Len(recs[g]) /\ recs'[g][l].log = recs[g][l].log /\ ~(g = writer /\ l = Len(recs[g]) + 1)
        <5>1. k \in 1..Len(recs[f]) /\ recs'[f][k].log = recs[f][k].log
          <6>1. CASE f = writer /\ k = Len(recs[f]) + 1
            <7>1. f = created  BY <6>1 DEF DiskInv, OneWriter
            <7>2. Len(recs[g]) \in Nat /\ Len(recs[f]) \in Nat BY DEF DiskTypeOK
            <7>3. ~(f = g)
              <8> SUFFICES ASSUME f = g PROVE FALSE  OBVIOUS
              <8>1. k <= l  BY <3>3
              <8>2. l \in 1..Len(recs[f])  BY <4>2
              <8> QED BY <8>1, <8>2, <6>1, <7>2
            <7>4. g > created BY <7>1, <7>3, <3>3
            <7>5. recs[g] = << >>  BY <7>4 DEF DiskInv, OneWriter
            <7> QED BY <7>5, <4>2
          <6> QED BY <6>1, <3>1
        <5> QED BY <5>1, <4>2, <3>3 DEF DiskInv, StampsSorted
      <4>3. CASE g = writer /\ l = Len(recs[g]) + 1
        BY <4>1, <4>3, <2>4
      <4> QED BY <4>1, <4>2, <4>3, <3>1
    <3>4. lastLog' <= clock'  BY DEF DiskTypeOK, Time
    <3>5. \A f \in Files : \A k \in 1..Len(recs'[f]) : recs'[f][k].log <= lastLog'
      BY <3>2
    <3> QED BY <3>3, <3>4, <3>5 DEF StampsSorted
  <2>7. OneWriter'
    <3>1. created < writer => FALSE  BY DEF DiskTypeOK
    <3> QED BY <2>1, <2>2, <3>1 DEF OneWriter, DiskInv, DiskTypeOK
  <2>8. DiskStep
    BY <2>1, <2>2, <2>3, <2>4 DEF DiskStep, Linked, DiskTypeOK, Time
  <2> QED BY <2>5, <2>6, <2>7, <2>8 DEF DiskInv
<1>5. CASE CloseFile
  <2> USE <1>5 DEF CloseFile
  <2>1. DiskTypeOK'  BY DEF DiskTypeOK
  <2>2. DiskInv'
    <3>1. StampsSorted'  BY DEF DiskInv, StampsSorted
    <3>2. writer = created /\ writer' = 0 /\ writer \in Files
      BY DEF DiskInv, OneWriter, DiskTypeOK
    <3>3. \A f \in Files : f # writer => footer'[f] = footer[f]
      BY DEF DiskTypeOK
    <3>4. created \in Nat /\ \A f \in Files : f \in Nat /\ f # 0
      BY DEF DiskTypeOK
    <3>5. OneWriter'  BY <3>2, <3>3, <3>4 DEF DiskInv, OneWriter
    <3> QED BY <3>1, <3>5 DEF DiskInv
  <2>3. DiskStep     BY DEF DiskStep, Linked, DiskTypeOK, Time, OneWriter, DiskInv
  <2> QED BY <2>1, <2>2, <2>3
<1>6. CASE AbandonFile
  <2> USE <1>6 DEF AbandonFile
  <2>1. DiskTypeOK'  BY DEF DiskTypeOK
  <2>2. DiskInv'     BY SMTT(20) DEF DiskInv, StampsSorted, OneWriter, DiskTypeOK
  <2>3. DiskStep     BY DEF DiskStep, Linked, DiskTypeOK, Time, OneWriter, DiskInv
  <2> QED BY <2>1, <2>2, <2>3
<1>7. ASSUME NEW p \in Paths, RemoveFile(p) PROVE DiskTypeOK' /\ DiskInv' /\ DiskStep
  <2> USE <1>7 DEF RemoveFile
  <2>1. DiskTypeOK'  BY DEF DiskTypeOK
  <2>2. DiskInv'     BY DEF DiskInv, StampsSorted, OneWriter, DiskTypeOK
  <2>3. DiskStep     BY DEF DiskStep, Linked, DiskTypeOK, Time, OneWriter, DiskInv
  <2> QED BY <2>1, <2>2, <2>3
<1> QED BY <1>1, <1>2, <1>3, <1>4, <1>5, <1>6, <1>7 DEF RecorderNext

-----------------------------------------------------------------------------
(* Type facts used over and over.                                          *)
LEMMA TypeFacts ==
    ASSUME TypeOK, IndexWellFormed
    PROVE  /\ created \in Nat /\ indexed \in Nat /\ clock \in Nat /\ writer \in Nat
           /\ \A id \in 1..indexed :
                /\ rec[id] \in Recording
                /\ rec[id].file \in Files /\ rec[id].file \in 1..created
                /\ rec[id].offset \in Nat
           /\ \A f \in Files : recs[f] \in Seq(Message) /\ Len(recs[f]) \in Nat
           /\ \A f \in Files : \A k \in 1..Len(recs[f]) : recs[f][k].log \in Nat
<1> USE RecorderAssumption
<1>1. created \in Nat /\ indexed \in Nat /\ clock \in Nat /\ writer \in Nat
      /\ created <= MaxFiles
  BY DEF TypeOK, DiskTypeOK, Time
<1>2. ASSUME NEW id \in 1..indexed
      PROVE  /\ rec[id] \in Recording
             /\ rec[id].file \in Files /\ rec[id].file \in 1..created
             /\ rec[id].offset \in Nat
  <2>2. rec[id] \in Recording  BY DEF TypeOK
  <2>3. rec[id].file \in 1..created  BY DEF IndexWellFormed
  <2>4. rec[id].file \in Files  BY <2>3, <1>1 DEF Files
  <2>5. rec[id].offset \in Nat  BY <2>2 DEF Recording
  <2> QED BY <2>2, <2>3, <2>4, <2>5
<1>3. ASSUME NEW f \in Files PROVE recs[f] \in Seq(Message) /\ Len(recs[f]) \in Nat
  BY DEF TypeOK, DiskTypeOK
<1>4. ASSUME NEW f \in Files, NEW k \in 1..Len(recs[f]) PROVE recs[f][k].log \in Nat
  <2>1. recs[f][k] \in Message  BY <1>3
  <2> QED BY <2>1 DEF Message
<1> QED BY <1>1, <1>2, <1>3, <1>4

(* A file with a successor in the index, or with its footer, has no writer. *)
LEMMA SuccessorMeansClosed ==
    ASSUME TypeOK, DiskInv, IndexWellFormed, NEW id \in 1..indexed,
           (HasSuccessor(id) /\ InTurn(id)) \/ footer[rec[id].file]
    PROVE  rec[id].file # writer
<1>1. CASE HasSuccessor(id) /\ InTurn(id)
  <2>1. PICK other \in held : other > id  BY <1>1 DEF HasSuccessor
  <2>2. other \in 1..indexed  BY DEF TypeOK
  <2>3. rec[id].file < rec[other].file /\ rec[other].file <= created
    BY <1>1, <2>1, <2>2, TypeFacts DEF InTurn
  <2>4. rec[id].file # created /\ rec[id].file # 0  BY <2>2, <2>3, TypeFacts
  <2> QED BY <2>4 DEF DiskInv, OneWriter, NoFile
<1>2. CASE footer[rec[id].file]
  BY <1>2, TypeFacts DEF DiskInv, OneWriter
<1> QED BY <1>1, <1>2

(* The tail's invariant survives whatever happens on the disk meanwhile.   *)
LEMMA DiskKeepsTail ==
    ASSUME TypeOK, DiskInv, TailInvariant, DiskStep, DiskTypeOK',
           UNCHANGED <<pc, seen, overlooked, indexed, rec, held, current, pass, coverage>>
    PROVE  TailInvariant'
<1>0. /\ IndexWellFormed /\ EntriesInTurn /\ DroppedAreEnded /\ OldestFirst
      /\ UnseenIsNewer /\ PassInv /\ EndedIsDrained /\ PrunedIsAged /\ MarkIsRead
  BY DEF TailInvariant
<1>1. ASSUME NEW id \in 1..indexed
      PROVE  LET f == rec[id].file IN
             /\ f \in Files /\ f \in 1..created /\ f \in 1..created'
             /\ Len(recs[f]) \in Nat /\ Len(recs'[f]) \in Nat
             /\ Len(recs[f]) <= Len(recs'[f])
             /\ \A k \in 1..Len(recs[f]) : recs'[f][k] = recs[f][k]
             /\ f # writer => recs'[f] = recs[f] /\ writer' # f
             /\ Linked(f)' => Linked(f)
  <2>1. rec[id].file \in Files /\ rec[id].file \in 1..created  BY <1>0, TypeFacts
  <2>2. rec[id].file \in 1..created'
    BY <2>1, <1>0, TypeFacts DEF DiskStep, DiskTypeOK
  <2>3. Len(recs[rec[id].file]) \in Nat /\ Len(recs'[rec[id].file]) \in Nat
    BY SMTT(20), <2>1 DEF TypeOK, DiskTypeOK
  <2> QED BY <2>1, <2>2, <2>3 DEF DiskStep
<1>2. IndexWellFormed'
  <2>1. ASSUME NEW id \in 1..indexed PROVE rec[id].offset <= Len(recs'[rec[id].file])
    <3>1. rec[id].offset <= Len(recs[rec[id].file]) /\ rec[id].offset \in Nat
      BY <1>0, TypeFacts DEF IndexWellFormed
    <3> QED BY <3>1, <1>1
  <2> QED BY <1>0, <1>1, <2>1 DEF IndexWellFormed
<1>3. EntriesInTurn' /\ DroppedAreEnded' /\ OldestFirst'
  BY <1>0 DEF EntriesInTurn, DroppedAreEnded, OldestFirst
<1>4. UnseenIsNewer'
  <2>1. ASSUME pc \notin {"start", "seed"}, NEW f \in Present' \ (seen \cup overlooked),
               NEW id \in 1..indexed
        PROVE  rec[id].file < f
    <3>1. f \in 1..created' /\ Linked(f)'  BY DEF Present
    <3>2. CASE f \in 1..created
      BY <3>1, <3>2, <2>1, <1>0 DEF DiskStep, Present, UnseenIsNewer
    <3>3. CASE f \notin 1..created
      <4>1. f \in Nat /\ f > created  BY <3>1, <3>3, <1>0, TypeFacts DEF DiskTypeOK
      <4>2. rec[id].file \in Nat /\ rec[id].file <= created  BY <1>1, <1>0, TypeFacts
      <4> QED BY <4>1, <4>2, <1>0, TypeFacts
    <3> QED BY <3>2, <3>3
  <2> QED BY <2>1, <1>0 DEF UnseenIsNewer
<1>5. PassInv'
  <2>1. CASE current = NoId
    BY <2>1, <1>0 DEF PassInv
  <2>2. CASE current # NoId
    <3>1. current \in 1..indexed  BY <2>2 DEF TypeOK, NoId
    <3> DEFINE f == rec[current].file
    <3>2. (HasSuccessor(current) /\ InTurn(current)) \/ footer[f] => recs'[f] = recs[f]
      BY <3>1, <1>0, <1>1, SuccessorMeansClosed
    <3>3. footer[f] => footer'[f]  BY <3>1, <1>1 DEF DiskStep
    <3>4. HasSuccessor(current)' = HasSuccessor(current) /\ InTurn(current)' = InTurn(current)
      BY DEF HasSuccessor, InTurn
    <3>5. Len(recs[f]) \in Nat /\ Len(recs'[f]) \in Nat /\ Len(recs[f]) <= Len(recs'[f])
      BY <3>1, <1>1
    <3>6. pass.len \in Nat  BY DEF TypeOK, Pass
    <3>7. ASSUME pc = "scan"
          PROVE  /\ rec[current].state = "Tailing"
                 /\ rec[current].offset <= pass.len /\ pass.len <= Len(recs'[f])
                 /\ pass.footer => footer'[f] /\ pass.len = Len(recs'[f])
                 /\ HasSuccessor(current) /\ InTurn(current) => pass.len = Len(recs'[f])
      BY <3>7, <1>0, <3>2, <3>3, <3>5, <3>6 DEF PassInv
    <3>8. ASSUME pc \in {"publish", "decide"}
          PROVE  /\ rec[current].state = "Tailing"
                 /\ pass.how = "footer" =>
                      footer'[f] /\ rec[current].offset = Len(recs'[f])
                 /\ pass.how = "clean" /\ HasSuccessor(current) /\ InTurn(current) =>
                      rec[current].offset = Len(recs'[f])
      BY <3>8, <1>0, <3>2, <3>3 DEF PassInv
    <3> QED BY <2>2, <3>4, <3>7, <3>8 DEF PassInv
  <2> QED BY <2>1, <2>2
<1>6. EndedIsDrained'
  BY <1>0, <1>1 DEF EndedIsDrained, Drained, InTurn
<1>7. PrunedIsAged'
  <2>1. ASSUME NEW id \in (1..indexed) \ held, Linked(rec[id].file)', InTurn(id),
               NEW k \in 1..Len(recs'[rec[id].file])
        PROVE  recs'[rec[id].file][k].log + Watch < clock'
    <3>1. Linked(rec[id].file)  BY <1>1, <2>1
    <3>2. recs'[rec[id].file] = recs[rec[id].file]
      BY <2>1, <1>0, <1>1, <3>1 DEF EndedIsDrained, Drained, DroppedAreEnded
    <3>3. recs[rec[id].file][k].log + Watch < clock
      BY <2>1, <1>0, <3>1, <3>2 DEF PrunedIsAged
    <3>4. recs[rec[id].file][k].log \in Nat  BY <1>0, <3>2, TypeFacts
    <3>5. clock \in Nat /\ clock' \in Nat /\ clock <= clock' /\ Watch \in Nat
      BY RecorderAssumption, TailAssumption DEF DiskStep, TypeOK, DiskTypeOK, Time
    <3> QED BY <3>2, <3>3, <3>4, <3>5
  <2>2. \A id \in 1..indexed : InTurn(id)' = InTurn(id)  BY DEF InTurn
  <2> QED BY <2>1, <2>2 DEF PrunedIsAged
<1>8. MarkIsRead'
  <2>1. ASSUME NEW id \in 1..indexed, NEW k \in 1..rec[id].offset
        PROVE  recs'[rec[id].file][k] = recs[rec[id].file][k]
    <3>1. rec[id].offset \in Nat /\ rec[id].offset <= Len(recs[rec[id].file])
      BY <1>0, TypeFacts DEF IndexWellFormed
    <3> QED BY SMTT(20), <3>1, <1>1
  <2> QED BY <2>1, <1>0 DEF MarkIsRead
<1> QED BY <1>2, <1>3, <1>4, <1>5, <1>6, <1>7, <1>8 DEF TailInvariant

-----------------------------------------------------------------------------
(* The steps of the tail thread.                                           *)

LEMMA InitInvariant == Init => IInv
<1> SUFFICES ASSUME Init PROVE IInv  OBVIOUS
<1> USE RecorderAssumption, TailAssumption DEF Init, RecorderInit
<1>1. TypeOK
  <2>1. DiskTypeOK
    <3>1. clock \in Time  BY DEF Time
    <3> QED BY <3>1 DEF DiskTypeOK, Time, Files, NoFile, NoName
  <2>2. rec \in [1..indexed -> Recording]  OBVIOUS
  <2> QED BY <2>1, <2>2 DEF TypeOK, NoId, NoPass, Pass
<1>2. DiskInv  BY DEF DiskInv, StampsSorted, OneWriter, Files, NoFile
<1>3. TailInvariant
  BY DEF TailInvariant, IndexWellFormed, EntriesInTurn, DroppedAreEnded, OldestFirst,
         UnseenIsNewer, PassInv, EndedIsDrained, PrunedIsAged, MarkIsRead, NoId
<1> QED BY <1>1, <1>2, <1>3 DEF IInv

(* Indexing a file newer than all that is indexed, or overlooked before.   *)
LEMMA InsertKeeps ==
    ASSUME IInv, UNCHANGED <<disk, pass, coverage>>, NEW f \in Present,
           overlooked \subseteq overlooked',
           f \notin overlooked => \A id \in 1..indexed : rec[id].file < f,
           InsertNewRecording(f)
    PROVE  /\ indexed' = indexed + 1 /\ rec' \in [1..indexed' -> Recording]
           /\ held' \subseteq 1..indexed' /\ current' \in 1..indexed'
           /\ IndexWellFormed' /\ EntriesInTurn' /\ DroppedAreEnded' /\ OldestFirst'
           /\ EndedIsDrained' /\ PrunedIsAged' /\ MarkIsRead'
           /\ \A id \in 1..indexed : rec'[id] = rec[id]
           /\ rec'[indexed + 1].file = f
<1>0. /\ TypeOK /\ DiskInv /\ IndexWellFormed /\ EntriesInTurn /\ DroppedAreEnded
      /\ OldestFirst /\ EndedIsDrained /\ PrunedIsAged /\ MarkIsRead
  BY DEF IInv, TailInvariant
<1> DEFINE new == indexed + 1
<1>1. indexed \in Nat /\ created \in Nat /\ created <= MaxFiles /\ f \in 1..created
      /\ f \in Files /\ held \subseteq 1..indexed
  BY <1>0, RecorderAssumption DEF TypeOK, DiskTypeOK, Present, Files
<1>3. indexed' = new /\ 1..indexed' = (1..indexed) \cup {new}
      /\ \A id \in 1..indexed : id # new /\ id < new
  BY <1>1 DEF InsertNewRecording
<1>4. rec' \in [1..indexed' -> Recording]
      /\ rec'[new] = [file |-> f, state |-> "New", offset |-> 0]
      /\ \A id \in 1..indexed : rec'[id] = rec[id]
  <2>1. [file |-> f, state |-> "New", offset |-> 0] \in Recording
    BY <1>1, RecorderAssumption DEF Recording, Files
  <2>2. rec \in [1..indexed -> Recording]  BY <1>0 DEF TypeOK
  <2> QED BY <2>1, <2>2, <1>1, <1>3 DEF InsertNewRecording
<1>5. UNCHANGED <<recs, created, clock, writer>>
      /\ \A g : Linked(g)' = Linked(g)
  BY DEF disk, listing, Linked
<1>6. held' = held \cup {new} /\ held' \subseteq 1..indexed'
  BY <1>1, <1>3 DEF InsertNewRecording
<1>7. current' = (IF current = NoId THEN new ELSE current) /\ current' \in 1..indexed'
  BY <1>0, <1>3 DEF InsertNewRecording, CurrentAfterInsert, TypeOK, NoId
<1>8. IndexWellFormed'
  <2>1. Len(recs[f]) \in Nat  BY <1>0, <1>1, TypeFacts
  <2> QED BY <2>1, <1>0, <1>1, <1>3, <1>4, <1>5 DEF IndexWellFormed
<1>9. EntriesInTurn'
  BY <1>0, <1>1, <1>3, <1>4 DEF EntriesInTurn
<1>10. DroppedAreEnded'
  BY <1>0, <1>3, <1>4, <1>6 DEF DroppedAreEnded
<1>11. OldestFirst'
  <2>1. CASE current = NoId
    BY <2>1, <1>0, <1>3, <1>4, <1>6, <1>7 DEF OldestFirst, NoId
  <2>2. CASE current # NoId
    <3>1. current \in 1..indexed  BY <2>2, <1>0 DEF TypeOK, NoId
    <3> QED BY <2>2, <3>1, <1>0, <1>3, <1>4, <1>6, <1>7 DEF OldestFirst
  <2> QED BY <2>1, <2>2
<1>b. \A id \in 1..indexed : InTurn(id)' => InTurn(id)
  BY <1>3, <1>4 DEF InTurn
<1>12. EndedIsDrained'
  BY <1>0, <1>3, <1>4, <1>5, <1>b DEF EndedIsDrained, Drained
<1>13. PrunedIsAged'
  BY <1>0, <1>3, <1>4, <1>5, <1>6, <1>b DEF PrunedIsAged
<1>14. MarkIsRead'
  BY <1>0, <1>3, <1>4, <1>5 DEF MarkIsRead
<1> QED BY <1>3, <1>4, <1>6, <1>7, <1>8, <1>9, <1>10, <1>11, <1>12, <1>13, <1>14

(* Retiring the current recording, once it is gone or read to its end.     *)
LEMMA EndKeeps ==
    ASSUME IInv, UNCHANGED <<disk, overlooked, indexed, held, coverage>>, current # NoId,
           Linked(rec[current].file) /\ InTurn(current) => Drained(current),
           EndCurrent
    PROVE  /\ rec' \in [1..indexed' -> Recording] /\ current' \in 0..indexed
           /\ IndexWellFormed' /\ EntriesInTurn' /\ DroppedAreEnded' /\ OldestFirst'
           /\ EndedIsDrained' /\ PrunedIsAged' /\ MarkIsRead'
           /\ \A id \in 1..indexed : rec'[id].file = rec[id].file
<1>0. /\ TypeOK /\ DiskInv /\ IndexWellFormed /\ EntriesInTurn /\ DroppedAreEnded
      /\ OldestFirst /\ EndedIsDrained /\ PrunedIsAged /\ MarkIsRead
  BY DEF IInv, TailInvariant
<1>1. current \in 1..indexed /\ held \subseteq 1..indexed
      /\ \A id \in 1..indexed : id \in Nat
      /\ indexed \in Nat
  BY <1>0, TypeFacts DEF TypeOK, NoId
<1>2. /\ rec'[current] = [rec[current] EXCEPT !.state = "Ended"]
      /\ \A id \in 1..indexed : id # current => rec'[id] = rec[id]
  BY <1>0, <1>1 DEF EndCurrent, TypeOK
<1>3. /\ rec'[current].state = "Ended"
      /\ rec'[current].file = rec[current].file
      /\ rec'[current].offset = rec[current].offset
  BY <1>2, <1>1, <1>0 DEF TypeOK, Recording
<1>4. /\ \A id \in 1..indexed : rec'[id].file = rec[id].file
      /\ \A id \in 1..indexed : rec'[id].offset = rec[id].offset
  BY <1>2, <1>3
<1>5. rec' \in [1..indexed' -> Recording]
  BY <1>0, <1>1 DEF EndCurrent, TypeOK, Recording
<1>6. UNCHANGED <<recs, created, clock, writer, overlooked, indexed, held, coverage>>
      /\ \A g : Linked(g)' = Linked(g)
  BY DEF disk, listing, Linked
<1> DEFINE rest == Live \ {current}
<1>7. /\ rest \subseteq held
      /\ \A id \in 1..indexed : id # current /\ rec[id].state # "Ended" => id \in rest
      /\ \A id \in rest : id \in 1..indexed /\ id # current /\ rec[id].state # "Ended"
  BY <1>0, <1>1 DEF Live, DroppedAreEnded
<1>8. /\ current' \in 0..indexed
      /\ OldestFirst'
  <2>1. CASE rest = {} /\ current' = NoId
    <3>1. \A id \in 1..indexed : rec'[id].state = "Ended"
      BY <2>1, <1>2, <1>3, <1>7
    <3> QED BY <3>1, <2>1, <1>1, <1>6 DEF OldestFirst, NoId
  <2>2. ASSUME NEW next \in rest, IsOldest(next, rest), current' = next
        PROVE  current' \in 0..indexed /\ OldestFirst'
    <3>1. next \in held /\ next \in 1..indexed /\ next # current /\ rec'[next] = rec[next]
          /\ rec[next].state # "Ended" /\ next # NoId
      BY <1>2, <1>7 DEF NoId
    <3>2. current < next
      BY <3>1, <1>0, <1>1 DEF OldestFirst
    <3>3. ASSUME NEW id \in 1..indexed, id < next PROVE rec'[id].state = "Ended"
      <4>1. id \notin rest  BY <3>3, <2>2, <1>1, <3>1 DEF IsOldest
      <4> QED BY <4>1, <1>2, <1>3, <1>7
    <3>4. ASSUME NEW id \in 1..indexed, id > next
          PROVE  rec'[id].state = "New" /\ rec'[id].offset = 0
      <4>1. id > current /\ id # current  BY <3>2, <3>4, <1>1, <3>1
      <4> QED BY <4>1, <1>0, <1>2 DEF OldestFirst
    <3> QED BY <3>1, <3>3, <3>4, <2>2, <1>6 DEF OldestFirst
  <2> QED BY <2>1, <2>2 DEF EndCurrent
<1>9. IndexWellFormed' /\ EntriesInTurn'
  BY <1>0, <1>4, <1>6 DEF IndexWellFormed, EntriesInTurn
<1>10. DroppedAreEnded'
  BY <1>0, <1>2, <1>3, <1>6 DEF DroppedAreEnded
<1>b. \A id \in 1..indexed : InTurn(id)' = InTurn(id)  BY <1>4, <1>6 DEF InTurn
<1>11. EndedIsDrained'
  <2>1. ASSUME NEW id \in 1..indexed, rec'[id].state = "Ended", Linked(rec[id].file),
               InTurn(id)
        PROVE  Drained(id)
    BY <2>1, <1>0, <1>2 DEF EndedIsDrained
  <2> QED BY <2>1, <1>4, <1>6, <1>b DEF EndedIsDrained, Drained
<1>12. PrunedIsAged'
  BY <1>0, <1>4, <1>6, <1>b DEF PrunedIsAged
<1>13. MarkIsRead'
  BY <1>0, <1>4, <1>6 DEF MarkIsRead
<1> QED BY <1>4, <1>5, <1>8, <1>9, <1>10, <1>11, <1>12, <1>13

(* A step that leaves disk and index alone.                                *)
LEMMA IdleKeeps ==
    ASSUME IInv, UNCHANGED <<disk, indexed, rec, held, current, coverage>>,
           overlooked \subseteq overlooked'
    PROVE  /\ IndexWellFormed' /\ EntriesInTurn' /\ DroppedAreEnded' /\ OldestFirst'
           /\ EndedIsDrained' /\ PrunedIsAged' /\ MarkIsRead'
BY DEF IInv, TailInvariant, disk, IndexWellFormed, EntriesInTurn, DroppedAreEnded,
       OldestFirst, EndedIsDrained, Drained, InTurn, PrunedIsAged, MarkIsRead, Linked

LEMMA SameDisk ==
    ASSUME IInv, UNCHANGED disk
    PROVE  DiskTypeOK' /\ DiskInv' /\ Present' = Present
<1>1. DiskTypeOK'  BY DEF IInv, TypeOK, DiskTypeOK, disk
<1>2. DiskInv'  BY DEF IInv, DiskInv, StampsSorted, OneWriter, disk
<1>3. Present' = Present  BY DEF Present, Linked, disk
<1> QED BY <1>1, <1>2, <1>3

-----------------------------------------------------------------------------
(* What a listing overlooks is remembered, within the bound.               *)
LEMMA OverlookFacts ==
    ASSUME TypeOK, NEW S, S \subseteq Present, Overlook(S)
    PROVE  /\ Present \subseteq Files /\ S \subseteq overlooked'
           /\ overlooked \subseteq overlooked' /\ overlooked' \subseteq Files
           /\ misses' \in 0..MaxMisses
<1>1. Present \subseteq Files
  BY RecorderAssumption DEF Present, Files, TypeOK, DiskTypeOK
<1>2. S \subseteq overlooked' /\ overlooked \subseteq overlooked' /\ overlooked' \subseteq Files
  BY <1>1 DEF TypeOK, Overlook
<1>3. IsFiniteSet(S)
  <2>1. IsFiniteSet(1..MaxFiles)  BY RecorderAssumption, FS_Interval
  <2> QED BY <2>1, <1>1, FS_Subset DEF Files
<1>4. Cardinality(S) \in Nat  BY <1>3, FS_CardinalityType
<1>5. misses \in Nat /\ MaxMisses \in Nat  BY TailAssumption DEF TypeOK
<1>6. misses' = misses + Cardinality(S) /\ misses + Cardinality(S) <= MaxMisses
  BY DEF Overlook
<1>7. misses' \in 0..MaxMisses  BY <1>4, <1>5, <1>6
<1> QED BY <1>1, <1>2, <1>7

LEMMA StartupKeeps ==
    ASSUME IInv, AdoptNone \/ Adopt \/ Seed
    PROVE  IInv'
<1>0. TypeOK /\ TailInvariant /\ UnseenIsNewer  BY DEF IInv, TailInvariant
<1>1. CASE AdoptNone
  <2> USE <1>1 DEF AdoptNone
  <2>1. UNCHANGED <<disk, seen, misses, overlooked, indexed, rec, held, current, unlinking,
                    pass, faults, coverage>>
    BY DEF listing
  <2>2. DiskTypeOK' /\ DiskInv' /\ Present' = Present  BY <2>1, SameDisk
  <2>3. TypeOK'  BY <2>1, <2>2, <1>0 DEF TypeOK
  <2>4. UnseenIsNewer' /\ PassInv'  BY <1>0, <2>1, <2>2 DEF UnseenIsNewer, PassInv
  <2> QED BY <2>1, <2>2, <2>3, <2>4, IdleKeeps DEF IInv, TailInvariant
<1>2. CASE Adopt
  <2> USE <1>2 DEF Adopt
  <2>0. pc = "start" /\ indexed = 0 /\ coverage.log = 0 /\ pc' = "seed"
    BY <1>0 DEF UnseenIsNewer
  <2>1. DiskTypeOK' /\ DiskInv' /\ Present' = Present  BY SameDisk
  <2>2. UNCHANGED <<disk, seen, unlinking, pass, faults, coverage>>  OBVIOUS
  <2>3. PICK f \in Present : Overlook({g \in Present : f < g}) /\ IndexRecording(f)
    OBVIOUS
  <2>4. /\ overlooked \subseteq overlooked' /\ overlooked' \subseteq Files
        /\ misses' \in 0..MaxMisses
    BY <1>0, <2>3, OverlookFacts
  <2>5. CASE InsertNewRecording(f)
    <3>1. \A id \in 1..indexed : rec[id].file < f  BY <2>0
    <3>2. /\ indexed' = indexed + 1 /\ rec' \in [1..indexed' -> Recording]
          /\ held' \subseteq 1..indexed' /\ current' \in 1..indexed'
          /\ IndexWellFormed' /\ EntriesInTurn' /\ DroppedAreEnded' /\ OldestFirst'
          /\ EndedIsDrained' /\ PrunedIsAged' /\ MarkIsRead'
      BY <2>2, <2>4, <2>5, <3>1, InsertKeeps
    <3>3. indexed' = 1  BY <2>0, <3>2
    <3>4. TypeOK'
      BY <2>0, <2>1, <2>2, <2>4, <3>2, <3>3, <1>0 DEF TypeOK
    <3>5. UnseenIsNewer' /\ PassInv'  BY <2>0, <2>2, <3>3 DEF UnseenIsNewer, PassInv
    <3> QED BY <2>1, <3>2, <3>4, <3>5 DEF IInv, TailInvariant
  <2>6. CASE UNCHANGED <<indexed, rec, held, current>>
    <3>1. TypeOK'  BY <2>0, <2>1, <2>2, <2>4, <2>6, <1>0 DEF TypeOK
    <3>2. UnseenIsNewer' /\ PassInv'  BY <2>0, <2>2, <2>6 DEF UnseenIsNewer, PassInv
    <3> QED BY <2>1, <2>2, <2>4, <2>6, <3>1, <3>2, IdleKeeps DEF IInv, TailInvariant
  <2> QED BY <2>3, <2>5, <2>6 DEF IndexRecording
<1>3. CASE Seed
  <2> USE <1>3 DEF Seed
  <2>1. DiskTypeOK' /\ DiskInv' /\ Present' = Present  BY SameDisk
  <2>2. PICK S \in SUBSET Present : Overlook(S) /\ seen' = Present \ S  OBVIOUS
  <2>3. /\ Present \subseteq Files /\ S \subseteq overlooked'
        /\ overlooked \subseteq overlooked' /\ overlooked' \subseteq Files
        /\ misses' \in 0..MaxMisses
    BY <1>0, <2>2, OverlookFacts
  <2>4. TypeOK'  BY <2>1, <2>2, <2>3, <1>0 DEF TypeOK
  <2>5. Present' \ (seen' \cup overlooked') = {}  BY <2>1, <2>2, <2>3
  <2>6. UnseenIsNewer' /\ PassInv'  BY <2>5 DEF UnseenIsNewer, PassInv
  <2> QED BY <2>1, <2>3, <2>4, <2>6, IdleKeeps DEF IInv, TailInvariant
<1> QED BY <1>1, <1>2, <1>3

LEMMA DiscoverKeeps ==
    ASSUME IInv, Discover \/ DiscoverNone
    PROVE  IInv'
<1>0. TypeOK /\ TailInvariant /\ UnseenIsNewer /\ IndexWellFormed
  BY DEF IInv, TailInvariant
<1>1. CASE Discover
  <2> USE <1>1 DEF Discover
  <2>1. DiskTypeOK' /\ DiskInv' /\ Present' = Present  BY SameDisk
  <2>2. UNCHANGED <<disk, pc, unlinking, pass, faults, coverage>> /\ pc = "discover"
    OBVIOUS
  <2>3. PICK S \in SUBSET Present, f \in Present :
          /\ f \in (Present \ S) \ seen
          /\ IsOldest(f, (Present \ S) \ seen)
          /\ Overlook(S) /\ seen' = SeenWith(f, S) /\ IndexRecording(f)
    OBVIOUS
  <2>4. /\ Present \subseteq Files /\ S \subseteq overlooked'
        /\ overlooked \subseteq overlooked' /\ overlooked' \subseteq Files
        /\ misses' \in 0..MaxMisses
    BY <1>0, <2>3, OverlookFacts
  <2>5. f \in Files /\ f \in Nat /\ Present \subseteq Nat
    BY <2>3, <2>4, RecorderAssumption DEF Files
  <2>6. f \notin overlooked => \A id \in 1..indexed : rec[id].file < f
    BY <1>0, <2>2, <2>3 DEF UnseenIsNewer
  <2>7. ASSUME NEW g \in Present \ (seen' \cup overlooked')
        PROVE  f < g /\ g \notin seen \cup overlooked /\ g \in Nat
    <3>1. g \notin S /\ g \notin overlooked  BY <2>4, <2>7
    <3>2. g \notin seen /\ g # f  BY <2>3, <2>7, <3>1 DEF SeenWith, Retained
    <3>3. f <= g  BY <2>3, <2>7, <3>1, <3>2 DEF IsOldest
    <3> QED BY <2>5, <2>7, <3>1, <3>2, <3>3
  <2>8. seen' \subseteq Files  BY <1>0, <2>3, <2>5 DEF SeenWith, Retained, TypeOK
  <2>9. \A g \in Present \ (seen' \cup overlooked') : \A id \in 1..indexed : rec[id].file < g
    BY <1>0, <2>2, <2>7 DEF UnseenIsNewer
  <2>10. CASE InsertNewRecording(f)
    <3>1. /\ indexed' = indexed + 1 /\ rec' \in [1..indexed' -> Recording]
          /\ held' \subseteq 1..indexed' /\ current' \in 1..indexed'
          /\ IndexWellFormed' /\ EntriesInTurn' /\ DroppedAreEnded' /\ OldestFirst'
          /\ EndedIsDrained' /\ PrunedIsAged' /\ MarkIsRead'
          /\ \A id \in 1..indexed : rec'[id] = rec[id]
          /\ rec'[indexed + 1].file = f
      BY <2>2, <2>3, <2>4, <2>6, <2>10, InsertKeeps
    <3>2. indexed \in Nat  BY <1>0, TypeFacts
    <3>3. TypeOK'
      <4>1. unlinking' \subseteq 1..indexed'  BY <1>0, <2>2, <3>1, <3>2 DEF TypeOK
      <4>2. indexed' \in Nat /\ current' \in 0..indexed'  BY <3>1, <3>2
      <4> QED BY <2>1, <2>2, <2>4, <2>8, <3>1, <4>1, <4>2, <1>0 DEF TypeOK
    <3>4. UnseenIsNewer'
      <4>1. ASSUME NEW g \in Present' \ (seen' \cup overlooked'), NEW id \in 1..indexed'
            PROVE  rec'[id].file < g
        <5>1. id \in 1..indexed \/ id = indexed + 1  BY <3>1, <3>2
        <5> QED BY <4>1, <5>1, <2>1, <2>7, <2>9, <3>1
      <4> QED BY <4>1, <2>2 DEF UnseenIsNewer
    <3>5. PassInv'  BY <2>2 DEF PassInv
    <3> QED BY <2>1, <3>1, <3>3, <3>4, <3>5 DEF IInv, TailInvariant
  <2>11. CASE UNCHANGED <<indexed, rec, held, current>>
    <3>1. TypeOK'  BY <2>1, <2>2, <2>4, <2>8, <2>11, <1>0 DEF TypeOK
    <3>2. UnseenIsNewer'  BY <2>1, <2>2, <2>9, <2>11 DEF UnseenIsNewer
    <3>3. PassInv'  BY <2>2 DEF PassInv
    <3> QED BY <2>1, <2>2, <2>4, <2>11, <3>1, <3>2, <3>3, IdleKeeps DEF IInv, TailInvariant
  <2> QED BY <2>3, <2>10, <2>11 DEF IndexRecording
<1>2. CASE DiscoverNone
  <2> USE <1>2 DEF DiscoverNone
  <2>1. DiskTypeOK' /\ DiskInv' /\ Present' = Present  BY SameDisk
  <2>2. PICK S \in SUBSET Present :
          Present \ S \subseteq seen /\ Overlook(S) /\ seen' = Retained(S)
    OBVIOUS
  <2>3. /\ S \subseteq overlooked'
        /\ overlooked \subseteq overlooked' /\ overlooked' \subseteq Files
        /\ misses' \in 0..MaxMisses
    BY <1>0, <2>2, OverlookFacts
  <2>4. Present' \ (seen' \cup overlooked') = {}  BY <2>1, <2>2, <2>3 DEF Retained
  <2>5. TypeOK'  BY <2>1, <2>2, <2>3, <1>0 DEF TypeOK, Retained
  <2>6. UnseenIsNewer' /\ PassInv'  BY <2>4 DEF UnseenIsNewer, PassInv
  <2> QED BY <2>1, <2>3, <2>5, <2>6, IdleKeeps DEF IInv, TailInvariant
<1> QED BY <1>1, <1>2

LEMMA PruneKeeps ==
    ASSUME IInv, Prune
    PROVE  IInv'
<1> USE DEF Prune
<1>0. /\ TypeOK /\ DiskInv /\ IndexWellFormed /\ EntriesInTurn /\ DroppedAreEnded
      /\ OldestFirst /\ UnseenIsNewer /\ EndedIsDrained /\ PrunedIsAged /\ MarkIsRead
  BY DEF IInv, TailInvariant
<1>1. DiskTypeOK' /\ DiskInv' /\ Present' = Present  BY SameDisk
<1>2. UNCHANGED <<recs, clock, writer, created, listing, seen, misses, overlooked, indexed, rec, current, pass, faults, coverage>>
      /\ \A g : Linked(g)' = Linked(g)
  BY DEF disk, listing, Linked
<1>3. ToPrune \subseteq held /\ held \subseteq 1..indexed /\ current \notin ToPrune
      /\ \A id \in ToPrune : Expired(id) /\ rec[id].state = "Ended"
  BY <1>0 DEF ToPrune, Expired, TypeOK
<1>4. TypeOK'  BY <1>0, <1>1, <1>2, <1>3 DEF TypeOK
<1>5. IndexWellFormed' /\ EntriesInTurn'  BY <1>0, <1>2 DEF IndexWellFormed, EntriesInTurn
<1>6. DroppedAreEnded'  BY <1>0, <1>2, <1>3 DEF DroppedAreEnded
<1>7. OldestFirst'  BY <1>0, <1>2, <1>3 DEF OldestFirst
<1>8. EndedIsDrained'  BY <1>0, <1>2 DEF EndedIsDrained, Drained, InTurn
<1>9. MarkIsRead'  BY <1>0, <1>2 DEF MarkIsRead
<1>10. PrunedIsAged'
  <2>1. ASSUME NEW id \in ToPrune, Linked(rec[id].file), InTurn(id), NEW k \in 1..Len(recs[rec[id].file])
        PROVE  recs[rec[id].file][k].log + Watch < clock
    <3>1. rec[id].offset = Len(recs[rec[id].file])
      BY <1>0, <1>3, <2>1 DEF EndedIsDrained, Drained
    <3>2. recs[rec[id].file][k] \in Scanned(id)  BY <3>1 DEF Scanned
    <3> QED BY <3>2, <1>3 DEF Expired
  <2>2. \A id \in 1..indexed : InTurn(id)' = InTurn(id)  BY <1>2 DEF InTurn
  <2> QED BY <2>1, <2>2, <1>0, <1>2, <1>3 DEF PrunedIsAged
<1>11. UnseenIsNewer' /\ PassInv'  BY <1>0, <1>1, <1>2 DEF UnseenIsNewer, PassInv
<1> QED BY <1>1, <1>4, <1>5, <1>6, <1>7, <1>8, <1>9, <1>10, <1>11 DEF IInv, TailInvariant

LEMMA UnlinkKeeps ==
    ASSUME IInv, Unlink \/ Unlinked
    PROVE  IInv'
<1>0. TypeOK /\ DiskInv /\ IndexWellFormed /\ TailInvariant
  BY DEF IInv, TailInvariant
<1>1. CASE Unlink
  <2> USE <1>1 DEF Unlink, listing
  <2>1. PICK id \in unlinking :
          /\ dir' \in {dir, [dir EXCEPT ![name[rec[id].file]] = NoFile]}
          /\ unlinking' = unlinking \ {id}
    OBVIOUS
  <2>2. DiskTypeOK'  BY <1>0, <2>1 DEF TypeOK, DiskTypeOK, NoFile
  <2>3. DiskInv'  BY <1>0 DEF DiskInv, StampsSorted, OneWriter
  <2>4. ASSUME NEW f \in 1..created, Linked(f)' PROVE Linked(f)
    <3>1. dir'[name[f]] = f /\ f # NoFile  BY <2>4 DEF Linked, NoFile
    <3>2. dir'[name[f]] = dir[name[f]]
      <4>1. name[f] \in Paths
        BY <1>0, RecorderAssumption DEF DiskInv, OneWriter, TypeOK, DiskTypeOK, Files
      <4> QED BY <4>1, <3>1, <2>1, <1>0 DEF TypeOK, DiskTypeOK
    <3> QED BY <3>1, <3>2 DEF Linked
  <2>5. /\ created' = created /\ clock' = clock /\ recs' = recs /\ footer' = footer
        /\ writer' = writer
    OBVIOUS
  <2>6. DiskStep
    <3>1. \A f \in Files : Len(recs[f]) <= Len(recs[f])  BY <1>0, TypeFacts
    <3> QED BY <1>0, <2>4, <2>5, <3>1, TypeFacts DEF DiskStep
  <2>7. TailInvariant'  BY <1>0, <2>2, <2>6, DiskKeepsTail
  <2>8. TypeOK'  BY <1>0, <2>1, <2>2 DEF TypeOK
  <2> QED BY <2>3, <2>7, <2>8 DEF IInv
<1>2. CASE Unlinked
  <2> USE <1>2 DEF Unlinked, listing
  <2>1. DiskTypeOK' /\ DiskInv' /\ Present' = Present  BY SameDisk
  <2>2. TypeOK'  BY <2>1, <1>0 DEF TypeOK
  <2>3. UnseenIsNewer' /\ PassInv'
    BY <2>1, <1>0 DEF UnseenIsNewer, PassInv, TailInvariant
  <2> QED BY <2>1, <2>2, <2>3, IdleKeeps DEF IInv, TailInvariant
<1> QED BY <1>1, <1>2

LEMMA NoPassType == NoPass \in Pass
BY DEF NoPass, Pass

(* The poll steps that leave the index alone.                              *)
LEMMA WaitKeeps ==
    ASSUME IInv, DirUnreadable \/ PollTooShort \/ NotReady \/ Faulted \/ KeepTailing
           \/ PollError
    PROVE  IInv'
<1>0. TypeOK /\ TailInvariant /\ UnseenIsNewer /\ PassInv  BY DEF IInv, TailInvariant
<1>1. UNCHANGED <<disk, seen, misses, overlooked, indexed, rec, held, current, unlinking,
               coverage>>
  BY DEF DirUnreadable, PollTooShort, NotReady, Faulted, KeepTailing, PollError, listing
<1>2. DiskTypeOK' /\ DiskInv' /\ Present' = Present  BY <1>1, SameDisk
<1>3. /\ pc' \in {"prune", "short", "discover", "dead"}
      /\ pc \notin {"start", "seed"}
      /\ pass' \in {pass, NoPass}
      /\ pc' = "short" => current # NoId
  <2>1. CASE PollTooShort  BY <2>1, <1>0 DEF PollTooShort, PassInv
  <2>2. CASE NotReady      BY <2>2 DEF NotReady
  <2>3. CASE Faulted       BY <2>3 DEF Faulted
  <2>4. CASE KeepTailing   BY <2>4 DEF KeepTailing
  <2>5. CASE PollError     BY <2>5 DEF PollError
  <2>6. CASE DirUnreadable BY <2>6 DEF DirUnreadable
  <2> QED BY <2>1, <2>2, <2>3, <2>4, <2>5, <2>6
<1>4. faults' \in 0..MaxFaults /\ (pc' # "dead" => faults' < MaxFaults)
  <2>1. CASE Faulted
    <3>1. pc = "decide" /\ faults' = faults + 1
          /\ pc' = IF faults + 1 >= MaxFaults THEN "dead" ELSE "discover"
      BY <2>1 DEF Faulted, Exhausted
    <3>2. faults \in Nat /\ MaxFaults \in Nat /\ faults < MaxFaults
      BY <3>1, <1>0, TailAssumption DEF TypeOK
    <3> QED BY <3>1, <3>2
  <2>2. CASE KeepTailing
    BY <2>2, TailAssumption DEF KeepTailing
  <2>3. CASE DirUnreadable \/ PollTooShort \/ NotReady \/ PollError
    BY <2>3, <1>0, <1>3 DEF DirUnreadable, PollTooShort, NotReady, PollError, TypeOK
  <2> QED BY <2>1, <2>2, <2>3
<1>5. TypeOK'
  <2>1. pass \in Pass  BY <1>0 DEF TypeOK
  <2>2. pass' \in Pass  BY <1>3, <2>1, NoPassType
  <2> QED BY <2>2, <1>0, <1>1, <1>2, <1>3, <1>4 DEF TypeOK
<1>6. UnseenIsNewer' /\ PassInv'
  BY <1>0, <1>1, <1>2, <1>3 DEF UnseenIsNewer, PassInv
<1> QED BY <1>1, <1>2, <1>5, <1>6, IdleKeeps DEF IInv, TailInvariant

LEMMA RetireKeeps ==
    ASSUME IInv, VanishedBeforeMagic \/ FaultRecovered \/ Retire
    PROVE  IInv'
<1>0. /\ TypeOK /\ DiskInv /\ IndexWellFormed /\ EntriesInTurn
      /\ UnseenIsNewer /\ PassInv
  BY DEF IInv, TailInvariant
<1>1. UNCHANGED <<disk, seen, misses, overlooked, indexed, held, unlinking, coverage>>
      /\ EndCurrent /\ pc' = "discover" /\ faults' = 0 /\ pass' \in {pass, NoPass}
      /\ pc \in {"short", "decide"}
  BY DEF VanishedBeforeMagic, FaultRecovered, Retire, listing
<1>2. current # NoId /\ current \in 1..indexed
  BY <1>0, <1>1 DEF PassInv, TypeOK, NoId
<1>3. Linked(rec[current].file) /\ InTurn(current) => Drained(current)
  <2>1. CASE VanishedBeforeMagic \/ FaultRecovered
    BY <2>1 DEF VanishedBeforeMagic, FaultRecovered, InodeChanged
  <2>2. CASE Retire
    <3>1. pc = "decide" /\ pass.how \in {"clean", "footer"} /\ Finished
      BY <2>2, <1>0 DEF Retire, TypeOK, Pass
    <3>2. CASE pass.how = "footer"
      BY <3>1, <3>2, <1>0, <1>2, SuccessorMeansClosed DEF PassInv, Drained
    <3>3. CASE HasSuccessor(current) /\ pass.how = "clean"
      BY <3>1, <3>3, <1>0, <1>2, SuccessorMeansClosed DEF PassInv, Drained
    <3>4. CASE InodeChanged(current)
      BY <3>4 DEF InodeChanged
    <3> QED BY <3>1, <3>2, <3>3, <3>4 DEF Finished
  <2> QED BY <2>1, <2>2
<1>4. /\ rec' \in [1..indexed' -> Recording] /\ current' \in 0..indexed
      /\ IndexWellFormed' /\ EntriesInTurn' /\ DroppedAreEnded' /\ OldestFirst'
      /\ EndedIsDrained' /\ PrunedIsAged' /\ MarkIsRead'
      /\ \A id \in 1..indexed : rec'[id].file = rec[id].file
  BY <1>1, <1>2, <1>3, EndKeeps
<1>5. DiskTypeOK' /\ DiskInv' /\ Present' = Present  BY <1>1, SameDisk
<1>6. TypeOK'
  <2>0. pass \in Pass  BY <1>0 DEF TypeOK
  <2>1. pass' \in Pass  BY <1>1, <2>0, NoPassType
  <2>2. 0 \in 0..MaxFaults /\ 0 < MaxFaults  BY TailAssumption
  <2> QED BY <2>1, <2>2, <1>0, <1>1, <1>4, <1>5 DEF TypeOK
<1>7. UnseenIsNewer'
  <2>1. \A f \in Present' \ (seen' \cup overlooked') : \A id \in 1..indexed' : rec'[id].file < f
    BY <1>0, <1>1, <1>4, <1>5 DEF UnseenIsNewer
  <2> QED BY <2>1, <1>1 DEF UnseenIsNewer
<1>8. PassInv'  BY <1>1 DEF PassInv
<1> QED BY <1>4, <1>5, <1>6, <1>7, <1>8 DEF IInv, TailInvariant

LEMMA MeasureKeeps ==
    ASSUME IInv, Measure
    PROVE  IInv'
<1> USE DEF Measure
<1>0. /\ TypeOK /\ DiskInv /\ IndexWellFormed /\ EntriesInTurn /\ DroppedAreEnded
      /\ OldestFirst /\ UnseenIsNewer /\ EndedIsDrained /\ PrunedIsAged /\ MarkIsRead
      /\ PassInv
  BY DEF IInv, TailInvariant
<1>1. DiskTypeOK' /\ DiskInv' /\ Present' = Present  BY SameDisk
<1>2. UNCHANGED <<recs, clock, writer, created, footer, listing, seen, misses, overlooked, indexed, held, current, faults, coverage>>
      /\ \A g : Linked(g)' = Linked(g)
  BY DEF disk, listing, Linked
<1>3. current \in 1..indexed /\ current # NoId /\ current \in held
      /\ rec[current].state # "Ended"
  BY <1>0, TypeFacts DEF PassInv, TypeOK, NoId, OldestFirst
<1>4. /\ rec' \in [1..indexed' -> Recording]
      /\ rec'[current] = [rec[current] EXCEPT !.state = "Tailing"]
      /\ \A id \in 1..indexed : id # current => rec'[id] = rec[id]
  BY <1>0, <1>3 DEF TypeOK, Recording
<1>5. /\ rec'[current].state = "Tailing"
      /\ \A id \in 1..indexed : rec'[id].file = rec[id].file /\ rec'[id].offset = rec[id].offset
      /\ \A id \in 1..indexed : rec'[id].state = "Ended" => rec[id].state = "Ended"
  BY <1>0, <1>3, <1>4 DEF TypeOK, Recording
<1> DEFINE f == rec[current].file
<1>6. f \in Files /\ Len(recs[f]) \in Nat /\ footer[f] \in BOOLEAN
  BY <1>0, <1>3, TypeFacts DEF TypeOK, DiskTypeOK
<1>7. /\ pass' \in Pass /\ pass'.len = Len(recs[f]) /\ pass'.footer = footer[f]
  BY <1>6 DEF NoPass, Pass
<1>8. TypeOK'  BY <1>0, <1>1, <1>2, <1>4, <1>7 DEF TypeOK
<1>9. IndexWellFormed' /\ EntriesInTurn'
  BY <1>0, <1>2, <1>5 DEF IndexWellFormed, EntriesInTurn
<1>10. DroppedAreEnded'  BY <1>0, <1>2, <1>3, <1>4 DEF DroppedAreEnded
<1>11. OldestFirst'
  <2>1. ASSUME NEW id \in 1..indexed, id < current PROVE rec'[id].state = "Ended"
    <3>1. id # current  BY <2>1, <1>0, <1>3, TypeFacts
    <3> QED BY <3>1, <2>1, <1>0, <1>4 DEF OldestFirst
  <2>2. ASSUME NEW id \in 1..indexed, id > current
        PROVE  rec'[id].state = "New" /\ rec'[id].offset = 0
    <3>1. id # current  BY <2>2, <1>0, <1>3, TypeFacts
    <3> QED BY <3>1, <2>2, <1>0, <1>3, <1>4 DEF OldestFirst
  <2> QED BY <2>1, <2>2, <1>2, <1>3, <1>5 DEF OldestFirst
<1>b. \A id \in 1..indexed : InTurn(id)' = InTurn(id)  BY <1>2, <1>5 DEF InTurn
<1>12. EndedIsDrained'
  BY <1>0, <1>2, <1>5, <1>b DEF EndedIsDrained, Drained
<1>13. PrunedIsAged'  BY <1>0, <1>2, <1>5, <1>b DEF PrunedIsAged
<1>14. MarkIsRead'  BY <1>0, <1>2, <1>5 DEF MarkIsRead
<1>15. UnseenIsNewer'
  <2>1. \A g \in Present' \ (seen' \cup overlooked') : \A id \in 1..indexed' : rec'[id].file < g
    BY <1>0, <1>1, <1>2, <1>5 DEF UnseenIsNewer
  <2> QED BY <2>1 DEF UnseenIsNewer
<1>16. PassInv'
  <2>1. rec[current].offset <= Len(recs[f])  BY <1>0, <1>3 DEF IndexWellFormed
  <2>2. HasSuccessor(current)' = HasSuccessor(current)  BY <1>2 DEF HasSuccessor
  <2> QED BY <2>1, <2>2, <1>2, <1>3, <1>5, <1>6, <1>7 DEF PassInv
<1> QED BY <1>1, <1>8, <1>9, <1>10, <1>11, <1>12, <1>13, <1>14, <1>15, <1>16
        DEF IInv, TailInvariant

LEMMA ScanKeeps ==
    ASSUME IInv, Scan
    PROVE  IInv'
<1> USE DEF Scan
<1>0. /\ TypeOK /\ DiskInv /\ IndexWellFormed /\ EntriesInTurn /\ DroppedAreEnded
      /\ OldestFirst /\ UnseenIsNewer /\ EndedIsDrained /\ PrunedIsAged /\ MarkIsRead
      /\ PassInv
  BY DEF IInv, TailInvariant
<1>1. DiskTypeOK' /\ DiskInv' /\ Present' = Present  BY SameDisk
<1>2. UNCHANGED <<recs, clock, writer, created, footer, listing, seen, misses, overlooked, indexed, held, current, faults, coverage>>
      /\ \A g : Linked(g)' = Linked(g)
  BY DEF disk, listing, Linked
<1>3. current \in 1..indexed /\ current # NoId
      /\ rec[current].state = "Tailing"
  BY <1>0, TypeFacts DEF PassInv, TypeOK, NoId
<1>4. PICK stop \in rec[current].offset..pass.len, how \in {"clean", "footer", "fault"} :
        /\ how = "clean" => stop = pass.len /\ ~pass.footer
        /\ how = "footer" => stop = pass.len /\ pass.footer
        /\ pass' = [pass EXCEPT !.how = how, !.moved = stop # rec[current].offset]
        /\ rec' = [rec EXCEPT ![current].offset = stop]
  OBVIOUS
<1> DEFINE f == rec[current].file
<1>5. /\ rec[current].offset \in Nat /\ pass.len \in Nat /\ Len(recs[f]) \in Nat
      /\ stop \in Nat /\ rec[current].offset <= stop /\ stop <= pass.len
      /\ pass.len <= Len(recs[f])
  BY SMTT(20), <1>0, <1>3, TypeFacts DEF PassInv, TypeOK, Pass
<1>6. /\ rec' \in [1..indexed' -> Recording]
      /\ rec'[current] = [rec[current] EXCEPT !.offset = stop]
      /\ \A id \in 1..indexed : id # current => rec'[id] = rec[id]
  BY SMTT(20), <1>0, <1>3, <1>4, <1>5 DEF TypeOK, Recording
<1>7. /\ rec'[current].state = "Tailing" /\ rec'[current].offset = stop
      /\ \A id \in 1..indexed : rec'[id].file = rec[id].file /\ rec'[id].state = rec[id].state
  BY <1>0, <1>3, <1>6 DEF TypeOK, Recording
<1>8. pass' \in Pass /\ pass'.how = how /\ pass'.len = pass.len
  BY <1>0, <1>4 DEF TypeOK, Pass
<1>9. TypeOK'  BY <1>0, <1>1, <1>2, <1>6, <1>8 DEF TypeOK
<1>10. IndexWellFormed'
  <2>1. ASSUME NEW id \in 1..indexed PROVE rec'[id].offset <= Len(recs[rec[id].file])
    <3>1. CASE id = current  BY <3>1, <1>5, <1>7
    <3>2. CASE id # current  BY <3>2, <1>0, <1>6 DEF IndexWellFormed
    <3> QED BY <3>1, <3>2
  <2> QED BY <2>1, <1>0, <1>2, <1>7 DEF IndexWellFormed
<1>11. EntriesInTurn'  BY <1>0, <1>2, <1>7 DEF EntriesInTurn
<1>12. DroppedAreEnded'  BY <1>0, <1>2, <1>7 DEF DroppedAreEnded
<1>13. OldestFirst'
  <2>1. ASSUME NEW id \in 1..indexed, id > current PROVE rec'[id].offset = 0
    <3>1. id # current  BY <2>1, <1>0, <1>3, TypeFacts
    <3> QED BY <3>1, <2>1, <1>0, <1>3, <1>6 DEF OldestFirst
  <2> QED BY <2>1, <1>0, <1>2, <1>3, <1>7 DEF OldestFirst
<1>b. \A id \in 1..indexed : InTurn(id)' = InTurn(id)  BY <1>2, <1>7 DEF InTurn
<1>14. EndedIsDrained'
  <2>1. ASSUME NEW id \in 1..indexed, rec'[id].state = "Ended" PROVE rec'[id] = rec[id]
    <3>1. id # current  BY <2>1, <1>7
    <3> QED BY <3>1, <1>6
  <2> QED BY <2>1, <1>0, <1>2, <1>7, <1>b DEF EndedIsDrained, Drained
<1>15. PrunedIsAged'  BY <1>0, <1>2, <1>7, <1>b DEF PrunedIsAged
<1>16. MarkIsRead'
  <2>1. ASSUME NEW id \in 1..indexed, NEW k \in 1..rec[id].offset
        PROVE  k \in 1..rec'[id].offset
    <3>1. CASE id = current  BY <3>1, <1>5, <1>7
    <3>2. CASE id # current  BY <3>2, <1>6
    <3> QED BY <3>1, <3>2
  <2> QED BY <2>1, <1>0, <1>2, <1>7 DEF MarkIsRead
<1>17. UnseenIsNewer'
  <2>1. \A g \in Present' \ (seen' \cup overlooked') : \A id \in 1..indexed' : rec'[id].file < g
    BY <1>0, <1>1, <1>2, <1>7 DEF UnseenIsNewer
  <2> QED BY <2>1 DEF UnseenIsNewer
<1>18. PassInv'
  <2>1. HasSuccessor(current)' = HasSuccessor(current)  BY <1>2 DEF HasSuccessor
  <2>2. how = "footer" => footer[f] /\ stop = Len(recs[f])
    BY <1>0, <1>4 DEF PassInv
  <2>3. how = "clean" /\ HasSuccessor(current) /\ InTurn(current) => stop = Len(recs[f])
    BY <1>0, <1>4 DEF PassInv
  <2> QED BY <2>1, <2>2, <2>3, <1>2, <1>3, <1>7, <1>8, <1>b DEF PassInv
<1> QED BY <1>1, <1>9, <1>10, <1>11, <1>12, <1>13, <1>14, <1>15, <1>16, <1>17, <1>18
        DEF IInv, TailInvariant

LEMMA PublishKeeps ==
    ASSUME IInv, PublishCoverage
    PROVE  IInv' /\ coverage'.log >= coverage.log /\ coverage'.pub >= coverage.pub
<1> USE DEF PublishCoverage
<1>0. /\ TypeOK /\ DiskInv /\ IndexWellFormed /\ EntriesInTurn /\ DroppedAreEnded
      /\ OldestFirst /\ UnseenIsNewer /\ EndedIsDrained /\ PrunedIsAged /\ MarkIsRead
      /\ PassInv
  BY DEF IInv, TailInvariant
<1>1. DiskTypeOK' /\ DiskInv' /\ Present' = Present  BY SameDisk
<1>2. UNCHANGED <<recs, clock, writer, created, footer, listing, seen, misses, overlooked, indexed, rec, held, current, faults, pass>>
      /\ \A g : Linked(g)' = Linked(g)
  BY DEF disk, listing, Linked
<1>3. PICK hw \in Time, phw \in PublishTimes \cup {0} :
        /\ IsHighWater(hw, {m.log : m \in HeldMessages})
        /\ coverage' = [log |-> AtLeast(coverage.log, hw), pub |-> AtLeast(coverage.pub, phw)]
  OBVIOUS
<1>4. /\ hw \in Nat /\ phw \in Nat /\ coverage.log \in Nat /\ coverage.pub \in Nat
  BY <1>0, RecorderAssumption DEF Time, TypeOK
<1>5. /\ coverage'.log = AtLeast(coverage.log, hw)
      /\ coverage'.pub = AtLeast(coverage.pub, phw)
      /\ coverage' \in [log : Nat, pub : Nat]
      /\ coverage'.log >= coverage.log /\ coverage'.pub >= coverage.pub
  BY <1>3, <1>4 DEF AtLeast
<1>6. TypeOK'  BY <1>0, <1>1, <1>2, <1>5 DEF TypeOK
<1>7. MarkIsRead'
  <2>1. CASE coverage'.log = coverage.log
    BY <2>1, <1>0, <1>2 DEF MarkIsRead
  <2>2. CASE coverage'.log = hw /\ hw > 0
    <3>1. hw \in {m.log : m \in HeldMessages}  BY <2>2, <1>3 DEF IsHighWater
    <3>2. PICK m \in HeldMessages : m.log = hw  BY <3>1
    <3>3. PICK id \in held : m \in Scanned(id)  BY <3>2 DEF HeldMessages
    <3>4. PICK k \in 1..rec[id].offset : m = recs[rec[id].file][k]  BY <3>3 DEF Scanned
    <3>5. id \in 1..indexed  BY <1>0 DEF TypeOK
    <3> QED BY <3>2, <3>4, <3>5, <2>2, <1>2 DEF MarkIsRead
  <2>3. coverage'.log = coverage.log \/ (coverage'.log = hw /\ hw > 0)
    BY <1>4, <1>5 DEF AtLeast
  <2> QED BY <2>1, <2>2, <2>3
<1>8. /\ IndexWellFormed' /\ EntriesInTurn' /\ DroppedAreEnded' /\ OldestFirst'
      /\ EndedIsDrained' /\ PrunedIsAged'
  BY <1>0, <1>2 DEF IndexWellFormed, EntriesInTurn, DroppedAreEnded, OldestFirst,
       EndedIsDrained, Drained, InTurn, PrunedIsAged
<1>9. UnseenIsNewer'  BY <1>0, <1>1, <1>2 DEF UnseenIsNewer
<1>10. PassInv'
  <2>1. HasSuccessor(current)' = HasSuccessor(current) /\ InTurn(current)' = InTurn(current)
    BY <1>2 DEF HasSuccessor, InTurn
  <2> QED BY <2>1, <1>0, <1>2 DEF PassInv
<1> QED BY <1>1, <1>5, <1>6, <1>7, <1>8, <1>9, <1>10 DEF IInv, TailInvariant
-----------------------------------------------------------------------------
(* The induction step: each action of the tail by the lemma about it, the  *)
(* recorder by what its steps do to a disk.                                *)
LEMMA NextKeeps == IInv /\ [Next]_vars => IInv'
<1> SUFFICES ASSUME IInv, [Next]_vars PROVE IInv'  OBVIOUS
<1>1. CASE TailStep
  BY <1>1, StartupKeeps, DiscoverKeeps, PruneKeeps, UnlinkKeeps, WaitKeeps,
     RetireKeeps, MeasureKeeps, ScanKeeps, PublishKeeps DEF TailStep
<1>2. CASE DirUnreadable \/ PollError  BY <1>2, WaitKeeps
<1>3. CASE RecorderStep
  <2>1. TypeOK /\ DiskTypeOK /\ DiskInv /\ TailInvariant  BY DEF IInv, TypeOK
  <2>2. DiskTypeOK' /\ DiskInv' /\ DiskStep
    BY <1>3, <2>1, RecorderStepsDisk DEF RecorderStep
  <2>3. UNCHANGED <<pc, seen, misses, overlooked, indexed, rec, held, current, unlinking,
                   pass, faults, coverage>>
    BY <1>3 DEF RecorderStep, tailVars, listing
  <2>4. TypeOK'  BY <2>1, <2>2, <2>3 DEF TypeOK
  <2>5. TailInvariant'  BY <2>1, <2>2, <2>3, DiskKeepsTail
  <2> QED BY <2>2, <2>4, <2>5 DEF IInv
<1>4. CASE UNCHANGED vars
  <2>1. UNCHANGED disk /\ UNCHANGED <<pc, seen, misses, overlooked, indexed, rec, held,
                                    current, unlinking, pass, faults, coverage>>
    BY <1>4 DEF vars, tailVars, listing
  <2>2. DiskTypeOK' /\ DiskInv' /\ Present' = Present  BY <2>1, SameDisk
  <2>3. TypeOK'  BY <2>1, <2>2 DEF IInv, TypeOK
  <2>4. UnseenIsNewer' /\ PassInv'
    BY <2>1, <2>2 DEF IInv, TailInvariant, UnseenIsNewer, PassInv, HasSuccessor, InTurn,
      disk
  <2> QED BY <2>1, <2>2, <2>3, <2>4, IdleKeeps DEF IInv, TailInvariant
<1> QED BY <1>1, <1>2, <1>3, <1>4 DEF Next

(* The invariant holds in every state of every behaviour, whatever the     *)
(* number of files and records and however tail and recorder interleave.   *)
THEOREM Invariance == Spec => []IInv
<1>1. Init => IInv  BY InitInvariant
<1>2. IInv /\ [Next]_vars => IInv'  BY NextKeeps
<1> QED BY <1>1, <1>2, PTL DEF Spec

(* Type correctness; with it, the fault budget is never overrun while the  *)
(* tail runs.                                                              *)
THEOREM TypeCorrect == Spec => []TypeOK
<1>1. IInv => TypeOK  BY DEF IInv
<1> QED BY <1>1, Invariance, PTL

(* Scanning is oldest first, one recording at a time.                      *)
THEOREM ScansOldestFirst == Spec => []OldestFirst
<1>1. IInv => OldestFirst  BY DEF IInv, TailInvariant
<1> QED BY <1>1, Invariance, PTL

(* A retired file still in the directory was read to its end.              *)
THEOREM RetiredIsDrained == Spec => []EndedIsDrained
<1>1. IInv => EndedIsDrained  BY DEF IInv, TailInvariant
<1> QED BY <1>1, Invariance, PTL

(* Retention drops only recordings all of whose data is past the floor.    *)
THEOREM DropsOnlyAged == Spec => []PrunedIsAged
<1>1. IInv => PrunedIsAged  BY DEF IInv, TailInvariant
<1> QED BY <1>1, Invariance, PTL
-----------------------------------------------------------------------------
(* The coverage promise follows from the invariant: the mark is the stamp  *)
(* of a record that was read; an earlier stamp lies earlier in the         *)
(* recorder's order; and everything earlier than a read record was read.   *)
LEMMA CoveredIsRead ==
    ASSUME IInv, NEW f \in 1..created, Linked(f), f \notin Skipped \cup overlooked,
           NEW k \in 1..Len(recs[f]), recs[f][k].log < coverage.log
    PROVE  \E j \in 1..indexed : rec[j].file = f /\ InTurn(j) /\ k <= rec[j].offset
<1>0. /\ TypeOK /\ DiskInv /\ IndexWellFormed /\ EntriesInTurn /\ OldestFirst
      /\ UnseenIsNewer /\ EndedIsDrained /\ MarkIsRead /\ StampsSorted
  BY DEF IInv, TailInvariant, DiskInv
<1>1. /\ f \in Files /\ created \in Nat /\ indexed \in Nat /\ coverage.log \in Nat
      /\ current \in 0..indexed /\ recs[f][k].log \in Nat /\ Len(recs[f]) \in Nat
      /\ \A id \in 1..indexed : rec[id].file \in Files /\ rec[id].offset \in Nat
  <2>1. f \in Files
    BY <1>0, RecorderAssumption DEF TypeOK, DiskTypeOK, Files
  <2> QED BY <2>1, <1>0, TypeFacts DEF TypeOK
<1>2. coverage.log > 0  BY <1>1
<1>3. PICK i \in 1..indexed : \E l \in 1..rec[i].offset :
        recs[rec[i].file][l].log = coverage.log
  BY <1>0, <1>2 DEF MarkIsRead
<1>4. PICK l \in 1..rec[i].offset : recs[rec[i].file][l].log = coverage.log
  BY <1>3
<1>5. l \in 1..Len(recs[rec[i].file]) /\ rec[i].offset > 0 /\ l \in Nat
  <2>1. rec[i].offset \in Nat /\ rec[i].file \in Files  BY <1>1
  <2>2. Len(recs[rec[i].file]) \in Nat  BY <1>0, <2>1, TypeFacts
  <2>3. rec[i].offset <= Len(recs[rec[i].file])  BY <1>0 DEF IndexWellFormed
  <2> QED BY <1>4, <2>1, <2>2, <2>3
<1>6. ~(rec[i].file < f) /\ (rec[i].file = f => k < l)
  <2>1. ~(recs[rec[i].file][l].log <= recs[f][k].log)  BY <1>1, <1>4
  <2>2. ASSUME rec[i].file < f \/ (rec[i].file = f /\ l <= k)  PROVE FALSE
    BY <2>1, <2>2, <1>0, <1>1, <1>5 DEF StampsSorted
  <2> QED BY <2>2, <1>1, <1>5
<1>7. PICK j \in 1..indexed : rec[j].file = f /\ InTurn(j)
  <2>1. CASE f \notin seen
    <3>1. pc \notin {"start", "seed"}  BY <1>0, <1>2, <1>1 DEF UnseenIsNewer
    <3>2. f \in Present \ (seen \cup overlooked)  BY <2>1 DEF Present
    <3> QED BY <3>1, <3>2, <1>0, <1>6 DEF UnseenIsNewer
  <2> QED BY <2>1 DEF Skipped
<1>8. k <= rec[j].offset
  <2>1. CASE j = i  BY <2>1, <1>6, <1>7, <1>1
  <2>2. CASE i < j  BY <2>2, <1>0, <1>6, <1>7 DEF EntriesInTurn
  <2>3. CASE j < i
    <3>1. rec[j].state = "Ended"
      BY <2>3, <1>0, <1>1, <1>5 DEF OldestFirst, NoId
    <3> QED BY <3>1, <1>0, <1>1, <1>7 DEF EndedIsDrained, Drained
  <2> QED BY <2>1, <2>2, <2>3
<1> QED BY <1>7, <1>8

LEMMA CoverageIsSound == IInv => CoverageSound
BY CoveredIsRead DEF CoverageSound, Read

(* Once the published high-water is past a stamp, every message on disk    *)
(* with that stamp has been read: what a log-domain cut waits for.         *)
THEOREM CoverageCorrect == Spec => []CoverageSound
BY CoverageIsSound, Invariance, PTL

(* The published mark is the stamp of a message that was read.             *)
THEOREM CoverageIsBacked == Spec => []CoverageBacked
<1>1. IInv => CoverageBacked
  BY DEF IInv, TailInvariant, MarkIsRead, CoverageBacked, Scanned
<1> QED BY <1>1, Invariance, PTL

(* Neither coverage mark ever falls.                                       *)
THEOREM CoverageRises == Spec => CoverageMonotone
<1> DEFINE Rises == coverage'.log >= coverage.log /\ coverage'.pub >= coverage.pub
<1>1. IInv /\ [Next]_vars => [Rises]_vars
  <2> SUFFICES ASSUME IInv, Next PROVE Rises  BY DEF vars
  <2>1. CASE PublishCoverage  BY <2>1, PublishKeeps
  <2>2. CASE coverage' = coverage
    BY <2>2 DEF IInv, TypeOK
  <2>3. ~PublishCoverage => coverage' = coverage
    BY DEF Next, TailStep, DirUnreadable, PollError, RecorderStep, tailVars, AdoptNone, Adopt, Seed, Discover,
           DiscoverNone, Prune, Unlink, Unlinked, PollTooShort, NotReady,
           VanishedBeforeMagic, Measure, Scan, FaultRecovered, Faulted, Retire,
           KeepTailing
  <2> QED BY <2>1, <2>2, <2>3
<1> QED BY <1>1, Invariance, PTL DEF Spec, CoverageMonotone
-----------------------------------------------------------------------------
(* A fault is counted while its recording is tailed, and the count is      *)
(* taken back with whatever ends that recording.                           *)
LEMMA BudgetNext ==
    ASSUME IInv, FaultsAreCurrent, [Next]_vars
    PROVE  FaultsAreCurrent'
<1> USE DEF FaultsAreCurrent
<1>0. /\ rec \in [1..indexed -> Recording] /\ current \in 0..indexed /\ indexed \in Nat
      /\ PassInv
  BY DEF IInv, TypeOK, TailInvariant
<1>1. CASE Adopt \/ Discover
  <2>1. UNCHANGED faults /\ pc # "dead"  BY <1>1 DEF Adopt, Discover
  <2>2. PICK f \in Present : IndexRecording(f)  BY <1>1 DEF Adopt, Discover
  <2>3. CASE UNCHANGED <<indexed, rec, held, current>>  BY <2>1, <2>3
  <2>4. CASE InsertNewRecording(f)
    BY <2>1, <2>4, <1>0 DEF InsertNewRecording, CurrentAfterInsert, NoId
  <2> QED BY <2>2, <2>3, <2>4 DEF IndexRecording
<1>2. CASE VanishedBeforeMagic \/ FaultRecovered \/ Retire \/ KeepTailing
  BY <1>2 DEF VanishedBeforeMagic, FaultRecovered, Retire, KeepTailing
<1>3. CASE Measure
  <2>1. UNCHANGED <<faults, current>> /\ pc # "dead"
        /\ rec' = [rec EXCEPT ![current].state = "Tailing"]
    BY <1>3 DEF Measure
  <2> QED BY <2>1, <1>0 DEF Recording, NoId
<1>4. CASE Scan
  <2>1. PICK stop \in rec[current].offset..pass.len :
          rec' = [rec EXCEPT ![current].offset = stop]
    BY <1>4 DEF Scan
  <2>2. UNCHANGED <<faults, current>> /\ pc # "dead"  BY <1>4 DEF Scan
  <2> QED BY <2>1, <2>2, <1>0 DEF Recording, NoId
<1>5. CASE Faulted
  BY <1>0, <1>5 DEF Faulted, PassInv
<1>6. CASE AdoptNone \/ Seed \/ DiscoverNone \/ Prune \/ Unlink \/ Unlinked
           \/ PollTooShort \/ NotReady \/ PublishCoverage \/ DirUnreadable \/ PollError
           \/ RecorderStep \/ UNCHANGED vars
  BY <1>6 DEF AdoptNone, Seed, DiscoverNone, Prune, Unlink, Unlinked, PollTooShort,
     NotReady, PublishCoverage, DirUnreadable, PollError, RecorderStep, tailVars, vars
<1> QED BY <1>1, <1>2, <1>3, <1>4, <1>5, <1>6 DEF Next, TailStep

(* The faults on the count are those of the recording that is current: no  *)
(* file is given up for the faults of one before it.                       *)
THEOREM BudgetIsCurrent == Spec => []FaultsAreCurrent
<1>1. Init => FaultsAreCurrent  BY DEF Init, FaultsAreCurrent
<1>2. IInv /\ FaultsAreCurrent /\ [Next]_vars => FaultsAreCurrent'  BY BudgetNext
<1> QED BY <1>1, <1>2, Invariance, PTL DEF Spec
-----------------------------------------------------------------------------
(* The index only grows, and an entry keeps its file: what misled the tail *)
(* once is not undone.                                                     *)
LEMMA IndexGrows ==
    ASSUME IInv, [Next]_vars
    PROVE  /\ \A id \in 1..indexed : id \in 1..indexed' /\ rec'[id].file = rec[id].file
           /\ overlooked \subseteq overlooked'
<1>0. /\ rec \in [1..indexed -> Recording] /\ current \in 0..indexed /\ indexed \in Nat
      /\ misses \in 0..MaxMisses /\ TypeOK
  BY DEF IInv, TypeOK
<1>1. ASSUME UNCHANGED <<indexed, overlooked>>,
             \A id \in 1..indexed : rec'[id].file = rec[id].file
      PROVE  /\ \A id \in 1..indexed : id \in 1..indexed' /\ rec'[id].file = rec[id].file
             /\ overlooked \subseteq overlooked'
  BY <1>1
<1>2. CASE UNCHANGED <<indexed, overlooked, rec>>  BY <1>1, <1>2
<1>3. CASE Adopt \/ Discover
  <2>1. PICK f \in Present : IndexRecording(f)  BY <1>3 DEF Adopt, Discover
  <2>2. overlooked \subseteq overlooked'  BY <1>3 DEF Adopt, Discover, Overlook
  <2>3. CASE UNCHANGED <<indexed, rec>>  BY <2>2, <2>3
  <2>4. CASE InsertNewRecording(f)
    BY <2>2, <2>4, <1>0 DEF InsertNewRecording
  <2> QED BY <2>1, <2>3, <2>4 DEF IndexRecording
<1>4. CASE Seed \/ DiscoverNone
  BY <1>4 DEF Seed, DiscoverNone, Overlook
<1>5. CASE Measure
  <2>1. rec' = [rec EXCEPT ![current].state = "Tailing"] /\ UNCHANGED <<indexed, overlooked>>
    BY <1>5 DEF Measure, listing
  <2>2. \A id \in 1..indexed : rec'[id].file = rec[id].file
    BY <2>1, <1>0 DEF Recording
  <2> QED BY <2>1, <2>2, <1>1
<1>6. CASE Scan
  <2>1. PICK stop : rec' = [rec EXCEPT ![current].offset = stop]  BY <1>6 DEF Scan
  <2>2. UNCHANGED <<indexed, overlooked>>  BY <1>6 DEF Scan, listing
  <2>3. \A id \in 1..indexed : rec'[id].file = rec[id].file
    BY <2>1, <1>0 DEF Recording
  <2> QED BY <2>2, <2>3, <1>1
<1>7. CASE VanishedBeforeMagic \/ FaultRecovered \/ Retire
  <2>1. rec' = [rec EXCEPT ![current].state = "Ended"] /\ UNCHANGED <<indexed, overlooked>>
    BY <1>7 DEF VanishedBeforeMagic, FaultRecovered, Retire, EndCurrent, listing
  <2>2. \A id \in 1..indexed : rec'[id].file = rec[id].file
    BY <2>1, <1>0 DEF Recording
  <2> QED BY <2>1, <2>2, <1>1
<1>8. CASE AdoptNone \/ Prune \/ Unlink \/ Unlinked \/ PollTooShort \/ NotReady
           \/ PublishCoverage \/ Faulted \/ KeepTailing \/ DirUnreadable \/ PollError
           \/ RecorderStep \/ UNCHANGED vars
  BY <1>8, <1>2 DEF AdoptNone, Prune, Unlink, Unlinked, PollTooShort, NotReady,
     PublishCoverage, Faulted, KeepTailing, DirUnreadable, PollError, RecorderStep,
     tailVars, vars, listing
<1> QED BY <1>3, <1>4, <1>5, <1>6, <1>7, <1>8 DEF Next, TailStep

LEMMA MisledStays ==
    ASSUME IInv, [Next]_vars, NEW f, Misled(f)
    PROVE  Misled(f)'
<1>1. PICK id \in 1..indexed, other \in 1..indexed :
        /\ rec[id].file = f /\ other > id /\ ~(rec[other].file > rec[id].file)
  BY DEF Misled, InTurn
<1> QED BY <1>1, IndexGrows DEF Misled, InTurn

(* What retention unlinks has ended; if it is still in the directory it    *)
(* has no writer, and its name is no other file's.                         *)
LEMMA LiveNext ==
    ASSUME ~ReuseNames, IInv, LiveInv, [Next]_vars
    PROVE  LiveInv'
<1>0. /\ TypeOK /\ DiskTypeOK /\ DiskInv /\ OneWriter /\ IndexWellFormed
      /\ DroppedAreEnded /\ EndedIsDrained
  BY DEF IInv, TailInvariant, TypeOK, DiskInv
<1>a. created \in Nat /\ writer \in 0..created /\ created <= MaxFiles
  BY <1>0, RecorderAssumption DEF DiskTypeOK
<1>b. ASSUME UNCHANGED writer, Linked(writer) => Linked(writer)'
      PROVE  LiveFileLinked'
  <2>1. PICK f : f = writer  OBVIOUS
  <2>2. Misled(f) => Misled(f)'  BY MisledStays
  <2> QED BY <1>b, <2>1, <2>2 DEF LiveInv, LiveFileLinked, Misled
<1>1. CASE UNCHANGED vars
  BY <1>1, <1>b DEF vars, disk, tailVars, LiveInv, NamesAreFiles, Linked
<1>2. CASE RecorderStep
  <2> USE <1>2 DEF RecorderStep, tailVars
  <2>1. unlinking' \subseteq (1..indexed') \ held'  BY DEF LiveInv
  <2>2. ASSUME NEW p \in Paths, OpenFile(p)  PROVE NamesAreFiles' /\ LiveFileLinked'
    <3> USE <2>2 DEF OpenFile
    <3>1. p = created + 1 /\ created + 1 \in Files /\ created' = created + 1
          /\ writer' = created'
      BY <1>a, RecorderAssumption DEF Files
    <3>2. /\ name'[created + 1] = p /\ dir'[p] = created + 1
          /\ \A f \in Files : f # created + 1 => name'[f] = name[f]
          /\ \A q \in Paths : q # p => dir'[q] = dir[q]
      BY <1>0, <3>1 DEF DiskTypeOK
    <3>3. NamesAreFiles'
      BY <1>a, <3>1, <3>2 DEF LiveInv, NamesAreFiles, Files
    <3>4. LiveFileLinked'
      BY <1>a, <3>1, <3>2 DEF LiveFileLinked, Linked
    <3> QED BY <3>3, <3>4
  <2>3. ASSUME NEW p \in Paths, RemoveFile(p)  PROVE NamesAreFiles' /\ LiveFileLinked'
    <3> USE <2>3 DEF RemoveFile
    <3>1. \A q \in Paths : dir'[q] = IF q = p THEN NoFile ELSE dir[q]
      BY <1>0 DEF DiskTypeOK
    <3>2. NamesAreFiles'  BY <3>1 DEF LiveInv, NamesAreFiles
    <3>3. LiveFileLinked'
      <4>1. ASSUME Linked(writer)  PROVE Linked(writer)'
        <5>1. writer \in 1..created /\ name[writer] = writer /\ dir[name[writer]] = writer
          BY <4>1 DEF LiveInv, Linked, NamesAreFiles
        <5>2. name[writer] \in Paths
          BY <5>1, <1>0, <1>a, RecorderAssumption DEF OneWriter, Files
        <5>3. name[writer] # p  BY <5>1
        <5> QED BY <3>1, <5>1, <5>2, <5>3 DEF Linked
      <4>2. UNCHANGED writer  OBVIOUS
      <4> HIDE <1>2, <2>3 DEF RecorderStep, tailVars, RemoveFile
      <4> QED BY <4>1, <4>2, <1>b
    <3> QED BY <3>2, <3>3
  <2>4. CASE Tick \/ WriteMagic
             \/ \E t \in lastLog..clock, p \in PublishTimes : AppendRecord(t, p)
    <3>1. UNCHANGED <<created, name, dir, writer>>
      BY <2>4 DEF Tick, WriteMagic, AppendRecord
    <3> QED BY <2>1, <3>1, <1>b DEF LiveInv, NamesAreFiles, Linked
  <2>5. CASE CloseFile \/ AbandonFile
    BY <2>1, <2>5 DEF CloseFile, AbandonFile, LiveInv, NamesAreFiles, LiveFileLinked
  <2> QED BY <2>1, <2>2, <2>3, <2>4, <2>5 DEF RecorderNext, LiveInv
<1>3. CASE Prune
  <2> USE <1>3 DEF Prune
  <2>1. ToPrune \subseteq held  BY DEF ToPrune
  <2>2. unlinking' \subseteq (1..indexed') \ held'
    BY <1>0, <2>1 DEF TypeOK
  <2> QED BY <2>2, <1>b DEF disk, LiveInv, NamesAreFiles, Linked
<1>4. CASE Unlink
  <2> USE <1>4 DEF Unlink
  <2>1. PICK id \in unlinking :
          /\ dir' \in {dir, [dir EXCEPT ![name[rec[id].file]] = NoFile]}
          /\ unlinking' = unlinking \ {id}
    OBVIOUS
  <2> DEFINE g == rec[id].file
  <2>2. id \in (1..indexed) \ held  BY DEF LiveInv
  <2>3. g \in 1..created /\ g \in Files
    BY RecorderAssumption, <1>0, <1>a, <2>2 DEF IndexWellFormed, Files
  <2>4. name[g] = g /\ g \in Paths
    BY <1>0, <2>3 DEF LiveInv, NamesAreFiles, OneWriter
  <2>5. rec[id].state = "Ended"  BY <1>0, <2>2 DEF DroppedAreEnded
  <2>6. g = writer => ~Linked(g) \/ Misled(g)
    BY <1>0, <2>2, <2>5 DEF EndedIsDrained, Drained, Misled
  <2>7. /\ \A p \in Paths : dir'[p] \in {dir[p], NoFile}
        /\ \A p \in Paths : p # g => dir'[p] = dir[p]
    BY <1>0, <2>1, <2>4 DEF DiskTypeOK
  <2>8. NamesAreFiles'  BY <2>7 DEF LiveInv, NamesAreFiles
  <2>9. LiveFileLinked'
    <3>1. UNCHANGED <<created, name, writer>>  OBVIOUS
    <3>2. CASE g = writer
      <4>1. PICK f : f = writer  OBVIOUS
      <4>2. Misled(f) => Misled(f)'  BY MisledStays
      <4> QED BY <2>6, <3>1, <3>2, <4>1, <4>2 DEF LiveInv, LiveFileLinked, Misled
    <3>3. ASSUME g # writer, Linked(writer)  PROVE Linked(writer)'
      <4>1. writer \in 1..created /\ name[writer] = writer /\ dir[name[writer]] = writer
        BY <3>3 DEF LiveInv, NamesAreFiles, Linked
      <4>2. name[writer] \in Paths
          BY <4>1, <1>0, <1>a, RecorderAssumption DEF OneWriter, Files
      <4>3. dir'[name[writer]] = writer  BY <2>7, <3>3, <4>1, <4>2
      <4> QED BY <3>1, <4>1, <4>3 DEF Linked
    <3> HIDE <1>4 DEF Unlink
    <3> QED BY <3>1, <3>2, <3>3, <1>b
  <2>10. unlinking' \subseteq (1..indexed') \ held'  BY <2>1 DEF LiveInv
  <2> QED BY <2>8, <2>9, <2>10 DEF LiveInv
<1>5. ASSUME UNCHANGED <<disk, unlinking>>,
             (1..indexed) \ held \subseteq (1..indexed') \ held'
      PROVE  LiveInv'
  BY <1>5, <1>b DEF disk, LiveInv, NamesAreFiles, Linked
<1>6. CASE Adopt \/ Discover
  <2>1. UNCHANGED <<disk, unlinking>>  BY <1>6 DEF Adopt, Discover
  <2>2. (1..indexed) \ held \subseteq (1..indexed') \ held'
    <3>1. CASE UNCHANGED <<indexed, held>>  BY <3>1
    <3>2. CASE indexed' = indexed + 1 /\ held' = held \cup {indexed + 1}
      BY <3>2, <1>0 DEF TypeOK
    <3> QED BY <1>6, <3>1, <3>2 DEF Adopt, Discover, IndexRecording, InsertNewRecording
  <2> QED BY <2>1, <2>2, <1>5
<1>7. CASE UNCHANGED <<disk, unlinking, indexed, held>>  BY <1>7, <1>5
<1>8. CASE TailStep
  BY <1>8, <1>3, <1>4, <1>6, <1>7 DEF TailStep, AdoptNone, Seed, DiscoverNone, Unlinked,
     PollTooShort, NotReady, VanishedBeforeMagic, Measure, Scan, PublishCoverage,
     FaultRecovered, Faulted, Retire, KeepTailing
<1>9. CASE DirUnreadable \/ PollError
  BY <1>9, <1>7 DEF DirUnreadable, PollError
<1> QED BY <1>1, <1>2, <1>8, <1>9 DEF Next

(* Where names are not used again, --delete-old-files never removes the    *)
(* file a recorder is writing, unless the tail was misled about it.        *)
THEOREM LiveFileStays ==
    ASSUME ~ReuseNames
    PROVE  Spec => []LiveFileLinked
<1>1. Init => LiveInv
  BY RecorderAssumption DEF Init, RecorderInit, LiveInv, NamesAreFiles, LiveFileLinked
<1>2. IInv /\ LiveInv /\ [Next]_vars => LiveInv'  BY LiveNext
<1>3. LiveInv => LiveFileLinked  BY DEF LiveInv
<1> QED BY <1>1, <1>2, <1>3, Invariance, PTL DEF Spec
=============================================================================
