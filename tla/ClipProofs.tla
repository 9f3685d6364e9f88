----------------------------- MODULE ClipProofs -----------------------------
(***************************************************************************)
(* Theorems about Clip, for every value of its constants: any number of    *)
(* handlers and windows beside any recorder and the tail.                  *)
(***************************************************************************)
EXTENDS ClipInv, TailProofs, RankProofs

-----------------------------------------------------------------------------
LEMMA StampTypes ==
    ASSUME NEW R \in [Files -> Seq(Message)], NEW f \in Files
    PROVE  /\ R[f] \in Seq(Message) /\ Len(R[f]) \in Nat
           /\ \A k \in 1..Len(R[f]) : R[f][k].log \in Nat
<1>1. R[f] \in Seq(Message) /\ Len(R[f]) \in Nat  OBVIOUS
<1>2. \A k \in 1..Len(R[f]) : R[f][k] \in Message  BY <1>1
<1> QED BY <1>1, <1>2 DEF Message

(* What handlers see of a step of the tail or the recorder: files only     *)
(* grow, what is added is stamped no earlier than all before, and the mark *)
(* does not fall.                                                          *)
Grows ==
    /\ \A f \in Files : Len(recs[f]) <= Len(recs'[f])
    /\ \A f \in Files : \A k \in 1..Len(recs'[f]) :
         \/ k \in 1..Len(recs[f]) /\ recs'[f][k] = recs[f][k]
         \/ recs'[f][k].log >= lastLog
    /\ coverage'.log >= coverage.log

LEMMA StepGrows ==
    ASSUME IInv, [Next]_vars
    PROVE  Grows
<1>0. TypeOK /\ DiskTypeOK /\ lastLog \in Nat /\ coverage.log \in Nat
  BY RecorderAssumption DEF IInv, TypeOK, DiskTypeOK, Time
<1>1. coverage'.log >= coverage.log
  <2>1. CASE PublishCoverage  BY <2>1, PublishKeeps
  <2>2. CASE coverage' = coverage  BY <2>2, <1>0
  <2> QED
    BY <2>1, <2>2 DEF Next, TailStep, RecorderStep, tailVars, vars, AdoptNone, Adopt, Seed, Discover,
       DiscoverNone, Prune, Unlink, Unlinked, PollTooShort, NotReady, VanishedBeforeMagic,
       Measure, Scan, FaultRecovered, Faulted, Retire, KeepTailing, DirUnreadable, PollError
<1>2. CASE UNCHANGED recs
  <2>1. \A f \in Files : Len(recs[f]) \in Nat  BY <1>0 DEF DiskTypeOK
  <2> QED BY <1>1, <1>2, <2>1 DEF Grows
<1>3. ASSUME NEW t \in lastLog..clock, NEW p \in PublishTimes, AppendRecord(t, p)
      PROVE  Grows
  <2> USE <1>3 DEF AppendRecord
  <2> DEFINE m == [log |-> t, pub |-> p]
  <2>1. t \in Nat /\ t >= lastLog  BY <1>0 DEF DiskTypeOK, Time
  <2>2. \A f \in Files : recs[f] \in Seq(Message)  BY <1>0 DEF DiskTypeOK
  <2>3. \A f \in Files : recs'[f] = IF f = writer THEN Append(recs[f], m) ELSE recs[f]
    BY <1>0 DEF DiskTypeOK
  <2>4. ASSUME NEW f \in Files
        PROVE  /\ Len(recs[f]) <= Len(recs'[f])
               /\ \A k \in 1..Len(recs'[f]) :
                    \/ k \in 1..Len(recs[f]) /\ recs'[f][k] = recs[f][k]
                    \/ recs'[f][k].log >= lastLog
    <3>1. CASE f # writer  BY <3>1, <2>2, <2>3
    <3>2. CASE f = writer
      <4>1. recs'[f] = Append(recs[f], m) /\ recs[f] \in Seq(Message)  BY <3>2, <2>2, <2>3
      <4>2. /\ Len(recs'[f]) = Len(recs[f]) + 1 /\ Len(recs[f]) \in Nat
            /\ \A k \in 1..Len(recs[f]) : recs'[f][k] = recs[f][k]
            /\ recs'[f][Len(recs[f]) + 1] = m
        BY <4>1
      <4>3. m.log >= lastLog  BY <2>1
      <4> QED BY <4>2, <4>3
    <3> QED BY <3>1, <3>2
  <2> QED BY <2>4, <1>1 DEF Grows
<1>4. CASE RecorderStep
  BY <1>2, <1>3, <1>4 DEF RecorderStep, RecorderNext, Tick, OpenFile, WriteMagic, CloseFile,
     AbandonFile, RemoveFile
<1>5. CASE TailStep \/ DirUnreadable \/ PollError
  BY <1>2, <1>5 DEF TailStep, disk, AdoptNone, Adopt, Seed, Discover, DiscoverNone, Prune, Unlink,
     Unlinked, PollTooShort, NotReady, VanishedBeforeMagic, Measure, Scan, PublishCoverage,
     FaultRecovered, Faulted, Retire, KeepTailing, DirUnreadable, PollError
<1>6. CASE UNCHANGED vars  BY <1>2, <1>6 DEF vars, disk
<1> QED BY <1>4, <1>5, <1>6 DEF Next

(* The mark is the stamp of a record, so what is yet to come is stamped    *)
(* no earlier.                                                             *)
LEMMA MarkIsPast ==
    ASSUME IInv
    PROVE  coverage.log <= lastLog
<1>0. /\ TypeOK /\ DiskTypeOK /\ StampsSorted /\ IndexWellFormed /\ MarkIsRead
      /\ lastLog \in Nat /\ coverage.log \in Nat
  BY RecorderAssumption DEF IInv, TypeOK, DiskTypeOK, Time, DiskInv, TailInvariant
<1>1. CASE coverage.log = 0  BY <1>0, <1>1
<1>2. CASE coverage.log > 0
  <2>1. PICK id \in 1..indexed : \E k \in 1..rec[id].offset :
          recs[rec[id].file][k].log = coverage.log
    BY <1>0, <1>2 DEF MarkIsRead
  <2>2. PICK k \in 1..rec[id].offset : recs[rec[id].file][k].log = coverage.log
    BY <2>1
  <2>3. /\ rec[id].file \in Files /\ rec[id].offset \in Nat
        /\ rec[id].offset <= Len(recs[rec[id].file])
    BY <1>0, TypeFacts DEF IndexWellFormed, Recording
  <2>4. recs[rec[id].file] \in Seq(Message)  BY <1>0, <2>3 DEF DiskTypeOK
  <2>5. k \in 1..Len(recs[rec[id].file])  BY <2>3, <2>4
  <2> QED BY <1>0, <2>2, <2>3, <2>5 DEF StampsSorted
<1> QED BY <1>0, <1>1, <1>2

-----------------------------------------------------------------------------
(* Steps of the tail and the recorder under handlers that wait.            *)
LEMMA TailKeepsClip ==
    ASSUME ClipInvariant, IInv, IInv', [Next]_vars, UNCHANGED handlerVars
    PROVE  ClipInvariant'
<1> USE DEF handlerVars
<1>0. /\ ClipTypeOK /\ PlansInOrder /\ ClipInOrder /\ ReleasedIsCovered /\ NotYet
      /\ PlanComplete /\ CutComplete
  BY DEF ClipInvariant
<1>1. Grows  BY StepGrows
<1>2. DiskTypeOK /\ DiskTypeOK' /\ lastLog \in Nat /\ coverage.log \in Nat /\ coverage'.log \in Nat
  BY SMTT(20), RecorderAssumption DEF IInv, TypeOK, DiskTypeOK, Time
<1>3. /\ \A f \in Files : Len(recs[f]) \in Nat /\ Len(recs'[f]) \in Nat
      /\ \A f \in Files : \A k \in 1..Len(recs'[f]) : recs'[f][k].log \in Nat
  <2>1. recs \in [Files -> Seq(Message)] /\ recs' \in [Files -> Seq(Message)]
    BY <1>2 DEF DiskTypeOK
  <2> QED BY <2>1, StampTypes
<1>4. /\ \A h \in Handlers : window[h].to \in Nat
      /\ \A h \in Handlers : atPlan[h].files \subseteq Files
      /\ \A h \in Handlers : \A i \in DOMAIN plans[h] :
           plans[h][i].file \in Files /\ plans[h][i].upto \in Nat
  <2> SUFFICES ASSUME NEW h \in Handlers
               PROVE  /\ window[h].to \in Nat /\ atPlan[h].files \subseteq Files
                      /\ \A i \in DOMAIN plans[h] :
                           plans[h][i].file \in Files /\ plans[h][i].upto \in Nat
    OBVIOUS
  <2>1. window[h] \in [from : Time, to : Time] /\ atPlan[h] \in [clock : Time, files : SUBSET Files]
    BY <1>0 DEF ClipTypeOK
  <2>2. plans[h] \in Seq([file : Files, upto : Nat])  BY <1>0 DEF ClipTypeOK
  <2>3. \A i \in DOMAIN plans[h] : plans[h][i] \in [file : Files, upto : Nat]
    BY <2>2, SeqElements
  <2> QED BY <2>1, <2>3, RecorderAssumption DEF Time
<1>5. ClipTypeOK'  BY <1>0 DEF ClipTypeOK
<1>a. overlooked \subseteq overlooked'  BY IndexGrows
<1>6. PlansInOrder'  BY <1>0, <1>1, <1>3, <1>4, <1>a DEF PlansInOrder, Grows
<1>7. ClipInOrder'
  <2>1. \A f \in Files : 1..Len(recs[f]) \subseteq 1..Len(recs'[f])
    BY <1>1, <1>3 DEF Grows
  <2> QED BY <1>0, <1>a, <2>1 DEF ClipInOrder
<1>8. ReleasedIsCovered'
  BY <1>0, <1>1, <1>2, <1>4 DEF ReleasedIsCovered, InTime, Grows
<1>9. NotYet'  BY <1>0 DEF NotYet
<1>10. ASSUME NEW h \in Handlers, InTime(h), NEW f \in Files, NEW k \in 1..Len(recs'[f]),
              recs'[f][k].log < window[h].to
       PROVE  k \in 1..Len(recs[f]) /\ recs'[f][k] = recs[f][k]
  <2>1. window[h].to <= lastLog
    BY <1>0, <1>2, <1>4, <1>10, MarkIsPast DEF ReleasedIsCovered
  <2>2. ~(recs'[f][k].log >= lastLog)  BY <1>2, <1>3, <1>4, <1>10, <2>1
  <2> QED BY <1>1, <2>2 DEF Grows
<1>11. PlanComplete'
  <2> SUFFICES ASSUME NEW h \in Handlers, phase[h] = "stage", InTime(h),
                      NEW f \in atPlan[h].files, NEW k \in 1..Len(recs'[f]), Owed(h, f, k)'
               PROVE  Planned(h, f, k)'
    BY DEF PlanComplete, InTime
  <2>1. k \in 1..Len(recs[f]) /\ recs'[f][k] = recs[f][k]
    BY <1>4, <1>10 DEF Owed
  <2>2. Owed(h, f, k)  BY <2>1 DEF Owed
  <2> QED BY <1>0, <2>1, <2>2 DEF PlanComplete, Planned
<1>12. CutComplete'
  <2> SUFFICES ASSUME NEW h \in Handlers, phase[h] = "cut", InTime(h),
                      NEW f \in atPlan[h].files, NEW k \in 1..Len(recs'[f]), Owed(h, f, k)'
               PROVE  InClip(h, f, k)'
    BY DEF CutComplete, InTime, Owed
  <2>1. k \in 1..Len(recs[f]) /\ recs'[f][k] = recs[f][k]
    BY <1>4, <1>10 DEF Owed
  <2>2. Owed(h, f, k)  BY <2>1 DEF Owed
  <2> QED BY <1>0, <2>1, <2>2 DEF CutComplete, InClip, InTime, Owed
<1> QED BY <1>5, <1>6, <1>7, <1>8, <1>9, <1>11, <1>12 DEF ClipInvariant

-----------------------------------------------------------------------------
(* The snapshot names what was indexed of the overlapping recordings,      *)
(* oldest first.                                                           *)
LEMMA SnapshotFacts ==
    ASSUME IInv, NEW S \in SUBSET held
    PROVE  /\ SnapshotOf(S) \in Seq([file : Files, upto : Nat])
           /\ \A i \in DOMAIN SnapshotOf(S) :
                SnapshotOf(S)[i].upto <= Len(recs[SnapshotOf(S)[i].file])
           /\ \A i, j \in DOMAIN SnapshotOf(S) :
                i < j => \/ SnapshotOf(S)[i].file < SnapshotOf(S)[j].file
                         \/ SnapshotOf(S)[j].file \in overlooked
           /\ \A id \in S : \E i \in DOMAIN SnapshotOf(S) :
                SnapshotOf(S)[i] = [file |-> rec[id].file, upto |-> rec[id].offset]
<1>0. TypeOK /\ IndexWellFormed /\ EntriesInTurn  BY DEF IInv, TailInvariant
<1>1. indexed \in Nat /\ S \in SUBSET (1..indexed)  BY <1>0, TypeFacts DEF TypeOK
<1>2. IsFiniteSet(S) /\ S \in SUBSET Nat
  <2>1. IsFiniteSet(1..indexed)  BY <1>1, FS_Interval
  <2>2. IsFiniteSet(S)  BY <1>1, <2>1, FS_Subset
  <2> QED BY <1>1, <2>2
<1>3. Cardinality(S) \in Nat  BY <1>2, FS_CardinalityType
<1>4. \A i \in 1..Cardinality(S) : Nth(S, i) \in S  BY <1>2, NthMember
<1>5. \A i \in 1..Cardinality(S) :
        SnapshotOf(S)[i] = [file |-> rec[Nth(S, i)].file, upto |-> rec[Nth(S, i)].offset]
  BY DEF SnapshotOf, PlanOrder
<1>a. \A i \in 1..Cardinality(S) :
        /\ SnapshotOf(S)[i].file = rec[Nth(S, i)].file
        /\ SnapshotOf(S)[i].upto = rec[Nth(S, i)].offset
  BY DEF SnapshotOf, PlanOrder
<1>6. \A id \in S : /\ rec[id].file \in Files /\ rec[id].offset \in Nat
                    /\ rec[id].offset <= Len(recs[rec[id].file])
  BY <1>0, <1>1, TypeFacts DEF IndexWellFormed, Recording
<1>7. SnapshotOf(S) \in [1..Cardinality(S) -> [file : Files, upto : Nat]]
  BY <1>4, <1>6 DEF SnapshotOf, PlanOrder
<1>8. SnapshotOf(S) \in Seq([file : Files, upto : Nat]) /\ DOMAIN SnapshotOf(S) = 1..Cardinality(S)
  BY <1>3, <1>7, FunctionIsSeq
<1>9. \A i, j \in 1..Cardinality(S) :
        i < j => \/ SnapshotOf(S)[i].file < SnapshotOf(S)[j].file
                 \/ SnapshotOf(S)[j].file \in overlooked
  <2> SUFFICES ASSUME NEW i \in 1..Cardinality(S), NEW j \in 1..Cardinality(S), i < j
               PROVE  \/ SnapshotOf(S)[i].file < SnapshotOf(S)[j].file
                      \/ SnapshotOf(S)[j].file \in overlooked
    OBVIOUS
  <2>1. Nth(S, i) < Nth(S, j)  BY <1>2, NthRises
  <2>2. Nth(S, i) \in 1..indexed /\ Nth(S, j) \in 1..indexed  BY <1>1, <1>4
  <2>3. rec[Nth(S, i)].file < rec[Nth(S, j)].file \/ rec[Nth(S, j)].file \in overlooked
    BY <1>0, <2>1, <2>2 DEF EntriesInTurn
  <2> QED BY <1>a, <2>3
<1>10. \A id \in S : \E i \in 1..Cardinality(S) : Nth(S, i) = id
  BY <1>2, MemberIsNth
<1> QED BY <1>4, <1>5, <1>6, <1>8, <1>9, <1>10

(* Coverage past the window and retention by age: the snapshot taken then  *)
(* has all of it.                                                          *)
LEMMA PlanIsComplete ==
    ASSUME ClipInvariant, IInv, NEW h \in Handlers, PlanWindow(h), InTime(h),
           NEW f \in Present \ (Skipped \cup overlooked), NEW k \in 1..Len(recs[f]),
           window[h].from <= recs[f][k].log, recs[f][k].log < window[h].to,
           clock <= recs[f][k].log + Watch
    PROVE  \E id \in held : /\ Overlaps(id, window[h])
                            /\ rec[id].file = f /\ k <= rec[id].offset
<1>0. /\ TypeOK /\ DiskTypeOK /\ IndexWellFormed /\ PrunedIsAged
      /\ f \in 1..created /\ Linked(f) /\ f \in Files
      /\ coverage.log \in Nat /\ clock \in Nat /\ Source = "log"
  <2>1. TypeOK /\ IndexWellFormed /\ PrunedIsAged  BY DEF IInv, TailInvariant
  <2>2. DiskTypeOK /\ coverage.log \in Nat  BY <2>1 DEF TypeOK
  <2>3. created \in 0..MaxFiles /\ clock \in Nat
    BY <2>2, RecorderAssumption DEF DiskTypeOK, Time
  <2>4. f \in 1..created /\ Linked(f)  BY DEF Present
  <2>5. f \in Files  BY <2>3, <2>4, RecorderAssumption DEF Files
  <2> QED BY <2>1, <2>2, <2>3, <2>4, <2>5 DEF InTime
<1>1. recs[f][k].log \in Nat /\ Len(recs[f]) \in Nat  BY <1>0, TypeFacts
<1>2. window[h].to \in Nat /\ window[h].from \in Nat /\ coverage.log >= window[h].to
  BY RecorderAssumption DEF ClipInvariant, ClipTypeOK, Time, ReleasedIsCovered
<1>3. recs[f][k].log < coverage.log  BY <1>0, <1>1, <1>2
<1>4. f \notin Skipped \cup overlooked  OBVIOUS
<1>5. PICK id \in 1..indexed : rec[id].file = f /\ InTurn(id) /\ k <= rec[id].offset
  BY <1>0, <1>3, <1>4, CoveredIsRead
<1>6. id \in held
  BY <1>0, <1>1, <1>5, TailAssumption DEF PrunedIsAged
<1>7. k \in 1..rec[id].offset  BY <1>0, <1>1, <1>5, TypeFacts DEF Recording
<1>8. recs[f][k] \in Scanned(id)  BY <1>5, <1>7 DEF Scanned
<1>9. Overlaps(id, window[h])
  BY <1>0, <1>1, <1>2, <1>8 DEF Overlaps, StampOf
<1> QED BY <1>5, <1>6, <1>9

(* The snapshot.                                                           *)
LEMMA PlanKeepsClip ==
    ASSUME ClipInvariant, IInv, NEW h \in Handlers, PlanWindow(h)
    PROVE  ClipInvariant'
<1> USE DEF PlanWindow
<1> DEFINE S == {id \in held : Overlaps(id, window[h])}
<1>0. /\ ClipTypeOK /\ PlansInOrder /\ ClipInOrder /\ ReleasedIsCovered /\ NotYet
      /\ PlanComplete /\ CutComplete
  BY DEF ClipInvariant
<1>1. UNCHANGED <<vars, window, released, clip>> /\ phase[h] = "plan"  OBVIOUS
<1>2. UNCHANGED <<clock, recs, rec, coverage, seen, overlooked, indexed, created, dir,
                  name, held>>
  BY <1>1 DEF vars, disk, tailVars, listing
<1>3. /\ plans' = [plans EXCEPT ![h] = SnapshotOf(S)]
      /\ atPlan' = [atPlan EXCEPT ![h] = [clock |-> clock, files |-> Present \ (Skipped \cup overlooked)]]
      /\ phase' = [phase EXCEPT ![h] = "stage"]
  OBVIOUS
<1>4. /\ \A g \in Handlers : plans'[g] = IF g = h THEN SnapshotOf(S) ELSE plans[g]
      /\ \A g \in Handlers : atPlan'[g] = IF g = h THEN [clock |-> clock, files |-> Present \ (Skipped \cup overlooked)]
                                         ELSE atPlan[g]
      /\ \A g \in Handlers : phase'[g] = IF g = h THEN "stage" ELSE phase[g]
  BY <1>0, <1>3 DEF ClipTypeOK
<1> HIDE DEF PlanWindow, S
<1>5. S \in SUBSET held  BY DEF S
<1>6. ClipTypeOK'
  <2>1. clock \in Time /\ Present \ (Skipped \cup overlooked) \in SUBSET Files
    BY RecorderAssumption DEF IInv, TypeOK, DiskTypeOK, Present, Files
  <2>2. SnapshotOf(S) \in Seq([file : Files, upto : Nat])  BY <1>5, SnapshotFacts
  <2>3. plans' \in [Handlers -> Seq([file : Files, upto : Nat])]
    BY <1>0, <1>3, <2>2 DEF ClipTypeOK
  <2>4. atPlan' \in [Handlers -> [clock : Time, files : SUBSET Files]]
    BY <1>0, <1>3, <2>1 DEF ClipTypeOK
  <2>5. phase' \in [Handlers -> {"idle", "postroll", "coverage", "plan", "stage", "cut"}]
    BY <1>0, <1>3 DEF ClipTypeOK
  <2> QED BY <1>0, <1>1, <1>4, <2>3, <2>4, <2>5 DEF ClipTypeOK
<1>7. PlansInOrder'
  <2> SUFFICES ASSUME NEW g \in Handlers
               PROVE  /\ \A i \in DOMAIN plans'[g] :
                           plans'[g][i].upto <= Len(recs[plans'[g][i].file])
                      /\ \A i, j \in DOMAIN plans'[g] :
                           i < j => \/ plans'[g][i].file < plans'[g][j].file
                                    \/ plans'[g][j].file \in overlooked
    BY <1>2 DEF PlansInOrder
  <2>1. CASE g = h  BY <2>1, <1>4, <1>5, SnapshotFacts
  <2>2. CASE g # h  BY <2>2, <1>0, <1>4 DEF PlansInOrder
  <2> QED BY <2>1, <2>2
<1>8. ClipInOrder'  BY <1>0, <1>1, <1>2 DEF ClipInOrder
<1>9. ReleasedIsCovered'  BY <1>0, <1>1, <1>2 DEF ReleasedIsCovered, InTime
<1>10. NotYet'  BY <1>0, <1>1, <1>4 DEF NotYet
<1>11. PlanComplete'
  <2> SUFFICES ASSUME NEW g \in Handlers, phase'[g] = "stage", InTime(g),
                      NEW f \in atPlan'[g].files, NEW k \in 1..Len(recs[f]), Owed(g, f, k)'
               PROVE  Planned(g, f, k)'
    BY <1>1, <1>2 DEF PlanComplete, InTime
  <2>1. CASE g = h
    <3>1. f \in Present \ (Skipped \cup overlooked) /\ atPlan'[h].clock = clock  BY <2>1, <1>4
    <3>2. /\ window[h].from <= recs[f][k].log /\ recs[f][k].log < window[h].to
          /\ clock <= recs[f][k].log + Watch
      BY <2>1, <3>1, <1>1, <1>2 DEF Owed
    <3>3. PICK id \in S : rec[id].file = f /\ k <= rec[id].offset
      BY <2>1, <3>1, <3>2, PlanIsComplete DEF S
    <3>4. PICK i \in DOMAIN SnapshotOf(S) :
            SnapshotOf(S)[i] = [file |-> rec[id].file, upto |-> rec[id].offset]
      BY <1>5, SnapshotFacts
    <3> QED BY <2>1, <1>4, <3>3, <3>4 DEF Planned
  <2>2. CASE g # h
    <3>1. phase[g] = "stage" /\ f \in atPlan[g].files /\ Owed(g, f, k)
      BY <2>2, <1>1, <1>2, <1>4 DEF Owed
    <3>2. Planned(g, f, k)  BY <1>0, <3>1 DEF PlanComplete
    <3> QED BY <2>2, <3>2, <1>4 DEF Planned
  <2> QED BY <2>1, <2>2
<1>12. CutComplete'
  <2> SUFFICES ASSUME NEW g \in Handlers, phase'[g] = "cut", InTime(g),
                      NEW f \in atPlan'[g].files, NEW k \in 1..Len(recs[f]), Owed(g, f, k)'
               PROVE  InClip(g, f, k)'
    BY <1>1, <1>2 DEF CutComplete, InTime, Owed
  <2>1. g # h /\ phase[g] = "cut"  BY <1>4
  <2>2. f \in atPlan[g].files /\ Owed(g, f, k)  BY <2>1, <1>1, <1>2, <1>4 DEF Owed
  <2>3. InClip(g, f, k)  BY <1>0, <2>1, <2>2 DEF CutComplete, InTime, Owed
  <2> QED BY <2>3, <1>1 DEF InClip
<1> QED BY <1>6, <1>7, <1>8, <1>9, <1>10, <1>11, <1>12 DEF ClipInvariant

-----------------------------------------------------------------------------
(* Dropping empty segments keeps the full ones, in order, and always one.  *)
LEMMA KeptFacts ==
    ASSUME NEW T, NEW segments \in Seq(SUBSET T)
    PROVE  /\ Kept(segments) \in Seq(SUBSET T) /\ Len(Kept(segments)) > 0
           /\ \A i \in DOMAIN segments : segments[i] # {} =>
                \E n \in DOMAIN Kept(segments) : Kept(segments)[n] = segments[i]
           /\ \A m, n \in DOMAIN Kept(segments) : m < n =>
                \E i, j \in DOMAIN segments :
                    i < j /\ Kept(segments)[m] = segments[i] /\ Kept(segments)[n] = segments[j]
           /\ \A n \in DOMAIN Kept(segments) : Kept(segments)[n] = {} \/
                \E i \in DOMAIN segments : Kept(segments)[n] = segments[i]
<1> DEFINE F == Full(segments)  R == Retain(segments, F)
<1>1. CASE F = {}
  <2>1. Kept(segments) = << {} >>  BY <1>1 DEF Kept
  <2>2. \A i \in DOMAIN segments : segments[i] = {}  BY <1>1 DEF Full
  <2> QED BY <2>1, <2>2
<1>2. CASE F # {}
  <2>1. Kept(segments) = R  BY <1>2 DEF Kept
  <2>2. F \in SUBSET DOMAIN segments  BY DEF Full
  <2>3. /\ IsFiniteSet(F) /\ F \in SUBSET Nat /\ Cardinality(F) \in Nat
        /\ R \in Seq(SUBSET T) /\ Len(R) = Cardinality(F) /\ DOMAIN R = 1..Cardinality(F)
        /\ \A n \in 1..Cardinality(F) : Nth(F, n) \in F /\ R[n] = segments[Nth(F, n)]
    BY <2>2, RetainType
  <2>4. Cardinality(F) > 0  BY <1>2, <2>3, FS_EmptySet
  <2>5. \A i \in F : \E n \in 1..Cardinality(F) : Nth(F, n) = i  BY <2>3, MemberIsNth
  <2>6. \A m, n \in 1..Cardinality(F) : m < n => Nth(F, m) < Nth(F, n)  BY <2>3, NthRises
  <2>7. \A i \in DOMAIN segments : segments[i] # {} => i \in F  BY DEF Full
  <2> HIDE DEF F, R
  <2>8. \A i \in DOMAIN segments : segments[i] # {} => \E n \in DOMAIN R : R[n] = segments[i]
    BY <2>3, <2>5, <2>7
  <2>9. \A m, n \in DOMAIN R : m < n =>
          \E i, j \in DOMAIN segments : i < j /\ R[m] = segments[i] /\ R[n] = segments[j]
    BY <2>2, <2>3, <2>6
  <2>10. \A n \in DOMAIN R : \E i \in DOMAIN segments : R[n] = segments[i]  BY <2>2, <2>3
  <2> QED BY <2>1, <2>3, <2>4, <2>8, <2>9, <2>10
<1> QED BY <1>1, <1>2

(* The copy.                                                               *)
LEMMA StageKeepsClip ==
    ASSUME ClipInvariant, IInv, NEW h \in Handlers, StageSegments(h)
    PROVE  ClipInvariant'
<1> USE DEF StageSegments
<1> DEFINE segments == [i \in DOMAIN plans[h] |-> Copied(plans[h][i], window[h])]
           C == Kept(segments)
<1>0. /\ ClipTypeOK /\ PlansInOrder /\ ClipInOrder /\ ReleasedIsCovered /\ NotYet
      /\ PlanComplete /\ CutComplete
  BY DEF ClipInvariant
<1>1. UNCHANGED <<vars, window, released, atPlan, plans>> /\ phase[h] = "stage"  OBVIOUS
<1>2. UNCHANGED <<clock, recs, rec, coverage, overlooked>>  BY <1>1 DEF vars, disk, tailVars, listing
<1>3. /\ clip' = [clip EXCEPT ![h] = C]
      /\ phase' = [phase EXCEPT ![h] = "cut"]
  OBVIOUS
<1>4. /\ \A g \in Handlers : clip'[g] = IF g = h THEN C ELSE clip[g]
      /\ \A g \in Handlers : phase'[g] = IF g = h THEN "cut" ELSE phase[g]
  BY <1>0, <1>3 DEF ClipTypeOK
<1> HIDE DEF StageSegments
<1>5. /\ plans[h] \in Seq([file : Files, upto : Nat]) /\ Len(plans[h]) \in Nat
      /\ DOMAIN plans[h] = 1..Len(plans[h])
      /\ \A i \in DOMAIN plans[h] : plans[h][i].file \in Files /\ plans[h][i].upto \in Nat
  <2>1. plans[h] \in Seq([file : Files, upto : Nat])  BY <1>0 DEF ClipTypeOK
  <2>2. \A i \in DOMAIN plans[h] : plans[h][i] \in [file : Files, upto : Nat]
    BY <2>1, SeqElements
  <2> QED BY <2>1, <2>2, SeqElements
<1>6. \A i \in DOMAIN plans[h] : \A m \in Copied(plans[h][i], window[h]) :
        /\ m[1] = plans[h][i].file /\ m[1] \in Files
        /\ m[2] \in 1..plans[h][i].upto /\ m \in Files \X Nat
  BY <1>5 DEF Copied
<1>7. segments \in Seq(SUBSET (Files \X Nat)) /\ DOMAIN segments = DOMAIN plans[h]
  <2>1. segments \in [1..Len(plans[h]) -> SUBSET (Files \X Nat)]  BY <1>5, <1>6
  <2> QED BY <1>5, <2>1, FunctionIsSeq
<1> HIDE DEF C
<1>8. /\ C \in Seq(SUBSET (Files \X Nat)) /\ Len(C) > 0
      /\ \A i \in DOMAIN segments : segments[i] # {} => \E n \in DOMAIN C : C[n] = segments[i]
      /\ \A m, n \in DOMAIN C : m < n =>
           \E i, j \in DOMAIN segments : i < j /\ C[m] = segments[i] /\ C[n] = segments[j]
      /\ \A n \in DOMAIN C : C[n] = {} \/ \E i \in DOMAIN segments : C[n] = segments[i]
  <2> HIDE DEF segments
  <2> QED BY <1>7, KeptFacts DEF C
<1>9. \A i \in DOMAIN plans[h] : segments[i] = Copied(plans[h][i], window[h])  OBVIOUS
<1> HIDE DEF segments
<1>10. ClipTypeOK'
  <2>1. clip' \in [Handlers -> Seq(SUBSET (Files \X Nat))]  BY <1>0, <1>3, <1>8 DEF ClipTypeOK
  <2>2. phase' \in [Handlers -> {"idle", "postroll", "coverage", "plan", "stage", "cut"}]
    BY <1>0, <1>3 DEF ClipTypeOK
  <2>3. \A g \in Handlers : phase'[g] = "cut" => Len(clip'[g]) > 0
    BY <1>0, <1>4, <1>8 DEF ClipTypeOK
  <2> QED BY <1>0, <1>1, <2>1, <2>2, <2>3 DEF ClipTypeOK
<1>11. PlansInOrder'  BY <1>0, <1>1, <1>2 DEF PlansInOrder
<1>12. ClipInOrder'
  <2>1. \A n \in DOMAIN C : \A m \in C[n] : m[1] \in Files /\ m[2] \in 1..Len(recs[m[1]])
    <3> SUFFICES ASSUME NEW n \in DOMAIN C, NEW m \in C[n]
                 PROVE  m[1] \in Files /\ m[2] \in 1..Len(recs[m[1]])
      OBVIOUS
    <3>1. PICK i \in DOMAIN plans[h] : C[n] = Copied(plans[h][i], window[h])
      BY <1>7, <1>8, <1>9
    <3>2. m[1] = plans[h][i].file /\ m[1] \in Files /\ m[2] \in 1..plans[h][i].upto
      BY <1>6, <3>1
    <3>3. plans[h][i].upto <= Len(recs[m[1]]) /\ plans[h][i].upto \in Nat
      BY <1>0, <1>5, <3>2 DEF PlansInOrder
    <3>4. Len(recs[m[1]]) \in Nat  BY <3>2, TypeFacts DEF IInv, TailInvariant
    <3> QED BY <3>2, <3>3, <3>4
  <2>2. \A i, j \in DOMAIN C : i < j => \A m \in C[i], n \in C[j] :
          m[1] < n[1] \/ n[1] \in overlooked
    <3> SUFFICES ASSUME NEW i \in DOMAIN C, NEW j \in DOMAIN C, i < j,
                        NEW m \in C[i], NEW n \in C[j]
                 PROVE  m[1] < n[1] \/ n[1] \in overlooked
      OBVIOUS
    <3>1. PICK k, l \in DOMAIN plans[h] :
            /\ k < l /\ C[i] = Copied(plans[h][k], window[h])
            /\ C[j] = Copied(plans[h][l], window[h])
      BY <1>7, <1>8, <1>9
    <3>2. m[1] = plans[h][k].file /\ n[1] = plans[h][l].file  BY <1>6, <3>1
    <3> QED BY <1>0, <3>1, <3>2 DEF PlansInOrder
  <2> SUFFICES ASSUME NEW g \in Handlers
               PROVE  /\ \A i \in DOMAIN clip'[g] : \A m \in clip'[g][i] :
                           m[1] \in Files /\ m[2] \in 1..Len(recs[m[1]])
                      /\ \A i, j \in DOMAIN clip'[g] : i < j =>
                           \A m \in clip'[g][i], n \in clip'[g][j] :
                             m[1] < n[1] \/ n[1] \in overlooked
    BY <1>2 DEF ClipInOrder
  <2>3. CASE g = h  BY <2>1, <2>2, <2>3, <1>4
  <2>4. CASE g # h  BY <2>4, <1>0, <1>4 DEF ClipInOrder
  <2> QED BY <2>3, <2>4
<1>13. ReleasedIsCovered'  BY <1>0, <1>1, <1>2 DEF ReleasedIsCovered, InTime
<1>14. NotYet'  BY <1>0, <1>1, <1>4 DEF NotYet
<1>15. PlanComplete'
  <2> SUFFICES ASSUME NEW g \in Handlers, phase'[g] = "stage", InTime(g),
                      NEW f \in atPlan[g].files, NEW k \in 1..Len(recs[f]), Owed(g, f, k)'
               PROVE  Planned(g, f, k)'
    BY <1>1, <1>2 DEF PlanComplete, InTime
  <2>1. phase[g] = "stage" /\ Owed(g, f, k)  BY <1>1, <1>2, <1>4 DEF Owed
  <2> QED BY <1>0, <1>1, <2>1 DEF PlanComplete, Planned
<1>16. CutComplete'
  <2> SUFFICES ASSUME NEW g \in Handlers, phase'[g] = "cut", InTime(g),
                      NEW f \in atPlan[g].files, NEW k \in 1..Len(recs[f]), Owed(g, f, k)
               PROVE  InClip(g, f, k)'
    BY <1>1, <1>2 DEF CutComplete, InTime, Owed
  <2>1. CASE g = h
    <3>1. PICK i \in DOMAIN plans[h] : plans[h][i].file = f /\ k <= plans[h][i].upto
      BY <2>1, <1>0, <1>1 DEF PlanComplete, Planned
    <3>2. k \in 1..plans[h][i].upto  BY <1>5, <3>1
    <3>3. InWindow(recs[f][k], window[h])
      <4>1. f \in Files
        BY <3>1, <1>5
      <4>2. recs[f][k].log \in Nat /\ window[h].to \in Nat
        <5>1. recs[f][k].log \in Nat  BY <4>1, TypeFacts DEF IInv, TailInvariant
        <5>2. window[h].to \in Nat  BY <1>0, RecorderAssumption DEF ClipTypeOK, Time
        <5> QED BY <5>1, <5>2
      <4> QED BY <2>1, <4>2 DEF Owed, InTime, InWindow, StampOf
    <3>4. <<f, k>> \in Copied(plans[h][i], window[h])  BY <3>1, <3>2, <3>3 DEF Copied
    <3>5. PICK n \in DOMAIN C : C[n] = Copied(plans[h][i], window[h])
      BY <1>7, <1>8, <1>9, <3>4
    <3> QED BY <2>1, <1>4, <3>4, <3>5 DEF InClip
  <2>2. CASE g # h
    <3>1. InClip(g, f, k)  BY <2>2, <1>0, <1>4 DEF CutComplete, InTime, Owed
    <3> QED BY <2>2, <3>1, <1>4 DEF InClip
  <2> QED BY <2>1, <2>2
<1> QED BY <1>10, <1>11, <1>12, <1>13, <1>14, <1>15, <1>16 DEF ClipInvariant
-----------------------------------------------------------------------------
(* The steps of a handler before its snapshot.                             *)
LEMMA WaitKeepsClip ==
    ASSUME ClipInvariant, IInv, NEW h \in Handlers,
           Fire(h) \/ PostrollPassed(h) \/ Covered(h) \/ GraceExpires(h)
    PROVE  ClipInvariant'
<1>0. /\ ClipTypeOK /\ PlansInOrder /\ ClipInOrder /\ ReleasedIsCovered /\ NotYet
      /\ PlanComplete /\ CutComplete
  BY DEF ClipInvariant
<1>1. UNCHANGED <<vars, atPlan, plans, clip>>
  BY DEF Fire, PostrollPassed, Covered, GraceExpires
<1>2. UNCHANGED <<clock, recs, rec, coverage, overlooked>>  BY <1>1 DEF vars, disk, tailVars, listing
<1>3. /\ phase[h] \in {"idle", "postroll", "coverage"} /\ ~released[h]
      /\ phase'[h] \in {"postroll", "coverage", "plan"}
      /\ phase' \in [Handlers -> {"idle", "postroll", "coverage", "plan", "stage", "cut"}]
      /\ \A g \in Handlers : g # h =>
           phase'[g] = phase[g] /\ window'[g] = window[g] /\ released'[g] = released[g]
  BY <1>0 DEF Fire, PostrollPassed, Covered, GraceExpires, ClipTypeOK, NotYet
<1>4. /\ window' \in [Handlers -> [from : Time, to : Time]]
      /\ released' \in [Handlers -> BOOLEAN]
  <2>1. CASE Fire(h)
    BY <1>0, <2>1, ClipAssumption DEF Fire, ClipTypeOK
  <2>2. CASE PostrollPassed(h) \/ Covered(h) \/ GraceExpires(h)
    BY <1>0, <2>2 DEF PostrollPassed, Covered, GraceExpires, ClipTypeOK
  <2> QED BY <2>1, <2>2
<1>5. ClipTypeOK'  BY <1>0, <1>1, <1>3, <1>4 DEF ClipTypeOK
<1>6. PlansInOrder'  BY <1>0, <1>1, <1>2 DEF PlansInOrder
<1>7. ClipInOrder'  BY <1>0, <1>1, <1>2 DEF ClipInOrder
<1>8. ReleasedIsCovered'
  <2>1. ASSUME InTime(h)'  PROVE coverage.log >= window'[h].to
    <3>1. Covered(h)
      BY <1>0, <1>3, <2>1 DEF InTime, Fire, PostrollPassed, GraceExpires, ClipTypeOK
    <3>2. window' = window /\ Mark >= window[h].to  BY <3>1 DEF Covered, Reaches
    <3> QED BY <2>1, <3>2 DEF InTime, Mark
  <2> QED BY <1>0, <1>2, <1>3, <2>1 DEF ReleasedIsCovered, InTime
<1>9. NotYet'
  <2>1. phase'[h] \in {"postroll", "coverage"} => released'[h] = released[h]
    BY <1>0 DEF Fire, PostrollPassed, Covered, GraceExpires, ClipTypeOK
  <2> QED BY <1>0, <1>3, <2>1 DEF NotYet
<1>10. PlanComplete'
  <2> SUFFICES ASSUME NEW g \in Handlers, phase'[g] = "stage", InTime(g)',
                      NEW f \in atPlan[g].files, NEW k \in 1..Len(recs[f]), Owed(g, f, k)'
               PROVE  Planned(g, f, k)'
    BY <1>1, <1>2 DEF PlanComplete
  <2>1. g # h  BY <1>3
  <2>2. phase[g] = "stage" /\ InTime(g) /\ Owed(g, f, k)
    BY <2>1, <1>1, <1>2, <1>3 DEF Owed, InTime
  <2> QED BY <1>0, <1>1, <2>2 DEF PlanComplete, Planned
<1>11. CutComplete'
  <2> SUFFICES ASSUME NEW g \in Handlers, phase'[g] = "cut", InTime(g)',
                      NEW f \in atPlan[g].files, NEW k \in 1..Len(recs[f]), Owed(g, f, k)'
               PROVE  InClip(g, f, k)'
    BY <1>1, <1>2 DEF CutComplete, InTime, Owed
  <2>1. g # h  BY <1>3
  <2>2. phase[g] = "cut" /\ InTime(g) /\ Owed(g, f, k)
    BY <2>1, <1>1, <1>2, <1>3 DEF Owed, InTime
  <2>3. InClip(g, f, k)  BY <1>0, <2>2 DEF CutComplete, InTime, Owed
  <2> QED BY <2>3, <1>1 DEF InClip
<1> QED BY <1>5, <1>6, <1>7, <1>8, <1>9, <1>10, <1>11 DEF ClipInvariant

LEMMA ClipInitInvariant == ClipInit => CInv
<1> SUFFICES ASSUME ClipInit PROVE CInv  OBVIOUS
<1>1. IInv  BY InitInvariant DEF ClipInit
<1>2. ClipTypeOK
  <2>1. 0 \in Time  BY RecorderAssumption DEF Time
  <2> QED BY <2>1 DEF ClipInit, ClipTypeOK
<1>3. PlansInOrder /\ ClipInOrder /\ ReleasedIsCovered /\ NotYet /\ PlanComplete /\ CutComplete
  BY DEF ClipInit, PlansInOrder, ClipInOrder, ReleasedIsCovered, NotYet, PlanComplete,
     CutComplete, InTime
<1> QED BY <1>1, <1>2, <1>3 DEF CInv, ClipInvariant

LEMMA ClipNextKeeps == CInv /\ [ClipNext]_clipVars => CInv'
<1> SUFFICES ASSUME CInv, [ClipNext]_clipVars PROVE CInv'  OBVIOUS
<1>0. IInv /\ ClipInvariant  BY DEF CInv
<1>1. [Next]_vars
  BY DEF ClipNext, clipVars, Fire, HandlerStep, PostrollPassed, Covered, GraceExpires,
     PlanWindow, StageSegments
<1>2. IInv'  BY <1>0, <1>1, NextKeeps
<1>3. CASE UNCHANGED handlerVars  BY <1>0, <1>1, <1>2, <1>3, TailKeepsClip DEF CInv
<1>4. ASSUME NEW h \in Handlers, Fire(h) \/ HandlerStep(h)  PROVE CInv'
  BY <1>0, <1>2, <1>4, WaitKeepsClip, PlanKeepsClip, StageKeepsClip DEF CInv, HandlerStep
<1> QED BY <1>3, <1>4 DEF ClipNext, clipVars

-----------------------------------------------------------------------------
(* The invariant behind the theorems below.                                *)
THEOREM ClipInvariance == ClipSpec => []CInv
BY ClipInitInvariant, ClipNextKeeps, PTL DEF ClipSpec

(* Type correctness; with it, a clip always has a segment.                 *)
THEOREM ClipTypeCorrect == ClipSpec => []ClipTypeOK
<1>1. CInv => ClipTypeOK  BY DEF CInv, ClipInvariant
<1> QED BY <1>1, ClipInvariance, PTL

(* A clip cut on coverage has all of its window, whatever rolled over, was *)
(* pruned or unlinked between the trigger and the copy.                    *)
THEOREM ClipIsComplete == ClipSpec => []CutComplete
<1>1. CInv => CutComplete  BY DEF CInv, ClipInvariant
<1> QED BY <1>1, ClipInvariance, PTL

(* Segments follow each other in time: they hold files in the order of     *)
(* their creation, but for overlooked ones, and stamps rise over files.    *)
THEOREM SegmentsFollow == ClipSpec => []SegmentsInOrder
<1>1. CInv => SegmentsInOrder
  <2> SUFFICES ASSUME CInv, NEW h \in Handlers, NEW i \in DOMAIN clip[h],
                      NEW j \in DOMAIN clip[h], i < j, NEW m \in clip[h][i],
                      NEW n \in clip[h][j]
               PROVE  recs[m[1]][m[2]].log <= recs[n[1]][n[2]].log \/ n[1] \in overlooked
    BY DEF SegmentsInOrder
  <2>1. /\ m[1] \in Files /\ m[2] \in 1..Len(recs[m[1]])
        /\ n[1] \in Files /\ n[2] \in 1..Len(recs[n[1]])
        /\ m[1] < n[1] \/ n[1] \in overlooked
    BY DEF CInv, ClipInvariant, ClipInOrder
  <2> QED BY <2>1 DEF CInv, IInv, DiskInv, StampsSorted
<1> QED BY <1>1, ClipInvariance, PTL

(* Handlers leave the tail and the recorder alone: beside any number of    *)
(* them, the tail is what module Tail says, and all that is proved of it   *)
(* holds.                                                                  *)
THEOREM ClipHasTail == ClipSpec => Spec
<1>1. ClipInit => Init  BY DEF ClipInit
<1>2. [ClipNext]_clipVars => [Next]_vars
  BY DEF ClipNext, clipVars, Fire, HandlerStep, PostrollPassed, Covered, GraceExpires,
     PlanWindow, StageSegments
<1> QED BY <1>1, <1>2, PTL DEF ClipSpec, Spec
=============================================================================
