--------------------------- MODULE PublishProofs ----------------------------
(***************************************************************************)
(* Theorems about Publish, for every value of its constants: any number of *)
(* handlers, of duplicate triggers, workers and crashes.                   *)
(***************************************************************************)
EXTENDS PublishInv, RankProofs

-----------------------------------------------------------------------------
(* A segment's file is no earlier run's, and is something.                 *)
LEMMA FileFacts ==
    ASSUME NEW h \in Handlers, NEW k \in 1..MaxSegments
    PROVE  /\ <<h, k>> \in File /\ <<h, k>> # None
           /\ <<h, k>>[1] = h /\ h # "earlier"
BY PublishAssumption DEF File, None

LEMMA NoneIsNoFile == None \notin File
<1> SUFFICES ASSUME None \in File PROVE FALSE  OBVIOUS
<1>1. PICK a, b : None = <<a, b>>  BY DEF File
<1> QED BY <1>1 DEF None

LEMMA NameFacts ==
    ASSUME NEW h \in Handlers, NEW n \in 0..MaxSuffix
    PROVE  /\ StagedName(h, n) \in Name
           /\ \A k \in 1..MaxSegments : FinalName(h, k, n) \in Name
BY PublishAssumption DEF StagedName, FinalName, Name

LEMMA HandlerFacts ==
    ASSUME TypeOK, NEW h \in Handlers
    PROVE  /\ planned[h] \in Seq(BOOLEAN) /\ Len(planned[h]) \in Nat
           /\ DOMAIN planned[h] = 1..Len(planned[h])
           /\ staged[h] \in Seq([name : Name, empty : BOOLEAN]) /\ Len(staged[h]) \in Nat
           /\ DOMAIN staged[h] = 1..Len(staged[h])
           /\ \A i \in 1..Len(staged[h]) : /\ staged[h][i].name \in Name
                                           /\ staged[h][i].empty \in BOOLEAN
           /\ published[h] \in Seq(Name) /\ Len(published[h]) \in Nat
           /\ DOMAIN published[h] = 1..Len(published[h])
           /\ \A i \in 1..Len(published[h]) : published[h][i] \in Name
           /\ reply[h].at \in 0..MaxSuffix /\ trying[h] \in 0..MaxSuffix
           /\ Len(published[h]) <= Len(staged[h])
<1>1. /\ planned[h] \in Seq(BOOLEAN) /\ published[h] \in Seq(Name)
      /\ staged[h] \in Seq([name : Name, empty : BOOLEAN])
  BY DEF TypeOK
<1>2. \A i \in DOMAIN staged[h] : staged[h][i] \in [name : Name, empty : BOOLEAN]
  BY <1>1, SeqElements
<1>3. Len(planned[h]) \in Nat /\ DOMAIN planned[h] = 1..Len(planned[h])
  BY <1>1, SeqElements
<1>4. Len(staged[h]) \in Nat /\ DOMAIN staged[h] = 1..Len(staged[h])
  BY <1>1, SeqElements
<1>5. Len(published[h]) \in Nat /\ DOMAIN published[h] = 1..Len(published[h])
      /\ \A i \in DOMAIN published[h] : published[h][i] \in Name
  BY <1>1, SeqElements
<1>6. /\ reply[h].at \in 0..MaxSuffix /\ trying[h] \in 0..MaxSuffix
      /\ Len(published[h]) <= Len(staged[h])
  BY DEF TypeOK
<1> QED BY <1>1, <1>2, <1>3, <1>4, <1>5, <1>6

(* A busy worker's job is a handler's segment.                             *)
LEMMA JobFacts ==
    ASSUME TypeOK, Progress, OneAtATime, NEW w \in Workers, Busy(w)
    PROVE  \E h \in Handlers :
             /\ Waits(h) /\ job[w] = Current(h) /\ job[w] \in File /\ job[w] # None
             /\ job[w][1] = h /\ JobName(w) = StagedName(h, suffix[w]) /\ JobName(w) \in Name
             /\ Len(staged[h]) + 1 \in 1..MaxSegments
<1>1. PICK h \in Handlers : Waits(h) /\ job[w] = Current(h)  BY DEF OneAtATime
<1>2. Len(staged[h]) + 1 \in 1..MaxSegments
  <2>1. Len(staged[h]) < Len(planned[h]) /\ Len(planned[h]) \in 1..MaxSegments
    BY <1>1 DEF Progress, ProgressOf, Waits, Staging
  <2> QED BY <2>1, HandlerFacts, PublishAssumption
<1>3. suffix[w] \in 0..MaxSuffix  BY DEF TypeOK
<1>4. job[w][1] = h /\ job[w] \in File /\ job[w] # None  BY <1>1, <1>2, FileFacts DEF Current
<1>5. JobName(w) = StagedName(h, suffix[w]) /\ JobName(w) \in Name
  BY <1>3, <1>4, NameFacts DEF JobName
<1> QED BY <1>1, <1>2, <1>4, <1>5

-----------------------------------------------------------------------------
(* Types.                                                                  *)

(* What RemoveStaged leaves.                                               *)
LEMMA RemoveTypes ==
    ASSUME TypeOK, NEW n \in Name, captured[n] # None, RemoveStaged(n)
    PROVE  captured' \in [Name -> File \cup {None}] /\ stranded' \subseteq File
BY DEF TypeOK, RemoveStaged

LEMMA ReplyTypes ==
    ASSUME TypeOK, Progress, OneAtATime, NEW w \in Workers, Busy(w),
           NEW how \in {"staged", "error"}, Reply(w, how)
    PROVE  /\ queue' \in Seq(File)
           /\ reply' \in [Handlers -> [how : {"none", "staged", "error"}, at : 0..MaxSuffix]]
           /\ wpc' \in [Workers -> {"idle", "create", "copy", "sync"}]
           /\ job' \in [Workers -> File \cup {None}]
           /\ suffix' \in [Workers -> 0..MaxSuffix]
<1>1. job[w][1] \in Handlers  BY JobFacts
<1>2. [how |-> how, at |-> suffix[w]] \in [how : {"none", "staged", "error"}, at : 0..MaxSuffix]
  BY DEF TypeOK
<1>3. 0 \in 0..MaxSuffix  BY PublishAssumption
<1> QED BY <1>1, <1>2, <1>3 DEF TypeOK, Reply, WorkerAt

LEMMA WorkerKeepsTypes ==
    ASSUME PublishInvariant, NEW w \in Workers, WorkerStep(w) \/ WorkerFault(w)
    PROVE  TypeOK'
<1>0. TypeOK /\ Progress /\ OneAtATime  BY DEF PublishInvariant
<1>1. CASE Take(w)
  <2>1. Head(queue) \in File /\ queue' \in Seq(File)  BY <1>0, <1>1 DEF Take, TypeOK
  <2> QED BY <1>0, <1>1, <2>1 DEF Take, WorkerAt, TypeOK, dirVars, handlerVars
<1>2. CASE Create(w)
  <2>1. Busy(w)  BY <1>2 DEF Create, Busy
  <2>2. job[w] \in File /\ JobName(w) \in Name  BY <1>0, <2>1, JobFacts
  <2> QED BY <1>0, <1>2, <2>2 DEF Create, WorkerAt, TypeOK, handlerVars
<1>3. CASE CreateTaken(w)
  <2>1. suffix[w] + 1 \in 0..MaxSuffix
    BY <1>0, <1>3, PublishAssumption DEF CreateTaken, TypeOK, MoreNames
  <2> QED BY <1>0, <1>3, <2>1 DEF CreateTaken, NextSuffix, TypeOK, dirVars, handlerVars
<1>4. CASE CreateExhausted(w) \/ CreateFails(w)
  <2>1. Busy(w) /\ Reply(w, "error")
    BY <1>4 DEF CreateExhausted, CreateFails, Busy
  <2>2. UNCHANGED <<up, crashes, dirVars, handlerVars>>
    BY <1>4 DEF CreateExhausted, CreateFails
  <2> QED BY <1>0, <2>1, <2>2, ReplyTypes DEF TypeOK, dirVars, handlerVars
<1>5. CASE Copy(w)
  <2>1. Busy(w)  BY <1>5 DEF Copy, Busy
  <2>2. job[w] \in File  BY <1>0, <2>1, JobFacts
  <2> QED BY <1>0, <1>5, <2>2 DEF Copy, WorkerAt, TypeOK, handlerVars
<1>6. CASE Sync(w)
  <2>1. Busy(w) /\ Reply(w, "staged")  BY <1>6 DEF Sync, Busy
  <2>2. content' \in [File -> {"absent", "partial", "complete", "synced"}]
    BY <1>0, <1>6 DEF Sync, Synced, TypeOK
  <2> QED BY <1>0, <1>6, <2>1, <2>2, ReplyTypes DEF Sync, TypeOK, handlerVars
<1>7. CASE CopyFails(w)
  <2>1. Busy(w) /\ Reply(w, "error")  BY <1>7 DEF CopyFails, Busy
  <2>2. JobName(w) \in Name /\ job[w] # None  BY <1>0, <2>1, JobFacts
  <2>3. captured[JobName(w)] = job[w]  BY <1>7 DEF CopyFails, PublishInvariant, WorkerOwns
  <2>4. captured' \in [Name -> File \cup {None}] /\ stranded' \subseteq File
    BY <1>0, <1>7, <2>2, <2>3, RemoveTypes DEF CopyFails
  <2> QED BY <1>0, <1>7, <2>1, <2>4, ReplyTypes DEF CopyFails, TypeOK, handlerVars
<1>8. CASE StagePanics(w)
  <2>1. Busy(w) /\ Reply(w, "error")  BY <1>8 DEF StagePanics, Busy
  <2>2. job[w] \in File  BY <1>0, <2>1, JobFacts
  <2>3. stranded' \subseteq File  BY <1>0, <1>8, <2>2 DEF StagePanics, TypeOK
  <2> QED BY <1>0, <1>8, <2>1, <2>3, ReplyTypes DEF StagePanics, TypeOK, handlerVars
<1> QED
  BY <1>1, <1>2, <1>3, <1>4, <1>5, <1>6, <1>7, <1>8 DEF WorkerStep, WorkerFault

(* The segments a handler owes are some of its window's.                   *)
LEMMA OwedFacts ==
    ASSUME TypeOK, Progress, NEW h \in Handlers, hpc[h] \in Staging \cup Publishing \cup {"done"}
    PROVE  /\ Owed(h) \in SUBSET (1..Len(planned[h])) /\ Owed(h) \in SUBSET Nat
           /\ IsFiniteSet(Owed(h)) /\ Cardinality(Owed(h)) \in Nat \ {0}
           /\ Cardinality(Owed(h)) <= Len(planned[h])
           /\ Len(planned[h]) \in 1..MaxSegments
           /\ \A i \in 1..Cardinality(Owed(h)) : /\ Nth(Owed(h), i) \in Owed(h)
                                                 /\ Nth(Owed(h), i) \in 1..MaxSegments
           /\ \A i, j \in 1..Cardinality(Owed(h)) :
                Nth(Owed(h), i) = Nth(Owed(h), j) => i = j
<1> DEFINE S == Owed(h)
<1>1. Len(planned[h]) \in 1..MaxSegments /\ MaxSegments \in Nat
  BY PublishAssumption DEF Progress, ProgressOf
<1>2. DOMAIN planned[h] = 1..Len(planned[h])  BY HandlerFacts
<1>3. S \in SUBSET (1..Len(planned[h])) /\ S # {}  BY <1>1, <1>2 DEF Owed
<1>4. /\ IsFiniteSet(1..Len(planned[h]))
      /\ Cardinality(1..Len(planned[h])) = Len(planned[h])
  <2>1. 1 \in Int /\ Len(planned[h]) \in Int  BY <1>1
  <2>2. /\ IsFiniteSet(1..Len(planned[h]))
        /\ Cardinality(1..Len(planned[h])) =
             IF 1 > Len(planned[h]) THEN 0 ELSE Len(planned[h]) - 1 + 1
    BY <2>1, FS_Interval
  <2> QED BY <1>1, <2>2
<1>5. IsFiniteSet(S) /\ Cardinality(S) <= Len(planned[h])
  BY <1>3, <1>4, FS_Subset
<1>6. Cardinality(S) \in Nat /\ Cardinality(S) # 0
  BY <1>3, <1>5, FS_CardinalityType, FS_EmptySet
<1>7. S \in SUBSET Nat  BY <1>1, <1>3
<1>8. \A i \in 1..Cardinality(S) : Nth(S, i) \in S /\ Nth(S, i) \in 1..MaxSegments
  BY <1>1, <1>3, <1>5, <1>7, NthMember
<1>9. ASSUME NEW i \in 1..Cardinality(S), NEW j \in 1..Cardinality(S), Nth(S, i) = Nth(S, j)
      PROVE  i = j
  <2>1. ~(i < j) /\ ~(j < i)
    <3>1. Nth(S, i) \in Nat /\ Nth(S, j) \in Nat  BY <1>7, <1>8
    <3> QED BY <1>5, <1>7, <1>9, <3>1, NthRises
  <2> QED BY <2>1
<1> QED BY <1>1, <1>3, <1>5, <1>6, <1>7, <1>8, <1>9

(* A clip a handler has yet to publish or remove is its file, synced, and  *)
(* each clip stands for a segment of its own.                              *)
LEMMA SegmentFacts ==
    ASSUME PublishInvariant, NEW h \in Handlers, hpc[h] \in Staging \cup Publishing
    PROVE  /\ \A i \in 1..Len(staged[h]) : SegmentOf(h, i) \in 1..MaxSegments
           /\ \A i, j \in 1..Len(staged[h]) : SegmentOf(h, i) = SegmentOf(h, j) => i = j
           /\ FirstLeft(h) \in 1..Len(staged[h]) + 1
           /\ \A i \in FirstLeft(h)..Len(staged[h]) :
                /\ captured[staged[h][i].name] = <<h, SegmentOf(h, i)>>
                /\ captured[staged[h][i].name] # None
                /\ content[<<h, SegmentOf(h, i)>>] = "synced"
                /\ staged[h][i].name \in Name
<1>0. TypeOK /\ Progress  BY DEF PublishInvariant
<1>1. Len(staged[h]) \in Nat /\ Len(published[h]) \in 0..Len(staged[h])  BY <1>0, HandlerFacts
<1>2. /\ \A i \in 1..Len(staged[h]) : SegmentOf(h, i) \in 1..MaxSegments
      /\ \A i, j \in 1..Len(staged[h]) : SegmentOf(h, i) = SegmentOf(h, j) => i = j
  <2>1. CASE hpc[h] \in Staging
    <3>1. Len(staged[h]) <= MaxSegments
      BY <1>0, <1>1, <2>1, PublishAssumption DEF Progress, ProgressOf, Staging
    <3> QED BY <1>1, <2>1, <3>1, PublishAssumption DEF SegmentOf
  <2>2. CASE hpc[h] \in Publishing
    <3>1. Len(staged[h]) = Cardinality(Owed(h)) /\ hpc[h] \notin Staging
      BY <1>0, <2>2 DEF Progress, ProgressOf, Publishing, Staging
    <3> QED BY <1>0, <2>2, <3>1, OwedFacts DEF SegmentOf
  <2> QED BY <2>1, <2>2
<1>3. FirstLeft(h) \in 1..Len(staged[h]) + 1
  <2>1. hpc[h] = "unlink" => Len(published[h]) > 0  BY <1>0 DEF Progress, ProgressOf
  <2> QED BY <1>1, <2>1 DEF FirstLeft
<1>4. ASSUME NEW i \in FirstLeft(h)..Len(staged[h])
      PROVE  /\ captured[staged[h][i].name] = <<h, SegmentOf(h, i)>>
             /\ captured[staged[h][i].name] # None
             /\ content[<<h, SegmentOf(h, i)>>] = "synced"
             /\ staged[h][i].name \in Name
  <2>1. i \in 1..Len(staged[h])  BY <1>1, <1>3
  <2>2. OwnsSynced(staged[h][i].name, <<h, SegmentOf(h, i)>>)
    BY DEF PublishInvariant, StagedOwns
  <2> QED BY <1>0, <1>2, <2>1, <2>2, FileFacts, HandlerFacts DEF OwnsSynced
<1> QED BY <1>2, <1>3, <1>4

(* A link gives a segment's complete file a name of its own.               *)
LEMMA LinkFacts ==
    ASSUME PublishInvariant, NEW h \in Handlers, Link(h)
    PROVE  /\ At(h) \in 1..Len(staged[h]) /\ Target(h) \in Name
           /\ Nth(Owed(h), At(h)) \in 1..MaxSegments
           /\ captured[staged[h][At(h)].name] = <<h, Nth(Owed(h), At(h))>>
           /\ content[<<h, Nth(Owed(h), At(h))>>] = "synced"
           /\ <<h, Nth(Owed(h), At(h))>> \in File /\ <<h, Nth(Owed(h), At(h))>> # None
<1> DEFINE s == Nth(Owed(h), At(h))
<1>0. TypeOK /\ Progress /\ ProgressOf(h) /\ hpc[h] = "publish" /\ hpc[h] \in Publishing
  BY DEF PublishInvariant, Progress, Link, Publishing
<1>1. Len(published[h]) \in Nat /\ Len(staged[h]) \in Nat  BY <1>0, HandlerFacts
<1>2. /\ Len(published[h]) < Len(staged[h])
      /\ Len(staged[h]) = Cardinality(Owed(h)) /\ Cardinality(Owed(h)) <= MaxSegments
  <2>1. Len(published[h]) < Len(staged[h]) /\ Len(staged[h]) = Cardinality(Owed(h))
    BY <1>0 DEF ProgressOf
  <2> QED BY <1>0, <1>1, <2>1, OwedFacts, PublishAssumption
<1>3. At(h) \in 1..Len(staged[h]) /\ At(h) \in FirstLeft(h)..Len(staged[h])
  BY <1>0, <1>1, <1>2 DEF At, FirstLeft
<1>4. /\ captured[staged[h][At(h)].name] = <<h, s>> /\ content[<<h, s>>] = "synced"
      /\ s \in 1..MaxSegments
  <2>1. SegmentOf(h, At(h)) = s  BY <1>0 DEF SegmentOf, Staging
  <2> QED BY <1>0, <1>3, <2>1, SegmentFacts
<1>5. Target(h) \in Name
  <2>1. At(h) \in 1..MaxSegments  BY <1>1, <1>2, <1>3, PublishAssumption
  <2> QED BY <1>0, <2>1, HandlerFacts, NameFacts DEF Target
<1> QED BY <1>3, <1>4, <1>5, FileFacts

(* What is kept of the staged clips is what is owed, in order.             *)
LEMMA KeptFacts ==
    ASSUME TypeOK, Progress, NEW h \in Handlers, hpc[h] = "trim"
    PROVE  /\ Kept(staged[h]) \in Seq([name : Name, empty : BOOLEAN])
           /\ Len(Kept(staged[h])) = Cardinality(Owed(h))
           /\ DOMAIN Kept(staged[h]) = 1..Cardinality(Owed(h))
           /\ \A i \in 1..Cardinality(Owed(h)) :
                /\ Nth(Owed(h), i) \in 1..Len(staged[h])
                /\ Kept(staged[h])[i] = staged[h][Nth(Owed(h), i)]
<1> DEFINE Clips == [name : Name, empty : BOOLEAN]
<1>1. /\ staged[h] \in Seq(Clips) /\ Len(staged[h]) \in Nat
      /\ DOMAIN staged[h] = 1..Len(staged[h])
      /\ \A i \in 1..Len(staged[h]) : staged[h][i] \in Clips
  <2>1. staged[h] \in Seq(Clips)  BY DEF TypeOK
  <2> QED BY <2>1, SeqElements
<1>2. /\ Len(staged[h]) = Len(planned[h]) /\ Len(planned[h]) > 0
      /\ \A i \in 1..Len(staged[h]) : staged[h][i].empty = ~planned[h][i]
  BY <1>1, PublishAssumption DEF Progress, ProgressOf, Staging
<1>3. DOMAIN planned[h] = 1..Len(staged[h])
      /\ \A i \in 1..Len(staged[h]) : planned[h][i] \in BOOLEAN
  <2>1. planned[h] \in Seq(BOOLEAN)  BY DEF TypeOK
  <2> QED BY <1>2, <2>1, SeqElements
<1>4. Full(staged[h]) = {k \in DOMAIN planned[h] : planned[h][k]}
  BY <1>1, <1>2, <1>3 DEF Full
<1> HIDE DEF Clips
<1>5. CASE Full(staged[h]) = {}
  <2>1. Owed(h) = {1} /\ Kept(staged[h]) = <<staged[h][1]>>  BY <1>4, <1>5 DEF Owed, Kept
  <2>2. Cardinality({1}) = 1  BY FS_Singleton
  <2>3. Nth(Owed(h), 1) \in Owed(h)
    <3>1. 1 \in 1..Cardinality(Owed(h))  BY <2>1, <2>2
    <3>2. hpc[h] \in Staging  BY DEF Staging
    <3> QED BY <3>1, <3>2, OwedFacts
  <2>4. staged[h][1] \in Clips  BY <1>1, <1>2
  <2>5. <<staged[h][1]>> \in Seq(Clips) /\ Len(<<staged[h][1]>>) = 1
        /\ DOMAIN <<staged[h][1]>> = 1..1 /\ <<staged[h][1]>>[1] = staged[h][1]
    BY <2>4
  <2>6. Nth(Owed(h), 1) = 1 /\ Cardinality(Owed(h)) = 1  BY <2>1, <2>2, <2>3
  <2>7. \A i \in 1..Cardinality(Owed(h)) : i = 1  BY <2>6
  <2>8. 1 \in 1..Len(staged[h])  BY <1>1, <1>2
  <2> QED BY <2>1, <2>5, <2>6, <2>7, <2>8 DEF Clips
<1>6. CASE Full(staged[h]) # {}
  <2>1. Owed(h) = Full(staged[h]) /\ Kept(staged[h]) = Retain(staged[h], Full(staged[h]))
    BY <1>4, <1>6 DEF Owed, Kept
  <2>2. Full(staged[h]) \in SUBSET DOMAIN staged[h]  BY DEF Full
  <2> QED BY <1>1, <2>1, <2>2, RetainType DEF Clips
<1> QED BY <1>5, <1>6

LEMMA HandlerKeepsTypes ==
    ASSUME PublishInvariant, NEW h \in Handlers,
           Begin(h) \/ HandlerStep(h) \/ HandlerFault(h)
    PROVE  TypeOK'
<1> USE DEF Goto
<1>0. TypeOK /\ Progress  BY DEF PublishInvariant
<1>1. CASE Begin(h)
  <2>1. planned' \in [Handlers -> Seq(BOOLEAN)]
    <3>1. PICK n \in 1..MaxSegments : \E hasData \in [1..n -> BOOLEAN] :
            planned' = [planned EXCEPT ![h] = hasData]
      BY <1>1 DEF Begin
    <3>2. PICK hasData \in [1..n -> BOOLEAN] : planned' = [planned EXCEPT ![h] = hasData]
      BY <3>1
    <3>3. hasData \in Seq(BOOLEAN)  BY PublishAssumption, FunctionIsSeq
    <3> QED BY <1>0, <3>2, <3>3 DEF TypeOK
  <2> QED BY <1>0, <1>1, <2>1 DEF Begin, TypeOK, dirVars, poolVars, Active
<1>2. CASE Submit(h)
  <2>1. <<h, Len(staged[h]) + 1>> \in File
    <3>1. Len(staged[h]) + 1 \in 1..MaxSegments
      <4>1. Len(staged[h]) < Len(planned[h]) /\ Len(planned[h]) \in 1..MaxSegments
        BY <1>2 DEF PublishInvariant, Progress, ProgressOf, Submit, Staging
      <4> QED BY <1>0, <4>1, HandlerFacts, PublishAssumption
    <3> QED BY <3>1, FileFacts
  <2>2. queue' \in Seq(File)  BY <1>0, <1>2, <2>1 DEF Submit, TypeOK
  <2> QED BY <1>0, <1>2, <2>2 DEF Submit, TypeOK, dirVars, Active
<1>3. CASE Receive(h)
  <2> DEFINE clip == [name |-> StagedName(h, reply[h].at), empty |-> ~planned[h][Len(staged[h]) + 1]]
             Clips == [name : Name, empty : BOOLEAN]
  <2>1. clip \in Clips  BY <1>0, HandlerFacts, NameFacts
  <2>2. staged[h] \in Seq(Clips) /\ published[h] = << >>
    BY <1>0, <1>3 DEF TypeOK, Receive, Progress, ProgressOf, Staging
  <2>3. staged' = [staged EXCEPT ![h] = Append(@, clip)]  BY <1>3 DEF Receive
  <2> HIDE DEF clip, Clips
  <2>4. Append(staged[h], clip) \in Seq(Clips)  BY <2>1, <2>2
  <2>5. staged' \in [Handlers -> Seq(Clips)]  BY <1>0, <2>3, <2>4 DEF TypeOK, Clips
  <2>6. \A g \in Handlers : Len(published'[g]) <= Len(staged'[g])
    <3>1. published' = published /\ staged'[h] = Append(staged[h], clip)
          /\ \A g \in Handlers : g # h => staged'[g] = staged[g]
      BY <1>0, <1>3, <2>3 DEF Receive, TypeOK
    <3>2. Len(staged'[h]) \in Nat  BY <2>4, <3>1
    <3>3. Len(published'[h]) = 0  BY <2>2, <3>1
    <3>4. Len(published'[h]) <= Len(staged'[h])  BY <3>2, <3>3
    <3>5. \A g \in Handlers : Len(published[g]) <= Len(staged[g])  BY <1>0 DEF TypeOK
    <3> QED BY <3>1, <3>4, <3>5
  <2>7. reply' \in [Handlers -> [how : {"none", "staged", "error"}, at : 0..MaxSuffix]]
    <3>1. NoReply \in [how : {"none", "staged", "error"}, at : 0..MaxSuffix]
      BY PublishAssumption DEF NoReply
    <3> QED BY <1>0, <1>3, <3>1 DEF TypeOK, Receive
  <2> QED BY <1>0, <1>3, <2>5, <2>6, <2>7 DEF Receive, TypeOK, dirVars, Active, Clips
<1>4. \A k \in Nat \ {0} : NamesFrom(h, k) \in SUBSET Name
  <2> SUFFICES ASSUME NEW k \in Nat \ {0}, NEW i \in k..Len(staged[h])
               PROVE  staged[h][i].name \in Name
    BY DEF NamesFrom
  <2>1. i \in 1..Len(staged[h])  BY <1>0, HandlerFacts
  <2> QED BY <1>0, <2>1, HandlerFacts
<1>5. CASE ReceiveError(h)
  <2>1. reply' \in [Handlers -> [how : {"none", "staged", "error"}, at : 0..MaxSuffix]]
    <3>1. NoReply \in [how : {"none", "staged", "error"}, at : 0..MaxSuffix]
      BY PublishAssumption DEF NoReply
    <3> QED BY <1>0, <1>5, <3>1 DEF TypeOK, ReceiveError
  <2>2. dropping' \in [Handlers -> SUBSET Name]  BY <1>0, <1>4, <1>5 DEF TypeOK, ReceiveError
  <2> QED BY <1>0, <1>5, <2>1, <2>2 DEF ReceiveError, TypeOK, dirVars, Active
<1>6. CASE Trim(h)
  <2> DEFINE Clips == [name : Name, empty : BOOLEAN]
  <2>1. Kept(staged[h]) \in Seq(Clips)  BY <1>0, <1>6, KeptFacts DEF Trim
  <2>2. /\ staged' = [staged EXCEPT ![h] = Kept(staged[h])] /\ published' = published
        /\ dropping' = [dropping EXCEPT ![h] = NamesFrom(h, 1) \
             {Kept(staged[h])[i].name : i \in DOMAIN Kept(staged[h])}]
    BY <1>6 DEF Trim
  <2>3. published[h] = << >>  BY <1>0, <1>6 DEF Progress, ProgressOf, Trim, Staging
  <2> HIDE DEF Clips
  <2>4. staged' \in [Handlers -> Seq(Clips)]  BY <1>0, <2>1, <2>2 DEF TypeOK, Clips
  <2>5. \A g \in Handlers : Len(published'[g]) <= Len(staged'[g])
    <3>1. staged'[h] = Kept(staged[h]) /\ \A g \in Handlers : g # h => staged'[g] = staged[g]
      BY <1>0, <2>2 DEF TypeOK
    <3>2. Len(staged'[h]) \in Nat  BY <2>1, <3>1
    <3> QED BY <1>0, <2>2, <2>3, <3>1, <3>2 DEF TypeOK
  <2>6. dropping' \in [Handlers -> SUBSET Name]  BY <1>0, <1>4, <2>2 DEF TypeOK
  <2> QED BY <1>0, <1>6, <2>4, <2>5, <2>6 DEF Trim, TypeOK, dirVars, poolVars, Active, Clips
<1>7. CASE DropStaged(h)
  <2>1. PICK n \in dropping[h] :
          RemoveStaged(n) /\ dropping' = [dropping EXCEPT ![h] = @ \ {n}]
    BY <1>7 DEF DropStaged
  <2>2. n \in Name  BY <1>0, <2>1 DEF TypeOK
  <2>3. captured[n] # None
    <3>1. PICK k \in 1..MaxSegments : captured[n] = <<h, k>>
      BY <2>1 DEF PublishInvariant, DroppingOwns
    <3> QED BY <3>1, FileFacts
  <2>4. captured' \in [Name -> File \cup {None}] /\ stranded' \subseteq File
    BY <1>0, <2>1, <2>2, <2>3, RemoveTypes
  <2>5. dropping' \in [Handlers -> SUBSET Name]  BY <1>0, <2>1 DEF TypeOK
  <2> QED BY <1>0, <1>7, <2>4, <2>5 DEF DropStaged, TypeOK, poolVars
<1>8. CASE Dropped(h) \/ Announce(h)
  BY <1>0, <1>8 DEF Dropped, Announce, TypeOK, dirVars, poolVars, Active
<1>9. CASE Fail(h)
  <2>1. << >> \in Seq(BOOLEAN) /\ << >> \in Seq([name : Name, empty : BOOLEAN])
        /\ << >> \in Seq(Name) /\ Len(<< >>) = 0 /\ 0 \in 0..MaxSuffix
    BY PublishAssumption
  <2>2. /\ planned' \in [Handlers -> Seq(BOOLEAN)]
        /\ staged' \in [Handlers -> Seq([name : Name, empty : BOOLEAN])]
        /\ published' \in [Handlers -> Seq(Name)] /\ trying' \in [Handlers -> 0..MaxSuffix]
    BY <1>0, <1>9, <2>1 DEF Fail, TypeOK
  <2>3. \A g \in Handlers : Len(published'[g]) <= Len(staged'[g])
    BY <1>0, <1>9, <2>1 DEF Fail, TypeOK
  <2> QED BY <1>0, <1>9, <2>2, <2>3 DEF Fail, TypeOK, dirVars, poolVars
<1>10. CASE Link(h)
  <2>1. At(h) \in 1..Len(staged[h]) /\ Target(h) \in Name
        /\ captured[staged[h][At(h)].name] \in File
    BY <1>10, LinkFacts
  <2>4. out' \in [Name -> File \cup {None}]  BY <1>0, <1>10, <2>1 DEF Link, TypeOK
  <2>5. /\ published' \in [Handlers -> Seq(Name)]
        /\ \A g \in Handlers : Len(published'[g]) <= Len(staged'[g])
    <3>1. published[h] \in Seq(Name) /\ Append(published[h], Target(h)) \in Seq(Name)
          /\ Len(Append(published[h], Target(h))) = Len(published[h]) + 1
      BY <1>0, <2>1 DEF TypeOK
    <3>2. Len(published[h]) + 1 <= Len(staged[h])  BY <1>0, <2>1, HandlerFacts DEF At
    <3> QED BY <1>0, <1>10, <3>1, <3>2 DEF Link, TypeOK
  <2>6. trying' \in [Handlers -> 0..MaxSuffix]  BY <1>0, <1>10, PublishAssumption DEF Link, TypeOK
  <2> QED BY <1>0, <1>10, <2>4, <2>5, <2>6 DEF Link, TypeOK, poolVars, Active
<1>11. CASE LinkTaken(h)
  <2>1. trying[h] + 1 \in 0..MaxSuffix
    BY <1>0, <1>11, PublishAssumption DEF LinkTaken, TypeOK, MoreNames
  <2> QED BY <1>0, <1>11, <2>1 DEF LinkTaken, NextSuffix, TypeOK, dirVars, poolVars
<1>12. CASE DropRest(h)
  <2>1. At(h) \in Nat \ {0}  BY <1>0, HandlerFacts DEF At
  <2>2. dropping' \in [Handlers -> SUBSET Name]  BY <1>0, <1>4, <1>12, <2>1 DEF DropRest, TypeOK
  <2> QED BY <1>0, <1>12, <2>2 DEF DropRest, TypeOK, dirVars, poolVars, Active
<1>13. CASE Unlink(h)
  <2> DEFINE i == Len(published[h])
  <2>1. hpc[h] \in Publishing /\ i \in FirstLeft(h)..Len(staged[h])
    <3>1. hpc[h] = "unlink"  BY <1>13 DEF Unlink
    <3> QED BY <1>0, <3>1, HandlerFacts DEF Publishing, FirstLeft
  <2>2. captured[staged[h][i].name] # None /\ staged[h][i].name \in Name
    BY <2>1, SegmentFacts
  <2>3. captured' \in [Name -> File \cup {None}] /\ stranded' \subseteq File
    BY <1>0, <1>13, <2>2, RemoveTypes DEF Unlink
  <2> QED BY <1>0, <1>13, <2>3 DEF Unlink, TypeOK, poolVars, Active
<1>14. CASE SyncDir(h)
  <2>1. durable' \subseteq Name  BY <1>14 DEF SyncDir, DirSynced, InOut
  <2> QED BY <1>0, <1>14, <2>1 DEF SyncDir, TypeOK, poolVars, Active
<1> QED
  BY <1>1, <1>2, <1>3, <1>5, <1>6, <1>7, <1>8, <1>9, <1>10, <1>11, <1>12, <1>13, <1>14
     DEF HandlerStep, HandlerFault, LinkExhausted, LinkFails, SyncDirFails

LEMMA RestTypes ==
    ASSUME PublishInvariant, Crash \/ Restart \/ UNCHANGED vars
    PROVE  TypeOK'
<1>0. TypeOK  BY DEF PublishInvariant
<1>1. CASE Crash
  <2>1. /\ << >> \in Seq(BOOLEAN) /\ << >> \in Seq([name : Name, empty : BOOLEAN])
        /\ << >> \in Seq(Name) /\ Len(<< >>) = 0 /\ 0 \in 0..MaxSuffix /\ << >> \in Seq(File)
        /\ NoReply \in [how : {"none", "staged", "error"}, at : 0..MaxSuffix]
    BY PublishAssumption DEF NoReply
  <2>2. /\ planned' \in [Handlers -> Seq(BOOLEAN)]
        /\ staged' \in [Handlers -> Seq([name : Name, empty : BOOLEAN])]
        /\ published' \in [Handlers -> Seq(Name)]
    <3>1. \A h \in Handlers : /\ planned[h] \in Seq(BOOLEAN) /\ published[h] \in Seq(Name)
                              /\ staged[h] \in Seq([name : Name, empty : BOOLEAN])
      BY <1>0 DEF TypeOK
    <3> QED BY <1>1, <2>1, <3>1 DEF Crash, Survivors
  <2>3. \A g \in Handlers : Len(published'[g]) <= Len(staged'[g])
    BY <1>0, <1>1, <2>1 DEF Crash, Survivors, TypeOK
  <2>4. crashes' \in 0..MaxCrashes /\ up' \in BOOLEAN /\ durable' = durable
        /\ captured' = captured /\ stranded' = stranded
    <3>1. crashes \in 0..MaxCrashes /\ MaxCrashes \in Nat  BY <1>0, PublishAssumption DEF TypeOK
    <3>2. crashes' = crashes + 1 /\ crashes < MaxCrashes /\ up' = FALSE
      BY <1>1 DEF Crash
    <3>3. UNCHANGED <<captured, durable, stranded>>  BY <1>1 DEF Crash
    <3>4. crashes' \in 0..MaxCrashes  BY <3>1, <3>2
    <3>5. up' \in BOOLEAN  BY <3>2
    <3> QED BY <3>3, <3>4, <3>5
  <2>5. out' \in [Name -> File \cup {None}]  BY <1>0, <1>1 DEF Crash, TypeOK
  <2>6. content' \in [File -> {"absent", "partial", "complete", "synced"}]
    BY <1>0, <1>1 DEF Crash, TypeOK
  <2>7. /\ hpc' \in [Handlers -> Active \cup {"idle", "done", "failed", "killed"}]
        /\ dropping' \in [Handlers -> SUBSET Name] /\ trying' \in [Handlers -> 0..MaxSuffix]
        /\ queue' \in Seq(File)
        /\ reply' \in [Handlers -> [how : {"none", "staged", "error"}, at : 0..MaxSuffix]]
        /\ wpc' \in [Workers -> {"idle", "create", "copy", "sync"}]
        /\ job' \in [Workers -> File \cup {None}] /\ suffix' \in [Workers -> 0..MaxSuffix]
    BY <1>0, <1>1, <2>1 DEF Crash, TypeOK
  <2> QED BY <1>0, <2>2, <2>3, <2>4, <2>5, <2>6, <2>7 DEF TypeOK
<1>2. CASE Restart
  BY <1>0, <1>2 DEF Restart, TypeOK, handlerVars, poolVars
<1>3. CASE UNCHANGED vars
  BY <1>0, <1>3 DEF vars, TypeOK, dirVars, handlerVars, poolVars
<1> QED BY <1>1, <1>2, <1>3

-----------------------------------------------------------------------------
(* How far handlers are.                                                   *)

(* A step of one handler leaves the locals of the others alone.            *)
LEMMA OthersStay ==
    ASSUME TypeOK, NEW h \in Handlers, Begin(h) \/ HandlerStep(h) \/ HandlerFault(h),
           NEW g \in Handlers, g # h
    PROVE  /\ hpc'[g] = hpc[g] /\ planned'[g] = planned[g] /\ staged'[g] = staged[g]
           /\ dropping'[g] = dropping[g] /\ trying'[g] = trying[g]
           /\ published'[g] = published[g] /\ reply'[g] = reply[g]
           /\ Owed(g)' = Owed(g) /\ Current(g)' = Current(g)
<1>1. /\ hpc'[g] = hpc[g] /\ planned'[g] = planned[g] /\ staged'[g] = staged[g]
      /\ dropping'[g] = dropping[g] /\ trying'[g] = trying[g]
      /\ published'[g] = published[g] /\ reply'[g] = reply[g]
  BY DEF HandlerStep, HandlerFault, Begin, Submit, Receive, ReceiveError, Trim, DropStaged,
     Dropped, Fail, Link, LinkTaken, LinkExhausted, DropRest, Unlink, SyncDir, Announce,
     LinkFails, SyncDirFails, Goto, TypeOK, handlerVars, poolVars
<1> QED BY <1>1 DEF Owed, Current

LEMMA HandlerProgresses ==
    ASSUME PublishInvariant, NEW h \in Handlers,
           Begin(h) \/ HandlerStep(h) \/ HandlerFault(h)
    PROVE  Progress'
<1> USE DEF Goto
<1>0. TypeOK /\ Progress /\ ProgressOf(h)  BY DEF PublishInvariant, Progress
<1>1. ASSUME NEW g \in Handlers, g # h  PROVE ProgressOf(g)'
  BY <1>0, <1>1, OthersStay DEF Progress, ProgressOf, Staging, Publishing
<1>2. ProgressOf(h)'
  <2> USE DEF Staging, Publishing
  <2>0. /\ Len(planned[h]) \in Nat /\ Len(staged[h]) \in Nat /\ Len(published[h]) \in Nat
        /\ hpc \in [Handlers -> Active \cup {"idle", "done", "failed", "killed"}]
        /\ DOMAIN staged[h] = 1..Len(staged[h])
    BY <1>0, HandlerFacts DEF TypeOK
  <2>1. CASE Begin(h)
    <3>1. PICK n \in 1..MaxSegments : \E hasData \in [1..n -> BOOLEAN] :
            planned' = [planned EXCEPT ![h] = hasData]
      BY <2>1 DEF Begin
    <3>2. PICK hasData \in [1..n -> BOOLEAN] : planned' = [planned EXCEPT ![h] = hasData]
      BY <3>1
    <3>3. Len(hasData) = n  BY PublishAssumption, FunctionIsSeq
    <3>4. planned'[h] = hasData /\ hpc'[h] = "submit" /\ staged'[h] = << >>
          /\ published'[h] = << >> /\ trying'[h] = 0 /\ dropping'[h] = {}
      BY <1>0, <2>0, <2>1, <3>2 DEF Begin, TypeOK, ProgressOf
    <3> QED BY <3>3, <3>4 DEF ProgressOf
  <2>2. CASE Submit(h)
    BY <1>0, <2>0, <2>2 DEF Submit, ProgressOf
  <2>3. CASE Receive(h)
    <3> DEFINE k == Len(staged[h]) + 1
               c == [name |-> StagedName(h, reply[h].at), empty |-> ~planned[h][k]]
    <3>1. /\ staged'[h] = Append(staged[h], c) /\ planned' = planned /\ published' = published
          /\ trying' = trying /\ dropping' = dropping
          /\ hpc'[h] = IF k = Len(planned[h]) THEN "trim" ELSE "submit"
      BY <1>0, <2>0, <2>3 DEF Receive, TypeOK
    <3>2. c.empty = ~planned[h][k]  OBVIOUS
    <3> HIDE DEF c
    <3>3. /\ Len(Append(staged[h], c)) = k /\ DOMAIN Append(staged[h], c) = 1..k
          /\ \A i \in 1..Len(staged[h]) : Append(staged[h], c)[i] = staged[h][i]
          /\ Append(staged[h], c)[k] = c
      BY <1>0, HandlerFacts
    <3>4. hpc[h] = "await"  BY <2>3 DEF Receive
    <3>5. /\ Len(planned[h]) \in 1..MaxSegments /\ Len(staged[h]) < Len(planned[h])
          /\ published[h] = << >> /\ trying[h] = 0 /\ dropping[h] = {}
          /\ \A i \in 1..Len(staged[h]) : staged[h][i].empty = ~planned[h][i]
      BY <1>0, <2>0, <3>4 DEF ProgressOf
    <3>6. \A i \in 1..k : Append(staged[h], c)[i].empty = ~planned[h][i]
      BY <2>0, <3>2, <3>3, <3>5
    <3> QED BY <2>0, <3>1, <3>3, <3>5, <3>6 DEF ProgressOf
  <2>4. CASE ReceiveError(h)
    BY <1>0, <2>0, <2>4 DEF ReceiveError, ProgressOf
  <2>5. CASE Trim(h)
    <3>1. hpc[h] = "trim" /\ hpc'[h] = "dropEmpty" /\ published' = published /\ planned' = planned
          /\ staged'[h] = Kept(staged[h])
      BY <1>0, <2>0, <2>5 DEF Trim, TypeOK
    <3>2. Len(staged'[h]) = Cardinality(Owed(h))  BY <1>0, <3>1, KeptFacts
    <3>3. Owed(h)' = Owed(h)  BY <3>1 DEF Owed
    <3> QED BY <1>0, <3>1, <3>2, <3>3 DEF ProgressOf
  <2>6. CASE DropStaged(h)
    BY <1>0, <2>0, <2>6 DEF DropStaged, ProgressOf, Owed
  <2>7. CASE Dropped(h)
    <3>1. Cardinality(Owed(h)) \in Nat \ {0}  BY <1>0, <2>7, OwedFacts DEF Dropped
    <3>2. Owed(h)' = Owed(h)  BY <2>7 DEF Dropped, Owed
    <3> QED BY <1>0, <2>0, <2>7, <3>1, <3>2 DEF Dropped, ProgressOf
  <2>8. CASE Fail(h)
    BY <1>0, <2>0, <2>8 DEF Fail, ProgressOf
  <2>9. CASE Link(h)
    <3>1. Owed(h)' = Owed(h)  BY <2>9 DEF Link, Owed
    <3>2. Len(published'[h]) = Len(published[h]) + 1
      BY <1>0, <2>9, HandlerFacts DEF Link, TypeOK
    <3> QED BY <1>0, <2>0, <2>9, <3>1, <3>2 DEF Link, ProgressOf
  <2>10. CASE LinkTaken(h)
    BY <1>0, <2>0, <2>10 DEF LinkTaken, ProgressOf, Owed
  <2>11. CASE DropRest(h)
    BY <1>0, <2>0, <2>11 DEF DropRest, ProgressOf
  <2>12. CASE Unlink(h)
    BY <1>0, <2>0, <2>12 DEF Unlink, ProgressOf, Owed
  <2>13. CASE SyncDir(h)
    <3>1. Len(published[h]) <= Len(staged[h])  BY <1>0, HandlerFacts
    <3> QED BY <1>0, <2>0, <2>13, <3>1 DEF SyncDir, ProgressOf, Owed
  <2>14. CASE Announce(h)
    <3>1. Owed(h)' = Owed(h)  BY <2>14 DEF Announce, Owed
    <3>2. hpc[h] = "announce" /\ hpc'[h] = "done"  BY <2>0, <2>14 DEF Announce
    <3>3. UNCHANGED <<planned, staged, dropping, trying, published>>  BY <2>14 DEF Announce
    <3> QED BY <1>0, <3>1, <3>2, <3>3 DEF ProgressOf
  <2> QED
    BY <2>1, <2>2, <2>3, <2>4, <2>5, <2>6, <2>7, <2>8, <2>9, <2>10, <2>11, <2>12, <2>13, <2>14
       DEF HandlerStep, HandlerFault, LinkExhausted, LinkFails, SyncDirFails
<1> QED BY <1>1, <1>2 DEF Progress

LEMMA RestProgresses ==
    ASSUME PublishInvariant, Crash \/ Restart \/ UNCHANGED handlerVars
    PROVE  Progress'
<1>0. TypeOK /\ Progress  BY DEF PublishInvariant
<1>1. CASE Crash
  <2> SUFFICES ASSUME NEW h \in Handlers PROVE ProgressOf(h)'  BY DEF Progress
  <2>1. ProgressOf(h)  BY <1>0 DEF Progress
  <2>2. CASE hpc[h] \in Active
    BY <1>0, <1>1, <2>2 DEF Crash, Survivors, ProgressOf, Staging, Publishing
  <2>3. CASE hpc[h] \notin Active
    BY <1>0, <1>1, <2>1, <2>3
       DEF Crash, Survivors, ProgressOf, Staging, Publishing, Owed, Active
  <2> QED BY <2>2, <2>3
<1>2. CASE UNCHANGED handlerVars
  <2>1. \A h \in Handlers : Owed(h)' = Owed(h)  BY <1>2 DEF handlerVars, Owed
  <2> QED BY <1>0, <1>2, <2>1 DEF handlerVars, Progress, ProgressOf
<1> QED BY <1>1, <1>2 DEF Restart

-----------------------------------------------------------------------------
(* Where submitted segments are.                                           *)

LEMMA WorkerKeepsOneAtATime ==
    ASSUME PublishInvariant, NEW w \in Workers, WorkerStep(w) \/ WorkerFault(w)
    PROVE  OneAtATime'
<1>0. TypeOK /\ Progress /\ OneAtATime  BY DEF PublishInvariant
<1>1. UNCHANGED handlerVars /\ (UNCHANGED reply \/ \E how \in {"staged", "error"} : Reply(w, how))
  BY DEF WorkerStep, WorkerFault, Take, Create, CreateTaken, CreateExhausted, Copy, Sync,
     CreateFails, CopyFails, StagePanics
<1>2. \A h \in Handlers : Current(h)' = Current(h) /\ hpc'[h] = hpc[h]
  BY <1>1 DEF handlerVars, Current
<1>3. CASE Take(w)
  <2>1. /\ wpc[w] = "idle" /\ wpc' = [wpc EXCEPT ![w] = "create"]
        /\ job' = [job EXCEPT ![w] = Head(queue)] /\ queue' = Tail(queue) /\ reply' = reply
    BY <1>3 DEF Take, WorkerAt
  <2>2. /\ Len(queue) \in Nat \ {0} /\ DOMAIN queue = 1..Len(queue) /\ Head(queue) = queue[1]
        /\ DOMAIN Tail(queue) = 1..Len(queue) - 1
        /\ \A i \in 1..Len(queue) - 1 : Tail(queue)[i] = queue[i + 1]
    <3>1. queue \in Seq(File) /\ queue # << >>  BY <1>0, <1>3 DEF TypeOK, Take
    <3> QED BY <3>1
  <2>3. /\ job'[w] = queue[1] /\ wpc'[w] = "create"
        /\ \A v \in Workers : v # w => job'[v] = job[v] /\ wpc'[v] = wpc[v]
    BY <1>0, <2>1, <2>2 DEF TypeOK
  <2>4. \A h \in Handlers : Waits(h)' = Waits(h)  BY <1>2, <2>1 DEF Waits
  <2>5. /\ \A i \in 1..Len(queue) : \E h \in Handlers : Waits(h) /\ queue[i] = Current(h)
        /\ \A i, j \in 1..Len(queue) : queue[i] = queue[j] => i = j
    BY <1>0, <2>2 DEF OneAtATime
  <2>6. \A i \in 1..Len(queue) - 1 :
          \E h \in Handlers : Waits(h)' /\ queue'[i] = Current(h)'
    BY <1>2, <2>1, <2>2, <2>4, <2>5
  <2>7. \A i, j \in 1..Len(queue) - 1 : queue'[i] = queue'[j] => i = j
    <3> SUFFICES ASSUME NEW i \in 1..Len(queue) - 1, NEW j \in 1..Len(queue) - 1,
                        queue'[i] = queue'[j]
                 PROVE  i = j
      OBVIOUS
    <3>1. i + 1 \in 1..Len(queue) /\ j + 1 \in 1..Len(queue) /\ queue[i + 1] = queue[j + 1]
      BY <2>1, <2>2
    <3>2. i + 1 = j + 1  BY <2>5, <3>1
    <3> QED BY <3>2
  <2>8. \A i \in 1..Len(queue) - 1 : queue'[i] # queue[1] /\ \A v \in Workers :
          Busy(v) => queue'[i] # job[v]
    <3> SUFFICES ASSUME NEW i \in 1..Len(queue) - 1
                 PROVE queue'[i] # queue[1] /\ \A v \in Workers : Busy(v) => queue'[i] # job[v]
      OBVIOUS
    <3>1. i + 1 \in 1..Len(queue) /\ 1 \in 1..Len(queue) /\ queue'[i] = queue[i + 1] /\ i + 1 # 1
      BY <2>1, <2>2
    <3> QED BY <1>0, <2>2, <2>5, <3>1 DEF OneAtATime
  <2>9. ASSUME NEW v \in Workers, Busy(v)'
        PROVE  /\ \E h \in Handlers : Waits(h)' /\ job'[v] = Current(h)'
               /\ \A i \in 1..Len(queue) - 1 : queue'[i] # job'[v]
               /\ v # w => job'[v] # job'[w]
    <3>1. CASE v = w
      <4>1. 1 \in 1..Len(queue)  BY <2>2
      <4> QED BY <1>2, <2>3, <2>4, <2>5, <2>8, <3>1, <4>1
    <3>2. CASE v # w
      <4>1. Busy(v) /\ job'[v] = job[v]  BY <2>3, <2>9, <3>2 DEF Busy
      <4>2. 1 \in DOMAIN queue  BY <2>2
      <4> QED BY <1>0, <1>2, <2>3, <2>4, <2>8, <4>1, <4>2 DEF OneAtATime
    <3> QED BY <3>1, <3>2
  <2>10. ASSUME NEW u \in Workers, NEW v \in Workers, Busy(u)', Busy(v)', job'[u] = job'[v]
         PROVE  u = v
    <3>1. CASE u # w /\ v # w
      BY <1>0, <2>3, <2>10, <3>1 DEF OneAtATime, Busy
    <3> QED BY <2>9, <2>10, <3>1
  <2>11. DOMAIN queue' = 1..Len(queue) - 1  BY <2>1, <2>2
  <2>12. \A h \in Handlers : reply'[h].how # "none" => hpc'[h] = "await"
    BY <1>0, <1>2, <2>1 DEF OneAtATime
  <2> QED BY <2>6, <2>7, <2>9, <2>10, <2>11, <2>12 DEF OneAtATime
<1>4. CASE Create(w) \/ CreateTaken(w) \/ Copy(w)
  <2>1. UNCHANGED <<queue, reply, job>>  BY <1>4 DEF Create, CreateTaken, Copy
  <2>2. \A v \in Workers : Busy(v)' <=> Busy(v)
    BY <1>0, <1>4 DEF Create, CreateTaken, Copy, Busy, WorkerAt, TypeOK
  <2>3. \A h \in Handlers : Waits(h)' <=> Waits(h)  BY <1>2, <2>1 DEF Waits
  <2> QED BY <1>0, <1>2, <2>1, <2>2, <2>3 DEF OneAtATime
<1>5. ASSUME NEW how \in {"staged", "error"}, Reply(w, how), Busy(w)  PROVE OneAtATime'
  <2>1. PICK h \in Handlers : Waits(h) /\ job[w] = Current(h) /\ job[w][1] = h
    BY <1>0, <1>5, JobFacts
  <2>2. /\ queue' = queue /\ job' = [job EXCEPT ![w] = None] /\ ~Busy(w)'
        /\ \A v \in Workers : v # w => job'[v] = job[v] /\ (Busy(v)' <=> Busy(v))
        /\ reply'[h].how = how /\ \A g \in Handlers : g # h => reply'[g] = reply[g]
    BY <1>0, <1>5, <2>1 DEF Reply, WorkerAt, Busy, TypeOK
  <2>3. \A g \in Handlers : g # h => Waits(g)' = Waits(g)  BY <1>2, <2>2 DEF Waits
  <2>4. \A g \in Handlers : Current(g) = job[w] => g = h  BY <2>1 DEF Current
  <2>5. \A i \in DOMAIN queue : \E g \in Handlers : g # h /\ Waits(g) /\ queue[i] = Current(g)
    BY <1>0, <1>5, <2>1 DEF OneAtATime
  <2>6. \A v \in Workers : v # w /\ Busy(v) =>
          \E g \in Handlers : g # h /\ Waits(g) /\ job[v] = Current(g)
    BY <1>0, <1>5, <2>1 DEF OneAtATime
  <2>7. hpc[h] = "await"  BY <2>1 DEF Waits
  <2> QED BY <1>0, <1>2, <2>2, <2>3, <2>5, <2>6, <2>7 DEF OneAtATime
<1>6. ASSUME CreateExhausted(w) \/ CreateFails(w) \/ Sync(w) \/ CopyFails(w) \/ StagePanics(w)
      PROVE  Busy(w) /\ \E how \in {"staged", "error"} : Reply(w, how)
  BY <1>6 DEF CreateExhausted, CreateFails, Sync, CopyFails, StagePanics, Busy
<1> QED BY <1>3, <1>4, <1>5, <1>6 DEF WorkerStep, WorkerFault

LEMMA HandlerKeepsOneAtATime ==
    ASSUME PublishInvariant, NEW h \in Handlers,
           Begin(h) \/ HandlerStep(h) \/ HandlerFault(h)
    PROVE  OneAtATime'
<1>0. TypeOK /\ Progress /\ OneAtATime  BY DEF PublishInvariant
<1>1. UNCHANGED <<wpc, job>> /\ \A v \in Workers : Busy(v)' <=> Busy(v)
  BY DEF Busy, HandlerStep, HandlerFault, Begin, Submit, Receive, ReceiveError, Trim,
     DropStaged, Dropped, Fail, Link, LinkTaken, LinkExhausted, DropRest, Unlink, SyncDir,
     Announce, LinkFails, SyncDirFails, poolVars
<1>2. ~Waits(h)
  BY DEF Waits, HandlerStep, HandlerFault, Begin, Submit, Receive, ReceiveError, Trim,
     DropStaged, Dropped, Fail, Link, LinkTaken, LinkExhausted, DropRest, Unlink, SyncDir,
     Announce, LinkFails, SyncDirFails
<1>3. \A g \in Handlers : Waits(g) => g # h /\ Waits(g)' /\ Current(g)' = Current(g)
  BY <1>0, <1>2, OthersStay DEF Waits
<1>4. /\ \A i \in DOMAIN queue : \E g \in Handlers : Waits(g)' /\ queue[i] = Current(g)'
      /\ \A v \in Workers : Busy(v)' =>
           \E g \in Handlers : Waits(g)' /\ job'[v] = Current(g)'
  BY <1>0, <1>1, <1>3 DEF OneAtATime
<1>5. CASE Submit(h)
  <2>1. queue' = Append(queue, Current(h)) /\ reply' = reply
        /\ Current(h)' = Current(h) /\ Waits(h)'
    BY <1>0, <1>5 DEF Submit, Current, Goto, Waits, OneAtATime, TypeOK
  <2>2. /\ Len(queue) \in Nat /\ DOMAIN queue = 1..Len(queue)
        /\ DOMAIN queue' = 1..Len(queue) + 1
        /\ \A i \in 1..Len(queue) : queue'[i] = queue[i]
        /\ queue'[Len(queue) + 1] = Current(h)
    <3>1. queue \in Seq(File)  BY <1>0 DEF TypeOK
    <3> QED BY <2>1, <3>1
  <2>3. \A g \in Handlers : Current(g) = Current(h) => g = h  BY DEF Current
  <2>4. /\ \A i \in 1..Len(queue) : queue[i] # Current(h)
        /\ \A v \in Workers : Busy(v) => job[v] # Current(h)
    BY <1>0, <1>2, <2>2, <2>3 DEF OneAtATime
  <2>5. \A i \in 1..Len(queue) + 1 : i \in 1..Len(queue) \/ i = Len(queue) + 1
    BY <2>2
  <2>6. \A g \in Handlers : reply'[g].how # "none" => hpc'[g] = "await"
    BY <1>0, <1>5, <2>1 DEF OneAtATime, Submit, Goto, TypeOK
  <2>7. \A i, j \in 1..Len(queue) + 1 : queue'[i] = queue'[j] => i = j
    BY <1>0, <2>2, <2>4, <2>5 DEF OneAtATime
  <2>8. \A i \in 1..Len(queue) + 1 : \E g \in Handlers : Waits(g)' /\ queue'[i] = Current(g)'
    BY <1>4, <2>1, <2>2, <2>5
  <2>9. \A v \in Workers : Busy(v)' => \A i \in 1..Len(queue) + 1 : queue'[i] # job'[v]
    BY <1>0, <1>1, <2>2, <2>4, <2>5 DEF OneAtATime
  <2> QED BY <1>0, <1>1, <1>4, <2>2, <2>6, <2>7, <2>8, <2>9 DEF OneAtATime
<1>6. CASE ~Submit(h)
  <2>1. queue' = queue /\ reply'[h].how = "none"
    BY <1>0, <1>6 DEF OneAtATime, HandlerStep, HandlerFault, Begin, Submit, Receive,
       ReceiveError, Trim, DropStaged, Dropped, Fail, Link, LinkTaken, LinkExhausted,
       DropRest, Unlink, SyncDir, Announce, LinkFails, SyncDirFails, poolVars, NoReply, TypeOK
  <2>2. \A g \in Handlers : reply'[g].how # "none" => hpc'[g] = "await"
    BY <1>0, <2>1, OthersStay DEF OneAtATime
  <2> QED BY <1>0, <1>1, <1>4, <2>1, <2>2 DEF OneAtATime
<1> QED BY <1>5, <1>6

LEMMA RestKeepsOneAtATime ==
    ASSUME PublishInvariant, Crash \/ UNCHANGED <<handlerVars, poolVars>>
    PROVE  OneAtATime'
<1>0. TypeOK /\ OneAtATime  BY DEF PublishInvariant
<1>1. CASE Crash  BY <1>0, <1>1 DEF Crash, OneAtATime, Busy, NoReply
<1>2. CASE UNCHANGED <<handlerVars, poolVars>>
  BY <1>0, <1>2 DEF OneAtATime, Busy, Waits, Current, handlerVars, poolVars
<1> QED BY <1>1, <1>2

-----------------------------------------------------------------------------
(* Whose files names stand for.                                            *)

(* No complete file is being written.                                      *)
LEMMA JobIsNotSynced ==
    ASSUME PublishInvariant, NEW w \in Workers, Busy(w)
    PROVE  content[job[w]] # "synced"
<1>1. wpc[w] \in {"create", "copy", "sync"}  BY DEF PublishInvariant, TypeOK, Busy
<1> QED BY <1>1 DEF PublishInvariant, Fresh, WorkerOwns

(* A worker touches its own job's file only, and names that stand for it   *)
(* or for nothing.                                                         *)
LEMMA WorkerLeaves ==
    ASSUME PublishInvariant, NEW w \in Workers, WorkerStep(w) \/ WorkerFault(w)
    PROVE  /\ UNCHANGED <<up, handlerVars, out, durable>>
           /\ \A f \in File : content'[f] # content[f] =>
                Busy(w) /\ f = job[w] /\ wpc'[w] # "create"
           /\ \A f \in File : content[f] = "synced" => content'[f] = "synced"
           /\ \A n \in Name : captured'[n] # captured[n] =>
                /\ Busy(w) /\ n = JobName(w)
                /\ captured[n] \in {None, job[w]}
           /\ \A v \in Workers : v # w =>
                wpc'[v] = wpc[v] /\ job'[v] = job[v] /\ suffix'[v] = suffix[v]
                /\ JobName(v)' = JobName(v)
<1>0. TypeOK /\ Progress /\ OneAtATime  BY DEF PublishInvariant
<1>1. /\ UNCHANGED <<up, handlerVars, out, durable>>
      /\ \A v \in Workers : v # w =>
           wpc'[v] = wpc[v] /\ job'[v] = job[v] /\ suffix'[v] = suffix[v]
  BY <1>0 DEF WorkerStep, WorkerFault, Take, Create, CreateTaken, CreateExhausted, Copy,
     Sync, CreateFails, CopyFails, StagePanics, WorkerAt, Reply, TypeOK, dirVars
<1>2. /\ content' # content => Busy(w) /\ wpc'[w] # "create"
      /\ \A f \in File : content'[f] # content[f] => f = job[w]
  BY <1>0 DEF WorkerStep, WorkerFault, Take, Create, CreateTaken, CreateExhausted, Copy,
     Sync, CreateFails, CopyFails, StagePanics, WorkerAt, Reply, TypeOK, dirVars, Busy
<1>3. \A f \in File : content[f] = "synced" => content'[f] = "synced"
  BY <1>2, JobIsNotSynced
<1>4. \A n \in Name : captured'[n] # captured[n] =>
        Busy(w) /\ n = JobName(w) /\ captured[n] \in {None, job[w]}
  <2>1. CASE Create(w)
    BY <1>0, <2>1 DEF Create, Free, TypeOK, Busy
  <2>2. CASE CopyFails(w)
    <3>1. captured[JobName(w)] = job[w]  BY <2>2 DEF CopyFails, PublishInvariant, WorkerOwns
    <3> QED BY <1>0, <2>2, <3>1 DEF CopyFails, RemoveStaged, TypeOK, Busy
  <2>3. CASE ~Create(w) /\ ~CopyFails(w)
    BY <2>3 DEF WorkerStep, WorkerFault, Take, CreateTaken, CreateExhausted, Copy, Sync,
       CreateFails, StagePanics, dirVars
  <2> QED BY <2>1, <2>2, <2>3
<1>5. \A v \in Workers : v # w => JobName(v)' = JobName(v)  BY <1>1 DEF JobName, StagedName
<1> QED BY <1>1, <1>2, <1>3, <1>4, <1>5

LEMMA WorkerKeepsOwners ==
    ASSUME PublishInvariant, NEW w \in Workers, WorkerStep(w) \/ WorkerFault(w)
    PROVE  Fresh' /\ WorkerOwns' /\ ReplyOwns' /\ StagedOwns' /\ DroppingOwns'
<1>0. TypeOK /\ Progress /\ OneAtATime /\ Fresh /\ WorkerOwns  BY DEF PublishInvariant
<1>1. /\ UNCHANGED handlerVars
      /\ \A h \in Handlers : Len(staged[h]) \in Nat /\ Current(h)' = Current(h)
  BY <1>0, WorkerLeaves, HandlerFacts DEF handlerVars, Current
<1>2. \A g \in Handlers : \A k \in 1..MaxSegments :
        <<g, k>> \in File /\ (Busy(w) /\ <<g, k>> = job[w] =>
                                hpc[g] = "await" /\ k = Len(staged[g]) + 1)
  <2> SUFFICES ASSUME NEW g \in Handlers, NEW k \in 1..MaxSegments
               PROVE  <<g, k>> \in File /\ (Busy(w) /\ <<g, k>> = job[w] =>
                                hpc[g] = "await" /\ k = Len(staged[g]) + 1)
    OBVIOUS
  <2> QED BY <1>0, FileFacts DEF OneAtATime, Waits, Current
<1>3. ASSUME NEW m \in Name, NEW g \in Handlers, NEW k \in 1..MaxSegments,
             OwnsSynced(m, <<g, k>>)
      PROVE  OwnsSynced(m, <<g, k>>)'
  <2>1. <<g, k>> \in File /\ <<g, k>> # None /\ content'[<<g, k>>] = "synced"
    BY <1>3, FileFacts, WorkerLeaves DEF OwnsSynced
  <2>2. Busy(w) => <<g, k>> # job[w]  BY <1>3, JobIsNotSynced DEF OwnsSynced
  <2>3. captured'[m] = captured[m]  BY <1>3, <2>1, <2>2, WorkerLeaves DEF OwnsSynced
  <2> QED BY <1>3, <2>1, <2>3 DEF OwnsSynced
<1>4. Fresh'
  <2>1. ASSUME NEW h \in Handlers, NEW k \in 1..MaxSegments
        PROVE  /\ hpc'[h] = "idle" => content'[<<h, k>>] = "absent"
               /\ hpc'[h] = "submit" /\ k > Len(staged'[h]) => content'[<<h, k>>] = "absent"
               /\ hpc'[h] = "await" /\ k > Len(staged'[h]) + 1 => content'[<<h, k>>] = "absent"
    <3>1. content'[<<h, k>>] # content[<<h, k>>] =>
            hpc[h] = "await" /\ k = Len(staged[h]) + 1
      BY <1>2, WorkerLeaves
    <3>2. ~(Len(staged[h]) + 1 > Len(staged[h]) + 1)  BY <1>1
    <3> QED BY <1>0, <1>1, <3>1, <3>2 DEF Fresh, handlerVars
  <2>2. \A i \in DOMAIN queue' : content'[queue'[i]] = "absent"
    <3>0. queue \in Seq(File)  BY <1>0 DEF TypeOK
    <3>1. \A i \in DOMAIN queue : queue[i] \in File /\ (Busy(w) => queue[i] # job[w])
      BY <1>0, <3>0, SeqElements DEF OneAtATime
    <3>2. \A i \in DOMAIN queue : content'[queue[i]] = "absent"
      BY <1>0, <3>1, WorkerLeaves DEF Fresh
    <3>3. \A i \in DOMAIN queue' : \E j \in DOMAIN queue : queue'[i] = queue[j]
      <4>1. CASE queue' = queue  BY <4>1
      <4>2. CASE Take(w)
        <5>1. queue' = Tail(queue) /\ queue # << >>  BY <4>2 DEF Take
        <5>2. \A i \in DOMAIN Tail(queue) : i + 1 \in DOMAIN queue /\ Tail(queue)[i] = queue[i + 1]
          BY <3>0, <5>1
        <5> QED BY <5>1, <5>2
      <4> QED
        BY <4>1, <4>2 DEF WorkerStep, WorkerFault, Create, CreateTaken, CreateExhausted, Copy,
           Sync, CreateFails, CopyFails, StagePanics, Reply
    <3> QED BY <3>2, <3>3
  <2>3. ASSUME NEW v \in Workers, wpc'[v] = "create"  PROVE content'[job'[v]] = "absent"
    <3>1. CASE v # w
      <4>1. wpc[v] = "create" /\ job'[v] = job[v] /\ Busy(v)
        BY <2>3, <3>1, WorkerLeaves DEF Busy
      <4>2. job[v] \in File /\ (Busy(w) => job[v] # job[w])
        BY <1>0, <3>1, <4>1, JobFacts DEF OneAtATime
      <4> QED BY <1>0, <4>1, <4>2, WorkerLeaves DEF Fresh
    <3>2. CASE v = w
      <4>0. content' = content  BY <2>3, <3>2
          DEF WorkerStep, WorkerFault, Take, Create, CreateTaken, CreateExhausted, Copy,
              Sync, CreateFails, CopyFails, StagePanics, WorkerAt, Reply, dirVars, TypeOK,
              PublishInvariant
      <4>1. CASE Take(w)
        <5>1. queue \in Seq(File) /\ queue # << >>  BY <1>0, <4>1 DEF TypeOK, Take
        <5>2. 1 \in DOMAIN queue /\ Head(queue) = queue[1]  BY <5>1
        <5>3. job'[w] = Head(queue)  BY <1>0, <4>1 DEF Take, TypeOK
        <5> QED BY <1>0, <3>2, <4>0, <5>2, <5>3 DEF Fresh
      <4>2. CASE ~Take(w)
        <5>1. wpc[w] = "create" /\ job' = job
          BY <1>0, <2>3, <3>2, <4>2
             DEF WorkerStep, WorkerFault, Create, CreateTaken, CreateExhausted, Copy,
                 Sync, CreateFails, CopyFails, StagePanics, WorkerAt, Reply, TypeOK
        <5> QED BY <1>0, <3>2, <4>0, <5>1 DEF Fresh
      <4> QED BY <4>1, <4>2
    <3> QED BY <3>1, <3>2
  <2> QED BY <2>1, <2>2, <2>3 DEF Fresh
<1>5. WorkerOwns'
  <2> SUFFICES ASSUME NEW v \in Workers, wpc'[v] \in {"copy", "sync"}
               PROVE  captured'[JobName(v)'] = job'[v] /\ content'[job'[v]] # "synced"
    BY DEF WorkerOwns
  <2>1. CASE v # w
    <3>1. /\ wpc[v] \in {"copy", "sync"} /\ Busy(v) /\ job'[v] = job[v]
          /\ JobName(v)' = JobName(v)
      BY <2>1, WorkerLeaves DEF Busy
    <3>2. JobName(v) \in Name /\ job[v] \in File /\ job[v] # None /\ (Busy(w) => job[v] # job[w])
      BY <1>0, <2>1, <3>1, JobFacts DEF OneAtATime
    <3>3. captured[JobName(v)] = job[v] /\ content[job[v]] # "synced"
      BY <1>0, <3>1 DEF WorkerOwns
    <3> QED BY <3>1, <3>2, <3>3, WorkerLeaves
  <2>2. CASE v = w
    <3>1. Create(w) \/ Copy(w)
      BY <1>0, <2>2 DEF WorkerStep, WorkerFault, Take, Create, CreateTaken, CreateExhausted,
         Copy, Sync, CreateFails, CopyFails, StagePanics, WorkerAt, Reply, TypeOK
    <3>2. Busy(w) /\ JobName(w)' = JobName(w) /\ job'[w] = job[w]
      BY <3>1 DEF Create, Copy, Busy, JobName, StagedName
    <3>3. JobName(w) \in Name /\ job[w] \in File  BY <1>0, <3>2, JobFacts
    <3>4. CASE Create(w)
      BY <1>0, <2>2, <3>2, <3>3, <3>4 DEF Create, TypeOK
    <3>5. CASE Copy(w)
      BY <1>0, <2>2, <3>2, <3>3, <3>5 DEF Copy, TypeOK, WorkerOwns
    <3> QED BY <3>1, <3>4, <3>5
  <2> QED BY <2>1, <2>2
<1>6. ReplyOwns'
  <2> SUFFICES ASSUME NEW h \in Handlers, reply'[h].how = "staged"
               PROVE  /\ captured'[StagedName(h, reply'[h].at)] = Current(h)'
                      /\ content'[Current(h)'] = "synced"
    BY DEF ReplyOwns, StagedName, OwnsSynced
  <2>1. CASE reply'[h] = reply[h]
    <3>1. /\ hpc[h] = "await" /\ OwnsSynced(StagedName(h, reply[h].at), Current(h))
      BY <2>1 DEF PublishInvariant, OneAtATime, ReplyOwns
    <3>2. Len(staged[h]) + 1 \in 1..MaxSegments
      <4>1. Len(staged[h]) < Len(planned[h]) /\ Len(planned[h]) \in 1..MaxSegments
        BY <1>0, <3>1 DEF Progress, ProgressOf, Staging
      <4> QED BY <1>0, <4>1, HandlerFacts, PublishAssumption
    <3>3. StagedName(h, reply[h].at) \in Name  BY <1>0, HandlerFacts, NameFacts
    <3>4. OwnsSynced(StagedName(h, reply[h].at), <<h, Len(staged[h]) + 1>>)
      BY <3>1 DEF Current
    <3>5. /\ captured'[StagedName(h, reply[h].at)] = <<h, Len(staged[h]) + 1>>
          /\ content'[<<h, Len(staged[h]) + 1>>] = "synced"
      BY <1>3, <3>2, <3>3, <3>4 DEF OwnsSynced
    <3> QED BY <1>1, <2>1, <3>5 DEF Current
  <2>2. CASE reply'[h] # reply[h]
    <3>1. Busy(w) /\ (Sync(w) => wpc[w] = "sync")
          /\ \E how \in {"staged", "error"} : Reply(w, how)
      BY <2>2 DEF WorkerStep, WorkerFault, Take, Create, CreateTaken, CreateExhausted, Copy,
         Sync, CreateFails, CopyFails, StagePanics, Busy
    <3>2. PICK g \in Handlers : /\ Waits(g) /\ job[w] = Current(g) /\ job[w][1] = g
                                /\ JobName(w) = StagedName(g, suffix[w]) /\ JobName(w) \in Name
                                /\ job[w] \in File
      BY <1>0, <3>1, JobFacts
    <3>3. g = h /\ reply'[h].at = suffix[w]
      BY <1>0, <2>2, <3>1, <3>2 DEF Reply, TypeOK
    <3>4. Sync(w)
      <4>1. ~Reply(w, "error")  BY <1>0, <3>2, <3>3 DEF Reply, TypeOK
      <4> QED
        BY <2>2, <4>1 DEF WorkerStep, WorkerFault, Take, Create, CreateTaken,
           CreateExhausted, Copy, CreateFails, CopyFails, StagePanics
    <3>5. /\ captured'[JobName(w)] = job[w] /\ content'[job[w]] = "synced"
      BY <1>0, <3>2, <3>4 DEF Sync, Synced, TypeOK, WorkerOwns
    <3>6. Current(h)' = job[w]  BY <1>1, <3>2, <3>3
    <3> QED BY <3>2, <3>3, <3>5, <3>6
  <2> QED BY <2>1, <2>2
<1>7. StagedOwns'
  <2> SUFFICES ASSUME NEW h \in Handlers, hpc[h] \in Staging \cup Publishing,
                      NEW i \in FirstLeft(h)..Len(staged[h])
               PROVE  OwnsSynced(staged[h][i].name, <<h, SegmentOf(h, i)>>)'
    <3>1. UNCHANGED <<hpc, staged, published, planned>>  BY <1>1 DEF handlerVars
    <3>2. \A h \in Handlers : FirstLeft(h)' = FirstLeft(h) /\ \A i : SegmentOf(h, i)' = SegmentOf(h, i)
      BY <3>1 DEF FirstLeft, SegmentOf, Owed
    <3> QED BY <3>1, <3>2 DEF StagedOwns, OwnsSynced
  <2>1. /\ SegmentOf(h, i) \in 1..MaxSegments /\ staged[h][i].name \in Name
        /\ OwnsSynced(staged[h][i].name, <<h, SegmentOf(h, i)>>)
    <3>1. i \in 1..Len(staged[h])  BY <1>1, SegmentFacts
    <3> QED BY <3>1, SegmentFacts DEF OwnsSynced
  <2>2. UNCHANGED <<hpc, staged, published, planned>>  BY <1>1 DEF handlerVars
  <2>3. SegmentOf(h, i)' = SegmentOf(h, i)  BY <2>2 DEF SegmentOf, Owed
  <2> QED BY <1>3, <2>1, <2>2, <2>3 DEF OwnsSynced
<1>8. DroppingOwns'
  <2> SUFFICES ASSUME NEW h \in Handlers, NEW n \in dropping[h]
               PROVE  /\ \E k \in 1..MaxSegments : captured'[n] = <<h, k>>
                      /\ hpc[h] = "dropEmpty" => \A i \in DOMAIN staged[h] : staged[h][i].name # n
    BY <1>1 DEF DroppingOwns, handlerVars
  <2>1. PICK k \in 1..MaxSegments : captured[n] = <<h, k>>  BY DEF PublishInvariant, DroppingOwns
  <2>2. hpc[h] # "await"  BY <1>0 DEF Progress, ProgressOf, Staging
  <2>3. Busy(w) => <<h, k>> # job[w]  BY <1>2, <2>2
  <2>4. n \in Name  BY <1>0 DEF TypeOK
  <2>5. <<h, k>> # None  BY FileFacts
  <2>6. captured'[n] = captured[n]  BY <2>1, <2>3, <2>4, <2>5, WorkerLeaves
  <2> QED BY <2>1, <2>6 DEF PublishInvariant, DroppingOwns
<1> QED BY <1>4, <1>5, <1>6, <1>7, <1>8

(* A handler touches no file, and no name that stands for another's.       *)
LEMMA HandlerLeaves ==
    ASSUME PublishInvariant, NEW h \in Handlers,
           Begin(h) \/ HandlerStep(h) \/ HandlerFault(h)
    PROVE  /\ UNCHANGED <<up, content, wpc, job, suffix>>
           /\ \A v \in Workers : JobName(v)' = JobName(v)
           /\ \A n \in Name : captured'[n] # captured[n] =>
                /\ captured'[n] = None
                /\ \E k \in 1..MaxSegments : captured[n] = <<h, k>>
                /\ hpc[h] \in {"dropEmpty", "dropFailed", "unlink"}
           /\ stranded \subseteq stranded'
<1>0. TypeOK  BY DEF PublishInvariant
<1>1. UNCHANGED <<up, content, wpc, job, suffix>>
  BY DEF HandlerStep, HandlerFault, Begin, Submit, Receive, ReceiveError, Trim, DropStaged,
     Dropped, Fail, Link, LinkTaken, LinkExhausted, DropRest, Unlink, SyncDir, Announce,
     LinkFails, SyncDirFails, poolVars, dirVars
<1>2. CASE DropStaged(h)
  <2>1. PICK n \in dropping[h] : RemoveStaged(n)  BY <1>2 DEF DropStaged
  <2>2. \E k \in 1..MaxSegments : captured[n] = <<h, k>>
    BY <2>1 DEF PublishInvariant, DroppingOwns
  <2>3. hpc[h] \in {"dropEmpty", "dropFailed"}  BY <1>2 DEF DropStaged
  <2> QED BY <1>0, <1>1, <2>1, <2>2, <2>3 DEF RemoveStaged, TypeOK, JobName, StagedName
<1>3. CASE Unlink(h)
  <2> DEFINE i == Len(published[h])
             n == staged[h][i].name
  <2>0. hpc[h] = "unlink" /\ RemoveStaged(n)  BY <1>3 DEF Unlink
  <2>1. i \in FirstLeft(h)..Len(staged[h]) /\ i \in 1..Len(staged[h])
    <3>1. i > 0  BY <2>0 DEF PublishInvariant, Progress, ProgressOf
    <3> QED BY <1>0, <2>0, <3>1, HandlerFacts DEF FirstLeft
  <2>2. captured[n] = <<h, SegmentOf(h, i)>> /\ SegmentOf(h, i) \in 1..MaxSegments
    BY <2>0, <2>1, SegmentFacts DEF Publishing
  <2> HIDE DEF n
  <2> QED BY <1>0, <1>1, <2>0, <2>2 DEF RemoveStaged, TypeOK, JobName, StagedName
<1>4. CASE ~DropStaged(h) /\ ~Unlink(h)
  <2>1. UNCHANGED <<captured, stranded>>
    BY <1>4 DEF HandlerStep, HandlerFault, Begin, Submit, Receive, ReceiveError, Trim,
       Dropped, Fail, Link, LinkTaken, LinkExhausted, DropRest, SyncDir, Announce,
       LinkFails, SyncDirFails, dirVars
  <2> QED BY <1>1, <2>1 DEF JobName, StagedName
<1> QED BY <1>2, <1>3, <1>4

(* What a handler drops is its own.                                        *)
LEMMA NamesFromOwned ==
    ASSUME PublishInvariant, NEW h \in Handlers, hpc[h] \in Staging \cup Publishing,
           NEW k \in FirstLeft(h)..Len(staged[h]) + 1, NEW n \in NamesFrom(h, k)
    PROVE  \E s \in 1..MaxSegments : captured[n] = <<h, s>>
<1>0. TypeOK  BY DEF PublishInvariant
<1>1. FirstLeft(h) \in 1..Len(staged[h]) + 1 /\ Len(staged[h]) \in Nat
  BY <1>0, SegmentFacts, HandlerFacts
<1>2. PICK i \in k..Len(staged[h]) : n = staged[h][i].name  BY DEF NamesFrom
<1>3. i \in FirstLeft(h)..Len(staged[h]) /\ i \in 1..Len(staged[h])  BY <1>1, <1>2
<1> QED BY <1>2, <1>3, SegmentFacts

LEMMA HandlerKeepsOthersOwn ==
    ASSUME PublishInvariant, NEW h \in Handlers,
           Begin(h) \/ HandlerStep(h) \/ HandlerFault(h)
    PROVE  /\ Fresh' /\ WorkerOwns' /\ ReplyOwns'
           /\ \A g \in Handlers : g # h /\ hpc'[g] \in Staging \cup Publishing =>
                \A i \in FirstLeft(g)'..Len(staged'[g]) :
                  /\ captured'[staged'[g][i].name] = <<g, SegmentOf(g, i)'>>
                  /\ content'[<<g, SegmentOf(g, i)'>>] = "synced"
           /\ \A g \in Handlers : g # h => \A n \in dropping'[g] :
                /\ \E k \in 1..MaxSegments : captured'[n] = <<g, k>>
                /\ hpc'[g] = "dropEmpty" => \A i \in DOMAIN staged'[g] : staged'[g][i].name # n
<1>0. TypeOK /\ Progress /\ OneAtATime /\ Fresh /\ WorkerOwns /\ ReplyOwns
  BY DEF PublishInvariant
<1>1. UNCHANGED <<content, wpc, job, suffix>>  BY HandlerLeaves
<1>2. ASSUME NEW m \in Name, NEW g \in Handlers, g # h, NEW k \in 1..MaxSegments,
             captured[m] = <<g, k>>
      PROVE  captured'[m] = captured[m]
  BY <1>2, HandlerLeaves
<1>3. Fresh'
  <2>1. ASSUME NEW g \in Handlers, NEW k \in 1..MaxSegments
        PROVE  /\ hpc'[g] = "idle" => content[<<g, k>>] = "absent"
               /\ hpc'[g] = "submit" /\ k > Len(staged'[g]) => content[<<g, k>>] = "absent"
               /\ hpc'[g] = "await" /\ k > Len(staged'[g]) + 1 => content[<<g, k>>] = "absent"
    <3>1. CASE g # h  BY <1>0, <3>1, OthersStay DEF Fresh
    <3>2. CASE g = h
      <4>0. Len(staged[h]) \in Nat  BY <1>0, HandlerFacts
      <4>1. CASE Begin(h)
        <5>1. hpc[h] = "idle"  BY <4>1 DEF Begin
        <5>2. hpc'[h] = "submit"  BY <1>0, <4>1 DEF Begin, Goto, TypeOK
        <5> QED BY <1>0, <3>2, <5>1, <5>2 DEF Fresh
      <4>2. CASE Submit(h)
        <5>1. hpc[h] = "submit" /\ staged' = staged  BY <4>2 DEF Submit
        <5>2. hpc'[h] = "await"  BY <1>0, <4>2 DEF Submit, Goto, TypeOK
        <5>3. k > Len(staged[h]) + 1 => k > Len(staged[h])  BY <4>0, PublishAssumption
        <5> QED BY <1>0, <3>2, <5>1, <5>2, <5>3 DEF Fresh
      <4>3. CASE Receive(h)
        <5>1. hpc[h] = "await"  BY <4>3 DEF Receive
        <5>2. hpc'[h] \in {"submit", "trim"}  BY <1>0, <4>3 DEF Receive, Goto, TypeOK
        <5>3. Len(staged'[h]) = Len(staged[h]) + 1
          <6>1. staged[h] \in Seq([name : Name, empty : BOOLEAN])  BY <1>0, HandlerFacts
          <6>2. \E c : staged'[h] = Append(staged[h], c)  BY <1>0, <4>3 DEF Receive, TypeOK
          <6> QED BY <6>1, <6>2
        <5> QED BY <1>0, <3>2, <5>1, <5>2, <5>3 DEF Fresh
      <4>4. CASE ~Begin(h) /\ ~Submit(h) /\ ~Receive(h)
        <5>1. hpc'[h] \notin {"idle", "submit", "await"}
          BY <1>0, <4>4 DEF HandlerStep, HandlerFault, ReceiveError, Trim, DropStaged, Dropped,
             Fail, Link, LinkTaken, LinkExhausted, DropRest, Unlink, SyncDir, Announce,
             LinkFails, SyncDirFails, Goto, TypeOK
        <5> QED BY <3>2, <5>1
      <4> QED BY <4>1, <4>2, <4>3, <4>4
    <3> QED BY <3>1, <3>2
  <2>2. \A i \in DOMAIN queue' : content[queue'[i]] = "absent"
    <3>1. CASE Submit(h)
      <4>1. queue \in Seq(File) /\ queue' = Append(queue, <<h, Len(staged[h]) + 1>>)
        BY <1>0, <3>1 DEF TypeOK, Submit
      <4>2. \A i \in DOMAIN queue' :
              \/ i \in DOMAIN queue /\ queue'[i] = queue[i]
              \/ queue'[i] = <<h, Len(staged[h]) + 1>>
        BY <4>1
      <4>3. content[<<h, Len(staged[h]) + 1>>] = "absent"
        <5>1. hpc[h] = "submit"  BY <3>1 DEF Submit
        <5>2. Len(staged[h]) < Len(planned[h]) /\ Len(planned[h]) \in 1..MaxSegments
          BY <1>0, <5>1 DEF Progress, ProgressOf, Staging
        <5>3. Len(staged[h]) + 1 \in 1..MaxSegments /\ Len(staged[h]) + 1 > Len(staged[h])
          BY <1>0, <5>2, HandlerFacts, PublishAssumption
        <5> QED BY <1>0, <5>1, <5>3 DEF Fresh
      <4> QED BY <1>0, <4>2, <4>3 DEF Fresh
    <3>2. CASE ~Submit(h)
      <4>1. queue' = queue
        BY <3>2 DEF HandlerStep, HandlerFault, Begin, Receive, ReceiveError, Trim, DropStaged,
           Dropped, Fail, Link, LinkTaken, LinkExhausted, DropRest, Unlink, SyncDir, Announce,
           LinkFails, SyncDirFails, poolVars
      <4> QED BY <1>0, <4>1 DEF Fresh
    <3> QED BY <3>1, <3>2
  <2> QED BY <1>0, <1>1, <2>1, <2>2 DEF Fresh
<1>4. WorkerOwns'
  <2> SUFFICES ASSUME NEW v \in Workers, wpc[v] \in {"copy", "sync"}
               PROVE  captured'[JobName(v)] = job[v] /\ content[job[v]] # "synced"
    BY <1>1, HandlerLeaves DEF WorkerOwns
  <2>1. PICK g \in Handlers : /\ Waits(g) /\ job[v] = Current(g) /\ JobName(v) \in Name
                              /\ Len(staged[g]) + 1 \in 1..MaxSegments
    BY <1>0, JobFacts DEF Busy
  <2>2. captured[JobName(v)] = <<g, Len(staged[g]) + 1>> /\ content[job[v]] # "synced"
    BY <1>0, <2>1 DEF WorkerOwns, Current
  <2>3. captured'[JobName(v)] = captured[JobName(v)]
    <3>1. CASE g # h  BY <1>2, <2>1, <2>2, <3>1
    <3>2. CASE g = h
      BY <2>1, <3>2, HandlerLeaves DEF Waits
    <3> QED BY <3>1, <3>2
  <2> QED BY <2>1, <2>2, <2>3 DEF Current
<1>5. ReplyOwns'
  <2> SUFFICES ASSUME NEW g \in Handlers, reply'[g].how = "staged"
               PROVE  /\ captured'[StagedName(g, reply'[g].at)] = Current(g)'
                      /\ content[Current(g)'] = "synced"
    BY <1>1 DEF ReplyOwns, OwnsSynced, StagedName
  <2>1. reply'[g] = reply[g] /\ Current(g)' = Current(g)
        /\ (g = h => hpc[h] \notin {"dropEmpty", "dropFailed", "unlink"})
    <3>1. CASE g # h  BY <1>0, <3>1, OthersStay
    <3>2. CASE g = h
      <4>1. \/ reply' = [reply EXCEPT ![h] = NoReply]
            \/ reply' = reply /\ hpc[h] # "await"
        BY DEF HandlerStep, HandlerFault, Begin, Submit, Receive, ReceiveError, Trim,
           DropStaged, Dropped, Fail, Link, LinkTaken, LinkExhausted, DropRest, Unlink,
           SyncDir, Announce, LinkFails, SyncDirFails, poolVars
      <4>2. reply'[h].how = "none"  BY <1>0, <4>1 DEF OneAtATime, NoReply, TypeOK
      <4> QED BY <3>2, <4>2
    <3> QED BY <3>1, <3>2
  <2>2. captured[StagedName(g, reply[g].at)] = Current(g) /\ content[Current(g)] = "synced"
    BY <1>0, <2>1 DEF ReplyOwns, OwnsSynced
  <2>3. hpc[g] = "await"  BY <1>0, <2>1 DEF OneAtATime
  <2>4. Len(staged[g]) + 1 \in 1..MaxSegments
    <3>1. Len(staged[g]) < Len(planned[g]) /\ Len(planned[g]) \in 1..MaxSegments
      BY <1>0, <2>3 DEF Progress, ProgressOf, Staging
    <3> QED BY <1>0, <3>1, HandlerFacts, PublishAssumption
  <2>5. StagedName(g, reply[g].at) \in Name  BY <1>0, HandlerFacts, NameFacts
  <2>6. captured'[StagedName(g, reply[g].at)] = captured[StagedName(g, reply[g].at)]
    <3>1. CASE g # h  BY <1>2, <2>2, <2>4, <2>5, <3>1 DEF Current
    <3>2. CASE g = h  BY <2>1, <2>5, <3>2, HandlerLeaves
    <3> QED BY <3>1, <3>2
  <2> QED BY <2>1, <2>2, <2>6
<1>6. ASSUME NEW g \in Handlers, g # h, hpc'[g] \in Staging \cup Publishing,
             NEW i \in FirstLeft(g)'..Len(staged'[g])
      PROVE  /\ captured'[staged'[g][i].name] = <<g, SegmentOf(g, i)'>>
             /\ content'[<<g, SegmentOf(g, i)'>>] = "synced"
  <2>1. /\ hpc'[g] = hpc[g] /\ staged'[g] = staged[g] /\ published'[g] = published[g]
        /\ Owed(g)' = Owed(g)
    BY <1>0, <1>6, OthersStay
  <2>2. FirstLeft(g)' = FirstLeft(g) /\ SegmentOf(g, i)' = SegmentOf(g, i)
    BY <2>1 DEF FirstLeft, SegmentOf
  <2>3. i \in FirstLeft(g)..Len(staged[g]) /\ hpc[g] \in Staging \cup Publishing
    BY <1>6, <2>1, <2>2
  <2>4. i \in 1..Len(staged[g])  BY <1>0, <2>3, SegmentFacts, HandlerFacts
  <2>5. /\ captured[staged[g][i].name] = <<g, SegmentOf(g, i)>>
        /\ content[<<g, SegmentOf(g, i)>>] = "synced" /\ staged[g][i].name \in Name
        /\ SegmentOf(g, i) \in 1..MaxSegments
    BY <2>3, <2>4, SegmentFacts
  <2>6. captured'[staged[g][i].name] = captured[staged[g][i].name]  BY <1>2, <1>6, <2>5
  <2> QED BY <1>1, <2>1, <2>2, <2>5, <2>6
<1>7. ASSUME NEW g \in Handlers, g # h, NEW n \in dropping'[g]
      PROVE  /\ \E k \in 1..MaxSegments : captured'[n] = <<g, k>>
             /\ hpc'[g] = "dropEmpty" => \A i \in DOMAIN staged'[g] : staged'[g][i].name # n
  <2>1. dropping'[g] = dropping[g] /\ hpc'[g] = hpc[g] /\ staged'[g] = staged[g]
    BY <1>0, <1>7, OthersStay
  <2>2. PICK k \in 1..MaxSegments : captured[n] = <<g, k>>
    BY <1>7, <2>1 DEF PublishInvariant, DroppingOwns
  <2>3. n \in Name  BY <1>0, <1>7, <2>1 DEF TypeOK
  <2>4. captured'[n] = captured[n]  BY <1>2, <1>7, <2>2, <2>3
  <2> QED BY <1>7, <2>1, <2>2, <2>4 DEF PublishInvariant, DroppingOwns
<1> QED BY <1>3, <1>4, <1>5, <1>6, <1>7

(* The clips of the handler that steps are still its own, and what it      *)
(* drops is.                                                               *)
LEMMA HandlerKeepsOwn ==
    ASSUME PublishInvariant, NEW h \in Handlers,
           Begin(h) \/ HandlerStep(h) \/ HandlerFault(h)
    PROVE  /\ hpc'[h] \in Staging \cup Publishing =>
                \A i \in FirstLeft(h)'..Len(staged'[h]) :
                  /\ captured'[staged'[h][i].name] = <<h, SegmentOf(h, i)'>>
                  /\ content'[<<h, SegmentOf(h, i)'>>] = "synced"
           /\ \A n \in dropping'[h] :
                /\ \E k \in 1..MaxSegments : captured'[n] = <<h, k>>
                /\ hpc'[h] = "dropEmpty" => \A i \in DOMAIN staged'[h] : staged'[h][i].name # n
<1>0. /\ TypeOK /\ Progress /\ OneAtATime /\ ReplyOwns /\ ProgressOf(h)
      /\ hpc \in [Handlers -> Active \cup {"idle", "done", "failed", "killed"}]
      /\ UNCHANGED content
  BY HandlerLeaves DEF PublishInvariant, Progress, TypeOK
<1>1. /\ Len(staged[h]) \in Nat /\ Len(published[h]) \in Nat
      /\ Len(published[h]) <= Len(staged[h]) /\ DOMAIN staged[h] = 1..Len(staged[h])
  BY <1>0, HandlerFacts
<1>2. ASSUME hpc[h] \in Staging \cup Publishing
      PROVE  \A i \in FirstLeft(h)..Len(staged[h]) :
                  /\ captured[staged[h][i].name] = <<h, SegmentOf(h, i)>>
                  /\ content[<<h, SegmentOf(h, i)>>] = "synced"
  BY <1>2, SegmentFacts
<1>3. hpc[h] \notin {"dropEmpty", "dropFailed"} => dropping[h] = {}
  BY <1>0 DEF ProgressOf
<1> USE DEF Staging, Publishing
<1>4. CASE Begin(h) \/ Submit(h) \/ Dropped(h) \/ LinkTaken(h) \/ SyncDir(h)
  <2>1. UNCHANGED <<captured, staged, published, dropping>>
    BY <1>4 DEF Begin, Submit, Dropped, LinkTaken, SyncDir, dirVars
  <2>2. hpc[h] \notin {"dropFailed", "unlink"} /\ (Dropped(h) => dropping[h] = {})
    BY <1>4 DEF Begin, Submit, Dropped, LinkTaken, SyncDir
  <2>3. dropping'[h] = {}
    BY <1>3, <1>4, <2>1, <2>2 DEF Begin, Submit, Dropped, LinkTaken, SyncDir
  <2>4. CASE Begin(h)
    <3>1. staged[h] = << >> /\ published[h] = << >>
      BY <1>0, <2>4 DEF Begin, ProgressOf
    <3>2. FirstLeft(h)' = 1 /\ Len(staged'[h]) = 0
      BY <1>0, <2>1, <2>4, <3>1 DEF FirstLeft, Begin, Goto
    <3> QED BY <2>3, <3>2
  <2>5. CASE ~Begin(h)
    <3>1. planned' = planned /\ hpc'[h] # "unlink"
          /\ (hpc[h] \in Staging <=> hpc'[h] \in Staging) /\ hpc[h] \in Staging \cup Publishing
      BY <1>0, <1>4, <2>5 DEF Submit, Dropped, LinkTaken, SyncDir, Goto
    <3>2. FirstLeft(h)' = FirstLeft(h) /\ \A i : SegmentOf(h, i)' = SegmentOf(h, i)
      <4>1. Owed(h)' = Owed(h)  BY <3>1 DEF Owed
      <4> QED BY <2>1, <2>2, <3>1, <4>1 DEF FirstLeft, SegmentOf
    <3> QED BY <1>0, <1>2, <2>1, <2>3, <3>1, <3>2
  <2> QED BY <2>4, <2>5
<1>5. CASE Receive(h)
  <2> DEFINE k == Len(staged[h]) + 1
             c == [name |-> StagedName(h, reply[h].at), empty |-> ~planned[h][k]]
  <2>1. /\ staged'[h] = Append(staged[h], c) /\ UNCHANGED <<captured, planned, published, dropping>>
        /\ hpc[h] = "await" /\ hpc'[h] \in {"trim", "submit"} /\ reply[h].how = "staged"
    BY <1>0, <1>5 DEF Receive, Goto, dirVars, TypeOK
  <2>2. published[h] = << >>  BY <1>0, <2>1 DEF ProgressOf
  <2>3. FirstLeft(h) = 1 /\ FirstLeft(h)' = 1
    BY <2>1, <2>2 DEF FirstLeft
  <2>4. \A i : SegmentOf(h, i) = i /\ SegmentOf(h, i)' = i  BY <2>1 DEF SegmentOf
  <2>5. captured[StagedName(h, reply[h].at)] = <<h, k>> /\ content[<<h, k>>] = "synced"
    BY <1>0, <2>1 DEF ReplyOwns, OwnsSynced, Current
  <2>6. c.name = StagedName(h, reply[h].at)  OBVIOUS
  <2> HIDE DEF c
  <2>7. /\ Len(Append(staged[h], c)) = k /\ Append(staged[h], c)[k] = c
        /\ \A i \in 1..Len(staged[h]) : Append(staged[h], c)[i] = staged[h][i]
    <3>1. staged[h] \in Seq([name : Name, empty : BOOLEAN])  BY <1>0, HandlerFacts
    <3> QED BY <3>1
  <2>8. \A i \in 1..k : i \in 1..Len(staged[h]) \/ i = k  BY <1>1
  <2>9. \A i \in 1..k : captured[Append(staged[h], c)[i].name] = <<h, i>>
                        /\ content[<<h, i>>] = "synced"
    <3>1. \A i \in 1..Len(staged[h]) :
            captured[staged[h][i].name] = <<h, i>> /\ content[<<h, i>>] = "synced"
      BY <1>2, <2>1, <2>3, <2>4
    <3> QED BY <2>5, <2>6, <2>7, <2>8, <3>1
  <2> QED BY <1>0, <1>3, <2>1, <2>3, <2>4, <2>7, <2>9
<1>6. CASE ReceiveError(h) \/ (DropRest(h) /\ hpc[h] \in {"publish", "syncdir"})
  <2>1. hpc'[h] = "dropFailed" /\ captured' = captured
    BY <1>0, <1>6 DEF ReceiveError, DropRest, Goto, dirVars
  <2>2. \E k \in FirstLeft(h)..Len(staged[h]) + 1 : dropping'[h] = NamesFrom(h, k)
    <3>1. CASE ReceiveError(h)
      <4>1. published[h] = << >> /\ hpc[h] = "await" /\ dropping'[h] = NamesFrom(h, 1)
        BY <1>0, <3>1 DEF ReceiveError, ProgressOf, TypeOK
      <4>2. FirstLeft(h) = 1  BY <4>1 DEF FirstLeft
      <4> QED BY <1>1, <4>1, <4>2
    <3>2. CASE DropRest(h) /\ hpc[h] \in {"publish", "syncdir"}
      <4>1. dropping'[h] = NamesFrom(h, At(h)) /\ At(h) = FirstLeft(h)
        BY <1>0, <3>2 DEF DropRest, At, FirstLeft, TypeOK
      <4> QED BY <1>1, <4>1 DEF At
    <3> QED BY <1>6, <3>1, <3>2
  <2>3. hpc[h] \in Staging \cup Publishing  BY <1>6 DEF ReceiveError
  <2> QED BY <2>1, <2>2, <2>3, NamesFromOwned
<1>7. CASE Trim(h)
  <2> DEFINE kept == Kept(staged[h])
  <2>1. /\ staged'[h] = kept /\ UNCHANGED <<captured, planned, published>>
        /\ hpc[h] = "trim" /\ hpc'[h] = "dropEmpty"
        /\ dropping'[h] = NamesFrom(h, 1) \ {kept[i].name : i \in DOMAIN kept}
    BY <1>0, <1>7 DEF Trim, Goto, dirVars, TypeOK
  <2>2. published[h] = << >>  BY <1>0, <2>1 DEF ProgressOf
  <2>3. FirstLeft(h) = 1 /\ FirstLeft(h)' = 1  BY <2>1, <2>2 DEF FirstLeft
  <2>4. \A i : SegmentOf(h, i) = i /\ SegmentOf(h, i)' = Nth(Owed(h), i)
    <3>1. Owed(h)' = Owed(h)  BY <2>1 DEF Owed
    <3> QED BY <2>1, <3>1 DEF SegmentOf
  <2>5. /\ Len(kept) = Cardinality(Owed(h)) /\ DOMAIN kept = 1..Cardinality(Owed(h))
        /\ \A i \in 1..Cardinality(Owed(h)) :
             Nth(Owed(h), i) \in 1..Len(staged[h]) /\ kept[i] = staged[h][Nth(Owed(h), i)]
    BY <1>0, <2>1, KeptFacts
  <2> HIDE DEF kept
  <2>6. \A i \in 1..Len(kept) : /\ captured[kept[i].name] = <<h, Nth(Owed(h), i)>>
                                /\ content[<<h, Nth(Owed(h), i)>>] = "synced"
    <3> SUFFICES ASSUME NEW i \in 1..Len(kept)
                 PROVE  /\ captured[kept[i].name] = <<h, Nth(Owed(h), i)>>
                        /\ content[<<h, Nth(Owed(h), i)>>] = "synced"
      OBVIOUS
    <3> DEFINE j == Nth(Owed(h), i)
    <3>1. j \in 1..Len(staged[h]) /\ kept[i] = staged[h][j]  BY <2>5
    <3>2. j \in FirstLeft(h)..Len(staged[h]) /\ SegmentOf(h, j) = j  BY <2>3, <2>4, <3>1
    <3> HIDE DEF j
    <3>3. captured[staged[h][j].name] = <<h, j>> /\ content[<<h, j>>] = "synced"
      <4>1. /\ captured[staged[h][j].name] = <<h, SegmentOf(h, j)>>
            /\ content[<<h, SegmentOf(h, j)>>] = "synced"
        BY <1>2, <2>1, <3>2
      <4> QED BY <3>2, <4>1
    <3> QED BY <3>1, <3>3 DEF j
  <2>7. \A n \in dropping'[h] : \E k \in 1..MaxSegments : captured[n] = <<h, k>>
    <3>1. 1 \in FirstLeft(h)..Len(staged[h]) + 1  BY <1>1, <2>3
    <3> QED BY <2>1, <3>1, NamesFromOwned
  <2>8. \A n \in dropping'[h] : \A i \in DOMAIN kept : kept[i].name # n  BY <2>1
  <2>9. \A i \in FirstLeft(h)'..Len(staged'[h]) :
          /\ captured'[staged'[h][i].name] = <<h, SegmentOf(h, i)'>>
          /\ content'[<<h, SegmentOf(h, i)'>>] = "synced"
    BY <1>0, <2>1, <2>3, <2>4, <2>6
  <2>10. \A n \in dropping'[h] : \A i \in DOMAIN staged'[h] : staged'[h][i].name # n
    BY <2>1, <2>8
  <2>11. \A n \in dropping'[h] : \E k \in 1..MaxSegments : captured'[n] = <<h, k>>
    BY <2>1, <2>7
  <2> QED BY <2>9, <2>10, <2>11
<1>8. CASE DropStaged(h)
  <2>1. PICK n \in dropping[h] :
          RemoveStaged(n) /\ dropping' = [dropping EXCEPT ![h] = @ \ {n}]
    BY <1>8 DEF DropStaged
  <2>2. /\ hpc' = hpc /\ UNCHANGED <<planned, staged, published>>
        /\ dropping'[h] = dropping[h] \ {n} /\ dropping[h] \subseteq Name
    BY <1>0, <1>8, <2>1 DEF DropStaged, TypeOK
  <2>3. \A m \in Name : m # n => captured'[m] = captured[m]
    BY <1>0, <2>1 DEF RemoveStaged, TypeOK
  <2>4. \A m \in dropping[h] :
          /\ \E k \in 1..MaxSegments : captured[m] = <<h, k>>
          /\ hpc[h] = "dropEmpty" => \A i \in DOMAIN staged[h] : staged[h][i].name # m
    BY DEF PublishInvariant, DroppingOwns
  <2>5. \A m \in dropping'[h] :
          /\ \E k \in 1..MaxSegments : captured'[m] = <<h, k>>
          /\ hpc'[h] = "dropEmpty" => \A i \in DOMAIN staged'[h] : staged'[h][i].name # m
    BY <2>2, <2>3, <2>4
  <2>6. ASSUME hpc'[h] \in Staging \cup Publishing, NEW i \in FirstLeft(h)'..Len(staged'[h])
        PROVE  /\ captured'[staged'[h][i].name] = <<h, SegmentOf(h, i)'>>
               /\ content'[<<h, SegmentOf(h, i)'>>] = "synced"
    <3>1. hpc[h] = "dropEmpty"  BY <1>8, <2>2, <2>6 DEF DropStaged
    <3>2. FirstLeft(h)' = FirstLeft(h) /\ SegmentOf(h, i)' = SegmentOf(h, i)
      BY <2>2 DEF FirstLeft, SegmentOf, Owed
    <3>3. i \in 1..Len(staged[h])  BY <1>1, <2>2, <2>6, <3>1, <3>2 DEF FirstLeft
    <3>4. staged[h][i].name \in Name /\ staged[h][i].name # n
      BY <1>0, <1>1, <2>1, <2>4, <3>1, <3>3, HandlerFacts
    <3> QED BY <1>0, <1>2, <2>2, <2>3, <2>6, <3>1, <3>2, <3>4
  <2> QED BY <2>5, <2>6
<1>9. CASE Fail(h) \/ Announce(h)
  <2>1. hpc'[h] \in {"failed", "done"} /\ dropping' = dropping /\ dropping[h] = {}
    BY <1>0, <1>3, <1>9 DEF Fail, Announce, Goto
  <2> QED BY <2>1
<1>10. CASE Link(h)
  <2>1. /\ published'[h] = Append(published[h], Target(h)) /\ UNCHANGED <<captured, planned, staged, dropping>>
        /\ hpc[h] = "publish" /\ hpc'[h] = "unlink"
    BY <1>0, <1>10 DEF Link, Goto, TypeOK
  <2>2. Len(published'[h]) = Len(published[h]) + 1
    BY <1>0, <2>1, HandlerFacts
  <2>3. FirstLeft(h)' = FirstLeft(h) /\ \A i : SegmentOf(h, i)' = SegmentOf(h, i)
    <3>1. Owed(h)' = Owed(h)  BY <2>1 DEF Owed
    <3> QED BY <2>1, <2>2, <3>1 DEF FirstLeft, SegmentOf
  <2> QED BY <1>0, <1>2, <1>3, <2>1, <2>3
<1>11. CASE Unlink(h)
  <2> DEFINE l == Len(published[h])
             n == staged[h][l].name
  <2>1. /\ RemoveStaged(n) /\ UNCHANGED <<planned, staged, published, dropping>>
        /\ hpc[h] = "unlink" /\ hpc'[h] = "syncdir"
    BY <1>0, <1>11 DEF Unlink, Goto
  <2>2. l \in 1..Len(staged[h]) /\ FirstLeft(h) = l /\ FirstLeft(h)' = l + 1
    <3>1. l > 0  BY <1>0, <2>1 DEF ProgressOf
    <3> QED BY <1>1, <2>1, <3>1 DEF FirstLeft
  <2>3. \A i : SegmentOf(h, i)' = SegmentOf(h, i)
    <3>1. Owed(h)' = Owed(h)  BY <2>1 DEF Owed
    <3> QED BY <2>1, <3>1 DEF SegmentOf
  <2>4. ASSUME NEW i \in l + 1..Len(staged[h])
        PROVE  captured'[staged[h][i].name] = captured[staged[h][i].name]
    <3>1. i \in 1..Len(staged[h]) /\ i # l /\ i \in FirstLeft(h)..Len(staged[h])
          /\ l \in FirstLeft(h)..Len(staged[h])
      BY <1>1, <2>2
    <3>2. SegmentOf(h, i) # SegmentOf(h, l)  BY <2>1, <2>2, <3>1, SegmentFacts
    <3>3. staged[h][i].name # n
      <4>1. captured[staged[h][i].name] = <<h, SegmentOf(h, i)>>
        BY <1>2, <2>1, <3>1
      <4>2. captured[n] = <<h, SegmentOf(h, l)>>  BY <1>2, <2>1, <3>1
      <4> HIDE DEF n, l
      <4> QED BY <3>2, <4>1, <4>2
    <3>4. staged[h][i].name \in Name  BY <1>0, <3>1, HandlerFacts
    <3> QED BY <1>0, <2>1, <3>3, <3>4 DEF RemoveStaged, TypeOK
  <2> HIDE DEF n
  <2>5. \A i \in l + 1..Len(staged[h]) : i \in FirstLeft(h)..Len(staged[h])
    BY <1>1, <2>2
  <2>6. \A i \in FirstLeft(h)'..Len(staged'[h]) :
          /\ captured'[staged'[h][i].name] = <<h, SegmentOf(h, i)'>>
          /\ content'[<<h, SegmentOf(h, i)'>>] = "synced"
    <3> SUFFICES ASSUME NEW i \in FirstLeft(h)'..Len(staged'[h])
                 PROVE  /\ captured'[staged'[h][i].name] = <<h, SegmentOf(h, i)'>>
                        /\ content'[<<h, SegmentOf(h, i)'>>] = "synced"
      OBVIOUS
    <3>1. i \in l + 1..Len(staged[h])  BY <2>1, <2>2
    <3>2. /\ captured[staged[h][i].name] = <<h, SegmentOf(h, i)>>
          /\ content[<<h, SegmentOf(h, i)>>] = "synced"
      BY <1>2, <2>1, <2>5, <3>1
    <3> QED BY <1>0, <2>1, <2>3, <2>4, <3>1, <3>2
  <2>7. dropping'[h] = {}  BY <1>3, <2>1
  <2> QED BY <2>6, <2>7
<1>12. CASE LinkExhausted(h) \/ HandlerFault(h)
  <2>1. DropRest(h) /\ hpc[h] \in {"publish", "syncdir"}
    BY <1>12 DEF LinkExhausted, HandlerFault, LinkFails, SyncDirFails
  <2> QED BY <1>6, <2>1
<1> QED
  BY <1>4, <1>5, <1>6, <1>7, <1>8, <1>9, <1>10, <1>11, <1>12 DEF HandlerStep

LEMMA RestKeepsOwners ==
    ASSUME PublishInvariant, Crash \/ Restart \/ UNCHANGED vars
    PROVE  Fresh' /\ WorkerOwns' /\ ReplyOwns' /\ StagedOwns' /\ DroppingOwns'
<1>0. TypeOK /\ Progress /\ OneAtATime /\ Fresh /\ Down  BY DEF PublishInvariant
<1> USE DEF Staging, Publishing
<1>1. CASE Crash
  <2>1. /\ queue' = << >> /\ \A w \in Workers : wpc'[w] = "idle"
        /\ \A h \in Handlers : reply'[h].how = "none" /\ dropping'[h] = {}
        /\ \A h \in Handlers : hpc'[h] \notin Active /\ (hpc'[h] = "idle" => hpc[h] = "idle")
    BY <1>0, <1>1 DEF Crash, NoReply, Active
  <2>2. \A f \in File : content[f] = "absent" => content'[f] = "absent"
    BY <1>0, <1>1 DEF Crash
  <2>3. \A h \in Handlers : \A k \in 1..MaxSegments : <<h, k>> \in File  BY FileFacts
  <2> QED BY <1>0, <2>1, <2>2, <2>3 DEF Fresh, WorkerOwns, ReplyOwns, StagedOwns, DroppingOwns, Active
<1>2. CASE Restart
  <2>1. /\ queue' = << >> /\ \A w \in Workers : wpc'[w] = "idle"
        /\ \A h \in Handlers : reply'[h].how = "none" /\ dropping'[h] = {}
        /\ \A h \in Handlers : hpc'[h] = hpc[h] /\ hpc[h] \notin Active
        /\ content' = content
    BY <1>0, <1>2 DEF Restart, Down, Busy, OneAtATime, Active, Progress, ProgressOf,
       handlerVars, poolVars
  <2> QED BY <1>0, <2>1 DEF Fresh, WorkerOwns, ReplyOwns, StagedOwns, DroppingOwns, Active
<1>3. CASE UNCHANGED vars
  <2>1. UNCHANGED <<captured, content, stranded, hpc, planned, staged, dropping, trying, published,
                    queue, reply, wpc, job, suffix>>
    BY <1>3 DEF vars, dirVars, handlerVars, poolVars
  <2>2. Fresh' /\ WorkerOwns' /\ ReplyOwns' /\ DroppingOwns'
    BY <2>1 DEF PublishInvariant, Fresh, WorkerOwns, ReplyOwns, DroppingOwns,
       OwnsSynced, Current, JobName, StagedName
  <2>3. \A h \in Handlers : /\ FirstLeft(h)' = FirstLeft(h)
                            /\ \A i : SegmentOf(h, i)' = SegmentOf(h, i)
    BY <2>1 DEF FirstLeft, SegmentOf, Owed
  <2>4. StagedOwns'  BY <2>1, <2>3 DEF PublishInvariant, StagedOwns, OwnsSynced
  <2> QED BY <2>2, <2>4
<1> QED BY <1>1, <1>2, <1>3

-----------------------------------------------------------------------------
(* Who removes names of the capturing directory.                           *)

LEMMA WorkerKeepsReclaimed ==
    ASSUME PublishInvariant, NEW w \in Workers, WorkerStep(w) \/ WorkerFault(w)
    PROVE  Reclaimed'
<1>0. TypeOK /\ Progress /\ OneAtATime /\ WorkerOwns /\ Reclaimed  BY DEF PublishInvariant
<1> SUFFICES ASSUME up, NEW n \in Name, captured'[n] # None, captured'[n] \notin stranded'
             PROVE  \E h \in Handlers : captured'[n][1] = h /\ Reclaims(h, n)'
  BY WorkerLeaves DEF Reclaimed
<1>1. UNCHANGED <<hpc, staged, published, dropping>>  BY WorkerLeaves DEF handlerVars
<1>2. CASE Create(w) /\ n = JobName(w)
  <2>0. Busy(w)  BY <1>2 DEF Create, Busy
  <2>1. PICK h \in Handlers : job[w][1] = h /\ JobName(w) \in Name  BY <1>0, <2>0, JobFacts
  <2>2. captured'[n] = job[w] /\ wpc'[w] = "copy" /\ job' = job /\ JobName(w)' = JobName(w)
    BY <1>0, <1>2, <2>1 DEF Create, WorkerAt, TypeOK, JobName, StagedName
  <2> QED BY <1>2, <2>1, <2>2 DEF Reclaims
<1>3. CASE ~(Create(w) /\ n = JobName(w))
  <2>1. captured'[n] = captured[n] /\ stranded \subseteq stranded'
    <3>1. CASE CopyFails(w)
      <4>1. JobName(w) \in Name  BY <1>0, <3>1, JobFacts DEF CopyFails, Busy
      <4> QED BY <1>0, <3>1, <4>1 DEF CopyFails, RemoveStaged, TypeOK
    <3>2. CASE Create(w)  BY <1>0, <1>3, <3>2 DEF Create, TypeOK
    <3>3. CASE ~Create(w) /\ ~CopyFails(w)
      BY <1>3, <3>3 DEF WorkerStep, WorkerFault, Take, CreateTaken, CreateExhausted, Copy,
         Sync, CreateFails, StagePanics, dirVars
    <3> QED BY <3>1, <3>2, <3>3
  <2>2. PICK h \in Handlers : captured[n][1] = h /\ Reclaims(h, n)
    BY <1>0, <2>1 DEF Reclaimed
  <2>3. CASE \E v \in Workers : v # w /\ wpc[v] \in {"copy", "sync"} /\ job[v][1] = h /\ JobName(v) = n
    <3>1. PICK v \in Workers :
            v # w /\ wpc[v] \in {"copy", "sync"} /\ job[v][1] = h /\ JobName(v) = n
      BY <2>3
    <3>2. wpc'[v] \in {"copy", "sync"} /\ job'[v][1] = h /\ JobName(v)' = n
      BY <3>1, WorkerLeaves
    <3> QED BY <2>1, <2>2, <3>2 DEF Reclaims
  <2>4. CASE wpc[w] \in {"copy", "sync"} /\ job[w][1] = h /\ JobName(w) = n
    <3>1. captured[n] = job[w]  BY <1>0, <2>4 DEF WorkerOwns
    <3>2. CASE Copy(w)
      <4>1. wpc'[w] = "sync" /\ job' = job /\ JobName(w)' = JobName(w)
        BY <1>0, <3>2 DEF Copy, WorkerAt, TypeOK, JobName, StagedName
      <4> QED BY <2>1, <2>2, <2>4, <4>1 DEF Reclaims
    <3>3. CASE Sync(w)
      <4>1. reply'[h].how = "staged" /\ reply'[h].at = suffix[w] /\ JobName(w) = StagedName(h, suffix[w])
        BY <1>0, <2>4, <3>3 DEF Sync, Reply, TypeOK, JobName
      <4>2. StagedName(h, reply'[h].at) = n  BY <2>4, <4>1
      <4> QED BY <2>1, <2>2, <4>1, <4>2 DEF Reclaims, StagedName
    <3>4. ~StagePanics(w)  BY <1>0, <2>1, <2>4, <3>1 DEF StagePanics
    <3>5. ~CopyFails(w)
      <4>1. n \in Name /\ captured[n] = job[w] /\ captured'[n] = job[w]  BY <2>1, <3>1
      <4> QED BY <1>0, <2>4, <4>1 DEF CopyFails, RemoveStaged, TypeOK
    <3> QED
      BY <2>4, <3>2, <3>3, <3>4, <3>5 DEF WorkerStep, WorkerFault, Take, Create, CreateTaken,
         CreateExhausted, CreateFails
  <2>5. CASE reply[h].how = "staged" /\ StagedName(h, reply[h].at) = n
    <3>1. reply'[h] = reply[h]
      <4>1. CASE Busy(w)
        <5>1. PICK g \in Handlers : Waits(g) /\ job[w][1] = g  BY <1>0, <4>1, JobFacts
        <5>2. g # h  BY <2>5, <5>1 DEF Waits
        <5> QED
          BY <1>0, <5>1, <5>2 DEF WorkerStep, WorkerFault, Take, Create, CreateTaken,
             CreateExhausted, Copy, Sync, CreateFails, CopyFails, StagePanics, Reply, TypeOK
      <4>2. CASE ~Busy(w)
        BY <4>2 DEF WorkerStep, WorkerFault, Take, Create, CreateTaken, CreateExhausted, Copy,
           Sync, CreateFails, CopyFails, StagePanics, Busy
      <4> QED BY <4>1, <4>2
    <3> QED BY <2>1, <2>2, <2>5, <3>1 DEF Reclaims, StagedName
  <2>6. CASE \/ /\ hpc[h] \in Staging \cup Publishing
                /\ \E i \in FirstLeft(h)..Len(staged[h]) : staged[h][i].name = n
             \/ n \in dropping[h]
    <3>1. FirstLeft(h)' = FirstLeft(h)  BY <1>1 DEF FirstLeft
    <3> QED BY <1>1, <2>1, <2>2, <2>6, <3>1 DEF Reclaims
  <2> QED BY <2>2, <2>3, <2>4, <2>5, <2>6 DEF Reclaims
<1> QED BY <1>2, <1>3

LEMMA HandlerKeepsReclaimed ==
    ASSUME PublishInvariant, NEW h \in Handlers,
           Begin(h) \/ HandlerStep(h) \/ HandlerFault(h)
    PROVE  Reclaimed'
<1>0. /\ TypeOK /\ Progress /\ OneAtATime /\ Reclaimed /\ ProgressOf(h)
      /\ hpc \in [Handlers -> Active \cup {"idle", "done", "failed", "killed"}]
  BY DEF PublishInvariant, Progress, TypeOK
<1> SUFFICES ASSUME up, NEW n \in Name, captured'[n] # None, captured'[n] \notin stranded'
             PROVE  \E g \in Handlers : captured'[n][1] = g /\ Reclaims(g, n)'
  BY HandlerLeaves DEF Reclaimed
<1>1. captured'[n] = captured[n] /\ captured[n] \notin stranded  BY HandlerLeaves
<1>2. PICK g \in Handlers : captured[n][1] = g /\ Reclaims(g, n)  BY <1>0, <1>1 DEF Reclaimed
<1> SUFFICES ASSUME ~Reclaims(g, n)'  PROVE FALSE  BY <1>1, <1>2
<1>3. ~\E w \in Workers : wpc[w] \in {"copy", "sync"} /\ job[w][1] = g /\ JobName(w) = n
  BY HandlerLeaves DEF Reclaims
<1>4. g = h
  <2> SUFFICES ASSUME g # h PROVE FALSE  OBVIOUS
  <2>1. /\ hpc'[g] = hpc[g] /\ staged'[g] = staged[g] /\ published'[g] = published[g]
        /\ dropping'[g] = dropping[g] /\ reply'[g] = reply[g]
    BY <1>0, OthersStay
  <2>2. FirstLeft(g)' = FirstLeft(g) /\ StagedName(g, reply[g].at)' = StagedName(g, reply[g].at)
    BY <2>1 DEF FirstLeft, StagedName
  <2> QED BY <1>2, <1>3, <2>1, <2>2 DEF Reclaims, StagedName
<1>5. /\ Len(staged[h]) \in Nat /\ Len(published[h]) \in Nat
      /\ Len(published[h]) <= Len(staged[h]) /\ DOMAIN staged[h] = 1..Len(staged[h])
  BY <1>0, HandlerFacts
<1>6. hpc[h] \notin {"dropEmpty", "dropFailed"} => dropping[h] = {}
  BY <1>0 DEF ProgressOf
<1> USE DEF Staging, Publishing
(* A staged clip waits in the reply.                                       *)
<1>7. CASE reply[h].how = "staged" /\ StagedName(h, reply[h].at) = n
  <2>1. hpc[h] = "await"  BY <1>0, <1>7 DEF OneAtATime
  <2>2. Receive(h)
    <3>1. ~ReceiveError(h)  BY <1>7 DEF ReceiveError
    <3> QED
      BY <2>1, <3>1 DEF HandlerStep, HandlerFault, Begin, Submit, Trim, DropStaged, Dropped,
         Fail, Link, LinkTaken, LinkExhausted, DropRest, Unlink, SyncDir, Announce,
         LinkFails, SyncDirFails
  <2> DEFINE c == [name |-> StagedName(h, reply[h].at), empty |-> ~planned[h][Len(staged[h]) + 1]]
  <2>3. /\ staged'[h] = Append(staged[h], c) /\ published' = published
        /\ hpc'[h] \in {"trim", "submit"}
    BY <1>0, <2>2 DEF Receive, Goto, TypeOK
  <2>4. c.name = n  BY <1>7
  <2> HIDE DEF c
  <2>5. /\ Len(Append(staged[h], c)) = Len(staged[h]) + 1
        /\ Append(staged[h], c)[Len(staged[h]) + 1] = c
    <3>1. staged[h] \in Seq([name : Name, empty : BOOLEAN])  BY <1>0, HandlerFacts
    <3> QED BY <3>1
  <2>6. FirstLeft(h)' = Len(published[h]) + 1  BY <2>3 DEF FirstLeft
  <2>7. Len(staged[h]) + 1 \in FirstLeft(h)'..Len(staged'[h])  BY <1>5, <2>3, <2>5, <2>6
  <2> QED BY <1>4, <2>3, <2>4, <2>5, <2>7 DEF Reclaims
(* A staged clip is the handler's.                                         *)
<1>8. CASE /\ hpc[h] \in Staging \cup Publishing
           /\ \E i \in FirstLeft(h)..Len(staged[h]) : staged[h][i].name = n
  <2>1. PICK i \in FirstLeft(h)..Len(staged[h]) : staged[h][i].name = n  BY <1>8
  <2>2. i \in 1..Len(staged[h]) /\ FirstLeft(h) \in 1..Len(staged[h]) + 1
    BY <1>5, <1>8, <2>1, SegmentFacts
  <2>3. CASE Submit(h) \/ Dropped(h) \/ LinkTaken(h) \/ SyncDir(h) \/ DropStaged(h)
    <3>1. /\ staged' = staged /\ published' = published /\ hpc[h] # "unlink" /\ hpc'[h] # "unlink"
          /\ hpc'[h] \in Staging \cup Publishing
      BY <1>0, <1>8, <2>3 DEF Submit, Dropped, LinkTaken, SyncDir, DropStaged, Goto
    <3>2. FirstLeft(h)' = FirstLeft(h)  BY <3>1 DEF FirstLeft
    <3> QED BY <1>4, <2>1, <3>1, <3>2 DEF Reclaims
  <2>4. CASE Receive(h)
    <3>1. published' = published /\ hpc[h] = "await" /\ hpc'[h] \in {"trim", "submit"}
          /\ \E c : staged'[h] = Append(staged[h], c)
      BY <1>0, <2>4 DEF Receive, Goto, TypeOK
    <3>2. staged[h] \in Seq([name : Name, empty : BOOLEAN])  BY <1>0, HandlerFacts
    <3>3. Len(staged'[h]) = Len(staged[h]) + 1 /\ staged'[h][i] = staged[h][i]
      BY <2>2, <3>1, <3>2
    <3>4. FirstLeft(h)' = FirstLeft(h)  BY <3>1 DEF FirstLeft
    <3>5. i \in FirstLeft(h)'..Len(staged'[h])  BY <1>5, <2>1, <2>2, <3>3, <3>4
    <3> QED BY <1>4, <2>1, <3>1, <3>3, <3>5 DEF Reclaims
  <2>5. CASE ReceiveError(h) \/ (DropRest(h) /\ hpc[h] \in {"publish", "syncdir"})
    <3>1. \E k \in 1..Len(staged[h]) + 1 : k <= FirstLeft(h) /\ dropping'[h] = NamesFrom(h, k)
      <4>1. CASE ReceiveError(h)
        <5>1. dropping'[h] = NamesFrom(h, 1)  BY <1>0, <4>1 DEF ReceiveError, TypeOK
        <5> QED BY <1>5, <2>2, <5>1
      <4>2. CASE DropRest(h) /\ hpc[h] \in {"publish", "syncdir"}
        <5>1. dropping'[h] = NamesFrom(h, At(h)) /\ At(h) = FirstLeft(h)
          BY <1>0, <4>2 DEF DropRest, At, FirstLeft, TypeOK
        <5> QED BY <1>5, <2>2, <5>1
      <4> QED BY <2>5, <4>1, <4>2
    <3>2. n \in dropping'[h]
      <4>1. PICK k \in 1..Len(staged[h]) + 1 : k <= FirstLeft(h) /\ dropping'[h] = NamesFrom(h, k)
        BY <3>1
      <4>2. i \in k..Len(staged[h])  BY <1>5, <2>1, <2>2, <4>1
      <4> QED BY <2>1, <4>1, <4>2 DEF NamesFrom
    <3> QED BY <1>4, <3>2 DEF Reclaims
  <2>6. CASE Trim(h)
    <3> DEFINE kept == Kept(staged[h])
    <3>1. /\ staged'[h] = kept /\ published' = published
          /\ hpc[h] = "trim" /\ hpc'[h] = "dropEmpty"
          /\ dropping'[h] = NamesFrom(h, 1) \ {kept[j].name : j \in DOMAIN kept}
      BY <1>0, <2>6 DEF Trim, Goto, TypeOK
    <3>2. FirstLeft(h)' = 1
      <4>1. published[h] = << >>  BY <1>0, <3>1 DEF ProgressOf
      <4> QED BY <3>1, <4>1 DEF FirstLeft
    <3>3. n \in NamesFrom(h, 1)  BY <2>1, <2>2 DEF NamesFrom
    <3>4. DOMAIN kept = 1..Len(kept)  BY <1>0, <3>1, KeptFacts
    <3> HIDE DEF kept
    <3>5. CASE n \in {kept[j].name : j \in DOMAIN kept}
      BY <1>4, <3>1, <3>2, <3>4, <3>5 DEF Reclaims
    <3>6. CASE n \notin {kept[j].name : j \in DOMAIN kept}
      BY <1>4, <3>1, <3>3, <3>6 DEF Reclaims
    <3> QED BY <3>5, <3>6
  <2>7. CASE Link(h)
    <3>1. /\ published'[h] = Append(published[h], Target(h)) /\ staged' = staged
          /\ hpc[h] = "publish" /\ hpc'[h] = "unlink"
      BY <1>0, <2>7 DEF Link, Goto, TypeOK
    <3>2. Len(published'[h]) = Len(published[h]) + 1  BY <1>0, <3>1, HandlerFacts
    <3>3. FirstLeft(h)' = FirstLeft(h)  BY <3>1, <3>2 DEF FirstLeft
    <3> QED BY <1>4, <2>1, <3>1, <3>3 DEF Reclaims
  <2>8. CASE Unlink(h)
    <3>1. /\ RemoveStaged(staged[h][Len(published[h])].name) /\ UNCHANGED <<staged, published>>
          /\ hpc[h] = "unlink" /\ hpc'[h] = "syncdir"
      BY <1>0, <2>8 DEF Unlink, Goto
    <3>2. i # Len(published[h])
      BY <1>0, <1>1, <2>1, <3>1 DEF RemoveStaged, TypeOK
    <3>3. FirstLeft(h) = Len(published[h]) /\ FirstLeft(h)' = Len(published[h]) + 1
      BY <3>1 DEF FirstLeft
    <3>4. i \in FirstLeft(h)'..Len(staged[h])  BY <1>5, <2>1, <3>2, <3>3
    <3> QED BY <1>4, <2>1, <3>1, <3>4 DEF Reclaims
  <2>9. ~Begin(h) /\ ~Fail(h)  BY <1>8 DEF Begin, Fail
  <2>10. ~Announce(h)
    <3>1. ASSUME Announce(h) PROVE FALSE
      <4>1. hpc[h] = "announce"  BY <3>1 DEF Announce
      <4>2. Len(published[h]) = Len(staged[h])  BY <1>0, <4>1 DEF ProgressOf
      <4> QED BY <1>5, <2>1, <4>1, <4>2 DEF FirstLeft
    <3> QED BY <3>1
  <2>11. LinkExhausted(h) \/ HandlerFault(h) => DropRest(h) /\ hpc[h] \in {"publish", "syncdir"}
    BY DEF LinkExhausted, HandlerFault, LinkFails, SyncDirFails
  <2> QED
    BY <2>3, <2>4, <2>5, <2>6, <2>7, <2>8, <2>9, <2>10, <2>11 DEF HandlerStep
(* A clip is being dropped.                                                *)
<1>9. CASE n \in dropping[h]
  <2>1. hpc[h] \in {"dropEmpty", "dropFailed"}  BY <1>6, <1>9
  <2>2. CASE DropStaged(h)
    <3>1. PICK m \in dropping[h] :
            RemoveStaged(m) /\ dropping' = [dropping EXCEPT ![h] = @ \ {m}]
      BY <2>2 DEF DropStaged
    <3>2. m # n  BY <1>0, <1>1, <3>1 DEF RemoveStaged, TypeOK
    <3>3. n \in dropping'[h]  BY <1>0, <1>9, <3>1, <3>2 DEF TypeOK
    <3> QED BY <1>4, <3>3 DEF Reclaims
  <2>3. CASE ~DropStaged(h)
    BY <1>9, <2>1, <2>3 DEF HandlerStep, HandlerFault, Begin, Submit, Receive, ReceiveError,
       Trim, Dropped, Fail, Link, LinkTaken, LinkExhausted, DropRest, Unlink, SyncDir,
       Announce, LinkFails, SyncDirFails
  <2> QED BY <2>2, <2>3
<1> QED BY <1>2, <1>3, <1>4, <1>7, <1>8, <1>9 DEF Reclaims

LEMMA RestKeepsReclaimed ==
    ASSUME PublishInvariant, Crash \/ Restart \/ UNCHANGED vars
    PROVE  Reclaimed'
<1>1. CASE Crash  BY <1>1 DEF Crash, Reclaimed
<1>2. CASE Restart  BY <1>2 DEF Restart, Reclaimed
<1>3. CASE UNCHANGED vars
  <2>1. UNCHANGED <<up, captured, stranded, hpc, staged, dropping, published, reply, wpc,
                    job, suffix>>
    BY <1>3 DEF vars, dirVars, handlerVars, poolVars
  <2>2. \A h \in Handlers : FirstLeft(h)' = FirstLeft(h)  BY <2>1 DEF FirstLeft
  <2>3. \A w \in Workers : JobName(w)' = JobName(w)  BY <2>1 DEF JobName, StagedName
  <2>4. \A h \in Handlers : \A n \in Name : Reclaims(h, n) => Reclaims(h, n)'
    BY <2>1, <2>2, <2>3 DEF Reclaims, StagedName
  <2> QED BY <2>1, <2>4 DEF PublishInvariant, Reclaimed
<1> QED BY <1>1, <1>2, <1>3

-----------------------------------------------------------------------------
(* out_dir.                                                                *)

OutInvariant == OutIsComplete /\ PublishedIsOut /\ Durability

LEMMA WorkerKeepsOut ==
    ASSUME PublishInvariant, NEW w \in Workers, WorkerStep(w) \/ WorkerFault(w)
    PROVE  OutInvariant'
<1>0. TypeOK /\ OutIsComplete /\ PublishedIsOut /\ Durability  BY DEF PublishInvariant
<1>1. UNCHANGED <<out, durable, hpc, planned, staged, published>>
  BY WorkerLeaves DEF handlerVars
<1>2. OutIsComplete'
  <2> SUFFICES ASSUME NEW n \in InOut PROVE content'[out[n]] = "synced"
    BY <1>1 DEF OutIsComplete, InOut
  <2>1. out[n] \in File /\ content[out[n]] = "synced"
    BY <1>0 DEF InOut, TypeOK, OutIsComplete
  <2> QED BY <2>1, WorkerLeaves
<1>3. \A h \in Handlers : Owed(h)' = Owed(h)  BY <1>1 DEF Owed
<1>4. PublishedIsOut'  BY <1>0, <1>1, <1>3 DEF PublishedIsOut
<1>5. Durability'  BY <1>0, <1>1 DEF Durability, InOut
<1> QED BY <1>2, <1>4, <1>5 DEF OutInvariant

LEMMA HandlerKeepsOut ==
    ASSUME PublishInvariant, NEW h \in Handlers,
           Begin(h) \/ HandlerStep(h) \/ HandlerFault(h)
    PROVE  OutInvariant'
<1>0. /\ TypeOK /\ Progress /\ OutIsComplete /\ PublishedIsOut /\ Durability /\ ProgressOf(h)
      /\ hpc \in [Handlers -> Active \cup {"idle", "done", "failed", "killed"}]
      /\ UNCHANGED content
  BY HandlerLeaves DEF PublishInvariant, Progress, TypeOK
<1>1. /\ Len(published[h]) \in Nat /\ DOMAIN published[h] = 1..Len(published[h])
      /\ Len(published[h]) <= Len(staged[h]) /\ Len(staged[h]) \in Nat
      /\ \A i \in 1..Len(published[h]) : published[h][i] \in Name
  BY <1>0, HandlerFacts
<1> USE DEF Publishing
<1>2. CASE Link(h)
  <2> DEFINE s == Nth(Owed(h), At(h))
  <2>1. /\ hpc[h] = "publish" /\ hpc'[h] = "unlink" /\ Free(out, Target(h))
        /\ out' = [out EXCEPT ![Target(h)] = captured[staged[h][At(h)].name]]
        /\ published' = [published EXCEPT ![h] = Append(@, Target(h))]
        /\ UNCHANGED <<durable, planned, staged>>
        /\ \A g \in Handlers : g # h => hpc'[g] = hpc[g] /\ published'[g] = published[g]
    BY <1>0, <1>2 DEF Link, Goto, TypeOK
  <2>2. /\ At(h) \in 1..Len(staged[h]) /\ Target(h) \in Name
        /\ captured[staged[h][At(h)].name] = <<h, s>> /\ content[<<h, s>>] = "synced"
        /\ <<h, s>> \in File /\ <<h, s>> # None
    BY <1>2, LinkFacts
  <2> HIDE DEF s
  <2>3. /\ out'[Target(h)] = <<h, s>> /\ out[Target(h)] = None
        /\ \A n \in Name : n # Target(h) => out'[n] = out[n]
    BY <1>0, <2>1, <2>2 DEF Free, TypeOK
  <2>4. \A g \in Handlers : Owed(g)' = Owed(g)  BY <2>1 DEF Owed
  <2>5. OutIsComplete'
    BY <1>0, <2>2, <2>3 DEF OutIsComplete, InOut
  <2>6. \A g \in Handlers : hpc[g] \in Publishing \cup {"done"} =>
           \A i \in DOMAIN published[g] : out'[published[g][i]] = <<g, Nth(Owed(g), i)>>
    <3> SUFFICES ASSUME NEW g \in Handlers, hpc[g] \in Publishing \cup {"done"},
                        NEW i \in DOMAIN published[g]
                 PROVE  out'[published[g][i]] = <<g, Nth(Owed(g), i)>>
      OBVIOUS
    <3>1. published[g][i] \in Name /\ DOMAIN published[g] = 1..Len(published[g])
      BY <1>0, HandlerFacts
    <3>2. out[published[g][i]] = <<g, Nth(Owed(g), i)>>  BY <1>0 DEF PublishedIsOut
    <3>3. Len(published[g]) <= Len(staged[g]) /\ Len(staged[g]) = Cardinality(Owed(g))
          /\ Len(published[g]) \in Nat
      BY <1>0, HandlerFacts DEF Progress, ProgressOf
    <3>4. Nth(Owed(g), i) \in 1..MaxSegments
      <4>1. i \in 1..Cardinality(Owed(g))  BY <1>0, <3>1, <3>3, OwedFacts
      <4> QED BY <1>0, <4>1, OwedFacts
    <3>5. out[published[g][i]] # None  BY <3>2, <3>4, FileFacts
    <3> QED BY <2>3, <3>1, <3>2, <3>5
  <2>7. PublishedIsOut'
    <3> SUFFICES ASSUME NEW g \in Handlers, hpc'[g] \in Publishing \cup {"done"},
                        NEW i \in DOMAIN published'[g]
                 PROVE  out'[published'[g][i]] = <<g, Nth(Owed(g), i)>>
      BY <2>4 DEF PublishedIsOut
    <3>1. CASE g # h  BY <2>1, <2>6, <3>1
    <3>2. CASE g = h
      <4>1. published[h] \in Seq(Name) /\ published'[h] = Append(published[h], Target(h))
        BY <1>0, <2>1, HandlerFacts DEF TypeOK
      <4>2. \/ i \in DOMAIN published[h] /\ published'[h][i] = published[h][i]
            \/ i = At(h) /\ published'[h][i] = Target(h)
        BY <3>2, <4>1 DEF At
      <4>3. CASE i \in DOMAIN published[h] /\ published'[h][i] = published[h][i]
        <5>1. hpc[h] \in Publishing \cup {"done"}  BY <2>1
        <5>2. out'[published[h][i]] = <<h, Nth(Owed(h), i)>>  BY <2>6, <4>3, <5>1
        <5> QED BY <3>2, <4>3, <5>2
      <4>4. CASE i = At(h) /\ published'[h][i] = Target(h)
        BY <2>3, <3>2, <4>4 DEF s
      <4> QED BY <4>2, <4>3, <4>4
    <3> QED BY <3>1, <3>2
  <2>8. InOut \subseteq InOut'  BY <2>2, <2>3 DEF InOut
  <2>9. Durability'
    <3>1. durable' \subseteq InOut'  BY <1>0, <2>1, <2>8 DEF Durability
    <3>2. \A g \in Handlers : hpc'[g] \in {"announce", "done"} =>
            \A i \in DOMAIN published'[g] : published'[g][i] \in durable'
      BY <1>0, <2>1 DEF Durability
    <3> QED BY <3>1, <3>2 DEF Durability
  <2> QED BY <2>5, <2>7, <2>9 DEF OutInvariant
<1>3. CASE ~Link(h)
  <2>1. out' = out
    BY <1>3 DEF HandlerStep, HandlerFault, Begin, Submit, Receive, ReceiveError, Trim,
       DropStaged, Dropped, Fail, LinkTaken, LinkExhausted, DropRest, Unlink, SyncDir,
       Announce, LinkFails, SyncDirFails, dirVars
  <2>2. OutIsComplete' /\ InOut' = InOut  BY <1>0, <2>1 DEF OutIsComplete, InOut
  <2>3. hpc'[h] \in Publishing \cup {"done"} =>
          /\ \/ published[h] = << >> /\ published' = published
             \/ /\ hpc[h] \in Publishing \cup {"done"} /\ published' = published
                /\ planned' = planned
    BY <1>0, <1>3 DEF HandlerStep, HandlerFault, Begin, Submit, Receive, ReceiveError, Trim,
       DropStaged, Dropped, Fail, LinkTaken, LinkExhausted, DropRest, Unlink, SyncDir,
       Announce, LinkFails, SyncDirFails, Goto, ProgressOf, Staging
  <2>4. PublishedIsOut'
    <3> SUFFICES ASSUME NEW g \in Handlers, hpc'[g] \in Publishing \cup {"done"},
                        NEW i \in DOMAIN published'[g]
                 PROVE  out'[published'[g][i]] = <<g, Nth(Owed(g)', i)>>
      BY DEF PublishedIsOut
    <3>1. CASE g # h
      <4>1. hpc'[g] = hpc[g] /\ published'[g] = published[g] /\ Owed(g)' = Owed(g)
        BY <1>0, <3>1, OthersStay
      <4> QED BY <1>0, <2>1, <4>1 DEF PublishedIsOut
    <3>2. CASE g = h
      <4>1. hpc[h] \in Publishing \cup {"done"} /\ published' = published /\ planned' = planned
        BY <2>3, <3>2
      <4>2. Owed(h)' = Owed(h)  BY <4>1 DEF Owed
      <4> QED BY <1>0, <2>1, <3>2, <4>1, <4>2 DEF PublishedIsOut
    <3> QED BY <3>1, <3>2
  <2>5. \A g \in Handlers : hpc[g] \in Publishing \cup {"done"} =>
          \A i \in DOMAIN published[g] : published[g][i] \in InOut
    <3> SUFFICES ASSUME NEW g \in Handlers, hpc[g] \in Publishing \cup {"done"},
                        NEW i \in DOMAIN published[g]
                 PROVE  published[g][i] \in InOut
      OBVIOUS
    <3>1. published[g][i] \in Name /\ DOMAIN published[g] = 1..Len(published[g])
      BY <1>0, HandlerFacts
    <3>2. out[published[g][i]] = <<g, Nth(Owed(g), i)>>  BY <1>0 DEF PublishedIsOut
    <3>3. Len(published[g]) <= Len(staged[g]) /\ Len(staged[g]) = Cardinality(Owed(g))
          /\ Len(published[g]) \in Nat
      BY <1>0, HandlerFacts DEF Progress, ProgressOf
    <3>4. Nth(Owed(g), i) \in 1..MaxSegments
      <4>1. i \in 1..Cardinality(Owed(g))  BY <1>0, <3>1, <3>3, OwedFacts
      <4> QED BY <1>0, <4>1, OwedFacts
    <3> QED BY <3>1, <3>2, <3>4, FileFacts DEF InOut
  <2>6. CASE SyncDir(h)
    <3>1. durable' = InOut /\ published' = published /\ hpc[h] = "syncdir"
          /\ \A g \in Handlers : g # h => hpc'[g] = hpc[g]
      BY <1>0, <2>6 DEF SyncDir, DirSynced, Goto
    <3>2. \A g \in Handlers : hpc'[g] \in {"announce", "done"} =>
            \A i \in DOMAIN published[g] : published[g][i] \in InOut
      BY <2>5, <3>1
    <3> QED BY <2>2, <2>4, <3>1, <3>2 DEF OutInvariant, Durability
  <2>7. CASE ~SyncDir(h)
    <3>1. durable' = durable /\ (hpc'[h] \in {"announce", "done"} =>
            hpc[h] \in {"announce", "done"} /\ published' = published)
      BY <1>0, <1>3, <2>7 DEF HandlerStep, HandlerFault, Begin, Submit, Receive,
         ReceiveError, Trim, DropStaged, Dropped, Fail, LinkTaken, LinkExhausted, DropRest,
         Unlink, Announce, LinkFails, SyncDirFails, Goto, dirVars
    <3>2. \A g \in Handlers : hpc'[g] \in {"announce", "done"} =>
            hpc[g] \in {"announce", "done"} /\ published'[g] = published[g]
      BY <1>0, <3>1, OthersStay
    <3> QED BY <1>0, <2>2, <2>4, <3>1, <3>2 DEF OutInvariant, Durability
  <2> QED BY <2>6, <2>7
<1> QED BY <1>2, <1>3

LEMMA RestKeepsOut ==
    ASSUME PublishInvariant, Crash \/ Restart \/ UNCHANGED vars
    PROVE  OutInvariant'
<1>0. TypeOK /\ OutIsComplete /\ PublishedIsOut /\ Durability  BY DEF PublishInvariant
<1>1. CASE Crash
  <2>1. PICK lost \in SUBSET (InOut \ durable) :
          out' = [n \in Name |-> IF n \in lost THEN None ELSE out[n]]
    BY <1>1 DEF Crash
  <2>2. \A n \in Name : out'[n] # None => out'[n] = out[n] /\ n \in InOut
    BY <2>1 DEF InOut
  <2>3. \A n \in durable : out'[n] = out[n] /\ n \in InOut'
    BY <1>0, <2>1 DEF Durability, InOut
  <2>4. \A f \in File : content[f] = "synced" => content'[f] = "synced"
    BY <1>0, <1>1 DEF Crash
  <2>5. OutIsComplete'
    <3> SUFFICES ASSUME NEW n \in InOut' PROVE content'[out'[n]] = "synced"
      BY DEF OutIsComplete
    <3>1. out'[n] = out[n] /\ n \in InOut  BY <2>2 DEF InOut
    <3>2. out[n] \in File /\ content[out[n]] = "synced"
      BY <1>0, <3>1 DEF OutIsComplete, InOut, TypeOK
    <3> QED BY <2>4, <3>1, <3>2
  <2>6. \A h \in Handlers : hpc'[h] \in Publishing \cup {"done"} =>
          hpc[h] = "done" /\ hpc'[h] = "done" /\ published'[h] = published[h]
          /\ planned'[h] = planned[h]
    BY <1>0, <1>1 DEF Crash, Survivors, Publishing, Active
  <2>7. PublishedIsOut'
    <3> SUFFICES ASSUME NEW h \in Handlers, hpc'[h] \in Publishing \cup {"done"},
                        NEW i \in DOMAIN published'[h]
                 PROVE  out'[published'[h][i]] = <<h, Nth(Owed(h)', i)>>
      BY DEF PublishedIsOut
    <3>1. Owed(h)' = Owed(h)  BY <2>6 DEF Owed
    <3>2. hpc[h] = "done" /\ published'[h] = published[h]  BY <2>6
    <3>3. published[h][i] \in durable /\ out[published[h][i]] = <<h, Nth(Owed(h), i)>>
      BY <1>0, <3>2 DEF Durability, PublishedIsOut
    <3> QED BY <2>3, <3>1, <3>2, <3>3
  <2>8. Durability'
    <3>1. durable' = durable  BY <1>1 DEF Crash
    <3>2. \A h \in Handlers : hpc'[h] \in {"announce", "done"} =>
            \A i \in DOMAIN published'[h] : published'[h][i] \in durable'
      BY <1>0, <2>6, <3>1 DEF Durability, Publishing
    <3> QED BY <2>3, <3>1, <3>2 DEF Durability
  <2> QED BY <2>5, <2>7, <2>8 DEF OutInvariant
<1>2. CASE Restart \/ UNCHANGED vars
  <2>1. UNCHANGED <<out, durable, content, hpc, planned, published>>
    BY <1>2 DEF Restart, vars, dirVars, handlerVars
  <2>2. \A h \in Handlers : Owed(h)' = Owed(h)  BY <2>1 DEF Owed
  <2> QED
    BY <1>0, <2>1, <2>2 DEF OutInvariant, OutIsComplete, PublishedIsOut, Durability, InOut
<1> QED BY <1>1, <1>2

(* Nothing runs while the process is down.                                 *)
LEMMA DownKept == ASSUME PublishInvariant, [Next]_vars PROVE Down'
<1>0. TypeOK /\ Down /\ \A h \in Handlers : reply[h].how # "none" => hpc[h] = "await"
  BY DEF PublishInvariant, OneAtATime
<1>1. ASSUME NEW w \in Workers, WorkerStep(w) \/ WorkerFault(w)  PROVE up' = up /\ up
  BY <1>0, <1>1 DEF Down, Busy, WorkerStep, WorkerFault, Take, Create, CreateTaken,
     CreateExhausted, Copy, Sync, CreateFails, CopyFails, StagePanics
<1>2. ASSUME NEW h \in Handlers, Begin(h) \/ HandlerStep(h) \/ HandlerFault(h)
      PROVE  up' = up /\ up
  BY <1>0, <1>2 DEF Down, Active, HandlerStep, HandlerFault, Begin, Submit, Receive,
     ReceiveError, Trim, DropStaged, Dropped, Fail, Link, LinkTaken, LinkExhausted, DropRest,
     Unlink, SyncDir, Announce, LinkFails, SyncDirFails
<1>3. CASE Crash  BY <1>0, <1>3 DEF Crash, Down, Busy, Active
<1>4. CASE Restart  BY <1>4 DEF Restart, Down
<1>5. CASE UNCHANGED vars
  BY <1>0, <1>5 DEF Down, Busy, vars, handlerVars, poolVars
<1> QED BY <1>1, <1>2, <1>3, <1>4, <1>5 DEF Next, Down

-----------------------------------------------------------------------------
LEMMA PublishInit == Init => PublishInvariant
<1> SUFFICES ASSUME Init PROVE PublishInvariant  OBVIOUS
<1> USE DEF Init
<1>1. \A n \in Name : out[n] # None =>
        n.base \in Earlier /\ out[n] = <<"earlier", n.base>> /\ out[n] \in File
              /\ content[out[n]] = "synced"
  BY DEF File, None
<1>2. TypeOK
  <2>1. /\ << >> \in Seq(BOOLEAN) /\ << >> \in Seq([name : Name, empty : BOOLEAN])
        /\ << >> \in Seq(Name) /\ Len(<< >>) = 0 /\ 0 \in 0..MaxSuffix /\ << >> \in Seq(File)
        /\ NoReply \in [how : {"none", "staged", "error"}, at : 0..MaxSuffix]
        /\ 0 \in 0..MaxCrashes
    BY PublishAssumption DEF NoReply
  <2>2. out \in [Name -> File \cup {None}]  BY <1>1
  <2>3. /\ planned \in [Handlers -> Seq(BOOLEAN)]
        /\ staged \in [Handlers -> Seq([name : Name, empty : BOOLEAN])]
        /\ published \in [Handlers -> Seq(Name)]
        /\ \A h \in Handlers : Len(published[h]) <= Len(staged[h])
    BY <2>1
  <2>4. /\ content \in [File -> {"absent", "partial", "complete", "synced"}]
        /\ captured \in [Name -> File \cup {None}]
        /\ durable \subseteq Name /\ stranded \subseteq File
        /\ up \in BOOLEAN /\ crashes \in 0..MaxCrashes
    BY <2>1
  <2>5. /\ hpc \in [Handlers -> Active \cup {"idle", "done", "failed", "killed"}]
        /\ dropping \in [Handlers -> SUBSET Name] /\ trying \in [Handlers -> 0..MaxSuffix]
        /\ queue \in Seq(File)
        /\ reply \in [Handlers -> [how : {"none", "staged", "error"}, at : 0..MaxSuffix]]
        /\ wpc \in [Workers -> {"idle", "create", "copy", "sync"}]
        /\ job \in [Workers -> File \cup {None}] /\ suffix \in [Workers -> 0..MaxSuffix]
    BY <2>1
  <2> QED BY <2>2, <2>3, <2>4, <2>5 DEF TypeOK
<1>3. Progress  BY DEF Progress, ProgressOf, Staging, Publishing
<1>4. OneAtATime  BY DEF OneAtATime, Busy, NoReply
<1>5. Fresh
  <2>1. \A h \in Handlers : \A k \in 1..MaxSegments : content[<<h, k>>] = "absent"
    BY FileFacts
  <2> QED BY <2>1 DEF Fresh
<1>6. WorkerOwns /\ ReplyOwns /\ StagedOwns /\ DroppingOwns
  BY DEF WorkerOwns, ReplyOwns, StagedOwns, DroppingOwns, NoReply, Staging, Publishing
<1>7. Reclaimed  BY DEF Reclaimed
<1>8. OutIsComplete /\ PublishedIsOut /\ Durability
  BY <1>1 DEF OutIsComplete, PublishedIsOut, Durability, InOut, Publishing
<1>9. Down  BY DEF Down, Busy
<1> QED BY <1>2, <1>3, <1>4, <1>5, <1>6, <1>7, <1>8, <1>9 DEF PublishInvariant

LEMMA PublishNext == PublishInvariant /\ [Next]_vars => PublishInvariant'
<1> SUFFICES ASSUME PublishInvariant, [Next]_vars PROVE PublishInvariant'  OBVIOUS
<1>1. Down'  BY DownKept
<1>2. ASSUME NEW w \in Workers, WorkerStep(w) \/ WorkerFault(w)  PROVE PublishInvariant'
  <2>1. UNCHANGED handlerVars  BY <1>2, WorkerLeaves
  <2> QED
    BY <1>1, <1>2, <2>1, WorkerKeepsTypes, RestProgresses, WorkerKeepsOneAtATime,
       WorkerKeepsOwners, WorkerKeepsReclaimed, WorkerKeepsOut
       DEF PublishInvariant, OutInvariant
<1>3. ASSUME NEW h \in Handlers, Begin(h) \/ HandlerStep(h) \/ HandlerFault(h)
      PROVE  PublishInvariant'
  <2>1. StagedOwns'
    BY <1>3, HandlerKeepsOthersOwn, HandlerKeepsOwn DEF StagedOwns, OwnsSynced
  <2>2. DroppingOwns'
    BY <1>3, HandlerKeepsOthersOwn, HandlerKeepsOwn DEF DroppingOwns
  <2> QED
    BY <1>1, <1>3, <2>1, <2>2, HandlerKeepsTypes, HandlerProgresses, HandlerKeepsOneAtATime,
       HandlerKeepsOthersOwn, HandlerKeepsReclaimed, HandlerKeepsOut
       DEF PublishInvariant, OutInvariant
<1>4. CASE Crash \/ Restart \/ UNCHANGED vars
  <2>1. Crash \/ UNCHANGED <<handlerVars, poolVars>>  BY <1>4 DEF Restart, vars
  <2> QED
    BY <1>1, <1>4, <2>1, RestTypes, RestProgresses, RestKeepsOneAtATime, RestKeepsOwners,
       RestKeepsReclaimed, RestKeepsOut
       DEF PublishInvariant, OutInvariant
<1> QED BY <1>2, <1>3, <1>4 DEF Next

(* The invariant behind the theorems below.                                *)
THEOREM PublishInvariance == Spec => []PublishInvariant
BY PublishInit, PublishNext, PTL DEF Spec

(* Type correctness; with it, no more clips are published than staged.     *)
THEOREM PublishTypeCorrect == Spec => []TypeOK
<1>1. PublishInvariant => TypeOK  BY DEF PublishInvariant
<1> QED BY <1>1, PublishInvariance, PTL

(* out_dir never shows a clip that is not complete and synced, whatever    *)
(* fails and whenever the power does.                                      *)
THEOREM ClipsAreWhole == Spec => []OutIsComplete
<1>1. PublishInvariant => OutIsComplete  BY DEF PublishInvariant
<1> QED BY <1>1, PublishInvariance, PTL

(* A completion announces a handler's own clips, durable, in full and in   *)
(* order, however many duplicates of the trigger race it for the names.    *)
THEOREM AnnouncedStays == Spec => []AnnouncedIsDurable
<1>1. PublishInvariant => AnnouncedIsDurable
  <2> SUFFICES ASSUME PublishInvariant, NEW h \in Handlers, hpc[h] = "done"
               PROVE  /\ Len(published[h]) = Cardinality(Owed(h))
                      /\ \A i \in DOMAIN published[h] :
                           /\ published[h][i] \in durable
                           /\ content[out[published[h][i]]] = "synced"
                           /\ \E k \in Owed(h) :
                                /\ out[published[h][i]] = <<h, k>>
                                /\ Cardinality({l \in Owed(h) : l <= k}) = i
    BY DEF AnnouncedIsDurable
  <2>0. TypeOK /\ Progress /\ OutIsComplete /\ PublishedIsOut /\ Durability
    BY DEF PublishInvariant
  <2>1. Len(published[h]) = Cardinality(Owed(h))
    BY <2>0 DEF Progress, ProgressOf, Publishing
  <2>2. ASSUME NEW i \in DOMAIN published[h]
        PROVE  /\ published[h][i] \in durable
               /\ content[out[published[h][i]]] = "synced"
               /\ \E k \in Owed(h) :
                    /\ out[published[h][i]] = <<h, k>>
                    /\ Cardinality({l \in Owed(h) : l <= k}) = i
    <3> DEFINE S == Owed(h)
               k == Nth(S, i)
    <3>1. i \in 1..Cardinality(S)  BY <2>0, <2>1, HandlerFacts
    <3>2. published[h][i] \in durable /\ published[h][i] \in InOut  BY <2>0 DEF Durability
    <3>3. content[out[published[h][i]]] = "synced"  BY <2>0, <3>2 DEF OutIsComplete
    <3>4. out[published[h][i]] = <<h, k>>  BY <2>0 DEF PublishedIsOut
    <3>5. IsFiniteSet(S) /\ S \in SUBSET Nat  BY <2>0, OwedFacts
    <3>6. k \in S /\ Cardinality(Below(k, S)) = i - 1  BY <3>1, <3>5, NthMember
    <3>7. Cardinality({l \in S : l <= k}) = i
      <4>1. IsFiniteSet(Below(k, S))  BY <3>5, <3>6, BelowIsSmaller
      <4> HIDE DEF S, k
      <4>2. \A l \in S : l \in Nat  BY <3>5
      <4>3. {l \in S : l <= k} = Below(k, S) \cup {k} /\ k \notin Below(k, S)
        BY <3>6, <4>2 DEF Below
      <4>4. Cardinality(Below(k, S) \cup {k}) = Cardinality(Below(k, S)) + 1
        BY <4>1, <4>3, FS_AddElement
      <4>5. i \in Int  BY <3>1
      <4> QED BY <3>6, <4>3, <4>4, <4>5
    <3> QED BY <3>2, <3>3, <3>4, <3>6, <3>7
  <2> QED BY <2>1, <2>2
<1> QED BY <1>1, PublishInvariance, PTL

(* Every name of the capturing directory is one that someone still removes. *)
THEOREM CapturingStaysReclaimed == Spec => []CapturingIsReclaimed
<1>1. PublishInvariant => CapturingIsReclaimed
  <2> SUFFICES ASSUME PublishInvariant, up, NEW n \in Name, captured[n] # None,
                      captured[n] \notin stranded
               PROVE  hpc[captured[n][1]] \in Active
    BY DEF CapturingIsReclaimed
  <2>0. TypeOK /\ Progress /\ OneAtATime  BY DEF PublishInvariant
  <2>1. PICK h \in Handlers : captured[n][1] = h /\ Reclaims(h, n)
    BY DEF PublishInvariant, Reclaimed
  <2>2. ASSUME NEW w \in Workers, wpc[w] \in {"copy", "sync"}, job[w][1] = h
        PROVE  hpc[h] = "await"
    BY <2>0, <2>2, JobFacts DEF Busy, Waits
  <2>3. reply[h].how = "staged" => hpc[h] = "await"  BY <2>0 DEF OneAtATime
  <2>4. n \in dropping[h] => hpc[h] \in {"dropEmpty", "dropFailed"}
    BY <2>0 DEF Progress, ProgressOf
  <2> QED BY <2>1, <2>2, <2>3, <2>4 DEF Reclaims, Active, Staging, Publishing
<1> QED BY <1>1, PublishInvariance, PTL

(* Publication never replaces a clip: it links, and a link that finds its  *)
(* name taken fails.                                                       *)
LEMMA OnlyLinks ==
    ASSUME PublishInvariant, [Next]_vars
    PROVE  \/ UNCHANGED out
           \/ Crash
           \/ \E h \in Handlers : Link(h)
<1>1. ASSUME NEW w \in Workers, WorkerStep(w) \/ WorkerFault(w)  PROVE UNCHANGED out
  BY <1>1, WorkerLeaves
<1>2. ASSUME NEW h \in Handlers, Begin(h) \/ HandlerStep(h) \/ HandlerFault(h)
      PROVE  UNCHANGED out \/ Link(h)
  BY <1>2 DEF HandlerStep, HandlerFault, Begin, Submit, Receive, ReceiveError, Trim,
     DropStaged, Dropped, Fail, LinkTaken, LinkExhausted, DropRest, Unlink, SyncDir,
     Announce, LinkFails, SyncDirFails, dirVars
<1>3. CASE Restart \/ UNCHANGED vars  BY <1>3 DEF Restart, vars, dirVars
<1> QED BY <1>1, <1>2, <1>3 DEF Next

THEOREM ClipsAreNeverReplaced == Spec => NeverReplaced
<1>1. PublishInvariant /\ [Next]_vars => [up' => \A n \in InOut : out'[n] = out[n]]_vars
  <2> SUFFICES ASSUME PublishInvariant, [Next]_vars, up', NEW n \in InOut
               PROVE  out'[n] = out[n]
    OBVIOUS
  <2>1. CASE UNCHANGED out  BY <2>1
  <2>2. ~Crash  BY DEF Crash
  <2>3. ASSUME NEW h \in Handlers, Link(h)  PROVE out'[n] = out[n]
    <3>1. n # Target(h)  BY <2>3 DEF Link, Free, InOut
    <3>2. n \in Name /\ out \in [Name -> File \cup {None}]
      BY DEF InOut, PublishInvariant, TypeOK
    <3> QED BY <2>3, <3>1, <3>2 DEF Link
  <2> QED BY <2>1, <2>2, <2>3, OnlyLinks
<1> QED BY <1>1, PublishInvariance, PTL DEF Spec, NeverReplaced

-----------------------------------------------------------------------------
(* Publication implements ClipStore.                                       *)

Stands == [n \in Name |-> StoredAs(out[n])]
Told == [h \in Handlers |->
    IF hpc[h] = "done" THEN {published[h][i] : i \in DOMAIN published[h]} ELSE {}]

(* Nothing torn is in out_dir, so the store is what out_dir holds.         *)
LEMMA StandsAsIs ==
    PublishInvariant => Stands = out /\ \A n \in Name : out[n] \in File \cup {None}
<1> SUFFICES ASSUME PublishInvariant
             PROVE  Stands = out /\ \A n \in Name : out[n] \in File \cup {None}
  OBVIOUS
<1>1. out \in [Name -> File \cup {None}]  BY DEF PublishInvariant, TypeOK
<1>2. \A n \in Name : StoredAs(out[n]) = out[n]
  BY DEF PublishInvariant, OutIsComplete, InOut, StoredAs
<1> QED BY <1>1, <1>2 DEF Stands

(* Only Announce tells, and what is told stays.                            *)
LEMMA OnlyAnnounceTells ==
    ASSUME PublishInvariant, [Next]_vars
    PROVE  \/ UNCHANGED Told
           \/ \E h \in Handlers : Announce(h)
<1>0. hpc \in [Handlers -> Active \cup {"idle", "done", "failed", "killed"}]
  BY DEF PublishInvariant, TypeOK
<1>1. CASE UNCHANGED <<hpc, published>>  BY <1>1 DEF Told
<1>2. ASSUME NEW w \in Workers, WorkerStep(w) \/ WorkerFault(w)  PROVE UNCHANGED <<hpc, published>>
  BY <1>2, WorkerLeaves DEF handlerVars
<1>3. CASE Restart \/ UNCHANGED vars
  BY <1>1, <1>3 DEF Restart, vars, handlerVars
<1>4. CASE Crash
  <2>1. \A h \in Handlers : /\ hpc'[h] = "done" <=> hpc[h] = "done"
                            /\ hpc[h] = "done" => published'[h] = published[h]
    BY <1>0, <1>4 DEF Crash, Survivors, Active
  <2> QED BY <2>1 DEF Told
<1>5. ASSUME NEW h \in Handlers, Begin(h) \/ HandlerStep(h) \/ HandlerFault(h), ~Announce(h)
      PROVE  UNCHANGED Told
  <2>1. hpc[h] # "done" /\ hpc'[h] # "done"
    BY <1>0, <1>5 DEF HandlerStep, HandlerFault, Begin, Submit, Receive, ReceiveError, Trim,
       DropStaged, Dropped, Fail, Link, LinkTaken, LinkExhausted, DropRest, Unlink, SyncDir,
       LinkFails, SyncDirFails, Goto
  <2>2. \A g \in Handlers : g # h => hpc'[g] = hpc[g] /\ published'[g] = published[g]
    BY <1>5, OthersStay DEF PublishInvariant
  <2> QED BY <2>1, <2>2 DEF Told
<1> QED BY <1>1, <1>2, <1>3, <1>4, <1>5 DEF Next

(* Each step is a step of the store, or none: a link puts a clip, the sync *)
(* of out_dir fixes all, a power failure loses what is not fixed.          *)
LEMMA StoreStep ==
    ASSUME PublishInvariant, PublishInvariant', Stands = out, Stands' = out', [Next]_vars
    PROVE  [Store!StoreNext]_(Store!storeVars)
<1>0. /\ out \in [Name -> File \cup {None}] /\ out' \in [Name -> File \cup {None}]
      /\ hpc \in [Handlers -> Active \cup {"idle", "done", "failed", "killed"}]
      /\ TypeOK /\ Progress
  BY DEF PublishInvariant, TypeOK
<1>1. /\ [n \in Name |-> StoredAs(out[n])] = out
      /\ [n \in Name |-> StoredAs(out[n])]' = out'
  BY DEF Stands
<1>2. ASSUME NEW h \in Handlers, Link(h)  PROVE Store!Put(Target(h)) /\ Target(h) \in Name
  <2>1. Told' = Told /\ durable' = durable
    <3>1. hpc[h] # "announce" /\ hpc'[h] = "unlink"  BY <1>0, <1>2 DEF Link, Goto
    <3>2. \A g \in Handlers : ~Announce(g)
      BY <1>0, <1>2, <3>1 DEF Announce, Goto, Link
    <3> QED BY <1>2, <3>2, OnlyAnnounceTells DEF Link
  <2>2. /\ Target(h) \in Name /\ out[Target(h)] = None
        /\ \E f \in File : out' = [out EXCEPT ![Target(h)] = f]
    BY <1>2, LinkFacts DEF Link, Free
  <2> QED BY <1>1, <2>1, <2>2 DEF Store!Put, Told
<1>3. ASSUME NEW h \in Handlers, SyncDir(h)  PROVE Store!Fix
  <2>1. Told' = Told /\ out' = out
    <3>1. hpc'[h] # "done" /\ hpc[h] = "syncdir"  BY <1>0, <1>3 DEF SyncDir, Goto
    <3>2. \A g \in Handlers : ~Announce(g)  BY <1>0, <1>3, <3>1 DEF Announce, Goto, SyncDir
    <3> QED BY <1>3, <3>2, OnlyAnnounceTells DEF SyncDir
  <2>2. durable' = InOut  BY <1>3 DEF SyncDir, DirSynced
  <2> QED BY <1>1, <2>1, <2>2 DEF Store!Fix, Store!Stored, InOut, Told
<1>4. ASSUME NEW h \in Handlers, Announce(h)  PROVE Store!Tell(h)
  <2>1. /\ hpc[h] = "announce" /\ hpc' = [hpc EXCEPT ![h] = "done"]
        /\ UNCHANGED <<out, durable, published>>
    BY <1>4 DEF Announce, Goto, dirVars
  <2>2. /\ Told[h] = {} /\ Told'[h] = {published[h][i] : i \in DOMAIN published[h]}
        /\ Told' = [Told EXCEPT ![h] = Told'[h]]
    <3>1. Told[h] = {} /\ Told'[h] = {published[h][i] : i \in DOMAIN published[h]}
      BY <1>0, <2>1 DEF Told
    <3>2. \A g \in Handlers : g # h => Told'[g] = Told[g]  BY <1>0, <2>1 DEF Told
    <3>3. DOMAIN Told = Handlers /\ DOMAIN Told' = Handlers
          /\ Told = [g \in Handlers |-> Told[g]] /\ Told' = [g \in Handlers |-> Told'[g]]
      BY DEF Told
    <3> HIDE DEF Told
    <3> QED BY <3>1, <3>2, <3>3
  <2>3. Told'[h] \subseteq durable
    BY <2>1, <2>2 DEF PublishInvariant, Durability
  <2> QED BY <1>1, <2>1, <2>2, <2>3 DEF Store!Tell, Told
<1>5. ASSUME Crash  PROVE Store!Lose
  <2>1. Told' = Told /\ durable' = durable
    <3>1. \A h \in Handlers : ~Announce(h)
      BY <1>0, <1>5 DEF Crash, Announce, Goto, Active
    <3> QED BY <1>5, <3>1, OnlyAnnounceTells DEF Crash
  <2>2. \A n \in Name : out'[n] = out[n] \/ (n \notin durable /\ out'[n] = None)
    BY <1>5 DEF Crash
  <2>3. out' = [n \in Name |-> out'[n]]  BY <1>0
  <2> QED BY <1>1, <2>1, <2>2, <2>3 DEF Store!Lose, Told
<1>6. CASE /\ ~Crash
           /\ \A h \in Handlers : ~Link(h) /\ ~SyncDir(h) /\ ~Announce(h)
  <2>1. Told' = Told /\ out' = out  BY <1>6, OnlyAnnounceTells, OnlyLinks
  <2>2. durable' = durable
    <3>1. ASSUME NEW w \in Workers, WorkerStep(w) \/ WorkerFault(w)  PROVE durable' = durable
      BY <3>1, WorkerLeaves
    <3>2. ASSUME NEW h \in Handlers, Begin(h) \/ HandlerStep(h) \/ HandlerFault(h)
          PROVE  durable' = durable
      BY <1>6, <3>2 DEF HandlerStep, HandlerFault, Begin, Submit, Receive, ReceiveError, Trim,
         DropStaged, Dropped, Fail, LinkTaken, LinkExhausted, DropRest, Unlink, LinkFails,
         SyncDirFails, dirVars
    <3>3. CASE Restart \/ UNCHANGED vars  BY <3>3 DEF Restart, vars, dirVars
    <3> QED BY <1>6, <3>1, <3>2, <3>3 DEF Next
  <2> QED BY <1>1, <2>1, <2>2 DEF Store!storeVars, Told
<1> QED BY <1>2, <1>3, <1>4, <1>5, <1>6 DEF Store!StoreNext

LEMMA StoreStarts == Init => Store!StoreInit
<1> SUFFICES ASSUME Init PROVE Store!StoreInit  OBVIOUS
<1>1. PublishInvariant  BY PublishInit
<1>2. Stands = out /\ out \in [Name -> File \cup {None}]
  BY <1>1, StandsAsIs DEF PublishInvariant, TypeOK
<1>3. [n \in Name |-> StoredAs(out[n])] = out  BY <1>2 DEF Stands
<1>4. durable = InOut  BY DEF Init, InOut
<1>5. Told = [h \in Handlers |-> {}]  BY DEF Init, Told
<1> QED BY <1>2, <1>3, <1>4, <1>5 DEF Store!StoreInit, Store!Stored, InOut, Told

(* Publication keeps the promise made to consumers: every step is one the  *)
(* store may take.                                                         *)
THEOREM PublicationIsAStore == Spec => StoreImplemented
<1>1. PublishInvariant => Stands = out  BY StandsAsIs
<1>2. PublishInvariant /\ PublishInvariant' /\ (Stands = out) /\ (Stands = out)' /\ [Next]_vars
        => [Store!StoreNext]_(Store!storeVars)
  BY StoreStep
<1> QED
  BY <1>1, <1>2, StoreStarts, PublishInvariance, PTL DEF Spec, StoreImplemented, Store!StoreSpec
=============================================================================
