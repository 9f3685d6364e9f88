---------------------------- MODULE ProcessProofs ---------------------------
(***************************************************************************)
(* Theorems about Process, for every value of its constants.               *)
(***************************************************************************)
EXTENDS ProcessInv, RankProofs

-----------------------------------------------------------------------------
(* Places, triggers and records.                                           *)
LEMMA PlaceFacts ==
    /\ \A s \in Place : s[1] \in Nat /\ s[2] \in Nat /\ s[3] \in Nat /\ s[4] \in Nat
    /\ \A n, r, k, f \in Nat : <<n, r, k, f>> \in Place
BY DEF Place

LEMMA TriggerFacts ==
    ASSUME NEW t \in Trigger
    PROVE  /\ t.time \in Nat /\ t.post \in Nat /\ t.pub \in Nat
           /\ t.log \in Nat /\ t.log \in 0..MaxTime /\ t.src \in Place
BY DEF Trigger, Place

LEMMA LiftedIsTrigger ==
    ASSUME NEW t \in Logged, NEW src \in Place
    PROVE  Lifted(t, src) \in Trigger /\ Lifted(t, src).src = src
BY DEF Logged, Trigger, Lifted

LEMMA Limits ==
    /\ Limit \in Nat \ {0} /\ MaxRoll \in Nat /\ MaxSkew \in Nat /\ Arrivals \in Nat
    /\ LastTrigger \in Nat /\ MaxFiles \in Nat /\ MaxScans \in Nat \ {0} /\ MaxRuns \in Nat \ {0}
    /\ MaxTime \in Nat /\ MaxTime = LastTrigger + MaxSkew + MaxRoll
BY ProcessAssumption DEF MaxTime

LEMMA PayloadFacts == \A b \in Payloads : b.time \in Nat /\ b.post \in Nat
BY ProcessAssumption

LEMMA RecFacts ==
    ASSUME NEW r \in Rec
    PROVE  /\ r.damaged \in BOOLEAN /\ r.triggers \in Seq(Logged)
           /\ Len(r.triggers) \in Nat /\ DOMAIN r.triggers = 1..Len(r.triggers)
           /\ \A k \in 1..Len(r.triggers) : r.triggers[k] \in Logged
<1> USE DEF Rec
<1>1. r.damaged \in BOOLEAN /\ r.triggers \in Seq(Logged)  OBVIOUS
<1> QED BY <1>1, SeqElements

LEMMA FileFacts ==
    ASSUME Shapes, NEW f \in 1..Len(files)
    PROVE  /\ files[f] \in Seq(Rec) /\ Len(files[f]) \in Nat
           /\ DOMAIN files[f] = 1..Len(files[f])
           /\ \A r \in 1..Len(files[f]) : files[f][r] \in Rec
<1>1. files[f] \in Seq(Rec)
  <2>1. files \in Seq(Seq(Rec))  BY DEF Shapes
  <2> QED BY <2>1, SeqElements
<1> QED BY <1>1, SeqElements

LEMMA FilesFacts ==
    ASSUME Shapes
    PROVE  Len(files) \in Nat /\ DOMAIN files = 1..Len(files)
<1>1. files \in Seq(Seq(Rec))  BY DEF Shapes
<1> QED BY <1>1, SeqElements

(* The scans of this run, and where each has come.                         *)
LEMMA ScannedFacts ==
    ASSUME Shapes
    PROVE  /\ Len(scanned) \in Nat /\ DOMAIN scanned = 1..Len(scanned)
           /\ Turn = Len(scanned) + 1 /\ Turn \in Nat \ {0}
           /\ \A n \in 1..Len(scanned) :
                /\ scanned[n] \in Scan /\ scanned[n].file \in Nat
                /\ scanned[n].upto \in Nat /\ scanned[n].gone \in BOOLEAN
<1>1. scanned \in Seq(Scan)  BY DEF Shapes
<1>2. /\ Len(scanned) \in Nat /\ DOMAIN scanned = 1..Len(scanned)
      /\ \A n \in 1..Len(scanned) : scanned[n] \in Scan
  BY <1>1, SeqElements
<1>3. Turn = Len(scanned) + 1 /\ Turn \in Nat \ {0}  BY <1>2 DEF Turn
<1> QED BY <1>2, <1>3 DEF Scan

(* Sources are ordered.                                                    *)
LEMMA EarlierOrders ==
    ASSUME NEW a \in Place, NEW b \in Place
    PROVE  /\ ~Earlier(a, a)
           /\ \A c \in Place : Earlier(a, b) /\ Earlier(b, c) => Earlier(a, c)
BY PlaceFacts DEF Earlier

LEMMA BehindIsEarlier ==
    ASSUME TypeOK, Shapes, passing, NEW s \in Place, Behind(s), NEW k \in Nat
    PROVE  Earlier(s, <<Turn, read + 1, k, at>>)
<1>1. s[1] \in Nat /\ s[2] \in Nat /\ s[3] \in Nat  BY PlaceFacts
<1>2. Position = read  BY DEF Position
<1>3. read \in Nat  BY DEF TypeOK, Behind
<1>4. s[1] \in 1..Turn /\ (s[1] = Turn => s[2] <= read)  BY <1>2 DEF Behind, Reach
<1>5. s[1] < Turn \/ (s[1] = Turn /\ s[2] < read + 1)
  <2>1. CASE s[1] = Turn  BY <1>1, <1>3, <1>4, <2>1
  <2>2. CASE s[1] # Turn  BY <1>4, <2>2, ScannedFacts
  <2> QED BY <2>1, <2>2
<1>6. PICK t : t = <<Turn, read + 1, k, at>>  OBVIOUS
<1>7. t[1] = Turn /\ t[2] = read + 1  BY <1>6
<1>8. Earlier(s, t)  BY <1>5, <1>7 DEF Earlier
<1> QED BY <1>6, <1>8

(* What is in the inbox, in the interface's hands or with a handler.       *)
LEMMA SourceFacts ==
    ASSUME TypeOK, Shapes
    PROVE  /\ Len(inbox) \in Nat /\ DOMAIN inbox = 1..Len(inbox)
           /\ \A i \in 1..Len(inbox) : inbox[i] \in Trigger /\ inbox[i].src \in Place
           /\ ipc # "idle" => holding.trigger.src \in Place
           /\ \A h \in running : h.src \in Place
           /\ Len(sent) \in Nat /\ DOMAIN sent = 1..Len(sent)
           /\ \A i \in 1..Len(sent) : sent[i] \in Place
<1>1. inbox \in Seq(Trigger)  BY DEF TypeOK
<1>2. /\ Len(inbox) \in Nat /\ DOMAIN inbox = 1..Len(inbox)
      /\ \A i \in 1..Len(inbox) : inbox[i] \in Trigger
  BY <1>1, SeqElements
<1>3. \A i \in 1..Len(inbox) : inbox[i].src \in Place  BY <1>2, TriggerFacts
<1>4. ipc # "idle" => holding.trigger.src \in Place  BY TriggerFacts DEF Shapes
<1>5. \A h \in running : h.src \in Place  BY DEF Shapes
<1>6. sent \in Seq(Place)  BY DEF Shapes
<1>7. /\ Len(sent) \in Nat /\ DOMAIN sent = 1..Len(sent)
      /\ \A i \in 1..Len(sent) : sent[i] \in Place
  BY <1>6, SeqElements
<1> QED BY <1>2, <1>3, <1>4, <1>5, <1>7

-----------------------------------------------------------------------------
(* Types, and what has ended being empty, step by step.                    *)
Scalars ==
    /\ clock \in 0..MaxTime /\ arrived \in 0..Arrivals
    /\ up \in BOOLEAN /\ runs \in 1..MaxRuns
    /\ code \in {"none", "zero", "nonzero"} /\ signal \in {"none", "sent", "broken"}
    /\ tail \in {"runs", "ended"} /\ iface \in {"runs", "deaf", "ended"}
    /\ ipc \in {"idle", "gate", "spawn"}
    /\ \A h \in running : h.end <= MaxTime
Scanning ==
    /\ at \in 0..Len(files)
    /\ at # 0 => Turn <= MaxScans
    /\ at # 0 => applied \in 0..Len(files[at]) /\ read \in Nat
    /\ passing => read \in applied..Len(files[at])
FilesTyped ==
    \A f \in DOMAIN files : \A r \in DOMAIN files[f] : files[f][r].triggers \in Seq(Logged)
ScannedTyped ==
    \A n \in DOMAIN scanned :
        scanned[n].file \in DOMAIN files /\ scanned[n].upto \in 0..Len(files[scanned[n].file])

LEMMA TypeParts ==
    TypeOK <=> /\ Scalars /\ Scanning /\ FilesTyped /\ ScannedTyped
               /\ inbox \in Seq(Trigger)
BY DEF TypeOK, Scalars, Scanning, FilesTyped, ScannedTyped

LEMMA FilesAreTyped == Shapes => FilesTyped
<1> SUFFICES ASSUME Shapes, NEW f \in DOMAIN files, NEW r \in DOMAIN files[f]
             PROVE  files[f][r].triggers \in Seq(Logged)
  BY DEF FilesTyped
<1>1. f \in 1..Len(files)  BY FilesFacts
<1>2. files[f][r] \in Rec  BY <1>1, FileFacts
<1> QED BY <1>2, RecFacts

Kept == Scalars' /\ Scanning' /\ inbox' \in Seq(Trigger) /\ Shapes' /\ SpawnIsBounded' /\ EndedIsEmpty'

LEMMA AppendOne ==
    ASSUME NEW T, NEW q \in Seq(T), NEW x \in T
    PROVE  /\ Append(q, x) \in Seq(T) /\ Len(Append(q, x)) = Len(q) + 1
           /\ \A i \in 1..Len(q) : Append(q, x)[i] = q[i]
           /\ Append(q, x)[Len(q) + 1] = x
OBVIOUS

LEMMA AppendFacts ==
    ASSUME NEW T, NEW fs \in Seq(Seq(T)), NEW f \in 1..Len(fs), NEW x \in T,
           NEW new, new = [fs EXCEPT ![f] = Append(@, x)]
    PROVE  /\ new \in Seq(Seq(T)) /\ Len(new) = Len(fs)
           /\ Len(new[f]) = Len(fs[f]) + 1
           /\ \A r \in 1..Len(fs[f]) : new[f][r] = fs[f][r]
           /\ new[f][Len(fs[f]) + 1] = x
           /\ \A g \in 1..Len(fs) : g # f => new[g] = fs[g]
<1>1. /\ Len(fs) \in Nat /\ DOMAIN fs = 1..Len(fs)
      /\ \A g \in 1..Len(fs) : fs[g] \in Seq(T)
  BY SeqElements
<1>2. Append(fs[f], x) \in Seq(T)  BY <1>1
<1>3. new \in [1..Len(fs) -> Seq(T)]  BY <1>1, <1>2
<1>4. new \in Seq(Seq(T)) /\ Len(new) = Len(fs)  BY <1>1, <1>3, FunctionIsSeq
<1>5. new[f] = Append(fs[f], x) /\ \A g \in 1..Len(fs) : g # f => new[g] = fs[g]  BY <1>1
<1>6. fs[f] \in Seq(T)  BY <1>1
<1>7. /\ Len(new[f]) = Len(fs[f]) + 1
      /\ \A r \in 1..Len(fs[f]) : new[f][r] = fs[f][r]
      /\ new[f][Len(fs[f]) + 1] = x
  BY <1>5, <1>6
<1> QED BY <1>4, <1>5, <1>7

LEMMA ChunkFacts ==
    ASSUME NEW chunk \in Chunks
    PROVE  /\ chunk.damaged \in BOOLEAN /\ Len(chunk.triggers) \in Nat
           /\ \A k \in 1..Len(chunk.triggers) :
                chunk.triggers[k] \in [time : Nat, post : Nat, pub : Nat]
<1>1. chunk.damaged \in BOOLEAN /\ chunk.triggers \in Seq([time : Nat, post : Nat, pub : Nat])
  BY ProcessAssumption
<1> QED BY <1>1, SeqElements

(* What a record of the recording looks like once it is written.           *)
Written(chunk) ==
    [damaged |-> chunk.damaged,
     triggers |-> [k \in 1..Len(chunk.triggers) |->
        [time |-> chunk.triggers[k].time, post |-> chunk.triggers[k].post,
         log |-> clock, pub |-> chunk.triggers[k].pub]]]

LEMMA AppendRecordFacts ==
    ASSUME Scalars, Shapes, NEW chunk \in Chunks, AppendRecord(chunk)
    PROVE  LET f == Len(files) r == Len(files[f]) + 1
           IN  /\ f \in 1..Len(files) /\ r \in Nat
               /\ files' \in Seq(Seq(Rec)) /\ Len(files') = Len(files)
               /\ Len(files'[f]) = r
               /\ \A q \in 1..r - 1 : files'[f][q] = files[f][q]
               /\ \A g \in 1..f - 1 : files'[g] = files[g]
               /\ files'[f][r] \in Rec
<1> DEFINE f == Len(files)
           r == Len(files[f]) + 1
           S == [time : Nat, post : Nat, pub : Nat]
           n == Len(chunk.triggers)
           w == Written(chunk)
<1>1. f \in 1..Len(files) /\ files # << >>
  <2>1. files # << >>  BY DEF AppendRecord
  <2>2. files \in Seq(Seq(Rec))  BY DEF Shapes
  <2> QED BY <2>1, <2>2
<1>2. files[f] \in Seq(Rec) /\ Len(files[f]) \in Nat  BY <1>1, FileFacts
<1>3. chunk.damaged \in BOOLEAN  BY ChunkFacts
<1>4. n \in Nat /\ \A k \in 1..n : chunk.triggers[k] \in S  BY ChunkFacts
<1>5. ASSUME NEW k \in 1..n  PROVE w.triggers[k] \in Logged
  <2>1. clock \in 0..MaxTime  BY DEF Scalars
  <2>2. chunk.triggers[k] \in S  BY <1>4
  <2> QED BY <2>1, <2>2 DEF Written, Logged
<1>6. w.triggers \in [1..n -> Logged] /\ w.damaged \in BOOLEAN
  <2>1. \A k \in 1..n : w.triggers[k] \in Logged  BY <1>5
  <2> QED BY <2>1, <1>3 DEF Written
<1>7. w.triggers \in Seq(Logged) /\ Len(w.triggers) = n  BY <1>4, <1>6, FunctionIsSeq
<1>8. w \in Rec
  <2>1. w = [damaged |-> w.damaged, triggers |-> w.triggers]  BY DEF Written
  <2> QED BY <2>1, <1>6, <1>7 DEF Rec
<1>9. files' = [files EXCEPT ![f] = Append(@, w)]  BY DEF AppendRecord, Written
<1>10. /\ files' \in Seq(Seq(Rec)) /\ Len(files') = Len(files)
       /\ Len(files'[f]) = Len(files[f]) + 1
       /\ \A q \in 1..Len(files[f]) : files'[f][q] = files[f][q]
       /\ files'[f][Len(files[f]) + 1] = w
       /\ \A g \in 1..Len(files) : g # f => files'[g] = files[g]
  <2>1. files \in Seq(Seq(Rec))  BY DEF Shapes
  <2> HIDE DEF w, f
  <2> QED BY <2>1, <1>1, <1>8, <1>9, AppendFacts
<1> QED BY SMTT(30), <1>1, <1>2, <1>8, <1>10

LEMMA ScanFacts ==
    ASSUME Scanning
    PROVE  /\ at \in 0..Len(files)
           /\ at # 0 => read \in Nat
BY DEF Scanning

LEMMA OutsideTypes ==
    ASSUME Scalars, Scanning, inbox \in Seq(Trigger), Shapes, SpawnIsBounded, EndedIsEmpty,
           Outside
    PROVE  Kept
<1> USE Limits, PayloadFacts DEF Kept, Turn, world, life, scanVars, dispatchVars
<1>0. Len(files) \in Nat  BY FilesFacts
<1>1. CASE Tick
  BY <1>1 DEF Tick, Scalars, Scanning, Shapes, SpawnIsBounded, EndedIsEmpty
<1>2. CASE OpenFile
  <2> USE <1>2 DEF OpenFile
  <2>1. files' \in Seq(Seq(Rec)) /\ Len(files') = Len(files) + 1
        /\ \A f \in 1..Len(files) : files'[f] = files[f]
    BY DEF Shapes
  <2>2. Scanning'
    <3>1. UNCHANGED <<at, scanned, applied, read, passing>>  OBVIOUS
    <3>2. at # 0 => files'[at] = files[at]  BY <1>0, <2>1 DEF Scanning
    <3>3. passing => at # 0  BY DEF EndedIsEmpty
    <3> HIDE <1>2 DEF OpenFile
    <3>4. CASE at = 0  BY <1>0, <2>1, <3>1, <3>3, <3>4 DEF Scanning
    <3>5. CASE at # 0
      <4>1. at' \in 0..Len(files')  BY <1>0, <2>1, <3>1 DEF Scanning
      <4> QED BY <3>1, <3>2, <3>5, <4>1 DEF Scanning
    <3> QED BY <3>4, <3>5
  <2>3. Shapes'  BY <2>1 DEF Shapes
  <2> QED BY <2>2, <2>3 DEF Scalars, SpawnIsBounded, EndedIsEmpty
<1>3. ASSUME NEW b \in Payloads, PublishTrigger(b) PROVE Kept
  <2> USE <1>3 DEF PublishTrigger
  <2> DEFINE t == [time |-> b.time, post |-> b.post, log |-> clock,
                   pub |-> clock, src |-> <<0, arrived + 1, 1, 0>>]
  <2>1. t \in Trigger  BY SMTT(30) DEF Trigger, Place, Scalars
  <2>2. inbox' \in Seq(Trigger)
    <3> HIDE DEF t
    <3> QED BY <2>1 DEF t
  <2> QED BY <2>2 DEF Scalars, Scanning, Shapes, SpawnIsBounded, EndedIsEmpty
<1>4. ASSUME NEW chunk \in Chunks, AppendRecord(chunk) PROVE Kept
  <2> DEFINE f == Len(files)
             r == Len(files[f]) + 1
  <2>1. /\ f \in 1..Len(files) /\ r \in Nat
        /\ files' \in Seq(Seq(Rec)) /\ Len(files') = Len(files)
        /\ Len(files'[f]) = r
        /\ \A q \in 1..r - 1 : files'[f][q] = files[f][q]
        /\ \A g \in 1..f - 1 : files'[g] = files[g]
    BY <1>4, AppendRecordFacts
  <2>2. /\ UNCHANGED <<cell, clock, up, runs, code, signal, tail, iface, scanned, at, applied,
                       read, passing, sent, inbox, holding, ipc, permits, running>>
        /\ arrived' = arrived + Len(chunk.triggers) /\ arrived' <= Arrivals
    BY <1>4 DEF AppendRecord
  <2>3. Shapes'  BY <2>1, <2>2 DEF Shapes
  <2>4. Scalars'
    <3>1. Len(chunk.triggers) \in Nat  BY <1>4, ChunkFacts
    <3> QED BY <2>2, <3>1 DEF Scalars
  <2>5. Scanning'
    <3>1. CASE at = 0  BY <1>0, <2>1, <2>2, <3>1 DEF Scanning, EndedIsEmpty
    <3>2. CASE at # 0
      <4>1. at \in 1..Len(files)  BY <1>0, <3>2, ScanFacts
      <4>2. Len(files[at]) \in Nat  BY <4>1, FileFacts
      <4>3. at # f => at \in 1..f - 1  BY <1>0, <4>1
      <4>4. Len(files'[at]) \in Nat /\ Len(files[at]) <= Len(files'[at])
        <5>1. CASE at = f  BY <2>1, <4>2, <5>1
        <5>2. CASE at # f
          <6>1. \A g \in 1..f - 1 : files'[g] = files[g]  BY <2>1
          <6>2. files'[at] = files[at]
            <7> HIDE DEF f
            <7> QED BY <4>3, <5>2, <6>1
          <6> QED BY <4>2, <6>2
        <5> QED BY <5>1, <5>2
      <4>5. /\ Turn <= MaxScans /\ applied \in 0..Len(files[at]) /\ read \in Nat
            /\ passing => read \in applied..Len(files[at])
        BY <1>0, <3>2 DEF Scanning
      <4>6. applied \in 0..Len(files'[at]) /\ (passing => read \in applied..Len(files'[at]))
        BY <4>2, <4>4, <4>5
      <4>7. UNCHANGED <<at, scanned, applied, read, passing>>  BY <2>2
      <4>8. Turn' = Turn  BY <4>7 DEF Turn
      <4>9. at \in 0..Len(files)'  BY <2>1, <4>1
      <4> HIDE DEF f, r
      <4> QED BY <4>5, <4>6, <4>7, <4>8, <4>9 DEF Scanning
    <3> QED BY <3>1, <3>2
  <2> QED BY <2>2, <2>3, <2>4, <2>5 DEF SpawnIsBounded, EndedIsEmpty
<1>5. ASSUME NEW how \in {"sent", "broken"}, Signal(how) PROVE Kept
  BY <1>5 DEF Signal, Scalars, Scanning, Shapes, SpawnIsBounded, EndedIsEmpty
<1> QED BY <1>1, <1>2, <1>3, <1>4, <1>5 DEF Outside

(* The scan reads a record that is there, and what it emits are triggers.  *)
LEMMA LiftFacts ==
    ASSUME Scanning, Shapes, EndedIsEmpty, Lift
    PROVE  LET r == files[at][read + 1]
               n == Len(Emitted(r))
               e == Emitted(r)
               places == [k \in DOMAIN e |-> <<Turn, read + 1, k, at>>]
               lifted == [k \in DOMAIN e |-> Lifted(e[k], <<Turn, read + 1, k, at>>)]
           IN  /\ at \in 1..Len(files) /\ read \in Nat /\ read + 1 \in 1..Len(files[at])
               /\ r \in Rec /\ n \in Nat
               /\ n = (IF r.damaged THEN 0 ELSE Len(r.triggers))
               /\ places \in Seq(Place) /\ Len(places) = n
               /\ \A k \in 1..n : places[k] = <<Turn, read + 1, k, at>>
               /\ lifted \in Seq(Trigger) /\ Len(lifted) = n
               /\ \A k \in 1..n : lifted[k].src = <<Turn, read + 1, k, at>>
               /\ sent' = sent \o places
               /\ inbox' = IF iface # "ended" THEN inbox \o lifted ELSE inbox
<1> DEFINE r == files[at][read + 1]
           n == Len(Emitted(r))
           e == Emitted(r)
           places == [k \in DOMAIN e |-> <<Turn, read + 1, k, at>>]
           lifted == [k \in DOMAIN e |-> Lifted(e[k], <<Turn, read + 1, k, at>>)]
<1>1. passing /\ at # 0 /\ read < Len(files[at])  BY DEF Lift, EndedIsEmpty
<1>2. at \in 1..Len(files) /\ read \in Nat  BY <1>1, FilesFacts, ScanFacts
<1>3. Len(files[at]) \in Nat  BY <1>2, FileFacts
<1>4. read + 1 \in 1..Len(files[at])  BY <1>1, <1>2, <1>3
<1>5. r \in Rec  BY <1>2, <1>4, FileFacts
<1>6. e \in Seq(Logged) /\ n \in Nat /\ n = (IF r.damaged THEN 0 ELSE Len(r.triggers))
  <2> HIDE DEF r
  <2>1. CASE r.damaged
    <3>1. e = << >>  BY <2>1 DEF Emitted
    <3> QED BY <2>1, <3>1
  <2>2. CASE ~r.damaged
    <3>1. e = r.triggers  BY <2>2 DEF Emitted
    <3> QED BY <1>5, <2>2, <3>1, RecFacts
  <2> QED BY <2>1, <2>2
<1>7. DOMAIN e = 1..n /\ \A k \in 1..n : e[k] \in Logged  BY <1>6, SeqElements
<1>8. \A k \in 1..n : <<Turn, read + 1, k, at>> \in Place
  BY <1>2, <1>6, ScannedFacts, FilesFacts, PlaceFacts
<1> HIDE DEF r, n, e
<1>9. places \in [1..n -> Place] /\ \A k \in 1..n : places[k] = <<Turn, read + 1, k, at>>
  BY <1>7, <1>8
<1>10. /\ lifted \in [1..n -> Trigger]
       /\ \A k \in 1..n : lifted[k].src = <<Turn, read + 1, k, at>>
  <2>1. ASSUME NEW k \in 1..n, NEW t, t = lifted[k]
        PROVE  t \in Trigger /\ t.src = <<Turn, read + 1, k, at>>
    <3>1. t = Lifted(e[k], <<Turn, read + 1, k, at>>)  BY <1>7, <2>1
    <3> QED BY <1>7, <1>8, <3>1, LiftedIsTrigger
  <2>2. DOMAIN lifted = 1..n  BY <1>7
  <2> QED BY <1>7, <2>1, <2>2
<1>11. /\ sent' = sent \o places
       /\ inbox' = IF iface # "ended" THEN inbox \o lifted ELSE inbox
  BY DEF Lift, r, e
<1> HIDE DEF places, lifted
<1>12. places \in Seq(Place) /\ Len(places) = n
  <2>1. PICK f : f = places  OBVIOUS
  <2>2. PICK m : m = n  OBVIOUS
  <2>3. m \in Nat /\ f \in [1..m -> Place]  BY <1>6, <1>9, <2>1, <2>2
  <2>4. f \in Seq(Place) /\ Len(f) = m  BY <2>3, FunctionIsSeq
  <2> QED BY <2>1, <2>2, <2>4
<1>13. lifted \in Seq(Trigger) /\ Len(lifted) = n
  <2>1. PICK f : f = lifted  OBVIOUS
  <2>2. PICK m : m = n  OBVIOUS
  <2>3. m \in Nat /\ f \in [1..m -> Trigger]  BY <1>6, <1>10, <2>1, <2>2
  <2>4. f \in Seq(Trigger) /\ Len(f) = m  BY <2>3, FunctionIsSeq
  <2> QED BY <2>1, <2>2, <2>4
<1> QED BY <1>2, <1>4, <1>5, <1>6, <1>9, <1>10, <1>11, <1>12, <1>13 DEF r, n, e, places, lifted

LEMMA TailTypes ==
    ASSUME Scalars, Scanning, inbox \in Seq(Trigger), Shapes, SpawnIsBounded, EndedIsEmpty,
           TailStep \/ TailEnds
    PROVE  Kept
<1> USE Limits DEF Kept, Turn
<1>0. Len(files) \in Nat  BY FilesFacts
<1>1. CASE BeginPass
  <2>1. Len(files[at]) \in Nat
    <3>1. at \in 1..Len(files)  BY <1>1, <1>0, ScanFacts DEF BeginPass
    <3> QED BY <3>1, FileFacts
  <2>2. UNCHANGED <<cell, clock, arrived, files, up, runs, code, signal, tail, iface, scanned,
                    at, applied, sent, inbox, holding, ipc, permits, running>>
        /\ passing' = TRUE /\ read' = applied /\ at # 0 /\ tail = "runs" /\ up
    BY <1>1 DEF BeginPass, world, life, dispatchVars
  <2>3. Scanning'  BY <2>1, <2>2 DEF Scanning
  <2> QED BY <2>2, <2>3 DEF Scalars, Shapes, SpawnIsBounded, EndedIsEmpty
<1>2. CASE Lift
  <2> DEFINE e == Emitted(files[at][read + 1])
             places == [k \in DOMAIN e |-> <<Len(scanned) + 1, read + 1, k, at>>]
             lifted == [k \in DOMAIN e |-> Lifted(e[k], <<Len(scanned) + 1, read + 1, k, at>>)]
  <2>1. /\ at \in 1..Len(files) /\ read \in Nat /\ read + 1 \in 1..Len(files[at])
        /\ lifted \in Seq(Trigger) /\ places \in Seq(Place)
        /\ sent' = sent \o places
        /\ inbox' = IF iface # "ended" THEN inbox \o lifted ELSE inbox
    BY <1>2, LiftFacts
  <2> HIDE DEF e, places, lifted
  <2>2. UNCHANGED <<cell, clock, arrived, files, up, runs, code, signal, tail, iface, scanned,
                    at, applied, passing, holding, ipc, permits, running>>
        /\ read' = read + 1 /\ tail = "runs" /\ up /\ passing
    BY <1>2 DEF Lift, world, life, dispatchVars
  <2>3. sent' \in Seq(Place)  BY <2>1 DEF Shapes
  <2>4. inbox' \in Seq(Trigger)  BY <2>1
  <2>5. Scanning'  BY <1>0, <2>1, <2>2 DEF Scanning
  <2>6. EndedIsEmpty'  BY <2>1, <2>2 DEF EndedIsEmpty
  <2> QED BY <2>2, <2>3, <2>4, <2>5, <2>6 DEF Scalars, Shapes, SpawnIsBounded
<1>3. CASE EndPass
  <2>1. at \in 1..Len(files) /\ Len(files[at]) \in Nat /\ at # 0
    <3>1. at # 0  BY <1>3 DEF EndPass, EndedIsEmpty
    <3>2. at \in 1..Len(files)  BY <1>0, <3>1, ScanFacts
    <3> QED BY <3>1, <3>2, FileFacts
  <2>2. UNCHANGED <<cell, clock, arrived, files, up, runs, code, signal, tail, iface, scanned,
                    at, sent, inbox, holding, ipc, permits, running>>
        /\ passing /\ passing' = FALSE /\ read' = 0 /\ applied' = read /\ tail = "runs" /\ up
    BY <1>3 DEF EndPass, Resume, world, life, dispatchVars
  <2>3. applied' \in 0..Len(files[at])  BY <2>1, <2>2 DEF Scanning, Shapes
  <2>4. Scanning'  BY <2>1, <2>2, <2>3 DEF Scanning
  <2>5. Scalars' /\ SpawnIsBounded'  BY <2>2 DEF Scalars, SpawnIsBounded
  <2>6. Shapes'  BY <2>1, <2>2, <2>3 DEF Shapes
  <2>7. EndedIsEmpty'  BY <2>1, <2>2 DEF EndedIsEmpty
  <2> QED BY <2>2, <2>4, <2>5, <2>6, <2>7
<1>4. CASE FirstFile \/ NextFile
  <2>1. UNCHANGED <<cell, clock, arrived, files, up, runs, code, signal, tail, iface, read,
                    passing, sent, inbox, holding, ipc, permits, running>>
        /\ ~passing /\ at' \in 1..Len(files) /\ applied' = 0 /\ tail = "runs" /\ up
    <3>1. at' \in DOMAIN files  BY <1>4 DEF FirstFile, NextFile
    <3>2. at' \in 1..Len(files)  BY <3>1, FilesFacts
    <3> QED BY <1>4, <3>2 DEF FirstFile, NextFile, EndedIsEmpty, world, life, dispatchVars
  <2>2. scanned' \in Seq(Scan) /\ Len(scanned') + 1 <= MaxScans
    <3>1. Len(scanned) \in Nat  BY ScannedFacts
    <3>2. CASE FirstFile
      <4>1. scanned' = << >>  BY <3>2 DEF FirstFile, EndedIsEmpty
      <4> QED BY <4>1
    <3>3. CASE NextFile
      <4>1. PICK gone \in BOOLEAN :
              scanned' = Append(scanned, [file |-> at, upto |-> applied, gone |-> gone])
        BY <3>3 DEF NextFile
      <4> DEFINE entry == [file |-> at, upto |-> applied, gone |-> gone]
      <4>2. entry \in Scan
        <5>1. at \in Nat  BY <1>0, ScanFacts
        <5> QED BY <5>1 DEF Scan, Shapes
      <4>3. scanned \in Seq(Scan) /\ Len(scanned) + 1 < MaxScans
        BY <3>3 DEF NextFile, Shapes
      <4> HIDE DEF entry
      <4>4. scanned' = Append(scanned, entry)  BY <4>1 DEF entry
      <4> QED BY <3>1, <4>2, <4>3, <4>4, AppendOne
    <3> QED BY <1>4, <3>2, <3>3
  <2>3. Len(files[at']) \in Nat  BY <2>1, FileFacts
  <2>4. read \in Nat  BY DEF Shapes
  <2>5. Scanning'  BY <1>0, <2>1, <2>2, <2>3, <2>4 DEF Scanning
  <2> QED BY <2>1, <2>2, <2>5 DEF Scalars, Shapes, SpawnIsBounded, EndedIsEmpty
<1>5. CASE TailEnds
  <2>1. UNCHANGED <<cell, clock, arrived, files, up, runs, code, signal, iface,
                    inbox, holding, ipc, permits, running>>
        /\ tail' = "ended" /\ up /\ NoScan
    BY <1>5 DEF TailEnds, world, life, dispatchVars
  <2>2. sent' \in Seq(Place) /\ scanned' \in Seq(Scan)  BY <2>1 DEF NoScan
  <2>3. Scanning'  BY <1>0, <2>1 DEF Scanning, NoScan
  <2>4. Scalars' /\ SpawnIsBounded'  BY <2>1 DEF Scalars, SpawnIsBounded
  <2>5. Shapes'  BY <2>1, <2>2 DEF Shapes, NoScan
  <2>6. EndedIsEmpty'  BY <2>1 DEF EndedIsEmpty, NoScan
  <2> QED BY <2>1, <2>3, <2>4, <2>5, <2>6
<1> QED BY <1>1, <1>2, <1>3, <1>4, <1>5 DEF TailStep

(* An anchor is an instant, whatever it is taken from.                     *)
LEMMA AnchorType == ASSUME Scalars, NEW t \in Trigger PROVE Anchor(t) \in Nat
BY TriggerFacts, Limits DEF Anchor, Scalars

LEMMA ConcatFacts ==
    ASSUME NEW T, NEW p \in Seq(T), NEW q \in Seq(T), NEW n, n = Len(q), NEW r, r = p \o q
    PROVE  /\ r \in Seq(T) /\ Len(r) = Len(p) + n
           /\ \A i \in 1..Len(p) : r[i] = p[i]
           /\ \A i \in 1..n : r[Len(p) + i] = q[i]
OBVIOUS

LEMMA InboxTail ==
    ASSUME NEW T, NEW q \in Seq(T), q # << >>
    PROVE  /\ Head(q) \in T /\ Head(q) = q[1]
           /\ Tail(q) \in Seq(T) /\ Len(Tail(q)) = Len(q) - 1 /\ Len(q) \in Nat \ {0}
           /\ \A i \in 1..Len(q) - 1 : Tail(q)[i] = q[i + 1]
OBVIOUS

LEMMA InterfaceTypes ==
    ASSUME Scalars, Scanning, inbox \in Seq(Trigger), Shapes, SpawnIsBounded, EndedIsEmpty,
           InterfaceStep \/ SpinEnds \/ InterfaceEnds
    PROVE  Kept
<1> USE Limits DEF Kept, Back, Turn
<1>1. CASE Take
  <2>1. UNCHANGED <<cell, clock, arrived, files, up, runs, code, signal, tail, iface, scanned,
                    at, applied, read, passing, sent, permits, running>>
        /\ up /\ inbox # << >> /\ inbox' = Tail(inbox) /\ ipc' = "gate"
        /\ holding' = [trigger |-> Head(inbox), anchor |-> Anchor(Head(inbox))]
    BY <1>1 DEF Take, world, life, scanVars
  <2>2. Head(inbox) \in Trigger /\ inbox' \in Seq(Trigger)  BY <2>1, InboxTail
  <2>3. Anchor(Head(inbox)) \in Nat  BY <2>2, AnchorType
  <2>4. holding'.trigger \in Trigger /\ holding'.anchor \in Nat  BY <2>1, <2>2, <2>3
  <2>5. Scanning' /\ Scalars'  BY <2>1 DEF Scanning, Scalars
  <2> QED BY <2>1, <2>2, <2>4, <2>5 DEF Shapes, SpawnIsBounded, EndedIsEmpty
<1>2. CASE Skip
  <2>1. UNCHANGED <<cell, clock, arrived, files, up, runs, code, signal, tail, iface, scanned,
                    at, applied, read, passing, sent, permits, running, holding, ipc>>
        /\ up /\ inbox # << >> /\ inbox' = Tail(inbox)
    BY <1>2 DEF Skip, world, life, scanVars, dispatchVars
  <2>2. inbox' \in Seq(Trigger)  BY <2>1, InboxTail
  <2>3. Scanning' /\ Scalars'  BY <2>1 DEF Scanning, Scalars
  <2> QED BY <2>1, <2>2, <2>3 DEF Shapes, SpawnIsBounded, EndedIsEmpty
<1>3. CASE Reject
  <2>1. UNCHANGED <<cell, clock, arrived, files, up, runs, code, signal, tail, iface, scanned,
                    at, applied, read, passing, sent, permits, running, inbox>>
        /\ ipc' = "idle"
    BY <1>3 DEF Reject, world, life, scanVars
  <2>2. Scanning' /\ Scalars'  BY <2>1 DEF Scanning, Scalars
  <2> QED BY <2>1, <2>2 DEF Shapes, SpawnIsBounded, EndedIsEmpty
<1>4. CASE Admit
  <2>1. UNCHANGED <<cell, clock, arrived, files, up, runs, code, signal, tail, iface, scanned,
                    at, applied, read, passing, sent, running, inbox, holding>>
        /\ up /\ ipc = "gate" /\ ipc' = "spawn" /\ permits' = permits + 1
        /\ clock <= LastTrigger /\ Valid(holding.trigger, holding.anchor)
    BY <1>4 DEF Admit, world, life, scanVars
  <2>2. holding.trigger \in Trigger /\ holding.anchor \in Nat  BY <2>1 DEF Shapes
  <2>3. holding.trigger.post \in Nat /\ clock \in Nat  BY <2>2, TriggerFacts DEF Scalars
  <2>4. holding.anchor + holding.trigger.post <= MaxTime  BY SMTT(30), <2>1, <2>2, <2>3 DEF Valid
  <2>5. Scanning' /\ Scalars'  BY <2>1 DEF Scanning, Scalars
  <2> QED BY <2>1, <2>2, <2>4, <2>5 DEF Shapes, SpawnIsBounded, EndedIsEmpty
<1>5. CASE Spawn
  <2> DEFINE h == [src |-> holding.trigger.src,
                   end |-> holding.anchor + holding.trigger.post]
  <2>1. UNCHANGED <<cell, clock, arrived, files, up, runs, code, signal, tail, iface, scanned,
                    at, applied, read, passing, sent, inbox, permits>>
        /\ up /\ ipc = "spawn" /\ ipc' = "idle" /\ running' = running \cup {h}
    BY <1>5 DEF Spawn, world, life, scanVars
  <2>2. holding.trigger \in Trigger /\ holding.anchor \in Nat  BY <2>1 DEF Shapes
  <2>3. holding.trigger.post \in Nat /\ holding.trigger.src \in Place  BY <2>2, TriggerFacts
  <2>4. h \in [src : Place, end : Nat] /\ h.end <= MaxTime
    BY <2>1, <2>2, <2>3 DEF SpawnIsBounded
  <2> HIDE DEF h
  <2>5. IsFiniteSet(running')  BY <2>1, FS_AddElement DEF Shapes
  <2>6. Scalars'  BY <2>1, <2>4 DEF Scalars
  <2>7. Scanning'  BY <2>1 DEF Scanning
  <2> QED BY <2>1, <2>4, <2>5, <2>6, <2>7 DEF Shapes, SpawnIsBounded, EndedIsEmpty
<1>6. CASE SpawnFails
  <2>1. UNCHANGED <<cell, clock, arrived, files, up, runs, code, signal, tail, iface, scanned,
                    at, applied, read, passing, sent, running, inbox>>
        /\ up /\ ipc' = "idle"
    BY <1>6 DEF SpawnFails, world, life, scanVars
  <2>2. Scanning' /\ Scalars'  BY <2>1 DEF Scanning, Scalars
  <2> QED BY <2>1, <2>2 DEF Shapes, SpawnIsBounded, EndedIsEmpty
<1>7. CASE SpinEnds
  <2>1. UNCHANGED <<cell, clock, arrived, files, up, runs, code, signal, tail, scanned,
                    at, applied, read, passing, sent, permits, running, inbox, holding, ipc>>
        /\ iface' = "deaf"
    BY <1>7 DEF SpinEnds, world, life, scanVars, dispatchVars
  <2>2. Scanning' /\ Scalars'  BY <2>1 DEF Scanning, Scalars
  <2> QED BY <2>1, <2>2 DEF Shapes, SpawnIsBounded, EndedIsEmpty
<1>8. CASE InterfaceEnds
  <2>1. UNCHANGED <<cell, clock, arrived, files, up, runs, code, signal, tail, scanned,
                    at, applied, read, passing, sent, running>>
        /\ up /\ iface' = "ended" /\ inbox' = << >> /\ ipc' = "idle"
    BY <1>8 DEF InterfaceEnds, world, life, scanVars
  <2>2. Scanning' /\ Scalars'  BY <2>1 DEF Scanning, Scalars
  <2>3. inbox' \in Seq(Trigger)  BY <2>1
  <2> QED BY <2>1, <2>2, <2>3 DEF Shapes, SpawnIsBounded, EndedIsEmpty
<1> QED BY <1>1, <1>2, <1>3, <1>4, <1>5, <1>6, <1>7, <1>8 DEF InterfaceStep

LEMMA HandlerTypes ==
    ASSUME Scalars, Scanning, inbox \in Seq(Trigger), Shapes, SpawnIsBounded, EndedIsEmpty,
           NEW h \in running, Finish(h) \/ Panic(h)
    PROVE  Kept
<1>1. UNCHANGED <<cell, clock, arrived, files, up, runs, code, signal, tail, iface, scanned,
                  at, applied, read, passing, sent, inbox, holding, ipc>>
      /\ up /\ running' = running \ {h}
  BY DEF Finish, Panic, Gone, world, life, scanVars
<1>2. IsFiniteSet(running')  BY <1>1, FS_RemoveElement DEF Shapes
<1>3. Scanning' /\ Scalars'  BY <1>1 DEF Scanning, Scalars, Turn
<1> QED BY <1>1, <1>2, <1>3 DEF Kept, Shapes, SpawnIsBounded, EndedIsEmpty

LEMMA SupervisorTypes ==
    ASSUME Scalars, Scanning, inbox \in Seq(Trigger), Shapes, SpawnIsBounded, EndedIsEmpty,
           Exit \/ Restart
    PROVE  Kept
<1> USE Limits DEF Kept, Back, NoScan, Turn
<1>0. Len(files) \in Nat  BY FilesFacts
<1>1. CASE Exit
  <2>1. UNCHANGED <<cell, clock, arrived, files, runs>>
        /\ up' = FALSE /\ tail' = "ended" /\ iface' = "ended" /\ inbox' = << >>
        /\ running' = {} /\ ipc' = "idle" /\ code' \in {"zero", "nonzero"} /\ signal' = "none"
        /\ scanned' = << >> /\ at' = 0 /\ applied' = 0 /\ read' = 0 /\ passing' = FALSE
        /\ sent' = << >>
    BY <1>1 DEF Exit, CodeOf, world
  <2>2. Scalars'  BY <2>1 DEF Scalars
  <2>3. Scanning'  BY <1>0, <2>1 DEF Scanning
  <2>4. /\ inbox' \in Seq(Trigger) /\ sent' \in Seq(Place) /\ scanned' \in Seq(Scan)
        /\ IsFiniteSet(running')
    BY <2>1, FS_EmptySet
  <2> QED BY <2>1, <2>2, <2>3, <2>4 DEF Shapes, SpawnIsBounded, EndedIsEmpty
<1>2. CASE Restart
  <2>1. UNCHANGED <<cell, clock, arrived, files, code, signal, scanned, applied, read, passing,
                    sent, inbox, holding, ipc, permits, running>>
        /\ ~up /\ up' = TRUE /\ runs' = runs + 1 /\ runs < MaxRuns
        /\ tail' = "runs" /\ iface' = "runs"
        /\ at' \in 0..Len(files)
    <3>1. at' \in {0} \cup DOMAIN files  BY <1>2 DEF Restart
    <3>2. at' \in 0..Len(files)  BY <1>0, <3>1, FilesFacts
    <3> QED BY <1>2, <3>2 DEF Restart, world, dispatchVars
  <2>2. Scalars'  BY <2>1 DEF Scalars
  <2>3. applied = 0 /\ ~passing /\ sent = << >> /\ scanned = << >> /\ ipc = "idle"
    BY <2>1 DEF EndedIsEmpty, Scalars, Shapes
  <2>4. at' # 0 => Len(files[at']) \in Nat
    <3>1. at' # 0 => at' \in 1..Len(files)  BY <1>0, <2>1
    <3> QED BY <3>1, FileFacts
  <2>5. Len(scanned) = 0  BY <2>3
  <2>6. Scanning'  BY <1>0, <2>1, <2>3, <2>4, <2>5 DEF Scanning, Shapes
  <2> QED BY <2>1, <2>2, <2>3, <2>6 DEF Shapes, SpawnIsBounded, EndedIsEmpty
<1> QED BY <1>1, <1>2

(* Recordings are only added to, and only the last of them is.             *)
FilesGrow ==
    /\ Len(files') \in Nat /\ Len(files) <= Len(files')
    /\ \A f \in 1..Len(files) : /\ Len(files'[f]) \in Nat /\ Len(files[f]) <= Len(files'[f])
                                /\ \A r \in 1..Len(files[f]) : files'[f][r] = files[f][r]
    /\ \A f \in 1..Len(files) - 1 : files'[f] = files[f]

LEMMA FilesOnlyGrow ==
    ASSUME Scalars, Shapes, [Next]_vars
    PROVE  FilesGrow
<1>0. /\ Len(files) \in Nat
      /\ \A f \in 1..Len(files) : Len(files[f]) \in Nat
  BY FilesFacts, FileFacts
<1>1. CASE OpenFile
  <2>1. files' = Append(files, << >>)  BY <1>1 DEF OpenFile
  <2>2. Len(files') = Len(files) + 1 /\ \A f \in 1..Len(files) : files'[f] = files[f]
    <3>1. files \in Seq(Seq(Rec)) /\ << >> \in Seq(Rec)  BY DEF Shapes
    <3> QED BY <2>1, <3>1, AppendOne
  <2> QED BY <1>0, <2>2 DEF FilesGrow
<1>2. ASSUME NEW chunk \in Chunks, AppendRecord(chunk) PROVE FilesGrow
  <2> DEFINE last == Len(files)
             n == Len(files[last]) + 1
  <2>1. /\ last \in 1..Len(files) /\ n \in Nat
        /\ Len(files') = Len(files) /\ Len(files'[last]) = n
        /\ \A q \in 1..n - 1 : files'[last][q] = files[last][q]
        /\ \A g \in 1..last - 1 : files'[g] = files[g]
    BY <1>2, AppendRecordFacts
  <2>2. ASSUME NEW f \in 1..Len(files)
        PROVE  /\ Len(files'[f]) \in Nat /\ Len(files[f]) <= Len(files'[f])
               /\ \A r \in 1..Len(files[f]) : files'[f][r] = files[f][r]
    <3>1. CASE f = last
      <4>1. n - 1 = Len(files[last])  BY <1>0, <2>1
      <4> QED BY <1>0, <2>1, <3>1, <4>1
    <3>2. CASE f # last
      <4>1. f \in 1..last - 1  BY <1>0, <3>2
      <4>2. files'[f] = files[f]  BY <2>1, <4>1
      <4>3. Len(files[f]) \in Nat  BY <1>0
      <4> QED BY <4>2, <4>3
    <3> QED BY <3>1, <3>2
  <2>3. Len(files') \in Nat /\ Len(files) <= Len(files')  BY <1>0, <2>1
  <2>4. \A f \in 1..Len(files) - 1 : files'[f] = files[f]  BY <2>1
  <2> HIDE DEF last, n
  <2> QED BY <2>2, <2>3, <2>4 DEF FilesGrow
<1>3. CASE files' = files  BY <1>0, <1>3 DEF FilesGrow
<1>4. \/ OpenFile \/ (\E chunk \in Chunks : AppendRecord(chunk)) \/ files' = files
  BY DEF Next, Outside, TailStep, InterfaceStep, Tick, PublishTrigger, Signal, BeginPass, Lift,
         EndPass, FirstFile, NextFile, Take, Skip, Reject, Admit, Spawn, SpawnFails, TailEnds,
         SpinEnds, InterfaceEnds, Finish, Panic, Gone, Exit, Restart, vars, world
<1> QED BY <1>1, <1>2, <1>3, <1>4

(* What the history of the scans says of a scan stays.                     *)
LEMMA HistoryGrows ==
    ASSUME Scalars, Scanning, Shapes, EndedIsEmpty, [Next]_vars
    PROVE  \/ scanned' = << >> /\ sent' = << >> /\ (at = 0 \/ at' = 0)
           \/ scanned' = scanned /\ at' = at /\ at # 0
           \/ /\ at # 0 /\ NextFile
              /\ Len(scanned') = Len(scanned) + 1
              /\ \A n \in 1..Len(scanned) : scanned'[n] = scanned[n]
              /\ scanned'[Len(scanned) + 1].file = at
              /\ scanned'[Len(scanned) + 1].upto = applied
              /\ at' \in 1..Len(files) /\ applied' = 0 /\ ~passing /\ ~passing'
              /\ UNCHANGED <<files, sent>>
              /\ at < at' /\ ~scanned'[Len(scanned) + 1].gone => applied = Len(files[at])
<1>1. CASE at = 0 /\ scanned' = scanned /\ sent' = sent
  BY <1>1 DEF EndedIsEmpty
<1>2. CASE NextFile
  <2>1. PICK next \in DOMAIN files, gone \in BOOLEAN :
          /\ applied = Len(files[at]) \/ gone \/ next <= at
          /\ at' = next
          /\ scanned' = Append(scanned, [file |-> at, upto |-> applied, gone |-> gone])
    BY <1>2 DEF NextFile
  <2> DEFINE entry == [file |-> at, upto |-> applied, gone |-> gone]
  <2>2. entry \in Scan
    <3>1. at \in Nat  BY FilesFacts, ScanFacts
    <3> QED BY <3>1 DEF Scan, Shapes
  <2>3. entry.file = at /\ entry.upto = applied /\ entry.gone = gone  OBVIOUS
  <2>4. scanned' = Append(scanned, entry)  BY <2>1
  <2> HIDE DEF entry
  <2>5. scanned \in Seq(Scan)  BY DEF Shapes
  <2>6. /\ Len(scanned') = Len(scanned) + 1
        /\ \A n \in 1..Len(scanned) : scanned'[n] = scanned[n]
        /\ scanned'[Len(scanned) + 1] = entry
    BY <2>2, <2>4, <2>5, AppendOne
  <2>7. at' \in 1..Len(files) /\ at \in Nat  BY <2>1, FilesFacts, ScanFacts
  <2>8. at < at' /\ ~gone => applied = Len(files[at])  BY <2>1, <2>7
  <2>9. at # 0 /\ applied' = 0 /\ ~passing /\ ~passing' /\ UNCHANGED <<files, sent>>
    BY <1>2 DEF NextFile, world
  <2> QED BY <1>2, <2>3, <2>6, <2>7, <2>8, <2>9
<1>3. CASE FirstFile  BY <1>3 DEF FirstFile, EndedIsEmpty
<1>4. CASE TailEnds \/ Exit  BY <1>4 DEF TailEnds, Exit, NoScan
<1>5. CASE Restart
  <2>1. at = 0 /\ scanned' = scanned /\ sent' = sent  BY <1>5 DEF Restart, EndedIsEmpty
  <2> QED BY <1>1, <2>1
<1>6. CASE Lift  BY <1>6 DEF Lift, EndedIsEmpty
<1>7. CASE BeginPass \/ EndPass  BY <1>7 DEF BeginPass, EndPass, EndedIsEmpty
<1>8. CASE UNCHANGED <<scanned, at, sent>>
  BY <1>1, <1>8
<1>9. \/ Lift \/ BeginPass \/ EndPass \/ FirstFile \/ NextFile \/ TailEnds \/ Exit \/ Restart
      \/ UNCHANGED <<scanned, at, sent>>
  BY DEF Next, Outside, TailStep, InterfaceStep, Tick, OpenFile, AppendRecord, PublishTrigger,
         Signal, Take, Skip, Reject, Admit, Spawn, SpawnFails, SpinEnds, InterfaceEnds, Finish,
         Panic, Gone, vars, scanVars
<1> QED BY <1>2, <1>3, <1>4, <1>5, <1>6, <1>7, <1>8, <1>9

LEMMA ScannedKept ==
    ASSUME Scalars, Scanning, Shapes, EndedIsEmpty, ScannedTyped, Shapes', [Next]_vars
    PROVE  ScannedTyped'
<1> DEFINE L == Len(scanned)
<1>1. FilesGrow  BY FilesOnlyGrow
<1>2. /\ Len(files) \in Nat /\ DOMAIN files = 1..Len(files)
      /\ \A f \in 1..Len(files) : Len(files[f]) \in Nat
      /\ L \in Nat /\ DOMAIN scanned = 1..L
  BY FilesFacts, FileFacts, ScannedFacts
<1>3. DOMAIN files' = 1..Len(files') /\ DOMAIN scanned' = 1..Len(scanned')
  <2>1. files' \in Seq(Seq(Rec)) /\ scanned' \in Seq(Scan)  BY DEF Shapes
  <2> QED BY <2>1, SeqElements
<1> SUFFICES ASSUME NEW n \in 1..Len(scanned'), NEW e, e = scanned'[n]
             PROVE  e.file \in 1..Len(files') /\ e.upto \in 0..Len(files'[e.file])
  BY <1>3 DEF ScannedTyped
<1>4. ASSUME e.file \in 1..Len(files), e.upto \in 0..Len(files[e.file])
      PROVE  e.file \in 1..Len(files') /\ e.upto \in 0..Len(files'[e.file])
  BY <1>1, <1>2, <1>4 DEF FilesGrow
<1>5. ASSUME n \in 1..L, scanned'[n] = scanned[n]
      PROVE  e.file \in 1..Len(files) /\ e.upto \in 0..Len(files[e.file])
  BY <1>2, <1>5 DEF ScannedTyped
<1>6. CASE scanned' = << >>
  <2>1. Len(scanned') = 0  BY <1>6
  <2> QED BY <2>1
<1>7. CASE scanned' = scanned  BY <1>4, <1>5, <1>7
<1>8. CASE /\ at # 0 /\ Len(scanned') = L + 1
           /\ \A m \in 1..L : scanned'[m] = scanned[m]
           /\ scanned'[L + 1].file = at /\ scanned'[L + 1].upto = applied
  <2>1. CASE n \in 1..L  BY <1>4, <1>5, <1>8, <2>1
  <2>2. CASE n \notin 1..L
    <3>1. n = L + 1  BY <1>2, <1>8, <2>2
    <3>2. at \in 1..Len(files)  BY <1>2, <1>8, ScanFacts
    <3>3. applied \in 0..Len(files[at])  BY <1>8 DEF Scanning
    <3> QED BY <1>4, <1>8, <3>1, <3>2, <3>3
  <2> QED BY <2>1, <2>2
<1> HIDE DEF L
<1>9. QED BY <1>6, <1>7, <1>8, HistoryGrows DEF L

LEMMA TypesKept ==
    ASSUME TypeOK, Shapes, SpawnIsBounded, EndedIsEmpty, [Next]_vars
    PROVE  TypeOK' /\ Shapes' /\ SpawnIsBounded' /\ EndedIsEmpty'
<1>1. Scalars /\ Scanning /\ ScannedTyped /\ inbox \in Seq(Trigger)  BY TypeParts
<1>2. CASE UNCHANGED vars
  <2>1. UNCHANGED <<cell, clock, arrived, files, up, runs, code, signal, tail, iface, scanned,
                    at, applied, read, passing, sent, inbox, holding, ipc, permits, running>>
    BY <1>2 DEF vars, world, life, scanVars, dispatchVars
  <2> QED BY <2>1 DEF TypeOK, Shapes, SpawnIsBounded, EndedIsEmpty, Turn
<1>3. CASE Next
  <2>1. Kept
    BY <1>1, <1>3, OutsideTypes, TailTypes, InterfaceTypes, HandlerTypes, SupervisorTypes
       DEF Next
  <2>2. Shapes'  BY <2>1 DEF Kept
  <2>3. FilesTyped'  BY <2>2, FilesAreTyped, PTL
  <2>4. ScannedTyped'  BY <1>1, <2>2, ScannedKept
  <2>5. TypeOK'
    BY <2>1, <2>3, <2>4 DEF Kept, TypeOK, Scalars, Scanning, FilesTyped, ScannedTyped
  <2> QED BY <2>1, <2>5 DEF Kept
<1> QED BY <1>2, <1>3

-----------------------------------------------------------------------------
(* Where the tap is not used, no recording comes into being.               *)
LEMMA UntappedKept ==
    ASSUME UntappedIsEmpty, [Next]_vars
    PROVE  UntappedIsEmpty'
BY DEF UntappedIsEmpty, Next, Outside, TailStep, InterfaceStep, Tick, OpenFile, AppendRecord,
       PublishTrigger, Signal, BeginPass, Lift, EndPass, FirstFile, NextFile, Take, Skip, Reject,
       Admit, Spawn, SpawnFails, TailEnds, SpinEnds, InterfaceEnds, Finish, Panic, Gone, Exit,
       Restart, vars, world

(* A recording scanned to its end and left for a younger one has that end  *)
(* for good.                                                               *)
LEMMA WholeKept ==
    ASSUME TypeOK, Shapes, EndedIsEmpty, SucceededIsWhole, [Next]_vars
    PROVE  SucceededIsWhole'
<1> DEFINE L == Len(scanned)
<1>1. Scalars /\ Scanning /\ ScannedTyped  BY TypeParts
<1>2. /\ Len(files) \in Nat /\ DOMAIN files = 1..Len(files)
      /\ L \in Nat /\ Turn = L + 1 /\ DOMAIN scanned = 1..L
      /\ \A n \in 1..L : scanned[n].file \in Nat
  BY FilesFacts, ScannedFacts
<1>3. FilesGrow  BY <1>1, FilesOnlyGrow
<1>4. at \in 0..Len(files) /\ \A n \in 1..L : scanned[n].file \in 1..Len(files)
  BY <1>1, <1>2, ScanFacts DEF ScannedTyped
<1>5. ASSUME NEW n \in 1..L  PROVE ScanOf(n + 1) \in 0..Len(files) /\ ScanOf(n) = scanned[n].file
  <2>1. n + 1 = Turn \/ n + 1 \in 1..L  BY <1>2
  <2>2. n # Turn  BY <1>2
  <2> QED BY <1>4, <2>1, <2>2 DEF ScanOf
<1>6. ASSUME NEW n \in 1..L, Succeeded(n), NEW f, f = scanned[n].file
      PROVE  files'[f] = files[f]
  <2>1. f \in 1..Len(files) /\ f < ScanOf(n + 1)  BY <1>4, <1>5, <1>6 DEF Succeeded
  <2>2. f \in 1..Len(files) - 1  BY <1>2, <1>5, <2>1
  <2> QED BY <1>3, <2>2 DEF FilesGrow
<1>7. CASE scanned' = << >>
  <2>1. Len(scanned') = 0  BY <1>7
  <2> QED BY <2>1 DEF SucceededIsWhole
<1>8. CASE scanned' = scanned /\ at' = at
  <2>1. \A n : Succeeded(n)' <=> Succeeded(n)  BY <1>8 DEF Succeeded, ScanOf, Turn
  <2>2. ASSUME NEW n \in 1..L, Succeeded(n)
        PROVE  scanned[n].upto = Len(files'[scanned[n].file])
    BY <1>6, <2>2 DEF SucceededIsWhole
  <2> QED BY <1>8, <2>1, <2>2 DEF SucceededIsWhole
<1>9. CASE /\ Len(scanned') = L + 1
           /\ \A n \in 1..L : scanned'[n] = scanned[n]
           /\ scanned'[L + 1].file = at /\ scanned'[L + 1].upto = applied
           /\ files' = files
           /\ at < at' /\ ~scanned'[L + 1].gone => applied = Len(files[at])
  <2>1. Turn' = L + 2  BY <1>2, <1>9 DEF Turn
  <2> SUFFICES ASSUME NEW n \in 1..L + 1, Succeeded(n)'
               PROVE  scanned'[n].upto = Len(files[scanned'[n].file])
    BY <1>9 DEF SucceededIsWhole
  <2>2. CASE n \in 1..L
    <3>1. ScanOf(n)' = ScanOf(n)  BY <1>2, <1>5, <1>9, <2>1, <2>2 DEF ScanOf
    <3>2. ScanOf(n + 1)' = ScanOf(n + 1)
      <4>1. CASE n = L  BY <1>2, <1>9, <2>1, <4>1 DEF ScanOf
      <4>2. CASE n # L
        <5>1. PICK m : m = n + 1  OBVIOUS
        <5>2. m \in 1..L /\ m # Turn /\ m # Turn'
          <6>1. L \in Nat /\ Turn = L + 1  BY <1>2
          <6> HIDE DEF L
          <6> QED BY <2>1, <2>2, <4>2, <5>1, <6>1
        <5>3. ScanOf(m)' = ScanOf(m)  BY <1>9, <5>2 DEF ScanOf
        <5> QED BY <5>1, <5>3
      <4> QED BY <4>1, <4>2
    <3>3. Succeeded(n)  BY <1>2, <1>9, <2>2, <3>1, <3>2 DEF Succeeded
    <3> QED BY <1>9, <2>2, <3>3 DEF SucceededIsWhole
  <2>3. CASE n = L + 1
    <3>1. n # Turn' /\ n + 1 = Turn'  BY <1>2, <2>1, <2>3
    <3>2. ScanOf(n)' = at /\ ScanOf(n + 1)' = at'  BY <1>9, <2>3, <3>1 DEF ScanOf
    <3> QED BY <1>9, <2>3, <3>2 DEF Succeeded
  <2> QED BY <1>2, <2>2, <2>3
<1> HIDE DEF L
<1>10. QED BY <1>1, <1>7, <1>8, <1>9, HistoryGrows DEF L

-----------------------------------------------------------------------------
(* The scan only goes forward, and more and more triggers are published.   *)
Running ==
    \/ Outside \/ TailStep \/ InterfaceStep
    \/ TailEnds \/ SpinEnds \/ InterfaceEnds
    \/ \E h \in running : Finish(h) \/ Panic(h)

LEMMA GivenGrows ==
    ASSUME TypeOK, Shapes, Running, NEW s \in Place
    PROVE  /\ tail' = "runs" /\ Behind(s) => Behind(s)'
           /\ Given(s) => Given(s)'
<1>0. s[1] \in Nat /\ s[2] \in Nat  BY PlaceFacts
<1>1. at \in Nat /\ applied \in Nat /\ read \in Nat /\ passing \in BOOLEAN
      /\ arrived \in Nat
  <2>1. Len(files) \in Nat  BY FilesFacts
  <2> QED BY <2>1, TypeParts, ScanFacts, Limits DEF Shapes, Scalars
<1>2. cell' = cell
  BY DEF Running, Outside, TailStep, InterfaceStep, Tick, OpenFile, AppendRecord,
         PublishTrigger, Signal, BeginPass, Lift, EndPass, FirstFile, NextFile, Take, Skip, Reject, Admit,
         Spawn, SpawnFails, TailEnds, SpinEnds, InterfaceEnds, Finish, Panic, Gone, world
<1>3. arrived' \in Nat /\ arrived <= arrived'
  <2>1. ASSUME NEW chunk \in Chunks, AppendRecord(chunk)
        PROVE  arrived' \in Nat /\ arrived <= arrived'
    <3>1. Len(chunk.triggers) \in Nat  BY <2>1, ChunkFacts
    <3> QED BY <1>1, <2>1, <3>1 DEF AppendRecord
  <2>2. arrived' = arrived \/ arrived' = arrived + 1
        \/ \E chunk \in Chunks : AppendRecord(chunk)
    BY DEF Running, Outside, TailStep, InterfaceStep, Tick, OpenFile, PublishTrigger, Signal,
           BeginPass, Lift, EndPass, FirstFile, NextFile, Take, Skip, Reject, Admit, Spawn, SpawnFails,
           TailEnds, SpinEnds, InterfaceEnds, Finish, Panic, Gone, world
  <2> QED BY <1>1, <2>1, <2>2
<1>4. \/ tail' # "runs"
      \/ tail' = tail /\ UNCHANGED <<at, scanned, applied, read, passing>>
      \/ tail' = tail /\ TailStep
  BY DEF Running, Outside, InterfaceStep, Tick, OpenFile, AppendRecord, PublishTrigger, Signal,
         TailStep, BeginPass, Lift, EndPass, FirstFile, NextFile, life,
         Take, Skip, Reject, Admit, Spawn, SpawnFails, TailEnds, SpinEnds, InterfaceEnds,
         Finish, Panic, Gone, scanVars
<1>5. tail' = "runs" /\ Behind(s) => Behind(s)'
  <2>1. CASE UNCHANGED <<at, scanned, applied, read, passing>>
    BY <2>1 DEF Behind, Reach, Position, Turn
  <2>2. CASE TailStep
    <3>1. CASE NextFile
      <4>1. /\ Turn \in Nat /\ Turn' = Turn + 1 /\ at' # 0
            /\ \A n \in 1..Turn - 1 : scanned'[n] = scanned[n]
            /\ scanned'[Turn].upto = Position
        <5>1. PICK gone \in BOOLEAN :
                scanned' = Append(scanned, [file |-> at, upto |-> applied, gone |-> gone])
          BY <3>1 DEF NextFile
        <5> DEFINE entry == [file |-> at, upto |-> applied, gone |-> gone]
        <5>2. entry \in Scan /\ entry.upto = applied  BY <1>1 DEF Scan
        <5>3. scanned \in Seq(Scan)  BY DEF Shapes
        <5>4. scanned' = Append(scanned, entry)  BY <5>1
        <5> HIDE DEF entry
        <5>5. /\ Len(scanned') = Len(scanned) + 1
              /\ \A n \in 1..Len(scanned) : scanned'[n] = scanned[n]
              /\ scanned'[Len(scanned) + 1] = entry
          BY <5>2, <5>3, <5>4, AppendOne
        <5>6. at' # 0 /\ Position = applied
          <6>1. at' \in DOMAIN files /\ ~passing  BY <3>1 DEF NextFile
          <6> QED BY <6>1, FilesFacts DEF Position
        <5>7. Turn = Len(scanned) + 1 /\ Len(scanned) \in Nat  BY ScannedFacts
        <5> QED BY <5>2, <5>5, <5>6, <5>7 DEF Turn
      <4>2. ASSUME NEW n \in 1..Turn  PROVE n \in 1..Turn' /\ Reach(n)' = Reach(n)
        <5>1. n \in 1..Turn' /\ n # Turn'  BY <4>1
        <5>2. n = Turn \/ n \in 1..Turn - 1  BY <4>1
        <5> QED BY <4>1, <5>1, <5>2 DEF Reach
      <4> QED BY <4>1, <4>2 DEF Behind
    <3>2. CASE FirstFile  BY <3>2 DEF FirstFile, Behind
    <3>3. CASE BeginPass \/ Lift \/ EndPass
      <4>1. UNCHANGED <<at, scanned>> /\ Position <= Position' /\ Position' \in Nat
        BY <1>1, <3>3 DEF BeginPass, Lift, EndPass, Resume, Position
      <4>2. Turn' = Turn /\ Position \in Nat  BY <1>1, <4>1 DEF Turn, Position
      <4>3. \A n \in 1..Turn : n # Turn => Reach(n)' = Reach(n)  BY <4>1, <4>2 DEF Reach
      <4>4. Reach(Turn)' = Position' /\ Reach(Turn) = Position  BY <4>2 DEF Reach
      <4> QED BY <1>0, <4>1, <4>2, <4>3, <4>4 DEF Behind
    <3> QED BY <2>2, <3>1, <3>2, <3>3 DEF TailStep
  <2> QED BY <1>4, <2>1, <2>2
<1> QED BY <1>0, <1>1, <1>2, <1>3, <1>4, <1>5 DEF Given

(* What is lifted now comes after whatever the scan has passed.            *)
LEMMA LiftedIsNext ==
    ASSUME TypeOK, Shapes, UntappedIsEmpty, EndedIsEmpty, Lift
    PROVE  LET e == Emitted(files[at][read + 1])
               n == Len(e)
               lifted == [k \in DOMAIN e |-> Lifted(e[k], <<Turn, read + 1, k, at>>)]
           IN  /\ n \in Nat /\ cell.interface = "mcap"
               /\ lifted \in Seq(Trigger) /\ Len(lifted) = n
               /\ Len(sent') = Len(sent) + n
               /\ \A k \in 1..n :
                    /\ lifted[k].src = <<Turn, read + 1, k, at>>
                    /\ sent'[Len(sent) + k] = <<Turn, read + 1, k, at>>
                    /\ <<Turn, read + 1, k, at>> \in Place
                    /\ \A s : s = <<Turn, read + 1, k, at>> => Given(s)' /\ Behind(s)'
               /\ \A i \in 1..Len(sent) : sent'[i] = sent[i]
               /\ inbox' = IF iface # "ended" THEN inbox \o lifted ELSE inbox
<1> DEFINE r == files[at][read + 1]
           e == Emitted(r)
           n == Len(e)
           places == [k \in DOMAIN e |-> <<Turn, read + 1, k, at>>]
           lifted == [k \in DOMAIN e |-> Lifted(e[k], <<Turn, read + 1, k, at>>)]
<1>1. /\ at \in 1..Len(files) /\ read \in Nat /\ read + 1 \in 1..Len(files[at])
      /\ n \in Nat
      /\ places \in Seq(Place) /\ Len(places) = n
      /\ \A k \in 1..n : places[k] = <<Turn, read + 1, k, at>>
      /\ lifted \in Seq(Trigger) /\ Len(lifted) = n
      /\ \A k \in 1..n : lifted[k].src = <<Turn, read + 1, k, at>>
      /\ sent' = sent \o places
      /\ inbox' = IF iface # "ended" THEN inbox \o lifted ELSE inbox
  BY TypeParts, LiftFacts
<1> HIDE DEF e, n, places, lifted
<1>2. cell.interface = "mcap"
  <2>1. files # << >>
    <3>1. Len(<< >>) = 0  OBVIOUS
    <3> QED BY <1>1, <3>1
  <2> QED BY <2>1 DEF UntappedIsEmpty, Shapes
<1>3. sent \in Seq(Place) /\ Len(sent) \in Nat  BY SourceFacts DEF Shapes
<1>4. /\ Len(sent') = Len(sent) + n
      /\ \A i \in 1..Len(sent) : sent'[i] = sent[i]
      /\ \A k \in 1..n : sent'[Len(sent) + k] = places[k]
  <2>1. places \in Seq(Place) /\ Len(places) = n /\ sent' = sent \o places  BY <1>1
  <2>2. PICK p : p = sent  OBVIOUS
  <2>3. PICK q : q = places  OBVIOUS
  <2>4. PICK m : m = n  OBVIOUS
  <2>5. PICK c : c = sent'  OBVIOUS
  <2>6. p \in Seq(Place) /\ q \in Seq(Place) /\ m = Len(q) /\ c = p \o q
    BY <1>3, <2>1, <2>2, <2>3, <2>4, <2>5
  <2>7. /\ Len(c) = Len(p) + m
        /\ \A i \in 1..Len(p) : c[i] = p[i]
        /\ \A k \in 1..m : c[Len(p) + k] = q[k]
    BY <2>6, ConcatFacts
  <2> QED BY <2>2, <2>3, <2>4, <2>5, <2>7
<1>5. UNCHANGED <<at, scanned, cell, passing, applied, tail>> /\ passing /\ read' = read + 1
  BY DEF Lift, world, life
<1>6. \A k \in 1..n : <<Turn, read + 1, k, at>> \in Place
  <2>1. at \in Nat /\ read + 1 \in Nat  BY <1>1, FilesFacts
  <2>2. Turn \in Nat  BY ScannedFacts
  <2>3. \A k \in 1..n : k \in Nat  BY <1>1
  <2> QED BY <2>1, <2>2, <2>3, PlaceFacts
<1>7. ASSUME NEW k \in 1..n, NEW s, s = <<Turn, read + 1, k, at>>
      PROVE  Given(s)' /\ Behind(s)'
  <2>1. s[1] = Turn /\ s[2] = read + 1  BY <1>7
  <2>2. at' # 0 /\ Position' = read + 1 /\ Turn' = Turn  BY <1>1, <1>5 DEF Position, Turn
  <2>3. Behind(s)'  BY <1>1, <2>1, <2>2, ScannedFacts DEF Behind, Reach
  <2>4. cell'.interface # "ros"  BY <1>2, <1>5
  <2> QED BY <2>3, <2>4 DEF Given
<1>8. \A k \in 1..n : sent'[Len(sent) + k] = <<Turn, read + 1, k, at>>  BY <1>1, <1>4
<1> QED BY <1>1, <1>2, <1>4, <1>6, <1>7, <1>8 DEF e, n, r, lifted

SentBehind == \A i \in 1..Len(sent) : Behind(sent[i])

LEMMA SentKept ==
    ASSUME TypeOK, Shapes, UntappedIsEmpty, EndedIsEmpty, SentBehind,
           EndedIsEmpty', Running
    PROVE  SentBehind'
<1> SUFFICES ASSUME NEW i \in 1..Len(sent'), NEW s, s = sent'[i]
             PROVE  Behind(s)'
  BY DEF SentBehind
<1>1. tail' = "runs"
  <2>1. Len(<< >>) = 0  OBVIOUS
  <2> QED BY <2>1 DEF EndedIsEmpty
<1>2. ASSUME NEW j \in 1..Len(sent), s = sent[j]  PROVE Behind(s)'
  <2>1. s \in Place /\ Behind(s)  BY <1>2, SourceFacts DEF SentBehind
  <2> QED BY <1>1, <2>1, GivenGrows
<1>3. CASE Lift
  <2> DEFINE n == Len(Emitted(files[at][read + 1]))
  <2>1. /\ n \in Nat /\ Len(sent') = Len(sent) + n
        /\ \A k \in 1..n : /\ sent'[Len(sent) + k] = <<Turn, read + 1, k, at>>
                           /\ \A t : t = <<Turn, read + 1, k, at>> => Behind(t)'
        /\ \A j \in 1..Len(sent) : sent'[j] = sent[j]
    BY <1>3, LiftedIsNext
  <2> HIDE DEF n
  <2>2. Len(sent) \in Nat  BY SourceFacts
  <2>3. CASE i \in 1..Len(sent)  BY <1>2, <2>1, <2>3
  <2>4. CASE i \notin 1..Len(sent)
    <3> DEFINE k == i - Len(sent)
    <3>1. k \in 1..n /\ i = Len(sent) + k  BY <2>1, <2>2, <2>4
    <3>2. s = <<Turn, read + 1, k, at>>  BY <2>1, <3>1
    <3> QED BY <2>1, <3>1, <3>2
  <2> QED BY <2>3, <2>4
<1>4. CASE sent' = sent  BY <1>2, <1>4
<1>5. sent' = sent \/ tail' # "runs" \/ Lift
  BY DEF Running, Outside, InterfaceStep, Tick, OpenFile, AppendRecord, PublishTrigger, Signal,
         TailStep, BeginPass, EndPass, FirstFile, NextFile, TailEnds,
         Take, Skip, Reject, Admit, Spawn, SpawnFails, SpinEnds, InterfaceEnds,
         Finish, Panic, Gone, scanVars
<1> QED BY <1>1, <1>3, <1>4, <1>5

(* Triggers are taken in order, and nothing comes from nowhere.            *)
Flow ==
    /\ \A i \in 1..Len(inbox) : Given(inbox[i].src)
    /\ ipc # "idle" => Given(holding.trigger.src)
    /\ \A h \in running : Given(h.src)
    /\ InOrder

LEMMA FlowParts == AllGiven /\ InOrder <=> Flow /\ SentBehind
BY DEF AllGiven, Flow, SentBehind

(* Where nothing new arrives, and what moves on comes from the front.      *)
LEMMA FlowShrinks ==
    ASSUME TypeOK, Shapes, Flow, Running,
           NEW d \in {0, 1}, d <= Len(inbox),
           /\ Len(inbox') = Len(inbox) - d
           /\ \A i \in 1..Len(inbox) - d : inbox'[i] = inbox[i + d],
           \/ ipc' = "idle"
           \/ ipc # "idle" /\ holding' = holding
           \/ ipc = "idle" /\ d = 1 /\ holding'.trigger = inbox[1],
           \A h \in running' : h \in running
                               \/ (ipc # "idle" /\ ipc' = "idle" /\ h.src = holding.trigger.src)
    PROVE  Flow'
<1>0. /\ Len(inbox) \in Nat
      /\ \A i \in 1..Len(inbox) : inbox[i].src \in Place
      /\ ipc # "idle" => holding.trigger.src \in Place
      /\ \A h \in running : h.src \in Place
  BY SourceFacts
<1>1. \A s \in Place : Given(s) => Given(s)'  BY GivenGrows
<1>2. ASSUME NEW i \in 1..Len(inbox')  PROVE i + d \in 1..Len(inbox) /\ inbox'[i] = inbox[i + d]
  BY <1>0
<1>3. ASSUME NEW i \in 1..Len(inbox'), NEW s, s = inbox'[i].src  PROVE Given(s)'
  <2>1. s \in Place /\ Given(s)  BY <1>0, <1>2, <1>3 DEF Flow
  <2> QED BY <1>1, <2>1
<1>4. ASSUME ipc' # "idle", NEW s, s = holding'.trigger.src  PROVE Given(s)'
  <2>1. s \in Place /\ Given(s)
    <3>1. CASE ipc # "idle" /\ holding' = holding  BY <1>0, <1>4, <3>1 DEF Flow
    <3>2. CASE ipc = "idle" /\ d = 1 /\ holding'.trigger = inbox[1]
      <4>1. 1 \in 1..Len(inbox)  BY <1>0, <3>2
      <4> QED BY <1>0, <1>4, <3>2, <4>1 DEF Flow
    <3> QED BY <1>4, <3>1, <3>2
  <2> QED BY <1>1, <2>1
<1>5. ASSUME NEW h \in running', NEW s, s = h.src  PROVE Given(s)'
  <2>1. s \in Place /\ Given(s)  BY <1>0, <1>5 DEF Flow
  <2> QED BY <1>1, <2>1
<1>6. ASSUME NEW i \in 1..Len(inbox'), NEW j \in 1..Len(inbox'), i < j
      PROVE  Earlier(inbox'[i].src, inbox'[j].src)
  <2>1. i + d < j + d  BY <1>6
  <2> QED BY <1>2, <2>1 DEF Flow, InOrder
<1>7. ASSUME ipc' # "idle", NEW i \in 1..Len(inbox')
      PROVE  Earlier(holding'.trigger.src, inbox'[i].src)
  <2>1. CASE ipc # "idle" /\ holding' = holding  BY <1>2, <1>7, <2>1 DEF Flow, InOrder
  <2>2. CASE ipc = "idle" /\ d = 1 /\ holding'.trigger = inbox[1]
    <3>1. 1 \in 1..Len(inbox) /\ 1 < i + 1  BY <1>0, <2>2
    <3> QED BY <1>2, <2>2, <3>1 DEF Flow, InOrder
  <2> QED BY <1>7, <2>1, <2>2
<1>8. ASSUME NEW h \in running', NEW i \in 1..Len(inbox')
      PROVE  Earlier(h.src, inbox'[i].src)
  BY <1>2, <1>8 DEF Flow, InOrder
<1>9. ASSUME ipc' # "idle", NEW h \in running'
      PROVE  Earlier(h.src, holding'.trigger.src)
  <2>1. h \in running  BY <1>9
  <2>2. CASE ipc # "idle" /\ holding' = holding  BY <2>1, <2>2 DEF Flow, InOrder
  <2>3. CASE ipc = "idle" /\ d = 1 /\ holding'.trigger = inbox[1]
    <3>1. 1 \in 1..Len(inbox)  BY <1>0, <2>3
    <3> QED BY <2>1, <2>3, <3>1 DEF Flow, InOrder
  <2> QED BY <1>9, <2>2, <2>3
<1>10. InOrder'
  <2>1. \A i, j \in 1..Len(inbox') : i < j => Earlier(inbox'[i].src, inbox'[j].src)
    BY <1>6
  <2>2. ipc' # "idle" =>
          \A i \in 1..Len(inbox') : Earlier(holding'.trigger.src, inbox'[i].src)
    BY <1>7
  <2>3. \A h \in running' : \A i \in 1..Len(inbox') : Earlier(h.src, inbox'[i].src)
    BY <1>8
  <2>4. ipc' # "idle" => \A h \in running' : Earlier(h.src, holding'.trigger.src)
    BY <1>9
  <2> QED BY <2>1, <2>2, <2>3, <2>4 DEF InOrder
<1> QED BY <1>3, <1>4, <1>5, <1>10 DEF Flow

(* Where triggers arrive, later than all there are, and nothing moves on.  *)
LEMMA FlowGrows ==
    ASSUME TypeOK, Shapes, Flow, Running,
           UNCHANGED <<holding, ipc, running>>,
           NEW n \in Nat, Len(inbox') = Len(inbox) + n,
           \A i \in 1..Len(inbox) : inbox'[i] = inbox[i],
           NEW later, \A k \in 1..n : inbox'[Len(inbox) + k].src = later[k],
           \A k \in 1..n : \A s : s = later[k] => Given(s)',
           \A k \in 1..n : \A s \in Place : Given(s) => Earlier(s, later[k]),
           \A j, k \in 1..n : j < k => Earlier(later[j], later[k])
    PROVE  Flow'
<1>0. /\ Len(inbox) \in Nat
      /\ \A i \in 1..Len(inbox) : inbox[i].src \in Place
      /\ ipc # "idle" => holding.trigger.src \in Place
      /\ \A h \in running : h.src \in Place
  BY SourceFacts
<1>1. \A s \in Place : Given(s) => Given(s)'  BY GivenGrows
<1>2. ASSUME NEW i \in 1..Len(inbox')
      PROVE  \/ i \in 1..Len(inbox) /\ inbox'[i] = inbox[i]
             \/ /\ i > Len(inbox) /\ i - Len(inbox) \in 1..n
                /\ inbox'[i].src = later[i - Len(inbox)]
  <2>1. CASE i \in 1..Len(inbox)  BY <2>1
  <2>2. CASE i \notin 1..Len(inbox)
    <3> DEFINE k == i - Len(inbox)
    <3>1. k \in 1..n /\ i = Len(inbox) + k /\ i > Len(inbox)  BY <1>0, <2>2
    <3> HIDE DEF k
    <3>2. inbox'[i].src = later[k]  BY <3>1
    <3> QED BY <3>1, <3>2 DEF k
  <2> QED BY <2>1, <2>2
<1>3. ASSUME NEW i \in 1..Len(inbox'), NEW s, s = inbox'[i].src  PROVE Given(s)'
  <2>1. CASE i \in 1..Len(inbox) /\ inbox'[i] = inbox[i]
    <3>1. s \in Place /\ Given(s)  BY <1>0, <1>3, <2>1 DEF Flow
    <3> QED BY <1>1, <3>1
  <2>2. CASE i - Len(inbox) \in 1..n /\ inbox'[i].src = later[i - Len(inbox)]
    BY <1>3, <2>2
  <2> QED BY <1>2, <2>1, <2>2
<1>4. ASSUME ipc' # "idle", NEW s, s = holding'.trigger.src  PROVE Given(s)'
  <2>1. s \in Place /\ Given(s)  BY <1>0, <1>4 DEF Flow
  <2> QED BY <1>1, <2>1
<1>5. ASSUME NEW h \in running', NEW s, s = h.src  PROVE Given(s)'
  <2>1. s \in Place /\ Given(s)  BY <1>0, <1>5 DEF Flow
  <2> QED BY <1>1, <2>1
<1>6. ASSUME NEW s \in Place, Given(s), \A i \in 1..Len(inbox) : Earlier(s, inbox[i].src),
             NEW i \in 1..Len(inbox')
      PROVE  Earlier(s, inbox'[i].src)
  <2>1. CASE i \in 1..Len(inbox) /\ inbox'[i] = inbox[i]  BY <1>6, <2>1
  <2>2. CASE i - Len(inbox) \in 1..n /\ inbox'[i].src = later[i - Len(inbox)]
    BY <1>6, <2>2
  <2> QED BY <1>2, <2>1, <2>2
<1>7. ASSUME NEW i \in 1..Len(inbox'), NEW j \in 1..Len(inbox'), i < j
      PROVE  Earlier(inbox'[i].src, inbox'[j].src)
  <2>1. CASE i \in 1..Len(inbox) /\ inbox'[i] = inbox[i]
    <3>1. inbox[i].src \in Place /\ Given(inbox[i].src)  BY <1>0, <2>1 DEF Flow
    <3>2. CASE j \in 1..Len(inbox) /\ inbox'[j] = inbox[j]
      BY <1>7, <2>1, <3>2 DEF Flow, InOrder
    <3>3. CASE j - Len(inbox) \in 1..n /\ inbox'[j].src = later[j - Len(inbox)]
      BY <2>1, <3>1, <3>3
    <3> QED BY <1>2, <3>2, <3>3
  <2>2. CASE /\ i > Len(inbox) /\ i - Len(inbox) \in 1..n
             /\ inbox'[i].src = later[i - Len(inbox)]
    <3>1. /\ j - Len(inbox) \in 1..n /\ i - Len(inbox) < j - Len(inbox)
          /\ inbox'[j].src = later[j - Len(inbox)]
      <4>1. j \notin 1..Len(inbox)  BY <1>0, <1>7, <2>2
      <4>2. j - Len(inbox) \in 1..n /\ inbox'[j].src = later[j - Len(inbox)]
        BY <1>2, <4>1
      <4> QED BY <1>0, <1>7, <4>2
    <3> QED BY <2>2, <3>1
  <2> QED BY <1>2, <2>1, <2>2
<1>8. InOrder'
  <2>1. \A i, j \in 1..Len(inbox') : i < j => Earlier(inbox'[i].src, inbox'[j].src)
    BY <1>7
  <2>2. ipc' # "idle" =>
          \A i \in 1..Len(inbox') : Earlier(holding'.trigger.src, inbox'[i].src)
    BY <1>0, <1>6 DEF Flow, InOrder
  <2>3. \A h \in running' : \A i \in 1..Len(inbox') : Earlier(h.src, inbox'[i].src)
    BY <1>0, <1>6 DEF Flow, InOrder
  <2>4. ipc' # "idle" => \A h \in running' : Earlier(h.src, holding'.trigger.src)
    BY DEF Flow, InOrder
  <2> QED BY <2>1, <2>2, <2>3, <2>4 DEF InOrder
<1> QED BY <1>3, <1>4, <1>5, <1>8 DEF Flow

LEMMA EmptyFlow ==
    ASSUME inbox' = << >>, ipc' = "idle",
           \A h \in running' : \A s : s = h.src => Given(s)'
    PROVE  Flow'
<1>1. Len(inbox') = 0  OBVIOUS
<1> QED BY <1>1 DEF Flow, InOrder

LEMMA LiftKeepsFlow ==
    ASSUME TypeOK, Shapes, UntappedIsEmpty, EndedIsEmpty, Flow, Lift
    PROVE  Flow'
<1> DEFINE e == Emitted(files[at][read + 1])
           n == Len(e)
           lifted == [k \in DOMAIN e |-> Lifted(e[k], <<Turn, read + 1, k, at>>)]
           later == [k \in 1..n |-> <<Turn, read + 1, k, at>>]
<1>1. /\ n \in Nat /\ cell.interface = "mcap"
      /\ lifted \in Seq(Trigger) /\ Len(lifted) = n
      /\ \A k \in 1..n :
           /\ lifted[k].src = <<Turn, read + 1, k, at>>
           /\ <<Turn, read + 1, k, at>> \in Place
           /\ \A s : s = <<Turn, read + 1, k, at>> => Given(s)' /\ Behind(s)'
      /\ inbox' = IF iface # "ended" THEN inbox \o lifted ELSE inbox
  BY LiftedIsNext
<1>2. Running /\ UNCHANGED <<holding, ipc, running>> /\ passing /\ tail = "runs"
  BY DEF Running, TailStep, Lift, dispatchVars
<1>3. Len(inbox) \in Nat /\ inbox \in Seq(Trigger) /\ read \in Nat
  BY SourceFacts, TypeParts DEF Shapes
<1> HIDE DEF e, n, lifted
<1>4. CASE iface = "ended"
  <2>1. /\ 0 <= Len(inbox) /\ Len(inbox') = Len(inbox) - 0
        /\ \A i \in 1..Len(inbox) - 0 : inbox'[i] = inbox[i + 0]
    BY <1>1, <1>3, <1>4
  <2>2. \A h \in running' : h \in running  BY <1>2
  <2>3. ipc' = "idle" \/ (ipc # "idle" /\ holding' = holding)  BY <1>2
  <2> QED BY <1>2, <2>1, <2>2, <2>3, FlowShrinks
<1>5. CASE iface # "ended"
  <2>1. /\ Len(inbox') = Len(inbox) + n
        /\ \A i \in 1..Len(inbox) : inbox'[i] = inbox[i]
        /\ \A k \in 1..n : inbox'[Len(inbox) + k] = lifted[k]
    <3>1. inbox' = inbox \o lifted /\ lifted \in Seq(Trigger) /\ n = Len(lifted)
      BY <1>1, <1>5
    <3> QED BY <1>3, <3>1
  <2>2. \A k \in 1..n : inbox'[Len(inbox) + k].src = later[k]  BY <1>1, <2>1
  <2>3. \A k \in 1..n : \A s : s = later[k] => Given(s)'  BY <1>1
  <2>4. ASSUME NEW k \in 1..n, NEW s \in Place, Given(s)  PROVE Earlier(s, later[k])
    <3>1. Behind(s)  BY <1>1, <1>2, <2>4 DEF Given
    <3>2. k \in Nat  BY <1>1
    <3> QED BY <1>2, <3>1, <3>2, BehindIsEarlier
  <2>5. \A j, k \in 1..n : j < k => Earlier(later[j], later[k])  BY DEF Earlier
  <2> HIDE DEF later
  <2> QED BY <1>1, <1>2, <2>1, <2>2, <2>3, <2>4, <2>5, FlowGrows
<1> QED BY <1>4, <1>5

LEMMA PublishKeepsFlow ==
    ASSUME TypeOK, Shapes, Flow, NEW b \in Payloads, PublishTrigger(b)
    PROVE  Flow'
<1> DEFINE t == [time |-> b.time, post |-> b.post, log |-> clock, pub |-> clock,
                 src |-> <<0, arrived + 1, 1, 0>>]
           later == [k \in 1..1 |-> <<0, arrived + 1, 1, 0>>]
<1>1. /\ inbox' = Append(inbox, t) /\ arrived' = arrived + 1
      /\ cell.interface = "ros" /\ cell' = cell
      /\ UNCHANGED <<holding, ipc, running>>
  BY DEF PublishTrigger, dispatchVars
<1>2. Running  BY DEF Running, Outside
<1>3. Len(inbox) \in Nat /\ inbox \in Seq(Trigger) /\ arrived \in Nat
  BY SourceFacts, TypeParts, Limits DEF Scalars
<1>4. t.src = <<0, arrived + 1, 1, 0>>  OBVIOUS
<1>5. /\ Len(inbox') = Len(inbox) + 1
      /\ \A i \in 1..Len(inbox) : inbox'[i] = inbox[i]
      /\ inbox'[Len(inbox) + 1] = t
  <2> HIDE DEF t
  <2> QED BY <1>1, <1>3
<1>6. \A k \in 1..1 : k = 1 /\ later[k] = <<0, arrived + 1, 1, 0>>  OBVIOUS
<1>7. \A k \in 1..1 : inbox'[Len(inbox) + k].src = later[k]
  <2> HIDE DEF t, later
  <2> QED BY <1>4, <1>5, <1>6
<1>8. ASSUME NEW s, s = <<0, arrived + 1, 1, 0>>  PROVE Given(s)'
  <2>1. s[1] = 0 /\ s[2] = arrived' /\ arrived' <= arrived'  BY <1>1, <1>3, <1>8
  <2> QED BY <1>1, <2>1 DEF Given
<1>9. ASSUME NEW s \in Place, Given(s)  PROVE Earlier(s, <<0, arrived + 1, 1, 0>>)
  BY <1>1, <1>3, <1>9, PlaceFacts DEF Given, Earlier
<1> HIDE DEF t, later
<1>10. \A k \in 1..1 : \A s : s = later[k] => Given(s)'  BY <1>6, <1>8
<1>11. \A k \in 1..1 : \A s \in Place : Given(s) => Earlier(s, later[k])  BY <1>6, <1>9
<1>12. \A j, k \in 1..1 : j < k => Earlier(later[j], later[k])  OBVIOUS
<1> QED BY <1>1, <1>2, <1>5, <1>7, <1>10, <1>11, <1>12, FlowGrows

LEMMA FlowKept ==
    ASSUME TypeOK, Shapes, UntappedIsEmpty, EndedIsEmpty, Flow, Running
    PROVE  Flow'
<1>0. Len(inbox) \in Nat /\ inbox \in Seq(Trigger)  BY SourceFacts, TypeParts
<1>1. CASE Lift  BY <1>1, LiftKeepsFlow
<1>2. ASSUME NEW b \in Payloads, PublishTrigger(b) PROVE Flow'
  BY <1>2, PublishKeepsFlow
<1>3. CASE Take \/ Skip
  <2>1. inbox # << >> /\ inbox' = Tail(inbox) /\ running' = running /\ ipc = "idle"
    BY <1>3 DEF Take, Skip, dispatchVars
  <2>2. /\ Head(inbox) = inbox[1] /\ 1 <= Len(inbox)
        /\ Len(inbox') = Len(inbox) - 1
        /\ \A i \in 1..Len(inbox) - 1 : inbox'[i] = inbox[i + 1]
    BY <1>0, <2>1
  <2>3. ipc' = "idle" \/ (ipc = "idle" /\ 1 = 1 /\ holding'.trigger = inbox[1])
    BY <1>3, <2>1, <2>2 DEF Take, Skip, dispatchVars
  <2>4. \A h \in running' : h \in running  BY <2>1
  <2> QED BY <2>2, <2>3, <2>4, FlowShrinks
<1>4. CASE /\ inbox' = inbox
           /\ ipc' = "idle" \/ (ipc # "idle" /\ holding' = holding)
           /\ \A h \in running' : \/ h \in running
                                  \/ /\ ipc # "idle" /\ ipc' = "idle"
                                     /\ h.src = holding.trigger.src
  <2>1. /\ 0 <= Len(inbox) /\ Len(inbox') = Len(inbox) - 0
        /\ \A i \in 1..Len(inbox) - 0 : inbox'[i] = inbox[i + 0]
    BY <1>0, <1>4
  <2> QED BY <1>4, <2>1, FlowShrinks
<1>5. CASE InterfaceEnds
  <2>1. inbox' = << >> /\ ipc' = "idle" /\ running' = running
    BY <1>5 DEF InterfaceEnds, Back
  <2>2. \A h \in running' : \A s : s = h.src => Given(s)'
    BY <2>1, SourceFacts, GivenGrows DEF Flow
  <2> QED BY <2>1, <2>2, EmptyFlow
<1>6. \/ UNCHANGED <<inbox, holding, ipc, running>>
      \/ Lift \/ (\E b \in Payloads : PublishTrigger(b)) \/ Take \/ Skip
      \/ Reject \/ Admit \/ Spawn \/ SpawnFails \/ InterfaceEnds
      \/ \E h \in running : Finish(h) \/ Panic(h)
  BY DEF Running, Outside, InterfaceStep, Tick, OpenFile, AppendRecord, Signal,
         TailStep, BeginPass, EndPass, FirstFile, NextFile, TailEnds, SpinEnds, dispatchVars
<1>7. CASE UNCHANGED <<inbox, holding, ipc, running>>  BY <1>4, <1>7
<1>8. CASE Reject \/ SpawnFails  BY <1>4, <1>8 DEF Reject, SpawnFails, Back
<1>9. CASE Admit  BY <1>4, <1>9 DEF Admit
<1>10. CASE Spawn  BY <1>4, <1>10 DEF Spawn, Back
<1>11. ASSUME NEW h \in running, Finish(h) \/ Panic(h)  PROVE Flow'
  BY <1>4, <1>11 DEF Finish, Panic, Gone
<1> QED BY <1>1, <1>2, <1>3, <1>5, <1>6, <1>7, <1>8, <1>9, <1>10, <1>11

-----------------------------------------------------------------------------
(* Permits and handlers: a new handler is none of those there are, for its *)
(* trigger came after theirs.                                              *)
LEMMA PermitsKept ==
    ASSUME TypeOK, Shapes, Flow, PermitsMatch, [Next]_vars
    PROVE  PermitsMatch'
<1> DEFINE spawning(p) == IF p = "spawn" THEN 1 ELSE 0
<1>0. /\ IsFiniteSet(running) /\ Cardinality(running) \in Nat
      /\ permits = Cardinality(running) + spawning(ipc)
      /\ permits <= Limit /\ Limit \in Nat /\ permits \in Nat
  <2>1. IsFiniteSet(running) /\ Cardinality(running) \in Nat
    BY FS_CardinalityType DEF Shapes
  <2> QED BY <2>1, Limits DEF PermitsMatch
<1>1. CASE UNCHANGED <<permits, running>> /\ (ipc = "spawn" <=> ipc' = "spawn")
  BY <1>1 DEF PermitsMatch
<1>2. CASE Admit
  <2>1. permits' = permits + 1 /\ permits < Limit /\ ipc = "gate" /\ ipc' = "spawn"
        /\ running' = running
    BY <1>2 DEF Admit
  <2> QED BY <1>0, <2>1 DEF PermitsMatch
<1>3. CASE Spawn
  <2> DEFINE h == [src |-> holding.trigger.src,
                   end |-> holding.anchor + holding.trigger.post]
  <2>1. permits' = permits /\ ipc = "spawn" /\ ipc' = "idle" /\ running' = running \cup {h}
    BY <1>3 DEF Spawn, Back
  <2>2. h \notin running
    <3>1. h.src = holding.trigger.src  OBVIOUS
    <3>2. h.src \in Place  BY <2>1, <3>1, SourceFacts
    <3>3. ~Earlier(h.src, h.src)  BY <3>2, EarlierOrders
    <3>4. \A g \in running : Earlier(g.src, h.src)  BY <2>1, <3>1 DEF Flow, InOrder
    <3> QED BY <3>3, <3>4
  <2> HIDE DEF h
  <2>3. Cardinality(running') = Cardinality(running) + 1  BY <1>0, <2>1, <2>2, FS_AddElement
  <2> QED BY <1>0, <2>1, <2>3 DEF PermitsMatch
<1>4. CASE SpawnFails
  <2>1. permits' = permits - 1 /\ ipc = "spawn" /\ ipc' = "idle" /\ running' = running
    BY <1>4 DEF SpawnFails, Back, Returned
  <2> QED BY <1>0, <2>1 DEF PermitsMatch
<1>5. CASE InterfaceEnds
  <2>1. permits' = permits - spawning(ipc) /\ ipc' = "idle" /\ running' = running
    BY <1>0, <1>5 DEF InterfaceEnds, Back, Returned
  <2> QED BY <1>0, <2>1 DEF PermitsMatch
<1>6. ASSUME NEW h \in running, Finish(h) \/ Panic(h)  PROVE PermitsMatch'
  <2>1. permits' = permits - 1 /\ running' = running \ {h} /\ ipc' = ipc
    BY <1>6 DEF Finish, Panic, Gone, Returned
  <2>2. Cardinality(running') = Cardinality(running) - 1  BY <1>0, <2>1, FS_RemoveElement
  <2> QED BY <1>0, <2>1, <2>2 DEF PermitsMatch
<1>7. CASE Exit
  <2>1. permits' = 0 /\ running' = {} /\ ipc' = "idle"  BY <1>7 DEF Exit, Back
  <2> QED BY <1>0, <2>1, FS_EmptySet DEF PermitsMatch
<1>8. \/ UNCHANGED <<permits, running>> /\ (ipc = "spawn" <=> ipc' = "spawn")
      \/ Admit \/ Spawn \/ SpawnFails \/ InterfaceEnds \/ Exit
      \/ \E h \in running : Finish(h) \/ Panic(h)
  BY DEF Next, Outside, InterfaceStep, Tick, OpenFile, AppendRecord, PublishTrigger, Signal,
         TailStep, BeginPass, Lift, EndPass, FirstFile, NextFile, TailEnds, SpinEnds, Take, Skip, Reject,
         Restart, Back, dispatchVars, vars
<1> QED BY <1>1, <1>2, <1>3, <1>4, <1>5, <1>6, <1>7, <1>8

-----------------------------------------------------------------------------
(* What has been lifted is what the scans have passed, each once.          *)
SentRises == \A i, j \in 1..Len(sent) : i < j => Earlier(sent[i], sent[j])
IsSent(s) == \E i \in 1..Len(sent) : sent[i] = s
SentScan(n, f) ==
    \A r \in 1..Len(files[f]) : \A k \in 1..Len(files[f][r].triggers) :
        IsSent(<<n, r, k, f>>) <=> r <= Reach(n) /\ ~files[f][r].damaged
SentIsReached ==
    at # 0 => \A n \in 1..Turn, f \in 1..Len(files) : f = ScanOf(n) => SentScan(n, f)

(* The scans are of files that are there.                                  *)
LEMMA ScanPlace ==
    ASSUME TypeOK, Shapes, EndedIsEmpty, at # 0
    PROVE  /\ Len(files) \in Nat /\ Len(scanned) \in Nat /\ Turn = Len(scanned) + 1
           /\ at \in 1..Len(files) /\ Len(files[at]) \in Nat
           /\ Position \in 0..Len(files[at])
           /\ ScanOf(Turn) = at /\ Reach(Turn) = Position
           /\ \A n \in 1..Len(scanned) : /\ n \in 1..Turn /\ n # Turn
                                         /\ ScanOf(n) = scanned[n].file
                                         /\ Reach(n) = scanned[n].upto
           /\ \A n \in 1..Turn : /\ ScanOf(n) \in 1..Len(files)
                                 /\ Len(files[ScanOf(n)]) \in Nat
                                 /\ Reach(n) \in 0..Len(files[ScanOf(n)])
<1>0. Len(files) \in Nat /\ Len(scanned) \in Nat /\ Turn = Len(scanned) + 1
  BY FilesFacts, ScannedFacts
<1>1. at \in 1..Len(files)  BY <1>0, TypeParts, ScanFacts DEF Scanning
<1>2. Len(files[at]) \in Nat  BY <1>1, FileFacts
<1>3. Position \in 0..Len(files[at])
  <2>1. read \in Nat /\ passing \in BOOLEAN  BY DEF Shapes
  <2>2. applied \in 0..Len(files[at]) /\ (passing => read \in applied..Len(files[at]))
    BY TypeParts DEF Scanning
  <2> QED BY <1>2, <2>1, <2>2 DEF Position
<1>4. ScanOf(Turn) = at /\ Reach(Turn) = Position  BY DEF ScanOf, Reach
<1>5. ASSUME NEW n \in 1..Len(scanned)
      PROVE  /\ n \in 1..Turn /\ n # Turn
             /\ ScanOf(n) = scanned[n].file /\ Reach(n) = scanned[n].upto
  <2>1. n \in 1..Turn /\ n # Turn  BY <1>0
  <2> QED BY <2>1 DEF ScanOf, Reach
<1>6. ASSUME NEW n \in 1..Turn, NEW f, f = ScanOf(n)
      PROVE  f \in 1..Len(files) /\ Len(files[f]) \in Nat /\ Reach(n) \in 0..Len(files[f])
  <2>1. CASE n = Turn  BY <1>1, <1>2, <1>3, <1>4, <1>6, <2>1
  <2>2. CASE n # Turn
    <3>1. n \in 1..Len(scanned)  BY <1>0, <2>2
    <3>2. f = scanned[n].file /\ Reach(n) = scanned[n].upto  BY <1>5, <1>6, <3>1
    <3>3. f \in 1..Len(files) /\ Reach(n) \in 0..Len(files[f])
      BY <3>1, <3>2, TypeParts, FilesFacts, ScannedFacts DEF ScannedTyped
    <3> QED BY <3>3, FileFacts
  <2> QED BY <2>1, <2>2
<1> QED BY <1>0, <1>1, <1>2, <1>3, <1>4, <1>5, <1>6

LEMMA PassedIs ==
    ASSUME TypeOK, Shapes, EndedIsEmpty, SucceededIsWhole, at # 0,
           NEW n \in 1..Turn, NEW r \in 1..Len(files[ScanOf(n)])
    PROVE  Passed(n, r) <=> r <= Reach(n)
<1>1. /\ Len(scanned) \in Nat /\ Turn = Len(scanned) + 1
      /\ Len(files[ScanOf(n)]) \in Nat
  BY ScanPlace
<1>2. CASE n = Turn
  <2>1. ~(n < Turn)  BY <1>1, <1>2
  <2> QED BY <1>2, <2>1 DEF Passed, Succeeded, Reach, Position
<1>3. CASE n # Turn
  <2>1. n \in 1..Len(scanned) /\ n < Turn  BY <1>1, <1>3
  <2>2. ScanOf(n) = scanned[n].file /\ Reach(n) = scanned[n].upto  BY <2>1, ScanPlace
  <2>3. Succeeded(n) => r <= Reach(n)
    <3>1. Succeeded(n) => Reach(n) = Len(files[ScanOf(n)])
      BY <2>1, <2>2 DEF SucceededIsWhole
    <3> QED BY <1>1, <3>1
  <2> QED BY <1>3, <2>1, <2>2, <2>3 DEF Passed
<1> QED BY <1>2, <1>3

LEMMA LiftedParts ==
    ASSUME TypeOK, Shapes, EndedIsEmpty, SucceededIsWhole
    PROVE  LiftedOnce <=> SentRises /\ SentIsReached
<1>1. DOMAIN sent = 1..Len(sent)  BY SourceFacts
<1>2. CASE at = 0
  <2>1. Len(<< >>) = 0  OBVIOUS
  <2>2. sent = << >>  BY <1>2 DEF EndedIsEmpty
  <2> QED BY <1>2, <2>1, <2>2 DEF LiftedOnce, SentRises, SentIsReached
<1>3. CASE at # 0
  <2>1. ASSUME NEW n \in 1..Turn, NEW f, f = ScanOf(n)
        PROVE  /\ DOMAIN files[f] = 1..Len(files[f])
               /\ \A r \in 1..Len(files[f]) :
                    DOMAIN files[f][r].triggers = 1..Len(files[f][r].triggers)
    <3>1. f \in 1..Len(files)  BY <1>3, <2>1, ScanPlace
    <3> QED BY <3>1, FileFacts, RecFacts
  <2>2. \A n \in 1..Turn : \A r \in 1..Len(files[ScanOf(n)]) : Passed(n, r) <=> r <= Reach(n)
    BY <1>3, PassedIs
  <2> DEFINE Sent2(n, f) == \A r \in DOMAIN files[f] : \A k \in DOMAIN files[f][r].triggers :
               (\E i \in DOMAIN sent : sent[i] = <<n, r, k, f>>)
                 <=> Passed(n, r) /\ ~files[f][r].damaged
  <2>3. ASSUME NEW n \in 1..Turn, NEW f, f = ScanOf(n)
        PROVE  f \in 1..Len(files) /\ (SentScan(n, f) <=> Sent2(n, f))
    <3>1. /\ DOMAIN files[f] = 1..Len(files[f])
          /\ \A r \in 1..Len(files[f]) :
               DOMAIN files[f][r].triggers = 1..Len(files[f][r].triggers)
      BY <2>1, <2>3
    <3>2. \A r \in 1..Len(files[f]) : Passed(n, r) <=> r <= Reach(n)  BY <2>2, <2>3
    <3>3. \A s : IsSent(s) <=> \E i \in DOMAIN sent : sent[i] = s  BY <1>1 DEF IsSent
    <3>4. SentScan(n, f) <=> Sent2(n, f)  BY <3>1, <3>2, <3>3 DEF SentScan
    <3>5. f \in 1..Len(files)  BY <1>3, <2>3, ScanPlace
    <3> HIDE DEF Sent2
    <3> QED BY <3>4, <3>5
  <2>4. LiftedOnce <=> SentRises /\ \A n \in 1..Turn : Sent2(n, ScanOf(n))
    BY <1>1, <1>3 DEF LiftedOnce, SentRises
  <2> HIDE DEF Sent2
  <2> QED BY <1>3, <2>3, <2>4 DEF SentIsReached
<1> QED BY <1>2, <1>3

(* A step that lifts nothing and moves no scan: records may be added, but  *)
(* behind whatever has been passed, and those are not sent yet.            *)
LEMMA SentStays ==
    ASSUME TypeOK, Shapes, EndedIsEmpty, SentBehind, SentIsReached, FilesGrow, at # 0,
           UNCHANGED <<at, scanned, sent>>, Position' = Position
    PROVE  SentIsReached'
<1>1. /\ Turn' = Turn /\ \A n : Reach(n)' = Reach(n) /\ ScanOf(n)' = ScanOf(n)
      /\ \A s : IsSent(s)' <=> IsSent(s)
  BY DEF Turn, Reach, ScanOf, IsSent
<1>2. ASSUME NEW n \in 1..Turn, NEW f, f = ScanOf(n), NEW r \in 1..Len(files'[f]),
             NEW k \in 1..Len(files'[f][r].triggers), NEW s, s = <<n, r, k, f>>
      PROVE  IsSent(s) <=> r <= Reach(n) /\ ~files'[f][r].damaged
  <2>1. f \in 1..Len(files) /\ Len(files[f]) \in Nat /\ Reach(n) \in 0..Len(files[f])
    BY <1>2, ScanPlace
  <2>2. Len(files'[f]) \in Nat  BY <2>1 DEF FilesGrow
  <2>3. CASE r <= Len(files[f])
    <3>1. r \in 1..Len(files[f])  BY <2>1, <2>2, <2>3
    <3>2. files'[f][r] = files[f][r]  BY <2>1, <3>1 DEF FilesGrow
    <3>3. SentScan(n, f)  BY <1>2, <2>1 DEF SentIsReached
    <3> QED BY <1>2, <3>1, <3>2, <3>3 DEF SentScan
  <2>4. CASE ~(r <= Len(files[f]))
    <3>1. ~(r <= Reach(n))  BY <2>1, <2>2, <2>4
    <3>2. ASSUME IsSent(s)  PROVE FALSE
      <4>1. Behind(s)  BY <3>2 DEF IsSent, SentBehind
      <4>2. s[1] = n /\ s[2] = r  BY <1>2
      <4> QED BY <3>1, <4>1, <4>2 DEF Behind
    <3> QED BY <3>1, <3>2
  <2> QED BY <2>3, <2>4
<1>3. \A n \in 1..Turn : \A f : f = ScanOf(n) => SentScan(n, f)'
  BY <1>1, <1>2 DEF SentScan
<1> QED BY <1>1, <1>3 DEF SentIsReached

(* The next scan has passed and sent nothing yet.                          *)
LEMMA NextKeepsSent ==
    ASSUME TypeOK, Shapes, EndedIsEmpty, SentBehind, SentIsReached, at # 0,
           Len(scanned') = Len(scanned) + 1,
           \A n \in 1..Len(scanned) : scanned'[n] = scanned[n],
           scanned'[Len(scanned) + 1].file = at,
           scanned'[Len(scanned) + 1].upto = applied,
           at' \in 1..Len(files), applied' = 0, ~passing, ~passing',
           UNCHANGED <<files, sent>>
    PROVE  SentIsReached'
<1>0. PICK N : N = Turn + 1  OBVIOUS
<1>1. /\ Len(scanned) \in Nat /\ Turn = Len(scanned) + 1 /\ Turn' = N
      /\ ScanOf(Turn) = at /\ Reach(Turn) = applied
  BY <1>0, ScanPlace DEF Turn, Reach, Position
<1>2. ScanOf(N)' = at' /\ Reach(N)' = 0  BY <1>1 DEF ScanOf, Reach, Position
<1>3. ASSUME NEW n \in 1..Turn  PROVE ScanOf(n)' = ScanOf(n) /\ Reach(n)' = Reach(n)
  <2>1. n # Turn'  BY <1>0, <1>1
  <2>2. ScanOf(n)' = scanned'[n].file /\ Reach(n)' = scanned'[n].upto
    BY <2>1 DEF ScanOf, Reach
  <2>3. CASE n = Turn  BY <1>1, <2>2, <2>3
  <2>4. CASE n # Turn
    <3>1. n \in 1..Len(scanned)  BY <1>1, <2>4
    <3> QED BY <2>2, <3>1, ScanPlace
  <2> QED BY <2>3, <2>4
<1>4. \A s : IsSent(s)' <=> IsSent(s)  BY DEF IsSent
<1>5. ASSUME NEW n \in 1..Turn, NEW f \in 1..Len(files), f = ScanOf(n)  PROVE SentScan(n, f)'
  <2>1. SentScan(n, f)  BY <1>5 DEF SentIsReached
  <2>2. Reach(n)' = Reach(n)  BY <1>3
  <2> QED BY <1>4, <2>1, <2>2 DEF SentScan
<1>6. ASSUME NEW f \in 1..Len(files), f = at'  PROVE SentScan(N, f)'
  <2>1. Len(files[f]) \in Nat  BY FileFacts
  <2>2. \A r \in 1..Len(files[f]) : ~(r <= Reach(N)')  BY <1>2, <2>1
  <2>3. ASSUME NEW r, NEW k, IsSent(<<N, r, k, f>>)  PROVE FALSE
    <3>1. PICK s : s = <<N, r, k, f>>  OBVIOUS
    <3>2. Behind(s)  BY <2>3, <3>1 DEF IsSent, SentBehind
    <3>3. N \in 1..Turn  BY <3>1, <3>2 DEF Behind
    <3> QED BY <1>0, <1>1, <3>3
  <2> QED BY <1>4, <2>2, <2>3 DEF SentScan
<1>7. ASSUME NEW n \in 1..N, NEW f \in 1..Len(files), f = ScanOf(n)'  PROVE SentScan(n, f)'
  <2>1. n \in 1..Turn \/ n = N  BY <1>0, <1>1
  <2> QED BY <1>2, <1>3, <1>5, <1>6, <1>7, <2>1
<1> QED BY <1>1, <1>7 DEF SentIsReached

LEMMA LiftKeepsSent ==
    ASSUME TypeOK, Shapes, UntappedIsEmpty, EndedIsEmpty, SentBehind,
           SentRises, SentIsReached, Lift
    PROVE  SentRises' /\ SentIsReached'
<1> DEFINE rec == files[at][read + 1]
           n == Len(Emitted(rec))
<1>1. /\ n \in Nat /\ Len(sent') = Len(sent) + n
      /\ \A k \in 1..n : sent'[Len(sent) + k] = <<Turn, read + 1, k, at>>
      /\ \A i \in 1..Len(sent) : sent'[i] = sent[i]
  BY LiftedIsNext
<1>2. /\ n = (IF rec.damaged THEN 0 ELSE Len(rec.triggers))
      /\ rec \in Rec /\ read \in Nat /\ read + 1 \in 1..Len(files[at])
  BY TypeParts, LiftFacts
<1>3. /\ UNCHANGED <<at, scanned, applied, passing, files>>
      /\ passing /\ read' = read + 1 /\ Position = read /\ Position' = read + 1
      /\ at # 0
  BY DEF Lift, Position, world, EndedIsEmpty
<1>4. Len(sent) \in Nat /\ \A i \in 1..Len(sent) : sent[i] \in Place  BY SourceFacts
<1> HIDE DEF n, rec
<1>5. ASSUME NEW i \in 1..Len(sent')
      PROVE  \/ i \in 1..Len(sent) /\ sent'[i] = sent[i]
             \/ /\ i > Len(sent) /\ i - Len(sent) \in 1..n
                /\ sent'[i] = <<Turn, read + 1, i - Len(sent), at>>
  <2>1. CASE i \in 1..Len(sent)  BY <1>1, <2>1
  <2>2. CASE i \notin 1..Len(sent)
    <3> DEFINE k == i - Len(sent)
    <3>1. k \in 1..n /\ i = Len(sent) + k /\ i > Len(sent)  BY <1>1, <1>4, <2>2
    <3> HIDE DEF k
    <3>2. sent'[i] = <<Turn, read + 1, k, at>>  BY <1>1, <3>1
    <3> QED BY <3>1, <3>2 DEF k
  <2> QED BY <2>1, <2>2
<1>6. ASSUME NEW i \in 1..Len(sent'), NEW j \in 1..Len(sent'), i < j
      PROVE  Earlier(sent'[i], sent'[j])
  <2>1. CASE j \in 1..Len(sent) /\ sent'[j] = sent[j]
    <3>1. i \in 1..Len(sent)  BY <1>4, <1>6, <2>1
    <3>2. sent'[i] = sent[i]  BY <1>1, <3>1
    <3> QED BY <1>6, <2>1, <3>1, <3>2 DEF SentRises
  <2>2. CASE /\ j > Len(sent) /\ j - Len(sent) \in 1..n
             /\ sent'[j] = <<Turn, read + 1, j - Len(sent), at>>
    <3>1. j - Len(sent) \in Nat  BY <1>1, <2>2
    <3>2. CASE i \in 1..Len(sent) /\ sent'[i] = sent[i]
      <4>1. sent[i] \in Place /\ Behind(sent[i])  BY <1>4, <3>2 DEF SentBehind
      <4> QED BY <1>3, <2>2, <3>1, <3>2, <4>1, BehindIsEarlier
    <3>3. CASE sent'[i] = <<Turn, read + 1, i - Len(sent), at>>
      <4>1. i - Len(sent) < j - Len(sent)  BY <1>1, <1>4, <1>6
      <4> QED BY <2>2, <3>3, <4>1 DEF Earlier
    <3> QED BY <1>5, <3>2, <3>3
  <2> QED BY <1>5, <2>1, <2>2
<1>7. SentRises'  BY <1>6 DEF SentRises
<1>8. /\ Turn' = Turn /\ \A m : ScanOf(m)' = ScanOf(m)
      /\ \A m \in 1..Turn : m # Turn => Reach(m)' = Reach(m)
      /\ Reach(Turn) = read /\ Reach(Turn)' = read + 1 /\ ScanOf(Turn) = at
  BY <1>3 DEF Turn, ScanOf, Reach
<1>9. ASSUME NEW m \in 1..Turn, NEW f, f = ScanOf(m), NEW r \in 1..Len(files[f]),
             NEW k \in 1..Len(files[f][r].triggers),
             NEW s, s = <<m, r, k, f>>
      PROVE  IsSent(s)' <=> r <= Reach(m)' /\ ~files[f][r].damaged
  <2>1. f \in 1..Len(files) /\ Reach(m) \in Nat
    <3>1. f \in 1..Len(files) /\ Len(files[f]) \in Nat /\ Reach(m) \in 0..Len(files[f])
      BY <1>3, <1>9, ScanPlace
    <3> QED BY <3>1
  <2>2. Len(files[f]) \in Nat /\ files[f][r] \in Rec  BY <2>1, FileFacts
  <2>3. Len(files[f][r].triggers) \in Nat  BY <2>2, RecFacts
  <2>4. r <= Reach(m)' <=> r <= Reach(m) \/ (m = Turn /\ r = read + 1)
    <3>1. CASE m = Turn  BY <1>2, <1>8, <2>2, <3>1
    <3>2. CASE m # Turn  BY <1>8, <3>2
    <3> QED BY <3>1, <3>2
  <2>5. IsSent(s)' <=> IsSent(s) \/ (m = Turn /\ r = read + 1 /\ k \in 1..n)
    <3>1. ASSUME IsSent(s)'  PROVE IsSent(s) \/ (m = Turn /\ r = read + 1 /\ k \in 1..n)
      <4>1. PICK i \in 1..Len(sent') : sent'[i] = s  BY <3>1 DEF IsSent
      <4>2. CASE i \in 1..Len(sent) /\ sent'[i] = sent[i]  BY <4>1, <4>2 DEF IsSent
      <4>3. CASE i - Len(sent) \in 1..n /\ sent'[i] = <<Turn, read + 1, i - Len(sent), at>>
        BY <1>9, <4>1, <4>3
      <4> QED BY <1>5, <4>1, <4>2, <4>3
    <3>2. ASSUME IsSent(s)  PROVE IsSent(s)'
      <4>1. PICK i \in 1..Len(sent) : sent[i] = s  BY <3>2 DEF IsSent
      <4>2. i \in 1..Len(sent') /\ sent'[i] = s  BY <1>1, <1>4, <4>1
      <4> QED BY <4>2 DEF IsSent
    <3>3. ASSUME m = Turn, r = read + 1, k \in 1..n  PROVE IsSent(s)'
      <4>1. Len(sent) + k \in 1..Len(sent')  BY <1>1, <1>4, <3>3
      <4>2. sent'[Len(sent) + k] = s  BY <1>1, <1>8, <1>9, <3>3
      <4> QED BY <4>1, <4>2 DEF IsSent
    <3> QED BY <3>1, <3>2, <3>3
  <2>6. IsSent(s) <=> r <= Reach(m) /\ ~files[f][r].damaged
    <3>1. SentScan(m, f)  BY <1>3, <1>9, <2>1 DEF SentIsReached
    <3> QED BY <1>9, <3>1 DEF SentScan
  <2>7. CASE m = Turn /\ r = read + 1
    <3>1. ~(r <= Reach(m))  BY <1>2, <1>8, <2>7
    <3>2. k \in 1..n <=> ~files[f][r].damaged  BY <1>2, <1>8, <1>9, <2>3, <2>7 DEF rec
    <3> QED BY <2>4, <2>5, <2>6, <2>7, <3>1, <3>2
  <2>8. CASE ~(m = Turn /\ r = read + 1)  BY <2>4, <2>5, <2>6, <2>8
  <2> QED BY <2>7, <2>8
<1>10. \A m \in 1..Turn : \A f : f = ScanOf(m) => SentScan(m, f)'
  <2>1. files' = files  BY <1>3
  <2> QED BY <1>9, <2>1 DEF SentScan
<1>11. SentIsReached'  BY <1>3, <1>8, <1>10 DEF SentIsReached
<1> QED BY <1>7, <1>11

(* A run's first scan has passed and sent nothing either.                  *)
LEMMA FirstKeepsSent ==
    ASSUME Shapes, scanned' = << >>, sent' = << >>, applied' = 0, ~passing',
           at' \in 1..Len(files), files' = files
    PROVE  SentIsReached'
<1>1. Len(<< >>) = 0  OBVIOUS
<1>2. Turn' = 1 /\ ScanOf(1)' = at' /\ Reach(1)' = 0
  BY <1>1 DEF Turn, ScanOf, Reach, Position
<1>3. \A s : ~IsSent(s)'  BY <1>1 DEF IsSent
<1>4. Len(files[at']) \in Nat  BY FileFacts
<1>5. ASSUME NEW f, f = at'  PROVE SentScan(1, f)'
  <2>1. Len(files[f]) \in Nat  BY <1>4, <1>5
  <2>2. \A r \in 1..Len(files[f]) : ~(r <= Reach(1)')  BY <1>2, <2>1
  <2> QED BY <1>3, <2>2 DEF SentScan
<1>6. \A n \in 1..1 : n = 1  OBVIOUS
<1> QED BY <1>2, <1>5, <1>6 DEF SentIsReached

LEMMA SentKeeps ==
    ASSUME TypeOK, Shapes, UntappedIsEmpty, EndedIsEmpty, SentBehind,
           SentRises, SentIsReached, EndedIsEmpty', [Next]_vars
    PROVE  SentRises' /\ SentIsReached'
<1>0. FilesGrow /\ Scalars /\ Scanning  BY TypeParts, FilesOnlyGrow
<1>1. CASE at' = 0
  <2>1. Len(<< >>) = 0 /\ sent' = << >>  BY <1>1 DEF EndedIsEmpty
  <2> QED BY <1>1, <2>1 DEF SentRises, SentIsReached
<1>2. CASE Lift  BY <1>2, LiftKeepsSent
<1>3. CASE FirstFile \/ (Restart /\ at' # 0)
  <2>1. at = 0  BY <1>3 DEF FirstFile, Restart, EndedIsEmpty
  <2>2. scanned = << >> /\ sent = << >> /\ applied = 0 /\ ~passing  BY <2>1 DEF EndedIsEmpty
  <2>3. UNCHANGED <<files, scanned, sent, applied, passing>>
    BY <1>3 DEF FirstFile, Restart, world
  <2>4. at' \in DOMAIN files  BY <1>3 DEF FirstFile, Restart
  <2>5. at' \in 1..Len(files)  BY <2>4, FilesFacts
  <2>6. Len(<< >>) = 0  OBVIOUS
  <2>7. SentRises'  BY <2>2, <2>3, <2>6 DEF SentRises
  <2> QED BY <2>2, <2>3, <2>5, <2>7, FirstKeepsSent
<1>4. CASE NextFile
  <2>1. sent' = sent  BY <1>4 DEF NextFile
  <2>2. SentRises'  BY <2>1 DEF SentRises
  <2>3. at # 0  BY <1>4 DEF NextFile
  <2>4. Len(scanned') = Len(scanned) + 1
    <3>1. PICK gone \in BOOLEAN :
            scanned' = Append(scanned, [file |-> at, upto |-> applied, gone |-> gone])
      BY <1>4 DEF NextFile
    <3> DEFINE entry == [file |-> at, upto |-> applied, gone |-> gone]
    <3>2. scanned' = Append(scanned, entry)  BY <3>1
    <3>3. entry \in Scan
      <4>1. at \in Nat  BY <1>0, FilesFacts, ScanFacts
      <4>2. applied \in Nat  BY DEF Shapes
      <4> QED BY <4>1, <4>2 DEF Scan
    <3>4. scanned \in Seq(Scan)  BY DEF Shapes
    <3> HIDE DEF entry
    <3> QED BY <3>2, <3>3, <3>4, AppendOne
  <2>5. scanned' # scanned /\ (scanned' = << >> => at' = 0)
    <3>1. Len(scanned) \in Nat  BY ScannedFacts
    <3>2. Len(<< >>) = 0  OBVIOUS
    <3>3. Len(scanned') # Len(scanned) /\ Len(scanned') # 0  BY <2>4, <3>1
    <3> QED BY <3>2, <3>3
  <2>6. CASE at' = 0  BY <1>1, <2>6
  <2>7. CASE at' # 0
    <3>1. /\ Len(scanned') = Len(scanned) + 1
          /\ \A n \in 1..Len(scanned) : scanned'[n] = scanned[n]
          /\ scanned'[Len(scanned) + 1].file = at
          /\ scanned'[Len(scanned) + 1].upto = applied
          /\ at' \in 1..Len(files) /\ applied' = 0 /\ ~passing /\ ~passing'
          /\ UNCHANGED <<files, sent>>
      BY <1>0, <2>5, <2>7, HistoryGrows
    <3>2. SentIsReached'  BY <2>3, <3>1, NextKeepsSent
    <3> QED BY <2>2, <3>2
  <2> QED BY <2>6, <2>7
<1>5. CASE at # 0 /\ UNCHANGED <<at, scanned, sent>> /\ Position' = Position
  BY <1>0, <1>5, SentStays DEF SentRises
<1>6. CASE at = 0 /\ at' = at  BY <1>1, <1>6
<1>7. CASE TailEnds \/ Exit  BY <1>1, <1>7 DEF TailEnds, Exit, NoScan
<1>8. CASE BeginPass \/ EndPass
  <2>1. UNCHANGED <<at, scanned, sent>> /\ Position' = Position
    BY <1>8 DEF BeginPass, EndPass, Resume, Position
  <2> QED BY <1>5, <1>6, <2>1
<1>9. CASE UNCHANGED scanVars
  <2>1. UNCHANGED <<at, scanned, sent>> /\ Position' = Position
    BY <1>9 DEF scanVars, Position
  <2> QED BY <1>5, <1>6, <2>1
<1>10. \/ Lift \/ FirstFile \/ NextFile \/ Restart \/ BeginPass \/ EndPass \/ TailEnds \/ Exit
       \/ UNCHANGED scanVars
  BY DEF Next, Outside, InterfaceStep, Tick, OpenFile, AppendRecord, PublishTrigger, Signal,
         TailStep, SpinEnds, InterfaceEnds, Take, Skip, Reject, Admit, Spawn,
         SpawnFails, Finish, Panic, Gone, vars
<1> QED BY <1>1, <1>2, <1>3, <1>4, <1>7, <1>8, <1>9, <1>10

-----------------------------------------------------------------------------
(* The invariant, and what follows from it.                                *)
LEMMA ProcessInit == Init => ProcessInvariant
<1> SUFFICES ASSUME Init PROVE ProcessInvariant
  OBVIOUS
<1>1. /\ Len(<< >>) = 0 /\ DOMAIN << >> = {} /\ IsFiniteSet({}) /\ Cardinality({}) = 0
      /\ \A T : << >> \in Seq(T)
  BY FS_EmptySet
<1>2. files = << >> /\ inbox = << >> /\ sent = << >> /\ running = {}  BY DEF Init
<1>3. DOMAIN files = {} /\ Len(files) = 0 /\ Len(inbox) = 0 /\ Len(sent) = 0 /\ at = 0
      /\ inbox \in Seq(Trigger) /\ files \in Seq(Seq(Rec)) /\ sent \in Seq(Place)
      /\ scanned = << >> /\ scanned \in Seq(Scan) /\ DOMAIN scanned = {} /\ Len(scanned) = 0
      /\ IsFiniteSet(running) /\ Cardinality(running) = 0
  BY <1>1, <1>2 DEF Init
<1>4. TypeOK  BY <1>2, <1>3, Limits DEF Init, TypeOK
<1>5. Shapes  BY <1>2, <1>3 DEF Init, Shapes
<1>6. UntappedIsEmpty /\ AllGiven /\ InOrder
  BY <1>2, <1>3 DEF Init, UntappedIsEmpty, AllGiven, InOrder
<1>7. SpawnIsBounded /\ EndedIsEmpty /\ SucceededIsWhole
  BY <1>3 DEF Init, SpawnIsBounded, EndedIsEmpty, SucceededIsWhole
<1>8. PermitsMatch  BY <1>3, Limits DEF Init, PermitsMatch
<1>9. LiftedOnce  BY DEF Init, LiftedOnce
<1> QED BY <1>4, <1>5, <1>6, <1>7, <1>8, <1>9 DEF ProcessInvariant

LEMMA FlowStays ==
    ASSUME TypeOK, Shapes, UntappedIsEmpty, EndedIsEmpty, Flow, SentBehind, EndedIsEmpty',
           [Next]_vars
    PROVE  Flow' /\ SentBehind'
<1>1. CASE Running  BY <1>1, FlowKept, SentKept
<1>2. CASE Exit
  <2>1. inbox' = << >> /\ running' = {} /\ ipc' = "idle" /\ sent' = << >>
    BY <1>2 DEF Exit, Back, NoScan
  <2>2. Len(sent') = 0  BY <2>1
  <2> QED BY <2>1, <2>2, EmptyFlow DEF SentBehind
<1>3. CASE Restart
  <2>1. inbox' = << >> /\ running' = {} /\ ipc' = "idle" /\ sent' = << >>
    BY <1>3 DEF Restart, EndedIsEmpty, dispatchVars
  <2>2. Len(sent') = 0  BY <2>1
  <2> QED BY <2>1, <2>2, EmptyFlow DEF SentBehind
<1>4. CASE UNCHANGED vars
  <2>1. UNCHANGED <<cell, arrived, tail, scanned, at, applied, read, passing, sent, inbox, holding, ipc,
                    running>>
    BY <1>4 DEF vars, world, scanVars, dispatchVars
  <2> QED BY <2>1 DEF Flow, InOrder, SentBehind, Given, Behind, Reach, Turn, Position
<1> QED BY <1>1, <1>2, <1>3, <1>4 DEF Next, Running

LEMMA LiftedPartsStep ==
    TypeOK /\ Shapes /\ EndedIsEmpty /\ SucceededIsWhole
        => (LiftedOnce <=> SentRises /\ SentIsReached)
BY LiftedParts

LEMMA ProcessNext == ProcessInvariant /\ [Next]_vars => ProcessInvariant'
<1> SUFFICES ASSUME ProcessInvariant, [Next]_vars PROVE ProcessInvariant'
  OBVIOUS
<1>1. /\ TypeOK /\ Shapes /\ UntappedIsEmpty /\ SpawnIsBounded /\ EndedIsEmpty
      /\ SucceededIsWhole /\ PermitsMatch /\ LiftedOnce /\ AllGiven /\ InOrder
  BY DEF ProcessInvariant
<1>2. Flow /\ SentBehind /\ SentRises /\ SentIsReached  BY <1>1, FlowParts, LiftedParts
<1>3. TypeOK' /\ Shapes' /\ SpawnIsBounded' /\ EndedIsEmpty'  BY <1>1, TypesKept
<1>4. UntappedIsEmpty' /\ SucceededIsWhole'  BY <1>1, UntappedKept, WholeKept
<1>5. Flow' /\ SentBehind'  BY <1>1, <1>2, <1>3, FlowStays
<1>6. AllGiven' /\ InOrder'  BY <1>5, FlowParts, PTL
<1>7. PermitsMatch'  BY <1>1, <1>2, PermitsKept
<1>8. SentRises' /\ SentIsReached'  BY <1>1, <1>2, <1>3, SentKeeps
<1>9. LiftedOnce'  BY <1>3, <1>4, <1>8, LiftedPartsStep, PTL
<1> QED BY <1>3, <1>4, <1>6, <1>7, <1>9 DEF ProcessInvariant

(* Every reachable state satisfies the inductive invariant.                *)
THEOREM ProcessInvariance == Spec => []ProcessInvariant
BY ProcessInit, ProcessNext, PTL DEF Spec

(* Every variable keeps its type, whatever panics, ends or restarts.       *)
THEOREM ProcessTypeCorrect == Spec => []TypeOK
<1>1. ProcessInvariant => TypeOK  BY DEF ProcessInvariant
<1> QED BY <1>1, ProcessInvariance, PTL

(* The permits of admission are those of the handlers there are, and the   *)
(* one on its way to a handler; never more than MAX_ACTIVE_TRIGGERS.       *)
THEOREM PermitsAreHandlers == Spec => []PermitsMatch
<1>1. ProcessInvariant => PermitsMatch  BY DEF ProcessInvariant
<1> QED BY <1>1, ProcessInvariance, PTL

(* Every scan of a recording lifts each trigger of the undamaged records   *)
(* it passes exactly once, in order, whatever pass faults, is ended early  *)
(* or starts again; and it passes all there are unless the recording is    *)
(* gone, or is left for itself or for an older one.                        *)
THEOREM TriggersLiftOnce == Spec => []LiftedOnce
<1>1. ProcessInvariant => LiftedOnce  BY DEF ProcessInvariant
<1> QED BY <1>1, ProcessInvariance, PTL
=============================================================================
