--------------------------- MODULE DiscoveryProofs --------------------------
(***************************************************************************)
(* Theorems about Discovery, for every value of its constants.             *)
(***************************************************************************)
EXTENDS DiscoveryInv, RankProofs

-----------------------------------------------------------------------------
(* Names, files and what is indexed.                                       *)
LEMMA Limits ==
    /\ MaxFiles \in Nat /\ MaxClock \in Nat /\ MaxFaults \in Nat
    /\ Inodes \subseteq Nat \ {0}
BY DiscoveryAssumption

LEMMA PresentFiles ==
    /\ \A p \in Paths : dir[p] # NoFile => dir[p] \in Present
    /\ \A f \in Present : f # NoFile /\ \E p \in Paths : dir[p] = f
BY DEF Present

LEMMA RangeOfEmpty == ASSUME NEW s, s = << >> PROVE Range(s) = {}
BY DEF Range

LEMMA RangeOfAppend ==
    ASSUME NEW T, NEW s \in Seq(T), NEW x \in T
    PROVE  Range(Append(s, x)) = Range(s) \cup {x}
<1>1. DOMAIN Append(s, x) = 1..(Len(s) + 1) /\ DOMAIN s = 1..Len(s) /\ Len(s) \in Nat
  OBVIOUS
<1>2. \A i \in 1..Len(s) : Append(s, x)[i] = s[i]  OBVIOUS
<1>3. Append(s, x)[Len(s) + 1] = x  OBVIOUS
<1> QED BY <1>1, <1>2, <1>3 DEF Range

LEMMA LogFacts ==
    ASSUME Shapes
    PROVE  /\ Len(log) \in Nat /\ DOMAIN log = 1..Len(log)
           /\ \A i \in DOMAIN log : log[i] \in Files /\ log[i] \in Range(log)
           /\ \A f \in Range(log) : f \in Files /\ \E i \in DOMAIN log : log[i] = f
<1>1. log \in Seq(Files)  BY DEF Shapes
<1>2. Len(log) \in Nat /\ DOMAIN log = 1..Len(log) /\ \A i \in DOMAIN log : log[i] \in Files
  BY <1>1, SeqElements
<1> QED BY <1>2 DEF Range

LEMMA StatFacts ==
    ASSUME Shapes, NEW s \in stats
    PROVE  s.path \in Paths /\ s.file \in Nat /\ s.id \in Nat /\ s.mtime \in Nat
<1>1. s \in Entry  BY DEF Shapes
<1>2. /\ s.path \in Paths /\ s.file \in Files \cup {NoFile} /\ s.id \in Inodes \cup {0}
      /\ s.mtime \in Nat
  BY ONLY <1>1 DEF Entry
<1>3. Inodes \cup {0} \subseteq Nat  BY Limits
<1>4. Files \cup {NoFile} \subseteq Nat  BY DEF Files, NoFile
<1> QED BY <1>2, <1>3, <1>4

(* An entry that tells of no file tells of none there.                     *)
LEMMA StatTells ==
    ASSUME StatsSound, NEW s \in stats, s.file # NoFile
    PROVE  Tells(s)
BY DEF StatsSound

LEMMA OpeningFacts ==
    ASSUME TypeOK, Shapes, opening # << >>
    PROVE  opening[1] \in stats /\ ~walking /\ Len(opening) = 1
BY DEF TypeOK, Shapes

-----------------------------------------------------------------------------
(* Init.                                                                   *)
LEMMA InitHolds == Init => DiscoveryInvariant
<1> SUFFICES ASSUME Init PROVE DiscoveryInvariant
  OBVIOUS
<1>1. /\ log = << >> /\ Range(log) = {} /\ stats = {} /\ opening = << >> /\ ~walking
      /\ mode = "newest" /\ seen = {} /\ held = {} /\ backlog = {} /\ prior = {} /\ created = 0
      /\ todo = {} /\ writer = NoFile /\ listed = 0 /\ walking = FALSE /\ clock = 1
  BY RangeOfEmpty DEF Init, DiskInit, WalkInit
<1>2. Present = {}  BY DEF Init, DiskInit, Present
<1>3. DOMAIN log = {} /\ Len(opening) = 0  BY <1>1
<1>4. TypeOK
  <2>1. dir \in [Paths -> Files \cup {NoFile}]  BY DEF Init, DiskInit
  <2> QED BY <1>1, <1>2, <2>1, Limits DEF TypeOK, NoFile
<1>5. NoneIsExact /\ IndexedOnce /\ IndexedInOrder
  BY <1>1, <1>3 DEF NoneIsExact, IndexedOnce, IndexedInOrder
<1>6. Shapes
  <2>1. ino \in [Files -> Inodes \cup {0}] /\ mtime \in [Files -> Nat] /\ birth \in [Files -> Nat]
    BY DEF Init, DiskInit
  <2>2. log \in Seq(Files) /\ opening \in Seq(Entry)  BY <1>1
  <2>3. stats \subseteq Entry /\ listed \in 0..created /\ Len(opening) \in {0, 1}
    BY <1>1, <1>3
  <2>4. clock \in Nat \ {0}  BY <1>1
  <2>5. walking \in BOOLEAN  BY DEF Init, WalkInit
  <2> QED BY <2>1, <2>2, <2>3, <2>4, <2>5 DEF Shapes
<1>7. DiskSound
  <2>1. Born = {}  BY <1>1 DEF Born
  <2>2. \A p \in Paths : dir[p] = NoFile  BY DEF Init, DiskInit
  <2> QED BY <1>1, <1>2, <2>1, <2>2 DEF DiskSound
<1>8. Modes /\ StatsSound /\ WalkMeets
  BY <1>1 DEF Modes, StatsSound, WalkMeets
<1>9. Startup /\ Remembered /\ NotAgain /\ TurnsKept
  BY <1>1, <1>2 DEF Startup, Remembered, NotAgain, TurnsKept, Started
<1> QED BY <1>4, <1>5, <1>6, <1>7, <1>8, <1>9 DEF DiscoveryInvariant

-----------------------------------------------------------------------------
(* The directory beside the walk.                                          *)

(* A step of the disk that creates no file, and touches the times of the   *)
(* last one only.                                                          *)
LEMMA QuietKeeps ==
    ASSUME DiscoveryInvariant,
           UNCHANGED <<created, ino, birth, walk, seen, held, faults, history>>,
           dir' \in [Paths -> Files \cup {NoFile}],
           \A p \in Paths : dir'[p] = dir[p] \/ dir'[p] = NoFile,
           clock' \in Nat \ {0}, mtime' \in [Files -> Nat],
           \A f \in Born : mtime[f] <= mtime'[f] /\ mtime'[f] <= clock',
           \A f \in Born : f # created => mtime'[f] = mtime[f],
           writer' \in 0..created,
           writer' # NoFile => writer' = created /\ \E p \in Paths : dir'[p] = writer'
    PROVE  DiscoveryInvariant'
<1>0. /\ TypeOK /\ NoneIsExact /\ IndexedOnce /\ IndexedInOrder
      /\ Shapes /\ DiskSound /\ Modes /\ StatsSound /\ WalkMeets
      /\ Startup /\ Remembered /\ NotAgain /\ TurnsKept
  BY DEF DiscoveryInvariant
<1>1. /\ created' = created /\ ino' = ino /\ birth' = birth /\ mode' = mode
      /\ walking' = walking /\ todo' = todo /\ stats' = stats /\ opening' = opening
      /\ seen' = seen /\ held' = held /\ log' = log /\ backlog' = backlog
      /\ adopted' = adopted /\ prior' = prior /\ lost' = lost /\ reused' = reused
      /\ again' = again /\ listed' = listed
  BY DEF walk, history
<1>2. Present' \subseteq Present  BY DEF Present
<1>3. /\ created \in Nat /\ Born' = Born
      /\ \A f \in Born : f \in Nat /\ f <= created /\ f \in Files
      /\ \A f, g \in Born : f < g => f # created
  BY <1>0, <1>1, Limits DEF TypeOK, Born, Files
<1>4. TypeOK'  BY <1>0, <1>1, <1>2 DEF TypeOK
<1>5. NoneIsExact' /\ IndexedOnce'  BY <1>0, <1>1 DEF NoneIsExact, IndexedOnce
<1>6. \A f, g \in Born : f < g /\ InTurn(f, g) =>
        f \in again \/ g \in again \/ mtime'[f] = birth[g]
  BY <1>3 DEF InTurn
<1>7. IndexedInOrder'
  <2>1. \A i \in DOMAIN log : log[i] \in Born  BY <1>0, LogFacts DEF Modes
  <2>2. \A i, j \in DOMAIN log : log[i] > log[j] => mtime'[log[j]] = mtime[log[j]]
    BY <1>3, <2>1
  <2> QED BY <1>0, <1>1, <2>1, <2>2 DEF IndexedInOrder
<1>8. Shapes'  BY <1>0, <1>1 DEF Shapes
<1>9. DiskSound'
  <2>1. Present' \subseteq Born /\ held \subseteq Born  BY <1>0, <1>2 DEF DiskSound
  <2>2. \A p, q \in Paths : dir'[p] = dir'[q] /\ dir'[p] # NoFile => p = q
    BY <1>0 DEF DiskSound
  <2>3. writer' # NoFile => writer' = created /\ writer' \in Present'
    BY DEF Present
  <2>4. \A f \in Born : /\ ino[f] \in Inodes
                        /\ 0 < birth[f] /\ birth[f] <= mtime'[f] /\ mtime'[f] <= clock'
    <3> SUFFICES ASSUME NEW f \in Born
                 PROVE  /\ ino[f] \in Inodes
                        /\ 0 < birth[f] /\ birth[f] <= mtime'[f] /\ mtime'[f] <= clock'
      OBVIOUS
    <3>1. ino[f] \in Inodes /\ 0 < birth[f] /\ birth[f] <= mtime[f]  BY <1>0 DEF DiskSound
    <3>2. birth[f] \in Nat /\ mtime[f] \in Nat /\ mtime'[f] \in Nat
      BY <1>0, <1>3 DEF Shapes
    <3>3. mtime[f] <= mtime'[f] /\ mtime'[f] <= clock'  OBVIOUS
    <3> QED BY <3>1, <3>2, <3>3
  <2>5. \A f, g \in Born : f < g => mtime'[f] <= birth[g]
    BY <1>0, <1>3 DEF DiskSound
  <2> QED BY <1>1, <1>3, <2>1, <2>2, <2>3, <2>4, <2>5 DEF DiskSound
<1>10. Modes'  BY <1>0, <1>1, <1>3 DEF Modes
<1>11. StatsSound'
  <2>1. ASSUME NEW s \in stats, Tells(s)  PROVE Tells(s)'
    <3>1. /\ s.file \in Born /\ s.id = ino[s.file] /\ birth[s.file] <= s.mtime
          /\ s.mtime <= mtime[s.file]
          /\ \A p \in Paths : dir[p] = s.file => p = s.path
          /\ s.file > listed => s.file \in again
      BY <2>1 DEF Tells
    <3>2. s.mtime \in Nat /\ mtime[s.file] \in Nat /\ mtime'[s.file] \in Nat
          /\ mtime[s.file] <= mtime'[s.file]
      BY <1>0, <1>3, <3>1, StatFacts DEF Shapes
    <3>3. s.mtime <= mtime'[s.file]  BY <3>1, <3>2
    <3>4. s.file # NoFile  BY <1>3, <3>1 DEF NoFile, Born
    <3>5. \A p \in Paths : dir'[p] = s.file => p = s.path  BY <3>1, <3>4
    <3> QED BY <1>1, <1>3, <3>1, <3>3, <3>5 DEF Tells
  <2>2. \A s \in stats : Tells(s)' \/ (s.file = NoFile /\ s.id = 0 /\ s.mtime = 0)
    BY <1>0, <2>1 DEF StatsSound
  <2> QED BY <1>0, <1>1, <1>2, <2>2 DEF StatsSound
<1>12. WalkMeets'
  <2>1. NoFile \notin 1..listed  BY DEF NoFile
  <2> QED BY <1>0, <1>1, <2>1 DEF WalkMeets, Missed
<1>13. Startup'  BY <1>0, <1>1, <1>2 DEF Startup, Known
<1>14. Remembered'  BY <1>0, <1>1, <1>2 DEF Remembered, Known
<1>15. NotAgain'  BY <1>0, <1>1, <1>2 DEF NotAgain, Past, Started
<1>16. TurnsKept'
  <2>1. Present \subseteq Born /\ Range(log) \subseteq Born  BY <1>0 DEF DiskSound, Modes
  <2>2. \A s \in stats : s.file \in Born \/ s.file = NoFile  BY <1>0 DEF StatsSound, Tells
  <2>3. mode = "seed" => \A g \in Range(log), f \in Present :
          f < g => f \in backlog \/ g \in again
    BY <1>0 DEF TurnsKept
  <2> DEFINE Turn(f, g) == f \in again \/ g \in again \/ mtime'[f] = birth[g]
  <2>0. \A f, g \in Born : f < g /\ InTurn(f, g) => Turn(f, g)  BY <1>6
  <2>4. Started => \A g \in Range(log), f \in Present :
          f < g => ino[f] \in seen \/ Turn(f, g)
    <3> HIDE DEF Turn
    <3> QED BY <1>0, <2>0, <2>1 DEF TurnsKept
  <2>5. walking /\ mode = "next" => \A g \in Range(log), s \in stats :
          s.file < g => s.id \in seen \/ Turn(s.file, g)
    <3> HIDE DEF Turn
    <3> QED BY <1>0, <2>0, <2>1, <2>2 DEF TurnsKept, StatsSound
  <2>6. ASSUME opening # << >>, mode = "next"
        PROVE  /\ \A g \in Range(log) : opening[1].file < g => Turn(opening[1].file, g)
               /\ \A f \in Present :
                    f < opening[1].file => ino[f] \in seen \/ Turn(f, opening[1].file)
    <3> DEFINE o == opening[1].file
    <3> HIDE DEF Turn
    <3>1. o \in Born  BY <1>0, <2>2, <2>6, OpeningFacts DEF StatsSound
    <3>2. /\ \A g \in Range(log) : o < g => InTurn(o, g)
          /\ \A f \in Present : f < o => ino[f] \in seen \/ InTurn(f, o)
      BY <1>0, <2>6 DEF TurnsKept
    <3> HIDE DEF o
    <3>3. /\ \A g \in Range(log) : o < g => Turn(o, g)
          /\ \A f \in Present : f < o => ino[f] \in seen \/ Turn(f, o)
      BY <2>0, <2>1, <3>1, <3>2
    <3> QED BY <3>3 DEF o
  <2>7. \A f \in Present' : f \in Present  BY <1>2
  <2> QED BY <1>1, <2>3, <2>4, <2>5, <2>6, <2>7 DEF TurnsKept, Started, InTurn
<1> QED BY <1>4, <1>5, <1>7, <1>8, <1>9, <1>10, <1>11, <1>12, <1>13, <1>14, <1>15, <1>16
        DEF DiscoveryInvariant

LEMMA DiskFacts ==
    ASSUME DiscoveryInvariant
    PROVE  /\ created \in Nat /\ created <= MaxFiles /\ Born \subseteq Files
           /\ \A f \in Born : f \in Nat /\ f <= created /\ f # NoFile
           /\ clock \in Nat \ {0} /\ mtime \in [Files -> Nat] /\ birth \in [Files -> Nat]
           /\ dir \in [Paths -> Files \cup {NoFile}] /\ ino \in [Files -> Inodes \cup {0}]
           /\ writer \in 0..created
           /\ writer # NoFile => writer = created /\ writer \in Born /\ writer \in Present
           /\ \A f \in Born : mtime[f] <= clock /\ mtime[f] \in Nat
<1>0. TypeOK /\ Shapes /\ DiskSound  BY DEF DiscoveryInvariant
<1>1. created \in Nat /\ created <= MaxFiles  BY <1>0, Limits DEF TypeOK
<1>2. /\ \A f \in Born : f \in Nat /\ f <= created /\ f # NoFile
      /\ Born \subseteq Files
  BY <1>1, Limits DEF Born, Files, NoFile
<1>3. writer \in 0..created /\ dir \in [Paths -> Files \cup {NoFile}]  BY <1>0 DEF TypeOK
<1>4. /\ clock \in Nat \ {0} /\ mtime \in [Files -> Nat] /\ birth \in [Files -> Nat]
      /\ ino \in [Files -> Inodes \cup {0}]
  BY <1>0 DEF Shapes
<1>5. /\ writer # NoFile => writer = created /\ writer \in Present /\ writer \in Born
      /\ \A f \in Born : mtime[f] <= clock
  BY <1>0 DEF DiskSound
<1> QED BY <1>1, <1>2, <1>3, <1>4, <1>5

LEMMA TickKeeps ==
    ASSUME DiscoveryInvariant, Tick \/ CloseFile \/ UNCHANGED vars
    PROVE  DiscoveryInvariant'
<1>1. /\ UNCHANGED <<created, ino, birth, walk, seen, held, faults, history>>
      /\ dir' = dir /\ mtime' = mtime
      /\ clock' = clock \/ clock' = clock + 1
      /\ writer' = writer \/ writer' = NoFile
  BY DEF Tick, CloseFile, vars, disk
<1>2. clock' \in Nat \ {0} /\ \A f \in Born : mtime[f] <= clock'
  BY <1>1, DiskFacts
<1>3. \A f \in Born : mtime[f] <= mtime[f]  BY DiskFacts
<1>4. /\ writer' \in 0..created
      /\ writer' # NoFile => writer' = created /\ \E p \in Paths : dir[p] = writer'
  BY <1>1, DiskFacts, PresentFiles DEF NoFile
<1>5. dir \in [Paths -> Files \cup {NoFile}] /\ mtime \in [Files -> Nat]  BY DiskFacts
<1> QED BY <1>1, <1>2, <1>3, <1>4, <1>5, QuietKeeps

LEMMA AppendKeeps ==
    ASSUME DiscoveryInvariant, AppendRecord
    PROVE  DiscoveryInvariant'
<1>1. /\ UNCHANGED <<created, ino, birth, walk, seen, held, faults, history>>
      /\ dir' = dir /\ clock' = clock /\ writer' = writer /\ writer # NoFile
      /\ mtime[writer] < clock /\ mtime' = [mtime EXCEPT ![writer] = clock]
  BY DEF AppendRecord
<1>2. /\ writer = created /\ writer \in Files /\ clock \in Nat \ {0}
      /\ \E p \in Paths : dir[p] = writer
  BY <1>1, DiskFacts, PresentFiles
<1>3. /\ mtime' \in [Files -> Nat]
      /\ \A f \in Born : f # created => mtime'[f] = mtime[f]
  BY <1>1, <1>2, DiskFacts
<1>4. \A f \in Born : mtime[f] <= mtime'[f] /\ mtime'[f] <= clock
  <2> SUFFICES ASSUME NEW f \in Born PROVE mtime[f] <= mtime'[f] /\ mtime'[f] <= clock
    OBVIOUS
  <2>1. f \in Files /\ mtime[f] \in Nat /\ mtime[f] <= clock  BY DiskFacts
  <2>2. mtime'[f] = mtime[f] \/ mtime'[f] = clock  BY <1>1, <2>1, DiskFacts
  <2> QED BY <1>2, <2>1, <2>2
<1> QED BY <1>1, <1>2, <1>3, <1>4, DiskFacts, QuietKeeps

LEMMA RemoveKeeps ==
    ASSUME DiscoveryInvariant, NEW p \in Paths, RemoveFile(p)
    PROVE  DiscoveryInvariant'
<1>1. /\ UNCHANGED <<created, ino, birth, walk, seen, held, faults, history>>
      /\ clock' = clock /\ mtime' = mtime /\ writer' = writer
      /\ dir[p] # writer /\ dir' = [dir EXCEPT ![p] = NoFile]
  BY DEF RemoveFile
<1>2. /\ dir' \in [Paths -> Files \cup {NoFile}]
      /\ \A q \in Paths : dir'[q] = dir[q] \/ dir'[q] = NoFile
  BY <1>1, DiskFacts
<1>3. writer # NoFile => \E q \in Paths : dir'[q] = writer
  <2>1. ASSUME writer # NoFile PROVE \E q \in Paths : q # p /\ dir[q] = writer
    BY <1>1, <2>1, DiskFacts, PresentFiles
  <2> QED BY <1>1, <2>1, DiskFacts
<1>4. \A f \in Born : mtime[f] <= mtime[f] /\ mtime[f] <= clock  BY DiskFacts
<1>5. clock \in Nat \ {0} /\ mtime \in [Files -> Nat] /\ writer \in 0..created
      /\ (writer # NoFile => writer = created)
  BY DiskFacts
<1> QED BY <1>1, <1>2, <1>3, <1>4, <1>5, QuietKeeps

(* A new file: the histories say so if its inode number is still known.    *)
LEMMA OpenKeeps ==
    ASSUME DiscoveryInvariant, NEW p \in Paths, NEW i \in Inodes, OpenFile(p, i)
    PROVE  DiscoveryInvariant'
<1> DEFINE f == created + 1
<1>0. /\ TypeOK /\ NoneIsExact /\ IndexedOnce /\ IndexedInOrder
      /\ Shapes /\ DiskSound /\ Modes /\ StatsSound /\ WalkMeets
      /\ Startup /\ Remembered /\ NotAgain /\ TurnsKept
  BY DEF DiscoveryInvariant
<1>1. /\ mode' = mode /\ walking' = walking /\ todo' = todo /\ stats' = stats
      /\ opening' = opening /\ seen' = seen /\ held' = held /\ log' = log /\ backlog' = backlog
      /\ adopted' = adopted /\ prior' = prior /\ lost' = lost /\ again' = again
      /\ listed' = listed /\ clock' = clock
  BY DEF OpenFile, walk
<1>2. /\ writer = NoFile /\ created < MaxFiles /\ dir[p] = NoFile /\ i \in FreeInodes
      /\ created' = f /\ dir' = [dir EXCEPT ![p] = f] /\ ino' = [ino EXCEPT ![f] = i]
      /\ mtime' = [mtime EXCEPT ![f] = clock] /\ birth' = [birth EXCEPT ![f] = clock]
      /\ writer' = f
      /\ reused' = IF i \in prior \cup Ids(stats) THEN reused \cup {f} ELSE reused
  BY DEF OpenFile
<1>3. /\ created \in Nat /\ f \in Files /\ f \notin Born /\ f \in Nat /\ f # NoFile /\ f > created
      /\ f <= MaxFiles
      /\ Born' = Born \cup {f} /\ Born \subseteq Files
      /\ \A g \in Born : g \in Nat /\ g < f /\ g # NoFile
  BY <1>2, DiskFacts, Limits DEF Born, Files, NoFile
<1>4. /\ \A g \in Born : ino'[g] = ino[g] /\ mtime'[g] = mtime[g] /\ birth'[g] = birth[g]
      /\ ino'[f] = i /\ mtime'[f] = clock /\ birth'[f] = clock
      /\ ino' \in [Files -> Inodes \cup {0}] /\ mtime' \in [Files -> Nat]
      /\ birth' \in [Files -> Nat]
  BY <1>2, <1>3, DiskFacts
<1>5. /\ dir' \in [Paths -> Files \cup {NoFile}] /\ dir'[p] = f
      /\ \A q \in Paths : q # p => dir'[q] = dir[q]
  BY <1>2, <1>3, DiskFacts
<1>6. Present' = Present \cup {f} /\ Present \subseteq Born /\ f \notin Present
  <2>1. \A q \in Paths : dir[q] # NoFile => q # p  BY <1>2
  <2>2. Present \subseteq Born  BY <1>0 DEF DiskSound
  <2> QED BY <1>2, <1>3, <1>5, <2>1, <2>2 DEF Present
<1>7. Range(log) \subseteq Born /\ backlog \subseteq Born /\ held \subseteq Born
  BY <1>0 DEF Modes, DiskSound
<1>8. \A s \in stats : s.file \in Born \/ s.file = NoFile
  BY <1>0 DEF StatsSound, Tells
<1>9. reused \subseteq reused' /\ (i \in prior \cup Ids(stats) => f \in reused')
  BY <1>2
<1>10. \A g : Known(g) => Known(g)'  BY <1>1, <1>9 DEF Known
<1> HIDE DEF f
<1>11. TypeOK'
  <2>1. \A g, h \in Present' \cup held : g # h => ino'[g] # ino'[h]
    <3>1. \A g \in Present \cup held : ino[g] # i  BY <1>2 DEF FreeInodes
    <3>2. \A g, h \in Present \cup held : g # h => ino[g] # ino[h]  BY <1>0 DEF TypeOK
    <3>3. Present \cup held \subseteq Born  BY <1>6, <1>7
    <3> QED BY <1>4, <1>6, <3>1, <3>2, <3>3
  <2>2. created' \in 0..MaxFiles /\ writer' \in 0..created'  BY <1>2, <1>3
  <2> QED BY <1>0, <1>1, <1>5, <2>1, <2>2 DEF TypeOK
<1>12. NoneIsExact' /\ IndexedOnce'
  BY <1>0, <1>1, <1>9 DEF NoneIsExact, IndexedOnce
<1>13. IndexedInOrder'
  <2>1. \A j \in DOMAIN log : log[j] \in Born  BY <1>0, <1>7, LogFacts
  <2> QED BY <1>0, <1>1, <1>4, <2>1 DEF IndexedInOrder
<1>14. Shapes'
  <2>1. listed \in 0..created'  BY <1>0, <1>2, <1>3 DEF Shapes
  <2> QED BY <1>0, <1>1, <1>4, <2>1 DEF Shapes, Entry
<1>15. DiskSound'
  <2>1. Present' \subseteq Born' /\ held \subseteq Born'  BY <1>3, <1>6, <1>7
  <2>2. \A q, r \in Paths : dir'[q] = dir'[r] /\ dir'[q] # NoFile => q = r
    <3>1. \A q \in Paths : dir[q] # f  BY <1>3, <1>6, PresentFiles
    <3> QED BY <1>0, <1>5, <3>1 DEF DiskSound
  <2>3. \A g \in Born' : /\ ino'[g] \in Inodes
                         /\ 0 < birth'[g] /\ birth'[g] <= mtime'[g] /\ mtime'[g] <= clock
    <3>1. \A g \in Born : /\ ino'[g] \in Inodes
                          /\ 0 < birth'[g] /\ birth'[g] <= mtime'[g] /\ mtime'[g] <= clock
      BY <1>0, <1>4 DEF DiskSound
    <3>2. ino'[f] \in Inodes /\ 0 < birth'[f] /\ birth'[f] <= mtime'[f] /\ mtime'[f] <= clock
      BY <1>4, DiskFacts
    <3> QED BY <1>3, <3>1, <3>2
  <2>4. \A g, h \in Born' : g < h => mtime'[g] <= birth'[h]
    <3>1. \A g, h \in Born : g < h => mtime'[g] <= birth'[h]  BY <1>0, <1>4 DEF DiskSound
    <3>2. \A g \in Born : mtime'[g] <= birth'[f]  BY <1>4, DiskFacts
    <3>3. \A g \in Born' : ~(f < g)  BY <1>3
    <3> QED BY <1>3, <3>1, <3>2, <3>3
  <2> QED BY <1>1, <1>2, <1>6, <2>1, <2>2, <2>3, <2>4 DEF DiskSound
<1>16. Modes'  BY <1>0, <1>1, <1>3 DEF Modes
<1>17. StatsSound'
  <2>1. ASSUME NEW s \in stats, Tells(s)  PROVE Tells(s)'
    <3>1. s.file \in Born /\ \A q \in Paths : dir[q] = s.file => q = s.path
      BY <2>1 DEF Tells
    <3>2. \A q \in Paths : dir'[q] = s.file => q = s.path  BY <1>3, <1>5, <3>1
    <3> QED BY <1>1, <1>3, <1>4, <2>1, <3>1, <3>2 DEF Tells
  <2>2. \A s \in stats : Tells(s)' \/ (s.file = NoFile /\ s.id = 0 /\ s.mtime = 0)
    BY <1>0, <2>1 DEF StatsSound
  <2>3. \A s \in stats, g \in Present' :
          s.file # NoFile /\ ino'[g] = s.id => g = s.file \/ g \in reused'
    <3>1. \A s \in stats : s.id \in Ids(stats)  BY DEF Ids
    <3> QED BY <1>0, <1>4, <1>6, <1>9, <3>1 DEF StatsSound
  <2> QED BY <1>0, <1>1, <2>2, <2>3 DEF StatsSound
<1>18. WalkMeets'
  <2>1. f \notin 1..listed  BY <1>0, <1>3 DEF Shapes
  <2>2. \A q \in Paths : dir'[q] \in 1..listed => dir'[q] = dir[q]  BY <1>5, <2>1
  <2> QED BY <1>0, <1>1, <2>2 DEF WalkMeets, Missed
<1>19. Startup'
  <2>1. f \notin 1..listed /\ f \notin backlog  BY <1>0, <1>3, <1>7 DEF Shapes
  <2> QED BY <1>0, <1>1, <1>6, <1>10, <2>1 DEF Startup
<1>20. Remembered'
  <2>1. i \in seen => \A g : g = f => Known(g)'  BY <1>0, <1>9 DEF Modes, Known
  <2>2. \A g \in Present' : ino'[g] \in seen =>
          Known(g)' \/ (opening # << >> /\ g = opening[1].file)
    <3>1. \A g \in Present : ino'[g] \in seen =>
            Known(g)' \/ (opening # << >> /\ g = opening[1].file)
      BY <1>0, <1>4, <1>6, <1>10 DEF Remembered
    <3> QED BY <1>4, <1>6, <2>1, <3>1
  <2>3. walking => \A s \in stats : s.id \in seen => Known(s.file)'
    BY <1>0, <1>10 DEF Remembered
  <2> QED BY <1>1, <2>2, <2>3 DEF Remembered, Known
<1>21. NotAgain'
  <2>1. \A g \in Present' \cap Past : g \in Present /\ ino'[g] = ino[g]
    BY <1>3, <1>4, <1>6, <1>7 DEF Past
  <2> QED BY <1>0, <1>1, <2>1 DEF NotAgain, Past, Started
<1>22. TurnsKept'
  <2>2. \A g \in Present', h \in Born : g < h => g \in Present /\ ino'[g] = ino[g]
    BY <1>3, <1>4, <1>6
  <2>3. mode = "seed" => \A g \in Range(log), h \in Present' :
          h < g => h \in backlog \/ g \in again
    BY <1>0, <1>7, <2>2 DEF TurnsKept
  <2> DEFINE Turn(h, g) == h \in again \/ g \in again \/ mtime'[h] = birth'[g]
  <2>4. \A h, g \in Born : InTurn(h, g) => Turn(h, g)  BY <1>4 DEF InTurn
  <2>5. Started => \A g \in Range(log), h \in Present' :
          h < g => ino'[h] \in seen \/ Turn(h, g)
    <3> HIDE DEF Turn
    <3> QED BY <1>0, <1>6, <1>7, <2>2, <2>4 DEF TurnsKept
  <2>6. walking /\ mode = "next" => \A g \in Range(log), s \in stats :
          s.file < g => s.id \in seen \/ Turn(s.file, g)
    <3> HIDE DEF Turn
    <3> QED BY <1>0, <1>7, <1>8, <2>4 DEF TurnsKept, StatsSound
  <2>7. ASSUME opening # << >>, mode = "next"
        PROVE  /\ \A g \in Range(log) : opening[1].file < g => Turn(opening[1].file, g)
               /\ \A h \in Present' :
                    h < opening[1].file => ino'[h] \in seen \/ Turn(h, opening[1].file)
    <3> DEFINE o == opening[1].file
    <3> HIDE DEF Turn
    <3>1. o \in Born  BY <1>0, <1>8, <2>7, OpeningFacts DEF StatsSound
    <3>2. /\ \A g \in Range(log) : o < g => InTurn(o, g)
          /\ \A h \in Present : h < o => ino[h] \in seen \/ InTurn(h, o)
      BY <1>0, <2>7 DEF TurnsKept
    <3> HIDE DEF o
    <3>3. /\ \A g \in Range(log) : o < g => Turn(o, g)
          /\ \A h \in Present' : h < o => ino'[h] \in seen \/ Turn(h, o)
      BY <1>6, <1>7, <2>2, <2>4, <3>1, <3>2
    <3> QED BY <3>3 DEF o
  <2> QED BY <1>1, <2>3, <2>5, <2>6, <2>7 DEF TurnsKept, Started, InTurn
<1> QED BY <1>11, <1>12, <1>13, <1>14, <1>15, <1>16, <1>17, <1>18, <1>19, <1>20, <1>21, <1>22
        DEF DiscoveryInvariant

-----------------------------------------------------------------------------
(* The walk beside the directory: what stays when no file changes.         *)
LEMMA DiskStays ==
    ASSUME UNCHANGED disk
    PROVE  /\ clock' = clock /\ created' = created /\ dir' = dir /\ ino' = ino
           /\ mtime' = mtime /\ birth' = birth /\ writer' = writer
           /\ Present' = Present /\ Born' = Born
BY DEF disk, Present, Born

LEMMA SoundStays ==
    ASSUME DiskSound, UNCHANGED disk, held' \subseteq Born
    PROVE  DiskSound'
BY DiskStays DEF DiskSound

LEMMA OrderStays ==
    ASSUME IndexedOnce, IndexedInOrder, UNCHANGED disk, again \subseteq again',
           UNCHANGED <<log, backlog, adopted>>
    PROVE  IndexedOnce' /\ IndexedInOrder'
BY DiskStays DEF IndexedOnce, IndexedInOrder

LEMMA PruneKeeps ==
    ASSUME DiscoveryInvariant, NEW f \in Files, Prune(f)
    PROVE  DiscoveryInvariant'
<1>0. /\ TypeOK /\ NoneIsExact /\ IndexedOnce /\ IndexedInOrder
      /\ Shapes /\ DiskSound /\ Modes /\ StatsSound /\ WalkMeets
      /\ Startup /\ Remembered /\ NotAgain /\ TurnsKept
  BY DEF DiscoveryInvariant
<1>1. /\ UNCHANGED disk /\ mode' = mode /\ walking' = walking /\ todo' = todo
      /\ stats' = stats /\ opening' = opening /\ seen' = seen /\ log' = log
      /\ backlog' = backlog /\ adopted' = adopted /\ prior' = prior /\ lost' = lost
      /\ reused' = reused /\ again' = again /\ listed' = listed
      /\ held' \subseteq held
  BY DEF Prune, walk, history
<1>2. /\ created' = created /\ dir' = dir /\ ino' = ino /\ mtime' = mtime /\ birth' = birth
      /\ clock' = clock /\ writer' = writer /\ Present' = Present /\ Born' = Born
  BY <1>1, DiskStays
<1>3. TypeOK'  BY <1>0, <1>1, <1>2 DEF TypeOK
<1>4. NoneIsExact' /\ IndexedOnce' /\ IndexedInOrder'
  BY <1>0, <1>1, OrderStays DEF NoneIsExact
<1>5. Shapes' /\ DiskSound'
  BY <1>0, <1>1, <1>2, SoundStays DEF Shapes, DiskSound
<1>6. Modes' /\ WalkMeets'  BY <1>0, <1>1, <1>2 DEF Modes, WalkMeets, Missed
<1>7. StatsSound'  BY <1>0, <1>1, <1>2 DEF StatsSound, Tells
<1>8. Startup' /\ Remembered'  BY <1>0, <1>1, <1>2 DEF Startup, Remembered, Known
<1>9. NotAgain' /\ TurnsKept'
  BY <1>0, <1>1, <1>2 DEF NotAgain, TurnsKept, Past, Started, InTurn
<1> QED BY <1>3, <1>4, <1>5, <1>6, <1>7, <1>8, <1>9 DEF DiscoveryInvariant

LEMMA NextPollKeeps ==
    ASSUME DiscoveryInvariant, NextPoll
    PROVE  DiscoveryInvariant'
<1>0. /\ TypeOK /\ NoneIsExact /\ IndexedOnce /\ IndexedInOrder
      /\ Shapes /\ DiskSound /\ Modes /\ StatsSound /\ WalkMeets
      /\ Startup /\ Remembered /\ NotAgain /\ TurnsKept
  BY DEF DiscoveryInvariant
<1>1. /\ UNCHANGED disk /\ mode = "drained" /\ mode' = "next" /\ walking' = walking
      /\ todo' = todo /\ stats' = stats /\ opening' = opening /\ seen' = seen /\ log' = log
      /\ backlog' = backlog /\ adopted' = adopted /\ prior' = prior /\ lost' = lost
      /\ reused' = reused /\ again' = again /\ listed' = listed /\ held' = held
  BY DEF NextPoll, history
<1>2. /\ created' = created /\ dir' = dir /\ ino' = ino /\ mtime' = mtime /\ birth' = birth
      /\ clock' = clock /\ writer' = writer /\ Present' = Present /\ Born' = Born
  BY <1>1, DiskStays
<1>3. ~walking /\ opening = << >>  BY <1>0, <1>1 DEF Modes
<1>4. TypeOK'  BY <1>0, <1>1, <1>2 DEF TypeOK
<1>5. NoneIsExact' /\ IndexedOnce' /\ IndexedInOrder'
  BY <1>0, <1>1, OrderStays DEF NoneIsExact
<1>6. Shapes' /\ DiskSound'
  BY <1>0, <1>1, <1>2, SoundStays DEF Shapes, DiskSound
<1>7. Modes' /\ WalkMeets'  BY <1>0, <1>1, <1>2, <1>3 DEF Modes, WalkMeets
<1>8. StatsSound'  BY <1>0, <1>1, <1>2, <1>3 DEF StatsSound, Tells
<1>9. Startup' /\ Remembered'  BY <1>0, <1>1, <1>2, <1>3 DEF Startup, Remembered, Known
<1>10. NotAgain' /\ TurnsKept'
  BY <1>0, <1>1, <1>2, <1>3 DEF NotAgain, TurnsKept, Past, Started, InTurn
<1> QED BY <1>4, <1>5, <1>6, <1>7, <1>8, <1>9, <1>10 DEF DiscoveryInvariant

LEMMA ReadDirKeeps ==
    ASSUME DiscoveryInvariant, ReadDir
    PROVE  DiscoveryInvariant'
<1>0. /\ TypeOK /\ NoneIsExact /\ IndexedOnce /\ IndexedInOrder
      /\ Shapes /\ DiskSound /\ Modes /\ StatsSound /\ WalkMeets
      /\ Startup /\ Remembered /\ NotAgain /\ TurnsKept
  BY DEF DiscoveryInvariant
<1>1. /\ UNCHANGED disk /\ mode' = mode /\ mode \in {"newest", "seed", "next"}
      /\ walking' = TRUE /\ ~walking /\ opening = << >> /\ opening' = opening
      /\ todo' = {p \in Paths : dir[p] # NoFile} /\ stats' = {}
      /\ seen' = seen /\ held' = held /\ log' = log /\ adopted' = adopted /\ prior' = prior
      /\ reused' = reused /\ again' = again /\ listed' = created
  BY DEF ReadDir, Idle
<1>2. /\ created' = created /\ dir' = dir /\ ino' = ino /\ mtime' = mtime /\ birth' = birth
      /\ clock' = clock /\ writer' = writer /\ Present' = Present /\ Born' = Born
  BY <1>1, DiskStays
<1>3. ASSUME mode = "newest"
        PROVE  Startup' /\ Remembered' /\ NotAgain' /\ TurnsKept' /\ Modes'
               /\ IndexedOnce' /\ IndexedInOrder'
  <2>1. /\ backlog' = Present /\ lost' = {f \in Present : \E g \in Present : f < g}
        /\ log = << >> /\ seen = {} /\ Range(log) = {}
    BY <1>0, <1>3, RangeOfEmpty DEF ReadDir, Modes
  <2>2. DOMAIN log = {} /\ Present \subseteq Born  BY <1>0, <2>1 DEF DiskSound
  <2>3. Startup'  BY <1>1, <1>2, <1>3, <2>1 DEF Startup
  <2>4. Remembered' /\ NotAgain' /\ TurnsKept'
    BY <1>1, <1>2, <1>3, <2>1 DEF Remembered, NotAgain, TurnsKept, Started
  <2>5. Modes'  BY <1>0, <1>1, <1>2, <1>3, <2>1, <2>2 DEF Modes, Born
  <2>6. IndexedOnce' /\ IndexedInOrder'  BY <1>1, <2>2 DEF IndexedOnce, IndexedInOrder
  <2> QED BY <2>3, <2>4, <2>5, <2>6
<1>4. ASSUME mode # "newest"
        PROVE  Startup' /\ Remembered' /\ NotAgain' /\ TurnsKept' /\ Modes'
               /\ IndexedOnce' /\ IndexedInOrder'
  <2>1. backlog' = backlog /\ lost' = lost  BY <1>4 DEF ReadDir
  <2>2. Startup'  BY <1>0, <1>1, <1>2, <1>4, <2>1 DEF Startup, Known
  <2>3. Remembered'  BY <1>0, <1>1, <1>2, <2>1 DEF Remembered, Known
  <2>4. NotAgain' /\ TurnsKept'
    BY <1>0, <1>1, <1>2, <2>1 DEF NotAgain, TurnsKept, Past, Started, InTurn
  <2>5. Modes'  BY <1>0, <1>1, <1>2, <1>4, <2>1 DEF Modes, Born
  <2>6. IndexedOnce' /\ IndexedInOrder'  BY <1>0, <1>1, <2>1, OrderStays
  <2> QED BY <2>2, <2>3, <2>4, <2>5, <2>6
<1>5. TypeOK'  BY <1>0, <1>1, <1>2 DEF TypeOK
<1>6. NoneIsExact'  BY <1>1 DEF NoneIsExact
<1>7. Shapes'
  <2>1. created \in 0..created  BY <1>0, DiskFacts DEF DiscoveryInvariant
  <2>2. /\ clock' \in Nat \ {0} /\ ino' \in [Files -> Inodes \cup {0}]
        /\ mtime' \in [Files -> Nat] /\ birth' \in [Files -> Nat]
        /\ opening' \in Seq(Entry) /\ Len(opening') \in {0, 1} /\ log' \in Seq(Files)
    BY <1>0, <1>1, <1>2 DEF Shapes
  <2>3. walking' \in BOOLEAN /\ stats' \subseteq Entry  BY <1>1
  <2> QED BY <1>1, <1>2, <2>1, <2>2, <2>3 DEF Shapes, Entry
<1>8. DiskSound'  BY <1>0, <1>1, SoundStays DEF DiskSound
<1>9. StatsSound'  BY <1>1 DEF StatsSound
<1>10. WalkMeets'
  <2>1. NoFile \notin 1..created  BY DEF NoFile
  <2> QED BY <1>1, <1>2, <2>1 DEF WalkMeets
<1> QED BY <1>3, <1>4, <1>5, <1>6, <1>7, <1>8, <1>9, <1>10 DEF DiscoveryInvariant

LEMMA DirFailsKeeps ==
    ASSUME DiscoveryInvariant, DirFails
    PROVE  DiscoveryInvariant'
<1>0. /\ TypeOK /\ NoneIsExact /\ IndexedOnce /\ IndexedInOrder
      /\ Shapes /\ DiskSound /\ Modes /\ StatsSound /\ WalkMeets
      /\ Startup /\ Remembered /\ NotAgain /\ TurnsKept
  BY DEF DiscoveryInvariant
<1>1. /\ UNCHANGED disk /\ mode \in {"newest", "seed", "next"}
      /\ mode' = (IF mode = "next" THEN "drained" ELSE "next")
      /\ walking' = walking /\ ~walking /\ opening = << >> /\ opening' = opening
      /\ todo' = todo /\ stats' = {}
      /\ backlog' = (IF mode = "newest" THEN Present ELSE backlog)
      /\ again' = (IF mode = "next" THEN again ELSE again \cup Present)
      /\ seen' = seen /\ held' = held /\ log' = log /\ adopted' = adopted /\ prior' = prior
      /\ lost' = lost /\ reused' = reused /\ listed' = listed
  BY DEF DirFails, Idle
<1>2. /\ created' = created /\ dir' = dir /\ ino' = ino /\ mtime' = mtime /\ birth' = birth
      /\ clock' = clock /\ writer' = writer /\ Present' = Present /\ Born' = Born
  BY <1>1, DiskStays
<1>3. mode = "newest" => log = << >> /\ DOMAIN log = {}  BY <1>0 DEF Modes
<1>4. TypeOK'  BY <1>0, <1>1, <1>2 DEF TypeOK
<1>5. NoneIsExact'  BY <1>1 DEF NoneIsExact
<1>6. IndexedOnce' /\ IndexedInOrder'
  <2>1. CASE mode = "newest"  BY <1>1, <1>3, <2>1 DEF IndexedOnce, IndexedInOrder
  <2>2. CASE mode # "newest"  BY <1>0, <1>1, <2>2, OrderStays
  <2> QED BY <2>1, <2>2
<1>7. Shapes'  BY <1>0, <1>1, <1>2 DEF Shapes
<1>8. DiskSound'  BY <1>0, <1>1, SoundStays DEF DiskSound
<1>9. Modes'
  <2>1. Present \subseteq Born /\ backlog \subseteq Born  BY <1>0 DEF DiskSound, Modes
  <2> QED BY <1>0, <1>1, <1>2, <2>1 DEF Modes
<1>10. StatsSound' /\ WalkMeets'  BY <1>1 DEF StatsSound, WalkMeets
<1>11. Startup' /\ Remembered'
  BY <1>0, <1>1, <1>2 DEF Startup, Remembered, Known
<1>12. NotAgain'
  <2>1. \A f \in Present \cap (Range(log) \cup backlog') : ino[f] \in seen \/ f \in again'
    BY <1>0, <1>1 DEF NotAgain, Started, Past
  <2> QED BY <1>1, <1>2, <2>1 DEF NotAgain, Past
<1>13. TurnsKept'
  <2>1. \A g \in Range(log), f \in Present : f < g =>
          ino[f] \in seen \/ f \in again' \/ g \in again' \/ mtime[f] = birth[g]
    BY <1>0, <1>1 DEF TurnsKept, Started, InTurn
  <2> QED BY <1>1, <1>2, <2>1 DEF TurnsKept, InTurn
<1> QED BY <1>4, <1>5, <1>6, <1>7, <1>8, <1>9, <1>10, <1>11, <1>12, <1>13 DEF DiscoveryInvariant

(* A name is looked at: what the stat returns, if anything, tells of the   *)
(* file there, or, in the first walk, of none.                             *)
Read(p) == [path |-> p, file |-> dir[p], id |-> ino[dir[p]], mtime |-> mtime[dir[p]]]

LEMMA LookKeeps ==
    ASSUME DiscoveryInvariant, NEW p \in todo, NEW E,
           UNCHANGED <<disk, mode, walking, opening, seen, held, log, backlog, adopted,
                       prior, reused, listed>>,
           todo' = todo \ {p}, stats' = stats \cup E,
           lost \subseteq lost', again \subseteq again',
           \A e \in E : \/ mode = "newest" /\ e = Unknown(p)
                        \/ dir[p] # NoFile /\ e = Read(p),
           \A e \in E : e.file # NoFile /\ dir[p] > listed => dir[p] \in again',
           dir[p] \in 1..listed =>
             \/ \E e \in E : e.file = dir[p]
             \/ IF mode = "newest" THEN dir[p] \in lost' /\ E # {} ELSE dir[p] \in again'
    PROVE  DiscoveryInvariant'
<1>0. /\ TypeOK /\ NoneIsExact /\ IndexedOnce /\ IndexedInOrder
      /\ Shapes /\ DiskSound /\ Modes /\ StatsSound /\ WalkMeets
      /\ Startup /\ Remembered /\ NotAgain /\ TurnsKept
  BY DEF DiscoveryInvariant
<1>1. /\ mode' = mode /\ walking' = walking /\ opening' = opening /\ seen' = seen
      /\ held' = held /\ log' = log /\ backlog' = backlog /\ adopted' = adopted
      /\ prior' = prior /\ reused' = reused /\ listed' = listed
  OBVIOUS
<1>2. /\ created' = created /\ dir' = dir /\ ino' = ino /\ mtime' = mtime /\ birth' = birth
      /\ clock' = clock /\ writer' = writer /\ Present' = Present /\ Born' = Born
  BY DiskStays
<1>3. walking /\ opening = << >> /\ p \in Paths /\ mode # "drained"
  BY <1>0 DEF TypeOK, Modes
<1>4. \A e \in E : /\ e \in Entry /\ e.path = p
                   /\ \/ mode = "newest" /\ e.file = NoFile /\ e.id = 0 /\ e.mtime = 0
                      \/ /\ e.file = dir[p] /\ e.file \in Present /\ e.file # NoFile
                         /\ e.id = ino[dir[p]] /\ e.mtime = mtime[dir[p]]
  <2>1. Unknown(p) \in Entry  BY <1>3 DEF Unknown, Entry
  <2>2. dir[p] # NoFile => Read(p) \in Entry
    BY <1>0, <1>3, PresentFiles DEF Read, Entry, TypeOK, Shapes
  <2> QED BY <1>3, <2>1, <2>2, PresentFiles DEF Unknown, Read
<1>5. \A g : Known(g) => Known(g)'  BY <1>1 DEF Known
<1>6. TypeOK'
  <2>1. \A s \in stats' : s.path \in Paths \ todo'  BY <1>0, <1>3, <1>4 DEF TypeOK
  <2> QED BY <1>0, <1>1, <1>2, <1>3, <2>1 DEF TypeOK
<1>7. NoneIsExact' /\ IndexedOnce' /\ IndexedInOrder'
  BY <1>0, <1>1, <1>3, OrderStays DEF NoneIsExact
<1>8. Shapes'
  <2>1. stats' \subseteq Entry  BY <1>0, <1>4 DEF Shapes
  <2> QED BY <1>0, <1>1, <1>2, <2>1 DEF Shapes, Entry
<1>9. DiskSound' /\ Modes'
  BY <1>0, <1>1, <1>2, SoundStays DEF DiskSound, Modes
<1>10. StatsSound'
  <2>1. \A s \in stats : Tells(s) => Tells(s)'  BY <1>1, <1>2 DEF Tells
  <2>2. \A e \in E : e.file # NoFile => Tells(e)'
    <3> SUFFICES ASSUME NEW e \in E, e.file # NoFile PROVE Tells(e)'
      OBVIOUS
    <3>1. /\ e.file = dir[p] /\ e.file \in Present /\ e.path = p
          /\ e.id = ino[e.file] /\ e.mtime = mtime[e.file]
      BY <1>4
    <3>2. e.file \in Born /\ \A q \in Paths : dir[q] = e.file => q = e.path
      BY <1>0, <1>3, <3>1 DEF DiskSound
    <3>3. birth[e.file] <= e.mtime /\ mtime[e.file] \in Nat /\ e.mtime <= mtime[e.file]
      BY <1>0, <3>1, <3>2, DiskFacts DEF DiskSound
    <3>4. e.file > listed => e.file \in again'  BY <3>1
    <3> QED BY <1>1, <1>2, <3>1, <3>2, <3>3, <3>4 DEF Tells
  <2>3. \A s \in stats' : Tells(s)' \/ (s.file = NoFile /\ s.id = 0 /\ s.mtime = 0)
    BY <1>0, <1>4, <2>1, <2>2 DEF StatsSound
  <2>4. \A s \in stats', f \in Present :
          s.file # NoFile /\ ino[f] = s.id => f = s.file \/ f \in reused
    <3>1. \A e \in E, f \in Present : e.file # NoFile /\ ino[f] = e.id => f = e.file
      BY <1>0, <1>4 DEF TypeOK
    <3> QED BY <1>0, <3>1 DEF StatsSound
  <2>5. mode # "newest" => \A s \in stats' : s.file # NoFile
    BY <1>0, <1>3, <1>4 DEF StatsSound
  <2> QED BY <1>1, <1>2, <1>3, <2>3, <2>4, <2>5 DEF StatsSound
<1>11. WalkMeets'
  <2> SUFFICES ASSUME NEW q \in Paths, dir[q] \in 1..listed
               PROVE  \/ q \in todo' \/ \E s \in stats' : s.file = dir[q]
                      \/ IF mode = "newest" THEN dir[q] \in lost' /\ stats' # {}
                         ELSE dir[q] \in again'
    BY <1>1, <1>2 DEF WalkMeets, Missed
  <2>1. CASE q = p  BY <2>1
  <2>2. CASE q # p
    <3>1. q \in todo \/ (\E s \in stats : s.file = dir[q]) \/ Missed(dir[q])
      BY <1>0, <1>3 DEF WalkMeets
    <3> QED BY <2>2, <3>1 DEF Missed
  <2> QED BY <2>1, <2>2
<1>12. Startup'
  <2>1. mode = "newest" => \A s \in stats' : s.file \in 1..listed => s.file \in backlog
    <3>1. NoFile \notin 1..listed  BY DEF NoFile
    <3> QED BY <1>0, <1>3, <1>4, <3>1 DEF Startup
  <2>2. mode = "seed" => \A s \in stats' : s.file \in backlog => Known(s.file)'
    <3>1. mode = "seed" => \A e \in E : e.file \in backlog => Known(e.file)
      BY <1>0, <1>4 DEF Startup
    <3> QED BY <1>0, <1>3, <1>5, <3>1 DEF Startup
  <2>3. mode = "newest" => /\ \A f \in Present \cap 1..listed : f \in backlog
                           /\ \A f, g \in backlog : f < g => f \in lost'
    BY <1>0, <1>3 DEF Startup
  <2>4. mode = "seed" => \A f \in backlog \cap Present : Known(f)'
    BY <1>0, <1>5 DEF Startup
  <2> QED BY <1>1, <1>2, <1>3, <2>1, <2>2, <2>3, <2>4 DEF Startup, Known
<1>13. Remembered'
  <2>1. \A f \in Present : ino[f] \in seen => Known(f)'
    BY <1>0, <1>3, <1>5 DEF Remembered
  <2>2. \A e \in E : e.id \in seen => Known(e.file)'
    <3>1. mode = "newest" => seen = {}  BY <1>0 DEF Modes
    <3> QED BY <1>4, <2>1, <3>1
  <2>3. \A s \in stats' : s.id \in seen => Known(s.file)'
    BY <1>0, <1>3, <1>5, <2>2 DEF Remembered
  <2> QED BY <1>1, <1>2, <2>1, <2>3 DEF Remembered, Known
<1>14. NotAgain'
  <2>1. Past' = Past /\ Started' = Started  BY <1>1 DEF Past, Started
  <2>2. mode = "next" => \A e \in E : e.file \in Past => e.id \in seen \/ e.file \in again
    BY <1>0, <1>4 DEF NotAgain, Started
  <2>3. mode = "next" => \A s \in stats' : s.file \in Past => s.id \in seen \/ s.file \in again'
    BY <1>0, <1>3, <2>2 DEF NotAgain
  <2>4. Started => \A f \in Present \cap Past : ino[f] \in seen \/ f \in again'
    BY <1>0 DEF NotAgain
  <2> QED BY <1>1, <1>2, <1>3, <2>1, <2>3, <2>4 DEF NotAgain
<1>15. TurnsKept'
  <2>1. \A f, g : InTurn(f, g) => InTurn(f, g)'  BY <1>2 DEF InTurn
  <2>2. mode = "next" => \A g \in Range(log), e \in E :
          e.file < g => e.id \in seen \/ InTurn(e.file, g)
    BY <1>0, <1>4 DEF TurnsKept, Started
  <2>3. mode = "next" => \A g \in Range(log), s \in stats' :
          s.file < g => s.id \in seen \/ InTurn(s.file, g)'
    BY <1>0, <1>3, <2>1, <2>2 DEF TurnsKept
  <2>4. mode = "seed" => \A g \in Range(log), f \in Present :
          f < g => f \in backlog \/ g \in again'
    BY <1>0 DEF TurnsKept
  <2>5. Started => \A g \in Range(log), f \in Present :
          f < g => ino[f] \in seen \/ InTurn(f, g)'
    BY <1>0, <2>1 DEF TurnsKept
  <2> QED BY <1>1, <1>2, <1>3, <2>3, <2>4, <2>5 DEF TurnsKept, Started, InTurn
<1> QED BY <1>6, <1>7, <1>8, <1>9, <1>10, <1>11, <1>12, <1>13, <1>14, <1>15
        DEF DiscoveryInvariant

LEMMA StatKeeps ==
    ASSUME DiscoveryInvariant, NEW p \in Paths, Stat(p)
    PROVE  DiscoveryInvariant'
<1> DEFINE E == IF dir[p] = NoFile THEN (IF mode = "newest" THEN {Unknown(p)} ELSE {})
                ELSE {Read(p)}
<1>1. /\ p \in todo /\ todo' = todo \ {p} /\ stats' = stats \cup E
      /\ again' = IF dir[p] > listed THEN again \cup {dir[p]} ELSE again
      /\ lost' = lost
      /\ UNCHANGED <<disk, mode, walking, opening, seen, held, log, backlog, adopted,
                     prior, reused, listed>>
  BY DEF Stat, WithoutMetadata, Read
<1>2. \A e \in E : \/ mode = "newest" /\ e = Unknown(p)
                   \/ dir[p] # NoFile /\ e = Read(p)
  OBVIOUS
<1>3. dir[p] \in 1..listed => \E e \in E : e.file = dir[p]
  <2>1. dir[p] \in 1..listed => dir[p] # NoFile  BY DEF NoFile
  <2>2. Read(p).file = dir[p]  BY DEF Read
  <2>3. dir[p] # NoFile => Read(p) \in E  OBVIOUS
  <2> QED BY <2>1, <2>2, <2>3
<1> HIDE DEF E
<1>4. lost \subseteq lost' /\ again \subseteq again' /\ (dir[p] > listed => dir[p] \in again')
  BY <1>1
<1> QED BY <1>1, <1>2, <1>3, <1>4, LookKeeps

LEMMA StatFailsKeeps ==
    ASSUME DiscoveryInvariant, NEW p \in Paths, StatFails(p)
    PROVE  DiscoveryInvariant'
<1> DEFINE E == IF mode = "newest" THEN {Unknown(p)} ELSE {}
<1>1. /\ p \in todo /\ todo' = todo \ {p} /\ stats' = stats \cup E
      /\ lost' = (IF mode = "newest" THEN lost \cup {dir[p]} ELSE lost)
      /\ again' = (IF mode = "newest" THEN again ELSE again \cup {dir[p]})
      /\ UNCHANGED <<disk, mode, walking, opening, seen, held, log, backlog, adopted,
                     prior, reused, listed>>
  BY DEF StatFails, WithoutMetadata
<1>2. \A e \in E : mode = "newest" /\ e = Unknown(p)
  OBVIOUS
<1>3. IF mode = "newest" THEN dir[p] \in lost' /\ E # {} ELSE dir[p] \in again'
  BY <1>1
<1>4. lost \subseteq lost' /\ again \subseteq again'  BY <1>1
<1>5. \A e \in E : e.file = NoFile  BY DEF Unknown
<1> HIDE DEF E
<1> QED BY <1>1, <1>2, <1>3, <1>4, <1>5, LookKeeps

(* Only one of the backlog is neither lost nor the newest: the newest by   *)
(* its time is the last created, or as new as that one.                    *)
LEMMA NewestOfBacklog ==
    ASSUME DiscoveryInvariant, walking, todo = {}, mode = "newest",
           NEW s \in stats, \A t \in stats : t.mtime <= s.mtime,
           NEW f \in backlog \cap Present, f \notin lost, f # s.file, s.file <= listed
    PROVE  \E t \in stats : t.file = f /\ t.mtime = s.mtime /\ t # s
<1>0. /\ Shapes /\ DiskSound /\ Modes /\ StatsSound /\ WalkMeets /\ Startup
  BY DEF DiscoveryInvariant
<1>1. PICK p \in Paths : dir[p] = f /\ dir[p] \in 1..listed
  BY <1>0, PresentFiles DEF Modes
<1>2. PICK t \in stats : t.file = f
  BY <1>0, <1>1 DEF WalkMeets, Missed
<1>3. f # NoFile /\ f \in Born  BY <1>0, PresentFiles DEF DiskSound
<1>4. Tells(t)  BY <1>0, <1>2, <1>3, StatTells
<1>5. 0 < birth[f] /\ birth[f] <= t.mtime /\ birth[f] \in Nat /\ t.mtime \in Nat
  BY <1>0, <1>2, <1>3, <1>4, DiskFacts, StatFacts DEF Tells, DiskSound
<1>6. t.mtime <= s.mtime /\ s.mtime \in Nat /\ s.file \in Nat
  BY <1>0, StatFacts
<1>7. s.file # NoFile
  <2>1. s.mtime # 0  BY <1>5, <1>6
  <2>2. Tells(s)  BY <1>0, <2>1 DEF StatsSound
  <2> QED BY <2>2, DiskFacts DEF Tells
<1>8. Tells(s)  BY <1>0, <1>7, StatTells
<1>9. s.file \in Born /\ s.mtime <= mtime[s.file] /\ mtime[s.file] \in Nat
  BY <1>8, DiskFacts DEF Tells
<1>10. s.file \in backlog
  <2>1. s.file \in 1..listed  BY <1>0, <1>9 DEF Born, Shapes
  <2> QED BY <1>0, <2>1 DEF Startup
<1>11. ~(f < s.file)  BY <1>0, <1>10 DEF Startup
<1>12. s.file < f  BY <1>3, <1>6, <1>11, DiskFacts
<1>13. mtime[s.file] <= birth[f]  BY <1>0, <1>3, <1>9, <1>12 DEF DiskSound
<1>14. t.mtime = s.mtime  BY <1>5, <1>6, <1>9, <1>13
<1> QED BY <1>2, <1>14

LEMMA NewestKeeps ==
    ASSUME DiscoveryInvariant, Newest
    PROVE  DiscoveryInvariant'
<1>0. /\ TypeOK /\ NoneIsExact /\ IndexedOnce /\ IndexedInOrder
      /\ Shapes /\ DiskSound /\ Modes /\ StatsSound /\ WalkMeets
      /\ Startup /\ Remembered /\ NotAgain /\ TurnsKept
  BY DEF DiscoveryInvariant
<1>1. /\ UNCHANGED disk /\ mode = "newest" /\ walking /\ todo = {} /\ walking' = FALSE
      /\ todo' = todo /\ stats' = stats /\ seen' = seen /\ held' = held /\ log' = log
      /\ backlog' = backlog /\ adopted' = adopted /\ prior' = prior /\ reused' = reused
      /\ again' = again /\ listed' = listed
  BY DEF Newest, Walked
<1>2. /\ created' = created /\ dir' = dir /\ ino' = ino /\ mtime' = mtime /\ birth' = birth
      /\ clock' = clock /\ writer' = writer /\ Present' = Present /\ Born' = Born
  BY <1>1, DiskStays
<1>3. opening = << >> /\ log = << >> /\ seen = {} /\ Range(log) = {} /\ DOMAIN log = {}
  BY <1>0, <1>1, RangeOfEmpty DEF TypeOK, Modes
<1>4. \/ stats = {} /\ mode' = "next" /\ opening' = << >> /\ lost' = lost
      \/ /\ mode' = "newest" /\ lost \subseteq lost'
         /\ \E s \in stats :
              /\ \A t \in stats : t.mtime <= s.mtime
              /\ opening' = <<s>>
              /\ \A t \in stats : t.mtime = s.mtime /\ t # s => t.file \in lost'
  BY <1>1, <1>3 DEF Newest
<1>5. /\ opening' \in Seq(Entry) /\ Len(opening') \in {0, 1}
      /\ opening' # << >> => opening'[1] \in stats /\ mode' = "newest"
  <2>1. stats \subseteq Entry  BY <1>0 DEF Shapes
  <2>2. ASSUME NEW s \in stats, opening' = <<s>>
        PROVE  opening' \in Seq(Entry) /\ Len(opening') = 1 /\ opening'[1] = s
    BY <2>1, <2>2
  <2>3. CASE opening' = << >>  BY <2>3
  <2>4. CASE opening' # << >>  BY <1>4, <2>2, <2>4
  <2> QED BY <2>3, <2>4
<1>6. TypeOK'  BY <1>0, <1>1, <1>2, <1>4, <1>5 DEF TypeOK
<1>7. NoneIsExact' /\ IndexedOnce' /\ IndexedInOrder'
  BY <1>1, <1>3, <1>4 DEF NoneIsExact, IndexedOnce, IndexedInOrder
<1>8. Shapes'  BY <1>0, <1>1, <1>2, <1>5 DEF Shapes, Entry
<1>9. DiskSound'  BY <1>0, <1>1, SoundStays DEF DiskSound
<1>10. Modes'  BY <1>0, <1>1, <1>2, <1>4, <1>5 DEF Modes
<1>11. StatsSound' /\ WalkMeets'
  BY <1>0, <1>1, <1>2, <1>5 DEF StatsSound, Tells, WalkMeets
<1>12. Startup'
  <2>1. ASSUME mode' = "newest", NEW f \in backlog \cap Present, f \notin lost',
               f # opening'[1].file, ~(opening'[1].file > listed), opening' # << >>
        PROVE  FALSE
    <3>1. PICK s \in stats :
            /\ \A t \in stats : t.mtime <= s.mtime
            /\ opening' = <<s>>
            /\ \A t \in stats : t.mtime = s.mtime /\ t # s => t.file \in lost'
      BY <1>4, <2>1
    <3>2. opening'[1] = s  BY <3>1
    <3>3. s.file <= listed  BY <1>0, <2>1, <3>2, StatFacts DEF Shapes, TypeOK
    <3>4. f \notin lost  BY <1>4, <2>1
    <3>5. \E t \in stats : t.file = f /\ t.mtime = s.mtime /\ t # s
      BY <1>1, <2>1, <3>1, <3>2, <3>3, <3>4, NewestOfBacklog
    <3> QED BY <2>1, <3>1, <3>5
  <2>2. /\ \A f \in Present \cap 1..listed : f \in backlog
        /\ \A s \in stats : s.file \in 1..listed => s.file \in backlog
        /\ \A f, g \in backlog : f < g => f \in lost'
    BY <1>0, <1>1, <1>4 DEF Startup
  <2>3. mode' # "seed"  BY <1>4
  <2> QED BY <1>1, <1>2, <2>1, <2>2, <2>3 DEF Startup
<1>13. Remembered'  BY <1>1, <1>3 DEF Remembered
<1>14. NotAgain'
  <2>1. ASSUME stats = {}, NEW f \in Present \cap backlog  PROVE FALSE
    <3>1. PICK p \in Paths : dir[p] = f /\ dir[p] \in 1..listed
      BY <1>0, <1>1, PresentFiles DEF Modes
    <3> QED BY <1>0, <1>1, <2>1, <3>1 DEF WalkMeets, Missed
  <2> QED BY <1>1, <1>2, <1>3, <1>4, <1>5, <2>1 DEF NotAgain, Past, Started
<1>15. TurnsKept'
  BY <1>1, <1>2, <1>3, <1>4, <1>5 DEF TurnsKept, Started
<1> QED BY <1>6, <1>7, <1>8, <1>9, <1>10, <1>11, <1>12, <1>13, <1>14, <1>15
        DEF DiscoveryInvariant

(* After a complete walk, but for the first: what it met has an inode      *)
(* number of its own, and nothing that was there at the listing is missing. *)
LEMMA WalkComplete ==
    ASSUME DiscoveryInvariant, walking, todo = {}, mode # "newest"
    PROVE  /\ \A s \in stats : Tells(s) /\ s.file \in Born /\ s.id \in Inodes
           /\ \A s \in stats, f \in Present : ino[f] = s.id => f = s.file \/ f \in reused
           /\ \A f \in Present \cap 1..listed :
                f \in again \/ \E s \in stats : s.file = f /\ s.id = ino[f]
<1>0. /\ Shapes /\ DiskSound /\ StatsSound /\ WalkMeets
  BY DEF DiscoveryInvariant
<1>1. \A s \in stats : s.file # NoFile /\ Tells(s)
  BY <1>0, StatTells DEF StatsSound
<1>2. \A s \in stats : s.file \in Born /\ s.id = ino[s.file] /\ s.id \in Inodes
  BY <1>0, <1>1 DEF Tells, DiskSound
<1>3. \A s \in stats, f \in Present : ino[f] = s.id => f = s.file \/ f \in reused
  BY <1>0, <1>1 DEF StatsSound
<1>4. ASSUME NEW f \in Present \cap 1..listed
      PROVE  f \in again \/ \E s \in stats : s.file = f /\ s.id = ino[f]
  <2>1. PICK p \in Paths : dir[p] = f  BY PresentFiles
  <2>2. Missed(f) \/ \E s \in stats : s.file = f  BY <1>0, <2>1 DEF WalkMeets
  <2> QED BY <1>2, <2>2 DEF Missed
<1> QED BY <1>1, <1>2, <1>3, <1>4

LEMMA SeededKeeps ==
    ASSUME DiscoveryInvariant, Seeded
    PROVE  DiscoveryInvariant'
<1>0. /\ TypeOK /\ NoneIsExact /\ IndexedOnce /\ IndexedInOrder
      /\ Shapes /\ DiskSound /\ Modes /\ StatsSound /\ WalkMeets
      /\ Startup /\ Remembered /\ NotAgain /\ TurnsKept
  BY DEF DiscoveryInvariant
<1>1. /\ UNCHANGED disk /\ mode = "seed" /\ walking /\ todo = {} /\ walking' = FALSE
      /\ mode' = "next" /\ opening' = opening /\ seen' = Ids(stats) /\ prior' = Ids(stats)
      /\ lost' = lost \cup ({s.file : s \in stats} \ backlog)
      /\ todo' = todo /\ stats' = stats /\ held' = held /\ log' = log
      /\ backlog' = backlog /\ adopted' = adopted /\ reused' = reused
      /\ again' = again /\ listed' = listed
  BY DEF Seeded, Walked
<1>2. /\ created' = created /\ dir' = dir /\ ino' = ino /\ mtime' = mtime /\ birth' = birth
      /\ clock' = clock /\ writer' = writer /\ Present' = Present /\ Born' = Born
  BY <1>1, DiskStays
<1>3. opening = << >>  BY <1>0, <1>1 DEF TypeOK
<1>4. /\ \A s \in stats : Tells(s) /\ s.file \in Born /\ s.id \in Inodes /\ s.id \in Ids(stats)
      /\ \A s \in stats, f \in Present : ino[f] = s.id => f = s.file \/ f \in reused
      /\ \A f \in Present \cap 1..listed : f \in again \/ ino[f] \in Ids(stats)
  BY <1>1, WalkComplete DEF Ids
<1>5. TypeOK'
  <2>1. Ids(stats) \subseteq Inodes  BY <1>4 DEF Ids
  <2> QED BY <1>0, <1>1, <1>2, <1>3, <2>1 DEF TypeOK
<1>6. NoneIsExact' /\ IndexedOnce' /\ IndexedInOrder'
  BY <1>0, <1>1, OrderStays DEF NoneIsExact
<1>7. Shapes'  BY <1>0, <1>1, <1>2 DEF Shapes, Entry
<1>8. DiskSound'  BY <1>0, <1>1, SoundStays DEF DiskSound
<1>9. Modes'  BY <1>0, <1>1, <1>2, <1>3 DEF Modes
<1>10. StatsSound' /\ WalkMeets'
  BY <1>0, <1>1, <1>2, <1>3 DEF StatsSound, Tells, WalkMeets
<1>11. Startup'  BY <1>1 DEF Startup
<1>12. Remembered'
  <2> SUFFICES ASSUME NEW f \in Present, ino[f] \in Ids(stats)
               PROVE  f \in Range(log) \cup lost' \cup reused
    BY <1>1, <1>2 DEF Remembered, Known
  <2>1. PICK s \in stats : s.id = ino[f]  BY DEF Ids
  <2>2. f = s.file \/ f \in reused  BY <1>4, <2>1
  <2>3. s.file \in backlog => Known(s.file)  BY <1>0, <1>1 DEF Startup
  <2>4. s.file \notin backlog => s.file \in lost'  BY <1>1
  <2> QED BY <1>1, <2>2, <2>3, <2>4 DEF Known
<1>13. \A f \in Present \cap Past : f \in again \/ ino[f] \in Ids(stats)
  BY <1>0, <1>1, <1>4 DEF Modes, Past
<1>14. NotAgain'  BY <1>1, <1>2, <1>3, <1>13 DEF NotAgain, Past
<1>15. TurnsKept'
  <2>1. \A g \in Range(log), f \in Present :
          f < g => ino[f] \in Ids(stats) \/ InTurn(f, g)
    BY <1>0, <1>1, <1>13 DEF TurnsKept, Past, InTurn
  <2> QED BY <1>1, <1>2, <1>3, <2>1 DEF TurnsKept, InTurn
<1> QED BY <1>5, <1>6, <1>7, <1>8, <1>9, <1>10, <1>11, <1>12, <1>14, <1>15
        DEF DiscoveryInvariant

(* What is forgotten after a walk is not there any more, or excepted.      *)
LEMMA ForgottenIsGone ==
    ASSUME DiscoveryInvariant, walking, todo = {}, mode = "next"
    PROVE  /\ Retained \subseteq Ids(stats) /\ Retained \subseteq seen
           /\ \A f \in Present \cap Past : ino[f] \in Retained \/ f \in again
           /\ \A g \in Range(log), f \in Present :
                f < g => ino[f] \in Retained \/ InTurn(f, g)
<1>0. /\ TypeOK /\ Shapes /\ DiskSound /\ Modes /\ NotAgain /\ TurnsKept
  BY DEF DiscoveryInvariant
<1>1. \A f \in Present \cap 1..listed : f \in again \/ ino[f] \in Ids(stats)
  BY WalkComplete DEF Ids
<1>2. Past \subseteq 1..listed /\ Range(log) \subseteq 1..listed  BY <1>0 DEF Modes, Past
<1>3. \A f \in Present \cap Past : ino[f] \in Retained \/ f \in again
  BY <1>0, <1>1, <1>2 DEF NotAgain, Started, Retained
<1>4. ASSUME NEW g \in Range(log), NEW f \in Present, f < g
      PROVE  ino[f] \in Retained \/ InTurn(f, g)
  <2>1. g \in 1..listed /\ f \in Born /\ listed \in 0..created
    BY <1>0, <1>2 DEF Shapes, DiskSound
  <2>2. f \in 1..listed  BY <1>4, <2>1, DiskFacts DEF Born
  <2>3. ino[f] \in seen \/ InTurn(f, g)  BY <1>0, <1>4 DEF TurnsKept, Started
  <2> QED BY <1>1, <2>2, <2>3 DEF Retained, InTurn
<1> QED BY <1>3, <1>4 DEF Retained

LEMMA YieldKeeps ==
    ASSUME DiscoveryInvariant, Yield
    PROVE  DiscoveryInvariant'
<1>0. /\ TypeOK /\ NoneIsExact /\ IndexedOnce /\ IndexedInOrder
      /\ Shapes /\ DiskSound /\ Modes /\ StatsSound /\ WalkMeets
      /\ Startup /\ Remembered /\ NotAgain /\ TurnsKept
  BY DEF DiscoveryInvariant
<1>1. /\ UNCHANGED disk /\ mode = "next" /\ walking /\ todo = {} /\ walking' = FALSE
      /\ mode' = mode /\ prior' = Ids(stats) /\ lost' = lost
      /\ todo' = todo /\ stats' = stats /\ held' = held /\ log' = log
      /\ backlog' = backlog /\ adopted' = adopted /\ reused' = reused
      /\ again' = again /\ listed' = listed
  BY DEF Yield, Walked
<1>2. /\ created' = created /\ dir' = dir /\ ino' = ino /\ mtime' = mtime /\ birth' = birth
      /\ clock' = clock /\ writer' = writer /\ Present' = Present /\ Born' = Born
  BY <1>1, DiskStays
<1>3. opening = << >>  BY <1>0, <1>1 DEF TypeOK
<1>4. PICK s \in Candidates : First(s) /\ seen' = Retained \cup {s.id} /\ opening' = <<s>>
  BY DEF Yield, SeenWith
<1>5. s \in stats /\ s.id \notin seen  BY DEF Candidates
<1>6. /\ Tells(s) /\ s.file \in Born /\ s.id \in Inodes /\ s.file # NoFile
      /\ s.file \in Nat /\ s.id \in Ids(stats)
      /\ \A f \in Present : ino[f] = s.id => f = s.file \/ f \in reused
  BY <1>1, <1>5, WalkComplete, DiskFacts DEF Ids
<1>7. /\ Retained \subseteq Ids(stats) /\ Retained \subseteq seen
      /\ \A f \in Present \cap Past : ino[f] \in Retained \/ f \in again
      /\ \A g \in Range(log), f \in Present :
           f < g => ino[f] \in Retained \/ InTurn(f, g)
  BY <1>1, ForgottenIsGone
<1>8. opening' \in Seq(Entry) /\ Len(opening') = 1 /\ opening'[1] = s /\ opening' # << >>
  <2>1. s \in Entry  BY <1>0, <1>5 DEF Shapes
  <2> QED BY <1>4, <2>1
<1>9. TypeOK'
  <2>1. seen' \subseteq Inodes  BY <1>0, <1>4, <1>6, <1>7 DEF TypeOK
  <2> QED BY <1>0, <1>1, <1>2, <1>5, <1>8, <2>1 DEF TypeOK
<1>10. NoneIsExact' /\ IndexedOnce' /\ IndexedInOrder'
  BY <1>0, <1>1, OrderStays DEF NoneIsExact
<1>11. Shapes'  BY <1>0, <1>1, <1>2, <1>8 DEF Shapes, Entry
<1>12. DiskSound'  BY <1>0, <1>1, SoundStays DEF DiskSound
<1>13. Modes'  BY <1>0, <1>1, <1>2, <1>4, <1>6, <1>7 DEF Modes
<1>14. StatsSound' /\ WalkMeets'
  BY <1>0, <1>1, <1>2, <1>6, <1>8 DEF StatsSound, Tells, WalkMeets
<1>15. Startup'  BY <1>1 DEF Startup
<1>16. Remembered'
  <2>1. \A f \in Present : ino[f] \in seen => Known(f)  BY <1>0, <1>3 DEF Remembered
  <2>2. \A f \in Present : ino[f] \in seen' => Known(f) \/ f = s.file
    BY <1>4, <1>6, <1>7, <2>1 DEF Known
  <2> QED BY <1>1, <1>2, <1>8, <2>2 DEF Remembered, Known
<1>17. NotAgain'
  <2>1. s.file \in Past => s.file \in again  BY <1>0, <1>1, <1>5 DEF NotAgain
  <2> QED BY <1>1, <1>2, <1>4, <1>7, <1>8, <2>1 DEF NotAgain, Past, Started
<1>18. TurnsKept'
  <2>1. \A g \in Range(log) : s.file < g => InTurn(s.file, g)
    BY <1>0, <1>1, <1>5 DEF TurnsKept
  <2>2. ASSUME NEW f \in Present, f < s.file
        PROVE  ino[f] \in Retained \/ InTurn(f, s.file)
    <3>1. s.file > listed => s.file \in again  BY <1>6 DEF Tells
    <3>2. f \in Born  BY <1>0 DEF DiskSound
    <3>3. ASSUME ~(s.file > listed), f \notin again  PROVE ino[f] \in Retained \/ InTurn(f, s.file)
      <4>1. f \in 1..listed
        BY <1>0, <1>6, <2>2, <3>2, <3>3, DiskFacts DEF Born, Shapes
      <4>2. PICK t \in stats : t.file = f /\ t.id = ino[f] /\ Tells(t)
        BY <1>1, <3>3, <4>1, WalkComplete
      <4>3. CASE t.id \in seen
        BY <4>2, <4>3 DEF Retained, Ids
      <4>4. CASE t.id \notin seen
        <5>1. s.mtime <= t.mtime  BY <1>4, <4>4 DEF First, Candidates
        <5>2. birth[s.file] <= s.mtime /\ t.mtime <= mtime[f]  BY <1>6, <4>2 DEF Tells
        <5>3. mtime[f] <= birth[s.file]  BY <1>0, <1>6, <2>2, <3>2 DEF DiskSound
        <5>4. s.mtime \in Nat /\ t.mtime \in Nat /\ birth[s.file] \in Nat /\ mtime[f] \in Nat
          BY <1>0, <1>5, <1>6, <3>2, DiskFacts, StatFacts
        <5>5. mtime[f] = birth[s.file]  BY <5>1, <5>2, <5>3, <5>4
        <5> QED BY <5>5 DEF InTurn
      <4> QED BY <4>3, <4>4
    <3> QED BY <3>1, <3>3 DEF InTurn
  <2> QED BY <1>1, <1>2, <1>4, <1>7, <1>8, <2>1, <2>2 DEF TurnsKept, Started, InTurn
<1> QED BY <1>9, <1>10, <1>11, <1>12, <1>13, <1>14, <1>15, <1>16, <1>17, <1>18
        DEF DiscoveryInvariant

LEMMA NoneLeftKeeps ==
    ASSUME DiscoveryInvariant, NoneLeft
    PROVE  DiscoveryInvariant'
<1>0. /\ TypeOK /\ NoneIsExact /\ IndexedOnce /\ IndexedInOrder
      /\ Shapes /\ DiskSound /\ Modes /\ StatsSound /\ WalkMeets
      /\ Startup /\ Remembered /\ NotAgain /\ TurnsKept
  BY DEF DiscoveryInvariant
<1>1. /\ UNCHANGED disk /\ mode = "next" /\ walking /\ todo = {} /\ walking' = FALSE
      /\ mode' = "drained" /\ prior' = Ids(stats) /\ lost' = lost /\ seen' = Retained
      /\ Candidates = {} /\ opening' = opening
      /\ todo' = todo /\ stats' = stats /\ held' = held /\ log' = log
      /\ backlog' = backlog /\ adopted' = adopted /\ reused' = reused
      /\ again' = again /\ listed' = listed
  BY DEF NoneLeft, Walked
<1>2. /\ created' = created /\ dir' = dir /\ ino' = ino /\ mtime' = mtime /\ birth' = birth
      /\ clock' = clock /\ writer' = writer /\ Present' = Present /\ Born' = Born
  BY <1>1, DiskStays
<1>3. opening = << >>  BY <1>0, <1>1 DEF TypeOK
<1>4. /\ Retained \subseteq Ids(stats) /\ Retained \subseteq seen
      /\ \A f \in Present \cap Past : ino[f] \in Retained \/ f \in again
      /\ \A g \in Range(log), f \in Present :
           f < g => ino[f] \in Retained \/ InTurn(f, g)
  BY <1>1, ForgottenIsGone
<1>5. TypeOK'  BY <1>0, <1>1, <1>2, <1>3, <1>4 DEF TypeOK
<1>6. NoneIsExact'
  <2>1. \A s \in stats : s.id \in seen  BY <1>1 DEF Candidates
  <2>2. \A s \in stats : Known(s.file)  BY <1>0, <1>1, <2>1 DEF Remembered
  <2> QED BY <1>1, <2>2 DEF NoneIsExact, Known
<1>7. IndexedOnce' /\ IndexedInOrder'  BY <1>0, <1>1, OrderStays
<1>8. Shapes' /\ DiskSound'
  BY <1>0, <1>1, <1>2, SoundStays DEF Shapes, Entry, DiskSound
<1>9. Modes'  BY <1>0, <1>1, <1>2, <1>3, <1>4 DEF Modes
<1>10. StatsSound' /\ WalkMeets'
  BY <1>0, <1>1, <1>2, <1>3 DEF StatsSound, Tells, WalkMeets
<1>11. Startup'  BY <1>1 DEF Startup
<1>12. Remembered'  BY <1>0, <1>1, <1>2, <1>3, <1>4 DEF Remembered, Known
<1>13. NotAgain'  BY <1>1, <1>2, <1>3, <1>4 DEF NotAgain, Past
<1>14. TurnsKept'  BY <1>1, <1>2, <1>3, <1>4 DEF TurnsKept, InTurn
<1> QED BY <1>5, <1>6, <1>7, <1>8, <1>9, <1>10, <1>11, <1>12, <1>13, <1>14
        DEF DiscoveryInvariant

-----------------------------------------------------------------------------
(* The tail opens what was yielded, by its name.                           *)
Now == dir[opening[1].path]

LEMMA YieldedFacts ==
    ASSUME DiscoveryInvariant, opening # << >>
    PROVE  /\ ~walking /\ mode \in {"newest", "next"}
           /\ Now = NoFile \/ Now \in Present
           /\ \A f \in Present : f = opening[1].file => f = Now
           /\ mode = "newest" => log = << >> /\ Range(log) = {} /\ Len(log) = 0
           /\ opening[1].file # NoFile => Tells(opening[1])
<1>0. TypeOK /\ Shapes /\ DiskSound /\ Modes /\ StatsSound  BY DEF DiscoveryInvariant
<1>1. opening[1] \in stats /\ ~walking  BY <1>0, OpeningFacts
<1>2. opening[1].path \in Paths  BY <1>0, <1>1, StatFacts
<1>3. Now = NoFile \/ Now \in Present  BY <1>2, PresentFiles DEF Now
<1>4. opening[1].file # NoFile => Tells(opening[1])  BY <1>0, <1>1, StatTells
<1>5. ASSUME NEW f \in Present, f = opening[1].file  PROVE f = Now
  <2>1. Tells(opening[1])  BY <1>4, <1>5, PresentFiles
  <2>2. PICK p \in Paths : dir[p] = f  BY PresentFiles
  <2>3. p = opening[1].path  BY <1>5, <2>1, <2>2 DEF Tells
  <2> QED BY <2>2, <2>3 DEF Now
<1>6. mode = "newest" => log = << >> /\ Range(log) = {} /\ Len(log) = 0
  BY <1>0, RangeOfEmpty DEF Modes
<1>7. mode \in {"newest", "next"}  BY <1>0 DEF Modes
<1> QED BY <1>1, <1>3, <1>4, <1>5, <1>6, <1>7

(* The file that is opened has not been indexed before, and is not older   *)
(* than those indexed, or is excepted.                                     *)
LEMMA IndexedNext ==
    ASSUME DiscoveryInvariant, opening # << >>, Now # NoFile,
           Now = opening[1].file, Now \notin again
    PROVE  /\ Now \notin Range(log)
           /\ mode # "newest" => Now \notin backlog
           /\ \A g \in Range(log) : Now < g => InTurn(Now, g)
<1>0. NotAgain /\ TurnsKept  BY DEF DiscoveryInvariant
<1>1. CASE mode = "newest"  BY <1>1, YieldedFacts
<1>2. CASE mode = "next"  BY <1>0, <1>2 DEF NotAgain, TurnsKept, Past
<1> QED BY <1>1, <1>2, YieldedFacts

LEMMA OrderGrows ==
    ASSUME DiscoveryInvariant, opening # << >>, Now # NoFile, UNCHANGED disk,
           again \subseteq again', Now # opening[1].file => Now \in again',
           log' = Append(log, Now), backlog' = backlog,
           adopted' = IF mode = "newest" THEN Now ELSE adopted
    PROVE  IndexedOnce' /\ IndexedInOrder'
<1> DEFINE n == Len(log)
<1>0. Shapes /\ DiskSound /\ Modes /\ IndexedOnce /\ IndexedInOrder  BY DEF DiscoveryInvariant
<1>1. n \in Nat /\ DOMAIN log = 1..n /\ \A i \in 1..n : log[i] \in Range(log)
  BY <1>0, LogFacts
<1>2. /\ DOMAIN log' = 1..n+1 /\ log'[n+1] = Now
      /\ \A i \in 1..n : log'[i] = log[i]
  <2>1. log \in Seq(Files) /\ Now \in Files
    BY <1>0, YieldedFacts, DiskFacts DEF Shapes, DiskSound
  <2> QED BY <2>1
<1>3. mtime' = mtime /\ birth' = birth  BY DiskStays
<1>4. mode = "newest" => n = 0  BY YieldedFacts
<1>5. Now \notin again' => /\ Now \notin Range(log)
                           /\ mode # "newest" => Now \notin backlog
                           /\ \A g \in Range(log) : Now < g => InTurn(Now, g)
  BY IndexedNext
<1> HIDE DEF n
<1>6. IndexedOnce'
  <2> SUFFICES ASSUME NEW j \in 1..n+1, log'[j] \notin again'
               PROVE  /\ \A i \in 1..j-1 : log'[i] # log'[j]
                      /\ log'[j] \in backlog => log'[j] = adopted'
    BY <1>2 DEF IndexedOnce
  <2>1. CASE j \in 1..n
    <3>1. 1..j-1 \subseteq 1..n /\ mode # "newest"  BY <1>1, <1>4, <2>1
    <3>2. adopted' = adopted /\ log'[j] = log[j]  BY <1>2, <2>1, <3>1
    <3>3. /\ \A i \in 1..j-1 : log[i] # log[j]
          /\ log[j] \in backlog => log[j] = adopted
      BY <1>0, <1>1, <2>1, <3>2 DEF IndexedOnce
    <3> QED BY <1>2, <3>1, <3>2, <3>3
  <2>2. CASE j = n + 1
    <3>1. \A i \in 1..n : log[i] # Now  BY <1>1, <1>2, <1>5, <2>2
    <3>2. 1..j-1 = 1..n  BY <1>1, <2>2
    <3> QED BY <1>2, <1>5, <2>2, <3>1, <3>2
  <2>3. j \in 1..n \/ j = n + 1  BY <1>1
  <2> QED BY <2>1, <2>2, <2>3
<1>7. ASSUME NEW i \in 1..n+1, NEW j \in 1..n+1, i < j, log'[i] > log'[j],
             log'[j] \notin again', log'[i] \notin again'
      PROVE  mtime[log'[j]] = birth[log'[i]]
  <2>1. i \in 1..n /\ (j \in 1..n \/ j = n + 1)  BY <1>1, <1>7
  <2>2. CASE j \in 1..n  BY <1>0, <1>1, <1>2, <1>7, <2>1, <2>2 DEF IndexedInOrder
  <2>3. CASE j = n + 1
    <3>1. Now < log[i] => InTurn(Now, log[i])  BY <1>1, <1>2, <1>5, <1>7, <2>1, <2>3
    <3>2. Now \in Nat /\ log[i] \in Nat
      <4>1. Now \in Born /\ log[i] \in Born
        BY <1>0, <1>1, <2>1, YieldedFacts DEF DiskSound, Modes
      <4> QED BY <4>1, DiskFacts
    <3>3. Now < log[i]  BY <1>2, <1>7, <2>1, <2>3, <3>2
    <3> QED BY <1>2, <1>7, <2>1, <2>3, <3>1, <3>3 DEF InTurn
  <2> QED BY <2>1, <2>2, <2>3
<1>8. IndexedInOrder'
  <2>1. DOMAIN log' = 1..n+1  BY <1>2
  <2> QED BY <1>3, <1>7, <2>1 DEF IndexedInOrder
<1> QED BY <1>6, <1>8

LEMMA OpenedKeeps ==
    ASSUME DiscoveryInvariant, opening # << >>, Opened,
           UNCHANGED <<disk, walking, todo, stats, seen, backlog, prior, reused, listed>>,
           lost \cup LeftOut \subseteq lost', again \subseteq again',
           \/ /\ Now = NoFile \/ Now \in lost'
              /\ UNCHANGED <<held, log, adopted>>
           \/ /\ Now # NoFile /\ (Now # opening[1].file => Now \in again')
              /\ held' = held \cup {Now} /\ log' = Append(log, Now)
              /\ adopted' = IF mode = "newest" THEN Now ELSE adopted
    PROVE  DiscoveryInvariant'
<1> DEFINE o == opening[1]
<1>0. /\ TypeOK /\ NoneIsExact /\ IndexedOnce /\ IndexedInOrder
      /\ Shapes /\ DiskSound /\ Modes /\ StatsSound /\ WalkMeets
      /\ Startup /\ Remembered /\ NotAgain /\ TurnsKept
  BY DEF DiscoveryInvariant
<1>1. /\ walking' = walking /\ todo' = todo /\ stats' = stats /\ seen' = seen
      /\ backlog' = backlog /\ prior' = prior /\ reused' = reused /\ listed' = listed
      /\ opening' = << >> /\ mode' = (IF mode = "newest" THEN "seed" ELSE mode)
  BY DEF Opened
<1>2. /\ created' = created /\ dir' = dir /\ ino' = ino /\ mtime' = mtime /\ birth' = birth
      /\ clock' = clock /\ writer' = writer /\ Present' = Present /\ Born' = Born
  BY DiskStays
<1>3. /\ ~walking /\ mode \in {"newest", "next"}
      /\ Now = NoFile \/ Now \in Present
      /\ \A f \in Present : f = o.file => f = Now
      /\ mode = "newest" => log = << >> /\ Range(log) = {}
      /\ o.file # NoFile => Tells(o)
  BY YieldedFacts
<1>4. Present \subseteq Born /\ Born \subseteq Files  BY <1>0, DiskFacts DEF DiskSound
<1>5. \/ Range(log') = Range(log) /\ log' = log /\ held' = held /\ adopted' = adopted
      \/ /\ Range(log') = Range(log) \cup {Now} /\ held' = held \cup {Now} /\ log' \in Seq(Files)
         /\ Now \in Present /\ (Now # o.file => Now \in again')
  <2>1. Now # NoFile => Now \in Files  BY <1>3, <1>4
  <2>2. log \in Seq(Files)  BY <1>0 DEF Shapes
  <2>3. Now # NoFile => Range(Append(log, Now)) = Range(log) \cup {Now}
    BY <2>1, <2>2, RangeOfAppend
  <2>4. Now # NoFile => Append(log, Now) \in Seq(Files)  BY <2>1, <2>2
  <2> QED BY <1>3, <2>3, <2>4
<1>6. Now \in Present => Now \in Range(log') \/ Now \in lost'
  BY PresentFiles, <1>5
<1>7. Range(log) \subseteq Range(log') /\ \A g : Known(g) => Known(g)'
  BY <1>1, <1>5 DEF Known
<1>8. \A g \in Range(log') :
        \/ g \in Range(log)
        \/ g = Now /\ Now \in Present /\ (Now # o.file => Now \in again')
  BY <1>5
<1>9. IndexedOnce' /\ IndexedInOrder'
  BY <1>0, <1>1, OrderStays, OrderGrows
<1> HIDE DEF o
<1>10. TypeOK'
  <2>1. held' \subseteq Range(log') /\ Present \cup held' = Present \cup held
    BY <1>0, <1>5 DEF TypeOK
  <2> QED BY <1>0, <1>1, <1>2, <1>3, <2>1 DEF TypeOK
<1>11. NoneIsExact'  BY <1>1, <1>3 DEF NoneIsExact
<1>12. Shapes'
  <2>1. log' \in Seq(Files)  BY <1>0, <1>5 DEF Shapes
  <2>2. opening' \in Seq(Entry) /\ Len(opening') = 0  BY <1>1
  <2> QED BY <1>0, <1>1, <1>2, <2>1, <2>2 DEF Shapes, Entry
<1>13. DiskSound'
  <2>1. held' \subseteq Born  BY <1>0, <1>4, <1>5 DEF DiskSound
  <2> QED BY <1>0, <2>1, SoundStays
<1>14. Modes'
  <2>1. Range(log') \subseteq Born  BY <1>0, <1>4, <1>8 DEF Modes
  <2> QED BY <1>0, <1>1, <1>2, <1>3, <2>1 DEF Modes
<1>15. StatsSound' /\ WalkMeets'
  BY <1>0, <1>1, <1>2, <1>3 DEF StatsSound, Tells, WalkMeets
<1>16. Startup'
  <2>1. ASSUME mode = "newest", NEW f \in backlog \cap Present  PROVE Known(f)'
    <3>1. CASE f \in lost  BY <1>7, <3>1 DEF Known
    <3>2. CASE f = o.file  BY <1>3, <1>6, <3>2 DEF Known
    <3>3. CASE o.file > listed
      <4>1. LeftOut = backlog  BY <2>1, <3>3 DEF LeftOut, o
      <4> QED BY <2>1, <4>1 DEF Known
    <3> QED BY <1>0, <2>1, <3>1, <3>2, <3>3 DEF Startup, o
  <2>2. mode' # "newest" /\ (mode' = "seed" => mode = "newest")  BY <1>1, <1>3
  <2> QED BY <1>1, <1>2, <1>3, <2>1, <2>2 DEF Startup
<1>17. Remembered'
  <2>1. \A f \in Present : ino[f] \in seen => Known(f) \/ f = o.file
    BY <1>0 DEF Remembered, o
  <2>2. \A f \in Present : ino[f] \in seen => Known(f)'
    BY <1>3, <1>6, <1>7, <2>1 DEF Known
  <2> QED BY <1>1, <1>2, <1>3, <2>2 DEF Remembered, Known
<1>18. NotAgain'
  <2>1. ASSUME mode = "next", NEW f \in Present, f \in Range(log') \cup backlog
        PROVE  ino[f] \in seen \/ f \in again'
    <3>1. CASE f \in Past  BY <1>0, <2>1, <3>1 DEF NotAgain, Started
    <3>2. CASE f = Now /\ Now # o.file  BY <1>8, <2>1, <3>2, <3>1 DEF Past
    <3>3. CASE f = o.file
      <4>1. o.id \in seen  BY <1>0, <2>1 DEF NotAgain, o
      <4>2. o.id = ino[f]  BY <1>3, <2>1, <3>3, PresentFiles DEF Tells
      <4> QED BY <4>1, <4>2
    <3> QED BY <1>8, <2>1, <3>1, <3>2, <3>3 DEF Past
  <2> QED BY <1>1, <1>2, <1>3, <2>1 DEF NotAgain, Past, Started
<1>19. TurnsKept'
  <2>1. ASSUME mode = "newest", NEW g \in Range(log'), NEW f \in Present, f < g
        PROVE  f \in backlog \/ g \in again'
    <3>1. g = Now /\ Now \in Present /\ (Now # o.file => Now \in again')
      BY <1>3, <1>8, <2>1
    <3>2. CASE Now = o.file
      <4>1. Tells(o)  BY <1>3, <3>1, <3>2, PresentFiles
      <4>2. o.file > listed => o.file \in again  BY <4>1 DEF Tells
      <4>3. f \in Born /\ g \in Born /\ listed \in Nat
        BY <1>0, <1>4, <3>1, DiskFacts DEF Shapes
      <4>4. ~(o.file > listed) => f \in 1..listed
        BY <2>1, <3>1, <3>2, <4>3, DiskFacts DEF Born
      <4>5. f \in 1..listed => f \in backlog  BY <1>0, <2>1 DEF Startup
      <4> QED BY <3>1, <3>2, <4>2, <4>4, <4>5
    <3> QED BY <3>1, <3>2
  <2>2. ASSUME mode = "next", NEW g \in Range(log'), NEW f \in Present, f < g
        PROVE  ino[f] \in seen \/ f \in again' \/ g \in again' \/ mtime[f] = birth[g]
    <3>1. CASE g \in Range(log)  BY <1>0, <2>2, <3>1 DEF TurnsKept, Started, InTurn
    <3>2. CASE g = o.file  BY <1>0, <2>2, <3>2 DEF TurnsKept, InTurn, o
    <3> QED BY <1>8, <2>2, <3>1, <3>2
  <2>3. (mode' = "seed" => mode = "newest") /\ (Started' => mode = "next")
    BY <1>1, <1>3 DEF Started
  <2> QED BY <1>1, <1>2, <1>3, <2>1, <2>2, <2>3 DEF TurnsKept, InTurn
<1> QED BY <1>9, <1>10, <1>11, <1>12, <1>13, <1>14, <1>15, <1>16, <1>17, <1>18, <1>19
        DEF DiscoveryInvariant

LEMMA IndexKeeps ==
    ASSUME DiscoveryInvariant, IndexRecording
    PROVE  DiscoveryInvariant'
<1>1. /\ opening # << >> /\ Opened /\ lost' = lost \cup LeftOut
      /\ UNCHANGED <<disk, walking, todo, stats, seen, backlog, prior, reused, listed>>
  BY DEF IndexRecording
<1>2. IF Now = NoFile THEN UNCHANGED <<held, log, adopted, again>>
      ELSE /\ held' = held \cup {Now} /\ log' = Append(log, Now)
           /\ adopted' = (IF mode = "newest" THEN Now ELSE adopted)
           /\ again' = IF Now = opening[1].file THEN again ELSE again \cup {Now}
  BY DEF IndexRecording, Now
<1> QED BY <1>1, <1>2, OpenedKeeps

LEMMA OpenFailsKeeps ==
    ASSUME DiscoveryInvariant, OpenFails
    PROVE  DiscoveryInvariant'
<1>1. /\ opening # << >> /\ Opened /\ lost' = lost \cup LeftOut \cup {Now}
      /\ UNCHANGED <<disk, walking, todo, stats, seen, backlog, prior, reused, listed>>
      /\ UNCHANGED <<held, log, adopted>> /\ again' = again
  BY DEF OpenFails, Now
<1> QED BY <1>1, OpenedKeeps

-----------------------------------------------------------------------------
(* The theorems.                                                           *)
LEMMA NextKeeps == DiscoveryInvariant /\ [Next]_vars => DiscoveryInvariant'
<1> SUFFICES ASSUME DiscoveryInvariant, [Next]_vars PROVE DiscoveryInvariant'
  OBVIOUS
<1>1. ASSUME DiskNext  PROVE DiscoveryInvariant'
  BY <1>1, TickKeeps, AppendKeeps, RemoveKeeps, OpenKeeps DEF DiskNext
<1>2. ASSUME WalkStep  PROVE DiscoveryInvariant'
  BY <1>2, ReadDirKeeps, NewestKeeps, SeededKeeps, YieldKeeps, NoneLeftKeeps, IndexKeeps,
     NextPollKeeps, StatKeeps DEF WalkStep
<1>3. ASSUME \/ DirFails \/ OpenFails \/ (\E p \in Paths : StatFails(p))
             \/ \E f \in Files : Prune(f)
      PROVE  DiscoveryInvariant'
  BY <1>3, DirFailsKeeps, OpenFailsKeeps, StatFailsKeeps, PruneKeeps
<1>4. ASSUME UNCHANGED vars  PROVE DiscoveryInvariant'
  BY <1>4, TickKeeps
<1> QED BY <1>1, <1>2, <1>3, <1>4 DEF Next

(* The inductive invariant, for any number of names, files, inodes, faults *)
(* and clock ticks.                                                        *)
THEOREM DiscoveryInvariance == Spec => []DiscoveryInvariant
BY InitHolds, NextKeeps, PTL DEF Spec

(* At most one entry is under way, and of two files that are there or held *)
(* no two have one inode number.                                           *)
THEOREM DiscoveryTypeCorrect == Spec => []TypeOK
<1>1. DiscoveryInvariant => TypeOK  BY DEF DiscoveryInvariant
<1> QED BY DiscoveryInvariance, <1>1, PTL

(* When next() says there is nothing newer, every file its walk met has    *)
(* been indexed, or is one of those the histories except.                  *)
THEOREM NoneLeavesNothing == Spec => []NoneIsExact
<1>1. DiscoveryInvariant => NoneIsExact  BY DEF DiscoveryInvariant
<1> QED BY DiscoveryInvariance, <1>1, PTL

(* No recording is indexed twice, nor one of the backlog but the adopted.  *)
THEOREM IndexesOnce == Spec => []IndexedOnce
<1>1. DiscoveryInvariant => IndexedOnce  BY DEF DiscoveryInvariant
<1> QED BY DiscoveryInvariance, <1>1, PTL

(* Recordings are indexed in the order of their creation, whatever is      *)
(* written to, renamed or removed during the walks.                        *)
THEOREM IndexesInOrder == Spec => []IndexedInOrder
<1>1. DiscoveryInvariant => IndexedInOrder  BY DEF DiscoveryInvariant
<1> QED BY DiscoveryInvariance, <1>1, PTL
=============================================================================
