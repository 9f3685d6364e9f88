---------------------------- MODULE DiscoveryInv ----------------------------
(***************************************************************************)
(* The inductive invariant of module Discovery.  A walk misses no file     *)
(* that was there when the directory was read; what it met and the files   *)
(* there have each their own inode number; so a number in `seen` speaks    *)
(* for one file, and who is passed over, indexed, or has lost its turn is  *)
(* known by what the histories say.                                        *)
(***************************************************************************)
EXTENDS Discovery

Born == 1..created
Entry == [path : Paths, file : Files \cup {NoFile}, id : Inodes \cup {0}, mtime : Nat]
Started == mode \in {"next", "drained"}
Known(f) == f \in Range(log) \cup lost \cup reused

Shapes ==
    /\ clock \in Nat \ {0}
    /\ ino \in [Files -> Inodes \cup {0}]
    /\ mtime \in [Files -> Nat] /\ birth \in [Files -> Nat]
    /\ walking \in BOOLEAN
    /\ stats \subseteq Entry
    /\ opening \in Seq(Entry) /\ Len(opening) \in {0, 1}
    /\ log \in Seq(Files)
    /\ listed \in 0..created

(* Names, writer and times of the files created so far.                    *)
DiskSound ==
    /\ Present \subseteq Born /\ held \subseteq Born
    /\ \A p, q \in Paths : dir[p] = dir[q] /\ dir[p] # NoFile => p = q
    /\ writer # NoFile => writer = created /\ writer \in Present
    /\ \A f \in Born : /\ ino[f] \in Inodes
                       /\ 0 < birth[f] /\ birth[f] <= mtime[f] /\ mtime[f] <= clock
    /\ \A f, g \in Born : f < g => mtime[f] <= birth[g]

(* The startup reads come first, and what they read is kept.               *)
Modes ==
    /\ mode = "newest" => log = << >> /\ (walking \/ opening # << >> => backlog \subseteq 1..listed)
    /\ mode \in {"newest", "seed"} => seen = {}
    /\ opening # << >> => mode \in {"newest", "next"}
    /\ mode = "drained" => ~walking
    /\ seen \subseteq prior
    /\ backlog \subseteq Born /\ Range(log) \subseteq Born
    /\ walking => backlog \subseteq 1..listed /\ Range(log) \subseteq 1..listed

(* An entry tells of a file as it was at the stat, under its only name.    *)
Tells(s) ==
    /\ s.file \in Born /\ s.id = ino[s.file]
    /\ birth[s.file] <= s.mtime /\ s.mtime <= mtime[s.file]
    /\ \A p \in Paths : dir[p] = s.file => p = s.path
    /\ s.file > listed => s.file \in again

StatsSound ==
    /\ \A s \in stats : Tells(s) \/ (s.file = NoFile /\ s.id = 0 /\ s.mtime = 0)
    /\ walking /\ mode # "newest" => \A s \in stats : s.file # NoFile
    /\ opening # << >> /\ mode = "next" => opening[1].file # NoFile
    /\ \A s \in stats, f \in Present :
         s.file # NoFile /\ ino[f] = s.id => f = s.file \/ f \in reused

(* What was there at the listing is met, unless it goes, or its stat fails. *)
Missed(f) == IF mode = "newest" THEN f \in lost /\ stats # {} ELSE f \in again
WalkMeets ==
    walking => \A p \in Paths : dir[p] \in 1..listed =>
        p \in todo \/ (\E s \in stats : s.file = dir[p]) \/ Missed(dir[p])

(* Startup: all of the backlog but one file is left behind, and that one   *)
(* is adopted, or lost.                                                    *)
Startup ==
    /\ mode = "newest" /\ (walking \/ opening # << >>) =>
         /\ \A f \in Present \cap 1..listed : f \in backlog
         /\ \A s \in stats : s.file \in 1..listed => s.file \in backlog
         /\ \A f, g \in backlog : f < g => f \in lost
    /\ mode = "newest" /\ opening # << >> =>
         \A f \in backlog \cap Present :
           f \in lost \/ f = opening[1].file \/ opening[1].file > listed
    /\ mode = "seed" =>
         /\ \A f \in backlog \cap Present : Known(f)
         /\ walking => \A s \in stats : s.file \in backlog => Known(s.file)

(* Whoever has its number in `seen` is known, or about to be.              *)
Remembered ==
    /\ \A f \in Present :
         ino[f] \in seen => Known(f) \/ (opening # << >> /\ f = opening[1].file)
    /\ walking => \A s \in stats : s.id \in seen => Known(s.file)

(* Whatever is indexed, or of the backlog, has its number in `seen`.       *)
Past == Range(log) \cup backlog
NotAgain ==
    /\ Started => \A f \in Present \cap Past : ino[f] \in seen \/ f \in again
    /\ walking /\ mode = "next" =>
         \A s \in stats : s.file \in Past => s.id \in seen \/ s.file \in again
    /\ opening # << >> /\ mode = "next" =>
         /\ opening[1].id \in seen
         /\ opening[1].file \in Past => opening[1].file \in again

(* A file older than an indexed one has had its turn, or is excepted.      *)
InTurn(f, g) == f \in again \/ g \in again \/ mtime[f] = birth[g]
TurnsKept ==
    /\ mode = "seed" => \A g \in Range(log), f \in Present :
         f < g => f \in backlog \/ g \in again
    /\ Started => \A g \in Range(log), f \in Present :
         f < g => ino[f] \in seen \/ InTurn(f, g)
    /\ walking /\ mode = "next" => \A g \in Range(log), s \in stats :
         s.file < g => s.id \in seen \/ InTurn(s.file, g)
    /\ opening # << >> /\ mode = "next" =>
         /\ \A g \in Range(log) : opening[1].file < g => InTurn(opening[1].file, g)
         /\ \A f \in Present :
              f < opening[1].file => ino[f] \in seen \/ InTurn(f, opening[1].file)

DiscoveryInvariant ==
    /\ TypeOK /\ NoneIsExact /\ IndexedOnce /\ IndexedInOrder
    /\ Shapes /\ DiskSound /\ Modes /\ StatsSound /\ WalkMeets
    /\ Startup /\ Remembered /\ NotAgain /\ TurnsKept
=============================================================================
