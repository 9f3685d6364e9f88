------------------------------ MODULE Extract -------------------------------
(***************************************************************************)
(* From the records of one file to the messages of a clip: what a scan     *)
(* pass makes of the bytes (scan_available, ScanDelta), what the index     *)
(* keeps of it (apply_delta), what a plan takes from the index             *)
(* (RecordingIndex::plan) and what the copy writes (copy_window), beside   *)
(* one of the example writers (module Writers), which goes on appending.   *)
(*                                                                         *)
(* Modules Tail and Clip treat a scanned record as a message that is in    *)
(* the index.  Here records are what they are: schemas, channels, messages *)
(* on channels, chunks of these, some of them damaged; the index is        *)
(* extents with time spans beside a registry; a clip is built by reading   *)
(* extents back.  There is one recording, and no retention.                *)
(*                                                                         *)
(* A record has length 1, so an offset counts records.  A value that may   *)
(* be absent (an Option) is a sequence of at most one element.             *)
(***************************************************************************)
EXTENDS Writers, Ranks

CONSTANTS
    ExtentCap,      \* EXTENT_CAP_BYTES
    MaxFaults,      \* bound, by style: passes cut short by an I/O error
    Source,         \* --time-source: "log" or "publish"
    Pre, Post       \* preroll and postroll of the triggers

ASSUME ExtractAssumption ==
    /\ ExtentCap \in Nat \ {0} /\ MaxFaults \in [Styles -> Nat]
    /\ Source \in {"log", "publish"}
    /\ Pre \in Nat /\ Post \in Nat

VARIABLES
    offset,     \* records below it are consumed and applied
    index,      \* the recording's extents and registry
    coverage,   \* the two high-water marks handlers wait on
    pass,       \* a pass that has read but not applied: its delta and its end
    faults,     \* passes cut short so far
    lifted,     \* history: trigger messages sent down the tap, in order
    hpc,        \* the handler: idle, waiting, planned or done
    window,     \* its window
    released,   \* its wait ended on coverage, not on grace
    plan,       \* its snapshot of the index
    clip        \* the clip it wrote

tailVars == <<offset, index, coverage, pass, faults, lifted>>
handlerVars == <<hpc, window, released, plan, clip>>
vars == <<clock, writerVars, tailVars, handlerVars>>

-----------------------------------------------------------------------------
(* Spans of stamps.                                                        *)

Least(a, b) == IF a < b THEN a ELSE b
Greatest(a, b) == IF a > b THEN a ELSE b
Point(m) == [log |-> [min |-> m.log, max |-> m.log],
             publish |-> [min |-> m.pub, max |-> m.pub]]
MergeSpan(a, b) == [min |-> Least(a.min, b.min), max |-> Greatest(a.max, b.max)]
MergeStamps(a, b) ==
    [log |-> MergeSpan(a.log, b.log), publish |-> MergeSpan(a.publish, b.publish)]
(* Of two spans either of which may be absent.                             *)
Merge(a, b) == IF a = << >> THEN b ELSE IF b = << >> THEN a ELSE <<MergeStamps(a[1], b[1])>>

MutSpanOverlaps(span, w) == span.min >= w.from /\ span.max <= w.to   \* contained
SpanOverlaps(span, w) == span.max >= w.from /\ span.min <= w.to
Overlaps(extent, w) ==
    extent.time # << >> /\ SpanOverlaps(extent.time[1][Source], w)

-----------------------------------------------------------------------------
(* What a pass collects, record by record.                                 *)

(* A map with one more entry, and with those of another.                   *)
Insert(map, key, value) ==
    [x \in DOMAIN map \cup {key} |-> IF x = key THEN value ELSE map[x]]
Extend(map, more) ==
    [x \in DOMAIN map \cup DOMAIN more |-> IF x \in DOMAIN more THEN more[x] ELSE map[x]]

NewDelta(at, open, trig) ==
    [at |-> at, closed |-> << >>, open |-> open, pending |-> << >>,
     schemas |-> {}, channels |-> << >>, trig |-> trig, sent |-> << >>]

AbsorbTime(d, m) == [d EXCEPT !.pending = Merge(@, <<Point(m)>>)]
EmitTrigger(d, m) == IF m.ch \in d.trig THEN [d EXCEPT !.sent = Append(@, m)] ELSE d

(* Definitions are inserted by id, the last one winning.                   *)
AbsorbParsed(d, item) ==
    CASE item.kind = "schema" -> [d EXCEPT !.schemas = @ \cup {item.id}]
      [] item.kind = "channel" ->
           [d EXCEPT !.channels = Insert(@, item.id, item),
                     !.trig = IF item.topic = TriggerTopic THEN @ \cup {item.id} ELSE @]
      [] item.kind = "message" -> EmitTrigger(AbsorbTime(d, item), item)

(* The delta after each of some items, one by one.                         *)
Absorbing(d, items) ==
    LET after[j \in 0..Len(items)] ==
          IF j = 0 THEN d ELSE AbsorbParsed(after[j - 1], items[j])
    IN  after

MutAbsorbChunk(d, c) ==                             \* item by item
    Absorbing(d, c.inner)[IF c.ok THEN Len(c.inner) ELSE Len(c.inner) - 1]
(* All or nothing: into a delta of its own, merged once the chunk's CRC    *)
(* has been verified; only then are its triggers sent.                     *)
AbsorbChunk(d, c) ==
    LET sub == Absorbing(NewDelta(d.at, << >>, d.trig), c.inner)[Len(c.inner)]
    IN  IF ~c.ok THEN d
        ELSE [d EXCEPT !.schemas = @ \cup sub.schemas, !.channels = Extend(@, sub.channels),
                       !.trig = @ \cup sub.trig, !.sent = @ \o sub.sent,
                       !.pending = Merge(@, sub.pending)]

(* A damaged record on its own is skipped: an unparseable definition, a    *)
(* runt message.                                                           *)
Absorb(d, r) ==
    IF r.kind = "chunk" THEN AbsorbChunk(d, r)
    ELSE IF r.ok THEN AbsorbParsed(d, r.inner[1]) ELSE d

ExtendExtent(d) ==
    LET open == IF d.open = << >> THEN [offset |-> d.at, len |-> 0, time |-> << >>]
                ELSE d.open[1]
        grown == [open EXCEPT !.len = d.at + 1 - open.offset, !.time = Merge(@, d.pending)]
        full == grown.len >= ExtentCap
    IN  [d EXCEPT !.at = @ + 1, !.pending = << >>,
                  !.closed = IF full THEN Append(@, grown) ELSE @,
                  !.open = IF full THEN << >> ELSE <<grown>>]

Consume(d, r) == ExtendExtent(Absorb(d, r))

-----------------------------------------------------------------------------
(* The tail: passes over the file.                                         *)

ScanInit ==
    /\ offset = 0
    /\ index = [open |-> << >>, closed |-> << >>, schemas |-> {}, channels |-> << >>, trig |-> {}]
    /\ coverage = [log |-> 0, publish |-> 0]
    /\ pass = << >>
    /\ faults = 0
    /\ lifted = << >>

Ended == offset < Len(file) /\ file[offset + 1] = Footer
(* Where a pass over the file as it is now ends: at a footer or at the end. *)
Readable == IF Len(file) > 0 /\ Last(file) = Footer THEN Len(file) - 1 ELSE Len(file)
Seed == NewDelta(offset, index.open, index.trig)

(* What a pass has collected at each of the n records it reads.            *)
Collecting(n) ==
    LET after[j \in 0..n] ==
          IF j = 0 THEN Seed ELSE Consume(after[j - 1], file[offset + j])
    IN  after
Collected(to) == Collecting(to - offset)[to - offset]

(* The triggers a pass lifts go down the tap while it reads.               *)
Scan ==
    /\ pass = << >> /\ ~Ended
    /\ offset < Readable
    /\ LET d == Collected(Readable)
       IN  pass' = <<d>> /\ lifted' = lifted \o d.sent
    /\ UNCHANGED <<clock, writerVars, offset, index, coverage, faults, handlerVars>>

(* An I/O error stops the pass at a record: before anything of it, or, if  *)
(* it is a trigger, with its stamps taken and its payload not read.        *)
ScanFaults ==
    /\ pass = << >> /\ ~Ended
    /\ faults < MaxFaults[style]
    /\ \E to \in offset..Readable-1 :
         LET d == Collected(to)
             r == file[to + 1]
         IN  /\ \/ pass' = <<d>>
                \/ /\ r.kind = "single" /\ r.ok /\ IsMessage(r.inner[1])
                   /\ r.inner[1].ch \in d.trig
                   /\ pass' = <<AbsorbTime(d, r.inner[1])>>
             /\ lifted' = lifted \o d.sent
    /\ faults' = faults + 1
    /\ UNCHANGED <<clock, writerVars, offset, index, coverage, handlerVars>>

(* A channel keeps the schema its id has in the registry as this pass      *)
(* leaves it; one that is not there is none.                               *)
Resolved(c, schemas) ==
    [topic |-> c.topic, schema |-> IF c.schema \in schemas THEN c.schema ELSE 0]

Timed(extents) == {e \in Range(extents) : e.time # << >>}
MutSpans(d, ix) == {e.time[1] : e \in Timed(ix.closed \o ix.open)}   \* what was read
                     \cup Range(d.pending)
(* What the marks are taken from.                                          *)
Spans(d, ix) == {e.time[1] : e \in Timed(ix.closed \o ix.open)}

(* apply_delta, under the state lock, and the marks, raised only.          *)
Apply ==
    /\ pass # << >>
    /\ LET d == pass[1]
           schemas == index.schemas \cup d.schemas
           defined == [id \in DOMAIN d.channels |-> Resolved(d.channels[id], schemas)]
           applied == [open |-> d.open, closed |-> index.closed \o d.closed,
                       schemas |-> schemas, channels |-> Extend(index.channels, defined),
                       trig |-> index.trig \cup d.trig]
       IN  /\ index' = applied
           /\ offset' = d.at
           /\ coverage' = [s \in DOMAIN coverage |->
                             Max({coverage[s]} \cup {t[s].max : t \in Spans(d, applied)})]
    /\ pass' = << >>
    /\ UNCHANGED <<clock, writerVars, faults, lifted, handlerVars>>

-----------------------------------------------------------------------------
(* The handler of one trigger.                                             *)

StampOf(m) == IF Source = "log" THEN m.log ELSE m.pub
InWindow(m, w) == w.from <= StampOf(m) /\ StampOf(m) <= w.to

HandlerInit ==
    /\ hpc = "idle"
    /\ window = [from |-> 0, to |-> 0]
    /\ released = FALSE
    /\ plan = [extents |-> << >>, channels |-> << >>, upto |-> 0]
    /\ clip = [messages |-> << >>, table |-> << >>, ids |-> << >>, skipped |-> 0, dropped |-> 0]

(* The MCAP interface anchors a window on the trigger record's own stamp.  *)
Fire ==
    /\ hpc = "idle"
    /\ \E m \in Range(lifted) :
         window' = [from |-> IF StampOf(m) < Pre THEN 0 ELSE StampOf(m) - Pre,
                    to |-> StampOf(m) + Post]
    /\ hpc' = "waiting"
    /\ UNCHANGED <<clock, writerVars, tailVars, released, plan, clip>>

Mark == IF Source = "log" THEN coverage.log ELSE coverage.publish
MutReaches == Mark >= window.from
Reaches == Mark >= window.to

(* Not before the wall clock has reached the window's end; then coverage,  *)
(* or the end of the grace period.                                         *)
PlanWindow ==
    /\ hpc = "waiting"
    /\ window.to <= clock
    /\ released' = Reaches
    /\ plan' = LET held == index.closed \o index.open
               IN  [extents |-> Retain(held, {k \in DOMAIN held : Overlaps(held[k], window)}),
                    channels |-> index.channels,
                    upto |-> offset]
    /\ hpc' = "planned"
    /\ UNCHANGED <<clock, writerVars, tailVars, window, clip>>

(* The output's id of a channel: registered on first use, by content; 0    *)
(* remembers that the recording never declared it.                         *)
MutOutputChannelId(c, src) ==                                   \* ids kept
    IF src \in DOMAIN plan.channels
    THEN [c EXCEPT !.ids = Insert(@, src, src), !.table = Append(@, plan.channels[src])]
    ELSE [c EXCEPT !.ids = Insert(@, src, 0)]
OutputChannelId(c, src) ==
    IF src \in DOMAIN c.ids THEN c
    ELSE IF src \notin DOMAIN plan.channels THEN [c EXCEPT !.ids = Insert(@, src, 0)]
    ELSE LET def == plan.channels[src]
             table == IF def \in Range(c.table) THEN c.table ELSE Append(c.table, def)
         IN  [c EXCEPT !.table = table,
                       !.ids = Insert(@, src, CHOOSE k \in DOMAIN table : table[k] = def)]

CopyMessage(c, m) ==
    LET known == OutputChannelId(c, m.ch)
    IN  IF ~InWindow(m, window) THEN c
        ELSE IF known.ids[m.ch] = 0 THEN [known EXCEPT !.skipped = @ + 1]
        ELSE [known EXCEPT !.messages = Append(@, [n |-> m.n, ch |-> known.ids[m.ch]])]

CopyItem(c, item) == IF IsMessage(item) THEN CopyMessage(c, item) ELSE c
CopyingItems(c, items) ==
    LET after[j \in 0..Len(items)] ==
          IF j = 0 THEN c ELSE CopyItem(after[j - 1], items[j])
    IN  after
(* All or none of a chunk's messages.                                      *)
CopyChunk(c, k) ==
    IF k.ok THEN CopyingItems(c, k.inner)[Len(k.inner)] ELSE [c EXCEPT !.dropped = @ + 1]

CopyRecord(c, r) ==
    IF r.kind = "chunk" THEN CopyChunk(c, r)
    ELSE IF ~IsMessage(r.inner[1]) THEN c
    ELSE IF r.ok THEN CopyMessage(c, r.inner[1])
    ELSE [c EXCEPT !.skipped = @ + 1]

CopyingRecords(c, e) ==
    LET after[j \in 0..e.len] ==
          IF j = 0 THEN c ELSE CopyRecord(after[j - 1], file[e.offset + j])
    IN  after
CopyExtent(c, e) == CopyingRecords(c, e)[e.len]

(* copy_window: the planned extents read back from the file, in order.     *)
Copying ==
    LET after[j \in 0..Len(plan.extents)] ==
          IF j = 0 THEN clip ELSE CopyExtent(after[j - 1], plan.extents[j])
    IN  after

Copy ==
    /\ hpc = "planned"
    /\ clip' = Copying[Len(plan.extents)]
    /\ hpc' = "done"
    /\ UNCHANGED <<clock, writerVars, tailVars, window, released, plan>>

HandlerStep == Fire \/ PlanWindow \/ Copy

-----------------------------------------------------------------------------
Init == WritersInit /\ ScanInit /\ HandlerInit

WriterMoves == WritersNext /\ UNCHANGED <<tailVars, handlerVars>>
Next == WriterMoves \/ Scan \/ ScanFaults \/ Apply \/ HandlerStep

Spec == Init /\ [][Next]_vars

(* The writer's loop runs, and what nobody buffers reaches the disk: a     *)
(* BufWriter drains when it is flushed.  The writer may be stopped or die. *)
(* That the tail then reads what is on disk is a matter of module Tail.    *)
LoopStep == Register \/ Sample \/ WriteData \/ WriteTrigger \/ NoTrigger \/ Flushed
FairSpec ==
    /\ Spec
    /\ WF_vars(LoopStep /\ UNCHANGED <<tailVars, handlerVars>>)
    /\ WF_vars(~Buffered /\ Drain /\ UNCHANGED <<tailVars, handlerVars>>)

-----------------------------------------------------------------------------
(* Correctness.                                                            *)

TypeOK ==
    /\ offset \in 0..Len(file) /\ Len(pass) \in {0, 1} /\ faults \in 0..MaxFaults[style]
    /\ DOMAIN index.channels \subseteq 1..3 /\ index.trig \subseteq 1..3
    /\ coverage \in [{"log", "publish"} -> 0..MaxClock]
    /\ hpc \in {"idle", "waiting", "planned", "done"}
    /\ plan.upto <= offset
    /\ \A m \in Range(clip.messages) : m.ch \in DOMAIN clip.table

(* The items of the undamaged records of a prefix of the file.             *)
Good(n) == UNION {Range(file[k].inner) : k \in {j \in 1..n : file[j].ok}}
GoodMessages(n) == {m \in Good(n) : IsMessage(m)}
Schemas(n) == {x.id : x \in {i \in Good(n) : i.kind = "schema"}}
Channels(n) == {x \in Good(n) : x.kind = "channel"}
(* What they say of a channel: a set, empty or of one definition.          *)
Declared(n, ch) == {Resolved(c, Schemas(n)) : c \in {x \in Channels(n) : x.id = ch}}
(* In the order of writing, each once.                                     *)
InOrder(items) == \A i, j \in DOMAIN items : i < j => items[i].n < items[j].n

(* However the passes fell, the marks are the highest stamps of the        *)
(* undamaged messages that are indexed: neither a dropped chunk nor the    *)
(* record a fault stopped at counts (tail.rs, absorb_chunk: "coverage      *)
(* never claims data the cut would silently leave out").                   *)
CoverageIsIndexed ==
    LET logs == {m.log : m \in GoodMessages(offset)}
        pubs == {m.pub : m \in GoodMessages(offset)}
    IN  /\ coverage.log \in logs \cup {0} /\ \A t \in logs : t <= coverage.log
        /\ coverage.publish \in pubs \cup {0} /\ \A t \in pubs : t <= coverage.publish

(* A trigger is sent down the tap once and in order, across faulted passes *)
(* and retries, and never from a damaged record or chunk: what was sent is *)
(* what the undamaged prefix read so far has on declared trigger channels. *)
LiftedExactly ==
    LET read == IF pass = << >> THEN offset ELSE pass[1].at
        triggers == {c.id : c \in {x \in Channels(read) : x.topic = TriggerTopic}}
    IN  /\ Range(lifted) = {m \in GoodMessages(read) : m.ch \in triggers}
        /\ InOrder(lifted)

(* A clip is exact: of the prefix that was indexed at its plan, the        *)
(* undamaged messages of the window on a declared channel, all of them, in *)
(* file order, each on a channel with the recording's definition.  This    *)
(* holds however records fell into extents, though only extents that       *)
(* overlap are read, and definitions stand far before them.                *)
ClipIsExact ==
    hpc = "done" =>
        LET wanted == {m \in GoodMessages(plan.upto) :
                         InWindow(m, window) /\ Declared(plan.upto, m.ch) # {}}
        IN  /\ {c.n : c \in Range(clip.messages)} = {m.n : m \in wanted}
            /\ InOrder(clip.messages)
            /\ \A c \in Range(clip.messages), m \in wanted :
                  c.n = m.n => {clip.table[c.ch]} = Declared(plan.upto, m.ch)

(* From the writer's memory to the clip: a log-domain clip released by     *)
(* coverage has every message its window asks for that was ever written,   *)
(* unless the record it came in was damaged or its channel's was.  A       *)
(* message still in a buffer or an open chunk cannot be left behind, for   *)
(* the file is written in order.  The stamp of the window's end itself is  *)
(* excepted, as in Tail.                                                   *)
CutHasAllWritten ==
    hpc = "done" /\ released /\ Source = "log" =>
        \A m \in {x \in Range(written) : IsMessage(x)} :
            \/ m.log < window.from \/ m.log >= window.to
            \/ \E c \in Range(clip.messages) : c.n = m.n
            \/ \E r \in Range(file) : /\ ~r.ok
                                      /\ \E x \in Range(r.inner) :
                                           x = m \/ (x.kind = "channel" /\ x.id = m.ch)

(* What is written is on disk in the end, without anything further being   *)
(* written, unless the writer dies: the flush of every iteration.  Only an *)
(* open chunk is not flushed (when it closes depends on the data rate).    *)
WrittenIsOnDisk ==
    <>[](wpc = "dead" \/ style = "chunked" \/ Range(written) = UNION {Range(r.inner) : r \in Range(file)})
=============================================================================
