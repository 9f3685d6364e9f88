------------------------------ MODULE Writers -------------------------------
(***************************************************************************)
(* The three example recorders, each a process that writes one MCAP file   *)
(* clipper can tail:                                                       *)
(*   "copper"   cu-mcap-record: unchunked through a BufWriter, flushed at   *)
(*              the end of every iteration and after every trigger;        *)
(*   "custom"   custom-mcap-writer: unchunked, straight to the file;       *)
(*   "chunked"  chunked-mcap-writer: chunks assembled in memory and        *)
(*              appended whole when they are full.                         *)
(*                                                                         *)
(* What they promise is the contract of the tail: complete records,        *)
(* appended, never rewritten.  Between the program and the file there is   *)
(* the sink: records handed to it reach the file in order, and one that is *)
(* only partly on disk is not there yet.  What the writer is given is a    *)
(* sequence of items, definitions and messages, and item n carries its     *)
(* place n in it.  A record of the file holds one item, or is a chunk of   *)
(* them, or the footer.  It may be damaged on its way to the disk, its     *)
(* framing intact.                                                         *)
(***************************************************************************)
EXTENDS Naturals, Sequences, SequencesExt

CONSTANTS
    Styles,         \* the writers of this instance
    EpochFloor,     \* EPOCH_FLOOR_NS: no stamp below it is plausible
    Bounds,         \* bounds, by style: the last value of the wall clock, the
                    \* iterations of the loop, the records damaged on disk
    PublishOffset,  \* --publish-offset-ms of the custom writer
    Period,         \* TRIGGER_PERIOD, --trigger-after-ms
    ChunkSize       \* items a chunk holds before it closes

ASSUME WritersAssumption ==
    /\ Styles \subseteq {"copper", "custom", "chunked"}
    /\ EpochFloor \in Nat
    /\ \A s \in Styles : /\ Bounds[s].clock \in Nat /\ Bounds[s].clock >= EpochFloor
                         /\ Bounds[s].ticks \in Nat /\ Bounds[s].damage \in Nat
    /\ PublishOffset \in Nat
    /\ Period \in Nat \ {0} /\ ChunkSize \in Nat \ {0}

VARIABLES
    style,      \* which of the writers runs
    clock,      \* the wall clock
    file,       \* the complete records on disk
    sink,       \* records handed to the sink that are not all on disk
    chunk,      \* items of the open chunk, in memory
    wpc,        \* where the writer is in its loop
    sampled,    \* the clock as the iteration read it
    nextFire,   \* when the next trigger is due
    ticks,      \* iterations begun
    damage,     \* records damaged so far
    written     \* history: the items written, in order

writerVars == <<style, file, sink, chunk, wpc, sampled, nextFire, ticks,
                damage, written>>

MaxClock == Bounds[style].clock
MaxTicks == Bounds[style].ticks
MaxDamage == Bounds[style].damage

TriggerTopic == "trigger"
Never == MaxClock + 1
Schema(n, id) == [kind |-> "schema", n |-> n, id |-> id]
Channel(n, id, topic, schema) ==
    [kind |-> "channel", n |-> n, id |-> id, topic |-> topic, schema |-> schema]
Message(n, ch, log, pub) ==
    [kind |-> "message", n |-> n, ch |-> ch, log |-> log, pub |-> pub]
IsMessage(item) == item.kind = "message"

Single(item) == [kind |-> "single", inner |-> <<item>>, ok |-> TRUE]
Chunk(items) == [kind |-> "chunk", inner |-> items, ok |-> TRUE]
Footer == [kind |-> "footer", inner |-> << >>, ok |-> TRUE]

(* What each writer registers before its loop, in the order it does.       *)
(* Schema 0 is none.                                                       *)
Registration ==
    CASE style = "copper" ->
           <<Schema(1, 1), Schema(2, 2), Schema(3, 3), Channel(4, 1, "sensor", 1),
             Channel(5, 2, "meta", 2), Channel(6, 3, TriggerTopic, 3)>>
      [] style = "custom" ->
           <<Schema(1, 1), Channel(2, 1, "pose", 1), Channel(3, 2, "size", 0),
             Channel(4, 3, TriggerTopic, 0)>>
      [] style = "chunked" ->
           <<Schema(1, 1), Channel(2, 1, "pose", 1), Channel(3, 2, TriggerTopic, 0)>>
TriggerChannel == IF style = "chunked" THEN 2 ELSE 3

MutBuffered == TRUE                       \* nobody flushes
Buffered == style = "copper" /\ wpc \notin {"flush", "finish"}

(* Only a BufWriter lets the program run ahead of the file.                *)
CanProceed == Buffered \/ sink = << >>

(* add_schema, add_channel and write_to_known_channel: straight to the     *)
(* sink, or into the open chunk, which closes when it is full.  Seeking    *)
(* being disabled, nothing of an open chunk is on disk.                    *)
Write(items) ==
    /\ written' = written \o items
    /\ \/ /\ style # "chunked"
          /\ sink' = sink \o [k \in 1..Len(items) |-> Single(items[k])]
          /\ UNCHANGED chunk
       \/ /\ style = "chunked" /\ Len(chunk) + Len(items) < ChunkSize
          /\ chunk' = chunk \o items
          /\ UNCHANGED sink
       \/ /\ style = "chunked" /\ Len(chunk) + Len(items) >= ChunkSize
          /\ chunk' = << >>
          /\ sink' = Append(sink, Chunk(chunk \o items))

-----------------------------------------------------------------------------
WritersInit ==
    /\ style \in Styles
    /\ clock = EpochFloor
    /\ file = << >> /\ sink = << >> /\ chunk = << >>
    /\ wpc = "register"
    /\ sampled = EpochFloor
    /\ nextFire = IF style = "copper" THEN EpochFloor ELSE EpochFloor + Period
    /\ ticks = 0 /\ damage = 0
    /\ written = << >>

Tick ==
    /\ clock < MaxClock
    /\ clock' = clock + 1
    /\ UNCHANGED writerVars

Register ==
    /\ wpc = "register"
    /\ Write(Registration)
    /\ wpc' = "sample"
    /\ UNCHANGED <<style, clock, file, sampled, nextFire, ticks, damage>>

(* The top of the loop.  The copper graph stamps the capture time here.    *)
Sample ==
    /\ wpc = "sample" /\ CanProceed
    /\ ticks < MaxTicks
    /\ sampled' = clock
    /\ ticks' = ticks + 1
    /\ wpc' = "data"
    /\ UNCHANGED <<style, clock, file, sink, chunk, nextFire, damage, written>>

(* Saturating at 0, as the writer's subtraction does.                      *)
CapturedAt(t) == IF t < PublishOffset THEN 0 ELSE t - PublishOffset
PublishTime == IF style = "custom" THEN CapturedAt(sampled) ELSE sampled
(* cu-mcap-record stamps log_time at the write, the others once per loop.  *)
LogTime == IF style = "copper" THEN clock ELSE sampled
(* assert_absolute_unix_ns: a stamp below the floor panics.                *)
Plausible == style = "chunked" \/ PublishTime >= EpochFloor

(* One sample of every channel; cu-mcap-record has one of its two channels *)
(* per iteration, by whether the sensor produced a payload.                *)
WriteData ==
    /\ wpc = "data" /\ CanProceed /\ Plausible
    /\ LET n == Len(written) + 1
           on(ch, k) == Message(k, ch, LogTime, PublishTime)
       IN  \/ style = "copper" /\ \E ch \in {1, 2} : Write(<<on(ch, n)>>)
           \/ style = "custom" /\ Write(<<on(1, n), on(2, n + 1)>>)
           \/ style = "chunked" /\ Write(<<on(1, n)>>)
    /\ wpc' = "trigger"
    /\ UNCHANGED <<style, clock, file, sampled, nextFire, ticks, damage>>

(* The instant the schedule is compared with: the graph's own clock        *)
(* reading, or a fresh one.                                                *)
DueAt == IF style = "copper" THEN sampled ELSE clock

(* The next due instant: one period from now, once only, or the next of a  *)
(* fixed grid, skipping the periods missed in a stall.                     *)
NextFire ==
    CASE style = "copper" -> sampled + Period
      [] style = "custom" -> Never
      [] style = "chunked" -> nextFire + Period * (1 + (clock - nextFire) \div Period)

WriteTrigger ==
    /\ wpc = "trigger" /\ CanProceed
    /\ DueAt >= nextFire
    /\ Write(<<Message(Len(written) + 1, TriggerChannel, LogTime, PublishTime)>>)
    /\ nextFire' = NextFire
    /\ wpc' = "flush"
    /\ UNCHANGED <<style, clock, file, sampled, ticks, damage>>

NoTrigger ==
    /\ wpc = "trigger" /\ CanProceed
    /\ DueAt < nextFire
    /\ wpc' = "flush"
    /\ UNCHANGED <<style, clock, file, sink, chunk, sampled, nextFire, ticks,
                   damage, written>>

(* postprocess flushes; the writers without a buffer have nothing to flush. *)
Flushed ==
    /\ wpc = "flush" /\ CanProceed
    /\ wpc' = "sample"
    /\ UNCHANGED <<style, clock, file, sink, chunk, sampled, nextFire, ticks,
                   damage, written>>

(* Asked to stop, the loop ends after its sleep: the open chunk is closed, *)
(* the summary and footer are written.  A failed assertion unwinds, which  *)
(* drops the writer and with that finishes the file, too.                  *)
Finish ==
    /\ CanProceed
    /\ \/ wpc = "sample" /\ ticks > 0
       \/ wpc = "data" /\ ~Plausible
    /\ sink' = sink \o (IF chunk = << >> THEN <<Footer>> ELSE <<Chunk(chunk), Footer>>)
    /\ chunk' = << >>
    /\ wpc' = "finish"
    /\ UNCHANGED <<style, clock, file, sampled, nextFire, ticks, damage, written>>

Closed ==
    /\ wpc = "finish" /\ CanProceed
    /\ wpc' = "closed"
    /\ UNCHANGED <<style, clock, file, sink, chunk, sampled, nextFire, ticks,
                   damage, written>>

(* A signal or a power cut: what is in memory is lost.                     *)
Die ==
    /\ wpc \notin {"closed", "dead"}
    /\ wpc' = "dead"
    /\ sink' = << >> /\ chunk' = << >>
    /\ UNCHANGED <<style, clock, file, sampled, nextFire, ticks, damage, written>>

(* The last bytes of the next record reach the file.                       *)
Drain ==
    /\ sink # << >>
    /\ \E ok \in BOOLEAN :
         /\ ~ok => damage < MaxDamage /\ Head(sink) # Footer
         /\ file' = Append(file, [Head(sink) EXCEPT !.ok = ok])
         /\ damage' = IF ok THEN damage ELSE damage + 1
    /\ sink' = Tail(sink)
    /\ UNCHANGED <<style, clock, chunk, wpc, sampled, nextFire, ticks, written>>

WriterStep ==
    \/ Register \/ Sample \/ WriteData \/ WriteTrigger \/ NoTrigger \/ Flushed
    \/ Finish \/ Closed \/ Drain

WritersNext == WriterStep \/ Tick \/ Die

=============================================================================
