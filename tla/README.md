# A TLA+ model of clipper

clipper cuts clips out of a recording while another process writes it. A recorder
(rosbag2, or a writer like `examples/cu-mcap-record`) appends to MCAP files in a record
directory; clipper tails them, keeps an index of what it has read, and for every trigger
waits until the index covers the trigger's time window, copies the window out of each
recording it overlaps, and publishes the result in `out_dir`.

This directory holds TLA+ modules for that program, TLC configurations that check them on
small instances, and TLAPS proofs. `PROJECT.json` says, for every definition, which source
lines it stands for. Paths below are relative to `src/crates/clipper/src/` unless they say
otherwise.

To check: `tlc -config Tail.cfg MCTail` and so on for each row of the table of runs,
`tlapm TailProofs.tla` and so on for each module named `*Proofs`.

## Inventory

| component | source | state | operations |
|---|---|---|---|
| tail | `tail.rs` | `TailState`: recordings in the order they were indexed, the current one; per recording state, offset, bounds, extents; fault count | seed at startup, index a new file, prune, unlink, scan a pass, retire and advance, publish coverage |
| discovery | `discover.rs`, `tail.rs` | the inodes seen | `newest_mcap`, `seeded`, `next`: the oldest unseen file; open by name |
| coverage | `watch.rs`, `tail.rs` | one log mark and one publish mark | raise, wait with a timeout |
| handler | `handler.rs` | its window, its plans, its staged clips | postroll sleep, coverage wait, plan, stage, trim, publish, announce |
| staging pool | `handler.rs` | a FIFO of jobs, one reply channel per job | take, copy, reply; panics caught |
| scan and index | `tail.rs` | per recording: extents with time spans, schemas, channels | scan a pass, absorb a record or a chunk, apply the delta, plan a window |
| copy | `clip.rs` | the output's channels, counts of what is left out | read planned extents back, filter, remap |
| publication | `clip.rs` | the capturing directory, `out_dir` | create, sync, link, unlink, sync the directory, reset at startup |
| gate and admission | `main.rs` | a count of permits | validate, take a permit, spawn, give back on drop |
| supervision | `main.rs`, `supervision.rs` | verdict channels, signal channel | exit with zero or not |
| interfaces | `interface.rs`, `decode.rs` | subscription, or the tap's channel | drain, decode, resolve the anchor |
| trigger tap | `tail.rs` | triggers staged in a chunk | lift while scanning |
| triggers | `trigger.rs`, `decode.rs`, `examples/trigger-pub` | payload, `trigger_time`, the record's stamps | publish, decode, flatten a stamp, echo |
| writers | `examples/cu-mcap-record`, `custom-mcap-writer`, `chunked-mcap-writer` | buffer or open chunk, the trigger's schedule | register, sample, write, fire, flush, finish |
| recorders, scripts | rosbag2, `scripts/` | the files and their names | create, append, close, die, wipe, prune |

How they interact: the tail thread and the handlers share `TailState` under one lock and the
coverage watch under another; a handler talks to the staging workers over channels; the
workers and handlers meet at the file system; the tail sends triggers to the interface
thread over the tap; the interface thread spawns handlers; `supervise` selects over the
verdicts of the tail and the interface and the signal channel. The recorder and clipper meet only in the
record directory, without any lock.

What is hard, and what makes each part correct:

* *The record directory has no lock.* Between two system calls of a poll the recorder may
  append, roll over, die, or have its directory wiped. Correct: files are read in the order
  they were written, none is given up before its end, and the one number that sums it up,
  coverage, never claims a message that was not read.
* *Retention beside extraction.* The tail drops and unlinks recordings while handlers wait,
  plan and copy. Correct: a clip released by coverage has every message of its window.
* *Publication.* Several handlers, one name, crashes and failures at every call. Correct: only
  complete clips, none replaced, what was announced survives a power failure, nothing is
  left behind that nobody will remove.
* *Resources and threads.* Permits, panics, failed spawns, dead threads. Correct: permits
  balance, admission recovers, no handler waits for ever, a dead tail becomes a restart.
* *Faults and retries.* A scan fault keeps its offset, a damaged chunk stays silent. Correct:
  a scan lifts each trigger of its recording once, and coverage is what is indexed, no more.
* *From bytes to clip.* Passes end anywhere, extents split by size, definitions stand far before
  the window, records are damaged. Correct: a clip is exactly the undamaged messages of its
  window, each on a channel as the recording defines it.
* *A directory is not a list.* It is read, its entries are stat'ed, a name is opened, and in between
  files come and go and inodes are given again. Correct: each recording is indexed once, in order, and
  what is passed over is passed over for a reason that can be named.
* *Two clocks and four anchors.* A sender's stamp, a record's, the arrival: which of them centres
  the window depends on two settings, and the system clock may be set. Correct: no anchor but the
  one that was meant, no handler parked beyond the limits of the gate.

`PROJECT.json` lists every hazard at its line, with the properties aimed at it, or why there
is none yet.

## Modules

| module | models |
|---|---|
| `Recorder` | the record directory and whoever writes it |
| `Tail` (extends `Recorder`) | `Tailer::run`, `poll_current`, the index, discovery, retention, coverage |
| `Clip` (extends `Tail`) | handlers from the trigger to the cut, beside the tail and the recorder |
| `Publish` | staging workers, handlers from the plan to the announcement, both directories |
| `ClipStore` | what publication promises; `Publish` implements it |
| `Process` | tap and subscription, gate, permits, handler threads, supervision, restart |
| `Refire` (extends `Process`) | what was on disk before a run began, for the finding about restarts |
| `Writers` | the three example recorders: loop, buffer or chunk, file |
| `Extract` (extends `Writers`) | scan pass, delta, index, plan and copy of one recording, and one handler |
| `Discovery` | reading the directory, stats, `newest_mcap`, `seeded`, `next`, the open by name |
| `Window` | payloads, stamps, decoding, anchors, the gate, the postroll sleep, the completion |
| `Ranks` | finite sets of numbers in ascending order, what `retain` leaves of a sequence |
| `TailInv`, `ClipInv`, `PublishInv`, `ProcessInv`, `DiscoveryInv`, `WindowInv`, `ExtractInv` | the inductive invariants |
| `TailProofs`, `ClipProofs`, `PublishProofs`, `ProcessProofs`, `DiscoveryProofs`, `WindowProofs`, `ExtractProofs` | theorems |
| `RankProofs` | lemmas about `Ranks` and sequences that the others cite |
| `MCTail`, `MCClip`, `MCPublish`, `MCProcess`, `MCRefire`, `MCExtract`, `MCDiscovery`, `MCWindow` | instances for TLC |

A definition named `MutX` is `X` with a plausible bug. No specification uses it; replacing
`X` by it must break the property `PROJECT.json` pairs it with.

### Recorder and Tail

A file is its creation number, which stands for its inode; `dir` maps names to files, so a
wiped name, a reused name and an open descriptor are three different things, as they are for
the code. Records are their two stamps. A recorder writes one file at a time and its log stamps
never fall (it stamps `log_time` when it writes; see `Recording::stamps` of cu-mcap-record).

The tail thread's `pc` is split wherever another process can show through: the two directory
reads at startup (`AdoptNone`, `Adopt`, `Seed`), each directory listing (`Discover`, `DiscoverNone`), the
prune under the lock (`Prune`), each unlink (`Unlink`), the length measured (`Measure`,
`PollTooShort`), the bytes read (`Scan`), the delta applied (`PublishCoverage`), and the
end signals (`Retire`, `FaultRecovered`, `VanishedBeforeMagic`, or `KeepTailing`, `Faulted`,
`NotReady`). What happens under one lock is one step; the state lock, which the prune loop
keeps until the last unlink, is `StateLocked`, and a handler's plan waits for it. The bounds,
extents and high-water marks of a recording are those of the records up to its offset, so they
are derived (`Scanned`, `HeldMessages`), not stored.

A listing is one step, but not a perfect one: it may overlook files (`Overlook`; `MaxMisses` bounds how many). That stands for a stat that fails (`discover.rs:96-98`, `77`),
for a directory that cannot be read when the iterator is seeded (`discover.rs:56`), for equal modification times whose order the listing decides, and for a file created while the
directory is read. What follows is the code's: `seen` keeps only what the listing showed (`Retained`, line 109), so that a known file is yielded and indexed again, the
backlog and the adopted file too, and an unknown one is indexed behind a younger one. The history `overlooked` names these files, and the properties say what holds nevertheless:

* `OldestFirst` and `FaultsAreCurrent` (and coverage that only rises and is backed) make no exception.
* `CoverageSound` and `FinishedIsReadOrBlocked` except `Skipped`: files without an entry that is `InTurn`, which is one with only younger files indexed behind it. `CoverageSound` also excepts
  `overlooked`, since the mark may have passed an older file when it is indexed.
* `EndedIsDrained` and `PrunedIsAged` speak of entries in turn. The tail takes whatever is indexed behind a recording for its successor (`has_successor`), the very same file included: one failed stat of the live file
  retires its first entry undrained while the recorder is still writing it.
* `LiveFileLinked` therefore excepts a file that is `Misled`: with such an entry it ages out and is unlinked under its writer.

Which event causes which of these, with the stats and the open as steps of their own and inode numbers that are used again, is `Discovery`. Two things stay there: that a name is opened later than it was
found (`Discover` does both), and that a new file may come under a number in `seen`. So the theorems about `Tail` and `Clip` speak of directories where a name does not change hands between the listing and the
open, and where a freed inode number is not given again while the tail remembers it.

### Clip

A handler sleeps through the postroll, waits for the mark of its time source to reach the end of
its window or for its grace to run out, takes one snapshot of the index under the lock
(`PlanWindow`), and has each planned recording copied up to its planned extent
(`StageSegments`), at any later time. The history variable `atPlan` keeps the clock and the directory of the
snapshot, so that `CutComplete` can speak about files that are pruned or unlinked before the
copy. How long grace is is left open: it can run out at any time. `SegmentsInOrder` excepts messages of an overlooked file, whose recording may stand behind a younger one.

### Publish and ClipStore

Names and contents are apart: `captured` and `out` map names to files, `content` says how much of
a file is there. Every system call can fail; a worker may panic; a power failure may tear what
was not synced and take names that were not synced into `out_dir`. `ClipStore` has only
clips that appear whole (`Put`), become durable (`Fix`), are told of when durable (`Tell`), or
are lost before (`Lose`); the refinement maps every file of `out_dir` to a clip.

### Process

Recordings are sequences of records that carry triggers, a message's or a chunk's. A pass sends the
triggers of each record as it reads it and keeps its offset when it ends, by a fault or not.
A run is a sequence of scans. `NextFile` leaves a recording when it is drained; when its name is gone or another's, with records
unread (`tail.rs:1034`, `1062`, `1078`); or for a file that is not younger, which discovery yields late or again and the tail takes for a
successor; and the next scan may be of any recording, one that was scanned before too. A trigger on its way is known by its scan, record, place and file (`Place`), and
`LiftedOnce` is stated of scans: each lifts what it passes exactly once and in order, and leaves nothing unread but for those two reasons. A recording that is yielded twice is lifted twice, which is what the code does.
`Refire` adds the records there were when a run began.
The anchor of each cell of interface and time source, the gate, the permit, the spawn and its failure, panics before
and after it, the death of each inner thread, the supervisor's choice among what is ready, and
an on-failure restart are actions. That another process restarts clipper is what
`main.rs` and `README.md` assume of systemd.

### Writers and Extract

`Tail` and `Clip` take a scanned record for a message in the index. `Extract` is what they
abstract from, for one recording. What a writer writes are items (a schema, a channel, a message), each with its place in the order
of writing; a record of the file holds one item, or is a chunk of them, or the footer, has a
flag for damage that leaves its framing intact, and counts as one byte. A pass applies `Consume` to one record after another
up to the length it measured (`Collecting` is what it has after each), or up to the record a read fails at (`ScanFaults`, with the stamps of a trigger taken
whose payload could not be read, as in `absorb_message`); `Apply` merges the delta under
the lock and raises the marks; a plan takes the extents whose span overlaps; the copy reads them back
from the file as it is then. Byte limits are record counts (`ExtentCap`, `ChunkSize`).

What is in the file is written by one of the `Writers`, which differ in what they can lose: cu-mcap-record runs ahead
of its file through a `BufWriter` that it flushes at the end of each iteration (`Flushed`), custom-mcap-writer
writes through and stamps a capture time before the log time, chunked-mcap-writer keeps the open chunk in memory.
`Drain` moves one record at a time from the sink to the file; `Die` loses the rest.

### Discovery

Where `Tail` has one listing, `Discovery` has `ReadDir`, a `Stat` for each entry, and an open by name (`IndexRecording`), with the
directory changing between any two. A file has an inode number which is free again when no name, no recorder and no handle of the
tail keeps it. The histories `lost`, `reused` and `again` gather, at the step where it happens, the files with which
something went wrong that the iterator cannot make good: left behind at startup, unreadable, opened under a name that had
changed hands, created under an inode number that the last walk still had. The properties except these files and no
others, so they say exactly which events the promise of `discover.rs` depends on.

### Window

`Process` takes a time for a number; `Window` has seconds and nanoseconds of their widths (`SecMax` is the last second that
fits, `as i32` wraps), instants up to `Top`, and two clocks: the system clock, which may be set, and elapsed time, which
`sleep` measures. Senders are the trigger publisher, the writers and any other (`Odd`: negative seconds, a set
`trigger_time`, an unknown encoding, an unsafe name, rolls past the limit). The gate reads the clock after the anchor has been resolved, and
the handler once more. The clock starts at the epoch (`Start`) and may be set to before it; `now_ns` then stands still at zero,
so a handler sleeps through what is missing as well, which the history `early` records. That a due sleeper runs before time goes on is an idealisation; `ParkIsBounded` bounds sleep, not scheduling.

## Runs

| run | instance | shows |
|---|---|---|
| tail | 2 files of 1 record, clock from 1 to 2, 2 faults, 1 overlooked file, recorders that may die before the magic | eight safety properties of the tail; `FinishedIsReadOrBlocked`, `AgedIsDropped` |
| clip_cut | 2 files, 2 records in all, clock to 3, one handler, a window across both | `CutComplete`, `SegmentsInOrder`, `PrunedIsAged` |
| clip_live | 1 file, which may be overlooked once, one handler | `TriggerIsCut` |
| publish | 2 handlers with one clip name, which an earlier clip has, 2 workers, 2 segments, 1 suffix, 1 crash | five safety properties, the refinement, `HandlerEnds` |
| process | 2 triggers, 2 recordings, 2 scans in a run, 2 runs, 1 permit | permits, the tap, admission, restart |
| extract | each writer: 2 or 3 iterations, up to 2 damaged records, up to 2 faulted passes, extents of 3 | coverage, lifted triggers, exact clips, nothing written left behind |
| discovery | 3 files, 2 names, 2 inodes, clock to 2, 1 failure | what is indexed, how often, in which order |
| window | 2 triggers, seconds to 1, a clock set by +1 and -2 | anchors and parking |
| tail_delete | names start over | finding: retention unlinks the live file |
| tail_stuck | a recorder may die before the magic | finding: a file without magic blocks the rest |
| refire | as process | finding: old triggers fire after a restart |
| discovery_reuse | as discovery, no failure | finding: a recording under a reused inode is never yielded |

Why the bounds are enough to be worth checking. The tail's properties relate two files (a rollover) and a
record before and after an offset: two files, one record each, is the first instance where each of them can fail but `PrunedIsAged`, which needs two records of one file and is checked in `clip_cut`.
With one overlooked file a recording is indexed again, adopted over a younger one, or indexed behind it; the 1.5 million states are eight times those without one. That instance takes about three minutes for its liveness; the safety properties and
the inductive invariant were also checked with two records per file (7.9 million states). The clock needs to pass the watch
floor once. A clip needs a window over two files, with the first aged out: clock 3 and watch 1.
Publication conflicts need two handlers with one name and two
workers on their jobs; with one suffix, two handlers of two segments use up the staging names, and two of one segment, behind the
earlier clip, the names in `out_dir`. The process needs a limit of one permit to be full, a
fault between two triggers, a second scan, of the same recording or the other, and a restart. In `extract` the bounds are given by
style, so that each writer meets what is hard for it: a chunk that closes within a run, an extent that ends within a chunk's stretch of the
file, a damaged definition. Discovery needs a file that goes, one that comes under its inode, and one in flight: three; its two names are symmetric, since nothing orders names. In
`window` every stamp from 4 on wraps, and the limits of roll and skew are 1. Each mutant is found inside these bounds.

All configurations turn deadlock checking off: the clock, the files, the triggers and the crashes are bounded, so
every instance ends.

### Fairness

* Tail: weak fairness of the thread's next step, since the OS schedules it; strong fairness of
  `Discover`, since a listing that fails now and then is tried at every poll. Faults are
  not obliged, and neither is the recorder. `FinishedIsReadOrBlocked` excepts the tail that stays for ever with a file whose recorder
  died before the magic (`Blocked`); `tail_stuck` shows that it must.
* Clip: time passes; unlinking under the lock ends; handlers get a lock that is released again
  and again (strong fairness). Neither the tail nor the recorder need do anything: the grace timeout alone
  must be enough.
* Publish: workers and handlers run. No failure is obliged.
* Process: time passes, handlers end once their window has, the callback between its permit and its spawn
  waits for nobody, `main` reacts to a verdict, a process that ended with an error is restarted. The tail and the
  interface have none.
* Extract: the writer's loop, and what is not held in a buffer reaches the file. The writer may be stopped or die; passes and handlers
  have no fairness, `WrittenIsOnDisk` does not speak of them.
* Discovery and Window state safety only.

## Proofs

The theorems hold for every value of the constants that the named assumptions (`TailAssumption`, `ClipAssumption`
and so on, one in each module that declares constants) allow: any number of files, names, records, handlers, workers,
triggers, faults and instants. The assumptions only type the constants, except that no handler may have the
name by which `Publish` calls the clips of earlier runs (`PublishAssumption`). One theorem has a hypothesis of its own, `LiveFileStays`.

| module | theorem | what it states |
|---|---|---|
| `TailProofs` | `TypeCorrect` | `TypeOK` |
| | `ScansOldestFirst` | `OldestFirst` |
| | `BudgetIsCurrent` | `FaultsAreCurrent` |
| | `RetiredIsDrained` | `EndedIsDrained` |
| | `DropsOnlyAged` | `PrunedIsAged` |
| | `CoverageCorrect`, `CoverageIsBacked`, `CoverageRises` | `CoverageSound`, `CoverageBacked`, `CoverageMonotone` |
| | `LiveFileStays` | `LiveFileLinked`, where names are not used again (`~ReuseNames`) |
| `ClipProofs` | `ClipTypeCorrect` | `ClipTypeOK` |
| | `ClipIsComplete` | `CutComplete` |
| | `SegmentsFollow` | `SegmentsInOrder` |
| | `ClipHasTail` | handlers take nothing from the tail: `ClipSpec => Spec` |
| `PublishProofs` | `PublishTypeCorrect` | `TypeOK` |
| | `ClipsAreWhole` | `OutIsComplete` |
| | `AnnouncedStays` | `AnnouncedIsDurable` |
| | `CapturingStaysReclaimed` | `CapturingIsReclaimed` |
| | `ClipsAreNeverReplaced` | `NeverReplaced`, an action property |
| | `PublicationIsAStore` | `StoreImplemented`: the refinement of `ClipStore` |
| `ProcessProofs` | `ProcessTypeCorrect` | `TypeOK` |
| | `PermitsAreHandlers` | `PermitsMatch` |
| | `TriggersLiftOnce` | `LiftedOnce` |
| `DiscoveryProofs` | `DiscoveryTypeCorrect` | `TypeOK` |
| | `NoneLeavesNothing` | `NoneIsExact` |
| | `IndexesOnce`, `IndexesInOrder` | `IndexedOnce`, `IndexedInOrder` |
| `ExtractProofs` | `ExtractTypeCorrect` | `TypeOK` |
| | `CoverageCorrect`, `LiftedCorrect` | `CoverageIsIndexed`, `LiftedExactly` |
| | `ClipCorrect` | `ClipIsExact` |
| | `CutCorrect` | `CutHasAllWritten`, from the writer's memory to the clip |
| `WindowProofs` | `WindowTypeCorrect` | `TypeOK` |
| | `AnchorsAreAsMeant` | `AnchoredAsMeant` |
| | `ParkingIsBounded` | `ParkIsBounded` |

Each module also proves its inductive invariant (`Invariance`, `ClipInvariance`, ...), on which the rest follows. In each, one
lemma per action, or per group of actions that touch the same things, shows that the invariant is kept. The MC modules extend the `*Inv`
modules, so that an invariant can be checked on the instance of a configuration before a change to the model is proved again;
all were. Why the properties are not inductive as they stand, and what is:

* **Tail** (`IInv`). That no unread message lies below the mark needs that stamps never fall over all files in creation order
  (`StampsSorted`), that the index has that order but for overlooked files (`EntriesInTurn`) and discovery will not bring an older file unless it was overlooked
  (`UnseenIsNewer`), that everything before the current recording has ended and
  everything behind it is untouched (`OldestFirst`), that what ended in turn was drained (`EndedIsDrained`),
  and that the mark is a stamp that was read (`MarkIsRead`). Drained-at-the-end in turn
  needs that a pass which measured a file with a footer, or with a true successor, measured its final length
  (`PassInv`): that is why the code may give up on a successor only after a pass that read
  nothing. Coverage rests on assumptions about the environment. Recorders write in order (`AppendRecord` takes a stamp not below the last, one writer at a time): two recorders in one directory would void it. And
  it holds of files that no listing overlooked and no name hid: a failed stat, an unreadable directory at startup, equal modification times, or a name or inode number that changes hands (see `Discovery`) can each bring a file behind
  the mark. That the fault budget is the current recording's (`FaultsAreCurrent`) follows from a count that every end of a recording resets; it says nothing of which passes of one recording are
  consecutive, so a reset missed after a clean pass would not show.
* **Clip** (`CInv`, on top of `IInv`). A clip is complete because of what was so earlier: coverage that releases a handler is past its
  window (`ReleasedIsCovered`) and only rises, so whatever the recorder writes afterwards is past it, too; the snapshot taken then has
  an extent for each message owed (`PlanComplete`), by `CoverageSound` and because the tail drops only what has aged
  (`PrunedIsAged`); a file only grows and a held descriptor keeps it, so copying later loses nothing.
  A plan is what is left of the index when it is filtered, which is in order because the index is: the lemmas of `RankProofs`.
* **Publish** (`PublishInvariant`). Files are reached by name and names are used again. A segment is with one party at a time: its handler, the queue, one worker, the reply
  (`OneAtATime`), and whoever has to publish or remove a name finds its own file under it, synced if staged (`WorkerOwns`, `ReplyOwns`, `StagedOwns`,
  `DroppingOwns`). Every file in the capturing directory is in one of those hands (`Reclaimed`), and what a handler lists as published is there
  (`PublishedIsOut`) and, once the directory is synced, durable (`Durability`). For the refinement, a clip of the store stands for what `out` has under its name.
* **Process** (`ProcessInvariant`). Permits agree with handlers only if no two handlers are one: what keeps them apart is their triggers' places,
  by scan and record, which keep their order from the tap to the handlers (`InOrder`) and are behind what their scan has reached (`AllGiven`; `Reach` of a scan that is over, the position of the pass for the one that is on).
  That a scan left for a true successor has left nothing needs that its recording is no longer written (`SucceededIsWhole`).
* **Discovery** (`DiscoveryInvariant`). A walk meets whatever was there when the directory was read, unless it goes or its stat fails (`WalkMeets`).
  An entry tells of one file, under its only name, at a time between its creation and its last write (`Tells`), and its inode number
  is that file's alone, or a file's that `reused` names (`StatsSound`). So a number in `seen` means that its file is known (`Remembered`), each file indexed
  or left behind has its number in `seen` as long as it is there (`NotAgain`), and a file older than an indexed one has had its turn (`TurnsKept`). The order
  follows from one writer at a time: a file is last written to before the next is created (`DiskSound`), so that the oldest mtime among the
  unseen is the oldest file's, or an equal one.
* **Window** (`WindowInvariant`). The anchor is followed from the sending to the handler (`AnchorOf`), within what the clock was set back by meanwhile. The bound
  on parking holds of a sum: what the window still lacks on the system clock and what has been slept on the other never make more than the gate's limits together,
  plus what the clock was set back by and what it lacked of the epoch at the admission (`SleepIsBounded`).
* **Extract** (`ExtractInvariant`), in three parts that hang together by the places of the items. *The writer*: what it was given, registration first, is held in
  the file, the sink and the open chunk, in this order, each item once and none missing before one that is there (`HeldInOrder`); log stamps rise (`StampsRise`); no
  record but the last is the footer. *The scan*: extents, closed and open, tile the file up to the offset without overlap, each with a span
  of the undamaged messages in its reach whose upper ends are stamps of theirs (`Tiled`, `IsSpan`), and a delta under way accounts for the file up to where it is (`Accounts`): the definitions and the trigger
  channels of its records, and what it and the passes before it have sent (`SentExactly`). A declaration precedes the messages on its channel, so the
  triggers that are known when a message is read are all there will be. *The handler*: every message of the window in the prefix that was indexed lies in a planned
  extent, since its stamp lies in that extent's span (`PlanInv`), and the copy, from extent to extent, record to record and item to item, has of what it has read exactly
  the messages that are wanted, in order, on a channel of the right definition (`ClipHas`). `CutHasAllWritten` then needs all of it: a message of the window that is missing from the indexed prefix
  would have been written before one that is in it and is stamped with the window's end or later, so it was on disk before, and was read. A pass and a copy go over
  sequences of any length; their loops are recursive functions of the number of records done, and what each has done is shown by induction over that number, stated of sets of numbers and proved from the least element of one (`WFMin`), since the library's
  induction theorems with an operator parameter cannot be used.

What the proofs showed of the models: `ParkIsBounded` used to leave out a clock that stands before the epoch, which the
instance could not reach and the proof would not pass; both the property and the instance now have it. A conjunct of `Process`'s `TypeOK` did not
bind as it read; it does now. `LiveFileLinked` needs that names are not used again, which is what `tail_delete` violates, and that the live file is not misled about: discovery must not yield it again, nor an older file behind it.
`CutHasAllWritten` used to excuse a missing message wherever any channel definition or chunk was damaged; it now asks that the damage be to the message's own record or its own channel's definition.

Only model-checked:

* Liveness (`FinishedIsReadOrBlocked`, `AgedIsDropped`, `TriggerIsCut`, `HandlerEnds`, `AdmissionRecovers`, `TailIsRestarted`,
  `WrittenIsOnDisk`): the prover has neither fairness nor ENABLED.

## What the code does otherwise than it says

Four runs end in a counterexample on purpose; each checks one sentence of a comment or a
document. `PROJECT.json` quotes them under `findings`: retention by path; a file without magic; triggers on disk
before a start; a recording under a reused inode.

Other divergences show as exceptions that the passing properties have to make:

* A recording whose name vanishes or is replaced after a pass measured its length is retired with records unread, though the comment
  at `tail.rs:1074` says nothing trailing is lost: `EndedIsDrained` and `FinishedIsReadOrBlocked` speak of linked files only.
* A handler that fails after it has published the first of several segments leaves it in `out_dir`, unannounced; ARCHITECTURE.md says a
  failed extraction leaves nothing there. `OutIsComplete` asks that what is there be complete.
* With a postroll of zero, a pass that stopped between two messages of the trigger's stamp has raised coverage to the window's end already,
  and the clip can be cut before the pass that lifted the trigger is applied, against the comment at `tail.rs:1121`:
  `CutComplete` and `CutHasAllWritten` except the stamp of the end.
* cu-mcap-record names its file by the second it starts in, "so repeated runs never collide"; a second run within the second truncates the first one's
  file (`main.rs:646`). `Writers` is one run.
* A negative `trigger_time` of whole seconds flattens to zero and passes the gate in the cells that ignore it, which refuse any other
  (`AnchoredAsMeant` excepts negative seconds).
* `trigger_time` left unset in the one cell that reads it is a valid anchor: the epoch.
* A stat that fails once makes discovery yield a file again (`IndexedOnce` excepts it), and a recording that cannot be opened once is never tried
  again (`NoneIsExact`). If the file is the live one, its second entry counts as its successor (`tail.rs:511`): the first is retired while its recorder writes, and when that has aged out
  `delete_old_files` unlinks the live file, against "never the current one" (`LiveFileLinked` excepts it). Its triggers fire again (`LiftedOnce` counts by scan).
* `seeded()` takes a directory it cannot read for an empty one (`discover.rs:56`): the backlog "deliberately not indexed", and the adopted file again, are then indexed behind what was adopted.

## Not modelled

* Bytes: record framing and its limits (`MAX_RECORD_LEN`), compression, CRC as such, the CDR and JSON encodings, the summary section
  of a clip. Framing that is damaged is a fault of the pass in `Tail` and `Process`, not in `Extract`.
* Extraction over several recordings with damage: `Clip` has several recordings, `Extract` has damage.
* A message with exactly the stamp of the window end: see above.
* Publish-domain completeness: `Coverage` documents the publish mark as a liveness signal only.
* 64-bit stamps outside `Window`; segment numbers stay below ten.
* `ScanDelta`'s own running marks and the skew it logs: nothing reads them but the log.
* Configuration, message definitions, launch files, simulation, packaging: no state of their own.
* In `Process`, file retention and coverage (they are in `Tail` and `Clip`), trigger
  names, and prerolls (they are in `Window`).

## Plan

1. *Core, done*: `Recorder`, `Tail`, the invariant and its proofs; `Clip`; `Publish` and `ClipStore`; `Process`.
2. *Extension, done*: `Discovery` below one listing; `Writers` and `Extract` from records to clip; `Window` from payload to parked handler;
   liveness of the tail beside any recorder.
3. *Proofs, done*: every safety property of `Tail`, `Clip`, `Publish`, `Process`, `Discovery`, `Window` and `Extract` that a run checks, the action
   properties, and the refinement of `ClipStore`.
4. *Next*: `Clip` as an abstraction of `Extract` for one recording, and what of liveness reduces to safety: that a thread with a step to take keeps it.
