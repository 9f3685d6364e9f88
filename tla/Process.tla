------------------------------- MODULE Process ------------------------------
(***************************************************************************)
(* The process around the tail and the handlers: how a trigger reaches a   *)
(* handler, how many handlers there may be, and how a dead thread becomes  *)
(* a restart.                                                              *)
(*                                                                         *)
(* Under --interface mcap the tail lifts triggers out of the files it      *)
(* scans and sends them down the tap; under ros they come from a           *)
(* subscription.  The interface thread takes one at a time, resolves its   *)
(* anchor, passes it through the gate, takes a permit and spawns the       *)
(* handler, which parks until its window has ended.  Module Tail has how   *)
(* the files are found and finished, module Clip what a handler does: here *)
(* a file is its records that matter to the tap, a handler its window end. *)
(* A file may be scanned again, which sends its triggers again: a trigger  *)
(* on its way is known by the scan it comes from.                          *)
(***************************************************************************)
EXTENDS Naturals, Sequences, FiniteSets

CONSTANTS
    Limit,          \* MAX_ACTIVE_TRIGGERS
    MaxRoll,        \* MAX_ROLL_NS
    MaxSkew,        \* MAX_ANCHOR_FUTURE_SKEW_NS
    Payloads,       \* live triggers: [time |-> trigger_time, post |-> postroll]
    Chunks,         \* records of a file: [damaged, triggers], each with its
                    \* publish stamp too
    Arrivals,       \* bound: triggers ever recorded or published
    LastTrigger,    \* bound: last instant one arrives, is taken or admitted
    MaxFiles,       \* bound: recordings
    MaxScans,       \* bound: recordings indexed in one run, one file twice or not
    MaxRuns         \* bound: runs of the process

ASSUME ProcessAssumption ==
    /\ Limit \in Nat \ {0}
    /\ MaxRoll \in Nat /\ MaxSkew \in Nat
    /\ Payloads \subseteq [time : Nat, post : Nat]
    /\ Chunks \subseteq [damaged : BOOLEAN, triggers : Seq([time : Nat, post : Nat, pub : Nat])]
    /\ Arrivals \in Nat /\ LastTrigger \in Nat
    /\ MaxFiles \in Nat /\ MaxScans \in Nat \ {0} /\ MaxRuns \in Nat \ {0}

VARIABLES
    cell,       \* configuration: --interface and --time-source
    clock,
    arrived,    \* triggers that came into being so far
    files,      \* recordings, each a sequence of records
    up, runs,   \* the process runs; runs so far
    code,       \* its last exit code
    signal,     \* the signal channel
    tail, iface,            \* each supervised thread runs or has ended; an
                            \* interface may also be deaf: see SpinEnds
    at,                     \* the file being scanned, 0 if none
    applied, read, passing, \* its recorded offset; the pass in flight
    scanned,    \* history: the scans of this run before this one, in order
    sent,       \* history: sources of the triggers lifted in this run
    inbox,      \* the tap, or the subscription's stream
    holding,    \* the trigger the interface is at, with its window end
    ipc,        \* where the interface thread is
    permits,    \* Admission.active
    running     \* the handlers

world == <<cell, clock, arrived, files>>
life == <<up, runs, code, signal>>
scanVars == <<scanned, at, applied, read, passing, sent>>
dispatchVars == <<holding, ipc, permits, running>>
vars == <<world, life, tail, iface, scanVars, inbox, dispatchVars>>

MaxTime == LastTrigger + MaxSkew + MaxRoll
(* Where a trigger comes from: the scan, the record, the place in it; and  *)
(* the file the scan is of.  What came live is of scan 0.                  *)
Place == Nat \X Nat \X Nat \X Nat
Logged == [time : Nat, post : Nat, log : 0..MaxTime, pub : Nat]
Trigger == [time : Nat, post : Nat, log : 0..MaxTime, pub : Nat, src : Place]
Nobody == [src |-> <<0, 0, 0, 0>>]

-----------------------------------------------------------------------------
(* The world outside: recorder, trigger sources, operator.                 *)

Tick ==
    /\ clock < MaxTime
    /\ clock' = clock + 1
    /\ UNCHANGED <<cell, arrived, files, life, tail, iface, scanVars, inbox, dispatchVars>>

(* Recordings matter to the tap: under ros there is none, and they are     *)
(* left out.                                                               *)
OpenFile ==
    /\ cell.interface = "mcap"
    /\ Len(files) < MaxFiles
    /\ files' = Append(files, << >>)
    /\ UNCHANGED <<cell, clock, arrived, life, tail, iface, scanVars, inbox, dispatchVars>>

(* A record with triggers: a message, or a chunk, which may be damaged.    *)
AppendRecord(chunk) ==
    LET f == Len(files)
        n == Len(chunk.triggers)
    IN  /\ files # << >>
        /\ arrived + n <= Arrivals /\ clock <= LastTrigger
        /\ arrived' = arrived + n
        /\ files' = [files EXCEPT ![f] = Append(@,
             [damaged |-> chunk.damaged,
              triggers |-> [k \in 1..n |->
                 [time |-> chunk.triggers[k].time, post |-> chunk.triggers[k].post,
                  log |-> clock, pub |-> chunk.triggers[k].pub]]])]
        /\ UNCHANGED <<cell, clock, life, tail, iface, scanVars, inbox, dispatchVars>>

(* A live trigger: nobody keeps it for a process that is not there.        *)
PublishTrigger(body) ==
    /\ cell.interface = "ros"
    /\ up /\ iface = "runs"
    /\ arrived < Arrivals /\ clock <= LastTrigger
    /\ arrived' = arrived + 1
    /\ inbox' = Append(inbox, [time |-> body.time, post |-> body.post, log |-> clock,
                               pub |-> clock, src |-> <<0, arrived + 1, 1, 0>>])
    /\ UNCHANGED <<cell, clock, files, life, tail, iface, scanVars, dispatchVars>>

(* SIGINT or SIGTERM, or the forwarder thread is gone.                     *)
Signal(how) ==
    /\ up /\ signal = "none"
    /\ signal' = how
    /\ UNCHANGED <<world, up, runs, code, tail, iface, scanVars, inbox, dispatchVars>>

-----------------------------------------------------------------------------
(* The tail thread, as far as the tap sees it.                             *)

(* Scanning starts, or goes on, where the applied offset says.             *)
BeginPass ==
    /\ up /\ tail = "runs" /\ ~passing
    /\ at # 0
    /\ passing' = TRUE
    /\ read' = applied
    /\ UNCHANGED <<world, life, tail, iface, scanned, at, applied, sent, inbox,
                   dispatchVars>>

MutEmitted(r) == r.triggers                       \* sent before the CRC is known
(* A damaged chunk emits nothing.                                          *)
Emitted(r) == IF r.damaged THEN << >> ELSE r.triggers

Turn == Len(scanned) + 1                       \* the number of this scan
Lifted(t, src) ==
    [time |-> t.time, post |-> t.post, log |-> t.log, pub |-> t.pub, src |-> src]

Lift ==
    /\ up /\ tail = "runs" /\ passing
    /\ read < Len(files[at])
    /\ read' = read + 1
    /\ LET emitted == Emitted(files[at][read + 1])
           from(k) == <<Turn, read + 1, k, at>>
           lifted == [k \in DOMAIN emitted |-> Lifted(emitted[k], from(k))]
       IN /\ sent' = sent \o [k \in DOMAIN emitted |-> from(k)]
          /\ inbox' = IF iface # "ended" THEN inbox \o lifted ELSE inbox
    /\ UNCHANGED <<world, life, tail, iface, scanned, at, applied, passing, dispatchVars>>

MutResume(fault) == IF fault THEN applied ELSE read       \* the pass is discarded
Resume(fault) == read

(* The pass ends at what it measured or at a fault; both apply its delta.  *)
EndPass ==
    /\ up /\ tail = "runs" /\ passing
    /\ \E fault \in BOOLEAN : applied' = Resume(fault)
    /\ passing' = FALSE /\ read' = 0
    /\ UNCHANGED <<world, life, tail, iface, scanned, at, sent, inbox, dispatchVars>>

(* The first recording to appear after a start that adopted none.          *)
FirstFile ==
    /\ up /\ tail = "runs"
    /\ at = 0 /\ at' \in DOMAIN files
    /\ UNCHANGED <<world, life, tail, iface, scanned, applied, read, passing, sent, inbox,
                   dispatchVars>>

(* To the next recording, from its first record on.  One is finished when  *)
(* it is drained; one whose name is gone, or another's, is given up with   *)
(* records unread, and so is one behind which an older file is indexed, or *)
(* the very same again: the tail takes either for its successor.           *)
NextFile ==
    /\ up /\ tail = "runs" /\ ~passing
    /\ at # 0 /\ Turn < MaxScans
    /\ \E next \in DOMAIN files, gone \in BOOLEAN :
         /\ applied = Len(files[at]) \/ gone \/ next <= at
         /\ gone => applied # Len(files[at])     \* of no interest else
         /\ at' = next
         /\ scanned' = Append(scanned, [file |-> at, upto |-> applied, gone |-> gone])
    /\ applied' = 0
    /\ UNCHANGED <<world, life, tail, iface, read, passing, sent, inbox, dispatchVars>>

NoScan ==
    /\ at' = 0 /\ applied' = 0 /\ read' = 0 /\ passing' = FALSE
    /\ scanned' = << >> /\ sent' = << >>

(* An error, or a panic; where it was is of no use to anybody.             *)
TailEnds ==
    /\ up /\ tail = "runs"
    /\ tail' = "ended"
    /\ NoScan
    /\ UNCHANGED <<world, life, iface, inbox, dispatchVars>>

-----------------------------------------------------------------------------
(* The interface thread and its callback.                                  *)

FromTriggerTime == cell.interface = "ros" /\ cell.source = "publish"
(* The anchor: the record's own stamp, now, or the trigger_time.           *)
Anchor(t) ==
    IF FromTriggerTime THEN t.time
    ELSE IF cell.interface = "ros" THEN clock
    ELSE IF cell.source = "log" THEN t.log ELSE t.pub

Take ==
    /\ up /\ iface # "ended" /\ ipc = "idle"
    /\ inbox # << >> /\ clock <= LastTrigger
    /\ inbox' = Tail(inbox)
    /\ holding' = [trigger |-> Head(inbox), anchor |-> Anchor(Head(inbox))]
    /\ ipc' = "gate"
    /\ UNCHANGED <<world, life, tail, iface, scanVars, permits, running>>

(* An undecodable trigger of the tap is skipped.                           *)
Skip ==
    /\ up /\ iface # "ended" /\ ipc = "idle"
    /\ cell.interface = "mcap"
    /\ inbox # << >>
    /\ inbox' = Tail(inbox)
    /\ UNCHANGED <<world, life, tail, iface, scanVars, dispatchVars>>

MutValid(t, anchor) ==                            \* any anchor will do
    /\ t.time # 0 => FromTriggerTime
    /\ t.post <= MaxRoll
(* The gate.  (Names, and prerolls, are checked too: nothing here differs.) *)
Valid(t, anchor) ==
    /\ t.time # 0 => FromTriggerTime
    /\ t.post <= MaxRoll
    /\ anchor <= clock + MaxSkew

Back == ipc' = "idle" /\ holding' = Nobody

Reject ==
    /\ up /\ iface # "ended" /\ ipc = "gate"
    /\ \/ ~Valid(holding.trigger, holding.anchor)
       \/ permits >= Limit
    /\ Back
    /\ UNCHANGED <<world, life, tail, iface, scanVars, inbox, permits, running>>

(* try_acquire is one atomic update.                                       *)
Admit ==
    /\ up /\ iface # "ended" /\ ipc = "gate"
    /\ Valid(holding.trigger, holding.anchor)
    /\ permits < Limit /\ clock <= LastTrigger
    /\ permits' = permits + 1
    /\ ipc' = "spawn"
    /\ UNCHANGED <<world, life, tail, iface, scanVars, inbox, holding, running>>

Spawn ==
    /\ up /\ iface # "ended" /\ ipc = "spawn"
    /\ running' = running \cup
         {[src |-> holding.trigger.src, end |-> holding.anchor + holding.trigger.post]}
    /\ Back
    /\ UNCHANGED <<world, life, tail, iface, scanVars, inbox, permits>>

MutReturned(n) == n                               \* mem::forget
Returned(n) == n - 1

(* The closure that never ran is dropped, and the permit in it.            *)
SpawnFails ==
    /\ up /\ iface # "ended" /\ ipc = "spawn"
    /\ permits' = Returned(permits)
    /\ Back
    /\ UNCHANGED <<world, life, tail, iface, scanVars, inbox, running>>

(* The thread that spins the ROS node dies: nothing is delivered any more, *)
(* but what was is drained until the process ends.                         *)
SpinEnds ==
    /\ up /\ iface = "runs"
    /\ cell.interface = "ros"
    /\ iface' = "deaf"
    /\ UNCHANGED <<world, life, tail, scanVars, inbox, dispatchVars>>

(* The stream ends, or the callback panics, and unwinds through the permit *)
(* it may hold.                                                            *)
InterfaceEnds ==
    /\ up /\ iface # "ended"
    /\ iface' = "ended"
    /\ permits' = IF ipc = "spawn" THEN Returned(permits) ELSE permits
    /\ inbox' = << >>
    /\ Back
    /\ UNCHANGED <<world, life, tail, scanVars, running>>

-----------------------------------------------------------------------------
(* A handler: parks until its window has ended, cuts, and is gone.         *)

Gone(h) ==
    /\ running' = running \ {h}
    /\ permits' = Returned(permits)
    /\ UNCHANGED <<world, life, tail, iface, scanVars, inbox, holding, ipc>>

Finish(h) == up /\ h.end <= clock /\ Gone(h)

Panic(h) == up /\ Gone(h)

-----------------------------------------------------------------------------
(* The supervisor.                                                         *)

MutCodeOf(who) == IF who = "interface" THEN "nonzero" ELSE "zero"  \* a clean stop
CodeOf(who) == IF who = "signal" /\ signal = "sent" THEN "zero" ELSE "nonzero"

(* select! over whichever is ready; leaving main kills every thread.       *)
Exit ==
    /\ up
    /\ \E who \in {"tail", "interface", "signal"} :
         /\ who = "tail" => tail # "runs"
         /\ who = "interface" => iface # "runs"
         /\ who = "signal" => signal # "none"
         /\ code' = CodeOf(who)
    /\ up' = FALSE /\ signal' = "none"
    /\ tail' = "ended" /\ iface' = "ended"
    /\ NoScan /\ inbox' = << >>
    /\ running' = {} /\ permits' = 0
    /\ Back
    /\ UNCHANGED <<world, runs>>

(* systemd's on-failure restart: the newest file there is, or the newest   *)
(* it sees, is adopted, from its first record on.                          *)
Restart ==
    /\ ~up /\ code = "nonzero"
    /\ runs < MaxRuns
    /\ up' = TRUE /\ runs' = runs + 1
    /\ tail' = "runs" /\ iface' = "runs"
    /\ at' \in {0} \cup DOMAIN files
    /\ UNCHANGED <<world, code, signal, scanned, applied, read, passing, sent, inbox, dispatchVars>>

-----------------------------------------------------------------------------
Init ==
    /\ cell \in [interface : {"ros", "mcap"}, source : {"log", "publish"}]
    /\ clock = 0 /\ arrived = 0 /\ files = << >>
    /\ up = TRUE /\ runs = 1 /\ code = "none" /\ signal = "none"
    /\ tail = "runs" /\ iface = "runs"
    /\ scanned = << >> /\ at = 0 /\ applied = 0 /\ read = 0 /\ passing = FALSE
    /\ sent = << >> /\ inbox = << >>
    /\ holding = Nobody /\ ipc = "idle"
    /\ permits = 0 /\ running = {}

Outside ==
    \/ Tick \/ OpenFile
    \/ \E b \in Payloads : PublishTrigger(b)
    \/ \E chunk \in Chunks : AppendRecord(chunk)
    \/ \E how \in {"sent", "broken"} : Signal(how)

TailStep == BeginPass \/ Lift \/ EndPass \/ FirstFile \/ NextFile
InterfaceStep == Take \/ Skip \/ Reject \/ Admit \/ Spawn \/ SpawnFails

Next ==
    \/ Outside
    \/ TailStep
    \/ InterfaceStep
    \/ TailEnds \/ SpinEnds \/ InterfaceEnds
    \/ \E h \in running : Finish(h) \/ Panic(h)
    \/ Exit
    \/ Restart

Spec == Init /\ [][Next]_vars

(* Time passes; handlers, main and the callback between its permit and its *)
(* spawn wait for nobody; whoever restarts the process does so.  (Only one *)
(* of Exit and Restart is ever enabled.)                                   *)
FairSpec ==
    /\ Spec
    /\ WF_vars(Tick) /\ WF_vars(\E h \in running : Finish(h))
    /\ WF_vars(Spawn \/ SpawnFails) /\ WF_vars(Exit \/ Restart)

-----------------------------------------------------------------------------
(* Correctness.                                                            *)

TypeOK ==
    /\ clock \in 0..MaxTime /\ arrived \in 0..Arrivals
    /\ \A f \in DOMAIN files : \A r \in DOMAIN files[f] :
         files[f][r].triggers \in Seq(Logged)
    /\ up \in BOOLEAN /\ runs \in 1..MaxRuns
    /\ code \in {"none", "zero", "nonzero"} /\ signal \in {"none", "sent", "broken"}
    /\ tail \in {"runs", "ended"} /\ iface \in {"runs", "deaf", "ended"}
    /\ at \in 0..Len(files)
    /\ \A n \in DOMAIN scanned :
         scanned[n].file \in DOMAIN files /\ scanned[n].upto \in 0..Len(files[scanned[n].file])
    /\ at # 0 => Turn <= MaxScans
    /\ at # 0 => applied \in 0..Len(files[at]) /\ read \in Nat
    /\ passing => read \in applied..Len(files[at])
    /\ inbox \in Seq(Trigger)
    /\ ipc \in {"idle", "gate", "spawn"}
    /\ \A h \in running : h.end <= MaxTime

(* Permits taken and handlers alive agree, and there are never more than   *)
(* the limit: whatever panics or fails to start gives its permit back.     *)
PermitsMatch ==
    /\ permits = Cardinality(running) + (IF ipc = "spawn" THEN 1 ELSE 0)
    /\ permits <= Limit

(* How far the scans of this run have come.  One that was left for a true  *)
(* successor has passed everything.                                        *)
ScanOf(n) == IF n = Turn THEN at ELSE scanned[n].file
Succeeded(n) == n < Turn /\ ~scanned[n].gone /\ ScanOf(n) < ScanOf(n + 1)
Passed(n, r) ==
    \/ Succeeded(n)
    \/ n < Turn /\ r <= scanned[n].upto
    \/ n = Turn /\ r <= (IF passing THEN read ELSE applied)
Earlier(a, b) ==
    \/ a[1] < b[1]
    \/ a[1] = b[1] /\ a[2] < b[2]
    \/ a[1] = b[1] /\ a[2] = b[2] /\ a[3] < b[3]

(* Every scan lifts the triggers of the records it passed exactly once and *)
(* in order, faulted passes and their retries included, and none of a      *)
(* damaged chunk; and it leaves a recording with triggers unread only if   *)
(* that is gone from the directory, or for a file that is not younger.     *)
(* Hence a trigger is sent twice in one run only where discovery yields a  *)
(* file twice, and then once more with every scan of it.                   *)
LiftedOnce ==
    at # 0 =>
        /\ \A i, j \in DOMAIN sent : i < j => Earlier(sent[i], sent[j])
        /\ \A n \in 1..Turn : LET f == ScanOf(n) IN
             \A r \in DOMAIN files[f] : \A k \in DOMAIN files[f][r].triggers :
                 (\E i \in DOMAIN sent : sent[i] = <<n, r, k, f>>)
                   <=> Passed(n, r) /\ ~files[f][r].damaged

(* Admission recovers: the gate keeps every window end near enough that    *)
(* no handler holds its permit for ever.                                   *)
AdmissionRecovers == permits = Limit ~> permits < Limit

(* A dead tail does not go unnoticed: unless the operator stopped it, the  *)
(* process is restarted with one that runs.                                *)
TailIsRestarted ==
    up /\ tail # "runs" ~>
        \/ up /\ tail = "runs"
        \/ signal = "sent"
        \/ runs = MaxRuns
=============================================================================
