------------------------------- MODULE Window -------------------------------
(***************************************************************************)
(* From what a sender says to the window a handler parks for: the payload  *)
(* of a trigger and the stamps of its record, decode_trigger, the anchor   *)
(* of each cell of --interface and --time-source, validate_trigger, the    *)
(* saturating ends of the window, the postroll sleep and the announcement. *)
(*                                                                         *)
(* Module Process has the threads and permits around this and takes a time *)
(* for a number.  Here a trigger_time is seconds and nanoseconds of their  *)
(* widths, an instant is a u64, and there are two clocks: the system clock *)
(* everything is stamped with, which may be set, and the time that passes, *)
(* which sleep() measures.                                                 *)
(***************************************************************************)
EXTENDS Integers, Sequences

CONSTANTS
    Start,          \* the system clock at first
    Duration,       \* bound: how long this goes on
    Arrivals,       \* bound: triggers ever sent
    Steps,          \* bound: how the clock may be set, one after the other
    SecLen,         \* nanoseconds in a second
    SecMax,         \* i32::MAX, the last second of a builtin_interfaces/Time
    Top,            \* u64::MAX
    MaxRoll,        \* MAX_ROLL_NS
    MaxSkew,        \* MAX_ANCHOR_FUTURE_SKEW_NS
    PublishOffset,  \* --publish-offset-ms of the custom writer
    Depth,          \* triggers the subscription keeps
    Rolls,          \* what senders ask for before and after the anchor
    Odd             \* payloads of any other sender

ASSUME WindowAssumption ==
    /\ Start \in Nat /\ Duration \in Nat /\ Arrivals \in Nat /\ Steps \in Seq(Int)
    /\ SecLen \in Nat \ {0} /\ SecMax \in Nat /\ Top \in Nat
    /\ MaxRoll \in Nat /\ MaxSkew \in Nat /\ PublishOffset \in Nat
    /\ Depth \in Nat \ {0} /\ Rolls \subseteq 0..Top
    /\ Odd \subseteq [enc : {"cdr", "json", "other"}, name : {"plain", "unsafe"},
                      stamp : [sec : Int, nanosec : Nat], pre : 0..Top, post : 0..Top]

VARIABLES
    cell,       \* --interface and --time-source
    elapsed,    \* time passed
    clock,      \* the system clock
    steps,      \* how often it was set
    back,       \* by how much in all it was set back
    arrived,    \* triggers sent
    inbox,      \* the subscription, or the tap
    holding,    \* the trigger between its anchor and the gate: at most one
    parked,     \* handlers asleep
    recorded    \* history: the completions handed to an announcer

time == <<elapsed, clock, steps, back>>
vars == <<cell, time, arrived, inbox, holding, parked, recorded>>

Least(a, b) == IF a < b THEN a ELSE b
(* now_ns: nanoseconds since the epoch, 0 before it, at most u64::MAX.     *)
NowAt(c) == IF c < 0 THEN 0 ELSE Least(c, Top)
Now == NowAt(clock)
SaturatingSub(a, b) == IF a < b THEN 0 ELSE a - b
MutSaturatingAdd(a, b) == (a + b) % (Top + 1)          \* wraps above the top
SaturatingAdd(a, b) == Least(a + b, Top)

-----------------------------------------------------------------------------
(* Payloads.                                                               *)

Unset == [sec |-> 0, nanosec |-> 0]
(* `as i32` keeps the low bits: after SecMax comes the most negative.      *)
Wrapped(s) == ((s + SecMax + 1) % (2 * (SecMax + 1))) - (SecMax + 1)
FromNs(ns) == [sec |-> Wrapped(ns \div SecLen), nanosec |-> ns % SecLen]
(* Negative seconds count as none; their nanoseconds still do.             *)
Ns(s) == (IF s.sec < 0 THEN 0 ELSE s.sec) * SecLen + s.nanosec
HasDecoder(enc) == enc \in {"cdr", "json"}

(* A trigger on its way: the payload, its record's stamps, and, for the    *)
(* properties, what its sender meant and when it was sent.                 *)
Sent(payload, log, pub) ==
    [enc |-> payload.enc, name |-> payload.name, stamp |-> payload.stamp,
     pre |-> payload.pre, post |-> payload.post,
     log |-> log, pub |-> pub, sent |-> Now, back |-> back]
Body(enc, stamp, pre, post) ==
    [enc |-> enc, name |-> "plain", stamp |-> stamp, pre |-> pre, post |-> post]

-----------------------------------------------------------------------------
(* Time.                                                                   *)

(* A sleeper that is due is scheduled before time goes on.                 *)
Tick ==
    /\ elapsed < Duration
    /\ \A h \in parked : elapsed < h.wake
    /\ elapsed' = elapsed + 1 /\ clock' = clock + 1
    /\ UNCHANGED <<cell, steps, back, arrived, inbox, holding, parked, recorded>>

(* Somebody sets the system clock.                                         *)
SetClock ==
    /\ steps < Len(Steps)
    /\ steps' = steps + 1
    /\ clock' = clock + Steps[steps + 1]
    /\ back' = back + SaturatingSub(0, Steps[steps + 1])
    /\ UNCHANGED <<cell, elapsed, arrived, inbox, holding, parked, recorded>>

-----------------------------------------------------------------------------
(* Senders.                                                                *)

Send(t) ==
    /\ arrived < Arrivals
    /\ arrived' = arrived + 1
    /\ inbox' = IF cell.interface = "ros" /\ Len(inbox) = Depth
                THEN Append(Tail(inbox), t) ELSE Append(inbox, t)
    /\ UNCHANGED <<cell, time, holding, parked, recorded>>

(* trigger-pub: a fixed or a random roll; stamped or not.                  *)
Publish ==
    /\ cell.interface = "ros"
    /\ \E pre, post \in Rolls, stamp \in {Unset, FromNs(Now)} :
         Send(Sent(Body("cdr", stamp, pre, post), Now, Now))

(* custom-mcap-writer: captured before it is written; may be stamped, too. *)
WriteCaptured ==
    /\ cell.interface = "mcap"
    /\ LET at == SaturatingSub(Now, PublishOffset)
       IN  \E roll \in Rolls, stamp \in {Unset, FromNs(at)} :
             Send(Sent(Body("json", stamp, roll, roll), Now, at))

(* cu-mcap-record and chunked-mcap-writer: never stamped.  (What the first *)
(* lets pass between capture and writing is in module Writers.)            *)
WriteUnstamped ==
    /\ cell.interface = "mcap"
    /\ \E roll \in Rolls : Send(Sent(Body("json", Unset, roll, roll), Now, Now))

(* Anybody else.                                                           *)
SendOdd == \E payload \in Odd : Send(Sent(payload, Now, Now))

-----------------------------------------------------------------------------
(* The interface.                                                          *)

MutReadsTriggerTime == cell.source = "publish"          \* both interfaces
ReadsTriggerTime == cell.interface = "ros" /\ cell.source = "publish"

Anchor(t) ==
    IF ReadsTriggerTime THEN Ns(t.stamp)
    ELSE IF cell.interface = "ros" THEN Now
    ELSE IF cell.source = "log" THEN t.log ELSE t.pub

(* A payload of the tap without a decoder, or malformed, is skipped; the   *)
(* subscription delivers typed triggers.                                   *)
Take ==
    /\ holding = << >> /\ inbox # << >>
    /\ inbox' = Tail(inbox)
    /\ LET t == Head(inbox)
       IN  holding' = IF cell.interface = "ros" \/ HasDecoder(t.enc)
                      THEN <<[trigger |-> t, anchor |-> Anchor(t), taken |-> Now,
                              back |-> back]>>
                      ELSE << >>
    /\ UNCHANGED <<cell, time, arrived, parked, recorded>>

(* The gate reads the clock once more.                                     *)
MutValid(t, anchor) ==                          \* the future is not looked at
    /\ ~ReadsTriggerTime => Ns(t.stamp) = 0
    /\ t.pre <= MaxRoll /\ t.post <= MaxRoll
    /\ t.name = "plain"
Valid(t, anchor) ==
    /\ ~ReadsTriggerTime => Ns(t.stamp) = 0
    /\ t.pre <= MaxRoll /\ t.post <= MaxRoll
    /\ anchor <= SaturatingAdd(Now, MaxSkew)
    /\ t.name = "plain"

Reject ==
    /\ holding # << >>
    /\ ~Valid(holding[1].trigger, holding[1].anchor)
    /\ holding' = << >>
    /\ UNCHANGED <<cell, time, arrived, inbox, parked, recorded>>

(* The handler starts with the wait for the end of its window.  For the    *)
(* properties: when, and how far the system clock stood before the epoch.  *)
Admit ==
    /\ holding # << >>
    /\ LET h == holding[1]
           t == h.trigger
       IN  /\ Valid(t, h.anchor)
           /\ parked' = parked \cup
                {[trigger |-> t, anchor |-> h.anchor, taken |-> h.taken, back |-> h.back,
                  from |-> SaturatingSub(h.anchor, t.pre),
                  to |-> SaturatingAdd(h.anchor, t.post),
                  since |-> elapsed, since_back |-> back, early |-> SaturatingSub(0, clock),
                  wake |-> elapsed]}
    /\ holding' = << >>
    /\ UNCHANGED <<cell, time, arrived, inbox, recorded>>

-----------------------------------------------------------------------------
(* The handler.                                                            *)

MutRemaining(h) == (h.to - Now) % (Top + 1)             \* wraps below zero
Remaining(h) == SaturatingSub(h.to, Now)

(* Back to sleep for what remains on the system clock: the sleep itself    *)
(* takes no notice when that is set.                                       *)
Sleep(h) ==
    /\ h.wake <= elapsed
    /\ Remaining(h) > 0
    /\ parked' = (parked \ {h}) \cup {[h EXCEPT !.wake = elapsed + Remaining(h)]}
    /\ UNCHANGED <<cell, time, arrived, inbox, holding, recorded>>

(* The trigger is echoed; what lies between, the clip, is in module Clip.  *)
Announce(h) ==
    /\ h.wake <= elapsed
    /\ Remaining(h) = 0
    /\ parked' = parked \ {h}
    /\ recorded' = recorded \cup {[name |-> h.trigger.name, stamp |-> h.trigger.stamp,
                                   pre |-> h.trigger.pre]}
    /\ UNCHANGED <<cell, time, arrived, inbox, holding>>

-----------------------------------------------------------------------------
Init ==
    /\ cell \in [interface : {"ros", "mcap"}, source : {"log", "publish"}]
    /\ elapsed = 0 /\ clock = Start /\ steps = 0 /\ back = 0
    /\ arrived = 0 /\ inbox = << >> /\ holding = << >>
    /\ parked = {} /\ recorded = {}

Sender == Publish \/ WriteCaptured \/ WriteUnstamped \/ SendOdd
Interface == Take \/ Reject \/ Admit
Next ==
    \/ Tick \/ SetClock
    \/ Sender
    \/ Interface
    \/ \E h \in parked : Sleep(h) \/ Announce(h)

Spec == Init /\ [][Next]_vars

-----------------------------------------------------------------------------
(* Correctness.                                                            *)

(* Instants fit the width they have, windows are not inside out, and an    *)
(* announcement is of something that may be asked for.                     *)
TypeOK ==
    /\ elapsed \in 0..Duration /\ steps \in 0..Len(Steps) /\ back \in Nat
    /\ arrived \in 0..Arrivals
    /\ Len(holding) \in {0, 1}
    /\ cell.interface = "ros" => Len(inbox) <= Depth
    /\ \A i \in DOMAIN inbox : {inbox[i].log, inbox[i].pub} \subseteq 0..Top
    /\ \A h \in parked : 0 <= h.from /\ h.from <= h.anchor /\ h.anchor <= h.to /\ h.to <= Top
    /\ \A r \in recorded : r.name = "plain" /\ r.pre <= MaxRoll

(* What the trigger of a handler says about its anchor.  A trigger_time    *)
(* that says something is never dropped in favour of another instant; in   *)
(* the log domain the anchor is the sending, or lies between that and the  *)
(* taking, or the clock was set back in between; in the publish domain it  *)
(* is the capture.                                                         *)
AsMeant(h) ==
    LET t == h.trigger
    IN  IF t.stamp # Unset THEN h.anchor = t.stamp.sec * SecLen + t.stamp.nanosec
        ELSE IF cell.interface = "mcap"
             THEN h.anchor = (IF cell.source = "log" THEN t.sent ELSE t.pub)
             ELSE t.sent - (h.back - t.back) <= h.anchor /\ h.anchor <= h.taken

(* Nothing but these gets past the gate with another anchor than meant: a  *)
(* trigger_time left unset where it is the anchor (the window is at the    *)
(* epoch), or one of negative seconds, which is what a writer's stamp      *)
(* turns into when the seconds no longer fit.                              *)
AnchoredAsMeant ==
    \A h \in parked :
        \/ AsMeant(h)
        \/ /\ cell = [interface |-> "ros", source |-> "publish"]
           /\ h.trigger.stamp = Unset /\ h.anchor = 0
        \/ h.trigger.stamp.sec < 0

(* The gate bounds how long one trigger can wedge a handler (main.rs, the  *)
(* comment on MAX_ANCHOR_FUTURE_SKEW_NS): no sleep lasts longer than both  *)
(* limits together, but for what the system clock was set back since, and  *)
(* for the time it took to reach the epoch, where now_ns stands still.     *)
ParkIsBounded ==
    \A h \in parked :
        elapsed - h.since <= MaxRoll + MaxSkew + h.early + (back - h.since_back)
=============================================================================
