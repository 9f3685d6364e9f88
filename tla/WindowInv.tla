------------------------------ MODULE WindowInv -----------------------------
(***************************************************************************)
(* The inductive invariant of module Window.  It follows an anchor from    *)
(* the sending to the handler, and a handler's sleep from its admission:   *)
(* what is left until the end of its window, and what it has slept, never  *)
(* make more than what the gate lets pass, whatever the system clock does. *)
(***************************************************************************)
EXTENDS Window

Instant == 0..Top
Stamp == [sec : Int, nanosec : Nat]
Payload == [enc : {"cdr", "json", "other"}, name : {"plain", "unsafe"}, stamp : Stamp,
            pre : Instant, post : Instant]
Trigger == [enc : {"cdr", "json", "other"}, name : {"plain", "unsafe"}, stamp : Stamp,
            pre : Instant, post : Instant, log : Instant, pub : Instant,
            sent : Instant, back : Nat]
Held == [trigger : Trigger, anchor : Nat, taken : Instant, back : Nat]
Parked == [trigger : Trigger, anchor : Instant, taken : Instant, back : Nat,
           from : Instant, to : Instant, since : Nat, since_back : Nat, early : Nat,
           wake : Nat]

(* What the variables hold, in more detail than TypeOK has.                *)
Shapes ==
    /\ cell \in [interface : {"ros", "mcap"}, source : {"log", "publish"}]
    /\ clock \in Int
    /\ inbox \in Seq(Trigger)
    /\ holding \in Seq(Held)
    /\ parked \subseteq Parked

(* A record's log stamp is its sending, and by no more than it was set     *)
(* back since is the system clock before that.                             *)
SentBefore(t) ==
    /\ t.log = t.sent /\ t.back <= back
    /\ t.sent <= Now + (back - t.back)

(* Where an anchor comes from, as the cell has it.                         *)
AnchorOf(h) ==
    LET t == h.trigger
    IN  IF ReadsTriggerTime THEN h.anchor = Ns(t.stamp)
        ELSE IF cell.interface = "ros"
             THEN t.sent - (h.back - t.back) <= h.anchor /\ h.anchor <= h.taken
             ELSE h.anchor = (IF cell.source = "log" THEN t.sent ELSE t.pub)

Anchoring ==
    /\ \A i \in 1..Len(inbox) : SentBefore(inbox[i])
    /\ \A i \in 1..Len(holding) : AnchorOf(holding[i])
    /\ \A h \in parked : AnchorOf(h)

(* What the gate has checked of a handler's trigger.                       *)
Admitted ==
    \A h \in parked :
        /\ ~ReadsTriggerTime => Ns(h.trigger.stamp) = 0
        /\ h.trigger.pre <= MaxRoll /\ h.trigger.name = "plain"

(* How long a handler may sleep in all; what it has slept, and sleeps      *)
(* still, on either clock.                                                 *)
Longest(h) == MaxRoll + MaxSkew + h.early + (back - h.since_back)
SleepIsBounded ==
    \A h \in parked :
        /\ h.since_back <= back
        /\ (h.to - clock) + (elapsed - h.since) <= Longest(h)
        /\ elapsed <= h.wake
        /\ h.wake - h.since <= Longest(h)

WindowInvariant ==
    /\ TypeOK
    /\ Shapes
    /\ Anchoring
    /\ Admitted
    /\ SleepIsBounded
=============================================================================
