----------------------------- MODULE ProcessInv -----------------------------
(***************************************************************************)
(* The inductive invariant of module Process.  A permit is given back by   *)
(* whoever ends with it, so that permits and handlers agree only as long   *)
(* as no two handlers are one and the same element of running: what keeps  *)
(* them apart is where their triggers come from.  Triggers move from the   *)
(* recordings, or the topic, through the inbox and the interface's hands   *)
(* to a handler, and never overtake one another.                           *)
(***************************************************************************)
EXTENDS Process

Rec == [damaged : BOOLEAN, triggers : Seq(Logged)]
Scan == [file : Nat, upto : Nat, gone : BOOLEAN]

(* What the variables hold, in more detail than TypeOK has.                *)
Shapes ==
    /\ cell \in [interface : {"ros", "mcap"}, source : {"log", "publish"}]
    /\ files \in Seq(Seq(Rec))
    /\ applied \in Nat /\ read \in Nat /\ passing \in BOOLEAN
    /\ scanned \in Seq(Scan) /\ sent \in Seq(Place)
    /\ running \subseteq [src : Place, end : Nat] /\ IsFiniteSet(running)
    /\ ipc # "idle" => holding.trigger \in Trigger /\ holding.anchor \in Nat

(* Where the tap is not used there is nothing to scan.                     *)
UntappedIsEmpty == cell.interface = "ros" => files = << >>

(* The gate lets nothing by that would park past the last instant.         *)
SpawnIsBounded == ipc = "spawn" => holding.anchor + holding.trigger.post <= MaxTime

(* A tail that has ended scans nothing, a process that has has nobody.     *)
EndedIsEmpty ==
    /\ tail # "runs" => at = 0
    /\ at = 0 => ~passing /\ applied = 0 /\ scanned = << >> /\ sent = << >>
    /\ ~up => tail # "runs" /\ inbox = << >> /\ running = {} /\ ipc = "idle"

(* A recording with a younger one is written no more: one that was left    *)
(* for a true successor has been scanned to what is still its end.         *)
SucceededIsWhole ==
    \A n \in 1..Len(scanned) : Succeeded(n) => scanned[n].upto = Len(files[scanned[n].file])

(* Nothing is in this process that its source has not yet given.           *)
Position == IF passing THEN read ELSE applied
Reach(n) == IF n = Turn THEN Position ELSE scanned[n].upto
Behind(s) == at # 0 /\ s[1] \in 1..Turn /\ s[2] <= Reach(s[1])
Given(s) ==
    IF cell.interface = "ros" THEN s[1] = 0 /\ s[2] <= arrived
    ELSE tail = "runs" => Behind(s)
AllGiven ==
    /\ \A i \in 1..Len(inbox) : Given(inbox[i].src)
    /\ ipc # "idle" => Given(holding.trigger.src)
    /\ \A h \in running : Given(h.src)
    /\ \A i \in 1..Len(sent) : Behind(sent[i])

(* Triggers keep their order from the inbox to the handlers.               *)
InOrder ==
    /\ \A i, j \in 1..Len(inbox) : i < j => Earlier(inbox[i].src, inbox[j].src)
    /\ ipc # "idle" =>
         \A i \in 1..Len(inbox) : Earlier(holding.trigger.src, inbox[i].src)
    /\ \A h \in running : \A i \in 1..Len(inbox) : Earlier(h.src, inbox[i].src)
    /\ ipc # "idle" => \A h \in running : Earlier(h.src, holding.trigger.src)

ProcessInvariant ==
    /\ TypeOK
    /\ Shapes
    /\ UntappedIsEmpty
    /\ SpawnIsBounded
    /\ EndedIsEmpty
    /\ SucceededIsWhole
    /\ AllGiven
    /\ InOrder
    /\ PermitsMatch
    /\ LiftedOnce
=============================================================================
