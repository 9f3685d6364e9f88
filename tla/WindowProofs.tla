---------------------------- MODULE WindowProofs ----------------------------
(***************************************************************************)
(* Theorems about Window, for every value of its constants.                *)
(***************************************************************************)
EXTENDS WindowInv, RankProofs

-----------------------------------------------------------------------------
(* Instants, stamps and the clock.                                         *)
LEMMA Widths ==
    /\ SecLen \in Nat \ {0} /\ SecMax \in Nat /\ Top \in Nat
    /\ MaxRoll \in Nat /\ MaxSkew \in Nat /\ PublishOffset \in Nat
    /\ Start \in Nat /\ Duration \in Nat /\ Arrivals \in Nat /\ Depth \in Nat \ {0}
    /\ Rolls \subseteq Instant
BY WindowAssumption DEF Instant

LEMMA StepFacts ==
    /\ Len(Steps) \in Nat
    /\ \A i \in 1..Len(Steps) : Steps[i] \in Int
<1>1. Steps \in Seq(Int)  BY WindowAssumption
<1> QED BY <1>1, SeqElements

LEMMA Saturates ==
    /\ \A a, b \in Nat : /\ SaturatingSub(a, b) \in Nat
                         /\ SaturatingSub(a, b) <= a /\ a <= SaturatingSub(a, b) + b
    /\ \A a \in Instant, b \in Nat :
         /\ SaturatingAdd(a, b) \in Instant
         /\ a <= SaturatingAdd(a, b) /\ SaturatingAdd(a, b) <= a + b
    /\ \A d \in Int : SaturatingSub(0, d) \in Nat /\ SaturatingSub(0, d) >= -d
BY Widths DEF SaturatingSub, SaturatingAdd, Least, Instant

LEMMA NowType == \A c \in Int : NowAt(c) \in Instant
BY Widths DEF NowAt, Least, Instant

(* When the clock moves by d, what it says goes back by no more than -d.   *)
LEMMA NowMoves ==
    \A c, d \in Int : NowAt(c) <= NowAt(c + d) + SaturatingSub(0, d)
BY Widths DEF NowAt, Least, SaturatingSub

(* Below the top, the clock stands no later than what it says; what it     *)
(* says is ahead of it only before the epoch.                              *)
LEMMA NowIsClock ==
    \A c \in Int : /\ NowAt(c) < Top => c <= NowAt(c)
                   /\ NowAt(c) <= c + SaturatingSub(0, c)
BY Widths DEF NowAt, Least, SaturatingSub

LEMMA NsType == \A s \in Stamp : Ns(s) \in Nat
<1> SUFFICES ASSUME NEW s \in Stamp PROVE Ns(s) \in Nat
  OBVIOUS
<1>1. s.sec \in Int /\ s.nanosec \in Nat /\ SecLen \in Nat  BY Widths DEF Stamp
<1>2. \A n \in Nat : n * SecLen \in Nat  BY <1>1
<1> QED BY <1>1, <1>2 DEF Ns

(* What counts for nothing is unset, or before the epoch.                  *)
LEMMA NsIsZero ==
    ASSUME NEW s \in Stamp, Ns(s) = 0
    PROVE  s = Unset \/ s.sec < 0
<1>1. s.sec \in Int /\ s.nanosec \in Nat /\ SecLen \in Nat \ {0}  BY Widths DEF Stamp
<1>2. \A n \in Nat : n * SecLen \in Nat /\ (n # 0 => n * SecLen # 0)  BY <1>1
<1>3. CASE s.sec >= 0
  <2>1. s.sec \in Nat /\ Ns(s) = s.sec * SecLen + s.nanosec  BY <1>1, <1>3 DEF Ns
  <2>2. s.sec * SecLen \in Nat  BY <1>2, <2>1
  <2>3. s.sec * SecLen = 0 /\ s.nanosec = 0  BY <1>1, <2>1, <2>2
  <2>4. s.sec = 0  BY <1>2, <2>1, <2>3
  <2> QED BY <2>3, <2>4 DEF Stamp, Unset
<1> QED BY <1>1, <1>3

LEMMA FromNsType == \A ns \in Instant : FromNs(ns) \in Stamp
<1> SUFFICES ASSUME NEW ns \in Instant PROVE FromNs(ns) \in Stamp
  OBVIOUS
<1>1. ns \in Nat /\ SecLen \in Nat \ {0} /\ SecMax \in Nat  BY Widths DEF Instant
<1>2. ns % SecLen \in Nat /\ ns \div SecLen \in Int  BY <1>1
<1>3. 2 * (SecMax + 1) \in Nat \ {0}  BY <1>1
<1>4. \A x \in Int : x % (2 * (SecMax + 1)) \in Int  BY <1>3
<1>5. \A x \in Int : Wrapped(x) \in Int  BY <1>1, <1>4 DEF Wrapped
<1> QED BY <1>2, <1>5 DEF FromNs, Stamp

-----------------------------------------------------------------------------
(* Triggers.                                                               *)
LEMMA TriggerFacts ==
    ASSUME NEW t \in Trigger
    PROVE  /\ t.stamp \in Stamp /\ t.pre \in Instant /\ t.post \in Instant
           /\ t.log \in Instant /\ t.pub \in Instant /\ t.sent \in Instant /\ t.back \in Nat
BY DEF Trigger

LEMMA InboxFacts ==
    ASSUME Shapes
    PROVE  /\ Len(inbox) \in Nat /\ DOMAIN inbox = 1..Len(inbox)
           /\ \A i \in 1..Len(inbox) : inbox[i] \in Trigger
           /\ Len(holding) \in Nat
           /\ \A i \in 1..Len(holding) : holding[i] \in Held
<1>1. inbox \in Seq(Trigger) /\ holding \in Seq(Held)  BY DEF Shapes
<1> QED BY <1>1, SeqElements

(* Every payload that is sent is one, and its record says when.            *)
LEMMA SentType ==
    ASSUME NEW p \in Payload, NEW pub \in Instant, clock \in Int, back \in Nat
    PROVE  /\ Sent(p, Now, pub) \in Trigger
           /\ SentBefore(Sent(p, Now, pub))
<1>1. Now \in Instant  BY NowType DEF Now
<1>2. Sent(p, Now, pub) \in Trigger
  <2>1. /\ p.enc \in {"cdr", "json", "other"} /\ p.name \in {"plain", "unsafe"}
        /\ p.stamp \in Stamp /\ p.pre \in Instant /\ p.post \in Instant
    BY DEF Payload
  <2> QED BY <1>1, <2>1 DEF Sent, Trigger
<1>3. SentBefore(Sent(p, Now, pub))
  <2>1. Now <= Now + (back - back) /\ back <= back  BY <1>1 DEF Instant
  <2> QED BY <2>1 DEF SentBefore, Sent
<1> QED BY <1>2, <1>3

LEMMA BodyType ==
    ASSUME NEW enc \in {"cdr", "json"}, NEW stamp \in Stamp, NEW pre \in Rolls, NEW post \in Rolls
    PROVE  Body(enc, stamp, pre, post) \in Payload
<1>1. pre \in Instant /\ post \in Instant  BY Widths
<1> QED BY <1>1 DEF Body, Payload

LEMMA OddType == Odd \subseteq Payload
BY WindowAssumption DEF Payload, Stamp, Instant

LEMMA UnsetType == Unset \in Stamp
BY DEF Unset, Stamp

(* Whoever sends, sends such a trigger.                                    *)
LEMMA SendersSend ==
    ASSUME Shapes, back \in Nat, Sender
    PROVE  \E t \in Trigger : SentBefore(t) /\ Send(t)
<1>0. clock \in Int /\ Now \in Instant  BY NowType DEF Shapes, Now
<1>1. CASE Publish
  <2>1. PICK pre \in Rolls, post \in Rolls, stamp \in {Unset, FromNs(Now)} :
          Send(Sent(Body("cdr", stamp, pre, post), Now, Now))
    BY <1>1 DEF Publish
  <2>2. stamp \in Stamp  BY <1>0, UnsetType, FromNsType
  <2>3. Body("cdr", stamp, pre, post) \in Payload  BY <2>2, BodyType
  <2> QED BY <1>0, <2>1, <2>3, SentType
<1>2. CASE WriteCaptured
  <2> DEFINE from == SaturatingSub(Now, PublishOffset)
  <2>1. from \in Instant  BY <1>0, Saturates, Widths DEF Instant
  <2>2. PICK roll \in Rolls, stamp \in {Unset, FromNs(from)} :
          Send(Sent(Body("json", stamp, roll, roll), Now, from))
    BY <1>2 DEF WriteCaptured
  <2> HIDE DEF from
  <2>3. stamp \in Stamp  BY <2>1, UnsetType, FromNsType
  <2>4. Body("json", stamp, roll, roll) \in Payload  BY <2>3, BodyType
  <2> QED BY <1>0, <2>1, <2>2, <2>4, SentType
<1>3. CASE WriteUnstamped
  <2>1. PICK roll \in Rolls : Send(Sent(Body("json", Unset, roll, roll), Now, Now))
    BY <1>3 DEF WriteUnstamped
  <2>2. Body("json", Unset, roll, roll) \in Payload  BY UnsetType, BodyType
  <2> QED BY <1>0, <2>1, <2>2, SentType
<1>4. CASE SendOdd
  <2>1. PICK payload \in Odd : Send(Sent(payload, Now, Now))  BY <1>4 DEF SendOdd
  <2>2. payload \in Payload  BY OddType
  <2> QED BY <1>0, <2>1, <2>2, SentType
<1> QED BY <1>1, <1>2, <1>3, <1>4 DEF Sender

-----------------------------------------------------------------------------
(* What each action keeps.                                                 *)
LEMMA InitHolds == Init => WindowInvariant
<1> SUFFICES ASSUME Init PROVE WindowInvariant
  OBVIOUS
<1>1. inbox = << >> /\ holding = << >> /\ parked = {} /\ recorded = {}  BY DEF Init
<1>2. Len(inbox) = 0 /\ Len(holding) = 0 /\ DOMAIN inbox = {}  BY <1>1
<1>3. TypeOK  BY <1>1, <1>2, Widths, StepFacts DEF Init, TypeOK
<1>4. Shapes  BY <1>1, Widths DEF Init, Shapes
<1>5. Anchoring  BY <1>1, <1>2 DEF Anchoring
<1>6. Admitted /\ SleepIsBounded  BY <1>1 DEF Admitted, SleepIsBounded
<1> QED BY <1>3, <1>4, <1>5, <1>6 DEF WindowInvariant

(* The arithmetic of the two bounds, apart from the records.               *)
LEMMA Drifts ==
    ASSUME NEW sent \in Int, NEW at \in Int, NEW b \in Int,
           NEW n \in Int, NEW now \in Int, NEW c \in Int,
           sent <= n + (b - at), n <= now + (c - b), at <= b, b <= c
    PROVE  at <= c /\ sent <= now + (c - at)
OBVIOUS

LEMMA Sleeps ==
    ASSUME NEW to \in Int, NEW since \in Int, NEW at \in Int, NEW most \in Int,
           NEW e \in Int, NEW c \in Int, NEW b \in Int
    PROVE  (to - c) + (e - since) <= most + (b - at)
             <=> (to - since) - (most - at) <= (c - e) + b
OBVIOUS

LEMMA Grows ==
    ASSUME NEW x \in Int, NEW most \in Int, NEW at \in Int, NEW b \in Int, NEW c \in Int,
           x <= most + (b - at), at <= b, b <= c
    PROVE  at <= c /\ x <= most + (c - at)
OBVIOUS

(* Time may go on, and the clock be set, as long as what it says goes back *)
(* by no more than is counted, and no sleeper is passed over.              *)
LEMMA TimeKeeps ==
    ASSUME WindowInvariant,
           UNCHANGED <<cell, arrived, inbox, holding, parked, recorded>>,
           clock' \in Int, back' \in Nat, back <= back',
           elapsed' \in 0..Duration, steps' \in 0..Len(Steps),
           Now <= Now' + (back' - back),
           (clock - elapsed) + back <= (clock' - elapsed') + back',
           \A h \in parked : elapsed' <= h.wake
    PROVE  WindowInvariant'
<1>0. /\ TypeOK /\ Shapes /\ Anchoring /\ Admitted /\ SleepIsBounded
      /\ cell' = cell /\ arrived' = arrived /\ inbox' = inbox /\ holding' = holding
      /\ parked' = parked /\ recorded' = recorded
  BY DEF WindowInvariant
<1>1. TypeOK'  BY <1>0 DEF TypeOK
<1>2. Shapes'  BY <1>0 DEF Shapes
<1>3. Anchoring'
  <2>1. ASSUME NEW i \in 1..Len(inbox)  PROVE SentBefore(inbox[i])'
    <3> DEFINE t == inbox[i]
    <3>1. t \in Trigger /\ SentBefore(t)  BY <1>0, InboxFacts DEF Anchoring
    <3>2. t.sent \in Int /\ t.back \in Int
      <4>1. t.sent \in Instant /\ t.back \in Nat  BY ONLY <3>1, TriggerFacts
      <4> QED BY ONLY <4>1 DEF Instant
    <3>3. back \in Int /\ back' \in Int /\ Now \in Int /\ Now' \in Int
      <4>1. clock \in Int /\ back \in Nat  BY <1>0 DEF TypeOK, Shapes
      <4>2. NowAt(clock) \in Instant /\ NowAt(clock') \in Instant  BY <4>1, NowType
      <4>3. NowAt(clock) \in Int /\ NowAt(clock') \in Int  BY ONLY <4>2 DEF Instant
      <4> QED BY <4>1, <4>3 DEF Now
    <3>4. t.log = t.sent /\ t.back <= back /\ t.sent <= Now + (back - t.back)
      BY <3>1 DEF SentBefore
    <3> HIDE DEF t
    <3>5. t.back <= back' /\ t.sent <= Now' + (back' - t.back)
      <4>1. back <= back' /\ Now <= Now' + (back' - back)  OBVIOUS
      <4> QED BY ONLY <3>2, <3>3, <3>4, <4>1, Drifts
    <3>6. inbox'[i] = t  BY <1>0 DEF t
    <3> QED BY <3>4, <3>5, <3>6 DEF SentBefore
  <2>2. \A h : AnchorOf(h)' <=> AnchorOf(h)
    BY <1>0 DEF AnchorOf, ReadsTriggerTime
  <2> QED BY <1>0, <2>1, <2>2 DEF Anchoring
<1>4. Admitted'  BY <1>0 DEF Admitted, ReadsTriggerTime
<1>5. SleepIsBounded'
  <2> SUFFICES ASSUME NEW h \in parked
               PROVE  /\ h.since_back <= back'
                      /\ (h.to - clock') + (elapsed' - h.since) <= Longest(h)'
                      /\ elapsed' <= h.wake
                      /\ h.wake - h.since <= Longest(h)'
    BY <1>0 DEF SleepIsBounded
  <2>1. /\ h.since_back \in Nat /\ h.to \in Int /\ h.since \in Nat /\ h.early \in Nat
        /\ h.wake \in Nat
    <3>1. h \in Parked  BY <1>0 DEF Shapes
    <3> QED BY ONLY <3>1 DEF Parked, Instant
  <2>2. elapsed \in Int /\ back \in Nat /\ clock \in Int /\ MaxRoll \in Nat /\ MaxSkew \in Nat
    BY <1>0, Widths DEF TypeOK, Shapes
  <2>3. /\ h.since_back <= back
        /\ (h.to - clock) + (elapsed - h.since)
             <= MaxRoll + MaxSkew + h.early + (back - h.since_back)
        /\ h.wake - h.since <= MaxRoll + MaxSkew + h.early + (back - h.since_back)
    BY <1>0 DEF SleepIsBounded, Longest
  <2>4. elapsed' \in Int  OBVIOUS
  <2>5. /\ h.since_back <= back'
        /\ (h.to - clock') + (elapsed' - h.since)
             <= MaxRoll + MaxSkew + h.early + (back' - h.since_back)
        /\ h.wake - h.since <= MaxRoll + MaxSkew + h.early + (back' - h.since_back)
    <3> DEFINE most == MaxRoll + MaxSkew + h.early
               to == h.to
               since == h.since
               at == h.since_back
               wake == h.wake
    <3>1. /\ most \in Int /\ to \in Int /\ since \in Int /\ at \in Int /\ wake \in Int
          /\ elapsed \in Int /\ back \in Int /\ clock \in Int
      BY ONLY <2>1, <2>2
    <3>2. back' \in Int /\ clock' \in Int  OBVIOUS
    <3>3. /\ (to - clock) + (elapsed - since) <= most + (back - at)
          /\ wake - since <= most + (back - at)
          /\ at <= back
      BY ONLY <2>3
    <3>4. back <= back' /\ (clock - elapsed) + back <= (clock' - elapsed') + back'
      OBVIOUS
    <3> HIDE DEF most, to, since, at, wake
    <3>5. (to - since) - (most - at) <= (clock - elapsed) + back
      BY ONLY <3>1, <3>3, Sleeps
    <3>6. (to - since) - (most - at) <= (clock' - elapsed') + back'
      <4> DEFINE p == (to - since) - (most - at)
                 d == (clock - elapsed) + back
                 f == (clock' - elapsed') + back'
      <4>1. p \in Int /\ d \in Int  BY ONLY <3>1
      <4>2. f \in Int  BY ONLY <2>4, <3>2
      <4>3. p <= d /\ d <= f  BY ONLY <3>4, <3>5
      <4> HIDE DEF p, d, f
      <4>4. p <= f  BY ONLY <4>1, <4>2, <4>3
      <4> QED BY ONLY <4>4 DEF p, f
    <3>7. (to - clock') + (elapsed' - since) <= most + (back' - at)
      BY ONLY <2>4, <3>1, <3>2, <3>6, Sleeps
    <3>8. wake - since \in Int  BY ONLY <3>1
    <3>9. at <= back' /\ wake - since <= most + (back' - at)
      BY ONLY <3>1, <3>2, <3>3, <3>4, <3>8, Grows
    <3> QED BY <3>7, <3>9 DEF most, to, since, at, wake
  <2> QED BY <2>5 DEF Longest
<1> QED BY <1>1, <1>2, <1>3, <1>4, <1>5 DEF WindowInvariant

LEMMA TickKeeps ==
    ASSUME WindowInvariant, Tick
    PROVE  WindowInvariant'
<1>0. clock \in Int /\ elapsed \in 0..Duration /\ back \in Nat /\ Duration \in Nat
      /\ steps \in 0..Len(Steps)
      /\ \A h \in parked : h.wake \in Nat
  BY Widths DEF WindowInvariant, TypeOK, Shapes, Parked
<1>1. /\ elapsed < Duration /\ (\A h \in parked : elapsed < h.wake)
      /\ elapsed' = elapsed + 1 /\ clock' = clock + 1 /\ back' = back /\ steps' = steps
      /\ UNCHANGED <<cell, arrived, inbox, holding, parked, recorded>>
  BY DEF Tick
<1>2. SaturatingSub(0, 1) = 0  BY DEF SaturatingSub
<1>3. Now <= Now' + (back' - back)
  <2>1. Now \in Int /\ Now' \in Int  BY <1>0, <1>1, NowType DEF Now, Instant
  <2>2. Now <= Now' + SaturatingSub(0, 1)  BY <1>0, <1>1, NowMoves DEF Now
  <2>3. back' - back = 0  BY <1>0, <1>1
  <2> QED BY <1>2, <2>1, <2>2, <2>3
<1>4. \A h \in parked : elapsed' <= h.wake  BY <1>0, <1>1
<1>5. (clock - elapsed) + back <= (clock' - elapsed') + back'  BY <1>0, <1>1
<1> QED BY <1>0, <1>1, <1>3, <1>4, <1>5, TimeKeeps

LEMMA SetClockKeeps ==
    ASSUME WindowInvariant, SetClock
    PROVE  WindowInvariant'
<1> DEFINE d == Steps[steps + 1]
<1>0. clock \in Int /\ elapsed \in 0..Duration /\ back \in Nat /\ steps \in 0..Len(Steps)
      /\ \A h \in parked : elapsed <= h.wake
  BY DEF WindowInvariant, TypeOK, Shapes, SleepIsBounded
<1>1. /\ steps < Len(Steps) /\ steps' = steps + 1
      /\ clock' = clock + d /\ back' = back + SaturatingSub(0, d)
      /\ elapsed' = elapsed
      /\ UNCHANGED <<cell, arrived, inbox, holding, parked, recorded>>
  BY DEF SetClock
<1>2. d \in Int /\ steps' \in 0..Len(Steps)
  <2>1. steps + 1 \in 1..Len(Steps)  BY <1>0, <1>1, StepFacts
  <2> QED BY <1>1, <2>1, StepFacts
<1> HIDE DEF d
<1>3. SaturatingSub(0, d) \in Nat /\ SaturatingSub(0, d) >= -d  BY <1>2, Saturates
<1>4. clock' \in Int /\ back' \in Nat /\ back <= back'  BY <1>0, <1>1, <1>2, <1>3
<1>5. Now <= Now' + (back' - back)
  <2>1. Now \in Int /\ Now' \in Int  BY <1>0, <1>4, NowType DEF Now, Instant
  <2>2. Now <= Now' + SaturatingSub(0, d)  BY <1>0, <1>1, <1>2, NowMoves DEF Now
  <2>3. back' - back = SaturatingSub(0, d)  BY <1>0, <1>1, <1>3
  <2> QED BY <2>2, <2>3
<1>6. (clock - elapsed) + back <= (clock' - elapsed') + back'
  BY <1>0, <1>1, <1>2, <1>3
<1>7. elapsed' \in 0..Duration /\ \A h \in parked : elapsed' <= h.wake  BY <1>0, <1>1
<1> QED BY <1>1, <1>2, <1>4, <1>5, <1>6, <1>7, TimeKeeps

(* What is kept where neither clock moves and no handler is new.           *)
LEMMA StillAnchored ==
    ASSUME cell' = cell, clock' = clock, elapsed' = elapsed, back' = back
    PROVE  /\ \A h : AnchorOf(h)' <=> AnchorOf(h)
           /\ \A t : SentBefore(t)' <=> SentBefore(t)
           /\ \A h : Longest(h)' = Longest(h)
           /\ ReadsTriggerTime' = ReadsTriggerTime
<1>1. Now' = Now  BY DEF Now
<1> QED BY <1>1 DEF AnchorOf, SentBefore, Longest, ReadsTriggerTime

LEMMA StillParked ==
    ASSUME Admitted, SleepIsBounded, parked' = parked,
           cell' = cell, clock' = clock, elapsed' = elapsed, back' = back
    PROVE  Admitted' /\ SleepIsBounded'
BY StillAnchored DEF Admitted, SleepIsBounded

LEMMA SendKeeps ==
    ASSUME WindowInvariant, NEW t \in Trigger, SentBefore(t), Send(t)
    PROVE  WindowInvariant'
<1>0. TypeOK /\ Shapes /\ Anchoring /\ Admitted /\ SleepIsBounded  BY DEF WindowInvariant
<1>1. /\ cell' = cell /\ elapsed' = elapsed /\ clock' = clock /\ steps' = steps
      /\ back' = back /\ holding' = holding /\ parked' = parked /\ recorded' = recorded
      /\ arrived < Arrivals /\ arrived' = arrived + 1
  BY DEF Send, time
<1>2. /\ inbox' \in Seq(Trigger)
      /\ cell.interface = "ros" => Len(inbox') <= Depth
      /\ \A i \in 1..Len(inbox') : SentBefore(inbox'[i])
  <2>0. inbox \in Seq(Trigger) /\ Len(inbox) \in Nat /\ Depth \in Nat \ {0}
    BY <1>0, InboxFacts, Widths DEF Shapes
  <2>1. \A i \in 1..Len(inbox) : SentBefore(inbox[i])  BY <1>0 DEF Anchoring
  <2>2. CASE cell.interface = "ros" /\ Len(inbox) = Depth
    <3>1. inbox' = Append(Tail(inbox), t)  BY <2>2 DEF Send
    <3>2. inbox # << >>  BY <2>0, <2>2
    <3>3. /\ inbox' \in Seq(Trigger) /\ Len(inbox') = Len(inbox)
          /\ \A i \in 1..Len(inbox) :
               inbox'[i] = IF i = Len(inbox) THEN t ELSE inbox[i + 1]
      BY <2>0, <3>1, <3>2
    <3>4. \A i \in 1..Len(inbox) : i # Len(inbox) => i + 1 \in 1..Len(inbox)  BY <2>0
    <3> QED BY <2>0, <2>1, <2>2, <3>3, <3>4
  <2>3. CASE ~(cell.interface = "ros" /\ Len(inbox) = Depth)
    <3>1. inbox' = Append(inbox, t)  BY <2>3 DEF Send
    <3>2. /\ inbox' \in Seq(Trigger) /\ Len(inbox') = Len(inbox) + 1
          /\ \A i \in 1..Len(inbox') :
               inbox'[i] = IF i = Len(inbox) + 1 THEN t ELSE inbox[i]
      BY <2>0, <3>1
    <3>3. cell.interface = "ros" => Len(inbox) <= Depth  BY <1>0 DEF TypeOK
    <3>4. \A i \in 1..Len(inbox') : i # Len(inbox) + 1 => i \in 1..Len(inbox)  BY <2>0, <3>2
    <3> QED BY <2>0, <2>1, <2>3, <3>2, <3>3, <3>4
  <2> QED BY <2>2, <2>3
<1>3. Shapes'  BY <1>0, <1>1, <1>2 DEF Shapes
<1>4. TypeOK'
  <2>1. /\ Len(inbox') \in Nat /\ DOMAIN inbox' = 1..Len(inbox')
        /\ \A i \in DOMAIN inbox' : inbox'[i] \in Trigger
    BY <1>2, SeqElements
  <2>2. \A i \in DOMAIN inbox' : {inbox'[i].log, inbox'[i].pub} \subseteq 0..Top
    BY <2>1, TriggerFacts DEF Instant
  <2>3. arrived' \in 0..Arrivals  BY <1>0, <1>1, Widths DEF TypeOK
  <2> QED BY <1>0, <1>1, <1>2, <2>2, <2>3 DEF TypeOK
<1>5. Anchoring'
  <2>1. \A i \in 1..Len(inbox') : SentBefore(inbox'[i])  BY <1>2
  <2> QED BY <1>0, <1>1, <2>1, StillAnchored DEF Anchoring
<1>6. Admitted' /\ SleepIsBounded'  BY <1>0, <1>1, StillParked
<1> QED BY <1>3, <1>4, <1>5, <1>6 DEF WindowInvariant

LEMMA TakeKeeps ==
    ASSUME WindowInvariant, Take
    PROVE  WindowInvariant'
<1> DEFINE t == Head(inbox)
           g == [trigger |-> t, anchor |-> Anchor(t), taken |-> Now, back |-> back]
<1>0. TypeOK /\ Shapes /\ Anchoring /\ Admitted /\ SleepIsBounded  BY DEF WindowInvariant
<1>1. /\ cell' = cell /\ elapsed' = elapsed /\ clock' = clock /\ steps' = steps
      /\ back' = back /\ arrived' = arrived /\ parked' = parked /\ recorded' = recorded
      /\ inbox # << >> /\ inbox' = Tail(inbox)
      /\ holding' = <<g>> \/ holding' = << >>
  BY DEF Take, time
<1>2. inbox \in Seq(Trigger) /\ Len(inbox) \in Nat  BY <1>0, InboxFacts DEF Shapes
<1>3. t \in Trigger /\ SentBefore(t)
  <2>1. Len(inbox) # 0 /\ 1 \in 1..Len(inbox) /\ t = inbox[1]  BY <1>1, <1>2
  <2> QED BY <1>0, <2>1, InboxFacts DEF Anchoring
<1>4. /\ inbox' \in Seq(Trigger) /\ Len(inbox') = Len(inbox) - 1
      /\ \A i \in 1..Len(inbox') : i + 1 \in 1..Len(inbox) /\ inbox'[i] = inbox[i + 1]
  BY <1>1, <1>2
<1> HIDE DEF t
<1>5. g \in Held /\ AnchorOf(g)
  <2>0. Now \in Instant /\ back \in Nat  BY <1>0, NowType DEF Now, Shapes, TypeOK
  <2>1. /\ t.stamp \in Stamp /\ t.log \in Instant /\ t.pub \in Instant /\ t.sent \in Instant
        /\ t.back \in Nat
    BY <1>3, TriggerFacts
  <2>2. Anchor(t) \in Nat  BY <2>0, <2>1, NsType DEF Anchor, Instant
  <2>3. g \in Held  BY <1>3, <2>0, <2>2 DEF Held
  <2>4. /\ g.trigger = t /\ g.anchor = Anchor(t) /\ g.taken = Now /\ g.back = back
    OBVIOUS
  <2>5. t.log = t.sent /\ t.sent <= Now + (back - t.back)  BY <1>3 DEF SentBefore
  <2>6. t.sent - (back - t.back) <= Now /\ Now <= Now
    BY <2>0, <2>1, <2>5 DEF Instant
  <2> HIDE DEF g
  <2>7. AnchorOf(g)
    <3>1. CASE ReadsTriggerTime
      BY <2>4, <3>1 DEF AnchorOf, Anchor
    <3>2. CASE ~ReadsTriggerTime /\ cell.interface = "ros"
      BY <2>4, <2>6, <3>2 DEF AnchorOf, Anchor
    <3>3. CASE ~ReadsTriggerTime /\ cell.interface # "ros"
      BY <2>4, <2>5, <3>3 DEF AnchorOf, Anchor
    <3> QED BY <3>1, <3>2, <3>3
  <2> QED BY <2>3, <2>7
<1> HIDE DEF g
<1>6. /\ holding' \in Seq(Held) /\ Len(holding') \in {0, 1}
      /\ \A i \in 1..Len(holding') : AnchorOf(holding'[i])
  <2>1. CASE holding' = <<g>>  BY <1>5, <2>1
  <2>2. CASE holding' = << >>  BY <2>2
  <2> QED BY <1>1, <2>1, <2>2
<1>7. Shapes'  BY <1>0, <1>1, <1>4, <1>6 DEF Shapes
<1>8. TypeOK'
  <2>1. /\ Len(inbox') \in Nat /\ DOMAIN inbox' = 1..Len(inbox')
        /\ \A i \in DOMAIN inbox' : inbox'[i] \in Trigger
    BY <1>4, SeqElements
  <2>2. \A i \in DOMAIN inbox' : {inbox'[i].log, inbox'[i].pub} \subseteq 0..Top
    BY <2>1, TriggerFacts DEF Instant
  <2>3. cell.interface = "ros" => Len(inbox') <= Depth  BY <1>0, <1>2, <1>4, Widths DEF TypeOK
  <2> QED BY <1>0, <1>1, <1>6, <2>2, <2>3 DEF TypeOK
<1>9. Anchoring'
  <2>1. \A i \in 1..Len(inbox') : SentBefore(inbox'[i])  BY <1>0, <1>4 DEF Anchoring
  <2> QED BY <1>0, <1>1, <1>6, <2>1, StillAnchored DEF Anchoring
<1>10. Admitted' /\ SleepIsBounded'  BY <1>0, <1>1, StillParked
<1> QED BY <1>7, <1>8, <1>9, <1>10 DEF WindowInvariant

LEMMA RejectKeeps ==
    ASSUME WindowInvariant, Reject
    PROVE  WindowInvariant'
<1>0. TypeOK /\ Shapes /\ Anchoring /\ Admitted /\ SleepIsBounded  BY DEF WindowInvariant
<1>1. /\ cell' = cell /\ elapsed' = elapsed /\ clock' = clock /\ steps' = steps
      /\ back' = back /\ arrived' = arrived /\ inbox' = inbox /\ parked' = parked
      /\ recorded' = recorded /\ holding' = << >>
  BY DEF Reject, time
<1>2. holding' \in Seq(Held) /\ Len(holding') = 0  BY <1>1
<1>3. TypeOK' /\ Shapes'  BY <1>0, <1>1, <1>2 DEF TypeOK, Shapes
<1>4. Anchoring'  BY <1>0, <1>1, <1>2, StillAnchored DEF Anchoring
<1>5. Admitted' /\ SleepIsBounded'  BY <1>0, <1>1, StillParked
<1> QED BY <1>3, <1>4, <1>5 DEF WindowInvariant

(* What TypeOK says of a handler.                                          *)
LEMMA ParkedFacts ==
    ASSUME TypeOK, Shapes, Admitted, NEW h \in parked
    PROVE  /\ h \in Parked
           /\ 0 <= h.from /\ h.from <= h.anchor /\ h.anchor <= h.to /\ h.to <= Top
           /\ ~ReadsTriggerTime => Ns(h.trigger.stamp) = 0
           /\ h.trigger.pre <= MaxRoll /\ h.trigger.name = "plain"
BY DEF TypeOK, Shapes, Admitted

LEMMA WindowOf ==
    ASSUME NEW anchor \in Instant, NEW pre \in Instant, NEW post \in Instant
    PROVE  /\ SaturatingSub(anchor, pre) \in Instant /\ SaturatingAdd(anchor, post) \in Instant
           /\ 0 <= SaturatingSub(anchor, pre) /\ SaturatingSub(anchor, pre) <= anchor
           /\ anchor <= SaturatingAdd(anchor, post)
           /\ SaturatingAdd(anchor, post) <= anchor + post
<1>1. anchor \in Nat /\ pre \in Nat /\ post \in Nat /\ anchor <= Top /\ Top \in Nat
  BY Widths DEF Instant
<1>2. /\ SaturatingSub(anchor, pre) \in Nat /\ SaturatingSub(anchor, pre) <= anchor
  BY <1>1, Saturates
<1>3. SaturatingSub(anchor, pre) \in Instant /\ 0 <= SaturatingSub(anchor, pre)
  BY ONLY <1>1, <1>2 DEF Instant
<1>4. /\ SaturatingAdd(anchor, post) \in Instant
      /\ anchor <= SaturatingAdd(anchor, post) /\ SaturatingAdd(anchor, post) <= anchor + post
  BY <1>1, Saturates
<1> QED BY <1>2, <1>3, <1>4

(* The gate lets no window end later than both limits after the system     *)
(* clock, or after the epoch while that is to come.                        *)
LEMMA EndIsNear ==
    ASSUME NEW c \in Int, NEW anchor \in Nat, NEW post \in Nat,
           anchor <= SaturatingAdd(NowAt(c), MaxSkew), post <= MaxRoll
    PROVE  /\ anchor \in Instant
           /\ SaturatingAdd(anchor, post) - c <= MaxRoll + MaxSkew + SaturatingSub(0, c)
<1>1. NowAt(c) \in Instant /\ MaxSkew \in Nat /\ MaxRoll \in Nat /\ Top \in Nat
  BY NowType, Widths
<1>2. /\ SaturatingAdd(NowAt(c), MaxSkew) \in Instant
      /\ SaturatingAdd(NowAt(c), MaxSkew) <= NowAt(c) + MaxSkew
  BY <1>1, Saturates
<1>3. anchor \in Instant /\ anchor <= NowAt(c) + MaxSkew  BY <1>1, <1>2 DEF Instant
<1>4. /\ SaturatingAdd(anchor, post) \in Instant
      /\ SaturatingAdd(anchor, post) <= anchor + post
  BY <1>3, Saturates
<1>5. NowAt(c) <= c + SaturatingSub(0, c) /\ SaturatingSub(0, c) \in Nat
  BY NowIsClock, Saturates
<1> QED BY <1>1, <1>3, <1>4, <1>5 DEF Instant

LEMMA AdmitKeeps ==
    ASSUME WindowInvariant, Admit
    PROVE  WindowInvariant'
<1> DEFINE h == holding[1]
           t == h.trigger
           g == [trigger |-> t, anchor |-> h.anchor, taken |-> h.taken, back |-> h.back,
                 from |-> SaturatingSub(h.anchor, t.pre),
                 to |-> SaturatingAdd(h.anchor, t.post),
                 since |-> elapsed, since_back |-> back, early |-> SaturatingSub(0, clock),
                 wake |-> elapsed]
<1>0. TypeOK /\ Shapes /\ Anchoring /\ Admitted /\ SleepIsBounded  BY DEF WindowInvariant
<1>1. /\ cell' = cell /\ elapsed' = elapsed /\ clock' = clock /\ steps' = steps
      /\ back' = back /\ arrived' = arrived /\ inbox' = inbox /\ recorded' = recorded
      /\ holding # << >> /\ holding' = << >>
      /\ Valid(t, h.anchor) /\ parked' = parked \cup {g}
  BY DEF Admit, time
<1>2. h \in Held /\ AnchorOf(h)
  <2>1. holding \in Seq(Held)  BY <1>0 DEF Shapes
  <2>2. 1 \in 1..Len(holding)  BY <1>1, <2>1
  <2> QED BY <1>0, <2>2, InboxFacts DEF Anchoring
<1> HIDE DEF h
<1>3. t \in Trigger /\ h.anchor \in Nat /\ h.taken \in Instant /\ h.back \in Nat
  BY <1>2 DEF Held
<1> HIDE DEF t
<1>4. t.pre \in Instant /\ t.post \in Instant /\ t.pre \in Nat /\ t.post \in Nat
  BY <1>3, TriggerFacts DEF Instant
<1>5. /\ ~ReadsTriggerTime => Ns(t.stamp) = 0
      /\ t.pre <= MaxRoll /\ t.post <= MaxRoll /\ t.name = "plain"
      /\ h.anchor <= SaturatingAdd(NowAt(clock), MaxSkew)
  BY <1>1 DEF Valid, Now
<1>6. clock \in Int /\ elapsed \in Nat /\ back \in Nat  BY <1>0 DEF Shapes, TypeOK
<1>7. /\ h.anchor \in Instant
      /\ SaturatingAdd(h.anchor, t.post) - clock <= MaxRoll + MaxSkew + SaturatingSub(0, clock)
  BY <1>3, <1>4, <1>5, <1>6, EndIsNear
<1>8. /\ SaturatingSub(h.anchor, t.pre) \in Instant
      /\ SaturatingAdd(h.anchor, t.post) \in Instant
      /\ 0 <= SaturatingSub(h.anchor, t.pre) /\ SaturatingSub(h.anchor, t.pre) <= h.anchor
      /\ h.anchor <= SaturatingAdd(h.anchor, t.post)
  BY <1>4, <1>7, WindowOf
<1>9. SaturatingSub(0, clock) \in Nat  BY <1>6, Saturates
<1>10. /\ g.trigger = t /\ g.anchor = h.anchor /\ g.taken = h.taken /\ g.back = h.back
       /\ g.from = SaturatingSub(h.anchor, t.pre) /\ g.to = SaturatingAdd(h.anchor, t.post)
       /\ g.since = elapsed /\ g.since_back = back /\ g.early = SaturatingSub(0, clock)
       /\ g.wake = elapsed
  OBVIOUS
<1>11. g \in Parked  BY <1>3, <1>6, <1>7, <1>8, <1>9 DEF Parked
<1> HIDE DEF g
<1>12. AnchorOf(g)
  <2>1. h.trigger = t  BY DEF t
  <2> QED BY <1>2, <1>10, <2>1 DEF AnchorOf
<1>13. /\ g.since_back <= back
       /\ (g.to - clock) + (elapsed - g.since) <= Longest(g)
       /\ elapsed <= g.wake
       /\ g.wake - g.since <= Longest(g)
  <2> DEFINE to == SaturatingAdd(h.anchor, t.post)
             early == SaturatingSub(0, clock)
  <2>1. to \in Int /\ early \in Nat /\ MaxRoll \in Nat /\ MaxSkew \in Nat
        /\ to - clock <= MaxRoll + MaxSkew + early
    BY <1>7, <1>8, <1>9, Widths DEF Instant
  <2>2. g.to = to /\ g.early = early  BY <1>10
  <2> HIDE DEF to, early
  <2>3. /\ (to - clock) + (elapsed - elapsed) <= MaxRoll + MaxSkew + early + (back - back)
        /\ elapsed - elapsed <= MaxRoll + MaxSkew + early + (back - back)
        /\ back <= back /\ elapsed <= elapsed
    BY ONLY <1>6, <2>1
  <2> QED BY <1>10, <2>2, <2>3 DEF Longest
<1>14. holding' \in Seq(Held) /\ Len(holding') = 0  BY <1>1
<1>15. Shapes'
  <2>1. parked' \subseteq Parked  BY <1>0, <1>1, <1>11 DEF Shapes
  <2> QED BY <1>0, <1>1, <1>14, <2>1 DEF Shapes
<1>16. TypeOK'
  <2>1. \A k \in parked' : 0 <= k.from /\ k.from <= k.anchor /\ k.anchor <= k.to /\ k.to <= Top
    <3>1. \A k \in parked : 0 <= k.from /\ k.from <= k.anchor /\ k.anchor <= k.to /\ k.to <= Top
      BY <1>0 DEF TypeOK
    <3>2. 0 <= g.from /\ g.from <= g.anchor /\ g.anchor <= g.to /\ g.to <= Top
      BY <1>8, <1>10 DEF Instant
    <3> QED BY <1>1, <3>1, <3>2
  <2> QED BY <1>0, <1>1, <1>14, <2>1 DEF TypeOK
<1>17. Anchoring'
  <2>1. \A k \in parked' : AnchorOf(k)  BY <1>0, <1>1, <1>12 DEF Anchoring
  <2> QED BY <1>0, <1>1, <1>14, <2>1, StillAnchored DEF Anchoring
<1>18. Admitted'
  <2>1. \A k \in parked' : /\ ~ReadsTriggerTime => Ns(k.trigger.stamp) = 0
                           /\ k.trigger.pre <= MaxRoll /\ k.trigger.name = "plain"
    BY <1>0, <1>1, <1>5, <1>10 DEF Admitted
  <2> QED BY <1>1, <2>1, StillAnchored DEF Admitted
<1>19. SleepIsBounded'
  <2>1. \A k \in parked' : /\ k.since_back <= back
                           /\ (k.to - clock) + (elapsed - k.since) <= Longest(k)
                           /\ elapsed <= k.wake
                           /\ k.wake - k.since <= Longest(k)
    BY <1>0, <1>1, <1>13 DEF SleepIsBounded
  <2> QED BY <1>1, <2>1, StillAnchored DEF SleepIsBounded
<1> QED BY <1>15, <1>16, <1>17, <1>18, <1>19 DEF WindowInvariant

LEMMA SleepKeeps ==
    ASSUME WindowInvariant, NEW h \in parked, Sleep(h)
    PROVE  WindowInvariant'
<1> DEFINE g == [h EXCEPT !.wake = elapsed + Remaining(h)]
<1>0. TypeOK /\ Shapes /\ Anchoring /\ Admitted /\ SleepIsBounded  BY DEF WindowInvariant
<1>1. /\ cell' = cell /\ elapsed' = elapsed /\ clock' = clock /\ steps' = steps
      /\ back' = back /\ arrived' = arrived /\ inbox' = inbox /\ recorded' = recorded
      /\ holding' = holding
      /\ Remaining(h) > 0 /\ parked' = (parked \ {h}) \cup {g}
  BY DEF Sleep, time
<1>2. h \in Parked  BY <1>0 DEF Shapes
<1>3. /\ h.to \in Instant /\ h.since \in Nat /\ h.since_back \in Nat /\ h.early \in Nat
  BY <1>2 DEF Parked
<1>4. elapsed \in Nat /\ clock \in Int /\ back \in Nat /\ Now \in Instant /\ Top \in Nat
  BY <1>0, NowType, Widths DEF TypeOK, Shapes, Now
<1>5. /\ Remaining(h) = h.to - Now /\ Remaining(h) \in Nat
      /\ clock <= Now
  <2>1. Now < h.to /\ Remaining(h) = h.to - Now
    BY <1>1, <1>3, <1>4 DEF Remaining, SaturatingSub, Instant
  <2>2. Now < Top  BY <1>3, <1>4, <2>1 DEF Instant
  <2>3. clock <= Now  BY <1>4, <2>2, NowIsClock DEF Now
  <2> QED BY <1>3, <1>4, <2>1, <2>3 DEF Instant
<1>6. /\ g.trigger = h.trigger /\ g.anchor = h.anchor /\ g.taken = h.taken /\ g.back = h.back
      /\ g.from = h.from /\ g.to = h.to /\ g.since = h.since /\ g.since_back = h.since_back
      /\ g.early = h.early /\ g.wake = elapsed + Remaining(h)
  BY <1>2 DEF Parked
<1>7. g \in Parked  BY <1>2, <1>4, <1>5 DEF Parked
<1> HIDE DEF g
<1>8. AnchorOf(g)
  <2>1. AnchorOf(h)  BY <1>0 DEF Anchoring
  <2> QED BY <1>6, <2>1 DEF AnchorOf
<1>9. Longest(g) = Longest(h)  BY <1>6 DEF Longest
<1>10. /\ g.since_back <= back
       /\ (g.to - clock) + (elapsed - g.since) <= Longest(g)
       /\ elapsed <= g.wake
       /\ g.wake - g.since <= Longest(g)
  <2> DEFINE to == h.to
             since == h.since
             most == Longest(h)
             n == Now
  <2>1. /\ h.since_back <= back
        /\ (to - clock) + (elapsed - since) <= most
    BY <1>0 DEF SleepIsBounded
  <2>2. most \in Int  BY <1>3, <1>4, Widths DEF Longest
  <2>3. to \in Int /\ since \in Int /\ n \in Int /\ clock <= n /\ n <= to
    BY <1>3, <1>4, <1>5 DEF Instant
  <2>4. g.wake = elapsed + (to - n) /\ g.to = to /\ g.since = since  BY <1>5, <1>6
  <2> HIDE DEF to, since, most, n
  <2>5. to - n <= to - clock /\ elapsed <= elapsed + (to - n)  BY ONLY <1>4, <2>3
  <2>6. (elapsed + (to - n)) - since <= (to - clock) + (elapsed - since)
    BY ONLY <1>4, <2>3, <2>5
  <2>7. (elapsed + (to - n)) - since <= most  BY ONLY <1>4, <2>1, <2>2, <2>3, <2>6
  <2>8. Longest(g) = most  BY <1>9 DEF most
  <2> QED BY <1>6, <2>1, <2>4, <2>5, <2>7, <2>8
<1>11. Shapes'
  <2>1. parked' \subseteq Parked  BY <1>0, <1>1, <1>7 DEF Shapes
  <2> QED BY <1>0, <1>1, <2>1 DEF Shapes
<1>12. TypeOK'
  <2>1. \A k \in parked' : 0 <= k.from /\ k.from <= k.anchor /\ k.anchor <= k.to /\ k.to <= Top
    BY <1>0, <1>1, <1>6 DEF TypeOK
  <2> QED BY <1>0, <1>1, <2>1 DEF TypeOK
<1>13. Anchoring'
  <2>1. \A k \in parked' : AnchorOf(k)  BY <1>0, <1>1, <1>8 DEF Anchoring
  <2> QED BY <1>0, <1>1, <2>1, StillAnchored DEF Anchoring
<1>14. Admitted'
  <2>1. \A k \in parked' : /\ ~ReadsTriggerTime => Ns(k.trigger.stamp) = 0
                           /\ k.trigger.pre <= MaxRoll /\ k.trigger.name = "plain"
    BY <1>0, <1>1, <1>6 DEF Admitted
  <2> QED BY <1>1, <2>1, StillAnchored DEF Admitted
<1>15. SleepIsBounded'
  <2>1. \A k \in parked' : /\ k.since_back <= back
                           /\ (k.to - clock) + (elapsed - k.since) <= Longest(k)
                           /\ elapsed <= k.wake
                           /\ k.wake - k.since <= Longest(k)
    BY <1>0, <1>1, <1>10 DEF SleepIsBounded
  <2> QED BY <1>1, <2>1, StillAnchored DEF SleepIsBounded
<1> QED BY <1>11, <1>12, <1>13, <1>14, <1>15 DEF WindowInvariant

LEMMA AnnounceKeeps ==
    ASSUME WindowInvariant, NEW h \in parked, Announce(h)
    PROVE  WindowInvariant'
<1>0. TypeOK /\ Shapes /\ Anchoring /\ Admitted /\ SleepIsBounded  BY DEF WindowInvariant
<1>1. /\ cell' = cell /\ elapsed' = elapsed /\ clock' = clock /\ steps' = steps
      /\ back' = back /\ arrived' = arrived /\ inbox' = inbox /\ holding' = holding
      /\ parked' = parked \ {h}
      /\ recorded' = recorded \cup {[name |-> h.trigger.name, stamp |-> h.trigger.stamp,
                                     pre |-> h.trigger.pre]}
  BY DEF Announce, time
<1>2. h.trigger.pre <= MaxRoll /\ h.trigger.name = "plain"  BY <1>0, ParkedFacts
<1>3. TypeOK'
  <2>1. \A r \in recorded' : r.name = "plain" /\ r.pre <= MaxRoll
    BY <1>0, <1>1, <1>2 DEF TypeOK
  <2>2. \A k \in parked' : 0 <= k.from /\ k.from <= k.anchor /\ k.anchor <= k.to /\ k.to <= Top
    BY <1>0, <1>1 DEF TypeOK
  <2> QED BY <1>0, <1>1, <2>1, <2>2 DEF TypeOK
<1>4. Shapes'  BY <1>0, <1>1 DEF Shapes
<1>5. Anchoring'  BY <1>0, <1>1, StillAnchored DEF Anchoring
<1>6. Admitted'  BY <1>0, <1>1, StillAnchored DEF Admitted
<1>7. SleepIsBounded'  BY <1>0, <1>1, StillAnchored DEF SleepIsBounded
<1> QED BY <1>3, <1>4, <1>5, <1>6, <1>7 DEF WindowInvariant

LEMMA StutterKeeps ==
    ASSUME WindowInvariant, UNCHANGED vars
    PROVE  WindowInvariant'
<1>0. TypeOK /\ Shapes /\ Anchoring /\ Admitted /\ SleepIsBounded  BY DEF WindowInvariant
<1>1. /\ cell' = cell /\ elapsed' = elapsed /\ clock' = clock /\ steps' = steps
      /\ back' = back /\ arrived' = arrived /\ inbox' = inbox /\ holding' = holding
      /\ parked' = parked /\ recorded' = recorded
  BY DEF vars, time
<1>2. TypeOK' /\ Shapes'  BY <1>0, <1>1 DEF TypeOK, Shapes
<1>3. Anchoring'  BY <1>0, <1>1, StillAnchored DEF Anchoring
<1>4. Admitted' /\ SleepIsBounded'  BY <1>0, <1>1, StillParked
<1> QED BY <1>2, <1>3, <1>4 DEF WindowInvariant

LEMMA NextKeeps == WindowInvariant /\ [Next]_vars => WindowInvariant'
<1> SUFFICES ASSUME WindowInvariant, [Next]_vars PROVE WindowInvariant'
  OBVIOUS
<1>1. CASE Tick  BY <1>1, TickKeeps
<1>2. CASE SetClock  BY <1>2, SetClockKeeps
<1>3. CASE Sender
  <2>1. Shapes /\ back \in Nat  BY DEF WindowInvariant, TypeOK
  <2> QED BY <1>3, <2>1, SendersSend, SendKeeps
<1>4. CASE Interface  BY <1>4, TakeKeeps, RejectKeeps, AdmitKeeps DEF Interface
<1>5. CASE \E h \in parked : Sleep(h) \/ Announce(h)
  BY <1>5, SleepKeeps, AnnounceKeeps
<1>6. CASE UNCHANGED vars  BY <1>6, StutterKeeps
<1> QED BY <1>1, <1>2, <1>3, <1>4, <1>5, <1>6 DEF Next

-----------------------------------------------------------------------------
(* Theorems.                                                               *)

(* The inductive invariant holds whatever is sent, and however the system  *)
(* clock is set.                                                           *)
THEOREM WindowInvariance == Spec => []WindowInvariant
<1>1. Init => WindowInvariant  BY InitHolds
<1>2. WindowInvariant /\ [Next]_vars => WindowInvariant'  BY NextKeeps
<1> QED BY <1>1, <1>2, PTL DEF Spec

(* No instant leaves its width, no window is inside out, and what is       *)
(* announced has passed the gate.                                          *)
THEOREM WindowTypeCorrect == Spec => []TypeOK
<1>1. WindowInvariant => TypeOK  BY DEF WindowInvariant
<1> QED BY <1>1, WindowInvariance, PTL

(* A trigger past the gate has the anchor its sender meant, in every cell  *)
(* of --interface and --time-source, unless it was left unset where it is  *)
(* the anchor or its seconds are negative.                                 *)
THEOREM AnchorsAreAsMeant == Spec => []AnchoredAsMeant
<1>1. WindowInvariant => AnchoredAsMeant
  <2> SUFFICES ASSUME WindowInvariant, NEW h \in parked
               PROVE  \/ AsMeant(h)
                      \/ /\ cell = [interface |-> "ros", source |-> "publish"]
                         /\ h.trigger.stamp = Unset /\ h.anchor = 0
                      \/ h.trigger.stamp.sec < 0
    BY DEF AnchoredAsMeant
  <2> DEFINE t == h.trigger
  <2>1. TypeOK /\ Shapes /\ Anchoring /\ Admitted  BY DEF WindowInvariant
  <2>2. h \in Parked /\ AnchorOf(h) /\ (~ReadsTriggerTime => Ns(t.stamp) = 0)
    BY <2>1, ParkedFacts DEF Anchoring
  <2>3. t \in Trigger  BY <2>2 DEF Parked
  <2>4. t.stamp \in Stamp  BY <2>3, TriggerFacts
  <2>5. t.stamp.sec \in Int  BY <2>4 DEF Stamp
  <2>6. ASSUME t.stamp.sec >= 0, t.stamp # Unset  PROVE AsMeant(h)
    <3>1. Ns(t.stamp) # 0  BY <2>4, <2>5, <2>6, NsIsZero
    <3>2. h.anchor = Ns(t.stamp)  BY <2>2, <3>1 DEF AnchorOf
    <3>3. Ns(t.stamp) = t.stamp.sec * SecLen + t.stamp.nanosec
      BY <2>5, <2>6 DEF Ns
    <3> QED BY <2>6, <3>2, <3>3 DEF AsMeant
  <2>7. CASE t.stamp = Unset /\ ReadsTriggerTime
    <3>1. cell = [interface |-> "ros", source |-> "publish"]
      <4>1. cell \in [interface : {"ros", "mcap"}, source : {"log", "publish"}]
        BY <2>1 DEF Shapes
      <4> QED BY <2>7, <4>1 DEF ReadsTriggerTime
    <3>2. h.anchor = Ns(t.stamp)  BY <2>2, <2>7 DEF AnchorOf
    <3>3. Ns(Unset) = 0
      <4>1. 0 * SecLen = 0  BY Widths
      <4> QED BY <4>1 DEF Ns, Unset
    <3> QED BY <2>7, <3>1, <3>2, <3>3
  <2>8. CASE t.stamp = Unset /\ ~ReadsTriggerTime
    <3>1. cell.interface \in {"ros", "mcap"}  BY <2>1 DEF Shapes
    <3> QED BY <2>2, <2>8, <3>1 DEF AnchorOf, AsMeant
  <2> QED BY <2>5, <2>6, <2>7, <2>8
<1> QED BY <1>1, WindowInvariance, PTL

(* No handler sleeps longer than the two limits of the gate together, but  *)
(* for what the system clock lacked of the epoch when it was admitted and  *)
(* for what the clock was set back since.                                  *)
THEOREM ParkingIsBounded == Spec => []ParkIsBounded
<1>1. WindowInvariant => ParkIsBounded
  <2> SUFFICES ASSUME WindowInvariant, NEW h \in parked
               PROVE  elapsed - h.since <= MaxRoll + MaxSkew + h.early + (back - h.since_back)
    BY DEF ParkIsBounded
  <2>1. TypeOK /\ Shapes /\ SleepIsBounded  BY DEF WindowInvariant
  <2>2. h \in Parked  BY <2>1 DEF Shapes
  <2>3. h.wake \in Nat /\ h.since \in Nat /\ h.early \in Nat /\ h.since_back \in Nat
    BY <2>2 DEF Parked
  <2>4. elapsed \in Int /\ back \in Nat  BY <2>1 DEF TypeOK
  <2>5. elapsed <= h.wake /\ h.wake - h.since <= Longest(h)  BY <2>1 DEF SleepIsBounded
  <2>6. Longest(h) \in Int  BY <2>3, <2>4, Widths DEF Longest
  <2>7. elapsed - h.since <= Longest(h)  BY <2>3, <2>4, <2>5, <2>6
  <2> QED BY <2>7 DEF Longest
<1> QED BY <1>1, WindowInvariance, PTL
=============================================================================
