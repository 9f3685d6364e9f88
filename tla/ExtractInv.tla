----------------------------- MODULE ExtractInv -----------------------------
(***************************************************************************)
(* The inductive invariant of Extract: what the writer has handed over and *)
(* where it is, what the index knows of the file, what a plan takes and    *)
(* what the clip has of it.  Its proof is in ExtractProofs.                *)
(***************************************************************************)
EXTENDS Extract

-----------------------------------------------------------------------------
(* The writer.                                                             *)

Stamped == [kind : {"message"}, n : Nat, ch : 1..3, log : Nat, pub : Nat]
Topics == {"sensor", "meta", "pose", "size", TriggerTopic}
Item == [kind : {"schema"}, n : Nat, id : Nat]
        \cup [kind : {"channel"}, n : Nat, id : 1..3,
              topic : Topics, schema : Nat]
        \cup Stamped
Record == [kind : {"single", "chunk", "footer"}, inner : Seq(Item), ok : BOOLEAN]

(* What was written, from the disk to memory: the records of the file, of  *)
(* the sink, and the open chunk, which is a last part that may be empty.   *)
Parts == Len(file) + Len(sink) + 1
HeldIn(f, s, c, k) ==
    IF k <= Len(f) THEN f[k].inner
    ELSE IF k <= Len(f) + Len(s) THEN s[k - Len(f)].inner
    ELSE c
Held(k) == HeldIn(file, sink, chunk, k)

WriterType ==
    /\ style \in Styles
    /\ file \in Seq(Record) /\ sink \in Seq(Record)
    /\ chunk \in Seq(Item) /\ written \in Seq(Item)
    /\ wpc \in {"register", "sample", "data", "trigger", "flush", "finish", "closed", "dead"}
    /\ clock \in Nat /\ clock <= MaxClock
    /\ sampled \in Nat /\ sampled <= clock

(* Every record has one item, unless it is a chunk or the footer, which is *)
(* sound and the last.                                                     *)
Ending == wpc \in {"finish", "closed", "dead"}
Formed(r) ==
    /\ r.kind = "single" => Len(r.inner) = 1
    /\ r.kind = "footer" => r = Footer
RecordsFormed ==
    /\ \A k \in DOMAIN file :
         /\ Formed(file[k])
         /\ file[k].kind = "footer" => k = Len(file) /\ sink = << >> /\ Ending
    /\ \A k \in DOMAIN sink :
         /\ Formed(sink[k]) /\ sink[k].ok
         /\ sink[k].kind = "footer" => k = Len(sink) /\ Ending
    /\ style # "chunked" \/ Ending => chunk = << >>

(* The registration comes first, then messages; items are numbered.        *)
Numbered ==
    /\ wpc = "register" => written = << >>
    /\ wpc \notin {"register", "dead"} => Len(written) >= Len(Registration)
    /\ \A i \in DOMAIN written :
         /\ written[i].n = i
         /\ IF i <= Len(Registration) THEN written[i] = Registration[i]
            ELSE IsMessage(written[i])

(* Log stamps never fall, and no stamp is ahead of the clock.              *)
StampsRise ==
    /\ \A m \in Range(written) :
         IsMessage(m) => /\ m.log <= clock /\ m.pub <= clock
                         /\ style # "copper" => m.log <= sampled
    /\ \A i, j \in DOMAIN written :
         i < j /\ IsMessage(written[i]) /\ IsMessage(written[j]) =>
           written[i].log <= written[j].log

(* What is held was written, is in order, and has no gaps before it.       *)
HeldInOrder ==
    /\ \A k \in 1..Parts : \A x \in Range(Held(k)) : x.n \in DOMAIN written /\ x = written[x.n]
    /\ \A k \in 1..Parts : InOrder(Held(k))
    /\ \A k, l \in 1..Parts : k < l =>
         \A x \in Range(Held(k)), y \in Range(Held(l)) : x.n < y.n
    /\ \A k \in 1..Parts : \A x \in Range(Held(k)) : \A i \in 1..x.n :
         \E l \in 1..k : written[i] \in Range(Held(l))
(* Unless the writer died, everything is held.                             *)
AllHeld ==
    wpc # "dead" => \A x \in Range(written) : \E k \in 1..Parts : x \in Range(Held(k))

(* Every message is on a channel that was registered.                      *)
Registered == {c.id : c \in {x \in Range(Registration) : x.kind = "channel"}}
OnRegistered ==
    \A i \in DOMAIN written : IsMessage(written[i]) => written[i].ch \in Registered

WriterInv ==
    /\ WriterType /\ RecordsFormed /\ Numbered /\ StampsRise /\ HeldInOrder /\ AllHeld

-----------------------------------------------------------------------------
(* Spans, extents and deltas.                                              *)

Domains == {"log", "publish"}
Stamp(m, s) == IF s = "log" THEN m.log ELSE m.pub
Span == [min : Nat, max : Nat]
Stamps == [log : Span, publish : Span]

(* t, which may be absent, is the span of the messages in M.               *)
IsSpan(t, M) ==
    \/ t = << >> /\ M = {}
    \/ /\ M # {} /\ t \in Seq(Stamps) /\ Len(t) = 1
       /\ \A s \in Domains :
            /\ \A m \in M : t[1][s].min <= Stamp(m, s) /\ Stamp(m, s) <= t[1][s].max
            /\ \E m \in M : Stamp(m, s) = t[1][s].max

Messages(X) == {x \in X : IsMessage(x)}
Triggers(X) == {c.id : c \in {x \in X : x.kind = "channel" /\ x.topic = TriggerTopic}}

(* The items of the undamaged records among some.                          *)
Items(S) == UNION {Range(file[k].inner) : k \in {j \in S : file[j].ok}}
Reach(e) == e.offset+1..e.offset+e.len

Extent == [offset : Nat, len : Nat \ {0}, time : Seq(Stamps)]

(* Extents in file order, one after the other, up to `at`, each with the   *)
(* span of its messages.                                                   *)
Tiled(extents, at) ==
    /\ extents \in Seq(Extent)
    /\ \A k \in DOMAIN extents : extents[k].offset + extents[k].len <= at
    /\ \A k, l \in DOMAIN extents :
         k < l => extents[k].offset + extents[k].len <= extents[l].offset
    /\ \A i \in 1..at : \E k \in DOMAIN extents : i \in Reach(extents[k])
    /\ \A k \in DOMAIN extents : IsSpan(extents[k].time, Messages(Items(Reach(extents[k]))))

Map(f, D, R) == DOMAIN f \subseteq D /\ f \in [DOMAIN f -> R]
Delta(at, closed, open, pending, schemas, channels, trig, sent) ==
    [at |-> at, closed |-> closed, open |-> open, pending |-> pending,
     schemas |-> schemas, channels |-> channels, trig |-> trig, sent |-> sent]
DeltaShape(d) ==
    d = Delta(d.at, d.closed, d.open, d.pending, d.schemas, d.channels, d.trig, d.sent)
IsDelta(d) ==
    /\ DeltaShape(d)
    /\ d.at \in Nat /\ d.closed \in Seq(Extent)
    /\ d.open \in Seq(Extent) /\ Len(d.open) <= 1
    /\ d.pending \in Seq(Stamps) /\ Len(d.pending) <= 1
    /\ d.schemas \subseteq Nat /\ Map(d.channels, 1..3, Item) /\ d.trig \subseteq 1..3
    /\ d.sent \in Seq(Item)

(* The channels of a delta or of the registry are those of some items.     *)
DefinesAll(f, X) ==
    /\ DOMAIN f = {x.id : x \in {y \in X : y.kind = "channel"}}
    /\ \A id \in DOMAIN f : f[id] \in X /\ f[id].kind = "channel" /\ f[id].id = id

(* A delta and what was indexed before it account for the file up to its   *)
(* position.                                                               *)
Accounts(d) ==
    /\ IsDelta(d) /\ d.at \in offset..Readable
    /\ Tiled((index.closed \o d.closed) \o d.open, d.at)
    /\ Schemas(d.at) = index.schemas \cup d.schemas
    /\ DefinesAll(d.channels, Items(offset+1..d.at))
    /\ d.trig = Triggers(Good(d.at))
(* What it has sent, after what was sent before.                           *)
SentExactly(sent, d) ==
    /\ sent \in Seq(Item)
    /\ Range(sent) = {m \in GoodMessages(d.at) : m.ch \in d.trig}
    /\ InOrder(sent)

RegistryInv(channels, n) ==
    /\ DOMAIN channels = {c.id : c \in Channels(n)}
    /\ \A id \in DOMAIN channels : Declared(n, id) = {channels[id]}

ScanInv ==
    /\ offset \in 0..Len(file) /\ offset <= Readable
    /\ faults \in 0..MaxFaults[style]
    /\ index.closed \in Seq(Extent)
    /\ Accounts(Seed)
    /\ RegistryInv(index.channels, offset)
    /\ IF pass = << >> THEN SentExactly(lifted, Seed)
       ELSE pass = <<pass[1]>> /\ Accounts(pass[1]) /\ SentExactly(lifted, pass[1])

-----------------------------------------------------------------------------
(* The handler.                                                            *)

PlanInv ==
    /\ plan.upto \in 0..offset
    /\ RegistryInv(plan.channels, plan.upto)
    /\ plan.extents \in Seq(Extent)
    /\ \A k \in DOMAIN plan.extents : plan.extents[k].offset + plan.extents[k].len <= plan.upto
    /\ \A k, l \in DOMAIN plan.extents :
         k < l => plan.extents[k].offset + plan.extents[k].len <= plan.extents[l].offset
    /\ \A i \in 1..plan.upto : \A m \in Messages(Items({i})) :
         InWindow(m, window) => \E k \in DOMAIN plan.extents : i \in Reach(plan.extents[k])
    /\ released /\ Source = "log" =>
         window.to = 0 \/ \E x \in GoodMessages(plan.upto) : x.log >= window.to

(* A clip that has, of the messages in M, those it should.                 *)
Copied == [n : Nat, ch : Nat]
Definition == [topic : Topics, schema : Nat]
ClipOf(messages, table, ids, skipped, dropped) ==
    [messages |-> messages, table |-> table, ids |-> ids, skipped |-> skipped, dropped |-> dropped]
ClipShape(c) == c = ClipOf(c.messages, c.table, c.ids, c.skipped, c.dropped)
IsClip(c) ==
    /\ ClipShape(c)
    /\ c.messages \in Seq(Copied) /\ c.table \in Seq(Definition) /\ Map(c.ids, 1..3, Nat)
    /\ c.skipped \in Nat /\ c.dropped \in Nat
(* An output id stands for the recording's definition, 0 for none.         *)
IdsMatch(c) ==
    \A src \in DOMAIN c.ids :
        IF src \in DOMAIN plan.channels
        THEN c.ids[src] \in DOMAIN c.table /\ c.table[c.ids[src]] = plan.channels[src]
        ELSE c.ids[src] = 0
Wanted(M) == {m \in M : InWindow(m, window) /\ m.ch \in DOMAIN plan.channels}
(* What a copied message has of the one it was copied from.                *)
CopyOf(c, x, m) ==
    x.n = m.n => x.ch \in DOMAIN c.table /\ c.table[x.ch] = plan.channels[m.ch]
ClipHas(c, M) ==
    /\ IsClip(c) /\ IdsMatch(c)
    /\ {x.n : x \in Range(c.messages)} = {m.n : m \in Wanted(M)}
    /\ InOrder(c.messages)
    /\ \A x \in Range(c.messages), m \in Wanted(M) : CopyOf(c, x, m)

HandlerInv ==
    /\ hpc \in {"idle", "waiting", "planned", "done"}
    /\ window \in [from : Nat, to : Nat]
    /\ hpc \in {"planned", "done"} => PlanInv
    /\ hpc \notin {"planned", "done"} => plan.upto = 0
    /\ hpc # "done" => clip = [messages |-> << >>, table |-> << >>, ids |-> << >>,
                               skipped |-> 0, dropped |-> 0]
    /\ hpc = "done" => ClipHas(clip, GoodMessages(plan.upto))

CoverageInv == CoverageIsIndexed /\ coverage \in [Domains -> 0..MaxClock]

ExtractInvariant ==
    WriterInv /\ OnRegistered /\ ScanInv /\ CoverageInv /\ HandlerInv
=============================================================================
