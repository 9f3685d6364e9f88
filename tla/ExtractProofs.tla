---------------------------- MODULE ExtractProofs ----------------------------
(***************************************************************************)
(* Proof that ExtractInvariant holds throughout, and of what follows.      *)
(***************************************************************************)
EXTENDS ExtractInv, RankProofs, WellFoundedInduction

-----------------------------------------------------------------------------
(* Induction up to a bound, as a fact about sets.                          *)

LEMMA LeastOfSet ==
    ASSUME NEW S \in SUBSET Nat, S # {}
    PROVE  \E x \in S : \A y \in S : x <= y
<1>1. IsWellFoundedOn(OpToRel(<, Nat), Nat)  BY NatLessThanWellFounded
<1>2. PICK x \in S : \A y \in S : <<y, x>> \notin OpToRel(<, Nat)
  BY <1>1, WFMin
<1>3. \A y \in S : y < x => <<y, x>> \in OpToRel(<, Nat)  BY DEF OpToRel
<1>4. ASSUME NEW y \in S  PROVE x <= y
  <2>1. x \in Nat /\ y \in Nat /\ ~(y < x)  BY <1>2, <1>3
  <2> QED BY <2>1
<1> QED BY <1>4

(* What holds of 0 and is passed on holds of all numbers up to n.          *)
LEMMA AllUpTo ==
    ASSUME NEW n \in Nat, NEW K, 0 \in K,
           \A k \in 0..n : k < n /\ k \in K => k + 1 \in K
    PROVE  \A k \in 0..n : k \in K
<1> DEFINE S == {k \in 0..n : k \notin K}
<1> SUFFICES ASSUME S # {} PROVE FALSE
  OBVIOUS
<1>1. S \in SUBSET Nat  OBVIOUS
<1>2. PICK m \in S : \A k \in S : m <= k  BY <1>1, LeastOfSet
<1>3. m # 0 /\ m \in 0..n /\ m \notin K  BY <1>2
<1>4. m - 1 \in 0..n /\ m - 1 < n /\ ~(m <= m - 1)  BY <1>3
<1>5. m - 1 \in K  BY <1>2, <1>4
<1>6. (m - 1) + 1 \in K  BY <1>4, <1>5
<1> QED BY <1>3, <1>6

(* A bounded set of numbers has a greatest one.                            *)
LEMMA MaxOf ==
    ASSUME NEW n \in Nat, NEW S \in SUBSET (0..n), S # {}
    PROVE  Max(S) \in S /\ \A y \in S : y <= Max(S)
<1> DEFINE U == {u \in 0..n : \A y \in S : y <= u}
<1>1. U \in SUBSET Nat /\ n \in U  OBVIOUS
<1>2. PICK u \in U : \A v \in U : u <= v  BY <1>1, LeastOfSet
<1>3. u \in S
  <2> SUFFICES ASSUME u \notin S PROVE FALSE
    OBVIOUS
  <2>1. \A y \in S : y <= u /\ y # u /\ y \in 0..n  BY <1>2
  <2>2. u \in 1..n
    <3>1. PICK y \in S : TRUE  OBVIOUS
    <3>2. y <= u /\ y # u /\ y \in 0..n /\ u \in 0..n  BY <2>1, <3>1
    <3> QED BY <3>2
  <2>3. u - 1 \in U  BY <2>1, <2>2
  <2>4. ~(u <= u - 1)  BY <2>2
  <2> QED BY <1>2, <2>3, <2>4
<1>4. \E x \in S : \A y \in S : x >= y  BY <1>2, <1>3
<1>5. Max(S) \in S /\ \A y \in S : Max(S) >= y  BY <1>4 DEF Max
<1>6. \A y \in S : y \in Nat  OBVIOUS
<1> QED BY <1>5, <1>6

-----------------------------------------------------------------------------
(* Sequences.                                                              *)

LEMMA ConcatIs ==
    ASSUME NEW S, NEW s \in Seq(S), NEW t \in Seq(S)
    PROVE  /\ s \o t \in Seq(S) /\ Len(s \o t) = Len(s) + Len(t)
           /\ Len(s) \in Nat /\ Len(t) \in Nat
           /\ \A i \in 1..Len(s) : (s \o t)[i] = s[i]
           /\ \A i \in 1..Len(t) : (s \o t)[Len(s) + i] = t[i]
           /\ \A i \in 1..Len(s \o t) : i \in 1..Len(s) \/ i - Len(s) \in 1..Len(t)
           /\ \A i \in 1..Len(s \o t) :
                (s \o t)[i] = IF i <= Len(s) THEN s[i] ELSE t[i - Len(s)]
OBVIOUS

LEMMA AppendIs ==
    ASSUME NEW S, NEW s \in Seq(S), NEW e \in S
    PROVE  /\ Append(s, e) \in Seq(S) /\ Len(Append(s, e)) = Len(s) + 1 /\ Len(s) \in Nat
           /\ \A i \in 1..Len(s) + 1 : Append(s, e)[i] = IF i <= Len(s) THEN s[i] ELSE e
           /\ Append(s, e)[Len(s) + 1] = e
OBVIOUS

LEMMA RangeIs ==
    ASSUME NEW S, NEW s \in Seq(S)
    PROVE  /\ \A x : x \in Range(s) <=> \E i \in 1..Len(s) : x = s[i]
           /\ Range(s) \subseteq S
BY DEF Range

LEMMA RangeConcat ==
    ASSUME NEW S, NEW s \in Seq(S), NEW t \in Seq(S)
    PROVE  Range(s \o t) = Range(s) \cup Range(t)
<1>0. s \o t \in Seq(S)  BY ConcatIs
<1>1. \A x : x \in Range(s \o t) => x \in Range(s) \/ x \in Range(t)
  <2> SUFFICES ASSUME NEW i \in 1..Len(s \o t)
               PROVE  (s \o t)[i] \in Range(s) \/ (s \o t)[i] \in Range(t)
    <3>1. \A x : x \in Range(s \o t) => \E i \in 1..Len(s \o t) : x = (s \o t)[i]
      BY <1>0 DEF Range
    <3> QED BY <3>1
  <2>1. CASE i \in 1..Len(s)  BY <2>1, ConcatIs, RangeIs
  <2>2. CASE i - Len(s) \in 1..Len(t)
    <3>1. i = Len(s) + (i - Len(s))  BY ConcatIs
    <3>2. (s \o t)[i] = t[i - Len(s)]  BY <2>2, <3>1, ConcatIs
    <3> QED BY <2>2, <3>2, RangeIs
  <2> QED BY <2>1, <2>2, ConcatIs
<1>2. \A i \in 1..Len(s) : s[i] \in Range(s \o t)
  <2>1. \A i \in 1..Len(s) : i \in 1..Len(s \o t) /\ s[i] = (s \o t)[i]  BY ConcatIs
  <2> QED BY <2>1, ConcatIs, RangeIs
<1>3. \A i \in 1..Len(t) : t[i] \in Range(s \o t)
  <2>1. \A i \in 1..Len(t) : Len(s) + i \in 1..Len(s \o t) /\ t[i] = (s \o t)[Len(s) + i]
    BY ConcatIs
  <2> QED BY <2>1, ConcatIs, RangeIs
<1> QED BY <1>1, <1>2, <1>3, RangeIs

(* The items of one, followed by those of another with greater numbers.    *)
LEMMA ConcatInOrder ==
    ASSUME NEW S, NEW s \in Seq(S), NEW t \in Seq(S), InOrder(s), InOrder(t),
           \A i \in 1..Len(s), j \in 1..Len(t) : s[i].n < t[j].n
    PROVE  InOrder(s \o t)
<1>1. DOMAIN s = 1..Len(s) /\ DOMAIN t = 1..Len(t) /\ DOMAIN (s \o t) = 1..Len(s \o t)
  BY ConcatIs
<1>2. SUFFICES ASSUME NEW i \in 1..Len(s \o t), NEW j \in 1..Len(s \o t), i < j
               PROVE  (s \o t)[i].n < (s \o t)[j].n
  BY <1>1 DEF InOrder
<1>3. CASE j \in 1..Len(s)
  <2>0. Len(s) \in Nat /\ Len(s \o t) \in Nat  BY ConcatIs
  <2>1. i \in 1..Len(s)  BY <1>2, <1>3, <2>0
  <2>2. (s \o t)[i] = s[i] /\ (s \o t)[j] = s[j]  BY <1>3, <2>1, ConcatIs
  <2> QED BY <1>1, <1>2, <1>3, <2>1, <2>2 DEF InOrder
<1>4. CASE i \in 1..Len(s) /\ j \notin 1..Len(s)
  <2>1. j - Len(s) \in 1..Len(t)  BY <1>4, ConcatIs
  <2>2. (s \o t)[i] = s[i] /\ (s \o t)[j] = t[j - Len(s)]  BY <1>4, ConcatIs
  <2> QED BY <1>4, <2>1, <2>2
<1>5. CASE i \notin 1..Len(s) /\ j \notin 1..Len(s)
  <2>1. i - Len(s) \in 1..Len(t) /\ j - Len(s) \in 1..Len(t)  BY <1>5, ConcatIs
  <2>2. (s \o t)[i] = t[i - Len(s)] /\ (s \o t)[j] = t[j - Len(s)]  BY <1>5, ConcatIs
  <2>3. i - Len(s) < j - Len(s)  BY <1>2, ConcatIs
  <2> QED BY <1>1, <2>1, <2>2, <2>3 DEF InOrder
<1> QED BY <1>3, <1>4, <1>5

-----------------------------------------------------------------------------
(* The writer.                                                             *)

LEMMA RegistrationShape ==
    ASSUME WriterType
    PROVE  /\ Registration \in Seq(Item) /\ Len(Registration) \in 1..6
           /\ TriggerChannel \in 1..3
           /\ \A i \in 1..Len(Registration) :
                Registration[i].n = i /\ ~IsMessage(Registration[i])
<1>1. style \in {"copper", "custom", "chunked"}  BY WritersAssumption DEF WriterType
<1>2. CASE style = "copper"
  BY <1>2 DEF Registration, Schema, Channel, Item, Topics, IsMessage, TriggerTopic, TriggerChannel
<1>3. CASE style = "custom"
  BY <1>3 DEF Registration, Schema, Channel, Item, Topics, IsMessage, TriggerTopic, TriggerChannel
<1>4. CASE style = "chunked"
  BY <1>4 DEF Registration, Schema, Channel, Item, Topics, IsMessage, TriggerTopic, TriggerChannel
<1> QED BY <1>1, <1>2, <1>3, <1>4

(* Items that are written go behind what is held, in order: item i to the  *)
(* part at[i].  Here sink s becomes t, and the open chunk c becomes d.     *)
Placed(f, s, c, t, d, items, at) ==
    LET p == Len(f) + Len(s) + 1
        q == Len(f) + Len(t) + 1
    IN  /\ p \in Nat \ {0} /\ q \in Nat /\ p <= q
        /\ at \in [1..Len(items) -> p..q]
        /\ \A i, j \in 1..Len(items) : i < j => at[i] <= at[j]
        /\ \A k \in 1..q : \A x :
             x \in Range(HeldIn(f, t, d, k)) <=>
               \/ k <= p /\ x \in Range(HeldIn(f, s, c, k))
               \/ \E i \in 1..Len(items) : at[i] = k /\ x = items[i]
        /\ \A k \in 1..q : InOrder(HeldIn(f, t, d, k))

LEMMA PlacesApart ==
    ASSUME NEW f \in Seq(Record), NEW s \in Seq(Record), NEW items \in Seq(Item),
           \A k \in 1..Len(f) + Len(s) + 1 : InOrder(HeldIn(f, s, << >>, k)),
           NEW t, t = s \o [k \in 1..Len(items) |-> Single(items[k])]
    PROVE  \E at : Placed(f, s, << >>, t, << >>, items, at)
<1> DEFINE p == Len(f) + Len(s) + 1
           q == Len(f) + Len(t) + 1
           S == [k \in 1..Len(items) |-> Single(items[k])]
           at == [i \in 1..Len(items) |-> p + i - 1]
           Old(k) == HeldIn(f, s, << >>, k)
           New(k) == HeldIn(f, t, << >>, k)
<1>1. Len(items) \in Nat /\ t = s \o S  OBVIOUS
<1>2. S \in Seq(Record) /\ Len(S) = Len(items) /\ \A i \in 1..Len(items) : S[i].inner = <<items[i]>>
  <2>1. \A k \in 1..Len(items) : Single(items[k]) \in Record
    BY DEF Single, Record
  <2> QED BY <1>1, <2>1 DEF Single
<1> HIDE DEF S
<1>3. /\ t \in Seq(Record) /\ Len(t) = Len(s) + Len(items) /\ Len(f) \in Nat /\ Len(s) \in Nat
      /\ \A i \in 1..Len(s) : t[i] = s[i]
      /\ \A i \in 1..Len(items) : t[Len(s) + i] = S[i]
  BY <1>1, <1>2, ConcatIs
<1>20. /\ \A k \in 1..Len(f) : Old(k) = f[k].inner /\ New(k) = f[k].inner
       /\ \A k \in Nat : k - Len(f) \in 1..Len(s) => Old(k) = s[k - Len(f)].inner
       /\ \A k \in Nat : k - Len(f) \in 1..Len(t) => New(k) = t[k - Len(f)].inner
       /\ Old(p) = << >> /\ New(q) = << >>
  <2>1. t \in Seq(Record)  BY <1>3
  <2>2. /\ \A k \in 1..Len(f) : Old(k) = f[k].inner
        /\ \A k \in Nat : k - Len(f) \in 1..Len(s) => Old(k) = s[k - Len(f)].inner
        /\ Old(p) = << >>
    BY Len(f) \in Nat, Len(s) \in Nat DEF HeldIn
  <2>3. /\ \A k \in 1..Len(f) : New(k) = f[k].inner
        /\ \A k \in Nat : k - Len(f) \in 1..Len(t) => New(k) = t[k - Len(f)].inner
        /\ New(q) = << >>
    BY <2>1, Len(f) \in Nat, Len(t) \in Nat DEF HeldIn
  <2> HIDE DEF Old, New
  <2> QED BY <2>2, <2>3
<1> HIDE DEF New, Old
<1>4. ASSUME NEW k \in 1..q, k < p  PROVE New(k) = Old(k)
  <2>1. CASE k \in 1..Len(f)  BY <1>20, <2>1
  <2>2. CASE k - Len(f) \in 1..Len(s)
    <3>1. k - Len(f) \in 1..Len(t) /\ t[k - Len(f)] = s[k - Len(f)] /\ k \in Nat
      BY <1>1, <1>3, <2>2
    <3> QED BY <1>20, <2>2, <3>1
  <2> QED BY <1>3, <1>4, <2>1, <2>2
<1>5. ASSUME NEW k \in 1..q, k >= p, k < q
      PROVE  k - p + 1 \in 1..Len(items) /\ New(k) = <<items[k - p + 1]>>
  <2>1. k - p + 1 \in 1..Len(items) /\ k - Len(f) = Len(s) + (k - p + 1) /\ k \in Nat
        /\ k - Len(f) \in 1..Len(t)
    BY <1>1, <1>3, <1>5
  <2>2. New(k) = t[k - Len(f)].inner  BY <1>20, <2>1
  <2>3. t[k - Len(f)] = S[k - p + 1]  BY <1>3, <2>1
  <2> QED BY <1>2, <2>1, <2>2, <2>3
<1>6. New(q) = << >> /\ Old(p) = << >>  BY <1>20
<1>7. p \in Nat \ {0} /\ q = p + Len(items) /\ q \in Nat  BY <1>1, <1>3
<1> HIDE DEF New, Old, p, q
<1>8. ASSUME NEW k \in 1..q, NEW x
      PROVE  x \in Range(New(k)) <=> \/ k <= p /\ x \in Range(Old(k))
                                     \/ \E i \in 1..Len(items) : at[i] = k /\ x = items[i]
  <2>1. CASE k < p
    <3>1. \A i \in 1..Len(items) : at[i] # k  BY <1>1, <1>7, <2>1
    <3> QED BY <1>4, <1>7, <2>1, <3>1
  <2>2. CASE k >= p /\ k < q
    <3>1. k - p + 1 \in 1..Len(items)  BY <1>5, <2>2
    <3>2. \A i \in 1..Len(items) : at[i] = k <=> i = k - p + 1  BY <1>1, <1>7, <2>2
    <3>3. x \in Range(New(k)) <=> x = items[k - p + 1]  BY <1>5, <2>2 DEF Range
    <3>4. ~(k <= p /\ x \in Range(Old(k)))
      <4>1. k <= p => k = p  BY <1>7, <2>2
      <4> QED BY <1>6, <4>1 DEF Range
    <3> QED BY <3>1, <3>2, <3>3, <3>4
  <2>3. CASE k = q
    <3>1. \A i \in 1..Len(items) : at[i] # k  BY <1>1, <1>7, <2>3
    <3>2. x \notin Range(New(k))  BY <1>6, <2>3 DEF Range
    <3>3. ~(k <= p /\ x \in Range(Old(k)))
      <4>1. k <= p => k = p  BY <1>1, <1>7, <2>3
      <4> QED BY <1>6, <4>1 DEF Range
    <3> QED BY <3>1, <3>2, <3>3
  <2> QED BY <1>7, <2>1, <2>2, <2>3
<1>9. ASSUME NEW k \in 1..q  PROVE InOrder(New(k))
  <2>1. CASE k < p
    <3>1. InOrder(Old(k))  BY <1>7, <2>1 DEF p, Old
    <3> QED BY <1>4, <2>1, <3>1
  <2>2. CASE k >= p /\ k < q  BY <1>5, <2>2 DEF InOrder
  <2>3. CASE k = q  BY <1>6, <2>3 DEF InOrder
  <2> QED BY <1>7, <2>1, <2>2, <2>3
<1>10. at \in [1..Len(items) -> p..q] /\ \A i, j \in 1..Len(items) : i < j => at[i] <= at[j]
  BY <1>1, <1>7
<1>11. p <= q  BY <1>1, <1>7
<1> HIDE DEF at
<1>12. Placed(f, s, << >>, t, << >>, items, at)
  BY <1>7, <1>8, <1>9, <1>10, <1>11 DEF Placed, New, Old, p, q
<1> QED BY <1>12

LEMMA PlacesInChunk ==
    ASSUME NEW f \in Seq(Record), NEW s \in Seq(Record), NEW items \in Seq(Item),
           NEW c \in Seq(Item),
           \A k \in 1..Len(f) + Len(s) + 1 : InOrder(HeldIn(f, s, c, k)),
           InOrder(c \o items), NEW t, NEW d,
           \/ t = s /\ d = c \o items
           \/ t = Append(s, Chunk(c \o items)) /\ d = << >>
    PROVE  \E at : Placed(f, s, c, t, d, items, at)
<1> DEFINE p == Len(f) + Len(s) + 1
           q == Len(f) + Len(t) + 1
           at == [i \in 1..Len(items) |-> p]
           Old(k) == HeldIn(f, s, c, k)
           New(k) == HeldIn(f, t, d, k)
<1>1. Chunk(c \o items) \in Record /\ Chunk(c \o items).inner = c \o items /\ Len(items) \in Nat
  BY ConcatIs DEF Chunk, Record
<1>2. /\ t \in Seq(Record) /\ Len(f) \in Nat /\ Len(s) \in Nat
      /\ \A i \in 1..Len(s) : t[i] = s[i]
      /\ \/ q = p /\ t = s /\ d = c \o items
         \/ q = p + 1 /\ d = << >> /\ Len(t) = Len(s) + 1 /\ t[Len(s) + 1].inner = c \o items
  <2>1. Len(f) \in Nat /\ Len(s) \in Nat  OBVIOUS
  <2>2. CASE t = s /\ d = c \o items
    <3>1. q = p  BY <2>2
    <3> QED BY <2>1, <2>2, <3>1
  <2>3. CASE t = Append(s, Chunk(c \o items)) /\ d = << >>
    <3>1. /\ t \in Seq(Record) /\ Len(t) = Len(s) + 1
          /\ \A i \in 1..Len(s) : t[i] = s[i]
          /\ t[Len(s) + 1] = Chunk(c \o items)
      BY <1>1, <2>1, <2>3, AppendIs
    <3>2. q = p + 1  BY <2>1, <3>1
    <3> QED BY <1>1, <2>1, <2>3, <3>1, <3>2
  <2> QED BY <2>2, <2>3
<1>20. /\ \A k \in 1..Len(f) : Old(k) = f[k].inner /\ New(k) = f[k].inner
       /\ \A k \in Nat : k - Len(f) \in 1..Len(s) => Old(k) = s[k - Len(f)].inner
       /\ \A k \in Nat : k - Len(f) \in 1..Len(t) => New(k) = t[k - Len(f)].inner
       /\ Old(p) = c /\ New(q) = d
  <2>1. t \in Seq(Record)  BY <1>2
  <2>2. /\ \A k \in 1..Len(f) : Old(k) = f[k].inner
        /\ \A k \in Nat : k - Len(f) \in 1..Len(s) => Old(k) = s[k - Len(f)].inner
        /\ Old(p) = c
    BY Len(f) \in Nat, Len(s) \in Nat DEF HeldIn
  <2>3. /\ \A k \in 1..Len(f) : New(k) = f[k].inner
        /\ \A k \in Nat : k - Len(f) \in 1..Len(t) => New(k) = t[k - Len(f)].inner
        /\ New(q) = d
    BY <2>1, Len(f) \in Nat, Len(t) \in Nat DEF HeldIn
  <2> HIDE DEF Old, New
  <2> QED BY <2>2, <2>3
<1> HIDE DEF New, Old
<1>3. ASSUME NEW k \in 1..q, k < p  PROVE New(k) = Old(k)
  <2>1. CASE k \in 1..Len(f)  BY <1>20, <2>1
  <2>2. CASE k - Len(f) \in 1..Len(s)
    <3>1. k - Len(f) \in 1..Len(t) /\ t[k - Len(f)] = s[k - Len(f)] /\ k \in Nat
      BY <1>2, <2>2
    <3> QED BY <1>20, <2>2, <3>1
  <2> QED BY <1>2, <1>3, <2>1, <2>2
<1>4. Old(p) = c  BY <1>20
<1>5. New(p) = c \o items
  <2>1. CASE q = p /\ d = c \o items /\ t = s  BY <1>20, <2>1
  <2>2. CASE q = p + 1 /\ Len(t) = Len(s) + 1 /\ t[Len(s) + 1].inner = c \o items
    <3>1. p - Len(f) = Len(s) + 1 /\ p - Len(f) \in 1..Len(t) /\ p \in Nat  BY <1>2, <2>2
    <3> QED BY <1>20, <2>2, <3>1
  <2> QED BY <1>2, <2>1, <2>2
<1>6. q = p + 1 => New(q) = << >>
  <2>1. ~(q = p /\ q = p + 1)  BY <1>2
  <2> QED BY <1>2, <1>20, <2>1
<1>7. p \in Nat \ {0} /\ q \in Nat /\ (q = p \/ q = p + 1)  BY <1>2
<1>8. Range(c \o items) = Range(c) \cup Range(items)
      /\ \A x : x \in Range(items) <=> \E i \in 1..Len(items) : x = items[i]
  BY RangeConcat, RangeIs
<1> HIDE DEF New, Old, p, q
<1>9. ASSUME NEW k \in 1..q, NEW x
      PROVE  x \in Range(New(k)) <=> \/ k <= p /\ x \in Range(Old(k))
                                     \/ \E i \in 1..Len(items) : at[i] = k /\ x = items[i]
  <2>1. CASE k < p
    <3>1. \A i \in 1..Len(items) : at[i] # k  BY <1>7, <2>1
    <3> QED BY <1>3, <1>7, <2>1, <3>1
  <2>2. CASE k = p
    <3>1. (\E i \in 1..Len(items) : at[i] = k /\ x = items[i]) <=> x \in Range(items)
      BY <1>8, <2>2
    <3>2. Range(New(k)) = Range(Old(k)) \cup Range(items)  BY <1>4, <1>5, <1>8, <2>2
    <3>3. k <= p  BY <1>7, <2>2
    <3> QED BY <3>1, <3>2, <3>3
  <2>3. CASE k = q /\ q = p + 1
    <3>1. \A i \in 1..Len(items) : at[i] # k  BY <1>7, <2>3
    <3>2. x \notin Range(New(k))  BY <1>6, <2>3 DEF Range
    <3> QED BY <1>7, <2>3, <3>1, <3>2
  <2> QED BY <1>7, <2>1, <2>2, <2>3
<1>10. ASSUME NEW k \in 1..q  PROVE InOrder(New(k))
  <2>1. CASE k < p
    <3>1. InOrder(Old(k))  BY <1>7, <2>1 DEF p, Old
    <3> QED BY <1>3, <2>1, <3>1
  <2>2. CASE k = p  BY <1>5, <2>2
  <2>3. CASE k = q /\ q = p + 1  BY <1>6, <2>3 DEF InOrder
  <2> QED BY <1>7, <2>1, <2>2, <2>3
<1>11. at \in [1..Len(items) -> p..q] /\ \A i, j \in 1..Len(items) : i < j => at[i] <= at[j]
  BY <1>7
<1>12. p <= q  BY <1>7
<1> HIDE DEF at
<1>13. Placed(f, s, c, t, d, items, at)
  BY <1>7, <1>9, <1>10, <1>11, <1>12 DEF Placed, New, Old, p, q
<1> QED BY <1>13

(* What is held stays in order, without gaps, as items are written.        *)
LEMMA WriteKeepsOrder ==
    ASSUME WriterType, HeldInOrder, AllHeld, wpc # "dead",
           NEW items \in Seq(Item), \A i \in 1..Len(items) : items[i].n = Len(written) + i,
           file' = file, written' = written \o items,
           NEW at, Placed(file, sink, chunk, sink', chunk', items, at)
    PROVE  HeldInOrder' /\ AllHeld'
<1> DEFINE p == Len(file) + Len(sink) + 1
           q == Len(file) + Len(sink') + 1
           Old(k) == HeldIn(file, sink, chunk, k)
           New(k) == HeldIn(file, sink', chunk', k)
           w == written
           v == written \o items
           N == Len(items)
<1>1. /\ w \in Seq(Item) /\ v \in Seq(Item) /\ Len(w) \in Nat /\ N \in Nat /\ Len(v) = Len(w) + N
      /\ \A i \in 1..Len(w) : v[i] = w[i]
      /\ \A i \in 1..N : v[Len(w) + i] = items[i]
      /\ \A i \in 1..Len(v) : i \in 1..Len(w) \/ i - Len(w) \in 1..N
      /\ DOMAIN w = 1..Len(w) /\ DOMAIN v = 1..Len(v)
  BY ConcatIs DEF WriterType
<1>2. /\ \A k \in 1..p : \A x \in Range(Old(k)) : x.n \in 1..Len(w) /\ x = w[x.n]
      /\ \A k, l \in 1..p : k < l => \A x \in Range(Old(k)), y \in Range(Old(l)) : x.n < y.n
      /\ \A k \in 1..p : \A x \in Range(Old(k)) : \A i \in 1..x.n :
           \E l \in 1..k : w[i] \in Range(Old(l))
      /\ \A x \in Range(w) : \E k \in 1..p : x \in Range(Old(k))
  BY <1>1 DEF HeldInOrder, AllHeld, Held, Parts
<1>3. /\ p \in Nat \ {0} /\ q \in Nat /\ p <= q
      /\ at \in [1..N -> p..q]
      /\ \A i, j \in 1..N : i < j => at[i] <= at[j]
      /\ \A k \in 1..q : \A x :
           x \in Range(New(k)) <=> \/ k <= p /\ x \in Range(Old(k))
                                  \/ \E i \in 1..N : at[i] = k /\ x = items[i]
      /\ \A k \in 1..q : InOrder(New(k))
  BY DEF Placed
<1>4. \A i \in 1..N : items[i].n = Len(w) + i  OBVIOUS
<1>5. Range(v) = Range(w) \cup Range(items)
      /\ \A x : x \in Range(items) <=> \E i \in 1..N : x = items[i]
  BY RangeConcat, RangeIs DEF WriterType
<1>6. \A k \in 1..Len(w) : w[k] \in Range(w)  BY <1>1, RangeIs
<1> HIDE DEF p, q, Old, New, w, v, N
<1>7. ASSUME NEW k \in 1..q, NEW x \in Range(New(k))
      PROVE  x.n \in 1..Len(v) /\ x = v[x.n]
  <2>1. CASE k <= p /\ x \in Range(Old(k))
    <3>1. x.n \in 1..Len(w) /\ x = w[x.n]  BY <1>2, <1>3, <2>1
    <3> QED BY <1>1, <3>1
  <2>2. CASE \E i \in 1..N : at[i] = k /\ x = items[i]
    <3>1. PICK i \in 1..N : x = items[i]  BY <2>2
    <3>2. x.n = Len(w) + i  BY <1>4, <3>1
    <3>3. x.n \in 1..Len(v)  BY <1>1, <3>2
    <3>4. v[x.n] = items[i]  BY <1>1, <3>2
    <3> QED BY <3>1, <3>3, <3>4
  <2> QED BY <1>3, <2>1, <2>2
<1>8. ASSUME NEW k \in 1..q, NEW l \in 1..q, k < l,
             NEW x \in Range(New(k)), NEW y \in Range(New(l))
      PROVE  x.n < y.n
  <2>1. CASE k <= p /\ x \in Range(Old(k)) /\ l <= p /\ y \in Range(Old(l))
    <3>1. k \in 1..p /\ l \in 1..p  BY <1>3, <2>1
    <3> QED BY <1>2, <1>8, <2>1, <3>1
  <2>2. CASE k <= p /\ x \in Range(Old(k)) /\ \E i \in 1..N : at[i] = l /\ y = items[i]
    <3>1. PICK i \in 1..N : y = items[i]  BY <2>2
    <3>2. y.n = Len(w) + i  BY <1>4, <3>1
    <3>3. x.n \in 1..Len(w)  BY <1>2, <1>3, <2>2
    <3> QED BY <1>1, <3>2, <3>3
  <2>3. CASE l <= p /\ \E i \in 1..N : at[i] = k /\ x = items[i]
    <3>1. PICK i \in 1..N : at[i] = k  BY <2>3
    <3>2. p <= k  BY <1>3, <3>1
    <3> QED BY <1>3, <1>8, <2>3, <3>2
  <2>4. CASE /\ \E i \in 1..N : at[i] = k /\ x = items[i]
             /\ \E i \in 1..N : at[i] = l /\ y = items[i]
    <3>1. PICK i \in 1..N : at[i] = k /\ x = items[i]  BY <2>4
    <3>2. PICK j \in 1..N : at[j] = l /\ y = items[j]  BY <2>4
    <3>3. i < j
      <4>1. ~(j < i)  BY <1>3, <1>8, <3>1, <3>2
      <4>2. i # j  BY <1>8, <3>1, <3>2
      <4> QED BY <1>1, <4>1, <4>2
    <3> QED BY <1>1, <1>4, <3>1, <3>2, <3>3
  <2> QED BY <1>3, <2>1, <2>2, <2>3, <2>4
<1>9. \A k \in 1..p : k \in 1..q /\ \A x \in Range(Old(k)) : x \in Range(New(k))
  BY <1>3
<1>10. \A i \in 1..N : at[i] \in 1..q /\ p <= at[i] /\ items[i] \in Range(New(at[i]))
  <2> TAKE i \in 1..N
  <2>1. at[i] \in 1..q /\ p <= at[i]  BY <1>3
  <2> QED BY <1>3, <2>1
<1>11. ASSUME NEW k \in 1..q, NEW x \in Range(New(k)), NEW i \in 1..x.n
       PROVE  \E l \in 1..k : v[i] \in Range(New(l))
  <2>1. CASE k <= p /\ x \in Range(Old(k))
    <3>0. k \in 1..p  BY <1>3, <2>1
    <3>1. PICK l \in 1..k : w[i] \in Range(Old(l))  BY <1>2, <2>1, <3>0
    <3>2. x.n \in 1..Len(w)  BY <1>2, <2>1, <3>0
    <3>3. v[i] = w[i]
      <4>1. i \in 1..Len(w)  BY <1>1, <3>2
      <4> QED BY <1>1, <4>1
    <3>4. l \in 1..p  BY <1>3, <2>1
    <3> QED BY <1>9, <3>1, <3>3, <3>4
  <2>2. CASE \E j \in 1..N : at[j] = k /\ x = items[j]
    <3>1. PICK j \in 1..N : at[j] = k /\ x = items[j]  BY <2>2
    <3>2. x.n = Len(w) + j  BY <1>4, <3>1
    <3>3. CASE i <= Len(w)
      <4>1. i \in 1..Len(w) /\ v[i] = w[i] /\ w[i] \in Range(w)  BY <1>1, <1>6, <3>2, <3>3
      <4>2. PICK l \in 1..p : w[i] \in Range(Old(l))  BY <1>2, <4>1
      <4>3. p <= k  BY <1>10, <3>1
      <4>4. l \in 1..k  BY <1>3, <4>2, <4>3
      <4>5. w[i] \in Range(New(l))  BY <1>9, <4>2
      <4> QED BY <4>1, <4>4, <4>5
    <3>4. CASE i > Len(w)
      <4>1. PICK m \in 1..N : m <= j /\ i = Len(w) + m
        <5>1. i - Len(w) \in 1..N /\ i - Len(w) <= j /\ i = Len(w) + (i - Len(w))
          BY <1>1, <3>2, <3>4
        <5> QED BY <5>1
      <4>2. v[i] = items[m]  BY <1>1, <4>1
      <4>3. at[m] <= k
        <5>1. m = j \/ m < j  BY <1>1, <4>1
        <5>2. k <= k  OBVIOUS
        <5> QED BY <1>3, <3>1, <4>1, <5>1, <5>2
      <4>4. at[m] \in 1..k
        <5>1. at[m] \in 1..q  BY <1>10
        <5> QED BY <4>3, <5>1
      <4>5. items[m] \in Range(New(at[m]))  BY <1>10
      <4> QED BY <4>2, <4>4, <4>5
    <3> QED BY <1>1, <3>2, <3>3, <3>4
  <2> QED BY <1>3, <2>1, <2>2
<1>12. \A x \in Range(v) : \E k \in 1..q : x \in Range(New(k))
  <2> TAKE x \in Range(v)
  <2>1. CASE x \in Range(w)  BY <1>2, <1>9, <2>1
  <2>2. CASE x \in Range(items)  BY <1>5, <1>10, <2>2
  <2> QED BY <1>5, <2>1, <2>2
<1>13. Parts' = q /\ written' = v /\ \A k : Held(k)' = New(k)
  BY DEF Parts, Held, q, v, New
<1>14. HeldInOrder'
  <2>1. \A k \in 1..q : \A x \in Range(New(k)) : x.n \in DOMAIN v /\ x = v[x.n]  BY <1>1, <1>7
  <2>2. \A k \in 1..q : InOrder(New(k))  BY <1>3
  <2>3. \A k, l \in 1..q : k < l =>
          \A x \in Range(New(k)), y \in Range(New(l)) : x.n < y.n
    BY <1>8
  <2>4. \A k \in 1..q : \A x \in Range(New(k)) : \A i \in 1..x.n :
          \E l \in 1..k : v[i] \in Range(New(l))
    BY <1>11
  <2> QED BY <1>13, <2>1, <2>2, <2>3, <2>4 DEF HeldInOrder
<1>15. AllHeld'  BY <1>12, <1>13 DEF AllHeld
<1> QED BY <1>14, <1>15

(* The records that are written, whatever their items.                     *)
LEMMA WriteKeepsForm ==
    ASSUME WriterType, RecordsFormed, ~Ending, style' = style, file' = file,
           ~Ending', NEW items \in Seq(Item), Write(items)
    PROVE  /\ RecordsFormed'
           /\ sink' \in Seq(Record) /\ chunk' \in Seq(Item) /\ written' \in Seq(Item)
<1> DEFINE S == [k \in 1..Len(items) |-> Single(items[k])]
<1>1. /\ file \in Seq(Record) /\ sink \in Seq(Record) /\ chunk \in Seq(Item)
      /\ DOMAIN sink = 1..Len(sink) /\ Len(sink) \in Nat /\ Len(items) \in Nat
      /\ written' \in Seq(Item)
      /\ chunk \o items \in Seq(Item)
      /\ style \in {"copper", "custom", "chunked"}
  BY WritersAssumption, ConcatIs DEF WriterType, Write
<1>2. /\ \A k \in DOMAIN file : Formed(file[k]) /\ file[k].kind # "footer"
      /\ \A k \in 1..Len(sink) : Formed(sink[k]) /\ sink[k].ok /\ sink[k].kind # "footer"
  BY <1>1 DEF RecordsFormed
<1>3. SUFFICES /\ \A k \in DOMAIN sink' : Formed(sink'[k]) /\ sink'[k].ok /\ sink'[k].kind # "footer"
               /\ style # "chunked" => chunk' = << >>
               /\ sink' \in Seq(Record) /\ chunk' \in Seq(Item)
  BY <1>1, <1>2 DEF RecordsFormed, Ending
<1>4. CASE style # "chunked"
  <2>1. sink' = sink \o S /\ chunk' = << >>  BY <1>4 DEF Write, RecordsFormed
  <2>2. \A k \in 1..Len(items) : /\ S[k] \in Record /\ Formed(S[k])
                                 /\ S[k].ok /\ S[k].kind # "footer"
    BY DEF Single, Record, Formed
  <2>3. S \in Seq(Record) /\ Len(S) = Len(items)  BY <1>1, <2>2
  <2> HIDE DEF S
  <2>4. /\ sink' \in Seq(Record) /\ DOMAIN sink' = 1..Len(sink')
        /\ \A k \in 1..Len(sink') : \/ k \in 1..Len(sink) /\ sink'[k] = sink[k]
                                    \/ k - Len(sink) \in 1..Len(S) /\ sink'[k] = S[k - Len(sink)]
    <3>1. sink' \in Seq(Record) /\ DOMAIN sink' = 1..Len(sink')  BY <1>1, <2>1, <2>3, ConcatIs
    <3>2. ASSUME NEW k \in 1..Len(sink'), k \in 1..Len(sink)  PROVE sink'[k] = sink[k]
      BY <1>1, <2>1, <2>3, <3>2, ConcatIs
    <3>3. ASSUME NEW k \in 1..Len(sink'), k \notin 1..Len(sink)
          PROVE  k - Len(sink) \in 1..Len(S) /\ sink'[k] = S[k - Len(sink)]
      BY <1>1, <2>1, <2>3, <3>3, ConcatIs
    <3> QED BY <3>1, <3>2, <3>3
  <2>5. \A k \in 1..Len(S) : Formed(S[k]) /\ S[k].ok /\ S[k].kind # "footer"  BY <2>2, <2>3
  <2> QED BY <1>1, <1>2, <1>4, <2>1, <2>4, <2>5
<1>5. CASE style = "chunked"
  <2>1. \/ chunk' = chunk \o items /\ sink' = sink
        \/ chunk' = << >> /\ sink' = Append(sink, Chunk(chunk \o items))
    BY <1>5 DEF Write
  <2>2. CASE chunk' = chunk \o items /\ sink' = sink
    BY <1>1, <1>2, <1>5, <2>2
  <2>3. CASE chunk' = << >> /\ sink' = Append(sink, Chunk(chunk \o items))
    <3>1. PICK r : r = Chunk(chunk \o items)  OBVIOUS
    <3>2. r \in Record /\ Formed(r) /\ r.ok /\ r.kind # "footer"
      BY <1>1, <3>1 DEF Chunk, Record, Formed
    <3>3. /\ sink' \in Seq(Record) /\ Len(sink') = Len(sink) + 1
          /\ \A k \in 1..Len(sink') : sink'[k] = IF k <= Len(sink) THEN sink[k] ELSE r
      BY <1>1, <2>3, <3>1, <3>2, AppendIs
    <3> QED BY <1>1, <1>2, <1>5, <2>3, <3>2, <3>3
  <2> QED BY <2>1, <2>2, <2>3
<1> QED BY <1>4, <1>5

LEMMA WriteKeeps ==
    ASSUME WriterInv, ~Ending, style' = style, file' = file, ~Ending',
           NEW items \in Seq(Item), Write(items),
           \A i \in 1..Len(items) : items[i].n = Len(written) + i
    PROVE  /\ RecordsFormed' /\ HeldInOrder' /\ AllHeld'
           /\ sink' \in Seq(Record) /\ chunk' \in Seq(Item) /\ written' \in Seq(Item)
<1>1. WriterType /\ RecordsFormed /\ HeldInOrder /\ AllHeld /\ wpc # "dead"
  BY DEF WriterInv, Ending
<1>2. written' = written \o items  BY DEF Write
<1>3. /\ file \in Seq(Record) /\ sink \in Seq(Record) /\ chunk \in Seq(Item) /\ written \in Seq(Item)
      /\ Len(written) \in Nat
      /\ \A k \in 1..Len(file) + Len(sink) + 1 : InOrder(HeldIn(file, sink, chunk, k))
  BY <1>1 DEF WriterType, HeldInOrder, Held, Parts
<1>4. \E at : Placed(file, sink, chunk, sink', chunk', items, at)
  <2>1. CASE style # "chunked"
    <3>1. chunk = << >> /\ chunk' = << >>
          /\ sink' = sink \o [k \in 1..Len(items) |-> Single(items[k])]
      BY <1>1, <2>1 DEF Write, RecordsFormed
    <3> QED BY <1>3, <3>1, PlacesApart
  <2>2. CASE style = "chunked"
    <3>1. \/ sink' = sink /\ chunk' = chunk \o items
          \/ sink' = Append(sink, Chunk(chunk \o items)) /\ chunk' = << >>
      BY <2>2 DEF Write
    <3>2. Len(file) \in Nat /\ Len(sink) \in Nat /\ Parts \in 1..Parts /\ Held(Parts) = chunk
      BY <1>3 DEF Held, HeldIn, Parts
    <3>3. \A i \in 1..Len(chunk) : chunk[i].n \in 1..Len(written)
      <4>1. \A x \in Range(Held(Parts)) : x.n \in DOMAIN written
        BY <1>1, <3>2 DEF HeldInOrder
      <4>2. \A x \in Range(chunk) : x.n \in 1..Len(written)  BY <1>3, <3>2, <4>1
      <4>3. \A i \in 1..Len(chunk) : chunk[i] \in Range(chunk)  BY <1>3 DEF Range
      <4> QED BY <4>2, <4>3
    <3>4. InOrder(items)
      <4>1. DOMAIN items = 1..Len(items)  OBVIOUS
      <4>2. \A i, j \in 1..Len(items) : i < j => items[i].n < items[j].n
        <5>1. \A i, j \in 1..Len(items) : i < j => Len(written) + i < Len(written) + j
          BY <1>3
        <5> QED BY <5>1
      <4> QED BY <4>1, <4>2 DEF InOrder
    <3>5. InOrder(chunk)  BY <1>3, <3>2 DEF Held, Parts
    <3>6. \A i \in 1..Len(chunk), j \in 1..Len(items) : chunk[i].n < items[j].n
      BY <1>3, <3>3
    <3>7. InOrder(chunk \o items)  BY <1>3, <3>4, <3>5, <3>6, ConcatInOrder
    <3> QED BY <1>3, <3>1, <3>7, PlacesInChunk
  <2> QED BY <2>1, <2>2
<1>5. PICK at : Placed(file, sink, chunk, sink', chunk', items, at)  BY <1>4
<1>6. HeldInOrder' /\ AllHeld'  BY <1>1, <1>2, <1>5, WriteKeepsOrder
<1> QED BY <1>1, <1>6, WriteKeepsForm

LEMMA WritersInitially == ASSUME WritersInit PROVE WriterInv
<1>1. /\ style \in Styles /\ clock = EpochFloor /\ sampled = EpochFloor
      /\ EpochFloor \in Nat /\ Bounds[style].clock >= EpochFloor /\ Bounds[style].clock \in Nat
      /\ file = << >> /\ sink = << >> /\ chunk = << >> /\ written = << >> /\ wpc = "register"
  BY WritersAssumption DEF WritersInit
<1>2. WriterType  BY <1>1 DEF WriterType, MaxClock
<1>3. RecordsFormed  BY <1>1 DEF RecordsFormed
<1>4. Numbered /\ StampsRise  BY <1>1 DEF Numbered, StampsRise, Range
<1>5. Parts = 1 /\ Held(1) = << >>  BY <1>1 DEF Parts, Held, HeldIn
<1>6. HeldInOrder /\ AllHeld
  <2>1. \A k \in 1..Parts : k = 1 /\ Range(Held(k)) = {}  BY <1>5 DEF Range
  <2>2. Range(written) = {}  BY <1>1 DEF Range
  <2>3. \A k \in 1..Parts : InOrder(Held(k))  BY <1>5, <2>1 DEF InOrder
  <2> QED BY <2>1, <2>2, <2>3 DEF HeldInOrder, AllHeld
<1> QED BY <1>2, <1>3, <1>4, <1>6 DEF WriterInv

LEMMA RegisterKeeps == ASSUME WriterInv, Register PROVE WriterInv'
<1>1. /\ WriterType /\ Numbered /\ written = << >> /\ wpc = "register" /\ wpc' = "sample"
      /\ Write(Registration) /\ UNCHANGED <<style, clock, file, sampled>>
  BY DEF WriterInv, Register, Numbered
<1>2. /\ Registration \in Seq(Item) /\ Len(Registration) \in 1..6
      /\ \A i \in 1..Len(Registration) : Registration[i].n = i /\ ~IsMessage(Registration[i])
  BY <1>1, RegistrationShape
<1>3. \A i \in 1..Len(Registration) : Registration[i].n = Len(written) + i
  BY <1>1, <1>2
<1>4. ~Ending /\ ~Ending'  BY <1>1 DEF Ending
<1>5. /\ RecordsFormed' /\ HeldInOrder' /\ AllHeld'
      /\ sink' \in Seq(Record) /\ chunk' \in Seq(Item) /\ written' \in Seq(Item)
  BY <1>1, <1>2, <1>3, <1>4, WriteKeeps
<1>6. written' = Registration  BY <1>1, <1>2 DEF Write
<1>7. WriterType'  BY <1>1, <1>5 DEF WriterType, MaxClock
<1>8. Registration' = Registration  BY <1>1 DEF Registration
<1> HIDE DEF Registration
<1>9. Numbered'
  <2>1. \A i \in DOMAIN written' : i \in 1..Len(Registration) /\ written'[i] = Registration[i] /\ written'[i].n = i
    BY <1>2, <1>6
  <2> QED BY <1>1, <1>2, <1>6, <1>8, <2>1 DEF Numbered
<1>10. StampsRise'
  <2>1. \A i \in DOMAIN written' : ~IsMessage(written'[i])  BY <1>2, <1>6
  <2>2. \A m \in Range(written') : ~IsMessage(m)  BY <2>1 DEF Range
  <2> QED BY <2>1, <2>2 DEF StampsRise
<1> QED BY <1>5, <1>7, <1>9, <1>10 DEF WriterInv

(* Messages behind the registration, stamped now.                          *)
LEMMA MessagesKeep ==
    ASSUME WriterInv, ~Ending, wpc # "register", wpc' \in {"trigger", "flush"},
           UNCHANGED <<style, clock, file, sampled>>,
           NEW items \in Seq(Stamped), Write(items),
           \A i \in 1..Len(items) : /\ items[i].n = Len(written) + i
                                    /\ items[i].log = LogTime /\ items[i].pub <= clock
    PROVE  WriterInv'
<1>1. /\ WriterType /\ Numbered /\ StampsRise /\ items \in Seq(Item) /\ ~Ending'
      /\ Len(written) >= Len(Registration)
  <2>1. items \in Seq(Item)  BY DEF Item
  <2> QED BY <2>1 DEF WriterInv, Ending, Numbered
<1>2. /\ RecordsFormed' /\ HeldInOrder' /\ AllHeld'
      /\ sink' \in Seq(Record) /\ chunk' \in Seq(Item) /\ written' \in Seq(Item)
  BY <1>1, WriteKeeps
<1>3. WriterType'  BY <1>1, <1>2 DEF WriterType, MaxClock
<1>4. Registration' = Registration  BY DEF Registration
<1>5. Len(Registration) \in Nat  BY <1>1, RegistrationShape
<1> HIDE DEF Registration
<1>6. /\ written \in Seq(Item) /\ Len(written) \in Nat /\ Len(items) \in Nat
      /\ DOMAIN written = 1..Len(written) /\ DOMAIN written' = 1..Len(written')
      /\ \A i \in 1..Len(written) : written'[i] = written[i]
      /\ \A i \in 1..Len(written') :
           \/ i \in 1..Len(written) /\ written'[i] = written[i]
           \/ /\ i > Len(written) /\ i - Len(written) \in 1..Len(items)
              /\ written'[i] = items[i - Len(written)]
  <2>1. written \in Seq(Item) /\ written' = written \o items  BY <1>1 DEF WriterType, Write
  <2>2. ASSUME NEW i \in 1..Len(written'), i \notin 1..Len(written)
        PROVE  /\ i > Len(written) /\ i - Len(written) \in 1..Len(items)
               /\ written'[i] = items[i - Len(written)]
    BY <1>1, <2>1, <2>2, ConcatIs
  <2>3. /\ Len(written) \in Nat /\ \A i \in 1..Len(written) : written'[i] = written[i]
    BY <1>1, <2>1, ConcatIs
  <2> QED BY <1>2, <2>1, <2>2, <2>3
<1>7. \A i \in 1..Len(items) : IsMessage(items[i]) /\ items[i].log = LogTime
  <2>1. \A i \in 1..Len(items) : items[i] \in Stamped  OBVIOUS
  <2> QED BY <2>1 DEF Stamped, IsMessage
<1>8. Numbered'
  <2>1. ASSUME NEW i \in DOMAIN written'
        PROVE  /\ written'[i].n = i
               /\ IF i <= Len(Registration) THEN written'[i] = Registration[i]
                  ELSE IsMessage(written'[i])
    <3>1. CASE i \in 1..Len(written) /\ written'[i] = written[i]
      BY <1>1, <1>6, <3>1 DEF Numbered
    <3>2. CASE /\ i > Len(written) /\ i - Len(written) \in 1..Len(items)
               /\ written'[i] = items[i - Len(written)]
      <4>1. ~(i <= Len(Registration))  BY <1>1, <1>5, <1>6, <3>2
      <4>2. items[i - Len(written)].n = Len(written) + (i - Len(written))  BY <3>2
      <4>3. Len(written) + (i - Len(written)) = i  BY <1>6, <2>1
      <4> QED BY <1>7, <3>2, <4>1, <4>2, <4>3
    <3> QED BY <1>6, <2>1, <3>1, <3>2
  <2>2. Len(written') >= Len(Registration)
    <3>1. Len(written') = Len(written) + Len(items)  BY <1>1, ConcatIs DEF WriterType, Write
    <3> QED BY <1>1, <1>5, <1>6, <3>1
  <2> QED BY <1>4, <2>1, <2>2 DEF Numbered
<1>9. StampsRise'
  <2>1. clock \in Nat /\ sampled \in Nat /\ sampled <= clock  BY <1>1 DEF WriterType
  <2>2. LogTime \in Nat /\ LogTime <= clock /\ (style # "copper" => LogTime <= sampled)
    BY <2>1 DEF LogTime
  <2>3. ASSUME NEW i \in 1..Len(written), IsMessage(written[i])
        PROVE  written[i].log <= LogTime /\ written[i].log \in Nat
    <3>1. written[i] \in Range(written) /\ written[i] \in Item  BY <1>6 DEF Range
    <3>2. written[i].log \in Nat
      <4>1. written[i] \in Stamped  BY <2>3, <3>1 DEF Item, IsMessage
      <4> QED BY <4>1 DEF Stamped
    <3>3. written[i].log <= clock /\ (style # "copper" => written[i].log <= sampled)
      BY <1>1, <2>3, <3>1 DEF StampsRise
    <3> QED BY <3>2, <3>3 DEF LogTime
  <2>4. ASSUME NEW m \in Range(written'), IsMessage(m)
        PROVE  m.log <= clock /\ m.pub <= clock /\ (style # "copper" => m.log <= sampled)
    <3>1. PICK i \in 1..Len(written') : m = written'[i]  BY <1>6 DEF Range
    <3>2. CASE i \in 1..Len(written) /\ written'[i] = written[i]
      <4>1. m \in Range(written)  BY <1>6, <3>1, <3>2 DEF Range
      <4> QED BY <1>1, <2>4, <4>1 DEF StampsRise
    <3>3. CASE i - Len(written) \in 1..Len(items) /\ written'[i] = items[i - Len(written)]
      <4>1. PICK j : j = i - Len(written)  OBVIOUS
      <4>2. j \in 1..Len(items) /\ m = items[j]  BY <3>1, <3>3, <4>1
      <4>3. m.log = LogTime /\ m.pub <= clock  BY <4>2
      <4> QED BY <2>2, <4>3
    <3> QED BY <1>6, <3>2, <3>3
  <2>5. ASSUME NEW i \in 1..Len(written'), NEW j \in 1..Len(written'), i < j,
               IsMessage(written'[i]), IsMessage(written'[j])
        PROVE  written'[i].log <= written'[j].log
    <3>1. CASE j \in 1..Len(written)
      <4>1. i \in 1..Len(written)
        <5>1. PICK w, v : w = Len(written) /\ v = Len(written')  OBVIOUS
        <5>2. w \in Nat /\ j \in 1..w /\ i \in 1..v /\ i < j  BY <1>6, <2>5, <3>1, <5>1
        <5>3. i \in 1..w  BY <5>2
        <5> QED BY <5>1, <5>3
      <4>2. written'[i] = written[i] /\ written'[j] = written[j]  BY <1>6, <3>1, <4>1
      <4> QED BY <1>1, <1>6, <2>5, <3>1, <4>1, <4>2 DEF StampsRise
    <3>2. CASE j \notin 1..Len(written)
      <4>1. written'[j].log = LogTime  BY <1>6, <1>7, <3>2
      <4>2. CASE i \in 1..Len(written)
        <5>1. written'[i] = written[i]  BY <1>6, <4>2
        <5> QED BY <2>3, <2>5, <4>1, <4>2, <5>1
      <4>3. CASE i \notin 1..Len(written)
        <5>1. written'[i].log = LogTime  BY <1>6, <1>7, <4>3
        <5> QED BY <2>2, <4>1, <5>1
      <4> QED BY <4>2, <4>3
    <3> QED BY <3>1, <3>2
  <2>6. DOMAIN written' = 1..Len(written')  BY <1>6
  <2> QED BY <2>4, <2>5, <2>6 DEF StampsRise
<1> QED BY <1>2, <1>3, <1>8, <1>9 DEF WriterInv

LEMMA WriteDataKeeps == ASSUME WriterInv, WriteData PROVE WriterInv'
<1>1. /\ wpc = "data" /\ wpc' = "trigger" /\ UNCHANGED <<style, clock, file, sampled>>
      /\ ~Ending /\ WriterType
  BY DEF WriteData, Ending, WriterInv
<1>2. clock \in Nat /\ sampled \in Nat /\ sampled <= clock /\ Len(written) \in Nat  BY <1>1 DEF WriterType
<1>3. LogTime \in Nat /\ PublishTime \in Nat /\ PublishTime <= clock
  BY <1>2, WritersAssumption DEF LogTime, PublishTime, CapturedAt
<1>4. \A n \in Nat, ch \in 1..3 :
        LET m == Message(n, ch, LogTime, PublishTime)
        IN  m \in Stamped /\ m.n = n /\ m.log = LogTime /\ m.pub <= clock
  BY <1>3 DEF Message, Stamped
<1> DEFINE on(ch, n) == Message(n, ch, LogTime, PublishTime)
<1>5. ASSUME NEW ch \in 1..3, Write(<<on(ch, Len(written) + 1)>>)  PROVE WriterInv'
  <2> DEFINE m == on(ch, Len(written) + 1)
  <2>1. m \in Stamped /\ m.n = Len(written) + 1 /\ m.log = LogTime /\ m.pub <= clock
    BY <1>2, <1>4
  <2>2. Write(<<m>>)  BY <1>5
  <2> HIDE DEF m
  <2>3. <<m>> \in Seq(Stamped) /\ \A i \in 1..Len(<<m>>) : i = 1 /\ <<m>>[i] = m  BY <2>1
  <2> QED BY <1>1, <2>1, <2>2, <2>3, MessagesKeep
<1>6. ASSUME Write(<<on(1, Len(written) + 1), on(2, Len(written) + 1 + 1)>>)  PROVE WriterInv'
  <2> DEFINE m == on(1, Len(written) + 1)
             k == on(2, Len(written) + 1 + 1)
  <2>1. /\ m \in Stamped /\ m.n = Len(written) + 1 /\ m.log = LogTime /\ m.pub <= clock
        /\ k \in Stamped /\ k.n = Len(written) + 2 /\ k.log = LogTime /\ k.pub <= clock
    BY <1>2, <1>4
  <2>2. Write(<<m, k>>)  BY <1>6
  <2> HIDE DEF m, k
  <2>3. /\ <<m, k>> \in Seq(Stamped)
        /\ \A i \in 1..Len(<<m, k>>) : (i = 1 /\ <<m, k>>[i] = m) \/ (i = 2 /\ <<m, k>>[i] = k)
    BY <2>1
  <2> QED BY <1>1, <2>1, <2>2, <2>3, MessagesKeep
<1> QED BY <1>5, <1>6 DEF WriteData

LEMMA WriteTriggerKeeps == ASSUME WriterInv, WriteTrigger PROVE WriterInv'
<1>1. /\ wpc = "trigger" /\ wpc' = "flush" /\ UNCHANGED <<style, clock, file, sampled>>
      /\ ~Ending /\ WriterType
      /\ Write(<<Message(Len(written) + 1, TriggerChannel, LogTime, PublishTime)>>)
  BY DEF WriteTrigger, Ending, WriterInv
<1>2. clock \in Nat /\ sampled \in Nat /\ sampled <= clock /\ Len(written) \in Nat  BY <1>1 DEF WriterType
<1>3. LogTime \in Nat /\ PublishTime \in Nat /\ PublishTime <= clock
  BY <1>2, WritersAssumption DEF LogTime, PublishTime, CapturedAt
<1> DEFINE m == Message(Len(written) + 1, TriggerChannel, LogTime, PublishTime)
<1>4. m \in Stamped /\ m.n = Len(written) + 1 /\ m.log = LogTime /\ m.pub <= clock
  BY <1>1, <1>2, <1>3, RegistrationShape DEF Message, Stamped
<1>5. Write(<<m>>)  BY <1>1
<1> HIDE DEF m
<1>6. <<m>> \in Seq(Stamped) /\ \A i \in 1..Len(<<m>>) : i = 1 /\ <<m>>[i] = m  BY <1>4
<1> QED BY <1>1, <1>4, <1>5, <1>6, MessagesKeep

(* Steps that hand nothing over, read nothing and move nothing.            *)
LEMMA IdleKeeps ==
    ASSUME WriterInv, wpc' \in {"sample", "data", "flush", "closed"}, wpc # "register", wpc # "dead",
           UNCHANGED <<style, clock, file, sink, chunk, written>>,
           sampled' \in Nat, sampled <= sampled', sampled' <= clock,
           Ending = Ending'
    PROVE  WriterInv'
<1>1. WriterType /\ RecordsFormed /\ Numbered /\ StampsRise /\ HeldInOrder /\ AllHeld
  BY DEF WriterInv
<1>2. WriterType'  BY <1>1 DEF WriterType, MaxClock
<1>3. RecordsFormed'
  BY <1>1 DEF RecordsFormed
<1>4. Numbered'
  <2>1. Registration' = Registration  BY DEF Registration
  <2> QED BY <1>1, <2>1 DEF Numbered
<1>5. StampsRise'
  <2>1. ASSUME NEW m \in Range(written), IsMessage(m)
        PROVE  m.log <= clock /\ m.pub <= clock /\ (style # "copper" => m.log <= sampled')
    <3>1. written \in Seq(Item) /\ sampled \in Nat  BY <1>1 DEF WriterType
    <3>2. m \in Stamped  BY <2>1, <3>1, RangeIs DEF Item, IsMessage
    <3>3. m.log \in Nat  BY <3>2 DEF Stamped
    <3>4. m.log <= clock /\ m.pub <= clock /\ (style # "copper" => m.log <= sampled)
      BY <1>1, <2>1 DEF StampsRise
    <3> QED BY <3>1, <3>3, <3>4
  <2> QED BY <1>1, <2>1 DEF StampsRise
<1>6. HeldInOrder' /\ AllHeld'
  <2>1. Parts' = Parts /\ \A k : Held(k)' = Held(k)  BY DEF Parts, Held
  <2> QED BY <1>1, <2>1 DEF HeldInOrder, AllHeld
<1> QED BY <1>2, <1>3, <1>4, <1>5, <1>6 DEF WriterInv

LEMMA TickKeeps == ASSUME WriterInv, Tick PROVE WriterInv'
<1>1. WriterType /\ RecordsFormed /\ Numbered /\ StampsRise /\ HeldInOrder /\ AllHeld
  BY DEF WriterInv
<1>2. /\ clock' = clock + 1 /\ clock < MaxClock
      /\ UNCHANGED <<style, file, sink, chunk, wpc, sampled, written>>
  BY DEF Tick, writerVars
<1>3. MaxClock \in Nat  BY <1>1, WritersAssumption DEF WriterType, MaxClock
<1>4. WriterType'  BY <1>1, <1>2, <1>3 DEF WriterType, MaxClock
<1>5. RecordsFormed'  BY <1>1, <1>2 DEF RecordsFormed, Ending
<1>6. Numbered'
  <2>1. Registration' = Registration  BY <1>2 DEF Registration
  <2> QED BY <1>1, <1>2, <2>1 DEF Numbered
<1>7. StampsRise'
  <2>1. ASSUME NEW m \in Range(written), IsMessage(m)
        PROVE  m.log <= clock + 1 /\ m.pub <= clock + 1
    <3>1. written \in Seq(Item) /\ clock \in Nat  BY <1>1 DEF WriterType
    <3>2. m \in Stamped  BY <2>1, <3>1, RangeIs DEF Item, IsMessage
    <3>3. m.log \in Nat /\ m.pub \in Nat  BY <3>2 DEF Stamped
    <3>4. m.log <= clock /\ m.pub <= clock  BY <1>1, <2>1 DEF StampsRise
    <3> QED BY <3>1, <3>3, <3>4
  <2> QED BY <1>1, <1>2, <2>1 DEF StampsRise
<1>8. HeldInOrder' /\ AllHeld'
  <2>1. Parts' = Parts /\ \A k : Held(k)' = Held(k)  BY <1>2 DEF Parts, Held
  <2> QED BY <1>1, <1>2, <2>1 DEF HeldInOrder, AllHeld
<1> QED BY <1>4, <1>5, <1>6, <1>7, <1>8 DEF WriterInv

(* What is not touched by a step that only moves what is held.             *)
LEMMA MovesKeep ==
    ASSUME WriterInv,
           \/ wpc' \in {wpc, "dead"}
           \/ wpc' = "finish" /\ wpc \notin {"register", "dead"},
           UNCHANGED <<style, clock, sampled, written>>,
           file' \in Seq(Record), sink' \in Seq(Record), chunk' \in Seq(Item),
           RecordsFormed', HeldInOrder', AllHeld'
    PROVE  WriterInv'
<1>1. WriterType' /\ StampsRise'
  BY DEF WriterInv, WriterType, StampsRise, MaxClock
<1>2. Numbered'
  <2>1. Registration' = Registration  BY DEF Registration
  <2>2. wpc' = "register" => wpc = "register"  OBVIOUS
  <2>3. wpc' \notin {"register", "dead"} => wpc \notin {"register", "dead"}  OBVIOUS
  <2>4. Numbered  BY DEF WriterInv
  <2> HIDE DEF Registration
  <2>5. /\ wpc' = "register" => written' = << >>
        /\ wpc' \notin {"register", "dead"} => Len(written') >= Len(Registration)
    BY <2>2, <2>3, <2>4 DEF Numbered
  <2>6. \A i \in DOMAIN written' :
          /\ written'[i].n = i
          /\ IF i <= Len(Registration) THEN written'[i] = Registration[i]
             ELSE IsMessage(written'[i])
    BY <2>4 DEF Numbered
  <2> QED BY <2>1, <2>5, <2>6 DEF Numbered
<1> QED BY <1>1, <1>2 DEF WriterInv

(* Nothing held goes, and what comes behind it is empty.                   *)
LEMMA HeldStays ==
    ASSUME WriterInv, UNCHANGED written, wpc = "dead" => wpc' = "dead",
           Parts \in Nat, Parts' \in Nat, Parts <= Parts',
           \A k \in 1..Parts : Held(k)' = Held(k),
           \A k \in 1..Parts' : k <= Parts \/ Held(k)' = << >>
    PROVE  HeldInOrder' /\ AllHeld'
<1>1. HeldInOrder /\ AllHeld  BY DEF WriterInv
<1>2. \A k \in 1..Parts' : \A x \in Range(Held(k))' : k \in 1..Parts /\ x \in Range(Held(k))
  BY DEF Range
<1>3. \A k \in 1..Parts : k \in 1..Parts' /\ \A x \in Range(Held(k)) : x \in Range(Held(k))'
  BY DEF Range
<1>4. \A k \in 1..Parts' : InOrder(Held(k))'
  <2> TAKE k \in 1..Parts'
  <2>1. CASE k \in 1..Parts
    <3>1. InOrder(Held(k)) /\ Held(k)' = Held(k)  BY <1>1, <2>1 DEF HeldInOrder
    <3> QED BY <3>1 DEF InOrder
  <2>2. CASE Held(k)' = << >>  BY <2>2 DEF InOrder
  <2> QED BY <2>1, <2>2
<1>5. ASSUME NEW k \in 1..Parts', NEW x \in Range(Held(k))', NEW i \in 1..x.n
      PROVE  \E l \in 1..k : written[i] \in Range(Held(l))'
  <2>1. k \in 1..Parts /\ x \in Range(Held(k))  BY <1>2
  <2>2. PICK l \in 1..k : written[i] \in Range(Held(l))  BY <1>1, <2>1 DEF HeldInOrder
  <2>3. l \in 1..Parts  BY <2>1
  <2> QED BY <1>3, <2>2, <2>3
<1>6. \A k \in 1..Parts' : \A x \in Range(Held(k))' : x.n \in DOMAIN written /\ x = written[x.n]
  BY <1>1, <1>2 DEF HeldInOrder
<1>7. \A k, l \in 1..Parts' : k < l =>
        \A x \in Range(Held(k))', y \in Range(Held(l))' : x.n < y.n
  BY <1>1, <1>2 DEF HeldInOrder
<1>8. HeldInOrder'  BY <1>4, <1>5, <1>6, <1>7 DEF HeldInOrder
<1>9. AllHeld'  BY <1>1, <1>3 DEF AllHeld
<1> QED BY <1>8, <1>9

LEMMA DieKeeps == ASSUME WriterInv, Die PROVE WriterInv'
<1>1. /\ WriterType /\ RecordsFormed /\ HeldInOrder
      /\ wpc' = "dead" /\ sink' = << >> /\ chunk' = << >>
      /\ UNCHANGED <<style, clock, file, sampled, written>>
  BY DEF WriterInv, Die
<1>2. Len(file) \in Nat /\ Len(sink) \in Nat /\ file \in Seq(Record)  BY <1>1 DEF WriterType
<1>3. Parts' = Len(file) + 1 /\ Parts = Len(file) + Len(sink) + 1  BY <1>1 DEF Parts
<1>4. \A k \in 1..Parts' :
        \/ k \in 1..Parts /\ k \in 1..Len(file) /\ Held(k)' = Held(k)
        \/ k = Len(file) + 1 /\ Held(k)' = << >>
  <2>1. ASSUME NEW k \in 1..Len(file)  PROVE k \in 1..Parts /\ Held(k)' = Held(k)
    BY <1>1, <1>2, <1>3, <2>1 DEF Held, HeldIn
  <2>2. ASSUME NEW k, k = Len(file) + 1  PROVE Held(k)' = << >>
    BY <1>1, <1>2, <2>2 DEF Held, HeldIn
  <2>3. \A k \in 1..Parts' : k \in 1..Len(file) \/ k = Len(file) + 1  BY <1>2, <1>3
  <2> QED BY <2>1, <2>2, <2>3
<1>5. RecordsFormed'
  BY <1>1 DEF RecordsFormed, Ending
<1>6. HeldInOrder'
  <2>1. \A k \in 1..Parts' : \A x \in Range(Held(k))' :
          k \in 1..Parts /\ k \in 1..Len(file) /\ x \in Range(Held(k))
    BY <1>4 DEF Range
  <2>2. \A k \in 1..Parts' : InOrder(Held(k))'
    <3> TAKE k \in 1..Parts'
    <3>1. CASE k \in 1..Parts /\ Held(k)' = Held(k)
      <4>1. InOrder(Held(k))  BY <1>1, <3>1 DEF HeldInOrder
      <4> QED BY <3>1, <4>1 DEF InOrder
    <3>2. CASE Held(k)' = << >>  BY <3>2 DEF InOrder
    <3> QED BY <1>4, <3>1, <3>2
  <2>3. ASSUME NEW k \in 1..Parts', NEW x \in Range(Held(k))', NEW i \in 1..x.n
        PROVE  \E l \in 1..k : written[i] \in Range(Held(l))'
    <3>1. k \in 1..Len(file) /\ k \in 1..Parts /\ x \in Range(Held(k))  BY <2>1
    <3>2. PICK l \in 1..k : written[i] \in Range(Held(l))
      BY <1>1, <3>1 DEF HeldInOrder
    <3>3. l \in 1..Len(file) /\ l \in 1..Parts' /\ l # Len(file) + 1  BY <1>2, <1>3, <3>1
    <3>4. Held(l)' = Held(l)  BY <1>4, <3>3
    <3> QED BY <3>2, <3>4
  <2>4. \A k \in 1..Parts' : \A x \in Range(Held(k))' : x.n \in DOMAIN written /\ x = written[x.n]
    BY <1>1, <2>1 DEF HeldInOrder
  <2>5. \A k, l \in 1..Parts' : k < l =>
          \A x \in Range(Held(k))', y \in Range(Held(l))' : x.n < y.n
    BY <1>1, <2>1 DEF HeldInOrder
  <2> QED BY <1>1, <2>2, <2>3, <2>4, <2>5 DEF HeldInOrder
<1>7. AllHeld'  BY <1>1 DEF AllHeld
<1> QED BY <1>1, <1>2, <1>5, <1>6, <1>7, MovesKeep DEF WriterType

LEMMA FinishKeeps == ASSUME WriterInv, Finish PROVE WriterInv'
<1> DEFINE E == IF chunk = << >> THEN <<Footer>> ELSE <<Chunk(chunk), Footer>>
<1>1. /\ WriterType /\ RecordsFormed /\ Numbered /\ wpc \in {"sample", "data"}
      /\ sink' = sink \o E /\ chunk' = << >> /\ wpc' = "finish"
      /\ UNCHANGED <<style, clock, file, sampled, written>>
  BY DEF WriterInv, Finish
<1>2. /\ file \in Seq(Record) /\ sink \in Seq(Record) /\ chunk \in Seq(Item)
      /\ Len(file) \in Nat /\ Len(sink) \in Nat
  BY <1>1 DEF WriterType
<1>3. /\ E \in Seq(Record) /\ Footer \in Record /\ Len(E) \in {1, 2}
      /\ E[1].inner = chunk
      /\ \/ Len(E) = 1 /\ E[1] = Footer
         \/ Len(E) = 2 /\ E[1] = Chunk(chunk) /\ E[2] = Footer
  <2>1. Footer \in Record /\ Chunk(chunk) \in Record
    BY <1>2 DEF Footer, Chunk, Record
  <2>2. Footer.inner = << >> /\ Chunk(chunk).inner = chunk  BY DEF Footer, Chunk
  <2> QED BY <2>1, <2>2
<1> HIDE DEF E
<1>5. /\ sink' \in Seq(Record) /\ Len(sink') = Len(sink) + Len(E) /\ DOMAIN sink' = 1..Len(sink')
      /\ \A i \in 1..Len(sink) : sink'[i] = sink[i]
      /\ \A i \in 1..Len(E) : sink'[Len(sink) + i] = E[i]
  BY <1>1, <1>2, <1>3, ConcatIs
<1>6. RecordsFormed'
  <2>1. /\ \A k \in DOMAIN file : Formed(file[k]) /\ file[k].kind # "footer"
        /\ \A k \in 1..Len(sink) : Formed(sink[k]) /\ sink[k].ok /\ sink[k].kind # "footer"
    BY <1>1, <1>2 DEF RecordsFormed, Ending
  <2>2. \A k \in 1..Len(E) : /\ Formed(E[k]) /\ E[k].ok
                             /\ E[k].kind = "footer" => k = Len(E)
    <3>1. \A r \in {Footer, Chunk(chunk)} :
            /\ Formed(r) /\ r.ok
            /\ r.kind = "footer" => r = Footer
            /\ r = Chunk(chunk) => r.kind # "footer"
      BY DEF Formed, Chunk, Footer
    <3>2. \A k \in 1..Len(E) : \/ E[k] = Footer /\ k = Len(E)
                               \/ E[k] = Chunk(chunk)
      <4>1. CASE Len(E) = 1 /\ E[1] = Footer  BY <4>1
      <4>2. CASE Len(E) = 2 /\ E[1] = Chunk(chunk) /\ E[2] = Footer
        <5>1. \A k \in 1..Len(E) : k = 1 \/ k = 2  BY <4>2
        <5> QED BY <4>2, <5>1
      <4> QED BY <1>3, <4>1, <4>2
    <3> QED BY <3>1, <3>2
  <2>3. ASSUME NEW k \in 1..Len(sink')
        PROVE  Formed(sink'[k]) /\ sink'[k].ok /\ (sink'[k].kind = "footer" => k = Len(sink'))
    <3>1. CASE k \in 1..Len(sink)  BY <1>5, <2>1, <3>1
    <3>2. CASE k \notin 1..Len(sink)
      <4>1. k - Len(sink) \in 1..Len(E) /\ k = Len(sink) + (k - Len(sink))
        BY <1>2, <1>3, <1>5, <3>2
      <4>2. sink'[k] = E[k - Len(sink)]  BY <1>5, <4>1
      <4>3. k - Len(sink) = Len(E) => k = Len(sink')  BY <1>2, <1>3, <1>5
      <4> QED BY <2>2, <4>1, <4>2, <4>3
    <3> QED BY <3>1, <3>2
  <2> QED BY <1>1, <1>5, <2>1, <2>3 DEF RecordsFormed, Ending
<1>7. Parts = Len(file) + Len(sink) + 1 /\ Parts' = Len(file) + Len(sink) + Len(E) + 1
  <2>1. Parts' = Len(file) + Len(sink') + 1  BY <1>1 DEF Parts
  <2> QED BY <1>2, <1>3, <1>5, <2>1 DEF Parts
<1>8. ASSUME NEW k \in 1..Parts'  PROVE IF k <= Parts THEN Held(k)' = Held(k) ELSE Held(k)' = << >>
  <2>1. Held(k)' = HeldIn(file, sink', << >>, k) /\ Held(k) = HeldIn(file, sink, chunk, k)
    BY <1>1 DEF Held
  <2>2. CASE k <= Len(file)  BY <1>2, <1>7, <2>1, <2>2 DEF HeldIn
  <2>3. CASE k - Len(file) \in 1..Len(sink)
    <3>1. sink'[k - Len(file)] = sink[k - Len(file)] /\ k - Len(file) \in 1..Len(sink')
      <4>1. \A j \in 1..Len(sink) : j \in 1..Len(sink')  BY <1>2, <1>3, <1>5
      <4> QED BY <1>5, <2>3, <4>1
    <3> QED BY <1>2, <1>5, <1>7, <2>1, <2>3, <3>1 DEF HeldIn
  <2>4. CASE k = Parts
    <3>1. Held(k) = chunk  BY <1>2, <1>7, <2>1, <2>4 DEF HeldIn
    <3>2. Held(k)' = E[1].inner
      <4>1. k - Len(file) = Len(sink) + 1 /\ 1 \in 1..Len(E) /\ k - Len(file) \in 1..Len(sink')
        BY <1>2, <1>3, <1>5, <1>7, <2>4
      <4>2. Held(k)' = sink'[k - Len(file)].inner
        BY <1>2, <1>5, <2>1, <4>1 DEF HeldIn
      <4> QED BY <1>5, <4>1, <4>2
    <3> QED BY <1>2, <1>3, <1>7, <2>4, <3>1, <3>2
  <2>5. CASE k > Parts
    <3>1. Held(k)' = << >>
      <4>1. CASE k = Parts'  BY <1>2, <1>3, <1>5, <1>7, <2>1, <4>1 DEF HeldIn
      <4>2. CASE k # Parts'
        <5>1. Len(E) = 2 /\ k - Len(file) = Len(sink) + 2 /\ k - Len(file) \in 1..Len(sink')
          <6>1. Len(E) = 2 /\ k = Len(file) + Len(sink) + 2
            <7>1. Len(E) = 1 \/ Len(E) = 2  BY <1>3
            <7>2. k \in Nat /\ k < Parts' /\ k > Parts  BY <1>2, <1>3, <1>7, <2>5, <4>2
            <7>3. \A a, b \in Nat : \A e \in {1, 2} :
                    b > a + 1 /\ b < a + e + 1 => e = 2 /\ b = a + 2
              OBVIOUS
            <7>4. Len(file) + Len(sink) \in Nat  BY <1>2
            <7> QED BY <1>7, <7>1, <7>2, <7>3, <7>4
          <6> QED BY <1>2, <1>5, <6>1
        <5>2. sink'[k - Len(file)] = Footer  BY <1>3, <1>5, <5>1
        <5> QED BY <1>2, <1>5, <2>1, <5>1, <5>2 DEF HeldIn, Footer
      <4> QED BY <4>1, <4>2
    <3> QED BY <1>2, <1>7, <2>5, <3>1
  <2> QED BY <1>2, <1>7, <2>2, <2>3, <2>4, <2>5
<1>9. /\ Parts \in Nat /\ Parts' \in Nat /\ Parts <= Parts'
      /\ \A k \in 1..Parts : k \in 1..Parts' /\ k <= Parts
  BY <1>2, <1>3, <1>7
<1>10. HeldInOrder' /\ AllHeld'
  <2>1. \A k \in 1..Parts : Held(k)' = Held(k)  BY <1>8, <1>9
  <2>2. \A k \in 1..Parts' : k <= Parts \/ Held(k)' = << >>  BY <1>8
  <2> QED BY <1>1, <1>9, <2>1, <2>2, HeldStays
<1>11. file' \in Seq(Record) /\ chunk' \in Seq(Item)  BY <1>1, <1>2
<1> QED BY <1>1, <1>5, <1>6, <1>10, <1>11, MovesKeep

LEMMA DrainKeeps == ASSUME WriterInv, Drain PROVE WriterInv'
<1>1. /\ WriterType /\ RecordsFormed
      /\ sink # << >> /\ sink' = Tail(sink)
      /\ UNCHANGED <<style, clock, chunk, wpc, sampled, written>>
  BY DEF WriterInv, Drain
<1>2. /\ file \in Seq(Record) /\ sink \in Seq(Record) /\ chunk \in Seq(Item)
      /\ Len(file) \in Nat /\ Len(sink) \in Nat \ {0} /\ sink[1] \in Record
      /\ DOMAIN file = 1..Len(file) /\ DOMAIN sink = 1..Len(sink)
  BY <1>1 DEF WriterType
<1>3. PICK ok \in BOOLEAN : /\ ~ok => sink[1] # Footer
                            /\ file' = Append(file, [sink[1] EXCEPT !.ok = ok])
  <2>1. Head(sink) = sink[1]  BY <1>2
  <2>2. PICK ok \in BOOLEAN : /\ ~ok => Head(sink) # Footer
                              /\ file' = Append(file, [Head(sink) EXCEPT !.ok = ok])
    BY DEF Drain
  <2> QED BY <2>1, <2>2
<1>4. PICK r : r = [sink[1] EXCEPT !.ok = ok]  OBVIOUS
<1>5. r \in Record /\ r.kind = sink[1].kind /\ r.inner = sink[1].inner /\ Formed(r)
  <2>1. Formed(sink[1]) /\ sink[1].ok
    <3>1. \A k \in DOMAIN sink : Formed(sink[k]) /\ sink[k].ok  BY <1>1 DEF RecordsFormed
    <3>2. 1 \in DOMAIN sink  BY <1>2
    <3> QED BY <3>1, <3>2
  <2>2. r \in Record /\ r.kind = sink[1].kind /\ r.inner = sink[1].inner
    BY <1>2, <1>4 DEF Record
  <2>3. r.kind = "footer" => r = Footer
    BY <1>3, <1>4, <2>1, <2>2 DEF Formed, Footer
  <2> QED BY <2>1, <2>2, <2>3 DEF Formed
<1>6. /\ file' \in Seq(Record) /\ Len(file') = Len(file) + 1 /\ DOMAIN file' = 1..Len(file) + 1
      /\ \A k \in 1..Len(file) + 1 : file'[k] = IF k <= Len(file) THEN file[k] ELSE r
      /\ file'[Len(file) + 1] = r
  BY <1>2, <1>3, <1>4, <1>5, AppendIs
<1>7. /\ sink' \in Seq(Record) /\ Len(sink') = Len(sink) - 1 /\ DOMAIN sink' = 1..Len(sink) - 1
      /\ \A k \in 1..Len(sink) - 1 : sink'[k] = sink[k + 1]
  BY <1>1, <1>2
<1>8. RecordsFormed'
  <2>1. \A k \in 1..Len(file) : Formed(file[k]) /\ file[k].kind # "footer"
    BY <1>1, <1>2 DEF RecordsFormed
  <2>2. ASSUME NEW k \in DOMAIN file'
        PROVE  /\ Formed(file'[k])
               /\ file'[k].kind = "footer" => k = Len(file') /\ sink' = << >> /\ Ending
    <3>1. CASE k \in 1..Len(file)  BY <1>2, <1>6, <2>1, <3>1
    <3>2. CASE k = Len(file) + 1
      <4>1. file'[k] = r  BY <1>6, <3>2
      <4>2. r.kind = "footer" => 1 = Len(sink) /\ Ending  
        <5>1. 1 \in DOMAIN sink  BY <1>2
        <5>2. sink[1].kind = "footer" => 1 = Len(sink) /\ Ending  BY <1>1, <5>1 DEF RecordsFormed
        <5> QED BY <1>5, <5>2
      <4>3. 1 = Len(sink) => sink' = << >>
        <5>1. 1 = Len(sink) => Len(sink') = 0  BY <1>2, <1>7
        <5>2. \A s \in Seq(Record) : Len(s) = 0 => s = << >>  OBVIOUS
        <5> QED BY <1>7, <5>1, <5>2
      <4> QED BY <1>5, <1>6, <3>2, <4>1, <4>2, <4>3
    <3> QED BY <1>2, <1>6, <3>1, <3>2
  <2>3. ASSUME NEW k \in DOMAIN sink'
        PROVE  /\ Formed(sink'[k]) /\ sink'[k].ok
               /\ sink'[k].kind = "footer" => k = Len(sink') /\ Ending
    <3>1. k + 1 \in 1..Len(sink) /\ sink'[k] = sink[k + 1]  BY <1>2, <1>7
    <3>2. Formed(sink[k + 1]) /\ sink[k + 1].ok /\ (sink[k + 1].kind = "footer" => k + 1 = Len(sink) /\ Ending)
      BY <1>1, <1>2, <3>1 DEF RecordsFormed
    <3> QED BY <1>2, <1>7, <3>1, <3>2
  <2>4. style' # "chunked" \/ Ending' => chunk' = << >>  BY <1>1 DEF RecordsFormed, Ending
  <2>5. Ending' <=> Ending  BY <1>1 DEF Ending
  <2> QED BY <2>2, <2>3, <2>4, <2>5 DEF RecordsFormed
<1>9. Parts' = Parts /\ Parts \in Nat /\ Parts = Len(file) + Len(sink) + 1
  BY <1>2, <1>6, <1>7 DEF Parts
<1>10. ASSUME NEW k \in 1..Parts  PROVE Held(k)' = Held(k)
  <2>1. Held(k)' = HeldIn(file', sink', chunk, k) /\ Held(k) = HeldIn(file, sink, chunk, k)
    BY <1>1 DEF Held
  <2>2. CASE k \in 1..Len(file)
    <3>1. file'[k] = file[k] /\ k <= Len(file')  BY <1>2, <1>6, <2>2
    <3> QED BY <2>1, <2>2, <3>1 DEF HeldIn
  <2>3. CASE k = Len(file) + 1
    <3>1. HeldIn(file, sink, chunk, k) = sink[1].inner  BY <1>2, <2>3 DEF HeldIn
    <3>2. HeldIn(file', sink', chunk, k) = r.inner  BY <1>2, <1>6, <2>3 DEF HeldIn
    <3> QED BY <1>5, <2>1, <3>1, <3>2
  <2>4. CASE k - Len(file) \in 2..Len(sink)
    <3>1. /\ k - Len(file') = k - Len(file) - 1 /\ k - Len(file') \in 1..Len(sink')
          /\ (k - Len(file')) + 1 = k - Len(file)
      BY <1>2, <1>6, <1>7, <2>4
    <3>2. sink'[k - Len(file')] = sink[k - Len(file)]  BY <1>7, <3>1
    <3>3. HeldIn(file, sink, chunk, k) = sink[k - Len(file)].inner  BY <1>2, <2>4 DEF HeldIn
    <3>4. ~(k <= Len(file')) /\ k <= Len(file') + Len(sink')  BY <1>2, <1>6, <1>7, <2>4
    <3>5. HeldIn(file', sink', chunk, k) = sink'[k - Len(file')].inner  BY <3>4 DEF HeldIn
    <3> QED BY <2>1, <3>2, <3>3, <3>5
  <2>5. CASE k = Parts  BY <1>2, <1>6, <1>7, <1>9, <2>1, <2>5 DEF HeldIn
  <2> QED BY <1>2, <1>9, <2>2, <2>3, <2>4, <2>5
<1>11. HeldInOrder' /\ AllHeld'
  <2>1. Parts' \in Nat /\ Parts <= Parts' /\ \A k \in 1..Parts' : k <= Parts  BY <1>9
  <2> QED BY <1>1, <1>9, <1>10, <2>1, HeldStays
<1> QED BY <1>1, <1>2, <1>6, <1>7, <1>8, <1>11, MovesKeep

LEMMA WritersKeep == ASSUME WriterInv, WritersNext PROVE WriterInv'
<1>1. ASSUME Sample PROVE WriterInv'
  <2>1. clock \in Nat /\ sampled <= clock  BY DEF WriterInv, WriterType
  <2>2. sampled' = clock  BY <1>1 DEF Sample
  <2> QED BY <1>1, <2>1, <2>2, IdleKeeps DEF Sample, Ending
<1>2. ASSUME NoTrigger \/ Flushed \/ Closed PROVE WriterInv'
  <2>1. sampled \in Nat /\ sampled <= clock /\ sampled' = sampled
    BY <1>2 DEF WriterInv, WriterType, NoTrigger, Flushed, Closed
  <2>2. sampled <= sampled'  BY <2>1
  <2> QED BY <1>2, <2>1, <2>2, IdleKeeps DEF NoTrigger, Flushed, Closed, Ending
<1> QED
  BY <1>1, <1>2, RegisterKeeps, WriteDataKeeps, WriteTriggerKeeps, TickKeeps, FinishKeeps,
     DrainKeeps, DieKeeps
  DEF WritersNext, WriterStep

-----------------------------------------------------------------------------
(* The recursive functions of the model exist: each has its first value    *)
(* and goes on from the one before.                                        *)

LEMMA AbsorbingIs ==
    ASSUME NEW d, NEW items \in Seq(Item)
    PROVE  /\ Absorbing(d, items)[0] = d
           /\ \A j \in 0..Len(items) : j < Len(items) =>
                Absorbing(d, items)[j + 1] = AbsorbParsed(Absorbing(d, items)[j], items[j + 1])
<1> DEFINE n == Len(items)
           Step(f, j) == IF j = 0 THEN d ELSE AbsorbParsed(f[j - 1], items[j])
           Fn(f, m) == f = [j \in 0..m |-> f[j]] /\ \A j \in 0..m : f[j] = Step(f, j)
           K == {m \in 0..n : \E f : Fn(f, m)}
<1>1. n \in Nat  OBVIOUS
<1>2. 0 \in K
  <2> DEFINE g == [j \in 0..0 |-> d]
  <2>1. \A j \in 0..0 : g[j] = d /\ j = 0  OBVIOUS
  <2>2. g = [j \in 0..0 |-> g[j]]  OBVIOUS
  <2> HIDE DEF g
  <2>3. Fn(g, 0)  BY <2>1, <2>2
  <2> HIDE DEF Fn
  <2> QED BY <1>1, <2>3
<1>3. ASSUME NEW m \in 0..n, m < n, m \in K PROVE m + 1 \in K
  <2>1. PICK f : Fn(f, m)  BY <1>3
  <2> DEFINE g == [j \in 0..m + 1 |-> IF j <= m THEN f[j] ELSE AbsorbParsed(f[m], items[m + 1])]
  <2>2. /\ \A j \in 0..m : j \in 0..m + 1 /\ (j # 0 => j - 1 \in 0..m)
        /\ m \in 0..m /\ m + 1 \in 0..m + 1 /\ m + 1 # 0 /\ (m + 1) - 1 = m /\ ~(m + 1 <= m)
        /\ \A j \in 0..m + 1 : (j <= m /\ j \in 0..m) \/ j = m + 1
    BY <1>1
  <2>7. /\ \A j \in 0..m : g[j] = f[j]
        /\ g[m + 1] = AbsorbParsed(f[m], items[m + 1])
    BY <2>2
  <2>3. g = [j \in 0..m + 1 |-> g[j]]  OBVIOUS
  <2> HIDE DEF g
  <2>8. \A j \in 0..m : f[j] = Step(f, j)  BY <2>1
  <2>9. \A j \in 0..m : g[j] = Step(g, j)  BY <2>2, <2>7, <2>8
  <2>10. g[m + 1] = Step(g, m + 1)  BY <2>2, <2>7
  <2>4. \A j \in 0..m + 1 : g[j] = Step(g, j)  BY <2>2, <2>9, <2>10
  <2>5. Fn(g, m + 1)  BY <2>3, <2>4
  <2> HIDE DEF Fn
  <2>6. m + 1 \in 0..n  BY <1>1, <1>3
  <2> QED BY <2>5, <2>6
<1> HIDE DEF Fn
<1>4. n \in K
  <2> HIDE DEF K, n
  <2>1. n \in 0..n  BY <1>1
  <2>2. \A k \in 0..n : k < n /\ k \in K => k + 1 \in K  BY <1>3
  <2> QED BY <1>1, <1>2, <2>1, <2>2, AllUpTo
<1>5. PICK f : Fn(f, n)  BY <1>4
<1>6. f = [j \in 0..n |-> Step(f, j)]  BY <1>5 DEF Fn
<1>7. Absorbing(d, items) = [j \in 0..n |-> Step(Absorbing(d, items), j)]
  BY <1>6 DEF Absorbing
<1> HIDE DEF Step
<1>8. \A j \in 0..n : Absorbing(d, items)[j] = Step(Absorbing(d, items), j)
  <2>1. PICK h : h = Absorbing(d, items)  OBVIOUS
  <2>2. h = [j \in 0..n |-> Step(h, j)]  BY <1>7, <2>1
  <2>3. PICK e : e = [j \in 0..n |-> Step(h, j)]  OBVIOUS
  <2>4. \A j \in 0..n : e[j] = Step(h, j)  BY <2>3
  <2> QED BY <2>1, <2>2, <2>3, <2>4
<1>9. \A j \in 0..n : j < n => j + 1 \in 0..n /\ j + 1 # 0 /\ (j + 1) - 1 = j
  BY <1>1
<1>10. Step(Absorbing(d, items), 0) = d  BY DEF Step
<1>11. ASSUME NEW j \in 0..n, j < n
       PROVE  Absorbing(d, items)[j + 1] = AbsorbParsed(Absorbing(d, items)[j], items[j + 1])
  BY <1>8, <1>9, <1>11 DEF Step
<1> QED BY <1>1, <1>8, <1>10, <1>11

LEMMA CollectingIs ==
    ASSUME NEW N \in Nat
    PROVE  /\ Collecting(N)[0] = Seed
           /\ \A j \in 0..N : j < N =>
                Collecting(N)[j + 1] = Consume(Collecting(N)[j], file[offset + (j + 1)])
<1> DEFINE n == N
           Step(f, j) == IF j = 0 THEN Seed ELSE Consume(f[j - 1], file[offset + j])
           Fn(f, m) == f = [j \in 0..m |-> f[j]] /\ \A j \in 0..m : f[j] = Step(f, j)
           K == {m \in 0..n : \E f : Fn(f, m)}
<1>1. n \in Nat  OBVIOUS
<1>2. 0 \in K
  <2> DEFINE g == [j \in 0..0 |-> Seed]
  <2>1. \A j \in 0..0 : g[j] = Seed /\ j = 0  OBVIOUS
  <2>2. g = [j \in 0..0 |-> g[j]]  OBVIOUS
  <2> HIDE DEF g
  <2>3. Fn(g, 0)  BY <2>1, <2>2
  <2> HIDE DEF Fn
  <2> QED BY <1>1, <2>3
<1>3. ASSUME NEW m \in 0..n, m < n, m \in K PROVE m + 1 \in K
  <2>1. PICK f : Fn(f, m)  BY <1>3
  <2> DEFINE g == [j \in 0..m + 1 |-> IF j <= m THEN f[j] ELSE Consume(f[m], file[offset + (m + 1)])]
  <2>2. /\ \A j \in 0..m : j \in 0..m + 1 /\ (j # 0 => j - 1 \in 0..m)
        /\ m \in 0..m /\ m + 1 \in 0..m + 1 /\ m + 1 # 0 /\ (m + 1) - 1 = m /\ ~(m + 1 <= m)
        /\ \A j \in 0..m + 1 : (j <= m /\ j \in 0..m) \/ j = m + 1
    BY <1>1
  <2>7. /\ \A j \in 0..m : g[j] = f[j]
        /\ g[m + 1] = Consume(f[m], file[offset + (m + 1)])
    BY <2>2
  <2>3. g = [j \in 0..m + 1 |-> g[j]]  OBVIOUS
  <2> HIDE DEF g
  <2>8. \A j \in 0..m : f[j] = Step(f, j)  BY <2>1
  <2>9. \A j \in 0..m : g[j] = Step(g, j)  BY <2>2, <2>7, <2>8
  <2>10. g[m + 1] = Step(g, m + 1)  BY <2>2, <2>7
  <2>4. \A j \in 0..m + 1 : g[j] = Step(g, j)  BY <2>2, <2>9, <2>10
  <2>5. Fn(g, m + 1)  BY <2>3, <2>4
  <2> HIDE DEF Fn
  <2>6. m + 1 \in 0..n  BY <1>1, <1>3
  <2> QED BY <2>5, <2>6
<1> HIDE DEF Fn
<1>4. n \in K
  <2> HIDE DEF K, n
  <2>1. n \in 0..n  BY <1>1
  <2>2. \A k \in 0..n : k < n /\ k \in K => k + 1 \in K  BY <1>3
  <2> QED BY <1>1, <1>2, <2>1, <2>2, AllUpTo
<1>5. PICK f : Fn(f, n)  BY <1>4
<1>6. f = [j \in 0..n |-> Step(f, j)]  BY <1>5 DEF Fn
<1>7. Collecting(N) = [j \in 0..n |-> Step(Collecting(N), j)]
  BY <1>6 DEF Collecting
<1> HIDE DEF Step
<1>8. \A j \in 0..n : Collecting(N)[j] = Step(Collecting(N), j)
  <2>1. PICK h : h = Collecting(N)  OBVIOUS
  <2>2. h = [j \in 0..n |-> Step(h, j)]  BY <1>7, <2>1
  <2>3. PICK e : e = [j \in 0..n |-> Step(h, j)]  OBVIOUS
  <2>4. \A j \in 0..n : e[j] = Step(h, j)  BY <2>3
  <2> QED BY <2>1, <2>2, <2>3, <2>4
<1>9. \A j \in 0..n : j < n => j + 1 \in 0..n /\ j + 1 # 0 /\ (j + 1) - 1 = j
  BY <1>1
<1>10. Step(Collecting(N), 0) = Seed  BY DEF Step
<1>11. ASSUME NEW j \in 0..n, j < n
       PROVE  Collecting(N)[j + 1] = Consume(Collecting(N)[j], file[offset + (j + 1)])
  BY <1>8, <1>9, <1>11 DEF Step
<1> QED BY <1>1, <1>8, <1>10, <1>11

LEMMA CopyingIs ==
    ASSUME plan.extents \in Seq(Extent)
    PROVE  /\ Copying[0] = clip
           /\ \A j \in 0..Len(plan.extents) : j < Len(plan.extents) =>
                Copying[j + 1] = CopyExtent(Copying[j], plan.extents[j + 1])
<1> DEFINE n == Len(plan.extents)
           Step(f, j) == IF j = 0 THEN clip ELSE CopyExtent(f[j - 1], plan.extents[j])
           Fn(f, m) == f = [j \in 0..m |-> f[j]] /\ \A j \in 0..m : f[j] = Step(f, j)
           K == {m \in 0..n : \E f : Fn(f, m)}
<1>1. n \in Nat  OBVIOUS
<1>2. 0 \in K
  <2> DEFINE g == [j \in 0..0 |-> clip]
  <2>1. \A j \in 0..0 : g[j] = clip /\ j = 0  OBVIOUS
  <2>2. g = [j \in 0..0 |-> g[j]]  OBVIOUS
  <2> HIDE DEF g
  <2>3. Fn(g, 0)  BY <2>1, <2>2
  <2> HIDE DEF Fn
  <2> QED BY <1>1, <2>3
<1>3. ASSUME NEW m \in 0..n, m < n, m \in K PROVE m + 1 \in K
  <2>1. PICK f : Fn(f, m)  BY <1>3
  <2> DEFINE g == [j \in 0..m + 1 |-> IF j <= m THEN f[j] ELSE CopyExtent(f[m], plan.extents[m + 1])]
  <2>2. /\ \A j \in 0..m : j \in 0..m + 1 /\ (j # 0 => j - 1 \in 0..m)
        /\ m \in 0..m /\ m + 1 \in 0..m + 1 /\ m + 1 # 0 /\ (m + 1) - 1 = m /\ ~(m + 1 <= m)
        /\ \A j \in 0..m + 1 : (j <= m /\ j \in 0..m) \/ j = m + 1
    BY <1>1
  <2>7. /\ \A j \in 0..m : g[j] = f[j]
        /\ g[m + 1] = CopyExtent(f[m], plan.extents[m + 1])
    BY <2>2
  <2>3. g = [j \in 0..m + 1 |-> g[j]]  OBVIOUS
  <2> HIDE DEF g
  <2>8. \A j \in 0..m : f[j] = Step(f, j)  BY <2>1
  <2>9. \A j \in 0..m : g[j] = Step(g, j)  BY <2>2, <2>7, <2>8
  <2>10. g[m + 1] = Step(g, m + 1)  BY <2>2, <2>7
  <2>4. \A j \in 0..m + 1 : g[j] = Step(g, j)  BY <2>2, <2>9, <2>10
  <2>5. Fn(g, m + 1)  BY <2>3, <2>4
  <2> HIDE DEF Fn
  <2>6. m + 1 \in 0..n  BY <1>1, <1>3
  <2> QED BY <2>5, <2>6
<1> HIDE DEF Fn
<1>4. n \in K
  <2> HIDE DEF K, n
  <2>1. n \in 0..n  BY <1>1
  <2>2. \A k \in 0..n : k < n /\ k \in K => k + 1 \in K  BY <1>3
  <2> QED BY <1>1, <1>2, <2>1, <2>2, AllUpTo
<1>5. PICK f : Fn(f, n)  BY <1>4
<1>6. f = [j \in 0..n |-> Step(f, j)]  BY <1>5 DEF Fn
<1>7. Copying = [j \in 0..n |-> Step(Copying, j)]
  BY <1>6 DEF Copying
<1> HIDE DEF Step
<1>8. \A j \in 0..n : Copying[j] = Step(Copying, j)
  <2>1. PICK h : h = Copying  OBVIOUS
  <2>2. h = [j \in 0..n |-> Step(h, j)]  BY <1>7, <2>1
  <2>3. PICK e : e = [j \in 0..n |-> Step(h, j)]  OBVIOUS
  <2>4. \A j \in 0..n : e[j] = Step(h, j)  BY <2>3
  <2> QED BY <2>1, <2>2, <2>3, <2>4
<1>9. \A j \in 0..n : j < n => j + 1 \in 0..n /\ j + 1 # 0 /\ (j + 1) - 1 = j
  BY <1>1
<1>10. Step(Copying, 0) = clip  BY DEF Step
<1>11. ASSUME NEW j \in 0..n, j < n
       PROVE  Copying[j + 1] = CopyExtent(Copying[j], plan.extents[j + 1])
  BY <1>8, <1>9, <1>11 DEF Step
<1> QED BY <1>1, <1>8, <1>10, <1>11

LEMMA CopyingItemsIs ==
    ASSUME NEW c, NEW items \in Seq(Item)
    PROVE  /\ CopyingItems(c, items)[0] = c
           /\ \A j \in 0..Len(items) : j < Len(items) =>
                CopyingItems(c, items)[j + 1] = CopyItem(CopyingItems(c, items)[j], items[j + 1])
<1> DEFINE n == Len(items)
           Step(f, j) == IF j = 0 THEN c ELSE CopyItem(f[j - 1], items[j])
           Fn(f, m) == f = [j \in 0..m |-> f[j]] /\ \A j \in 0..m : f[j] = Step(f, j)
           K == {m \in 0..n : \E f : Fn(f, m)}
<1>1. n \in Nat  OBVIOUS
<1>2. 0 \in K
  <2> DEFINE g == [j \in 0..0 |-> c]
  <2>1. \A j \in 0..0 : g[j] = c /\ j = 0  OBVIOUS
  <2>2. g = [j \in 0..0 |-> g[j]]  OBVIOUS
  <2> HIDE DEF g
  <2>3. Fn(g, 0)  BY <2>1, <2>2
  <2> HIDE DEF Fn
  <2> QED BY <1>1, <2>3
<1>3. ASSUME NEW m \in 0..n, m < n, m \in K PROVE m + 1 \in K
  <2>1. PICK f : Fn(f, m)  BY <1>3
  <2> DEFINE g == [j \in 0..m + 1 |-> IF j <= m THEN f[j] ELSE CopyItem(f[m], items[m + 1])]
  <2>2. /\ \A j \in 0..m : j \in 0..m + 1 /\ (j # 0 => j - 1 \in 0..m)
        /\ m \in 0..m /\ m + 1 \in 0..m + 1 /\ m + 1 # 0 /\ (m + 1) - 1 = m /\ ~(m + 1 <= m)
        /\ \A j \in 0..m + 1 : (j <= m /\ j \in 0..m) \/ j = m + 1
    BY <1>1
  <2>7. /\ \A j \in 0..m : g[j] = f[j]
        /\ g[m + 1] = CopyItem(f[m], items[m + 1])
    BY <2>2
  <2>3. g = [j \in 0..m + 1 |-> g[j]]  OBVIOUS
  <2> HIDE DEF g
  <2>8. \A j \in 0..m : f[j] = Step(f, j)  BY <2>1
  <2>9. \A j \in 0..m : g[j] = Step(g, j)  BY <2>2, <2>7, <2>8
  <2>10. g[m + 1] = Step(g, m + 1)  BY <2>2, <2>7
  <2>4. \A j \in 0..m + 1 : g[j] = Step(g, j)  BY <2>2, <2>9, <2>10
  <2>5. Fn(g, m + 1)  BY <2>3, <2>4
  <2> HIDE DEF Fn
  <2>6. m + 1 \in 0..n  BY <1>1, <1>3
  <2> QED BY <2>5, <2>6
<1> HIDE DEF Fn
<1>4. n \in K
  <2> HIDE DEF K, n
  <2>1. n \in 0..n  BY <1>1
  <2>2. \A k \in 0..n : k < n /\ k \in K => k + 1 \in K  BY <1>3
  <2> QED BY <1>1, <1>2, <2>1, <2>2, AllUpTo
<1>5. PICK f : Fn(f, n)  BY <1>4
<1>6. f = [j \in 0..n |-> Step(f, j)]  BY <1>5 DEF Fn
<1>7. CopyingItems(c, items) = [j \in 0..n |-> Step(CopyingItems(c, items), j)]
  BY <1>6 DEF CopyingItems
<1> HIDE DEF Step
<1>8. \A j \in 0..n : CopyingItems(c, items)[j] = Step(CopyingItems(c, items), j)
  <2>1. PICK h : h = CopyingItems(c, items)  OBVIOUS
  <2>2. h = [j \in 0..n |-> Step(h, j)]  BY <1>7, <2>1
  <2>3. PICK e : e = [j \in 0..n |-> Step(h, j)]  OBVIOUS
  <2>4. \A j \in 0..n : e[j] = Step(h, j)  BY <2>3
  <2> QED BY <2>1, <2>2, <2>3, <2>4
<1>9. \A j \in 0..n : j < n => j + 1 \in 0..n /\ j + 1 # 0 /\ (j + 1) - 1 = j
  BY <1>1
<1>10. Step(CopyingItems(c, items), 0) = c  BY DEF Step
<1>11. ASSUME NEW j \in 0..n, j < n
       PROVE  CopyingItems(c, items)[j + 1] = CopyItem(CopyingItems(c, items)[j], items[j + 1])
  BY <1>8, <1>9, <1>11 DEF Step
<1> QED BY <1>1, <1>8, <1>10, <1>11

LEMMA CopyingRecordsIs ==
    ASSUME NEW c, NEW e, e.len \in Nat
    PROVE  /\ CopyingRecords(c, e)[0] = c
           /\ \A j \in 0..e.len : j < e.len =>
                CopyingRecords(c, e)[j + 1] = CopyRecord(CopyingRecords(c, e)[j], file[e.offset + (j + 1)])
<1> DEFINE n == e.len
           Step(f, j) == IF j = 0 THEN c ELSE CopyRecord(f[j - 1], file[e.offset + j])
           Fn(f, m) == f = [j \in 0..m |-> f[j]] /\ \A j \in 0..m : f[j] = Step(f, j)
           K == {m \in 0..n : \E f : Fn(f, m)}
<1>1. n \in Nat  OBVIOUS
<1>2. 0 \in K
  <2> DEFINE g == [j \in 0..0 |-> c]
  <2>1. \A j \in 0..0 : g[j] = c /\ j = 0  OBVIOUS
  <2>2. g = [j \in 0..0 |-> g[j]]  OBVIOUS
  <2> HIDE DEF g
  <2>3. Fn(g, 0)  BY <2>1, <2>2
  <2> HIDE DEF Fn
  <2> QED BY <1>1, <2>3
<1>3. ASSUME NEW m \in 0..n, m < n, m \in K PROVE m + 1 \in K
  <2>1. PICK f : Fn(f, m)  BY <1>3
  <2> DEFINE g == [j \in 0..m + 1 |-> IF j <= m THEN f[j] ELSE CopyRecord(f[m], file[e.offset + (m + 1)])]
  <2>2. /\ \A j \in 0..m : j \in 0..m + 1 /\ (j # 0 => j - 1 \in 0..m)
        /\ m \in 0..m /\ m + 1 \in 0..m + 1 /\ m + 1 # 0 /\ (m + 1) - 1 = m /\ ~(m + 1 <= m)
        /\ \A j \in 0..m + 1 : (j <= m /\ j \in 0..m) \/ j = m + 1
    BY <1>1
  <2>7. /\ \A j \in 0..m : g[j] = f[j]
        /\ g[m + 1] = CopyRecord(f[m], file[e.offset + (m + 1)])
    BY <2>2
  <2>3. g = [j \in 0..m + 1 |-> g[j]]  OBVIOUS
  <2> HIDE DEF g
  <2>8. \A j \in 0..m : f[j] = Step(f, j)  BY <2>1
  <2>9. \A j \in 0..m : g[j] = Step(g, j)  BY <2>2, <2>7, <2>8
  <2>10. g[m + 1] = Step(g, m + 1)  BY <2>2, <2>7
  <2>4. \A j \in 0..m + 1 : g[j] = Step(g, j)  BY <2>2, <2>9, <2>10
  <2>5. Fn(g, m + 1)  BY <2>3, <2>4
  <2> HIDE DEF Fn
  <2>6. m + 1 \in 0..n  BY <1>1, <1>3
  <2> QED BY <2>5, <2>6
<1> HIDE DEF Fn
<1>4. n \in K
  <2> HIDE DEF K, n
  <2>1. n \in 0..n  BY <1>1
  <2>2. \A k \in 0..n : k < n /\ k \in K => k + 1 \in K  BY <1>3
  <2> QED BY <1>1, <1>2, <2>1, <2>2, AllUpTo
<1>5. PICK f : Fn(f, n)  BY <1>4
<1>6. f = [j \in 0..n |-> Step(f, j)]  BY <1>5 DEF Fn
<1>7. CopyingRecords(c, e) = [j \in 0..n |-> Step(CopyingRecords(c, e), j)]
  BY <1>6 DEF CopyingRecords
<1> HIDE DEF Step
<1>8. \A j \in 0..n : CopyingRecords(c, e)[j] = Step(CopyingRecords(c, e), j)
  <2>1. PICK h : h = CopyingRecords(c, e)  OBVIOUS
  <2>2. h = [j \in 0..n |-> Step(h, j)]  BY <1>7, <2>1
  <2>3. PICK a : a = [j \in 0..n |-> Step(h, j)]  OBVIOUS
  <2>4. \A j \in 0..n : a[j] = Step(h, j)  BY <2>3
  <2> QED BY <2>1, <2>2, <2>3, <2>4
<1>9. \A j \in 0..n : j < n => j + 1 \in 0..n /\ j + 1 # 0 /\ (j + 1) - 1 = j
  BY <1>1
<1>10. Step(CopyingRecords(c, e), 0) = c  BY DEF Step
<1>11. ASSUME NEW j \in 0..n, j < n
       PROVE  CopyingRecords(c, e)[j + 1] = CopyRecord(CopyingRecords(c, e)[j], file[e.offset + (j + 1)])
  BY <1>8, <1>9, <1>11 DEF Step
<1> QED BY <1>1, <1>8, <1>10, <1>11

-----------------------------------------------------------------------------
(* Spans.                                                                  *)

LEMMA ItemKinds ==
    ASSUME NEW x \in Item
    PROVE  /\ x.kind \in {"schema", "channel", "message"} /\ x.n \in Nat
           /\ x.kind = "schema" => x.id \in Nat
           /\ x.kind = "channel" => x.id \in 1..3 /\ x.schema \in Nat
           /\ IsMessage(x) => x \in Stamped
           /\ IsMessage(x) <=> x.kind = "message"
           /\ x \in Stamped => IsMessage(x)
BY DEF Item, Stamped, IsMessage

LEMMA StampedIs ==
    ASSUME NEW m \in Stamped
    PROVE  /\ m \in Item /\ m.n \in Nat /\ m.ch \in 1..3 /\ m.log \in Nat /\ m.pub \in Nat
           /\ IsMessage(m) /\ \A s \in Domains : Stamp(m, s) \in Nat
BY DEF Stamped, Item, IsMessage, Stamp, Domains

LEMMA MessagesAre ==
    ASSUME NEW X \in SUBSET Item
    PROVE  Messages(X) \subseteq Stamped
BY ItemKinds DEF Messages

LEMMA PointIsSpan ==
    ASSUME NEW m \in Stamped
    PROVE  <<Point(m)>> \in Seq(Stamps) /\ IsSpan(<<Point(m)>>, {m})
<1>1. m.log \in Nat /\ m.pub \in Nat  BY StampedIs
<1>2. /\ Point(m) \in Stamps
      /\ \A s \in Domains : Point(m)[s].min = Stamp(m, s) /\ Point(m)[s].max = Stamp(m, s)
  BY <1>1 DEF Point, Stamps, Span, Domains, Stamp
<1>3. \A s \in Domains : Stamp(m, s) \in Nat  BY StampedIs
<1>4. PICK p : p = Point(m)  OBVIOUS
<1>5. <<p>> \in Seq(Stamps) /\ Len(<<p>>) = 1 /\ <<p>>[1] = p  BY <1>2, <1>4
<1>6. \A s \in Domains : Stamp(m, s) <= Stamp(m, s)  BY <1>3
<1> QED BY <1>2, <1>4, <1>5, <1>6 DEF IsSpan

LEMMA MergeOfSpans ==
    ASSUME NEW a \in Seq(Stamps), NEW b \in Seq(Stamps), Len(a) <= 1, Len(b) <= 1
    PROVE  Merge(a, b) \in Seq(Stamps) /\ Len(Merge(a, b)) <= 1
<1>1. CASE a = << >> \/ b = << >>  BY <1>1 DEF Merge
<1>2. CASE a # << >> /\ b # << >>
  <2>1. a[1] \in Stamps /\ b[1] \in Stamps  BY <1>2
  <2>2. MergeStamps(a[1], b[1]) \in Stamps
    BY <2>1 DEF MergeStamps, MergeSpan, Least, Greatest, Stamps, Span
  <2> QED BY <1>2, <2>2 DEF Merge
<1> QED BY <1>1, <1>2

LEMMA MergeIsSpan ==
    ASSUME NEW a, NEW b, NEW M \in SUBSET Stamped, NEW N \in SUBSET Stamped,
           IsSpan(a, M), IsSpan(b, N)
    PROVE  IsSpan(Merge(a, b), M \cup N)
<1>1. CASE a = << >>  BY <1>1 DEF Merge, IsSpan
<1>2. CASE a # << >> /\ b = << >>  BY <1>2 DEF Merge, IsSpan
<1>3. CASE a # << >> /\ b # << >>
  <2>1. /\ a \in Seq(Stamps) /\ Len(a) = 1 /\ b \in Seq(Stamps) /\ Len(b) = 1 /\ M # {} /\ N # {}
        /\ a[1] \in Stamps /\ b[1] \in Stamps
    BY <1>3 DEF IsSpan
  <2> DEFINE c == MergeStamps(a[1], b[1])
  <2>2. /\ c \in Stamps
        /\ \A s \in Domains : /\ c[s].min = Least(a[1][s].min, b[1][s].min)
                              /\ c[s].max = Greatest(a[1][s].max, b[1][s].max)
    BY <2>1 DEF MergeStamps, MergeSpan, Least, Greatest, Stamps, Span, Domains
  <2>3. Merge(a, b) = <<c>>  BY <1>3 DEF Merge
  <2> HIDE DEF c
  <2>4. <<c>> \in Seq(Stamps) /\ Len(<<c>>) = 1 /\ <<c>>[1] = c  BY <2>2
  <2>5. ASSUME NEW s \in Domains
        PROVE  /\ \A m \in M \cup N : c[s].min <= Stamp(m, s) /\ Stamp(m, s) <= c[s].max
               /\ \E m \in M \cup N : Stamp(m, s) = c[s].max
    <3>1. /\ a[1][s].min \in Nat /\ a[1][s].max \in Nat /\ b[1][s].min \in Nat /\ b[1][s].max \in Nat
          /\ c[s].min <= a[1][s].min /\ c[s].min <= b[1][s].min /\ c[s].min \in Nat
          /\ a[1][s].max <= c[s].max /\ b[1][s].max <= c[s].max /\ c[s].max \in Nat
          /\ c[s].max \in {a[1][s].max, b[1][s].max}
      BY <2>1, <2>2 DEF Stamps, Span, Domains, Least, Greatest
    <3>2. \A m \in M : a[1][s].min <= Stamp(m, s) /\ Stamp(m, s) <= a[1][s].max /\ Stamp(m, s) \in Nat
      BY <1>3, <2>1, StampedIs DEF IsSpan
    <3>3. \A m \in N : b[1][s].min <= Stamp(m, s) /\ Stamp(m, s) <= b[1][s].max /\ Stamp(m, s) \in Nat
      BY <1>3, <2>1, StampedIs DEF IsSpan
    <3>4. \A m \in M \cup N : c[s].min <= Stamp(m, s) /\ Stamp(m, s) <= c[s].max
      BY <3>1, <3>2, <3>3
    <3>5. (\E m \in M : Stamp(m, s) = a[1][s].max) /\ (\E m \in N : Stamp(m, s) = b[1][s].max)
      BY <1>3, <2>1 DEF IsSpan
    <3> QED BY <3>1, <3>4, <3>5
  <2> QED BY <2>1, <2>3, <2>4, <2>5 DEF IsSpan
<1> QED BY <1>1, <1>2, <1>3

-----------------------------------------------------------------------------
(* Deltas.                                                                 *)

LEMMA DeltaIs ==
    ASSUME NEW a, NEW b, NEW o, NEW p, NEW s, NEW c, NEW t, NEW u, NEW e,
           e = Delta(a, b, o, p, s, c, t, u)
    PROVE  /\ DeltaShape(e)
           /\ e.at = a /\ e.closed = b /\ e.open = o /\ e.pending = p
           /\ e.schemas = s /\ e.channels = c /\ e.trig = t /\ e.sent = u
<1>1. /\ e.at = a /\ e.closed = b /\ e.open = o /\ e.pending = p
      /\ e.schemas = s /\ e.channels = c /\ e.trig = t /\ e.sent = u
  BY DEF Delta
<1> QED BY <1>1 DEF DeltaShape

LEMMA WithAt ==
    ASSUME NEW d, DeltaShape(d), NEW v, NEW e,
           e = [d EXCEPT !.at = v]
    PROVE  /\ DeltaShape(e)
           /\ e.at = v /\ e.closed = d.closed /\ e.open = d.open /\ e.pending = d.pending
           /\ e.schemas = d.schemas /\ e.channels = d.channels /\ e.trig = d.trig /\ e.sent = d.sent
<1>1. PICK a, b, o, p, s, c, t, u : d = Delta(a, b, o, p, s, c, t, u)  BY DEF DeltaShape
<1>2. e = Delta(v, b, o, p, s, c, t, u)  BY <1>1 DEF Delta
<1> QED BY <1>1, <1>2, DeltaIs

LEMMA WithClosed ==
    ASSUME NEW d, DeltaShape(d), NEW v, NEW e,
           e = [d EXCEPT !.closed = v]
    PROVE  /\ DeltaShape(e)
           /\ e.at = d.at /\ e.closed = v /\ e.open = d.open /\ e.pending = d.pending
           /\ e.schemas = d.schemas /\ e.channels = d.channels /\ e.trig = d.trig /\ e.sent = d.sent
<1>1. PICK a, b, o, p, s, c, t, u : d = Delta(a, b, o, p, s, c, t, u)  BY DEF DeltaShape
<1>2. e = Delta(a, v, o, p, s, c, t, u)  BY <1>1 DEF Delta
<1> QED BY <1>1, <1>2, DeltaIs

LEMMA WithOpen ==
    ASSUME NEW d, DeltaShape(d), NEW v, NEW e,
           e = [d EXCEPT !.open = v]
    PROVE  /\ DeltaShape(e)
           /\ e.at = d.at /\ e.closed = d.closed /\ e.open = v /\ e.pending = d.pending
           /\ e.schemas = d.schemas /\ e.channels = d.channels /\ e.trig = d.trig /\ e.sent = d.sent
<1>1. PICK a, b, o, p, s, c, t, u : d = Delta(a, b, o, p, s, c, t, u)  BY DEF DeltaShape
<1>2. e = Delta(a, b, v, p, s, c, t, u)  BY <1>1 DEF Delta
<1> QED BY <1>1, <1>2, DeltaIs

LEMMA WithPending ==
    ASSUME NEW d, DeltaShape(d), NEW v, NEW e,
           e = [d EXCEPT !.pending = v]
    PROVE  /\ DeltaShape(e)
           /\ e.at = d.at /\ e.closed = d.closed /\ e.open = d.open /\ e.pending = v
           /\ e.schemas = d.schemas /\ e.channels = d.channels /\ e.trig = d.trig /\ e.sent = d.sent
<1>1. PICK a, b, o, p, s, c, t, u : d = Delta(a, b, o, p, s, c, t, u)  BY DEF DeltaShape
<1>2. e = Delta(a, b, o, v, s, c, t, u)  BY <1>1 DEF Delta
<1> QED BY <1>1, <1>2, DeltaIs

LEMMA WithSchemas ==
    ASSUME NEW d, DeltaShape(d), NEW v, NEW e,
           e = [d EXCEPT !.schemas = v]
    PROVE  /\ DeltaShape(e)
           /\ e.at = d.at /\ e.closed = d.closed /\ e.open = d.open /\ e.pending = d.pending
           /\ e.schemas = v /\ e.channels = d.channels /\ e.trig = d.trig /\ e.sent = d.sent
<1>1. PICK a, b, o, p, s, c, t, u : d = Delta(a, b, o, p, s, c, t, u)  BY DEF DeltaShape
<1>2. e = Delta(a, b, o, p, v, c, t, u)  BY <1>1 DEF Delta
<1> QED BY <1>1, <1>2, DeltaIs

LEMMA WithChannels ==
    ASSUME NEW d, DeltaShape(d), NEW v, NEW e,
           e = [d EXCEPT !.channels = v]
    PROVE  /\ DeltaShape(e)
           /\ e.at = d.at /\ e.closed = d.closed /\ e.open = d.open /\ e.pending = d.pending
           /\ e.schemas = d.schemas /\ e.channels = v /\ e.trig = d.trig /\ e.sent = d.sent
<1>1. PICK a, b, o, p, s, c, t, u : d = Delta(a, b, o, p, s, c, t, u)  BY DEF DeltaShape
<1>2. e = Delta(a, b, o, p, s, v, t, u)  BY <1>1 DEF Delta
<1> QED BY <1>1, <1>2, DeltaIs

LEMMA WithTrig ==
    ASSUME NEW d, DeltaShape(d), NEW v, NEW e,
           e = [d EXCEPT !.trig = v]
    PROVE  /\ DeltaShape(e)
           /\ e.at = d.at /\ e.closed = d.closed /\ e.open = d.open /\ e.pending = d.pending
           /\ e.schemas = d.schemas /\ e.channels = d.channels /\ e.trig = v /\ e.sent = d.sent
<1>1. PICK a, b, o, p, s, c, t, u : d = Delta(a, b, o, p, s, c, t, u)  BY DEF DeltaShape
<1>2. e = Delta(a, b, o, p, s, c, v, u)  BY <1>1 DEF Delta
<1> QED BY <1>1, <1>2, DeltaIs

LEMMA WithSent ==
    ASSUME NEW d, DeltaShape(d), NEW v, NEW e,
           e = [d EXCEPT !.sent = v]
    PROVE  /\ DeltaShape(e)
           /\ e.at = d.at /\ e.closed = d.closed /\ e.open = d.open /\ e.pending = d.pending
           /\ e.schemas = d.schemas /\ e.channels = d.channels /\ e.trig = d.trig /\ e.sent = v
<1>1. PICK a, b, o, p, s, c, t, u : d = Delta(a, b, o, p, s, c, t, u)  BY DEF DeltaShape
<1>2. e = Delta(a, b, o, p, s, c, t, v)  BY <1>1 DEF Delta
<1> QED BY <1>1, <1>2, DeltaIs

-----------------------------------------------------------------------------
(* Absorbing a record.                                                     *)

LEMMA ExtendIs ==
    ASSUME NEW D, NEW R, NEW f, NEW g, Map(f, D, R), Map(g, D, R)
    PROVE  /\ Map(Extend(f, g), D, R)
           /\ DOMAIN Extend(f, g) = DOMAIN f \cup DOMAIN g
           /\ \A x \in DOMAIN g : Extend(f, g)[x] = g[x]
           /\ \A x \in DOMAIN f : x \notin DOMAIN g => Extend(f, g)[x] = f[x]
<1>1. /\ DOMAIN Extend(f, g) = DOMAIN f \cup DOMAIN g
      /\ \A x \in DOMAIN g : Extend(f, g)[x] = g[x]
      /\ \A x \in DOMAIN f : x \notin DOMAIN g => Extend(f, g)[x] = f[x]
      /\ Extend(f, g) = [x \in DOMAIN Extend(f, g) |-> Extend(f, g)[x]]
  BY DEF Extend
<1>2. \A x \in DOMAIN Extend(f, g) : Extend(f, g)[x] \in R
  BY <1>1 DEF Map
<1> QED BY <1>1, <1>2 DEF Map

LEMMA InsertIs ==
    ASSUME NEW D, NEW R, NEW f, Map(f, D, R), NEW k \in D, NEW v \in R
    PROVE  /\ Map(Insert(f, k, v), D, R)
           /\ DOMAIN Insert(f, k, v) = DOMAIN f \cup {k}
           /\ Insert(f, k, v)[k] = v
           /\ \A x \in DOMAIN f : x # k => Insert(f, k, v)[x] = f[x]
<1>1. /\ DOMAIN Insert(f, k, v) = DOMAIN f \cup {k}
      /\ Insert(f, k, v)[k] = v
      /\ \A x \in DOMAIN f : x # k => Insert(f, k, v)[x] = f[x]
      /\ Insert(f, k, v) = [x \in DOMAIN Insert(f, k, v) |-> Insert(f, k, v)[x]]
  BY DEF Insert
<1>2. \A x \in DOMAIN Insert(f, k, v) : Insert(f, k, v)[x] \in R
  BY <1>1 DEF Map
<1> QED BY <1>1, <1>2 DEF Map

(* e is d with the items in X absorbed.                                    *)
Absorbs(d, X, e) ==
    /\ IsDelta(e) /\ e.at = d.at /\ e.closed = d.closed /\ e.open = d.open
    /\ e.schemas = d.schemas \cup {x.id : x \in {y \in X : y.kind = "schema"}}
    /\ DOMAIN e.channels = DOMAIN d.channels \cup {x.id : x \in {y \in X : y.kind = "channel"}}
    /\ \A id \in DOMAIN e.channels :
         \/ id \in DOMAIN d.channels /\ e.channels[id] = d.channels[id]
         \/ e.channels[id] \in X /\ e.channels[id].kind = "channel" /\ e.channels[id].id = id
    /\ e.trig = d.trig \cup Triggers(X)
    /\ \A M \in SUBSET Stamped : IsSpan(d.pending, M) => IsSpan(e.pending, M \cup Messages(X))
    /\ Range(e.sent) = Range(d.sent) \cup {m \in Messages(X) : m.ch \in e.trig}
    /\ InOrder(e.sent)

LEMMA AbsorbsNone ==
    ASSUME NEW d, IsDelta(d), InOrder(d.sent)
    PROVE  Absorbs(d, {}, d)
BY DEF Absorbs, Triggers, Messages

LEMMA ParsedAbsorbs ==
    ASSUME NEW d, IsDelta(d), NEW x \in Item, InOrder(d.sent),
           \A m \in Range(d.sent) : m.n < x.n
    PROVE  Absorbs(d, {x}, AbsorbParsed(d, x))
<1>0. DeltaShape(d)  BY DEF IsDelta
<1>1. /\ d.at \in Nat /\ d.closed \in Seq(Extent) /\ d.open \in Seq(Extent)
      /\ Len(d.open) <= 1 /\ d.pending \in Seq(Stamps) /\ Len(d.pending) <= 1
      /\ d.schemas \subseteq Nat /\ Map(d.channels, 1..3, Item) /\ d.trig \subseteq 1..3
      /\ d.sent \in Seq(Item)
  BY DEF IsDelta
<1>2. CASE x.kind = "schema"
  <2>0. PICK v : v = d.schemas \cup {x.id}  OBVIOUS
  <2>10. PICK e : e = [d EXCEPT !.schemas = v]  OBVIOUS
  <2>1. AbsorbParsed(d, x) = e  BY <1>2, <2>0, <2>10 DEF AbsorbParsed
  <2>2. /\ DeltaShape(e)
        /\ e.at = d.at /\ e.closed = d.closed /\ e.open = d.open /\ e.pending = d.pending
        /\ e.schemas = v /\ e.channels = d.channels /\ e.trig = d.trig /\ e.sent = d.sent
    BY <1>0, <2>10, WithSchemas
  <2>3. x.id \in Nat  BY <1>2, ItemKinds
  <2>4. /\ {y.id : y \in {z \in {x} : z.kind = "schema"}} = {x.id}
        /\ {y.id : y \in {z \in {x} : z.kind = "channel"}} = {}
        /\ Triggers({x}) = {} /\ Messages({x}) = {}
    BY <1>2 DEF Triggers, Messages, IsMessage
  <2>5. IsDelta(e)  BY <1>1, <2>0, <2>2, <2>3 DEF IsDelta
  <2>6. Absorbs(d, {x}, e)  BY <2>0, <2>2, <2>4, <2>5 DEF Absorbs
  <2> QED BY <2>1, <2>6
<1>3. CASE x.kind = "channel"
  <2>0. PICK v, w : /\ v = Insert(d.channels, x.id, x)
                    /\ w = IF x.topic = TriggerTopic THEN d.trig \cup {x.id} ELSE d.trig
    OBVIOUS
  <2>11. PICK f : f = [d EXCEPT !.channels = v]  OBVIOUS
  <2>12. /\ DeltaShape(f)
         /\ f.at = d.at /\ f.closed = d.closed /\ f.open = d.open /\ f.pending = d.pending
         /\ f.schemas = d.schemas /\ f.channels = v /\ f.trig = d.trig /\ f.sent = d.sent
    BY <1>0, <2>11, WithChannels
  <2>13. PICK e : e = [f EXCEPT !.trig = w]  OBVIOUS
  <2>14. e = [d EXCEPT !.channels = v, !.trig = w]  BY <2>11, <2>13
  <2>1. AbsorbParsed(d, x) = e  BY <1>3, <2>0, <2>14 DEF AbsorbParsed
  <2>2. /\ DeltaShape(e)
        /\ e.at = d.at /\ e.closed = d.closed /\ e.open = d.open /\ e.pending = d.pending
        /\ e.schemas = d.schemas /\ e.channels = v /\ e.trig = w /\ e.sent = d.sent
    <3>1. /\ DeltaShape(e)
          /\ e.at = f.at /\ e.closed = f.closed /\ e.open = f.open /\ e.pending = f.pending
          /\ e.schemas = f.schemas /\ e.channels = f.channels /\ e.trig = w /\ e.sent = f.sent
      BY <2>12, <2>13, WithTrig
    <3> QED BY <2>12, <3>1
  <2>3. x.id \in 1..3  BY <1>3, ItemKinds
  <2>4. /\ {y.id : y \in {z \in {x} : z.kind = "schema"}} = {}
        /\ {y.id : y \in {z \in {x} : z.kind = "channel"}} = {x.id}
        /\ Messages({x}) = {}
    BY <1>3 DEF Messages, IsMessage
  <2>5. Triggers({x}) = IF x.topic = TriggerTopic THEN {x.id} ELSE {}
    BY <1>3 DEF Triggers
  <2>6. /\ Map(v, 1..3, Item) /\ DOMAIN v = {x.id} \cup DOMAIN d.channels
        /\ v[x.id] = x
        /\ \A id \in DOMAIN d.channels : id # x.id => v[id] = d.channels[id]
    <3>1. PICK c, id, D : c = d.channels /\ id = x.id /\ D = 1..3  OBVIOUS
    <3>2. Map(c, D, Item) /\ id \in D /\ v = Insert(c, id, x)
      BY <1>1, <2>0, <2>3, <3>1
    <3>3. /\ Map(v, D, Item) /\ DOMAIN v = DOMAIN c \cup {id} /\ v[id] = x
          /\ \A k \in DOMAIN c : k # id => v[k] = c[k]
      BY <3>2, InsertIs
    <3> QED BY <3>1, <3>3
  <2>7. w \subseteq 1..3 /\ w = d.trig \cup Triggers({x})  BY <1>1, <2>0, <2>3, <2>5
  <2>8. IsDelta(e)  BY <1>1, <2>2, <2>6, <2>7 DEF IsDelta
  <2>9. \A id \in DOMAIN e.channels :
          \/ id \in DOMAIN d.channels /\ e.channels[id] = d.channels[id]
          \/ e.channels[id] \in {x} /\ e.channels[id].kind = "channel" /\ e.channels[id].id = id
    BY <1>3, <2>2, <2>6
  <2>10. Absorbs(d, {x}, e)  BY <2>2, <2>4, <2>6, <2>7, <2>8, <2>9 DEF Absorbs
  <2> QED BY <2>1, <2>10
<1>4. CASE x.kind = "message"
  <2>1. x \in Stamped /\ x.n \in Nat  BY <1>4, ItemKinds
  <2>0. PICK v, u : v = Merge(d.pending, <<Point(x)>>) /\ u = Append(d.sent, x)
    OBVIOUS
  <2>12. PICK f : f = [d EXCEPT !.pending = v]  OBVIOUS
  <2>13. PICK g : g = [f EXCEPT !.sent = u]  OBVIOUS
  <2>14. PICK e : e = IF x.ch \in d.trig THEN g ELSE f  OBVIOUS
  <2>2. /\ DeltaShape(f)
        /\ f.at = d.at /\ f.closed = d.closed /\ f.open = d.open /\ f.pending = v
        /\ f.schemas = d.schemas /\ f.channels = d.channels /\ f.trig = d.trig /\ f.sent = d.sent
    BY <1>0, <2>12, WithPending
  <2>3. AbsorbParsed(d, x) = e
    BY <1>4, <2>0, <2>2, <2>12, <2>13, <2>14 DEF AbsorbParsed, EmitTrigger, AbsorbTime
  <2>4. /\ DeltaShape(e)
        /\ e.at = d.at /\ e.closed = d.closed /\ e.open = d.open /\ e.pending = v
        /\ e.schemas = d.schemas /\ e.channels = d.channels /\ e.trig = d.trig
        /\ e.sent = IF x.ch \in d.trig THEN u ELSE d.sent
    <3>1. CASE x.ch \in d.trig
      <4>1. /\ DeltaShape(g)
            /\ g.at = f.at /\ g.closed = f.closed /\ g.open = f.open /\ g.pending = f.pending
            /\ g.schemas = f.schemas /\ g.channels = f.channels /\ g.trig = f.trig /\ g.sent = u
        BY <2>2, <2>13, WithSent
      <4> QED BY <2>2, <2>14, <3>1, <4>1
    <3>2. CASE x.ch \notin d.trig  BY <2>2, <2>14, <3>2
    <3> QED BY <3>1, <3>2
  <2>5. /\ {y.id : y \in {z \in {x} : z.kind = "schema"}} = {}
        /\ {y.id : y \in {z \in {x} : z.kind = "channel"}} = {}
        /\ Triggers({x}) = {} /\ Messages({x}) = {x}
    BY <1>4 DEF Messages, IsMessage, Triggers
  <2>6. /\ u \in Seq(Item) /\ Range(u) = Range(d.sent) \cup {x} /\ InOrder(u)
    <3>1. /\ u \in Seq(Item) /\ Len(u) = Len(d.sent) + 1 /\ Len(d.sent) \in Nat
          /\ \A i \in 1..Len(d.sent) + 1 : u[i] = IF i <= Len(d.sent) THEN d.sent[i] ELSE x
          /\ DOMAIN u = 1..Len(d.sent) + 1 /\ DOMAIN d.sent = 1..Len(d.sent)
      BY <1>1, <2>0, AppendIs
    <3>2. \A i \in 1..Len(d.sent) : u[i] = d.sent[i] /\ i \in DOMAIN u  BY <3>1
    <3>3. u[Len(d.sent) + 1] = x /\ Len(d.sent) + 1 \in DOMAIN u  BY <3>1
    <3>4. \A i \in DOMAIN u : i \in 1..Len(d.sent) \/ i = Len(d.sent) + 1  BY <3>1
    <3>5. Range(u) = Range(d.sent) \cup {x}  BY <3>1, <3>2, <3>3, <3>4 DEF Range
    <3>6. \A i \in 1..Len(d.sent) : d.sent[i].n < x.n  BY <3>1 DEF Range
    <3>7. ASSUME NEW i \in DOMAIN u, NEW j \in DOMAIN u, i < j  PROVE u[i].n < u[j].n
      <4>1. CASE j \in 1..Len(d.sent)
        <5>1. i \in 1..Len(d.sent)  BY <3>1, <3>7, <4>1
        <5> QED BY <3>1, <3>2, <3>7, <4>1, <5>1 DEF InOrder
      <4>2. CASE j = Len(d.sent) + 1
        <5>1. i \in 1..Len(d.sent)  BY <3>1, <3>7, <4>2
        <5> QED BY <3>2, <3>3, <3>6, <4>2, <5>1
      <4> QED BY <3>4, <4>1, <4>2
    <3> QED BY <3>1, <3>5, <3>7 DEF InOrder
  <2>7. v \in Seq(Stamps) /\ Len(v) <= 1
    <3>1. <<Point(x)>> \in Seq(Stamps)  BY <2>1, PointIsSpan
    <3>2. Len(<<Point(x)>>) <= 1  OBVIOUS
    <3> QED BY <1>1, <2>0, <3>1, <3>2, MergeOfSpans
  <2>8. \A M \in SUBSET Stamped : IsSpan(d.pending, M) => IsSpan(v, M \cup {x})
    <3>1. {x} \in SUBSET Stamped /\ IsSpan(<<Point(x)>>, {x})  BY <2>1, PointIsSpan
    <3> QED BY <2>0, <3>1, MergeIsSpan
  <2>9. IsDelta(e)  BY <1>1, <2>4, <2>6, <2>7 DEF IsDelta
  <2>10. Range(e.sent) = Range(d.sent) \cup {m \in {x} : m.ch \in e.trig} /\ InOrder(e.sent)
    BY <2>4, <2>6
  <2>11. Absorbs(d, {x}, e)  BY <2>4, <2>5, <2>8, <2>9, <2>10 DEF Absorbs
  <2> QED BY <2>3, <2>11
<1> QED BY <1>2, <1>3, <1>4, ItemKinds

LEMMA AbsorbsBoth ==
    ASSUME NEW d, NEW e, NEW f, NEW X \in SUBSET Item, NEW Y \in SUBSET Item,
           Absorbs(d, X, e), Absorbs(e, Y, f), Messages(X) = {} \/ Triggers(Y) = {}
    PROVE  Absorbs(d, X \cup Y, f)
<1>1. /\ {x.id : x \in {y \in X \cup Y : y.kind = "schema"}}
           = {x.id : x \in {y \in X : y.kind = "schema"}} \cup {x.id : x \in {y \in Y : y.kind = "schema"}}
      /\ {x.id : x \in {y \in X \cup Y : y.kind = "channel"}}
           = {x.id : x \in {y \in X : y.kind = "channel"}} \cup {x.id : x \in {y \in Y : y.kind = "channel"}}
  OBVIOUS
<1>2. Triggers(X \cup Y) = Triggers(X) \cup Triggers(Y) /\ Messages(X \cup Y) = Messages(X) \cup Messages(Y)
  BY DEF Triggers, Messages
<1>3. f.trig = d.trig \cup Triggers(X \cup Y) /\ f.trig = e.trig \cup Triggers(Y)
  BY <1>2 DEF Absorbs
<1>4. Range(f.sent) = Range(d.sent) \cup {m \in Messages(X \cup Y) : m.ch \in f.trig}
  <2>1. /\ Range(e.sent) = Range(d.sent) \cup {m \in Messages(X) : m.ch \in e.trig}
        /\ Range(f.sent) = Range(e.sent) \cup {m \in Messages(Y) : m.ch \in f.trig}
    BY DEF Absorbs
  <2>2. {m \in Messages(X) : m.ch \in e.trig} = {m \in Messages(X) : m.ch \in f.trig}
    BY <1>3
  <2> QED BY <1>2, <2>1, <2>2
<1>5. ASSUME NEW M \in SUBSET Stamped, IsSpan(d.pending, M)
      PROVE  IsSpan(f.pending, M \cup Messages(X \cup Y))
  <2>1. IsSpan(e.pending, M \cup Messages(X))  BY <1>5 DEF Absorbs
  <2>2. M \cup Messages(X) \in SUBSET Stamped  BY MessagesAre
  <2>3. IsSpan(f.pending, (M \cup Messages(X)) \cup Messages(Y))  BY <2>1, <2>2 DEF Absorbs
  <2>4. (M \cup Messages(X)) \cup Messages(Y) = M \cup Messages(X \cup Y)  BY <1>2
  <2> QED BY <2>3, <2>4
<1>6. ASSUME NEW id \in DOMAIN f.channels
      PROVE  \/ id \in DOMAIN d.channels /\ f.channels[id] = d.channels[id]
             \/ /\ f.channels[id] \in X \cup Y /\ f.channels[id].kind = "channel"
                /\ f.channels[id].id = id
  BY DEF Absorbs
<1>7. DOMAIN f.channels = DOMAIN d.channels \cup {x.id : x \in {y \in X \cup Y : y.kind = "channel"}}
  BY <1>1 DEF Absorbs
<1>8. f.schemas = d.schemas \cup {x.id : x \in {y \in X \cup Y : y.kind = "schema"}}
  BY <1>1 DEF Absorbs
<1>9. /\ IsDelta(f) /\ f.at = d.at /\ f.closed = d.closed /\ f.open = d.open /\ InOrder(f.sent)
  BY DEF Absorbs
<1> QED BY <1>3, <1>4, <1>5, <1>6, <1>7, <1>8, <1>9 DEF Absorbs

(* What every record's items are like: in order, definitions first.        *)
Sorted(items) ==
    /\ items \in Seq(Item) /\ InOrder(items)
    /\ \A i, j \in DOMAIN items : i < j /\ IsMessage(items[i]) => IsMessage(items[j])

LEMMA AbsorbingAbsorbs ==
    ASSUME NEW d, IsDelta(d), InOrder(d.sent), NEW items, Sorted(items),
           \A m \in Range(d.sent), x \in Range(items) : m.n < x.n
    PROVE  Absorbs(d, Range(items), Absorbing(d, items)[Len(items)])
<1> DEFINE n == Len(items)
           F == Absorbing(d, items)
           Upto(j) == {items[i] : i \in 1..j}
           K == {j \in 0..n : Absorbs(d, Upto(j), F[j])}
<1>1. /\ items \in Seq(Item) /\ n \in Nat /\ DOMAIN items = 1..n
      /\ F[0] = d /\ \A j \in 0..n : j < n => F[j + 1] = AbsorbParsed(F[j], items[j + 1])
  BY AbsorbingIs DEF Sorted
<1> HIDE DEF F, n
<1>2. 0 \in K
  <2>1. Upto(0) = {} /\ 0 \in 0..n  BY <1>1
  <2> HIDE DEF Upto
  <2> QED BY <1>1, <2>1, AbsorbsNone
<1>3. ASSUME NEW j \in 0..n, j < n, j \in K  PROVE j + 1 \in K
  <2> DEFINE y == items[j + 1]
             X == Upto(j)
  <2>1. j + 1 \in 1..n /\ j + 1 \in 0..n /\ y \in Item /\ y \in Range(items)  BY <1>1, <1>3 DEF Range
  <2>2. ASSUME NEW x \in X  PROVE x \in Item /\ x.n < y.n /\ (IsMessage(x) => IsMessage(y))
    <3>1. PICK i \in 1..j : x = items[i]  OBVIOUS
    <3>2. i \in 1..n /\ i < j + 1  BY <1>1, <1>3
    <3>3. items[i].n < y.n /\ (IsMessage(items[i]) => IsMessage(y))
      BY <1>1, <2>1, <3>2 DEF Sorted, InOrder
    <3> QED BY <1>1, <3>1, <3>2, <3>3
  <2>3. Upto(j + 1) = X \cup {y}
    <3>1. 1..j + 1 = (1..j) \cup {j + 1}  BY <1>1, <1>3
    <3> QED BY <3>1
  <2>4. Absorbs(d, X, F[j])  BY <1>3
  <2> HIDE DEF X, y, Upto
  <2>5. \A m \in Range(F[j].sent) : m.n < y.n
    <3>1. Range(F[j].sent) \subseteq Range(d.sent) \cup X  BY <2>4 DEF Absorbs, Messages
    <3> QED BY <2>1, <2>2, <3>1
  <2>6. Absorbs(F[j], {y}, AbsorbParsed(F[j], y))
    <3>1. IsDelta(F[j]) /\ InOrder(F[j].sent)  BY <2>4 DEF Absorbs
    <3> QED BY <2>1, <2>5, <3>1, ParsedAbsorbs
  <2>7. Messages(X) = {} \/ Triggers({y}) = {}
    <3>1. CASE IsMessage(y)  BY <3>1 DEF Triggers, IsMessage
    <3>2. CASE ~IsMessage(y)  BY <2>2, <3>2 DEF Messages
    <3> QED BY <3>1, <3>2
  <2>8. Absorbs(d, X \cup {y}, AbsorbParsed(F[j], y))
    <3>1. X \in SUBSET Item /\ {y} \in SUBSET Item  BY <2>1, <2>2
    <3> QED BY <2>4, <2>6, <2>7, <3>1, AbsorbsBoth
  <2>9. F[j + 1] = AbsorbParsed(F[j], y)  BY <1>1, <1>3 DEF y
  <2> QED BY <2>1, <2>3, <2>8, <2>9
<1>4. n \in K
  <2> HIDE DEF K
  <2>1. n \in 0..n  BY <1>1
  <2>2. \A k \in 0..n : k < n /\ k \in K => k + 1 \in K  BY <1>3
  <2> QED BY <1>1, <1>2, <2>1, <2>2, AllUpTo
<1>5. Upto(n) = Range(items)  BY <1>1 DEF Range
<1> QED BY <1>4, <1>5 DEF n, F

LEMMA ChunkAbsorbs ==
    ASSUME NEW d, IsDelta(d), InOrder(d.sent), NEW c, c.ok, Sorted(c.inner),
           \A m \in Range(d.sent), x \in Range(c.inner) : m.n < x.n
    PROVE  Absorbs(d, Range(c.inner), AbsorbChunk(d, c))
<1> DEFINE X == Range(c.inner)
<1>0. PICK z : z = NewDelta(d.at, << >>, d.trig)  OBVIOUS
<1>1. /\ DeltaShape(z)
      /\ z.at = d.at /\ z.closed = << >> /\ z.open = << >> /\ z.pending = << >>
      /\ z.schemas = {} /\ z.channels = << >> /\ z.trig = d.trig /\ z.sent = << >>
  <2>1. z = Delta(d.at, << >>, << >>, << >>, {}, << >>, d.trig, << >>)
    BY <1>0 DEF NewDelta, Delta
  <2> QED BY <2>1, DeltaIs
<1>2. IsDelta(z) /\ InOrder(z.sent) /\ Range(z.sent) = {}
  <2>1. << >> \in Seq(Extent) /\ << >> \in Seq(Stamps) /\ << >> \in Seq(Item)
        /\ Len(<< >>) <= 1 /\ InOrder(<< >>) /\ Range(<< >>) = {}
    BY DEF InOrder, Range
  <2>2. Map(<< >>, 1..3, Item)  BY DEF Map
  <2> QED BY <1>1, <2>1, <2>2 DEF IsDelta
<1>3. PICK s : s = Absorbing(z, c.inner)[Len(c.inner)]  OBVIOUS
<1>4. Absorbs(z, X, s)  BY <1>2, <1>3, AbsorbingAbsorbs
<1>5. /\ IsDelta(s) /\ InOrder(s.sent)
      /\ s.schemas = {x.id : x \in {y \in X : y.kind = "schema"}}
      /\ DOMAIN s.channels = {x.id : x \in {y \in X : y.kind = "channel"}}
      /\ s.trig = d.trig \cup Triggers(X)
      /\ Range(s.sent) = {m \in Messages(X) : m.ch \in s.trig}
  BY <1>1, <1>2, <1>4 DEF Absorbs
<1>6. \A id \in DOMAIN s.channels :
        s.channels[id] \in X /\ s.channels[id].kind = "channel" /\ s.channels[id].id = id
  BY <1>1, <1>4 DEF Absorbs
<1>7. IsSpan(s.pending, Messages(X))
  <2>1. IsSpan(z.pending, {}) /\ {} \in SUBSET Stamped  BY <1>1 DEF IsSpan
  <2>2. IsSpan(s.pending, {} \cup Messages(X))  BY <1>4, <2>1 DEF Absorbs
  <2> QED BY <2>2
<1>8. PICK v, w, t, u, p :
        /\ v = d.schemas \cup s.schemas /\ w = Extend(d.channels, s.channels)
        /\ t = d.trig \cup s.trig /\ u = d.sent \o s.sent /\ p = Merge(d.pending, s.pending)
  OBVIOUS
<1>9. PICK e : /\ e = [d EXCEPT !.schemas = v, !.channels = w, !.trig = t, !.sent = u, !.pending = p]
               /\ AbsorbChunk(d, c) = e
  BY <1>0, <1>3, <1>8 DEF AbsorbChunk
<1>10. DeltaShape(d)  BY DEF IsDelta
<1>11. /\ DeltaShape(e)
       /\ e.at = d.at /\ e.closed = d.closed /\ e.open = d.open /\ e.pending = p
       /\ e.schemas = v /\ e.channels = w /\ e.trig = t /\ e.sent = u
  <2>1. PICK e1 : e1 = [d EXCEPT !.schemas = v]  OBVIOUS
  <2>2. PICK e2 : e2 = [e1 EXCEPT !.channels = w]  OBVIOUS
  <2>3. PICK e3 : e3 = [e2 EXCEPT !.trig = t]  OBVIOUS
  <2>4. PICK e4 : e4 = [e3 EXCEPT !.sent = u]  OBVIOUS
  <2>5. e = [e4 EXCEPT !.pending = p]  BY <1>9, <2>1, <2>2, <2>3, <2>4
  <2>6. /\ DeltaShape(e1)
        /\ e1.at = d.at /\ e1.closed = d.closed /\ e1.open = d.open /\ e1.schemas = v
    BY <1>10, <2>1, WithSchemas
  <2>7. /\ DeltaShape(e2) /\ e2.channels = w
        /\ e2.at = d.at /\ e2.closed = d.closed /\ e2.open = d.open /\ e2.schemas = v
    BY <2>2, <2>6, WithChannels
  <2>8. /\ DeltaShape(e3) /\ e3.channels = w /\ e3.trig = t
        /\ e3.at = d.at /\ e3.closed = d.closed /\ e3.open = d.open /\ e3.schemas = v
    BY <2>3, <2>7, WithTrig
  <2>9. /\ DeltaShape(e4) /\ e4.channels = w /\ e4.trig = t /\ e4.sent = u
        /\ e4.at = d.at /\ e4.closed = d.closed /\ e4.open = d.open /\ e4.schemas = v
    BY <2>4, <2>8, WithSent
  <2>10. DeltaShape(e4)  BY <2>9
  <2>11. /\ DeltaShape(e)
         /\ e.at = e4.at /\ e.closed = e4.closed /\ e.open = e4.open /\ e.pending = p
         /\ e.schemas = e4.schemas /\ e.channels = e4.channels /\ e.trig = e4.trig /\ e.sent = e4.sent
    BY <2>5, <2>10, WithPending
  <2> QED BY <2>9, <2>11
<1>12. /\ d.at \in Nat /\ d.closed \in Seq(Extent) /\ d.open \in Seq(Extent)
       /\ Len(d.open) <= 1 /\ d.pending \in Seq(Stamps) /\ Len(d.pending) <= 1
       /\ d.schemas \subseteq Nat /\ Map(d.channels, 1..3, Item) /\ d.trig \subseteq 1..3
       /\ d.sent \in Seq(Item)
  BY DEF IsDelta
<1>13. /\ s.pending \in Seq(Stamps) /\ Len(s.pending) <= 1 /\ s.schemas \subseteq Nat
       /\ Map(s.channels, 1..3, Item) /\ s.trig \subseteq 1..3 /\ s.sent \in Seq(Item)
  BY <1>5 DEF IsDelta
<1>14. p \in Seq(Stamps) /\ Len(p) <= 1  BY <1>8, <1>12, <1>13, MergeOfSpans
<1>15. /\ Map(w, 1..3, Item) /\ DOMAIN w = DOMAIN d.channels \cup DOMAIN s.channels
       /\ \A id \in DOMAIN s.channels : w[id] = s.channels[id]
       /\ \A id \in DOMAIN d.channels : id \notin DOMAIN s.channels => w[id] = d.channels[id]
  <2>1. PICK f, g, D : f = d.channels /\ g = s.channels /\ D = 1..3  OBVIOUS
  <2>2. Map(f, D, Item) /\ Map(g, D, Item)  BY <1>12, <1>13, <2>1
  <2>3. /\ Map(Extend(f, g), D, Item) /\ DOMAIN Extend(f, g) = DOMAIN f \cup DOMAIN g
        /\ \A id \in DOMAIN g : Extend(f, g)[id] = g[id]
        /\ \A id \in DOMAIN f : id \notin DOMAIN g => Extend(f, g)[id] = f[id]
    <3>1. Map(Extend(f, g), D, Item)  BY <2>2, ExtendIs
    <3>2. DOMAIN Extend(f, g) = DOMAIN f \cup DOMAIN g  BY DEF Extend
    <3>3. \A id \in DOMAIN g : Extend(f, g)[id] = g[id]  BY DEF Extend
    <3>4. \A id \in DOMAIN f : id \notin DOMAIN g => Extend(f, g)[id] = f[id]  BY DEF Extend
    <3> QED BY <3>1, <3>2, <3>3, <3>4
  <2>4. w = Extend(f, g)  BY <1>8, <2>1
  <2> QED BY <2>1, <2>3, <2>4
<1>16. u \in Seq(Item) /\ Range(u) = Range(d.sent) \cup Range(s.sent) /\ InOrder(u)
  <2>1. \A i \in 1..Len(d.sent), j \in 1..Len(s.sent) : d.sent[i].n < s.sent[j].n
    <3>1. Range(s.sent) \subseteq X  BY <1>5 DEF Messages
    <3>2. /\ \A i \in 1..Len(d.sent) : d.sent[i] \in Range(d.sent)
          /\ \A i \in 1..Len(s.sent) : s.sent[i] \in Range(s.sent)
      BY <1>12, <1>13 DEF Range
    <3> QED BY <3>1, <3>2
  <2>2. PICK a, b : a = d.sent /\ b = s.sent  OBVIOUS
  <2>3. a \in Seq(Item) /\ b \in Seq(Item) /\ u = a \o b /\ InOrder(a) /\ InOrder(b)
        /\ \A i \in 1..Len(a), j \in 1..Len(b) : a[i].n < b[j].n
    BY <1>5, <1>8, <1>12, <1>13, <2>1, <2>2
  <2>4. u \in Seq(Item) /\ Range(u) = Range(a) \cup Range(b) /\ InOrder(u)
    <3>1. a \o b \in Seq(Item)  BY <2>3, ConcatIs
    <3>2. Range(a \o b) = Range(a) \cup Range(b)  BY <2>3, RangeConcat
    <3>3. InOrder(a \o b)  BY <2>3, ConcatInOrder
    <3> QED BY <2>3, <3>1, <3>2, <3>3
  <2> QED BY <2>2, <2>4
<1>17. t = d.trig \cup Triggers(X) /\ t = s.trig /\ t \subseteq 1..3  BY <1>5, <1>8, <1>12, <1>13
<1>18. v = d.schemas \cup {x.id : x \in {y \in X : y.kind = "schema"}} /\ v \subseteq Nat
  BY <1>5, <1>8, <1>12, <1>13
<1>19. IsDelta(e)  BY <1>11, <1>12, <1>14, <1>15, <1>16, <1>17, <1>18 DEF IsDelta
<1>20. ASSUME NEW M \in SUBSET Stamped, IsSpan(d.pending, M)
       PROVE  IsSpan(p, M \cup Messages(X))
  <2>1. X \in SUBSET Item  BY RangeIs DEF Sorted
  <2>2. Messages(X) \in SUBSET Stamped  BY <2>1, MessagesAre
  <2> QED BY <1>7, <1>8, <1>20, <2>2, MergeIsSpan
<1>21. \A id \in DOMAIN w :
         \/ id \in DOMAIN d.channels /\ w[id] = d.channels[id]
         \/ w[id] \in X /\ w[id].kind = "channel" /\ w[id].id = id
  BY <1>6, <1>15
<1> HIDE DEF X
<1>22. Absorbs(d, X, e)
  BY <1>5, <1>11, <1>15, <1>16, <1>17, <1>18, <1>19, <1>20, <1>21 DEF Absorbs
<1> QED BY <1>9, <1>22 DEF X

(* The items a record adds to the index.                                   *)
Sound(r) == IF r.ok THEN Range(r.inner) ELSE {}

LEMMA RecordAbsorbs ==
    ASSUME NEW d, IsDelta(d), InOrder(d.sent), NEW r \in Record, Formed(r), r.kind # "footer",
           Sorted(r.inner), \A m \in Range(d.sent), x \in Range(r.inner) : m.n < x.n
    PROVE  Absorbs(d, Sound(r), Absorb(d, r))
<1>1. CASE ~r.ok
  <2>1. Absorb(d, r) = d /\ Sound(r) = {}  BY <1>1 DEF Absorb, AbsorbChunk, Sound
  <2> QED BY <2>1, AbsorbsNone
<1>2. CASE r.ok /\ r.kind = "chunk"
  <2>1. Absorb(d, r) = AbsorbChunk(d, r) /\ Sound(r) = Range(r.inner)
    BY <1>2 DEF Absorb, Sound
  <2> QED BY <1>2, <2>1, ChunkAbsorbs
<1>3. CASE r.ok /\ r.kind = "single"
  <2>1. r.inner \in Seq(Item) /\ Len(r.inner) = 1  BY <1>3 DEF Record, Formed
  <2>2. PICK x : x = r.inner[1]  OBVIOUS
  <2>3. x \in Item /\ Range(r.inner) = {x}  BY <2>1, <2>2 DEF Range
  <2>4. Absorb(d, r) = AbsorbParsed(d, x) /\ Sound(r) = {x}
    BY <1>3, <2>2, <2>3 DEF Absorb, Sound
  <2> QED BY <2>3, <2>4, ParsedAbsorbs
<1> QED BY <1>1, <1>2, <1>3 DEF Record

-----------------------------------------------------------------------------
(* The file, and the extents over it.                                      *)

LEMMA FileIs ==
    ASSUME WriterInv
    PROVE  /\ file \in Seq(Record) /\ Len(file) \in Nat /\ DOMAIN file = 1..Len(file)
           /\ \A k \in 1..Len(file) : /\ file[k] \in Record /\ Formed(file[k])
                                      /\ Sorted(file[k].inner)
           /\ Readable \in 0..Len(file)
           /\ \A k \in 1..Readable : file[k].kind # "footer"
           /\ \A k \in 1..Len(file) : k > Readable => k = Len(file) /\ file[k] = Footer
<1>1. /\ file \in Seq(Record) /\ Len(file) \in Nat /\ DOMAIN file = 1..Len(file)
      /\ Len(sink) \in Nat /\ written \in Seq(Item)
      /\ RecordsFormed /\ HeldInOrder /\ Numbered /\ WriterType
  BY DEF WriterInv, WriterType
<1>2. \A k \in 1..Len(file) : k \in 1..Parts /\ Held(k) = file[k].inner
  BY <1>1 DEF Parts, Held, HeldIn
<1>3. ASSUME NEW k \in 1..Len(file)
      PROVE  file[k] \in Record /\ Formed(file[k]) /\ Sorted(file[k].inner)
  <2>1. file[k] \in Record /\ Formed(file[k]) /\ file[k].inner \in Seq(Item)
    <3>1. file[k] \in Record /\ Formed(file[k])  BY <1>1 DEF RecordsFormed
    <3>2. \A r \in Record : r.inner \in Seq(Item)  BY DEF Record
    <3> QED BY <3>1, <3>2
  <2>2. InOrder(file[k].inner)  BY <1>1, <1>2 DEF HeldInOrder
  <2> DEFINE s == file[k].inner
  <2>3. ASSUME NEW i \in DOMAIN s, NEW j \in DOMAIN s, i < j, IsMessage(s[i])  PROVE IsMessage(s[j])
    <3>1. /\ s[i].n \in DOMAIN written /\ s[i] = written[s[i].n]
          /\ s[j].n \in DOMAIN written /\ s[j] = written[s[j].n]
      BY <1>1, <1>2 DEF HeldInOrder, Range
    <3>2. s[i].n < s[j].n /\ s[i].n \in Nat /\ s[j].n \in Nat  BY <1>1, <2>2, <2>3, <3>1 DEF InOrder
    <3>3. Len(Registration) \in Nat /\ \A a \in 1..Len(Registration) : ~IsMessage(Registration[a])
      BY <1>1, RegistrationShape
    <3>4. s[i].n > Len(Registration)
      <4>1. s[i].n \in 1..Len(Registration) => ~IsMessage(s[i])
        BY <1>1, <3>1, <3>3 DEF Numbered
      <4> QED BY <1>1, <2>3, <3>1, <3>3, <4>1
    <3>5. ~(s[j].n <= Len(Registration))  BY <3>2, <3>3, <3>4
    <3> QED BY <1>1, <3>1, <3>5 DEF Numbered
  <2> QED BY <2>1, <2>2, <2>3 DEF Sorted
<1>4. \A k \in 1..Len(file) : file[k].kind = "footer" => k = Len(file) /\ file[k] = Footer
  BY <1>1 DEF RecordsFormed, Formed
<1>5. Footer.kind = "footer" /\ \A k \in 1..Len(file) : Len(file) > 0  BY <1>1 DEF Footer
<1>6. CASE Len(file) > 0 /\ Last(file) = Footer
  <2>1. PICK n : n = Len(file)  OBVIOUS
  <2>2. n \in Nat /\ n > 0 /\ file[n] = Footer /\ Readable = n - 1
    BY <1>1, <1>6, <2>1 DEF Last, Readable
  <2>3. /\ Readable \in 0..n
        /\ \A k \in 1..Readable : k \in 1..n /\ k # n
        /\ \A k \in 1..n : k > Readable => k = n
    BY <2>2
  <2>4. /\ \A k \in 1..Readable : file[k].kind # "footer"
        /\ \A k \in 1..n : k > Readable => k = n /\ file[k] = Footer
    BY <1>4, <2>1, <2>2, <2>3
  <2>5. Readable \in 0..Len(file)  BY <2>1, <2>3
  <2>6. \A k \in 1..Len(file) : k > Readable => k = Len(file) /\ file[k] = Footer  BY <2>1, <2>4
  <2> QED BY <1>1, <1>3, <2>4, <2>5, <2>6
<1>7. CASE ~(Len(file) > 0 /\ Last(file) = Footer)
  <2>1. PICK n : n = Len(file)  OBVIOUS
  <2>2. n \in Nat /\ Readable = n /\ (n > 0 => file[n] # Footer)
    BY <1>1, <1>7, <2>1 DEF Last, Readable
  <2>3. Readable \in 0..n /\ \A k \in 1..n : ~(k > Readable)  BY <2>2
  <2>4. \A k \in 1..n : file[k].kind # "footer"  BY <1>4, <1>5, <2>1, <2>2
  <2>5. Readable \in 0..Len(file)  BY <2>1, <2>3
  <2>6. \A k \in 1..Len(file) : k > Readable => k = Len(file) /\ file[k] = Footer  BY <2>1, <2>3
  <2>7. \A k \in 1..Readable : file[k].kind # "footer"  BY <2>2, <2>4
  <2> QED BY <1>1, <1>3, <2>5, <2>6, <2>7
<1> QED BY <1>6, <1>7

LEMMA FileInOrder ==
    ASSUME WriterInv, NEW k \in 1..Len(file), NEW l \in 1..Len(file),
           NEW x \in Range(file[k].inner), NEW y \in Range(file[l].inner)
    PROVE  /\ x \in Item /\ y \in Item /\ x.n \in Nat /\ y.n \in Nat
           /\ k < l => x.n < y.n
           /\ x.n = y.n => x = y /\ k = l
           /\ x.n < y.n /\ IsMessage(x) => IsMessage(y)
           /\ x.kind = "channel" /\ y.kind = "channel" /\ x.id = y.id => x = y
           /\ x.kind = "schema" /\ y.kind = "channel" => x.n < y.n
<1>1. /\ file \in Seq(Record) /\ Len(file) \in Nat
      /\ Len(sink) \in Nat /\ written \in Seq(Item)
      /\ HeldInOrder /\ Numbered /\ WriterType
  BY DEF WriterInv, WriterType
<1>2. \A i \in 1..Len(file) : i \in 1..Parts /\ Held(i) = file[i].inner
  BY <1>1 DEF Parts, Held, HeldIn
<1>3. /\ x.n \in DOMAIN written /\ x = written[x.n] /\ y.n \in DOMAIN written /\ y = written[y.n]
      /\ k < l => x.n < y.n
      /\ l < k => y.n < x.n
  BY <1>1, <1>2 DEF HeldInOrder
<1>4. x \in Item /\ y \in Item /\ x.n \in Nat /\ y.n \in Nat  BY <1>1, <1>3
<1>5. /\ Len(Registration) \in Nat /\ \A a \in 1..Len(Registration) : ~IsMessage(Registration[a])
  BY <1>1, RegistrationShape
<1>6. /\ IsMessage(x) <=> x.n > Len(Registration)
      /\ IsMessage(y) <=> y.n > Len(Registration)
      /\ ~IsMessage(x) => x.n \in 1..Len(Registration) /\ x = Registration[x.n]
      /\ ~IsMessage(y) => y.n \in 1..Len(Registration) /\ y = Registration[y.n]
  <2>1. \A a \in DOMAIN written :
          /\ a \in Nat \ {0}
          /\ IF a <= Len(Registration) THEN a \in 1..Len(Registration) /\ written[a] = Registration[a]
             ELSE IsMessage(written[a])
    BY <1>1, <1>5 DEF Numbered
  <2> QED BY <1>3, <1>5, <2>1
<1>7. x.n = y.n => x = y /\ k = l  BY <1>3, <1>4
<1>8. x.n < y.n /\ IsMessage(x) => IsMessage(y)  BY <1>4, <1>5, <1>6
<1>9. /\ x.kind = "channel" /\ y.kind = "channel" /\ x.id = y.id => x = y
      /\ x.kind = "schema" /\ y.kind = "channel" => x.n < y.n
  <2>1. SUFFICES ASSUME x.kind # "message", y.kind = "channel"
                 PROVE  /\ x.kind = "channel" /\ x.id = y.id => x = y
                        /\ x.kind = "schema" => x.n < y.n
    OBVIOUS
  <2>2. /\ x.n \in 1..Len(Registration) /\ x = Registration[x.n]
        /\ y.n \in 1..Len(Registration) /\ y = Registration[y.n]
    BY <1>6, <2>1 DEF IsMessage
  <2>3. /\ \A a, b \in 1..Len(Registration) :
             /\ Registration[a].kind = "channel" /\ Registration[b].kind = "channel"
                  /\ Registration[a].id = Registration[b].id => a = b
             /\ Registration[a].kind = "schema" /\ Registration[b].kind = "channel" => a < b
    <3>1. style \in {"copper", "custom", "chunked"}
      BY <1>1, WritersAssumption DEF WriterType
    <3>2. CASE style = "copper"  BY <3>2 DEF Registration, Schema, Channel
    <3>3. CASE style = "custom"  BY <3>3 DEF Registration, Schema, Channel
    <3>4. CASE style = "chunked"  BY <3>4 DEF Registration, Schema, Channel
    <3> QED BY <3>1, <3>2, <3>3, <3>4
  <2> HIDE DEF Registration
  <2>4. x.kind = "schema" => x.n < y.n  BY <2>1, <2>2, <2>3
  <2>5. x.kind = "channel" /\ x.id = y.id => x.n = y.n  BY <2>1, <2>2, <2>3
  <2> QED BY <1>3, <2>4, <2>5
<1> QED BY <1>3, <1>4, <1>7, <1>8, <1>9

LEMMA ItemsAre ==
    ASSUME NEW S, NEW T, NEW k
    PROVE  /\ Items(S \cup T) = Items(S) \cup Items(T)
           /\ Items({k}) = Sound(file[k]) /\ Items({}) = {}
           /\ S \subseteq T => Items(S) \subseteq Items(T)
           /\ Messages(Items(S \cup T)) = Messages(Items(S)) \cup Messages(Items(T))
           /\ \A x : x \in Items(S) <=> \E j \in S : file[j].ok /\ x \in Range(file[j].inner)
<1>1. \A U, x : x \in Items(U) <=> \E j \in U : file[j].ok /\ x \in Range(file[j].inner)
  BY DEF Items
<1>2. Items(S \cup T) = Items(S) \cup Items(T)  BY <1>1
<1>3. Items({k}) = Sound(file[k])
  <2>1. \A x : x \in Items({k}) <=> file[k].ok /\ x \in Range(file[k].inner)  BY <1>1
  <2>2. \A x : x \in Sound(file[k]) <=> file[k].ok /\ x \in Range(file[k].inner)  BY DEF Sound
  <2> QED BY <2>1, <2>2
<1>4. Items({}) = {}  BY <1>1
<1>5. S \subseteq T => Items(S) \subseteq Items(T)  BY <1>1
<1> QED BY <1>1, <1>2, <1>3, <1>4, <1>5 DEF Messages

LEMMA ItemsTyped ==
    ASSUME WriterInv, NEW S \in SUBSET (1..Len(file))
    PROVE  Items(S) \in SUBSET Item /\ Messages(Items(S)) \in SUBSET Stamped
<1>1. \A k \in S : Range(file[k].inner) \subseteq Item  BY FileIs, RangeIs DEF Sorted
<1>2. Items(S) \in SUBSET Item  BY <1>1, ItemsAre
<1> QED BY <1>2, MessagesAre

LEMMA EmptyIs == ASSUME NEW S PROVE << >> \in Seq(S) /\ Len(<< >>) = 0
OBVIOUS

LEMMA EmptyConcat ==
    ASSUME NEW S, NEW s \in Seq(S)
    PROVE  s \o << >> = s /\ << >> \o s = s /\ << >> \in Seq(S)
OBVIOUS

LEMMA AppendConcat ==
    ASSUME NEW S, NEW s \in Seq(S), NEW t \in Seq(S), NEW e \in S
    PROVE  /\ s \o <<e>> = Append(s, e) /\ <<e>> \in Seq(S) /\ Len(<<e>>) = 1
           /\ s \o Append(t, e) = Append(s \o t, e)
OBVIOUS

LEMMA ExtentIs ==
    ASSUME NEW e \in Extent
    PROVE  e.offset \in Nat /\ e.len \in Nat /\ e.len >= 1 /\ e.time \in Seq(Stamps)
BY DEF Extent

LEMMA TiledIs ==
    ASSUME NEW P, NEW n \in Nat, Tiled(P, n), NEW m, m = Len(P)
    PROVE  /\ P \in Seq(Extent) /\ m \in Nat /\ DOMAIN P = 1..m
           /\ \A k \in 1..m : /\ P[k] \in Extent
                              /\ P[k].offset \in Nat /\ P[k].len \in Nat /\ P[k].len >= 1
                              /\ P[k].offset + P[k].len <= n
           /\ \A k, l \in 1..m : k < l => P[k].offset + P[k].len <= P[l].offset
           /\ \A i \in 1..n : \E k \in 1..m : i \in Reach(P[k])
           /\ \A k \in 1..m : IsSpan(P[k].time, Messages(Items(Reach(P[k]))))
<1>1. P \in Seq(Extent)  BY DEF Tiled
<1>2. m \in Nat /\ DOMAIN P = 1..m /\ \A k \in 1..m : P[k] \in Extent
  BY <1>1, SeqElements
<1>3. \A k \in 1..m : P[k].offset \in Nat /\ P[k].len \in Nat /\ P[k].len >= 1
  BY <1>2, ExtentIs
<1> QED BY <1>1, <1>2, <1>3 DEF Tiled

(* The end of the last extent is where the extents end.                    *)
LEMMA TiledEnds ==
    ASSUME NEW P \in Seq(Extent), NEW o \in Extent, NEW n \in Nat, Tiled(Append(P, o), n)
    PROVE  o.offset + o.len = n
<1>1. PICK E : E = Append(P, o)  OBVIOUS
<1>2. PICK m : m = Len(P) + 1  OBVIOUS
<1>3. m \in Nat /\ m >= 1 /\ m \in 1..m /\ Len(E) = m /\ E[m] = o
  <2>1. Len(P) \in Nat /\ Len(E) = Len(P) + 1 /\ E[Len(P) + 1] = o  BY <1>1, AppendIs
  <2> QED BY <1>2, <2>1
<1>4. Tiled(E, n) /\ m = Len(E)  BY <1>1, <1>3
<1>5. /\ \A k \in 1..m : E[k].offset + E[k].len <= n /\ E[k].offset \in Nat /\ E[k].len \in Nat
      /\ \A k, l \in 1..m : k < l => E[k].offset + E[k].len <= E[l].offset
      /\ \A i \in 1..n : \E k \in 1..m : i \in Reach(E[k])
  BY <1>4, TiledIs
<1>6. o.offset \in Nat /\ o.len \in Nat /\ o.len >= 1 /\ o.offset + o.len <= n
  BY <1>3, <1>5, ExtentIs
<1>7. n \in 1..n  BY <1>6
<1>8. PICK k \in 1..m : n \in Reach(E[k])  BY <1>5, <1>7
<1>9. n <= E[k].offset + E[k].len  BY <1>5, <1>8 DEF Reach
<1>10. k = m
  <2>1. CASE k < m
    <3>1. E[k].offset + E[k].len <= o.offset  BY <1>3, <1>5, <2>1
    <3>2. E[k].offset \in Nat /\ E[k].len \in Nat  BY <1>5
    <3> QED BY <1>6, <1>9, <3>1, <3>2
  <2> QED BY <1>3, <2>1
<1> QED BY <1>3, <1>6, <1>9, <1>10

(* Extents with one more at their end, which covers the next record.       *)
LEMMA TiledAppends ==
    ASSUME NEW E \in Seq(Extent), NEW m \in Nat, Len(E) = m + 1, NEW n \in Nat,
           \A k \in 1..m : E[k].offset + E[k].len <= E[m + 1].offset,
           \A k, l \in 1..m : k < l => E[k].offset + E[k].len <= E[l].offset,
           \A k \in 1..m : IsSpan(E[k].time, Messages(Items(Reach(E[k])))),
           E[m + 1].offset + E[m + 1].len = n + 1,
           IsSpan(E[m + 1].time, Messages(Items(Reach(E[m + 1])))),
           \A i \in 1..n : \E k \in 1..m + 1 : i \in Reach(E[k])
    PROVE  Tiled(E, n + 1)
<1>1. /\ DOMAIN E = 1..m + 1 /\ m + 1 \in 1..m + 1
      /\ \A k \in 1..m + 1 : k \in 1..m \/ k = m + 1
      /\ \A k, l \in 1..m + 1 : k < l => k \in 1..m
  OBVIOUS
<1>2. \A k \in 1..m + 1 : E[k].offset \in Nat /\ E[k].len \in Nat /\ E[k].len >= 1
  BY <1>1, SeqElements, ExtentIs
<1>3. ASSUME NEW k \in 1..m + 1  PROVE E[k].offset + E[k].len <= n + 1
  <2>1. CASE k \in 1..m
    <3>1. E[k].offset + E[k].len <= E[m + 1].offset  BY <2>1
    <3>2. PICK a, b, c, d : a = E[k].offset /\ b = E[k].len /\ c = E[m + 1].offset /\ d = E[m + 1].len
      OBVIOUS
    <3>3. a \in Nat /\ b \in Nat /\ c \in Nat /\ d \in Nat  BY <1>1, <1>2, <3>2
    <3>4. a + b <= c /\ c + d = n + 1  BY <3>1, <3>2
    <3>5. a + b <= n + 1  BY <3>3, <3>4
    <3> QED BY <3>2, <3>5
  <2>2. CASE k = m + 1  BY <2>2
  <2> QED BY <1>1, <2>1, <2>2
<1>4. ASSUME NEW k \in 1..m + 1, NEW l \in 1..m + 1, k < l
      PROVE  E[k].offset + E[k].len <= E[l].offset
  <2>1. k \in 1..m  BY <1>1, <1>4
  <2>2. CASE l \in 1..m  BY <1>4, <2>1, <2>2
  <2>3. CASE l = m + 1  BY <2>1, <2>3
  <2> QED BY <1>1, <2>2, <2>3
<1>5. ASSUME NEW i \in 1..n + 1  PROVE \E k \in 1..m + 1 : i \in Reach(E[k])
  <2>1. CASE i \in 1..n  BY <2>1
  <2>2. CASE i = n + 1
    <3>1. E[m + 1].offset \in Nat /\ E[m + 1].len \in Nat /\ E[m + 1].len >= 1  BY <1>1, <1>2
    <3>2. i \in Reach(E[m + 1])  BY <2>2, <3>1 DEF Reach
    <3> QED BY <1>1, <3>2
  <2> QED BY <2>1, <2>2
<1>6. \A k \in 1..m + 1 : IsSpan(E[k].time, Messages(Items(Reach(E[k]))))  BY <1>1
<1> QED BY <1>1, <1>3, <1>4, <1>5, <1>6 DEF Tiled

LEMMA TiledOpens ==
    ASSUME NEW P, NEW n \in Nat, Tiled(P, n), NEW g \in Extent, g.offset = n, g.len = 1,
           IsSpan(g.time, Messages(Items({n + 1})))
    PROVE  Tiled(Append(P, g), n + 1)
<1>1. PICK E : E = Append(P, g)  OBVIOUS
<1>2. PICK m : m = Len(P)  OBVIOUS
<1>3. /\ P \in Seq(Extent) /\ m \in Nat
      /\ \A k \in 1..m : P[k].offset + P[k].len <= n
      /\ \A k, l \in 1..m : k < l => P[k].offset + P[k].len <= P[l].offset
      /\ \A i \in 1..n : \E k \in 1..m : i \in Reach(P[k])
      /\ \A k \in 1..m : IsSpan(P[k].time, Messages(Items(Reach(P[k]))))
  BY <1>2, TiledIs
<1>4. /\ E \in Seq(Extent) /\ Len(E) = m + 1 /\ E[m + 1] = g /\ \A k \in 1..m : E[k] = P[k]
  <2>1. /\ E \in Seq(Extent) /\ Len(E) = m + 1 /\ E[m + 1] = g
        /\ \A k \in 1..m + 1 : E[k] = IF k <= m THEN P[k] ELSE g
    BY <1>1, <1>2, <1>3, AppendIs
  <2> QED BY <1>3, <2>1
<1>5. Reach(g) = {n + 1}  BY DEF Reach
<1>6. \A i \in 1..n : \E k \in 1..m + 1 : i \in Reach(E[k])
  <2>1. \A k \in 1..m : k \in 1..m + 1  BY <1>3
  <2> QED BY <1>3, <1>4, <2>1
<1>7. Tiled(E, n + 1)  BY <1>3, <1>4, <1>5, <1>6, TiledAppends
<1> QED BY <1>1, <1>7

LEMMA TiledGrows ==
    ASSUME NEW P \in Seq(Extent), NEW o \in Extent, NEW n \in Nat, Tiled(Append(P, o), n),
           NEW g \in Extent, g.offset = o.offset, g.len = n + 1 - o.offset,
           IsSpan(g.time, Messages(Items(Reach(o))) \cup Messages(Items({n + 1})))
    PROVE  Tiled(Append(P, g), n + 1)
<1>1. PICK E : E = Append(P, g)  OBVIOUS
<1>2. PICK F : F = Append(P, o)  OBVIOUS
<1>3. PICK m : m = Len(P)  OBVIOUS
<1>4. m \in Nat  BY <1>3
<1>5. Tiled(F, n) /\ o.offset + o.len = n  BY <1>2, TiledEnds
<1>6. /\ Len(F) = m + 1 /\ F[m + 1] = o
      /\ \A k \in 1..m + 1 : F[k] = IF k <= m THEN P[k] ELSE o
  BY <1>2, <1>3, AppendIs
<1>7. /\ E \in Seq(Extent) /\ Len(E) = m + 1 /\ E[m + 1] = g
      /\ \A k \in 1..m + 1 : E[k] = IF k <= m THEN P[k] ELSE g
  BY <1>1, <1>3, AppendIs
<1>8. /\ m + 1 \in 1..m + 1 /\ \A k \in 1..m : k \in 1..m + 1 /\ k < m + 1
      /\ \A k \in 1..m + 1 : k \in 1..m \/ k = m + 1
  BY <1>4
<1>9. \A k \in 1..m : E[k] = F[k]  BY <1>4, <1>6, <1>7
<1>10. /\ \A k, l \in 1..m + 1 : k < l => F[k].offset + F[k].len <= F[l].offset
       /\ \A i \in 1..n : \E k \in 1..m + 1 : i \in Reach(F[k])
       /\ \A k \in 1..m + 1 : IsSpan(F[k].time, Messages(Items(Reach(F[k]))))
  <2>1. PICK M : M = m + 1  OBVIOUS
  <2>2. Tiled(F, n) /\ M = Len(F)  BY <1>5, <1>6, <2>1
  <2> QED BY <2>1, <2>2, TiledIs
<1>11. o.offset \in Nat /\ o.len \in Nat /\ g.offset \in Nat  BY ExtentIs
<1>12. Reach(g) = Reach(o) \cup {n + 1} /\ g.offset + g.len = n + 1
  <2>1. g.offset + g.len = n + 1  BY <1>11
  <2>2. Reach(g) = o.offset + 1..n + 1  BY <2>1 DEF Reach
  <2>3. Reach(o) = o.offset + 1..n  BY <1>5 DEF Reach
  <2>4. o.offset + 1 <= n + 1  BY <1>5, <1>11
  <2>5. o.offset + 1..n + 1 = (o.offset + 1..n) \cup {n + 1}  BY <1>11, <2>4
  <2> QED BY <2>1, <2>2, <2>3, <2>5
<1>13. Messages(Items(Reach(g))) = Messages(Items(Reach(o))) \cup Messages(Items({n + 1}))
  <2>1. PICK R, S : R = Reach(o) /\ S = {n + 1}  OBVIOUS
  <2>2. Messages(Items(R \cup S)) = Messages(Items(R)) \cup Messages(Items(S))  BY ItemsAre
  <2> QED BY <1>12, <2>1, <2>2
<1>14. /\ \A k \in 1..m : E[k].offset + E[k].len <= g.offset
       /\ \A k, l \in 1..m : k < l => E[k].offset + E[k].len <= E[l].offset
       /\ \A k \in 1..m : IsSpan(E[k].time, Messages(Items(Reach(E[k]))))
  BY <1>6, <1>8, <1>9, <1>10
<1>15. ASSUME NEW i \in 1..n  PROVE \E k \in 1..m + 1 : i \in Reach(E[k])
  <2>1. PICK k \in 1..m + 1 : i \in Reach(F[k])  BY <1>10
  <2>2. CASE k \in 1..m  BY <1>9, <2>1, <2>2
  <2>3. CASE k = m + 1  BY <1>6, <1>7, <1>8, <1>12, <2>1, <2>3
  <2> QED BY <1>8, <2>2, <2>3
<1>16. Tiled(E, n + 1)
  BY <1>4, <1>7, <1>12, <1>13, <1>14, <1>15, TiledAppends
<1> QED BY <1>1, <1>16

LEMMA SpanIs ==
    ASSUME NEW t, NEW M, IsSpan(t, M)
    PROVE  t \in Seq(Stamps) /\ Len(t) <= 1
<1>1. t = << >> \/ (t \in Seq(Stamps) /\ Len(t) = 1)  BY DEF IsSpan
<1>2. << >> \in Seq(Stamps) /\ Len(<< >>) = 0  BY EmptyIs
<1>3. 0 <= 1 /\ 1 <= 1  OBVIOUS
<1> QED BY <1>1, <1>2, <1>3

Moved(d, n, p, x, y) == [d EXCEPT !.at = n, !.pending = p, !.closed = x, !.open = y]

LEMMA WithExtents ==
    ASSUME NEW d, DeltaShape(d), NEW n, NEW p, NEW x, NEW y, NEW f,
           f = Moved(d, n, p, x, y)
    PROVE  /\ DeltaShape(f)
           /\ f.at = n /\ f.pending = p /\ f.closed = x /\ f.open = y
           /\ f.schemas = d.schemas /\ f.channels = d.channels /\ f.trig = d.trig /\ f.sent = d.sent
<1>1. PICK a, b, o, q, s, c, t, u : d = Delta(a, b, o, q, s, c, t, u)  BY DEF DeltaShape
<1>2. d.schemas = s /\ d.channels = c /\ d.trig = t /\ d.sent = u  BY <1>1, DeltaIs
<1>3. f = Delta(n, x, y, p, s, c, t, u)  BY <1>1 DEF Delta, Moved
<1>4. /\ DeltaShape(f) /\ f.at = n /\ f.pending = p /\ f.closed = x /\ f.open = y
      /\ f.schemas = s /\ f.channels = c /\ f.trig = t /\ f.sent = u
  BY <1>3, DeltaIs
<1> QED BY <1>2, <1>4

(* The extents of a delta behind those of the index: all but the open one  *)
(* and that, if there is one.                                              *)
LEMMA ExtendsExtents ==
    ASSUME NEW e, IsDelta(e), NEW C \in Seq(Extent), Tiled((C \o e.closed) \o e.open, e.at),
           e.at + 1 \in 1..Len(file), WriterInv,
           IsSpan(e.pending, Messages(Items({e.at + 1})))
    PROVE  LET f == ExtendExtent(e)
           IN  /\ IsDelta(f) /\ Tiled((C \o f.closed) \o f.open, f.at)
               /\ f.at = e.at + 1 /\ f.pending = << >> /\ f.schemas = e.schemas
               /\ f.channels = e.channels /\ f.trig = e.trig /\ f.sent = e.sent
<1> DEFINE n == e.at
           P == C \o e.closed
<1>1. /\ DeltaShape(e) /\ n \in Nat /\ e.closed \in Seq(Extent) /\ e.open \in Seq(Extent)
      /\ Len(e.open) <= 1 /\ e.pending \in Seq(Stamps) /\ Len(e.pending) <= 1
      /\ e.schemas \subseteq Nat /\ Map(e.channels, 1..3, Item) /\ e.trig \subseteq 1..3
      /\ e.sent \in Seq(Item)
  BY DEF IsDelta
<1>2. P \in Seq(Extent)  BY <1>1, ConcatIs
<1>3. PICK o : o = IF e.open = << >> THEN [offset |-> e.at, len |-> 0, time |-> << >>]
                   ELSE e.open[1]
  OBVIOUS
<1>4. PICK g : g = [o EXCEPT !.len = e.at + 1 - o.offset, !.time = Merge(o.time, e.pending)]
  OBVIOUS
<1>6. PICK x, y : /\ x = IF g.len >= ExtentCap THEN Append(e.closed, g) ELSE e.closed
                  /\ y = IF g.len >= ExtentCap THEN << >> ELSE <<g>>
  OBVIOUS
<1>7. PICK f : f = Moved(e, n + 1, << >>, x, y)
  OBVIOUS
<1>8. ExtendExtent(e) = f  BY <1>3, <1>4, <1>6, <1>7 DEF ExtendExtent, Moved
<1>9. Messages(Items({n + 1})) \in SUBSET Stamped
  <2>1. {n + 1} \in SUBSET (1..Len(file))  OBVIOUS
  <2> QED BY <2>1, ItemsTyped
<1>10. g \in Extent /\ Tiled(Append(P, g), n + 1)
  <2>1. CASE e.open = << >>
    <3>1. o = [offset |-> n, len |-> 0, time |-> << >>]  BY <1>3, <2>1
    <3>2. Merge(o.time, e.pending) = e.pending  BY <3>1 DEF Merge
    <3>3. g = [offset |-> n, len |-> 1, time |-> e.pending]
      <4>1. n + 1 - n = 1  BY <1>1
      <4> QED BY <1>4, <3>1, <3>2, <4>1
    <3>4. g \in Extent /\ g.offset = n /\ g.len = 1 /\ g.time = e.pending  BY <1>1, <3>3 DEF Extent
    <3>5. Tiled(P, n)
      <4>1. P \o << >> = P  BY <1>2, EmptyConcat
      <4> QED BY <2>1, <4>1
    <3> HIDE DEF P, n
    <3> QED BY <1>1, <3>4, <3>5, TiledOpens DEF n
  <2>2. CASE e.open # << >>
    <3>1. o \in Extent /\ e.open = <<o>>  BY <1>1, <1>3, <2>2
    <3>2. P \o <<o>> = Append(P, o)  BY <1>2, <3>1, AppendConcat
    <3>3. Tiled(Append(P, o), n)  BY <3>1, <3>2
    <3>4. o.offset + o.len = n /\ o.offset \in Nat /\ o.len \in Nat /\ o.time \in Seq(Stamps)
      <4>1. o.offset + o.len = n
        <5> HIDE DEF P
        <5> QED BY <1>1, <1>2, <3>1, <3>3, TiledEnds
      <4> QED BY <3>1, <4>1, ExtentIs
    <3>5. IsSpan(o.time, Messages(Items(Reach(o))))
      <4>1. /\ Len(P) + 1 \in DOMAIN Append(P, o) /\ Append(P, o)[Len(P) + 1] = o
        <5> HIDE DEF P
        <5>1. Len(P) + 1 = Len(Append(P, o)) /\ Append(P, o)[Len(P) + 1] = o /\ Len(P) \in Nat
              /\ Append(P, o) \in Seq(Extent)
          BY <1>2, <3>1, AppendIs
        <5>2. DOMAIN Append(P, o) = 1..Len(P) + 1  BY <5>1
        <5> QED BY <5>1, <5>2
      <4> QED BY <3>3, <4>1 DEF Tiled
    <3>6. Messages(Items(Reach(o))) \in SUBSET Stamped
      <4>1. Reach(o) \in SUBSET (1..Len(file))
        <5>1. Len(file) \in Nat  BY FileIs
        <5> QED BY <3>4, <5>1 DEF Reach
      <4> QED BY <4>1, ItemsTyped
    <3>7. PICK t : t = Merge(o.time, e.pending)  OBVIOUS
    <3>8. IsSpan(t, Messages(Items(Reach(o))) \cup Messages(Items({n + 1})))
      BY <1>9, <3>5, <3>6, <3>7, MergeIsSpan
    <3>9. Len(o.time) <= 1
      BY <3>5, SpanIs
    <3>10. t \in Seq(Stamps)
      <4>1. o.time \in Seq(Stamps) /\ e.pending \in Seq(Stamps) /\ Len(e.pending) <= 1
        BY <1>1, <3>4
      <4> QED BY <3>7, <3>9, <4>1, MergeOfSpans
    <3>11. PICK l : l = n + 1 - o.offset  OBVIOUS
    <3>12. l \in Nat \ {0}
      <4>1. PICK a, b : a = o.offset /\ b = o.len  OBVIOUS
      <4>2. n = a + b /\ a \in Nat /\ b \in Nat /\ l = n + 1 - a  BY <3>4, <3>11, <4>1
      <4> QED BY <4>2
    <3>13. g \in Extent /\ g.offset = o.offset /\ g.len = l /\ g.time = t
      <4>1. g = [o EXCEPT !.len = l, !.time = t]  BY <1>4, <3>7, <3>11
      <4> QED BY <3>1, <3>10, <3>12, <4>1 DEF Extent
    <3> HIDE DEF P, n
    <3> QED BY <1>1, <1>2, <3>1, <3>3, <3>8, <3>11, <3>13, TiledGrows DEF n
  <2> QED BY <2>1, <2>2
<1>11. /\ DeltaShape(f)
       /\ f.at = n + 1 /\ f.pending = << >> /\ f.closed = x /\ f.open = y /\ f.schemas = e.schemas
       /\ f.channels = e.channels /\ f.trig = e.trig /\ f.sent = e.sent
  <2>1. DeltaShape(e)  BY <1>1
  <2>2. PICK p, k : p = << >> /\ k = n + 1  OBVIOUS
  <2>3. f = Moved(e, k, p, x, y)  BY <1>7, <2>2
  <2> HIDE DEF n
  <2>4. /\ DeltaShape(f)
        /\ f.at = k /\ f.pending = p /\ f.closed = x /\ f.open = y /\ f.schemas = e.schemas
        /\ f.channels = e.channels /\ f.trig = e.trig /\ f.sent = e.sent
    BY <2>1, <2>3, WithExtents
  <2> QED BY <2>2, <2>4
<1>12. /\ x \in Seq(Extent) /\ y \in Seq(Extent) /\ Len(y) <= 1
       /\ (C \o x) \o y = Append(P, g)
  <2>1. CASE g.len >= ExtentCap
    <3>1. x = Append(e.closed, g) /\ y = << >>  BY <1>6, <2>1
    <3>2. x \in Seq(Extent) /\ y \in Seq(Extent) /\ Len(y) <= 1
      <4>1. Append(e.closed, g) \in Seq(Extent)  BY <1>1, <1>10, AppendIs
      <4>2. << >> \in Seq(Extent) /\ Len(<< >>) <= 1  OBVIOUS
      <4> QED BY <3>1, <4>1, <4>2
    <3>3. C \o Append(e.closed, g) = Append(C \o e.closed, g)
      <4>1. e.closed \in Seq(Extent) /\ g \in Extent  BY <1>1, <1>10
      <4> QED BY <4>1, AppendConcat
    <3>4. C \o x \in Seq(Extent)  BY <3>2, ConcatIs
    <3>5. (C \o x) \o << >> = C \o x  BY <3>4, EmptyConcat
    <3> QED BY <3>1, <3>2, <3>3, <3>5
  <2>2. CASE ~(g.len >= ExtentCap)
    <3>1. x = e.closed /\ y = <<g>>  BY <1>6, <2>2
    <3>2. P \o <<g>> = Append(P, g) /\ <<g>> \in Seq(Extent) /\ Len(<<g>>) = 1
      BY <1>2, <1>10, AppendConcat
    <3>3. Len(<<g>>) <= 1  BY <3>2
    <3> QED BY <1>1, <3>1, <3>2, <3>3
  <2> QED BY <2>1, <2>2
<1>13. << >> \in Seq(Stamps) /\ Len(<< >>) <= 1 /\ n + 1 \in Nat  BY <1>1
<1>14. IsDelta(f)  BY <1>1, <1>11, <1>12, <1>13 DEF IsDelta
<1>15. Tiled((C \o f.closed) \o f.open, f.at)  BY <1>10, <1>11, <1>12
<1> QED BY <1>8, <1>11, <1>14, <1>15

-----------------------------------------------------------------------------
(* What a pass collects accounts for the file up to where it is.           *)

LEMMA GoodIs ==
    ASSUME NEW n \in Nat
    PROVE  /\ Good(n) = Items(1..n) /\ GoodMessages(n) = Messages(Items(1..n))
           /\ Schemas(n) = {x.id : x \in {y \in Items(1..n) : y.kind = "schema"}}
           /\ Channels(n) = {x \in Items(1..n) : x.kind = "channel"}
           /\ Items(1..n + 1) = Items(1..n) \cup Sound(file[n + 1])
<1>1. Good(n) = Items(1..n)  BY DEF Good, Items
<1>2. 1..n + 1 = (1..n) \cup {n + 1}  OBVIOUS
<1>3. PICK S, T : S = 1..n /\ T = {n + 1}  OBVIOUS
<1>4. Items(S \cup T) = Items(S) \cup Items(T)  BY ItemsAre
<1>5. Items({n + 1}) = Sound(file[n + 1])  BY ItemsAre
<1> QED BY <1>1, <1>2, <1>3, <1>4, <1>5 DEF GoodMessages, Messages, Schemas, Channels

LEMMA NoSpan ==
    ASSUME NEW t, t = << >>
    PROVE  IsSpan(t, {})
<1>1. PICK M : M = {}  OBVIOUS
<1>2. IsSpan(t, M)  BY <1>1 DEF IsSpan
<1> QED BY <1>1, <1>2

LEMMA InOrderParts ==
    ASSUME NEW S, NEW s \in Seq(S), NEW t \in Seq(S), InOrder(s \o t)
    PROVE  /\ InOrder(s) /\ InOrder(t)
           /\ \A x \in Range(s), y \in Range(t) : x.n < y.n
<1>1. PICK u : u = s \o t  OBVIOUS
<1>2. PICK k : k = Len(s)  OBVIOUS
<1>3. PICK l : l = Len(t)  OBVIOUS
<1>4. /\ DOMAIN s = 1..k /\ DOMAIN t = 1..l /\ DOMAIN u = 1..k + l /\ k \in Nat /\ l \in Nat
      /\ \A i \in 1..k : u[i] = s[i]
      /\ \A i \in 1..l : u[k + i] = t[i]
  <2>1. u \in Seq(S) /\ Len(u) = k + l  BY <1>1, <1>2, <1>3, ConcatIs
  <2> QED BY <1>1, <1>2, <1>3, <2>1, ConcatIs
<1>5. \A i, j \in 1..k + l : i < j => u[i].n < u[j].n  BY <1>1, <1>4 DEF InOrder
<1>6. \A i \in 1..k : i \in 1..k + l  BY <1>4
<1>7. \A i \in 1..l : k + i \in 1..k + l  BY <1>4
<1>8. \A i, j \in 1..k : i < j => s[i].n < s[j].n  BY <1>4, <1>5, <1>6
<1>9. \A i, j \in 1..l : i < j => t[i].n < t[j].n
  <2>1. \A i, j \in 1..l : i < j => k + i < k + j  BY <1>4
  <2> QED BY <1>4, <1>5, <1>7, <2>1
<1>10. \A i \in 1..k, j \in 1..l : s[i].n < t[j].n
  <2>1. \A i \in 1..k, j \in 1..l : i < k + j  BY <1>4
  <2> QED BY <1>4, <1>5, <1>6, <1>7, <2>1
<1>11. ASSUME NEW x \in Range(s), NEW y \in Range(t)  PROVE x.n < y.n
  <2>1. PICK i \in 1..k : x = s[i]  BY <1>4 DEF Range
  <2>2. PICK j \in 1..l : y = t[j]  BY <1>4 DEF Range
  <2> QED BY <1>10, <2>1, <2>2
<1> QED BY <1>4, <1>8, <1>9, <1>11 DEF InOrder

(* What was sent stands in the records read, before the one that is next.  *)
LEMMA ReadBefore ==
    ASSUME WriterInv, NEW n \in Nat, n < Len(file), NEW m \in GoodMessages(n),
           NEW x \in Range(file[n + 1].inner)
    PROVE  m.n < x.n /\ IsMessage(x)
<1>1. m \in Items(1..n) /\ IsMessage(m)  BY GoodIs DEF Messages
<1>2. PICK k \in 1..n : m \in Range(file[k].inner)  BY <1>1, ItemsAre
<1>3. Len(file) \in Nat  BY FileIs
<1>4. k \in 1..Len(file) /\ n + 1 \in 1..Len(file) /\ k < n + 1  BY <1>3
<1>5. m.n < x.n  BY <1>2, <1>4, FileInOrder
<1> QED BY <1>1, <1>2, <1>4, <1>5, FileInOrder

(* A record absorbed: what it adds to what the delta has sent.             *)
LEMMA SentAbsorbs ==
    ASSUME WriterInv, NEW d, IsDelta(d), d.at < Len(file), d.trig = Triggers(Good(d.at)),
           NEW sent \in Seq(Item), SentExactly(sent \o d.sent, d),
           NEW e, Absorbs(d, Sound(file[d.at + 1]), e)
    PROVE  LET all == sent \o e.sent
           IN  /\ all \in Seq(Item) /\ InOrder(all)
               /\ Range(all) = {m \in GoodMessages(d.at + 1) : m.ch \in e.trig}
<1>1. PICK n : n = d.at  OBVIOUS
<1>2. PICK X : X = Sound(file[n + 1])  OBVIOUS
<1>3. n \in Nat /\ n < Len(file) /\ d.sent \in Seq(Item)  BY <1>1 DEF IsDelta
<1>4. /\ e.sent \in Seq(Item) /\ InOrder(e.sent) /\ e.trig = d.trig \cup Triggers(X)
      /\ Range(e.sent) = Range(d.sent) \cup {m \in Messages(X) : m.ch \in e.trig}
  BY <1>1, <1>2 DEF Absorbs, IsDelta
<1>5. /\ InOrder(sent) /\ \A x \in Range(sent), y \in Range(d.sent) : x.n < y.n
  BY <1>3, InOrderParts DEF SentExactly
<1>6. Range(sent) \cup Range(d.sent) = {m \in GoodMessages(n) : m.ch \in d.trig}
  <2>1. Range(sent \o d.sent) = Range(sent) \cup Range(d.sent)  BY <1>3, RangeConcat
  <2> QED BY <1>1, <2>1 DEF SentExactly
<1>7. GoodMessages(n + 1) = GoodMessages(n) \cup Messages(X)
  <2>1. n + 1 \in Nat  BY <1>3
  <2> QED BY <1>2, <1>3, <2>1, GoodIs DEF Messages
<1>8. \A m \in GoodMessages(n), x \in X : m.n < x.n /\ IsMessage(x)
  BY <1>2, <1>3, ReadBefore DEF Sound
<1>9. GoodMessages(n) = {} \/ Triggers(X) = {}
  <2>1. \A x \in X : IsMessage(x) => x.kind # "channel"  BY DEF IsMessage
  <2> QED BY <1>8, <2>1 DEF Triggers
<1>10. Range(sent) \cup Range(e.sent) = {m \in GoodMessages(n + 1) : m.ch \in e.trig}
  BY <1>4, <1>6, <1>7, <1>9
<1>11. Range(sent \o e.sent) = Range(sent) \cup Range(e.sent)  BY <1>4, RangeConcat
<1>12. \A x \in Range(sent), y \in Range(e.sent) : x.n < y.n
  <2>1. \A y \in Messages(X) : y \in X  BY DEF Messages
  <2> QED BY <1>4, <1>5, <1>6, <1>8, <2>1
<1>13. \A i \in 1..Len(sent), j \in 1..Len(e.sent) : sent[i].n < e.sent[j].n
  <2>1. \A i \in 1..Len(sent) : sent[i] \in Range(sent)  BY RangeIs
  <2>2. \A i \in 1..Len(e.sent) : e.sent[i] \in Range(e.sent)  BY <1>4, RangeIs
  <2> QED BY <1>12, <2>1, <2>2
<1>14. InOrder(sent \o e.sent)  BY <1>4, <1>5, <1>13, ConcatInOrder
<1>15. sent \o e.sent \in Seq(Item)  BY <1>4, ConcatIs
<1> QED BY <1>1, <1>10, <1>11, <1>14, <1>15

(* One record consumed: it is accounted for.                               *)
LEMMA ConsumeKeeps ==
    ASSUME WriterInv, offset \in Nat, index.closed \in Seq(Extent),
           NEW d, Accounts(d), d.pending = << >>, d.at < Readable,
           NEW sent \in Seq(Item), SentExactly(sent \o d.sent, d),
           NEW f, f = Consume(d, file[d.at + 1])
    PROVE  /\ Accounts(f) /\ f.pending = << >> /\ f.at = d.at + 1
           /\ SentExactly(sent \o f.sent, f)
<1>1. PICK n : n = d.at  OBVIOUS
<1>2. PICK r : r = file[n + 1]  OBVIOUS
<1>3. PICK X : X = Sound(r)  OBVIOUS
<1>4. PICK e : e = Absorb(d, r)  OBVIOUS
<1>5. /\ IsDelta(d) /\ n \in offset..Readable /\ d.trig = Triggers(Good(n))
      /\ Tiled((index.closed \o d.closed) \o d.open, n)
      /\ Schemas(n) = index.schemas \cup d.schemas
      /\ DefinesAll(d.channels, Items(offset+1..n))
  BY <1>1 DEF Accounts
<1>6. /\ n \in Nat /\ Readable \in Nat /\ Len(file) \in Nat /\ Readable <= Len(file)
      /\ n < Readable /\ n < Len(file) /\ n + 1 \in 1..Len(file) /\ n + 1 \in 1..Readable
      /\ n + 1 \in offset..Readable
  <2>1. Readable \in 0..Len(file) /\ Len(file) \in Nat  BY FileIs
  <2> QED BY <1>1, <1>5, <2>1
<1>7. r \in Record /\ Formed(r) /\ r.kind # "footer" /\ Sorted(r.inner)
  BY <1>2, <1>6, FileIs
<1>8. d.sent \in Seq(Item)  BY <1>5 DEF IsDelta
<1>9. InOrder(d.sent)  BY <1>8, InOrderParts DEF SentExactly
<1>10. Range(d.sent) \subseteq GoodMessages(n)
  <2>1. Range(sent \o d.sent) = Range(sent) \cup Range(d.sent)  BY <1>8, RangeConcat
  <2> QED BY <1>1, <2>1 DEF SentExactly
<1>11. \A m \in Range(d.sent), x \in Range(r.inner) : m.n < x.n
  BY <1>2, <1>6, <1>10, ReadBefore
<1>12. Absorbs(d, X, e)  BY <1>3, <1>4, <1>5, <1>7, <1>9, <1>11, RecordAbsorbs
<1>13. X = Items({n + 1}) /\ Items(1..n + 1) = Items(1..n) \cup X
  BY <1>2, <1>3, <1>6, ItemsAre, GoodIs
<1>14. /\ IsDelta(e) /\ e.at = n /\ e.closed = d.closed /\ e.open = d.open
       /\ e.schemas = d.schemas \cup {x.id : x \in {y \in X : y.kind = "schema"}}
       /\ e.trig = d.trig \cup Triggers(X)
  BY <1>1, <1>12 DEF Absorbs
<1>15. IsSpan(e.pending, Messages(Items({n + 1})))
  <2>1. IsSpan(d.pending, {})  BY NoSpan
  <2>2. {} \in SUBSET Stamped  OBVIOUS
  <2>3. IsSpan(e.pending, {} \cup Messages(X))  BY <1>12, <2>1, <2>2 DEF Absorbs
  <2> QED BY <1>13, <2>3
<1>16. f = ExtendExtent(e)  BY <1>1, <1>2, <1>4 DEF Consume
<1>17. /\ IsDelta(f) /\ Tiled((index.closed \o f.closed) \o f.open, f.at)
       /\ f.at = n + 1 /\ f.pending = << >> /\ f.schemas = e.schemas
       /\ f.channels = e.channels /\ f.trig = e.trig /\ f.sent = e.sent
  BY <1>5, <1>6, <1>14, <1>15, <1>16, ExtendsExtents
<1>18. Schemas(n + 1) = index.schemas \cup f.schemas
  <2>1. n + 1 \in Nat  BY <1>6
  <2>2. Schemas(n) = {x.id : x \in {y \in Items(1..n) : y.kind = "schema"}}  BY <1>6, GoodIs
  <2>3. Schemas(n + 1) = {x.id : x \in {y \in Items(1..n + 1) : y.kind = "schema"}}  BY <2>1, GoodIs
  <2>4. Schemas(n + 1) = Schemas(n) \cup {x.id : x \in {y \in X : y.kind = "schema"}}
    BY <1>13, <2>2, <2>3
  <2> QED BY <1>5, <1>14, <1>17, <2>4
<1>19. DefinesAll(f.channels, Items(offset+1..n + 1))
  <2>1. PICK Y : Y = Items(offset+1..n)  OBVIOUS
  <2>2. Items(offset+1..n + 1) = Y \cup X
    <3>1. offset+1..n + 1 = (offset+1..n) \cup {n + 1}
      <4>1. offset \in Nat /\ n \in Nat /\ offset <= n  BY <1>5, <1>6
      <4> QED BY <4>1
    <3>2. PICK S, T : S = offset+1..n /\ T = {n + 1}  OBVIOUS
    <3>3. Items(S \cup T) = Items(S) \cup Items(T)  BY ItemsAre
    <3> QED BY <1>13, <2>1, <3>1, <3>2, <3>3
  <2>3. DefinesAll(d.channels, Y)  BY <1>5, <2>1
  <2>4. DefinesAll(e.channels, Y \cup X)
    <3>1. DOMAIN e.channels = DOMAIN d.channels \cup {x.id : x \in {y \in X : y.kind = "channel"}}
      BY <1>12 DEF Absorbs
    <3>2. DOMAIN e.channels = {x.id : x \in {y \in Y \cup X : y.kind = "channel"}}
      BY <2>3, <3>1 DEF DefinesAll
    <3>3. ASSUME NEW id \in DOMAIN e.channels
          PROVE  /\ e.channels[id] \in Y \cup X /\ e.channels[id].kind = "channel"
                 /\ e.channels[id].id = id
      <4>1. CASE id \in DOMAIN d.channels /\ e.channels[id] = d.channels[id]
        BY <2>3, <4>1 DEF DefinesAll
      <4>2. CASE e.channels[id] \in X /\ e.channels[id].kind = "channel" /\ e.channels[id].id = id
        BY <4>2
      <4> QED BY <1>12, <4>1, <4>2 DEF Absorbs
    <3> QED BY <3>2, <3>3 DEF DefinesAll
  <2> QED BY <1>17, <2>2, <2>4
<1>20. f.trig = Triggers(Good(n + 1))
  <2>1. n + 1 \in Nat  BY <1>6
  <2>2. Good(n) = Items(1..n) /\ Good(n + 1) = Items(1..n + 1)  BY <1>6, <2>1, GoodIs
  <2>3. Triggers(Items(1..n) \cup X) = Triggers(Items(1..n)) \cup Triggers(X)  BY DEF Triggers
  <2> QED BY <1>5, <1>13, <1>14, <1>17, <2>2, <2>3
<1>21. Accounts(f)  BY <1>6, <1>17, <1>18, <1>19, <1>20 DEF Accounts
<1>22. SentExactly(sent \o f.sent, f)
  <2>1. /\ sent \o e.sent \in Seq(Item) /\ InOrder(sent \o e.sent)
        /\ Range(sent \o e.sent) = {m \in GoodMessages(n + 1) : m.ch \in e.trig}
    BY <1>1, <1>2, <1>3, <1>5, <1>6, <1>12, SentAbsorbs
  <2> QED BY <1>17, <2>1 DEF SentExactly
<1> QED BY <1>1, <1>17, <1>21, <1>22

-----------------------------------------------------------------------------
(* The file only grows, and what was true of its beginning stays true.     *)

Grows ==
    /\ Len(file) \in Nat /\ Len(file)' \in Nat /\ Len(file) <= Len(file)'
    /\ \A k \in 1..Len(file) : file'[k] = file[k]

LEMMA ItemsStay ==
    ASSUME Grows
    PROVE  \A S \in SUBSET (1..Len(file)) : Items(S)' = Items(S)
<1>1. ASSUME NEW S \in SUBSET (1..Len(file))
      PROVE  Items(S)' = Items(S)
  <2>1. \A k \in S : file'[k] = file[k]  BY DEF Grows
  <2>2. {j \in S : file'[j].ok} = {j \in S : file[j].ok}  BY <2>1
  <2>3. {Range(file'[k].inner) : k \in {j \in S : file'[j].ok}}
          = {Range(file[k].inner) : k \in {j \in S : file[j].ok}}
    BY <2>1, <2>2
  <2> QED BY <2>3 DEF Items
<1> QED BY <1>1

LEMMA GoodStays ==
    ASSUME Grows
    PROVE  \A n \in 0..Len(file) :
             /\ Good(n)' = Good(n) /\ GoodMessages(n)' = GoodMessages(n)
             /\ Schemas(n)' = Schemas(n) /\ Channels(n)' = Channels(n)
             /\ \A ch : Declared(n, ch)' = Declared(n, ch)
<1>1. ASSUME NEW n \in 0..Len(file)
      PROVE  /\ Good(n)' = Good(n) /\ GoodMessages(n)' = GoodMessages(n)
             /\ Schemas(n)' = Schemas(n) /\ Channels(n)' = Channels(n)
             /\ \A ch : Declared(n, ch)' = Declared(n, ch)
  <2>1. PICK S : S = 1..n  OBVIOUS
  <2>2. S \in SUBSET (1..Len(file))  BY <2>1 DEF Grows
  <2>3. Items(S)' = Items(S)  BY <2>2, ItemsStay
  <2>4. Good(n) = Items(S) /\ Good(n)' = Items(S)'  BY <2>1 DEF Good, Items
  <2>5. Good(n)' = Good(n)  BY <2>3, <2>4
  <2>6. /\ GoodMessages(n)' = GoodMessages(n)
        /\ Schemas(n)' = Schemas(n) /\ Channels(n)' = Channels(n)
    BY <2>5 DEF GoodMessages, Schemas, Channels
  <2>7. \A ch : Declared(n, ch)' = Declared(n, ch)
    BY <2>6 DEF Declared
  <2> QED BY <2>5, <2>6, <2>7
<1> QED BY <1>1

LEMMA TiledStays ==
    ASSUME Grows, NEW P, NEW n \in Nat, n <= Len(file), Tiled(P, n)
    PROVE  Tiled(P, n)'
<1>1. PICK m : m = Len(P)  OBVIOUS
<1>2. /\ DOMAIN P = 1..m
      /\ \A k \in 1..m : /\ P[k].offset \in Nat /\ P[k].len \in Nat
                         /\ P[k].offset + P[k].len <= n
      /\ \A k \in 1..m : IsSpan(P[k].time, Messages(Items(Reach(P[k]))))
  BY <1>1, TiledIs
<1>3. ASSUME NEW k \in DOMAIN P
      PROVE  IsSpan(P[k].time, Messages(Items(Reach(P[k]))))'
  <2>1. PICK S : S = Reach(P[k])  OBVIOUS
  <2>2. S \in SUBSET (1..Len(file))
    <3>1. P[k].offset \in Nat /\ P[k].len \in Nat /\ P[k].offset + P[k].len <= n  BY <1>2
    <3>2. Len(file) \in Nat  BY DEF Grows
    <3> QED BY <2>1, <3>1, <3>2 DEF Reach
  <2>3. Items(S)' = Items(S)  BY <2>2, ItemsStay
  <2>4. Messages(Items(S))' = Messages(Items(S))  BY <2>3 DEF Messages
  <2>5. IsSpan(P[k].time, Messages(Items(S)))  BY <1>2, <2>1
  <2>6. IsSpan(P[k].time, Messages(Items(S)))'  BY <2>4, <2>5 DEF IsSpan
  <2> QED BY <2>1, <2>6
<1>4. /\ P \in Seq(Extent)
      /\ \A k \in DOMAIN P : P[k].offset + P[k].len <= n
      /\ \A k, l \in DOMAIN P : k < l => P[k].offset + P[k].len <= P[l].offset
      /\ \A i \in 1..n : \E k \in DOMAIN P : i \in Reach(P[k])
  BY DEF Tiled
<1> QED BY <1>3, <1>4 DEF Tiled

LEMMA AccountsStay ==
    ASSUME Grows, Readable \in 0..Len(file), Readable' \in Nat, Readable <= Readable',
           UNCHANGED <<offset, index>>, offset \in Nat
    PROVE  /\ \A d : Accounts(d) => Accounts(d)'
           /\ \A s, d : d.at \in 0..Len(file) => SentExactly(s, d)' = SentExactly(s, d)
           /\ \A f, n : n \in 0..Len(file) => RegistryInv(f, n)' = RegistryInv(f, n)
<1>0. Len(file) \in Nat  BY DEF Grows
<1>1. ASSUME NEW d, Accounts(d)  PROVE Accounts(d)'
  <2>1. PICK n : n = d.at  OBVIOUS
  <2>2. /\ IsDelta(d) /\ n \in offset..Readable
        /\ Tiled((index.closed \o d.closed) \o d.open, n)
        /\ Schemas(n) = index.schemas \cup d.schemas
        /\ DefinesAll(d.channels, Items(offset+1..n))
        /\ d.trig = Triggers(Good(n))
    BY <1>1, <2>1 DEF Accounts
  <2>3. n \in Nat /\ n <= Len(file) /\ n \in 0..Len(file)  BY <1>0, <2>2
  <2>4. Schemas(n)' = Schemas(n) /\ Good(n)' = Good(n)  BY <2>3, GoodStays
  <2>5. PICK E : E = (index.closed \o d.closed) \o d.open  OBVIOUS
  <2>6. Tiled(E, n)'  BY <2>2, <2>3, <2>5, TiledStays
  <2>7. PICK S : S = offset+1..n  OBVIOUS
  <2>8. S \in SUBSET (1..Len(file))  BY <1>0, <2>3, <2>7
  <2>9. Items(S)' = Items(S)  BY <2>8, ItemsStay
  <2>10. DefinesAll(d.channels, Items(S))'  BY <2>2, <2>7, <2>9
  <2>11. n \in offset..Readable'  BY <2>2
  <2>12. d.trig = Triggers(Good(n))'  BY <2>2, <2>4 DEF Triggers
  <2> QED BY <2>1, <2>2, <2>4, <2>5, <2>6, <2>7, <2>10, <2>11, <2>12 DEF Accounts
<1>2. ASSUME NEW s, NEW d, d.at \in 0..Len(file)
      PROVE  SentExactly(s, d)' = SentExactly(s, d)
  <2>1. PICK n : n = d.at  OBVIOUS
  <2>2. GoodMessages(n)' = GoodMessages(n)  BY <1>2, <2>1, GoodStays
  <2> QED BY <2>1, <2>2 DEF SentExactly
<1>3. ASSUME NEW f, NEW n, n \in 0..Len(file)
      PROVE  RegistryInv(f, n)' = RegistryInv(f, n)
  <2>1. Channels(n)' = Channels(n) /\ \A ch : Declared(n, ch)' = Declared(n, ch)
    BY <1>3, GoodStays
  <2> QED BY <2>1 DEF RegistryInv
<1> QED BY <1>1, <1>2, <1>3

LEMMA ReadableIs ==
    ASSUME NEW n \in Nat, n = Len(file)
    PROVE  /\ Readable \in 0..n /\ n - 1 <= Readable
           /\ n = 0 \/ Last(file) # Footer => Readable = n
<1>1. CASE n > 0 /\ Last(file) = Footer  BY <1>1 DEF Readable
<1>2. CASE ~(n > 0 /\ Last(file) = Footer)  BY <1>2 DEF Readable
<1> QED BY <1>1, <1>2

Stays ==
    /\ Grows /\ Readable \in 0..Len(file) /\ Readable' \in Nat /\ Readable <= Readable'
    /\ style' = style

LEMMA WritersStay == ASSUME WriterInv, WritersNext PROVE Stays
<1>1. file \in Seq(Record) /\ sink \in Seq(Record)  BY DEF WriterInv, WriterType
<1>2. PICK n : n = Len(file)  OBVIOUS
<1>3. n \in Nat  BY <1>1, <1>2
<1>4. Readable \in 0..n  BY <1>2, <1>3, ReadableIs
<1>5. CASE Drain
  <2>1. PICK r : file' = Append(file, r) /\ sink # << >> /\ style' = style
    BY <1>5 DEF Drain
  <2>2. /\ Len(file)' = n + 1
        /\ \A k \in 1..n : file'[k] = file[k]
    <3>1. file' = Append(file, r)  BY <2>1
    <3> QED BY <1>1, <1>2, <3>1
  <2>3. Readable = n
    <3>1. CASE n > 0
      <4>1. n \in DOMAIN file /\ Last(file) = file[n]  BY <1>1, <1>2, <3>1 DEF Last
      <4>2. file[n].kind # "footer"  BY <2>1, <4>1 DEF WriterInv, RecordsFormed
      <4>3. Footer.kind = "footer"  BY DEF Footer
      <4>4. Last(file) # Footer  BY <4>1, <4>2, <4>3
      <4> QED BY <1>2, <1>3, <4>4, ReadableIs
    <3>2. CASE n = 0  BY <1>2, <1>3, <3>2, ReadableIs
    <3> QED BY <1>3, <3>1, <3>2
  <2>4. Readable' \in {n, n + 1}
    <3>1. PICK q : q = Last(file)'  OBVIOUS
    <3>2. Readable' = IF Len(file)' > 0 /\ q = Footer THEN Len(file)' - 1 ELSE Len(file)'
      BY <3>1 DEF Readable, Footer
    <3> QED BY <1>3, <2>2, <3>2
  <2> QED BY <1>2, <1>3, <2>1, <2>2, <2>3, <2>4 DEF Grows, Stays
<1>6. CASE ~Drain
  <2>1. file' = file /\ style' = style
    BY <1>6 DEF WritersNext, WriterStep, Tick, Die, Register, Sample, WriteData, WriteTrigger,
                NoTrigger, Flushed, Finish, Closed, writerVars
  <2>2. Readable' = Readable  BY <2>1 DEF Readable
  <2>3. Grows  BY <1>2, <1>3, <2>1 DEF Grows
  <2> QED BY <1>2, <1>4, <2>1, <2>2, <2>3 DEF Stays
<1> QED BY <1>5, <1>6

LEMMA NothingStays == ASSUME WriterInv, UNCHANGED <<file, style>> PROVE Stays
<1>1. Len(file) \in Nat  BY DEF WriterInv, WriterType
<1>2. PICK n : n = Len(file)  OBVIOUS
<1>3. Readable \in 0..n  BY <1>1, <1>2, ReadableIs
<1>4. Readable' = Readable  BY DEF Readable
<1>5. Grows  BY <1>1 DEF Grows
<1>6. Readable \in Nat /\ Readable <= Readable  BY <1>1, <1>2, <1>3
<1> QED BY <1>2, <1>3, <1>4, <1>5, <1>6 DEF Stays

(* While the tail stands, what it knows stays true.                        *)
LEMMA ScanStands ==
    ASSUME Stays, UNCHANGED tailVars, ScanInv
    PROVE  ScanInv'
<1>1. /\ Grows /\ Readable \in 0..Len(file) /\ Readable' \in Nat /\ Readable <= Readable'
      /\ style' = style
  BY DEF Stays
<1>2. UNCHANGED <<offset, index, coverage, pass, faults, lifted>>  BY DEF tailVars
<1>3. offset \in Nat /\ offset \in 0..Len(file) /\ offset <= Readable  BY DEF ScanInv
<1>4. /\ \A d : Accounts(d) => Accounts(d)'
      /\ \A s, d : d.at \in 0..Len(file) => SentExactly(s, d)' = SentExactly(s, d)
      /\ \A f, n : n \in 0..Len(file) => RegistryInv(f, n)' = RegistryInv(f, n)
  BY <1>1, <1>2, <1>3, AccountsStay
<1>5. PICK s : s = Seed /\ Seed' = s  BY <1>2 DEF Seed
<1>6. s.at = offset  BY <1>5 DEF Seed, NewDelta
<1>7. Accounts(Seed)'  BY <1>4, <1>5 DEF ScanInv
<1>8. RegistryInv(index.channels, offset)'  BY <1>2, <1>3, <1>4 DEF ScanInv
<1>9. IF pass = << >> THEN SentExactly(lifted, Seed)'
      ELSE pass = <<pass[1]>> /\ Accounts(pass[1])' /\ SentExactly(lifted, pass[1])'
  <2>1. CASE pass = << >>
    <3>1. SentExactly(lifted, s)  BY <1>5, <2>1 DEF ScanInv
    <3>2. SentExactly(lifted, s)'  BY <1>2, <1>3, <1>4, <1>6, <3>1
    <3> QED BY <1>5, <2>1, <3>2
  <2>2. CASE pass # << >>
    <3>1. PICK d : d = pass[1] /\ pass = <<d>>  BY <2>2 DEF ScanInv
    <3>2. Accounts(d) /\ SentExactly(lifted, d)  BY <2>2, <3>1 DEF ScanInv
    <3>3. d.at \in offset..Readable  BY <3>2 DEF Accounts
    <3>4. d.at \in 0..Len(file)
      <4>1. Len(file) \in Nat  BY <1>1 DEF Grows
      <4> QED BY <1>1, <1>3, <3>3, <4>1
    <3>5. Accounts(d)' /\ SentExactly(lifted, d)'  BY <1>2, <1>4, <3>2, <3>4
    <3> QED BY <1>2, <2>2, <3>1, <3>5
  <2> QED BY <2>1, <2>2
<1>10. /\ (offset \in 0..Len(file))' /\ (offset <= Readable)'
       /\ (faults \in 0..MaxFaults[style])' /\ (index.closed \in Seq(Extent))'
  <2>1. Len(file) \in Nat /\ Len(file)' \in Nat /\ Len(file) <= Len(file)'  BY <1>1 DEF Grows
  <2>2. faults \in 0..MaxFaults[style] /\ index.closed \in Seq(Extent)  BY DEF ScanInv
  <2> QED BY <1>1, <1>2, <1>3, <2>1, <2>2
<1> QED BY <1>2, <1>7, <1>8, <1>9, <1>10 DEF ScanInv

-----------------------------------------------------------------------------
(* Passes.                                                                 *)

LEMMA ReadableInNat == ASSUME WriterInv PROVE Readable \in Nat
<1>1. Readable \in 0..Len(file) /\ Len(file) \in Nat  BY FileIs
<1> QED BY <1>1

(* d is what a pass has that has read so far.                              *)
Reading(d, to) ==
    /\ Accounts(d) /\ d.pending = << >> /\ d.at = to
    /\ SentExactly(lifted \o d.sent, d)

LEMMA CollectedIs ==
    ASSUME WriterInv, ScanInv, pass = << >>, NEW to \in offset..Readable
    PROVE  Reading(Collected(to), to)
<1>1. PICK N : N = to - offset  OBVIOUS
<1>2. PICK F : F = Collecting(N)  OBVIOUS
<1>3. offset \in Nat /\ to \in Nat /\ offset <= to /\ to <= Readable /\ N \in Nat /\ offset + N = to
  <2>1. offset \in Nat  BY DEF ScanInv
  <2> QED BY <1>1, <2>1
<1>4. /\ F[0] = Seed
      /\ \A j \in 0..N : j < N => F[j + 1] = Consume(F[j], file[offset + (j + 1)])
  BY <1>2, <1>3, CollectingIs
<1>5. index.closed \in Seq(Extent) /\ Accounts(Seed) /\ SentExactly(lifted, Seed)  BY DEF ScanInv
<1>6. lifted \in Seq(Item)  BY <1>5 DEF SentExactly
<1> DEFINE K == {j \in 0..N : Reading(F[j], offset + j)}
<1>7. 0 \in K
  <2>1. /\ Seed.pending = << >> /\ Seed.at = offset /\ Seed.sent = << >>
    BY DEF Seed, NewDelta
  <2>2. lifted \o << >> = lifted  BY <1>6, EmptyConcat
  <2>3. lifted \o Seed.sent = lifted  BY <2>1, <2>2
  <2>4. Seed.at = offset + 0  BY <1>3, <2>1
  <2>5. Reading(Seed, offset + 0)  BY <1>5, <2>1, <2>3, <2>4 DEF Reading
  <2>6. 0 \in 0..N  BY <1>3
  <2> QED BY <1>4, <2>5, <2>6
<1>8. ASSUME NEW j \in 0..N, j < N, j \in K  PROVE j + 1 \in K
  <2>1. PICK d : d = F[j]  OBVIOUS
  <2>2. PICK f : f = F[j + 1]  OBVIOUS
  <2>3. /\ Accounts(d) /\ d.pending = << >> /\ d.at = offset + j
        /\ SentExactly(lifted \o d.sent, d)
    <3>1. Reading(F[j], offset + j)  BY <1>8
    <3> QED BY <2>1, <3>1 DEF Reading
  <2>4. d.at < Readable
    <3>1. Readable \in Nat  BY ReadableInNat
    <3> QED BY <1>3, <1>8, <2>3, <3>1
  <2>5. f = Consume(d, file[d.at + 1])
    <3>1. offset + (j + 1) = d.at + 1  BY <1>3, <2>3
    <3> QED BY <1>4, <1>8, <2>1, <2>2, <3>1
  <2>6. /\ Accounts(f) /\ f.pending = << >> /\ f.at = d.at + 1
        /\ SentExactly(lifted \o f.sent, f)
    BY <1>3, <1>5, <1>6, <2>3, <2>4, <2>5, ConsumeKeeps
  <2>7. f.at = offset + (j + 1) /\ j + 1 \in 0..N  BY <1>3, <1>8, <2>3, <2>6
  <2>8. Reading(f, offset + (j + 1))  BY <2>6, <2>7 DEF Reading
  <2> QED BY <2>2, <2>7, <2>8
<1> HIDE DEF K
<1>9. \A j \in 0..N : j \in K  BY <1>3, <1>7, <1>8, AllUpTo
<1>10. N \in K  BY <1>3, <1>9
<1>11. Collected(to) = F[N]  BY <1>1, <1>2 DEF Collected
<1> QED BY <1>3, <1>10, <1>11 DEF K

(* A pass that read up to a record, and the time of a trigger behind it.   *)
LEMMA TimeKeeps ==
    ASSUME NEW d, Accounts(d), d.pending = << >>, NEW m \in Stamped, NEW sent, SentExactly(sent, d)
    PROVE  LET f == AbsorbTime(d, m)
           IN  Accounts(f) /\ SentExactly(sent, f)
<1>1. PICK v : v = Merge(d.pending, <<Point(m)>>)  OBVIOUS
<1>2. PICK f : f = [d EXCEPT !.pending = v]  OBVIOUS
<1>3. f = AbsorbTime(d, m)  BY <1>1, <1>2 DEF AbsorbTime
<1>4. v = <<Point(m)>> /\ v \in Seq(Stamps) /\ Len(v) <= 1
  <2>1. v = <<Point(m)>>  BY <1>1 DEF Merge
  <2>2. IsSpan(<<Point(m)>>, {m})  BY PointIsSpan
  <2> QED BY <2>1, <2>2, SpanIs
<1>5. DeltaShape(d)  BY DEF Accounts, IsDelta
<1>6. /\ DeltaShape(f)
      /\ f.at = d.at /\ f.closed = d.closed /\ f.open = d.open /\ f.pending = v
      /\ f.schemas = d.schemas /\ f.channels = d.channels /\ f.trig = d.trig /\ f.sent = d.sent
  BY <1>2, <1>5, WithPending
<1>7. IsDelta(f)
  <2>1. /\ d.at \in Nat /\ d.closed \in Seq(Extent)
        /\ d.open \in Seq(Extent) /\ Len(d.open) <= 1
        /\ d.schemas \subseteq Nat /\ Map(d.channels, 1..3, Item) /\ d.trig \subseteq 1..3
        /\ d.sent \in Seq(Item)
    BY DEF Accounts, IsDelta
  <2> QED BY <1>4, <1>6, <2>1 DEF IsDelta
<1>8. Accounts(f)  BY <1>6, <1>7 DEF Accounts
<1>9. SentExactly(sent, f)  BY <1>6 DEF SentExactly
<1> QED BY <1>3, <1>8, <1>9

(* A pass that keeps the account and has sent what it should.              *)
LEMMA PassKeeps ==
    ASSUME WriterInv, ScanInv, UNCHANGED <<writerVars, offset, index, coverage>>,
           NEW d, pass' = <<d>>, Accounts(d), SentExactly(lifted', d),
           faults' \in 0..MaxFaults[style]
    PROVE  ScanInv'
<1>0. UNCHANGED <<file, style>>  BY DEF writerVars
<1>1. Len(file) \in Nat /\ Readable \in 0..Len(file)  BY FileIs
<1>2. Grows  BY <1>0, <1>1 DEF Grows
<1>3. Readable' = Readable  BY <1>0 DEF Readable
<1>4. offset \in Nat /\ offset \in 0..Len(file) /\ offset <= Readable  BY DEF ScanInv
<1>5. /\ \A x : Accounts(x) => Accounts(x)'
      /\ \A s, x : x.at \in 0..Len(file) => SentExactly(s, x)' = SentExactly(s, x)
      /\ \A f, n : n \in 0..Len(file) => RegistryInv(f, n)' = RegistryInv(f, n)
  BY <1>1, <1>2, <1>3, <1>4, AccountsStay
<1>6. PICK s : s = Seed /\ Seed' = s  BY DEF Seed
<1>7. Accounts(Seed)'  BY <1>5, <1>6 DEF ScanInv
<1>8. RegistryInv(index.channels, offset)'  BY <1>4, <1>5 DEF ScanInv
<1>9. d.at \in 0..Len(file)
  <2>1. d.at \in offset..Readable  BY DEF Accounts
  <2> QED BY <1>1, <1>4, <2>1
<1>10. PICK l : l = lifted'  OBVIOUS
<1>11. Accounts(d)' /\ SentExactly(l, d)'  BY <1>5, <1>9, <1>10
<1>12. pass' # << >> /\ pass'[1] = d /\ pass' = <<d>>  OBVIOUS
<1>13. Accounts(pass[1])' /\ SentExactly(lifted, pass[1])'
  BY <1>10, <1>11, <1>12
<1>14. /\ (offset \in 0..Len(file))' /\ (offset <= Readable)'
       /\ (faults \in 0..MaxFaults[style])' /\ (index.closed \in Seq(Extent))'
  <2>1. index.closed \in Seq(Extent)  BY DEF ScanInv
  <2> QED BY <1>0, <1>3, <1>4, <2>1
<1> QED BY <1>7, <1>8, <1>12, <1>13, <1>14 DEF ScanInv

LEMMA ScanKeeps == ASSUME WriterInv, ScanInv, Scan PROVE ScanInv'
<1>1. pass = << >> /\ UNCHANGED <<writerVars, offset, index, coverage>> /\ faults' = faults
      /\ offset < Readable
  BY DEF Scan
<1>2. PICK d : /\ d = Collected(Readable) /\ pass' = <<d>> /\ lifted' = lifted \o d.sent
  BY DEF Scan
<1>3. Readable \in offset..Readable
  <2>1. Readable \in Nat  BY ReadableInNat
  <2>2. offset \in Nat  BY DEF ScanInv
  <2> QED BY <1>1, <2>1, <2>2
<1>4. Accounts(d) /\ SentExactly(lifted \o d.sent, d)
  <2>1. PICK to : to = Readable  OBVIOUS
  <2>2. to \in offset..Readable /\ d = Collected(to)  BY <1>2, <1>3, <2>1
  <2> QED BY <1>1, <2>2, CollectedIs DEF Reading
<1>5. SentExactly(lifted', d)  BY <1>2, <1>4
<1>6. faults' \in 0..MaxFaults[style]  BY <1>1 DEF ScanInv
<1> QED BY <1>1, <1>2, <1>4, <1>5, <1>6, PassKeeps

LEMMA ScanFaultsKeeps == ASSUME WriterInv, ScanInv, ScanFaults PROVE ScanInv'
<1>1. /\ pass = << >> /\ UNCHANGED <<writerVars, offset, index, coverage>>
      /\ faults' = faults + 1 /\ faults < MaxFaults[style]
  BY DEF ScanFaults
<1>2. PICK to, d, r :
        /\ to \in offset..Readable-1
        /\ d = Collected(to) /\ r = file[to + 1]
        /\ \/ pass' = <<d>>
           \/ /\ r.kind = "single" /\ r.ok /\ IsMessage(r.inner[1])
              /\ pass' = <<AbsorbTime(d, r.inner[1])>>
        /\ lifted' = lifted \o d.sent
  BY DEF ScanFaults
<1>3. d = Collected(to)  BY <1>2
<1>4. r = file[to + 1]  BY <1>2
<1>5. /\ to \in offset..Readable /\ to + 1 \in 1..Len(file) /\ faults' \in 0..MaxFaults[style]
  <2>1. Readable \in 0..Len(file) /\ Len(file) \in Nat  BY FileIs
  <2>2. offset \in Nat /\ faults \in 0..MaxFaults[style]  BY DEF ScanInv
  <2>3. style \in Styles /\ MaxFaults[style] \in Nat
    BY ExtractAssumption DEF WriterInv, WriterType
  <2>4. to \in offset..Readable /\ to + 1 \in 1..Len(file)
    <3>1. to \in offset..Readable-1  BY <1>2
    <3> QED BY <2>1, <2>2, <3>1
  <2>5. faults + 1 \in 0..MaxFaults[style]  BY <1>1, <2>2, <2>3
  <2> QED BY <1>1, <2>4, <2>5
<1>6. Accounts(d) /\ d.pending = << >> /\ SentExactly(lifted \o d.sent, d)
  BY <1>1, <1>3, <1>5, CollectedIs DEF Reading
<1>7. SentExactly(lifted', d)  BY <1>2, <1>3, <1>6
<1>8. CASE pass' = <<d>>
  BY <1>1, <1>5, <1>6, <1>7, <1>8, PassKeeps
<1>9. CASE /\ r.kind = "single" /\ r.ok /\ IsMessage(r.inner[1])
           /\ pass' = <<AbsorbTime(d, r.inner[1])>>
  <2>1. PICK m : m = r.inner[1]  OBVIOUS
  <2>2. m \in Stamped
    <3>1. r \in Record /\ Formed(r)  BY <1>4, <1>5, FileIs
    <3>2. r.inner \in Seq(Item) /\ Len(r.inner) = 1  BY <1>9, <3>1 DEF Record, Formed
    <3>3. m \in Item  BY <2>1, <3>2
    <3> QED BY <1>9, <2>1, <3>3, ItemKinds
  <2>3. PICK f : f = AbsorbTime(d, m)  OBVIOUS
  <2>4. Accounts(f) /\ SentExactly(lifted', f)  BY <1>6, <1>7, <2>2, <2>3, TimeKeeps
  <2>5. pass' = <<f>>  BY <1>9, <2>1, <2>3
  <2> QED BY <1>1, <1>5, <2>4, <2>5, PassKeeps
<1> QED BY <1>2, <1>3, <1>4, <1>8, <1>9

-----------------------------------------------------------------------------
(* The marks.                                                              *)

LEMMA FileLength ==
    ASSUME WriterInv
    PROVE  Len(file) \in Nat /\ \A n \in 0..Len(file) : n \in Nat /\ n <= Len(file)
<1>1. Len(file) \in Nat  BY FileIs
<1>2. PICK q : q = Len(file)  OBVIOUS
<1>3. \A n \in 0..q : n \in Nat /\ n <= q  BY <1>1, <1>2
<1> QED BY <1>1, <1>2, <1>3

LEMMA FileWritten ==
    ASSUME WriterInv, NEW k \in 1..Len(file), NEW x \in Range(file[k].inner)
    PROVE  x \in Range(written) /\ x.n \in DOMAIN written /\ x = written[x.n]
<1>1. /\ file \in Seq(Record) /\ Len(file) \in Nat /\ Len(sink) \in Nat /\ HeldInOrder
  BY DEF WriterInv, WriterType
<1>2. k \in 1..Parts /\ Held(k) = file[k].inner  BY <1>1 DEF Parts, Held, HeldIn
<1>3. x.n \in DOMAIN written /\ x = written[x.n]  BY <1>1, <1>2 DEF HeldInOrder
<1> QED BY <1>3 DEF Range

LEMMA GoodMessageIs ==
    ASSUME WriterInv, NEW n \in 0..Len(file), NEW m \in GoodMessages(n)
    PROVE  /\ m \in Stamped /\ m \in Range(written) /\ IsMessage(m)
           /\ m.n \in DOMAIN written /\ m = written[m.n]
           /\ MaxClock \in Nat /\ m.log \in 0..MaxClock /\ m.pub \in 0..MaxClock
           /\ \A s \in Domains : Stamp(m, s) \in 0..MaxClock
<1>1. n \in Nat /\ Len(file) \in Nat /\ n <= Len(file)  BY FileLength
<1>2. m \in Items(1..n) /\ IsMessage(m)  BY <1>1, GoodIs DEF Messages
<1>3. PICK k \in 1..n : m \in Range(file[k].inner)  BY <1>2, ItemsAre
<1>4. k \in 1..Len(file)  BY <1>1
<1>5. m \in Range(written) /\ m.n \in DOMAIN written /\ m = written[m.n]
  BY <1>3, <1>4, FileWritten
<1>6. m \in Item  BY <1>3, <1>4, FileInOrder
<1>7. m \in Stamped /\ m.log \in Nat /\ m.pub \in Nat  BY <1>2, <1>6, ItemKinds, StampedIs
<1>8. m.log <= clock /\ m.pub <= clock /\ clock \in Nat /\ clock <= MaxClock
  BY <1>2, <1>5 DEF WriterInv, StampsRise, WriterType
<1>9. MaxClock \in Nat  BY WritersAssumption DEF WriterInv, WriterType, MaxClock
<1>10. m.log \in 0..MaxClock /\ m.pub \in 0..MaxClock  BY <1>7, <1>8, <1>9
<1> QED BY <1>2, <1>5, <1>7, <1>9, <1>10 DEF Stamp

(* c is the highest stamp of the messages in M, or 0.                      *)
IsMark(c, s, M) ==
    /\ c = 0 \/ \E m \in M : c = Stamp(m, s)
    /\ \A m \in M : Stamp(m, s) <= c

LEMMA CoverageIsMarks ==
    CoverageIsIndexed <=> /\ IsMark(coverage.log, "log", GoodMessages(offset))
                          /\ IsMark(coverage.publish, "publish", GoodMessages(offset))
BY DEF CoverageIsIndexed, IsMark, Stamp

LEMMA MarkRises ==
    ASSUME NEW s \in Domains, NEW M, NEW G, M \subseteq G, NEW c, IsMark(c, s, M),
           NEW K \in Nat, c \in 0..K, \A m \in G : Stamp(m, s) \in 0..K,
           NEW T, \A t \in T : \E m \in G : t = Stamp(m, s),
           \A m \in G : \E t \in T : Stamp(m, s) <= t
    PROVE  LET e == Max({c} \cup T) IN e \in 0..K /\ IsMark(e, s, G)
<1>1. PICK S : S = {c} \cup T  OBVIOUS
<1>2. S \in SUBSET (0..K) /\ S # {}  BY <1>1
<1>3. PICK e : e = Max(S)  OBVIOUS
<1>4. e \in S /\ \A y \in S : y <= e  BY <1>2, <1>3, MaxOf
<1>5. e = 0 \/ \E m \in G : e = Stamp(m, s)  BY <1>1, <1>4 DEF IsMark
<1>6. \A m \in G : Stamp(m, s) <= e
  <2> TAKE m \in G
  <2>1. PICK t \in T : Stamp(m, s) <= t  OBVIOUS
  <2>2. t \in S /\ t <= e  BY <1>1, <1>4
  <2>3. Stamp(m, s) \in Nat /\ t \in Nat /\ e \in Nat  BY <1>2, <1>4, <2>2
  <2> QED BY <2>1, <2>2, <2>3
<1> QED BY <1>1, <1>2, <1>3, <1>4, <1>5, <1>6 DEF IsMark

Tops(E, s) == {e.time[1][s].max : e \in Timed(E)}

(* The spans of extents that cover the file up to n, and its messages.     *)
LEMMA SpansCover ==
    ASSUME WriterInv, NEW n \in 0..Len(file), NEW E, Tiled(E, n), NEW s \in Domains,
           NEW T, T = Tops(E, s)
    PROVE  /\ \A t \in T : \E m \in GoodMessages(n) : t = Stamp(m, s)
           /\ \A m \in GoodMessages(n) : \E t \in T : Stamp(m, s) <= t
<1>1. PICK q : q = Len(E)  OBVIOUS
<1>2. n \in Nat /\ Len(file) \in Nat /\ n <= Len(file)  BY FileLength
<1>3. /\ DOMAIN E = 1..q
      /\ \A k \in 1..q : /\ E[k] \in Extent /\ E[k].offset \in Nat /\ E[k].len \in Nat
                         /\ E[k].offset + E[k].len <= n
      /\ \A i \in 1..n : \E k \in 1..q : i \in Reach(E[k])
      /\ \A k \in 1..q : IsSpan(E[k].time, Messages(Items(Reach(E[k]))))
  BY <1>1, <1>2, TiledIs
<1>4. GoodMessages(n) = Messages(Items(1..n))  BY <1>2, GoodIs
<1>5. ASSUME NEW t \in T  PROVE \E m \in GoodMessages(n) : t = Stamp(m, s)
  <2>1. PICK k \in 1..q : E[k].time # << >> /\ t = E[k].time[1][s].max
    BY <1>3 DEF Timed, Range, Tops
  <2>2. PICK M : M = Messages(Items(Reach(E[k])))  OBVIOUS
  <2>3. \E m \in M : Stamp(m, s) = E[k].time[1][s].max  BY <1>3, <2>1, <2>2 DEF IsSpan
  <2>4. M \subseteq GoodMessages(n)
    <3>1. Reach(E[k]) \subseteq 1..n
      <4>1. E[k].offset \in Nat /\ E[k].len \in Nat /\ E[k].offset + E[k].len <= n  BY <1>3
      <4> QED BY <1>2, <4>1 DEF Reach
    <3>2. PICK R, S : R = Reach(E[k]) /\ S = 1..n  OBVIOUS
    <3>3. Items(R) \subseteq Items(S)  BY <3>1, <3>2, ItemsAre
    <3> QED BY <1>4, <2>2, <3>2, <3>3 DEF Messages
  <2> QED BY <2>1, <2>3, <2>4
<1>6. ASSUME NEW m \in GoodMessages(n)  PROVE \E t \in T : Stamp(m, s) <= t
  <2>1. m \in Items(1..n) /\ IsMessage(m)  BY <1>4 DEF Messages
  <2>2. PICK i \in 1..n : file[i].ok /\ m \in Range(file[i].inner)  BY <2>1, ItemsAre
  <2>3. PICK k \in 1..q : i \in Reach(E[k])  BY <1>3
  <2>4. PICK M : M = Messages(Items(Reach(E[k])))  OBVIOUS
  <2>5. m \in M
    <3>1. m \in Items(Reach(E[k]))  BY <2>2, <2>3, ItemsAre
    <3> QED BY <2>1, <2>4, <3>1 DEF Messages
  <2>6. E[k].time # << >> /\ Stamp(m, s) <= E[k].time[1][s].max
    <3>1. IsSpan(E[k].time, M)  BY <1>3, <2>4
    <3> QED BY <2>5, <3>1 DEF IsSpan
  <2>7. E[k] \in Timed(E)  BY <1>3, <2>6 DEF Timed, Range
  <2> QED BY <2>6, <2>7 DEF Tops
<1> QED BY <1>5, <1>6

-----------------------------------------------------------------------------
(* What the registry says of a channel is what the file does.              *)

LEMMA ItemsOrdered ==
    ASSUME WriterInv, NEW n \in 0..Len(file), NEW x \in Items(1..n), NEW k \in 1..Len(file),
           NEW y \in Items({k})
    PROVE  /\ x \in Item /\ y \in Item
           /\ x.kind = "channel" /\ y.kind = "channel" /\ x.id = y.id => x = y
           /\ x.kind = "channel" /\ y.kind = "schema" => k <= n
<1>1. n \in Nat /\ Len(file) \in Nat /\ n <= Len(file)  BY FileLength
<1>2. PICK i \in 1..n : x \in Range(file[i].inner)  BY ItemsAre
<1>3. i \in 1..Len(file)  BY <1>1
<1>4. y \in Range(file[k].inner)  BY ItemsAre
<1>5. /\ x \in Item /\ y \in Item /\ x.n \in Nat /\ y.n \in Nat
      /\ i < k => x.n < y.n
      /\ x.kind = "channel" /\ y.kind = "channel" /\ x.id = y.id => x = y
  BY <1>2, <1>3, <1>4, FileInOrder
<1>6. y.kind = "schema" /\ x.kind = "channel" => y.n < x.n
  BY <1>2, <1>3, <1>4, FileInOrder
<1>7. ASSUME x.kind = "channel", y.kind = "schema"  PROVE k <= n
  <2>1. ~(i < k)  BY <1>5, <1>6, <1>7
  <2> QED BY <1>1, <2>1
<1> QED BY <1>5, <1>7

(* A channel's definition is the one its id has, its schema resolved.      *)
LEMMA DeclaredIs ==
    ASSUME WriterInv, NEW n \in 0..Len(file), NEW c \in Channels(n)
    PROVE  Declared(n, c.id) = {Resolved(c, Schemas(n))}
<1>1. n \in Nat /\ Len(file) \in Nat /\ n <= Len(file)  BY FileLength
<1>2. \A x \in Channels(n) : x.id = c.id => x = c
  <2> SUFFICES ASSUME NEW x \in Channels(n), x.id = c.id  PROVE x = c
    OBVIOUS
  <2>1. /\ x \in Items(1..n) /\ x.kind = "channel"
        /\ c \in Items(1..n) /\ c.kind = "channel"
    BY <1>1, GoodIs
  <2>2. PICK k \in 1..n : file[k].ok /\ c \in Range(file[k].inner)  BY <2>1, ItemsAre
  <2>3. c \in Items({k}) /\ k \in 1..Len(file)  BY <1>1, <2>2, ItemsAre
  <2> QED BY <2>1, <2>3, ItemsOrdered
<1>3. {x \in Channels(n) : x.id = c.id} = {c}  BY <1>2
<1> QED BY <1>3 DEF Declared

(* A definition never changes with what is read behind it.                 *)
LEMMA ResolvedStays ==
    ASSUME WriterInv, NEW n \in 0..Len(file), NEW o \in 0..n, NEW c \in Channels(o)
    PROVE  c \in Channels(n) /\ Resolved(c, Schemas(n)) = Resolved(c, Schemas(o))
<1>1. /\ n \in Nat /\ o \in Nat /\ o <= n /\ Len(file) \in Nat /\ n <= Len(file)
      /\ o \in 0..Len(file)
  BY FileLength
<1>2. 1..o \subseteq 1..n  BY <1>1
<1>3. Items(1..o) \subseteq Items(1..n)
  <2>1. PICK R, S : R = 1..o /\ S = 1..n  OBVIOUS
  <2>2. R \subseteq S  BY <1>2, <2>1
  <2> QED BY <2>1, <2>2, ItemsAre
<1>4. c \in Items(1..o) /\ c.kind = "channel" /\ c \in Channels(n)  BY <1>1, <1>3, GoodIs
<1>5. Schemas(o) \subseteq Schemas(n)  BY <1>1, <1>3, GoodIs
<1>6. \A id \in Schemas(n) : id \in Schemas(o)
  <2> SUFFICES ASSUME NEW id \in Schemas(n)  PROVE id \in Schemas(o)
    OBVIOUS
  <2>1. PICK y \in Items(1..n) : y.kind = "schema" /\ id = y.id  BY <1>1, GoodIs
  <2>2. PICK k \in 1..n : file[k].ok /\ y \in Range(file[k].inner)  BY ItemsAre
  <2>3. y \in Items({k}) /\ k \in 1..Len(file)  BY <1>1, <2>2, ItemsAre
  <2>4. k <= o  BY <1>1, <1>4, <2>1, <2>3, ItemsOrdered
  <2>5. k \in 1..o  BY <1>1, <2>4
  <2>6. y \in Items(1..o)  BY <2>2, <2>5, ItemsAre
  <2> QED BY <1>1, <2>1, <2>6, GoodIs
<1>7. Schemas(n) = Schemas(o)  BY <1>5, <1>6
<1> QED BY <1>4, <1>7

(* The registry with the definitions of a delta applied.                   *)
LEMMA RegistryApplies ==
    ASSUME WriterInv, NEW n \in 0..Len(file), NEW o \in 0..n, NEW f, RegistryInv(f, o),
           NEW g, DefinesAll(g, Items(o + 1..n)),
           NEW h, h = [id \in DOMAIN g |-> Resolved(g[id], Schemas(n))],
           NEW e, e = Extend(f, h)
    PROVE  RegistryInv(e, n)
<1>1. /\ n \in Nat /\ o \in Nat /\ o <= n /\ Len(file) \in Nat /\ n <= Len(file)
      /\ o \in 0..Len(file)
  BY FileLength
<1>2. Items(1..n) = Items(1..o) \cup Items(o + 1..n)
  <2>1. 1..n = (1..o) \cup (o + 1..n)  BY <1>1
  <2>2. PICK R, S : R = 1..o /\ S = o + 1..n  OBVIOUS
  <2>3. Items(R \cup S) = Items(R) \cup Items(S)  BY ItemsAre
  <2> QED BY <2>1, <2>2, <2>3
<1>3. Channels(n) = Channels(o) \cup {x \in Items(o + 1..n) : x.kind = "channel"}
  BY <1>1, <1>2, GoodIs
<1>4. DOMAIN e = DOMAIN f \cup DOMAIN g  BY DEF Extend
<1>5. DOMAIN e = {c.id : c \in Channels(n)}
  <2>1. DOMAIN f = {c.id : c \in Channels(o)}  BY DEF RegistryInv
  <2>2. DOMAIN g = {c.id : c \in {x \in Items(o + 1..n) : x.kind = "channel"}}  BY DEF DefinesAll
  <2> QED BY <1>3, <1>4, <2>1, <2>2
<1>6. ASSUME NEW id \in DOMAIN e  PROVE Declared(n, id) = {e[id]}
  <2>1. CASE id \in DOMAIN g
    <3>1. e[id] = Resolved(g[id], Schemas(n))  BY <1>4, <2>1 DEF Extend
    <3>2. g[id] \in Channels(n) /\ g[id].id = id  BY <1>3, <2>1 DEF DefinesAll
    <3> QED BY <3>1, <3>2, DeclaredIs
  <2>2. CASE id \in DOMAIN f /\ id \notin DOMAIN g
    <3>1. e[id] = f[id]  BY <1>4, <2>2 DEF Extend
    <3>2. PICK c \in Channels(o) : c.id = id  BY <2>2 DEF RegistryInv
    <3>3. Declared(o, id) = {Resolved(c, Schemas(o))}  BY <1>1, <3>2, DeclaredIs
    <3>4. f[id] = Resolved(c, Schemas(o))
      <4>1. Declared(o, id) = {f[id]}  BY <2>2 DEF RegistryInv
      <4> QED BY <3>3, <4>1
    <3>5. c \in Channels(n) /\ Resolved(c, Schemas(n)) = Resolved(c, Schemas(o))
      BY ResolvedStays
    <3>6. Declared(n, id) = {Resolved(c, Schemas(n))}  BY <3>2, <3>5, DeclaredIs
    <3> QED BY <3>1, <3>4, <3>5, <3>6
  <2> QED BY <1>4, <2>1, <2>2
<1> QED BY <1>5, <1>6 DEF RegistryInv

-----------------------------------------------------------------------------
(* A pass applied.                                                         *)

(* The index behind a pass d, and where it starts.                         *)
LEMMA NextSeed ==
    ASSUME NEW d, IsDelta(d), NEW f, f = NewDelta(d.at, d.open, d.trig), NEW e, e = << >>
    PROVE  /\ IsDelta(f) /\ f.at = d.at /\ f.closed = e /\ f.open = d.open /\ f.pending = e
           /\ f.schemas = {} /\ f.channels = e /\ f.trig = d.trig /\ f.sent = e
<1>1. e = << >>  OBVIOUS
<1>2. f = Delta(d.at, e, d.open, e, {}, e, d.trig, e)  BY <1>1 DEF NewDelta, Delta
<1>3. /\ DeltaShape(f) /\ f.at = d.at /\ f.closed = e /\ f.open = d.open /\ f.pending = e
      /\ f.schemas = {} /\ f.channels = e /\ f.trig = d.trig /\ f.sent = e
  BY <1>2, DeltaIs
<1>4. e \in Seq(Extent) /\ e \in Seq(Stamps) /\ e \in Seq(Item) /\ Len(e) <= 1
  <2>1. << >> \in Seq(Extent) /\ << >> \in Seq(Stamps) /\ << >> \in Seq(Item) /\ Len(<< >>) = 0
    BY EmptyIs
  <2>2. 0 <= 1  OBVIOUS
  <2> QED BY <1>1, <2>1, <2>2
<1>5. Map(e, 1..3, Item)
  <2>1. DOMAIN e = {}  BY <1>1
  <2>2. e \in [DOMAIN e -> Item]  BY <1>1, <2>1
  <2> QED BY <2>1, <2>2 DEF Map
<1>6. d.trig \subseteq 1..3 /\ d.at \in Nat /\ d.open \in Seq(Extent) /\ Len(d.open) <= 1  BY DEF IsDelta
<1>7. IsDelta(f)  BY <1>3, <1>4, <1>5, <1>6 DEF IsDelta
<1> QED BY <1>1, <1>3, <1>7

LEMMA ApplyKeeps ==
    ASSUME WriterInv, ScanInv, CoverageInv, Apply
    PROVE  ScanInv' /\ CoverageInv'
<1>1. PICK d : d = pass[1]  OBVIOUS
<1>2. PICK n : n = d.at  OBVIOUS
<1>3. PICK schemas : schemas = index.schemas \cup d.schemas  OBVIOUS
<1>4. PICK defined : defined = [id \in DOMAIN d.channels |-> Resolved(d.channels[id], schemas)]
  OBVIOUS
<1>5. PICK channels : channels = Extend(index.channels, defined)  OBVIOUS
<1>6. PICK closed : closed = index.closed \o d.closed  OBVIOUS
<1>7. PICK trig : trig = index.trig \cup d.trig  OBVIOUS
<1>8. /\ pass # << >> /\ pass' = << >> /\ UNCHANGED <<clock, writerVars, faults, lifted, handlerVars>>
      /\ index' = [open |-> d.open, closed |-> closed, schemas |-> schemas,
                   channels |-> channels, trig |-> trig]
      /\ offset' = n
      /\ coverage' = [s \in DOMAIN coverage |->
                        Max({coverage[s]} \cup {t[s].max : t \in Spans(d, index')})]
  BY <1>1, <1>2, <1>3, <1>4, <1>5, <1>6, <1>7 DEF Apply
<1>9. /\ index'.open = d.open /\ index'.closed = closed /\ index'.schemas = schemas
      /\ index'.channels = channels /\ index'.trig = trig
  BY <1>8
<1>10. file' = file /\ style' = style  BY <1>8 DEF writerVars
<1>11. Readable' = Readable  BY <1>10 DEF Readable
<1>12. Accounts(d) /\ SentExactly(lifted, d) /\ Accounts(Seed) /\ index.closed \in Seq(Extent)
  BY <1>1, <1>8 DEF ScanInv
<1>13. /\ IsDelta(d) /\ n \in offset..Readable /\ Tiled(closed \o d.open, n)
       /\ Schemas(n) = schemas /\ d.trig = Triggers(Good(n))
       /\ DefinesAll(d.channels, Items(offset + 1..n))
  BY <1>2, <1>3, <1>6, <1>12 DEF Accounts
<1>14. /\ offset \in Nat /\ n \in Nat /\ offset <= n /\ n <= Readable /\ Readable \in Nat
       /\ Len(file) \in Nat /\ n \in 0..Len(file) /\ offset \in 0..n
  <2>1. Readable \in 0..Len(file) /\ Len(file) \in Nat  BY FileIs
  <2>2. offset \in Nat  BY DEF ScanInv
  <2> QED BY <1>13, <2>1, <2>2
<1>15. Grows  BY <1>10, <1>14 DEF Grows
<1>16. /\ Good(n)' = Good(n) /\ GoodMessages(n)' = GoodMessages(n) /\ Schemas(n)' = Schemas(n)
       /\ Channels(n)' = Channels(n) /\ \A ch : Declared(n, ch)' = Declared(n, ch)
  BY <1>14, <1>15, GoodStays
<1>17. trig = d.trig
  <2>1. Seed.trig = index.trig /\ Seed.at = offset  BY DEF Seed, NewDelta
  <2>2. index.trig = Triggers(Good(offset))  BY <1>12, <2>1 DEF Accounts
  <2>3. Good(offset) \subseteq Good(n)
    <3>1. PICK R, S : R = 1..offset /\ S = 1..n  OBVIOUS
    <3>2. R \subseteq S  BY <1>14, <3>1
    <3>3. Items(R) \subseteq Items(S)  BY <3>2, ItemsAre
    <3> QED BY <1>14, <3>1, <3>3, GoodIs
  <2>4. index.trig \subseteq d.trig  BY <1>13, <2>2, <2>3 DEF Triggers
  <2> QED BY <1>7, <2>4
<1>18. closed \in Seq(Extent)
  <2>1. d.closed \in Seq(Extent)  BY <1>13 DEF IsDelta
  <2> QED BY <1>6, <1>12, <2>1, ConcatIs
<1>19. PICK f : f = NewDelta(n, d.open, trig)  OBVIOUS
<1>20. Seed' = f  BY <1>8, <1>9, <1>19 DEF Seed
<1>21. /\ IsDelta(f) /\ f.at = n /\ f.closed = << >> /\ f.open = d.open /\ f.pending = << >>
       /\ f.schemas = {} /\ f.channels = << >> /\ f.trig = trig /\ f.sent = << >>
  <2>1. IsDelta(d) /\ f = NewDelta(d.at, d.open, d.trig)
    BY <1>2, <1>13, <1>17, <1>19
  <2>2. PICK e : e = << >>  OBVIOUS
  <2>3. /\ IsDelta(f) /\ f.at = d.at /\ f.closed = e /\ f.open = d.open /\ f.pending = e
        /\ f.schemas = {} /\ f.channels = e /\ f.trig = d.trig /\ f.sent = e
    BY <2>1, <2>2, NextSeed
  <2> QED BY <1>2, <1>17, <2>2, <2>3
<1>22. Accounts(f)'
  <2>1. Tiled((closed \o f.closed) \o f.open, n)
    <3>1. closed \o << >> = closed  BY <1>18, EmptyConcat
    <3> QED BY <1>13, <1>21, <3>1
  <2>2. PICK E : E = (closed \o f.closed) \o f.open  OBVIOUS
  <2>3. n <= Len(file)  BY <1>14
  <2>4. Tiled(E, n)'  BY <1>14, <1>15, <2>1, <2>2, <2>3, TiledStays
  <2>5. Tiled((index.closed \o f.closed) \o f.open, n)'  BY <1>9, <2>2, <2>4
  <2>6. Schemas(n)' = index'.schemas \cup f.schemas  BY <1>9, <1>13, <1>16, <1>21
  <2>7. DefinesAll(f.channels, Items(offset+1..n))'
    <3>1. n + 1..n = {}  BY <1>14
    <3>2. Items(offset+1..n)' = {}  BY <1>8, <3>1 DEF Items
    <3>3. DOMAIN f.channels = {}  BY <1>21
    <3> QED BY <3>2, <3>3 DEF DefinesAll
  <2>8. f.trig = Triggers(Good(n))'  BY <1>13, <1>16, <1>17, <1>21 DEF Triggers
  <2>9. n \in offset'..Readable'  BY <1>8, <1>11, <1>14
  <2> QED BY <1>21, <2>5, <2>6, <2>7, <2>8, <2>9 DEF Accounts
<1>23. SentExactly(lifted, f)'
  <2>1. /\ lifted \in Seq(Item) /\ Range(lifted) = {m \in GoodMessages(n) : m.ch \in trig}
        /\ InOrder(lifted)
    BY <1>2, <1>12, <1>17 DEF SentExactly
  <2>2. lifted' = lifted  BY <1>8
  <2> QED BY <1>16, <1>21, <2>1, <2>2 DEF SentExactly
<1>24. RegistryInv(index.channels, offset)'
  <2>1. RegistryInv(index.channels, offset)  BY DEF ScanInv
  <2>2. RegistryInv(channels, n)
    BY <1>4, <1>5, <1>13, <1>14, <2>1, RegistryApplies
  <2>3. RegistryInv(channels, n)'  BY <1>16, <2>2 DEF RegistryInv
  <2> QED BY <1>8, <1>9, <2>3
<1>25. ScanInv'
  <2>1. (offset \in 0..Len(file))' /\ (offset <= Readable)'  BY <1>8, <1>10, <1>11, <1>14
  <2>2. (faults \in 0..MaxFaults[style])'  BY <1>8, <1>10 DEF ScanInv
  <2>3. (index.closed \in Seq(Extent))'  BY <1>9, <1>18
  <2>4. Accounts(Seed)' /\ SentExactly(lifted, Seed)'  BY <1>20, <1>22, <1>23
  <2> QED BY <1>8, <1>24, <2>1, <2>2, <2>3, <2>4 DEF ScanInv
<1>26. CoverageInv'
  <2>1. PICK E : E = closed \o d.open  OBVIOUS
  <2>2. Tiled(E, n)  BY <1>13, <2>1
  <2>3. Spans(d, index') = {e.time[1] : e \in Timed(E)}  BY <1>9, <2>1 DEF Spans
  <2>4. coverage \in [Domains -> 0..MaxClock]  BY DEF CoverageInv
  <2>5. ASSUME NEW s \in Domains
        PROVE  coverage'[s] \in 0..MaxClock /\ IsMark(coverage'[s], s, GoodMessages(n))
    <3>1. PICK T : T = Tops(E, s)  OBVIOUS
    <3>2. {t[s].max : t \in Spans(d, index')} = T  BY <2>3, <3>1 DEF Tops
    <3>3. PICK c : c = coverage[s]  OBVIOUS
    <3>4. coverage'[s] = Max({c} \cup T)  BY <1>8, <2>4, <3>2, <3>3
    <3>5. /\ \A t \in T : \E m \in GoodMessages(n) : t = Stamp(m, s)
          /\ \A m \in GoodMessages(n) : \E t \in T : Stamp(m, s) <= t
      <4>1. n \in 0..Len(file)  BY <1>14
      <4> QED BY <2>2, <3>1, <4>1, SpansCover
    <3>6. PICK M : M = GoodMessages(offset)  OBVIOUS
    <3>7. PICK G : G = GoodMessages(n)  OBVIOUS
    <3>8. PICK K : K = MaxClock  OBVIOUS
    <3>9. K \in Nat  BY <3>8, WritersAssumption DEF WriterInv, WriterType, MaxClock
    <3>10. \A m \in G : Stamp(m, s) \in 0..K
      BY <1>14, <3>7, <3>8, GoodMessageIs
    <3>11. M \subseteq G
      <4>1. PICK R, S : R = 1..offset /\ S = 1..n  OBVIOUS
      <4>2. R \subseteq S  BY <1>14, <4>1
      <4>3. Items(R) \subseteq Items(S)  BY <4>2, ItemsAre
      <4> QED BY <1>14, <3>6, <3>7, <4>1, <4>3, GoodIs DEF Messages
    <3>12. IsMark(c, s, M)
      BY <3>3, <3>6, CoverageIsMarks DEF CoverageInv, Domains
    <3>13. c \in 0..K  BY <2>4, <3>3, <3>8
    <3>14. /\ \A t \in T : \E m \in G : t = Stamp(m, s)
           /\ \A m \in G : \E t \in T : Stamp(m, s) <= t
      BY <3>5, <3>7
    <3>15. PICK e : e = Max({c} \cup T)  OBVIOUS
    <3>16. e \in 0..K /\ IsMark(e, s, G)
      BY <3>9, <3>10, <3>11, <3>12, <3>13, <3>14, <3>15, MarkRises
    <3> QED BY <3>4, <3>7, <3>8, <3>15, <3>16
  <2>6. coverage' \in [Domains -> 0..MaxClock]
    <3>1. DOMAIN coverage = Domains  BY <2>4
    <3> QED BY <1>8, <2>5, <3>1
  <2>7. MaxClock' = MaxClock  BY <1>10 DEF MaxClock
  <2>8. CoverageIsIndexed'
    <3>1. PICK G : G = GoodMessages(n)  OBVIOUS
    <3>2. GoodMessages(offset)' = G  BY <1>8, <1>16, <3>1
    <3>3. /\ IsMark(coverage'.log, "log", G) /\ IsMark(coverage'.publish, "publish", G)
      BY <2>5, <3>1 DEF Domains
    <3> QED BY <3>2, <3>3 DEF CoverageIsIndexed, IsMark, Stamp
  <2> QED BY <2>6, <2>7, <2>8 DEF CoverageInv
<1> QED BY <1>25, <1>26

LEMMA CoverageStands ==
    ASSUME Stays, UNCHANGED <<offset, coverage>>, ScanInv, CoverageInv
    PROVE  CoverageInv'
<1>1. Grows /\ style' = style  BY DEF Stays
<1>2. MaxClock' = MaxClock  BY <1>1 DEF MaxClock
<1>3. PICK G : G = GoodMessages(offset)  OBVIOUS
<1>4. PICK n : n = offset  OBVIOUS
<1>5. n \in 0..Len(file)  BY <1>4 DEF ScanInv
<1>6. GoodMessages(n)' = G  BY <1>1, <1>3, <1>4, <1>5, GoodStays
<1>7. GoodMessages(offset)' = G  BY <1>4, <1>6
<1>8. CoverageIsIndexed'  BY <1>3, <1>7 DEF CoverageInv, CoverageIsIndexed
<1> QED BY <1>2, <1>8 DEF CoverageInv

-----------------------------------------------------------------------------
(* The handler.                                                            *)

LEMMA HandlerStands ==
    ASSUME Stays, offset \in 0..Len(file), offset' \in Nat, offset <= offset',
           UNCHANGED handlerVars, HandlerInv
    PROVE  HandlerInv'
<1>1. Grows  BY DEF Stays
<1>2. UNCHANGED <<hpc, window, released, plan, clip>>  BY DEF handlerVars
<1>3. Len(file) \in Nat /\ Len(file)' \in Nat  BY <1>1 DEF Grows
<1>4. ASSUME hpc \in {"planned", "done"}
      PROVE  PlanInv' /\ GoodMessages(plan.upto)' = GoodMessages(plan.upto)
  <2>1. PlanInv  BY <1>4 DEF HandlerInv
  <2>2. PICK n : n = plan.upto  OBVIOUS
  <2>3. n \in 0..offset  BY <2>1, <2>2 DEF PlanInv
  <2>4. n \in Nat /\ n <= offset /\ n \in 0..Len(file) /\ n \in 0..offset'
    BY <1>3, <2>3
  <2>5. /\ GoodMessages(n)' = GoodMessages(n) /\ Channels(n)' = Channels(n)
        /\ \A ch : Declared(n, ch)' = Declared(n, ch)
    BY <1>1, <2>4, GoodStays
  <2>6. RegistryInv(plan.channels, n)'
    <3>1. RegistryInv(plan.channels, n)  BY <2>1, <2>2 DEF PlanInv
    <3> QED BY <1>2, <2>5, <3>1 DEF RegistryInv
  <2>7. \A i \in 1..n : Messages(Items({i}))' = Messages(Items({i}))
    <3> TAKE i \in 1..n
    <3>1. {i} \in SUBSET (1..Len(file))  BY <1>3, <2>4
    <3>2. PICK S : S = {i}  OBVIOUS
    <3>3. Items(S)' = Items(S)  BY <1>1, <3>1, <3>2, ItemsStay
    <3> QED BY <3>2, <3>3 DEF Messages
  <2>8. \A i \in 1..n : \A m \in Messages(Items({i})) :
          InWindow(m, window) => \E k \in DOMAIN plan.extents : i \in Reach(plan.extents[k])
    BY <2>1, <2>2 DEF PlanInv
  <2>9. (\A i \in 1..n : \A m \in Messages(Items({i})) :
          InWindow(m, window) => \E k \in DOMAIN plan.extents : i \in Reach(plan.extents[k]))'
    BY <1>2, <2>7, <2>8 DEF InWindow, StampOf
  <2>10. /\ plan.extents \in Seq(Extent)
         /\ \A k \in DOMAIN plan.extents : plan.extents[k].offset + plan.extents[k].len <= n
         /\ \A k, l \in DOMAIN plan.extents :
              k < l => plan.extents[k].offset + plan.extents[k].len <= plan.extents[l].offset
         /\ released /\ Source = "log" =>
              window.to = 0 \/ \E x \in GoodMessages(n) : x.log >= window.to
    BY <2>1, <2>2 DEF PlanInv
  <2>11. PlanInv'
    BY <1>2, <2>2, <2>4, <2>5, <2>6, <2>9, <2>10 DEF PlanInv
  <2>12. plan'.upto = n  BY <1>2, <2>2
  <2> QED BY <2>2, <2>5, <2>11, <2>12
<1>5. ASSUME hpc = "done"  PROVE ClipHas(clip, GoodMessages(plan.upto))'
  <2>1. PICK G : G = GoodMessages(plan.upto) /\ G = GoodMessages(plan.upto)'  BY <1>4, <1>5
  <2>2. ClipHas(clip, G)  BY <1>5, <2>1 DEF HandlerInv
  <2>3. ClipHas(clip, G)'  BY <1>2, <2>2 DEF ClipHas, IdsMatch, CopyOf, Wanted, InWindow, StampOf
  <2> QED BY <2>1, <2>3
<1> QED BY <1>2, <1>4, <1>5 DEF HandlerInv

LEMMA FireKeeps ==
    ASSUME WriterInv, ScanInv, HandlerInv, Fire
    PROVE  HandlerInv'
<1>1. PICK m \in Range(lifted) :
        window' = [from |-> IF StampOf(m) < Pre THEN 0 ELSE StampOf(m) - Pre,
                   to |-> StampOf(m) + Post]
  BY DEF Fire
<1>2. StampOf(m) \in Nat
  <2>1. PICK d : SentExactly(lifted, d) /\ d.at \in 0..Len(file)
    <3>1. offset \in 0..Len(file) /\ Readable \in 0..Len(file) /\ Len(file) \in Nat
      BY FileIs DEF ScanInv
    <3>2. CASE pass = << >>
      <4>1. SentExactly(lifted, Seed)  BY <3>2 DEF ScanInv
      <4>2. Seed.at = offset  BY DEF Seed, NewDelta
      <4> QED BY <3>1, <4>1, <4>2
    <3>3. CASE pass # << >>
      <4>1. SentExactly(lifted, pass[1]) /\ Accounts(pass[1])  BY <3>3 DEF ScanInv
      <4>2. pass[1].at \in offset..Readable  BY <4>1 DEF Accounts
      <4>3. pass[1].at \in 0..Len(file)  BY <3>1, <4>2
      <4> QED BY <4>1, <4>3
    <3> QED BY <3>2, <3>3
  <2>2. m \in GoodMessages(d.at)  BY <2>1 DEF SentExactly
  <2>3. m \in Stamped  BY <2>1, <2>2, GoodMessageIs
  <2> QED BY <2>3, StampedIs DEF StampOf
<1>3. window' \in [from : Nat, to : Nat]
  BY <1>1, <1>2, ExtractAssumption
<1>4. hpc = "idle" /\ hpc' = "waiting" /\ UNCHANGED <<plan, clip>>  BY DEF Fire
<1> QED BY <1>3, <1>4 DEF HandlerInv

(* The extents a plan takes, of those held: in their order, and every one  *)
(* that has a message of the window.                                       *)
Takes(E, n, w) ==
    /\ E \in Seq(Extent)
    /\ \A k \in DOMAIN E : E[k].offset + E[k].len <= n
    /\ \A k, l \in DOMAIN E : k < l => E[k].offset + E[k].len <= E[l].offset
    /\ \A i \in 1..n : \A m \in Messages(Items({i})) :
         InWindow(m, w) => \E k \in DOMAIN E : i \in Reach(E[k])
Typed(n) == \A i \in 1..n : Messages(Items({i})) \subseteq Stamped
Overlapping(held, w) == {k \in DOMAIN held : Overlaps(held[k], w)}

LEMMA PlanTakes ==
    ASSUME NEW held, NEW n \in Nat, Tiled(held, n), NEW w \in [from : Nat, to : Nat],
           Typed(n), NEW S, S = Overlapping(held, w)
    PROVE  Takes(Retain(held, S), n, w)
<1> PICK E : E = Retain(held, S)  OBVIOUS
<1>1. PICK q : q = Len(held)  OBVIOUS
<1>2. /\ held \in Seq(Extent) /\ DOMAIN held = 1..q /\ q \in Nat
      /\ \A k \in 1..q : /\ held[k].offset \in Nat /\ held[k].len \in Nat
                         /\ held[k].offset + held[k].len <= n
      /\ \A k, l \in 1..q : k < l => held[k].offset + held[k].len <= held[l].offset
      /\ \A i \in 1..n : \E k \in 1..q : i \in Reach(held[k])
      /\ \A k \in 1..q : IsSpan(held[k].time, Messages(Items(Reach(held[k]))))
  BY <1>1, TiledIs
<1>3. S \in SUBSET DOMAIN held /\ S \in SUBSET (1..q)  BY <1>2 DEF Overlapping
<1>4. PICK c : c = Cardinality(S)  OBVIOUS
<1>5. /\ IsFiniteSet(S) /\ S \in SUBSET Nat /\ c \in Nat
      /\ E \in Seq(Extent) /\ DOMAIN E = 1..c
      /\ \A k \in 1..c : Nth(S, k) \in S /\ E[k] = held[Nth(S, k)]
  BY <1>2, <1>3, <1>4, RetainType
<1>6. \A k \in DOMAIN E : E[k].offset + E[k].len <= n  BY <1>2, <1>3, <1>5
<1>7. ASSUME NEW k \in DOMAIN E, NEW l \in DOMAIN E, k < l
      PROVE  E[k].offset + E[k].len <= E[l].offset
  <2>1. Nth(S, k) < Nth(S, l)  BY <1>4, <1>5, <1>7, NthRises
  <2>2. Nth(S, k) \in 1..q /\ Nth(S, l) \in 1..q  BY <1>3, <1>5
  <2> QED BY <1>2, <1>5, <2>1, <2>2
<1>8. ASSUME NEW i \in 1..n, NEW m \in Messages(Items({i})), InWindow(m, w)
      PROVE  \E k \in DOMAIN E : i \in Reach(E[k])
  <2>1. PICK k \in 1..q : i \in Reach(held[k])  BY <1>2
  <2>2. PICK M : M = Messages(Items(Reach(held[k])))  OBVIOUS
  <2>3. m \in M
    <3>1. PICK R, T : R = {i} /\ T = Reach(held[k])  OBVIOUS
    <3>2. R \subseteq T  BY <2>1, <3>1
    <3>3. Items(R) \subseteq Items(T)  BY <3>2, ItemsAre
    <3> QED BY <2>2, <3>1, <3>3 DEF Messages
  <2>4. Source \in Domains /\ StampOf(m) = Stamp(m, Source)
    BY ExtractAssumption DEF Domains, StampOf, Stamp
  <2>5. PICK t : t = held[k].time  OBVIOUS
  <2>6. IsSpan(t, M)  BY <1>2, <2>2, <2>5
  <2>7. /\ t # << >> /\ t \in Seq(Stamps) /\ Len(t) = 1
        /\ t[1][Source].min <= Stamp(m, Source) /\ Stamp(m, Source) <= t[1][Source].max
    BY <2>3, <2>4, <2>6 DEF IsSpan
  <2>8. t[1][Source].min \in Nat /\ t[1][Source].max \in Nat
    <3>1. t[1] \in Stamps  BY <2>7
    <3> QED BY <2>4, <3>1 DEF Stamps, Span, Domains
  <2>9. Stamp(m, Source) \in Nat /\ w.from \in Nat /\ w.to \in Nat
    <3>1. m \in Stamped  BY DEF Typed
    <3> QED BY <2>4, <3>1, StampedIs
  <2>10. w.from <= Stamp(m, Source) /\ Stamp(m, Source) <= w.to  BY <1>8, <2>4 DEF InWindow
  <2>11. SpanOverlaps(t[1][Source], w)
    <3>1. PICK a, b, x, y, z : /\ a = t[1][Source].min /\ b = t[1][Source].max
                               /\ x = Stamp(m, Source) /\ y = w.from /\ z = w.to
      OBVIOUS
    <3>2. a \in Nat /\ b \in Nat /\ x \in Nat /\ y \in Nat /\ z \in Nat  BY <2>8, <2>9, <3>1
    <3>3. a <= x /\ x <= b /\ y <= x /\ x <= z  BY <2>7, <2>10, <3>1
    <3>4. b >= y /\ a <= z  BY <3>2, <3>3
    <3> QED BY <3>1, <3>4 DEF SpanOverlaps
  <2>12. Overlaps(held[k], w)  BY <2>5, <2>7, <2>11 DEF Overlaps
  <2>13. k \in S  BY <1>2, <2>12 DEF Overlapping
  <2>14. PICK j \in 1..c : Nth(S, j) = k  BY <1>4, <1>5, <2>13, MemberIsNth
  <2>15. j \in DOMAIN E /\ E[j] = held[k]  BY <1>5, <2>14
  <2> QED BY <2>1, <2>15
<1> QED BY <1>5, <1>6, <1>7, <1>8 DEF Takes

LEMMA PlanWindowKeeps ==
    ASSUME WriterInv, ScanInv, CoverageInv, HandlerInv, PlanWindow
    PROVE  HandlerInv'
<1>1. PICK held : held = index.closed \o index.open  OBVIOUS
<1>2. PICK S : S = Overlapping(held, window)  OBVIOUS
<1>3. PICK E : E = Retain(held, S)  OBVIOUS
<1>4. /\ hpc = "waiting" /\ hpc' = "planned" /\ released' = Reaches
      /\ plan' = [extents |-> E, channels |-> index.channels, upto |-> offset]
      /\ UNCHANGED <<clock, writerVars, tailVars, window, clip>>
  BY <1>1, <1>2, <1>3 DEF PlanWindow, Overlapping
<1>5. plan'.extents = E /\ plan'.channels = index.channels /\ plan'.upto = offset
  BY <1>4
<1>6. UNCHANGED <<file, style, offset, index>>  BY <1>4 DEF writerVars, tailVars
<1>7. offset \in Nat /\ offset \in 0..Len(file) /\ Len(file) \in Nat
  BY FileLength DEF ScanInv
<1>8. window \in [from : Nat, to : Nat]  BY DEF HandlerInv
<1>9. Tiled(held, offset)
  <2>1. Accounts(Seed) /\ index.closed \in Seq(Extent)  BY DEF ScanInv
  <2>2. Seed.closed = << >> /\ Seed.open = index.open /\ Seed.at = offset  BY DEF Seed, NewDelta
  <2>3. index.closed \o << >> = index.closed  BY <2>1, EmptyConcat
  <2>4. Tiled((index.closed \o Seed.closed) \o Seed.open, Seed.at)  BY <2>1 DEF Accounts
  <2> QED BY <1>1, <2>2, <2>3, <2>4
<1>10. Typed(offset)
  <2> SUFFICES ASSUME NEW i \in 1..offset  PROVE Messages(Items({i})) \subseteq Stamped
    BY DEF Typed
  <2>1. {i} \in SUBSET (1..Len(file))  BY <1>7
  <2> QED BY <2>1, ItemsTyped
<1>11. Takes(E, offset, window)
  <2>1. PICK at, w : at = offset /\ w = window  OBVIOUS
  <2>2. at \in Nat /\ w \in [from : Nat, to : Nat]  BY <1>7, <1>8, <2>1
  <2>3. Tiled(held, at)  BY <1>9, <2>1
  <2>4. Typed(at)  BY <1>10, <2>1
  <2>5. S = Overlapping(held, w)  BY <1>2, <2>1
  <2>6. Takes(Retain(held, S), at, w)  BY <2>2, <2>3, <2>4, <2>5, PlanTakes
  <2> QED BY <1>3, <2>1, <2>6
<1>12. Grows  BY <1>6, <1>7 DEF Grows
<1>13. PICK n : n = offset  OBVIOUS
<1>14. /\ GoodMessages(n)' = GoodMessages(n) /\ Channels(n)' = Channels(n)
       /\ \A ch : Declared(n, ch)' = Declared(n, ch)
  BY <1>7, <1>12, <1>13, GoodStays
<1>15. RegistryInv(plan.channels, plan.upto)'
  <2>1. RegistryInv(index.channels, n)  BY <1>13 DEF ScanInv
  <2>2. RegistryInv(index.channels, n)'  BY <1>6, <1>14, <2>1 DEF RegistryInv
  <2> QED BY <1>5, <1>6, <1>13, <2>2
<1>16. (\A i \in 1..plan.upto : \A m \in Messages(Items({i})) :
          InWindow(m, window) => \E k \in DOMAIN plan.extents : i \in Reach(plan.extents[k]))'
  <2>1. \A i : Messages(Items({i}))' = Messages(Items({i}))  BY <1>6 DEF Messages, Items
  <2>2. window' = window /\ plan'.upto = offset /\ plan'.extents = E  BY <1>4, <1>5
  <2> QED BY <1>11, <2>1, <2>2 DEF InWindow, StampOf, Takes
<1>17. (released /\ Source = "log" =>
          window.to = 0 \/ \E x \in GoodMessages(plan.upto) : x.log >= window.to)'
  <2> SUFFICES ASSUME Reaches, Source = "log"
               PROVE  window.to = 0 \/ \E x \in GoodMessages(n) : x.log >= window.to
    BY <1>4, <1>5, <1>13, <1>14
  <2>1. coverage.log >= window.to  BY DEF Reaches, Mark
  <2>2. coverage.log = 0 \/ \E m \in GoodMessages(n) : coverage.log = m.log
    BY <1>13 DEF CoverageInv, CoverageIsIndexed
  <2>3. window.to \in Nat  BY <1>8
  <2>4. CASE coverage.log = 0  BY <2>1, <2>3, <2>4
  <2>5. CASE \E m \in GoodMessages(n) : coverage.log = m.log  BY <2>1, <2>5
  <2> QED BY <2>2, <2>4, <2>5
<1>18. PlanInv'
  <2>1. (plan.upto \in 0..offset)'  BY <1>5, <1>6, <1>7
  <2> QED BY <1>5, <1>11, <1>15, <1>16, <1>17, <2>1 DEF PlanInv, Takes
<1> QED BY <1>4, <1>18 DEF HandlerInv

-----------------------------------------------------------------------------
(* The copy.                                                               *)

LEMMA ClipOfIs ==
    ASSUME NEW m, NEW t, NEW i, NEW s, NEW d, NEW e, e = ClipOf(m, t, i, s, d)
    PROVE  /\ ClipShape(e)
           /\ e.messages = m /\ e.table = t /\ e.ids = i /\ e.skipped = s /\ e.dropped = d
<1>1. e.messages = m /\ e.table = t /\ e.ids = i /\ e.skipped = s /\ e.dropped = d
  BY DEF ClipOf
<1> QED BY <1>1 DEF ClipShape

Known(c, table, ids) == [c EXCEPT !.table = table, !.ids = ids]
LEMMA WithIds ==
    ASSUME NEW c, ClipShape(c), NEW u, NEW v, NEW e, e = Known(c, u, v)
    PROVE  /\ ClipShape(e) /\ e.messages = c.messages /\ e.table = u /\ e.ids = v
           /\ e.skipped = c.skipped /\ e.dropped = c.dropped
<1>1. PICK m, t, i, s, d : c = ClipOf(m, t, i, s, d)  BY DEF ClipShape
<1>2. c.messages = m /\ c.skipped = s /\ c.dropped = d  BY <1>1, ClipOfIs
<1>3. e = ClipOf(m, u, v, s, d)  BY <1>1 DEF ClipOf, Known
<1> QED BY <1>2, <1>3, ClipOfIs

LEMMA OnlyIds ==
    ASSUME NEW c, ClipShape(c), NEW v, NEW e, e = [c EXCEPT !.ids = v]
    PROVE  e = Known(c, c.table, v)
<1>1. PICK m, t, i, s, d : c = ClipOf(m, t, i, s, d)  BY DEF ClipShape
<1>2. c.table = t  BY <1>1, ClipOfIs
<1>3. e = ClipOf(m, t, v, s, d)  BY <1>1 DEF ClipOf
<1>4. PICK g : g = Known(c, t, v)  OBVIOUS
<1>5. g = ClipOf(m, t, v, s, d)  BY <1>1, <1>4 DEF ClipOf, Known
<1> QED BY <1>2, <1>3, <1>4, <1>5

Having(c, messages) == [c EXCEPT !.messages = messages]
LEMMA WithMessages ==
    ASSUME NEW c, ClipShape(c), NEW v, NEW e, e = Having(c, v)
    PROVE  /\ ClipShape(e) /\ e.messages = v /\ e.table = c.table /\ e.ids = c.ids
           /\ e.skipped = c.skipped /\ e.dropped = c.dropped
<1>1. PICK m, t, i, s, d : c = ClipOf(m, t, i, s, d)  BY DEF ClipShape
<1>2. c.table = t /\ c.ids = i /\ c.skipped = s /\ c.dropped = d  BY <1>1, ClipOfIs
<1>3. e = ClipOf(v, t, i, s, d)  BY <1>1 DEF ClipOf, Having
<1> QED BY <1>2, <1>3, ClipOfIs

(* A count of what was left out is no part of what the clip has.           *)
LEMMA WithCount ==
    ASSUME NEW c, IsClip(c), NEW e,
           e = [c EXCEPT !.skipped = @ + 1] \/ e = [c EXCEPT !.dropped = @ + 1]
    PROVE  IsClip(e) /\ e.messages = c.messages /\ e.table = c.table /\ e.ids = c.ids
<1>1. PICK m, t, i, s, d : c = ClipOf(m, t, i, s, d)  BY DEF IsClip, ClipShape
<1>2. /\ c.messages = m /\ c.table = t /\ c.ids = i /\ c.skipped = s /\ c.dropped = d
      /\ s \in Nat /\ d \in Nat
  <2>1. c.messages = m /\ c.table = t /\ c.ids = i /\ c.skipped = s /\ c.dropped = d
    BY <1>1, ClipOfIs
  <2> QED BY <2>1 DEF IsClip
<1>3. \E a \in Nat, b \in Nat : e = ClipOf(m, t, i, a, b)
  <2>1. e = ClipOf(m, t, i, s + 1, d) \/ e = ClipOf(m, t, i, s, d + 1)
    BY <1>1 DEF ClipOf
  <2>2. s + 1 \in Nat /\ d + 1 \in Nat /\ s \in Nat /\ d \in Nat  BY <1>2
  <2>3. CASE e = ClipOf(m, t, i, s + 1, d)
    <3>1. PICK a : a = s + 1  OBVIOUS
    <3> QED BY <2>2, <2>3, <3>1
  <2>4. CASE e = ClipOf(m, t, i, s, d + 1)
    <3>1. PICK b : b = d + 1  OBVIOUS
    <3> QED BY <2>2, <2>4, <3>1
  <2> QED BY <2>1, <2>3, <2>4
<1>4. PICK a \in Nat, b \in Nat : e = ClipOf(m, t, i, a, b)  BY <1>3
<1>5. /\ ClipShape(e) /\ e.messages = m /\ e.table = t /\ e.ids = i /\ e.skipped = a /\ e.dropped = b
  BY <1>4, ClipOfIs
<1> QED BY <1>2, <1>5 DEF IsClip

LEMMA CountHas ==
    ASSUME NEW M, NEW c, ClipHas(c, M), NEW e, IsClip(e),
           e.messages = c.messages, e.table = c.table, e.ids = c.ids
    PROVE  ClipHas(e, M)
BY DEF ClipHas, IdsMatch, CopyOf

(* o is c with an output id for the channel src.                           *)
Knows(c, src, o) ==
    /\ IsClip(o) /\ IdsMatch(o) /\ src \in DOMAIN o.ids /\ o.messages = c.messages
    /\ DOMAIN c.table \subseteq DOMAIN o.table
    /\ \A k \in DOMAIN c.table : o.table[k] = c.table[k]

PlanTyped == \A ch \in DOMAIN plan.channels : plan.channels[ch] \in Definition

LEMMA OutputChannel ==
    ASSUME NEW c, IsClip(c), IdsMatch(c), NEW src \in 1..3, PlanTyped
    PROVE  Knows(c, src, OutputChannelId(c, src))
<1> PICK o : o = OutputChannelId(c, src)  OBVIOUS
<1>1. /\ ClipShape(c) /\ c.messages \in Seq(Copied) /\ c.table \in Seq(Definition)
      /\ Map(c.ids, 1..3, Nat) /\ c.skipped \in Nat /\ c.dropped \in Nat
  BY DEF IsClip
<1>2. CASE src \in DOMAIN c.ids
  BY <1>2 DEF Knows, OutputChannelId
<1>3. ASSUME src \notin DOMAIN c.ids, NEW v \in Nat, NEW t \in Seq(Definition),
             o = Known(c, t, Insert(c.ids, src, v)),
             DOMAIN c.table \subseteq DOMAIN t, \A k \in DOMAIN c.table : t[k] = c.table[k],
             IF src \in DOMAIN plan.channels THEN v \in DOMAIN t /\ t[v] = plan.channels[src]
             ELSE v = 0
      PROVE  Knows(c, src, o)
  <2>1. PICK i : i = Insert(c.ids, src, v)  OBVIOUS
  <2>2. /\ Map(i, 1..3, Nat) /\ DOMAIN i = DOMAIN c.ids \cup {src} /\ i[src] = v
        /\ \A x \in DOMAIN c.ids : x # src => i[x] = c.ids[x]
    <3>1. PICK f, D, R, k, w : f = c.ids /\ D = 1..3 /\ R = Nat /\ k = src /\ w = v  OBVIOUS
    <3>2. Map(f, D, R) /\ k \in D /\ w \in R  BY <1>1, <3>1
    <3>3. i = Insert(f, k, w)  BY <2>1, <3>1
    <3>4. Map(i, D, R)  BY <3>2, <3>3, InsertIs
    <3>5. DOMAIN i = DOMAIN f \cup {k}  BY <3>3 DEF Insert
    <3>6. i[k] = w  BY <3>3 DEF Insert
    <3>7. \A x \in DOMAIN f : x # k => i[x] = f[x]  BY <3>3 DEF Insert
    <3> QED BY <3>1, <3>4, <3>5, <3>6, <3>7
  <2>3. o = Known(c, t, i)  BY <1>3, <2>1
  <2>4. /\ ClipShape(o) /\ o.messages = c.messages /\ o.table = t /\ o.ids = i
        /\ o.skipped = c.skipped /\ o.dropped = c.dropped
    BY <1>1, <2>3, WithIds
  <2>5. IsClip(o)  BY <1>1, <1>3, <2>2, <2>4 DEF IsClip
  <2>6. IdsMatch(o)
    <3> SUFFICES ASSUME NEW x \in DOMAIN i
                 PROVE  IF x \in DOMAIN plan.channels THEN i[x] \in DOMAIN t /\ t[i[x]] = plan.channels[x]
                        ELSE i[x] = 0
      BY <2>4 DEF IdsMatch
    <3>1. CASE x = src  BY <1>3, <2>2, <3>1
    <3>2. CASE x # src
      <4>1. x \in DOMAIN c.ids /\ i[x] = c.ids[x]  BY <2>2, <3>2
      <4>2. IF x \in DOMAIN plan.channels
            THEN c.ids[x] \in DOMAIN c.table /\ c.table[c.ids[x]] = plan.channels[x]
            ELSE c.ids[x] = 0
        BY <4>1 DEF IdsMatch
      <4> QED BY <1>3, <4>1, <4>2
    <3> QED BY <3>1, <3>2
  <2> QED BY <1>3, <2>2, <2>4, <2>5, <2>6 DEF Knows
<1>4. CASE src \notin DOMAIN c.ids /\ src \notin DOMAIN plan.channels
  <2>1. PICK i : i = Insert(c.ids, src, 0)  OBVIOUS
  <2>2. o = [c EXCEPT !.ids = i]  BY <1>4, <2>1 DEF OutputChannelId
  <2>3. PICK t : t = c.table  OBVIOUS
  <2>4. o = Known(c, t, i)  BY <1>1, <2>2, <2>3, OnlyIds
  <2> QED BY <1>1, <1>3, <1>4, <2>1, <2>3, <2>4
<1>5. CASE src \notin DOMAIN c.ids /\ src \in DOMAIN plan.channels
  <2>1. PICK def : def = plan.channels[src] /\ def \in Definition  BY <1>5 DEF PlanTyped
  <2>2. PICK t : t = IF def \in Range(c.table) THEN c.table ELSE Append(c.table, def)  OBVIOUS
  <2>3. PICK v : v = CHOOSE k \in DOMAIN t : t[k] = def  OBVIOUS
  <2>4. o = Known(c, t, Insert(c.ids, src, v))
    BY <1>5, <2>1, <2>2, <2>3 DEF OutputChannelId, Known
  <2>5. /\ t \in Seq(Definition) /\ DOMAIN c.table \subseteq DOMAIN t
        /\ \A k \in DOMAIN c.table : t[k] = c.table[k]
        /\ \E k \in DOMAIN t : t[k] = def
    <3>1. CASE def \in Range(c.table)  BY <1>1, <2>2, <3>1 DEF Range
    <3>2. CASE def \notin Range(c.table)
      <4>1. t = Append(c.table, def)  BY <2>2, <3>2
      <4> QED BY <1>1, <2>1, <4>1
    <3> QED BY <3>1, <3>2
  <2>6. v \in DOMAIN t /\ t[v] = def /\ v \in Nat  BY <2>3, <2>5
  <2> QED BY <1>3, <1>5, <2>1, <2>4, <2>5, <2>6
<1> QED BY <1>2, <1>4, <1>5

LEMMA MessageCopies ==
    ASSUME NEW M \in SUBSET Stamped, NEW c, ClipHas(c, M), PlanTyped, NEW m \in Stamped,
           \A y \in M : y.n < m.n
    PROVE  ClipHas(CopyMessage(c, m), M \cup {m})
<1>1. PICK o : o = OutputChannelId(c, m.ch)  OBVIOUS
<1>2. Knows(c, m.ch, o)
  <2>1. m.ch \in 1..3  BY StampedIs
  <2> QED BY <1>1, <2>1, OutputChannel DEF ClipHas
<1>3. /\ IsClip(o) /\ IdsMatch(o) /\ m.ch \in DOMAIN o.ids /\ o.messages = c.messages
      /\ \A k \in DOMAIN c.table : k \in DOMAIN o.table /\ o.table[k] = c.table[k]
  BY <1>2 DEF Knows
<1>4. /\ {x.n : x \in Range(c.messages)} = {y.n : y \in Wanted(M)} /\ InOrder(c.messages)
      /\ \A x \in Range(c.messages), y \in Wanted(M) : CopyOf(c, x, y)
  BY DEF ClipHas
<1>5. Wanted(M) \subseteq M
      /\ \A x \in Range(c.messages) : \E y \in Wanted(M) : x.n = y.n
  <2>1. Wanted(M) \subseteq M  BY DEF Wanted
  <2> QED BY <1>4, <2>1
<1>6. m.n \in Nat /\ \A y \in M : y.n \in Nat  BY StampedIs
<1>7. CASE ~(InWindow(m, window) /\ m.ch \in DOMAIN plan.channels)
  <2>1. Wanted(M \cup {m}) = Wanted(M)  BY <1>7 DEF Wanted
  <2>2. CASE ~InWindow(m, window)
    <3>1. CopyMessage(c, m) = c  BY <2>2 DEF CopyMessage
    <3> QED BY <2>1, <3>1 DEF ClipHas
  <2>3. CASE InWindow(m, window)
    <3>1. o.ids[m.ch] = 0  BY <1>3, <1>7, <2>3 DEF IdsMatch
    <3>2. CopyMessage(c, m) = [o EXCEPT !.skipped = @ + 1]  BY <1>1, <2>3, <3>1 DEF CopyMessage
    <3>3. ClipHas(o, M)
      <4>1. \A x \in Range(c.messages), y \in Wanted(M) : CopyOf(o, x, y)
        BY <1>3, <1>4 DEF CopyOf
      <4> QED BY <1>3, <1>4, <4>1 DEF ClipHas
    <3>4. PICK e : e = [o EXCEPT !.skipped = @ + 1]  OBVIOUS
    <3>5. IsClip(e) /\ e.messages = o.messages /\ e.table = o.table /\ e.ids = o.ids
      BY <1>3, <3>4, WithCount
    <3>6. ClipHas(e, M)  BY <3>3, <3>5, CountHas
    <3>7. PICK N : N = M \cup {m}  OBVIOUS
    <3>8. Wanted(N) = Wanted(M)  BY <2>1, <3>7
    <3>9. ClipHas(e, N)  BY <3>6, <3>8 DEF ClipHas
    <3> QED BY <3>2, <3>4, <3>7, <3>9
  <2> QED BY <2>2, <2>3
<1>8. CASE InWindow(m, window) /\ m.ch \in DOMAIN plan.channels
  <2>1. PICK id : id = o.ids[m.ch]  OBVIOUS
  <2>2. id \in DOMAIN o.table /\ o.table[id] = plan.channels[m.ch] /\ id \in Nat /\ id # 0
    <3>1. id \in DOMAIN o.table /\ o.table[id] = plan.channels[m.ch]
      BY <1>3, <1>8, <2>1 DEF IdsMatch
    <3>2. o.table \in Seq(Definition)  BY <1>3 DEF IsClip
    <3> QED BY <3>1, <3>2
  <2>3. PICK z : z = [n |-> m.n, ch |-> id]  OBVIOUS
  <2>4. z.n = m.n /\ z.ch = id /\ z \in Copied  BY <1>6, <2>2, <2>3 DEF Copied
  <2>5. PICK s : s = c.messages  OBVIOUS
  <2>6. s \in Seq(Copied)  BY <2>5 DEF ClipHas, IsClip
  <2>7. PICK t : t = Append(s, z)  OBVIOUS
  <2>8. PICK e : e = Having(o, t)  OBVIOUS
  <2>9. CopyMessage(c, m) = e
    BY <1>1, <1>3, <1>8, <2>1, <2>2, <2>3, <2>5, <2>7, <2>8 DEF CopyMessage, Having
  <2>10. /\ t \in Seq(Copied) /\ Range(t) = Range(s) \cup {z}
         /\ \A i \in DOMAIN t : (i \in DOMAIN s /\ t[i] = s[i]) \/ (i = Len(s) + 1 /\ t[i] = z)
    <3>1. PICK q : q = Len(s)  OBVIOUS
    <3>2. /\ q \in Nat /\ t \in Seq(Copied) /\ DOMAIN s = 1..q /\ DOMAIN t = 1..q + 1
          /\ \A i \in 1..q : t[i] = s[i]
          /\ t[q + 1] = z
      BY <2>4, <2>6, <2>7, <3>1
    <3>3. \A i \in 1..q + 1 : i \in 1..q \/ i = q + 1  BY <3>2
    <3>4. 1..q \subseteq 1..q + 1 /\ q + 1 \in 1..q + 1  BY <3>2
    <3>5. \A i \in DOMAIN t : (i \in DOMAIN s /\ t[i] = s[i]) \/ (i = q + 1 /\ t[i] = z)
      BY <3>2, <3>3
    <3>6. \A x : x \in Range(t) <=> x \in Range(s) \/ x = z
      BY <3>2, <3>3, <3>4 DEF Range
    <3> QED BY <3>1, <3>2, <3>5, <3>6
  <2>11. \A x \in Range(s) : x.n \in Nat /\ x.n < m.n
    <3> TAKE x \in Range(s)
    <3>1. PICK y \in Wanted(M) : x.n = y.n  BY <1>5, <2>5
    <3> QED BY <1>5, <1>6, <3>1
  <2>12. InOrder(t)
    <3> SUFFICES ASSUME NEW i \in DOMAIN t, NEW j \in DOMAIN t, i < j  PROVE t[i].n < t[j].n
      BY DEF InOrder
    <3>1. Len(s) \in Nat /\ DOMAIN s = 1..Len(s) /\ i \in Nat /\ j \in Nat  BY <2>6, <2>10
    <3>2. CASE j \in DOMAIN s /\ t[j] = s[j]
      <4>1. i \in DOMAIN s /\ t[i] = s[i]  BY <2>10, <3>1, <3>2
      <4> QED BY <1>4, <2>5, <3>2, <4>1 DEF InOrder
    <3>3. CASE j = Len(s) + 1 /\ t[j] = z
      <4>1. i \in DOMAIN s /\ t[i] = s[i]  BY <2>10, <3>1, <3>3
      <4>2. t[i] \in Range(s)  BY <4>1 DEF Range
      <4> QED BY <2>4, <2>11, <3>3, <4>2
    <3> QED BY <2>10, <3>2, <3>3
  <2>13. Wanted(M \cup {m}) = Wanted(M) \cup {m}
    <3>1. \A y : y \in Wanted(M \cup {m}) <=> y \in Wanted(M) \/ y = m  BY <1>8 DEF Wanted
    <3> QED BY <3>1
  <2>14. {x.n : x \in Range(t)} = {y.n : y \in Wanted(M \cup {m})}
    <3>1. \A v : v \in {x.n : x \in Range(s)} <=> v \in {y.n : y \in Wanted(M)}  BY <1>4, <2>5
    <3>2. PICK W, R : W = Wanted(M) /\ R = Range(s)  OBVIOUS
    <3>3. {x.n : x \in R} = {y.n : y \in W}  BY <3>1, <3>2
    <3>4. {x.n : x \in R \cup {z}} = {y.n : y \in W \cup {m}}
      <4>1. {x.n : x \in R \cup {z}} = {x.n : x \in R} \cup {z.n}  OBVIOUS
      <4>2. {y.n : y \in W \cup {m}} = {y.n : y \in W} \cup {m.n}  OBVIOUS
      <4>3. z.n = m.n  BY <2>4
      <4> QED BY <3>3, <4>1, <4>2, <4>3
    <3> QED BY <2>10, <2>13, <3>2, <3>4
  <2>15. /\ ClipShape(e) /\ e.messages = t /\ e.table = o.table /\ e.ids = o.ids
         /\ e.skipped = o.skipped /\ e.dropped = o.dropped
    <3>1. ClipShape(o)  BY <1>3 DEF IsClip
    <3> QED BY <2>8, <3>1, WithMessages
  <2>16. IsClip(e) /\ IdsMatch(e)  BY <1>3, <2>10, <2>15 DEF IsClip, IdsMatch
  <2>17. ASSUME NEW x \in Range(t), NEW y \in Wanted(M \cup {m}), x.n = y.n
         PROVE  x.ch \in DOMAIN o.table /\ o.table[x.ch] = plan.channels[y.ch]
    <3>1. CASE x \in Range(s) /\ y \in Wanted(M)
      <4>1. x.ch \in DOMAIN c.table /\ c.table[x.ch] = plan.channels[y.ch]
        BY <1>4, <2>5, <2>17, <3>1 DEF CopyOf
      <4> QED BY <1>3, <4>1
    <3>2. CASE x \in Range(s) /\ y = m  BY <2>11, <2>17, <3>2
    <3>3. CASE x = z /\ y \in Wanted(M)
      <4>1. y.n < m.n /\ y.n \in Nat  BY <1>5, <1>6, <3>3
      <4> QED BY <1>6, <2>4, <2>17, <3>3, <4>1
    <3>4. CASE x = z /\ y = m  BY <2>2, <2>4, <3>4
    <3> QED BY <2>10, <2>13, <3>1, <3>2, <3>3, <3>4
  <2>18. \A x \in Range(t), y \in Wanted(M \cup {m}) : CopyOf(e, x, y)
    BY <2>15, <2>17 DEF CopyOf
  <2> QED BY <2>9, <2>12, <2>14, <2>15, <2>16, <2>18 DEF ClipHas
<1> QED BY <1>7, <1>8


LEMMA ItemCopies ==
    ASSUME NEW M \in SUBSET Stamped, NEW c, ClipHas(c, M), PlanTyped, NEW x \in Item,
           \A y \in M : y.n < x.n
    PROVE  ClipHas(CopyItem(c, x), M \cup Messages({x}))
<1>1. CASE IsMessage(x)
  <2>1. x \in Stamped  BY <1>1, ItemKinds
  <2>2. Messages({x}) = {x}  BY <1>1 DEF Messages
  <2>3. CopyItem(c, x) = CopyMessage(c, x)  BY <1>1 DEF CopyItem
  <2> QED BY <2>1, <2>2, <2>3, MessageCopies
<1>2. CASE ~IsMessage(x)
  <2>1. M \cup Messages({x}) = M  BY <1>2 DEF Messages
  <2>2. CopyItem(c, x) = c  BY <1>2 DEF CopyItem
  <2> QED BY <2>1, <2>2
<1> QED BY <1>1, <1>2

LEMMA ItemsCopy ==
    ASSUME NEW M \in SUBSET Stamped, NEW c, ClipHas(c, M), PlanTyped,
           NEW items, Sorted(items), \A y \in M, x \in Range(items) : y.n < x.n
    PROVE  ClipHas(CopyingItems(c, items)[Len(items)], M \cup Messages(Range(items)))
<1> DEFINE n == Len(items)
           F == CopyingItems(c, items)
           Upto(j) == {items[i] : i \in 1..j}
           K == {j \in 0..n : ClipHas(F[j], M \cup Messages(Upto(j)))}
<1>1. /\ items \in Seq(Item) /\ n \in Nat /\ DOMAIN items = 1..n
      /\ F[0] = c /\ \A j \in 0..n : j < n => F[j + 1] = CopyItem(F[j], items[j + 1])
  BY CopyingItemsIs DEF Sorted
<1> HIDE DEF F, n
<1>2. 0 \in K
  <2>1. Upto(0) = {} /\ 0 \in 0..n  BY <1>1
  <2>2. M \cup Messages({}) = M  BY DEF Messages
  <2> HIDE DEF Upto
  <2> QED BY <1>1, <2>1, <2>2
<1>3. ASSUME NEW j \in 0..n, j < n, j \in K  PROVE j + 1 \in K
  <2> DEFINE y == items[j + 1]
             X == Upto(j)
  <2>1. j + 1 \in 1..n /\ j + 1 \in 0..n /\ y \in Item /\ y \in Range(items)
    BY <1>1, <1>3 DEF Range
  <2>2. ASSUME NEW x \in X  PROVE x \in Item /\ x.n < y.n
    <3>1. PICK i \in 1..j : x = items[i]  OBVIOUS
    <3>2. i \in 1..n /\ i < j + 1  BY <1>1, <1>3
    <3>3. items[i].n < items[j + 1].n  BY <1>1, <2>1, <3>2 DEF Sorted, InOrder
    <3> QED BY <1>1, <3>1, <3>2, <3>3
  <2>3. Upto(j + 1) = X \cup {y}
    <3>1. 1..j + 1 = (1..j) \cup {j + 1}  BY <1>1, <1>3
    <3> QED BY <3>1
  <2>4. ClipHas(F[j], M \cup Messages(X))  BY <1>3
  <2> HIDE DEF X, y, Upto
  <2>5. PICK N : N = M \cup Messages(X)  OBVIOUS
  <2>6. N \in SUBSET Stamped
    <3>1. X \in SUBSET Item  BY <2>2
    <3> QED BY <2>5, <3>1, MessagesAre
  <2>7. \A x \in N : x.n < y.n  BY <2>1, <2>2, <2>5 DEF Messages
  <2>8. ClipHas(CopyItem(F[j], y), N \cup Messages({y}))  BY <2>1, <2>4, <2>5, <2>6, <2>7, ItemCopies
  <2>9. N \cup Messages({y}) = M \cup Messages(Upto(j + 1))  BY <2>3, <2>5 DEF Messages
  <2>10. F[j + 1] = CopyItem(F[j], y)  BY <1>1, <1>3 DEF y
  <2> QED BY <2>1, <2>8, <2>9, <2>10
<1>4. n \in K
  <2> HIDE DEF K
  <2>1. n \in 0..n  BY <1>1
  <2>2. \A k \in 0..n : k < n /\ k \in K => k + 1 \in K  BY <1>3
  <2> QED BY <1>1, <1>2, <2>1, <2>2, AllUpTo
<1>5. Upto(n) = Range(items)  BY <1>1 DEF Range
<1> QED BY <1>4, <1>5 DEF n, F

(* Of a damaged record nothing is copied.                                  *)
LEMMA RecordCopies ==
    ASSUME NEW M \in SUBSET Stamped, NEW c, ClipHas(c, M), PlanTyped,
           NEW r \in Record, Formed(r), r.kind # "footer", Sorted(r.inner),
           \A y \in M, x \in Range(r.inner) : y.n < x.n
    PROVE  ClipHas(CopyRecord(c, r), M \cup Messages(Sound(r)))
<1>1. CASE ~r.ok
  <2>1. M \cup Messages(Sound(r)) = M  BY <1>1 DEF Sound, Messages
  <2>2. CopyRecord(c, r) \in {c, [c EXCEPT !.skipped = @ + 1], [c EXCEPT !.dropped = @ + 1]}
    BY <1>1 DEF CopyRecord, CopyChunk
  <2>3. PICK e : e = CopyRecord(c, r)  OBVIOUS
  <2>4. CASE e = c  BY <2>1, <2>3, <2>4
  <2>5. CASE e = [c EXCEPT !.skipped = @ + 1] \/ e = [c EXCEPT !.dropped = @ + 1]
    <3>1. IsClip(c)  BY DEF ClipHas
    <3>2. IsClip(e) /\ e.messages = c.messages /\ e.table = c.table /\ e.ids = c.ids
      BY <2>5, <3>1, WithCount
    <3>3. ClipHas(e, M)  BY <3>2, CountHas
    <3> QED BY <2>1, <2>3, <3>3
  <2> QED BY <2>2, <2>3, <2>4, <2>5
<1>2. CASE r.ok /\ r.kind = "chunk"
  <2>1. CopyRecord(c, r) = CopyingItems(c, r.inner)[Len(r.inner)]  BY <1>2 DEF CopyRecord, CopyChunk
  <2>2. Sound(r) = Range(r.inner)  BY <1>2 DEF Sound
  <2> QED BY <2>1, <2>2, ItemsCopy
<1>3. CASE r.ok /\ r.kind # "chunk"
  <2>1. r.kind = "single" /\ r.inner \in Seq(Item)  BY <1>3 DEF Record
  <2>2. Len(r.inner) = 1  BY <2>1 DEF Formed
  <2>3. PICK x : x = r.inner[1]  OBVIOUS
  <2>4. x \in Item /\ Range(r.inner) = {x}  BY <2>1, <2>2, <2>3 DEF Range
  <2>5. Sound(r) = {x}  BY <1>3, <2>4 DEF Sound
  <2>6. CopyRecord(c, r) = CopyItem(c, x)  BY <1>3, <2>3 DEF CopyRecord, CopyItem
  <2>7. ClipHas(CopyItem(c, x), M \cup Messages({x}))  BY <2>4, ItemCopies
  <2> QED BY <2>5, <2>6, <2>7
<1> QED BY <1>1, <1>2, <1>3

LEMMA NextCopies ==
    ASSUME WriterInv, PlanTyped, NEW k \in 1..Readable, NEW S \in SUBSET (1..k - 1),
           NEW c, ClipHas(c, Messages(Items(S)))
    PROVE  ClipHas(CopyRecord(c, file[k]), Messages(Items(S \cup {k})))
<1>1. PICK n : n = Len(file) /\ n \in Nat  BY FileLength
<1>2. Readable \in 0..n  BY <1>1, ReadableIs
<1>3. k \in 1..n /\ S \in SUBSET (1..n)  BY <1>1, <1>2
<1>4. PICK M : M = Messages(Items(S))  OBVIOUS
<1>5. M \in SUBSET Stamped  BY <1>1, <1>3, <1>4, ItemsTyped
<1>6. PICK r : r = file[k]  OBVIOUS
<1>7. r \in Record /\ Formed(r) /\ Sorted(r.inner) /\ r.kind # "footer"
  BY <1>1, <1>3, <1>6, FileIs
<1>8. ASSUME NEW y \in M, NEW x \in Range(r.inner)  PROVE y.n < x.n
  <2>1. y \in Items(S)  BY <1>4 DEF Messages
  <2>2. PICK j \in S : y \in Range(file[j].inner)  BY <2>1, ItemsAre
  <2>3. j \in 1..Len(file) /\ k \in 1..Len(file) /\ j < k  BY <1>1, <1>3, <2>2
  <2> QED BY <1>6, <1>8, <2>2, <2>3, FileInOrder
<1>9. ClipHas(CopyRecord(c, r), M \cup Messages(Sound(r)))
  BY <1>4, <1>5, <1>7, <1>8, RecordCopies
<1>10. Messages(Items(S \cup {k})) = M \cup Messages(Sound(r))
  <2>1. PICK T : T = {k}  OBVIOUS
  <2>2. Messages(Items(S \cup T)) = M \cup Messages(Items(T))  BY <1>4, ItemsAre
  <2>3. Items(T) = Sound(r)  BY <1>6, <2>1, ItemsAre
  <2> QED BY <2>1, <2>2, <2>3
<1> QED BY <1>6, <1>9, <1>10

LEMMA ExtentCopies ==
    ASSUME WriterInv, PlanTyped, NEW e \in Extent, e.offset + e.len <= Readable,
           NEW S \in SUBSET (1..e.offset), NEW c, ClipHas(c, Messages(Items(S)))
    PROVE  ClipHas(CopyExtent(c, e), Messages(Items(S \cup Reach(e))))
<1> DEFINE F == CopyingRecords(c, e)
           Upto(j) == S \cup (e.offset + 1..e.offset + j)
           K == {j \in 0..e.len : ClipHas(F[j], Messages(Items(Upto(j))))}
<1>1. e.offset \in Nat /\ e.len \in Nat /\ Readable \in Nat  BY ExtentIs, ReadableInNat
<1>2. /\ F[0] = c
      /\ \A j \in 0..e.len : j < e.len => F[j + 1] = CopyRecord(F[j], file[e.offset + (j + 1)])
  BY <1>1, CopyingRecordsIs
<1> HIDE DEF F
<1>3. 0 \in K
  <2>1. Upto(0) = S /\ 0 \in 0..e.len  BY <1>1
  <2> HIDE DEF Upto
  <2> QED BY <1>2, <2>1
<1>4. ASSUME NEW j \in 0..e.len, j < e.len, j \in K  PROVE j + 1 \in K
  <2>1. PICK k : k = e.offset + (j + 1)  OBVIOUS
  <2>2. k \in 1..Readable /\ k - 1 = e.offset + j /\ j + 1 \in 0..e.len  BY <1>1, <1>4, <2>1
  <2>3. PICK T : T = Upto(j)  OBVIOUS
  <2>4. T \in SUBSET (1..k - 1)
    <3>1. \A i \in 1..e.offset : i \in 1..e.offset + j  BY <1>1, <1>4
    <3>2. \A i \in e.offset + 1..e.offset + j : i \in 1..e.offset + j  BY <1>1, <1>4
    <3> QED BY <2>2, <2>3, <3>1, <3>2
  <2>5. ClipHas(F[j], Messages(Items(T)))  BY <1>4, <2>3
  <2>6. Upto(j + 1) = T \cup {k}
    <3>1. e.offset + 1..e.offset + (j + 1) = (e.offset + 1..e.offset + j) \cup {k}
      BY <1>1, <1>4, <2>1
    <3> QED BY <2>3, <3>1
  <2> HIDE DEF Upto
  <2>7. ClipHas(CopyRecord(F[j], file[k]), Messages(Items(T \cup {k})))
    BY <2>2, <2>4, <2>5, NextCopies
  <2>8. F[j + 1] = CopyRecord(F[j], file[k])  BY <1>2, <1>4, <2>1
  <2> QED BY <2>2, <2>6, <2>7, <2>8
<1>5. e.len \in K
  <2> HIDE DEF K
  <2>1. e.len \in 0..e.len  BY <1>1
  <2>2. \A k \in 0..e.len : k < e.len /\ k \in K => k + 1 \in K  BY <1>4
  <2> QED BY <1>1, <1>3, <2>1, <2>2, AllUpTo
<1>6. Upto(e.len) = S \cup Reach(e)  BY DEF Reach
<1>7. CopyExtent(c, e) = F[e.len]  BY DEF CopyExtent, F
<1> QED BY <1>5, <1>6, <1>7

LEMMA DefinitionsTyped ==
    ASSUME WriterInv, plan.upto \in 0..Len(file), RegistryInv(plan.channels, plan.upto)
    PROVE  PlanTyped
<1> SUFFICES ASSUME NEW ch \in DOMAIN plan.channels  PROVE plan.channels[ch] \in Definition
  BY DEF PlanTyped
<1>1. PICK n : n = plan.upto  OBVIOUS
<1>2. plan.channels[ch] \in Declared(n, ch)  BY <1>1 DEF RegistryInv
<1>3. PICK x \in Channels(n) : plan.channels[ch] = Resolved(x, Schemas(n))
  BY <1>2 DEF Declared
<1>4. x \in Item /\ x.kind = "channel"
  <2>1. n \in Nat /\ 1..n \in SUBSET (1..Len(file))  BY <1>1, FileLength
  <2>2. x \in Items(1..n) /\ x.kind = "channel"  BY <1>3, <2>1, GoodIs
  <2>3. Items(1..n) \in SUBSET Item  BY <2>1, ItemsTyped
  <2> QED BY <2>2, <2>3
<1>5. x.topic \in Topics /\ x.schema \in Nat  BY <1>4 DEF Item, Stamped
<1> QED BY <1>3, <1>5 DEF Resolved, Definition

LEMMA EmptyClip ==
    ASSUME NEW e, e \in Seq(Copied), e \in Seq(Definition), DOMAIN e = {},
           NEW c, c = ClipOf(e, e, e, 0, 0)
    PROVE  ClipHas(c, {})
<1>1. ClipShape(c) /\ c.messages = e /\ c.table = e /\ c.ids = e /\ c.skipped = 0 /\ c.dropped = 0
  BY ClipOfIs
<1>3. Map(e, 1..3, Nat)
  <2>1. e = [x \in DOMAIN e |-> e[x]]  OBVIOUS
  <2> QED BY <2>1 DEF Map
<1>4. IsClip(c)
  <2>1. c.messages \in Seq(Copied) /\ c.table \in Seq(Definition) /\ Map(c.ids, 1..3, Nat)
    BY <1>1, <1>3
  <2>2. c.skipped \in Nat /\ c.dropped \in Nat  BY <1>1
  <2> QED BY <1>1, <2>1, <2>2 DEF IsClip
<1>5. IdsMatch(c)  BY <1>1 DEF IdsMatch
<1>6. Range(e) = {} /\ Wanted({}) = {} /\ InOrder(e)  BY DEF Range, Wanted, InOrder
<1> QED BY <1>1, <1>4, <1>5, <1>6 DEF ClipHas


(* The planned extents, one after the other.                               *)
LEMMA ExtentsCopy ==
    ASSUME WriterInv, PlanTyped, NEW E, E = plan.extents, E \in Seq(Extent),
           NEW upto \in 0..Readable, \A k \in DOMAIN E : E[k].offset + E[k].len <= upto,
           \A k, l \in DOMAIN E : k < l => E[k].offset + E[k].len <= E[l].offset,
           ClipHas(clip, {}), NEW n, n = Len(E)
    PROVE  \E S \in SUBSET (1..upto) :
             /\ \A k \in DOMAIN E : Reach(E[k]) \subseteq S
             /\ ClipHas(Copying[n], Messages(Items(S)))
<1> DEFINE Upto(j) == UNION {Reach(E[k]) : k \in 1..j}
           K == {j \in 0..n : ClipHas(Copying[j], Messages(Items(Upto(j))))}
<1>1. /\ n \in Nat /\ DOMAIN E = 1..n /\ Readable \in Nat
      /\ \A k \in 1..n : E[k] \in Extent /\ E[k].offset \in Nat /\ E[k].len \in Nat
  BY ExtentIs, ReadableInNat
<1>2. /\ Copying[0] = clip
      /\ \A j \in 0..n : j < n => Copying[j + 1] = CopyExtent(Copying[j], E[j + 1])
  BY CopyingIs
<1>3. 0 \in K
  <2>1. Upto(0) = {} /\ 0 \in 0..n  BY <1>1
  <2>2. Messages(Items({})) = {}  BY DEF Messages, Items
  <2> HIDE DEF Upto
  <2> QED BY <1>2, <2>1, <2>2
<1>4. ASSUME NEW j \in 0..n, j < n, j \in K  PROVE j + 1 \in K
  <2>1. PICK e : e = E[j + 1]  OBVIOUS
  <2>2. j + 1 \in 1..n /\ j + 1 \in 0..n /\ e \in Extent /\ e.offset + e.len <= upto
    BY <1>1, <1>4, <2>1
  <2>3. PICK S : S = Upto(j)  OBVIOUS
  <2>4. S \in SUBSET (1..e.offset)
    <3> SUFFICES ASSUME NEW k \in 1..j, NEW i \in Reach(E[k])  PROVE i \in 1..e.offset
      BY <2>3
    <3>1. k \in 1..n /\ k < j + 1  BY <1>1, <1>4
    <3>2. E[k].offset + E[k].len <= e.offset  BY <1>1, <2>1, <2>2, <3>1
    <3>3. E[k].offset \in Nat /\ E[k].len \in Nat /\ e.offset \in Nat  BY <1>1, <2>2, <3>1, ExtentIs
    <3>4. PICK a, b, c : a = E[k].offset /\ b = E[k].len /\ c = e.offset  OBVIOUS
    <3>5. a \in Nat /\ b \in Nat /\ c \in Nat /\ a + b <= c /\ i \in a + 1..a + b
      BY <3>2, <3>3, <3>4 DEF Reach
    <3>6. i \in 1..c  BY <3>5
    <3> QED BY <3>4, <3>6
  <2>5. Upto(j + 1) = S \cup Reach(e)
    <3>1. 1..j + 1 = (1..j) \cup {j + 1}  BY <1>1, <1>4
    <3> QED BY <2>1, <2>3, <3>1
  <2>6. ClipHas(Copying[j], Messages(Items(S)))  BY <1>4, <2>3
  <2> HIDE DEF Upto
  <2>7. e.offset + e.len <= Readable
    <3>1. e.offset \in Nat /\ e.len \in Nat /\ upto \in Nat /\ upto <= Readable
      BY <1>1, <2>2, ExtentIs
    <3> QED BY <1>1, <2>2, <3>1
  <2>8. ClipHas(CopyExtent(Copying[j], e), Messages(Items(S \cup Reach(e))))
    BY <2>2, <2>4, <2>6, <2>7, ExtentCopies
  <2> QED BY <1>2, <1>4, <2>1, <2>2, <2>5, <2>8
<1>5. n \in K
  <2> HIDE DEF K
  <2>1. n \in 0..n  BY <1>1
  <2>2. \A k \in 0..n : k < n /\ k \in K => k + 1 \in K  BY <1>4
  <2> QED BY <1>1, <1>3, <2>1, <2>2, AllUpTo
<1>6. Upto(n) \in SUBSET (1..upto)
  <2> SUFFICES ASSUME NEW k \in 1..n, NEW i \in Reach(E[k])  PROVE i \in 1..upto
    OBVIOUS
  <2>1. E[k].offset \in Nat /\ E[k].len \in Nat /\ upto \in Nat  BY <1>1
  <2>2. E[k].offset + E[k].len <= upto  BY <1>1
  <2> QED BY <2>1, <2>2 DEF Reach
<1>7. \A k \in DOMAIN E : Reach(E[k]) \subseteq Upto(n)  BY <1>1
<1> QED BY <1>5, <1>6, <1>7

LEMMA WantedHas ==
    ASSUME NEW c, NEW M, NEW G, ClipHas(c, M), Wanted(M) = Wanted(G)
    PROVE  ClipHas(c, G)
BY DEF ClipHas

LEMMA CopyKeeps ==
    ASSUME WriterInv, ScanInv, HandlerInv, Copy
    PROVE  HandlerInv'
<1>1. /\ hpc = "planned" /\ hpc' = "done" /\ clip' = Copying[Len(plan.extents)]
      /\ UNCHANGED <<clock, writerVars, tailVars, window, released, plan>>
  BY DEF Copy
<1>2. UNCHANGED <<file, style, offset, index>>  BY <1>1 DEF writerVars, tailVars
<1>3. PlanInv  BY <1>1 DEF HandlerInv
<1>4. PICK n, E, r : n = plan.upto /\ E = plan.extents /\ r = Len(plan.extents)  OBVIOUS
<1>5. offset \in Nat /\ offset <= Readable /\ offset \in 0..Len(file) /\ n \in 0..offset
  BY <1>3, <1>4 DEF ScanInv, PlanInv
<1>6. n \in Nat /\ n \in 0..Readable /\ n \in 0..Len(file)
  BY <1>5, ReadableInNat, FileLength
<1>7. /\ E \in Seq(Extent) /\ \A k \in DOMAIN E : E[k].offset + E[k].len <= n
      /\ \A k, l \in DOMAIN E : k < l => E[k].offset + E[k].len <= E[l].offset
      /\ \A i \in 1..n : \A m \in Messages(Items({i})) :
           InWindow(m, window) => \E k \in DOMAIN E : i \in Reach(E[k])
  BY <1>3, <1>4 DEF PlanInv
<1>8. PlanTyped  BY <1>3, <1>4, <1>6, DefinitionsTyped DEF PlanInv
<1>9. ClipHas(clip, {})
  <2>1. PICK e : e = << >>  OBVIOUS
  <2>2. e \in Seq(Copied) /\ e \in Seq(Definition) /\ DOMAIN e = {}  BY <2>1
  <2>3. clip = ClipOf(e, e, e, 0, 0)  BY <1>1, <2>1 DEF HandlerInv, ClipOf
  <2> QED BY <2>2, <2>3, EmptyClip
<1>10. PICK S \in SUBSET (1..n) : /\ \A k \in DOMAIN E : Reach(E[k]) \subseteq S
                                  /\ ClipHas(Copying[r], Messages(Items(S)))
  BY <1>4, <1>6, <1>7, <1>8, <1>9, ExtentsCopy
<1>11. PICK M, G : M = Messages(Items(S)) /\ G = GoodMessages(n)  OBVIOUS
<1>12. G = Messages(Items(1..n))  BY <1>6, <1>11, GoodIs
<1>13. M \subseteq G
  <2>1. Items(S) \subseteq Items(1..n)  BY ItemsAre
  <2> QED BY <1>11, <1>12, <2>1 DEF Messages
<1>14. ASSUME NEW m \in G, InWindow(m, window)  PROVE m \in M
  <2>1. PICK i \in 1..n : file[i].ok /\ m \in Range(file[i].inner)
    BY <1>12, ItemsAre DEF Messages
  <2>2. m \in Messages(Items({i}))
    <3>1. PICK T : T = {i}  OBVIOUS
    <3>2. m \in Items(T)  BY <2>1, <3>1, ItemsAre
    <3> QED BY <1>12, <3>1, <3>2 DEF Messages
  <2>3. i \in S  BY <1>7, <1>10, <1>14, <2>2
  <2>4. m \in Items(S)  BY <2>1, <2>3, ItemsAre
  <2> QED BY <1>11, <1>12, <2>4 DEF Messages
<1>15. Wanted(M) = Wanted(G)  BY <1>13, <1>14 DEF Wanted
<1>16. PICK c : c = Copying[r]  OBVIOUS
<1>17. ClipHas(c, G)  BY <1>10, <1>11, <1>15, <1>16, WantedHas
<1>18. clip' = c /\ plan' = plan /\ window' = window  BY <1>1, <1>4, <1>16
<1>19. ClipHas(c, G)'  BY <1>17, <1>18 DEF ClipHas, IdsMatch, CopyOf, Wanted, InWindow, StampOf
<1>20. GoodMessages(plan.upto)' = G
  <2>1. GoodMessages(n)' = GoodMessages(n)  BY <1>2 DEF GoodMessages, Good
  <2> QED BY <1>4, <1>11, <1>18, <2>1
<1>21. PlanInv'
  <2>1. (\A i \in 1..plan.upto : \A m \in Messages(Items({i})) :
          InWindow(m, window) => \E k \in DOMAIN plan.extents : i \in Reach(plan.extents[k]))'
    <3>1. \A i : Messages(Items({i}))' = Messages(Items({i}))  BY <1>2 DEF Messages, Items
    <3>2. plan'.upto = n /\ plan'.extents = E  BY <1>4, <1>18
    <3> QED BY <1>7, <1>18, <3>1, <3>2 DEF InWindow, StampOf
  <2>2. /\ GoodMessages(n)' = GoodMessages(n) /\ Channels(n)' = Channels(n)
        /\ \A ch : Declared(n, ch)' = Declared(n, ch)
    BY <1>2 DEF GoodMessages, Good, Channels, Declared, Schemas
  <2>3. RegistryInv(plan.channels, plan.upto)'
    <3>1. RegistryInv(plan.channels, n)  BY <1>3, <1>4 DEF PlanInv
    <3>2. RegistryInv(plan.channels, n)'  BY <1>18, <2>2, <3>1 DEF RegistryInv
    <3> QED BY <1>4, <1>18, <3>2
  <2>4. (released /\ Source = "log" =>
           window.to = 0 \/ \E x \in GoodMessages(plan.upto) : x.log >= window.to)'
    <3>1. released /\ Source = "log" => window.to = 0 \/ \E x \in G : x.log >= window.to
      BY <1>3, <1>4, <1>11 DEF PlanInv
    <3> QED BY <1>1, <1>20, <3>1
  <2> QED BY <1>1, <1>2, <1>3, <2>1, <2>3, <2>4 DEF PlanInv
<1> QED BY <1>1, <1>18, <1>19, <1>20, <1>21 DEF HandlerInv


-----------------------------------------------------------------------------
(* The invariant.                                                          *)

LEMMA RegisteredHas ==
    ASSUME WriterType
    PROVE  1 \in Registered /\ 2 \in Registered /\ TriggerChannel \in Registered
<1>1. style \in {"copper", "custom", "chunked"}  BY WritersAssumption DEF WriterType
<1>2. ASSUME NEW k \in DOMAIN Registration, Registration[k].kind = "channel"
      PROVE  Registration[k].id \in Registered
  BY <1>2 DEF Registered, Range
<1>3. CASE style = "copper"
  <2>1. /\ {4, 5, 6} \subseteq DOMAIN Registration /\ TriggerChannel = 3
        /\ Registration[4].kind = "channel" /\ Registration[4].id = 1
        /\ Registration[5].kind = "channel" /\ Registration[5].id = 2
        /\ Registration[6].kind = "channel" /\ Registration[6].id = 3
    BY <1>3 DEF Registration, Schema, Channel, TriggerChannel
  <2> QED BY <1>2, <2>1
<1>4. CASE style = "custom"
  <2>1. /\ {2, 3, 4} \subseteq DOMAIN Registration /\ TriggerChannel = 3
        /\ Registration[2].kind = "channel" /\ Registration[2].id = 1
        /\ Registration[3].kind = "channel" /\ Registration[3].id = 2
        /\ Registration[4].kind = "channel" /\ Registration[4].id = 3
    BY <1>4 DEF Registration, Schema, Channel, TriggerChannel
  <2> QED BY <1>2, <2>1
<1>5. CASE style = "chunked"
  <2>1. /\ {2, 3} \subseteq DOMAIN Registration /\ TriggerChannel = 2
        /\ Registration[2].kind = "channel" /\ Registration[2].id = 1
        /\ Registration[3].kind = "channel" /\ Registration[3].id = 2
    BY <1>5 DEF Registration, Schema, Channel, TriggerChannel
  <2> QED BY <1>2, <2>1
<1> QED BY <1>1, <1>3, <1>4, <1>5

LEMMA WriteRegistered ==
    ASSUME OnRegistered, written \in Seq(Item), style' = style,
           NEW items \in Seq(Item), Write(items),
           \A i \in 1..Len(items) : IsMessage(items[i]) => items[i].ch \in Registered
    PROVE  OnRegistered'
<1>1. written' = written \o items  BY DEF Write
<1>2. Registered' = Registered  BY DEF Registered, Registration
<1> SUFFICES ASSUME NEW i \in DOMAIN written', IsMessage(written'[i])
             PROVE  written'[i].ch \in Registered
  BY <1>2 DEF OnRegistered
<1>3. PICK q : q = Len(written) /\ q \in Nat /\ DOMAIN written = 1..q  OBVIOUS
<1>4. i \in 1..Len(written \o items) /\ i \in Nat  BY <1>1
<1>5. i \in 1..q \/ i - q \in 1..Len(items)  BY <1>3, <1>4, ConcatIs
<1>6. CASE i \in 1..q
  <2>1. written'[i] = written[i]  BY <1>1, <1>3, <1>6, ConcatIs
  <2> QED BY <1>3, <1>6, <2>1 DEF OnRegistered
<1>7. CASE i - q \in 1..Len(items)
  <2>1. PICK j : j = i - q  OBVIOUS
  <2>2. j \in 1..Len(items) /\ q + j = i  BY <1>3, <1>4, <1>7, <2>1
  <2>3. written'[i] = items[j]  BY <1>1, <1>3, <2>2, ConcatIs
  <2> QED BY <2>2, <2>3
<1> QED BY <1>5, <1>6, <1>7

LEMMA RegisteredKeep ==
    ASSUME WriterInv, OnRegistered, WritersNext
    PROVE  OnRegistered'
<1>1. WriterType /\ written \in Seq(Item)  BY DEF WriterInv, WriterType
<1>2. ASSUME UNCHANGED <<style, written>>  PROVE OnRegistered'
  BY <1>2 DEF OnRegistered, Registered, Registration
<1>3. CASE Register
  <2>1. /\ Registration \in Seq(Item)
        /\ \A i \in 1..Len(Registration) : ~IsMessage(Registration[i])
    BY <1>1, RegistrationShape
  <2>2. style' = style /\ Write(Registration)  BY <1>3 DEF Register
  <2> HIDE DEF Registration
  <2> QED BY <1>1, <2>1, <2>2, WriteRegistered
<1>4. ASSUME NEW n \in Nat, NEW ch \in 1..3, NEW m, m = Message(n, ch, LogTime, PublishTime)
      PROVE  m \in Item /\ m.ch = ch
  <2>1. clock \in Nat /\ sampled \in Nat  BY <1>1 DEF WriterType
  <2>2. LogTime \in Nat /\ PublishTime \in Nat
    BY <2>1, WritersAssumption DEF LogTime, PublishTime, CapturedAt
  <2>3. m \in Stamped /\ m.ch = ch  BY <1>4, <2>2 DEF Message, Stamped
  <2> QED BY <2>3, StampedIs
<1>5. ASSUME NEW m, NEW ch \in Registered \cap 1..3, NEW n \in Nat,
             m = Message(n, ch, LogTime, PublishTime), Write(<<m>>), style' = style
      PROVE  OnRegistered'
  <2>1. m \in Item /\ m.ch \in Registered  BY <1>4, <1>5
  <2>2. <<m>> \in Seq(Item) /\ \A i \in 1..Len(<<m>>) : <<m>>[i] = m  BY <2>1
  <2> QED BY <1>1, <1>5, <2>1, <2>2, WriteRegistered
<1>6. /\ 1 \in Registered \cap 1..3 /\ 2 \in Registered \cap 1..3
      /\ TriggerChannel \in Registered \cap 1..3
  BY <1>1, RegisteredHas, RegistrationShape
<1>7. PICK n : n = Len(written) + 1 /\ n \in Nat /\ n + 1 \in Nat  BY <1>1
<1>8. CASE WriteData
  <2>1. /\ style' = style
        /\ \/ \E ch \in {1, 2} : Write(<<Message(n, ch, LogTime, PublishTime)>>)
           \/ Write(<<Message(n, 1, LogTime, PublishTime), Message(n + 1, 2, LogTime, PublishTime)>>)
           \/ Write(<<Message(n, 1, LogTime, PublishTime)>>)
    BY <1>7, <1>8 DEF WriteData
  <2>2. ASSUME NEW ch \in {1, 2}, Write(<<Message(n, ch, LogTime, PublishTime)>>)
        PROVE  OnRegistered'
    <3>1. PICK m : m = Message(n, ch, LogTime, PublishTime)  OBVIOUS
    <3>2. ch \in Registered \cap 1..3  BY <1>6
    <3>3. Write(<<m>>)  BY <2>2, <3>1
    <3> QED BY <1>5, <1>7, <2>1, <3>1, <3>2, <3>3
  <2>3. ASSUME Write(<<Message(n, 1, LogTime, PublishTime), Message(n + 1, 2, LogTime, PublishTime)>>)
        PROVE  OnRegistered'
    <3>1. PICK m, k : /\ m = Message(n, 1, LogTime, PublishTime)
                      /\ k = Message(n + 1, 2, LogTime, PublishTime)
      OBVIOUS
    <3>2. m \in Item /\ m.ch = 1 /\ k \in Item /\ k.ch = 2  BY <1>4, <1>7, <3>1
    <3>3. Write(<<m, k>>)  BY <2>3, <3>1
    <3>4. /\ <<m, k>> \in Seq(Item)
          /\ \A i \in 1..Len(<<m, k>>) : <<m, k>>[i] = m \/ <<m, k>>[i] = k
      BY <3>2
    <3> QED BY <1>1, <1>6, <2>1, <3>2, <3>3, <3>4, WriteRegistered
  <2> QED BY <2>1, <2>2, <2>3
<1>9. CASE WriteTrigger
  <2>1. PICK m : m = Message(n, TriggerChannel, LogTime, PublishTime)  OBVIOUS
  <2>2. style' = style /\ Write(<<m>>)  BY <1>7, <1>9, <2>1 DEF WriteTrigger
  <2> QED BY <1>5, <1>6, <1>7, <2>1, <2>2
<1>10. CASE ~(Register \/ WriteData \/ WriteTrigger)
  <2>1. UNCHANGED <<style, written>>
    BY <1>10 DEF WritersNext, WriterStep, Tick, Die, Sample, NoTrigger, Flushed, Finish, Closed,
                 Drain, writerVars
  <2> QED BY <1>2, <2>1
<1> QED BY <1>3, <1>8, <1>9, <1>10

LEMMA WriterStands == ASSUME WriterInv, UNCHANGED <<clock, writerVars>> PROVE WriterInv'
<1>1. UNCHANGED <<style, clock, file, sink, chunk, wpc, sampled, written>>  BY DEF writerVars
<1>2. WriterType'  BY <1>1 DEF WriterInv, WriterType, MaxClock
<1>3. Ending' = Ending /\ Registration' = Registration  BY <1>1 DEF Ending, Registration
<1>4. RecordsFormed'  BY <1>1, <1>3 DEF WriterInv, RecordsFormed
<1>5. Numbered'  BY <1>1, <1>3 DEF WriterInv, Numbered
<1>6. StampsRise'  BY <1>1 DEF WriterInv, StampsRise
<1>7. HeldInOrder' /\ AllHeld'
  <2>1. Parts' = Parts /\ \A k : Held(k)' = Held(k)  BY <1>1 DEF Parts, Held
  <2> QED BY <1>1, <2>1 DEF WriterInv, HeldInOrder, AllHeld
<1> QED BY <1>2, <1>4, <1>5, <1>6, <1>7 DEF WriterInv

LEMMA ScanInitially ==
    ASSUME WriterInv, WritersInit, ScanInit
    PROVE  ScanInv /\ CoverageInv
<1>1. PICK e : e = << >>  OBVIOUS
<1>2. /\ offset = 0 /\ pass = e /\ faults = 0 /\ lifted = e /\ file = e
      /\ index.open = e /\ index.closed = e /\ index.schemas = {} /\ index.channels = e
      /\ index.trig = {} /\ coverage = [log |-> 0, publish |-> 0]
  BY <1>1 DEF WritersInit, ScanInit
<1>3. /\ e \in Seq(Extent) /\ e \in Seq(Stamps) /\ e \in Seq(Item) /\ Len(e) = 0 /\ DOMAIN e = {}
      /\ e \o e = e
  BY <1>1
<1>4. Readable = 0  BY <1>2, <1>3 DEF Readable
<1>5. Items(1..0) = {} /\ Items(0 + 1..0) = {}
  <2>1. 1..0 = {} /\ 0 + 1..0 = {}  OBVIOUS
  <2> QED BY <2>1, ItemsAre
<1>6. Good(0) = {} /\ GoodMessages(0) = {} /\ Schemas(0) = {} /\ Channels(0) = {}
  BY <1>5, GoodIs DEF Messages
<1>7. PICK d : d = Seed  OBVIOUS
<1>8. d = Delta(0, e, e, e, {}, e, {}, e)  BY <1>1, <1>2, <1>7 DEF Seed, NewDelta, Delta
<1>9. /\ DeltaShape(d) /\ d.at = 0 /\ d.closed = e /\ d.open = e /\ d.pending = e
      /\ d.schemas = {} /\ d.channels = e /\ d.trig = {} /\ d.sent = e
  BY <1>8, DeltaIs
<1>10. IsDelta(d)
  <2>1. Map(e, 1..3, Item)
    <3>1. e \in [DOMAIN e -> Item]  BY <1>1, <1>3
    <3> QED BY <1>3, <3>1 DEF Map
  <2>2. 0 <= 1  OBVIOUS
  <2> QED BY <1>3, <1>9, <2>1, <2>2 DEF IsDelta
<1>11. Tiled(e, 0)
  <2>1. 1..0 = {}  OBVIOUS
  <2> QED BY <1>3, <2>1 DEF Tiled
<1>12. DefinesAll(e, {})  BY <1>3 DEF DefinesAll
<1>13. Triggers({}) = {}  BY DEF Triggers
<1>14. Accounts(d)
  <2>1. d.at \in offset..Readable  BY <1>2, <1>4, <1>9
  <2>2. Tiled((index.closed \o d.closed) \o d.open, d.at)  BY <1>2, <1>3, <1>9, <1>11
  <2>3. Schemas(d.at) = index.schemas \cup d.schemas  BY <1>2, <1>6, <1>9
  <2>4. DefinesAll(d.channels, Items(offset + 1..d.at))  BY <1>2, <1>5, <1>9, <1>12
  <2>5. d.trig = Triggers(Good(d.at))  BY <1>6, <1>9, <1>13
  <2> QED BY <1>10, <2>1, <2>2, <2>3, <2>4, <2>5 DEF Accounts
<1>15. SentExactly(e, d)
  <2>1. Range(e) = {} /\ InOrder(e)  BY <1>3 DEF Range, InOrder
  <2> QED BY <1>3, <1>6, <1>9, <2>1 DEF SentExactly
<1>16. RegistryInv(e, 0)  BY <1>3, <1>6 DEF RegistryInv
<1>17. faults \in 0..MaxFaults[style]
  <2>1. MaxFaults[style] \in Nat  BY ExtractAssumption DEF WriterInv, WriterType
  <2> QED BY <1>2, <2>1
<1>18. ScanInv
  BY <1>1, <1>2, <1>3, <1>4, <1>7, <1>14, <1>15, <1>16, <1>17 DEF ScanInv
<1>19. CoverageIsIndexed  BY <1>2, <1>6 DEF CoverageIsIndexed
<1>20. coverage \in [Domains -> 0..MaxClock]
  <2>1. MaxClock \in Nat  BY WritersAssumption DEF WriterInv, WriterType, MaxClock
  <2> QED BY <1>2, <2>1 DEF Domains
<1> QED BY <1>18, <1>19, <1>20 DEF CoverageInv


LEMMA NextKeeps ==
    ASSUME ExtractInvariant, [Next]_vars
    PROVE  ExtractInvariant'
<1>1. WriterInv /\ OnRegistered /\ ScanInv /\ CoverageInv /\ HandlerInv  BY DEF ExtractInvariant
<1>2. /\ offset \in 0..Len(file) /\ offset \in Nat /\ Len(file) \in Nat
  BY <1>1, FileLength DEF ScanInv
<1>3. ASSUME UNCHANGED <<clock, writerVars>>
      PROVE  WriterInv' /\ OnRegistered' /\ Stays
  <2>1. UNCHANGED <<file, style, written>>  BY <1>3 DEF writerVars
  <2> QED BY <1>1, <1>3, <2>1, WriterStands, NothingStays DEF OnRegistered, Registered, Registration
<1>4. CASE WriterMoves
  <2>1. WritersNext /\ UNCHANGED tailVars /\ UNCHANGED handlerVars  BY <1>4 DEF WriterMoves
  <2>2. WriterInv' /\ OnRegistered' /\ Stays  BY <1>1, <2>1, WritersKeep, RegisteredKeep, WritersStay
  <2>3. offset' = offset /\ coverage' = coverage  BY <2>1 DEF tailVars
  <2>4. ScanInv' /\ CoverageInv'  BY <1>1, <2>1, <2>2, <2>3, ScanStands, CoverageStands
  <2>5. HandlerInv'
    <3>1. offset' \in Nat /\ offset <= offset'  BY <1>2, <2>3
    <3> QED BY <1>1, <1>2, <2>1, <2>2, <3>1, HandlerStands
  <2> QED BY <2>2, <2>4, <2>5 DEF ExtractInvariant
<1>5. CASE Scan \/ ScanFaults
  <2>1. UNCHANGED <<clock, writerVars, offset, index, coverage, handlerVars>>
    BY <1>5 DEF Scan, ScanFaults
  <2>2. WriterInv' /\ OnRegistered' /\ Stays  BY <1>3, <2>1
  <2>3. ScanInv'  BY <1>1, <1>5, ScanKeeps, ScanFaultsKeeps
  <2>4. CoverageInv'  BY <1>1, <2>1, <2>2, CoverageStands
  <2>5. HandlerInv'
    <3>1. offset' \in Nat /\ offset <= offset'  BY <1>2, <2>1
    <3> QED BY <1>1, <1>2, <2>1, <2>2, <3>1, HandlerStands
  <2> QED BY <2>2, <2>3, <2>4, <2>5 DEF ExtractInvariant
<1>6. CASE Apply
  <2>1. UNCHANGED <<clock, writerVars, handlerVars>> /\ pass # << >> /\ offset' = pass[1].at
    BY <1>6 DEF Apply
  <2>2. WriterInv' /\ OnRegistered' /\ Stays  BY <1>3, <2>1
  <2>3. ScanInv' /\ CoverageInv'  BY <1>1, <1>6, ApplyKeeps
  <2>4. HandlerInv'
    <3>1. PICK d : d = pass[1] /\ Accounts(d)  BY <1>1, <2>1 DEF ScanInv
    <3>2. d.at \in offset..Readable  BY <3>1 DEF Accounts
    <3>3. Readable \in Nat  BY <1>1, ReadableInNat
    <3>4. offset' \in Nat /\ offset <= offset'  BY <1>2, <2>1, <3>1, <3>2, <3>3
    <3> QED BY <1>1, <1>2, <2>1, <2>2, <3>4, HandlerStands
  <2> QED BY <2>2, <2>3, <2>4 DEF ExtractInvariant
<1>7. CASE HandlerStep
  <2>1. UNCHANGED <<clock, writerVars, tailVars>>
    BY <1>7 DEF HandlerStep, Fire, PlanWindow, Copy
  <2>2. WriterInv' /\ OnRegistered' /\ Stays  BY <1>3, <2>1
  <2>3. offset' = offset /\ coverage' = coverage  BY <2>1 DEF tailVars
  <2>4. ScanInv' /\ CoverageInv'  BY <1>1, <2>1, <2>2, <2>3, ScanStands, CoverageStands
  <2>5. HandlerInv'
    BY <1>1, <1>7, FireKeeps, PlanWindowKeeps, CopyKeeps DEF HandlerStep
  <2> QED BY <2>2, <2>4, <2>5 DEF ExtractInvariant
<1>8. CASE UNCHANGED vars
  <2>1. UNCHANGED <<clock, writerVars>> /\ UNCHANGED tailVars /\ UNCHANGED handlerVars
    BY <1>8 DEF vars
  <2>2. WriterInv' /\ OnRegistered' /\ Stays  BY <1>3, <2>1
  <2>3. offset' = offset /\ coverage' = coverage  BY <2>1 DEF tailVars
  <2>4. ScanInv' /\ CoverageInv'  BY <1>1, <2>1, <2>2, <2>3, ScanStands, CoverageStands
  <2>5. HandlerInv'
    <3>1. offset' \in Nat /\ offset <= offset'  BY <1>2, <2>3
    <3> QED BY <1>1, <1>2, <2>1, <2>2, <3>1, HandlerStands
  <2> QED BY <2>2, <2>4, <2>5 DEF ExtractInvariant
<1> QED BY <1>4, <1>5, <1>6, <1>7, <1>8 DEF Next

LEMMA Initially == ASSUME Init PROVE ExtractInvariant
<1>1. WritersInit /\ ScanInit /\ HandlerInit  BY DEF Init
<1>2. WriterInv  BY <1>1, WritersInitially
<1>3. OnRegistered
  <2>1. written = << >>  BY <1>1 DEF WritersInit
  <2> QED BY <2>1 DEF OnRegistered
<1>4. ScanInv /\ CoverageInv  BY <1>1, <1>2, ScanInitially
<1>5. HandlerInv  BY <1>1 DEF HandlerInit, HandlerInv
<1> QED BY <1>2, <1>3, <1>4, <1>5 DEF ExtractInvariant

(* The invariant of writer, tail and handler is inductive.                 *)
THEOREM ExtractInvariance == Spec => []ExtractInvariant
<1>1. Init => ExtractInvariant  BY Initially
<1>2. ExtractInvariant /\ [Next]_vars => ExtractInvariant'  BY NextKeeps
<1> QED BY <1>1, <1>2, PTL DEF Spec

-----------------------------------------------------------------------------
(* What it implies.                                                        *)

(* The marks are the highest stamps of the undamaged messages that are     *)
(* indexed, however the passes of scan_available fell.                     *)
THEOREM CoverageCorrect == Spec => []CoverageIsIndexed
<1>1. ExtractInvariant => CoverageIsIndexed  BY DEF ExtractInvariant, CoverageInv
<1> QED BY <1>1, ExtractInvariance, PTL

LEMMA LiftedFromInv == ASSUME ExtractInvariant PROVE LiftedExactly
<1>1. PICK read : read = IF pass = << >> THEN offset ELSE pass[1].at  OBVIOUS
<1>2. PICK T : T = Triggers(Good(read))  OBVIOUS
<1>3. Range(lifted) = {m \in GoodMessages(read) : m.ch \in T} /\ InOrder(lifted)
  <2>1. CASE pass = << >>
    <3>1. PICK d : d = Seed /\ Accounts(d) /\ SentExactly(lifted, d)
      BY <2>1 DEF ExtractInvariant, ScanInv
    <3>2. d.at = read  BY <1>1, <2>1, <3>1 DEF Seed, NewDelta
    <3> QED BY <1>2, <3>1, <3>2 DEF Accounts, SentExactly
  <2>2. CASE pass # << >>
    <3>1. PICK d : d = pass[1] /\ Accounts(d) /\ SentExactly(lifted, d)
      BY <2>2 DEF ExtractInvariant, ScanInv
    <3>2. d.at = read  BY <1>1, <2>2, <3>1
    <3> QED BY <1>2, <3>1, <3>2 DEF Accounts, SentExactly
  <2> QED BY <2>1, <2>2
<1>4. {c.id : c \in {x \in Channels(read) : x.topic = TriggerTopic}} = T
  BY <1>2 DEF Channels, Triggers
<1> QED BY <1>1, <1>3, <1>4 DEF LiftedExactly

(* A trigger is sent down the tap once, in order and only from undamaged   *)
(* records, across faulted passes and their retries.                       *)
THEOREM LiftedCorrect == Spec => []LiftedExactly
<1>1. ExtractInvariant => LiftedExactly  BY LiftedFromInv
<1> QED BY <1>1, ExtractInvariance, PTL

(* A channel of the plan is one the indexed prefix declares, as it does.   *)
LEMMA PlanDeclares ==
    ASSUME NEW n, RegistryInv(plan.channels, n), NEW ch
    PROVE  /\ ch \in DOMAIN plan.channels <=> Declared(n, ch) # {}
           /\ ch \in DOMAIN plan.channels => Declared(n, ch) = {plan.channels[ch]}
<1>1. ch \in DOMAIN plan.channels <=> \E c \in Channels(n) : c.id = ch  BY DEF RegistryInv
<1>2. Declared(n, ch) # {} <=> \E c \in Channels(n) : c.id = ch  BY DEF Declared
<1> QED BY <1>1, <1>2 DEF RegistryInv

LEMMA ClipFromInv == ASSUME ExtractInvariant PROVE ClipIsExact
<1> SUFFICES ASSUME hpc = "done"
             PROVE  LET wanted == {m \in GoodMessages(plan.upto) :
                                     InWindow(m, window) /\ Declared(plan.upto, m.ch) # {}}
                    IN  /\ {c.n : c \in Range(clip.messages)} = {m.n : m \in wanted}
                        /\ InOrder(clip.messages)
                        /\ \A c \in Range(clip.messages), m \in wanted :
                              c.n = m.n => {clip.table[c.ch]} = Declared(plan.upto, m.ch)
  BY DEF ClipIsExact
<1>1. PICK n, G : n = plan.upto /\ G = GoodMessages(n)  OBVIOUS
<1>2. RegistryInv(plan.channels, n) /\ ClipHas(clip, G)
  BY <1>1 DEF ExtractInvariant, HandlerInv, PlanInv
<1>3. PICK W : W = Wanted(G)  OBVIOUS
<1>4. W = {m \in G : InWindow(m, window) /\ Declared(n, m.ch) # {}}
  BY <1>2, <1>3, PlanDeclares DEF Wanted
<1>5. /\ {x.n : x \in Range(clip.messages)} = {m.n : m \in W}
      /\ InOrder(clip.messages)
      /\ \A x \in Range(clip.messages), m \in W : CopyOf(clip, x, m)
  BY <1>2, <1>3 DEF ClipHas
<1>6. ASSUME NEW x \in Range(clip.messages), NEW m \in W, x.n = m.n
      PROVE  {clip.table[x.ch]} = Declared(n, m.ch)
  <2>1. clip.table[x.ch] = plan.channels[m.ch]  BY <1>5, <1>6 DEF CopyOf
  <2>2. m.ch \in DOMAIN plan.channels  BY <1>3 DEF Wanted
  <2> QED BY <1>2, <2>1, <2>2, PlanDeclares
<1> QED BY <1>1, <1>4, <1>5, <1>6

(* A clip is what the undamaged indexed prefix has for its window, all of  *)
(* it, in order, under the recording's definitions: copy_window over the   *)
(* extents that RecordingIndex::plan took.                                 *)
THEOREM ClipCorrect == Spec => []ClipIsExact
<1>1. ExtractInvariant => ClipIsExact  BY ClipFromInv
<1> QED BY <1>1, ExtractInvariance, PTL

LEMMA TypeFromInv == ASSUME ExtractInvariant PROVE TypeOK
<1>1. WriterInv /\ ScanInv /\ CoverageInv /\ HandlerInv  BY DEF ExtractInvariant
<1>2. offset \in 0..Len(file) /\ faults \in 0..MaxFaults[style]  BY <1>1 DEF ScanInv
<1>3. Len(pass) \in {0, 1}
  <2>1. CASE pass = << >>  BY <2>1
  <2>2. CASE pass # << >>
    <3>1. PICK d : pass = <<d>>  BY <1>1, <2>2 DEF ScanInv
    <3> QED BY <3>1
  <2> QED BY <2>1, <2>2
<1>4. DOMAIN index.channels \subseteq 1..3
  <2>1. PICK n : n = offset /\ n \in Nat /\ 1..n \in SUBSET (1..Len(file))  BY <1>1, <1>2, FileLength
  <2>2. DOMAIN index.channels = {c.id : c \in Channels(n)}  BY <1>1, <2>1 DEF ScanInv, RegistryInv
  <2>3. ASSUME NEW c \in Channels(n)  PROVE c.id \in 1..3
    <3>1. c \in Items(1..n) /\ c.kind = "channel"  BY <2>1, GoodIs
    <3>2. c \in Item  BY <1>1, <2>1, <3>1, ItemsTyped
    <3> QED BY <3>1, <3>2, ItemKinds
  <2> QED BY <2>2, <2>3
<1>5. index.trig \subseteq 1..3
  <2>1. IsDelta(Seed)  BY <1>1 DEF ScanInv, Accounts
  <2>2. Seed.trig = index.trig  BY DEF Seed, NewDelta
  <2> QED BY <2>1, <2>2 DEF IsDelta
<1>6. coverage \in [{"log", "publish"} -> 0..MaxClock]  BY <1>1 DEF CoverageInv, Domains
<1>7. hpc \in {"idle", "waiting", "planned", "done"}  BY <1>1 DEF HandlerInv
<1>8. plan.upto <= offset
  <2>1. offset \in Nat  BY <1>1, <1>2, FileLength
  <2>2. CASE hpc \in {"planned", "done"}
    <3>1. plan.upto \in 0..offset  BY <1>1, <2>2 DEF HandlerInv, PlanInv
    <3> QED BY <2>1, <3>1
  <2>3. CASE hpc \notin {"planned", "done"}
    <3>1. plan.upto = 0  BY <1>1, <2>3 DEF HandlerInv
    <3> QED BY <2>1, <3>1
  <2> QED BY <2>2, <2>3
<1>9. ASSUME NEW x \in Range(clip.messages)  PROVE x.ch \in DOMAIN clip.table
  <2>1. CASE hpc = "done"
    <3>1. PICK G : ClipHas(clip, G)  BY <1>1, <2>1 DEF HandlerInv
    <3>2. x.n \in {m.n : m \in Wanted(G)}  BY <3>1 DEF ClipHas
    <3>3. PICK m \in Wanted(G) : x.n = m.n  BY <3>2
    <3> QED BY <3>1, <3>3 DEF ClipHas, CopyOf
  <2>2. CASE hpc # "done"
    <3>1. clip.messages = << >>  BY <1>1, <2>2 DEF HandlerInv
    <3>2. Range(clip.messages) = {}  BY <3>1 DEF Range
    <3> QED BY <3>2
  <2> QED BY <2>1, <2>2
<1> QED BY <1>2, <1>3, <1>4, <1>5, <1>6, <1>7, <1>8, <1>9 DEF TypeOK

(* Positions stay within the file, maps on known channels, and every       *)
(* message of a clip on a channel of its own table.                        *)
THEOREM ExtractTypeCorrect == Spec => []TypeOK
<1>1. ExtractInvariant => TypeOK  BY TypeFromInv
<1> QED BY <1>1, ExtractInvariance, PTL

(* What was written before an item that is on disk is on disk before it.   *)
LEMMA OnDiskBefore ==
    ASSUME WriterInv, NEW k \in 1..Len(file), NEW x \in Range(file[k].inner),
           NEW i \in 1..x.n
    PROVE  \E l \in 1..k : written[i] \in Range(file[l].inner)
<1>1. Len(file) \in Nat /\ Len(sink) \in Nat  BY DEF WriterInv, WriterType
<1>2. k \in 1..Parts /\ \A l \in 1..k : Held(l) = file[l].inner
  BY <1>1 DEF Parts, Held, HeldIn
<1>3. k \in 1..k  BY <1>1
<1>4. x \in Range(Held(k))  BY <1>2, <1>3
<1>5. PICK l \in 1..k : written[i] \in Range(Held(l))  BY <1>2, <1>4 DEF WriterInv, HeldInOrder
<1> QED BY <1>2, <1>5

LEMMA CutFromInv == ASSUME ExtractInvariant PROVE CutHasAllWritten
<1> SUFFICES ASSUME hpc = "done", released, Source = "log",
                    NEW m \in Range(written), IsMessage(m),
                    ~(m.log < window.from), ~(m.log >= window.to),
                    \A r \in Range(file) :
                      ~r.ok => /\ m \notin Range(r.inner)
                               /\ \A x \in Range(r.inner) : ~(x.kind = "channel" /\ x.id = m.ch)
             PROVE  \E c \in Range(clip.messages) : c.n = m.n
  BY DEF CutHasAllWritten
<1>1. /\ WriterInv /\ OnRegistered /\ PlanInv /\ offset \in 0..Len(file)
      /\ ClipHas(clip, GoodMessages(plan.upto)) /\ window \in [from : Nat, to : Nat]
  BY DEF ExtractInvariant, HandlerInv, ScanInv
<1>2. PICK n : n = plan.upto  OBVIOUS
<1>3. n \in Nat /\ n \in 0..Len(file) /\ Len(file) \in Nat
  <2>1. n \in 0..offset  BY <1>1, <1>2 DEF PlanInv
  <2> QED BY <1>1, <2>1, FileLength
<1>4. /\ WriterType /\ Numbered /\ StampsRise /\ written \in Seq(Item) /\ Len(written) \in Nat
      /\ DOMAIN written = 1..Len(written)
  BY <1>1 DEF WriterInv, WriterType
<1>5. m.n \in DOMAIN written /\ m = written[m.n]
  <2>1. PICK i \in DOMAIN written : m = written[i]  BY DEF Range
  <2>2. m.n = i  BY <1>4, <2>1 DEF Numbered
  <2> QED BY <2>1, <2>2
<1>6. m \in Stamped  BY <1>4, <1>5, ItemKinds
<1>7. m.log \in Nat /\ window.from \in Nat /\ window.to \in Nat
  BY <1>1, <1>6, StampedIs
<1>8. window.from <= m.log /\ m.log < window.to /\ window.to # 0  BY <1>7
<1>9. PICK x \in GoodMessages(n) : x.log >= window.to  BY <1>1, <1>2, <1>8 DEF PlanInv
<1>10. /\ x \in Stamped /\ IsMessage(x) /\ x.n \in DOMAIN written /\ x = written[x.n] /\ x.log \in Nat
  BY <1>1, <1>3, <1>9, GoodMessageIs, StampedIs
<1>11. m.n < x.n
  <2>1. m.n \in Nat /\ x.n \in Nat  BY <1>4, <1>5, <1>10
  <2>2. CASE x.n = m.n
    <3>1. x = m  BY <1>5, <1>10, <2>2
    <3> QED BY <1>7, <1>8, <1>9, <3>1
  <2>3. CASE x.n < m.n
    <3>1. PICK i, j : i = x.n /\ j = m.n  OBVIOUS
    <3>2. i \in DOMAIN written /\ j \in DOMAIN written /\ i < j /\ written[i] = x /\ written[j] = m
      BY <1>5, <1>10, <2>3, <3>1
    <3>3. x.log <= m.log  BY <1>4, <1>10, <3>2 DEF StampsRise
    <3> QED BY <1>7, <1>8, <1>9, <1>10, <3>3
  <2> QED BY <2>1, <2>2, <2>3
<1>12. PICK k \in 1..n : x \in Range(file[k].inner)
  <2>1. x \in Items(1..n)  BY <1>3, <1>9, GoodIs DEF Messages
  <2> QED BY <2>1, ItemsAre
<1>13. k \in 1..Len(file)  BY <1>3
<1>14. ASSUME NEW i \in 1..x.n
       PROVE  \E l \in 1..n : l \in 1..Len(file) /\ written[i] \in Range(file[l].inner)
  <2>1. PICK l \in 1..k : written[i] \in Range(file[l].inner)
    BY <1>1, <1>12, <1>13, OnDiskBefore
  <2>2. l \in 1..n /\ l \in 1..Len(file)  BY <1>3
  <2> QED BY <2>1, <2>2
<1>15. \A l \in 1..Len(file) : file[l] \in Range(file)
  <2>1. DOMAIN file = 1..Len(file)  BY <1>4 DEF WriterType
  <2> QED BY <2>1 DEF Range
<1>16. m \in GoodMessages(n)
  <2>1. m.n \in 1..x.n  BY <1>4, <1>5, <1>10, <1>11
  <2>2. PICK l \in 1..n : l \in 1..Len(file) /\ m \in Range(file[l].inner)
    BY <1>5, <1>14, <2>1
  <2>3. file[l].ok  BY <1>15, <2>2
  <2>4. m \in Items(1..n)  BY <2>2, <2>3, ItemsAre
  <2> QED BY <1>3, <2>4, GoodIs DEF Messages
<1>17. m.ch \in DOMAIN plan.channels
  <2>1. m.ch \in Registered  BY <1>1, <1>5 DEF OnRegistered
  <2>2. PICK c \in Range(Registration) : c.kind = "channel" /\ c.id = m.ch  BY <2>1 DEF Registered
  <2>3. /\ Registration \in Seq(Item) /\ Len(Registration) \in Nat
        /\ \A i \in 1..Len(Registration) : ~IsMessage(Registration[i])
    BY <1>4, RegistrationShape
  <2> HIDE DEF Registration
  <2>4. PICK j \in 1..Len(Registration) : c = Registration[j]  BY <2>2, <2>3, RangeIs
  <2>5. ~(m.n <= Len(Registration))
    <3> SUFFICES ASSUME m.n <= Len(Registration)  PROVE FALSE
      OBVIOUS
    <3>1. m.n \in 1..Len(Registration)  BY <1>4, <1>5, <2>3
    <3>2. written[m.n] = Registration[m.n]  BY <1>4, <1>5 DEF Numbered
    <3> QED BY <1>5, <2>3, <3>1, <3>2
  <2>6. j \in 1..x.n /\ j \in DOMAIN written /\ j <= Len(Registration)
    BY <1>4, <1>5, <1>10, <1>11, <2>3, <2>5
  <2>7. written[j] = c  BY <1>4, <2>4, <2>6 DEF Numbered
  <2>8. PICK l \in 1..n : l \in 1..Len(file) /\ c \in Range(file[l].inner)
    BY <1>14, <2>6, <2>7
  <2>9. file[l].ok  BY <1>15, <2>2, <2>8
  <2>10. c \in Channels(n)
    <3>1. c \in Items(1..n)  BY <2>8, <2>9, ItemsAre
    <3> QED BY <1>3, <2>2, <3>1, GoodIs
  <2> QED BY <1>1, <1>2, <2>2, <2>10 DEF PlanInv, RegistryInv
<1>18. InWindow(m, window)
  <2>1. window.from <= m.log /\ m.log <= window.to  BY <1>7, <1>8
  <2> QED BY <2>1 DEF InWindow, StampOf
<1>19. m \in Wanted(GoodMessages(n))  BY <1>16, <1>17, <1>18 DEF Wanted
<1>20. m.n \in {y.n : y \in Wanted(GoodMessages(n))}  BY <1>19
<1>21. m.n \in {c.n : c \in Range(clip.messages)}  BY <1>1, <1>2, <1>20 DEF ClipHas
<1> QED BY <1>21

(* From a writer's memory to the clip: what coverage released has all that *)
(* was written for its window, whatever was buffered, chunked or retried,  *)
(* but for what was damaged on its way.                                    *)
THEOREM CutCorrect == Spec => []CutHasAllWritten
<1>1. ExtractInvariant => CutHasAllWritten  BY CutFromInv
<1> QED BY <1>1, ExtractInvariance, PTL
=============================================================================
