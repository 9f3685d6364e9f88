----------------------------- MODULE RankProofs -----------------------------
(***************************************************************************)
(* Every finite set of numbers has an n-th member for each n up to its     *)
(* size, and only one; the n-th members rise with n.                       *)
(***************************************************************************)
EXTENDS Ranks, Sequences, FiniteSetTheorems, TLAPS

(* The set below a member is smaller than the set.                         *)
LEMMA BelowIsSmaller ==
    ASSUME NEW S \in SUBSET Nat, IsFiniteSet(S), NEW x \in S
    PROVE  /\ IsFiniteSet(Below(x, S))
           /\ Cardinality(Below(x, S)) \in 0..Cardinality(S) - 1
           /\ Cardinality(S) \in Nat \ {0}
<1>1. /\ IsFiniteSet(S \ {x}) /\ Cardinality(S \ {x}) = Cardinality(S) - 1
  BY FS_RemoveElement
<1>2. Below(x, S) \in SUBSET (S \ {x})  BY DEF Below
<1>3. IsFiniteSet(Below(x, S)) /\ Cardinality(Below(x, S)) <= Cardinality(S \ {x})
  BY <1>1, <1>2, FS_Subset
<1>4. /\ Cardinality(S) \in Nat /\ Cardinality(Below(x, S)) \in Nat
      /\ Cardinality(S \ {x}) \in Nat
  BY <1>1, <1>3, FS_CardinalityType
<1> QED BY <1>1, <1>3, <1>4

(* Of two members, the smaller has fewer below it.                         *)
LEMMA BelowRises ==
    ASSUME NEW S \in SUBSET Nat, IsFiniteSet(S), NEW x \in S, NEW y \in S, x < y
    PROVE  Cardinality(Below(x, S)) < Cardinality(Below(y, S))
<1>0. \A z \in S : z \in Nat  OBVIOUS
<1>1. x \in Below(y, S) /\ Below(x, S) \in SUBSET Below(y, S) /\ x \notin Below(x, S)
  <2>1. \A z \in S : z < x => z < y  BY <1>0
  <2>2. ~(x < x)  BY <1>0
  <2> QED BY <2>1, <2>2 DEF Below
<1>2. IsFiniteSet(Below(x, S)) /\ IsFiniteSet(Below(y, S))  BY BelowIsSmaller
<1>3. /\ Cardinality(Below(x, S)) <= Cardinality(Below(y, S))
      /\ Cardinality(Below(x, S)) # Cardinality(Below(y, S))
  BY <1>1, <1>2, FS_Subset
<1>4. Cardinality(Below(x, S)) \in Nat /\ Cardinality(Below(y, S)) \in Nat
  BY <1>2, FS_CardinalityType
<1> QED BY <1>3, <1>4

(* Ranks are an injection into as many numbers as there are members, and   *)
(* so every rank is taken.                                                 *)
LEMMA EveryRankIsTaken ==
    ASSUME NEW S \in SUBSET Nat, IsFiniteSet(S), NEW n \in 1..Cardinality(S)
    PROVE  \E x \in S : Cardinality(Below(x, S)) = n - 1
<1> DEFINE R == 0..Cardinality(S) - 1
           rank == [x \in S |-> Cardinality(Below(x, S))]
<1>0. Cardinality(S) \in Nat  BY FS_CardinalityType
<1>1. rank \in [S -> R]  BY BelowIsSmaller
<1>2. ASSUME NEW x \in S, NEW y \in S, rank[x] = rank[y]  PROVE x = y
  <2>1. ~(x < y) /\ ~(y < x)
    <3>1. rank[x] \in Int /\ rank[y] \in Int  BY <1>1, <1>0
    <3> QED BY <1>2, <3>1, BelowRises
  <2>2. x \in Nat /\ y \in Nat  OBVIOUS
  <2> QED BY <2>1, <2>2
<1>3. rank \in Injection(S, R)  BY <1>1, <1>2 DEF Injection, IsInjective
<1>4. IsFiniteSet(R) /\ Cardinality(R) = Cardinality(S)
  <2>1. 0 \in Int /\ Cardinality(S) - 1 \in Int  BY <1>0
  <2>2. /\ IsFiniteSet(R)
        /\ Cardinality(R) = IF 0 > Cardinality(S) - 1 THEN 0 ELSE Cardinality(S) - 1 - 0 + 1
    BY <2>1, FS_Interval
  <2> QED BY <1>0, <2>2
<1>5. rank \in Surjection(S, R)  BY <1>3, <1>4, FS_Injection
<1>6. n - 1 \in R  BY <1>0
<1>7. PICK x \in S : rank[x] = n - 1  BY <1>5, <1>6 DEF Surjection
<1> QED BY <1>7

(* The n-th member is one, with n - 1 below it.                            *)
LEMMA NthMember ==
    ASSUME NEW S \in SUBSET Nat, IsFiniteSet(S), NEW n \in 1..Cardinality(S)
    PROVE  Nth(S, n) \in S /\ Cardinality(Below(Nth(S, n), S)) = n - 1
BY EveryRankIsTaken DEF Nth

(* Each member is the n-th for one more than there are below it.           *)
LEMMA MemberIsNth ==
    ASSUME NEW S \in SUBSET Nat, IsFiniteSet(S), NEW x \in S
    PROVE  /\ Cardinality(Below(x, S)) + 1 \in 1..Cardinality(S)
           /\ Nth(S, Cardinality(Below(x, S)) + 1) = x
<1> DEFINE n == Cardinality(Below(x, S)) + 1
           y == Nth(S, n)
<1>1. n \in 1..Cardinality(S) /\ n - 1 = Cardinality(Below(x, S))
  BY BelowIsSmaller
<1>2. y \in S /\ Cardinality(Below(y, S)) = n - 1  BY <1>1, NthMember
<1>3. ~(x < y) /\ ~(y < x)
  <2>1. Cardinality(Below(x, S)) \in Nat  BY BelowIsSmaller
  <2>2. Cardinality(Below(x, S)) = Cardinality(Below(y, S))  BY <1>1, <1>2
  <2>3. ~(Cardinality(Below(x, S)) < Cardinality(Below(y, S)))
        /\ ~(Cardinality(Below(y, S)) < Cardinality(Below(x, S)))
    BY <2>1, <2>2
  <2> HIDE DEF n, y
  <2> QED BY <1>2, <2>3, BelowRises
<1>4. x \in Nat /\ y \in Nat  BY <1>2
<1> QED BY <1>1, <1>3, <1>4

(* The n-th members rise with n.                                           *)
LEMMA NthRises ==
    ASSUME NEW S \in SUBSET Nat, IsFiniteSet(S), NEW m \in 1..Cardinality(S),
           NEW n \in 1..Cardinality(S), m < n
    PROVE  Nth(S, m) < Nth(S, n)
<1> DEFINE x == Nth(S, m)  y == Nth(S, n)
<1>1. /\ x \in S /\ Cardinality(Below(x, S)) = m - 1
      /\ y \in S /\ Cardinality(Below(y, S)) = n - 1
  BY NthMember
<1>2. x \in Nat /\ y \in Nat /\ Cardinality(S) \in Nat  BY <1>1, FS_CardinalityType
<1>3. x # y  BY <1>1, <1>2
<1>4. ~(y < x)  BY <1>1, <1>2, BelowRises
<1> QED BY <1>2, <1>3, <1>4

LEMMA FunctionIsSeq ==
    ASSUME NEW T, NEW n \in Nat, NEW s \in [1..n -> T]
    PROVE  s \in Seq(T) /\ Len(s) = n /\ DOMAIN s = 1..n
OBVIOUS

LEMMA SeqElements ==
    ASSUME NEW T, NEW s \in Seq(T)
    PROVE  Len(s) \in Nat /\ DOMAIN s = 1..Len(s) /\ \A i \in DOMAIN s : s[i] \in T
OBVIOUS

(* What is retained of a sequence is a sequence, and each of its elements  *)
(* stands at one of the positions.                                         *)
LEMMA RetainType ==
    ASSUME NEW T, NEW seq \in Seq(T), NEW S \in SUBSET DOMAIN seq
    PROVE  /\ IsFiniteSet(S) /\ S \in SUBSET Nat /\ Cardinality(S) \in Nat
           /\ Retain(seq, S) \in Seq(T) /\ Len(Retain(seq, S)) = Cardinality(S)
           /\ DOMAIN Retain(seq, S) = 1..Cardinality(S)
           /\ \A n \in 1..Cardinality(S) :
                Nth(S, n) \in S /\ Retain(seq, S)[n] = seq[Nth(S, n)]
<1>1. DOMAIN seq = 1..Len(seq) /\ Len(seq) \in Nat  OBVIOUS
<1>2. IsFiniteSet(S) /\ S \in SUBSET Nat
  <2>1. IsFiniteSet(1..Len(seq))  BY <1>1, FS_Interval
  <2>2. S \in SUBSET (1..Len(seq))  BY <1>1
  <2> QED BY <2>1, <2>2, FS_Subset
<1>3. Cardinality(S) \in Nat  BY <1>2, FS_CardinalityType
<1>4. \A n \in 1..Cardinality(S) : Nth(S, n) \in S  BY <1>2, NthMember
<1>5. \A n \in 1..Cardinality(S) : seq[Nth(S, n)] \in T  BY <1>4
<1>6. Retain(seq, S) \in [1..Cardinality(S) -> T]  BY <1>5 DEF Retain
<1>7. Retain(seq, S) \in Seq(T) /\ Len(Retain(seq, S)) = Cardinality(S)
  BY <1>3, <1>6
<1> QED BY <1>2, <1>3, <1>4, <1>7 DEF Retain
=============================================================================
