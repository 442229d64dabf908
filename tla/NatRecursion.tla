----------------------------- MODULE NatRecursion -----------------------------
(***************************************************************************)
(* Induction, primitive recursion and folds in the form the proofs need:   *)
(* induction over a set of naturals instead of a predicate, recursion over *)
(* Nat and FoldLeft over a sequence with their step as an operator         *)
(* constant, which an INSTANCE replaces by the step of the model (Pow2 of  *)
(* SplitInput, TotalTo of Assemble, EndOf of StillVideo; WalkObu of        *)
(* Inspect, MergePacket, SplitObu and GeometryFrom of Container, Total of  *)
(* Mp4, Used and TotalOf of Lengths, Bits of SeqHeader).                   *)
(***************************************************************************)
EXTENDS Integers, SequencesExt, SequenceTheorems, WellFoundedInduction, TLAPS

CONSTANTS base, Step(_, _)

(* Rec[n] is base for zero and Step(Rec[n - 1], n) above it. *)
Rec[n \in Nat] == IF n = 0 THEN base ELSE Step(Rec[n - 1], n)

(* Every nonempty set of naturals has a least element: the form in which   *)
(* the lowest refreshed slot (assemble.rs:140-142) and the first unit that *)
(* marks the scan dirty are found.                                         *)
LEMMA LeastNumber ==
  \A T \in SUBSET Nat : T # {} => \E x \in T : \A y \in T : x <= y
<1> DEFINE Below == {p \in Nat \X Nat : p[1] < p[2]}
<1> SUFFICES ASSUME NEW T \in SUBSET Nat, T # {}
             PROVE  \E x \in T : \A y \in T : x <= y
  OBVIOUS
<1>1. IsWellFoundedOn(Below, Nat)
  BY NatLessThanWellFounded, Zenon DEF OpToRel
<1> HIDE DEF Below
<1>2. PICK x \in T : \A y \in T : ~ (<<y, x>> \in Below)
  BY <1>1, WFMin
<1>3. ASSUME NEW y \in T PROVE x <= y
  <2>1. <<y, x>> \notin Below
    BY <1>2
  <2> QED
    BY <2>1 DEF Below
<1> QED
  BY <1>3

(* A set of naturals below a bound has a greatest element: the last anchor *)
(* and the last frame that re-based the slots (assemble.rs:606-643).       *)
LEMMA GreatestNumber ==
  \A w \in Nat : \A T \in SUBSET (0..w) : T # {} => \E x \in T : \A y \in T : y <= x
<1> SUFFICES ASSUME NEW w \in Nat, NEW T \in SUBSET (0..w), T # {}
             PROVE  \E x \in T : \A y \in T : y <= x
  OBVIOUS
<1> DEFINE D == {d \in Nat : w - d \in T}
<1>1. \A x \in T : x \in Nat /\ w - x \in D
  OBVIOUS
<1>2. PICK d \in D : \A e \in D : d <= e
  <2>1. D \in SUBSET Nat /\ D # {}
    BY <1>1
  <2> QED
    BY <2>1, LeastNumber
<1>3. \A y \in T : y <= w - d
  BY <1>1, <1>2
<1> QED
  BY <1>2, <1>3

(* A set of naturals that has zero and the successor of each of its        *)
(* members has them all.                                                   *)
LEMMA NatSetInduction ==
  \A P \in SUBSET Nat : (0 \in P /\ \A n \in P : n + 1 \in P) => P = Nat
<1> SUFFICES ASSUME NEW P \in SUBSET Nat, 0 \in P, \A n \in P : n + 1 \in P,
                    Nat \ P # {}
             PROVE  FALSE
  OBVIOUS
<1>1. PICK m \in Nat \ P : \A y \in Nat \ P : m <= y
  <2>1. Nat \ P \in SUBSET Nat
    OBVIOUS
  <2> QED
    BY <2>1, LeastNumber
<1>2. m - 1 \in P
  BY <1>1
<1>3. (m - 1) + 1 \in P
  BY <1>2
<1> QED
  BY <1>1, <1>3

(* g is the recursion up to n. *)
UpTo(g, n) == \A k \in 0..n : g[k] = IF k = 0 THEN base ELSE Step(g[k - 1], k)

(* There is such a function for every n, ... *)
LEMMA PrefixExists == \A n \in Nat : \E g : UpTo(g, n)
<1> DEFINE P == {n \in Nat : \E g : UpTo(g, n)}
<1>1. 0 \in P
  <2>1. UpTo([k \in {0} |-> base], 0)
    BY DEF UpTo
  <2> QED
    BY <2>1
<1>2. ASSUME NEW n \in P PROVE n + 1 \in P
  <2>1. PICK g : UpTo(g, n)
    OBVIOUS
  <2> DEFINE h == [k \in 0..n+1 |-> IF k = n + 1 THEN Step(g[n], k) ELSE g[k]]
  <2>2. ASSUME NEW k \in 0..n+1
        PROVE  h[k] = IF k = 0 THEN base ELSE Step(h[k - 1], k)
    <3>1. CASE k = n + 1
      <4>1. h[k] = Step(g[n], k) /\ k - 1 = n /\ k # 0 /\ h[n] = g[n]
        BY <3>1
      <4> QED
        BY <4>1
    <3>2. CASE k = 0
      BY <2>1, <3>2 DEF UpTo
    <3>3. CASE k # n + 1 /\ k # 0
      <4>1. k \in 0..n /\ k - 1 \in 0..n+1 /\ k - 1 # n + 1
        BY <3>3
      <4>2. h[k] = g[k] /\ h[k - 1] = g[k - 1]
        BY <3>3, <4>1
      <4> QED
        BY <2>1, <3>3, <4>1, <4>2 DEF UpTo
    <3> QED
      BY <3>1, <3>2, <3>3
  <2>3. UpTo(h, n + 1)
    BY <2>2 DEF UpTo
  <2> QED
    BY <2>3
<1>3. P = Nat
  <2>1. P \in SUBSET Nat
    OBVIOUS
  <2> HIDE DEF P
  <2> QED
    BY <1>1, <1>2, <2>1, NatSetInduction
<1> QED
  BY <1>3

(* ... and any two agree as far as both go. *)
LEMMA PrefixUnique ==
  ASSUME NEW g, NEW h, NEW m \in Nat, NEW n \in Nat, UpTo(g, m), UpTo(h, n)
  PROVE  \A k \in Nat : k <= m /\ k <= n => g[k] = h[k]
<1> DEFINE P == {k \in Nat : k <= m /\ k <= n => g[k] = h[k]}
<1>1. 0 \in P
  <2>1. 0 \in 0..m /\ 0 \in 0..n
    OBVIOUS
  <2> QED
    BY <2>1 DEF UpTo
<1>2. ASSUME NEW k \in P PROVE k + 1 \in P
  <2>1. CASE k + 1 <= m /\ k + 1 <= n
    <3>1. k + 1 \in 0..m /\ k + 1 \in 0..n /\ k + 1 # 0 /\ (k + 1) - 1 = k
      BY <2>1
    <3>2. g[k] = h[k]
      BY <2>1
    <3>3. g[k + 1] = Step(g[k], k + 1) /\ h[k + 1] = Step(h[k], k + 1)
      BY <3>1 DEF UpTo
    <3> QED
      BY <3>2, <3>3
  <2> QED
    BY <2>1
<1>3. P = Nat
  <2>1. P \in SUBSET Nat
    OBVIOUS
  <2> HIDE DEF P
  <2> QED
    BY <1>1, <1>2, <2>1, NatSetInduction
<1> QED
  BY <1>3

(* The recursion defines a function: its own equation holds of it. *)
LEMMA RecDefined ==
  Rec = [n \in Nat |-> IF n = 0 THEN base ELSE Step(Rec[n - 1], n)]
<1> DEFINE P(n) == CHOOSE g : UpTo(g, n)
           F == [n \in Nat |-> P(n)[n]]
<1>1. \A n \in Nat : UpTo(P(n), n)
  BY PrefixExists
<1> HIDE DEF P
<1>2. ASSUME NEW n \in Nat
      PROVE  F[n] = IF n = 0 THEN base ELSE Step(F[n - 1], n)
  <2>1. CASE n = 0
    <3>1. UpTo(P(0), 0) /\ 0 \in 0..0
      BY <1>1
    <3> QED
      BY <2>1, <3>1 DEF UpTo
  <2>2. CASE n # 0
    <3>1. n - 1 \in Nat /\ n \in 0..n /\ n - 1 <= n /\ n - 1 <= n - 1
      BY <2>2
    <3>2. P(n)[n] = Step(P(n)[n - 1], n)
      BY <1>1, <2>2, <3>1 DEF UpTo
    <3>3. P(n)[n - 1] = P(n - 1)[n - 1]
      BY <1>1, <3>1, PrefixUnique
    <3>4. F[n] = P(n)[n] /\ F[n - 1] = P(n - 1)[n - 1]
      BY <3>1
    <3> QED
      BY <2>2, <3>2, <3>3, <3>4
  <2> QED
    BY <2>1, <2>2
<1> HIDE DEF F
<1>3. F = [n \in Nat |-> IF n = 0 THEN base ELSE Step(F[n - 1], n)]
  <2>1. F = [n \in Nat |-> F[n]]
    BY DEF F
  <2> QED
    BY <1>2, <2>1
<1> QED
  BY <1>3, Zenon DEF Rec

(* A step that stays in S keeps the recursion in S. *)
LEMMA RecType ==
  ASSUME NEW S, base \in S, \A x \in S, n \in Nat : Step(x, n) \in S
  PROVE  Rec \in [Nat -> S]
<1> DEFINE P == {n \in Nat : Rec[n] \in S}
<1>1. 0 \in P
  BY RecDefined
<1>2. ASSUME NEW n \in P PROVE n + 1 \in P
  <2>1. Rec[n + 1] = Step(Rec[n], n + 1)
    BY RecDefined
  <2> QED
    BY <2>1
<1>3. P = Nat
  <2>1. P \in SUBSET Nat
    OBVIOUS
  <2> HIDE DEF P
  <2> QED
    BY <1>1, <1>2, <2>1, NatSetInduction
<1> QED
  BY <1>3, RecDefined

-------------------------------------------------------------------------------
(***************************************************************************)
(* FoldLeft, by which the models walk a sequence: what it returns on the   *)
(* empty sequence and behind one more element, and what it keeps.          *)
(***************************************************************************)
(* What FoldLeft recurses on: the sets of indices of a sequence, from      *)
(* which it takes the greatest away.                                       *)
Folds(g, b, s, n) == g = [T \in SUBSET (1..n) |->
   IF T = {} THEN b ELSE Step(g[T \ {Max(T)}], s[Max(T)])]

LEMMA MaxIs ==
  ASSUME NEW n \in Nat, NEW T \in SUBSET (1..n), T # {}
  PROVE  Max(T) \in T /\ \A y \in T : Max(T) >= y
<1>1. T \in SUBSET (0..n)
  OBVIOUS
<1>2. PICK x \in T : \A y \in T : y <= x
  BY <1>1, GreatestNumber
<1>3. \A y \in T : x >= y
  BY <1>1, <1>2
<1> QED
  BY <1>2, <1>3 DEF Max

(* The sets of indices below n + 1 are those below n, and those with n + 1. *)
LEMMA MaxSplits ==
  ASSUME NEW n \in Nat, NEW T \in SUBSET (1..n+1)
  PROVE  /\ n + 1 \notin T => T \in SUBSET (1..n)
         /\ n + 1 \in T => Max(T) = n + 1 /\ T \ {n + 1} \in SUBSET (1..n)
<1>1. n + 1 \in T => Max(T) = n + 1
  <2> SUFFICES ASSUME n + 1 \in T PROVE Max(T) = n + 1
    OBVIOUS
  <2>1. n + 1 \in Nat /\ T # {}
    OBVIOUS
  <2>2. Max(T) \in T /\ Max(T) >= n + 1
    BY <2>1, MaxIs
  <2>3. Max(T) \in 1..n+1
    BY <2>2
  <2> HIDE DEF Max
  <2> QED
    BY <2>2, <2>3
<1>2. \A k \in T : k # n + 1 => k \in 1..n
  OBVIOUS
<1> QED
  BY <1>1, <1>2

LEMMA FoldsExists == ASSUME NEW b, NEW s PROVE \A n \in Nat : \E g : Folds(g, b, s, n)
<1> DEFINE P == {n \in Nat : \E g : Folds(g, b, s, n)}
<1>1. 0 \in P
  <2>1. \A T \in SUBSET (1..0) : T = {}
    OBVIOUS
  <2>2. Folds([T \in SUBSET (1..0) |-> b], b, s, 0)
    BY <2>1 DEF Folds
  <2> QED
    BY <2>2
<1>2. ASSUME NEW n \in P PROVE n + 1 \in P
  <2>1. PICK g : Folds(g, b, s, n)
    OBVIOUS
  <2> DEFINE h == [T \in SUBSET (1..n+1) |->
                     IF n + 1 \in T THEN Step(g[T \ {n + 1}], s[n + 1]) ELSE g[T]]
  <2>2. ASSUME NEW T \in SUBSET (1..n+1)
        PROVE  h[T] = IF T = {} THEN b ELSE Step(h[T \ {Max(T)}], s[Max(T)])
    <3>1. CASE n + 1 \in T
      <4>1. Max(T) = n + 1 /\ T \ {n + 1} \in SUBSET (1..n)
        BY <3>1, MaxSplits
      <4>2. h[T] = Step(g[T \ {n + 1}], s[n + 1]) /\ h[T \ {n + 1}] = g[T \ {n + 1}]
        BY <3>1
      <4> QED
        BY <3>1, <4>1, <4>2
    <3>2. CASE n + 1 \notin T
      <4>1. T \in SUBSET (1..n) /\ h[T] = g[T]
        BY <3>2, MaxSplits
      <4>2. g[T] = IF T = {} THEN b ELSE Step(g[T \ {Max(T)}], s[Max(T)])
        BY <2>1, <4>1 DEF Folds
      <4>3. h[T \ {Max(T)}] = g[T \ {Max(T)}]
        BY <3>2
      <4> QED
        BY <4>1, <4>2, <4>3
    <3> QED
      BY <3>1, <3>2
  <2>3. h = [T \in SUBSET (1..n+1) |-> h[T]]
    OBVIOUS
  <2> HIDE DEF h
  <2>4. Folds(h, b, s, n + 1)
    BY <2>2, <2>3 DEF Folds
  <2> QED
    BY <2>4
<1>3. P = Nat
  <2>1. P \in SUBSET Nat
    OBVIOUS
  <2> HIDE DEF P
  <2> QED
    BY <1>1, <1>2, <2>1, NatSetInduction
<1> QED
  BY <1>3

LEMMA FoldsAgree ==
  ASSUME NEW b, NEW s, NEW t, NEW m \in Nat, NEW n \in Nat, NEW g, NEW h,
         Folds(g, b, s, m), Folds(h, b, t, n), \A k \in 1..m : k <= n => s[k] = t[k]
  PROVE  \A k \in Nat : k <= m /\ k <= n => g[1..k] = h[1..k]
<1> DEFINE P == {k \in Nat : k <= m /\ k <= n => \A T \in SUBSET (1..k) : g[T] = h[T]}
<1>1. 0 \in P
  <2>1. \A T \in SUBSET (1..0) : T = {}
    OBVIOUS
  <2>2. {} \in SUBSET (1..m) /\ {} \in SUBSET (1..n)
    OBVIOUS
  <2>3. g[{}] = b /\ h[{}] = b
    BY <2>2 DEF Folds
  <2> QED
    BY <2>1, <2>3
<1>2. ASSUME NEW k \in P PROVE k + 1 \in P
  <2> SUFFICES ASSUME k + 1 <= m, k + 1 <= n, NEW T \in SUBSET (1..k+1) PROVE g[T] = h[T]
    OBVIOUS
  <2>0. k \in Nat /\ \A U \in SUBSET (1..k) : g[U] = h[U]
    OBVIOUS
  <2>1. CASE k + 1 \notin T
    BY <2>0, <2>1, MaxSplits
  <2>2. CASE k + 1 \in T
    <3>1. Max(T) = k + 1 /\ T \ {k + 1} \in SUBSET (1..k)
      BY <2>0, <2>2, MaxSplits
    <3>2. T \in SUBSET (1..m) /\ T \in SUBSET (1..n) /\ T # {}
      BY <2>0, <2>2
    <3>3. g[T] = Step(g[T \ {k + 1}], s[k + 1])
      BY <3>1, <3>2, ZenonT(30) DEF Folds
    <3>4. h[T] = Step(h[T \ {k + 1}], t[k + 1])
      BY <3>1, <3>2 DEF Folds
    <3>5. s[k + 1] = t[k + 1]
      BY <2>0
    <3> QED
      BY <2>0, <3>1, <3>3, <3>4, <3>5
  <2> QED
    BY <2>1, <2>2
<1>3. P = Nat
  <2>1. P \in SUBSET Nat
    OBVIOUS
  <2> HIDE DEF P
  <2> QED
    BY <1>1, <1>2, <2>1, NatSetInduction
<1>4. \A k \in Nat : (1..k) \in SUBSET (1..k)
  OBVIOUS
<1> QED
  BY <1>3, <1>4

LEMMA FoldIs ==
  ASSUME NEW b, NEW s, NEW n \in Nat, DOMAIN s = 1..n
  PROVE  \E g : Folds(g, b, s, n) /\ FoldLeft(Step, b, s) = g[1..n]
<1> DEFINE iter == CHOOSE g : g = [T \in SUBSET (DOMAIN s) |->
                      IF T = {} THEN b ELSE Step(g[T \ {Max(T)}], s[Max(T)])]
<1>1. FoldLeft(Step, b, s) = iter[DOMAIN s]
  BY Zenon DEF FoldLeft, MapThenFoldSet
<1>2. \E g : g = [T \in SUBSET (DOMAIN s) |->
                      IF T = {} THEN b ELSE Step(g[T \ {Max(T)}], s[Max(T)])]
  <2>1. PICK g : Folds(g, b, s, n)
    BY FoldsExists
  <2> QED
    BY <2>1 DEF Folds
<1>3. iter = [T \in SUBSET (DOMAIN s) |->
                      IF T = {} THEN b ELSE Step(iter[T \ {Max(T)}], s[Max(T)])]
  BY <1>2, Zenon
<1> HIDE DEF iter
<1>4. Folds(iter, b, s, n)
  BY <1>3, Zenon DEF Folds
<1> QED
  BY <1>1, <1>4

LEMMA FoldEmpty == \A b : FoldLeft(Step, b, << >>) = b
<1> TAKE b
<1>1. DOMAIN << >> = 1..0
  OBVIOUS
<1>2. PICK g : Folds(g, b, << >>, 0) /\ FoldLeft(Step, b, << >>) = g[1..0]
  BY <1>1, FoldIs
<1>3. 1..0 = {}
  OBVIOUS
<1>4. g[{}] = b
  BY <1>2 DEF Folds
<1> QED
  BY <1>2, <1>3, <1>4

LEMMA FoldAppend ==
  ASSUME NEW S, NEW s \in Seq(S), NEW x \in S, NEW b
  PROVE  FoldLeft(Step, b, Append(s, x)) = Step(FoldLeft(Step, b, s), x)
<1> DEFINE n == Len(s)
           t == Append(s, x)
<1>1. n \in Nat /\ DOMAIN s = 1..n
  BY LenProperties
<1>2. /\ DOMAIN t = 1..n+1 /\ t[n + 1] = x
      /\ \A k \in 1..n : t[k] = s[k]
  <2>1. t \in Seq(S) /\ Len(t) = n + 1
    BY AppendProperties
  <2>2. DOMAIN t = 1..n+1
    BY <1>1, <2>1, LenProperties
  <2> QED
    BY <2>2, AppendProperties
<1> HIDE DEF t, n
<1>3. PICK g : Folds(g, b, s, n) /\ FoldLeft(Step, b, s) = g[1..n]
  BY <1>1, FoldIs
<1>4. PICK h : Folds(h, b, t, n + 1) /\ FoldLeft(Step, b, t) = h[1..n+1]
  BY <1>1, <1>2, FoldIs
<1>5. g[1..n] = h[1..n]
  <2>1. n + 1 \in Nat /\ n <= n /\ n <= n + 1
    BY <1>1
  <2>2. \A k \in Nat : k <= n /\ k <= n + 1 => g[1..k] = h[1..k]
    <3>1. \A k \in 1..n : k <= n + 1 => s[k] = t[k]
      BY <1>2
    <3>2. Folds(g, b, s, n) /\ Folds(h, b, t, n + 1)
      BY <1>3, <1>4
    <3> DEFINE m == n + 1
    <3>3. m \in Nat /\ Folds(h, b, t, m) /\ \A k \in 1..n : k <= m => s[k] = t[k]
      BY <2>1, <3>1, <3>2
    <3> HIDE DEF m
    <3>4. \A k \in Nat : k <= n /\ k <= m => g[1..k] = h[1..k]
      BY <1>1, <3>2, <3>3, FoldsAgree
    <3> QED
      BY <3>4 DEF m
  <2> QED
    BY <1>1, <2>1, <2>2
<1>6. Max(1..n+1) = n + 1 /\ (1..n+1) \ {n + 1} = 1..n
  <2>1. (1..n+1) \in SUBSET (1..n+1) /\ n + 1 \in 1..n+1
    BY <1>1
  <2> QED
    BY <1>1, <2>1, MaxSplits
<1>7. h[1..n+1] = Step(h[1..n], t[n + 1])
  <2>1. (1..n+1) \in SUBSET (1..n+1) /\ n + 1 \in 1..n+1
    BY <1>1
  <2> QED
    BY <1>4, <1>6, <2>1 DEF Folds
<1> QED
  BY <1>2, <1>3, <1>4, <1>5, <1>7 DEF t

(* Whatever holds of where a fold starts, and is handed on by every element, *)
(* holds of what it returns; a set of pairs says what is to hold.            *)
LEMMA FoldInvariant ==
  ASSUME NEW S, NEW s \in Seq(S), NEW b, NEW Q,
         <<0, b>> \in Q,
         \A k \in 1..Len(s) : \A a : <<k - 1, a>> \in Q => <<k, Step(a, s[k])>> \in Q
  PROVE  <<Len(s), FoldLeft(Step, b, s)>> \in Q
<1> DEFINE P == {n \in Nat : n <= Len(s) =>
                   <<n, FoldLeft(Step, b, SubSeq(s, 1, n))>> \in Q}
<1>0. Len(s) \in Nat
  BY LenProperties
<1>1. 0 \in P
  <2>1. SubSeq(s, 1, 0) = << >>
    BY SubSeqProperties
  <2> QED
    BY <2>1, FoldEmpty
<1>2. ASSUME NEW n \in P PROVE n + 1 \in P
  <2> SUFFICES ASSUME n + 1 <= Len(s)
               PROVE  <<n + 1, FoldLeft(Step, b, SubSeq(s, 1, n + 1))>> \in Q
    OBVIOUS
  <2>1. n \in Nat /\ n + 1 \in 1..Len(s) /\ n <= Len(s) /\ s[n + 1] \in S
    BY <1>0, ElementOfSeq
  <2>2. SubSeq(s, 1, n) \in Seq(S) /\ SubSeq(s, 1, n + 1) = Append(SubSeq(s, 1, n), s[n + 1])
    OBVIOUS
  <2> DEFINE a == FoldLeft(Step, b, SubSeq(s, 1, n))
  <2>3. FoldLeft(Step, b, SubSeq(s, 1, n + 1)) = Step(a, s[n + 1])
    BY <2>1, <2>2, FoldAppend
  <2>4. <<n, a>> \in Q
    BY <2>1
  <2> HIDE DEF a
  <2>5. <<n + 1, Step(a, s[n + 1])>> \in Q
    <3>1. (n + 1) - 1 = n
      BY <2>1
    <3> QED
      BY <2>1, <2>4, <3>1
  <2> QED
    BY <2>3, <2>5
<1>3. P = Nat
  <2>1. P \in SUBSET Nat
    OBVIOUS
  <2> HIDE DEF P
  <2> QED
    BY <1>1, <1>2, <2>1, NatSetInduction
<1>4. SubSeq(s, 1, Len(s)) = s
  BY <1>0, SubSeqProperties
<1>5. <<Len(s), FoldLeft(Step, b, SubSeq(s, 1, Len(s)))>> \in Q
  BY <1>0, <1>3
<1> QED
  BY <1>4, <1>5

(* A fold over two sequences is the fold over the second from where the    *)
(* fold over the first arrived.                                            *)
LEMMA FoldConcat ==
  ASSUME NEW S, NEW s \in Seq(S), NEW t \in Seq(S), NEW b
  PROVE  FoldLeft(Step, b, s \o t) = FoldLeft(Step, FoldLeft(Step, b, s), t)
<1> DEFINE a == FoldLeft(Step, b, s)
           P == {n \in Nat : \A u \in Seq(S) : Len(u) = n =>
                   FoldLeft(Step, b, s \o u) = FoldLeft(Step, a, u)}
<1>1. 0 \in P
  <2> SUFFICES ASSUME NEW u \in Seq(S), Len(u) = 0
               PROVE  FoldLeft(Step, b, s \o u) = FoldLeft(Step, a, u)
    OBVIOUS
  <2>1. u = << >>
    BY EmptySeq
  <2>2. s \o u = s
    BY <2>1, ConcatEmptySeq
  <2>3. FoldLeft(Step, a, u) = a
    BY <2>1, FoldEmpty
  <2> QED
    BY <2>2, <2>3
<1>2. ASSUME NEW n \in P PROVE n + 1 \in P
  <2> SUFFICES ASSUME NEW u \in Seq(S), Len(u) = n + 1
               PROVE  FoldLeft(Step, b, s \o u) = FoldLeft(Step, a, u)
    OBVIOUS
  <2>1. u # << >>
    BY EmptySeq
  <2>2. PICK v \in Seq(S), x \in S : u = Append(v, x)
    BY <2>1, SequenceEmptyOrAppend
  <2>3. Len(v) = n
    <3>1. Len(u) = Len(v) + 1
      BY <2>2, AppendProperties
    <3> QED
      BY <3>1, LenProperties
  <2>4. s \o u = Append(s \o v, x) /\ s \o v \in Seq(S)
    <3>1. u = v \o <<x>> /\ <<x>> \in Seq(S)
      BY <2>2, AppendIsConcat
    <3>2. s \o v \in Seq(S)
      BY ConcatProperties
    <3>3. Append(s \o v, x) = (s \o v) \o <<x>>
      BY <3>2, AppendIsConcat
    <3>4. (s \o v) \o <<x>> = s \o (v \o <<x>>)
      BY <3>1, ConcatAssociative
    <3> QED
      BY <3>1, <3>2, <3>3, <3>4
  <2>5. FoldLeft(Step, b, s \o v) = FoldLeft(Step, a, v)
    BY <2>3
  <2>6. FoldLeft(Step, b, s \o u) = Step(FoldLeft(Step, b, s \o v), x)
    BY <2>4, FoldAppend
  <2>7. FoldLeft(Step, a, u) = Step(FoldLeft(Step, a, v), x)
    BY <2>2, FoldAppend
  <2> QED
    BY <2>5, <2>6, <2>7
<1>3. P = Nat
  <2>1. P \in SUBSET Nat
    OBVIOUS
  <2> HIDE DEF P
  <2> QED
    BY <1>1, <1>2, <2>1, NatSetInduction
<1>4. Len(t) \in Nat
  BY LenProperties
<1> QED
  BY <1>3, <1>4

(* The fold of one element is one step. *)
LEMMA FoldOne ==
  ASSUME NEW S, NEW x \in S, NEW b
  PROVE  FoldLeft(Step, b, <<x>>) = Step(b, x)
<1>1. << >> \in Seq(S) /\ Append(<< >>, x) = <<x>>
  BY EmptySeq
<1>2. FoldLeft(Step, b, Append(<< >>, x)) = Step(FoldLeft(Step, b, << >>), x)
  BY <1>1, FoldAppend
<1> QED
  BY <1>1, <1>2, FoldEmpty

(* A step that stays in T keeps the fold in T. *)
LEMMA FoldType ==
  ASSUME NEW S, NEW T, NEW s \in Seq(S), NEW b \in T,
         \A a \in T, x \in S : Step(a, x) \in T
  PROVE  FoldLeft(Step, b, s) \in T
<1> DEFINE Q == Nat \X T
<1>1. <<0, b>> \in Q
  OBVIOUS
<1>2. ASSUME NEW k \in 1..Len(s), NEW a, <<k - 1, a>> \in Q
      PROVE  <<k, Step(a, s[k])>> \in Q
  <2>1. Len(s) \in Nat /\ s[k] \in S
    BY LenProperties, ElementOfSeq
  <2>2. a \in T /\ k \in Nat
    BY <1>2, <2>1
  <2> QED
    BY <2>1, <2>2
<1>3. <<Len(s), FoldLeft(Step, b, s)>> \in Q
  <2> HIDE DEF Q
  <2> QED
    BY <1>1, <1>2, FoldInvariant
<1> QED
  BY <1>3

Concatenates(T) == \A p, q, r \in Seq(T) : (p \o q) \o r = p \o (q \o r)

(* A set of sequences that has the empty one and each of its members with  *)
(* one more element has them all.                                          *)
LEMMA SeqSetInduction ==
  ASSUME NEW S, NEW P \in SUBSET Seq(S), << >> \in P,
         \A s \in P, x \in S : Append(s, x) \in P
  PROVE  P = Seq(S)
<1> DEFINE D == {n \in Nat : \A s \in Seq(S) : Len(s) = n => s \in P}
<1>1. 0 \in D
  BY EmptySeq
<1>2. ASSUME NEW n \in D PROVE n + 1 \in D
  <2> SUFFICES ASSUME NEW u \in Seq(S), Len(u) = n + 1 PROVE u \in P
    OBVIOUS
  <2>1. u # << >>
    BY EmptySeq
  <2>2. PICK v \in Seq(S), x \in S : u = Append(v, x)
    BY <2>1, SequenceEmptyOrAppend
  <2>3. Len(v) = n
    <3>1. Len(u) = Len(v) + 1
      BY <2>2, AppendProperties
    <3> QED
      BY <3>1, LenProperties
  <2> QED
    BY <2>2, <2>3
<1>3. D = Nat
  <2>1. D \in SUBSET Nat
    OBVIOUS
  <2> HIDE DEF D
  <2> QED
    BY <1>1, <1>2, <2>1, NatSetInduction
<1>4. \A s \in Seq(S) : Len(s) \in Nat
  BY LenProperties
<1> QED
  BY <1>3, <1>4

LEMMA Associative == \A T : Concatenates(T)
BY ConcatAssociative DEF Concatenates

(* A step that appends to a sequence what it makes of the element alone:   *)
(* its fold is a sequence, and begins with what it began with.             *)
Collects(S, T) ==
  /\ \A x \in S : Step(<< >>, x) \in Seq(T)
  /\ \A a \in Seq(T), x \in S : Step(a, x) = a \o Step(<< >>, x)

LEMMA CollectsFold ==
  ASSUME NEW S, NEW T, Collects(S, T), NEW s \in Seq(S), NEW a \in Seq(T)
  PROVE  /\ FoldLeft(Step, a, s) \in Seq(T)
         /\ FoldLeft(Step, << >>, s) \in Seq(T)
         /\ FoldLeft(Step, a, s) = a \o FoldLeft(Step, << >>, s)
<1>0. << >> \in Seq(T)
  BY EmptySeq
<1>1. \A c \in Seq(T), x \in S : Step(c, x) \in Seq(T)
  BY ConcatProperties DEF Collects
<1>2. \A c \in Seq(T), u \in Seq(S) : FoldLeft(Step, c, u) \in Seq(T)
  <2> TAKE c \in Seq(T), u \in Seq(S)
  <2> DEFINE D == Seq(T)
  <2>1. c \in D /\ \A d \in D, x \in S : Step(d, x) \in D
    BY <1>1
  <2> HIDE DEF D
  <2>2. FoldLeft(Step, c, u) \in D
    BY <2>1, FoldType
  <2> QED
    BY <2>2 DEF D
<1> DEFINE P == {n \in Nat : \A u \in Seq(S) : Len(u) = n =>
                   FoldLeft(Step, a, u) = a \o FoldLeft(Step, << >>, u)}
<1>3. 0 \in P
  <2> SUFFICES ASSUME NEW u \in Seq(S), Len(u) = 0
               PROVE  FoldLeft(Step, a, u) = a \o FoldLeft(Step, << >>, u)
    OBVIOUS
  <2>1. u = << >>
    BY EmptySeq
  <2>2. FoldLeft(Step, a, u) = a /\ FoldLeft(Step, << >>, u) = << >>
    BY <2>1, FoldEmpty
  <2> QED
    BY <2>2, ConcatEmptySeq
<1>4. ASSUME NEW n \in P PROVE n + 1 \in P
  <2> SUFFICES ASSUME NEW u \in Seq(S), Len(u) = n + 1
               PROVE  FoldLeft(Step, a, u) = a \o FoldLeft(Step, << >>, u)
    OBVIOUS
  <2>1. u # << >>
    BY EmptySeq
  <2>2. PICK v \in Seq(S), x \in S : u = Append(v, x)
    BY <2>1, SequenceEmptyOrAppend
  <2>3. Len(v) = n
    <3>1. Len(u) = Len(v) + 1
      BY <2>2, AppendProperties
    <3> QED
      BY <3>1, LenProperties
  <2> DEFINE f == FoldLeft(Step, << >>, v)
             g == FoldLeft(Step, a, v)
             e == Step(<< >>, x)
  <2>4. g = a \o f
    BY <2>3
  <2>5. FoldLeft(Step, a, u) = Step(g, x) /\ FoldLeft(Step, << >>, u) = Step(f, x)
    BY <2>2, FoldAppend
  <2>6. f \in Seq(T) /\ g \in Seq(T) /\ e \in Seq(T)
    BY <1>0, <1>2 DEF Collects
  <2>7. Step(g, x) = g \o e /\ Step(f, x) = f \o e
    BY <2>6 DEF Collects
  <2> HIDE DEF f, g, e
  <2>8. (a \o f) \o e = a \o (f \o e)
    <3>1. Concatenates(T)
      BY Associative
    <3> QED
      BY <2>6, <3>1 DEF Concatenates
  <2> QED
    BY <2>4, <2>5, <2>7, <2>8
<1>5. P = Nat
  <2>1. P \in SUBSET Nat
    OBVIOUS
  <2> HIDE DEF P
  <2> QED
    BY <1>3, <1>4, <2>1, NatSetInduction
<1>6. Len(s) \in Nat
  BY LenProperties
<1> QED
  BY <1>0, <1>2, <1>5, <1>6

LEMMA CollectsConcat ==
  ASSUME NEW S, NEW T, Collects(S, T), NEW s \in Seq(S), NEW t \in Seq(S)
  PROVE  FoldLeft(Step, << >>, s \o t) = FoldLeft(Step, << >>, s) \o FoldLeft(Step, << >>, t)
<1>1. << >> \in Seq(T)
  BY EmptySeq
<1> DEFINE f == FoldLeft(Step, << >>, s)
<1>2. f \in Seq(T)
  BY <1>1, CollectsFold
<1>3. FoldLeft(Step, << >>, s \o t) = FoldLeft(Step, f, t)
  BY FoldConcat
<1> HIDE DEF f
<1>4. FoldLeft(Step, f, t) = f \o FoldLeft(Step, << >>, t)
  BY <1>2, CollectsFold
<1> QED
  BY <1>3, <1>4 DEF f

-------------------------------------------------------------------------------
(***************************************************************************)
(* FlattenSeq, by which the models join the units of a stream and the      *)
(* parts of a header.                                                      *)
(***************************************************************************)
Flattens(f, ss, n) ==
  f = [i \in 1..n |-> IF i = 1 THEN ss[i] ELSE f[i - 1] \o ss[i]]

LEMMA FlattensExists ==
  ASSUME NEW ss PROVE \A n \in Nat : \E f : Flattens(f, ss, n)
<1> DEFINE P == {n \in Nat : \E f : Flattens(f, ss, n)}
<1>1. 0 \in P
  <2>1. Flattens([i \in 1..0 |-> ss[i]], ss, 0)
    BY DEF Flattens
  <2> QED
    BY <2>1
<1>2. ASSUME NEW n \in P PROVE n + 1 \in P
  <2>1. PICK f : Flattens(f, ss, n)
    OBVIOUS
  <2> DEFINE h == [i \in 1..n+1 |-> IF i = n + 1
                     THEN IF i = 1 THEN ss[i] ELSE f[n] \o ss[i] ELSE f[i]]
  <2>2. ASSUME NEW i \in 1..n+1
        PROVE  h[i] = IF i = 1 THEN ss[i] ELSE h[i - 1] \o ss[i]
    <3>1. CASE i = n + 1
      <4>1. h[i] = (IF i = 1 THEN ss[i] ELSE f[n] \o ss[i])
        BY <3>1
      <4>2. i # 1 => h[i - 1] = f[n]
        <5> SUFFICES ASSUME i # 1 PROVE h[i - 1] = f[n]
          OBVIOUS
        <5>1. i - 1 = n /\ n \in 1..n+1 /\ n # n + 1
          BY <3>1
        <5> QED
          BY <5>1
      <4> QED
        BY <4>1, <4>2
    <3>2. CASE i # n + 1
      <4>1. i \in 1..n /\ h[i] = f[i]
        BY <3>2
      <4>2. f[i] = (IF i = 1 THEN ss[i] ELSE f[i - 1] \o ss[i])
        BY <2>1, <4>1 DEF Flattens
      <4>3. i # 1 => h[i - 1] = f[i - 1]
        BY <4>1
      <4> QED
        BY <4>1, <4>2, <4>3
    <3> QED
      BY <3>1, <3>2
  <2>3. h = [i \in 1..n+1 |-> h[i]]
    OBVIOUS
  <2> HIDE DEF h
  <2>4. Flattens(h, ss, n + 1)
    BY <2>2, <2>3 DEF Flattens
  <2> QED
    BY <2>4
<1>3. P = Nat
  <2>1. P \in SUBSET Nat
    OBVIOUS
  <2> HIDE DEF P
  <2> QED
    BY <1>1, <1>2, <2>1, NatSetInduction
<1> QED
  BY <1>3

(* Two sequences that begin with the same n elements. *)
Alike(s, t, n) == \A k \in 1..n : s[k] = t[k]

LEMMA FlattensAt ==
  ASSUME NEW f, NEW ss, NEW n \in Nat, Flattens(f, ss, n), NEW i \in 1..n
  PROVE  f[i] = IF i = 1 THEN ss[i] ELSE f[i - 1] \o ss[i]
BY DEF Flattens

LEMMA FlattensAgree ==
  ASSUME NEW ss, NEW tt, NEW m \in Nat, NEW n \in Nat, m <= n, NEW f, NEW h,
         Flattens(f, ss, m), Flattens(h, tt, n), Alike(ss, tt, m)
  PROVE  Alike(f, h, m)
<1> USE DEF Alike
<1> DEFINE P == {k \in Nat : k \in 1..m => f[k] = h[k]}
<1>1. 0 \in P
  OBVIOUS
<1>2. ASSUME NEW k \in P PROVE k + 1 \in P
  <2> SUFFICES ASSUME k + 1 \in 1..m PROVE f[k + 1] = h[k + 1]
    OBVIOUS
  <2>1. k + 1 \in 1..m /\ k + 1 \in 1..n /\ (k + 1) - 1 = k
    OBVIOUS
  <2>2. f[k + 1] = (IF k + 1 = 1 THEN ss[k + 1] ELSE f[k] \o ss[k + 1])
    BY <2>1, FlattensAt
  <2>3. h[k + 1] = (IF k + 1 = 1 THEN tt[k + 1] ELSE h[k] \o tt[k + 1])
    BY <2>1, FlattensAt
  <2>4. k + 1 # 1 => f[k] = h[k]
    BY <2>1
  <2> QED
    BY <2>2, <2>3, <2>4
<1>3. P = Nat
  <2>1. P \in SUBSET Nat
    OBVIOUS
  <2> HIDE DEF P
  <2> QED
    BY <1>1, <1>2, <2>1, NatSetInduction
<1> QED
  BY <1>3

LEMMA FlattenIs ==
  ASSUME NEW S, NEW ss \in Seq(S), Len(ss) # 0
  PROVE  \E f : Flattens(f, ss, Len(ss)) /\ FlattenSeq(ss) = f[Len(ss)]
<1> DEFINE n == Len(ss)
           flatten == CHOOSE g : g = [i \in 1..Len(ss) |-> IF i = 1 THEN ss[i]
                                                ELSE g[i - 1] \o ss[i]]
<1>1. FlattenSeq(ss) = flatten[Len(ss)]
  BY Zenon DEF FlattenSeq
<1>2. n \in Nat
  BY LenProperties
<1>3. PICK f : Flattens(f, ss, n)
  BY <1>2, FlattensExists
<1>4. f = [i \in 1..Len(ss) |-> IF i = 1 THEN ss[i] ELSE f[i - 1] \o ss[i]]
  BY <1>3 DEF Flattens
<1>5. flatten = [i \in 1..Len(ss) |-> IF i = 1 THEN ss[i] ELSE flatten[i - 1] \o ss[i]]
  BY <1>4, Zenon
<1> HIDE DEF flatten
<1>6. Flattens(flatten, ss, Len(ss))
  BY <1>5, Zenon DEF Flattens
<1> QED
  BY <1>1, <1>6

LEMMA FlattenEmpty == FlattenSeq(<< >>) = << >>
BY EmptySeq DEF FlattenSeq

LEMMA FlattenAppend ==
  ASSUME NEW T, NEW ss \in Seq(Seq(T)), NEW x \in Seq(T)
  PROVE  FlattenSeq(Append(ss, x)) = FlattenSeq(ss) \o x
<1> DEFINE tt == Append(ss, x)
           n == Len(ss)
<1>1. n \in Nat
  BY LenProperties
<1>2. /\ tt \in Seq(Seq(T)) /\ Len(tt) = n + 1 /\ tt[n + 1] = x
      /\ \A k \in 1..n : tt[k] = ss[k]
  BY <1>1, AppendProperties
<1>3. Len(tt) # 0
  BY <1>1, <1>2
<1> HIDE DEF tt
<1>4. PICK h : Flattens(h, tt, Len(tt)) /\ FlattenSeq(tt) = h[Len(tt)]
  BY <1>2, <1>3, FlattenIs
<1>5. FlattenSeq(tt) = h[n + 1] /\ Flattens(h, tt, n + 1)
  BY <1>2, <1>4
<1>6. CASE n = 0
  <2>1. ss = << >>
    BY <1>6, EmptySeq
  <2>2. h[n + 1] = tt[n + 1]
    BY <1>5, <1>6 DEF Flattens
  <2>3. FlattenSeq(ss) \o x = x
    BY <2>1, FlattenEmpty, ConcatEmptySeq
  <2> QED
    BY <1>2, <1>5, <2>2, <2>3 DEF tt
<1>7. CASE n # 0
  <2>1. PICK f : Flattens(f, ss, n) /\ FlattenSeq(ss) = f[n]
    BY <1>7, FlattenIs
  <2>2. \A k \in 1..n : f[k] = h[k]
    <3> SUFFICES ASSUME NEW l, l = n, NEW m, m = n + 1
                 PROVE  Alike(f, h, l)
      BY DEF Alike
    <3>1. m \in Nat /\ l \in Nat /\ l <= m /\ Alike(ss, tt, l)
      BY <1>1, <1>2 DEF Alike
    <3>2. Flattens(f, ss, l) /\ Flattens(h, tt, m)
      BY <1>5, <2>1
    <3> QED
      BY <3>1, <3>2, FlattensAgree, Zenon
  <2>3. n + 1 \in 1..n+1 /\ n + 1 # 1 /\ (n + 1) - 1 = n /\ n \in 1..n
    BY <1>1, <1>7
  <2>4. h[n + 1] = h[n] \o tt[n + 1]
    BY <1>5, <2>3 DEF Flattens
  <2> QED
    BY <1>2, <1>5, <2>1, <2>2, <2>3, <2>4 DEF tt
<1> QED
  BY <1>6, <1>7

LEMMA FlattenType ==
  ASSUME NEW T, NEW ss \in Seq(Seq(T))
  PROVE  FlattenSeq(ss) \in Seq(T)
<1> DEFINE P == {n \in Nat : \A u \in Seq(Seq(T)) : Len(u) = n => FlattenSeq(u) \in Seq(T)}
<1>1. 0 \in P
  <2> SUFFICES ASSUME NEW u \in Seq(Seq(T)), Len(u) = 0 PROVE FlattenSeq(u) \in Seq(T)
    OBVIOUS
  <2>1. u = << >>
    BY EmptySeq
  <2> QED
    BY <2>1, FlattenEmpty, EmptySeq
<1>2. ASSUME NEW n \in P PROVE n + 1 \in P
  <2> SUFFICES ASSUME NEW u \in Seq(Seq(T)), Len(u) = n + 1 PROVE FlattenSeq(u) \in Seq(T)
    OBVIOUS
  <2>1. u # << >>
    BY EmptySeq
  <2>2. PICK v \in Seq(Seq(T)), x \in Seq(T) : u = Append(v, x)
    BY <2>1, SequenceEmptyOrAppend
  <2>3. Len(v) = n
    <3>1. Len(u) = Len(v) + 1
      BY <2>2, AppendProperties
    <3> QED
      BY <3>1, LenProperties
  <2>4. FlattenSeq(v) \in Seq(T)
    BY <2>3
  <2> QED
    BY <2>2, <2>4, FlattenAppend, ConcatProperties
<1>3. P = Nat
  <2>1. P \in SUBSET Nat
    OBVIOUS
  <2> HIDE DEF P
  <2> QED
    BY <1>1, <1>2, <2>1, NatSetInduction
<1>4. Len(ss) \in Nat
  BY LenProperties
<1> QED
  BY <1>3, <1>4

LEMMA FlattenOne == ASSUME NEW T, NEW x \in Seq(T) PROVE FlattenSeq(<<x>>) = x
<1>1. << >> \in Seq(Seq(T)) /\ Append(<< >>, x) = <<x>>
  BY EmptySeq
<1>2. FlattenSeq(Append(<< >>, x)) = FlattenSeq(<< >>) \o x
  BY <1>1, FlattenAppend
<1> QED
  BY <1>1, <1>2, FlattenEmpty, ConcatEmptySeq

LEMMA FlattenConcat ==
  ASSUME NEW T, NEW ss \in Seq(Seq(T)), NEW tt \in Seq(Seq(T))
  PROVE  FlattenSeq(ss \o tt) = FlattenSeq(ss) \o FlattenSeq(tt)
<1> DEFINE P == {n \in Nat : \A u \in Seq(Seq(T)) : Len(u) = n =>
                   FlattenSeq(ss \o u) = FlattenSeq(ss) \o FlattenSeq(u)}
<1>1. 0 \in P
  <2> SUFFICES ASSUME NEW u \in Seq(Seq(T)), Len(u) = 0
               PROVE  FlattenSeq(ss \o u) = FlattenSeq(ss) \o FlattenSeq(u)
    OBVIOUS
  <2>1. u = << >>
    BY EmptySeq
  <2>2. ss \o u = ss
    BY <2>1, ConcatEmptySeq
  <2>3. FlattenSeq(u) = << >> /\ FlattenSeq(ss) \in Seq(T)
    BY <2>1, FlattenEmpty, FlattenType
  <2>4. FlattenSeq(ss) \o << >> = FlattenSeq(ss)
    BY <2>3, ConcatEmptySeq
  <2> QED
    BY <2>2, <2>3, <2>4
<1>2. ASSUME NEW n \in P PROVE n + 1 \in P
  <2> SUFFICES ASSUME NEW u \in Seq(Seq(T)), Len(u) = n + 1
               PROVE  FlattenSeq(ss \o u) = FlattenSeq(ss) \o FlattenSeq(u)
    OBVIOUS
  <2>1. u # << >>
    BY EmptySeq
  <2>2. PICK v \in Seq(Seq(T)), x \in Seq(T) : u = Append(v, x)
    BY <2>1, SequenceEmptyOrAppend
  <2>3. Len(v) = n
    <3>1. Len(u) = Len(v) + 1
      BY <2>2, AppendProperties
    <3> QED
      BY <3>1, LenProperties
  <2>4. ss \o u = Append(ss \o v, x) /\ ss \o v \in Seq(Seq(T))
    <3>1. u = v \o <<x>> /\ <<x>> \in Seq(Seq(T))
      BY <2>2, AppendIsConcat
    <3>2. ss \o v \in Seq(Seq(T))
      BY ConcatProperties
    <3>3. Append(ss \o v, x) = (ss \o v) \o <<x>>
      BY <3>2, AppendIsConcat
    <3>4. (ss \o v) \o <<x>> = ss \o (v \o <<x>>)
      <4> DEFINE D == Seq(T)
      <4>1. Concatenates(D)
        BY Associative
      <4>2. ss \in Seq(D) /\ v \in Seq(D) /\ <<x>> \in Seq(D)
        BY <3>1
      <4> HIDE DEF D
      <4> QED
        BY <4>1, <4>2 DEF Concatenates
    <3> QED
      BY <3>1, <3>2, <3>3, <3>4
  <2>5. FlattenSeq(ss \o v) = FlattenSeq(ss) \o FlattenSeq(v)
    BY <2>3
  <2>6. FlattenSeq(ss \o u) = FlattenSeq(ss \o v) \o x
    BY <2>4, FlattenAppend
  <2>7. FlattenSeq(u) = FlattenSeq(v) \o x
    BY <2>2, FlattenAppend
  <2>8. FlattenSeq(ss) \in Seq(T) /\ FlattenSeq(v) \in Seq(T)
    BY FlattenType
  <2>9. (FlattenSeq(ss) \o FlattenSeq(v)) \o x = FlattenSeq(ss) \o (FlattenSeq(v) \o x)
    <3> SUFFICES ASSUME NEW a \in Seq(T), NEW b \in Seq(T)
                 PROVE  (a \o b) \o x = a \o (b \o x)
      BY <2>8
    <3>1. Concatenates(T)
      BY Associative
    <3>2. x \in Seq(T)
      BY <2>2
    <3> QED
      BY <3>1, <3>2 DEF Concatenates
  <2> QED
    BY <2>5, <2>6, <2>7, <2>9
<1>3. P = Nat
  <2>1. P \in SUBSET Nat
    OBVIOUS
  <2> HIDE DEF P
  <2> QED
    BY <1>1, <1>2, <2>1, NatSetInduction
<1>4. Len(tt) \in Nat
  BY LenProperties
<1> QED
  BY <1>3, <1>4
===============================================================================
