--------------------------- MODULE SplitInputProofs ---------------------------
(***************************************************************************)
(* For any stream of temporal units, any headers and any number of slots:  *)
(* the scan's three registers answer the contract's question about the     *)
(* whole history, the pair lies under one header, and the slots a golden   *)
(* is coded against are the anchor's.                                      *)
(***************************************************************************)
EXTENDS SplitInput, TLAPS

Double(x, n) == 2 * x

Doubling == INSTANCE NatRecursion WITH base <- 1, Step <- Double

-------------------------------------------------------------------------------
(* The operators the scan is built from.                                   *)

(* 1u64 << n is positive (assemble.rs:689).                                *)
LEMMA Pow2Type == Pow2 \in [Nat -> Nat \ {0}]
<1>1. Pow2 = Doubling!Rec
  BY Zenon DEF Pow2, Doubling!Rec, Double
<1>2. \A x \in Nat \ {0}, n \in Nat : Double(x, n) \in Nat \ {0}
  BY DEF Double
<1>3. 1 \in Nat \ {0}
  OBVIOUS
<1> HIDE DEF Double
<1> QED
  BY <1>1, <1>2, <1>3, Doubling!RecType

LEMMA HintType ==
  ASSUME NEW tu \in TUType, NEW h \in Headers
  PROVE  Hint(tu, h) \in Nat
<1>1. HintBits[h] \in Nat /\ tu.hint \in Nat
  BY SplitAssumption DEF TUType
<1>2. Pow2[HintBits[h]] \in Nat \ {0}
  BY <1>1, Pow2Type
<1> QED
  BY <1>1, <1>2 DEF Hint

(* No order hint is the one behind itself, when there is a bit to tell     *)
(* them apart.                                                             *)
LEMMA OwnSuccessor ==
  ASSUME NEW b \in Nat, b # 0, NEW x \in Nat
  PROVE  x % Pow2[b] # ((x % Pow2[b]) + 1) % Pow2[b]
<1> DEFINE P == Pow2[b]
<1>1. P \in Nat /\ P >= 2
  <2>1. b - 1 \in Nat
    OBVIOUS
  <2>2. Pow2[b - 1] \in Nat \ {0}
    BY <2>1, Pow2Type
  <2>3. Pow2[b] = 2 * Pow2[b - 1]
    <3>1. Pow2 = Doubling!Rec
      BY Zenon DEF Pow2, Doubling!Rec, Double
    <3>2. Doubling!Rec[b] = Double(Doubling!Rec[b - 1], b)
      BY <2>1, Doubling!RecDefined
    <3> QED
      BY <3>1, <3>2 DEF Double
  <2> QED
    BY <2>2, <2>3
<1> HIDE DEF P
<1>2. x % P \in 0..P-1
  BY <1>1
<1>3. \A y \in 0..P-1 : (y + 1) % P = IF y + 1 = P THEN 0 ELSE y + 1
  BY <1>1
<1>4. \A y \in 0..P-1 : y # (y + 1) % P
  BY <1>1, <1>3
<1>5. x % P # ((x % P) + 1) % P
  BY <1>2, <1>4
<1> QED
  BY <1>5 DEF P

(* The fields of a temporal unit the proofs use.                           *)
LEMMA TuFields ==
  ASSUME NEW tu \in TUs
  PROVE  /\ tu \in TUType
         /\ tu.hdrs \in Seq(Headers) /\ SeenHeaders(tu) \in Seq(Headers)
         /\ tu.kind \in {"malformed", "frameless", "show", "coded"}
         /\ tu.ft \in FrameTypes /\ tu.refresh \in SUBSET Slots
         /\ tu.hint \in Nat /\ tu.slot \in Slots /\ tu.extras \in Nat
         /\ tu.more \in SUBSET Slots /\ tu.lead \in Nat /\ tu.lead <= Len(tu.hdrs)
         /\ tu.badHdr \in BOOLEAN /\ tu.readable \in BOOLEAN /\ tu.shown \in BOOLEAN
<1>1. tu \in TUType
  BY SplitAssumption
<1>2. tu.hdrs \in Seq(Headers)
  BY <1>1 DEF TUType
<1> QED
  BY <1>1, <1>2, SplitAssumption DEF TUType, SeenHeaders

LEMMA GreatestIs ==
  ASSUME NEW S \in SUBSET Int, NEW m \in S, \A k \in S : k <= m
  PROVE  Greatest(S) = m
<1>1. \A x \in S : (\A k \in S : k <= x) => x = m
  OBVIOUS
<1> QED
  BY <1>1 DEF Greatest

LEMMA LeastIs ==
  ASSUME NEW S \in SUBSET Int, NEW m \in S, \A k \in S : m <= k
  PROVE  Least(S) = m
<1>1. \A x \in S : (\A k \in S : x <= k) => x = m
  OBVIOUS
<1> QED
  BY <1>1 DEF Least

-------------------------------------------------------------------------------
(* The history: a unit appended leaves what was said of the earlier ones.  *)

LEMMA Appended ==
  ASSUME TypeOK, NEW tu \in TUs, Read(tu)
  PROVE  /\ tus \in Seq(TUs) /\ tus' \in Seq(TUs) /\ Len(tus) \in Nat
         /\ Len(tus') = Len(tus) + 1 /\ tus'[Len(tus) + 1] = tu
         /\ \A j \in 1..Len(tus) : tus'[j] = tus[j] /\ tus[j] \in TUs
BY DEF TypeOK, Read

LEMMA HdrAtKept ==
  ASSUME TypeOK, NEW tu \in TUs, Read(tu), NEW i \in 0..Len(tus)
  PROVE  HdrAt(i)' = HdrAt(i)
<1> DEFINE J(t) == {j \in 1..i : SeenHeaders(t[j]) # <<>>}
           M(S) == CHOOSE j \in S : \A k \in S : k <= j
           H(t) == IF J(t) = {} THEN NoHeader
                   ELSE t[M(J(t))].hdrs[Len(t[M(J(t))].hdrs)]
<1>1. i \in Nat /\ \A j \in 1..i : tus'[j] = tus[j]
  BY Appended
<1>2. J(tus') = J(tus)
  BY <1>1
<1>3. J(tus) # {} => M(J(tus)) \in 1..i
  <2>1. J(tus) \in SUBSET (0..i) /\ J(tus) \subseteq 1..i
    BY <1>1
  <2> HIDE DEF J
  <2> SUFFICES ASSUME J(tus) # {}
               PROVE \E j \in J(tus) : \A k \in J(tus) : k <= j
    BY <2>1
  <2> QED
    BY <1>1, <2>1, Doubling!GreatestNumber
<1>4. HdrAt(i) = H(tus)
  BY Zenon DEF HdrAt
<1>5. HdrAt(i)' = H(tus')
  BY Zenon DEF HdrAt
<1>6. H(tus') = H(tus)
  <2> HIDE DEF J, M
  <2> QED
    BY <1>1, <1>2, <1>3
<1> HIDE DEF H
<1> QED
  BY <1>4, <1>5, <1>6

(* The header a unit leaves governing is the last one it carries, and      *)
(* without any the one before it (assemble.rs:463-474).                    *)
LEMMA HdrAtNow ==
  ASSUME TypeOK, NEW tu \in TUs, Read(tu), NEW n \in Nat, n = Len(tus), sh = HdrAt(n)
  PROVE  HdrAt(n + 1)' = Governing(tu)
<1> DEFINE J(t, i) == {j \in 1..i : SeenHeaders(t[j]) # <<>>}
           M(S) == CHOOSE j \in S : \A k \in S : k <= j
           H(t, i) == IF J(t, i) = {} THEN NoHeader
                      ELSE t[M(J(t, i))].hdrs[Len(t[M(J(t, i))].hdrs)]
<1>1. /\ \A j \in 1..n : tus'[j] = tus[j]
      /\ tus'[n + 1] = tu
  BY Appended
<1>2. HdrAt(n) = H(tus, n) /\ HdrAt(n + 1)' = H(tus', n + 1)
  BY Zenon DEF HdrAt
<1>3. CASE SeenHeaders(tu) # <<>>
  <2>1. n + 1 \in J(tus', n + 1) /\ \A k \in J(tus', n + 1) : k \in Int /\ k <= n + 1
    BY <1>1, <1>3
  <2>2. M(J(tus', n + 1)) = n + 1
    <3> HIDE DEF J
    <3>1. \A x \in J(tus', n + 1) : (\A k \in J(tus', n + 1) : k <= x) => x = n + 1
      BY <2>1
    <3> QED
      BY <2>1, <3>1
  <2>3. SeenHeaders(tu) = tu.hdrs
    BY <1>3 DEF SeenHeaders
  <2>4. H(tus', n + 1) = tu.hdrs[Len(tu.hdrs)]
    <3> HIDE DEF J, M
    <3> QED
      BY <1>1, <2>1, <2>2
  <2> HIDE DEF H
  <2> QED
    BY <1>2, <1>3, <2>3, <2>4 DEF Governing
<1>4. CASE SeenHeaders(tu) = <<>>
  <2>1. J(tus', n + 1) = J(tus, n)
    BY <1>1, <1>4
  <2>2. \A j \in J(tus, n) : tus'[j] = tus[j]
    BY <1>1
  <2>3. J(tus, n) # {} => M(J(tus, n)) \in J(tus, n)
    <3>1. J(tus, n) \in SUBSET (0..n)
      OBVIOUS
    <3> HIDE DEF J
    <3> QED
      BY <3>1, Doubling!GreatestNumber
  <2>4. H(tus', n + 1) = H(tus, n)
    <3> HIDE DEF J, M
    <3> QED
      BY <2>1, <2>2, <2>3
  <2> HIDE DEF H
  <2> QED
    BY <1>2, <1>4, <2>4 DEF Governing
<1> QED
  BY <1>3, <1>4

(* What the contract says of an earlier unit does not change.              *)
LEMMA JudgedKept ==
  ASSUME TypeOK, NEW tu \in TUs, Read(tu), NEW i \in 1..Len(tus)
  PROVE  /\ ChangesAt(i)' = ChangesAt(i)
         /\ FrameAt(i)' = FrameAt(i)
         /\ KeyWithHeaderAt(i)' = KeyWithHeaderAt(i)
         /\ ClashAt(i)' = ClashAt(i)
<1>1. tus'[i] = tus[i]
  BY Appended
<1>2. HdrAt(i)' = HdrAt(i) /\ HdrAt(i - 1)' = HdrAt(i - 1)
  <2>1. i \in 0..Len(tus) /\ i - 1 \in 0..Len(tus)
    BY Appended
  <2> QED
    BY <2>1, HdrAtKept
<1>3. ChangesAt(i)' = ChangesAt(i)
  BY <1>1, <1>2, Zenon DEF ChangesAt
<1>4. FrameAt(i)' = FrameAt(i)
  BY <1>1, <1>2 DEF FrameAt
<1>5. KeyWithHeaderAt(i)' = KeyWithHeaderAt(i)
  BY <1>1, <1>4 DEF KeyWithHeaderAt
<1>6. ClashAt(i)' = ClashAt(i)
  BY <1>1, <1>2, <1>4 DEF ClashAt
<1> QED
  BY <1>3, <1>4, <1>5, <1>6

(* What the contract says of the unit just read is what the scan finds.    *)
LEMMA JudgedNow ==
  ASSUME TypeOK, NEW tu \in TUs, Read(tu), NEW n \in Nat, n = Len(tus), sh = HdrAt(n)
  PROVE  /\ ChangesAt(n + 1)' <=> SeqChanged(tu)
         /\ FrameAt(n + 1)' <=> CodedFrame(tu)
         /\ KeyWithHeaderAt(n + 1)' <=> AnchorShape(tu)
         /\ ClashAt(n + 1)' <=> Dirties(tu)
<1>1. tus'[n + 1] = tu
  BY Appended
<1>2. HdrAt(n + 1)' = Governing(tu)
  BY HdrAtNow
<1>3. HdrAt((n + 1) - 1)' = sh
  <2>1. (n + 1) - 1 = n /\ n \in 0..Len(tus)
    OBVIOUS
  <2> QED
    BY <2>1, HdrAtKept
<1>4. ChangesAt(n + 1)' <=> SeqChanged(tu)
  BY <1>1, <1>3 DEF ChangesAt, SeqChanged, SeenHeaders
<1>5. FrameAt(n + 1)' <=> CodedFrame(tu)
  BY <1>1, <1>2 DEF FrameAt, CodedFrame, Malformed, Parses
<1>6. KeyWithHeaderAt(n + 1)' <=> AnchorShape(tu)
  BY <1>1, <1>5 DEF KeyWithHeaderAt, AnchorShape, SeenHeaders, CodedFrame, Malformed
<1>7. ClashAt(n + 1)' <=> Dirties(tu)
  BY <1>1, <1>2, <1>5, TuFields
     DEF ClashAt, Dirties, Unreadable, Malformed, Parses, CodedFrame, Refresh
<1> QED
  BY <1>4, <1>5, <1>6, <1>7

-------------------------------------------------------------------------------
(* The three questions of the contract, and the sets they choose from.     *)

Anchors(n) == {a \in 1..n : /\ KeyWithHeaderAt(a) /\ tus[a].extras = 0
                            /\ \A j \in a+1..n : ~ ChangesAt(j)}

Bases(n) == {AnchorOf(n)} \cup
  {j \in AnchorOf(n)+1..n : FrameAt(j) /\ tus[j].ft # "INTER" /\ ~ KeyWithHeaderAt(j)}

Clashes(n) == {j \in BaseOf(n)..n : ClashAt(j)}

LEMMA Answers ==
  ASSUME NEW n \in Nat
  PROVE  /\ Anchors(n) = {} => AnchorOf(n) = 0
         /\ Anchors(n) # {} => AnchorOf(n) \in Anchors(n)
         /\ \A a \in Anchors(n) : a <= AnchorOf(n)
         /\ AnchorOf(n) \in 0..n
         /\ BaseOf(n) \in Bases(n) /\ BaseOf(n) \in AnchorOf(n)..n
         /\ \A b \in Bases(n) : b <= BaseOf(n)
         /\ Clashes(n) = {} => ClashOf(n) = 0
         /\ Clashes(n) # {} => ClashOf(n) \in Clashes(n)
         /\ \A c \in Clashes(n) : ClashOf(n) <= c
         /\ ClashOf(n) \in 0..n
<1>1. Anchors(n) \subseteq 1..n /\ AnchorOf(n) = Greatest(Anchors(n))
  BY Zenon DEF Anchors, AnchorOf
<1>2. \A S \in SUBSET (0..n) : S # {} =>
        Greatest(S) \in S /\ \A k \in S : k <= Greatest(S)
  <2> TAKE S \in SUBSET (0..n)
  <2>1. S # {} => \E x \in S : \A y \in S : y <= x
    BY Doubling!GreatestNumber
  <2> QED
    BY <2>1 DEF Greatest
<1>3. /\ Anchors(n) = {} => AnchorOf(n) = 0
      /\ Anchors(n) # {} => AnchorOf(n) \in Anchors(n)
      /\ \A a \in Anchors(n) : a <= AnchorOf(n)
  <2>1. Anchors(n) \in SUBSET (0..n)
    BY <1>1
  <2> QED
    BY <1>1, <1>2, <2>1 DEF Greatest
<1>4. AnchorOf(n) \in 0..n
  BY <1>1, <1>3
<1>5. Bases(n) \in SUBSET (AnchorOf(n)..n) /\ AnchorOf(n) \in Bases(n)
  BY <1>4 DEF Bases
<1>6. BaseOf(n) = Greatest(Bases(n))
  BY Zenon DEF Bases, BaseOf
<1>7. BaseOf(n) \in Bases(n) /\ \A b \in Bases(n) : b <= BaseOf(n)
  <2>1. Bases(n) \in SUBSET (0..n) /\ Bases(n) # {}
    BY <1>4, <1>5
  <2> QED
    BY <1>2, <1>6, <2>1
<1>8. BaseOf(n) \in AnchorOf(n)..n
  BY <1>5, <1>7
<1>9. Clashes(n) \in SUBSET (0..n) /\ ClashOf(n) = Least(Clashes(n))
  <2>1. BaseOf(n) \in Nat
    BY <1>4, <1>8
  <2>2. Clashes(n) \in SUBSET (0..n)
    BY <2>1 DEF Clashes
  <2> QED
    BY <2>2, Zenon DEF Clashes, ClashOf
<1>10. \A S \in SUBSET (0..n) : S # {} => Least(S) \in S /\ \A k \in S : Least(S) <= k
  <2> TAKE S \in SUBSET (0..n)
  <2>1. S \in SUBSET Nat
    OBVIOUS
  <2>2. S # {} => \E x \in S : \A y \in S : x <= y
    BY <2>1, Doubling!LeastNumber
  <2> QED
    BY <2>2 DEF Least
<1>11. /\ Clashes(n) = {} => ClashOf(n) = 0
       /\ Clashes(n) # {} => ClashOf(n) \in Clashes(n)
       /\ \A c \in Clashes(n) : ClashOf(n) <= c
  BY <1>9, <1>10 DEF Least
<1>12. ClashOf(n) \in 0..n
  BY <1>9, <1>11
<1> QED
  BY <1>3, <1>4, <1>7, <1>8, <1>11, <1>12

(* A unit appended leaves the answers about the units before it.           *)
LEMMA AnswersKept ==
  ASSUME TypeOK, NEW tu \in TUs, Read(tu), NEW m \in 0..Len(tus)
  PROVE  /\ AnchorOf(m)' = AnchorOf(m)
         /\ BaseOf(m)' = BaseOf(m)
         /\ AnchorOf(m) # 0 => ClashOf(m)' = ClashOf(m)
<1> m \in Nat
  BY Appended
<1>1. \A j \in 1..m : /\ tus'[j] = tus[j] /\ j \in 1..Len(tus)
                      /\ ChangesAt(j)' = ChangesAt(j)
                      /\ FrameAt(j)' = FrameAt(j)
                      /\ KeyWithHeaderAt(j)' = KeyWithHeaderAt(j)
                      /\ ClashAt(j)' = ClashAt(j)
  BY Appended, JudgedKept
<1>2. Anchors(m)' = Anchors(m)
  BY <1>1 DEF Anchors
<1>3. AnchorOf(m)' = AnchorOf(m)
  BY <1>2, Zenon DEF AnchorOf, Anchors
<1>4. AnchorOf(m) \in 0..m /\ BaseOf(m) \in AnchorOf(m)..m
  BY Answers
<1>5. Bases(m)' = Bases(m)
  BY <1>1, <1>3, <1>4 DEF Bases
<1>6. BaseOf(m)' = BaseOf(m)
  BY <1>5, Zenon DEF BaseOf, Bases
<1>7. AnchorOf(m) # 0 => Clashes(m)' = Clashes(m)
  <2>1. AnchorOf(m) # 0 => \A j \in BaseOf(m)..m : j \in 1..m
    BY <1>4
  <2> QED
    BY <1>1, <1>6, <2>1 DEF Clashes
<1>8. AnchorOf(m) # 0 => ClashOf(m)' = ClashOf(m)
  BY <1>7, Zenon DEF ClashOf, Clashes
<1> QED
  BY <1>3, <1>6, <1>8

(* An anchor in front of a unit was the anchor when that unit came.        *)
LEMMA AnchorBefore ==
  ASSUME NEW m \in Nat, AnchorOf(m) \in 1..m-1
  PROVE  AnchorOf(m - 1) # 0
<1>1. m - 1 \in Nat /\ AnchorOf(m) \in Anchors(m)
  <2>1. AnchorOf(m) # 0 /\ m - 1 \in Nat
    OBVIOUS
  <2>2. /\ Anchors(m) = {} => AnchorOf(m) = 0
        /\ Anchors(m) # {} => AnchorOf(m) \in Anchors(m)
    BY Answers
  <2> QED
    BY <2>1, <2>2
<1>2. AnchorOf(m) \in Anchors(m - 1)
  BY <1>1 DEF Anchors
<1> QED
  BY <1>1, <1>2, Answers

(* So a unit appended does not change which of the others are goldens.     *)
LEMMA GoldenKept ==
  ASSUME TypeOK, NEW tu \in TUs, Read(tu), NEW m \in 1..Len(tus)
  PROVE  /\ GoldenAt(m)' <=> GoldenAt(m)
         /\ SelfMeasured(m)' <=> SelfMeasured(m)
<1>1. m \in Nat /\ m - 1 \in Nat /\ m \in 0..Len(tus) /\ m - 1 \in 0..Len(tus)
  BY Appended
<1>2. tus'[m] = tus[m] /\ FrameAt(m)' = FrameAt(m) /\ HdrAt(m)' = HdrAt(m)
  BY <1>1, Appended, JudgedKept, HdrAtKept
<1>3. /\ AnchorOf(m)' = AnchorOf(m) /\ BaseOf(m - 1)' = BaseOf(m - 1)
      /\ AnchorOf(m - 1) # 0 => ClashOf(m - 1)' = ClashOf(m - 1)
  BY <1>1, AnswersKept
<1>4. AnchorOf(m - 1) # 0 => tus'[BaseOf(m - 1)] = tus[BaseOf(m - 1)]
  <2>1. AnchorOf(m - 1) \in 0..m-1 /\ BaseOf(m - 1) \in AnchorOf(m - 1)..m-1
    BY <1>1, Answers
  <2>2. AnchorOf(m - 1) # 0 => BaseOf(m - 1) \in 1..Len(tus)
    BY <1>1, <2>1
  <2> QED
    BY <2>2, Appended
<1>5. AnchorOf(m) \in 1..m-1 => AnchorOf(m - 1) # 0
  BY <1>1, AnchorBefore
<1>6. GoldenAt(m)' <=> GoldenAt(m)
  BY <1>2, <1>3, <1>4, <1>5 DEF GoldenAt
<1> QED
  BY <1>2, <1>6 DEF SelfMeasured

(* What the answers become when a unit is read, in terms of the unit.      *)
LEMMA AnswersNow ==
  ASSUME TypeOK, NEW tu \in TUs, Read(tu), NEW n \in Nat, n = Len(tus), sh = HdrAt(n)
  PROVE  /\ AnchorOf(n + 1)' = IF Reanchors(tu) THEN n + 1
                               ELSE IF SeqChanged(tu) THEN 0 ELSE AnchorOf(n)
         /\ Reanchors(tu) => BaseOf(n + 1)' = n + 1 /\ ClashOf(n + 1)' = 0
         /\ (~ Reanchors(tu) /\ ~ SeqChanged(tu) /\ AnchorOf(n) # 0) =>
              LET rebases == CodedFrame(tu) /\ ~ AnchorShape(tu) /\ tu.ft # "INTER"
                  first   == IF Dirties(tu) THEN n + 1 ELSE 0
              IN  /\ BaseOf(n + 1)' = IF rebases THEN n + 1 ELSE BaseOf(n)
                  /\ ClashOf(n + 1)' = IF rebases \/ ClashOf(n) = 0
                                       THEN first ELSE ClashOf(n)
<1>1. /\ \A j \in 1..n : /\ tus'[j] = tus[j]
                         /\ ChangesAt(j)' = ChangesAt(j)
                         /\ FrameAt(j)' = FrameAt(j)
                         /\ KeyWithHeaderAt(j)' = KeyWithHeaderAt(j)
                         /\ ClashAt(j)' = ClashAt(j)
      /\ tus'[n + 1] = tu
  BY Appended, JudgedKept
<1>2. /\ ChangesAt(n + 1)' <=> SeqChanged(tu)
      /\ FrameAt(n + 1)' <=> CodedFrame(tu)
      /\ KeyWithHeaderAt(n + 1)' <=> AnchorShape(tu)
      /\ ClashAt(n + 1)' <=> Dirties(tu)
  BY JudgedNow
<1>3. Anchors(n + 1)' = (IF SeqChanged(tu) THEN {} ELSE Anchors(n))
                        \cup (IF Reanchors(tu) THEN {n + 1} ELSE {})
  <2>1. Anchors(n + 1)' = {a \in 1..n+1 : KeyWithHeaderAt(a)' /\ tus'[a].extras = 0
                             /\ \A j \in a+1..n+1 : ~ ChangesAt(j)'}
    BY DEF Anchors
  <2>2. n + 1 \in Anchors(n + 1)' <=> Reanchors(tu)
    BY <1>1, <1>2, <2>1 DEF Reanchors
  <2>3. ASSUME NEW a \in 1..n
        PROVE  a \in Anchors(n + 1)' <=> a \in Anchors(n) /\ ~ SeqChanged(tu)
    BY <1>1, <1>2, <2>1 DEF Anchors
  <2> QED
    BY <2>1, <2>2, <2>3 DEF Anchors
<1>4. AnchorOf(n + 1)' = Greatest(Anchors(n + 1)')
  BY Zenon DEF AnchorOf, Anchors
<1>5. /\ Anchors(n) \subseteq 1..n /\ AnchorOf(n) \in 0..n
      /\ Anchors(n) = {} => AnchorOf(n) = 0
      /\ Anchors(n) # {} => AnchorOf(n) \in Anchors(n)
      /\ \A a \in Anchors(n) : a <= AnchorOf(n)
  BY Answers DEF Anchors
<1>6. AnchorOf(n + 1)' = IF Reanchors(tu) THEN n + 1
                         ELSE IF SeqChanged(tu) THEN 0 ELSE AnchorOf(n)
  <2>1. CASE Reanchors(tu)
    <3>1. /\ Anchors(n + 1)' \in SUBSET Int /\ n + 1 \in Anchors(n + 1)'
          /\ \A k \in Anchors(n + 1)' : k <= n + 1
      BY <1>3, <1>5, <2>1
    <3> HIDE DEF Anchors
    <3> QED
      BY <1>4, <2>1, <3>1, GreatestIs
  <2>2. CASE ~ Reanchors(tu) /\ (SeqChanged(tu) \/ Anchors(n) = {})
    BY <1>3, <1>4, <1>5, <2>2 DEF Greatest
  <2>3. CASE ~ Reanchors(tu) /\ ~ SeqChanged(tu) /\ Anchors(n) # {}
    <3>1. Anchors(n + 1)' = Anchors(n) \cup {}
      BY <1>3, <2>3
    <3>2. Anchors(n + 1)' = Anchors(n) /\ Anchors(n) \in SUBSET Int
      BY <1>5, <3>1
    <3> QED
      BY <1>4, <1>5, <2>3, <3>2, GreatestIs
  <2> QED
    BY <2>1, <2>2, <2>3
<1>7. /\ BaseOf(n + 1)' = Greatest(Bases(n + 1)')
      /\ Bases(n + 1)' = {AnchorOf(n + 1)'} \cup
           {j \in AnchorOf(n + 1)'+1..n+1 : /\ FrameAt(j)' /\ tus'[j].ft # "INTER"
                                            /\ ~ KeyWithHeaderAt(j)'}
      /\ ClashOf(n + 1)' = Least(Clashes(n + 1)')
      /\ Clashes(n + 1)' = {j \in BaseOf(n + 1)'..n+1 : ClashAt(j)'}
  <2>1. BaseOf(n + 1)' = Greatest(Bases(n + 1)') /\ ClashOf(n + 1)' = Least(Clashes(n + 1)')
    BY Zenon DEF BaseOf, Bases, ClashOf, Clashes
  <2> QED
    BY <2>1 DEF Bases, Clashes
<1>8. ASSUME Reanchors(tu)
      PROVE  BaseOf(n + 1)' = n + 1 /\ ClashOf(n + 1)' = 0
  <2>1. Bases(n + 1)' = {n + 1}
    BY <1>6, <1>7, <1>8
  <2>2. BaseOf(n + 1)' = n + 1
    BY <1>7, <2>1, GreatestIs
  <2>3. ~ Dirties(tu)
    BY <1>8 DEF Reanchors, AnchorShape, CodedFrame, Dirties, Unreadable, Parses
  <2>4. Clashes(n + 1)' = {}
    BY <1>2, <1>7, <2>2, <2>3
  <2> QED
    BY <1>7, <2>2, <2>4 DEF Least
<1>9. ASSUME ~ Reanchors(tu), ~ SeqChanged(tu), AnchorOf(n) # 0
      PROVE  LET rebases == CodedFrame(tu) /\ ~ AnchorShape(tu) /\ tu.ft # "INTER"
                 first   == IF Dirties(tu) THEN n + 1 ELSE 0
             IN  /\ BaseOf(n + 1)' = IF rebases THEN n + 1 ELSE BaseOf(n)
                 /\ ClashOf(n + 1)' = IF rebases \/ ClashOf(n) = 0
                                      THEN first ELSE ClashOf(n)
  <2> DEFINE rebases == CodedFrame(tu) /\ ~ AnchorShape(tu) /\ tu.ft # "INTER"
             first   == IF Dirties(tu) THEN n + 1 ELSE 0
  <2>1. /\ BaseOf(n) \in Bases(n) /\ BaseOf(n) \in AnchorOf(n)..n
        /\ \A b \in Bases(n) : b <= BaseOf(n)
        /\ Clashes(n) = {} => ClashOf(n) = 0
        /\ Clashes(n) # {} => ClashOf(n) \in Clashes(n)
        /\ \A c \in Clashes(n) : ClashOf(n) <= c
    BY Answers
  <2>2. Bases(n + 1)' = Bases(n) \cup IF rebases THEN {n + 1} ELSE {}
    <3>1. AnchorOf(n + 1)' = AnchorOf(n) /\ AnchorOf(n) \in 1..n
      BY <1>5, <1>6, <1>9
    <3> QED
      BY <1>1, <1>2, <1>7, <3>1 DEF Bases
  <2>3. Bases(n) \in SUBSET (0..n)
    BY <1>5 DEF Bases
  <2>4. BaseOf(n + 1)' = IF rebases THEN n + 1 ELSE BaseOf(n)
    <3>1. CASE rebases
      <4>1. Bases(n + 1)' \in SUBSET Int /\ n + 1 \in Bases(n + 1)'
            /\ \A k \in Bases(n + 1)' : k <= n + 1
        BY <2>2, <2>3, <3>1
      <4> HIDE DEF rebases
      <4> QED
        BY <1>7, <3>1, <4>1, GreatestIs
    <3>2. CASE ~ rebases
      <4> HIDE DEF rebases
      <4>0. Bases(n + 1)' = Bases(n) \cup {}
        BY <2>2, <3>2, Zenon
      <4>1. Bases(n + 1)' = Bases(n) /\ Bases(n) \in SUBSET Int
        BY <2>3, <4>0
      <4> QED
        BY <1>7, <2>1, <3>2, <4>1, GreatestIs
    <3> QED
      BY <3>1, <3>2
  <2> HIDE DEF rebases
  <2>5. CASE rebases
    <3>1. Clashes(n + 1)' = IF Dirties(tu) THEN {n + 1} ELSE {}
      <4>1. Clashes(n + 1)' = {j \in {n + 1} : ClashAt(j)'}
        BY <1>7, <2>4, <2>5
      <4> QED
        BY <1>2, <4>1
    <3>2. ClashOf(n + 1)' = first
      BY <1>7, <3>1, LeastIs DEF Least
    <3> QED
      BY <2>4, <2>5, <3>2 DEF rebases
  <2>6. CASE ~ rebases
    <3>1. BaseOf(n) \in 1..n
      BY <1>5, <1>9, <2>1
    <3>2. Clashes(n + 1)' = Clashes(n) \cup IF Dirties(tu) THEN {n + 1} ELSE {}
      BY <1>1, <1>2, <1>7, <2>4, <2>6, <3>1 DEF Clashes
    <3>3. Clashes(n) \in SUBSET (1..n)
      BY <3>1 DEF Clashes
    <3>4. CASE Clashes(n) = {}
      <4>1. ClashOf(n + 1)' = first
        BY <1>7, <3>2, <3>4, LeastIs DEF Least
      <4> QED
        BY <2>1, <2>4, <2>6, <3>4, <4>1 DEF rebases
    <3>5. CASE Clashes(n) # {}
      <4>1. /\ ClashOf(n) \in Clashes(n + 1)' /\ Clashes(n + 1)' \in SUBSET Int
            /\ \A k \in Clashes(n + 1)' : ClashOf(n) <= k
        BY <2>1, <3>2, <3>3, <3>5
      <4>2. ClashOf(n + 1)' = ClashOf(n) /\ ClashOf(n) # 0
        BY <1>7, <2>1, <3>3, <3>5, <4>1, LeastIs
      <4> QED
        BY <2>4, <2>6, <4>2 DEF rebases
    <3> QED
      BY <3>4, <3>5
  <2> QED
    BY <2>5, <2>6
<1> QED
  BY <1>6, <1>8, <1>9

-------------------------------------------------------------------------------
(* The inductive invariant.                                                *)

(* The registers answer the contract's questions about what was read, and  *)
(* remember of the anchor and the predecessor what the history says.       *)
Registers ==
  /\ sh = HdrAt(Len(tus))
  /\ anchor.at = AnchorOf(Len(tus))
  /\ anchor.at = 0 => anchor = NoAnchor /\ dirty = 0
  /\ anchor.at # 0 => /\ pred.at = BaseOf(Len(tus)) /\ dirty = ClashOf(Len(tus))
                      /\ sh \in Headers /\ anchor.bits = HintBits[sh]
                      /\ pred.hint = Hint(tus[pred.at], sh)

Outcome ==
  /\ golden = IF Len(tus) > 0 /\ GoldenAt(Len(tus)) /\ ~ SelfMeasured(Len(tus))
              THEN Len(tus) ELSE 0
  /\ \A m \in 1..Len(tus)-1 : GoldenAt(m) => SelfMeasured(m)
  /\ result = "pair" <=> golden # 0

(* No header changed since the anchor, and no unit behind the anchor's     *)
(* carried another.                                                        *)
Generation ==
  anchor.at # 0 =>
    /\ \A j \in anchor.at..Len(tus) : HdrAt(j) = sh
    /\ \A j \in anchor.at+1..Len(tus) : \A k \in DOMAIN SeenHeaders(tus[j]) :
          tus[j].hdrs[k] = sh

IInv == TypeOK /\ Registers /\ Outcome /\ Generation /\ CleanSlots

(* A header that changed nothing leaves the one that governed: each header *)
(* of the unit has the bytes of the one before it (assemble.rs:468-471).   *)
LEMMA SameHeader ==
  ASSUME NEW tu \in TUs, ~ SeqChanged(tu)
  PROVE  /\ Governing(tu) = sh
         /\ \A k \in DOMAIN SeenHeaders(tu) : tu.hdrs[k] = sh
<1> DEFINE hs == SeenHeaders(tu)
<1>1. hs \in Seq(Headers)
  BY TuFields
<1>2. \A k \in 1..Len(hs) : hs[k] = IF k = 1 THEN sh ELSE hs[k - 1]
  <2>1. DOMAIN hs = 1..Len(hs)
    BY <1>1
  <2> QED
    BY <2>1 DEF SeqChanged
<1> HIDE DEF hs
<1> DEFINE P == {k \in Nat : k \in 1..Len(hs) => hs[k] = sh}
<1>3. 0 \in P
  OBVIOUS
<1>4. ASSUME NEW k \in P PROVE k + 1 \in P
  <2>1. CASE k + 1 \in 1..Len(hs)
    <3>1. hs[k + 1] = IF k + 1 = 1 THEN sh ELSE hs[k]
      <4>1. (k + 1) - 1 = k
        OBVIOUS
      <4> QED
        BY <1>2, <2>1, <4>1
    <3>2. k + 1 # 1 => k \in 1..Len(hs)
      BY <1>1, <2>1
    <3>3. k + 1 # 1 => hs[k] = sh
      BY <3>2
    <3> QED
      BY <3>1, <3>3
  <2> QED
    BY <2>1
<1>5. P = Nat
  <2>1. P \in SUBSET Nat
    OBVIOUS
  <2> HIDE DEF P
  <2> QED
    BY <1>3, <1>4, <2>1, Doubling!NatSetInduction
<1>6. hs # <<>> => Len(hs) \in 1..Len(hs) /\ Len(hs) \in Nat
  BY <1>1
<1>7. hs # <<>> => hs[Len(hs)] = sh
  BY <1>5, <1>6
<1>8. \A k \in DOMAIN hs : hs[k] = sh
  BY <1>1, <1>5
<1> QED
  BY <1>7, <1>8 DEF Governing, hs, SeenHeaders

LEMMA GoverningType ==
  ASSUME TypeOK, NEW tu \in TUs
  PROVE  Governing(tu) \in Headers \cup {NoHeader}
<1>1. SeenHeaders(tu) \in Seq(Headers)
  BY TuFields
<1>2. SeenHeaders(tu) # <<>> => Len(SeenHeaders(tu)) \in 1..Len(SeenHeaders(tu))
  BY <1>1
<1> QED
  BY <1>1, <1>2 DEF Governing, TypeOK

LEMMA DecodedType ==
  ASSUME TypeOK, NEW tu \in TUs
  PROVE  Decoded(tu) \in
           [Slots -> [at : 0..Len(tus)+1, nth : {1, 2}, key : BOOLEAN]]
<1> DEFINE Pic == [at : 0..Len(tus)+1, nth : {1, 2}, key : BOOLEAN]
<1>1. \A d \in [Slots -> Pic], R \in SUBSET Slots, p \in Pic :
         Store(d, R, p) \in [Slots -> Pic]
  BY DEF Store
<1>2. dec \in [Slots -> Pic]
  BY DEF TypeOK
<1>3. \A n \in {1, 2}, k \in BOOLEAN : Picture(Now, n, k) \in Pic
  BY DEF Picture, Now, TypeOK
<1>4. Refresh(tu) \in SUBSET Slots /\ tu.more \in SUBSET Slots /\ tu.slot \in Slots
      /\ Slots \in SUBSET Slots
  BY TuFields DEF Refresh
<1> HIDE DEF Pic
<1>5. FirstDecoded(tu) \in [Slots -> Pic]
  <2>1. dec[tu.slot] \in Pic
    BY <1>2, <1>4
  <2>2. Store(dec, Slots, dec[tu.slot]) \in [Slots -> Pic]
    BY <1>1, <1>2, <1>4, <2>1
  <2>3. Picture(Now, 1, tu.ft = "KEY") \in Pic
    BY <1>3
  <2>4. Store(dec, Refresh(tu), Picture(Now, 1, tu.ft = "KEY")) \in [Slots -> Pic]
    BY <1>1, <1>2, <1>4, <2>3
  <2> QED
    BY <1>2, <2>2, <2>4 DEF FirstDecoded
<1>6. Decoded(tu) \in [Slots -> Pic]
  BY <1>1, <1>3, <1>4, <1>5 DEF Decoded
<1> QED
  BY <1>6 DEF Pic

LEMMA TypeStep == TypeOK /\ [Next]_vars => TypeOK'
<1> SUFFICES ASSUME TypeOK, [Next]_vars PROVE TypeOK'
  OBVIOUS
<1>1. ASSUME NEW tu \in TUs, Read(tu)
      PROVE  /\ tus' \in Seq(TUs) /\ Len(tus') = Len(tus) + 1 /\ Len(tus') <= ScanLimit
             /\ Len(tus) \in Nat
             /\ sh' \in Headers \cup {NoHeader}
             /\ dec' \in [Slots -> [at : 0..Len(tus'), nth : {1, 2}, key : BOOLEAN]]
  <2>1. /\ tus' \in Seq(TUs) /\ Len(tus') = Len(tus) + 1 /\ Len(tus) \in Nat
    BY <1>1, Appended
  <2>2. Len(tus) < ScanLimit /\ ScanLimit \in Nat
    BY <1>1, SplitAssumption DEF Read
  <2> QED
    BY <1>1, <2>1, <2>2, GoverningType, DecodedType DEF Read
<1>2. ASSUME NEW tu \in TUs, Read(tu)
      PROVE  /\ LiveAnchor(tu) \in [at : 0..Len(tus'), hint : Nat, bits : Nat]
             /\ LivePred(tu) \in [at : 0..Len(tus'), hint : Nat]
             /\ LiveDirty(tu) \in 0..Len(tus')
             /\ \A d \in {0, LiveDirty(tu)} : MarkDirty(tu, d) \in 0..Len(tus')
             /\ CodedFrame(tu) => /\ Hint(tu, Governing(tu)) \in Nat
                                  /\ HintBits[Governing(tu)] \in Nat
             /\ Now \in 0..Len(tus')
             /\ golden \in 0..Len(tus') /\ nAnchors + 1 \in 0..Len(tus')
             /\ afterAnchor \in 0..Len(tus') /\ afterAnchor + 1 \in 0..Len(tus')
             /\ nAnchors \in 0..Len(tus')
  <2>1. Len(tus) \in Nat /\ Len(tus') = Len(tus) + 1
    BY <1>1, <1>2
  <2>2. CodedFrame(tu) => Governing(tu) \in Headers
    BY GoverningType DEF CodedFrame, Parses
  <2>3. CodedFrame(tu) => /\ Hint(tu, Governing(tu)) \in Nat
                          /\ HintBits[Governing(tu)] \in Nat
    BY <2>2, TuFields, HintType, SplitAssumption
  <2>4. LiveDirty(tu) \in 0..Len(tus')
    BY <2>1 DEF TypeOK, LiveDirty
  <2>5. \A d \in {0, LiveDirty(tu)} : MarkDirty(tu, d) \in 0..Len(tus')
    BY <2>1, <2>4 DEF MarkDirty, Now
  <2>6. LiveAnchor(tu) \in [at : 0..Len(tus'), hint : Nat, bits : Nat]
    BY <2>1 DEF NoAnchor, TypeOK, LiveAnchor
  <2>7. LivePred(tu) \in [at : 0..Len(tus'), hint : Nat]
    BY <2>1 DEF NoPred, TypeOK, LivePred
  <2>8. /\ golden \in 0..Len(tus) /\ nAnchors \in 0..Len(tus)
        /\ afterAnchor \in 0..Len(tus)
    BY DEF TypeOK
  <2>9. /\ Now \in 0..Len(tus')
        /\ golden \in 0..Len(tus') /\ nAnchors + 1 \in 0..Len(tus')
        /\ afterAnchor \in 0..Len(tus') /\ afterAnchor + 1 \in 0..Len(tus')
        /\ nAnchors \in 0..Len(tus')
    BY <2>1, <2>8 DEF Now
  <2> QED
    BY <2>3, <2>4, <2>5, <2>6, <2>7, <2>9
<1>3. ASSUME NEW tu \in TUs, ScanSkippable(tu) PROVE TypeOK'
  <2>1. Read(tu)
    BY <1>3 DEF ScanSkippable
  <2> QED
    BY <1>1, <1>2, <1>3, <2>1 DEF TypeOK, ScanSkippable, KeepCounts
<1>4. ASSUME NEW tu \in TUs, ScanOpaque(tu) PROVE TypeOK'
  <2>1. Read(tu)
    BY <1>4 DEF ScanOpaque
  <2> QED
    BY <1>1, <1>2, <1>4, <2>1 DEF TypeOK, ScanOpaque, KeepCounts
<1>5. ASSUME NEW tu \in TUs, ScanAnchor(tu) PROVE TypeOK'
  <2>1. Read(tu) /\ CodedFrame(tu)
    BY <1>5 DEF ScanAnchor, Reanchors, AnchorShape
  <2>2. /\ anchor' \in [at : 0..Len(tus'), hint : Nat, bits : Nat]
        /\ pred' \in [at : 0..Len(tus'), hint : Nat]
    BY <1>2, <1>5, <2>1 DEF ScanAnchor
  <2>3. /\ dirty' = 0 /\ afterAnchor' = 0 /\ nAnchors' = nAnchors + 1
        /\ UNCHANGED <<golden, keyOnly, result>> /\ 0 \in 0..Len(tus')
    BY <1>1, <1>5, <2>1 DEF ScanAnchor
  <2> QED
    BY <1>1, <1>2, <2>1, <2>2, <2>3 DEF TypeOK
<1>6. ASSUME NEW tu \in TUs, ScanRebase(tu) \/ ScanOther(tu) PROVE TypeOK'
  <2>1. Read(tu) /\ CodedFrame(tu) /\ CountCoded(tu) /\ nAnchors' = nAnchors
    BY <1>6 DEF ScanRebase, ScanOther, Rebases
  <2>2. anchor' \in [at : 0..Len(tus'), hint : Nat, bits : Nat]
    BY <1>2, <1>6, <2>1 DEF ScanRebase, ScanOther
  <2>3. pred' \in [at : 0..Len(tus'), hint : Nat]
    <3>1. [at |-> Now, hint |-> Hint(tu, Governing(tu))] \in [at : 0..Len(tus'), hint : Nat]
      BY <1>2, <2>1
    <3> QED
      BY <1>2, <1>6, <2>1, <3>1 DEF ScanRebase, ScanOther
  <2>4. dirty' \in 0..Len(tus')
    BY <1>2, <1>6, <2>1 DEF ScanRebase, ScanOther
  <2>5. golden' \in {golden, Now} /\ result' \in {"pair", result}
    BY <1>6 DEF ScanRebase, ScanOther
  <2>6. keyOnly' \in BOOLEAN
    BY <2>1, Zenon DEF CountCoded
  <2>7. afterAnchor' \in 0..Len(tus')
    BY <1>2, <2>1 DEF CountCoded
  <2> QED
    BY <1>1, <1>2, <2>1, <2>2, <2>3, <2>4, <2>5, <2>6, <2>7 DEF TypeOK
<1>7. CASE GiveUp
  BY <1>7 DEF GiveUp, TypeOK
<1>8. CASE UNCHANGED vars
  BY <1>8 DEF vars, TypeOK
<1> QED
  BY <1>3, <1>4, <1>5, <1>6, <1>7, <1>8 DEF Next, Scan, Returned

-------------------------------------------------------------------------------
(* One iteration of the scan.                                              *)

(* What survives of the registers before the unit itself is judged: a      *)
(* changed header takes all three (assemble.rs:566-574).                   *)
LEMMA LiveRegisters ==
  ASSUME TypeOK, Registers, NEW tu \in TUs, NEW n \in Nat, n = Len(tus), ~ Reanchors(tu)
  PROVE  /\ anchor # NoAnchor <=> anchor.at # 0
         /\ LiveAnchor(tu) # NoAnchor <=> LiveAnchor(tu).at # 0
         /\ LiveAnchor(tu).at = IF SeqChanged(tu) THEN 0 ELSE AnchorOf(n)
         /\ LiveAnchor(tu) # NoAnchor =>
              /\ ~ SeqChanged(tu) /\ AnchorOf(n) # 0
              /\ LiveAnchor(tu) = anchor /\ LivePred(tu) = pred /\ LiveDirty(tu) = dirty
              /\ Governing(tu) = sh /\ sh \in Headers
              /\ pred.at \in 1..n /\ dirty \in 0..n
              /\ pred.at = BaseOf(n) /\ dirty = ClashOf(n) /\ anchor.at = AnchorOf(n)
              /\ anchor.bits = HintBits[sh] /\ pred.hint = Hint(tus[pred.at], sh)
         /\ LiveAnchor(tu) = NoAnchor => LiveDirty(tu) = 0
<1>1. anchor # NoAnchor <=> anchor.at # 0
  BY DEF Registers, NoAnchor
<1>2. AnchorOf(n) \in 0..n /\ BaseOf(n) \in AnchorOf(n)..n /\ ClashOf(n) \in 0..n
  BY Answers
<1>3. CASE Orphaned(tu)
  <2>1. LiveAnchor(tu) = NoAnchor /\ NoAnchor.at = 0 /\ LiveDirty(tu) = 0 /\ SeqChanged(tu)
    BY <1>3 DEF LiveAnchor, LiveDirty, NoAnchor, Orphaned
  <2> QED
    BY <1>1, <2>1
<1>4. CASE ~ Orphaned(tu)
  <2>1. LiveAnchor(tu) = anchor /\ LivePred(tu) = pred /\ LiveDirty(tu) = dirty
    BY <1>4 DEF LiveAnchor, LivePred, LiveDirty
  <2>2. anchor # NoAnchor => ~ SeqChanged(tu)
    BY <1>4 DEF Orphaned
  <2>3. anchor # NoAnchor => Governing(tu) = sh
    BY <2>2, SameHeader
  <2> QED
    BY <1>1, <1>2, <2>1, <2>2, <2>3 DEF Registers
<1> QED
  BY <1>3, <1>4

(* A unit that neither anchors nor re-bases can at most set the mark.      *)
LEMMA PassedRegisters ==
  ASSUME TypeOK, Registers, NEW tu \in TUs, Read(tu), ~ Reanchors(tu), ~ Rebases(tu),
         anchor' = LiveAnchor(tu), pred' = LivePred(tu),
         dirty' = MarkDirty(tu, LiveDirty(tu))
  PROVE  Registers'
<1> SUFFICES ASSUME NEW n \in Nat, n = Len(tus) PROVE Registers'
  BY DEF TypeOK
<1>1. Len(tus') = n + 1 /\ \A j \in 1..n : tus'[j] = tus[j]
  BY Appended
<1>2. sh = HdrAt(n)
  BY DEF Registers
<1>3. HdrAt(n + 1)' = Governing(tu) /\ sh' = Governing(tu)
  BY <1>2, HdrAtNow DEF Read
<1>4. AnchorOf(n + 1)' = LiveAnchor(tu).at
  BY <1>2, AnswersNow, LiveRegisters
<1>5. CASE LiveAnchor(tu) = NoAnchor
  <2>1. anchor'.at = 0 /\ dirty' = 0 /\ anchor' = NoAnchor
    BY <1>5, LiveRegisters DEF MarkDirty
  <2> QED
    BY <1>1, <1>3, <1>4, <2>1 DEF Registers
<1>6. CASE LiveAnchor(tu) # NoAnchor
  <2>1. /\ ~ SeqChanged(tu) /\ AnchorOf(n) # 0
        /\ LiveAnchor(tu) = anchor /\ LivePred(tu) = pred /\ LiveDirty(tu) = dirty
        /\ Governing(tu) = sh /\ sh \in Headers
        /\ pred.at \in 1..n /\ pred.at = BaseOf(n) /\ dirty = ClashOf(n)
        /\ anchor.bits = HintBits[sh] /\ pred.hint = Hint(tus[pred.at], sh)
    BY <1>6, LiveRegisters
  <2>2. ~ (CodedFrame(tu) /\ ~ AnchorShape(tu) /\ tu.ft # "INTER")
    BY <1>6 DEF Rebases
  <2>3. /\ BaseOf(n + 1)' = BaseOf(n)
        /\ ClashOf(n + 1)' = IF ClashOf(n) = 0
                             THEN (IF Dirties(tu) THEN n + 1 ELSE 0) ELSE ClashOf(n)
    BY <1>2, <2>1, <2>2, AnswersNow
  <2>4. dirty' = ClashOf(n + 1)'
    BY <1>6, <2>1, <2>3 DEF MarkDirty, Now
  <2>5. pred' = pred /\ anchor' = anchor /\ sh' = sh
        /\ tus'[pred.at] = tus[pred.at] /\ anchor'.at # 0
    BY <1>1, <1>3, <1>6, <2>1, LiveRegisters
  <2>6. pred'.hint = Hint(tus'[pred'.at], sh')
    BY <2>1, <2>5
  <2> QED
    BY <1>1, <1>3, <1>4, <2>1, <2>3, <2>4, <2>5, <2>6 DEF Registers
<1> QED
  BY <1>5, <1>6

LEMMA AnchorRegisters ==
  ASSUME TypeOK, Registers, NEW tu \in TUs, ScanAnchor(tu)
  PROVE  Registers'
<1> SUFFICES ASSUME NEW n \in Nat, n = Len(tus) PROVE Registers'
  BY DEF TypeOK
<1>1. Read(tu) /\ Reanchors(tu) /\ CodedFrame(tu)
  BY DEF ScanAnchor, Reanchors, AnchorShape
<1>2. Len(tus') = n + 1 /\ tus'[n + 1] = tu
  BY <1>1, Appended
<1>3. sh = HdrAt(n)
  BY DEF Registers
<1>4. HdrAt(n + 1)' = Governing(tu) /\ sh' = Governing(tu)
  BY <1>1, <1>3, HdrAtNow DEF Read
<1>5. AnchorOf(n + 1)' = n + 1 /\ BaseOf(n + 1)' = n + 1 /\ ClashOf(n + 1)' = 0
  BY <1>1, <1>3, AnswersNow
<1>6. Governing(tu) \in Headers
  BY <1>1, GoverningType DEF CodedFrame, Parses
<1>7. /\ anchor'.at = n + 1 /\ anchor'.bits = HintBits[sh'] /\ dirty' = 0
      /\ pred'.at = n + 1 /\ pred'.hint = Hint(tu, sh')
  BY <1>4 DEF ScanAnchor, Now
<1> QED
  BY <1>2, <1>4, <1>5, <1>6, <1>7 DEF Registers

(* An intra frame behind the anchor becomes the predecessor, and takes the *)
(* mark back unless its own unit sets it (assemble.rs:611-620).            *)
LEMMA RebaseRegisters ==
  ASSUME TypeOK, Registers, NEW tu \in TUs, ScanRebase(tu)
  PROVE  Registers'
<1> SUFFICES ASSUME NEW n \in Nat, n = Len(tus) PROVE Registers'
  BY DEF TypeOK
<1>1. /\ Read(tu) /\ CodedFrame(tu) /\ ~ AnchorShape(tu) /\ tu.ft # "INTER"
      /\ ~ Reanchors(tu) /\ LiveAnchor(tu) # NoAnchor
  BY DEF ScanRebase, Rebases, Reanchors
<1>2. Len(tus') = n + 1 /\ tus'[n + 1] = tu
  BY <1>1, Appended
<1>3. sh = HdrAt(n)
  BY DEF Registers
<1>4. HdrAt(n + 1)' = Governing(tu) /\ sh' = Governing(tu)
  BY <1>1, <1>3, HdrAtNow DEF Read
<1>5. /\ ~ SeqChanged(tu) /\ AnchorOf(n) # 0
      /\ LiveAnchor(tu) = anchor /\ anchor.at = AnchorOf(n) /\ anchor.at # 0
      /\ Governing(tu) = sh /\ sh \in Headers /\ anchor.bits = HintBits[sh]
  BY <1>1, LiveRegisters
<1>6. /\ AnchorOf(n + 1)' = AnchorOf(n) /\ BaseOf(n + 1)' = n + 1
      /\ ClashOf(n + 1)' = IF Dirties(tu) THEN n + 1 ELSE 0
  BY <1>1, <1>3, <1>5, AnswersNow
<1>7. /\ anchor' = anchor /\ pred'.at = n + 1 /\ pred'.hint = Hint(tu, sh')
      /\ dirty' = ClashOf(n + 1)'
  BY <1>1, <1>4, <1>5, <1>6 DEF ScanRebase, MarkDirty, Now
<1> QED
  BY <1>2, <1>4, <1>5, <1>6, <1>7 DEF Registers

(* Every unit but an anchor and a re-basing frame passes.                  *)
LEMMA Passing ==
  ASSUME NEW tu \in TUs, ScanSkippable(tu) \/ ScanOpaque(tu) \/ ScanOther(tu)
  PROVE  /\ Read(tu) /\ ~ Reanchors(tu) /\ ~ Rebases(tu)
         /\ anchor' = LiveAnchor(tu) /\ pred' = LivePred(tu)
         /\ dirty' = MarkDirty(tu, LiveDirty(tu))
<1>1. CASE ScanSkippable(tu)
  <2>1. ~ CodedFrame(tu) /\ ~ Dirties(tu)
    <3>1. Skippable(tu)
      BY <1>1 DEF ScanSkippable
    <3> QED
      BY <3>1 DEF Skippable, CodedFrame, Dirties, Unreadable
  <2>2. /\ Read(tu) /\ anchor' = LiveAnchor(tu) /\ pred' = LivePred(tu)
        /\ dirty' = LiveDirty(tu)
    BY <1>1 DEF ScanSkippable
  <2> QED
    BY <2>1, <2>2 DEF Reanchors, AnchorShape, Rebases, MarkDirty
<1>2. CASE ScanOpaque(tu)
  <2>1. ~ CodedFrame(tu)
    BY <1>2 DEF ScanOpaque, CodedFrame, Unreadable
  <2> QED
    BY <1>2, <2>1 DEF ScanOpaque, Reanchors, AnchorShape, Rebases
<1>3. CASE ScanOther(tu)
  BY <1>3 DEF ScanOther
<1> QED
  BY <1>1, <1>2, <1>3

LEMMA RegistersStep == TypeOK /\ Registers /\ [Next]_vars => Registers'
<1> SUFFICES ASSUME TypeOK, Registers, [Next]_vars PROVE Registers'
  OBVIOUS
<1>1. ASSUME NEW tu \in TUs, ScanSkippable(tu) \/ ScanOpaque(tu) \/ ScanOther(tu)
      PROVE  Registers'
  BY <1>1, Passing, PassedRegisters
<1>2. ASSUME NEW tu \in TUs, ScanAnchor(tu) PROVE Registers'
  BY <1>2, AnchorRegisters
<1>3. ASSUME NEW tu \in TUs, ScanRebase(tu) PROVE Registers'
  BY <1>3, RebaseRegisters
<1>4. ASSUME UNCHANGED <<tus, sh, anchor, pred, dirty>> PROVE Registers'
  <2> DEFINE n == Len(tus)
  <2>1. \A k \in Nat : /\ HdrAt(k)' = HdrAt(k) /\ AnchorOf(k)' = AnchorOf(k)
                       /\ BaseOf(k)' = BaseOf(k) /\ ClashOf(k)' = ClashOf(k)
    BY <1>4 DEF HdrAt, AnchorOf, BaseOf, ClashOf, KeyWithHeaderAt, FrameAt, ClashAt, ChangesAt
  <2>2. Len(tus) \in Nat /\ Len(tus') = Len(tus)
    BY <1>4 DEF TypeOK
  <2> QED
    BY <1>4, <2>1, <2>2 DEF Registers
<1>5. CASE GiveUp
  BY <1>4, <1>5 DEF GiveUp
<1>6. CASE UNCHANGED vars
  BY <1>4, <1>6 DEF vars
<1> QED
  BY <1>1, <1>2, <1>3, <1>5, <1>6 DEF Next, Scan, Returned

-------------------------------------------------------------------------------
(* The golden.                                                             *)

(* What the scan asks of a candidate is what the contract asks: the        *)
(* registers supply the anchor, the predecessor's hint and the mark.       *)
LEMMA GoldenNow ==
  ASSUME TypeOK, Registers, NEW tu \in TUs, Read(tu), NEW n \in Nat, n = Len(tus)
  PROVE  GoldenAt(n + 1)' /\ ~ SelfMeasured(n + 1)' <=>
           \/ Rebases(tu) /\ Qualifies(tu, [at |-> Now, hint |-> Hint(tu, Governing(tu))], 0)
           \/ /\ CodedFrame(tu) /\ ~ Reanchors(tu) /\ ~ Rebases(tu)
              /\ Qualifies(tu, LivePred(tu), LiveDirty(tu))
<1>1. Len(tus') = n + 1 /\ tus'[n + 1] = tu /\ \A j \in 1..n : tus'[j] = tus[j]
  BY Appended
<1>2. sh = HdrAt(n) /\ HdrAt(n + 1)' = Governing(tu)
  BY HdrAtNow DEF Registers
<1>3. FrameAt(n + 1)' <=> CodedFrame(tu)
  BY <1>2, JudgedNow
<1>4. GoldenAt(n + 1)' <=>
        /\ AnchorOf(n + 1)' \in 1..n
        /\ CodedFrame(tu) /\ tu.extras = 0 /\ tu.ft # "KEY" /\ tu.shown
        /\ Refresh(tu) # {}
        /\ tu.ft = "INTER" => ClashOf(n)' = 0
        /\ HintBits[Governing(tu)] # 0 =>
             Hint(tu, Governing(tu)) = (Hint(tus'[BaseOf(n)'], Governing(tu)) + 1)
                                       % Pow2[HintBits[Governing(tu)]]
  <2>1. (n + 1) - 1 = n
    OBVIOUS
  <2> QED
    BY <1>1, <1>2, <1>3, <2>1 DEF GoldenAt
<1>5. SelfMeasured(n + 1)' <=> tu.ft # "INTER" /\ HintBits[Governing(tu)] # 0
  BY <1>1, <1>2 DEF SelfMeasured
<1>6. CASE Reanchors(tu)
  <2>1. AnchorOf(n + 1)' = n + 1
    BY <1>2, <1>6, AnswersNow
  <2>2. ~ Rebases(tu)
    BY <1>6 DEF Reanchors, Rebases
  <2> QED
    BY <1>4, <1>6, <2>1, <2>2
<1>7. CASE ~ Reanchors(tu) /\ LiveAnchor(tu) = NoAnchor
  <2>1. AnchorOf(n + 1)' = 0
    BY <1>2, <1>7, AnswersNow, LiveRegisters
  <2>2. \A p, d : ~ Qualifies(tu, p, d)
    BY <1>7 DEF Qualifies
  <2> QED
    BY <1>4, <2>1, <2>2
<1>8. CASE ~ Reanchors(tu) /\ LiveAnchor(tu) # NoAnchor /\ ~ CodedFrame(tu)
  BY <1>4, <1>8 DEF Rebases
<1>9. CASE ~ Reanchors(tu) /\ LiveAnchor(tu) # NoAnchor /\ CodedFrame(tu)
  <2>1. /\ ~ SeqChanged(tu) /\ AnchorOf(n) # 0
        /\ LiveAnchor(tu) = anchor /\ LivePred(tu) = pred /\ LiveDirty(tu) = dirty
        /\ Governing(tu) = sh /\ sh \in Headers
        /\ pred.at \in 1..n /\ pred.at = BaseOf(n) /\ dirty = ClashOf(n)
        /\ anchor.bits = HintBits[sh] /\ pred.hint = Hint(tus[pred.at], sh)
    BY <1>9, LiveRegisters
  <2>2. AnchorOf(n + 1)' = AnchorOf(n) /\ AnchorOf(n) \in 1..n
    <3>1. AnchorOf(n) \in 0..n
      BY Answers
    <3> QED
      BY <1>2, <1>9, <2>1, <3>1, AnswersNow
  <2>3. BaseOf(n)' = pred.at /\ ClashOf(n)' = dirty /\ tus'[pred.at] = tus[pred.at]
    <3>1. n \in 0..Len(tus)
      OBVIOUS
    <3> QED
      BY <1>1, <2>1, <3>1, AnswersKept
  <2>4. \A p, d : Qualifies(tu, p, d) <=>
          /\ tu.extras = 0 /\ tu.ft # "KEY" /\ d = 0 /\ tu.shown /\ Refresh(tu) # {}
          /\ HintBits[sh] # 0 => Hint(tu, sh) = (p.hint + 1) % Pow2[HintBits[sh]]
    BY <1>9, <2>1 DEF Qualifies, Showable
  <2>5. CASE Rebases(tu)
    <3>1. tu.ft # "INTER"
      BY <2>5 DEF Rebases
    <3>2. HintBits[sh] # 0 =>
            Hint(tu, sh) # (Hint(tu, sh) + 1) % Pow2[HintBits[sh]]
      <4>1. HintBits[sh] \in Nat /\ tu.hint \in Nat
        BY <2>1, TuFields, SplitAssumption
      <4> QED
        BY <4>1, OwnSuccessor DEF Hint
    <3> QED
      BY <1>4, <1>5, <1>9, <2>1, <2>2, <2>4, <2>5, <3>1, <3>2
  <2>6. CASE ~ Rebases(tu)
    <3>1. tu.ft = "INTER" \/ AnchorShape(tu)
      BY <1>9, <2>6 DEF Rebases
    <3>2. tu.ft # "KEY" => tu.ft = "INTER"
      BY <3>1 DEF AnchorShape
    <3> QED
      BY <1>4, <1>5, <1>9, <2>1, <2>2, <2>3, <2>4, <2>6, <3>2
  <2> QED
    BY <2>5, <2>6
<1> QED
  BY <1>6, <1>7, <1>8, <1>9

LEMMA OutcomeStep == TypeOK /\ Registers /\ Outcome /\ [Next]_vars => Outcome'
<1> SUFFICES ASSUME TypeOK, Registers, Outcome, [Next]_vars,
                    NEW n \in Nat, n = Len(tus)
             PROVE  Outcome'
  BY DEF TypeOK
<1>1. ASSUME NEW tu \in TUs, Read(tu),
             golden' = IF GoldenAt(n + 1)' /\ ~ SelfMeasured(n + 1)' THEN n + 1 ELSE golden,
             result' = IF golden' # 0 THEN "pair" ELSE result
      PROVE  Outcome'
  <2>1. result = "scanning" /\ golden = 0
    BY <1>1 DEF Outcome, Read
  <2>2. \A m \in 1..n : GoldenAt(m) => SelfMeasured(m)
    BY <2>1 DEF Outcome
  <2>3. \A m \in 1..n : GoldenAt(m)' => SelfMeasured(m)'
    BY <1>1, <2>2, GoldenKept
  <2>4. Len(tus') = n + 1 /\ (n + 1) - 1 = n /\ n + 1 > 0
    BY <1>1, Appended
  <2> QED
    BY <1>1, <2>1, <2>3, <2>4 DEF Outcome
<1>2. ASSUME NEW tu \in TUs, ScanSkippable(tu) \/ ScanOpaque(tu) \/ ScanAnchor(tu)
      PROVE  Outcome'
  <2>1. Read(tu) /\ UNCHANGED <<golden, result>>
    BY <1>2 DEF ScanSkippable, ScanOpaque, ScanAnchor
  <2>2. ~ CodedFrame(tu) \/ Reanchors(tu)
    BY <1>2 DEF ScanSkippable, ScanOpaque, ScanAnchor, Skippable, Unreadable, CodedFrame
  <2>3. ~ (GoldenAt(n + 1)' /\ ~ SelfMeasured(n + 1)')
    BY <2>1, <2>2, GoldenNow DEF Rebases, Reanchors
  <2>4. golden = 0
    BY <2>1 DEF Outcome, Read
  <2> QED
    BY <1>1, <2>1, <2>3, <2>4
<1>3. ASSUME NEW tu \in TUs, ScanRebase(tu) PROVE Outcome'
  <2>1. /\ Read(tu) /\ Rebases(tu)
        /\ pred' = [at |-> Now, hint |-> Hint(tu, Governing(tu))]
        /\ golden' = IF Qualifies(tu, pred', 0) THEN Now ELSE golden
        /\ result' = IF golden' # 0 THEN "pair" ELSE result
    BY <1>3 DEF ScanRebase
  <2>2. GoldenAt(n + 1)' /\ ~ SelfMeasured(n + 1)' <=> Qualifies(tu, pred', 0)
    BY <2>1, GoldenNow
  <2> QED
    BY <1>1, <2>1, <2>2 DEF Now
<1>4. ASSUME NEW tu \in TUs, ScanOther(tu) PROVE Outcome'
  <2>1. /\ Read(tu) /\ CodedFrame(tu) /\ ~ Reanchors(tu) /\ ~ Rebases(tu)
        /\ golden' = IF Qualifies(tu, LivePred(tu), LiveDirty(tu)) THEN Now ELSE golden
        /\ result' = IF golden' # 0 THEN "pair" ELSE result
    BY <1>4 DEF ScanOther
  <2>2. GoldenAt(n + 1)' /\ ~ SelfMeasured(n + 1)' <=>
          Qualifies(tu, LivePred(tu), LiveDirty(tu))
    BY <2>1, GoldenNow
  <2> QED
    BY <1>1, <2>1, <2>2 DEF Now
<1>5. ASSUME UNCHANGED <<tus, golden>>, result' = "pair" <=> result = "pair"
      PROVE  Outcome'
  <2>1. \A k \in Nat : /\ GoldenAt(k)' <=> GoldenAt(k)
                       /\ SelfMeasured(k)' <=> SelfMeasured(k)
    BY <1>5 DEF GoldenAt, SelfMeasured, HdrAt, AnchorOf, BaseOf, ClashOf, KeyWithHeaderAt, FrameAt,
                ClashAt, ChangesAt
  <2> QED
    BY <1>5, <2>1 DEF Outcome
<1>6. CASE GiveUp
  BY <1>5, <1>6 DEF GiveUp
<1>7. CASE UNCHANGED vars
  BY <1>5, <1>7 DEF vars
<1> QED
  BY <1>2, <1>3, <1>4, <1>6, <1>7 DEF Next, Scan, Returned

-------------------------------------------------------------------------------
(* One generation of headers, and the slots.                               *)

LEMMA GenerationStep == TypeOK /\ Registers /\ Generation /\ [Next]_vars => Generation'
<1> SUFFICES ASSUME TypeOK, Registers, Generation, [Next]_vars,
                    NEW n \in Nat, n = Len(tus)
             PROVE  Generation'
  BY DEF TypeOK
<1>1. ASSUME NEW tu \in TUs, Read(tu), ~ Reanchors(tu), anchor' = LiveAnchor(tu)
      PROVE  Generation'
  <2>1. CASE LiveAnchor(tu) = NoAnchor
    BY <1>1, <2>1 DEF Generation, NoAnchor
  <2>2. CASE LiveAnchor(tu) # NoAnchor
    <3>1. anchor' = anchor /\ Governing(tu) = sh /\ anchor.at \in 1..n
      <4>1. AnchorOf(n) \in 0..n
        BY Answers
      <4> QED
        BY <1>1, <2>2, <4>1, LiveRegisters
    <3>2. HdrAt(n + 1)' = Governing(tu) /\ sh' = Governing(tu) /\ Len(tus') = n + 1
      BY <1>1, HdrAtNow, Appended DEF Registers, Read
    <3>3. \A j \in anchor.at+1..n+1 : \A k \in DOMAIN SeenHeaders(tus'[j]) :
            tus'[j].hdrs[k] = sh
      <4>1. /\ tus'[n + 1] = tu /\ \A j \in 1..n : tus'[j] = tus[j]
            /\ anchor.at # 0 /\ ~ SeqChanged(tu)
        BY <1>1, <2>2, <3>1, Appended, LiveRegisters
      <4>2. \A j \in anchor.at+1..n : \A k \in DOMAIN SeenHeaders(tus[j]) :
              tus[j].hdrs[k] = sh
        BY <4>1 DEF Generation
      <4>3. \A k \in DOMAIN SeenHeaders(tu) : tu.hdrs[k] = sh
        BY <4>1, SameHeader
      <4>4. \A j \in anchor.at+1..n+1 : j = n + 1 \/ (j \in anchor.at+1..n /\ j \in 1..n)
        BY <3>1
      <4> QED
        BY <4>1, <4>2, <4>3, <4>4
    <3>4. \A j \in anchor.at..n : HdrAt(j)' = sh
      <4> TAKE j \in anchor.at..n
      <4>1. j \in 0..Len(tus) /\ HdrAt(j) = sh
        BY <3>1 DEF Generation
      <4> QED
        BY <1>1, <4>1, HdrAtKept
    <3> QED
      BY <3>1, <3>2, <3>3, <3>4 DEF Generation
  <2> QED
    BY <2>1, <2>2
<1>2. ASSUME NEW tu \in TUs, ScanAnchor(tu) PROVE Generation'
  <2>1. Read(tu) /\ anchor'.at = n + 1
    BY <1>2 DEF ScanAnchor, Now
  <2>2. HdrAt(n + 1)' = Governing(tu) /\ sh' = Governing(tu) /\ Len(tus') = n + 1
    BY <2>1, HdrAtNow, Appended DEF Registers, Read
  <2> QED
    BY <2>1, <2>2 DEF Generation
<1>3. ASSUME NEW tu \in TUs, ScanRebase(tu) PROVE Generation'
  <2>1. Read(tu) /\ ~ Reanchors(tu) /\ anchor' = LiveAnchor(tu)
    BY <1>3 DEF ScanRebase, Rebases, Reanchors
  <2> QED
    BY <1>1, <2>1
<1>4. ASSUME NEW tu \in TUs, ScanSkippable(tu) \/ ScanOpaque(tu) \/ ScanOther(tu)
      PROVE  Generation'
  BY <1>1, <1>4, Passing
<1>5. ASSUME UNCHANGED <<tus, sh, anchor>> PROVE Generation'
  BY <1>5, ZenonT(30) DEF Generation, HdrAt
<1>6. CASE GiveUp
  BY <1>5, <1>6 DEF GiveUp
<1>7. CASE UNCHANGED vars
  BY <1>5, <1>7 DEF vars
<1> QED
  BY <1>2, <1>3, <1>4, <1>6, <1>7 DEF Next, Scan, Returned

(* A unit that passes without a mark stores nothing a decoder did not hold *)
(* already: it is skipped, re-shows a frame and nothing else, or refreshes *)
(* no slot (assemble.rs:717-737).                                          *)
LEMMA PassedSlots ==
  ASSUME IInv, NEW tu \in TUs, Read(tu), ~ Reanchors(tu), ~ Rebases(tu),
         anchor' = LiveAnchor(tu), pred' = LivePred(tu),
         dirty' = MarkDirty(tu, LiveDirty(tu))
  PROVE  CleanSlots'
<1> SUFFICES ASSUME NEW n \in Nat, n = Len(tus),
                    anchor' # NoAnchor, dirty' = 0, FullRefresh(tus[pred.at])',
                    LoneShows(pred)', NEW s \in Slots
             PROVE  dec'[s].at = pred'.at /\ dec'[s].nth = 1
  BY DEF CleanSlots, IInv, TypeOK
<1> USE DEF IInv
<1>1. LiveAnchor(tu) # NoAnchor
  OBVIOUS
<1>2. /\ LiveAnchor(tu) = anchor /\ LivePred(tu) = pred /\ LiveDirty(tu) = dirty
      /\ pred.at \in 1..n /\ anchor # NoAnchor
  BY <1>1, LiveRegisters
<1>3. dirty = 0 /\ ~ Dirties(tu)
  BY <1>1, <1>2 DEF MarkDirty, Now
<1>4. /\ Len(tus') = n + 1 /\ tus'[n + 1] = tu /\ \A j \in 1..n : tus'[j] = tus[j]
  BY Appended
<1>5. FullRefresh(tus[pred.at]) /\ tus'[pred.at] = tus[pred.at]
  BY <1>2, <1>4 DEF FullRefresh
<1>6. LoneShows(pred) /\ (tu.kind = "show" => tu.extras = 0)
  BY <1>2, <1>4 DEF LoneShows
<1>7. \A t \in Slots : dec[t].at = pred.at /\ dec[t].nth = 1
  BY <1>2, <1>3, <1>5, <1>6 DEF CleanSlots
<1>8. tu.kind = "coded" => Refresh(tu) = {} /\ tu.extras = 0
  <2> SUFFICES ASSUME tu.kind = "coded" PROVE Refresh(tu) = {} /\ tu.extras = 0
    OBVIOUS
  <2>1. CodedFrame(tu)
    BY <1>3 DEF Dirties, Unreadable, CodedFrame
  <2>2. tu.extras = 0 /\ (tu.ft = "INTER" => Refresh(tu) = {})
    BY <1>3, <2>1, TuFields DEF Dirties
  <2>3. ~ AnchorShape(tu)
    BY <2>2 DEF Reanchors
  <2> QED
    BY <1>1, <2>1, <2>2, <2>3 DEF Rebases
<1>9. tu.kind \in {"frameless", "show", "coded"} /\ tu.extras = 0
  BY <1>3, <1>6, <1>8, TuFields, SplitAssumption DEF Dirties, Malformed
<1>10. dec' = FirstDecoded(tu)
  BY <1>9 DEF Read, Decoded
<1>11. tu.slot \in Slots
  BY TuFields
<1> QED
  BY <1>2, <1>7, <1>8, <1>9, <1>10, <1>11 DEF FirstDecoded, Store

(* A frame that refreshes every slot, alone in its unit, leaves its        *)
(* picture in every slot.                                                  *)
LEMMA FilledSlots ==
  ASSUME TypeOK, NEW tu \in TUs, Read(tu), CodedFrame(tu),
         pred'.at = Now, dirty' = 0 => tu.extras = 0
  PROVE  CleanSlots'
<1> SUFFICES ASSUME dirty' = 0, FullRefresh(tus[pred.at])', NEW s \in Slots
             PROVE  dec'[s].at = pred'.at /\ dec'[s].nth = 1
  BY DEF CleanSlots
<1>1. tus'[pred'.at] = tu
  BY Appended DEF Now
<1>2. Refresh(tu) = Slots
  BY <1>1 DEF FullRefresh
<1>3. dec' = Store(dec, Refresh(tu), Picture(Now, 1, tu.ft = "KEY"))
  BY DEF Read, Decoded, FirstDecoded, CodedFrame
<1> QED
  BY <1>2, <1>3 DEF Store, Picture

LEMMA CleanStep == IInv /\ [Next]_vars => CleanSlots'
<1> SUFFICES ASSUME IInv, [Next]_vars PROVE CleanSlots'
  OBVIOUS
<1>1. ASSUME NEW tu \in TUs, ScanSkippable(tu) \/ ScanOpaque(tu) \/ ScanOther(tu)
      PROVE  CleanSlots'
  BY <1>1, Passing, PassedSlots
<1>2. ASSUME NEW tu \in TUs, ScanAnchor(tu) PROVE CleanSlots'
  <2>1. /\ Read(tu) /\ CodedFrame(tu) /\ tu.extras = 0 /\ pred'.at = Now
    BY <1>2 DEF ScanAnchor, Reanchors, AnchorShape
  <2> QED
    BY <2>1, FilledSlots DEF IInv
<1>3. ASSUME NEW tu \in TUs, ScanRebase(tu) PROVE CleanSlots'
  <2>1. /\ Read(tu) /\ CodedFrame(tu) /\ pred'.at = Now
        /\ LiveAnchor(tu) # NoAnchor /\ dirty' = MarkDirty(tu, 0)
    BY <1>3 DEF ScanRebase, Rebases
  <2>2. dirty' = 0 => tu.extras = 0
    BY <2>1, TuFields DEF MarkDirty, Dirties, Now, IInv, TypeOK
  <2> QED
    BY <2>1, <2>2, FilledSlots DEF IInv
<1>4. ASSUME UNCHANGED <<tus, anchor, pred, dirty, dec>> PROVE CleanSlots'
  BY <1>4 DEF CleanSlots, IInv, LoneShows, FullRefresh
<1>5. CASE GiveUp
  BY <1>4, <1>5 DEF GiveUp
<1>6. CASE UNCHANGED vars
  BY <1>4, <1>6 DEF vars
<1> QED
  BY <1>1, <1>2, <1>3, <1>5, <1>6 DEF Next, Scan, Returned

-------------------------------------------------------------------------------
LEMMA InitIInv == Init => IInv
<1> SUFFICES ASSUME Init PROVE IInv
  OBVIOUS
<1> USE DEF Init
<1>1. tus = <<>> /\ Len(tus) = 0
  OBVIOUS
<1>2. TypeOK
  BY SplitAssumption DEF TypeOK, NoAnchor, NoPred, Empty
<1>3. anchor.at = 0
  BY DEF NoAnchor
<1>4. HdrAt(0) = NoHeader /\ AnchorOf(0) = 0
  BY DEF HdrAt, AnchorOf, Greatest
<1>5. Registers
  BY <1>1, <1>3, <1>4 DEF Registers
<1>6. Outcome
  BY <1>1 DEF Outcome
<1>7. Generation /\ CleanSlots
  BY <1>3 DEF Generation, CleanSlots
<1> QED
  BY <1>2, <1>5, <1>6, <1>7 DEF IInv

LEMMA Inductive == Spec => []IInv
<1>1. IInv /\ [Next]_vars => IInv'
  BY TypeStep, RegistersStep, OutcomeStep, GenerationStep, CleanStep DEF IInv
<1> QED
  BY InitIInv, <1>1, PTL DEF Spec

(* Every register of the scan keeps its type.                              *)
THEOREM TypesHold == Spec => []TypeOK
<1>1. IInv => TypeOK
  BY DEF IInv
<1> QED
  BY Inductive, <1>1, PTL

(* What the scan returns is a golden by the contract the documentation     *)
(* states, and the first but for the ones it measures against themselves   *)
(* (assemble.rs:507-749, docs/input-contract.md:17-35).                    *)
THEOREM ContractIsFollowed == Spec => []ScanFollowsContract
<1>1. IInv => ScanFollowsContract
  <2> SUFFICES ASSUME IInv PROVE ScanFollowsContract
    OBVIOUS
  <2> DEFINE n == Len(tus)
  <2>1. (result = "pair") = (golden # 0)
    BY DEF IInv, Outcome
  <2> QED
    BY <2>1 DEF ScanFollowsContract, IInv, Registers, Outcome
<1> QED
  BY Inductive, <1>1, PTL

(* The header a unit leaves governing is its last one.                     *)
LEMMA LastHeader ==
  ASSUME NEW i \in Nat \ {0}, SeenHeaders(tus[i]) # <<>>
  PROVE  HdrAt(i) = tus[i].hdrs[Len(tus[i].hdrs)]
<1> DEFINE J == {j \in 1..i : SeenHeaders(tus[j]) # <<>>}
           m == CHOOSE j \in J : \A k \in J : k <= j
<1>1. i \in J /\ \A k \in J : k \in Int /\ k <= i
  OBVIOUS
<1>2. m = i
  <2> HIDE DEF J
  <2>1. \A x \in J : (\A k \in J : k <= x) => x = i
    BY <1>1
  <2> QED
    BY <1>1, <2>1
<1>3. HdrAt(i) = IF J = {} THEN NoHeader ELSE tus[m].hdrs[Len(tus[m].hdrs)]
  BY Zenon DEF HdrAt
<1> HIDE DEF J, m
<1> QED
  BY <1>1, <1>2, <1>3

(* Behind the anchor's unit and up to the golden there is one sequence     *)
(* header, the golden is coded under it, and so is the anchor whose header *)
(* stands in front of its frame (assemble.rs:462-489, 514-516).            *)
THEOREM PairUnderOneHeader == Spec => []OneHeader
<1>1. IInv => OneHeader
  <2> SUFFICES ASSUME IInv, result = "pair"
               PROVE  /\ anchor.at \in 1..golden-1
                      /\ \A j \in anchor.at+1..golden : \A k \in DOMAIN SeenHeaders(tus[j]) :
                            tus[j].hdrs[k] = HdrAt(golden)
                      /\ CodedUnder(golden) = HdrAt(golden)
                      /\ HdrAt(anchor.at) = HdrAt(golden)
                      /\ HeaderBehindFrame(tus[anchor.at]) \/
                           CodedUnder(anchor.at) = HdrAt(golden)
    BY DEF OneHeader
  <2>1. golden = Len(tus) /\ GoldenAt(Len(tus)) /\ Len(tus) \in Nat
    BY DEF IInv, Outcome, TypeOK
  <2>2. anchor.at \in 1..golden-1
    BY <2>1 DEF GoldenAt, IInv, Registers
  <2>3. /\ \A j \in anchor.at..golden : HdrAt(j) = sh
        /\ \A j \in anchor.at+1..golden : \A k \in DOMAIN SeenHeaders(tus[j]) :
              tus[j].hdrs[k] = sh
    BY <2>1, <2>2 DEF IInv, Generation
  <2>4. HdrAt(golden) = sh /\ HdrAt(anchor.at) = sh
    BY <2>1, <2>2, <2>3
  <2>5. \A j \in 1..golden : /\ tus[j].hdrs \in Seq(Headers) /\ tus[j].lead \in Nat
                             /\ tus[j].lead <= Len(tus[j].hdrs)
    <3>1. \A j \in 1..golden : tus[j] \in TUs
      BY <2>1 DEF IInv, TypeOK
    <3> QED
      BY <3>1, TuFields
  <2>6. CodedUnder(golden) = sh
    <3>1. SeenHeaders(tus[golden]) = tus[golden].hdrs
      BY <2>1 DEF GoldenAt, FrameAt, SeenHeaders
    <3>2. CASE tus[golden].lead = 0
      <4>1. golden - 1 \in anchor.at..golden
        BY <2>1, <2>2
      <4> QED
        BY <2>3, <3>2, <4>1 DEF CodedUnder
    <3>3. CASE tus[golden].lead # 0
      <4>1. tus[golden].lead \in DOMAIN tus[golden].hdrs /\ golden \in anchor.at+1..golden
        BY <2>1, <2>2, <2>5, <3>3
      <4> QED
        BY <2>3, <3>1, <3>3, <4>1 DEF CodedUnder
    <3> QED
      BY <3>2, <3>3
  <2>7. ASSUME ~ HeaderBehindFrame(tus[anchor.at])
        PROVE  CodedUnder(anchor.at) = sh
    <3>1. KeyWithHeaderAt(anchor.at)
      <4>1. AnchorOf(golden) = anchor.at
        BY <2>1 DEF IInv, Registers
      <4>2. AnchorOf(golden) \in Anchors(golden)
        <5>1. /\ Anchors(golden) = {} => AnchorOf(golden) = 0
              /\ Anchors(golden) # {} => AnchorOf(golden) \in Anchors(golden)
          BY <2>1, Answers
        <5>2. AnchorOf(golden) # 0
          BY <2>2, <4>1
        <5> QED
          BY <5>1, <5>2
      <4> QED
        BY <4>1, <4>2 DEF Anchors
    <3>2. tus[anchor.at].hdrs # <<>> /\ SeenHeaders(tus[anchor.at]) = tus[anchor.at].hdrs
      BY <3>1 DEF KeyWithHeaderAt, FrameAt, SeenHeaders
    <3>3. tus[anchor.at].lead = Len(tus[anchor.at].hdrs)
      BY <2>1, <2>2, <2>5, <2>7 DEF HeaderBehindFrame
    <3>4. tus[anchor.at].lead # 0
      BY <2>1, <2>2, <2>5, <3>2, <3>3
    <3>5. CodedUnder(anchor.at) = HdrAt(anchor.at)
      BY <2>1, <2>2, <3>2, <3>3, <3>4, LastHeader DEF CodedUnder
    <3> QED
      BY <2>1, <2>2, <2>3, <3>5
  <2> QED
    BY <2>2, <2>3, <2>4, <2>6, <2>7
<1> QED
  BY Inductive, <1>1, PTL

(* The predecessor and the mark stand for the decoder's slots.             *)
THEOREM SlotsAreClean == Spec => []CleanSlots
<1>1. IInv => CleanSlots
  BY DEF IInv
<1> QED
  BY Inductive, <1>1, PTL

(* A golden accepted straight behind its anchor was coded against slots    *)
(* that all hold the anchor's picture.                                     *)
THEOREM SpliceIsSafe == Spec => SpliceSafe
<1>1. ASSUME IInv, [Next]_vars, golden' # golden, pred'.at = anchor'.at, LoneShows(pred'),
             NEW s \in Slots
      PROVE  dec[s].at = anchor'.at /\ dec[s].nth = 1
  <2> SUFFICES ASSUME NEW n \in Nat, n = Len(tus)
               PROVE  dec[s].at = anchor'.at /\ dec[s].nth = 1
    BY <1>1 DEF IInv, TypeOK
  <2> USE DEF IInv
  <2>1. PICK tu \in TUs : ScanRebase(tu) \/ ScanOther(tu)
    BY <1>1 DEF Next, Scan, GiveUp, Returned, vars, ScanSkippable, ScanOpaque, ScanAnchor
  <2>2. Read(tu) /\ ~ Reanchors(tu) /\ anchor' = LiveAnchor(tu)
    BY <2>1 DEF ScanRebase, ScanOther, Rebases, Reanchors
  <2>3. LiveAnchor(tu) # NoAnchor
    BY <1>1, <2>1 DEF ScanRebase, ScanOther, Qualifies, Rebases
  <2>4. /\ LiveAnchor(tu) = anchor /\ LivePred(tu) = pred /\ LiveDirty(tu) = dirty
        /\ pred.at \in 1..n /\ anchor.at = AnchorOf(n) /\ AnchorOf(n) \in 0..n
        /\ AnchorOf(n) # 0 /\ anchor # NoAnchor
    BY <1>1, <2>2, <2>3, LiveRegisters, Answers
  <2>5. ~ ScanRebase(tu)
    <3>1. ScanRebase(tu) => pred'.at = n + 1
      BY DEF ScanRebase, Now
    <3> QED
      BY <1>1, <2>2, <2>4, <3>1
  <2>6. pred' = pred /\ dirty = 0
    BY <1>1, <2>1, <2>4, <2>5 DEF ScanOther, Qualifies
  <2>7. pred.at = AnchorOf(n)
    BY <1>1, <2>2, <2>4, <2>6
  <2>8. FullRefresh(tus[pred.at])
    <3>1. KeyWithHeaderAt(AnchorOf(n))
      BY <2>4, Answers DEF Anchors
    <3> QED
      BY <2>7, <3>1 DEF KeyWithHeaderAt, FullRefresh, Refresh
  <2> QED
    BY <1>1, <2>2, <2>4, <2>6, <2>8 DEF CleanSlots
<1>2. IInv /\ [Next]_vars =>
        ((golden' # golden /\ pred'.at = anchor'.at /\ LoneShows(pred')) =>
           \A s \in Slots : dec[s].at = anchor'.at /\ dec[s].nth = 1)
  BY <1>1
<1> QED
  BY Inductive, <1>2, PTL DEF Spec, SpliceSafe
===============================================================================
