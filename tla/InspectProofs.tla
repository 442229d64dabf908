---------------------------- MODULE InspectProofs ----------------------------
(***************************************************************************)
(* For every stream, of any units over any headers and slots: while no     *)
(* keyframe was re-shown the inspector's slots are a decoder's, and a      *)
(* stream with one frame in each unit that passes its checks plays.        *)
(***************************************************************************)
EXTENDS Inspect, SequenceTheorems, TLAPS

Walking == INSTANCE NatRecursion WITH base <- 0, Step <- WalkObu
Decoding == INSTANCE NatRecursion WITH base <- 0, Step <- DecodeObu

Kinds == {NoKind} \cup [is : {"show"}, wasKey : BOOLEAN]
           \cup [is : {"coded"}, ft : FrameTypes, shown : BOOLEAN, showable : BOOLEAN]

Rep == [sh : Headers \cup {NoHeader}, isKey : [Slots -> BOOLEAN], haveDpb : BOOLEAN,
        kinds : Seq(Kinds), keyTus : SUBSET Nat, goldenTus : SUBSET Nat, failed : BOOLEAN]

-----------------------------------------------------------------------------
(***************************************************************************)
(* One OBU.                                                                *)
(***************************************************************************)
LEMMA WalkFold ==
  \A r, unit : FoldLeft(WalkObu, r, unit) = Walking!FoldLeft(WalkObu, r, unit)
BY Zenon DEF FoldLeft, MapThenFoldSet, Max, Walking!FoldLeft, Walking!MapThenFoldSet, Walking!Max

LEMMA DecodeFold ==
  \A d, unit : FoldLeft(DecodeObu, d, unit) = Decoding!FoldLeft(DecodeObu, d, unit)
BY Zenon DEF FoldLeft, MapThenFoldSet, Max, Decoding!FoldLeft, Decoding!MapThenFoldSet,
   Decoding!Max

(* A walk that did not fail took the OBU as what it is.                    *)
LEMMA WalkIs ==
  ASSUME NEW r \in Rep, NEW o \in ObuType, r.kinds # << >>,
         NEW w, w = WalkObu(r, o)
  PROVE  /\ w \in Rep /\ Len(w.kinds) = Len(r.kinds)
         /\ ~ w.failed =>
              /\ ~ r.failed
              /\ o.kind = "header" => w.isKey = r.isKey /\ w.kinds = r.kinds
              /\ o.kind = "show" =>
                   w.isKey = r.isKey /\ w.kinds = [r.kinds EXCEPT ![Len(r.kinds)] = ShowKind(r, o)]
              /\ o.kind = "coded" =>
                   /\ w.isKey = Tracked(r, o)
                   /\ w.kinds = [r.kinds EXCEPT ![Len(r.kinds)] = CodedKind(o)]
<1> DEFINE n == Len(r.kinds)
<1>1. /\ r.sh \in Headers \cup {NoHeader} /\ r.isKey \in [Slots -> BOOLEAN]
      /\ r.haveDpb \in BOOLEAN /\ r.kinds \in Seq(Kinds) /\ r.keyTus \in SUBSET Nat
      /\ r.goldenTus \in SUBSET Nat /\ r.failed \in BOOLEAN
  BY DEF Rep
<1>2. n \in Nat /\ n \in DOMAIN r.kinds
  BY <1>1, EmptySeq, LenProperties
<1>3. /\ o.kind \in {"header", "show", "coded"} /\ o.hdr \in Headers /\ o.slot \in Slots
      /\ o.ft \in FrameTypes /\ o.shown \in BOOLEAN /\ o.showable \in BOOLEAN
      /\ o.ok \in BOOLEAN
  BY DEF ObuType
<1>4. \A k \in Kinds : /\ [r.kinds EXCEPT ![n] = k] \in Seq(Kinds)
                       /\ Len([r.kinds EXCEPT ![n] = k]) = n
  BY <1>1, <1>2, ExceptSeq
<1>5. Fail(r) \in Rep /\ Fail(r).failed /\ Fail(r).kinds = r.kinds
  BY DEF Fail, Rep
<1>6. CASE r.failed
  BY <1>5, <1>6 DEF WalkObu
<1>7. CASE ~ r.failed /\ ~ o.ok
  BY <1>5, <1>7 DEF WalkObu
<1>8. CASE ~ r.failed /\ o.ok /\ o.kind = "header"
  <2>1. w = IF r.sh \in {NoHeader, o.hdr} THEN [r EXCEPT !.sh = o.hdr] ELSE Fail(r)
    BY <1>8 DEF WalkObu
  <2>2. /\ [r EXCEPT !.sh = o.hdr] \in Rep
        /\ [r EXCEPT !.sh = o.hdr].isKey = r.isKey /\ [r EXCEPT !.sh = o.hdr].kinds = r.kinds
    BY <1>3 DEF Rep
  <2> QED
    BY <1>5, <1>8, <2>1, <2>2
<1>9. CASE ~ r.failed /\ o.ok /\ o.kind = "show"
  <2> DEFINE k == ShowKind(r, o)
             ks == [r.kinds EXCEPT ![n] = k]
  <2>1. w = IF r.sh = NoHeader \/ ~ r.haveDpb THEN Fail(r) ELSE [r EXCEPT !.kinds[n] = k]
    BY <1>9 DEF WalkObu
  <2>2. ks \in Seq(Kinds) /\ Len(ks) = n
    BY <1>1, <1>3, <1>4 DEF ShowKind, Kinds
  <2>3. [r EXCEPT !.kinds[n] = k] = [r EXCEPT !.kinds = ks]
    OBVIOUS
  <2> HIDE DEF ks
  <2>4. /\ [r EXCEPT !.kinds = ks] \in Rep
        /\ [r EXCEPT !.kinds = ks].isKey = r.isKey /\ [r EXCEPT !.kinds = ks].kinds = ks
    BY <2>2 DEF Rep
  <2> QED
    BY <1>5, <1>9, <2>1, <2>2, <2>3, <2>4 DEF ks
<1>10. CASE ~ r.failed /\ o.ok /\ o.kind = "coded"
  <2> DEFINE k == CodedKind(o)
             ks == [r.kinds EXCEPT ![n] = k]
             key == IF o.ft = "KEY" /\ o.shown THEN r.keyTus \cup {n} ELSE r.keyTus
             golden == IF o.ft # "KEY" /\ Showable(o) THEN r.goldenTus \cup {n} ELSE r.goldenTus
             isKey == Tracked(r, o)
             v == [r EXCEPT !.haveDpb = TRUE, !.isKey = isKey, !.kinds = ks,
                            !.keyTus = key, !.goldenTus = golden]
  <2>1. w = IF r.sh = NoHeader THEN Fail(r) ELSE v
    BY <1>10 DEF WalkObu
  <2>2. ks \in Seq(Kinds) /\ Len(ks) = n
    BY <1>3, <1>4 DEF CodedKind, Showable, Kinds
  <2>3. isKey \in [Slots -> BOOLEAN]
    BY <1>1 DEF Tracked
  <2>4. key \in SUBSET Nat /\ golden \in SUBSET Nat
    BY <1>1, <1>2
  <2>5. v \in Rep /\ v.isKey = isKey /\ v.kinds = ks
    <3> HIDE DEF ks, key, golden, isKey
    <3> QED
      BY <2>2, <2>3, <2>4 DEF Rep
  <2> HIDE DEF v
  <2> QED
    BY <1>5, <1>10, <2>1, <2>2, <2>5
<1> QED
  BY <1>3, <1>6, <1>7, <1>8, <1>9, <1>10

-----------------------------------------------------------------------------
(***************************************************************************)
(* One unit.                                                               *)
(***************************************************************************)
(* Every unit that is walked has its entry among the kinds.                *)
LEMMA UnitType ==
  ASSUME NEW unit \in Seq(ObuType), NEW r \in Rep, ~ r.failed,
         NEW w, w = AnalyzeUnit(r, unit)
  PROVE  w \in Rep /\ Len(w.kinds) = Len(r.kinds) + 1
<1> DEFINE b == [r EXCEPT !.kinds = Append(@, NoKind)]
           v == FoldLeft(WalkObu, b, unit)
           n == Len(r.kinds)
           L == Len(unit)
           Q == {x \in (0..L) \X Rep : Len(x[2].kinds) = n + 1}
<1>1. w = IF v.kinds[Len(v.kinds)] = NoKind THEN Fail(v) ELSE v
  BY DEF AnalyzeUnit
<1>2. L \in Nat /\ n \in Nat
  BY LenProperties DEF Rep
<1>3. b \in Rep /\ Len(b.kinds) = n + 1
  <2> DEFINE ks == Append(r.kinds, NoKind)
  <2>1. ks \in Seq(Kinds) /\ Len(ks) = n + 1
    BY AppendProperties DEF Rep, Kinds
  <2> HIDE DEF ks, n
  <2>2. [r EXCEPT !.kinds = ks] \in Rep /\ [r EXCEPT !.kinds = ks].kinds = ks
    BY <2>1 DEF Rep
  <2> QED
    BY <2>1, <2>2 DEF ks
<1> HIDE DEF b, n
<1>4. <<0, b>> \in Q
  BY <1>2, <1>3
<1>5. \A k \in 1..L : \A a : <<k - 1, a>> \in Q => <<k, WalkObu(a, unit[k])>> \in Q
  <2> SUFFICES ASSUME NEW k \in 1..L, NEW a, <<k - 1, a>> \in Q
               PROVE  <<k, WalkObu(a, unit[k])>> \in Q
    OBVIOUS
  <2>1. a \in Rep /\ Len(a.kinds) = n + 1 /\ a.kinds # << >> /\ unit[k] \in ObuType
    BY <1>2, ElementOfSeq, EmptySeq
  <2> DEFINE x == WalkObu(a, unit[k])
             o == unit[k]
  <2>2. x = WalkObu(a, o) /\ o \in ObuType
    BY <2>1
  <2> HIDE DEF x, o
  <2>3. x \in Rep /\ Len(x.kinds) = Len(a.kinds)
    BY <2>1, <2>2, WalkIs, ZenonT(30)
  <2>4. <<k, x>> \in Q
    BY <1>2, <2>1, <2>3
  <2> QED
    BY <2>4 DEF x
<1>6. <<L, Walking!FoldLeft(WalkObu, b, unit)>> \in Q
  <2> HIDE DEF Q
  <2> QED
    BY <1>4, <1>5, Walking!FoldInvariant
<1>7. v \in Rep /\ Len(v.kinds) = n + 1
  <2>1. v = Walking!FoldLeft(WalkObu, b, unit)
    BY WalkFold
  <2> QED
    BY <1>6, <2>1
<1> HIDE DEF v
<1>8. Fail(v) \in Rep /\ Fail(v).kinds = v.kinds
  BY <1>7 DEF Fail, Rep
<1> QED
  BY <1>1, <1>7, <1>8 DEF n

Alone(unit) == \A j, k \in Frames(unit) : j = k

(* What the walk has made of the first m OBUs of a unit, r being the       *)
(* report in front of it.                                                  *)
WalkedTo(unit, r, m, w) ==
  /\ w \in Rep /\ w.kinds # << >>
  /\ ~ w.failed =>
       /\ (\A k \in Frames(unit) : m < k) =>
            w.isKey = r.isKey /\ w.kinds = Append(r.kinds, NoKind)
       /\ \A j \in Frames(unit) : j <= m =>
            /\ unit[j].kind = "show" =>
                 w.isKey = r.isKey /\ w.kinds = Append(r.kinds, ShowKind(r, unit[j]))
            /\ unit[j].kind = "coded" =>
                 w.isKey = Tracked(r, unit[j]) /\ w.kinds = Append(r.kinds, CodedKind(unit[j]))

LEMMA WalkStep ==
  ASSUME NEW unit \in Seq(ObuType), Alone(unit), NEW r \in Rep,
         NEW m \in 1..Len(unit), NEW a, WalkedTo(unit, r, m - 1, a)
  PROVE  WalkedTo(unit, r, m, WalkObu(a, unit[m]))
<1> DEFINE o == unit[m]
           w == WalkObu(a, o)
           n == Len(a.kinds)
<1>1. o \in ObuType /\ a \in Rep /\ a.kinds # << >> /\ DOMAIN unit = 1..Len(unit)
      /\ Len(unit) \in Nat /\ m \in Nat
  <2>1. Len(unit) \in Nat /\ DOMAIN unit = 1..Len(unit)
    BY LenProperties
  <2> QED
    BY <2>1, ElementOfSeq DEF WalkedTo
<1>2. o.kind \in {"header", "show", "coded"}
  BY <1>1 DEF ObuType
<1>3. /\ a.kinds \in Seq(Kinds) /\ r.kinds \in Seq(Kinds) /\ n \in Nat \ {0}
  BY <1>1, EmptySeq, LenProperties DEF Rep
<1>4. /\ w \in Rep /\ Len(w.kinds) = n
      /\ ~ w.failed =>
              /\ ~ a.failed
              /\ o.kind = "header" => w.isKey = a.isKey /\ w.kinds = a.kinds
              /\ o.kind = "show" =>
                   w.isKey = a.isKey /\ w.kinds = [a.kinds EXCEPT ![n] = ShowKind(a, o)]
              /\ o.kind = "coded" =>
                   /\ w.isKey = Tracked(a, o)
                   /\ w.kinds = [a.kinds EXCEPT ![n] = CodedKind(o)]
  BY <1>1, WalkIs
<1> HIDE DEF w
<1>5. w.kinds # << >>
  BY <1>3, <1>4
<1>6. ASSUME ~ w.failed, o.kind = "header"
      PROVE  WalkedTo(unit, r, m, w)
  <2>1. m \notin Frames(unit)
    BY <1>6 DEF Frames
  <2>2. \A k \in Frames(unit) : k \in 1..Len(unit)
    BY <1>1 DEF Frames
  <2>3. \A k \in Frames(unit) : (k <= m <=> k <= m - 1) /\ (m < k <=> m - 1 < k)
    BY <1>1, <2>1, <2>2
  <2> QED
    BY <1>4, <1>5, <1>6, <2>3 DEF WalkedTo
<1>7. ASSUME ~ w.failed, o.kind # "header"
      PROVE  WalkedTo(unit, r, m, w)
  <2>1. m \in Frames(unit) /\ \A k \in Frames(unit) : k = m
    BY <1>1, <1>7 DEF Frames, Alone
  <2>2. a.isKey = r.isKey /\ a.kinds = Append(r.kinds, NoKind)
    <3>1. \A k \in Frames(unit) : m - 1 < k
      BY <1>1, <2>1
    <3> QED
      BY <1>4, <1>7, <3>1 DEF WalkedTo
  <2>3. \A k \in Kinds : [a.kinds EXCEPT ![n] = k] = Append(r.kinds, k)
    <3> TAKE k \in Kinds
    <3>1. NoKind \in Kinds
      BY DEF Kinds
    <3>2. n = Len(r.kinds) + 1 /\ Len(r.kinds) \in Nat
      BY <1>3, <2>2, <3>1, AppendProperties, LenProperties
    <3> DEFINE R == r.kinds
               s == Append(R, NoKind)
               t == Append(R, k)
    <3>3. R \in Seq(Kinds) /\ s \in Seq(Kinds) /\ t \in Seq(Kinds)
      BY <1>3, <3>1
    <3>4. Len(s) = n /\ Len(t) = n /\ t[n] = k /\ \A i \in 1..n : i # n => s[i] = t[i]
      BY <1>3, <3>1, <3>2
    <3>5. DOMAIN s = 1..n /\ DOMAIN t = 1..n
      BY <3>3, <3>4, LenProperties
    <3> HIDE DEF s, t
    <3>6. s = [i \in 1..n |-> s[i]] /\ t = [i \in 1..n |-> t[i]]
      BY <3>3, <3>4, <3>5, SeqDef
    <3>7. [s EXCEPT ![n] = k] = t
      BY <3>4, <3>5, <3>6
    <3> QED
      BY <2>2, <3>7 DEF s, t
  <2>4. ShowKind(a, o) = ShowKind(r, o) /\ Tracked(a, o) = Tracked(r, o)
    BY <2>2 DEF ShowKind, Tracked
  <2>5. (o.kind = "show" => ShowKind(r, o) \in Kinds) /\ CodedKind(o) \in Kinds
    BY <1>1 DEF ShowKind, CodedKind, Showable, Kinds, ObuType, Rep
  <2>6. /\ o.kind = "show" =>
             w.isKey = r.isKey /\ w.kinds = Append(r.kinds, ShowKind(r, o))
        /\ o.kind = "coded" =>
             w.isKey = Tracked(r, o) /\ w.kinds = Append(r.kinds, CodedKind(o))
    BY <1>4, <1>7, <2>2, <2>3, <2>4, <2>5
  <2>7. ~ (m < m)
    BY <1>1
  <2> QED
    BY <1>4, <1>5, <2>1, <2>6, <2>7 DEF WalkedTo
<1> QED
  BY <1>4, <1>5, <1>6, <1>7 DEF WalkedTo, w

LEMMA UnitWalked ==
  ASSUME NEW unit \in Seq(ObuType), Alone(unit), NEW r \in Rep, ~ r.failed,
         NEW w, w = AnalyzeUnit(r, unit)
  PROVE  /\ w \in Rep
         /\ ~ w.failed => \E j \in Frames(unit) :
              /\ unit[j].kind = "show" =>
                   w.isKey = r.isKey /\ w.kinds = Append(r.kinds, ShowKind(r, unit[j]))
              /\ unit[j].kind = "coded" =>
                   w.isKey = Tracked(r, unit[j]) /\ w.kinds = Append(r.kinds, CodedKind(unit[j]))
<1> DEFINE b == [r EXCEPT !.kinds = Append(@, NoKind)]
           v == FoldLeft(WalkObu, b, unit)
           L == Len(unit)
           Q == {x \in (0..L) \X Rep : WalkedTo(unit, r, x[1], x[2])}
<1>1. w = IF v.kinds[Len(v.kinds)] = NoKind THEN Fail(v) ELSE v
  BY DEF AnalyzeUnit
<1>2. L \in Nat /\ DOMAIN unit = 1..L /\ \A k \in Frames(unit) : k \in 1..L
  BY LenProperties DEF Frames
<1>3. b \in Rep /\ b.isKey = r.isKey /\ b.kinds = Append(r.kinds, NoKind) /\ b.kinds # << >>
  <2> DEFINE ks == Append(r.kinds, NoKind)
  <2>1. ks \in Seq(Kinds) /\ ks # << >>
    BY SMTT(30) DEF Rep, Kinds
  <2> HIDE DEF ks
  <2>2. [r EXCEPT !.kinds = ks] \in Rep /\ [r EXCEPT !.kinds = ks].isKey = r.isKey
        /\ [r EXCEPT !.kinds = ks].kinds = ks
    BY <2>1 DEF Rep
  <2> QED
    BY <2>1, <2>2 DEF ks
<1> HIDE DEF b
<1>4. <<0, b>> \in Q
  <2>1. \A k \in Frames(unit) : ~ (k <= 0)
    BY <1>2
  <2>2. WalkedTo(unit, r, 0, b)
    BY <1>3, <2>1 DEF WalkedTo
  <2> QED
    BY <1>2, <1>3, <2>2
<1>5. \A k \in 1..L : \A a : <<k - 1, a>> \in Q => <<k, WalkObu(a, unit[k])>> \in Q
  <2> SUFFICES ASSUME NEW k \in 1..L, NEW a, <<k - 1, a>> \in Q
               PROVE  <<k, WalkObu(a, unit[k])>> \in Q
    OBVIOUS
  <2>1. WalkedTo(unit, r, k - 1, a)
    OBVIOUS
  <2>2. WalkedTo(unit, r, k, WalkObu(a, unit[k]))
    BY <2>1, WalkStep
  <2>3. WalkObu(a, unit[k]) \in Rep
    BY <2>2 DEF WalkedTo
  <2> QED
    BY <1>2, <2>2, <2>3
<1>6. <<L, Walking!FoldLeft(WalkObu, b, unit)>> \in Q
  <2> HIDE DEF Q
  <2> QED
    BY <1>4, <1>5, Walking!FoldInvariant
<1>7. WalkedTo(unit, r, L, v)
  <2>1. v = Walking!FoldLeft(WalkObu, b, unit)
    BY WalkFold
  <2> QED
    BY <1>6, <2>1
<1> HIDE DEF v
<1>8. w \in Rep /\ (~ w.failed => w = v /\ ~ v.failed)
  <2>1. v \in Rep
    BY <1>7 DEF WalkedTo
  <2>2. Fail(v) \in Rep /\ Fail(v).failed
    BY <2>1 DEF Fail, Rep
  <2> QED
    BY <1>1, <2>1, <2>2
<1>9. ASSUME ~ w.failed PROVE Frames(unit) # {}
  <2> SUFFICES ASSUME Frames(unit) = {} PROVE FALSE
    OBVIOUS
  <2>1. v.kinds = Append(r.kinds, NoKind)
    BY <1>7, <1>8, <1>9 DEF WalkedTo
  <2>2. r.kinds \in Seq(Kinds) /\ NoKind \in Kinds
    BY DEF Rep, Kinds
  <2>3. v.kinds[Len(v.kinds)] = NoKind
    BY <2>1, <2>2, LenProperties, AppendProperties
  <2>4. Fail(v).failed
    BY <1>7 DEF WalkedTo, Fail, Rep
  <2> QED
    BY <1>1, <1>9, <2>3, <2>4
<1>10. \A j \in Frames(unit) : j <= L
  BY <1>2
<1> QED
  BY <1>7, <1>8, <1>9, <1>10 DEF WalkedTo

(* A decoder is moved by the one frame only.                               *)
LEMMA UnitDecoded ==
  ASSUME NEW unit \in Seq(ObuType), NEW j \in Nat, NEW d,
         \A k \in 1..Len(unit) : k # j => unit[k].kind = "header"
  PROVE  FoldLeft(DecodeObu, d, unit) = IF j \in 1..Len(unit) THEN DecodeObu(d, unit[j]) ELSE d
<1> DEFINE L == Len(unit)
           T(k) == IF j \in 1..k THEN DecodeObu(d, unit[j]) ELSE d
           Q == {<<k, T(k)>> : k \in 0..L}
<1>1. L \in Nat
  BY LenProperties
<1>2. <<0, d>> \in Q
  BY <1>1
<1>3. \A k \in 1..L : \A a : <<k - 1, a>> \in Q => <<k, DecodeObu(a, unit[k])>> \in Q
  <2> SUFFICES ASSUME NEW k \in 1..L, NEW a, <<k - 1, a>> \in Q
               PROVE  <<k, DecodeObu(a, unit[k])>> \in Q
    OBVIOUS
  <2>1. a = T(k - 1)
    BY <1>1
  <2>2. DecodeObu(a, unit[k]) = T(k)
    <3>1. CASE k = j
      <4>1. a = d
        BY <1>1, <2>1, <3>1
      <4> QED
        BY <1>1, <3>1, <4>1
    <3>2. CASE k # j
      <4>1. unit[k].kind = "header"
        BY <3>2
      <4>2. DecodeObu(a, unit[k]) = a
        BY <4>1 DEF DecodeObu
      <4>3. j \in 1..k <=> j \in 1..(k - 1)
        BY <1>1, <3>2
      <4> QED
        BY <2>1, <4>2, <4>3
    <3> QED
      BY <3>1, <3>2
  <2> HIDE DEF T
  <2> QED
    BY <1>1, <2>2
<1>4. <<L, Decoding!FoldLeft(DecodeObu, d, unit)>> \in Q
  <2> HIDE DEF Q
  <2> QED
    BY <1>2, <1>3, Decoding!FoldInvariant
<1>5. Decoding!FoldLeft(DecodeObu, d, unit) = T(L)
  <2> HIDE DEF T
  <2> QED
    BY <1>1, <1>4
<1> QED
  BY <1>5, DecodeFold

LEMMA UnitRefused ==
  ASSUME NEW unit \in Seq(ObuType), Alone(unit), NEW j \in Frames(unit)
  PROVE  /\ FoldLeft(DecodeObu, dec, unit) = DecodeObu(dec, unit[j])
         /\ (\E k \in DOMAIN unit : Refused(Before(unit, k), unit[k])) => Refused(dec, unit[j])
<1>1. /\ Len(unit) \in Nat /\ DOMAIN unit = 1..Len(unit) /\ j \in 1..Len(unit) /\ j \in Nat
      /\ \A k \in 1..Len(unit) : k # j => unit[k].kind = "header"
  BY LenProperties DEF Frames, Alone
<1>2. FoldLeft(DecodeObu, dec, unit) = DecodeObu(dec, unit[j])
  BY <1>1, UnitDecoded
<1>3. Before(unit, j) = dec
  <2> DEFINE s == SubSeq(unit, 1, j - 1)
  <2>1. s \in Seq(ObuType) /\ Len(s) = j - 1 /\ \A k \in 1..j - 1 : s[k] = unit[k]
    BY <1>1
  <2> HIDE DEF s
  <2>2. \A k \in 1..Len(s) : k # j => s[k].kind = "header"
    BY <1>1, <2>1
  <2>3. ~ (j \in 1..Len(s))
    BY <1>1, <2>1
  <2>4. FoldLeft(DecodeObu, dec, s) = dec
    BY <1>1, <2>1, <2>2, <2>3, UnitDecoded
  <2> QED
    BY <2>4 DEF Before, s
<1>4. \A k \in DOMAIN unit : k # j => ~ Refused(Before(unit, k), unit[k])
  BY <1>1 DEF Refused
<1> QED
  BY <1>2, <1>3, <1>4

-----------------------------------------------------------------------------
(***************************************************************************)
(* The whole stream.  Both properties need what the other slots hold: a    *)
(* frame that is shown now may be re-shown many units later.               *)
(***************************************************************************)
Synced == (~ rep.failed /\ OneFrameEach /\ NoKeyReshown(rep)) =>
            \A s \in Slots : rep.isKey[s] = (dec[s].ft = "KEY")

Playing == (~ rep.failed /\ OneFrameEach /\ FirstIsKey(rep) /\ NoKeyReshown(rep)
              /\ EveryUnitShows(rep)) =>
             illegal = {} /\ \A s \in Slots : dec[s].ft # "KEY" => dec[s].showable

IInv == /\ units \in Seq(Units) /\ rep \in Rep
        /\ ~ rep.failed => Len(rep.kinds) = Len(units)
        /\ units = << >> => illegal = {}
        /\ Synced /\ Playing

LEMMA InitIInv == Init => IInv
<1> SUFFICES ASSUME Init PROVE IInv
  OBVIOUS
<1>1. rep = Blank /\ units = << >> /\ illegal = {} /\ dec = [s \in Slots |-> Vacant]
  BY DEF Init
<1>2. << >> \in Seq(Units) /\ Len(<< >>) = 0
  OBVIOUS
<1>3. Blank \in Rep /\ Blank.kinds = << >> /\ Blank.isKey = [s \in Slots |-> FALSE]
  <2>1. << >> \in Seq(Kinds) /\ [s \in Slots |-> FALSE] \in [Slots -> BOOLEAN]
    OBVIOUS
  <2> QED
    BY <2>1 DEF Blank, Rep
<1>4. Synced
  BY <1>1, <1>3 DEF Synced, Vacant
<1>5. Playing
  BY <1>1, <1>3 DEF Playing, FirstIsKey
<1> QED
  BY <1>1, <1>2, <1>3, <1>4, <1>5 DEF IInv

(* One frame more.                                                         *)
LEMMA OneMore ==
  ASSUME IInv, NEW unit \in Units, Walk(unit), ~ rep'.failed, OneFrameEach'
  PROVE  /\ OneFrameEach /\ ~ rep.failed
         /\ \E o \in ObuType, k \in Kinds :
              /\ o.kind \in {"show", "coded"}
              /\ rep'.kinds = Append(rep.kinds, k)
              /\ dec' = DecodeObu(dec, o)
              /\ illegal' # illegal => Refused(dec, o)
              /\ o.kind = "show" => rep'.isKey = rep.isKey /\ k = ShowKind(rep, o)
              /\ o.kind = "coded" => rep'.isKey = Tracked(rep, o) /\ k = CodedKind(o)
<1>1. /\ unit \in Seq(ObuType) /\ units \in Seq(Units) /\ rep \in Rep /\ ~ rep.failed
      /\ units' = Append(units, unit) /\ rep' = AnalyzeUnit(rep, unit)
      /\ dec' = FoldLeft(DecodeObu, dec, unit)
  BY InspectAssumption DEF Walk, IInv
<1>2. OneFrameEach /\ Alone(unit)
  <2> DEFINE n == Len(units)
             us == Append(units, unit)
  <2>1. n \in Nat /\ DOMAIN units = 1..n
    BY <1>1, LenProperties
  <2>2. /\ DOMAIN us = 1..n+1 /\ us[n + 1] = unit /\ \A i \in 1..n : us[i] = units[i]
    <3>1. us \in Seq(Units) /\ Len(us) = n + 1
      BY <1>1, AppendProperties
    <3>2. DOMAIN us = 1..n+1
      BY <2>1, <3>1, LenProperties
    <3> QED
      BY <1>1, <3>2, AppendProperties
  <2>3. \A i \in 1..n+1 : \A j, k \in Frames(us[i]) : j = k
    BY <1>1, <2>2 DEF OneFrameEach, Frames
  <2>4. n + 1 \in 1..n+1 /\ \A i \in 1..n : i \in 1..n+1
    BY <2>1
  <2> HIDE DEF us, n
  <2>5. Alone(unit)
    BY <2>2, <2>3, <2>4 DEF Alone
  <2>6. OneFrameEach
    BY <2>1, <2>2, <2>3, <2>4 DEF OneFrameEach
  <2> QED
    BY <2>5, <2>6
<1>3. PICK j \in Frames(unit) :
              /\ unit[j].kind = "show" =>
                   rep'.isKey = rep.isKey /\ rep'.kinds = Append(rep.kinds, ShowKind(rep, unit[j]))
              /\ unit[j].kind = "coded" =>
                   /\ rep'.isKey = Tracked(rep, unit[j])
                   /\ rep'.kinds = Append(rep.kinds, CodedKind(unit[j]))
  BY <1>1, <1>2, UnitWalked, SMTT(30)
<1>4. /\ unit[j] \in ObuType /\ unit[j].kind \in {"show", "coded"}
  <2>1. unit[j] \in ObuType /\ unit[j].kind # "header"
    BY <1>1, ElementOfSeq, LenProperties DEF Frames
  <2> QED
    BY <2>1 DEF ObuType
<1>5. /\ dec' = DecodeObu(dec, unit[j])
      /\ illegal' # illegal => Refused(dec, unit[j])
  <2>1. illegal' # illegal => \E k \in DOMAIN unit : Refused(Before(unit, k), unit[k])
    BY DEF Walk
  <2> QED
    BY <1>1, <1>2, <2>1, UnitRefused
<1>6. (unit[j].kind = "show" => ShowKind(rep, unit[j]) \in Kinds) /\ CodedKind(unit[j]) \in Kinds
  BY <1>1, <1>4 DEF ShowKind, CodedKind, Showable, Kinds, ObuType, Rep
<1> DEFINE k == IF unit[j].kind = "show" THEN ShowKind(rep, unit[j]) ELSE CodedKind(unit[j])
<1>7. /\ k \in Kinds
      /\ rep'.kinds = Append(rep.kinds, k)
      /\ unit[j].kind = "show" => rep'.isKey = rep.isKey /\ k = ShowKind(rep, unit[j])
      /\ unit[j].kind = "coded" => rep'.isKey = Tracked(rep, unit[j]) /\ k = CodedKind(unit[j])
  BY <1>3, <1>4, <1>6
<1> HIDE DEF k
<1> QED
  BY <1>1, <1>2, <1>4, <1>5, <1>7

(* The verdicts on a longer stream were those on the shorter.              *)
LEMMA Longer ==
  ASSUME NEW r \in Rep, NEW w \in Rep, NEW k \in Kinds, w.kinds = Append(r.kinds, k)
  PROVE  /\ NoKeyReshown(w) => NoKeyReshown(r) /\ (k.is = "show" => ~ k.wasKey)
         /\ EveryUnitShows(w) => EveryUnitShows(r) /\ (k.is = "coded" => k.shown)
         /\ FirstIsKey(w) => IF r.kinds = << >> THEN k.is = "coded" /\ k.ft = "KEY" /\ k.shown
                             ELSE FirstIsKey(r)
<1> DEFINE n == Len(r.kinds)
<1>1. r.kinds \in Seq(Kinds) /\ n \in Nat /\ DOMAIN r.kinds = 1..n
  BY LenProperties DEF Rep
<1>2. /\ DOMAIN w.kinds = 1..n+1 /\ w.kinds[n + 1] = k
      /\ \A i \in 1..n : w.kinds[i] = r.kinds[i]
  <2>1. w.kinds \in Seq(Kinds) /\ Len(w.kinds) = n + 1
    BY <1>1, AppendProperties
  <2>2. DOMAIN w.kinds = 1..n+1
    BY <1>1, <2>1, LenProperties
  <2> QED
    BY <1>1, <2>2, AppendProperties
<1> HIDE DEF n
<1>3. n + 1 \in 1..n+1 /\ \A i \in 1..n : i \in 1..n+1
  BY <1>1
<1>4. NoKeyReshown(w) => NoKeyReshown(r) /\ (k.is = "show" => ~ k.wasKey)
  BY <1>1, <1>2, <1>3 DEF NoKeyReshown
<1>5. EveryUnitShows(w) => EveryUnitShows(r) /\ (k.is = "coded" => k.shown)
  BY <1>1, <1>2, <1>3 DEF EveryUnitShows
<1>6. r.kinds = << >> => n + 1 = 1
  BY <1>1 DEF n
<1>7. r.kinds # << >> => 1 \in 1..n
  <2>1. r.kinds # << >> => n # 0
    BY <1>1, EmptySeq DEF n
  <2> QED
    BY <1>1, <2>1
<1>8. FirstIsKey(w) => IF r.kinds = << >> THEN k.is = "coded" /\ k.ft = "KEY" /\ k.shown
                       ELSE FirstIsKey(r)
  BY <1>2, <1>6, <1>7 DEF FirstIsKey
<1> QED
  BY <1>4, <1>5, <1>8

LEMMA WalkKeeps ==
  ASSUME IInv, NEW unit \in Units, Walk(unit)
  PROVE  IInv'
<1>1. /\ unit \in Seq(ObuType) /\ units \in Seq(Units) /\ rep \in Rep /\ ~ rep.failed
      /\ units' = Append(units, unit) /\ rep' = AnalyzeUnit(rep, unit)
      /\ Len(rep.kinds) = Len(units)
  BY InspectAssumption DEF Walk, IInv
<1>2. units' \in Seq(Units) /\ units' # << >> /\ Len(units') = Len(units) + 1
  BY <1>1, AppendProperties
<1>3. rep' \in Rep /\ Len(rep'.kinds) = Len(rep.kinds) + 1
  BY <1>1, UnitType
<1>4. Len(rep'.kinds) = Len(units')
  BY <1>1, <1>2, <1>3
<1>5. ASSUME ~ rep'.failed, OneFrameEach', NoKeyReshown(rep')
      PROVE  /\ \A s \in Slots : rep'.isKey[s] = (dec'[s].ft = "KEY")
             /\ FirstIsKey(rep') /\ EveryUnitShows(rep') =>
                  illegal' = {} /\ \A s \in Slots : dec'[s].ft # "KEY" => dec'[s].showable
  <2>1. OneFrameEach
    BY <1>5, OneMore
  <2>2. PICK o \in ObuType, k \in Kinds :
              /\ o.kind \in {"show", "coded"}
              /\ rep'.kinds = Append(rep.kinds, k)
              /\ dec' = DecodeObu(dec, o)
              /\ illegal' # illegal => Refused(dec, o)
              /\ o.kind = "show" => rep'.isKey = rep.isKey /\ k = ShowKind(rep, o)
              /\ o.kind = "coded" => rep'.isKey = Tracked(rep, o) /\ k = CodedKind(o)
    BY <1>5, OneMore
  <2>3. /\ NoKeyReshown(rep) /\ (k.is = "show" => ~ k.wasKey)
        /\ EveryUnitShows(rep') => EveryUnitShows(rep) /\ (k.is = "coded" => k.shown)
        /\ FirstIsKey(rep') => IF rep.kinds = << >> THEN k.is = "coded" /\ k.ft = "KEY" /\ k.shown
                               ELSE FirstIsKey(rep)
    BY <1>1, <1>3, <1>5, <2>2, Longer
  <2>4. \A s \in Slots : rep.isKey[s] = (dec[s].ft = "KEY")
    BY <1>1, <2>1, <2>3 DEF IInv, Synced
  <2>5. (FirstIsKey(rep) /\ EveryUnitShows(rep)) =>
          illegal = {} /\ \A s \in Slots : dec[s].ft # "KEY" => dec[s].showable
    BY <1>1, <2>1, <2>3 DEF IInv, Playing
  <2>6. rep.kinds = << >> => illegal = {}
    <3>1. rep.kinds = << >> => units = << >>
      BY <1>1, EmptySeq, LenProperties
    <3> QED
      BY <3>1 DEF IInv
  <2>7. o.slot \in Slots /\ o.ft \in FrameTypes
    BY DEF ObuType
  <2>8. CASE o.kind = "show"
    <3>1. k.is = "show" /\ k.wasKey = rep.isKey[o.slot] /\ rep'.isKey = rep.isKey
      BY <2>2, <2>8 DEF ShowKind
    <3>2. dec[o.slot].ft # "KEY"
      BY <2>3, <2>4, <2>7, <3>1
    <3>3. dec' = dec
      BY <2>2, <2>8, <3>2 DEF DecodeObu
    <3>4. dec[o.slot].showable => illegal' = illegal
      BY <2>2 DEF Refused
    <3>5. FirstIsKey(rep') => FirstIsKey(rep)
      BY <2>3, <3>1
    <3> QED
      BY <2>3, <2>4, <2>5, <2>7, <3>1, <3>2, <3>3, <3>4, <3>5
  <2>9. CASE o.kind = "coded"
    <3>1. /\ k.is = "coded" /\ k.ft = o.ft /\ k.shown = o.shown
          /\ rep'.isKey = Tracked(rep, o) /\ illegal' = illegal
      BY <2>2, <2>9 DEF CodedKind, Refused
    <3>2. \A s \in Slots : dec'[s] = IF s \in Refresh(o)
                                     THEN [ft |-> o.ft, showable |-> Showable(o)] ELSE dec[s]
      BY <2>2, <2>9 DEF DecodeObu
    <3>3. o.ft = "KEY" /\ o.shown => \A s \in Slots : s \in Refresh(o)
      BY DEF Refresh
    <3>4. ASSUME NEW s \in Slots PROVE rep'.isKey[s] = (dec'[s].ft = "KEY")
      <4>1. CASE s \in Refresh(o)
        <5>1. dec'[s].ft = o.ft
          BY <3>2, <4>1
        <5>2. rep'.isKey[s] = (o.ft = "KEY")
          BY <3>1, <4>1 DEF Tracked
        <5> QED
          BY <5>1, <5>2
      <4>2. CASE s \notin Refresh(o)
        <5>1. dec'[s] = dec[s]
          BY <3>2, <4>2
        <5>2. rep'.isKey[s] = rep.isKey[s]
          BY <3>1, <3>3, <4>2 DEF Tracked
        <5> QED
          BY <2>4, <5>1, <5>2
      <4> QED
        BY <4>1, <4>2
    <3>5. ASSUME FirstIsKey(rep'), EveryUnitShows(rep')
          PROVE  illegal' = {} /\ \A s \in Slots : dec'[s].ft # "KEY" => dec'[s].showable
      <4>1. o.shown
        BY <2>3, <3>1, <3>5
      <4>2. \A s \in Refresh(o) \cap Slots : dec'[s].ft # "KEY" => dec'[s].showable
        <5>1. o.ft # "KEY" => Showable(o)
          BY <4>1 DEF Showable
        <5>2. \A s \in Refresh(o) \cap Slots :
                dec'[s].ft = o.ft /\ dec'[s].showable = Showable(o)
          BY <3>2
        <5> QED
          BY <5>1, <5>2
      <4>3. CASE rep.kinds = << >>
        BY <2>3, <2>6, <3>1, <3>3, <3>5, <4>2, <4>3
      <4>4. CASE rep.kinds # << >>
        <5>1. illegal = {} /\ \A s \in Slots : dec[s].ft # "KEY" => dec[s].showable
          BY <2>3, <2>5, <3>5, <4>4
        <5> QED
          BY <3>1, <3>2, <4>2, <5>1
      <4> QED
        BY <4>3, <4>4
    <3> QED
      BY <3>4, <3>5
  <2> QED
    BY <2>2, <2>8, <2>9
<1>6. Synced' /\ Playing'
  BY <1>5 DEF Synced, Playing
<1> QED
  BY <1>2, <1>3, <1>4, <1>6 DEF IInv

LEMMA NextIInv == IInv /\ [Next]_vars => IInv'
<1> SUFFICES ASSUME IInv, [Next]_vars PROVE IInv'
  OBVIOUS
<1>1. CASE UNCHANGED vars
  BY <1>1 DEF vars, IInv, Synced, Playing, OneFrameEach, Frames
<1>2. ASSUME NEW unit \in Units, Walk(unit) PROVE IInv'
  BY <1>2, WalkKeeps
<1> QED
  BY <1>1, <1>2 DEF Next

LEMMA Inductive == Spec => []IInv
BY InitIInv, NextIInv, PTL DEF Spec

(* In a stream of one frame per unit, of any length and over any slots,    *)
(* the inspector's idea of which slots hold a keyframe is a decoder's, as  *)
(* long as it saw no keyframe re-shown (inspect.rs 143-232).               *)
THEOREM TrackingIsTrue == Spec => []TrackingTrue
<1>1. IInv => TrackingTrue
  BY DEF IInv, Synced, TrackingTrue, Analyzed
<1> QED
  BY <1>1, Inductive, PTL

(* A stream of one frame per unit that passes the checks shows no frame a  *)
(* decoder must refuse to show: no re-show of a keyframe, of a frame that  *)
(* is not showable or of an empty slot (inspect.rs 243-330).               *)
THEOREM WhatPassesPlays == Spec => []PassedStreamsPlay
<1>1. IInv => PassedStreamsPlay
  BY DEF IInv, Playing, PassedStreamsPlay, Passes, Analyzed
<1> QED
  BY <1>1, Inductive, PTL
===============================================================================
