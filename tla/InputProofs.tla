------------------------------ MODULE InputProofs ------------------------------
(***************************************************************************)
(* What the assembler is given: units and lengths.  Container, for every   *)
(* input however long: what normalizing it keeps.  Lengths, for playlists  *)
(* of any length and words of any width: what the frame counts and the gop *)
(* that a command settles on come to.                                      *)
(***************************************************************************)
EXTENDS Container, Lengths, SequenceTheorems, TLAPS

Skipping  == INSTANCE NatRecursion WITH base <- 0, Step <- Undelimited
Keeping   == INSTANCE NatRecursion WITH base <- 0, Step <- ParsedHeader
Merging   == INSTANCE NatRecursion WITH base <- 0, Step <- MergePacket
Splitting == INSTANCE NatRecursion WITH base <- 0, Step <- SplitObu
Measuring == INSTANCE NatRecursion WITH base <- 0, Step <- GeometryFrom
Stamping  == INSTANCE NatRecursion WITH base <- 0, Step <- CodedStamp

Obus == Seq(ObuType)

(* Everything but a delimiter. *)
Payload == {o \in ObuType : ~ Is("delimiter", o)}

Items == [ts : Nat, obus : Obus, framed : BOOLEAN]

-------------------------------------------------------------------------------
(***************************************************************************)
(* Sequences.                                                              *)
(***************************************************************************)
LEMMA Flat == \A ss : FlattenSeq(ss) = Skipping!FlattenSeq(ss)
BY Zenon DEF FlattenSeq, Skipping!FlattenSeq

LEMMA FlatEmpty == FlattenSeq(<< >>) = << >>
BY Flat, Skipping!FlattenEmpty, Zenon

LEMMA FlatType == ASSUME NEW T, NEW ss \in Seq(Seq(T)) PROVE FlattenSeq(ss) \in Seq(T)
BY Flat, Skipping!FlattenType, Zenon

LEMMA FlatAppend ==
  ASSUME NEW T, NEW ss \in Seq(Seq(T)), NEW x \in Seq(T)
  PROVE  FlattenSeq(Append(ss, x)) = FlattenSeq(ss) \o x
<1>1. Skipping!FlattenSeq(Append(ss, x)) = Skipping!FlattenSeq(ss) \o x
  BY Skipping!FlattenAppend
<1> QED
  BY Flat, <1>1, Zenon

LEMMA Assoc == \A T : Skipping!Concatenates(T)
BY Skipping!Associative

LEMMA Retyped ==
  ASSUME NEW S, NEW T, NEW s \in Seq(S), \A k \in 1..Len(s) : s[k] \in T
  PROVE  s \in Seq(T)
<1>1. Len(s) \in Nat /\ s = [k \in 1..Len(s) |-> s[k]]
  BY LenProperties
<1> QED
  BY <1>1

LEMMA OneElement == ASSUME NEW S, NEW x \in S PROVE <<x>> \in Seq(S)
OBVIOUS

LEMMA ObusAssoc == \A p, q, r \in Obus : (p \o q) \o r = p \o (q \o r)
BY Assoc DEF Skipping!Concatenates, Obus

LEMMA ObusOfEmpty == ObusOf(<< >>) = << >>
BY DEF ObusOf

LEMMA ObusOfType == \A s \in Seq(Items) : ObusOf(s) \in Seq(Obus) /\ Len(ObusOf(s)) = Len(s)
<1> TAKE s \in Seq(Items)
<1>1. Len(s) \in Nat /\ DOMAIN s = 1..Len(s) /\ \A k \in 1..Len(s) : s[k].obus \in Obus
  <2>1. \A k \in 1..Len(s) : s[k] \in Items
    BY ElementOfSeq
  <2>2. \A i \in Items : i.obus \in Obus
    BY DEF Items
  <2> QED
    BY <2>1, <2>2, LenProperties
<1>2. ObusOf(s) = [k \in 1..Len(s) |-> s[k].obus]
  BY <1>1 DEF ObusOf
<1> QED
  BY <1>1, <1>2

LEMMA ObusOfAppend ==
  \A s \in Seq(Items), i \in Items : ObusOf(Append(s, i)) = Append(ObusOf(s), i.obus)
BY DEF ObusOf, Items

LEMMA HasFrameAppend ==
  \A s \in Obus, o \in ObuType : HasFrame(Append(s, o)) <=> HasFrame(s) \/ Is("frame", o)
BY DEF HasFrame, Obus

LEMMA HasFrameConcat ==
  \A s, t \in Obus : HasFrame(s \o t) <=> HasFrame(s) \/ HasFrame(t)
<1> SUFFICES ASSUME NEW s \in Obus, NEW t \in Obus
             PROVE  HasFrame(s \o t) <=> HasFrame(s) \/ HasFrame(t)
  OBVIOUS
<1>1. /\ Len(s) \in Nat /\ Len(t) \in Nat /\ Len(s \o t) = Len(s) + Len(t)
      /\ DOMAIN s = 1..Len(s) /\ DOMAIN t = 1..Len(t) /\ DOMAIN (s \o t) = 1..Len(s) + Len(t)
  BY DEF Obus
<1>2. \A i \in 1..Len(s) + Len(t) :
        (s \o t)[i] = IF i <= Len(s) THEN s[i] ELSE t[i - Len(s)]
  BY ConcatProperties DEF Obus
<1>3. ASSUME HasFrame(s \o t) PROVE HasFrame(s) \/ HasFrame(t)
  <2>1. PICK k \in 1..Len(s) + Len(t) : Is("frame", (s \o t)[k])
    BY <1>1, <1>3 DEF HasFrame
  <2>2. CASE k <= Len(s)
    BY <1>1, <1>2, <2>1, <2>2 DEF HasFrame
  <2>3. CASE ~ (k <= Len(s))
    <3>1. k - Len(s) \in 1..Len(t) /\ Is("frame", t[k - Len(s)])
      BY <1>1, <1>2, <2>1, <2>3
    <3> QED
      BY <1>1, <3>1 DEF HasFrame
  <2> QED
    BY <2>2, <2>3
<1>4. ASSUME HasFrame(s) PROVE HasFrame(s \o t)
  <2>1. PICK k \in 1..Len(s) : Is("frame", s[k])
    BY <1>1, <1>4 DEF HasFrame
  <2>2. k \in 1..Len(s) + Len(t) /\ (s \o t)[k] = s[k]
    BY <1>1, <1>2
  <2> QED
    BY <1>1, <2>1, <2>2 DEF HasFrame
<1>5. ASSUME HasFrame(t) PROVE HasFrame(s \o t)
  <2>1. PICK k \in 1..Len(t) : Is("frame", t[k])
    BY <1>1, <1>5 DEF HasFrame
  <2>2. k + Len(s) \in 1..Len(s) + Len(t) /\ (s \o t)[k + Len(s)] = t[k]
    BY <1>1, <1>2
  <2> QED
    BY <1>1, <2>1, <2>2 DEF HasFrame
<1> QED
  BY <1>3, <1>4, <1>5

-------------------------------------------------------------------------------
(***************************************************************************)
(* Delimiters.                                                             *)
(***************************************************************************)
LEMMA SkipFold == \A b, s : FoldLeft(Undelimited, b, s) = Skipping!FoldLeft(Undelimited, b, s)
BY Zenon DEF FoldLeft, MapThenFoldSet, Max,
   Skipping!FoldLeft, Skipping!MapThenFoldSet, Skipping!Max

LEMMA SkipCollects == Skipping!Collects(ObuType, Payload) /\ Skipping!Collects(ObuType, ObuType)
<1>1. \A o \in ObuType : Undelimited(<< >>, o) \in Seq(Payload) /\ Undelimited(<< >>, o) \in Obus
  <2> TAKE o \in ObuType
  <2>1. CASE Is("delimiter", o)
    BY <2>1 DEF Undelimited, Obus
  <2>2. CASE ~ Is("delimiter", o)
    <3>1. o \in Payload /\ Undelimited(<< >>, o) = <<o>>
      BY <2>2 DEF Undelimited, Payload
    <3>2. <<o>> \in Seq(Payload) /\ <<o>> \in Seq(ObuType)
      BY <3>1, OneElement
    <3> QED
      BY <3>1, <3>2, Zenon DEF Obus
  <2> QED
    BY <2>1, <2>2
<1>2. \A a, o : Undelimited(a, o) = IF Is("delimiter", o) THEN a ELSE Append(a, o)
  BY DEF Undelimited
<1>3. \A a \in Seq(Payload), o \in ObuType : Undelimited(a, o) = a \o Undelimited(<< >>, o)
  <2> TAKE a \in Seq(Payload), o \in ObuType
  <2>1. CASE Is("delimiter", o)
    BY <1>2, <2>1
  <2>2. CASE ~ Is("delimiter", o)
    <3>1. o \in Payload /\ Append(a, o) = a \o <<o>> /\ Append(<< >>, o) = <<o>>
      BY <2>2 DEF Payload
    <3> QED
      BY <1>2, <2>2, <3>1, Zenon
  <2> QED
    BY <2>1, <2>2
<1>4. \A a \in Obus, o \in ObuType : Undelimited(a, o) = a \o Undelimited(<< >>, o)
  <2> TAKE a \in Obus, o \in ObuType
  <2>1. CASE Is("delimiter", o)
    BY <1>2, <2>1 DEF Obus
  <2>2. CASE ~ Is("delimiter", o)
    <3>1. Append(a, o) = a \o <<o>> /\ Append(<< >>, o) = <<o>>
      BY <2>2 DEF Obus
    <3> QED
      BY <1>2, <2>2, <3>1, Zenon
  <2> QED
    BY <2>1, <2>2
<1> QED
  BY <1>1, <1>3, <1>4 DEF Skipping!Collects, Obus

LEMMA SkipType == \A s \in Obus : NoDelimiter(s) \in Seq(Payload) /\ NoDelimiter(s) \in Obus
<1> TAKE s \in Obus
<1>1. << >> \in Seq(Payload) /\ << >> \in Seq(ObuType) /\ s \in Seq(ObuType)
  BY DEF Obus
<1>2. Skipping!FoldLeft(Undelimited, << >>, s) \in Seq(Payload)
  BY <1>1, SkipCollects, Skipping!CollectsFold, Zenon
<1>3. Skipping!FoldLeft(Undelimited, << >>, s) \in Seq(ObuType)
  BY <1>1, SkipCollects, Skipping!CollectsFold, Zenon
<1> QED
  BY <1>2, <1>3, SkipFold, Zenon DEF NoDelimiter, Obus

LEMMA SkipEmpty == NoDelimiter(<< >>) = << >>
BY SkipFold, Skipping!FoldEmpty, Zenon DEF NoDelimiter

LEMMA SkipConcat ==
  \A s, t \in Obus : NoDelimiter(s \o t) = NoDelimiter(s) \o NoDelimiter(t)
<1> TAKE s, t \in Obus
<1>1. s \in Seq(ObuType) /\ t \in Seq(ObuType)
  BY DEF Obus
<1>2. Skipping!FoldLeft(Undelimited, << >>, s \o t)
        = Skipping!FoldLeft(Undelimited, << >>, s) \o Skipping!FoldLeft(Undelimited, << >>, t)
  BY <1>1, SkipCollects, Skipping!CollectsConcat
<1> QED
  BY <1>2, SkipFold, Zenon DEF NoDelimiter

LEMMA SkipAppend ==
  \A s \in Obus, o \in ObuType : NoDelimiter(Append(s, o)) = Undelimited(NoDelimiter(s), o)
<1> TAKE s \in Obus, o \in ObuType
<1>1. s \in Seq(ObuType)
  BY DEF Obus
<1>2. Skipping!FoldLeft(Undelimited, << >>, Append(s, o))
        = Undelimited(Skipping!FoldLeft(Undelimited, << >>, s), o)
  BY <1>1, Skipping!FoldAppend, Zenon
<1> QED
  BY <1>2, SkipFold, Zenon DEF NoDelimiter

LEMMA SkipNone == \A s \in Seq(Payload) : s \in Obus /\ NoDelimiter(s) = s
<1> DEFINE P == {s \in Seq(Payload) : s \in Obus /\ NoDelimiter(s) = s}
<1>1. << >> \in P
  BY SkipEmpty DEF Obus
<1>2. ASSUME NEW s \in P, NEW o \in Payload PROVE Append(s, o) \in P
  <2>1. s \in Seq(Payload) /\ s \in Obus /\ NoDelimiter(s) = s /\ o \in ObuType /\ ~ Is("delimiter", o)
    BY DEF Payload
  <2>2. Append(s, o) \in Seq(Payload) /\ Append(s, o) \in Obus
    BY <2>1 DEF Obus
  <2>3. NoDelimiter(Append(s, o)) = Append(s, o)
    BY <2>1, SkipAppend DEF Undelimited
  <2> QED
    BY <2>2, <2>3
<1>3. P = Seq(Payload)
  <2>1. P \in SUBSET Seq(Payload)
    OBVIOUS
  <2> HIDE DEF P
  <2> QED
    BY <1>1, <1>2, <2>1, Skipping!SeqSetInduction
<1> QED
  BY <1>3

LEMMA SkipTwice == \A s \in Obus : NoDelimiter(NoDelimiter(s)) = NoDelimiter(s)
BY SkipType, SkipNone

LEMMA SkipFrame == \A s \in Obus : HasFrame(NoDelimiter(s)) <=> HasFrame(s)
<1> DEFINE P == {s \in Obus : HasFrame(NoDelimiter(s)) <=> HasFrame(s)}
<1>1. << >> \in P
  BY SkipEmpty DEF Obus
<1>2. ASSUME NEW s \in P, NEW o \in ObuType PROVE Append(s, o) \in P
  <2>1. Append(s, o) \in Obus /\ s \in Obus
    BY DEF Obus
  <2>2. Is("frame", o) => ~ Is("delimiter", o)
    BY DEF Is
  <2>3. NoDelimiter(s) \in Obus
    BY <2>1, SkipType
  <2>4. HasFrame(NoDelimiter(Append(s, o))) <=> HasFrame(NoDelimiter(s)) \/ Is("frame", o)
    <3>1. CASE Is("delimiter", o)
      BY <2>1, <2>2, <3>1, SkipAppend DEF Undelimited
    <3>2. CASE ~ Is("delimiter", o)
      <4>1. NoDelimiter(Append(s, o)) = Append(NoDelimiter(s), o)
        BY <2>1, <3>2, SkipAppend DEF Undelimited
      <4> QED
        BY <2>3, <4>1, HasFrameAppend
    <3> QED
      BY <3>1, <3>2
  <2> QED
    BY <2>1, <2>4, HasFrameAppend
<1>3. P = Obus
  <2>1. P \in SUBSET Seq(ObuType)
    BY DEF Obus
  <2> HIDE DEF P
  <2> QED
    BY <1>1, <1>2, <2>1, Skipping!SeqSetInduction DEF Obus
<1> QED
  BY <1>3


LEMMA NoneInside == \A s \in Seq(Payload) : \A k \in 1..Len(s) : ~ Is("delimiter", s[k])
BY DEF Payload

-------------------------------------------------------------------------------
(***************************************************************************)
(* canonicalize_tu and concat_tu.                                          *)
(***************************************************************************)
LedOnly(o) == \A m \in 2..Len(o) : ~ Is("delimiter", o[m])

(* One OBU, or none, in front of a sequence without delimiters.            *)
LEMMA LedBy ==
  ASSUME NEW x \in ObuType, NEW s \in Seq(Payload)
  PROVE  /\ s \in Obus /\ <<x>> \o s \in Obus /\ LedOnly(s) /\ LedOnly(<<x>> \o s)
<1>1. s \in Obus /\ <<x>> \in Obus
  BY SkipNone DEF Obus
<1>2. <<x>> \o s \in Obus /\ Len(<<x>> \o s) = 1 + Len(s) /\ Len(s) \in Nat
  BY <1>1 DEF Obus
<1>3. \A m \in 2..Len(<<x>> \o s) : m - 1 \in 1..Len(s) /\ (<<x>> \o s)[m] = s[m - 1]
  BY <1>1, <1>2 DEF Obus
<1>4. LedOnly(<<x>> \o s)
  BY <1>3, NoneInside DEF LedOnly
<1>5. LedOnly(s)
  <2>1. \A m \in 2..Len(s) : m \in 1..Len(s)
    BY <1>2
  <2> QED
    BY <2>1, NoneInside DEF LedOnly
<1> QED
  BY <1>1, <1>2, <1>4, <1>5

LEMMA CanonicalIs ==
  \A o \in Obus : /\ Canonical(o) \in Obus
                  /\ LedOnly(Canonical(o))
                  /\ NoDelimiter(Canonical(o)) = NoDelimiter(o)
                  /\ HasFrame(Canonical(o)) <=> HasFrame(o)
                  /\ LedOnly(o) => Canonical(o) = o
<1> SUFFICES ASSUME NEW o \in Obus
             PROVE  /\ Canonical(o) \in Obus
                    /\ LedOnly(Canonical(o))
                    /\ NoDelimiter(Canonical(o)) = NoDelimiter(o)
                    /\ HasFrame(Canonical(o)) <=> HasFrame(o)
                    /\ LedOnly(o) => Canonical(o) = o
  OBVIOUS
<1>1. CASE o = << >>
  BY <1>1 DEF Canonical, LedOnly
<1>2. CASE o # << >>
  <2> DEFINE h == <<Head(o)>>
             t == Tail(o)
             n == NoDelimiter(t)
  <2>1. h \in Obus /\ t \in Obus /\ o = h \o t /\ Head(o) \in ObuType
    BY <1>2 DEF Obus
  <2>2. n \in Seq(Payload) /\ n \in Obus /\ Canonical(o) = h \o n
    BY <1>2, <2>1, SkipType DEF Canonical
  <2>3. Canonical(o) \in Obus /\ LedOnly(Canonical(o))
    BY <2>1, <2>2, LedBy
  <2>4. NoDelimiter(Canonical(o)) = NoDelimiter(o)
    <3>1. NoDelimiter(h \o n) = NoDelimiter(h) \o NoDelimiter(n)
      BY <2>1, <2>2, SkipConcat, Zenon
    <3>2. NoDelimiter(h \o t) = NoDelimiter(h) \o NoDelimiter(t)
      BY <2>1, SkipConcat, Zenon
    <3>3. NoDelimiter(n) = n
      BY <2>2, SkipNone
    <3> QED
      BY <2>1, <2>2, <3>1, <3>2, <3>3, Zenon
  <2>5. HasFrame(Canonical(o)) <=> HasFrame(o)
    BY <2>3, <2>4, SkipFrame
  <2>6. ASSUME LedOnly(o) PROVE Canonical(o) = o
    <3>1. Len(o) \in Nat /\ Len(t) = Len(o) - 1 /\ \A m \in 1..Len(t) : t[m] = o[m + 1]
      BY <1>2 DEF Obus
    <3>2. \A m \in 1..Len(t) : t[m] \in ObuType /\ ~ Is("delimiter", t[m])
      BY <2>1, <2>6, <3>1 DEF LedOnly, Obus
    <3>3. t \in Seq(Payload)
      <4>1. \A m \in 1..Len(t) : t[m] \in Payload
        BY <3>2 DEF Payload
      <4>2. t \in Seq(ObuType)
        BY <2>1 DEF Obus
      <4> HIDE DEF t
      <4> QED
        BY <4>1, <4>2, Retyped
    <3>4. n = t
      BY <3>3, SkipNone, Zenon
    <3> QED
      BY <2>1, <2>2, <3>4, Zenon
  <2> QED
    BY <2>3, <2>4, <2>5, <2>6
<1> QED
  BY <1>1, <1>2

(* concat_tu keeps everything but delimiters, and leaves one at the front. *)
LEMMA ConcatIs ==
  \A f, b \in Obus : /\ Concat(f, b) \in Obus
                     /\ LedOnly(Concat(f, b))
                     /\ NoDelimiter(Concat(f, b)) = NoDelimiter(f) \o NoDelimiter(b)
<1> SUFFICES ASSUME NEW f \in Obus, NEW b \in Obus
             PROVE  /\ Concat(f, b) \in Obus
                    /\ LedOnly(Concat(f, b))
                    /\ NoDelimiter(Concat(f, b)) = NoDelimiter(f) \o NoDelimiter(b)
  BY Zenon
<1> DEFINE both  == f \o b
           leads == {k \in {1, Len(f) + 1} \cap DOMAIN both : Is("delimiter", both[k])}
           x     == both[CHOOSE k \in leads : \A m \in leads : k <= m]
           n     == NoDelimiter(both)
<1>1. both \in Obus /\ n \in Seq(Payload) /\ n \in Obus
  <2>1. both \in Obus
    BY DEF Obus
  <2> QED
    BY <2>1, SkipType
<1>2. n = NoDelimiter(f) \o NoDelimiter(b) /\ NoDelimiter(n) = n
  BY <1>1, SkipConcat, SkipNone, Zenon
<1>3. Concat(f, b) = (IF leads = {} THEN << >> ELSE <<x>>) \o n
  BY DEF Concat
<1>4. CASE leads = {}
  <2>1. Concat(f, b) = n
    BY <1>1, <1>3, <1>4 DEF Obus
  <2>2. LedOnly(n)
    BY <1>1, NoneInside DEF LedOnly
  <2> QED
    BY <1>1, <1>2, <2>1, <2>2
<1>5. CASE leads # {}
  <2>1. Concat(f, b) = <<x>> \o n
    BY <1>3, <1>5, Zenon
  <2>2. \A k \in leads : Is("delimiter", both[k]) /\ both[k] \in ObuType
    BY <1>1 DEF Obus
  <2>3. \E k \in leads : \A m \in leads : k <= m
    <3>1. \A m \in leads : m = 1 \/ m = Len(f) + 1
      OBVIOUS
    <3>2. Len(f) \in Nat
      BY DEF Obus
    <3> HIDE DEF leads
    <3>3. CASE 1 \in leads
      BY <3>1, <3>2, <3>3
    <3>4. CASE 1 \notin leads
      BY <1>5, <3>1, <3>2, <3>4
    <3> QED
      BY <3>3, <3>4
  <2>4. Is("delimiter", x) /\ x \in ObuType
    <3> HIDE DEF leads
    <3> QED
      BY <2>2, <2>3, Zenon
  <2>5. <<x>> \in Obus /\ NoDelimiter(<<x>>) = << >>
    <3>1. << >> \in Obus /\ Append(<< >>, x) = <<x>>
      BY DEF Obus
    <3>2. NoDelimiter(Append(<< >>, x)) = Undelimited(NoDelimiter(<< >>), x)
      BY <2>4, <3>1, SkipAppend, Zenon
    <3> HIDE DEF x
    <3> QED
      BY <2>4, <3>1, <3>2, SkipEmpty DEF Undelimited, Obus
  <2> HIDE DEF x, n
  <2>6. NoDelimiter(<<x>> \o n) = NoDelimiter(<<x>>) \o NoDelimiter(n)
    BY <1>1, <2>5, SkipConcat, Zenon
  <2>7. NoDelimiter(<<x>> \o n) = n
    <3>1. << >> \o n = n
      BY <1>1, ConcatEmptySeq DEF Obus
    <3> QED
      BY <1>2, <2>5, <2>6, <3>1, Zenon
  <2>8. <<x>> \o n \in Obus /\ LedOnly(<<x>> \o n)
    BY <1>1, <2>4, LedBy
  <2> QED
    BY <1>2, <2>1, <2>7, <2>8, Zenon
<1> QED
  BY <1>4, <1>5

LEMMA ConcatFrame ==
  \A f, b \in Obus : HasFrame(Concat(f, b)) <=> HasFrame(f) \/ HasFrame(b)
<1> TAKE f, b \in Obus
<1>1. Concat(f, b) \in Obus /\ NoDelimiter(Concat(f, b)) = NoDelimiter(f) \o NoDelimiter(b)
  BY ConcatIs, Zenon
<1>2. NoDelimiter(f) \in Obus /\ NoDelimiter(b) \in Obus
  BY SkipType
<1>3. HasFrame(Concat(f, b)) <=> HasFrame(NoDelimiter(f) \o NoDelimiter(b))
  BY <1>1, SkipFrame, Zenon
<1> QED
  BY <1>2, <1>3, HasFrameConcat, SkipFrame

-------------------------------------------------------------------------------
(***************************************************************************)
(* merge_frameless_packets.                                                *)
(***************************************************************************)
Accs == [out : Seq(Items), pending : Obus, ts : Nat]

NothingMerged == [out |-> << >>, pending |-> << >>, ts |-> 0]

Merged(ps) == FoldLeft(MergePacket, NothingMerged, ps)

LEMMA MergeFold == \A b, s : FoldLeft(MergePacket, b, s) = Merging!FoldLeft(MergePacket, b, s)
BY Zenon DEF FoldLeft, MapThenFoldSet, Max,
   Merging!FoldLeft, Merging!MapThenFoldSet, Merging!Max

LEMMA MergedSteps ==
  /\ Merged(<< >>) = NothingMerged
  /\ \A s \in Seq(Items), p \in Items : Merged(Append(s, p)) = MergePacket(Merged(s), p)
<1>1. Merged(<< >>) = NothingMerged
  BY MergeFold, Merging!FoldEmpty, Zenon DEF Merged
<1>2. ASSUME NEW s \in Seq(Items), NEW p \in Items
      PROVE  Merged(Append(s, p)) = MergePacket(Merged(s), p)
  <2>1. Merging!FoldLeft(MergePacket, NothingMerged, Append(s, p))
          = MergePacket(Merging!FoldLeft(MergePacket, NothingMerged, s), p)
    BY Merging!FoldAppend, Zenon
  <2> QED
    BY <2>1, MergeFold, Zenon DEF Merged
<1> QED
  BY <1>1, <1>2

LEMMA MergeIs == \A ps : MergeFrameless(ps) = FlushPending(Merged(ps))
BY Zenon DEF MergeFrameless, Merged, NothingMerged

LEMMA ItemIs ==
  \A ts \in Nat, obus \in Obus, framed \in BOOLEAN :
    /\ Item(ts, obus, framed) \in Items
    /\ Item(ts, obus, framed).ts = ts
    /\ Item(ts, obus, framed).obus = obus
    /\ Item(ts, obus, framed).framed = framed
BY DEF Item, Items

(* What one packet does: with a frame it comes out, behind what was held;  *)
(* without one it is held; when it is no OBU sequence it passes through.   *)
ComesOut(acc, p, b) ==
  p.framed /\ HasFrame(p.obus) =>
    b.out = Append(acc.out, Item(p.ts, Concat(acc.pending, p.obus), TRUE)) /\ b.pending = << >>
IsHeld(acc, p, b) ==
  p.framed /\ ~ HasFrame(p.obus) => b.out = acc.out /\ b.pending = acc.pending \o p.obus
Passes(acc, p, b) ==
  ~ p.framed =>
    b.out = Append(acc.out, Item(p.ts, acc.pending \o p.obus, FALSE)) /\ b.pending = << >>

LEMMA MergePacketIs ==
  ASSUME NEW acc \in Accs, NEW p \in Items
  PROVE  /\ MergePacket(acc, p) \in Accs
         /\ ComesOut(acc, p, MergePacket(acc, p))
         /\ IsHeld(acc, p, MergePacket(acc, p))
         /\ Passes(acc, p, MergePacket(acc, p))
<1>1. /\ acc.out \in Seq(Items) /\ acc.pending \in Obus /\ acc.ts \in Nat
      /\ p.ts \in Nat /\ p.obus \in Obus /\ p.framed \in BOOLEAN
  BY DEF Accs, Items
<1>2. Concat(acc.pending, p.obus) \in Obus /\ acc.pending \o p.obus \in Obus /\ << >> \in Obus
  <2>1. Concat(acc.pending, p.obus) \in Obus
    BY <1>1, ConcatIs, Zenon
  <2>2. acc.pending \o p.obus \in Obus /\ << >> \in Obus
    BY <1>1, ConcatProperties, EmptySeq DEF Obus
  <2> QED
    BY <2>1, <2>2
<1>3. /\ Item(p.ts, Concat(acc.pending, p.obus), TRUE) \in Items
      /\ Item(p.ts, acc.pending \o p.obus, FALSE) \in Items
  BY <1>1, <1>2, ItemIs, Zenon
<1> HIDE DEF Obus
<1>4. CASE p.framed /\ HasFrame(p.obus)
  <2> DEFINE i == Item(p.ts, Concat(acc.pending, p.obus), TRUE)
  <2>1. MergePacket(acc, p) = [acc EXCEPT !.out = Append(@, i), !.pending = << >>]
    BY <1>4 DEF MergePacket, MergeFramed
  <2>2. Append(acc.out, i) \in Seq(Items)
    BY <1>1, <1>3, AppendProperties, Zenon
  <2> HIDE DEF i
  <2>3. /\ MergePacket(acc, p) \in Accs
        /\ MergePacket(acc, p).out = Append(acc.out, i) /\ MergePacket(acc, p).pending = << >>
    BY <1>1, <1>2, <2>1, <2>2, Zenon DEF Accs
  <2> QED
    BY <1>4, <2>3 DEF ComesOut, IsHeld, Passes, i
<1>5. CASE p.framed /\ ~ HasFrame(p.obus)
  <2> DEFINE q == acc.pending \o p.obus
  <2>1. MergePacket(acc, p) = [acc EXCEPT !.pending = @ \o p.obus,
                                 !.ts = IF acc.pending = << >> THEN p.ts ELSE @]
    BY <1>5 DEF MergePacket, MergeFramed
  <2>2. q \in Obus
    BY <1>2
  <2>3. MergePacket(acc, p) = [acc EXCEPT !.pending = q,
                                 !.ts = IF acc.pending = << >> THEN p.ts ELSE @]
    BY <2>1 DEF Accs
  <2> HIDE DEF q
  <2>4. /\ MergePacket(acc, p) \in Accs
        /\ MergePacket(acc, p).out = acc.out /\ MergePacket(acc, p).pending = q
    BY <1>1, <2>3, <2>2, Zenon DEF Accs
  <2> QED
    BY <1>5, <2>4, Zenon DEF ComesOut, IsHeld, Passes, q
<1>6. CASE ~ p.framed
  <2> DEFINE i == Item(p.ts, acc.pending \o p.obus, FALSE)
  <2>1. MergePacket(acc, p) = [acc EXCEPT !.out = Append(@, i), !.pending = << >>]
    BY <1>6 DEF MergePacket
  <2>2. Append(acc.out, i) \in Seq(Items)
    BY <1>1, <1>3, AppendProperties, Zenon
  <2> HIDE DEF i
  <2>3. /\ MergePacket(acc, p) \in Accs
        /\ MergePacket(acc, p).out = Append(acc.out, i) /\ MergePacket(acc, p).pending = << >>
    BY <1>1, <1>2, <2>1, <2>2, Zenon DEF Accs
  <2> QED
    BY <1>6, <2>3, Zenon DEF ComesOut, IsHeld, Passes, i
<1> QED
  BY <1>4, <1>5, <1>6

LEMMA MergedType == \A s \in Seq(Items) : Merged(s) \in Accs
<1> DEFINE P == {s \in Seq(Items) : Merged(s) \in Accs}
<1>1. << >> \in P
  <2>1. NothingMerged \in Accs
    BY DEF NothingMerged, Accs, Obus
  <2> QED
    BY <2>1, MergedSteps
<1>2. ASSUME NEW s \in P, NEW p \in Items PROVE Append(s, p) \in P
  BY MergedSteps, MergePacketIs, AppendProperties
<1>3. P = Seq(Items)
  <2>1. P \in SUBSET Seq(Items)
    OBVIOUS
  <2> HIDE DEF P
  <2> QED
    BY <1>1, <1>2, <2>1, Skipping!SeqSetInduction
<1> QED
  BY <1>3

(* The end: what is held stands alone, or joins the last packet.           *)
Joined(last, held) ==
  Item(last.ts, IF last.framed THEN Concat(last.obus, held) ELSE last.obus \o held, last.framed)

LEMMA FlushIs ==
  ASSUME NEW acc \in Accs
  PROVE  /\ acc.pending = << >> => FlushPending(acc) = acc.out
         /\ acc.pending # << >> /\ acc.out = << >> =>
              FlushPending(acc) = <<Item(acc.ts, acc.pending, TRUE)>>
         /\ \A init \in Seq(Items), last \in Items :
              acc.pending # << >> /\ acc.out = Append(init, last) =>
                /\ Joined(last, acc.pending) \in Items
                /\ FlushPending(acc) = Append(init, Joined(last, acc.pending))
<1>1. acc.out \in Seq(Items) /\ acc.pending \in Obus /\ acc.ts \in Nat
  BY DEF Accs
<1>2. acc.pending = << >> => FlushPending(acc) = acc.out
  BY DEF FlushPending
<1>3. acc.pending # << >> /\ acc.out = << >> =>
              FlushPending(acc) = <<Item(acc.ts, acc.pending, TRUE)>>
  BY EmptySeq, Zenon DEF FlushPending
<1>4. ASSUME NEW init \in Seq(Items), NEW last \in Items,
             acc.pending # << >>, acc.out = Append(init, last)
      PROVE  /\ Joined(last, acc.pending) \in Items
             /\ FlushPending(acc) = Append(init, Joined(last, acc.pending))
  <2> DEFINE n == Len(acc.out)
             q == IF last.framed THEN Concat(last.obus, acc.pending) ELSE last.obus \o acc.pending
  <2>1. /\ n = Len(init) + 1 /\ Len(init) \in Nat /\ acc.out[n] = last
        /\ \A k \in 1..Len(init) : acc.out[k] = init[k]
    BY <1>1, <1>4, AppendProperties, LenProperties
  <2>2. last.obus \in Obus /\ last.ts \in Nat /\ last.framed \in BOOLEAN
    BY DEF Items
  <2>3. q \in Obus
    <3>1. last.obus \o acc.pending \in Obus
      BY <1>1, <2>2, ConcatProperties DEF Obus
    <3> QED
      BY <1>1, <2>2, <3>1, ConcatIs, Zenon
  <2>4. Joined(last, acc.pending) = [last EXCEPT !.obus = q]
    <3>1. Joined(last, acc.pending) = [ts |-> last.ts, obus |-> q, framed |-> last.framed]
      BY DEF Joined, Item
    <3>2. last \in [ts : {last.ts}, obus : {last.obus}, framed : {last.framed}]
      BY DEF Items
    <3> HIDE DEF q
    <3>3. [last EXCEPT !.obus = q] = [ts |-> last.ts, obus |-> q, framed |-> last.framed]
      BY <3>2
    <3> QED
      BY <3>1, <3>3
  <2>5. Joined(last, acc.pending) \in Items
    BY <2>2, <2>3, ItemIs DEF Joined
  <2>6. n # 0 /\ FlushPending(acc) = [acc.out EXCEPT ![n] = [last EXCEPT !.obus = q]]
    <3>1. n # 0
      BY <2>1
    <3>2. FlushPending(acc) = [acc.out EXCEPT ![n].obus = IF acc.out[n].framed
                        THEN Concat(@, acc.pending) ELSE @ \o acc.pending]
      BY <1>4, <3>1 DEF FlushPending
    <3>3. [acc.out EXCEPT ![n].obus = IF acc.out[n].framed
                        THEN Concat(@, acc.pending) ELSE @ \o acc.pending]
            = [acc.out EXCEPT ![n] = [last EXCEPT !.obus = q]]
      BY <2>1
    <3> QED
      BY <3>1, <3>2, <3>3
  <2> HIDE DEF q, n
  <2> DEFINE j == Joined(last, acc.pending)
  <2>7. FlushPending(acc) = [acc.out EXCEPT ![n] = j]
    BY <2>4, <2>6
  <2>8. j \in Items
    BY <2>5
  <2> HIDE DEF j
  <2>9. [acc.out EXCEPT ![n] = j] = Append(init, j)
    <3> DEFINE s == [acc.out EXCEPT ![n] = j]
               u == Append(init, j)
    <3>1. n \in 1..Len(acc.out)
      BY <2>1 DEF n
    <3>2. s \in Seq(Items) /\ Len(s) = n /\ \A k \in 1..n : s[k] = IF k = n THEN j ELSE acc.out[k]
      BY <1>1, <2>8, <3>1, ExceptSeq DEF n
    <3>3. /\ u \in Seq(Items) /\ Len(u) = n /\ u[n] = j
          /\ \A k \in 1..Len(init) : u[k] = init[k]
      BY <2>1, <2>8, AppendProperties
    <3>4. \A k \in 1..n : s[k] = u[k]
      <4> TAKE k \in 1..n
      <4>1. CASE k = n
        BY <3>2, <3>3, <4>1
      <4>2. CASE k # n
        <5>1. k \in 1..Len(init)
          BY <2>1, <4>2
        <5> QED
          BY <2>1, <3>2, <3>3, <4>2, <5>1
      <4> QED
        BY <4>1, <4>2, Zenon
    <3> HIDE DEF s, u
    <3>5. s = u
      BY <3>2, <3>3, <3>4, SeqEqual
    <3> QED
      BY <3>5 DEF s, u
  <2> QED
    BY <2>7, <2>8, <2>9 DEF j
<1> QED
  BY <1>2, <1>3, <1>4, Zenon

Framed == {i \in Items : i.framed}

(* An item with at most a leading delimiter, as concat_tu makes it.        *)
Tidy == {i \in Items : i.framed /\ LedOnly(i.obus)}

LEMMA FramedSeq == \A s \in Seq(Framed) : s \in Seq(Items)
BY SeqMonotonic DEF Framed

LEMMA MergedNone == Merged(<< >>).out = << >> /\ Merged(<< >>).pending = << >>
BY MergedSteps DEF NothingMerged

LEMMA NoFrame == ~ HasFrame(<< >>)
BY DEF HasFrame

LEMMA MergedTidy ==
  \A s \in Seq(Framed) : Merged(s).out \in Seq(Tidy) /\ ~ HasFrame(Merged(s).pending)
<1> DEFINE P == {s \in Seq(Framed) : Merged(s).out \in Seq(Tidy) /\ ~ HasFrame(Merged(s).pending)}
<1>1. << >> \in P
  BY MergedNone, NoFrame, EmptySeq, Zenon
<1>2. ASSUME NEW s \in P, NEW p \in Framed PROVE Append(s, p) \in P
  <2> DEFINE a == Merged(s)
             b == Merged(Append(s, p))
  <2>1. s \in Seq(Framed) /\ s \in Seq(Items) /\ p \in Items /\ p.framed
    BY FramedSeq DEF Framed
  <2>2. a \in Accs /\ a.out \in Seq(Tidy) /\ ~ HasFrame(a.pending) /\ b = MergePacket(a, p)
    BY <2>1, MergedType, MergedSteps
  <2> HIDE DEF a, b
  <2>3. a.pending \in Obus /\ p.obus \in Obus /\ p.ts \in Nat
    BY <2>1, <2>2 DEF Accs, Items
  <2>4. ComesOut(a, p, b) /\ IsHeld(a, p, b)
    BY <2>1, <2>2, MergePacketIs
  <2>5. b.out \in Seq(Tidy) /\ ~ HasFrame(b.pending)
    <3>1. CASE HasFrame(p.obus)
      <4> DEFINE i == Item(p.ts, Concat(a.pending, p.obus), TRUE)
      <4>1. Concat(a.pending, p.obus) \in Obus /\ LedOnly(Concat(a.pending, p.obus))
        BY <2>3, ConcatIs
      <4>2. i \in Items /\ i.framed /\ LedOnly(i.obus)
        BY <2>3, <4>1, ItemIs, Zenon
      <4>3. i \in Tidy
        BY <4>2, Zenon DEF Tidy
      <4>4. b.out = Append(a.out, i) /\ b.pending = << >>
        BY <2>1, <2>4, <3>1, Zenon DEF ComesOut
      <4> HIDE DEF i
      <4>5. b.out \in Seq(Tidy)
        BY <2>2, <4>3, <4>4, AppendProperties
      <4> QED
        BY <4>4, <4>5 DEF HasFrame
    <3>2. CASE ~ HasFrame(p.obus)
      BY <2>1, <2>2, <2>3, <2>4, <3>2, HasFrameConcat, Zenon DEF IsHeld
    <3> QED
      BY <3>1, <3>2
  <2>6. Append(s, p) \in Seq(Framed)
    BY <2>1, AppendProperties
  <2> QED
    BY <2>5, <2>6 DEF b
<1>3. P = Seq(Framed)
  <2>1. P \in SUBSET Seq(Framed)
    OBVIOUS
  <2> HIDE DEF P
  <2> QED
    BY <1>1, <1>2, <2>1, Skipping!SeqSetInduction
<1> QED
  BY <1>3

(* The three ends of a merge of framed packets.                            *)
LEMMA FramedFlush ==
  ASSUME NEW s \in Seq(Framed), NEW a, a = Merged(s)
  PROVE  \/ a.pending = << >> /\ MergeFrameless(s) = a.out
         \/ /\ a.out = << >> /\ Item(a.ts, a.pending, TRUE) \in Items
            /\ MergeFrameless(s) = <<Item(a.ts, a.pending, TRUE)>>
         \/ \E init \in Seq(Tidy), last \in Tidy :
              /\ a.out = Append(init, last)
              /\ Item(last.ts, Concat(last.obus, a.pending), TRUE) \in Tidy
              /\ MergeFrameless(s) = Append(init, Item(last.ts, Concat(last.obus, a.pending), TRUE))
<1>1. s \in Seq(Items) /\ a \in Accs /\ a.out \in Seq(Tidy)
  BY FramedSeq, MergedType, MergedTidy
<1>2. a.pending \in Obus /\ a.ts \in Nat
  BY <1>1 DEF Accs
<1>3. MergeFrameless(s) = FlushPending(a)
  BY MergeIs
<1>4. CASE a.pending = << >>
  BY <1>1, <1>3, <1>4, FlushIs, Zenon
<1>5. CASE a.pending # << >> /\ a.out = << >>
  <2>1. Item(a.ts, a.pending, TRUE) \in Items
    BY <1>2, ItemIs, Zenon
  <2> QED
    BY <1>1, <1>3, <1>5, <2>1, FlushIs, Zenon
<1>6. CASE a.pending # << >> /\ a.out # << >>
  <2>1. PICK init \in Seq(Tidy), last \in Tidy : a.out = Append(init, last)
    BY <1>1, <1>6, SequenceEmptyOrAppend
  <2>2. init \in Seq(Items) /\ last \in Items /\ last.framed
    <3>1. last \in Items /\ last.framed
      BY <2>1 DEF Tidy
    <3>2. Tidy \subseteq Items
      BY DEF Tidy
    <3> QED
      BY <2>1, <3>1, <3>2, SeqMonotonic
  <2> DEFINE j == Item(last.ts, Concat(last.obus, a.pending), TRUE)
  <2>3. Joined(last, a.pending) = j
    BY <2>2 DEF Joined, Items
  <2>4. j \in Tidy
    <3>1. last.obus \in Obus /\ last.ts \in Nat
      BY <2>2 DEF Items
    <3>2. Concat(last.obus, a.pending) \in Obus /\ LedOnly(Concat(last.obus, a.pending))
      BY <1>2, <3>1, ConcatIs
    <3>3. j \in Items /\ j.framed /\ LedOnly(j.obus)
      BY <3>1, <3>2, ItemIs, Zenon
    <3> QED
      BY <3>3, Zenon DEF Tidy
  <2>5. FlushPending(a) = Append(init, Joined(last, a.pending))
    BY <1>1, <1>6, <2>1, <2>2, FlushIs, Zenon
  <2> QED
    BY <1>3, <2>1, <2>3, <2>4, <2>5, Zenon
<1> QED
  BY <1>4, <1>5, <1>6, Zenon

LEMMA MergeTidy ==
  \A s \in Seq(Framed) :
    /\ MergeFrameless(s) \in Seq(Items)
    /\ \A k \in 1..Len(MergeFrameless(s)) :
         HasFrame(MergeFrameless(s)[k].obus) => LedOnly(MergeFrameless(s)[k].obus)
<1> SUFFICES ASSUME NEW s \in Seq(Framed), NEW r, r = MergeFrameless(s)
             PROVE  /\ r \in Seq(Items)
                    /\ \A k \in 1..Len(r) : HasFrame(r[k].obus) => LedOnly(r[k].obus)
  OBVIOUS
<1> DEFINE a == Merged(s)
<1>1. a.out \in Seq(Tidy) /\ ~ HasFrame(a.pending) /\ a \in Accs
  BY MergedTidy, MergedType, FramedSeq
<1>2. \A u \in Seq(Tidy) : /\ u \in Seq(Items)
                           /\ \A k \in 1..Len(u) : LedOnly(u[k].obus)
  <2> TAKE u \in Seq(Tidy)
  <2>1. u \in Seq(Items)
    BY SeqMonotonic DEF Tidy
  <2>2. \A k \in 1..Len(u) : u[k] \in Tidy
    BY ElementOfSeq
  <2> QED
    BY <2>1, <2>2 DEF Tidy
<1>3. CASE r \in Seq(Tidy)
  BY <1>2, <1>3
<1>4. CASE Item(a.ts, a.pending, TRUE) \in Items /\ r = <<Item(a.ts, a.pending, TRUE)>>
  <2> DEFINE i == Item(a.ts, a.pending, TRUE)
  <2>1. i.obus = a.pending
    BY DEF Item
  <2> HIDE DEF i
  <2>2. i \in Items /\ r = <<i>>
    BY <1>4, Zenon DEF i
  <2>3. r \in Seq(Items) /\ Len(r) = 1 /\ r[1] = i
    BY <2>2
  <2> QED
    BY <1>1, <2>1, <2>3
<1> HIDE DEF a
<1>5. r \in Seq(Tidy) \/ (Item(a.ts, a.pending, TRUE) \in Items /\ r = <<Item(a.ts, a.pending, TRUE)>>)
  <2>1. \/ a.pending = << >> /\ r = a.out
        \/ /\ a.out = << >> /\ Item(a.ts, a.pending, TRUE) \in Items
           /\ r = <<Item(a.ts, a.pending, TRUE)>>
        \/ \E init \in Seq(Tidy), last \in Tidy :
              /\ a.out = Append(init, last)
              /\ Item(last.ts, Concat(last.obus, a.pending), TRUE) \in Tidy
              /\ r = Append(init, Item(last.ts, Concat(last.obus, a.pending), TRUE))
    BY FramedFlush, Zenon DEF a
  <2>2. ASSUME NEW init \in Seq(Tidy), NEW j \in Tidy PROVE Append(init, j) \in Seq(Tidy)
    BY AppendProperties
  <2> QED
    BY <1>1, <2>1, <2>2, Zenon
<1> QED
  BY <1>3, <1>4, <1>5, Zenon

-------------------------------------------------------------------------------
(* What comes out of a list of items, delimiters aside.                    *)
Output(items) == NoDelimiter(FlattenSeq(ObusOf(items)))

LEMMA OutputIs ==
  /\ Output(<< >>) = << >>
  /\ \A s \in Seq(Items) : Output(s) \in Seq(Payload)
  /\ \A s \in Seq(Items), i \in Items : Output(Append(s, i)) = Output(s) \o NoDelimiter(i.obus)
<1>1. Output(<< >>) = << >>
  BY ObusOfEmpty, FlatEmpty, SkipEmpty DEF Output
<1>2. ASSUME NEW s \in Seq(Items)
      PROVE  ObusOf(s) \in Seq(Seq(ObuType)) /\ FlattenSeq(ObusOf(s)) \in Obus
  <2>1. ObusOf(s) \in Seq(Seq(ObuType))
    BY ObusOfType DEF Obus
  <2> QED
    BY <2>1, FlatType DEF Obus
<1>3. \A s \in Seq(Items) : Output(s) \in Seq(Payload)
  BY <1>2, SkipType DEF Output
<1>4. ASSUME NEW s \in Seq(Items), NEW i \in Items
      PROVE  Output(Append(s, i)) = Output(s) \o NoDelimiter(i.obus)
  <2>1. i.obus \in Obus
    BY DEF Items
  <2>2. ObusOf(Append(s, i)) = Append(ObusOf(s), i.obus)
    BY ObusOfAppend
  <2>3. FlattenSeq(Append(ObusOf(s), i.obus)) = FlattenSeq(ObusOf(s)) \o i.obus
    BY <1>2, <2>1, FlatAppend, Zenon DEF Obus
  <2>4. NoDelimiter(FlattenSeq(ObusOf(s)) \o i.obus)
          = NoDelimiter(FlattenSeq(ObusOf(s))) \o NoDelimiter(i.obus)
    BY <1>2, <2>1, SkipConcat, Zenon
  <2> QED
    BY <2>2, <2>3, <2>4 DEF Output
<1> QED
  BY <1>1, <1>3, <1>4

LEMMA PayloadAssoc == \A p, q, r \in Seq(Payload) : (p \o q) \o r = p \o (q \o r)
BY Assoc DEF Skipping!Concatenates

LEMMA MergedKeeps ==
  \A s \in Seq(Framed) : Output(Merged(s).out) \o NoDelimiter(Merged(s).pending) = Output(s)
<1> DEFINE P == {s \in Seq(Framed) :
                   Output(Merged(s).out) \o NoDelimiter(Merged(s).pending) = Output(s)}
<1>1. << >> \in P
  <2>1. << >> \o << >> = << >> /\ << >> \in Seq(Framed)
    OBVIOUS
  <2> QED
    BY <2>1, MergedNone, OutputIs, SkipEmpty, Zenon
<1>2. ASSUME NEW s \in P, NEW p \in Framed PROVE Append(s, p) \in P
  <2> DEFINE a == Merged(s)
             b == Merged(Append(s, p))
             x == Output(a.out)
             y == NoDelimiter(a.pending)
             z == NoDelimiter(p.obus)
  <2>1. s \in Seq(Framed) /\ s \in Seq(Items) /\ p \in Items /\ p.framed /\ p.obus \in Obus /\ p.ts \in Nat
    BY FramedSeq, Zenon DEF Framed, Items
  <2>2. a \in Accs /\ b = MergePacket(a, p)
    BY <2>1, MergedType, MergedSteps
  <2>3. x \o y = Output(s) /\ Output(Append(s, p)) = Output(s) \o z
    BY <2>1, OutputIs, Zenon
  <2> HIDE DEF a, b
  <2>4. a.pending \in Obus /\ a.out \in Seq(Items)
    BY <2>2 DEF Accs
  <2>5. x \in Seq(Payload) /\ y \in Seq(Payload) /\ z \in Seq(Payload)
    BY <2>1, <2>4, OutputIs, SkipType
  <2>6. (x \o y) \o z = x \o (y \o z) /\ y \o z \in Seq(Payload) /\ x \o (y \o z) \in Seq(Payload)
    <3> HIDE DEF x, y, z
    <3> QED
      BY <2>5, PayloadAssoc, ConcatProperties
  <2>7. ComesOut(a, p, b) /\ IsHeld(a, p, b)
    BY <2>1, <2>2, MergePacketIs
  <2>8. Output(b.out) \o NoDelimiter(b.pending) = x \o (y \o z)
    <3>1. CASE HasFrame(p.obus)
      <4> DEFINE i == Item(p.ts, Concat(a.pending, p.obus), TRUE)
      <4>1. Concat(a.pending, p.obus) \in Obus /\ NoDelimiter(Concat(a.pending, p.obus)) = y \o z
        BY <2>1, <2>4, ConcatIs, Zenon
      <4>2. i \in Items /\ NoDelimiter(i.obus) = y \o z
        BY <2>1, <4>1, ItemIs, Zenon
      <4>3. b.out = Append(a.out, i) /\ b.pending = << >>
        BY <2>1, <2>7, <3>1, Zenon DEF ComesOut
      <4> HIDE DEF i
      <4>4. Output(b.out) = x \o (y \o z)
        BY <2>4, <4>2, <4>3, OutputIs, Zenon
      <4>5. (x \o (y \o z)) \o << >> = x \o (y \o z)
        <5> DEFINE w == x \o (y \o z)
        <5>1. w \in Seq(Payload)
          BY <2>6
        <5> HIDE DEF w
        <5>2. w \o << >> = w
          BY <5>1, ConcatEmptySeq
        <5> QED
          BY <5>2 DEF w
      <4> QED
        BY <4>3, <4>4, <4>5, SkipEmpty, Zenon
    <3>2. CASE ~ HasFrame(p.obus)
      <4>1. b.out = a.out /\ b.pending = a.pending \o p.obus
        BY <2>1, <2>7, <3>2, Zenon DEF IsHeld
      <4>2. NoDelimiter(a.pending \o p.obus) = y \o z
        BY <2>1, <2>4, SkipConcat, Zenon
      <4> QED
        BY <4>1, <4>2
    <3> QED
      BY <3>1, <3>2, Zenon
  <2>9. Append(s, p) \in Seq(Framed)
    BY <2>1, AppendProperties
  <2> QED
    BY <2>3, <2>6, <2>8, <2>9, Zenon DEF b
<1>3. P = Seq(Framed)
  <2>1. P \in SUBSET Seq(Framed)
    OBVIOUS
  <2> HIDE DEF P
  <2> QED
    BY <1>1, <1>2, <2>1, Skipping!SeqSetInduction
<1> QED
  BY <1>3

LEMMA MergeKeeps == \A s \in Seq(Framed) : Output(MergeFrameless(s)) = Output(s)
<1> SUFFICES ASSUME NEW s \in Seq(Framed) PROVE Output(MergeFrameless(s)) = Output(s)
  OBVIOUS
<1> DEFINE a == Merged(s)
           x == Output(a.out)
           y == NoDelimiter(a.pending)
<1>1. a \in Accs /\ a.out \in Seq(Tidy)
  BY FramedSeq, MergedType, MergedTidy
<1>2. a.pending \in Obus /\ a.ts \in Nat /\ a.out \in Seq(Items)
  BY <1>1 DEF Accs
<1>3. x \o y = Output(s)
  BY MergedKeeps
<1>4. x \in Seq(Payload) /\ y \in Seq(Payload)
  BY <1>2, OutputIs, SkipType
<1>5. \/ a.pending = << >> /\ MergeFrameless(s) = a.out
      \/ /\ a.out = << >> /\ Item(a.ts, a.pending, TRUE) \in Items
         /\ MergeFrameless(s) = <<Item(a.ts, a.pending, TRUE)>>
      \/ \E init \in Seq(Tidy), last \in Tidy :
            /\ a.out = Append(init, last)
            /\ Item(last.ts, Concat(last.obus, a.pending), TRUE) \in Tidy
            /\ MergeFrameless(s) = Append(init, Item(last.ts, Concat(last.obus, a.pending), TRUE))
  BY FramedFlush, Zenon
<1> HIDE DEF a
<1>6. CASE a.pending = << >> /\ MergeFrameless(s) = a.out
  <2>1. y = << >>
    BY <1>6, SkipEmpty
  <2> HIDE DEF x, y
  <2>2. x \o y = x
    BY <1>4, <2>1, ConcatEmptySeq
  <2> QED
    BY <1>3, <1>6, <2>2 DEF x
<1>7. CASE /\ a.out = << >> /\ Item(a.ts, a.pending, TRUE) \in Items
           /\ MergeFrameless(s) = <<Item(a.ts, a.pending, TRUE)>>
  <2> DEFINE i == Item(a.ts, a.pending, TRUE)
  <2>1. i \in Items /\ i.obus = a.pending /\ MergeFrameless(s) = <<i>>
    BY <1>2, <1>7, ItemIs, Zenon
  <2> HIDE DEF i
  <2>2. << >> \in Seq(Items) /\ Append(<< >>, i) = <<i>>
    BY <2>1
  <2>3. Output(<<i>>) = Output(<< >>) \o y
    BY <2>1, <2>2, OutputIs, Zenon
  <2> QED
    BY <1>3, <1>7, <2>1, <2>3, OutputIs, Zenon
<1>8. ASSUME NEW init \in Seq(Tidy), NEW last \in Tidy, a.out = Append(init, last),
             Item(last.ts, Concat(last.obus, a.pending), TRUE) \in Tidy,
             MergeFrameless(s) = Append(init, Item(last.ts, Concat(last.obus, a.pending), TRUE))
      PROVE  Output(MergeFrameless(s)) = Output(s)
  <2> DEFINE j == Item(last.ts, Concat(last.obus, a.pending), TRUE)
             w == Output(init)
             z == NoDelimiter(last.obus)
  <2>1. init \in Seq(Items) /\ last \in Items /\ last.obus \in Obus /\ last.ts \in Nat /\ j \in Items
    <3>1. Tidy \subseteq Items
      BY DEF Tidy
    <3>2. init \in Seq(Items) /\ last \in Items /\ j \in Items
      BY <1>8, <3>1, SeqMonotonic, Zenon
    <3> QED
      BY <3>2, Zenon DEF Items
  <2>2. NoDelimiter(j.obus) = z \o y
    <3>1. Concat(last.obus, a.pending) \in Obus
          /\ NoDelimiter(Concat(last.obus, a.pending)) = z \o y
      BY <1>2, <2>1, ConcatIs, Zenon
    <3> QED
      BY <2>1, <3>1, ItemIs, Zenon
  <2> HIDE DEF j
  <2>3. Output(MergeFrameless(s)) = w \o (z \o y)
    BY <1>8, <2>1, <2>2, OutputIs, Zenon DEF j
  <2>4. x = w \o z
    BY <1>8, <2>1, OutputIs
  <2>5. w \in Seq(Payload) /\ z \in Seq(Payload)
    BY <2>1, OutputIs, SkipType
  <2> HIDE DEF w, x, y, z
  <2>6. (w \o z) \o y = w \o (z \o y)
    BY <1>4, <2>5, PayloadAssoc
  <2> QED
    BY <1>3, <2>3, <2>4, <2>6, Zenon
<1> QED
  BY <1>5, <1>6, <1>7, <1>8, Zenon

-------------------------------------------------------------------------------
(***************************************************************************)
(* An IVF file.                                                            *)
(***************************************************************************)
Raw(ps) == [k \in DOMAIN ps |-> Item(k, ps[k].obus, ps[k].framed)]

LEMMA PacketIs == \A p \in Packets : p.obus \in Obus /\ p.framed \in BOOLEAN
BY ContainerAssumption DEF PacketType, Obus

LEMMA RawIs ==
  /\ Raw(<< >>) = << >> /\ IvfItems(<< >>) = << >>
  /\ \A s \in Seq(Packets) : Raw(s) \in Seq(Items) /\ IvfItems(s) \in Seq(Items)
  /\ \A s \in Seq(Packets), p \in Packets :
       LET c == IF p.framed THEN Canonical(p.obus) ELSE p.obus
       IN  /\ Item(Len(s) + 1, p.obus, p.framed) \in Items
           /\ Raw(Append(s, p)) = Append(Raw(s), Item(Len(s) + 1, p.obus, p.framed))
           /\ Item(Len(s) + 1, c, p.framed) \in Items
           /\ IvfItems(Append(s, p)) = Append(IvfItems(s), Item(Len(s) + 1, c, p.framed))
<1>1. Raw(<< >>) = << >> /\ IvfItems(<< >>) = << >>
  BY DEF Raw, IvfItems
<1> DEFINE c(p) == IF p.framed THEN Canonical(p.obus) ELSE p.obus
<1>2. \A p \in Packets : c(p) \in Obus
  BY PacketIs, CanonicalIs
<1>3. \A p \in Packets, k \in Nat : /\ Item(k, p.obus, p.framed) \in Items
                                    /\ Item(k, c(p), p.framed) \in Items
  BY <1>2, PacketIs, ItemIs
<1>4. \A s : /\ Raw(s) = [k \in DOMAIN s |-> Item(k, s[k].obus, s[k].framed)]
             /\ IvfItems(s) = [k \in DOMAIN s |-> Item(k, c(s[k]), s[k].framed)]
  BY DEF Raw, IvfItems
<1> HIDE DEF c
<1>5. ASSUME NEW s \in Seq(Packets)
      PROVE  /\ Raw(s) \in Seq(Items) /\ IvfItems(s) \in Seq(Items)
             /\ Len(Raw(s)) = Len(s) /\ Len(IvfItems(s)) = Len(s)
  <2>1. Len(s) \in Nat /\ DOMAIN s = 1..Len(s) /\ \A k \in 1..Len(s) : k \in Nat /\ s[k] \in Packets
    BY ElementOfSeq, LenProperties
  <2>2. \A k \in 1..Len(s) : /\ Item(k, s[k].obus, s[k].framed) \in Items
                             /\ Item(k, c(s[k]), s[k].framed) \in Items
    BY <1>3, <2>1
  <2> QED
    BY <1>4, <2>1, <2>2
<1>6. ASSUME NEW s \in Seq(Packets), NEW p \in Packets
      PROVE  /\ Item(Len(s) + 1, p.obus, p.framed) \in Items
             /\ Raw(Append(s, p)) = Append(Raw(s), Item(Len(s) + 1, p.obus, p.framed))
             /\ Item(Len(s) + 1, c(p), p.framed) \in Items
             /\ IvfItems(Append(s, p)) = Append(IvfItems(s), Item(Len(s) + 1, c(p), p.framed))
  <2> DEFINE n == Len(s)
             u == Append(s, p)
  <2>1. /\ n \in Nat /\ u \in Seq(Packets) /\ Len(u) = n + 1 /\ u[n + 1] = p
        /\ \A k \in 1..n : u[k] = s[k]
        /\ DOMAIN u = 1..n+1 /\ DOMAIN s = 1..n
    BY AppendProperties, LenProperties
  <2>2. Item(n + 1, p.obus, p.framed) \in Items /\ Item(n + 1, c(p), p.framed) \in Items
    BY <1>3, <2>1
  <2> HIDE DEF n, u
  <2>3. Raw(u) = Append(Raw(s), Item(n + 1, p.obus, p.framed))
    <3> DEFINE x == Raw(s)
               i == Item(n + 1, p.obus, p.framed)
    <3>1. x \in Seq(Items) /\ Len(x) = n /\ i \in Items /\ Raw(u) \in Seq(Items) /\ Len(Raw(u)) = n + 1
      BY <1>5, <2>1, <2>2 DEF n
    <3>2. Raw(u)[n + 1] = i /\ \A k \in 1..n : Raw(u)[k] = x[k]
      BY <1>4, <2>1
    <3> HIDE DEF x, i
    <3> QED
      BY <2>1, <3>1, <3>2 DEF x, i
  <2>4. IvfItems(u) = Append(IvfItems(s), Item(n + 1, c(p), p.framed))
    <3> DEFINE x == IvfItems(s)
               i == Item(n + 1, c(p), p.framed)
    <3>1. /\ x \in Seq(Items) /\ Len(x) = n /\ i \in Items
          /\ IvfItems(u) \in Seq(Items) /\ Len(IvfItems(u)) = n + 1
      BY <1>5, <2>1, <2>2 DEF n
    <3>2. IvfItems(u)[n + 1] = i /\ \A k \in 1..n : IvfItems(u)[k] = x[k]
      BY <1>4, <2>1
    <3> HIDE DEF x, i
    <3> QED
      BY <2>1, <3>1, <3>2 DEF x, i
  <2> QED
    BY <2>2, <2>3, <2>4 DEF n, u
<1> QED
  BY <1>1, <1>5, <1>6 DEF c

FramedPackets == {p \in Packets : p.framed}

LEMMA FramedInput == \A s \in Seq(Packets) : AllFramed(s) => s \in Seq(FramedPackets)
<1> SUFFICES ASSUME NEW s \in Seq(Packets), AllFramed(s) PROVE s \in Seq(FramedPackets)
  OBVIOUS
<1>1. \A k \in 1..Len(s) : s[k] \in FramedPackets
  <2>1. \A k \in 1..Len(s) : s[k] \in Packets /\ k \in DOMAIN s
    BY ElementOfSeq, LenProperties
  <2> QED
    BY <2>1 DEF AllFramed, FramedPackets
<1> QED
  BY <1>1, Retyped

LEMMA StreamIs ==
  /\ Stream(<< >>) = << >>
  /\ \A s \in Seq(Packets) : ObusOf(s) \in Seq(Obus) /\ Stream(s) \in Obus
  /\ \A s \in Seq(Packets), p \in Packets :
       /\ ObusOf(Append(s, p)) = Append(ObusOf(s), p.obus)
       /\ Stream(Append(s, p)) = Stream(s) \o p.obus
<1>1. \A s : Stream(s) = FlattenSeq(ObusOf(s))
  BY DEF Stream, ObusOf
<1>2. Stream(<< >>) = << >>
  BY <1>1, ObusOfEmpty, FlatEmpty
<1>3. ASSUME NEW s \in Seq(Packets)
      PROVE  ObusOf(s) \in Seq(Obus) /\ Len(ObusOf(s)) = Len(s)
  <2>1. Len(s) \in Nat /\ DOMAIN s = 1..Len(s) /\ \A k \in 1..Len(s) : s[k].obus \in Obus
    BY PacketIs, ElementOfSeq, LenProperties
  <2>2. ObusOf(s) = [k \in 1..Len(s) |-> s[k].obus]
    BY <2>1 DEF ObusOf
  <2> QED
    BY <2>1, <2>2
<1>4. ASSUME NEW s \in Seq(Packets), NEW p \in Packets
      PROVE  ObusOf(Append(s, p)) = Append(ObusOf(s), p.obus)
  <2> DEFINE n == Len(s)
             u == Append(s, p)
  <2>1. /\ n \in Nat /\ u \in Seq(Packets) /\ Len(u) = n + 1 /\ u[n + 1] = p
        /\ \A k \in 1..n : u[k] = s[k]
        /\ DOMAIN u = 1..n+1 /\ DOMAIN s = 1..n
    BY AppendProperties, LenProperties
  <2> HIDE DEF n, u
  <2> DEFINE x == ObusOf(s)
             i == p.obus
  <2>2. x \in Seq(Obus) /\ Len(x) = n /\ i \in Obus /\ ObusOf(u) \in Seq(Obus) /\ Len(ObusOf(u)) = n + 1
    BY <1>3, <2>1, PacketIs DEF n
  <2>3. ObusOf(u)[n + 1] = i /\ \A k \in 1..n : ObusOf(u)[k] = x[k]
    BY <2>1 DEF ObusOf
  <2> HIDE DEF x, i, Obus
  <2>4. ObusOf(u) = Append(x, i)
    BY <2>1, <2>2, <2>3
  <2> QED
    BY <2>4 DEF u, x, i
<1>5. \A s \in Seq(Packets) : Stream(s) \in Obus
  <2> TAKE s \in Seq(Packets)
  <2>1. ObusOf(s) \in Seq(Seq(ObuType))
    BY <1>3 DEF Obus
  <2> QED
    BY <1>1, <2>1, FlatType DEF Obus
<1>6. ASSUME NEW s \in Seq(Packets), NEW p \in Packets
      PROVE  Stream(Append(s, p)) = Stream(s) \o p.obus
  <2>1. ObusOf(s) \in Seq(Seq(ObuType)) /\ p.obus \in Seq(ObuType)
    BY <1>3, PacketIs DEF Obus
  <2>2. FlattenSeq(Append(ObusOf(s), p.obus)) = FlattenSeq(ObusOf(s)) \o p.obus
    BY <2>1, FlatAppend, Zenon
  <2> QED
    BY <1>1, <1>4, <2>2, Zenon
<1> QED
  BY <1>2, <1>3, <1>4, <1>5, <1>6

LEMMA IvfFramed ==
  \A s \in Seq(FramedPackets) :
    /\ s \in Seq(Packets)
    /\ IvfItems(s) \in Seq(Framed)
    /\ Output(IvfItems(s)) = NoDelimiter(Stream(s))
<1> DEFINE P == {s \in Seq(FramedPackets) :
                   /\ s \in Seq(Packets) /\ IvfItems(s) \in Seq(Framed)
                   /\ Output(IvfItems(s)) = NoDelimiter(Stream(s))}
<1>1. << >> \in P
  <2>1. << >> \in Seq(FramedPackets) /\ << >> \in Seq(Packets) /\ << >> \in Seq(Framed)
    OBVIOUS
  <2> QED
    BY <2>1, RawIs, StreamIs, OutputIs, SkipEmpty, Zenon
<1>2. ASSUME NEW s \in P, NEW p \in FramedPackets PROVE Append(s, p) \in P
  <2> DEFINE i == Item(Len(s) + 1, Canonical(p.obus), p.framed)
  <2>1. /\ s \in Seq(FramedPackets) /\ s \in Seq(Packets) /\ IvfItems(s) \in Seq(Framed)
        /\ Output(IvfItems(s)) = NoDelimiter(Stream(s))
        /\ p \in Packets /\ p.framed
    BY DEF FramedPackets
  <2>2. p.obus \in Obus /\ Stream(s) \in Obus /\ Stream(Append(s, p)) = Stream(s) \o p.obus
    BY <2>1, PacketIs, StreamIs
  <2>3. i \in Items /\ IvfItems(Append(s, p)) = Append(IvfItems(s), i)
    BY <2>1, RawIs, Zenon
  <2>4. i.framed /\ i.obus = Canonical(p.obus)
    BY <2>1 DEF Item
  <2>5. NoDelimiter(i.obus) = NoDelimiter(p.obus)
    BY <2>2, <2>4, CanonicalIs
  <2> HIDE DEF i
  <2>6. i \in Framed /\ IvfItems(s) \in Seq(Items)
    BY <2>1, <2>3, <2>4, FramedSeq DEF Framed
  <2>7. IvfItems(Append(s, p)) \in Seq(Framed)
    BY <2>1, <2>3, <2>6, AppendProperties
  <2>8. Output(IvfItems(Append(s, p))) = Output(IvfItems(s)) \o NoDelimiter(i.obus)
    BY <2>3, <2>6, OutputIs, Zenon
  <2>9. NoDelimiter(Stream(Append(s, p))) = NoDelimiter(Stream(s)) \o NoDelimiter(p.obus)
    BY <2>2, SkipConcat
  <2>10. Append(s, p) \in Seq(FramedPackets) /\ Append(s, p) \in Seq(Packets)
    BY <2>1, AppendProperties
  <2> QED
    BY <2>1, <2>5, <2>7, <2>8, <2>9, <2>10, Zenon
<1>3. P = Seq(FramedPackets)
  <2>1. P \in SUBSET Seq(FramedPackets)
    OBVIOUS
  <2> HIDE DEF P
  <2> QED
    BY <1>1, <1>2, <2>1, Skipping!SeqSetInduction
<1> QED
  BY <1>3

-------------------------------------------------------------------------------
(***************************************************************************)
(* split_obu_stream.                                                       *)
(***************************************************************************)
Splits == [groups : Seq(Obus), cur : Obus, hasFrame : BOOLEAN]

NothingSplit == [groups |-> << >>, cur |-> << >>, hasFrame |-> FALSE]

Split(obus) == FoldLeft(SplitObu, NothingSplit, obus)

LEMMA SplitFold == \A b, s : FoldLeft(SplitObu, b, s) = Splitting!FoldLeft(SplitObu, b, s)
BY Zenon DEF FoldLeft, MapThenFoldSet, Max,
   Splitting!FoldLeft, Splitting!MapThenFoldSet, Splitting!Max

LEMMA SplitSteps ==
  /\ Split(<< >>) = NothingSplit
  /\ \A s \in Obus, o \in ObuType : Split(Append(s, o)) = SplitObu(Split(s), o)
  /\ \A s, u \in Obus : Split(s \o u) = Splitting!FoldLeft(SplitObu, Split(s), u)
<1>1. Split(<< >>) = NothingSplit
  BY SplitFold, Splitting!FoldEmpty, Zenon DEF Split
<1>2. ASSUME NEW s \in Obus, NEW o \in ObuType
      PROVE  Split(Append(s, o)) = SplitObu(Split(s), o)
  <2>1. s \in Seq(ObuType)
    BY DEF Obus
  <2>2. Splitting!FoldLeft(SplitObu, NothingSplit, Append(s, o))
          = SplitObu(Splitting!FoldLeft(SplitObu, NothingSplit, s), o)
    BY <2>1, Splitting!FoldAppend, Zenon
  <2> QED
    BY <2>2, SplitFold, Zenon DEF Split
<1>3. ASSUME NEW s \in Obus, NEW u \in Obus
      PROVE  Split(s \o u) = Splitting!FoldLeft(SplitObu, Split(s), u)
  <2>1. s \in Seq(ObuType) /\ u \in Seq(ObuType)
    BY DEF Obus
  <2>2. Splitting!FoldLeft(SplitObu, NothingSplit, s \o u)
          = Splitting!FoldLeft(SplitObu, Splitting!FoldLeft(SplitObu, NothingSplit, s), u)
    BY <2>1, Splitting!FoldConcat
  <2> QED
    BY <2>2, SplitFold, Zenon DEF Split
<1> QED
  BY <1>1, <1>2, <1>3, Zenon

(* What one OBU does: it opens a group, or joins the one that is open.     *)
Opens(acc, o) == Is("delimiter", o) \/ (Is("frame", o) /\ acc.hasFrame)

LEMMA SplitObuIs ==
  ASSUME NEW acc \in Splits, NEW o \in ObuType
  PROVE  /\ SplitObu(acc, o) \in Splits
         /\ Cut(acc) \in Seq(Obus)
         /\ Opens(acc, o) =>
              /\ SplitObu(acc, o).groups = Cut(acc) /\ SplitObu(acc, o).cur = <<o>>
              /\ SplitObu(acc, o).hasFrame = Is("frame", o)
         /\ ~ Opens(acc, o) =>
              /\ SplitObu(acc, o).groups = acc.groups
              /\ SplitObu(acc, o).cur = Append(acc.cur, o)
              /\ SplitObu(acc, o).hasFrame = (acc.hasFrame \/ Is("frame", o))
<1>1. acc.groups \in Seq(Obus) /\ acc.cur \in Obus /\ acc.hasFrame \in BOOLEAN
  BY DEF Splits
<1>2. Is("frame", o) \in BOOLEAN
  BY DEF Is
<1>3. <<o>> \in Obus /\ Append(acc.cur, o) \in Obus
  BY <1>1 DEF Obus
<1> HIDE DEF Obus
<1>4. Cut(acc) \in Seq(Obus)
  BY <1>1, AppendProperties DEF Cut
<1>5. CASE Opens(acc, o)
  <2>1. SplitObu(acc, o) = [groups |-> Cut(acc), cur |-> <<o>>, hasFrame |-> Is("frame", o)]
    BY <1>5 DEF SplitObu, Opens
  <2> DEFINE x == <<o>>
  <2>2. x \in Obus /\ SplitObu(acc, o) = [groups |-> Cut(acc), cur |-> x, hasFrame |-> Is("frame", o)]
    BY <1>3, <2>1
  <2> HIDE DEF x
  <2>3. SplitObu(acc, o) \in Splits
    BY <1>2, <1>4, <2>2 DEF Splits
  <2> QED
    BY <1>4, <1>5, <2>2, <2>3 DEF x
<1>6. CASE ~ Opens(acc, o)
  <2> DEFINE x == Append(acc.cur, o)
             h == acc.hasFrame \/ Is("frame", o)
  <2>1. SplitObu(acc, o) = [acc EXCEPT !.cur = Append(@, o), !.hasFrame = @ \/ Is("frame", o)]
    BY <1>6 DEF SplitObu, Opens
  <2>2. x \in Obus /\ h \in BOOLEAN /\ SplitObu(acc, o) = [acc EXCEPT !.cur = x, !.hasFrame = h]
    BY <1>2, <1>3, <2>1 DEF Splits
  <2> HIDE DEF x, h
  <2>3. /\ SplitObu(acc, o) \in Splits /\ SplitObu(acc, o).groups = acc.groups
        /\ SplitObu(acc, o).cur = x /\ SplitObu(acc, o).hasFrame = h
    BY <1>1, <2>2, Zenon DEF Splits
  <2> QED
    BY <1>4, <1>6, <2>3 DEF x, h
<1> QED
  BY <1>5, <1>6

LEMMA SplitType == \A s \in Obus : Split(s) \in Splits
<1> DEFINE P == {s \in Obus : Split(s) \in Splits}
<1>1. << >> \in P
  <2>1. NothingSplit \in Splits /\ << >> \in Obus
    BY DEF NothingSplit, Splits, Obus
  <2> QED
    BY <2>1, SplitSteps
<1>2. ASSUME NEW s \in P, NEW o \in ObuType PROVE Append(s, o) \in P
  <2>1. Append(s, o) \in Obus
    BY DEF Obus
  <2> QED
    BY <2>1, SplitSteps, SplitObuIs
<1>3. P = Obus
  <2>1. P \in SUBSET Seq(ObuType)
    BY DEF Obus
  <2> HIDE DEF P
  <2> QED
    BY <1>1, <1>2, <2>1, Skipping!SeqSetInduction DEF Obus
<1> QED
  BY <1>3

(* The groups are the stream, cut up.                                      *)
LEMMA SplitKeeps == \A s \in Obus : FlattenSeq(Cut(Split(s))) = s
<1> DEFINE P == {s \in Obus : FlattenSeq(Split(s).groups) \o Split(s).cur = s}
<1>0. ASSUME NEW acc \in Splits
      PROVE  FlattenSeq(Cut(acc)) = FlattenSeq(acc.groups) \o acc.cur
  <2>1. acc.groups \in Seq(Seq(ObuType)) /\ acc.cur \in Seq(ObuType)
    BY DEF Splits, Obus
  <2>2. FlattenSeq(acc.groups) \in Seq(ObuType)
    BY <2>1, FlatType
  <2>3. CASE acc.cur = << >>
    BY <2>2, <2>3, ConcatEmptySeq DEF Cut
  <2>4. CASE acc.cur # << >>
    BY <2>1, <2>4, FlatAppend, Zenon DEF Cut
  <2> QED
    BY <2>3, <2>4, Zenon
<1>1. << >> \in P
  <2>1. << >> \in Obus /\ << >> \o << >> = << >>
    BY DEF Obus
  <2>2. Split(<< >>).groups = << >> /\ Split(<< >>).cur = << >>
    BY SplitSteps DEF NothingSplit
  <2> QED
    BY <2>1, <2>2, FlatEmpty, Zenon
<1>2. ASSUME NEW s \in P, NEW o \in ObuType PROVE Append(s, o) \in P
  <2> DEFINE a == Split(s)
             b == Split(Append(s, o))
  <2>1. Append(s, o) \in Obus /\ s \in Obus /\ Append(s, o) = s \o <<o>> /\ <<o>> \in Obus
    BY OneElement, AppendIsConcat, AppendProperties, Zenon DEF Obus
  <2>2. a \in Splits /\ b = SplitObu(a, o) /\ FlattenSeq(a.groups) \o a.cur = s
    BY <2>1, SplitSteps, SplitType, Zenon
  <2> HIDE DEF a, b
  <2>3. a.groups \in Seq(Seq(ObuType)) /\ a.cur \in Obus
    BY <2>2 DEF Splits, Obus
  <2>4. CASE Opens(a, o)
    <3>1. b.groups = Cut(a) /\ b.cur = <<o>>
      BY <2>2, <2>4, SplitObuIs
    <3>2. FlattenSeq(b.groups) = s
      BY <1>0, <2>2, <3>1, Zenon
    <3> QED
      BY <2>1, <3>1, <3>2, Zenon DEF b
  <2>5. CASE ~ Opens(a, o)
    <3>1. b.groups = a.groups /\ b.cur = Append(a.cur, o)
      BY <2>2, <2>5, SplitObuIs
    <3> DEFINE f == FlattenSeq(a.groups)
               c == a.cur
               x == <<o>>
    <3>2. f \in Obus /\ c \in Obus /\ x \in Obus /\ Append(a.cur, o) = c \o x /\ f \o c = s
      BY <2>1, <2>2, <2>3, FlatType, AppendIsConcat, Zenon DEF Obus
    <3>3. FlattenSeq(b.groups) \o b.cur = f \o (c \o x)
      BY <3>1, <3>2
    <3> HIDE DEF f, c, x
    <3>4. (f \o c) \o x = f \o (c \o x)
      BY <3>2, ObusAssoc, Zenon
    <3> QED
      BY <2>1, <3>2, <3>3, <3>4, Zenon DEF b, x
  <2> QED
    BY <2>4, <2>5, Zenon
<1>3. P = Obus
  <2>1. P \in SUBSET Seq(ObuType)
    BY Zenon DEF Obus
  <2> HIDE DEF P
  <2> QED
    BY <1>1, <1>2, <2>1, Skipping!SeqSetInduction DEF Obus
<1> QED
  BY <1>0, <1>3, SplitType, Zenon

GroupItems(g) == [k \in DOMAIN g |-> Item(k, g[k], TRUE)]

LEMMA SplitStreamIs == \A s : SplitStream(s) = MergeFrameless(GroupItems(Cut(Split(s))))
BY Zenon DEF SplitStream, GroupItems, Split, NothingSplit

LEMMA GroupItemsAre ==
  \A g \in Seq(Obus) : GroupItems(g) \in Seq(Framed) /\ ObusOf(GroupItems(g)) = g
<1> SUFFICES ASSUME NEW g \in Seq(Obus)
             PROVE  GroupItems(g) \in Seq(Framed) /\ ObusOf(GroupItems(g)) = g
  OBVIOUS
<1>1. Len(g) \in Nat /\ DOMAIN g = 1..Len(g) /\ \A k \in 1..Len(g) : g[k] \in Obus /\ k \in Nat
  BY ElementOfSeq, LenProperties
<1>2. \A k \in 1..Len(g) : Item(k, g[k], TRUE) \in Framed /\ Item(k, g[k], TRUE).obus = g[k]
  BY <1>1, ItemIs, Zenon DEF Framed
<1>3. GroupItems(g) = [k \in 1..Len(g) |-> Item(k, g[k], TRUE)]
  BY <1>1 DEF GroupItems
<1>4. GroupItems(g) \in Seq(Framed) /\ DOMAIN GroupItems(g) = 1..Len(g)
  <2> DEFINE f == GroupItems(g)
             n == Len(g)
  <2>1. n \in Nat /\ f = [k \in 1..n |-> f[k]] /\ \A k \in 1..n : f[k] \in Framed
    BY <1>1, <1>2, <1>3, Zenon
  <2> HIDE DEF f, n
  <2> QED
    BY <2>1 DEF f, n
<1>5. ObusOf(GroupItems(g)) = [k \in 1..Len(g) |-> g[k]]
  BY <1>2, <1>3, <1>4, Zenon DEF ObusOf
<1> HIDE DEF Obus
<1>6. g = [k \in 1..Len(g) |-> g[k]]
  BY <1>1, LenProperties
<1> QED
  BY <1>4, <1>5, <1>6

LEMMA SplitStreamKeeps ==
  \A s \in Obus : /\ SplitStream(s) \in Seq(Items)
                  /\ Output(SplitStream(s)) = NoDelimiter(s)
<1> SUFFICES ASSUME NEW s \in Obus
             PROVE  SplitStream(s) \in Seq(Items) /\ Output(SplitStream(s)) = NoDelimiter(s)
  OBVIOUS
<1> DEFINE g == Cut(Split(s))
<1>1. g \in Seq(Obus)
  <2>1. Split(s) \in Splits
    BY SplitType
  <2>2. Split(s).groups \in Seq(Obus) /\ Split(s).cur \in Obus
    BY <2>1 DEF Splits
  <2> HIDE DEF Obus
  <2> QED
    BY <2>2, AppendProperties DEF Cut
<1>2. FlattenSeq(g) = s
  BY SplitKeeps
<1> HIDE DEF g
<1>3. GroupItems(g) \in Seq(Framed) /\ ObusOf(GroupItems(g)) = g
  BY <1>1, GroupItemsAre
<1>4. Output(GroupItems(g)) = NoDelimiter(s)
  BY <1>2, <1>3 DEF Output
<1>5. MergeFrameless(GroupItems(g)) \in Seq(Items)
      /\ Output(MergeFrameless(GroupItems(g))) = Output(GroupItems(g))
  BY <1>3, MergeTidy, MergeKeeps
<1> QED
  BY <1>4, <1>5, SplitStreamIs DEF g

-------------------------------------------------------------------------------
(***************************************************************************)
(* What an input is: any sequence of packets.                              *)
(***************************************************************************)
PacketsWritten == packets \in Seq(Packets)

THEOREM Writing == ReadSpec => []PacketsWritten
<1>1. ReadInit => PacketsWritten
  BY EmptySeq DEF ReadInit, PacketsWritten
<1>2. PacketsWritten /\ [ReadNext]_packets => PacketsWritten'
  <2> SUFFICES ASSUME PacketsWritten, [ReadNext]_packets PROVE PacketsWritten'
    OBVIOUS
  <2>1. CASE Write
    BY <2>1, AppendProperties DEF PacketsWritten, Write
  <2>2. CASE UNCHANGED packets
    BY <2>2 DEF PacketsWritten
  <2> QED
    BY <2>1, <2>2 DEF ReadNext
<1> QED
  BY <1>1, <1>2, PTL DEF ReadSpec

LEMMA KeptForAll == PacketsWritten => ObusKept
<1> SUFFICES ASSUME PacketsWritten, AllFramed(packets)
             PROVE  \A tus \in {ObusOf(ReadIvf(packets)), ObusOf(SplitStream(Stream(packets)))} :
                      NoDelimiter(FlattenSeq(tus)) = NoDelimiter(Stream(packets))
  BY DEF ObusKept
<1>1. packets \in Seq(FramedPackets) /\ packets \in Seq(Packets)
  BY FramedInput DEF PacketsWritten
<1>2. NoDelimiter(FlattenSeq(ObusOf(ReadIvf(packets)))) = NoDelimiter(Stream(packets))
  <2>1. Output(MergeFrameless(IvfItems(packets))) = NoDelimiter(Stream(packets))
    BY <1>1, IvfFramed, MergeKeeps
  <2> QED
    BY <2>1 DEF Output, ReadIvf
<1>3. NoDelimiter(FlattenSeq(ObusOf(SplitStream(Stream(packets))))) = NoDelimiter(Stream(packets))
  BY <1>1, StreamIs, SplitStreamKeeps DEF Output
<1> QED
  BY <1>2, <1>3

(* Normalizing an input loses, adds and reorders nothing but delimiters,   *)
(* in an IVF file and in a section-5 stream (merge_frameless_packets,      *)
(* split_obu_stream).                                                      *)
THEOREM NothingLost == ReadSpec => []ObusKept
BY Writing, KeptForAll, PTL

(* Finish's units are canonical.                                           *)
LEMMA FinishTidy ==
  \A gs \in Seq(Obus) : \A k \in DOMAIN Finish(gs).tus :
     \A m \in 2..Len(Finish(gs).tus[k]) : ~ Is("delimiter", Finish(gs).tus[k][m])
<1> SUFFICES ASSUME NEW gs \in Seq(Obus), NEW k \in DOMAIN Finish(gs).tus
             PROVE  LedOnly(Finish(gs).tus[k])
  BY DEF LedOnly
<1>1. Len(gs) \in Nat /\ DOMAIN gs = 1..Len(gs) /\ \A j \in 1..Len(gs) : gs[j] \in Obus
  BY ElementOfSeq, LenProperties
<1>2. \/ Finish(gs).tus = << >>
      \/ Finish(gs).tus = [j \in DOMAIN gs |-> Canonical(gs[j])]
  BY DEF Finish, Refused
<1>3. Finish(gs).tus = [j \in DOMAIN gs |-> Canonical(gs[j])]
  BY <1>2
<1>4. Finish(gs).tus[k] = Canonical(gs[k]) /\ gs[k] \in Obus
  BY <1>1, <1>3
<1> QED
  BY <1>4, CanonicalIs

LEMMA DelimitersForAll == PacketsWritten => OneDelimiter
<1> SUFFICES ASSUME PacketsWritten, AllFramed(packets), NEW tus \in Outputs, NEW k \in DOMAIN tus,
                    HasFrame(tus[k]), NEW m \in 2..Len(tus[k])
             PROVE  ~ Is("delimiter", tus[k][m])
  BY DEF OneDelimiter
<1>1. packets \in Seq(FramedPackets) /\ packets \in Seq(Packets)
  BY FramedInput DEF PacketsWritten
<1>2. CASE tus = ObusOf(ReadIvf(packets))
  <2> DEFINE r == MergeFrameless(IvfItems(packets))
  <2>1. r \in Seq(Items) /\ \A j \in 1..Len(r) : HasFrame(r[j].obus) => LedOnly(r[j].obus)
    BY <1>1, IvfFramed, MergeTidy
  <2> HIDE DEF r
  <2>2. tus = [j \in DOMAIN r |-> r[j].obus] /\ DOMAIN r = 1..Len(r)
    BY <1>2, <2>1, LenProperties DEF ObusOf, ReadIvf, r
  <2>3. k \in 1..Len(r) /\ tus[k] = r[k].obus
    BY <2>2
  <2> QED
    BY <2>1, <2>3 DEF LedOnly
<1>3. CASE tus = ReadObu(packets).tus
  <2> DEFINE gs == ObusOf(SplitStream(Stream(packets)))
  <2>1. gs \in Seq(Obus)
    BY <1>1, StreamIs, SplitStreamKeeps, ObusOfType
  <2> HIDE DEF gs
  <2>2. tus = Finish(gs).tus
    BY <1>3 DEF ReadObu, gs
  <2> QED
    BY <2>1, <2>2, FinishTidy
<1>4. CASE tus = ReadAnnexB(packets).tus
  <2> DEFINE gs == ObusOf(packets)
  <2>1. gs \in Seq(Obus)
    BY <1>1, StreamIs
  <2> HIDE DEF gs
  <2>2. tus = Finish(gs).tus
    BY <1>4 DEF ReadAnnexB, gs
  <2> QED
    BY <2>1, <2>2, FinishTidy
<1> QED
  BY <1>2, <1>3, <1>4 DEF Outputs

(* Whatever the serialization and however packets merge, a unit with a     *)
(* frame carries a delimiter first or not at all (canonicalize_tu,         *)
(* concat_tu, is_stray_td).                                                *)
THEOREM DelimiterLeads == ReadSpec => []OneDelimiter
BY Writing, DelimitersForAll, PTL

-------------------------------------------------------------------------------
(***************************************************************************)
(* Timestamps.                                                             *)
(***************************************************************************)
StampsOf(items) == [k \in DOMAIN items |-> items[k].ts]

Stamps(items) == FoldLeft(CodedStamp, << >>, items)

LEMMA StampFold == \A b, s : FoldLeft(CodedStamp, b, s) = Stamping!FoldLeft(CodedStamp, b, s)
BY Zenon DEF FoldLeft, MapThenFoldSet, Max,
   Stamping!FoldLeft, Stamping!MapThenFoldSet, Stamping!Max

LEMMA StampsSteps ==
  /\ Stamps(<< >>) = << >>
  /\ \A s \in Seq(Items), i \in Items : Stamps(Append(s, i)) = CodedStamp(Stamps(s), i)
<1>1. Stamps(<< >>) = << >>
  BY StampFold, Stamping!FoldEmpty, Zenon DEF Stamps
<1>2. ASSUME NEW s \in Seq(Items), NEW i \in Items
      PROVE  Stamps(Append(s, i)) = CodedStamp(Stamps(s), i)
  <2>1. Stamping!FoldLeft(CodedStamp, << >>, Append(s, i))
          = CodedStamp(Stamping!FoldLeft(CodedStamp, << >>, s), i)
    BY Stamping!FoldAppend, Zenon
  <2> QED
    BY <2>1, StampFold, Zenon DEF Stamps
<1> QED
  BY <1>1, <1>2

LEMMA StampsOfIs ==
  /\ StampsOf(<< >>) = << >>
  /\ \A s \in Seq(Items) : StampsOf(s) \in Seq(Nat) /\ Len(StampsOf(s)) = Len(s)
  /\ \A s \in Seq(Items), i \in Items : StampsOf(Append(s, i)) = Append(StampsOf(s), i.ts)
<1>1. StampsOf(<< >>) = << >>
  BY DEF StampsOf
<1>2. ASSUME NEW s \in Seq(Items) PROVE StampsOf(s) \in Seq(Nat) /\ Len(StampsOf(s)) = Len(s)
  <2>1. Len(s) \in Nat /\ DOMAIN s = 1..Len(s) /\ \A k \in 1..Len(s) : s[k] \in Items
    BY ElementOfSeq, LenProperties
  <2>2. \A i \in Items : i.ts \in Nat
    BY DEF Items
  <2>3. StampsOf(s) = [k \in 1..Len(s) |-> s[k].ts]
    BY <2>1 DEF StampsOf
  <2> QED
    BY <2>1, <2>2, <2>3
<1>3. ASSUME NEW s \in Seq(Items), NEW i \in Items
      PROVE  StampsOf(Append(s, i)) = Append(StampsOf(s), i.ts)
  <2> DEFINE n == Len(s)
             u == Append(s, i)
             x == StampsOf(s)
             y == i.ts
  <2>1. /\ n \in Nat /\ u \in Seq(Items) /\ Len(u) = n + 1 /\ u[n + 1] = i
        /\ \A k \in 1..n : u[k] = s[k]
        /\ DOMAIN u = 1..n+1 /\ DOMAIN s = 1..n
    BY AppendProperties, LenProperties
  <2>2. y \in Nat
    BY DEF Items
  <2> HIDE DEF n, u
  <2>3. x \in Seq(Nat) /\ Len(x) = n /\ StampsOf(u) \in Seq(Nat) /\ Len(StampsOf(u)) = n + 1
    BY <1>2, <2>1 DEF n
  <2>4. StampsOf(u)[n + 1] = y /\ \A k \in 1..n : StampsOf(u)[k] = x[k]
    BY <2>1 DEF StampsOf
  <2> HIDE DEF x, y
  <2>5. StampsOf(u) = Append(x, y)
    BY <2>1, <2>2, <2>3, <2>4
  <2> QED
    BY <2>5 DEF u, x, y
<1> QED
  BY <1>1, <1>2, <1>3

LEMMA MergedStamps == \A s \in Seq(Packets) : StampsOf(Merged(IvfItems(s)).out) = Stamps(Raw(s))
<1> DEFINE P == {s \in Seq(Packets) : StampsOf(Merged(IvfItems(s)).out) = Stamps(Raw(s))}
<1>1. << >> \in P
  BY RawIs, MergedNone, StampsOfIs, StampsSteps, EmptySeq
<1>2. ASSUME NEW s \in P, NEW p \in Packets PROVE Append(s, p) \in P
  <2> DEFINE n == Len(s) + 1
             c == IF p.framed THEN Canonical(p.obus) ELSE p.obus
             i == Item(n, c, p.framed)
             r == Item(n, p.obus, p.framed)
             a == Merged(IvfItems(s))
             u == Append(s, p)
             b == Merged(IvfItems(u))
  <2>1. s \in Seq(Packets) /\ n \in Nat /\ p.obus \in Obus /\ p.framed \in BOOLEAN
        /\ u \in Seq(Packets)
    BY PacketIs, LenProperties, AppendProperties
  <2>2. c \in Obus /\ (p.framed => (HasFrame(c) <=> HasFrame(p.obus)))
    BY <2>1, CanonicalIs
  <2>3. /\ IvfItems(s) \in Seq(Items) /\ Raw(s) \in Seq(Items)
        /\ i \in Items /\ IvfItems(u) = Append(IvfItems(s), i)
        /\ r \in Items /\ Raw(u) = Append(Raw(s), r)
    BY <2>1, RawIs
  <2>4. /\ i.ts = n /\ i.obus = c /\ i.framed = p.framed
        /\ r.ts = n /\ r.obus = p.obus /\ r.framed = p.framed
    BY DEF Item
  <2> HIDE DEF n, i, r, c
  <2>5. a \in Accs /\ b = MergePacket(a, i) /\ StampsOf(a.out) = Stamps(Raw(s))
    BY <2>3, MergedType, MergedSteps
  <2>6. Stamps(Raw(u)) = CodedStamp(Stamps(Raw(s)), r)
    BY <2>3, StampsSteps
  <2> HIDE DEF a, b
  <2>7. a.out \in Seq(Items) /\ a.pending \in Obus
    BY <2>5 DEF Accs
  <2>8. ComesOut(a, i, b) /\ IsHeld(a, i, b) /\ Passes(a, i, b)
    BY <2>3, <2>5, MergePacketIs
  <2>9. StampsOf(b.out) = Stamps(Raw(u))
    <3>1. CASE ~ p.framed
      <4> DEFINE j == Item(i.ts, a.pending \o i.obus, FALSE)
      <4>1. b.out = Append(a.out, j)
        BY <2>4, <2>8, <3>1, Zenon DEF Passes
      <4>2. a.pending \o i.obus \in Obus
        BY <2>2, <2>4, <2>7, ConcatProperties DEF Obus
      <4>3. j \in Items /\ j.ts = n
        <5>1. i.ts \in Nat /\ i.ts = n /\ FALSE \in BOOLEAN
          BY <2>1, <2>4, Zenon
        <5>2. j \in Items /\ j.ts = i.ts
          BY <4>2, <5>1, ItemIs, Zenon
        <5> QED
          BY <5>1, <5>2
      <4> HIDE DEF j
      <4>4. StampsOf(b.out) = Append(StampsOf(a.out), n)
        BY <2>7, <4>1, <4>3, StampsOfIs
      <4>5. Stamps(Raw(u)) = Append(Stamps(Raw(s)), n)
        BY <2>4, <2>6, <3>1 DEF CodedStamp
      <4> QED
        BY <2>5, <4>4, <4>5
    <3>2. CASE p.framed /\ HasFrame(p.obus)
      <4> DEFINE j == Item(i.ts, Concat(a.pending, i.obus), TRUE)
      <4>1. b.out = Append(a.out, j)
        BY <2>2, <2>4, <2>8, <3>2, Zenon DEF ComesOut
      <4>2. Concat(a.pending, i.obus) \in Obus
        BY <2>2, <2>4, <2>7, ConcatIs
      <4>3. j \in Items /\ j.ts = n
        <5>1. i.ts \in Nat /\ i.ts = n /\ TRUE \in BOOLEAN
          BY <2>1, <2>4, Zenon
        <5>2. j \in Items /\ j.ts = i.ts
          BY <4>2, <5>1, ItemIs, Zenon
        <5> QED
          BY <5>1, <5>2
      <4> HIDE DEF j
      <4>4. StampsOf(b.out) = Append(StampsOf(a.out), n)
        BY <2>7, <4>1, <4>3, StampsOfIs
      <4>5. Stamps(Raw(u)) = Append(Stamps(Raw(s)), n)
        BY <2>4, <2>6, <3>2 DEF CodedStamp
      <4> QED
        BY <2>5, <4>4, <4>5
    <3>3. CASE p.framed /\ ~ HasFrame(p.obus)
      <4>1. b.out = a.out
        BY <2>2, <2>4, <2>8, <3>3 DEF IsHeld
      <4>2. Stamps(Raw(u)) = Stamps(Raw(s))
        BY <2>4, <2>6, <3>3 DEF CodedStamp
      <4> QED
        BY <2>5, <4>1, <4>2
    <3> QED
      BY <2>1, <3>1, <3>2, <3>3
  <2> QED
    BY <2>1, <2>9 DEF b
<1>3. P = Seq(Packets)
  <2>1. P \in SUBSET Seq(Packets)
    OBVIOUS
  <2> HIDE DEF P
  <2> QED
    BY <1>1, <1>2, <2>1, Skipping!SeqSetInduction
<1> QED
  BY <1>3

LEMMA FlushStamps ==
  ASSUME NEW acc \in Accs, acc.out # << >>
  PROVE  StampsOf(FlushPending(acc)) = StampsOf(acc.out)
<1>1. acc.out \in Seq(Items)
  BY DEF Accs
<1>2. PICK init \in Seq(Items), last \in Items : acc.out = Append(init, last)
  BY <1>1, SequenceEmptyOrAppend
<1>3. CASE acc.pending = << >>
  BY <1>3, FlushIs, Zenon
<1>4. CASE acc.pending # << >>
  <2> DEFINE j == Joined(last, acc.pending)
  <2>1. j \in Items /\ FlushPending(acc) = Append(init, j)
    BY <1>2, <1>4, FlushIs, Zenon
  <2>2. j.ts = last.ts
    BY DEF Joined, Item
  <2> HIDE DEF j
  <2>3. StampsOf(Append(init, j)) = StampsOf(Append(init, last))
    BY <1>2, <2>1, <2>2, StampsOfIs, Zenon
  <2> QED
    BY <1>2, <2>1, <2>3
<1> QED
  BY <1>3, <1>4

LEMMA StampsForAll == PacketsWritten => CodedStampsKept
<1> SUFFICES ASSUME PacketsWritten, Stamps(Raw(packets)) # << >>
             PROVE  StampsOf(ReadIvf(packets)) = Stamps(Raw(packets))
  BY Zenon DEF CodedStampsKept, Stamps, Raw, StampsOf
<1> DEFINE a == Merged(IvfItems(packets))
<1>1. packets \in Seq(Packets)
  BY DEF PacketsWritten
<1>2. a \in Accs /\ StampsOf(a.out) = Stamps(Raw(packets))
  BY <1>1, RawIs, MergedType, MergedStamps
<1>3. ReadIvf(packets) = FlushPending(a)
  BY MergeIs DEF ReadIvf
<1> HIDE DEF a
<1>4. a.out # << >>
  BY <1>2, StampsOfIs
<1> QED
  BY <1>2, <1>3, <1>4, FlushStamps

(* A merged packet keeps the coded packet's timestamp, however frameless   *)
(* or damaged packets surround it (merge_frameless_packets,                *)
(* container.rs:322-323).                                                  *)
THEOREM StampsKept == ReadSpec => []CodedStampsKept
BY Writing, StampsForAll, PTL

-------------------------------------------------------------------------------
(***************************************************************************)
(* An IVF file and a section-5 stream of the same packets.                 *)
(***************************************************************************)
(* A packet of the usual shape: a delimiter, then at most one frame.       *)
Led(o) == o # << >> /\ Is("delimiter", o[1]) /\ LedOnly(o)

OneFrame(o) == \A j, k \in 1..Len(o) : Is("frame", o[j]) /\ Is("frame", o[k]) => j = k

(* Cutting it up behind other packets makes one group of it.               *)
LEMMA OneGroup ==
  ASSUME NEW acc \in Splits, NEW o \in Obus, Led(o), OneFrame(o),
         NEW a, a = Splitting!FoldLeft(SplitObu, acc, o)
  PROVE  Cut(a) = Append(Cut(acc), o)
<1> DEFINE So(k) == SubSeq(o, 1, k)
           Q == {<<0, acc>>} \cup
                {q \in (1..Len(o)) \X Splits :
                   /\ q[2].groups = Cut(acc) /\ q[2].cur = So(q[1])
                   /\ q[2].hasFrame = HasFrame(So(q[1]))}
<1>0. /\ o \in Seq(ObuType) /\ Len(o) \in Nat /\ Len(o) # 0
      /\ \A k \in 1..Len(o) : o[k] \in ObuType
  BY EmptySeq, ElementOfSeq, LenProperties DEF Obus, Led
<1>1. <<0, acc>> \in Q
  OBVIOUS
<1>2. ASSUME NEW k \in 1..Len(o), NEW c, <<k - 1, c>> \in Q
      PROVE  <<k, SplitObu(c, o[k])>> \in Q
  <2>1. o[k] \in ObuType /\ k \in Nat
    BY <1>0
  <2>2. So(k) \in Obus /\ So(k) = Append(So(k - 1), o[k])
    BY <1>0 DEF Obus
  <2>3. CASE k = 1
    <3>1. c = acc
      BY <1>2, <2>3
    <3>2. Is("delimiter", o[k]) /\ ~ Is("frame", o[k])
      BY <2>3 DEF Led, Is
    <3>3. /\ SplitObu(c, o[k]) \in Splits /\ SplitObu(c, o[k]).groups = Cut(acc)
          /\ SplitObu(c, o[k]).cur = <<o[k]>> /\ SplitObu(c, o[k]).hasFrame = Is("frame", o[k])
      BY <2>1, <3>1, <3>2, SplitObuIs DEF Opens
    <3>4. So(k) = <<o[k]>> /\ HasFrame(So(k)) = Is("frame", o[k])
      <4>1. So(k) = <<o[k]>>
        <5> DEFINE x == So(1)
        <5>1. x \in Seq(ObuType) /\ Len(x) = 1 /\ x[1] = o[1]
          BY <1>0
        <5> HIDE DEF x
        <5>2. x = <<o[1]>>
          BY <5>1
        <5> QED
          BY <2>3, <5>2 DEF x
      <4>2. HasFrame(<<o[k]>>) <=> Is("frame", o[k])
        BY DEF HasFrame
      <4>3. Is("frame", o[k]) \in BOOLEAN /\ HasFrame(<<o[k]>>) \in BOOLEAN
        BY DEF Is, HasFrame
      <4> QED
        BY <4>1, <4>2, <4>3, Zenon
    <3> HIDE DEF So
    <3> QED
      BY <3>3, <3>4
  <2>4. CASE k # 1
    <3>1. /\ k - 1 \in 1..Len(o) /\ c \in Splits /\ c.groups = Cut(acc) /\ c.cur = So(k - 1)
          /\ c.hasFrame = HasFrame(So(k - 1)) /\ So(k - 1) \in Obus
      <4>1. k - 1 # 0 /\ k - 1 \in 1..Len(o)
        BY <1>0, <2>4
      <4>2. So(k - 1) \in Obus
        BY <1>0, <4>1 DEF Obus
      <4> HIDE DEF So
      <4> QED
        BY <1>2, <4>1, <4>2
    <3>2. ~ Is("delimiter", o[k])
      BY <1>0, <2>4 DEF Led, LedOnly
    <3>3. ~ (Is("frame", o[k]) /\ c.hasFrame)
      <4> SUFFICES ASSUME Is("frame", o[k]), HasFrame(So(k - 1)) PROVE FALSE
        BY <3>1
      <4>1. DOMAIN So(k - 1) = 1..k-1 /\ \A j \in 1..k-1 : So(k - 1)[j] = o[j]
        BY <1>0, <3>1
      <4>2. PICK j \in 1..k-1 : Is("frame", o[j])
        BY <4>1 DEF HasFrame
      <4>3. j \in 1..Len(o) /\ j # k
        BY <1>0
      <4> QED
        BY <4>2, <4>3 DEF OneFrame
    <3>4. ~ Opens(c, o[k])
      BY <3>2, <3>3 DEF Opens
    <3>5. /\ SplitObu(c, o[k]) \in Splits /\ SplitObu(c, o[k]).groups = Cut(acc)
          /\ SplitObu(c, o[k]).cur = Append(So(k - 1), o[k])
          /\ SplitObu(c, o[k]).hasFrame = (c.hasFrame \/ Is("frame", o[k]))
      <4> DEFINE x == So(k - 1)
      <4>1. c.cur = x
        BY <3>1
      <4> HIDE DEF x
      <4>2. /\ SplitObu(c, o[k]) \in Splits /\ SplitObu(c, o[k]).groups = c.groups
            /\ SplitObu(c, o[k]).cur = Append(x, o[k])
            /\ SplitObu(c, o[k]).hasFrame = (c.hasFrame \/ Is("frame", o[k]))
        BY <2>1, <3>1, <3>4, <4>1, SplitObuIs, Zenon
      <4> QED
        BY <3>1, <4>2 DEF x
    <3>6. HasFrame(So(k)) = (c.hasFrame \/ Is("frame", o[k]))
      <4>1. HasFrame(So(k)) <=> HasFrame(So(k - 1)) \/ Is("frame", o[k])
        BY <2>1, <2>2, <3>1, HasFrameAppend, Zenon
      <4>2. HasFrame(So(k)) \in BOOLEAN
        BY DEF HasFrame
      <4> HIDE DEF So
      <4> QED
        BY <3>1, <4>1, <4>2
    <3> HIDE DEF So
    <3> QED
      BY <2>2, <3>5, <3>6, Zenon
  <2> QED
    BY <2>3, <2>4
<1>3. <<Len(o), a>> \in Q
  <2> HIDE DEF Q
  <2> QED
    BY <1>0, <1>1, <1>2, Splitting!FoldInvariant, Zenon
<1>4. a.groups = Cut(acc) /\ a.cur = So(Len(o))
  <2> HIDE DEF So
  <2> QED
    BY <1>0, <1>3
<1>5. So(Len(o)) = o
  BY <1>0, SubSeqFull
<1> QED
  BY <1>4, <1>5 DEF Cut, Led

LeadPackets == {p \in Packets : Leads(p) /\ Single(p)}

LEMMA LeadPacketIs ==
  \A p \in LeadPackets : /\ p \in Packets /\ p.framed /\ p.obus \in Obus
                         /\ Led(p.obus) /\ OneFrame(p.obus) /\ Canonical(p.obus) = p.obus
<1> SUFFICES ASSUME NEW p \in LeadPackets
             PROVE  /\ p \in Packets /\ p.framed /\ p.obus \in Obus
                    /\ Led(p.obus) /\ OneFrame(p.obus) /\ Canonical(p.obus) = p.obus
  OBVIOUS
<1>1. p \in Packets /\ p.framed /\ p.obus \in Obus /\ Led(p.obus)
  BY PacketIs DEF LeadPackets, Leads, Led, LedOnly
<1>2. DOMAIN p.obus = 1..Len(p.obus)
  BY <1>1, LenProperties DEF Obus
<1>3. OneFrame(p.obus)
  BY <1>2 DEF LeadPackets, Single, OneFrame
<1> QED
  BY <1>1, <1>3, CanonicalIs DEF Led

LEMMA SameGroups ==
  \A s \in Seq(LeadPackets) : s \in Seq(Packets) /\ Cut(Split(Stream(s))) = ObusOf(s)
<1> DEFINE P == {s \in Seq(LeadPackets) : s \in Seq(Packets) /\ Cut(Split(Stream(s))) = ObusOf(s)}
<1>1. << >> \in P
  <2>1. << >> \in Seq(LeadPackets) /\ << >> \in Seq(Packets)
    OBVIOUS
  <2>2. Cut(NothingSplit) = << >>
    BY DEF Cut, NothingSplit
  <2> QED
    BY <2>1, <2>2, StreamIs, SplitSteps, ObusOfEmpty
<1>2. ASSUME NEW s \in P, NEW p \in LeadPackets PROVE Append(s, p) \in P
  <2>1. /\ s \in Seq(LeadPackets) /\ s \in Seq(Packets) /\ Cut(Split(Stream(s))) = ObusOf(s)
        /\ p \in Packets /\ p.obus \in Obus /\ Led(p.obus) /\ OneFrame(p.obus)
    BY LeadPacketIs
  <2>2. /\ Stream(s) \in Obus /\ Stream(Append(s, p)) = Stream(s) \o p.obus
        /\ ObusOf(Append(s, p)) = Append(ObusOf(s), p.obus)
    BY <2>1, StreamIs
  <2> DEFINE acc == Split(Stream(s))
             a == Split(Stream(s) \o p.obus)
  <2>3. acc \in Splits /\ a = Splitting!FoldLeft(SplitObu, acc, p.obus)
    BY <2>1, <2>2, SplitType, SplitSteps
  <2> HIDE DEF acc, a
  <2>4. Cut(a) = Append(Cut(acc), p.obus)
    BY <2>1, <2>3, OneGroup
  <2>5. Append(s, p) \in Seq(LeadPackets) /\ Append(s, p) \in Seq(Packets)
    BY <2>1, AppendProperties
  <2> QED
    BY <2>1, <2>2, <2>4, <2>5, Zenon DEF acc, a
<1>3. P = Seq(LeadPackets)
  <2>1. P \in SUBSET Seq(LeadPackets)
    OBVIOUS
  <2> HIDE DEF P
  <2> QED
    BY <1>1, <1>2, <2>1, Skipping!SeqSetInduction
<1> QED
  BY <1>3

LEMMA MatchForAll == PacketsWritten => IvfMatchesObu
<1> SUFFICES ASSUME PacketsWritten, Delimited, \A k \in DOMAIN packets : Single(packets[k])
             PROVE  ObusOf(ReadIvf(packets)) = ObusOf(SplitStream(Stream(packets)))
  BY DEF IvfMatchesObu
<1>1. /\ Len(packets) \in Nat /\ DOMAIN packets = 1..Len(packets)
      /\ \A k \in 1..Len(packets) : packets[k] \in LeadPackets
  BY ElementOfSeq, LenProperties DEF PacketsWritten, Delimited, LeadPackets
<1>2. packets \in Seq(LeadPackets)
  BY <1>1, Retyped DEF PacketsWritten
<1>3. Cut(Split(Stream(packets))) = ObusOf(packets)
  BY <1>2, SameGroups
<1>4. IvfItems(packets) = GroupItems(ObusOf(packets))
  <2>1. \A k \in DOMAIN packets :
          /\ packets[k].framed = TRUE
          /\ (IF packets[k].framed THEN Canonical(packets[k].obus) ELSE packets[k].obus)
               = packets[k].obus
    <3> SUFFICES ASSUME NEW k \in DOMAIN packets
                 PROVE  /\ packets[k].framed = TRUE
                        /\ Canonical(packets[k].obus) = packets[k].obus
      BY Zenon
    <3>1. packets[k] \in LeadPackets
      BY <1>1
    <3>2. packets[k].framed \in BOOLEAN /\ packets[k].framed
          /\ Canonical(packets[k].obus) = packets[k].obus
      BY <3>1, LeadPacketIs, PacketIs
    <3> QED
      BY <3>2
  <2>2. IvfItems(packets) = [k \in DOMAIN packets |-> Item(k, packets[k].obus, TRUE)]
    BY <2>1, Zenon DEF IvfItems
  <2>3. GroupItems(ObusOf(packets)) = [k \in DOMAIN packets |-> Item(k, packets[k].obus, TRUE)]
    BY DEF GroupItems, ObusOf
  <2> QED
    BY <2>2, <2>3
<1> QED
  BY <1>3, <1>4, SplitStreamIs DEF ReadIvf

(* Packets that begin with a delimiter and hold at most one frame come out *)
(* of an IVF file and of a section-5 stream as the same units              *)
(* (split_obu_stream, container.rs:318-320).                               *)
THEOREM ContainersAgree == ReadSpec => []IvfMatchesObu
BY Writing, MatchForAll, PTL

-------------------------------------------------------------------------------
(***************************************************************************)
(* The header a picture size is read under.                                *)
(***************************************************************************)
LEMMA KeepFold == \A b, s : FoldLeft(ParsedHeader, b, s) = Keeping!FoldLeft(ParsedHeader, b, s)
BY Zenon DEF FoldLeft, MapThenFoldSet, Max,
   Keeping!FoldLeft, Keeping!MapThenFoldSet, Keeping!Max

Parses(o) == Is("header", o) /\ o.ok

LEMMA KeepCollects == Keeping!Collects(ObuType, ObuType)
<1>1. \A a, o : ParsedHeader(a, o) = IF Parses(o) THEN Append(a, o) ELSE a
  BY DEF ParsedHeader, Parses
<1>2. \A o \in ObuType : ParsedHeader(<< >>, o) \in Seq(ObuType)
  BY <1>1, OneElement, EmptySeq, AppendProperties, Zenon
<1>3. \A a \in Seq(ObuType), o \in ObuType : ParsedHeader(a, o) = a \o ParsedHeader(<< >>, o)
  <2> TAKE a \in Seq(ObuType), o \in ObuType
  <2>1. CASE ~ Parses(o)
    BY <1>1, <2>1
  <2>2. CASE Parses(o)
    <3>1. Append(a, o) = a \o <<o>> /\ Append(<< >>, o) = <<o>>
      BY AppendIsConcat
    <3> QED
      BY <1>1, <2>2, <3>1, Zenon
  <2> QED
    BY <2>1, <2>2
<1> QED
  BY <1>2, <1>3 DEF Keeping!Collects

LEMMA HeadersIs ==
  /\ HeadersOf(<< >>) = << >>
  /\ \A s \in Obus : HeadersOf(s) \in Obus
  /\ \A s, t \in Obus : HeadersOf(s \o t) = HeadersOf(s) \o HeadersOf(t)
  /\ \A s \in Obus, o \in ObuType :
       HeadersOf(Append(s, o)) = IF Parses(o) THEN Append(HeadersOf(s), o) ELSE HeadersOf(s)
<1>1. HeadersOf(<< >>) = << >>
  BY KeepFold, Keeping!FoldEmpty, Zenon DEF HeadersOf
<1>2. ASSUME NEW s \in Obus PROVE HeadersOf(s) \in Obus
  <2>1. << >> \in Seq(ObuType) /\ s \in Seq(ObuType)
    BY DEF Obus
  <2>2. Keeping!FoldLeft(ParsedHeader, << >>, s) \in Seq(ObuType)
    BY <2>1, KeepCollects, Keeping!CollectsFold, Zenon
  <2> QED
    BY <2>2, KeepFold, Zenon DEF HeadersOf, Obus
<1>3. ASSUME NEW s \in Obus, NEW t \in Obus
      PROVE  HeadersOf(s \o t) = HeadersOf(s) \o HeadersOf(t)
  <2>1. s \in Seq(ObuType) /\ t \in Seq(ObuType)
    BY DEF Obus
  <2>2. Keeping!FoldLeft(ParsedHeader, << >>, s \o t)
          = Keeping!FoldLeft(ParsedHeader, << >>, s) \o Keeping!FoldLeft(ParsedHeader, << >>, t)
    BY <2>1, KeepCollects, Keeping!CollectsConcat
  <2> QED
    BY <2>2, KeepFold, Zenon DEF HeadersOf
<1>4. ASSUME NEW s \in Obus, NEW o \in ObuType
      PROVE  HeadersOf(Append(s, o)) = IF Parses(o) THEN Append(HeadersOf(s), o) ELSE HeadersOf(s)
  <2>1. s \in Seq(ObuType)
    BY DEF Obus
  <2>2. Keeping!FoldLeft(ParsedHeader, << >>, Append(s, o))
          = ParsedHeader(Keeping!FoldLeft(ParsedHeader, << >>, s), o)
    BY <2>1, Keeping!FoldAppend, Zenon
  <2>3. HeadersOf(Append(s, o)) = ParsedHeader(HeadersOf(s), o)
    BY <2>2, KeepFold, Zenon DEF HeadersOf
  <2> QED
    BY <2>3 DEF ParsedHeader, Parses
<1> QED
  BY <1>1, <1>2, <1>3, <1>4, Zenon

LEMMA NoHeaders ==
  \A s \in Obus : (\A k \in 1..Len(s) : ~ Parses(s[k])) => HeadersOf(s) = << >>
<1> DEFINE P == {s \in Obus : (\A k \in 1..Len(s) : ~ Parses(s[k])) => HeadersOf(s) = << >>}
<1>1. << >> \in P
  BY HeadersIs DEF Obus
<1>2. ASSUME NEW s \in P, NEW o \in ObuType PROVE Append(s, o) \in P
  <2> DEFINE u == Append(s, o)
  <2>1. /\ s \in Obus /\ u \in Obus /\ Len(s) \in Nat /\ Len(u) = Len(s) + 1 /\ u[Len(s) + 1] = o
        /\ \A k \in 1..Len(s) : u[k] = s[k]
    BY AppendProperties DEF Obus
  <2> SUFFICES ASSUME \A k \in 1..Len(u) : ~ Parses(u[k]) PROVE HeadersOf(u) = << >>
    BY <2>1, Zenon
  <2>2. ~ Parses(o) /\ \A k \in 1..Len(s) : ~ Parses(s[k])
    BY <2>1
  <2> QED
    BY <2>1, <2>2, HeadersIs
<1>3. P = Obus
  <2>1. P \in SUBSET Seq(ObuType)
    BY DEF Obus
  <2> HIDE DEF P
  <2> QED
    BY <1>1, <1>2, <2>1, Skipping!SeqSetInduction DEF Obus
<1> QED
  BY <1>3

LEMMA FirstFrameIs ==
  \A o \in Obus : HasFrame(o) => /\ FirstFrame(o) \in 1..Len(o)
                                 /\ Is("frame", o[FirstFrame(o)])
<1> SUFFICES ASSUME NEW o \in Obus, HasFrame(o)
             PROVE  FirstFrame(o) \in 1..Len(o) /\ Is("frame", o[FirstFrame(o)])
  OBVIOUS
<1> DEFINE T == {k \in 1..Len(o) : Is("frame", o[k])}
<1>1. DOMAIN o = 1..Len(o) /\ Len(o) \in Nat
  BY LenProperties DEF Obus
<1>2. T \in SUBSET Nat /\ T # {}
  BY <1>1 DEF HasFrame
<1>3. PICK x \in T : \A y \in T : x <= y
  BY <1>2, Skipping!LeastNumber, Zenon
<1>4. /\ x \in DOMAIN o /\ Is("frame", o[x]) /\ \A m \in 1..x-1 : ~ Is("frame", o[m])
  BY <1>1, <1>3
<1>5. \E k \in DOMAIN o : Is("frame", o[k]) /\ \A m \in 1..k-1 : ~ Is("frame", o[m])
  BY <1>4
<1>6. FirstFrame(o) \in DOMAIN o /\ Is("frame", o[FirstFrame(o)])
  BY <1>5, Zenon DEF FirstFrame
<1> QED
  BY <1>1, <1>6

(* What the loop sees of a unit: up to its first frame.                    *)
Seen(o) == SubSeq(o, 1, IF HasFrame(o) THEN FirstFrame(o) ELSE Len(o))

LEMMA SeenIs ==
  \A o \in Obus : /\ Seen(o) \in Obus
                  /\ HeaderFirst(o) => HeadersOf(Seen(o)) = HeadersOf(o)
<1> SUFFICES ASSUME NEW o \in Obus
             PROVE  Seen(o) \in Obus /\ (HeaderFirst(o) => HeadersOf(Seen(o)) = HeadersOf(o))
  OBVIOUS
<1>0. /\ o \in Seq(ObuType) /\ Len(o) \in Nat /\ DOMAIN o = 1..Len(o)
      /\ \A k \in 1..Len(o) : o[k] \in ObuType
  BY ElementOfSeq, LenProperties DEF Obus
<1>1. CASE ~ HasFrame(o)
  <2>1. Seen(o) = o
    BY <1>0, <1>1, SubSeqFull DEF Seen
  <2> QED
    BY <2>1
<1>2. CASE HasFrame(o)
  <2> DEFINE k == FirstFrame(o)
             x == SubSeq(o, 1, k)
             y == SubSeq(o, k + 1, Len(o))
  <2>1. k \in 1..Len(o) /\ Seen(o) = x
    BY <1>2, FirstFrameIs DEF Seen
  <2> HIDE DEF k
  <2>2. x \in Obus /\ y \in Obus /\ o = x \o y
    <3>1. x \in Seq(ObuType) /\ y \in Seq(ObuType)
      BY <1>0, <2>1, SubSeqProperties
    <3>2. SubSeq(o, 1, k) \o SubSeq(o, k + 1, Len(o)) = SubSeq(o, 1, Len(o))
      <4>1. 1 \in 1..Len(o)+1 /\ k \in 0..Len(o) /\ Len(o) \in k..Len(o) /\ 1 - 1 = 0
        BY <1>0, <2>1
      <4> QED
        BY <1>0, <4>1, ConcatAdjacentSubSeq, Zenon
    <3> QED
      BY <1>0, <3>1, <3>2, SubSeqFull, Zenon DEF Obus
  <2>3. ASSUME HeaderFirst(o) PROVE HeadersOf(x) = HeadersOf(o)
    <3>1. Len(y) = Len(o) - k /\ \A m \in 1..Len(o)-k : y[m] = o[k + m]
      <4> SUFFICES ASSUME NEW a, a = k + 1, NEW b, b = Len(o)
                   PROVE  /\ Len(SubSeq(o, a, b)) = b - k
                          /\ \A m \in 1..b-k : SubSeq(o, a, b)[m] = o[k + m]
        BY Zenon
      <4>1. a \in Int /\ b \in Int /\ k \in Int /\ k <= b /\ \A i \in a..b : o[i] \in ObuType
        BY <1>0, <2>1
      <4>2. /\ Len(SubSeq(o, a, b)) = IF a <= b THEN b - a + 1 ELSE 0
            /\ \A m \in 1..b-a+1 : SubSeq(o, a, b)[m] = o[a + m - 1]
        BY <4>1, SubSeqProperties
      <4>3. b - a + 1 = b - k /\ \A m \in 1..b-k : a + m - 1 = k + m
        BY <4>1
      <4>4. Len(SubSeq(o, a, b)) = b - k
        BY <4>1, <4>2
      <4> QED
        BY <4>2, <4>3, <4>4
    <3>2. \A m \in 1..Len(y) : ~ Parses(y[m])
      <4> SUFFICES ASSUME NEW m \in 1..Len(y) PROVE ~ Parses(y[m])
        BY Zenon
      <4>1. k + m \in DOMAIN o /\ k + m > k /\ y[m] = o[k + m]
        <5>1. k \in 1..Len(o) /\ Len(o) \in Nat /\ DOMAIN o = 1..Len(o)
          BY <1>0, <2>1
        <5>2. Len(y) = Len(o) - k /\ m \in 1..Len(o)-k /\ y[m] = o[k + m]
          BY <3>1, Zenon
        <5> HIDE DEF y
        <5> QED
          BY <5>1, <5>2
      <4> QED
        BY <1>2, <2>3, <4>1, Zenon DEF HeaderFirst, Parses, k
    <3> HIDE DEF x, y
    <3>3. HeadersOf(y) = << >>
      BY <2>2, <3>2, NoHeaders
    <3>4. HeadersOf(o) = HeadersOf(x) \o << >> /\ HeadersOf(x) \in Seq(ObuType)
      <4>1. HeadersOf(x \o y) = HeadersOf(x) \o HeadersOf(y) /\ HeadersOf(x) \in Obus
        BY <2>2, HeadersIs, Zenon
      <4> QED
        BY <2>2, <3>3, <4>1, Zenon DEF Obus
    <3> QED
      BY <3>4, ConcatEmptySeq
  <2> QED
    BY <2>1, <2>2, <2>3
<1> QED
  BY <1>1, <1>2

LastHdr(hs) == IF hs = << >> THEN << >> ELSE <<hs[Len(hs)].hdr>>

LEMMA LastHdrIs ==
  /\ \A hs \in Obus : LastHdr(hs) = << >> \/ \E h \in Headers : LastHdr(hs) = <<h>>
  /\ \A gs, hs \in Obus : LastHdr(gs \o hs) = IF hs = << >> THEN LastHdr(gs) ELSE LastHdr(hs)
<1>1. ASSUME NEW hs \in Obus
      PROVE  LastHdr(hs) = << >> \/ \E h \in Headers : LastHdr(hs) = <<h>>
  <2>1. CASE hs # << >>
    <3>1. Len(hs) \in 1..Len(hs)
      BY <2>1, EmptySeq DEF Obus
    <3>2. hs[Len(hs)] \in ObuType
      BY <3>1, ElementOfSeq DEF Obus
    <3>3. hs[Len(hs)].hdr \in Headers
      BY <3>2 DEF ObuType
    <3> QED
      BY <2>1, <3>3 DEF LastHdr
  <2> QED
    BY <2>1 DEF LastHdr
<1>2. ASSUME NEW gs \in Obus, NEW hs \in Obus
      PROVE  LastHdr(gs \o hs) = IF hs = << >> THEN LastHdr(gs) ELSE LastHdr(hs)
  <2>0. gs \in Seq(ObuType) /\ hs \in Seq(ObuType) /\ Len(gs) \in Nat /\ Len(hs) \in Nat
    BY LenProperties DEF Obus
  <2>1. CASE hs = << >>
    BY <2>0, <2>1, ConcatEmptySeq
  <2>2. CASE hs # << >>
    <3>1. Len(hs) # 0
      BY <2>0, <2>2, EmptySeq
    <3>2. Len(gs \o hs) = Len(gs) + Len(hs) /\ gs \o hs # << >>
      BY <2>0, <3>1, ConcatProperties, EmptySeq
    <3>3. (gs \o hs)[Len(gs) + Len(hs)] = hs[Len(hs)]
      BY <2>0, <3>1
    <3> QED
      BY <2>2, <3>2, <3>3 DEF LastHdr
  <2> QED
    BY <2>1, <2>2
<1> QED
  BY <1>1, <1>2

(* The units up to n, in a row.                                            *)
Through(tus, n) == FlattenSeq(SubSeq(tus, 1, n))

LEMMA ThroughIs ==
  ASSUME NEW tus \in Seq(Obus), NEW n \in 1..Len(tus)
  PROVE  /\ Through(tus, n - 1) \in Obus
         /\ Through(tus, n) = Through(tus, n - 1) \o tus[n]
<1> DEFINE T == Seq(ObuType)
           s == SubSeq(tus, 1, n - 1)
           x == tus[n]
<1>1. Len(tus) \in Nat /\ \A k \in 1..Len(tus) : tus[k] \in T
  BY ElementOfSeq, LenProperties DEF Obus
<1>2. tus \in Seq(T)
  BY DEF Obus
<1> HIDE DEF T
<1>3. s \in Seq(T) /\ x \in T /\ SubSeq(tus, 1, n) = Append(s, x)
  BY <1>1, <1>2
<1> HIDE DEF s, x
<1>4. FlattenSeq(s) \in Seq(ObuType) /\ FlattenSeq(Append(s, x)) = FlattenSeq(s) \o x
  BY <1>3, FlatType, FlatAppend DEF T
<1> QED
  BY <1>3, <1>4, Zenon DEF Through, Obus, s, x

Calm(tus, n) == \A v \in 1..n : HeaderFirst(tus[v])

Sizes == {<< >>} \cup {<<[unit |-> u, hdr |-> h]>> : u \in Nat, h \in Headers}

Geometries == [sh : {<< >>} \cup {<<h>> : h \in Headers}, unit : Nat, size : Sizes, done : BOOLEAN]

(* The units read so far, and the header they leave in force.              *)
Follows(tus, n, acc) ==
  ~ acc.done => /\ acc.unit = n
                /\ Calm(tus, n) => acc.sh = LastHdr(HeadersOf(Through(tus, n)))

(* A size, and the unit and the header it was read under.                  *)
Governed(tus, n, size) ==
  size # << >> =>
    \E u \in 1..n : \E h \in Headers :
      /\ size = <<[unit |-> u, hdr |-> h]>> /\ HasFrame(tus[u])
      /\ Calm(tus, u - 1) => LastHdr(HeadersOf(Through(tus, u - 1) \o Seen(tus[u]))) = <<h>>

LEMMA GeometryStep ==
  ASSUME NEW tus \in Seq(Obus), NEW n \in 1..Len(tus), NEW acc \in Geometries,
         Follows(tus, n - 1, acc), Governed(tus, n - 1, acc.size),
         NEW b, b = GeometryFrom(acc, tus[n])
  PROVE  b \in Geometries /\ Follows(tus, n, b) /\ Governed(tus, n, b.size)
<1>0. Len(tus) \in Nat /\ n \in Nat /\ n - 1 \in Nat /\ tus[n] \in Obus
  BY ElementOfSeq, LenProperties
<1>1. ASSUME Governed(tus, n - 1, acc.size) PROVE Governed(tus, n, acc.size)
  <2>1. \A u \in 1..n-1 : u \in 1..n
    BY <1>0
  <2> QED
    BY <1>1, <2>1, Zenon DEF Governed
<1>2. CASE acc.done
  <2>1. b = acc
    BY <1>2 DEF GeometryFrom
  <2> QED
    BY <1>1, <1>2, <2>1 DEF Follows
<1>3. CASE ~ acc.done
  <2> DEFINE o   == tus[n]
             k   == IF HasFrame(o) THEN FirstFrame(o) ELSE Len(o)
             hs  == HeadersBefore(o, k)
             sh  == IF hs = << >> THEN acc.sh ELSE <<hs[Len(hs)].hdr>>
             f   == o[k]
             use == /\ HasFrame(o) /\ sh # << >> /\ f.ok /\ f.coded
                    /\ f.intra \/ acc.size = << >>
             size == IF use THEN <<[unit |-> acc.unit + 1, hdr |-> sh[1]]>> ELSE acc.size
             done == use /\ f.intra
             t   == Through(tus, n - 1)
  <2>1. b = [sh |-> sh, unit |-> acc.unit + 1, size |-> size, done |-> done]
    BY <1>3 DEF GeometryFrom
  <2>2. acc.unit = n - 1 /\ (Calm(tus, n - 1) => acc.sh = LastHdr(HeadersOf(t)))
    BY <1>3 DEF Follows
  <2>3. t \in Obus /\ Through(tus, n) = t \o o /\ o \in Obus
    BY <1>0, ThroughIs, Zenon
  <2>4. hs = HeadersOf(Seen(o)) /\ Seen(o) \in Obus /\ hs \in Obus
    <3>1. hs = HeadersOf(Seen(o)) /\ Seen(o) \in Obus
      BY <2>3, SeenIs DEF HeadersBefore, Seen
    <3> QED
      BY <3>1, HeadersIs
  <2>5. sh = (IF hs = << >> THEN acc.sh ELSE LastHdr(hs)) /\ sh \in {<< >>} \cup {<<h>> : h \in Headers}
    <3>1. sh = IF hs = << >> THEN acc.sh ELSE LastHdr(hs)
      BY DEF LastHdr
    <3>2. LastHdr(hs) \in {<< >>} \cup {<<h>> : h \in Headers}
      BY <2>4, LastHdrIs
    <3>3. acc.sh \in {<< >>} \cup {<<h>> : h \in Headers}
      BY DEF Geometries
    <3> HIDE DEF hs, sh
    <3> QED
      BY <3>1, <3>2, <3>3
  <2>6. done \in BOOLEAN /\ (done => use)
    OBVIOUS
  <2> HIDE DEF hs, sh, use, done
  <2>7. ASSUME Calm(tus, n - 1)
        PROVE  sh = LastHdr(HeadersOf(t \o Seen(o)))
    <3>1. HeadersOf(t) \in Obus /\ HeadersOf(t \o Seen(o)) = HeadersOf(t) \o hs
      BY <2>3, <2>4, HeadersIs, Zenon
    <3> DEFINE x == HeadersOf(t)
    <3>2. LastHdr(x \o hs) = IF hs = << >> THEN LastHdr(x) ELSE LastHdr(hs)
      <4>1. x \in Obus
        BY <3>1
      <4> HIDE DEF x
      <4> QED
        BY <2>4, <4>1, LastHdrIs
    <3>3. acc.sh = LastHdr(x)
      BY <2>2, <2>7
    <3> QED
      BY <2>5, <3>1, <3>2, <3>3, Zenon
  <2>8. ASSUME use PROVE HasFrame(o) /\ sh # << >> /\ \E h \in Headers : sh = <<h>> /\ sh[1] = h
    <3>1. HasFrame(o) /\ sh # << >>
      BY <2>8 DEF use
    <3>2. PICK h \in Headers : sh = <<h>>
      BY <2>5, <3>1
    <3>3. sh[1] = h
      BY <3>2
    <3> QED
      BY <3>1, <3>2, <3>3
  <2>9. size \in Sizes /\ Governed(tus, n, size)
    <3>1. CASE use
      <4>1. PICK h \in Headers : sh = <<h>> /\ sh[1] = h
        BY <2>8, <3>1
      <4>2. acc.unit + 1 = n
        BY <1>0, <2>2
      <4>3. size = <<[unit |-> n, hdr |-> h]>>
        BY <3>1, <4>1, <4>2
      <4>4. n \in 1..n /\ HasFrame(tus[n])
        BY <1>0, <2>8, <3>1
      <4>5. Calm(tus, n - 1) => LastHdr(HeadersOf(Through(tus, n - 1) \o Seen(tus[n]))) = <<h>>
        BY <2>7, <4>1
      <4> QED
        BY <1>0, <4>3, <4>4, <4>5 DEF Governed, Sizes
    <3>2. CASE ~ use
      BY <1>1, <3>2 DEF Geometries
    <3> QED
      BY <3>1, <3>2
  <2> HIDE DEF size
  <2>10. b \in Geometries
    <3>1. acc.unit + 1 \in Nat
      BY <1>0, <2>2
    <3> QED
      BY <2>1, <2>5, <2>6, <2>9, <3>1 DEF Geometries
  <2>11. Follows(tus, n, b)
    <3> SUFFICES ASSUME Calm(tus, n)
                 PROVE  sh = LastHdr(HeadersOf(Through(tus, n)))
      BY <1>0, <2>1, <2>2 DEF Follows
    <3>1. Calm(tus, n - 1) /\ HeaderFirst(o)
      <4>1. \A v \in 1..n-1 : v \in 1..n
        BY <1>0
      <4>2. n \in 1..n
        BY <1>0
      <4> QED
        BY <4>1, <4>2 DEF Calm
    <3>2. HeadersOf(t \o Seen(o)) = HeadersOf(t) \o HeadersOf(Seen(o))
      BY <2>3, <2>4, HeadersIs, Zenon
    <3>3. HeadersOf(t \o o) = HeadersOf(t) \o HeadersOf(o)
      BY <2>3, HeadersIs, Zenon
    <3>4. HeadersOf(Seen(o)) = HeadersOf(o)
      BY <2>3, <3>1, SeenIs
    <3> QED
      BY <2>3, <2>7, <3>1, <3>2, <3>3, <3>4, Zenon
  <2> QED
    BY <2>1, <2>9, <2>10, <2>11
<1> QED
  BY <1>2, <1>3

NothingMeasured == [sh |-> << >>, unit |-> 0, size |-> << >>, done |-> FALSE]

LEMMA MeasureFold == \A b, s : FoldLeft(GeometryFrom, b, s) = Measuring!FoldLeft(GeometryFrom, b, s)
BY Zenon DEF FoldLeft, MapThenFoldSet, Max,
   Measuring!FoldLeft, Measuring!MapThenFoldSet, Measuring!Max

LEMMA GeometryIs ==
  ASSUME NEW tus \in Seq(Obus)
  PROVE  Governed(tus, Len(tus), GeometryOf(tus))
<1> DEFINE Q == {q \in Nat \X Geometries :
                   Follows(tus, q[1], q[2]) /\ Governed(tus, q[1], q[2].size)}
           a == Measuring!FoldLeft(GeometryFrom, NothingMeasured, tus)
<1>0. Len(tus) \in Nat
  BY LenProperties
<1>1. <<0, NothingMeasured>> \in Q
  <2>1. NothingMeasured \in Geometries
    BY DEF NothingMeasured, Geometries, Sizes
  <2>2. Through(tus, 0) = << >>
    <3>1. SubSeq(tus, 1, 0) = << >>
      BY SubSeqEmpty
    <3> QED
      BY <3>1, FlatEmpty, Zenon DEF Through
  <2>3. LastHdr(HeadersOf(Through(tus, 0))) = << >>
    BY <2>2, HeadersIs DEF LastHdr
  <2>4. Follows(tus, 0, NothingMeasured) /\ Governed(tus, 0, NothingMeasured.size)
    BY <2>3 DEF Follows, Governed, NothingMeasured
  <2> QED
    BY <2>1, <2>4
<1>2. ASSUME NEW k \in 1..Len(tus), NEW c, <<k - 1, c>> \in Q
      PROVE  <<k, GeometryFrom(c, tus[k])>> \in Q
  <2>1. c \in Geometries /\ Follows(tus, k - 1, c) /\ Governed(tus, k - 1, c.size)
    BY <1>2
  <2> DEFINE b == GeometryFrom(c, tus[k])
  <2> HIDE DEF b
  <2>2. b \in Geometries /\ Follows(tus, k, b) /\ Governed(tus, k, b.size)
    BY <2>1, GeometryStep DEF b
  <2>3. k \in Nat
    BY <1>0
  <2> QED
    BY <2>2, <2>3 DEF b
<1>3. <<Len(tus), a>> \in Q
  <2> HIDE DEF Q, a
  <2>1. \A k \in 1..Len(tus) : \A c : <<k - 1, c>> \in Q => <<k, GeometryFrom(c, tus[k])>> \in Q
    BY <1>2
  <2> QED
    BY <1>1, <2>1, Measuring!FoldInvariant, Zenon DEF a
<1>4. GeometryOf(tus) = a.size
  BY MeasureFold, Zenon DEF GeometryOf, NothingMeasured
<1> HIDE DEF a
<1> QED
  BY <1>3, <1>4

LEMMA SizeForAll == PacketsWritten => SizeUnderItsHeader
<1> DEFINE r  == ReadObu(packets)
           u  == r.size[1].unit
           before == FlattenSeq(SubSeq(r.tus, 1, u - 1))
                       \o SubSeq(r.tus[u], 1, FirstFrame(r.tus[u]))
           hs == HeadersOf(before)
<1> SUFFICES ASSUME PacketsWritten, r.ok, \A v \in 1..u-1 : HeaderFirst(r.tus[v])
             PROVE  hs # << >> /\ r.size[1].hdr = hs[Len(hs)].hdr
  BY Zenon DEF SizeUnderItsHeader
<1> DEFINE gs  == ObusOf(SplitStream(Stream(packets)))
           tus == [k \in DOMAIN gs |-> Canonical(gs[k])]
<1>1. packets \in Seq(FramedPackets) /\ packets \in Seq(Packets) /\ r = Finish(gs)
  <2>1. AllFramed(packets)
    BY DEF ReadObu, Refused
  <2> QED
    BY <2>1, FramedInput DEF PacketsWritten, ReadObu
<1>2. gs \in Seq(Obus)
  BY <1>1, StreamIs, SplitStreamKeeps, ObusOfType
<1>3. r.tus = tus /\ r.size = GeometryOf(tus) /\ r.size # << >>
  <2> HIDE DEF gs, r
  <2>1. r.ok
    OBVIOUS
  <2> QED
    BY <1>1, <2>1, Zenon DEF Finish, Refused
<1>4. tus \in Seq(Obus)
  <2> HIDE DEF gs
  <2>1. Len(gs) \in Nat /\ DOMAIN gs = 1..Len(gs) /\ \A k \in 1..Len(gs) : Canonical(gs[k]) \in Obus
    BY <1>2, ElementOfSeq, LenProperties, CanonicalIs
  <2> QED
    BY <2>1
<1> HIDE DEF tus, r
<1>5. PICK v \in 1..Len(tus), h \in Headers :
        /\ r.size = <<[unit |-> v, hdr |-> h]>> /\ HasFrame(tus[v])
        /\ Calm(tus, v - 1) => LastHdr(HeadersOf(Through(tus, v - 1) \o Seen(tus[v]))) = <<h>>
  BY <1>3, <1>4, GeometryIs DEF Governed
<1>6. u = v /\ r.size[1].hdr = h
  BY <1>5
<1>7. Calm(tus, v - 1)
  BY <1>3, <1>6 DEF Calm
<1>8. before = Through(tus, v - 1) \o Seen(tus[v])
  BY <1>3, <1>5, <1>6, Zenon DEF Through, Seen
<1>9. LastHdr(hs) = <<h>>
  BY <1>5, <1>7, <1>8, Zenon
<1> HIDE DEF hs
<1>10. hs # << >> /\ hs[Len(hs)].hdr = h
  BY <1>9 DEF LastHdr
<1> QED
  BY <1>6, <1>10

(* The picture size is read under the last well-formed header before the   *)
(* frame it comes from, wherever that header stood in the stream, as long  *)
(* as no unit before it ends in a header (finish, container.rs:149-200).   *)
THEOREM SizeGoverned == ReadSpec => []SizeUnderItsHeader
BY Writing, SizeForAll, PTL

-------------------------------------------------------------------------------
(***************************************************************************)
(* Lengths: what the playlists, limits and projections come to.            *)
(***************************************************************************)

(* The three sums over frame counts: as mathematics has it, as words that  *)
(* wrap (used of segment_frames), and as words that saturate (the total of *)
(* build_output).                                                          *)
Plus(t, n) == t + n
WordPlus(t, n) == (t + n) % (MaxWord + 1)
SatPlus(t, n) == AtMost(t + n, MaxWord)

Sums  == INSTANCE NatRecursion WITH base <- 0, Step <- Plus
Words == INSTANCE NatRecursion WITH base <- 0, Step <- WordPlus
Sats  == INSTANCE NatRecursion WITH base <- 0, Step <- SatPlus

-----------------------------------------------------------------------------
(* Sums.                                                                   *)

LEMMA SumsFold ==
  \A s : /\ TrueSum(s) = Sums!FoldLeft(Plus, 0, s)
         /\ WordSum(s) = Words!FoldLeft(WordPlus, 0, s)
         /\ TotalOf(s) = Sats!FoldLeft(SatPlus, 0, s)
<1> TAKE s
<1>1. TrueSum(s) = Sums!FoldLeft(Plus, 0, s)
  BY Zenon DEF TrueSum, Plus, FoldLeft, MapThenFoldSet, Max,
               Sums!FoldLeft, Sums!MapThenFoldSet, Sums!Max
<1>2. WordSum(s) = Words!FoldLeft(WordPlus, 0, s)
  BY Zenon DEF WordSum, WordPlus, FoldLeft, MapThenFoldSet, Max,
               Words!FoldLeft, Words!MapThenFoldSet, Words!Max
<1>3. TotalOf(s) = Sats!FoldLeft(SatPlus, 0, s)
  BY Zenon DEF TotalOf, SatPlus, FoldLeft, MapThenFoldSet, Max,
               Sats!FoldLeft, Sats!MapThenFoldSet, Sats!Max
<1> QED
  BY <1>1, <1>2, <1>3

LEMMA SmallMod ==
  ASSUME NEW x \in Nat, NEW m \in Nat, x <= m
  PROVE  x % (m + 1) = x
OBVIOUS

LEMMA SumsEmpty == TrueSum(<< >>) = 0 /\ WordSum(<< >>) = 0 /\ TotalOf(<< >>) = 0
  BY SumsFold, Sums!FoldEmpty, Words!FoldEmpty, Sats!FoldEmpty

LEMMA SumsAppend ==
  ASSUME NEW s \in Seq(Nat), NEW x \in Nat
  PROVE  /\ TrueSum(Append(s, x)) = TrueSum(s) + x
         /\ WordSum(Append(s, x)) = (WordSum(s) + x) % (MaxWord + 1)
         /\ TotalOf(Append(s, x)) = AtMost(TotalOf(s) + x, MaxWord)
<1>1. Sums!FoldLeft(Plus, 0, Append(s, x)) = Plus(Sums!FoldLeft(Plus, 0, s), x)
  BY Sums!FoldAppend, Zenon
<1>2. Words!FoldLeft(WordPlus, 0, Append(s, x)) = WordPlus(Words!FoldLeft(WordPlus, 0, s), x)
  BY Words!FoldAppend, Zenon
<1>3. Sats!FoldLeft(SatPlus, 0, Append(s, x)) = SatPlus(Sats!FoldLeft(SatPlus, 0, s), x)
  BY Sats!FoldAppend, Zenon
<1> QED
  BY <1>1, <1>2, <1>3, SumsFold, Zenon DEF Plus, WordPlus, SatPlus

(* The sums of the first n. *)
First(s, n) == TrueSum(SubSeq(s, 1, n))
FirstWord(s, n) == WordSum(SubSeq(s, 1, n))
FirstSat(s, n) == TotalOf(SubSeq(s, 1, n))

LEMMA FirstNone == \A s : First(s, 0) = 0 /\ FirstWord(s, 0) = 0 /\ FirstSat(s, 0) = 0
<1> TAKE s
<1>1. SubSeq(s, 1, 0) = << >>
  BY SubSeqEmpty
<1> QED
  BY <1>1, SumsEmpty, Zenon DEF First, FirstWord, FirstSat

LEMMA FirstAll ==
  \A s \in Seq(Nat) : /\ First(s, Len(s)) = TrueSum(s)
                      /\ FirstWord(s, Len(s)) = WordSum(s)
                      /\ FirstSat(s, Len(s)) = TotalOf(s)
<1> TAKE s \in Seq(Nat)
<1>1. SubSeq(s, 1, Len(s)) = s
  BY SubSeqFull
<1> QED
  BY <1>1, Zenon DEF First, FirstWord, FirstSat

LEMMA FirstStep ==
  ASSUME NEW s \in Seq(Nat), NEW n \in 1..Len(s)
  PROVE  /\ First(s, n) = First(s, n - 1) + s[n]
         /\ FirstWord(s, n) = (FirstWord(s, n - 1) + s[n]) % (MaxWord + 1)
         /\ FirstSat(s, n) = AtMost(FirstSat(s, n - 1) + s[n], MaxWord)
<1>1. Len(s) \in Nat /\ s[n] \in Nat
  BY LenProperties, ElementOfSeq
<1>2. /\ SubSeq(s, 1, n - 1) \in Seq(Nat)
      /\ SubSeq(s, 1, n) = Append(SubSeq(s, 1, n - 1), s[n])
  BY <1>1
<1> QED
  BY <1>1, <1>2, SumsAppend, Zenon DEF First, FirstWord, FirstSat

(* A saturating sum is the true one, cut at the end of the word; a         *)
(* wrapping one is the true one as long as that is a word.                 *)
LEMMA SumsAre ==
  ASSUME NEW s \in Seq(Nat)
  PROVE  \A n \in 0..Len(s) :
            /\ First(s, n) \in Nat /\ FirstWord(s, n) \in Nat
            /\ FirstSat(s, n) = AtMost(First(s, n), MaxWord)
            /\ First(s, n) <= MaxWord => FirstWord(s, n) = First(s, n)
<1> DEFINE Good(n) == /\ First(s, n) \in Nat /\ FirstWord(s, n) \in Nat
                      /\ FirstSat(s, n) = AtMost(First(s, n), MaxWord)
                      /\ First(s, n) <= MaxWord => FirstWord(s, n) = First(s, n)
           P == {n \in Nat : n <= Len(s) => Good(n)}
<1>0. Len(s) \in Nat /\ MaxWord \in Nat
  BY LenProperties, LengthsAssumption
<1>1. 0 \in P
  <2>1. First(s, 0) = 0 /\ FirstWord(s, 0) = 0 /\ FirstSat(s, 0) = 0
    BY FirstNone
  <2> QED
    BY <1>0, <2>1 DEF AtMost
<1>2. ASSUME NEW n \in P PROVE n + 1 \in P
  <2> SUFFICES ASSUME n + 1 <= Len(s) PROVE Good(n + 1)
    OBVIOUS
  <2> DEFINE m == n + 1
  <2>1. m \in 1..Len(s) /\ m - 1 = n /\ n \in Nat /\ n <= Len(s)
    BY <1>0
  <2> HIDE DEF m
  <2>2. s[m] \in Nat
    BY <2>1, ElementOfSeq
  <2>3. /\ First(s, m) = First(s, n) + s[m]
        /\ FirstWord(s, m) = (FirstWord(s, n) + s[m]) % (MaxWord + 1)
        /\ FirstSat(s, m) = AtMost(FirstSat(s, n) + s[m], MaxWord)
    BY <2>1, FirstStep
  <2>4. Good(n)
    BY <2>1
  <2> DEFINE f == First(s, n)
             w == FirstWord(s, n)
             x == s[m]
  <2>5. /\ f \in Nat /\ w \in Nat /\ x \in Nat /\ FirstSat(s, n) = AtMost(f, MaxWord)
        /\ f <= MaxWord => w = f
        /\ First(s, m) = f + x /\ FirstWord(s, m) = (w + x) % (MaxWord + 1)
        /\ FirstSat(s, m) = AtMost(AtMost(f, MaxWord) + x, MaxWord)
    BY <2>2, <2>3, <2>4
  <2> HIDE DEF f, w, x
  <2>6. AtMost(AtMost(f, MaxWord) + x, MaxWord) = AtMost(f + x, MaxWord)
    BY <1>0, <2>5 DEF AtMost
  <2>7. f + x <= MaxWord => (w + x) % (MaxWord + 1) = f + x
    <3> SUFFICES ASSUME f + x <= MaxWord PROVE (w + x) % (MaxWord + 1) = f + x
      OBVIOUS
    <3>1. w = f /\ f + x \in Nat
      BY <1>0, <2>5
    <3>2. (f + x) % (MaxWord + 1) = f + x
      BY <1>0, <3>1, SmallMod, Zenon
    <3> QED
      BY <3>1, <3>2
  <2>8. (w + x) % (MaxWord + 1) \in Nat
    BY <1>0, <2>5
  <2>9. Good(m)
    BY <2>5, <2>6, <2>7, <2>8
  <2> QED
    BY <2>9 DEF m
<1>3. P = Nat
  <2>1. P \in SUBSET Nat
    OBVIOUS
  <2> HIDE DEF P
  <2> QED
    BY <1>1, <1>2, <2>1, Sums!NatSetInduction, Zenon
<1> QED
  BY <1>0, <1>3

(* The first are no more than more of them, and each is part of the sum.   *)
LEMMA FirstGrows ==
  ASSUME NEW s \in Seq(Nat), NEW m \in 0..Len(s)
  PROVE  \A n \in m..Len(s) : First(s, m) <= First(s, n)
<1> DEFINE P == {n \in Nat : m <= n /\ n <= Len(s) => First(s, m) <= First(s, n)}
<1>0. Len(s) \in Nat /\ First(s, m) \in Nat
  BY LenProperties, SumsAre
<1>1. 0 \in P
  <2>1. m <= 0 => m = 0
    OBVIOUS
  <2> QED
    BY <1>0, <2>1
<1>2. ASSUME NEW n \in P PROVE n + 1 \in P
  <2> SUFFICES ASSUME m <= n + 1, n + 1 <= Len(s) PROVE First(s, m) <= First(s, n + 1)
    OBVIOUS
  <2>1. n + 1 \in 1..Len(s) /\ (n + 1) - 1 = n /\ n \in 0..Len(s)
    BY <1>0
  <2>2. s[n + 1] \in Nat /\ First(s, n) \in Nat
    BY <2>1, ElementOfSeq, SumsAre, Zenon
  <2>3. First(s, n + 1) = First(s, n) + s[n + 1]
    BY <2>1, FirstStep
  <2>4. CASE m <= n
    BY <1>0, <2>1, <2>2, <2>3, <2>4
  <2>5. CASE m = n + 1
    BY <1>0, <2>5
  <2> QED
    BY <2>1, <2>4, <2>5
<1>3. P = Nat
  <2>1. P \in SUBSET Nat
    OBVIOUS
  <2> HIDE DEF P
  <2> QED
    BY <1>1, <1>2, <2>1, Sums!NatSetInduction, Zenon
<1> QED
  BY <1>0, <1>3

LEMMA PartOfSum ==
  ASSUME NEW s \in Seq(Nat)
  PROVE  /\ TrueSum(s) \in Nat
         /\ TotalOf(s) = AtMost(TrueSum(s), MaxWord)
         /\ \A n \in 0..Len(s) : First(s, n) <= TrueSum(s)
         /\ \A n \in 1..Len(s) : s[n] <= TrueSum(s)
<1>1. Len(s) \in Nat /\ Len(s) \in 0..Len(s)
  BY LenProperties
<1>2. /\ First(s, Len(s)) = TrueSum(s) /\ FirstSat(s, Len(s)) = TotalOf(s)
  BY FirstAll
<1>3. TrueSum(s) \in Nat /\ TotalOf(s) = AtMost(TrueSum(s), MaxWord)
  BY <1>1, <1>2, SumsAre
<1>4. \A n \in 0..Len(s) : First(s, n) <= TrueSum(s)
  <2> TAKE n \in 0..Len(s)
  <2>1. Len(s) \in n..Len(s)
    BY <1>1
  <2> QED
    BY <1>2, <2>1, FirstGrows
<1>5. \A n \in 1..Len(s) : s[n] <= TrueSum(s)
  <2> TAKE n \in 1..Len(s)
  <2>1. n \in 0..Len(s) /\ n - 1 \in 0..Len(s)
    BY <1>1
  <2>2. First(s, n) = First(s, n - 1) + s[n] /\ First(s, n - 1) \in Nat /\ s[n] \in Nat
    BY <2>1, FirstStep, SumsAre, ElementOfSeq
  <2>3. First(s, n) <= TrueSum(s)
    BY <1>4, <2>1
  <2> QED
    BY <1>3, <2>2, <2>3
<1> QED
  BY <1>3, <1>4, <1>5

(* What is no larger one by one is no larger together. *)
LEMMA SumGrows ==
  ASSUME NEW s \in Seq(Nat), NEW t \in Seq(Nat), Len(s) = Len(t),
         \A n \in 1..Len(s) : s[n] <= t[n]
  PROVE  TrueSum(s) <= TrueSum(t)
<1> DEFINE P == {n \in Nat : n <= Len(s) => First(s, n) <= First(t, n)}
<1>0. Len(s) \in Nat
  BY LenProperties
<1>1. 0 \in P
  BY FirstNone
<1>2. ASSUME NEW n \in P PROVE n + 1 \in P
  <2> SUFFICES ASSUME n + 1 <= Len(s) PROVE First(s, n + 1) <= First(t, n + 1)
    OBVIOUS
  <2> DEFINE m == n + 1
  <2>1. m \in 1..Len(s) /\ m - 1 = n /\ n \in 0..Len(s) /\ First(s, n) <= First(t, n)
    BY <1>0
  <2> HIDE DEF m
  <2>2. First(s, m) = First(s, n) + s[m] /\ First(t, m) = First(t, n) + t[m]
    BY <2>1, FirstStep
  <2>3. s[m] \in Nat /\ t[m] \in Nat /\ First(s, n) \in Nat /\ First(t, n) \in Nat /\ s[m] <= t[m]
    BY <2>1, ElementOfSeq, SumsAre, Zenon
  <2>4. First(s, m) <= First(t, m)
    BY <2>1, <2>2, <2>3
  <2> QED
    BY <2>4 DEF m
<1>3. P = Nat
  <2>1. P \in SUBSET Nat
    OBVIOUS
  <2> HIDE DEF P
  <2> QED
    BY <1>1, <1>2, <2>1, Sums!NatSetInduction, Zenon
<1>4. First(s, Len(s)) <= First(t, Len(s))
  BY <1>0, <1>3
<1> QED
  BY <1>4, FirstAll

-----------------------------------------------------------------------------
(* What one segment costs.  From two frames on, a key and a golden open    *)
(* every gop that holds more than a single last frame.                     *)
Openers(f, g) == IF f % g <= 1 THEN f \div g ELSE f \div g + 1

LEMMA Division ==
  ASSUME NEW f \in Nat, NEW g \in Nat \ {0}
  PROVE  /\ f \div g \in Nat /\ f % g \in 0..(g - 1)
         /\ f = g * (f \div g) + (f % g)
OBVIOUS

LEMMA DividesOnce ==
  ASSUME NEW q \in Nat, NEW g \in Nat \ {0}, NEW r \in 0..(g - 1), NEW f, f = g * q + r
  PROVE  f \div g = q
OBVIOUS

LEMMA RoundedUp ==
  ASSUME NEW f \in Nat, NEW g \in Nat \ {0}
  PROVE  CeilDiv(f, g) = IF f % g = 0 THEN f \div g ELSE f \div g + 1
<1> DEFINE q == f \div g
           r == f % g
<1>1. q \in Nat /\ r \in 0..(g - 1) /\ f = g * q + r
  BY Division, Zenon
<1> HIDE DEF q, r
<1>2. CASE r = 0
  <2>1. g - 1 \in 0..(g - 1) /\ f + g - 1 = g * q + (g - 1)
    BY <1>1, <1>2
  <2>2. (f + g - 1) \div g = q
    BY <1>1, <2>1, DividesOnce
  <2> QED
    BY <1>2, <2>2 DEF CeilDiv, q, r
<1>3. CASE r # 0
  <2>1. r - 1 \in 0..(g - 1) /\ f + g - 1 = g * (q + 1) + (r - 1) /\ q + 1 \in Nat
    BY <1>1, <1>3
  <2>2. (f + g - 1) \div g = q + 1
    BY <1>1, <2>1, DividesOnce
  <2> QED
    BY <1>3, <2>2 DEF CeilDiv, q, r
<1> QED
  BY <1>2, <1>3

(* There are as many openers as gops in one frame less. *)
LEMMA OpenersLie ==
  ASSUME NEW f \in Nat, NEW g \in Nat, f >= 2, g >= 2
  PROVE  /\ Openers(f, g) \in Nat /\ 2 * Openers(f, g) <= f
         /\ g * Openers(f, g) >= f - 1 /\ g * (Openers(f, g) - 1) < f - 1
<1> DEFINE q == f \div g
           r == f % g
           n == Openers(f, g)
<1>0. g \in Nat \ {0}
  OBVIOUS
<1>1. q \in Nat /\ r \in 0..(g - 1) /\ f = g * q + r
  BY <1>0, Division, Zenon
<1>2. n = IF r <= 1 THEN q ELSE q + 1
  BY DEF Openers
<1> HIDE DEF q, r, n
<1>3. n \in Nat
  BY <1>1, <1>2
<1>4. g * n >= f - 1 /\ g * (n - 1) < f - 1
  <2>1. CASE r <= 1
    <3>1. n = q /\ g * (q - 1) = g * q - g
      BY <1>1, <1>2, <2>1
    <3> QED
      BY <1>1, <2>1, <3>1
  <2>2. CASE r >= 2
    <3>1. n = q + 1 /\ n - 1 = q /\ g * (q + 1) = g * q + g
      BY <1>1, <1>2, <2>2
    <3> QED
      BY <1>1, <2>2, <3>1
  <2> QED
    BY <1>1, <2>1, <2>2
<1>5. 2 * n <= f
  <2>1. \A m \in Nat : 2 * m <= g * m
    <3> TAKE m \in Nat
    <3> QED
      OBVIOUS
  <2>2. n = 0 \/ n - 1 \in Nat
    BY <1>3
  <2>3. CASE n - 1 \in Nat
    <3>1. 2 * (n - 1) <= g * (n - 1)
      BY <2>1, <2>3
    <3> DEFINE z == g * (n - 1)
    <3>2. z \in Int
      BY <1>3
    <3>3. 2 * (n - 1) <= z /\ z < f - 1
      BY <1>4, <3>1
    <3> HIDE DEF z
    <3> QED
      BY <1>3, <3>2, <3>3
  <2> QED
    BY <2>2, <2>3
<1> QED
  BY <1>3, <1>4, <1>5 DEF n

LEMMA TwoOpenEveryGop ==
  ASSUME NEW f \in Nat, NEW g \in Nat, f >= 2, g >= 2
  PROVE  KeysOf(f, g) = Openers(f, g) /\ GoldensOf(f, g) = Openers(f, g)
<1> DEFINE q == f \div g
           r == f % g
<1>0. g \in Nat \ {0}
  OBVIOUS
<1>1. q \in Nat /\ r \in 0..(g - 1) /\ f = g * q + r
  BY <1>0, Division, Zenon
<1>2. CeilDiv(f, g) = IF r = 0 THEN q ELSE q + 1
  BY RoundedUp
<1>3. /\ KeysOf(f, g) = IF f > g /\ r = 1 THEN q ELSE CeilDiv(f, g)
      /\ GoldensOf(f, g) = IF r = 1 THEN q ELSE CeilDiv(f, g)
      /\ Openers(f, g) = IF r <= 1 THEN q ELSE q + 1
  BY DEF KeysOf, GoldensOf, Openers
<1> HIDE DEF q, r
<1>4. r = 1 => f > g
  <2> SUFFICES ASSUME r = 1 PROVE f > g
    OBVIOUS
  <2>1. q # 0
    BY <1>1
  <2>2. g * q >= g
    BY <1>1, <2>1
  <2> QED
    BY <1>1, <2>2
<1> QED
  BY <1>1, <1>2, <1>3, <1>4

LEMMA OneFrameCounted ==
  ASSUME NEW g \in Nat, g >= 2
  PROVE  KeysOf(1, g) = 1 /\ GoldensOf(1, g) = 0
<1>1. 1 \div g = 0 /\ 1 % g = 1
  OBVIOUS
<1>2. CeilDiv(1, g) = 1
  BY <1>1, RoundedUp
<1> QED
  BY <1>1, <1>2 DEF KeysOf, GoldensOf

(* A longer gop has no more openers. *)
LEMMA OpenersShrink ==
  ASSUME NEW f \in Nat, NEW g \in Nat, NEW h \in Nat, f >= 2, g >= 2, h >= g
  PROVE  Openers(f, h) <= Openers(f, g)
<1> DEFINE n == Openers(f, g)
           m == Openers(f, h)
<1>1. n \in Nat /\ m \in Nat /\ g * n >= f - 1 /\ h * (m - 1) < f - 1
  BY OpenersLie
<1> HIDE DEF n, m
<1>2. m <= n
  <2> SUFFICES ASSUME m > n PROVE FALSE
    BY <1>1
  <2>1. g * n <= h * n
    BY <1>1
  <2>2. h * n <= h * (m - 1)
    BY <1>1
  <2> DEFINE x == g * n
             y == h * n
             z == h * (m - 1)
  <2>3. x \in Int /\ y \in Int /\ z \in Int /\ x >= f - 1 /\ z < f - 1 /\ x <= y /\ y <= z
    BY <1>1, <2>1, <2>2
  <2> HIDE DEF x, y, z
  <2> QED
    BY <2>3
<1> QED
  BY <1>2 DEF n, m


(* A segment's size, by its openers: more of them are never cheaper.       *)
SizeOf(f, n) == n * KeySize + n * GoldenSize + (f - n - n) * ShowSize

LEMMA SizeParts ==
  /\ KeySize \in Nat /\ GoldenSize \in Nat /\ ShowSize \in Nat
  /\ ShowSize <= KeySize /\ ShowSize <= GoldenSize
BY LengthsAssumption

LEMMA MoreOpenersCost ==
  ASSUME NEW f \in Nat, NEW m \in Nat, NEW n \in Nat, m <= n, 2 * n <= f
  PROVE  SizeOf(f, m) \in Nat /\ SizeOf(f, n) \in Nat /\ SizeOf(f, m) <= SizeOf(f, n)
<1> DEFINE d == n - m
           e == f - n - n
<1>0. d \in Nat /\ e \in Nat /\ n = m + d /\ f - m - m = e + d + d
  OBVIOUS
<1> HIDE DEF d, e
<1>1. /\ n * KeySize = m * KeySize + d * KeySize
      /\ n * GoldenSize = m * GoldenSize + d * GoldenSize
      /\ (e + d + d) * ShowSize = e * ShowSize + d * ShowSize + d * ShowSize
  BY <1>0, SizeParts
<1>2. d * ShowSize <= d * KeySize /\ d * ShowSize <= d * GoldenSize
  BY <1>0, SizeParts
<1>3. /\ m * KeySize \in Nat /\ m * GoldenSize \in Nat /\ e * ShowSize \in Nat
      /\ d * KeySize \in Nat /\ d * GoldenSize \in Nat /\ d * ShowSize \in Nat
  BY <1>0, SizeParts
<1>4. /\ SizeOf(f, n) = n * KeySize + n * GoldenSize + e * ShowSize
      /\ SizeOf(f, m) = m * KeySize + m * GoldenSize + (e + d + d) * ShowSize
  BY <1>0 DEF SizeOf, e
<1> DEFINE mk == m * KeySize
           mg == m * GoldenSize
           es == e * ShowSize
           dk == d * KeySize
           dg == d * GoldenSize
           ds == d * ShowSize
<1>5. /\ mk \in Nat /\ mg \in Nat /\ es \in Nat /\ dk \in Nat /\ dg \in Nat /\ ds \in Nat
      /\ ds <= dk /\ ds <= dg
      /\ SizeOf(f, n) = (mk + dk) + (mg + dg) + es
      /\ SizeOf(f, m) = mk + mg + (es + ds + ds)
  BY <1>1, <1>2, <1>3, <1>4
<1> HIDE DEF mk, mg, es, dk, dg, ds
<1> QED
  BY <1>5

LEMMA SizeByOpeners ==
  ASSUME NEW f \in Nat, NEW g \in Nat, f >= 2, g >= 2
  PROVE  SegmentSize(f, g) = SizeOf(f, Openers(f, g))
BY TwoOpenEveryGop DEF SegmentSize, SizeOf

LEMMA OneFrameSize ==
  ASSUME NEW g \in Nat, g >= 2
  PROVE  SegmentSize(1, g) = KeySize
<1>1. SegmentSize(1, g) = 1 * KeySize + 0 * GoldenSize + (1 - 1 - 0) * ShowSize
  BY OneFrameCounted DEF SegmentSize
<1> QED
  BY <1>1, SizeParts

(* A longer gop never costs more, and once it holds the segment nothing    *)
(* less.                                                                   *)
LEMMA SegmentShrinks ==
  ASSUME NEW f \in Nat, NEW g \in Nat, NEW h \in Nat, f >= 1, g >= 2, h >= g
  PROVE  /\ SegmentSize(f, g) \in Nat /\ SegmentSize(f, h) \in Nat
         /\ SegmentSize(f, h) <= SegmentSize(f, g)
<1>0. h >= 2
  OBVIOUS
<1>1. CASE f = 1
  BY <1>0, <1>1, OneFrameSize, SizeParts
<1>2. CASE f # 1
  <2>1. f >= 2
    BY <1>2
  <2>2. /\ Openers(f, g) \in Nat /\ 2 * Openers(f, g) <= f
        /\ Openers(f, h) \in Nat /\ Openers(f, h) <= Openers(f, g)
    BY <1>0, <2>1, OpenersLie, OpenersShrink
  <2>3. /\ SizeOf(f, Openers(f, h)) \in Nat /\ SizeOf(f, Openers(f, g)) \in Nat
        /\ SizeOf(f, Openers(f, h)) <= SizeOf(f, Openers(f, g))
    BY <2>2, MoreOpenersCost
  <2>4. /\ SegmentSize(f, g) = SizeOf(f, Openers(f, g))
        /\ SegmentSize(f, h) = SizeOf(f, Openers(f, h))
    BY <1>0, <2>1, SizeByOpeners
  <2> QED
    BY <2>3, <2>4
<1> QED
  BY <1>1, <1>2

LEMMA SegmentSettles ==
  ASSUME NEW f \in Nat, NEW g \in Nat, NEW h \in Nat, f >= 1, g >= 2, g >= f, h >= g
  PROVE  SegmentSize(f, h) = SegmentSize(f, g)
<1>0. h >= 2 /\ h >= f
  OBVIOUS
<1>1. CASE f = 1
  BY <1>0, <1>1, OneFrameSize
<1>2. CASE f # 1
  <2>1. f >= 2
    BY <1>2
  <2>2. \A k \in Nat : k >= 2 /\ k >= f => Openers(f, k) = 1
    <3> TAKE k \in Nat
    <3> SUFFICES ASSUME k >= 2, k >= f PROVE Openers(f, k) = 1
      OBVIOUS
    <3> DEFINE n == Openers(f, k)
    <3>1. n \in Nat /\ k * n >= f - 1 /\ k * (n - 1) < f - 1
      BY <2>1, OpenersLie
    <3> HIDE DEF n
    <3>2. n # 0
      <4>1. k * 0 = 0
        OBVIOUS
      <4> QED
        BY <2>1, <3>1, <4>1
    <3>3. n < 2
      <4> SUFFICES ASSUME n >= 2 PROVE FALSE
        BY <3>1
      <4>1. k <= k * (n - 1)
        BY <3>1
      <4> DEFINE z == k * (n - 1)
      <4>2. z \in Int /\ k <= z /\ z < f - 1
        BY <3>1, <4>1
      <4> HIDE DEF z
      <4> QED
        BY <4>2
    <3> QED
      BY <3>1, <3>2, <3>3 DEF n
  <2> QED
    BY <1>0, <2>1, <2>2, SizeByOpeners
<1> QED
  BY <1>1, <1>2

(* The same of all segments together.                                      *)
Lengths == {s \in Seq(Nat) : \A k \in DOMAIN s : s[k] >= 1}

LEMMA SegmentsShrink ==
  ASSUME NEW s \in Lengths, NEW g \in Nat, NEW h \in Nat, g >= 2, h >= g
  PROVE  SizeAt(s, g) \in Nat /\ SizeAt(s, h) \in Nat /\ SizeAt(s, h) <= SizeAt(s, g)
<1> DEFINE S == [k \in DOMAIN s |-> SegmentSize(s[k], g)]
           T == [k \in DOMAIN s |-> SegmentSize(s[k], h)]
<1>1. Len(s) \in Nat /\ DOMAIN s = 1..Len(s)
  BY LenProperties DEF Lengths
<1>2. \A k \in 1..Len(s) : /\ SegmentSize(s[k], g) \in Nat /\ SegmentSize(s[k], h) \in Nat
                           /\ SegmentSize(s[k], h) <= SegmentSize(s[k], g)
  <2> TAKE k \in 1..Len(s)
  <2>1. s[k] \in Nat /\ s[k] >= 1
    BY <1>1, ElementOfSeq DEF Lengths
  <2> QED
    BY <2>1, SegmentShrinks
<1>3. S \in Seq(Nat) /\ T \in Seq(Nat) /\ Len(S) = Len(s) /\ Len(T) = Len(s)
  BY <1>1, <1>2
<1>4. \A k \in 1..Len(T) : T[k] <= S[k]
  BY <1>1, <1>2, <1>3
<1>5. SizeAt(s, g) = TrueSum(S) /\ SizeAt(s, h) = TrueSum(T)
  BY DEF SizeAt
<1> HIDE DEF S, T
<1> QED
  BY <1>3, <1>4, <1>5, SumGrows, PartOfSum

LEMMA SegmentsSettle ==
  ASSUME NEW s \in Lengths, NEW g \in Nat, NEW h \in Nat, g >= 2, g >= TrueSum(s), h >= g
  PROVE  SizeAt(s, h) = SizeAt(s, g)
<1>1. s \in Seq(Nat) /\ Len(s) \in Nat /\ DOMAIN s = 1..Len(s)
  BY LenProperties DEF Lengths
<1>2. \A k \in DOMAIN s : SegmentSize(s[k], h) = SegmentSize(s[k], g)
  <2> TAKE k \in DOMAIN s
  <2>1. s[k] \in Nat /\ s[k] >= 1 /\ s[k] <= TrueSum(s) /\ TrueSum(s) \in Nat
    BY <1>1, ElementOfSeq, PartOfSum DEF Lengths
  <2>2. g >= s[k]
    BY <2>1
  <2> QED
    BY <2>1, <2>2, SegmentSettles
<1>3. [k \in DOMAIN s |-> SegmentSize(s[k], h)] = [k \in DOMAIN s |-> SegmentSize(s[k], g)]
  BY <1>2
<1> QED
  BY <1>3 DEF SizeAt

-----------------------------------------------------------------------------
(* The lengths a command asks for.                                         *)
ExpandArgs ==
    [cmd : {"expand"}, entries : Seq(Durations) \ {<< >>}, frames : FrameArgs,
     total : Totals, rate : Rates, gop : GopArgs, seek : SeekArgs, budget : Budgets]

PlanArgs == [cmd : {"plan"}, total : Totals \ {Unset}, rate : Rates]

LEMMA RoundType ==
  ASSUME NEW ms \in Nat, NEW rate \in Rates
  PROVE  RoundFrames(ms, rate) \in Nat
<1> DEFINE p == rate.num
           q == rate.den
           x == 2 * ms * p + 1000 * q
           y == 2000 * q
<1>1. p \in Nat /\ q \in Nat \ {0}
  BY LengthsAssumption
<1>2. RoundFrames(ms, rate) = AtMost(x \div y, MaxWord) /\ MaxWord \in Nat
  BY LengthsAssumption DEF RoundFrames
<1> HIDE DEF p, q
<1>3. x \in Nat /\ y \in Nat \ {0}
  <2>1. 2 * ms * p \in Nat
    BY <1>1
  <2> QED
    BY <1>1, <2>1
<1> HIDE DEF x, y
<1>4. x \div y \in Nat
  BY <1>3
<1> QED
  BY <1>2, <1>4 DEF AtMost

LEMMA OwnType ==
  ASSUME NEW d \in Durations, NEW rate \in Rates
  PROVE  Own(d, rate) \in Nat /\ Own(d, rate) >= 1
<1>1. d.n \in Nat
  BY DEF Durations, Open
<1>2. RoundFrames(d.n, rate) \in Nat
  BY <1>1, RoundType
<1> QED
  BY <1>1, <1>2 DEF Own, AtLeast

LEMMA TotalType ==
  ASSUME NEW a \in ExpandArgs, TotalFrames(a) # Unset
  PROVE  TotalFrames(a) \in Nat
<1>1. a.frames \in FrameArgs /\ a.total \in Totals /\ a.rate \in Rates
  BY DEF ExpandArgs
<1>2. CASE a.frames # Unset
  BY <1>1, <1>2, LengthsAssumption DEF TotalFrames
<1>3. CASE a.frames = Unset
  <2>1. a.total # Unset /\ TotalFrames(a) = RoundFrames(a.total, a.rate)
    BY <1>3 DEF TotalFrames
  <2>2. a.total \in Nat
    BY <1>1, <2>1, LengthsAssumption
  <2> QED
    BY <1>1, <2>1, <2>2, RoundType
<1> QED
  BY <1>2, <1>3

LEMMA GopType ==
  ASSUME NEW a \in ExpandArgs
  PROVE  /\ FirstGop(a) \in Nat
         /\ a.budget # Unset => a.budget \in Nat /\ FirstGop(a) >= 2
<1>1. /\ a.gop \in GopArgs /\ a.seek \in SeekArgs /\ a.rate \in Rates /\ a.budget \in Budgets
  BY DEF ExpandArgs
<1>2. a.gop \in Nat /\ (a.seek # Unset => a.seek \in Nat) /\ (a.budget # Unset => a.budget \in Nat)
  BY <1>1, LengthsAssumption, Zenon
<1>3. a.seek # Unset => RoundFrames(a.seek, a.rate) \in Nat
  BY <1>1, <1>2, RoundType
<1>4. resolve_gop(a) \in Nat
  BY <1>2, <1>3 DEF resolve_gop, AtLeast
<1> QED
  BY <1>2, <1>4 DEF FirstGop, AtLeast

(* A playlist that is not refused has a length of at least one frame for   *)
(* every entry, and only its last entry can be open.                       *)
LEMMA SegmentsType ==
  ASSUME NEW a \in ExpandArgs, ~SegmentsRefused(a)
  PROVE  /\ segment_frames(a) \in Lengths
         /\ Len(segment_frames(a)) = Len(a.entries) /\ Len(a.entries) \in Nat \ {0}
         /\ \A k \in 1..Len(a.entries) :
              /\ a.entries[k] # Open => segment_frames(a)[k] = Own(a.entries[k], a.rate)
              /\ a.entries[k] = Open =>
                   /\ k = Len(a.entries)
                   /\ TotalFrames(a) \in Nat
                   /\ segment_frames(a)[k]
                        = TotalFrames(a) - WordSum(SubSeq(segment_frames(a), 1, k - 1))
<1> DEFINE es == a.entries
           n == Len(es)
           own == [j \in 1..n |-> Own(es[j], a.rate)]
           ss == segment_frames(a)
<1>1. es \in Seq(Durations) /\ n \in Nat \ {0} /\ DOMAIN es = 1..n /\ a.rate \in Rates
  <2>1. es \in Seq(Durations) /\ es # << >> /\ a.rate \in Rates
    BY DEF ExpandArgs
  <2> QED
    BY <2>1, LenProperties, EmptySeq
<1>2. /\ \A k \in 1..(n - 1) : es[k] # Open
      /\ es[n] = Open => TotalFrames(a) # Unset /\ ~(TotalFrames(a) <= Used(es, n, a.rate))
  BY DEF SegmentsRefused
<1>3. \A k \in 1..n : Own(es[k], a.rate) \in Nat /\ Own(es[k], a.rate) >= 1
  <2> TAKE k \in 1..n
  <2>1. es[k] \in Durations
    BY <1>1, ElementOfSeq
  <2> QED
    BY <1>1, <2>1, OwnType
<1>4. ss = [k \in 1..n |-> IF es[k] = Open THEN TotalFrames(a) - Used(es, k, a.rate)
                           ELSE Own(es[k], a.rate)]
  BY <1>1 DEF segment_frames
<1>5. \A k \in 1..n : Used(es, k, a.rate) \in Nat
  <2> TAKE k \in 1..n
  <2> DEFINE us == [j \in 1..(k - 1) |-> Own(es[j], a.rate)]
  <2>1. us \in Seq(Nat)
    BY <1>1, <1>3
  <2> HIDE DEF us
  <2>2. Len(us) \in Nat /\ FirstWord(us, Len(us)) = WordSum(us)
    BY <2>1, LenProperties, FirstAll
  <2>3. WordSum(us) \in Nat
    BY <2>1, <2>2, SumsAre
  <2> QED
    BY <2>3 DEF Used, us
<1>6. \A k \in 1..n : es[k] = Open =>
         /\ k = n /\ TotalFrames(a) \in Nat /\ TotalFrames(a) > Used(es, k, a.rate)
  <2> TAKE k \in 1..n
  <2> SUFFICES ASSUME es[k] = Open
               PROVE  /\ k = n /\ TotalFrames(a) \in Nat
                      /\ TotalFrames(a) > Used(es, k, a.rate)
    OBVIOUS
  <2>1. k = n
    BY <1>1, <1>2
  <2>2. TotalFrames(a) \in Nat
    BY <1>2, <2>1, TotalType
  <2> QED
    BY <1>2, <1>5, <2>1, <2>2
<1>7. \A k \in 1..n : ss[k] \in Nat /\ ss[k] >= 1
  <2> TAKE k \in 1..n
  <2>1. CASE es[k] = Open
    <3>1. ss[k] = TotalFrames(a) - Used(es, k, a.rate)
      BY <1>4, <2>1
    <3> QED
      BY <1>5, <1>6, <2>1, <3>1
  <2>2. CASE es[k] # Open
    BY <1>3, <1>4, <2>2
  <2> QED
    BY <2>1, <2>2
<1>8. ss \in Seq(Nat) /\ Len(ss) = n /\ DOMAIN ss = 1..n
  <2>1. DOMAIN ss = 1..n /\ ss = [k \in 1..n |-> ss[k]]
    BY <1>4
  <2> HIDE DEF ss
  <2>2. ss \in [1..n -> Nat]
    BY <1>7, <2>1
  <2> HIDE DEF n
  <2>3. ss \in Seq(Nat)
    BY <1>1, <2>2, SeqDef
  <2> QED
    BY <1>1, <2>1, <2>3, LenProperties
<1>9. \A k \in 1..n : es[k] = Open =>
         Used(es, k, a.rate) = WordSum(SubSeq(ss, 1, k - 1))
  <2> TAKE k \in 1..n
  <2> SUFFICES ASSUME es[k] = Open
               PROVE  Used(es, k, a.rate) = WordSum(SubSeq(ss, 1, k - 1))
    OBVIOUS
  <2>1. k = n
    BY <1>6
  <2>2. \A j \in 1..(k - 1) : ss[j] = Own(es[j], a.rate)
    BY <1>1, <1>2, <1>4, <2>1
  <2>3. SubSeq(ss, 1, k - 1) = [j \in 1..(k - 1) |-> ss[j]]
    <3> HIDE DEF ss
    <3> QED
      BY <1>1, <1>8, <2>1
  <2>4. SubSeq(ss, 1, k - 1) = [j \in 1..(k - 1) |-> Own(es[j], a.rate)]
    BY <2>2, <2>3
  <2> QED
    BY <2>4, Zenon DEF Used
<1>10. ss \in Lengths
  BY <1>7, <1>8 DEF Lengths
<1>11. \A k \in 1..n : /\ es[k] # Open => ss[k] = Own(es[k], a.rate)
                       /\ es[k] = Open => ss[k] = TotalFrames(a) - Used(es, k, a.rate)
  BY <1>4
<1> QED
  BY <1>1, <1>6, <1>8, <1>9, <1>10, <1>11

-----------------------------------------------------------------------------
(* The invariant.                                                          *)
Typed ==
    /\ phase \in {"settle", "build", "written"} => args \in ExpandArgs
    /\ phase \in {"table", "projected"} => args \in PlanArgs
    /\ phase = "projected" => PlanTotal >= 2

Building == phase \in {"build", "written"}

\* What is built is what was settled, and nothing refused is written.
Settled ==
    /\ Building => /\ ~SegmentsRefused(args) /\ segs = segment_frames(args)
                   /\ gop \in Nat /\ gop >= FirstGop(args)
    /\ Written => ~BuildRefused(segs, gop)

\* The gop in hand is the first one, or at most twice one that did not fit.
Raised(a, ss, g) ==
    \E h \in FirstGop(a)..g : g <= 2 * h /\ SizeAt(ss, h) > a.budget

Searched ==
    /\ Building /\ gop # FirstGop(args) => args.budget # Unset /\ Raised(args, segs, gop)
    /\ Written /\ ~fits => /\ args.budget # Unset /\ SizeAt(segs, gop) > args.budget
                           /\ gop >= TotalOf(segs)

IInv == Typed /\ Settled /\ Searched

LEMMA EntriesType ==
  ASSUME NEW pl \in Playlists \cup {Unset}, NEW f \in FrameArgs, NEW t \in Totals
  PROVE  Entries(pl, f, t) \in Seq(Durations) \ {<< >>}
<1>1. CASE pl # Unset
  BY <1>1, LengthsAssumption DEF Entries
<1>2. CASE pl = Unset
  <2> DEFINE e == IF f # Unset \/ t = Unset THEN Open ELSE Secs(t)
  <2>1. e \in Durations
    BY LengthsAssumption DEF Durations, Open, Secs
  <2>2. Entries(pl, f, t) = <<e>>
    BY <1>2 DEF Entries
  <2> HIDE DEF e
  <2> QED
    BY <2>1, <2>2
<1> QED
  BY <1>1, <1>2

LEMMA InitHolds == Init => IInv
<1> SUFFICES ASSUME Init PROVE IInv
  OBVIOUS
<1>1. \/ phase = "settle" /\ args \in ExpandArgs
      \/ phase = "table" /\ args \in PlanArgs
  <2>1. PICK r \in Rates, f \in FrameArgs, t \in Totals :
          \/ /\ \E pl \in Playlists \cup {Unset}, g \in GopArgs, s \in SeekArgs, b \in Budgets :
                  args = [cmd |-> "expand", entries |-> Entries(pl, f, t), frames |-> f,
                          total |-> t, rate |-> r, gop |-> g, seek |-> s, budget |-> b]
             /\ phase = "settle"
          \/ /\ t # Unset /\ phase = "table"
             /\ args = [cmd |-> "plan", total |-> t, rate |-> r]
    BY DEF Init
  <2>2. CASE phase = "settle"
    <3>1. PICK pl \in Playlists \cup {Unset}, g \in GopArgs, s \in SeekArgs, b \in Budgets :
            args = [cmd |-> "expand", entries |-> Entries(pl, f, t), frames |-> f,
                    total |-> t, rate |-> r, gop |-> g, seek |-> s, budget |-> b]
      BY <2>1, <2>2
    <3>2. args \in ExpandArgs
      BY <3>1, EntriesType, Zenon DEF ExpandArgs
    <3> QED
      BY <2>2, <3>2
  <2>3. CASE phase # "settle"
    BY <2>1, <2>3 DEF PlanArgs
  <2> QED
    BY <2>2, <2>3
<1> QED
  BY <1>1 DEF IInv, Typed, Settled, Searched, Building, Written

(* What the search compares is a number.                                   *)
LEMMA BuildsLengths ==
  ASSUME IInv, Building
  PROVE  /\ args \in ExpandArgs /\ segs \in Lengths /\ gop \in Nat /\ gop >= FirstGop(args)
         /\ TrueSum(segs) \in Nat /\ TotalOf(segs) = AtMost(TrueSum(segs), MaxWord)
<1>1. /\ args \in ExpandArgs /\ ~SegmentsRefused(args) /\ segs = segment_frames(args)
      /\ gop \in Nat /\ gop >= FirstGop(args)
  BY DEF IInv, Typed, Settled, Building
<1>2. segs \in Lengths
  BY <1>1, SegmentsType
<1>3. segs \in Seq(Nat)
  BY <1>2 DEF Lengths
<1> QED
  BY <1>1, <1>2, <1>3, PartOfSum

LEMMA StepHolds == IInv /\ [Next]_vars => IInv'
<1> SUFFICES ASSUME IInv, [Next]_vars PROVE IInv'
  OBVIOUS
<1>1. CASE Settle
  <2>1. phase = "settle" /\ args' = args /\ fits' = fits /\ args \in ExpandArgs
    BY <1>1 DEF Settle, IInv, Typed
  <2>2. CASE SegmentsRefused(args)
    <3>1. phase' = "refused"
      BY <1>1, <2>2 DEF Settle
    <3> QED
      BY <3>1 DEF IInv, Typed, Settled, Searched, Building, Written
  <2>3. CASE ~SegmentsRefused(args)
    <3>1. phase' = "build" /\ segs' = segment_frames(args) /\ gop' = FirstGop(args)
      BY <1>1, <2>3 DEF Settle
    <3>2. FirstGop(args) \in Nat /\ FirstGop(args) >= FirstGop(args)
      BY <2>1, GopType
    <3>3. Typed'
      BY <2>1, <3>1 DEF Typed
    <3>4. Settled'
      BY <2>1, <2>3, <3>1, <3>2 DEF Settled, Written
    <3>5. Searched'
      BY <2>1, <3>1 DEF Searched, Written
    <3> QED
      BY <3>3, <3>4, <3>5 DEF IInv
  <2> QED
    BY <2>2, <2>3
<1>2. CASE BuildRefuses
  <2>1. phase' = "refused"
    BY <1>2 DEF BuildRefuses
  <2> QED
    BY <2>1 DEF IInv, Typed, Settled, Searched, Building, Written
<1>3. CASE Build
  <2>1. /\ phase = "build" /\ ~BuildRefused(segs, gop)
        /\ args' = args /\ segs' = segs
    BY <1>3 DEF Build
  <2>2. /\ args \in ExpandArgs /\ segs \in Lengths /\ gop \in Nat /\ gop >= FirstGop(args)
        /\ TrueSum(segs) \in Nat /\ TotalOf(segs) = AtMost(TrueSum(segs), MaxWord)
    BY <2>1, BuildsLengths DEF Building
  <2>3. /\ FirstGop(args) \in Nat
        /\ args.budget # Unset => args.budget \in Nat /\ FirstGop(args) >= 2
    BY <2>2, GopType
  <2>4. gop >= 2
    BY <2>1, <2>2 DEF BuildRefused
  <2>5. SizeAt(segs, gop) \in Nat
    BY <2>2, <2>4, SegmentsShrink
  <2>6. /\ ~SegmentsRefused(args) /\ segs = segment_frames(args)
        /\ gop # FirstGop(args) => args.budget # Unset /\ Raised(args, segs, gop)
    BY <2>1 DEF IInv, Settled, Searched, Building
  <2>7. ~fits' => args.budget # Unset /\ SizeAt(segs, gop) > args.budget
    <3>1. fits' = (args.budget = Unset \/ SizeAt(segs, gop) <= args.budget)
      BY <1>3 DEF Build
    <3> DEFINE z == SizeAt(segs, gop)
               b == args.budget
    <3>2. z \in Nat /\ (b # Unset => b \in Nat) /\ (~fits' => b # Unset /\ ~(z <= b))
      BY <2>3, <2>5, <3>1, Zenon
    <3> HIDE DEF z, b
    <3>3. ~fits' => b # Unset /\ z > b
      BY <3>2
    <3> QED
      BY <3>3 DEF z, b
  <2>8. CASE fits' \/ Exhausted(gop, TotalOf(segs))
    <3>1. phase' = "written" /\ gop' = gop
      BY <1>3, <2>8 DEF Build
    <3>2. Typed'
      BY <2>1, <2>2, <3>1 DEF Typed
    <3>3. Settled'
      BY <2>1, <2>2, <2>6, <3>1 DEF Settled
    <3>4. ~fits' => gop >= TotalOf(segs)
      BY <2>8 DEF Exhausted
    <3>5. Searched'
      BY <2>1, <2>6, <2>7, <3>1, <3>4 DEF Searched
    <3> QED
      BY <3>2, <3>3, <3>5 DEF IInv
  <2>9. CASE ~(fits' \/ Exhausted(gop, TotalOf(segs)))
    <3>1. phase' = "build" /\ gop' = Grown(gop, TotalOf(segs))
      BY <1>3, <2>1, <2>9 DEF Build
    <3>2. TotalOf(segs) \in Nat /\ gop < TotalOf(segs) /\ TotalOf(segs) <= MaxWord /\ MaxWord \in Nat
      BY <2>2, <2>9, LengthsAssumption DEF Exhausted, AtMost
    <3>3. gop' \in Nat /\ gop' >= gop /\ gop' <= 2 * gop
      BY <2>2, <3>1, <3>2 DEF Grown, AtMost
    <3>4. args.budget # Unset /\ SizeAt(segs, gop) > args.budget
      BY <2>7, <2>9
    <3>5. Raised(args, segs, gop')
      <4>1. gop \in FirstGop(args)..gop'
        BY <2>2, <2>3, <3>3
      <4> QED
        BY <3>3, <3>4, <4>1 DEF Raised
    <3>6. Typed'
      BY <2>1, <2>2, <3>1 DEF Typed
    <3>7. gop' >= FirstGop(args)
      BY <2>2, <2>3, <3>3
    <3>8. Settled'
      BY <2>1, <2>6, <3>1, <3>3, <3>7 DEF Settled, Written
    <3>9. Searched'
      BY <2>1, <3>1, <3>4, <3>5 DEF Searched, Written
    <3> QED
      BY <3>6, <3>8, <3>9 DEF IInv
  <2> QED
    BY <2>8, <2>9
<1>4. CASE Plan
  <2>1. /\ phase = "table" /\ args' = args
        /\ phase' = IF PlanTotal < 2 THEN "panicked" ELSE "projected"
    BY <1>4 DEF Plan
  <2>2. args \in PlanArgs
    BY <2>1 DEF IInv, Typed
  <2>3. PlanTotal' = PlanTotal
    BY <2>1 DEF PlanTotal
  <2>4. PlanTotal \in Nat
    <3>1. args.total \in Nat /\ args.rate \in Rates
      BY <2>2, LengthsAssumption DEF PlanArgs
    <3> QED
      BY <3>1, RoundType DEF PlanTotal
  <2>5. phase' = "projected" => PlanTotal >= 2
    BY <2>1, <2>4
  <2>6. Typed'
    BY <2>1, <2>2, <2>3, <2>5 DEF Typed
  <2>7. phase' \notin {"build", "written"}
    BY <2>1
  <2> QED
    BY <2>6, <2>7 DEF IInv, Settled, Searched, Building, Written
<1>5. CASE UNCHANGED vars
  BY <1>5 DEF vars, IInv, Typed, Settled, Searched, Building, Written, PlanTotal
<1> QED
  BY <1>1, <1>2, <1>3, <1>4, <1>5 DEF Next

LEMMA Invariant == Spec => []IInv
  BY InitHolds, StepHolds, PTL DEF Spec

-----------------------------------------------------------------------------
(* A file that is written is as long as it was asked to be, entry by entry *)
(* and, where the last one is open, in all; the sum of the others that the *)
(* code takes from the total can wrap, but not in a file the assembler     *)
(* accepts (main.rs 365-405, 436-437; assemble.rs 193-208).                *)
THEOREM LengthsAreTrue == Spec => []LengthsAreAsked
<1>1. IInv => LengthsAreAsked
  <2> SUFFICES ASSUME IInv, Written PROVE LengthsAreAsked
    BY DEF LengthsAreAsked
  <2> DEFINE es == args.entries
             n == Len(es)
  <2>1. Building /\ ~BuildRefused(segs, gop)
    BY DEF Building, Written, IInv, Settled
  <2>2. /\ args \in ExpandArgs /\ segs \in Lengths /\ ~SegmentsRefused(args)
        /\ segs = segment_frames(args)
        /\ TrueSum(segs) \in Nat /\ TotalOf(segs) = AtMost(TrueSum(segs), MaxWord)
    BY <2>1, BuildsLengths DEF IInv, Settled
  <2>3. MaxWord \in Nat /\ MaxTotal \in Nat /\ MaxTotal < MaxWord
    BY LengthsAssumption
  <2>4. TrueSum(segs) \in 2..MaxTotal
    <3>1. ~(TotalOf(segs) < 2) /\ ~(TotalOf(segs) > MaxTotal)
      BY <2>1 DEF BuildRefused
    <3> QED
      BY <2>2, <2>3, <3>1 DEF AtMost
  <2>5. /\ Len(segs) = n /\ n \in Nat \ {0} /\ segs \in Seq(Nat) /\ es \in Seq(Durations)
        /\ \A k \in 1..n :
              /\ es[k] # Open => segs[k] = Own(es[k], args.rate)
              /\ es[k] = Open => /\ TotalFrames(args) \in Nat
                                 /\ segs[k] = TotalFrames(args) - WordSum(SubSeq(segs, 1, k - 1))
    <3>1. es \in Seq(Durations)
      BY <2>2 DEF ExpandArgs
    <3> QED
      BY <2>2, <3>1, SegmentsType DEF Lengths
  <2>6. \A k \in DOMAIN segs : es[k] # Open => segs[k] = Own(es[k], args.rate)
    BY <2>5, LenProperties, Zenon
  <2>7. Last(es) = Open => TrueSum(segs) = TotalFrames(args)
    <3> SUFFICES ASSUME es[n] = Open PROVE TrueSum(segs) = TotalFrames(args)
      BY DEF Last
    <3>1. TotalFrames(args) \in Nat /\ segs[n] = TotalFrames(args) - FirstWord(segs, n - 1)
      BY <2>5 DEF FirstWord
    <3>2. n \in 1..Len(segs) /\ n - 1 \in 0..Len(segs)
      BY <2>5
    <3>3. /\ First(segs, n - 1) \in Nat /\ First(segs, n - 1) <= TrueSum(segs)
          /\ First(segs, n - 1) <= MaxWord => FirstWord(segs, n - 1) = First(segs, n - 1)
      BY <2>5, <3>2, SumsAre, PartOfSum, Zenon
    <3>4. FirstWord(segs, n - 1) = First(segs, n - 1)
      BY <2>3, <2>4, <3>3
    <3>5. TrueSum(segs) = First(segs, n - 1) + segs[n]
      BY <2>5, <3>2, FirstStep, FirstAll
    <3> QED
      BY <3>1, <3>3, <3>4, <3>5
  <2> QED
    BY <2>4, <2>6, <2>7 DEF LengthsAreAsked
<1> QED
  BY <1>1, Invariant, PTL

(* The search never takes more than twice the gop that is needed: what it  *)
(* doubled did not fit, and a longer gop never costs more; and when it     *)
(* gives up, no gop would have fitted (main.rs 789-824).                   *)
THEOREM GopIsFound == Spec => []GopMeetsBudget
<1>1. IInv => GopMeetsBudget
  <2> SUFFICES ASSUME IInv, Written PROVE GopMeetsBudget
    BY DEF GopMeetsBudget
  <2> DEFINE b == args.budget
             first == FirstGop(args)
  <2>1. Building /\ ~BuildRefused(segs, gop)
    BY DEF Building, Written, IInv, Settled
  <2>2. /\ args \in ExpandArgs /\ segs \in Lengths /\ gop \in Nat /\ gop >= first
        /\ TrueSum(segs) \in Nat /\ TotalOf(segs) = AtMost(TrueSum(segs), MaxWord)
    BY <2>1, BuildsLengths
  <2>3. /\ first \in Nat /\ (b # Unset => b \in Nat /\ first >= 2)
    BY <2>2, GopType
  <2>4. /\ gop # first => b # Unset /\ Raised(args, segs, gop)
        /\ ~fits => b # Unset /\ SizeAt(segs, gop) > b /\ gop >= TotalOf(segs)
    BY <2>1 DEF IInv, Searched
  <2>5. /\ gop >= 2 /\ ~(TotalOf(segs) > MaxTotal)
        /\ MaxTotal \in Nat /\ MaxWord \in Nat /\ MaxTotal < MaxWord
    BY <2>1, <2>2, LengthsAssumption DEF BuildRefused
  <2> HIDE DEF b, first
  <2>6. ASSUME gop # first, NEW g \in first..gop, SizeAt(segs, g) <= b
        PROVE  gop < 2 * g
    <3>1. b \in Nat /\ first >= 2
      BY <2>3, <2>4, <2>6
    <3>2. PICK h \in first..gop : gop <= 2 * h /\ SizeAt(segs, h) > b
      BY <2>4, <2>6 DEF Raised, b, first
    <3>3. g \in Nat /\ h \in Nat /\ g >= 2 /\ h >= 2
      BY <2>2, <2>3, <3>1
    <3>4. g > h
      <4> SUFFICES ASSUME h >= g PROVE FALSE
        BY <3>3
      <4>1. /\ SizeAt(segs, g) \in Nat /\ SizeAt(segs, h) \in Nat
            /\ SizeAt(segs, h) <= SizeAt(segs, g)
        BY <2>2, <3>3, SegmentsShrink
      <4> QED
        BY <2>6, <3>1, <3>2, <4>1
    <3> QED
      BY <2>2, <3>2, <3>3, <3>4
  <2>7. ASSUME ~fits, NEW g \in 2..MaxTotal
        PROVE  SizeAt(segs, g) > b
    <3>1. b \in Nat /\ SizeAt(segs, gop) > b /\ gop >= TotalOf(segs)
      BY <2>3, <2>4, <2>7
    <3>2. gop >= TrueSum(segs)
      BY <2>2, <2>5, <3>1 DEF AtMost
    <3>3. g \in Nat /\ g >= 2
      BY <2>5
    <3>4. CASE g >= gop
      BY <2>2, <2>5, <3>1, <3>2, <3>3, <3>4, SegmentsSettle
    <3>5. CASE gop >= g
      <4>1. /\ SizeAt(segs, g) \in Nat /\ SizeAt(segs, gop) \in Nat
            /\ SizeAt(segs, gop) <= SizeAt(segs, g)
        BY <2>2, <3>3, <3>5, SegmentsShrink
      <4> QED
        BY <3>1, <4>1
    <3> QED
      BY <2>2, <3>3, <3>4, <3>5
  <2> QED
    BY <2>6, <2>7 DEF GopMeetsBudget, b, first
<1> QED
  BY <1>1, Invariant, PTL

(* A segment's size at the units that are read, by its openers.            *)
ReadOf(f, n) == n * KeyRead + n * GoldenRead + (f - n - n) * ShowSize

LEMMA ReadParts ==
  /\ KeyRead \in Nat /\ GoldenRead \in Nat /\ ShowSize \in Nat
  /\ ShowSize <= KeyRead /\ ShowSize <= GoldenRead
BY LengthsAssumption

(* What is emitted, less what the rewritten headers add, is what the units *)
(* that are read would come to.                                            *)
LEMMA WithoutGrowth ==
  ASSUME NEW f \in Nat, NEW g \in Nat, f >= 2, g >= 2
  PROVE  SegmentSize(f, g) - Growth(f, g) = ReadOf(f, Openers(f, g))
<1> DEFINE n == Openers(f, g)
           rest == f - n - n
<1>1. n \in Nat /\ 2 * n <= f
  BY OpenersLie
<1>2. KeysOf(f, g) = n /\ GoldensOf(f, g) = n
  BY TwoOpenEveryGop
<1> HIDE DEF n
<1>3. /\ SegmentSize(f, g) = n * KeySize + n * GoldenSize + rest * ShowSize
      /\ Growth(f, g) = n * (KeySize - KeyRead) + n * (GoldenSize - GoldenRead)
  BY <1>2 DEF SegmentSize, Growth
<1>4. ReadOf(f, n) = n * KeyRead + n * GoldenRead + rest * ShowSize
  BY DEF ReadOf
<1>5. rest \in Nat
  BY <1>1
<1>6. /\ n * (KeySize - KeyRead) = n * KeySize - n * KeyRead
      /\ n * (GoldenSize - GoldenRead) = n * GoldenSize - n * GoldenRead
  BY <1>1, SizeParts, ReadParts
<1> HIDE DEF rest
<1> DEFINE nk == n * KeySize
           ng == n * GoldenSize
           rk == n * KeyRead
           rg == n * GoldenRead
           rs == rest * ShowSize
<1>7. nk \in Nat /\ ng \in Nat /\ rk \in Nat /\ rg \in Nat /\ rs \in Nat
  BY <1>1, <1>5, SizeParts, ReadParts
<1>8. /\ SegmentSize(f, g) = nk + ng + rs
      /\ Growth(f, g) = (nk - rk) + (ng - rg)
      /\ ReadOf(f, n) = rk + rg + rs
  BY <1>3, <1>4, <1>6
<1> HIDE DEF nk, ng, rk, rg, rs
<1>9. SegmentSize(f, g) - Growth(f, g) = ReadOf(f, n)
  BY <1>7, <1>8
<1> QED
  BY <1>9 DEF n

(* plan's projection is what the units it read would come to, or one key   *)
(* and golden more for a last single frame, less what they take the place  *)
(* of (main.rs 1178-1197).                                                 *)
LEMMA ProjectionLies ==
  ASSUME NEW f \in Nat, NEW g \in Nat, f >= 2, g >= 2
  PROVE  LET kept == SegmentSize(f, g) - Growth(f, g)
         IN Projected(g, f) \in kept..(kept + KeyRead + GoldenRead)
<1> DEFINE n == Openers(f, g)
           r == f % g
           q == f \div g
           rest == f - n - n
           c == CeilDiv(f, g)
           kept == SegmentSize(f, g) - Growth(f, g)
<1>0. g \in Nat \ {0}
  OBVIOUS
<1>1. n \in Nat /\ 2 * n <= f /\ kept = ReadOf(f, n)
  BY OpenersLie, WithoutGrowth
<1>2. c = n \/ c = n + 1
  <2>1. c = IF r = 0 THEN q ELSE q + 1
    BY <1>0, RoundedUp
  <2>2. n = IF r <= 1 THEN q ELSE q + 1
    BY DEF Openers
  <2>3. q \in Nat /\ r \in 0..(g - 1)
    BY <1>0, Division, Zenon
  <2> HIDE DEF n, r, q, c
  <2> QED
    BY <2>1, <2>2, <2>3
<1>3. Projected(g, f) = c * (KeyRead + GoldenRead) + (IF f > 2 * c THEN f - 2 * c ELSE 0) * ShowSize
  BY DEF Projected
<1>4. ReadOf(f, n) = n * KeyRead + n * GoldenRead + rest * ShowSize
  BY DEF ReadOf
<1> HIDE DEF n, r, q, c, kept
<1>5. rest \in Nat /\ f = n + n + rest
  BY <1>1
<1> HIDE DEF rest
<1> DEFINE nk == n * KeyRead
           ng == n * GoldenRead
           rs == rest * ShowSize
<1>6. nk \in Nat /\ ng \in Nat /\ rs \in Nat
  BY <1>1, <1>5, ReadParts
<1>7. n * (KeyRead + GoldenRead) = nk + ng
  BY <1>1, ReadParts
<1>8. (n + 1) * (KeyRead + GoldenRead) = nk + ng + KeyRead + GoldenRead
  BY <1>1, ReadParts
<1>9. CASE c = n
  <2>1. (IF f > 2 * c THEN f - 2 * c ELSE 0) = rest
    BY <1>1, <1>5, <1>9
  <2>2. Projected(g, f) = nk + ng + rs
    BY <1>3, <1>7, <1>9, <2>1
  <2>3. kept = nk + ng + rs
    BY <1>1, <1>4
  <2> HIDE DEF nk, ng, rs
  <2> QED
    BY <1>6, <2>2, <2>3, ReadParts DEF kept
<1>10. CASE c = n + 1
  <2> DEFINE left == IF f > 2 * c THEN f - 2 * c ELSE 0
             ls == left * ShowSize
  <2>1. left \in Nat /\ left <= rest /\ rest <= left + 2
    BY <1>1, <1>5, <1>10
  <2>2. Projected(g, f) = nk + ng + KeyRead + GoldenRead + ls
    BY <1>3, <1>8, <1>10
  <2>3. kept = nk + ng + rs
    BY <1>1, <1>4
  <2> HIDE DEF left
  <2>4. ls \in Nat /\ ls <= rs /\ rs <= ls + 2 * ShowSize
    <3>1. ls \in Nat /\ ls <= rs
      BY <1>5, <2>1, ReadParts
    <3>2. (left + 2) * ShowSize = ls + 2 * ShowSize
      BY <2>1, ReadParts
    <3>3. rs <= (left + 2) * ShowSize
      BY <1>5, <2>1, ReadParts
    <3> QED
      BY <3>1, <3>2, <3>3
  <2> HIDE DEF nk, ng, rs, ls
  <2> QED
    BY <1>6, <2>2, <2>3, <2>4, ReadParts DEF kept
<1> QED
  BY <1>2, <1>9, <1>10 DEF kept

(* What plan promises is what the assembler will write, but for what the   *)
(* rewritten headers add to every gop and for at most one key and golden   *)
(* more (main.rs 1156-1197).                                               *)
THEOREM ProjectionHolds == Spec => []ProjectionUpToGrowth
<1>1. IInv => ProjectionUpToGrowth
  <2> SUFFICES ASSUME IInv, phase = "projected", NEW g \in Rows
               PROVE  LET kept == SegmentSize(PlanTotal, g) - Growth(PlanTotal, g)
                      IN Projected(g, PlanTotal) \in kept..(kept + KeyRead + GoldenRead)
    BY DEF ProjectionUpToGrowth
  <2>1. args \in PlanArgs /\ PlanTotal >= 2
    BY DEF IInv, Typed
  <2>2. PlanTotal \in Nat
    <3>1. args.total \in Nat /\ args.rate \in Rates
      BY <2>1, LengthsAssumption DEF PlanArgs
    <3> QED
      BY <3>1, RoundType DEF PlanTotal
  <2>3. PICK p \in PlanGops \cup {PlanTotal} : g = AtMost(AtLeast(p, 2), PlanTotal)
    BY DEF Rows
  <2>4. p \in Nat
    BY <2>2, LengthsAssumption
  <2>5. g \in Nat /\ g >= 2
    BY <2>1, <2>2, <2>3, <2>4 DEF AtMost, AtLeast
  <2> QED
    BY <2>1, <2>2, <2>5, ProjectionLies
<1> QED
  BY <1>1, Invariant, PTL

===============================================================================
