--------------------------- MODULE CommandsProofs ---------------------------
(***************************************************************************)
(* The two parts of the program that others run beside each other.         *)
(* Commands, for any number of processes, pids, images and sizes, and      *)
(* whatever fails or is killed: what a make publishes, which rung it       *)
(* publishes, and what an info reports on.  Ffi, for any number of threads *)
(* and addresses: whose error is shown, and which boxes are held.          *)
(***************************************************************************)
EXTENDS Commands, Ffi, SequenceTheorems, FiniteSetTheorems, TLAPS

(***************************************************************************)
(* Types.                                                                  *)
(***************************************************************************)
CodedFile == [kind : {"coded"}, image : Images, crf : Nat]
Ivf == [kind : {"ivf"}, srcs : Seq(CodedFile), size : Sizes]
Mp4 == [kind : {"mp4"}, srcs : Seq(CodedFile), size : Sizes]
Staged == [kind : {"input"}, of : InfoInputs]
Demuxed == [kind : {"demuxed"}, of : InfoInputs]
File == {Missing, Torn} \cup CodedFile \cup Ivf \cup Mp4 \cup Staged \cup Demuxed

Try == [crf : Nat, size : Nat, built : BOOLEAN]
Choice == [kind : {"chosen"}, bytes : Ivf, crf : Nat, size : Sizes]
MakeSaid == [kind : {"said"}, crf : Nat, size : Sizes]
InfoSaid == [kind : {"said"}, of : InfoInputs]

Climbing == {"prepare", "encode", "load", "build", "mux", "measure"}

MakeRun == [cmd : {"make"}, pid : Pids, job : MakeJobs, crossed : BOOLEAN,
            at : Climbing \cup {"publish", "clean", "done", "failed"},
            i : Nat, loaded : Seq(CodedFile), bytes : {None} \cup Ivf, tried : Seq(Try),
            chosen : {None} \cup Choice, said : {None} \cup MakeSaid]
InfoRun == [cmd : {"info"}, pid : Pids, input : InfoInputs, crossed : BOOLEAN,
            at : {"stage", "demux", "read", "done", "failed"}, said : {None} \cup InfoSaid]

TypeOK == /\ proc \in [Procs -> {NoRun} \cup MakeRun \cup InfoRun]
          /\ files \in [Dirs -> [Names -> File]]
          /\ out \in [Procs -> File]

(***************************************************************************)
(* What a make knows by itself.  The stages of a rung leave i and the      *)
(* images loaded where the next one takes them up; what was chosen is the  *)
(* last rung that built; a climbing make has tried fewer rungs than there  *)
(* are, and none of them fitted.                                           *)
(***************************************************************************)
Rung(q) ==
    /\ q.at \in {"prepare", "encode", "load"} => q.i \in DOMAIN q.job.images
    /\ q.at \in {"prepare", "encode"} => q.loaded = << >>
    /\ q.at = "prepare" => q.i = 1 /\ q.tried = << >>
    /\ q.at = "load" => Len(q.loaded) = q.i - 1
    /\ q.at \in {"mux", "measure"} => q.bytes # None /\ q.job.mp4

LastBuilt(q) == \E w \in DOMAIN q.tried :
    /\ q.tried[w].built
    /\ q.chosen.crf = q.tried[w].crf /\ q.chosen.size = q.tried[w].size
    /\ \A k \in DOMAIN q.tried : k > w => ~ q.tried[k].built

Fitting(q) == {k \in DOMAIN q.tried : q.tried[k].built /\ Fits(q.job, q.tried[k].size)}

Tried(q) ==
    /\ \A k \in DOMAIN q.tried : q.tried[k].crf = Crfs(q.job)[k]
    /\ IF q.chosen = None THEN \A k \in DOMAIN q.tried : ~ q.tried[k].built
                          ELSE LastBuilt(q)
    /\ q.at \in Climbing => /\ q.said = None /\ Len(q.tried) < Len(Crfs(q.job))
                            /\ Fitting(q) = {}
    /\ q.at = "publish" => q.said = None
    /\ q.at = "publish" \/ q.said # None =>
         /\ q.chosen # None
         /\ Fitting(q) \subseteq {Len(q.tried)}
         /\ Fitting(q) = {} => Len(q.tried) = Len(Crfs(q.job))
    /\ q.said # None => q.said.crf = q.chosen.crf /\ q.said.size = q.chosen.size

(***************************************************************************)
(* What lies in the directory of a make that was never crossed: the images *)
(* encoded so far at this rung's CRF, then the build, then the candidate;  *)
(* and from rung to rung the candidate, or the bytes, of what was chosen.  *)
(***************************************************************************)
Made(j, crf) == [k \in DOMAIN j.images |->
                   [kind |-> "coded", image |-> j.images[k], crf |-> crf]]

IsBuild(content, kind, j, crf) == content.kind = kind /\ content.srcs = Made(j, crf)

Chosen(q, dir) ==
    q.chosen # None =>
      IF q.job.mp4
      THEN /\ IsBuild(dir[CandMp4], "mp4", q.job, q.chosen.crf)
           /\ dir[CandMp4].size = q.chosen.size
      ELSE /\ IsBuild(q.chosen.bytes, "ivf", q.job, q.chosen.crf)
           /\ q.chosen.bytes.size = q.chosen.size

Workplace(q, dir) ==
    LET crf == Crfs(q.job)[Len(q.tried) + 1]
        images == Made(q.job, crf)
    IN /\ q.at = "encode" => \A k \in DOMAIN images : k < q.i => dir[Src(k)] = images[k]
       /\ q.at = "load" => /\ \A k \in DOMAIN images : dir[Src(k)] = images[k]
                           /\ \A k \in DOMAIN images : k < q.i => q.loaded[k] = images[k]
       /\ q.at = "build" => q.loaded = images
       /\ q.at \in {"mux", "measure"} => IsBuild(q.bytes, "ivf", q.job, crf)
       /\ q.at = "mux" => dir[VideoIvf] = q.bytes
       /\ q.at = "measure" => IsBuild(dir[CandMp4], "mp4", q.job, crf)
       /\ q.at \in {"prepare", "encode", "load", "build", "mux", "publish"} => Chosen(q, dir)

(* What an uncrossed info finds under the two fixed names.                 *)
Demuxing(q, dir) ==
    /\ q.at = "demux" /\ q.input.stdin => dir[InfoSrc] = [kind |-> "input", of |-> q.input]
    /\ q.at = "read" => dir[InfoIvf] = [kind |-> "demuxed", of |-> q.input]
    /\ q.said # None => q.said.of = q.input

Published(q, content) ==
    q.said # None => /\ IsBuild(content, IF q.job.mp4 THEN "mp4" ELSE "ivf", q.job, q.said.crf)
                     /\ content.size = q.said.size

Good(q, dir, content) ==
    /\ q.cmd = "make" => Rung(q) /\ Tried(q)
    /\ q.cmd = "make" /\ ~ q.crossed => Workplace(q, dir) /\ Published(q, content)
    /\ q.cmd = "info" /\ ~ q.crossed => Demuxing(q, dir)

(* Whoever works in a directory with another was crossed.                  *)
Exclusive == \A p, r \in Procs :
    p # r /\ Running(p) /\ Running(r) /\ MyDir(p) = MyDir(r) => proc[p].crossed

IInv == /\ TypeOK /\ Exclusive
        /\ \A p \in Procs : Good(proc[p], files[MyDir(p)], out[p])

-----------------------------------------------------------------------------
(***************************************************************************)
(* The ladder, and the shape of a job.                                     *)
(***************************************************************************)
LEMMA CrfsType ==
    ASSUME NEW j \in MakeJobs
    PROVE  Crfs(j) \in Seq(Nat) /\ Len(Crfs(j)) \in Nat \ {0}
<1> DEFINE low == {k \in 1..4 : Ladder[k] <= j.crf}
           m == Cardinality(low) + 1
<1>1. j.crf \in Nat
  <2>1. j.crf \in 0..63
    BY CommandsAssumption
  <2> QED
    BY <2>1
<1>2. m \in Nat /\ m >= 1
  <2>1. IsFiniteSet(1..4)
    BY 1 \in Int, 4 \in Int, FS_Interval
  <2>2. IsFiniteSet(low)
    BY <2>1, FS_Subset
  <2> QED
    BY <2>2, FS_CardinalityType
<1>3. Coarser(j.crf) \in Seq(Nat)
  <2>1. \A k \in m..4 : Ladder[k] \in Nat
    <3>1. \A k \in m..4 : k = 1 \/ k = 2 \/ k = 3 \/ k = 4
      <4> HIDE DEF m
      <4> QED
        BY <1>2
    <3> QED
      BY <3>1 DEF Ladder
  <2> HIDE DEF m
  <2>2. SubSeq(Ladder, m, 4) \in Seq(Nat)
    BY <1>2, <2>1, SubSeqProperties
  <2> QED
    BY <2>2 DEF Coarser, m
<1>4. <<j.crf>> \in Seq(Nat) /\ Len(<<j.crf>>) = 1
  BY <1>1
<1>5. \A s \in Seq(Nat) : <<j.crf>> \o s \in Seq(Nat) /\ Len(<<j.crf>> \o s) = 1 + Len(s)
  BY <1>4, ConcatProperties
<1>6. << >> \in Seq(Nat)
  OBVIOUS
<1> QED
  BY <1>3, <1>5, <1>6, LenProperties DEF Crfs

LEMMA JobType ==
    ASSUME NEW j \in MakeJobs
    PROVE  /\ Len(j.images) \in Nat \ {0} /\ DOMAIN j.images = 1..Len(j.images)
           /\ \A k \in DOMAIN j.images : j.images[k] \in Images /\ Src(k) \in Names
           /\ j.mp4 \in BOOLEAN /\ j.kept \in BOOLEAN
<1>1. j.images \in Seq(Images) /\ j.images # << >> /\ j.mp4 \in BOOLEAN /\ j.kept \in BOOLEAN
  BY CommandsAssumption
<1>2. Len(j.images) \in Nat \ {0} /\ DOMAIN j.images = 1..Len(j.images)
  BY <1>1, EmptySeq, LenProperties
<1>3. \A k \in DOMAIN j.images : j.images[k] \in Images
  BY <1>1, <1>2, ElementOfSeq
<1>4. \A k \in DOMAIN j.images : Src(k) \in Names
  BY DEF Names
<1> QED
  BY <1>1, <1>2, <1>3, <1>4

(* The files under fixed names are told apart from each other and from the *)
(* images.                                                                 *)
LEMMA NamesApart ==
    /\ VideoIvf \in Names /\ CandMp4 \in Names /\ InfoSrc \in Names /\ InfoIvf \in Names
    /\ VideoIvf # CandMp4
    /\ \A k, m : Src(k) = Src(m) => k = m
BY DEF Names, Src, VideoIvf, CandMp4, InfoSrc, InfoIvf

LEMMA MadeType ==
    ASSUME NEW j \in MakeJobs, NEW crf \in Nat
    PROVE  /\ Made(j, crf) \in Seq(CodedFile) /\ DOMAIN Made(j, crf) = DOMAIN j.images
           /\ Len(Made(j, crf)) = Len(j.images)
<1>1. /\ Len(j.images) \in Nat /\ DOMAIN j.images = 1..Len(j.images)
      /\ \A k \in DOMAIN j.images : j.images[k] \in Images
  BY JobType
<1>2. Made(j, crf) \in [1..Len(j.images) -> CodedFile]
  BY <1>1 DEF Made, CodedFile
<1>3. Made(j, crf) \in Seq(CodedFile)
  BY <1>1, <1>2, SeqDef
<1> QED
  BY <1>1, <1>2, <1>3, LenProperties

LEMMA CrfType ==
    ASSUME NEW q \in MakeRun, Tried(q), q.at \in Climbing
    PROVE  /\ Len(q.tried) \in Nat /\ Len(q.tried) + 1 \in 1..Len(Crfs(q.job))
           /\ Crfs(q.job)[Len(q.tried) + 1] \in Nat
<1>1. q.job \in MakeJobs /\ q.tried \in Seq(Try)
  BY DEF MakeRun
<1>2. Crfs(q.job) \in Seq(Nat) /\ Len(Crfs(q.job)) \in Nat
  BY <1>1, CrfsType
<1>3. Len(q.tried) \in Nat /\ Len(q.tried) < Len(Crfs(q.job))
  BY <1>1, LenProperties DEF Tried
<1>4. Len(q.tried) + 1 \in 1..Len(Crfs(q.job))
  BY <1>2, <1>3
<1> QED
  BY <1>2, <1>3, <1>4, ElementOfSeq

-----------------------------------------------------------------------------
(***************************************************************************)
(* One rung of the ladder, as what it does to the run in memory.           *)
(***************************************************************************)
SameJob(n, q) == /\ n.cmd = q.cmd /\ n.pid = q.pid /\ n.crossed = q.crossed
                 /\ n.cmd = "make" => n.job = q.job
                 /\ n.cmd = "info" => n.input = q.input

(* A run whose rung is over: what it tried is recorded, and did not fit.   *)
Counted(q) ==
    /\ q \in MakeRun /\ q.at \in Climbing /\ q.said = None
    /\ Len(q.tried) <= Len(Crfs(q.job)) /\ Fitting(q) = {}
    /\ \A k \in DOMAIN q.tried : q.tried[k].crf = Crfs(q.job)[k]
    /\ IF q.chosen = None THEN \A k \in DOMAIN q.tried : ~ q.tried[k].built
                          ELSE LastBuilt(q)

LEMMA NextRungGood ==
    ASSUME NEW q, Counted(q), NEW n, n = NextRung(q)
    PROVE  /\ n \in MakeRun /\ SameJob(n, q) /\ Rung(n) /\ Tried(n)
           /\ n.said = None /\ n.chosen = q.chosen /\ n.tried = q.tried
           /\ n.at \in {"encode", "publish", "failed"}
           /\ n.at = "encode" => n.i = 1
<1>1. /\ q \in MakeRun /\ q.job \in MakeJobs /\ q.tried \in Seq(Try)
      /\ Len(q.tried) \in Nat /\ Len(Crfs(q.job)) \in Nat
  <2>1. q \in MakeRun /\ q.job \in MakeJobs /\ q.tried \in Seq(Try)
    BY DEF Counted, MakeRun
  <2> QED
    BY <2>1, CrfsType, LenProperties
<1>2. 1 \in DOMAIN q.job.images
  BY <1>1, JobType
<1>3. << >> \in Seq(CodedFile)
  OBVIOUS
<1>4. CASE Len(q.tried) < Len(Crfs(q.job))
  <2>1. n = [q EXCEPT !.at = "encode", !.i = 1, !.loaded = << >>]
    BY <1>4 DEF NextRung
  <2>2. /\ n \in MakeRun /\ n.at = "encode" /\ n.i = 1 /\ n.loaded = << >>
        /\ n.cmd = q.cmd /\ n.pid = q.pid /\ n.crossed = q.crossed /\ n.job = q.job
        /\ n.tried = q.tried /\ n.chosen = q.chosen /\ n.said = q.said /\ n.bytes = q.bytes
        /\ q.cmd = "make"
    <3>1. "encode" \in Climbing \cup {"publish", "clean", "done", "failed"}
      BY DEF Climbing
    <3> DEFINE a == "encode"
               one == 1
               none == << >>
    <3>3. /\ a \in Climbing \cup {"publish", "clean", "done", "failed"}
          /\ one \in Nat /\ none \in Seq(CodedFile)
          /\ n = [q EXCEPT !.at = a, !.i = one, !.loaded = none]
      BY <1>3, <2>1, <3>1
    <3> HIDE DEF a, one, none
    <3>4. /\ n \in MakeRun /\ n.at = a /\ n.i = one /\ n.loaded = none
          /\ n.cmd = q.cmd /\ n.pid = q.pid /\ n.crossed = q.crossed /\ n.job = q.job
          /\ n.tried = q.tried /\ n.chosen = q.chosen /\ n.said = q.said /\ n.bytes = q.bytes
          /\ q.cmd = "make"
      BY <1>1, <3>3, ZenonT(30) DEF MakeRun
    <3> QED
      BY <3>4 DEF a, one, none
  <2>3. Rung(n)
    BY <1>2, <2>2 DEF Rung
  <2>4. Fitting(n) = Fitting(q) /\ (LastBuilt(q) => LastBuilt(n))
    BY <2>2 DEF Fitting, LastBuilt
  <2>5. Tried(n)
    BY <1>4, <2>2, <2>4 DEF Tried, Counted
  <2> QED
    BY <2>2, <2>3, <2>5 DEF SameJob, Counted
<1>5. CASE ~ (Len(q.tried) < Len(Crfs(q.job)))
  <2>1. n = [q EXCEPT !.at = IF q.chosen = None THEN "failed" ELSE "publish"]
    BY <1>5 DEF NextRung
  <2>2. /\ n \in MakeRun /\ n.at = (IF q.chosen = None THEN "failed" ELSE "publish")
        /\ n.cmd = q.cmd /\ n.pid = q.pid /\ n.crossed = q.crossed /\ n.job = q.job
        /\ n.tried = q.tried /\ n.chosen = q.chosen /\ n.said = q.said /\ n.bytes = q.bytes
        /\ q.cmd = "make"
    BY <1>1, <2>1 DEF MakeRun
  <2>3. Rung(n)
    BY <2>2 DEF Rung
  <2>4. Fitting(n) = Fitting(q) /\ (LastBuilt(q) => LastBuilt(n))
    BY <2>2 DEF Fitting, LastBuilt
  <2>5. Len(q.tried) = Len(Crfs(q.job))
    BY <1>1, <1>5 DEF Counted
  <2>6. Tried(n)
    BY <2>2, <2>4, <2>5 DEF Tried, Counted, Climbing
  <2> QED
    BY <2>2, <2>3, <2>6 DEF SameJob, Counted
<1> QED
  BY <1>4, <1>5

(* A rung that did not build leaves the choice where it was.               *)
LEMMA RefusedGood ==
    ASSUME NEW q \in MakeRun, Tried(q), q.at \in Climbing,
           NEW r, r = [q EXCEPT !.tried = Append(@, [crf |-> Crfs(q.job)[Len(q.tried) + 1],
                                                     size |-> 0, built |-> FALSE])]
    PROVE  Counted(r) /\ SameJob(r, q) /\ r.chosen = q.chosen
<1> DEFINE t == [crf |-> Crfs(q.job)[Len(q.tried) + 1], size |-> 0, built |-> FALSE]
           L == Len(q.tried)
<1>1. /\ q.tried \in Seq(Try) /\ L \in Nat /\ Len(Crfs(q.job)) \in Nat
      /\ L + 1 <= Len(Crfs(q.job)) /\ t \in Try
  <2>1. q.tried \in Seq(Try) /\ q.job \in MakeJobs
    BY DEF MakeRun
  <2> QED
    BY <2>1, CrfType, CrfsType, LenProperties DEF Try
<1>2. /\ r \in MakeRun /\ r.at = q.at /\ r.tried = Append(q.tried, t)
      /\ r.cmd = q.cmd /\ r.pid = q.pid /\ r.crossed = q.crossed /\ r.job = q.job
      /\ r.chosen = q.chosen /\ r.said = q.said /\ q.cmd = "make"
  <2>1. Append(q.tried, t) \in Seq(Try)
    BY <1>1
  <2> HIDE DEF t
  <2> QED
    BY <2>1 DEF MakeRun, t
<1>3. /\ Len(r.tried) = L + 1 /\ DOMAIN r.tried = 1..L + 1 /\ DOMAIN q.tried = 1..L
      /\ \A k \in 1..L : r.tried[k] = q.tried[k]
      /\ r.tried[L + 1] = t
  BY <1>1, <1>2
<1>4. t.built = FALSE /\ t.crf = Crfs(q.job)[L + 1]
  OBVIOUS
<1> HIDE DEF t, L
<1>5. \A k \in DOMAIN r.tried : k \in DOMAIN q.tried \/ k = L + 1
  BY <1>1, <1>3
<1>6. Fitting(r) = {}
  BY <1>2, <1>3, <1>4, <1>5 DEF Fitting, Tried
<1>7. \A k \in DOMAIN r.tried : r.tried[k].crf = Crfs(r.job)[k]
  BY <1>2, <1>3, <1>4, <1>5 DEF Tried
<1>8. IF r.chosen = None THEN \A k \in DOMAIN r.tried : ~ r.tried[k].built ELSE LastBuilt(r)
  <2>1. CASE q.chosen = None
    BY <2>1, <1>2, <1>3, <1>4, <1>5 DEF Tried
  <2>2. CASE q.chosen # None
    <3>1. PICK w \in DOMAIN q.tried :
            /\ q.tried[w].built
            /\ q.chosen.crf = q.tried[w].crf /\ q.chosen.size = q.tried[w].size
            /\ \A k \in DOMAIN q.tried : k > w => ~ q.tried[k].built
      BY <2>2 DEF Tried, LastBuilt
    <3>2. w \in DOMAIN r.tried /\ r.tried[w] = q.tried[w]
      BY <1>1, <1>3
    <3>3. \A k \in DOMAIN r.tried : k > w => ~ r.tried[k].built
      BY <1>3, <1>4, <1>5, <3>1
    <3> QED
      BY <1>2, <2>2, <3>1, <3>2, <3>3 DEF LastBuilt
  <2> QED
    BY <2>1, <2>2
<1> QED
  BY <1>1, <1>2, <1>3, <1>6, <1>7, <1>8 DEF Counted, SameJob, Tried

(* A rung that built becomes the choice; the first that fits ends the      *)
(* ladder.                                                                 *)
LEMMA ChooseGood ==
    ASSUME NEW q \in MakeRun, Tried(q), q.at \in Climbing, q.bytes \in Ivf,
           NEW size \in Sizes, NEW crf, crf = Crfs(q.job)[Len(q.tried) + 1],
           NEW n, n = Choose(q, crf, size)
    PROVE  /\ n \in MakeRun /\ SameJob(n, q) /\ Rung(n) /\ Tried(n)
           /\ n.said = None /\ n.at \in {"encode", "publish", "failed"}
           /\ n.at = "encode" => n.i = 1
           /\ n.chosen = [kind |-> "chosen", bytes |-> q.bytes, crf |-> crf, size |-> size]
<1> DEFINE t == [crf |-> crf, size |-> size, built |-> TRUE]
           L == Len(q.tried)
           c == [kind |-> "chosen", bytes |-> q.bytes, crf |-> crf, size |-> size]
           r == [q EXCEPT !.chosen = c, !.tried = Append(@, t)]
<1>1. /\ q.tried \in Seq(Try) /\ L \in Nat /\ Len(Crfs(q.job)) \in Nat
      /\ L + 1 <= Len(Crfs(q.job)) /\ t \in Try /\ c \in Choice
  <2>1. q.tried \in Seq(Try) /\ q.job \in MakeJobs
    BY DEF MakeRun
  <2>2. crf \in Nat /\ size \in Nat
    BY CrfType, CommandsAssumption
  <2> QED
    BY <2>1, <2>2, CrfType, CrfsType, LenProperties DEF Try, Choice
<1>2. /\ r \in MakeRun /\ r.at = q.at /\ r.tried = Append(q.tried, t)
      /\ r.cmd = q.cmd /\ r.pid = q.pid /\ r.crossed = q.crossed /\ r.job = q.job
      /\ r.chosen = c /\ r.said = q.said /\ q.cmd = "make"
  <2>1. Append(q.tried, t) \in Seq(Try)
    BY <1>1
  <2> HIDE DEF t, c
  <2> QED
    BY <1>1, <2>1 DEF MakeRun
<1>3. n = IF Fits(q.job, size) THEN [r EXCEPT !.at = "publish"] ELSE NextRung(r)
  BY DEF Choose
<1>4. t.built /\ t.crf = crf /\ t.size = size /\ c.crf = crf /\ c.size = size /\ c # None
  BY DEF None
<1> HIDE DEF t, c, r
<1>5. /\ Len(r.tried) = L + 1 /\ DOMAIN r.tried = 1..L + 1 /\ DOMAIN q.tried = 1..L
      /\ \A k \in 1..L : r.tried[k] = q.tried[k]
      /\ r.tried[L + 1] = t
  BY <1>1, <1>2
<1> HIDE DEF L
<1>6. \A k \in DOMAIN r.tried : k \in DOMAIN q.tried \/ k = L + 1
  BY <1>1, <1>5
<1>7. \A k \in DOMAIN r.tried : r.tried[k].crf = Crfs(r.job)[k]
  BY <1>2, <1>4, <1>5, <1>6 DEF Tried, L
<1>8. LastBuilt(r)
  <2>1. L + 1 \in DOMAIN r.tried /\ \A k \in DOMAIN r.tried : ~ (k > L + 1)
    BY <1>1, <1>5
  <2> QED
    BY <1>2, <1>4, <1>5, <2>1 DEF LastBuilt
<1>9. Fitting(r) = IF Fits(q.job, size) THEN {L + 1} ELSE {}
  <2>1. \A k \in DOMAIN q.tried : k # L + 1
    BY <1>1, <1>5
  <2>2. \A k \in DOMAIN q.tried : ~ (q.tried[k].built /\ Fits(q.job, q.tried[k].size))
    BY DEF Tried, Fitting
  <2>3. L + 1 \in DOMAIN r.tried
    BY <1>1, <1>5
  <2>4. \A k : k \in Fitting(r) <=> k = L + 1 /\ Fits(q.job, size)
    BY <1>2, <1>4, <1>5, <1>6, <2>1, <2>2, <2>3 DEF Fitting
  <2> QED
    BY <2>4
<1>10. q.said = None
  BY DEF Tried
<1>11. CASE Fits(q.job, size)
  <2>1. /\ n \in MakeRun /\ n.at = "publish"
        /\ n.cmd = q.cmd /\ n.pid = q.pid /\ n.crossed = q.crossed /\ n.job = q.job
        /\ n.tried = r.tried /\ n.chosen = c /\ n.said = None
    <3>1. n = [r EXCEPT !.at = "publish"]
      BY <1>3, <1>11
    <3>2. /\ n \in MakeRun /\ n.at = "publish"
          /\ n.cmd = r.cmd /\ n.pid = r.pid /\ n.crossed = r.crossed /\ n.job = r.job
          /\ n.tried = r.tried /\ n.chosen = r.chosen /\ n.said = r.said
      BY <1>2, <3>1 DEF MakeRun
    <3> QED
      BY <1>2, <1>10, <3>2
  <2>2. Rung(n)
    BY <2>1 DEF Rung
  <2>3. Fitting(n) = {L + 1} /\ LastBuilt(n) /\ Len(n.tried) = L + 1
    BY <1>2, <1>5, <1>8, <1>9, <1>11, <2>1, SMTT(30) DEF Fitting, LastBuilt
  <2>4. Tried(n)
    BY <1>2, <1>4, <1>7, <2>1, <2>3 DEF Tried, Climbing
  <2> QED
    BY <1>2, <2>1, <2>2, <2>4 DEF SameJob, c
<1>12. CASE ~ Fits(q.job, size)
  <2>1. Counted(r)
    BY <1>1, <1>2, <1>4, <1>5, <1>7, <1>8, <1>9, <1>10, <1>12 DEF Counted
  <2>2. /\ n \in MakeRun /\ SameJob(n, r) /\ Rung(n) /\ Tried(n)
        /\ n.said = None /\ n.chosen = c /\ n.at \in {"encode", "publish", "failed"}
        /\ n.at = "encode" => n.i = 1
    BY <1>2, <1>3, <1>12, <2>1, NextRungGood
  <2> QED
    BY <1>2, <2>2 DEF SameJob, c
<1> QED
  BY <1>11, <1>12

-----------------------------------------------------------------------------
(***************************************************************************)
(* Processes next to each other.  What a process counts on in a directory  *)
(* it counts on only while it runs, and then no other one that runs there  *)
(* leaves it uncrossed.                                                    *)
(***************************************************************************)
LEMMA RunTypes ==
    ASSUME TypeOK, NEW p \in Procs
    PROVE  /\ proc[p] \in {NoRun} \cup MakeRun \cup InfoRun
           /\ proc[p].cmd = "make" => proc[p] \in MakeRun
           /\ proc[p].cmd = "info" => proc[p] \in InfoRun
           /\ Running(p) => proc[p] \in MakeRun \cup InfoRun
           /\ out[p] \in File
<1>1. proc[p] \in {NoRun} \cup MakeRun \cup InfoRun /\ out[p] \in File
  BY DEF TypeOK
<1>2. CASE proc[p] = NoRun
  BY <1>1, <1>2 DEF NoRun, Running
<1>3. CASE proc[p] \in MakeRun
  BY <1>1, <1>3 DEF MakeRun
<1>4. CASE proc[p] \in InfoRun
  BY <1>1, <1>4 DEF InfoRun
<1> QED
  BY <1>1, <1>2, <1>3, <1>4

LEMMA DirType ==
    ASSUME NEW q \in MakeRun \cup InfoRun
    PROVE  Dir(q) \in Dirs
<1>1. CASE q \in MakeRun
  BY <1>1 DEF MakeRun, Dir, Dirs
<1>2. CASE q \in InfoRun
  BY <1>2 DEF InfoRun, Dir, Dirs
<1> QED
  BY <1>1, <1>2

LEMMA GoodElsewhere ==
    ASSUME NEW q, NEW d1, NEW d2, NEW o, Good(q, d1, o),
           q.at \notin {"idle", "done", "failed"} => d1 = d2
    PROVE  Good(q, d2, o)
<1>1. Workplace(q, d1) => Workplace(q, d2)
  <2>1. CASE q.at \in {"idle", "done", "failed"}
    BY <2>1 DEF Workplace
  <2> QED
    BY <2>1
<1>2. Demuxing(q, d1) => Demuxing(q, d2)
  <2>1. CASE q.at \in {"idle", "done", "failed"}
    BY <2>1 DEF Demuxing
  <2> QED
    BY <2>1
<1> QED
  BY <1>1, <1>2 DEF Good

(* A process that takes a step as itself, in its own directory, disturbs   *)
(* nobody who was not crossed.                                             *)
LEMMA Turned ==
    ASSUME IInv, NEW p \in Procs, Running(p),
           NEW n \in MakeRun \cup InfoRun, SameJob(n, proc[p]),
           NEW dir \in [Names -> File], NEW o \in File,
           Good(n, dir, o),
           proc' = [proc EXCEPT ![p] = n],
           files' = [files EXCEPT ![MyDir(p)] = dir],
           out' = [out EXCEPT ![p] = o]
    PROVE  IInv'
<1>0. TypeOK /\ Exclusive /\ proc[p] \in MakeRun \cup InfoRun
  BY RunTypes DEF IInv
<1>1. MyDir(p) \in Dirs /\ Dir(n) = MyDir(p)
  <2>1. MyDir(p) \in Dirs
    BY <1>0, DirType DEF MyDir
  <2>2. n.cmd \in {"make", "info"}
    BY DEF MakeRun, InfoRun
  <2>3. Dir(n) = Dir(proc[p])
    BY <2>2 DEF SameJob, Dir
  <2> QED
    BY <2>1, <2>3 DEF MyDir
<1>2. /\ proc'[p] = n /\ out'[p] = o /\ files'[MyDir(p)] = dir
      /\ \A r \in Procs : r # p => proc'[r] = proc[r] /\ out'[r] = out[r]
      /\ \A d \in Dirs : d # MyDir(p) => files'[d] = files[d]
  BY <1>0, <1>1 DEF TypeOK
<1>3. TypeOK'
  <2>1. proc' \in [Procs -> {NoRun} \cup MakeRun \cup InfoRun]
    BY <1>0 DEF TypeOK
  <2>2. files' \in [Dirs -> [Names -> File]]
    BY <1>0 DEF TypeOK
  <2>3. out' \in [Procs -> File]
    BY <1>0 DEF TypeOK
  <2> QED
    BY <2>1, <2>2, <2>3 DEF TypeOK
<1>4. \A r \in Procs : MyDir(r)' = MyDir(r)
  <2> TAKE r \in Procs
  <2>1. CASE r = p
    BY <1>1, <1>2, <2>1 DEF MyDir
  <2>2. CASE r # p
    BY <1>2, <2>2 DEF MyDir
  <2> QED
    BY <2>1, <2>2
<1>5. \A r \in Procs : (Running(r)' => Running(r)) /\ proc'[r].crossed = proc[r].crossed
  <2> TAKE r \in Procs
  <2>1. CASE r = p
    BY <1>2, <2>1 DEF SameJob
  <2>2. CASE r # p
    BY <1>2, <2>2 DEF Running
  <2> QED
    BY <2>1, <2>2
<1>6. Exclusive'
  BY <1>0, <1>4, <1>5 DEF Exclusive
<1>7. ASSUME NEW r \in Procs PROVE Good(proc'[r], files'[MyDir(r)'], out'[r])
  <2>1. CASE r = p
    BY <1>2, <1>4, <2>1
  <2>2. CASE r # p
    <3>1. proc'[r] = proc[r] /\ out'[r] = out[r] /\ MyDir(r)' = MyDir(r)
      BY <1>2, <1>4, <2>2
    <3>2. Good(proc[r], files[MyDir(r)], out[r])
      BY DEF IInv
    <3>3. CASE ~ Running(r)
      <4>1. proc[r].at \in {"idle", "done", "failed"}
        BY <3>3 DEF Running
      <4> QED
        BY <3>1, <3>2, <4>1, GoodElsewhere
    <3>4. CASE Running(r) /\ MyDir(r) # MyDir(p)
      <4>1. MyDir(r) \in Dirs
        BY <1>0, <3>4, RunTypes, DirType DEF MyDir
      <4>2. files'[MyDir(r)] = files[MyDir(r)]
        BY <1>2, <3>4, <4>1
      <4> QED
        BY <3>1, <3>2, <4>2
    <3>5. CASE Running(r) /\ MyDir(r) = MyDir(p)
      <4>1. proc[r].crossed
        BY <1>0, <2>2, <3>5 DEF Exclusive
      <4> QED
        BY <3>1, <3>2, <4>1 DEF Good
    <3> QED
      BY <3>3, <3>4, <3>5
  <2> QED
    BY <2>1, <2>2
<1> QED
  BY <1>3, <1>6, <1>7 DEF IInv

(* A process that starts crosses, and is crossed by, all that run where it *)
(* will.                                                                   *)
LEMMA Launched ==
    ASSUME IInv, NEW p \in Procs, NEW run \in MakeRun \cup InfoRun, Launch(p, run),
           \A dir, o : /\ Good([run EXCEPT !.crossed = TRUE], dir, o)
                       /\ Good([run EXCEPT !.crossed = FALSE], dir, o)
    PROVE  IInv'
<1> DEFINE with == {q \in Procs \ {p} : Running(q) /\ MyDir(q) = Dir(run)}
           mine == [run EXCEPT !.crossed = with # {}]
<1>0. TypeOK /\ Exclusive
  BY DEF IInv
<1>1. /\ proc' = [q \in Procs |->
                    IF q = p THEN mine
                    ELSE IF q \in with THEN [proc[q] EXCEPT !.crossed = TRUE] ELSE proc[q]]
      /\ UNCHANGED <<files, out>>
  BY DEF Launch
<1>2. /\ mine \in MakeRun \cup InfoRun /\ mine.crossed = (with # {})
      /\ Dir(mine) = Dir(run)
  <2>1. (with # {}) \in BOOLEAN
    OBVIOUS
  <2> DEFINE c == with # {}
  <2>2. c \in BOOLEAN
    BY <2>1
  <2> HIDE DEF c
  <2>3. CASE run \in MakeRun
    <3>1. [run EXCEPT !.crossed = c] \in MakeRun /\ [run EXCEPT !.crossed = c].crossed = c
      BY <2>2, <2>3 DEF MakeRun
    <3>2. /\ [run EXCEPT !.crossed = c].cmd = run.cmd /\ [run EXCEPT !.crossed = c].pid = run.pid
          /\ [run EXCEPT !.crossed = c].job = run.job
      BY <2>2, <2>3 DEF MakeRun
    <3> QED
      BY <3>1, <3>2 DEF Dir, c
  <2>4. CASE run \in InfoRun
    <3>1. [run EXCEPT !.crossed = c] \in InfoRun /\ [run EXCEPT !.crossed = c].crossed = c
      BY <2>2, <2>4 DEF InfoRun
    <3>2. [run EXCEPT !.crossed = c].cmd = "info" /\ run.cmd = "info"
      BY <2>2, <2>4 DEF InfoRun
    <3> QED
      BY <3>1, <3>2 DEF Dir, c
  <2> QED
    BY <2>3, <2>4
<1>3. ASSUME NEW r \in Procs, r # p
      PROVE  /\ proc'[r] \in {NoRun} \cup MakeRun \cup InfoRun
             /\ MyDir(r)' = MyDir(r) /\ Running(r)' = Running(r)
             /\ proc[r].crossed /\ Running(r) => proc'[r].crossed
             /\ r \in with => proc'[r].crossed
             /\ Good(proc'[r], files[MyDir(r)], out[r])
  <2>1. Good(proc[r], files[MyDir(r)], out[r])
    BY DEF IInv
  <2>2. CASE r \notin with
    <3>1. proc'[r] = proc[r]
      BY <1>1, <1>3, <2>2
    <3> QED
      BY <1>0, <2>1, <2>2, <3>1 DEF TypeOK, MyDir, Running
  <2>3. CASE r \in with
    <3> DEFINE n == [proc[r] EXCEPT !.crossed = TRUE]
               T == TRUE
    <3>1. proc'[r] = [proc[r] EXCEPT !.crossed = T] /\ T \in BOOLEAN
      BY <1>1, <1>3, <2>3
    <3>2. Running(r) /\ proc[r] \in MakeRun \cup InfoRun
      BY <1>0, <2>3, RunTypes
    <3> HIDE DEF T
    <3>3. CASE proc[r] \in MakeRun
      <4>1. /\ proc'[r] \in MakeRun /\ proc'[r].crossed = T
            /\ proc'[r].cmd = proc[r].cmd /\ proc'[r].pid = proc[r].pid
            /\ proc'[r].job = proc[r].job /\ proc'[r].at = proc[r].at
        BY <3>1, <3>3 DEF MakeRun
      <4>2. /\ proc'[r].i = proc[r].i /\ proc'[r].loaded = proc[r].loaded
            /\ proc'[r].bytes = proc[r].bytes /\ proc'[r].tried = proc[r].tried
            /\ proc'[r].chosen = proc[r].chosen /\ proc'[r].said = proc[r].said
        BY <3>1, <3>3 DEF MakeRun
      <4>3. proc[r].cmd = "make"
        BY <3>3 DEF MakeRun
      <4>4. Rung(proc'[r]) /\ Tried(proc'[r])
        <5>1. Rung(proc[r]) /\ Tried(proc[r])
          BY <2>1, <4>3 DEF Good
        <5>2. Fitting(proc'[r]) = Fitting(proc[r]) /\ (LastBuilt(proc[r]) => LastBuilt(proc'[r]))
          BY <4>1, <4>2 DEF Fitting, LastBuilt
        <5> QED
          BY <4>1, <4>2, <5>1, <5>2 DEF Rung, Tried
      <4>5. Good(proc'[r], files[MyDir(r)], out[r])
        BY <4>1, <4>3, <4>4 DEF Good, T
      <4> QED
        BY <4>1, <4>5 DEF MyDir, Dir, Running, T
    <3>4. CASE proc[r] \in InfoRun
      <4>1. /\ proc'[r] \in InfoRun /\ proc'[r].crossed = T
            /\ proc'[r].cmd = "info" /\ proc[r].cmd = "info" /\ proc'[r].at = proc[r].at
        BY <3>1, <3>4 DEF InfoRun
      <4>2. Good(proc'[r], files[MyDir(r)], out[r])
        BY <4>1 DEF Good, T
      <4> QED
        BY <4>1, <4>2 DEF MyDir, Dir, Running, T
    <3> QED
      BY <3>2, <3>3, <3>4
  <2> QED
    BY <2>2, <2>3
<1>4. proc'[p] = mine
  BY <1>1
<1> HIDE DEF mine
<1>5. TypeOK'
  <2>1. \A r \in Procs : proc'[r] \in {NoRun} \cup MakeRun \cup InfoRun
    BY <1>2, <1>3, <1>4
  <2>2. proc' = [r \in Procs |-> proc'[r]]
    BY <1>1
  <2> QED
    BY <1>0, <1>1, <2>1, <2>2 DEF TypeOK
<1>6. Exclusive'
  <2> SUFFICES ASSUME NEW r \in Procs, NEW s \in Procs, r # s, Running(r)', Running(s)',
                      MyDir(r)' = MyDir(s)'
               PROVE  proc'[r].crossed
    BY DEF Exclusive
  <2>1. CASE r # p /\ s # p
    BY <1>0, <1>3, <2>1 DEF Exclusive
  <2>2. CASE r = p
    <3>1. MyDir(r)' = Dir(run)
      BY <1>2, <1>4, <2>2 DEF MyDir
    <3>2. s \in with
      BY <1>3, <2>2, <3>1
    <3> QED
      BY <1>2, <1>4, <2>2, <3>2
  <2>3. CASE s = p
    <3>1. MyDir(s)' = Dir(run)
      BY <1>2, <1>4, <2>3 DEF MyDir
    <3>2. r \in with
      BY <1>3, <2>3, <3>1
    <3> QED
      BY <1>3, <2>3, <3>2
  <2> QED
    BY <2>1, <2>2, <2>3
<1>7. ASSUME NEW r \in Procs PROVE Good(proc'[r], files'[MyDir(r)'], out'[r])
  <2>1. CASE r = p
    <3>1. mine = [run EXCEPT !.crossed = TRUE] \/ mine = [run EXCEPT !.crossed = FALSE]
      <4>1. (with # {}) = TRUE \/ (with # {}) = FALSE
        OBVIOUS
      <4> DEFINE c == with # {}
      <4>2. (c = TRUE \/ c = FALSE) /\ mine = [run EXCEPT !.crossed = c]
        BY <4>1, Zenon DEF mine
      <4> HIDE DEF c
      <4> QED
        BY <4>2
    <3>2. \A dir, o : Good(mine, dir, o)
      BY <3>1, Zenon
    <3> QED
      BY <1>4, <2>1, <3>2
  <2>2. CASE r # p
    BY <1>1, <1>3, <2>2
  <2> QED
    BY <2>1, <2>2
<1> QED
  BY <1>5, <1>6, <1>7 DEF IInv

-----------------------------------------------------------------------------
(***************************************************************************)
(* The actions, one by one.                                                *)
(***************************************************************************)
LEMMA StartMakeKeeps ==
    ASSUME IInv, NEW p \in Procs, StartMake(p)
    PROVE  IInv'
<1>1. PICK j \in MakeJobs, pid \in Pids :
        Launch(p, [cmd |-> "make", pid |-> pid, at |-> "prepare", job |-> j,
               i |-> 1, loaded |-> << >>, bytes |-> None, tried |-> << >>,
               chosen |-> None, said |-> None, crossed |-> FALSE])
  BY DEF StartMake
<1> DEFINE run == [cmd |-> "make", pid |-> pid, at |-> "prepare", job |-> j,
               i |-> 1, loaded |-> << >>, bytes |-> None, tried |-> << >>,
               chosen |-> None, said |-> None, crossed |-> FALSE]
<1>2. /\ 1 \in DOMAIN j.images /\ Len(Crfs(j)) \in Nat \ {0}
      /\ Len(<< >>) = 0 /\ DOMAIN << >> = {}
  BY JobType, CrfsType
<1>3. run \in MakeRun
  <2>1. << >> \in Seq(CodedFile) /\ << >> \in Seq(Try)
    OBVIOUS
  <2> QED
    BY <2>1 DEF MakeRun, Climbing
<1>4. ASSUME NEW c \in BOOLEAN, NEW dir, NEW o
      PROVE  Good([run EXCEPT !.crossed = c], dir, o)
  <2> DEFINE n == [run EXCEPT !.crossed = c]
  <2>1. /\ n.at = "prepare" /\ n.i = 1 /\ n.loaded = << >> /\ n.tried = << >>
        /\ n.chosen = None /\ n.said = None /\ n.job = j /\ n.cmd = "make"
    OBVIOUS
  <2> HIDE DEF n, run
  <2>2. Rung(n)
    BY <1>2, <2>1 DEF Rung
  <2>3. Fitting(n) = {}
    BY <1>2, <2>1 DEF Fitting
  <2>4. Tried(n)
    BY <1>2, <2>1, <2>3 DEF Tried
  <2>5. Workplace(n, dir)
    BY <2>1 DEF Workplace, Chosen
  <2>6. Published(n, o)
    BY <2>1 DEF Published
  <2> QED
    BY <2>1, <2>2, <2>4, <2>5, <2>6 DEF Good, n
<1>5. \A dir, o : /\ Good([run EXCEPT !.crossed = TRUE], dir, o)
                  /\ Good([run EXCEPT !.crossed = FALSE], dir, o)
  <2> HIDE DEF run
  <2> TAKE dir, o
  <2> DEFINE t == TRUE
             f == FALSE
  <2>1. t \in BOOLEAN /\ f \in BOOLEAN
    OBVIOUS
  <2> HIDE DEF t, f
  <2>2. Good([run EXCEPT !.crossed = t], dir, o)
    BY <1>4, <2>1, Zenon
  <2>3. Good([run EXCEPT !.crossed = f], dir, o)
    BY <1>4, <2>1, Zenon
  <2> QED
    BY <2>2, <2>3, Zenon DEF t, f
<1>6. Launch(p, run)
  BY <1>1
<1> HIDE DEF run
<1> QED
  BY <1>3, <1>5, <1>6, Launched

LEMMA StartInfoKeeps ==
    ASSUME IInv, NEW p \in Procs, StartInfo(p)
    PROVE  IInv'
<1>1. PICK input \in InfoInputs, pid \in Pids :
        Launch(p, [cmd |-> "info", pid |-> pid, input |-> input, said |-> None, crossed |-> FALSE,
               at |-> IF input.stdin THEN "stage" ELSE "demux"])
  BY DEF StartInfo
<1> DEFINE run == [cmd |-> "info", pid |-> pid, input |-> input, said |-> None, crossed |-> FALSE,
               at |-> IF input.stdin THEN "stage" ELSE "demux"]
<1>2. run \in InfoRun
  BY DEF InfoRun
<1>3. ASSUME NEW c \in BOOLEAN, NEW dir, NEW o
      PROVE  Good([run EXCEPT !.crossed = c], dir, o)
  <2> DEFINE n == [run EXCEPT !.crossed = c]
  <2>1. /\ n.cmd = "info" /\ n.input = input /\ n.said = None
        /\ n.at = IF input.stdin THEN "stage" ELSE "demux"
    OBVIOUS
  <2> HIDE DEF n, run
  <2>2. Demuxing(n, dir)
    BY <2>1 DEF Demuxing
  <2> QED
    BY <2>1, <2>2 DEF Good, n
<1>4. \A dir, o : /\ Good([run EXCEPT !.crossed = TRUE], dir, o)
                  /\ Good([run EXCEPT !.crossed = FALSE], dir, o)
  <2> HIDE DEF run
  <2> TAKE dir, o
  <2> DEFINE t == TRUE
             f == FALSE
  <2>1. t \in BOOLEAN /\ f \in BOOLEAN
    OBVIOUS
  <2> HIDE DEF t, f
  <2>2. Good([run EXCEPT !.crossed = t], dir, o)
    BY <1>3, <2>1, Zenon
  <2>3. Good([run EXCEPT !.crossed = f], dir, o)
    BY <1>3, <2>1, Zenon
  <2> QED
    BY <2>2, <2>3, Zenon DEF t, f
<1>5. Launch(p, run)
  BY <1>1
<1> HIDE DEF run
<1> QED
  BY <1>2, <1>4, <1>5, Launched

(* Writing one file, or none, of one's own directory.                      *)
LEMMA PutKeeps ==
    ASSUME TypeOK, NEW p \in Procs, Running(p), NEW name \in Names, NEW content \in File,
           PutFile(p, name, content)
    PROVE  \E dir \in [Names -> File] :
             /\ files' = [files EXCEPT ![MyDir(p)] = dir]
             /\ dir[name] = content
             /\ \A m \in Names : m # name => dir[m] = files[MyDir(p)][m]
<1>1. files[MyDir(p)] \in [Names -> File]
  <2>1. MyDir(p) \in Dirs
    BY RunTypes, DirType DEF MyDir
  <2> QED
    BY <2>1 DEF TypeOK
<1> DEFINE dir == [files[MyDir(p)] EXCEPT ![name] = content]
<1>2. dir \in [Names -> File]
  BY <1>1
<1>3. files' = [files EXCEPT ![MyDir(p)] = dir]
  BY DEF PutFile
<1>4. dir[name] = content /\ \A m \in Names : m # name => dir[m] = files[MyDir(p)][m]
  BY <1>1
<1> QED
  BY <1>2, <1>3, <1>4

LEMMA Untouched ==
    ASSUME TypeOK, NEW p \in Procs, Running(p)
    PROVE  /\ files[MyDir(p)] \in [Names -> File] /\ out[p] \in File
           /\ files = [files EXCEPT ![MyDir(p)] = files[MyDir(p)]]
           /\ out = [out EXCEPT ![p] = out[p]]
<1>1. MyDir(p) \in Dirs
  BY RunTypes, DirType DEF MyDir
<1> QED
  BY <1>1 DEF TypeOK

(* What is known of a make at work.                                        *)
LEMMA MakeAt ==
    ASSUME IInv, NEW p \in Procs, proc[p].at \in Climbing \cup {"publish", "clean"}
    PROVE  /\ TypeOK /\ Running(p) /\ proc[p] \in MakeRun /\ proc[p].job \in MakeJobs
           /\ proc[p].cmd = "make" /\ Rung(proc[p]) /\ Tried(proc[p])
           /\ ~ proc[p].crossed => /\ Workplace(proc[p], files[MyDir(p)])
                                   /\ Published(proc[p], out[p])
<1>1. TypeOK /\ Running(p)
  BY DEF IInv, Running, Climbing
<1>2. proc[p] \in MakeRun
  <2>1. proc[p] \notin InfoRun
    BY DEF InfoRun, Climbing
  <2> QED
    BY <1>1, <2>1, RunTypes
<1>3. proc[p].job \in MakeJobs /\ proc[p].cmd = "make"
  BY <1>2 DEF MakeRun
<1>4. Good(proc[p], files[MyDir(p)], out[p])
  BY DEF IInv
<1> QED
  BY <1>1, <1>2, <1>3, <1>4 DEF Good

(* A run that only moves on to another stage.                              *)
LEMMA AtMakes ==
    ASSUME NEW q \in MakeRun, NEW a \in Climbing \cup {"publish", "clean", "done", "failed"},
           NEW n, n = [q EXCEPT !.at = a]
    PROVE  /\ n \in MakeRun /\ SameJob(n, q) /\ n.at = a /\ n.cmd = "make" /\ q.cmd = "make"
           /\ n.job = q.job /\ n.crossed = q.crossed
           /\ n.i = q.i /\ n.loaded = q.loaded /\ n.bytes = q.bytes /\ n.tried = q.tried
           /\ n.chosen = q.chosen /\ n.said = q.said
           /\ Fitting(n) = Fitting(q) /\ (LastBuilt(n) <=> LastBuilt(q))
<1>1. /\ n \in MakeRun /\ n.at = a /\ n.cmd = "make" /\ q.cmd = "make"
      /\ n.job = q.job /\ n.crossed = q.crossed /\ n.pid = q.pid
  BY DEF MakeRun
<1>2. /\ n.i = q.i /\ n.loaded = q.loaded /\ n.bytes = q.bytes /\ n.tried = q.tried
      /\ n.chosen = q.chosen /\ n.said = q.said
  BY DEF MakeRun
<1>3. Fitting(n) = Fitting(q) /\ (LastBuilt(n) <=> LastBuilt(q))
  BY <1>1, <1>2 DEF Fitting, LastBuilt
<1> QED
  BY <1>1, <1>2, <1>3 DEF SameJob

LEMMA AtInfos ==
    ASSUME NEW q \in InfoRun, NEW a \in {"stage", "demux", "read", "done", "failed"},
           NEW n, n = [q EXCEPT !.at = a]
    PROVE  /\ n \in InfoRun /\ SameJob(n, q) /\ n.at = a /\ n.cmd = "info" /\ q.cmd = "info"
           /\ n.input = q.input /\ n.crossed = q.crossed /\ n.said = q.said
<1>1. /\ n \in InfoRun /\ n.at = a /\ n.cmd = "info" /\ q.cmd = "info"
      /\ n.input = q.input /\ n.crossed = q.crossed /\ n.said = q.said /\ n.pid = q.pid
  BY DEF InfoRun
<1> QED
  BY <1>1 DEF SameJob

(* An error return or a kill, whatever was left half-written.              *)
LEMMA FailedKeeps ==
    ASSUME IInv, NEW p \in Procs, Running(p), At(p, "failed"),
           NEW dir \in [Names -> File], files' = [files EXCEPT ![MyDir(p)] = dir],
           NEW o \in File, out' = [out EXCEPT ![p] = o],
           o = out[p] \/ (proc[p].cmd = "make" /\ proc[p].said = None)
    PROVE  IInv'
<1> DEFINE q == proc[p]
           n == [q EXCEPT !.at = "failed"]
<1>1. TypeOK /\ q \in MakeRun \cup InfoRun /\ Good(q, files[MyDir(p)], out[p])
  BY RunTypes DEF IInv
<1>2. proc' = [proc EXCEPT ![p] = n]
  BY DEF At, Becomes
<1>3. CASE q \in MakeRun
  <2>1. /\ n \in MakeRun /\ SameJob(n, q) /\ n.at = "failed" /\ n.cmd = "make" /\ q.cmd = "make"
        /\ n.job = q.job /\ n.crossed = q.crossed
        /\ n.tried = q.tried /\ n.chosen = q.chosen /\ n.said = q.said
        /\ Fitting(n) = Fitting(q) /\ (LastBuilt(n) <=> LastBuilt(q))
    <3> DEFINE a == "failed"
    <3>1. a \in Climbing \cup {"publish", "clean", "done", "failed"} /\ n = [q EXCEPT !.at = a]
      OBVIOUS
    <3> HIDE DEF a, n, q
    <3>2. /\ n \in MakeRun /\ SameJob(n, q) /\ n.at = a /\ n.cmd = "make" /\ q.cmd = "make"
          /\ n.job = q.job /\ n.crossed = q.crossed
          /\ n.tried = q.tried /\ n.chosen = q.chosen /\ n.said = q.said
          /\ Fitting(n) = Fitting(q) /\ (LastBuilt(n) <=> LastBuilt(q))
      BY <1>3, <3>1, AtMakes
    <3> QED
      BY <3>2 DEF a
  <2> HIDE DEF n
  <2>2. Rung(n) /\ Tried(n)
    BY <1>1, <2>1 DEF Good, Rung, Tried, Climbing
  <2>3. Workplace(n, dir)
    BY <2>1 DEF Workplace
  <2>4. ~ n.crossed => Published(n, o)
    BY <1>1, <2>1 DEF Good, Published
  <2>5. Good(n, dir, o)
    BY <2>1, <2>2, <2>3, <2>4 DEF Good
  <2> QED
    BY <1>2, <2>1, <2>5, Turned
<1>4. CASE q \in InfoRun
  <2>1. /\ n \in InfoRun /\ SameJob(n, q) /\ n.at = "failed" /\ n.cmd = "info" /\ q.cmd = "info"
        /\ n.input = q.input /\ n.crossed = q.crossed /\ n.said = q.said
    BY <1>4, AtInfos
  <2> HIDE DEF n
  <2>2. ~ n.crossed => Demuxing(n, dir)
    BY <1>1, <2>1 DEF Good, Demuxing
  <2>3. Good(n, dir, o)
    BY <2>1, <2>2 DEF Good
  <2> QED
    BY <1>2, <2>1, <2>3, Turned
<1> QED
  BY <1>1, <1>3, <1>4

LEMMA FailKeeps ==
    ASSUME IInv, NEW p \in Procs, Running(p), Fail(p)
    PROVE  IInv'
<1>1. TypeOK /\ At(p, "failed") /\ files' = files /\ out' = out
  BY DEF IInv, Fail
<1>2. /\ files[MyDir(p)] \in [Names -> File] /\ out[p] \in File
      /\ files' = [files EXCEPT ![MyDir(p)] = files[MyDir(p)]]
      /\ out' = [out EXCEPT ![p] = out[p]]
  BY <1>1, Untouched
<1> QED
  BY <1>1, <1>2, FailedKeeps

LEMMA FailWritingKeeps ==
    ASSUME IInv, NEW p \in Procs, Running(p), NEW name \in Names, FailWriting(p, name)
    PROVE  IInv'
<1>1. TypeOK /\ At(p, "failed") /\ PutFile(p, name, Torn) /\ out' = out /\ Torn \in File
  BY DEF IInv, FailWriting, File
<1>2. PICK dir \in [Names -> File] : files' = [files EXCEPT ![MyDir(p)] = dir]
  BY <1>1, PutKeeps
<1>3. out[p] \in File /\ out' = [out EXCEPT ![p] = out[p]]
  BY <1>1, Untouched
<1> QED
  BY <1>1, <1>2, <1>3, FailedKeeps

LEMMA PrepareKeeps ==
    ASSUME IInv, NEW p \in Procs, Prepare(p)
    PROVE  IInv'
<1> DEFINE q == proc[p]
           n == [q EXCEPT !.at = "encode"]
<1>0. q.at = "prepare" /\ q.at \in Climbing \cup {"publish", "clean"}
  BY DEF Prepare, Climbing
<1>1. /\ TypeOK /\ Running(p) /\ q \in MakeRun /\ Rung(q) /\ Tried(q)
      /\ ~ q.crossed => Workplace(q, files[MyDir(p)]) /\ Published(q, out[p])
  BY <1>0, MakeAt
<1>2. CASE At(p, "encode") /\ UNCHANGED <<files, out>>
  <2>1. /\ files[MyDir(p)] \in [Names -> File] /\ out[p] \in File
        /\ files' = [files EXCEPT ![MyDir(p)] = files[MyDir(p)]]
        /\ out' = [out EXCEPT ![p] = out[p]]
    BY <1>1, <1>2, Untouched
  <2>2. /\ n \in MakeRun /\ SameJob(n, q) /\ n.at = "encode" /\ n.cmd = "make"
        /\ n.job = q.job /\ n.crossed = q.crossed
        /\ n.i = q.i /\ n.loaded = q.loaded /\ n.bytes = q.bytes /\ n.tried = q.tried
        /\ n.chosen = q.chosen /\ n.said = q.said
        /\ Fitting(n) = Fitting(q) /\ (LastBuilt(n) <=> LastBuilt(q))
    BY <1>1, AtMakes DEF Climbing
  <2>3. proc' = [proc EXCEPT ![p] = n]
    BY <1>2 DEF At, Becomes
  <2> HIDE DEF n
  <2>4. Rung(n) /\ Tried(n)
    BY <1>0, <1>1, <2>2 DEF Rung, Tried, Climbing
  <2>5. n.i = 1 /\ n.said = None
    BY <1>0, <1>1, <2>2 DEF Rung, Tried, Climbing
  <2>6. ASSUME ~ n.crossed PROVE Workplace(n, files[MyDir(p)])
    <3>1. Chosen(q, files[MyDir(p)])
      BY <1>0, <1>1, <2>2, <2>6 DEF Workplace
    <3>2. Chosen(n, files[MyDir(p)])
      BY <2>2, <3>1 DEF Chosen
    <3>3. \A k \in DOMAIN Made(n.job, Crfs(n.job)[Len(n.tried) + 1]) : ~ (k < n.i)
      <4>1. DOMAIN Made(n.job, Crfs(n.job)[Len(n.tried) + 1]) = DOMAIN n.job.images
        BY DEF Made
      <4>2. n.job \in MakeJobs
        BY <2>2 DEF MakeRun
      <4>3. \A k \in DOMAIN n.job.images : k \in Nat /\ k >= 1
        BY <4>2, JobType
      <4> QED
        BY <2>5, <4>1, <4>3
    <3> QED
      BY <2>2, <3>2, <3>3 DEF Workplace
  <2>7. Published(n, out[p])
    BY <2>5 DEF Published
  <2>8. Good(n, files[MyDir(p)], out[p])
    BY <2>2, <2>4, <2>6, <2>7 DEF Good
  <2> QED
    BY <1>1, <2>1, <2>2, <2>3, <2>8, Turned
<1>3. CASE Fail(p)
  BY <1>1, <1>3, FailKeeps
<1> QED
  BY <1>2, <1>3 DEF Prepare

LEMMA EncodeKeeps ==
    ASSUME IInv, NEW p \in Procs, Encode(p)
    PROVE  IInv'
<1> DEFINE q == proc[p]
           F == files[MyDir(p)]
           L == Len(q.job.images)
           crf == Crfs(q.job)[Len(q.tried) + 1]
           coded == [kind |-> "coded", image |-> q.job.images[q.i], crf |-> crf]
           images == Made(q.job, crf)
<1>0. q.at = "encode" /\ q.at \in Climbing /\ q.at \in Climbing \cup {"publish", "clean"}
  BY DEF Encode, Climbing
<1>1. /\ TypeOK /\ Running(p) /\ q \in MakeRun /\ q.job \in MakeJobs /\ Rung(q) /\ Tried(q)
      /\ ~ q.crossed => Workplace(q, F) /\ Published(q, out[p])
  BY <1>0, MakeAt
<1>2. /\ L \in Nat \ {0} /\ DOMAIN q.job.images = 1..L /\ q.i \in 1..L
      /\ q.job.images[q.i] \in Images /\ Src(q.i) \in Names
  BY <1>0, <1>1, JobType DEF Rung
<1>3. coded \in File /\ DOMAIN images = 1..L /\ coded = images[q.i]
  <2>1. crf \in Nat
    BY <1>0, <1>1, CrfType
  <2>2. coded \in CodedFile
    BY <1>2, <2>1 DEF CodedFile
  <2> QED
    BY <1>2, <2>2 DEF File, Made
<1>4. CASE FailWriting(p, Src(q.i))
  BY <1>1, <1>2, <1>4, FailWritingKeeps
<1>5. ASSUME NEW n, PutFile(p, Src(q.i), coded), Becomes(p, n), UNCHANGED out,
             n \in MakeRun, SameJob(n, q), n.job = q.job, n.crossed = q.crossed, n.cmd = "make",
             n.loaded = q.loaded, n.tried = q.tried, n.chosen = q.chosen, n.said = q.said,
             \/ n.at = "encode" /\ n.i = q.i + 1 /\ q.i < L
             \/ n.at = "load" /\ n.i = 1 /\ q.i = L
      PROVE  IInv'
  <2>1. PICK dir \in [Names -> File] :
          /\ files' = [files EXCEPT ![MyDir(p)] = dir]
          /\ dir[Src(q.i)] = coded
          /\ \A m \in Names : m # Src(q.i) => dir[m] = F[m]
    <3> HIDE DEF coded
    <3> QED
      BY <1>1, <1>2, <1>3, <1>5, PutKeeps, SMTT(30)
  <2>2. out[p] \in File /\ out' = [out EXCEPT ![p] = out[p]]
    BY <1>1, <1>5, Untouched
  <2>3. proc' = [proc EXCEPT ![p] = n]
    BY <1>5 DEF Becomes
  <2>4. q.loaded = << >> /\ q.said = None
    BY <1>0, <1>1 DEF Rung, Tried, Climbing
  <2>5. Rung(n)
    BY <1>2, <1>5, <2>4 DEF Rung
  <2>6. Fitting(n) = Fitting(q) /\ (LastBuilt(q) => LastBuilt(n))
    BY <1>5 DEF Fitting, LastBuilt
  <2>7. Tried(n)
    BY <1>0, <1>1, <1>5, <2>6 DEF Tried, Climbing
  <2>8. ASSUME ~ n.crossed PROVE Workplace(n, dir)
    <3>1. Workplace(q, F)
      BY <1>1, <1>5, <2>8
    <3>2. \A k \in 1..L : k < q.i => F[Src(k)] = images[k]
      BY <1>0, <1>3, <3>1 DEF Workplace
    <3>3. \A k \in 1..L : k <= q.i => dir[Src(k)] = images[k]
      <4> SUFFICES ASSUME NEW k \in 1..L, k <= q.i PROVE dir[Src(k)] = images[k]
        OBVIOUS
      <4>1. CASE k = q.i
        BY <1>3, <2>1, <4>1
      <4>2. CASE k # q.i
        <5>1. Src(k) \in Names /\ Src(k) # Src(q.i)
          BY <1>1, <1>2, <4>2, JobType, NamesApart
        <5> QED
          BY <1>2, <2>1, <3>2, <4>2, <5>1
      <4> QED
        BY <4>1, <4>2
    <3>4. Chosen(q, F)
      BY <1>0, <3>1 DEF Workplace
    <3>5. CandMp4 \in Names /\ CandMp4 # Src(q.i)
      BY DEF Names, CandMp4, Src
    <3>6. Chosen(n, dir)
      BY <1>5, <2>1, <3>4, <3>5 DEF Chosen
    <3>7. Crfs(n.job)[Len(n.tried) + 1] = crf /\ Made(n.job, crf) = images
      BY <1>5
    <3> HIDE DEF images, crf, coded
    <3>8. CASE n.at = "encode" /\ n.i = q.i + 1
      BY <1>2, <1>3, <3>3, <3>6, <3>7, <3>8 DEF Workplace
    <3>9. CASE n.at = "load" /\ n.i = 1 /\ q.i = L
      BY <1>2, <1>3, <3>3, <3>6, <3>7, <3>9 DEF Workplace
    <3> QED
      BY <1>5, <3>8, <3>9
  <2>9. Published(n, out[p])
    BY <1>5, <2>4 DEF Published
  <2>10. Good(n, dir, out[p])
    BY <1>5, <2>5, <2>7, <2>8, <2>9 DEF Good
  <2> QED
    BY <1>1, <1>5, <2>1, <2>2, <2>3, <2>10, Turned
<1>6. CASE /\ PutFile(p, Src(q.i), coded) /\ UNCHANGED out
           /\ Becomes(p, IF q.i < L THEN [q EXCEPT !.i = @ + 1]
                                    ELSE [q EXCEPT !.i = 1, !.at = "load"])
  <2> HIDE DEF q, coded
  <2>1. CASE q.i < L
    <3> DEFINE k == q.i + 1
               n == [q EXCEPT !.i = k]
    <3>0. k \in Nat /\ n = [q EXCEPT !.i = q.i + 1]
      BY <1>2
    <3>1. Becomes(p, n)
      BY <1>6, <2>1, <3>0
    <3> HIDE DEF k
    <3>2. /\ n \in MakeRun /\ n.cmd = "make" /\ n.pid = q.pid /\ n.job = q.job /\ q.cmd = "make"
          /\ n.crossed = q.crossed /\ n.at = q.at /\ n.i = k
      BY <1>1, <3>0 DEF MakeRun
    <3>3. /\ n.loaded = q.loaded /\ n.tried = q.tried /\ n.chosen = q.chosen /\ n.said = q.said
      BY <1>1 DEF MakeRun
    <3> HIDE DEF n
    <3>4. SameJob(n, q) /\ n.at = "encode" /\ n.i = q.i + 1
      BY <1>0, <3>2 DEF SameJob, k
    <3> QED
      BY <1>5, <1>6, <2>1, <3>1, <3>2, <3>3, <3>4
  <2>2. CASE ~ (q.i < L)
    <3> DEFINE k == 1
               a == "load"
               n == [q EXCEPT !.i = k, !.at = a]
    <3>0. k \in Nat /\ a \in Climbing
      BY DEF Climbing
    <3>1. Becomes(p, n)
      BY <1>6, <2>2
    <3> HIDE DEF k, a
    <3>2. /\ n \in MakeRun /\ n.cmd = "make" /\ n.pid = q.pid /\ n.job = q.job /\ q.cmd = "make"
          /\ n.crossed = q.crossed /\ n.at = a /\ n.i = k
      BY <1>1, <3>0 DEF MakeRun
    <3>3. /\ n.loaded = q.loaded /\ n.tried = q.tried /\ n.chosen = q.chosen /\ n.said = q.said
      BY <1>1 DEF MakeRun
    <3> HIDE DEF n
    <3>4. SameJob(n, q) /\ n.at = "load" /\ n.i = 1 /\ q.i = L
      BY <1>2, <2>2, <3>2 DEF SameJob, k, a
    <3> QED
      BY <1>5, <1>6, <3>1, <3>2, <3>3, <3>4
  <2> QED
    BY <2>1, <2>2
<1> QED
  BY <1>4, <1>6, Zenon DEF Encode, Crf

LEMMA LoadKeeps ==
    ASSUME IInv, NEW p \in Procs, Load(p)
    PROVE  IInv'
<1> DEFINE q == proc[p]
           F == files[MyDir(p)]
           L == Len(q.job.images)
           found == F[Src(q.i)]
           crf == Crfs(q.job)[Len(q.tried) + 1]
           images == Made(q.job, crf)
           k == q.i + 1
           l == Append(q.loaded, found)
           a == IF q.i = L THEN "build" ELSE "load"
           n == [q EXCEPT !.i = k, !.loaded = l, !.at = a]
<1>0. q.at = "load" /\ q.at \in Climbing /\ q.at \in Climbing \cup {"publish", "clean"}
  BY DEF Load, Climbing
<1>1. /\ TypeOK /\ Running(p) /\ q \in MakeRun /\ q.job \in MakeJobs /\ Rung(q) /\ Tried(q)
      /\ ~ q.crossed => Workplace(q, F) /\ Published(q, out[p])
  BY <1>0, MakeAt
<1>2. /\ L \in Nat \ {0} /\ DOMAIN q.job.images = 1..L /\ q.i \in 1..L
      /\ Src(q.i) \in Names /\ Len(q.loaded) = q.i - 1 /\ q.said = None
  BY <1>0, <1>1, JobType DEF Rung, Tried, Climbing
<1>3. CASE Fail(p)
  BY <1>1, <1>3, FailKeeps
<1>4. CASE found.kind = "coded" /\ Becomes(p, n) /\ UNCHANGED <<files, out>>
  <2>1. /\ F \in [Names -> File] /\ out[p] \in File
        /\ files' = [files EXCEPT ![MyDir(p)] = F]
        /\ out' = [out EXCEPT ![p] = out[p]]
    BY <1>1, <1>4, Untouched
  <2>2. found \in CodedFile
    <3>1. found \in File
      BY <1>2, <2>1
    <3> HIDE DEF found
    <3> QED
      BY <1>4, <3>1 DEF File, Missing, Torn, Ivf, Mp4, Staged, Demuxed
  <2>3. /\ q.loaded \in Seq(CodedFile) /\ l \in Seq(CodedFile) /\ Len(l) = q.i
        /\ \A m \in 1..q.i - 1 : l[m] = q.loaded[m]
        /\ l[q.i] = found
    <3>1. q.loaded \in Seq(CodedFile)
      BY <1>1 DEF MakeRun
    <3> HIDE DEF found
    <3> QED
      BY <1>2, <2>2, <3>1
  <2>4. k \in Nat /\ a \in Climbing
    BY <1>2 DEF Climbing
  <2>5. proc' = [proc EXCEPT ![p] = n]
    BY <1>4 DEF Becomes
  <2> HIDE DEF k, a, l, q
  <2>6. /\ n \in MakeRun /\ n.cmd = "make" /\ n.pid = q.pid /\ n.job = q.job /\ q.cmd = "make"
        /\ n.crossed = q.crossed /\ n.at = a /\ n.i = k /\ n.loaded = l
    BY <1>1, <2>3, <2>4 DEF MakeRun
  <2>7. n.tried = q.tried /\ n.chosen = q.chosen /\ n.said = q.said
    BY <1>1 DEF MakeRun
  <2> HIDE DEF n
  <2>8. n.i = q.i + 1 /\ n.at = IF q.i = L THEN "build" ELSE "load"
    BY <2>6 DEF k, a
  <2>9. Rung(n)
    <3>1. n.at = "load" => n.i \in 1..L
      BY <1>2, <2>8
    <3>2. Len(n.loaded) = n.i - 1
      BY <1>2, <2>3, <2>6, <2>8
    <3> QED
      BY <1>2, <2>6, <2>8, <3>1, <3>2 DEF Rung
  <2>10. Fitting(n) = Fitting(q) /\ (LastBuilt(q) => LastBuilt(n))
    BY <2>6, <2>7 DEF Fitting, LastBuilt
  <2>11. Tried(n)
    BY <1>0, <1>1, <2>4, <2>6, <2>7, <2>8, <2>10 DEF Tried
  <2>12. ASSUME ~ n.crossed PROVE Workplace(n, F)
    <3>1. Workplace(q, F)
      BY <1>1, <2>6, <2>12
    <3>2. DOMAIN images = 1..L /\ Len(images) = L /\ images \in Seq(CodedFile)
      <4>1. crf \in Nat
        BY <1>0, <1>1, CrfType
      <4> QED
        BY <1>1, <1>2, <4>1, MadeType
    <3>3. /\ \A m \in 1..L : F[Src(m)] = images[m]
          /\ \A m \in 1..L : m < q.i => q.loaded[m] = images[m]
      BY <1>0, <3>1, <3>2 DEF Workplace
    <3>4. \A m \in 1..L : m <= q.i => l[m] = images[m]
      <4> SUFFICES ASSUME NEW m \in 1..L, m <= q.i PROVE l[m] = images[m]
        OBVIOUS
      <4>1. CASE m = q.i
        BY <1>2, <2>3, <3>3, <4>1
      <4>2. CASE m # q.i
        BY <1>2, <2>3, <3>3, <4>2
      <4> QED
        BY <4>1, <4>2
    <3>5. Chosen(n, F)
      BY <1>0, <2>6, <2>7, <3>1 DEF Workplace, Chosen
    <3>6. Crfs(n.job)[Len(n.tried) + 1] = crf /\ Made(n.job, crf) = images
      BY <2>6, <2>7
    <3> HIDE DEF images, crf, F
    <3>7. CASE q.i = L
      <4>1. l = images
        BY <1>2, <2>3, <3>2, <3>4, <3>7, SMTT(30)
      <4> QED
        BY <2>6, <2>8, <3>5, <3>6, <3>7, <4>1 DEF Workplace
    <3>8. CASE q.i # L
      <4>1. \A m \in 1..L : m < n.i => n.loaded[m] = images[m]
        BY <1>2, <2>6, <2>8, <3>4
      <4> QED
        BY <2>8, <3>2, <3>3, <3>5, <3>6, <3>8, <4>1 DEF Workplace
    <3> QED
      BY <3>7, <3>8
  <2>13. Published(n, out[p])
    BY <1>2, <2>7 DEF Published
  <2>14. Good(n, F, out[p])
    BY <2>6, <2>9, <2>11, <2>12, <2>13 DEF Good
  <2>15. SameJob(n, proc[p])
    BY <2>6 DEF SameJob, q
  <2>16. n \in MakeRun \cup InfoRun
    BY <2>6
  <2> QED
    BY <1>1, <2>1, <2>5, <2>14, <2>15, <2>16, Turned
<1> QED
  BY <1>3, <1>4 DEF Load

(* What a rung leads to keeps in the directory what was chosen.            *)
LEMMA NextWorkplace ==
    ASSUME NEW n \in MakeRun, Rung(n), n.said = None,
           n.at \in {"encode", "publish", "failed"}, n.at = "encode" => n.i = 1,
           NEW dir, Chosen(n, dir)
    PROVE  Workplace(n, dir)
<1>1. CASE n.at = "encode"
  <2>1. DOMAIN Made(n.job, Crfs(n.job)[Len(n.tried) + 1]) = DOMAIN n.job.images
    BY DEF Made
  <2>2. n.job \in MakeJobs
    BY DEF MakeRun
  <2>3. \A k \in DOMAIN n.job.images : ~ (k < n.i)
    BY <1>1, <2>2, JobType
  <2> QED
    BY <1>1, <2>1, <2>3 DEF Workplace
<1>2. CASE n.at # "encode"
  BY <1>2 DEF Workplace
<1> QED
  BY <1>1, <1>2

LEMMA BuildKeeps ==
    ASSUME IInv, NEW p \in Procs, Build(p)
    PROVE  IInv'
<1> DEFINE q == proc[p]
           F == files[MyDir(p)]
           crf == Crfs(q.job)[Len(q.tried) + 1]
           refused == [crf |-> crf, size |-> 0, built |-> FALSE]
<1>0. q.at = "build" /\ q.at \in Climbing /\ q.at \in Climbing \cup {"publish", "clean"}
  BY DEF Build, Climbing
<1>1. /\ TypeOK /\ Running(p) /\ q \in MakeRun /\ q.job \in MakeJobs /\ Rung(q) /\ Tried(q)
      /\ ~ q.crossed => Workplace(q, F) /\ Published(q, out[p])
  BY <1>0, MakeAt
<1>2. /\ q.said = None /\ q.loaded \in Seq(CodedFile) /\ crf \in Nat /\ q.cmd = "make"
      /\ q.job.mp4 \in BOOLEAN
  BY <1>0, <1>1, CrfType, JobType DEF MakeRun, Tried
<1>3. F \in [Names -> File] /\ out[p] \in File
  BY <1>1, Untouched
<1>4. ~ q.crossed => q.loaded = Made(q.job, crf) /\ Chosen(q, F)
  BY <1>0, <1>1 DEF Workplace
<1>5. ASSUME NEW size \in Sizes,
             q.job.mp4,
             PutFile(p, VideoIvf, [kind |-> "ivf", srcs |-> q.loaded, size |-> size]),
             Becomes(p, [[q EXCEPT !.bytes = [kind |-> "ivf", srcs |-> q.loaded, size |-> size]]
                           EXCEPT !.at = "mux"]),
             UNCHANGED out
      PROVE  IInv'
  <2> DEFINE ivf == [kind |-> "ivf", srcs |-> q.loaded, size |-> size]
             a == "mux"
             n == [[q EXCEPT !.bytes = ivf] EXCEPT !.at = a]
  <2>1. ivf \in Ivf /\ ivf \in File /\ a \in Climbing /\ ivf # None
    BY <1>2 DEF Ivf, File, Climbing, None
  <2>2. ivf.kind = "ivf" /\ ivf.srcs = q.loaded
    OBVIOUS
  <2>3. proc' = [proc EXCEPT ![p] = n] /\ PutFile(p, VideoIvf, ivf)
    BY <1>5 DEF Becomes
  <2> HIDE DEF ivf, a
  <2>4. PICK dir \in [Names -> File] :
          /\ files' = [files EXCEPT ![MyDir(p)] = dir]
          /\ dir[VideoIvf] = ivf
          /\ \A m \in Names : m # VideoIvf => dir[m] = F[m]
    BY <1>1, <2>1, <2>3, NamesApart, PutKeeps
  <2>5. out' = [out EXCEPT ![p] = out[p]]
    BY <1>1, <1>5, Untouched
  <2>6. /\ n \in MakeRun /\ n.cmd = "make" /\ n.pid = q.pid /\ n.job = q.job
        /\ n.crossed = q.crossed /\ n.at = a /\ n.bytes = ivf
    BY <1>1, <2>1 DEF MakeRun
  <2>7. /\ n.loaded = q.loaded /\ n.tried = q.tried /\ n.chosen = q.chosen /\ n.said = q.said
    BY <1>1 DEF MakeRun
  <2> HIDE DEF n
  <2>8. n.at = "mux"
    BY <2>6 DEF a
  <2>9. Rung(n)
    BY <1>5, <2>1, <2>6, <2>8 DEF Rung
  <2>10. Fitting(n) = Fitting(q) /\ (LastBuilt(q) => LastBuilt(n))
    BY <2>6, <2>7 DEF Fitting, LastBuilt
  <2>11. Tried(n)
    BY <1>0, <1>1, <2>1, <2>6, <2>7, <2>8, <2>10 DEF Tried
  <2>12. ASSUME ~ n.crossed PROVE Workplace(n, dir)
    <3>1. dir[CandMp4] = F[CandMp4]
      BY <2>4, NamesApart
    <3>2. Chosen(n, dir)
      BY <1>4, <2>6, <2>7, <2>12, <3>1 DEF Chosen
    <3>3. IsBuild(n.bytes, "ivf", n.job, Crfs(n.job)[Len(n.tried) + 1])
      BY <1>4, <2>2, <2>6, <2>7, <2>12 DEF IsBuild
    <3> QED
      BY <2>4, <2>6, <2>8, <3>2, <3>3 DEF Workplace
  <2>13. Published(n, out[p])
    BY <1>2, <2>7 DEF Published
  <2>14. Good(n, dir, out[p])
    BY <2>6, <2>9, <2>11, <2>12, <2>13 DEF Good
  <2>15. SameJob(n, proc[p]) /\ n \in MakeRun \cup InfoRun
    BY <1>2, <2>6 DEF SameJob
  <2> QED
    BY <1>1, <1>3, <2>3, <2>4, <2>5, <2>14, <2>15, Turned
<1>6. ASSUME NEW size \in Sizes,
             ~ q.job.mp4,
             Becomes(p, Choose([q EXCEPT !.bytes =
                                  [kind |-> "ivf", srcs |-> q.loaded, size |-> size]], crf, size)),
             UNCHANGED <<files, out>>
      PROVE  IInv'
  <2> DEFINE ivf == [kind |-> "ivf", srcs |-> q.loaded, size |-> size]
             b == [q EXCEPT !.bytes = ivf]
             n == Choose(b, crf, size)
  <2>1. ivf \in Ivf
    BY <1>2 DEF Ivf
  <2>2. ivf.kind = "ivf" /\ ivf.srcs = q.loaded /\ ivf.size = size
    OBVIOUS
  <2>3. proc' = [proc EXCEPT ![p] = n]
    BY <1>6 DEF Becomes
  <2> HIDE DEF ivf
  <2>4. /\ b \in MakeRun /\ b.cmd = "make" /\ b.pid = q.pid /\ b.job = q.job
        /\ b.crossed = q.crossed /\ b.at = q.at /\ b.bytes = ivf
    BY <1>1, <2>1 DEF MakeRun
  <2>5. /\ b.loaded = q.loaded /\ b.tried = q.tried /\ b.chosen = q.chosen /\ b.said = q.said
    BY <1>1 DEF MakeRun
  <2> HIDE DEF b
  <2>6. Fitting(b) = Fitting(q) /\ (LastBuilt(q) => LastBuilt(b))
    BY <2>4, <2>5 DEF Fitting, LastBuilt
  <2>7. Tried(b)
    BY <1>0, <1>1, <2>4, <2>5, <2>6 DEF Tried
  <2> HIDE DEF n
  <2>8. /\ n \in MakeRun /\ SameJob(n, b) /\ Rung(n) /\ Tried(n)
        /\ n.said = None /\ n.at \in {"encode", "publish", "failed"}
        /\ n.at = "encode" => n.i = 1
        /\ n.chosen = [kind |-> "chosen", bytes |-> ivf, crf |-> crf, size |-> size]
    BY <1>0, <2>1, <2>4, <2>5, <2>7, ChooseGood DEF n
  <2>9. n.cmd = "make" /\ n.job = q.job /\ n.crossed = q.crossed
    BY <2>4, <2>8 DEF SameJob, MakeRun
  <2>10. ASSUME ~ n.crossed PROVE Workplace(n, F)
    <3>1. n.chosen.bytes = ivf /\ n.chosen.crf = crf /\ n.chosen.size = size
      BY <2>8
    <3>2. Chosen(n, F)
      BY <1>4, <1>6, <2>2, <2>9, <2>10, <3>1 DEF Chosen, IsBuild
    <3> QED
      BY <2>8, <3>2, NextWorkplace
  <2>11. Published(n, out[p])
    BY <2>8 DEF Published
  <2>12. Good(n, F, out[p])
    BY <2>8, <2>9, <2>10, <2>11 DEF Good
  <2>13. SameJob(n, proc[p]) /\ n \in MakeRun \cup InfoRun
    BY <1>2, <2>4, <2>8, <2>9 DEF SameJob
  <2>14. files' = [files EXCEPT ![MyDir(p)] = F] /\ out' = [out EXCEPT ![p] = out[p]]
    BY <1>1, <1>6, Untouched
  <2> QED
    BY <1>1, <1>3, <2>3, <2>12, <2>13, <2>14, Turned
<1>7. CASE /\ Becomes(p, NextRung([q EXCEPT !.tried = Append(@, refused)]))
           /\ UNCHANGED <<files, out>>
  <2> DEFINE r == [q EXCEPT !.tried = Append(@, refused)]
             n == NextRung(r)
  <2>1. Counted(r) /\ SameJob(r, q) /\ r.chosen = q.chosen
    BY <1>0, <1>1, RefusedGood
  <2>2. proc' = [proc EXCEPT ![p] = n]
    BY <1>7 DEF Becomes
  <2> HIDE DEF r
  <2>3. /\ n \in MakeRun /\ SameJob(n, r) /\ Rung(n) /\ Tried(n)
        /\ n.said = None /\ n.chosen = r.chosen
        /\ n.at \in {"encode", "publish", "failed"}
        /\ n.at = "encode" => n.i = 1
    BY <2>1, NextRungGood
  <2> HIDE DEF n
  <2>4. /\ n.cmd = "make" /\ n.job = q.job /\ n.crossed = q.crossed /\ n.pid = q.pid
        /\ n.chosen = q.chosen
    BY <1>2, <2>1, <2>3 DEF SameJob
  <2>5. ~ n.crossed => Workplace(n, F)
    <3>1. Chosen(q, F) => Chosen(n, F)
      BY <2>4 DEF Chosen
    <3> QED
      BY <1>4, <2>3, <2>4, <3>1, NextWorkplace
  <2>6. Published(n, out[p])
    BY <2>3 DEF Published
  <2>7. Good(n, F, out[p])
    BY <2>3, <2>4, <2>5, <2>6 DEF Good
  <2>8. SameJob(n, proc[p]) /\ n \in MakeRun \cup InfoRun
    BY <1>2, <2>3, <2>4 DEF SameJob
  <2>9. files' = [files EXCEPT ![MyDir(p)] = F] /\ out' = [out EXCEPT ![p] = out[p]]
    BY <1>1, <1>7, Untouched
  <2> QED
    BY <1>1, <1>3, <2>2, <2>7, <2>8, <2>9, Turned
<1>8. CASE At(p, "failed") /\ PutFile(p, VideoIvf, Torn) /\ UNCHANGED out
  BY <1>1, <1>8, NamesApart, FailWritingKeeps DEF FailWriting
<1> HIDE DEF q
<1> QED
  BY <1>5, <1>6, <1>7, <1>8 DEF Build, Crf, q

LEMMA MuxKeeps ==
    ASSUME IInv, NEW p \in Procs, Mux(p)
    PROVE  IInv'
<1> DEFINE q == proc[p]
           F == files[MyDir(p)]
           found == F[VideoIvf]
           crf == Crfs(q.job)[Len(q.tried) + 1]
<1>0. q.at = "mux" /\ q.at \in Climbing /\ q.at \in Climbing \cup {"publish", "clean"}
  BY DEF Mux, Climbing
<1>1. /\ TypeOK /\ Running(p) /\ q \in MakeRun /\ q.job \in MakeJobs /\ Rung(q) /\ Tried(q)
      /\ ~ q.crossed => Workplace(q, F) /\ Published(q, out[p])
  BY <1>0, MakeAt
<1>2. q.said = None /\ q.cmd = "make" /\ F \in [Names -> File] /\ out[p] \in File
  BY <1>0, <1>1, Untouched DEF MakeRun, Tried
<1>3. CASE FailWriting(p, CandMp4)
  BY <1>1, <1>3, NamesApart, FailWritingKeeps
<1>4. ASSUME found.kind = "ivf", NEW size \in Sizes,
             PutFile(p, CandMp4, [kind |-> "mp4", srcs |-> found.srcs, size |-> size]),
             At(p, "measure"), UNCHANGED out
      PROVE  IInv'
  <2> DEFINE mp4 == [kind |-> "mp4", srcs |-> found.srcs, size |-> size]
             n == [q EXCEPT !.at = "measure"]
  <2>1. found.srcs \in Seq(CodedFile)
    <3>1. found \in File
      BY <1>2, NamesApart
    <3> HIDE DEF found
    <3> QED
      BY <1>4, <3>1 DEF File, Missing, Torn, CodedFile, Ivf, Mp4, Staged, Demuxed
  <2>2. mp4 \in File /\ mp4.kind = "mp4" /\ mp4.srcs = found.srcs
    BY <2>1 DEF File, Mp4
  <2>3. proc' = [proc EXCEPT ![p] = n] /\ PutFile(p, CandMp4, mp4)
    BY <1>4 DEF At, Becomes
  <2> HIDE DEF mp4
  <2>4. PICK dir \in [Names -> File] :
          /\ files' = [files EXCEPT ![MyDir(p)] = dir]
          /\ dir[CandMp4] = mp4
          /\ \A m \in Names : m # CandMp4 => dir[m] = F[m]
    BY <1>1, <2>2, <2>3, NamesApart, PutKeeps
  <2>5. out' = [out EXCEPT ![p] = out[p]]
    BY <1>1, <1>4, Untouched
  <2>6. /\ n \in MakeRun /\ SameJob(n, q) /\ n.at = "measure" /\ n.cmd = "make"
        /\ n.job = q.job /\ n.crossed = q.crossed
        /\ n.i = q.i /\ n.loaded = q.loaded /\ n.bytes = q.bytes /\ n.tried = q.tried
        /\ n.chosen = q.chosen /\ n.said = q.said
        /\ Fitting(n) = Fitting(q) /\ (LastBuilt(n) <=> LastBuilt(q))
    BY <1>1, AtMakes DEF Climbing
  <2> HIDE DEF n
  <2>7. Rung(n) /\ Tried(n)
    BY <1>0, <1>1, <2>6 DEF Rung, Tried, Climbing
  <2>8. ASSUME ~ n.crossed PROVE Workplace(n, dir)
    <3>1. IsBuild(q.bytes, "ivf", q.job, crf) /\ found = q.bytes
      BY <1>0, <1>1, <2>6, <2>8 DEF Workplace
    <3>2. IsBuild(dir[CandMp4], "mp4", n.job, Crfs(n.job)[Len(n.tried) + 1])
      BY <2>2, <2>4, <2>6, <3>1 DEF IsBuild
    <3>3. IsBuild(n.bytes, "ivf", n.job, Crfs(n.job)[Len(n.tried) + 1])
      BY <2>6, <3>1
    <3> QED
      BY <2>6, <3>2, <3>3 DEF Workplace
  <2>9. Published(n, out[p])
    BY <1>2, <2>6 DEF Published
  <2>10. Good(n, dir, out[p])
    BY <2>6, <2>7, <2>8, <2>9 DEF Good
  <2>11. n \in MakeRun \cup InfoRun
    BY <2>6
  <2> QED
    BY <1>1, <1>2, <2>3, <2>4, <2>5, <2>6, <2>10, <2>11, Turned
<1> QED
  BY <1>3, <1>4 DEF Mux

LEMMA MeasureKeeps ==
    ASSUME IInv, NEW p \in Procs, Measure(p)
    PROVE  IInv'
<1> DEFINE q == proc[p]
           F == files[MyDir(p)]
           found == F[CandMp4]
           crf == Crfs(q.job)[Len(q.tried) + 1]
           n == Choose(q, crf, found.size)
<1>0. q.at = "measure" /\ q.at \in Climbing /\ q.at \in Climbing \cup {"publish", "clean"}
  BY DEF Measure, Climbing
<1>1. /\ TypeOK /\ Running(p) /\ q \in MakeRun /\ q.job \in MakeJobs /\ Rung(q) /\ Tried(q)
      /\ ~ q.crossed => Workplace(q, F) /\ Published(q, out[p])
  BY <1>0, MakeAt
<1>2. q.cmd = "make" /\ F \in [Names -> File] /\ out[p] \in File
  BY <1>1, Untouched DEF MakeRun
<1>3. CASE Fail(p)
  BY <1>1, <1>3, FailKeeps
<1>4. CASE /\ found.kind = "mp4" /\ Becomes(p, Choose(q, Crf(p), found.size))
           /\ UNCHANGED <<files, out>>
  <2>1. found.size \in Sizes
    <3>1. found \in File
      BY <1>2, NamesApart
    <3> HIDE DEF found
    <3> QED
      BY <1>4, <3>1 DEF File, Missing, Torn, CodedFile, Ivf, Mp4, Staged, Demuxed
  <2>2. q.bytes \in Ivf /\ q.job.mp4
    BY <1>0, <1>1 DEF Rung, MakeRun
  <2>3. proc' = [proc EXCEPT ![p] = n]
    BY <1>4 DEF Becomes, Crf
  <2>4. /\ n \in MakeRun /\ SameJob(n, q) /\ Rung(n) /\ Tried(n)
        /\ n.said = None /\ n.at \in {"encode", "publish", "failed"}
        /\ n.at = "encode" => n.i = 1
        /\ n.chosen = [kind |-> "chosen", bytes |-> q.bytes, crf |-> crf, size |-> found.size]
    <3> HIDE DEF found
    <3> QED
      BY <1>0, <1>1, <2>1, <2>2, ChooseGood
  <2> HIDE DEF n
  <2>5. n.cmd = "make" /\ n.job = q.job /\ n.crossed = q.crossed
    BY <1>2, <2>4 DEF SameJob
  <2>6. ASSUME ~ n.crossed PROVE Workplace(n, F)
    <3>1. IsBuild(found, "mp4", q.job, crf)
      BY <1>0, <1>1, <2>5, <2>6 DEF Workplace
    <3>2. n.chosen.crf = crf /\ n.chosen.size = found.size
      BY <2>4
    <3>3. Chosen(n, F)
      BY <2>2, <2>5, <3>1, <3>2 DEF Chosen
    <3> QED
      BY <2>4, <3>3, NextWorkplace
  <2>7. Published(n, out[p])
    BY <2>4 DEF Published
  <2>8. Good(n, F, out[p])
    BY <2>4, <2>5, <2>6, <2>7 DEF Good
  <2>9. n \in MakeRun \cup InfoRun
    BY <2>4
  <2>10. files' = [files EXCEPT ![MyDir(p)] = F] /\ out' = [out EXCEPT ![p] = out[p]]
    BY <1>1, <1>4, Untouched
  <2> QED
    BY <1>1, <1>2, <2>3, <2>4, <2>8, <2>9, <2>10, Turned
<1> QED
  BY <1>3, <1>4 DEF Measure


LEMMA PublishKeeps ==
    ASSUME IInv, NEW p \in Procs, Publish(p)
    PROVE  IInv'
<1> DEFINE q == proc[p]
           F == files[MyDir(p)]
           content == IF q.job.mp4 THEN F[CandMp4] ELSE q.chosen.bytes
           said == [kind |-> "said", crf |-> q.chosen.crf, size |-> q.chosen.size]
<1>0. q.at = "publish" /\ q.at \in Climbing \cup {"publish", "clean"}
  BY DEF Publish
<1>1. /\ TypeOK /\ Running(p) /\ q \in MakeRun /\ q.job \in MakeJobs /\ Rung(q) /\ Tried(q)
      /\ ~ q.crossed => Workplace(q, F) /\ Published(q, out[p])
  BY <1>0, MakeAt
<1>2. /\ q.said = None /\ q.chosen # None /\ q.chosen \in Choice /\ q.cmd = "make"
      /\ F \in [Names -> File] /\ out[p] \in File
  <2>1. q.said = None /\ q.chosen # None
    BY <1>0, <1>1 DEF Tried
  <2> QED
    BY <1>1, <2>1, Untouched DEF MakeRun
<1>3. CASE Fail(p)
  BY <1>1, <1>3, FailKeeps
<1>4. CASE At(p, "failed") /\ out' = [out EXCEPT ![p] = Torn] /\ UNCHANGED files
  <2>1. files' = [files EXCEPT ![MyDir(p)] = F] /\ Torn \in File
    BY <1>1, <1>4, Untouched DEF File
  <2> QED
    BY <1>1, <1>2, <1>4, <2>1, FailedKeeps
<1>5. ASSUME out' = [out EXCEPT ![p] = content],
             Becomes(p, [q EXCEPT !.at = "clean", !.said = said]),
             \/ q.job.mp4 /\ PutFile(p, CandMp4, Missing)
             \/ UNCHANGED files
      PROVE  IInv'
  <2>1. content \in File
    <3>1. CASE q.job.mp4
      BY <1>2, <3>1, NamesApart
    <3>2. CASE ~ q.job.mp4
      BY <1>2, <3>2 DEF Choice, File
    <3> QED
      BY <3>1, <3>2
  <2>2. PICK dir \in [Names -> File] : files' = [files EXCEPT ![MyDir(p)] = dir]
    <3>1. CASE PutFile(p, CandMp4, Missing)
      <4>1. Missing \in File
        BY DEF File
      <4> QED
        BY <1>1, <3>1, <4>1, NamesApart, PutKeeps
    <3>2. CASE UNCHANGED files
      <4>1. files' = [files EXCEPT ![MyDir(p)] = F]
        BY <1>1, <3>2, Untouched
      <4> QED
        BY <1>2, <4>1
    <3> QED
      BY <1>5, <3>1, <3>2
  <2> DEFINE a == "clean"
             n == [q EXCEPT !.at = a, !.said = said]
  <2>3. said \in MakeSaid /\ said # None /\ said.crf = q.chosen.crf /\ said.size = q.chosen.size
    BY <1>2 DEF Choice, MakeSaid, None
  <2>4. a \in Climbing \cup {"publish", "clean", "done", "failed"}
    OBVIOUS
  <2>5. proc' = [proc EXCEPT ![p] = n]
    BY <1>5 DEF Becomes
  <2> HIDE DEF said, a, content
  <2>6. /\ n \in MakeRun /\ n.cmd = "make" /\ n.pid = q.pid /\ n.job = q.job
        /\ n.crossed = q.crossed /\ n.at = a /\ n.said = said
    BY <1>1, <2>3, <2>4 DEF MakeRun
  <2>7. n.tried = q.tried /\ n.chosen = q.chosen
    BY <1>1 DEF MakeRun
  <2> HIDE DEF n
  <2>8. n.at = "clean"
    BY <2>6 DEF a
  <2>9. Rung(n)
    BY <2>8 DEF Rung
  <2>10. Fitting(n) = Fitting(q) /\ (LastBuilt(q) => LastBuilt(n))
    BY <2>6, <2>7 DEF Fitting, LastBuilt
  <2>11. Tried(n)
    BY <1>0, <1>1, <1>2, <2>3, <2>6, <2>7, <2>8, <2>10 DEF Tried, Climbing
  <2>12. Workplace(n, dir)
    BY <2>8 DEF Workplace
  <2>13. ASSUME ~ n.crossed PROVE Published(n, content)
    <3>1. Chosen(q, F)
      BY <1>0, <1>1, <2>6, <2>13 DEF Workplace
    <3>2. CASE q.job.mp4
      BY <1>2, <2>3, <2>6, <3>1, <3>2 DEF Chosen, Published, content
    <3>3. CASE ~ q.job.mp4
      BY <1>2, <2>3, <2>6, <3>1, <3>3 DEF Chosen, Published, content
    <3> QED
      BY <3>2, <3>3
  <2>14. Good(n, dir, content)
    BY <2>6, <2>9, <2>11, <2>12, <2>13 DEF Good
  <2>15. SameJob(n, proc[p]) /\ n \in MakeRun \cup InfoRun
    BY <1>2, <2>6 DEF SameJob
  <2>16. out' = [out EXCEPT ![p] = content]
    BY <1>5 DEF content
  <2> QED
    BY <1>1, <2>1, <2>2, <2>5, <2>14, <2>15, <2>16, Turned
<1> QED
  BY <1>3, <1>4, <1>5 DEF Publish

LEMMA CleanKeeps ==
    ASSUME IInv, NEW p \in Procs, Clean(p)
    PROVE  IInv'
<1> DEFINE q == proc[p]
           F == files[MyDir(p)]
           n == [q EXCEPT !.at = "done"]
<1>0. q.at = "clean" /\ q.at \in Climbing \cup {"publish", "clean"}
  BY DEF Clean
<1>1. /\ TypeOK /\ Running(p) /\ q \in MakeRun /\ q.job \in MakeJobs /\ Rung(q) /\ Tried(q)
      /\ ~ q.crossed => Workplace(q, F) /\ Published(q, out[p])
  BY <1>0, MakeAt
<1>2. F \in [Names -> File] /\ out[p] \in File /\ out' = [out EXCEPT ![p] = out[p]]
  BY <1>1, Untouched DEF Clean
<1>3. PICK dir \in [Names -> File] : files' = [files EXCEPT ![MyDir(p)] = dir]
  <2>1. CASE files' = [files EXCEPT ![MyDir(p)] = [m \in Names |-> Missing]]
    <3>1. [m \in Names |-> Missing] \in [Names -> File]
      BY DEF File
    <3> QED
      BY <2>1, <3>1
  <2>2. CASE UNCHANGED files
    <3>1. files' = [files EXCEPT ![MyDir(p)] = F]
      BY <1>1, <2>2, Untouched
    <3> QED
      BY <1>2, <3>1
  <2> QED
    BY <2>1, <2>2 DEF Clean
<1>4. proc' = [proc EXCEPT ![p] = n]
  BY DEF Clean, At, Becomes
<1>5. /\ n \in MakeRun /\ SameJob(n, q) /\ n.at = "done" /\ n.cmd = "make"
      /\ n.job = q.job /\ n.crossed = q.crossed
      /\ n.tried = q.tried /\ n.chosen = q.chosen /\ n.said = q.said
      /\ Fitting(n) = Fitting(q) /\ (LastBuilt(n) <=> LastBuilt(q))
  <2> DEFINE a == "done"
  <2>1. a \in Climbing \cup {"publish", "clean", "done", "failed"} /\ n = [q EXCEPT !.at = a]
    OBVIOUS
  <2> HIDE DEF a, n, q
  <2>2. /\ n \in MakeRun /\ SameJob(n, q) /\ n.at = a /\ n.cmd = "make"
        /\ n.job = q.job /\ n.crossed = q.crossed
        /\ n.tried = q.tried /\ n.chosen = q.chosen /\ n.said = q.said
        /\ Fitting(n) = Fitting(q) /\ (LastBuilt(n) <=> LastBuilt(q))
    BY <1>1, <2>1, AtMakes
  <2> QED
    BY <2>2 DEF a
<1> HIDE DEF n
<1>6. Rung(n) /\ Tried(n)
  BY <1>1, <1>5 DEF Rung, Tried, Climbing
<1>7. Workplace(n, dir)
  BY <1>5 DEF Workplace
<1>8. ~ n.crossed => Published(n, out[p])
  BY <1>1, <1>5 DEF Published
<1>9. Good(n, dir, out[p])
  BY <1>5, <1>6, <1>7, <1>8 DEF Good
<1> QED
  BY <1>1, <1>2, <1>3, <1>4, <1>5, <1>9, Turned

(* What is known of an info at work.                                       *)
LEMMA InfoAt ==
    ASSUME IInv, NEW p \in Procs, proc[p].at \in {"stage", "demux", "read"}
    PROVE  /\ TypeOK /\ Running(p) /\ proc[p] \in InfoRun /\ proc[p].input \in InfoInputs
           /\ proc[p].cmd = "info" /\ MyDir(p) = Temp
           /\ ~ proc[p].crossed => Demuxing(proc[p], files[Temp])
<1>1. TypeOK /\ Running(p)
  BY DEF IInv, Running
<1>2. proc[p] \in InfoRun
  <2>1. proc[p] \notin MakeRun
    BY DEF MakeRun, Climbing
  <2> QED
    BY <1>1, <2>1, RunTypes
<1>3. proc[p].input \in InfoInputs /\ proc[p].cmd = "info"
  BY <1>2 DEF InfoRun
<1>4. MyDir(p) = Temp
  BY <1>3 DEF MyDir, Dir
<1>5. Good(proc[p], files[MyDir(p)], out[p])
  BY DEF IInv
<1> QED
  BY <1>1, <1>2, <1>3, <1>4, <1>5 DEF Good

LEMMA StageKeeps ==
    ASSUME IInv, NEW p \in Procs, Stage(p)
    PROVE  IInv'
<1> DEFINE q == proc[p]
           staged == [kind |-> "input", of |-> q.input]
           n == [q EXCEPT !.at = "demux"]
<1>0. q.at = "stage"
  BY DEF Stage
<1>1. /\ TypeOK /\ Running(p) /\ q \in InfoRun /\ q.input \in InfoInputs
      /\ q.cmd = "info" /\ MyDir(p) = Temp
      /\ ~ q.crossed => Demuxing(q, files[Temp])
  BY <1>0, InfoAt
<1>2. CASE FailWriting(p, InfoSrc)
  BY <1>1, <1>2, NamesApart, FailWritingKeeps
<1>3. CASE PutFile(p, InfoSrc, staged) /\ At(p, "demux") /\ UNCHANGED out
  <2>1. staged \in File
    BY <1>1 DEF File, Staged
  <2>2. PICK dir \in [Names -> File] :
          /\ files' = [files EXCEPT ![MyDir(p)] = dir]
          /\ dir[InfoSrc] = staged
    <3> HIDE DEF staged
    <3> QED
      BY <1>1, <1>3, <2>1, NamesApart, PutKeeps
  <2>3. out[p] \in File /\ out' = [out EXCEPT ![p] = out[p]]
    BY <1>1, <1>3, Untouched
  <2>4. proc' = [proc EXCEPT ![p] = n]
    BY <1>3 DEF At, Becomes
  <2>5. /\ n \in InfoRun /\ SameJob(n, q) /\ n.at = "demux" /\ n.cmd = "info"
        /\ n.input = q.input /\ n.crossed = q.crossed /\ n.said = q.said
    BY <1>1, AtInfos
  <2> HIDE DEF n
  <2>6. ~ n.crossed => Demuxing(n, dir)
    BY <1>1, <2>2, <2>5 DEF Demuxing
  <2>7. Good(n, dir, out[p])
    BY <2>5, <2>6 DEF Good
  <2> QED
    BY <1>1, <2>2, <2>3, <2>4, <2>5, <2>7, Turned
<1> QED
  BY <1>2, <1>3 DEF Stage

LEMMA DemuxKeeps ==
    ASSUME IInv, NEW p \in Procs, Demux(p)
    PROVE  IInv'
<1> DEFINE q == proc[p]
           input == q.input
           from == IF input.stdin THEN files[Temp][InfoSrc]
                   ELSE [kind |-> "input", of |-> input]
           demuxed == [kind |-> "demuxed", of |-> from.of]
           n == [q EXCEPT !.at = "read"]
<1>0. q.at = "demux"
  BY DEF Demux
<1>1. /\ TypeOK /\ Running(p) /\ q \in InfoRun /\ q.input \in InfoInputs
      /\ q.cmd = "info" /\ MyDir(p) = Temp
      /\ ~ q.crossed => Demuxing(q, files[Temp])
  BY <1>0, InfoAt
<1>2. CASE FailWriting(p, InfoIvf)
  BY <1>1, <1>2, NamesApart, FailWritingKeeps
<1>3. CASE Fail(p)
  BY <1>1, <1>3, FailKeeps
<1>4. CASE /\ from.kind = "input" /\ PutFile(p, InfoIvf, demuxed)
           /\ At(p, "read") /\ UNCHANGED out
  <2>1. from.of \in InfoInputs
    <3>1. CASE input.stdin
      <4>1. from \in File
        BY <1>1, <3>1, Untouched, NamesApart
      <4> HIDE DEF from
      <4> QED
        BY <1>4, <4>1 DEF File, Missing, Torn, CodedFile, Ivf, Mp4, Staged, Demuxed
    <3>2. CASE ~ input.stdin
      BY <1>1, <3>2
    <3> QED
      BY <3>1, <3>2
  <2>2. ~ q.crossed => from.of = input
    BY <1>0, <1>1 DEF Demuxing
  <2> HIDE DEF from
  <2>3. demuxed \in File
    BY <2>1 DEF File, Demuxed
  <2>4. PICK dir \in [Names -> File] :
          /\ files' = [files EXCEPT ![MyDir(p)] = dir]
          /\ dir[InfoIvf] = demuxed
    <3> HIDE DEF demuxed
    <3> QED
      BY <1>1, <1>4, <2>3, NamesApart, PutKeeps
  <2>5. out[p] \in File /\ out' = [out EXCEPT ![p] = out[p]]
    BY <1>1, <1>4, Untouched
  <2>6. proc' = [proc EXCEPT ![p] = n]
    BY <1>4 DEF At, Becomes
  <2>7. /\ n \in InfoRun /\ SameJob(n, q) /\ n.at = "read" /\ n.cmd = "info"
        /\ n.input = q.input /\ n.crossed = q.crossed /\ n.said = q.said
    BY <1>1, AtInfos
  <2> HIDE DEF n
  <2>8. ~ n.crossed => Demuxing(n, dir)
    BY <1>1, <2>2, <2>4, <2>7 DEF Demuxing
  <2>9. Good(n, dir, out[p])
    BY <2>7, <2>8 DEF Good
  <2> QED
    BY <1>1, <2>4, <2>5, <2>6, <2>7, <2>9, Turned
<1> QED
  BY <1>2, <1>3, <1>4 DEF Demux

LEMMA ReportKeeps ==
    ASSUME IInv, NEW p \in Procs, Report(p)
    PROVE  IInv'
<1> DEFINE q == proc[p]
           found == files[Temp][InfoIvf]
           said == [kind |-> "said", of |-> found.of]
           n == [q EXCEPT !.at = "done", !.said = said]
<1>0. q.at = "read"
  BY DEF Report
<1>1. /\ TypeOK /\ Running(p) /\ q \in InfoRun /\ q.input \in InfoInputs
      /\ q.cmd = "info" /\ MyDir(p) = Temp
      /\ ~ q.crossed => Demuxing(q, files[Temp])
  BY <1>0, InfoAt
<1>2. CASE Fail(p)
  BY <1>1, <1>2, FailKeeps
<1>3. CASE found.kind = "demuxed" /\ Becomes(p, n) /\ UNCHANGED <<files, out>>
  <2>1. found.of \in InfoInputs
    <3>1. found \in File
      BY <1>1, Untouched, NamesApart
    <3> HIDE DEF found
    <3> QED
      BY <1>3, <3>1 DEF File, Missing, Torn, CodedFile, Ivf, Mp4, Staged, Demuxed
  <2>2. ~ q.crossed => found.of = q.input
    BY <1>0, <1>1 DEF Demuxing
  <2> HIDE DEF found
  <2>3. said \in InfoSaid /\ said.of = found.of
    BY <2>1 DEF InfoSaid
  <2>4. /\ files[MyDir(p)] \in [Names -> File] /\ out[p] \in File
        /\ files' = [files EXCEPT ![MyDir(p)] = files[MyDir(p)]]
        /\ out' = [out EXCEPT ![p] = out[p]]
    BY <1>1, <1>3, Untouched
  <2>5. proc' = [proc EXCEPT ![p] = n]
    BY <1>3 DEF Becomes
  <2> HIDE DEF said
  <2>6. /\ n \in InfoRun /\ n.at = "done" /\ n.cmd = "info" /\ n.said = said
        /\ n.input = q.input /\ n.crossed = q.crossed /\ n.pid = q.pid
    BY <1>1, <2>3 DEF InfoRun
  <2> HIDE DEF n
  <2>7. ~ n.crossed => Demuxing(n, files[MyDir(p)])
    BY <2>2, <2>3, <2>6 DEF Demuxing
  <2>8. Good(n, files[MyDir(p)], out[p])
    BY <2>6, <2>7 DEF Good
  <2>9. SameJob(n, proc[p]) /\ n \in MakeRun \cup InfoRun
    BY <1>1, <2>6 DEF SameJob
  <2> QED
    BY <1>1, <2>4, <2>5, <2>8, <2>9, Turned
<1> QED
  BY <1>2, <1>3 DEF Report

-----------------------------------------------------------------------------
(***************************************************************************)
(* The whole command line.                                                 *)
(***************************************************************************)
LEMMA InitIInv == Init => IInv
<1> SUFFICES ASSUME Init PROVE IInv
  OBVIOUS
<1>1. \A p \in Procs : proc[p] = NoRun
  BY DEF Init
<1>2. TypeOK
  BY DEF Init, TypeOK, File
<1>3. \A p \in Procs : ~ Running(p)
  BY <1>1 DEF Running, NoRun
<1>4. \A p \in Procs : Good(proc[p], files[MyDir(p)], out[p])
  BY <1>1 DEF Good, NoRun
<1> QED
  BY <1>2, <1>3, <1>4 DEF IInv, Exclusive

LEMMA NextIInv == IInv /\ [Next]_vars => IInv'
<1> SUFFICES ASSUME IInv, [Next]_vars PROVE IInv'
  OBVIOUS
<1>1. CASE UNCHANGED vars
  BY <1>1 DEF vars, IInv, TypeOK, Exclusive, Running, MyDir
<1>2. ASSUME NEW p \in Procs, Start(p) PROVE IInv'
  BY <1>2, StartMakeKeeps, StartInfoKeeps DEF Start
<1>3. ASSUME NEW p \in Procs, Step(p) PROVE IInv'
  BY <1>3, PrepareKeeps, EncodeKeeps, LoadKeeps, BuildKeeps, MuxKeeps, MeasureKeeps,
     PublishKeeps, CleanKeeps, StageKeeps, DemuxKeeps, ReportKeeps DEF Step
<1>4. ASSUME NEW p \in Procs, Killed(p) PROVE IInv'
  BY <1>4, FailKeeps DEF Killed
<1> QED
  BY <1>1, <1>2, <1>3, <1>4 DEF Next

LEMMA Inductive == Spec => []IInv
BY InitIInv, NextIInv, PTL DEF Spec

LEMMA SaidByItself ==
    ASSUME IInv, NEW p \in Procs, Said(p)
    PROVE  /\ proc[p].said # None /\ Good(proc[p], files[MyDir(p)], out[p])
           /\ proc[p].cmd = "make" => /\ proc[p] \in MakeRun /\ proc[p].job \in MakeJobs
                                      /\ Tried(proc[p])
           /\ proc[p].cmd = "info" => proc[p] \in InfoRun
<1>1. TypeOK /\ Good(proc[p], files[MyDir(p)], out[p]) /\ proc[p].said # None
  BY DEF IInv, Said
<1>2. proc[p].cmd = "make" => proc[p] \in MakeRun
  BY <1>1, RunTypes
<1>3. proc[p].cmd = "info" => proc[p] \in InfoRun
  BY <1>1, RunTypes
<1>4. proc[p] \in MakeRun => proc[p].job \in MakeJobs
  BY DEF MakeRun
<1> QED
  BY <1>1, <1>2, <1>3, <1>4 DEF Good

(* What a make that had its directory to itself has published is its own   *)
(* images, in the order asked for and coded at the CRF it names, in a file *)
(* of the size it names: however many rungs failed half-way, whatever an   *)
(* earlier holder of the pid left in the directory, and whatever other     *)
(* processes do elsewhere (main.rs 886-982).                               *)
THEOREM PublishesItsOwn == Spec => []PublishesWhatItMeasured
<1>1. IInv => PublishesWhatItMeasured
  <2> SUFFICES ASSUME IInv, NEW p \in Procs, Said(p), proc[p].cmd = "make", Alone(p)
               PROVE  LET said == proc[p].said
                          job == proc[p].job
                      IN /\ out[p].kind = IF job.mp4 THEN "mp4" ELSE "ivf"
                         /\ out[p].size = said.size
                         /\ out[p].srcs = [i \in DOMAIN job.images |->
                               [kind |-> "coded", image |-> job.images[i], crf |-> said.crf]]
    BY Zenon DEF PublishesWhatItMeasured
  <2>1. proc[p].said # None /\ Published(proc[p], out[p])
    BY SaidByItself DEF Good, Alone
  <2> QED
    BY <2>1 DEF Published, IsBuild, Made
<1> QED
  BY <1>1, Inductive, PTL

(* The CRF published is that of the first build that fitted, and the last  *)
(* that built when none did; none of the ladder was passed over and none   *)
(* tried behind a fit (main.rs 886-949).                                   *)
THEOREM FirstFitPublished == Spec => []FirstFitWins
<1>1. ASSUME IInv, NEW p \in Procs, Said(p), proc[p].cmd = "make"
      PROVE  LET q == proc[p]
                 fits == {k \in DOMAIN q.tried : q.tried[k].built /\ Fits(q.job, q.tried[k].size)}
                 built == {k \in DOMAIN q.tried : q.tried[k].built}
                 won == Max(IF fits = {} THEN built ELSE fits)
             IN /\ \A k \in DOMAIN q.tried : q.tried[k].crf = Crfs(q.job)[k]
                /\ q.said.crf = q.tried[won].crf /\ q.said.size = q.tried[won].size
                /\ fits # {} => fits = {Len(q.tried)}
                /\ fits = {} => Len(q.tried) = Len(Crfs(q.job))
  <2> DEFINE q == proc[p]
             fits == {k \in DOMAIN q.tried : q.tried[k].built /\ Fits(q.job, q.tried[k].size)}
             built == {k \in DOMAIN q.tried : q.tried[k].built}
             those == IF fits = {} THEN built ELSE fits
             won == Max(those)
             L == Len(q.tried)
  <2>1. q \in MakeRun /\ q.said # None /\ Tried(q) /\ fits = Fitting(q)
    BY <1>1, SaidByItself DEF Fitting
  <2>2. q.tried \in Seq(Try) /\ L \in Nat /\ DOMAIN q.tried = 1..L
    <3>1. q.tried \in Seq(Try)
      BY <2>1 DEF MakeRun
    <3> QED
      BY <3>1, LenProperties
  <2>3. /\ \A k \in DOMAIN q.tried : q.tried[k].crf = Crfs(q.job)[k]
        /\ fits \subseteq {L} /\ (fits = {} => L = Len(Crfs(q.job)))
        /\ q.said.crf = q.chosen.crf /\ q.said.size = q.chosen.size
        /\ LastBuilt(q)
    BY <2>1 DEF Tried
  <2>4. PICK w \in DOMAIN q.tried :
          /\ q.tried[w].built
          /\ q.chosen.crf = q.tried[w].crf /\ q.chosen.size = q.tried[w].size
          /\ \A k \in DOMAIN q.tried : k > w => ~ q.tried[k].built
    BY <2>3 DEF LastBuilt
  <2>5. w \in those /\ \A k \in those : k \in DOMAIN q.tried /\ q.tried[k].built
    <3>1. CASE fits = {}
      BY <2>4, <3>1
    <3>2. CASE fits # {}
      <4>1. fits = {L} /\ L \in fits
        BY <2>3, <3>2
      <4>2. w = L
        BY <2>2, <2>4, <4>1
      <4> QED
        BY <3>2, <4>1, <4>2
    <3> QED
      BY <3>1, <3>2
  <2> HIDE DEF those, fits, built, q
  <2>6. \A k \in those : k \in 1..L /\ k <= w
    BY <2>2, <2>4, <2>5
  <2>7. won = w
    <3>1. \A k \in those : w >= k
      BY <2>2, <2>4, <2>6
    <3>2. won \in those /\ \A k \in those : won >= k
      BY <2>5, <3>1 DEF Max
    <3> HIDE DEF won
    <3> QED
      BY <2>2, <2>4, <2>5, <2>6, <3>1, <3>2
  <2>8. q.said.crf = q.tried[won].crf /\ q.said.size = q.tried[won].size
    BY <2>3, <2>4, <2>7
  <2>9. fits # {} => fits = {L}
    BY <2>3
  <2> QED
    BY <2>3, <2>8, <2>9, Zenon DEF q, fits, built, those, won, L
<1>2. IInv => FirstFitWins
  BY <1>1, Zenon DEF FirstFitWins
<1> QED
  BY <1>2, Inductive, PTL

(* An info that shared the temporary directory with no other reports on    *)
(* its own input, whatever lay there under the same names when it began    *)
(* (main.rs 1220-1236).                                                    *)
THEOREM ReportsOwnInput == Spec => []ReportsOnOwnInput
<1>1. IInv => ReportsOnOwnInput
  <2> SUFFICES ASSUME IInv, NEW p \in Procs, Said(p), proc[p].cmd = "info", Alone(p)
               PROVE  proc[p].said.of = proc[p].input
    BY DEF ReportsOnOwnInput
  <2> QED
    BY SaidByItself DEF Good, Alone, Demuxing
<1> QED
  BY <1>1, Inductive, PTL

-------------------------------------------------------------------------------
(***************************************************************************)
(* The C interface, for any number of threads and addresses.               *)
(***************************************************************************)

FfiInv == FfiTypeOK /\ ErrorKept /\ BuffersHeldOnce /\ FailureIsTold

(* Nothing is allocated and nobody has an error before the first call      *)
(* (ffi.rs 11-13).                                                         *)
LEMMA InitFfiInv == FfiInit => FfiInv
<1> SUFFICES ASSUME FfiInit PROVE FfiInv
  OBVIOUS
<1> USE FfiAssumption DEF FfiInit
<1>1. FfiTypeOK
  BY DEF FfiTypeOK
<1>2. ErrorKept
  BY DEF ErrorKept
<1>3. BuffersHeldOnce
  BY DEF BuffersHeldOnce
<1>4. FailureIsTold
  BY DEF FailureIsTold, Failures
<1> QED
  BY <1>1, <1>2, <1>3, <1>4 DEF FfiInv

(* Strings of two threads are two: each says whose it is (ffi.rs 11-19).   *)
LEMMA OwnStrings ==
  ASSUME FfiTypeOK, ErrorKept, NEW t \in Threads, NEW u \in Threads,
         lastError[t] # Null, lastError[t] = lastError[u]
  PROVE  t = u
<1>1. \A v \in Threads : lastError[v] # Null =>
        cstr[lastError[v]] = [by |-> v, what |-> outcome[v]]
  BY Zenon DEF ErrorKept
<1>2. [by |-> t, what |-> outcome[t]] = [by |-> u, what |-> outcome[u]]
  BY <1>1, Zenon
<1> QED
  BY <1>2

(* A string that is in use is not free (ffi.rs 15-19).                     *)
LEMMA StringInUse ==
  ASSUME FfiTypeOK, ErrorKept, NEW t \in Threads, lastError[t] # Null
  PROVE  lastError[t] \in Strings /\ cstr[lastError[t]] # Free
<1>1. lastError[t] \in Strings
  BY DEF FfiTypeOK
<1>2. outcome[t] \in Failures /\ cstr[lastError[t]] = [by |-> t, what |-> outcome[t]]
  BY Zenon DEF ErrorKept
<1>3. cstr[lastError[t]] \in Messages
  BY <1>2 DEF Messages
<1> QED
  BY <1>1, <1>3, FfiAssumption

(* A call that fails leaves its message, and every other thread's as it    *)
(* was (ffi.rs 15-19, 73-87).                                              *)
LEMMA FailingKeeps ==
  ASSUME FfiInv, NEW t \in Threads, NEW how \in Failures, at[t] = "expand", Failing(t, how)
  PROVE  FfiInv'
<1> USE DEF FfiInv
<1>1. PICK s \in Strings :
        /\ cstr[s] = Free
        /\ cstr' = [Dropped(t) EXCEPT ![s] = [by |-> t, what |-> how]]
        /\ lastError' = [lastError EXCEPT ![t] = s]
  BY DEF Failing, set_last_error
<1>2. /\ at' = [at EXCEPT ![t] = "caller"] /\ outcome' = [outcome EXCEPT ![t] = how]
      /\ UNCHANGED <<args, heap, outLen, errPtr, held>>
  BY DEF Failing, Ended
<1>3. Dropped(t) \in [Strings -> Messages \cup {Free}]
  BY DEF Dropped, FfiTypeOK
<1>4. [by |-> t, what |-> how] \in Messages
  BY DEF Messages
<1>5. FfiTypeOK'
  BY <1>1, <1>2, <1>3, <1>4 DEF FfiTypeOK
<1>6. ErrorKept'
  <2> SUFFICES ASSUME NEW u \in Threads
               PROVE  /\ lastError'[u] # Null =>
                           /\ outcome'[u] \in Failures
                           /\ cstr'[lastError'[u]] = [by |-> u, what |-> outcome'[u]]
                      /\ errPtr'[u] # Null => errPtr'[u] = lastError'[u]
                      /\ at'[u] = "expand" => errPtr'[u] = Null
                      /\ at'[u] = "expand" /\ args'[u].out_len => outLen'[u] = 0
    BY DEF ErrorKept
  <2>1. CASE u = t
    <3>1. lastError'[t] = s /\ cstr'[s] = [by |-> t, what |-> how] /\ outcome'[t] = how
      BY <1>1, <1>2, <1>3 DEF FfiTypeOK
    <3>2. errPtr'[t] = Null /\ at'[t] = "caller"
      BY <1>2 DEF ErrorKept, FfiTypeOK
    <3> QED
      BY <2>1, <3>1, <3>2
  <2>2. CASE u # t
    <3>1. lastError'[u] = lastError[u] /\ outcome'[u] = outcome[u] /\ at'[u] = at[u]
      BY <1>1, <1>2, <2>2 DEF FfiTypeOK
    <3>2. ASSUME lastError[u] # Null
          PROVE  cstr'[lastError[u]] = cstr[lastError[u]]
      <4>1. lastError[u] \in Strings /\ lastError[u] # s
        BY <1>1, <3>2, StringInUse
      <4>2. lastError[u] # lastError[t]
        BY <2>2, <3>2, OwnStrings
      <4> QED
        BY <1>1, <1>3, <4>1, <4>2 DEF Dropped
    <3> QED
      BY <1>2, <3>1, <3>2 DEF ErrorKept
  <2> QED
    BY <2>1, <2>2
<1>7. BuffersHeldOnce'
  BY <1>2 DEF BuffersHeldOnce
<1>8. FailureIsTold'
  <2> SUFFICES ASSUME NEW u \in Threads, at'[u] = "caller"
               PROVE  /\ lastError'[u] # Null <=> outcome'[u] \in Failures
                      /\ outcome'[u] \in Failures /\ args'[u].out_len => outLen'[u] = 0
    BY DEF FailureIsTold
  <2>1. CASE u = t
    <3>1. lastError'[t] = s /\ s # Null /\ outcome'[t] = how
      BY <1>1, <1>2, FfiAssumption DEF FfiTypeOK
    <3> QED
      BY <1>2, <2>1, <3>1 DEF ErrorKept
  <2>2. CASE u # t
    <3>1. lastError'[u] = lastError[u] /\ outcome'[u] = outcome[u] /\ at'[u] = at[u]
      BY <1>1, <1>2, <2>2 DEF FfiTypeOK
    <3> QED
      BY <1>2, <3>1 DEF FailureIsTold
  <2> QED
    BY <2>1, <2>2
<1> QED
  BY <1>5, <1>6, <1>7, <1>8 DEF FfiInv

(* What is held and what is alive stay one when a box is handed out at an  *)
(* address that was free (ffi.rs 65-72).                                   *)
LEMMA HandOutKeeps ==
  ASSUME FfiTypeOK, BuffersHeldOnce, NEW b \in Buffers, NEW len \in Lens, heap[b] = Free,
         heap' = [heap EXCEPT ![b] = len], held' = held \cup {<<b, len>>}
  PROVE  BuffersHeldOnce'
<1>1. heap'[b] = len /\ len # Free
  BY FfiAssumption DEF FfiTypeOK
<1>2. \A c \in Buffers \ {b} : heap'[c] = heap[c]
  BY DEF FfiTypeOK
<1>3. {<<c, heap'[c]>> : c \in {d \in Buffers : heap'[d] # Free}}
        = {<<c, heap[c]>> : c \in {d \in Buffers : heap[d] # Free}} \cup {<<b, len>>}
  BY <1>1, <1>2
<1> QED
  BY <1>3 DEF BuffersHeldOnce

(* They stay one when a buffer comes back (ffi.rs 92-96).                  *)
LEMMA FreeKeeps ==
  ASSUME FfiTypeOK, BuffersHeldOnce, NEW h \in held,
         held' = held \ {h}, heap' = [heap EXCEPT ![h[1]] = Free]
  PROVE  BuffersHeldOnce'
<1>1. PICK b \in Buffers : heap[b] # Free /\ h = <<b, heap[b]>>
  BY DEF BuffersHeldOnce
<1>2. heap'[b] = Free /\ \A c \in Buffers \ {b} : heap'[c] = heap[c]
  BY <1>1 DEF FfiTypeOK
<1>3. {<<c, heap'[c]>> : c \in {d \in Buffers : heap'[d] # Free}}
        = {<<c, heap[c]>> : c \in {d \in Buffers : heap[d] # Free}} \ {h}
  BY <1>1, <1>2
<1> QED
  BY <1>3 DEF BuffersHeldOnce

(* Dropping one thread's string touches no other's (ffi.rs 15-19).         *)
LEMMA ClearedKeeps ==
  ASSUME FfiTypeOK, ErrorKept, NEW t \in Threads, clear_last_error(t),
         NEW u \in Threads, u # t
  PROVE  /\ lastError'[u] = lastError[u]
         /\ lastError[u] # Null => cstr'[lastError[u]] = cstr[lastError[u]]
<1>1. lastError'[u] = lastError[u]
  BY DEF clear_last_error, FfiTypeOK
<1>2. ASSUME lastError[u] # Null
      PROVE  cstr'[lastError[u]] = cstr[lastError[u]]
  <2>1. lastError[u] \in Strings
    BY <1>2, StringInUse
  <2>2. lastError[u] # lastError[t]
    BY <1>2, OwnStrings
  <2> QED
    BY <2>1, <2>2 DEF clear_last_error, Dropped
<1> QED
  BY <1>1, <1>2

LEMMA ClearedTypes ==
  ASSUME FfiTypeOK, NEW t \in Threads, clear_last_error(t)
  PROVE  /\ cstr' \in [Strings -> Messages \cup {Free}]
         /\ lastError' \in [Threads -> Strings \cup {Null}]
         /\ lastError'[t] = Null
BY DEF FfiTypeOK, clear_last_error, Dropped

(* Every step of every thread keeps the invariant (ffi.rs 10-97).          *)
LEMMA NextFfiInv == FfiInv /\ [FfiNext]_ffiVars => FfiInv'
<1> SUFFICES ASSUME FfiInv, [FfiNext]_ffiVars PROVE FfiInv'
  OBVIOUS
<1> USE DEF FfiInv
<1>1. CASE UNCHANGED ffiVars
  BY <1>1 DEF ffiVars, FfiTypeOK, ErrorKept, BuffersHeldOnce, FailureIsTold
<1>2. ASSUME NEW t \in Threads, Call(t) PROVE FfiInv'
  <2>1. PICK input \in BOOLEAN, out_len \in BOOLEAN, before \in Lens :
          /\ args' = [args EXCEPT ![t] = [input |-> input, out_len |-> out_len]]
          /\ outLen' = [outLen EXCEPT ![t] = IF out_len THEN 0 ELSE before]
    BY <1>2 DEF Call
  <2>2. /\ at[t] = "caller" /\ at' = [at EXCEPT ![t] = "expand"]
        /\ errPtr' = [errPtr EXCEPT ![t] = Null]
        /\ UNCHANGED <<outcome, lastError, cstr, heap, held>>
    BY <1>2 DEF Call
  <2>3. before \in Nat
    BY FfiAssumption
  <2>4. FfiTypeOK'
    BY <2>1, <2>2, <2>3 DEF FfiTypeOK
  <2>5. ErrorKept'
    BY <2>1, <2>2 DEF ErrorKept, FfiTypeOK
  <2>6. BuffersHeldOnce'
    BY <2>2 DEF BuffersHeldOnce
  <2>7. FailureIsTold'
    BY <2>1, <2>2 DEF FailureIsTold, FfiTypeOK
  <2> QED
    BY <2>4, <2>5, <2>6, <2>7
<1>3. ASSUME NEW t \in Threads, NullArgument(t) PROVE FfiInv'
  <2>1. "null argument" \in Failures
    BY DEF Failures
  <2> QED
    BY <1>3, <2>1, FailingKeeps DEF NullArgument
<1>4. ASSUME NEW t \in Threads, Refused(t) PROVE FfiInv'
  <2>1. "refused" \in Failures
    BY DEF Failures
  <2> QED
    BY <1>4, <2>1, FailingKeeps DEF Refused, Valid
<1>5. ASSUME NEW t \in Threads, Panicked(t) PROVE FfiInv'
  <2>1. "panic" \in Failures
    BY DEF Failures
  <2> QED
    BY <1>5, <2>1, FailingKeeps DEF Panicked, Valid
<1>6. ASSUME NEW t \in Threads, Expanded(t) PROVE FfiInv'
  <2>1. PICK b \in Buffers, len \in Lens :
          /\ heap[b] = Free
          /\ outLen' = [outLen EXCEPT ![t] = len]
          /\ heap' = [heap EXCEPT ![b] = len]
          /\ held' = held \cup {<<b, outLen'[t]>>}
    BY <1>6 DEF Expanded, HandOut
  <2>2. /\ at[t] = "expand" /\ at' = [at EXCEPT ![t] = "caller"]
        /\ outcome' = [outcome EXCEPT ![t] = "ok"]
        /\ clear_last_error(t)
        /\ UNCHANGED <<args, errPtr>>
    BY <1>6 DEF Expanded, Valid, Ended
  <2>3. held' = held \cup {<<b, len>>}
    BY <2>1 DEF FfiTypeOK
  <2>4. len \in Nat
    BY FfiAssumption
  <2>5. FfiTypeOK'
    BY <2>1, <2>2, <2>3, <2>4, ClearedTypes DEF FfiTypeOK
  <2>6. BuffersHeldOnce'
    BY <2>1, <2>3, HandOutKeeps
  <2>7. ErrorKept'
    <3> SUFFICES ASSUME NEW u \in Threads
                 PROVE  /\ lastError'[u] # Null =>
                             /\ outcome'[u] \in Failures
                             /\ cstr'[lastError'[u]] = [by |-> u, what |-> outcome'[u]]
                        /\ errPtr'[u] # Null => errPtr'[u] = lastError'[u]
                        /\ at'[u] = "expand" => errPtr'[u] = Null
                        /\ at'[u] = "expand" /\ args'[u].out_len => outLen'[u] = 0
      BY DEF ErrorKept
    <3>1. CASE u = t
      BY <2>2, <3>1, ClearedTypes DEF ErrorKept, FfiTypeOK
    <3>2. CASE u # t
      <4>1. outcome'[u] = outcome[u] /\ at'[u] = at[u] /\ outLen'[u] = outLen[u]
        BY <2>1, <2>2, <3>2 DEF FfiTypeOK
      <4> QED
        BY <2>2, <3>2, <4>1, ClearedKeeps DEF ErrorKept
    <3> QED
      BY <3>1, <3>2
  <2>8. FailureIsTold'
    <3> SUFFICES ASSUME NEW u \in Threads, at'[u] = "caller"
                 PROVE  /\ lastError'[u] # Null <=> outcome'[u] \in Failures
                        /\ outcome'[u] \in Failures /\ args'[u].out_len => outLen'[u] = 0
      BY DEF FailureIsTold
    <3>1. CASE u = t
      <4>1. outcome'[t] = "ok" /\ "ok" \notin Failures /\ lastError'[t] = Null
        BY <2>2, ClearedTypes DEF Failures, FfiTypeOK
      <4> QED
        BY <3>1, <4>1
    <3>2. CASE u # t
      <4>1. outcome'[u] = outcome[u] /\ at'[u] = at[u] /\ outLen'[u] = outLen[u]
        BY <2>1, <2>2, <3>2 DEF FfiTypeOK
      <4>2. lastError'[u] = lastError[u]
        BY <2>2, <3>2, ClearedKeeps
      <4> QED
        BY <2>2, <4>1, <4>2 DEF FailureIsTold
    <3> QED
      BY <3>1, <3>2
  <2> QED
    BY <2>5, <2>6, <2>7, <2>8
<1>7. ASSUME NEW t \in Threads, stillcast_last_error(t) PROVE FfiInv'
  <2>1. /\ at[t] = "caller" /\ errPtr' = [errPtr EXCEPT ![t] = lastError[t]]
        /\ UNCHANGED <<at, args, outcome, lastError, cstr, heap, outLen, held>>
    BY <1>7 DEF stillcast_last_error
  <2>2. FfiTypeOK'
    BY <2>1 DEF FfiTypeOK
  <2>3. ErrorKept'
    BY <2>1 DEF ErrorKept, FfiTypeOK
  <2>4. BuffersHeldOnce' /\ FailureIsTold'
    BY <2>1 DEF BuffersHeldOnce, FailureIsTold
  <2> QED
    BY <2>2, <2>3, <2>4
<1>8. ASSUME NEW t \in Threads, stillcast_free(t) PROVE FfiInv'
  <2>1. PICK h \in held : held' = held \ {h} /\ heap' = [heap EXCEPT ![h[1]] = Free]
    BY <1>8 DEF stillcast_free
  <2>2. UNCHANGED <<at, args, outcome, lastError, cstr, outLen, errPtr>>
    BY <1>8 DEF stillcast_free
  <2>3. FfiTypeOK'
    BY <2>1, <2>2 DEF FfiTypeOK
  <2>4. ErrorKept' /\ FailureIsTold'
    BY <2>2 DEF ErrorKept, FailureIsTold
  <2>5. BuffersHeldOnce'
    BY <2>1, FreeKeeps
  <2> QED
    BY <2>3, <2>4, <2>5
<1>9. ASSUME NEW t \in Threads, ThreadEnds(t) PROVE FfiInv'
  <2>1. /\ at[t] = "caller" /\ at' = [at EXCEPT ![t] = "ended"]
        /\ errPtr' = [errPtr EXCEPT ![t] = Null]
        /\ clear_last_error(t)
        /\ UNCHANGED <<args, outcome, heap, outLen, held>>
    BY <1>9 DEF ThreadEnds
  <2>2. FfiTypeOK'
    BY <2>1, ClearedTypes DEF FfiTypeOK
  <2>3. BuffersHeldOnce'
    BY <2>1 DEF BuffersHeldOnce
  <2>4. ASSUME NEW u \in Threads, u # t
        PROVE  /\ at'[u] = at[u] /\ errPtr'[u] = errPtr[u]
               /\ lastError'[u] = lastError[u]
               /\ lastError[u] # Null => cstr'[lastError[u]] = cstr[lastError[u]]
    BY <2>1, <2>4, ClearedKeeps DEF FfiTypeOK
  <2>5. at'[t] = "ended" /\ errPtr'[t] = Null /\ lastError'[t] = Null
    BY <2>1, ClearedTypes DEF FfiTypeOK
  <2>6. ErrorKept'
    BY <2>1, <2>4, <2>5 DEF ErrorKept
  <2>7. FailureIsTold'
    BY <2>1, <2>4, <2>5 DEF FailureIsTold
  <2> QED
    BY <2>2, <2>3, <2>6, <2>7
<1> QED
  BY <1>1, <1>2, <1>3, <1>4, <1>5, <1>6, <1>7, <1>8, <1>9 DEF FfiNext

LEMMA FfiInvHolds == FfiSpec => []FfiInv
BY InitFfiInv, NextFfiInv, PTL DEF FfiSpec

(* Every variable keeps its type, and nothing but the buffers held and the *)
(* errors of the last calls is in memory that is not free.                 *)
THEOREM TypesHold == FfiSpec => []FfiTypeOK
<1>1. FfiInv => FfiTypeOK
  BY DEF FfiInv
<1> QED
  BY <1>1, FfiInvHolds, PTL

(* An error pointer a thread may use shows its own last call's message     *)
(* (ffi.rs 21-23).                                                         *)
THEOREM ErrorsAreOwn == FfiSpec => []ErrorIsOwnLast
<1>1. FfiInv => ErrorIsOwnLast
  BY DEF FfiInv, ErrorKept, ErrorIsOwnLast
<1> QED
  BY <1>1, FfiInvHolds, PTL

(* No box leaks, is held when it is gone or is freed with another length   *)
(* (ffi.rs 65-72, 92-96).                                                  *)
THEOREM BuffersAreHeldOnce == FfiSpec => []BuffersHeldOnce
<1>1. FfiInv => BuffersHeldOnce
  BY DEF FfiInv
<1> QED
  BY <1>1, FfiInvHolds, PTL

(* A thread has an error exactly when its last call failed (ffi.rs 21-22). *)
THEOREM FailuresAreTold == FfiSpec => []FailureIsTold
<1>1. FfiInv => FailureIsTold
  BY DEF FfiInv
<1> QED
  BY <1>1, FfiInvHolds, PTL

===============================================================================
