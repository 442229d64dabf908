------------------------------ MODULE Commands ------------------------------
(***************************************************************************)
(* The processes of the command line that leave files on the way to their  *)
(* result: make, which walks a ladder of CRFs in a work directory, and     *)
(* info, which has ffmpeg demux what the library cannot read.  Processes   *)
(* run concurrently, any call of one may fail, any of them may be killed,  *)
(* and a pid, with what its last holder left behind, may come again.       *)
(*                                                                         *)
(* A file is what it was made from.  How large a build or an mp4 comes out *)
(* is left open.                                                           *)
(***************************************************************************)
EXTENDS Naturals, Sequences, FiniteSets, SequencesExt

CONSTANTS
    Procs,      \* the processes ever started
    Pids,       \* the process ids they may get
    Images,     \* the image files there are
    MakeJobs,   \* arguments of a make: images, crf, budget, mp4, kept
    InfoInputs, \* inputs of an info that need ffmpeg: their name, and stdin or not
    Sizes,      \* the sizes a build or an mp4 may have
    NoBudget    \* no --max-size

ASSUME CommandsAssumption ==
    /\ Sizes \subseteq Nat
    /\ MakeJobs \subseteq [images : Seq(Images) \ {<< >>}, crf : 0..63,
                           budget : Nat \cup {NoBudget}, mp4 : BOOLEAN, kept : BOOLEAN]
    /\ \A input \in InfoInputs : input.stdin \in BOOLEAN

VARIABLES
    proc,   \* what each process is at and holds in memory
    files,  \* the files of every work directory and of the temporary one
    out     \* the output files, one name per process

vars == <<proc, files, out>>

SharedWork == "stillcast-work"
Temp == "tmp"
Dirs == Pids \cup {SharedWork, Temp}

Src(i) == <<"src", i>>
VideoIvf == <<"video.ivf", 0>>
CandMp4 == <<"out.mp4", 0>>
InfoSrc == <<"stillcast-info-src.mp4", 0>>
InfoIvf == <<"stillcast-info.ivf", 0>>
Names == {Src(i) : i \in UNION {DOMAIN j.images : j \in MakeJobs}}
         \cup {VideoIvf, CandMp4, InfoSrc, InfoIvf}

Missing == [kind |-> "missing"]
Torn == [kind |-> "torn"]               \* what a failed or killed writer left
NoRun == [cmd |-> "none", pid |-> "none", at |-> "idle"]
None == [kind |-> "none"]

Running(p) == proc[p].at \notin {"idle", "done", "failed"}

\* The directory a process works in.  All outputs are taken to be in one
\* directory, so every make --keep-work has the same.
Dir(q) == IF q.cmd = "info" THEN Temp
          ELSE IF q.job.kept THEN SharedWork ELSE q.pid
MyDir(p) == Dir(proc[p])

\* The CRFs to try: the one asked for, and with a budget the coarser ones of
\* the ladder, which are its last.
Ladder == <<40, 48, 56, 63>>
Coarser(crf) == SubSeq(Ladder, Cardinality({k \in 1..4 : Ladder[k] <= crf}) + 1, 4)
Crfs(j) == <<j.crf>> \o (IF j.budget = NoBudget THEN << >> ELSE Coarser(j.crf))
Crf(p) == Crfs(proc[p].job)[Len(proc[p].tried) + 1]

Fits(j, size) == j.budget = NoBudget \/ size <= j.budget

Becomes(p, q) == proc' = [proc EXCEPT ![p] = q]
At(p, at) == Becomes(p, [proc[p] EXCEPT !.at = at])
PutFile(p, name, content) == files' = [files EXCEPT ![MyDir(p)][name] = content]

\* An error return: the work directory stays as it is.
Fail(p) == At(p, "failed") /\ UNCHANGED <<files, out>>

\* A call that wrote part of its file and failed.
FailWriting(p, name) == At(p, "failed") /\ PutFile(p, name, Torn) /\ UNCHANGED out

Init == /\ proc = [p \in Procs |-> NoRun]
        /\ files = [d \in Dirs |-> [n \in Names |-> Missing]]
        /\ out = [p \in Procs |-> Missing]

(***************************************************************************)
(* A process is started.  `crossed` is not in the program: it notes that   *)
(* another one was at work in the same directory while this one was.       *)
(***************************************************************************)
Launch(p, run) ==
    LET with == {q \in Procs \ {p} : Running(q) /\ MyDir(q) = Dir(run)}
    IN /\ proc[p].at = "idle"
       /\ \A q \in Procs : Running(q) => proc[q].pid # run.pid
       /\ proc' = [q \in Procs |->
                     IF q = p THEN [run EXCEPT !.crossed = with # {}]
                     ELSE IF q \in with THEN [proc[q] EXCEPT !.crossed = TRUE]
                     ELSE proc[q]]
       /\ UNCHANGED <<files, out>>

\* create_dir_all takes the directory as it finds it, files of an earlier
\* holder of the pid included.
StartMake(p) == \E j \in MakeJobs, pid \in Pids :
    Launch(p, [cmd |-> "make", pid |-> pid, at |-> "prepare", job |-> j,
               i |-> 1, loaded |-> << >>, bytes |-> None, tried |-> << >>,
               chosen |-> None, said |-> None, crossed |-> FALSE])

\* The probed length, the segments' frames and --max-size are made out, each
\* of which may be refused.
Prepare(p) == /\ proc[p].at = "prepare"
              /\ \/ At(p, "encode") /\ UNCHANGED <<files, out>>
                 \/ Fail(p)

(***************************************************************************)
(* One rung of the ladder.                                                 *)
(***************************************************************************)
\* ffmpeg encodes image i over whatever src file is there.
Encode(p) ==
    LET q == proc[p]
        coded == [kind |-> "coded", image |-> q.job.images[q.i], crf |-> Crf(p)]
        on == IF q.i < Len(q.job.images)
              THEN [q EXCEPT !.i = @ + 1]
              ELSE [q EXCEPT !.i = 1, !.at = "load"]
    IN /\ q.at = "encode"
       /\ \/ PutFile(p, Src(q.i), coded) /\ Becomes(p, on) /\ UNCHANGED out
          \/ FailWriting(p, Src(q.i))

\* load_pairs reads and splits the sources one after the other.
Load(p) ==
    LET q == proc[p]
        found == files[MyDir(p)][Src(q.i)]
        on == [q EXCEPT !.i = @ + 1, !.loaded = Append(@, found),
                        !.at = IF q.i = Len(q.job.images) THEN "build" ELSE "load"]
    IN /\ q.at = "load"
       /\ \/ found.kind = "coded" /\ Becomes(p, on) /\ UNCHANGED <<files, out>>
          \/ Fail(p)

\* Slip: a build that failed is tried again at the same CRF.
Slip_RetryRung(q) ==
    IF ~Last(q.tried).built
    THEN [q EXCEPT !.at = "encode", !.i = 1, !.loaded = << >>, !.tried = Front(@)]
    ELSE IF Len(q.tried) < Len(Crfs(q.job))
    THEN [q EXCEPT !.at = "encode", !.i = 1, !.loaded = << >>]
    ELSE [q EXCEPT !.at = IF q.chosen = None THEN "failed" ELSE "publish"]

\* What comes behind a rung: the next one, or the end with what was chosen
\* last, or with the last build's error.
NextRung(q) ==
    IF Len(q.tried) < Len(Crfs(q.job))
    THEN [q EXCEPT !.at = "encode", !.i = 1, !.loaded = << >>]
    ELSE [q EXCEPT !.at = IF q.chosen = None THEN "failed" ELSE "publish"]

\* Slip: the smallest build is remembered, as the warning's "best" suggests, while
\* the candidate on disk is the last one.
Slip_ChooseSmallest(q, crf, size) ==
    LET c == [kind |-> "chosen", bytes |-> q.bytes, crf |-> crf, size |-> size]
        on == [q EXCEPT !.chosen = IF @ = None THEN c ELSE IF @.size <= size THEN @ ELSE c,
                        !.tried = Append(@, [crf |-> crf, size |-> size, built |-> TRUE])]
    IN IF Fits(q.job, size) THEN [on EXCEPT !.at = "publish"] ELSE NextRung(on)

\* Slip: the ladder is walked to its end whatever fits.
Slip_NoBreak(q, crf, size) ==
    LET c == [kind |-> "chosen", bytes |-> q.bytes, crf |-> crf, size |-> size]
    IN NextRung([q EXCEPT !.chosen = c,
                   !.tried = Append(@, [crf |-> crf, size |-> size, built |-> TRUE])])

\* chosen is overwritten by every rung that built; the first that fits ends
\* the ladder.
Choose(q, crf, size) ==
    LET c == [kind |-> "chosen", bytes |-> q.bytes, crf |-> crf, size |-> size]
        on == [q EXCEPT !.chosen = c,
                        !.tried = Append(@, [crf |-> crf, size |-> size, built |-> TRUE])]
    IN IF Fits(q.job, size) THEN [on EXCEPT !.at = "publish"] ELSE NextRung(on)

\* The build in memory.  One that fails leaves the next rung to be tried; for
\* an mp4 it is written down for ffmpeg.
Build(p) ==
    LET q == proc[p]
        refused == [crf |-> Crf(p), size |-> 0, built |-> FALSE]
    IN /\ q.at = "build"
       /\ \/ \E size \in Sizes :
               LET ivf == [kind |-> "ivf", srcs |-> q.loaded, size |-> size]
                   on == [q EXCEPT !.bytes = ivf]
               IN IF q.job.mp4
                  THEN PutFile(p, VideoIvf, ivf) /\ Becomes(p, [on EXCEPT !.at = "mux"])
                  ELSE Becomes(p, Choose(on, Crf(p), size)) /\ UNCHANGED files
          \/ /\ Becomes(p, NextRung([q EXCEPT !.tried = Append(@, refused)]))
             /\ UNCHANGED files
          \/ q.job.mp4 /\ At(p, "failed") /\ PutFile(p, VideoIvf, Torn)
       /\ UNCHANGED out

\* ffmpeg muxes video.ivf, as it is now, into the candidate.
Mux(p) ==
    LET found == files[MyDir(p)][VideoIvf]
    IN /\ proc[p].at = "mux"
       /\ \/ /\ found.kind = "ivf"
             /\ \E size \in Sizes :
                  PutFile(p, CandMp4, [kind |-> "mp4", srcs |-> found.srcs, size |-> size])
             /\ At(p, "measure")
             /\ UNCHANGED out
          \/ FailWriting(p, CandMp4)

\* The budget is held against the size of the candidate on disk.
Measure(p) ==
    LET found == files[MyDir(p)][CandMp4]
    IN /\ proc[p].at = "measure"
       /\ \/ /\ found.kind = "mp4"
             /\ Becomes(p, Choose(proc[p], Crf(p), found.size))
             /\ UNCHANGED <<files, out>>
          \/ Fail(p)

\* The candidate is renamed, or copied where it cannot be; an ivf is written
\* from memory.
Publish(p) ==
    LET q == proc[p]
        content == IF q.job.mp4 THEN files[MyDir(p)][CandMp4] ELSE q.chosen.bytes
        said == [kind |-> "said", crf |-> q.chosen.crf, size |-> q.chosen.size]
    IN /\ q.at = "publish"
       /\ \/ /\ content # Missing
             /\ out' = [out EXCEPT ![p] = content]
             /\ Becomes(p, [q EXCEPT !.at = "clean", !.said = said])
             /\ \/ q.job.mp4 /\ PutFile(p, CandMp4, Missing)
                \/ UNCHANGED files
          \/ Fail(p)
          \/ At(p, "failed") /\ out' = [out EXCEPT ![p] = Torn] /\ UNCHANGED files

\* Only a make that got here removes its directory, if it may.
Clean(p) ==
    /\ proc[p].at = "clean"
    /\ At(p, "done")
    /\ \/ /\ ~proc[p].job.kept
          /\ files' = [files EXCEPT ![MyDir(p)] = [n \in Names |-> Missing]]
       \/ UNCHANGED files
    /\ UNCHANGED out

(***************************************************************************)
(* info on an input the library cannot read: stdin is staged, ffmpeg       *)
(* demuxes to one fixed name, and what is there is read and reported on.   *)
(***************************************************************************)
StartInfo(p) == \E input \in InfoInputs, pid \in Pids :
    Launch(p, [cmd |-> "info", pid |-> pid, input |-> input, said |-> None, crossed |-> FALSE,
               at |-> IF input.stdin THEN "stage" ELSE "demux"])

Stage(p) ==
    /\ proc[p].at = "stage"
    /\ \/ /\ PutFile(p, InfoSrc, [kind |-> "input", of |-> proc[p].input])
          /\ At(p, "demux")
          /\ UNCHANGED out
       \/ FailWriting(p, InfoSrc)

\* Slip: a failed demux is passed over: what lies under the name is read.
Slip_DemuxUnchecked(p) ==
    LET input == proc[p].input
    IN /\ proc[p].at = "demux"
       /\ \/ PutFile(p, InfoIvf, [kind |-> "demuxed", of |-> input])
          \/ UNCHANGED files
       /\ At(p, "read")
       /\ UNCHANGED out

Demux(p) ==
    LET input == proc[p].input
        from == IF input.stdin THEN files[Temp][InfoSrc] ELSE [kind |-> "input", of |-> input]
    IN /\ proc[p].at = "demux"
       /\ \/ /\ from.kind = "input"
             /\ PutFile(p, InfoIvf, [kind |-> "demuxed", of |-> from.of])
             /\ At(p, "read")
             /\ UNCHANGED out
          \/ FailWriting(p, InfoIvf)
          \/ Fail(p)

Report(p) ==
    LET found == files[Temp][InfoIvf]
    IN /\ proc[p].at = "read"
       /\ \/ /\ found.kind = "demuxed"
             /\ Becomes(p, [proc[p] EXCEPT !.at = "done",
                              !.said = [kind |-> "said", of |-> found.of]])
             /\ UNCHANGED <<files, out>>
          \/ Fail(p)

-----------------------------------------------------------------------------

Killed(p) == Running(p) /\ Fail(p)

Start(p) == StartMake(p) \/ StartInfo(p)
Step(p) == \/ Prepare(p) \/ Encode(p) \/ Load(p) \/ Build(p) \/ Mux(p)
           \/ Measure(p) \/ Publish(p) \/ Clean(p)
           \/ Stage(p) \/ Demux(p) \/ Report(p)

Next == \E p \in Procs : Start(p) \/ Step(p) \/ Killed(p)

\* A process that was started is scheduled until it ends.
Spec == Init /\ [][Next]_vars /\ \A p \in Procs : WF_vars(Step(p))

-----------------------------------------------------------------------------

Said(p) == proc[p].at \notin {"idle"} /\ proc[p].said # None
Alone(p) == ~proc[p].crossed

(***************************************************************************)
(* What a make that had its directory to itself puts out is what it says   *)
(* it wrote: its own images in the order given, all coded at the CRF it    *)
(* names, in a file of the size it names and held against the budget.      *)
(* (main.rs 886-982: the candidate on disk and chosen in memory go through *)
(* rungs that fail half-way, and the directory may hold what an earlier    *)
(* process of the same pid, failed or killed, has left.)                   *)
(***************************************************************************)
PublishesWhatItMeasured ==
    \A p \in Procs : Said(p) /\ proc[p].cmd = "make" /\ Alone(p) =>
        LET said == proc[p].said
            job == proc[p].job
        IN /\ out[p].kind = IF job.mp4 THEN "mp4" ELSE "ivf"
           /\ out[p].size = said.size
           /\ out[p].srcs = [i \in DOMAIN job.images |->
                               [kind |-> "coded", image |-> job.images[i], crf |-> said.crf]]

(***************************************************************************)
(* The first CRF whose build fits the budget is the one published, and     *)
(* only when none fits the last that built at all (main.rs 886 "first fit  *)
(* wins"); no CRF is tried behind one that fits, and none is left out.     *)
(***************************************************************************)
FirstFitWins ==
    \A p \in Procs : Said(p) /\ proc[p].cmd = "make" =>
        LET q == proc[p]
            fits == {k \in DOMAIN q.tried : q.tried[k].built /\ Fits(q.job, q.tried[k].size)}
            built == {k \in DOMAIN q.tried : q.tried[k].built}
            won == Max(IF fits = {} THEN built ELSE fits)
        IN /\ \A k \in DOMAIN q.tried : q.tried[k].crf = Crfs(q.job)[k]
           /\ q.said.crf = q.tried[won].crf /\ q.said.size = q.tried[won].size
           /\ fits # {} => fits = {Len(q.tried)}
           /\ fits = {} => Len(q.tried) = Len(Crfs(q.job))

(***************************************************************************)
(* An info that had the temporary files to itself reports on the stream it *)
(* was given, never on what an earlier one has left under the same name    *)
(* (main.rs 1220-1236).                                                    *)
(***************************************************************************)
ReportsOnOwnInput ==
    \A p \in Procs : Said(p) /\ proc[p].cmd = "info" /\ Alone(p) =>
        proc[p].said.of = proc[p].input

(***************************************************************************)
(* Whatever fails, every process that was started ends: no rung is retried *)
(* for ever (main.rs 899-949).                                             *)
(***************************************************************************)
EveryProcessEnds ==
    \A p \in Procs : Running(p) ~> proc[p].at \in {"done", "failed"}

=============================================================================
