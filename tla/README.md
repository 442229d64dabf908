# stillcast in TLA+

stillcast turns a short AV1 encode of a still image into a video of any length.
It takes two temporal units from the encode, a keyframe and the frame coded
directly behind it (the *golden*), and emits

    [key][golden][show_existing]* [key][golden][show_existing]* ...

so that every further frame costs a few bytes.  These modules model the code
that picks the two units, the code that writes the stream, the code that reads
and rewrites headers, the containers on both sides, the code that checks a
finished stream, the C interface and the commands around it all, and relate
each of them to what comes behind it: an AV1 decoder, a player, a C program,
another process.  Paths below are relative to the repository
(`src/src/x.rs` is the Rust file, `src/docs/` the documentation).

## 1. Inventory

The library is single-threaded.  One call runs from arguments to result;
what is hard about it is *sequences*: a scan whose three registers must stand
for a decoder's reference slots over an unbounded history, a stream that must
play right from every sync sample, packets merged across boundaries, and
headers whose every field decides which fields follow.  Concurrency exists in
two places: processes that share temporary files, and threads of a C program
that share an allocator.

| Component | State | Operations | Talks to | What makes it correct |
|---|---|---|---|---|
| **Pair selection** `assemble.rs: classify_tu, split_input` | `sh`, `anchor`, `pred`, `dirty`, counters of the diagnostics | one loop iteration per temporal unit, over eight kinds of unit | fed by the container; hands the pair to the assembler | the golden decodes the same right behind the anchor as it did in the encode; one sequence header governs both; the first qualifying pair is returned |
| **Assembler** `assemble.rs: assemble_multi` | canonical header, scanner slots, prepared segments, `left`, `golden_emitted`, output TUs, `key_samples` | parameter checks, header checks, prepare a segment, emit a chunk, emit a trailing frame | header scanner, `seq_header` rewrite; its output goes to the muxers | each frame shows its image, from the start and from any seek; `key_samples` is exact; seek error bounded; the splice flag appears exactly once; terminates |
| **Sequence header** `seq_header.rs` | none | parse, emit, declare timing, declare decoder model | assembler, container | emit after parse is the identity; a rewrite is declared where it is coded |
| **Uncompressed header** `uheader.rs`, `frame_header.rs` | `Dpb` (8 slots) | scan a header, update the slots, splice a bit | assembler, container, inspector | the slots are a decoder's |
| **OBU and bit I/O** `obu.rs`, `bitio.rs` | reader position | read, write, leb128 | everything | read after write is the identity |
| **Containers** `container.rs` | pending packets, current group | sniff, split, merge frameless, canonicalize, find the geometry | pair selection, inspector | nothing lost or reordered; coded timestamps kept; three serializations, one result |
| **IVF** `ivf.rs` | none | read, write, rate | containers, assembler output | exact rate, no zero rate |
| **Inspection** `inspect.rs` | `sh`, `Dpb`, report | `analyze`, `checks` | command line | a stream that passes plays; the assembler's streams pass |
| **MP4 muxer** `mp4.rs`, **ADTS** `adts.rs` | box buffers | write, parse | command line | offsets and tables point at the samples |
| **Library API** `api.rs` | none | compose the above | C ABI | - |
| **C ABI** `ffi.rs` | thread-local error string, buffers owned by the caller | expand, last_error, free | C callers | an error is reported until the next call; a buffer is freed once |
| **Command line** `main.rs` | work directories, CRF ladder, gop search | make, expand, encode, plan, info | ffmpeg, files, other processes | what is published is what was measured; runs do not disturb each other |

The hard behaviours, each at its line, are the `hazards` of `PROJECT.json`.
The main ones: several units that together disturb the slots a golden reads;
a sequence header that changes while an anchor is held; chunk arithmetic at
`left = 1`, `left = gop`, `left = gop + 1`; a slot table that survives across
segments while a player starts anywhere; merging of packets that carry no
frame; a unit with several frames judged by one of them; a header emitted,
spliced or read under another condition than it was coded; a ladder of builds
in which each step can fail, over a directory that a killed process of the
same pid may have left full; frame counts at the end of their word; offsets
that depend on the size of what holds them; a pointer into a string that the
next call frees.

## 2. Modules

| Module | Models | State and actions |
|---|---|---|
| `SplitInput` | `split_input`, `classify_tu` | the locals of the loop under their own names; one action per arm: `ScanSkippable`, `ScanOpaque`, `ScanAnchor`, `ScanRebase`, `ScanOther`, then `GiveUp`. `dec` is a history variable, the slots of a decoder of the whole input |
| `Assemble` | `assemble_multi` | its arguments and locals; `CheckParams`, `CheckHeaders`, `PrepareSegment`, `BeginEmission`, `EmitGop`, `EmitTail`, `NextSegment`, `Finish` follow the code's stages in order |
| `Playback` | `Assemble` and a player | adds the player's `pos`, `dpb`, `display` and the actions `PlayNext`, `SeekTo` |
| `StillVideo` | the abstract specification | a slide show: `at`, `image`; `Advance`, `Seek` |
| `Container` | `container::read` | the input is written packet by packet (`Write`); `ReadIvf`, `ReadObu`, `ReadAnnexB` are the code, as folds over packets and OBUs; `GeometryFrom` is the scan for the picture size |
| `Inspect` | `analyze`, `checks` | `Walk` is one iteration of `analyze`; `dec` and `illegal` are history, a decoder of the same stream |
| `InspectedPlayback` | `Assemble`, `Inspect` together | the assembler's output written out as OBUs and given to `analyze` and `checks` |
| `SeqHeader` | `seq_header.rs` | operators: the fields the parser reads (`ParseFields`), what it stores (`ParseSequenceHeader`), the fields the emitter writes (`EmitSequenceHeader`), `WithTimingInfoRate`, `WithDecoderModelRate` |
| `FrameHeader` | `uheader.rs`, `frame_header.rs`, `inter_ref_slots` of `inspect.rs` | operators: the fields of the full walk (`ScanFields`), of the short one (`InfoFields`) and of the inspector's (`RefSlotFields`); `AfterFrame` updates the slots; `Spliced`, `SplicedBytes` |
| `Headers` | the headers of one image through `assemble_multi` | `ParseHeader`, `SettleHeader`, `WalkKey`, `WalkGolden`; `outDpb` is a reader of the output, `altQ` a decoder's saved features |
| `Commands` | `make` and `info` as processes | `proc`, `files`, `out`; one action per call that can fail: `Prepare`, `Encode`, `Load`, `Build`, `Mux`, `Measure`, `Publish`, `Clean`; `Stage`, `Demux`, `Report`; `Killed`. `crossed` is a history variable: another process was at work in the same directory |
| `Lengths` | `segment_frames`, `resolve_gop`, `fit_gop_for_size`, `plan` | `Settle`, `Build`, `BuildRefuses`, `Plan`; the sizes follow the emission loop of `assemble_multi` |
| `Mp4` | `mp4.rs` | operators: the size of every box, the durations it says and in which version (`TimedBox`), and what the tables say |
| `Outputs` | `build_output`, `adts.rs`, `ivf.rs` with `Mp4` | `ParseAdts` takes what reads as a header and goes as far as it says, `WriteMp4`, `WriteIvf`, `OtherIvf` (another muxer's file), `OpenIvf`, `ReadPacket` |
| `Ffi` | `ffi.rs` and the C program | `Call`, `NullArgument`, `Refused`, `Panicked`, `Expanded`, `stillcast_last_error`, `stillcast_free`, `ThreadEnds`, per thread |
| `PlaybackProofs` | theorems on `Playback`, `StillVideo` and `InspectedPlayback` | - |
| `SplitInputProofs`, `InspectProofs`, `OutputsProofs`, `HeadersProofs` | theorems on the module of that name | - |
| `InputProofs` | theorems on `Container` and `Lengths`: what the assembler is given to work on | - |
| `CommandsProofs` | theorems on `Commands` and `Ffi`: what runs beside others of its kind | - |
| `NatRecursion` | no code: least and greatest elements, recursion over the naturals and folds, with the facts about them the proofs cite | the step is a constant operator that an `INSTANCE` gives its value |
| `MC...` | instances for TLC | alphabets of units, packets and playlists |

### What the data is

A temporal unit is a record of what the code tells apart: its sequence
headers and how many of them stand in front of its first frame (`lead`),
whether it parses, the raw fields of its first frame header
(`ft`, `shown`, `showable`, `refresh`, `hint`) and whether more frames follow.
Derived fields are derived as the parsers derive them (`Showable`, `Refresh`:
a SWITCH_FRAME and a shown KEY_FRAME refresh every slot; `Hint`: the field is
`HintBits` wide).  Sequence headers are model values with the attributes the
rewrite looks at.  A picture is named by where it comes from.  Bytes, bit
positions and messages are left out.

In `Playback` a golden decodes to its picture only behind its own keyframe and
only if its header was measured (for the splice of the removal flag) against
the slots it now meets; otherwise it becomes `Garbage`.  A re-show of a
keyframe is refused, as AV1 demands.  The decoders in `SplitInput`, `Inspect`
and `Playback` are external: they follow AV1's reference update process, not
code of this repository.

What a header governs is where scan, assembler and decoder part: the scan takes
the last header of a unit for its frame, the assembler one header for all
segments, a decoder the last one in front of the frame.  `SplitInput.CodedUnder`
and `Playback.InForce` are the decoder's; a segment says of its key and its
golden unit which headers stand in front of the frame and which behind.  Both
units lose their headers to the rewritten one, or keep them all (`Emitted`).

In `SeqHeader` and `FrameHeader` a bit string is a sequence of fields, each a
width and a value: two of them are the same bits for a reader exactly when
widths and values agree, and a reader that asks for another width has lost its
place.  A walk is therefore an operator from the values of all syntax elements
to the fields it reads.

In `Commands` a file is what it was made from (image, CRF, size), so that a
mix-up shows; how large a build comes out is left open, and so is which call
fails.  In `Lengths` frame counts are words that end at `MaxWord`; seconds are
milliseconds and rounding is exact, as the `f64` of the code is for every count
the assembler accepts; the units that `plan` measures (`KeyRead`, `GoldenRead`)
have other sizes than those the assembler emits with their header rewritten
(`KeySize`, `GoldenSize`).  An ADTS stream is frames of audio in which bytes
read as a header at the front, and may do so anywhere else.  In `Mp4` a box is its size, a file the sizes of its
parts, and `U32` narrows as the code does.  In `Ffi` memory is addresses that an
allocator hands out again, so that a stale pointer shows something else, not
nothing.

`Slip_...` definitions are plausible slips of the operator they stand in front
of (a dropped reset, an off-by-one, a missing guard).  No specification uses
them; each property listed below is violated when the operator is replaced by
its slip, which shows that the property depends on that code.

## 3. Runs

Passing runs:

| Run | Shows | Bounds and why they are enough |
|---|---|---|
| `split` | `ScanFollowsContract`: the registers of the one-pass scan are what the documented contract defines over the whole history, what it returns is a golden of that contract, and the first but for those it measures against themselves; `CleanSlots`: while nothing is marked dirty a decoder's slots hold the predecessor, unless a re-show with frames behind it was skipped; `SpliceSafe`: a golden taken straight behind its anchor was coded against the anchor alone; `OneHeader`: behind the anchor's unit no other header came, not even to be taken back, and both frames are coded under the one header, but for an anchor with a header behind its frame | 1,032,098 states: every stream of up to 4 units over 27 kinds, headers in front of frames and behind among them: header change, anchor, disturbance and candidate fit in 4, and a longer stream repeats what the registers already forgot. 2 slots separate "some" from "all". One header declares 2-bit order hints, so they wrap; the other none, where only `dirty` guards adjacency |
| `playback` | `RightPicture`, `KeySamplesExact`, `OneTuPerFrame`, `SeekErrorWithinGop`, `FlagMatchesHeader`; the refinement `ShowsPlaylist`; `InspectorAgrees`, the output passes `info --check`; `CallReturns` under weak fairness | 10,999 states: gop 1..4 against lengths up to 8 reaches every remainder 0, 1, many, for one to three images; key units with one header, none, and two or three that differ, in front of the frame and behind; golden units with the header repeated on either side; totals at, above and far above `MaxTotal`, and sums past `MaxU64`; 3 slots give low, middle, several; inter, switch and intra-only goldens |
| `container` | `OneDelimiter`, `ObusKept`, `CodedStampsKept`, `IvfMatchesObu`, `SizeUnderItsHeader` | every input of up to 4 packets over an alphabet of 21, with and without delimiter, header and frame, with a header behind a frame, plus damaged ones: held packets, their host, a tail and a neighbour |
| `inspect` | `PassedStreamsPlay`, `TrackingTrue` | every stream of up to 5 units over 18 kinds, 2 slots: keyframe, hidden frame, partial refresh, re-show and one more |
| `headers` | `HeaderReEmitted`: parse then emit is the identity; `RewriteReadsBack`: a rewritten header is read as what it declares; `ParsersAgree`: the three readers agree on their common part; `FramesReadBack`: a spliced frame header reads, under the output's header and slots, as the input's with an absent removal time, and tile bytes move whole | syntax elements fall into groups that interact within themselves (timing, tools, colour, sizes; in frames: kind, size, references, motion, quantizer): each group is varied over its combinations with the others at a base value, and every sequence header that frames depend on is crossed with every frame. Elements have the types of the code (`SequenceHeader`, `FrameElements`); a removal time is coded only where the model is |
| `commands` | `PublishesWhatItMeasured`, `FirstFitWins`, `ReportsOnOwnInput`; `EveryProcessEnds` under weak fairness | two processes, each a make or an info, at once under two pids or one behind the other under the same; ladders of one and two rungs, one and two images, mp4 and ivf, `--keep-work`, stdin and not; two sizes around the budget. More processes only repeat a pair; more rungs the second |
| `lengths` | `LengthsAreAsked`, `GopMeetsBudget`; `ProjectionUpToGrowth`: what `plan` projects is what is emitted but for what rewritten headers add, and for one key and golden at most; `Ends` under weak fairness | 616,173 states: words end at 31 and the limit is 12 frames, so that a playlist of three entries stays below the limit, passes it, passes the word and comes back under it; budgets from what no gop meets to what each does; a key that grows when it is rewritten and a golden that shrinks |
| `outputs` | `SamplesFound`; `DurationsTrue`: `mvhd`, every `tkhd` and every `mdhd` say the true duration in a field that holds it, the movie's neither less nor more than its longest track's; `AccessUnitsExact`: access units are cut at headers of one configuration and are the frames while lengths are true, whatever the audio looks like; `IvfReadsBack` | 714,480 states: up to three units of two sizes, a u32 that ends at 2600 so that files and durations lie on both sides; up to three ADTS frames of nine kinds, some lying about length or configuration, some with audio that reads as a header, where a wrong length leads to it and where none does; IVF headers of 16, 32 and 40 bytes, files cut in a packet's header, in its data and between packets |
| `ffi` | `ErrorIsOwnLast`, `BuffersHeldOnce`, `FailureIsTold` | two threads, two buffers and as many strings as they need at once, so that each freed address comes again |

Invariants are safety over all reachable states; a state of `Container` and
`Inspect` is a whole input, so each run is exhaustive over bounded inputs.

Runs that find a documented promise broken (the finding with its quotation is
in `PROJECT.json`):

| Run | What happens |
|---|---|
| `split_rebase` | behind an intra frame that re-based the slots, a golden is accepted that was coded against that frame, and is returned with the old anchor |
| `playback_seek` | a segment of `k * gop + 1` frames ends `gop` frames behind its keyframe, so the seek error is not below gop |
| `headers_lossless` | a header that takes its segmentation features from its primary reference is judged by cleared ones, and a negative feature by another value: the walk and a decoder differ on whether the frame is lossless, and so on which fields follow. `uheader.rs:10-12` says that what is not supported "bails instead of guessing" |

### Known disagreements without a run

These were met while the modules were written, those of the scan, the
container and the inspector as counterexamples of TLC, and are visible in the
operator named; the properties of the passing runs are stated so that they
hold beside them.

- `SplitInput.ScanRebase`: with order hints an INTRA_ONLY or SWITCH golden is
  compared with its own hint plus one, never with its predecessor's, and passed
  over (`assemble.rs:618`); `docs/input-contract.md:136-138` says of an
  INTRA_ONLY golden that it "already passes validation".  The reference
  `GoldenAt` is the documentation's: such a unit is a golden, measured against
  the predecessor in front of it and exempt from adjacency, as lines 28-30 say
  of the intra family.  `ScanFollowsContract` names the goldens passed over
  (`SelfMeasured`), and that there are no others.
- `SplitInput.Rebases`: a SWITCH_FRAME counts as a frame that decodes "without
  references" (`assemble.rs:606-617`, `docs/input-contract.md:28-30`), which it
  does not in AV1: it reads slots like an inter frame and refreshes all of
  them. A SWITCH golden makes itself its predecessor, so `SpliceSafe`, which
  speaks of goldens measured against their anchor, claims nothing of it.
- `SplitInput.Governing`: a sequence header behind the anchor's frame, in the
  anchor's own unit, governs that frame in the scan (`assemble.rs:489`), and
  the pair is coded under two headers; `docs/input-contract.md:39-41` says both
  "must parse under the same header". Delimiter-free OBU input produces such
  units. `OneHeader` excepts such an anchor by name (`HeaderBehindFrame`) and
  no other.
- `Assemble.Flags`: whether the removal flag is spliced in is decided once, by
  the canonical header (`assemble.rs:297`), and all headers are rewritten to it.
  A frame of a key unit with two headers that differ about the decoder model
  may be coded under the other one: it then gets a flag too many or none.
  `FlagMatchesHeader` says that this happens exactly there.
- `SplitInput.Skippable`: a unit that re-shows a frame and codes another counts
  as a re-show and never sets `dirty` (`assemble.rs:494`), although
  `assemble.rs:717-720` says that "a multi-frame TU we can't fully parse" makes
  "the next candidate unverifiable". `CleanSlots` and `SpliceSafe` claim
  nothing behind such a unit (`LoneShows`).
- `Container.SplitObu`: a second frame starts a new unit in delimited streams
  as well (`container.rs:270`); `docs/input-formats.md:41-42` says "TU = bytes
  between TemporalDelimiter OBUs".
- `Container.GeometryFrom`: the geometry scan leaves a unit at its first frame,
  so a sequence header behind that frame is lost and the size of a later frame
  is read under the header before it (`container.rs:160-200`), although that
  header governs it for the assembler. `SizeUnderItsHeader` excepts a stream
  with such a unit in front of the frame (`HeaderFirst`).
- `Inspect.WalkObu`: a unit has the kind of its last frame (`inspect.rs:202`),
  so the re-show of a keyframe in front of a coded frame passes `--check`.
- `Assemble.GoodGolden`, `Assemble.GoodHeaders` against `Inspect.Passes`: the
  assembler takes an INTRA_ONLY golden (`assemble.rs:322`), and a key unit with
  two headers that is judged by its first in segment 0 and by its last
  elsewhere (`assemble.rs:229`); `info --check` fails both in the stream
  written. `InspectorAgrees` therefore speaks of inter goldens and of streams
  coded under one header (`OneHeader` of `InspectedPlayback`: every frame is
  coded under the canonical header, and a rewrite replaced every other, or all
  headers of the key units are equal).
- `Commands`: two `make --keep-work` with outputs in one directory, or two
  `info` that need ffmpeg, at the same time read each other's files; the
  properties claim nothing of a process that another one crossed.
- `Lengths.TotalFrames`: `--frames` beside a last entry with a duration is
  ignored; `main.rs:100` calls it "Total output frame count".
- `Lengths.Plan`: `plan` panics for less than two frames (`main.rs:1181`).
- `Lengths.Projected`: `plan` multiplies the sizes of the input's units
  (`main.rs:1169-1170`), while each gop of the output carries them with the
  header rewritten: a stream that declares no timing gets a longer one
  (`assemble.rs:247-285`), and the real video is larger than projected, by
  `Growth`. `ProjectionUpToGrowth` bounds the rest.
- `Outputs.ParseAdts`: behind a frame that misstates its length the parser goes
  on at whatever reads as a header of the same configuration, audio included
  (`adts.rs:30-34`), and the access units are then no frames; it does not claim
  to tell them. `AccessUnitsExact` says that up to the first such frame they are.
- `Mp4`: above 4 GiB offsets and the size of `mdat` are narrowed without an
  error (`mp4.rs:523,531`); `smhd` lacks its two reserved bytes
  (`mp4.rs:358`), and `sample_rate << 16` drops the top bit of 88200 and
  96000 Hz in the sample entry (`mp4.rs:153`).
- `FrameHeader.Spliced`: the splice pads with zeros (`uheader.rs:885`), so a
  header in an OBU of its own would lose its trailing one bit;
  `FrameHeader.Removal`: removal times are read for every operating point,
  also one whose layers do not hold the frame (`uheader.rs:708`).

### Deadlock and fairness

`SplitInput` has a stuttering action for the returned call, so deadlock is
checked there.  Everything else is a call or a process that ends: `Playback`
stops when the call was refused, `Container` when the input has its full
length, `Inspect` when `analyze` returned an error or the stream has its full
length, `Headers` and `Outputs` when the output was read back or refused,
`Commands` when every process ended, `Lengths` when the command did, `Ffi` when
every thread did.  Their cfgs say `CHECK_DEADLOCK FALSE`.

Liveness is claimed three times.  `CallReturns`, under `WF_all(Assembling)`,
and `Ends`, under `WF_vars(Next)`: a function runs on its caller's thread and
waits for nothing, so a step that is possible is eventually taken.
`EveryProcessEnds`, under `WF_vars(Step(p))` for every process: the operating
system schedules each, and every child it waits for ends (`run` of `main.rs`
sets no timeout, so a child that hangs is outside the claim).  Nobody is
obliged to start a process or to kill one.  The player and the C program are
under no fairness.

## 4. Proofs

TLC checks each property on the instance of its run; the theorems below hold
for every value of the constants: streams, playlists and ladders of any length,
any headers, slots, sizes, limits, processes and threads.  Each module assumes
only what its `...Assumption` says of its constants (types, and facts of the
code such as "at least one slot" or "a re-show is not longer than a golden"),
and TLC evaluates that in every run.

| Module | Theorem | States |
|---|---|---|
| `SplitInputProofs` | `TypesHold` | `Spec => []TypeOK` |
| | `ContractIsFollowed` | `Spec => []ScanFollowsContract` |
| | `PairUnderOneHeader` | `Spec => []OneHeader` |
| | `SlotsAreClean` | `Spec => []CleanSlots` |
| | `SpliceIsSafe` | `Spec => SpliceSafe`, an action property |
| `PlaybackProofs` | `TypesHold` | `PSpec => []TypeOK` |
| | `ScreenIsRight` | `PSpec => []RightPicture` |
| | `SamplesAreExact` | `PSpec => []KeySamplesExact` |
| | `SeekErrorBounded` | `PSpec => []SeekErrorWithinGop` |
| | `FlagsAreRight` | `PSpec => []FlagMatchesHeader` |
| | `EveryFrameIsThere` | `PSpec => []OneTuPerFrame` |
| | `PlaysTheRequest` | `PSpec => ShowsPlaylist`, the refinement of `StillVideo` |
| | `InspectorPasses` | `PSpec => []InspectorAgrees` |
| `InspectProofs` | `TrackingIsTrue` | `Spec => []TrackingTrue` |
| | `WhatPassesPlays` | `Spec => []PassedStreamsPlay` |
| `CommandsProofs` | `PublishesItsOwn` | `Spec => []PublishesWhatItMeasured` |
| | `FirstFitPublished` | `Spec => []FirstFitWins` |
| | `ReportsOwnInput` | `Spec => []ReportsOnOwnInput` |
| | `TypesHold` | `FfiSpec => []FfiTypeOK` |
| | `ErrorsAreOwn` | `FfiSpec => []ErrorIsOwnLast` |
| | `BuffersAreHeldOnce` | `FfiSpec => []BuffersHeldOnce` |
| | `FailuresAreTold` | `FfiSpec => []FailureIsTold` |
| `InputProofs` | `NothingLost` | `ReadSpec => []ObusKept` |
| | `DelimiterLeads` | `ReadSpec => []OneDelimiter` |
| | `StampsKept` | `ReadSpec => []CodedStampsKept` |
| | `ContainersAgree` | `ReadSpec => []IvfMatchesObu` |
| | `SizeGoverned` | `ReadSpec => []SizeUnderItsHeader` |
| | `LengthsAreTrue` | `Spec => []LengthsAreAsked` |
| | `GopIsFound` | `Spec => []GopMeetsBudget` |
| | `ProjectionHolds` | `Spec => []ProjectionUpToGrowth` |
| `OutputsProofs` | `SamplesAreFound` | `Spec => []SamplesFound` |
| | `DurationsAreTrue` | `Spec => []DurationsTrue` |
| | `AudioIsExact` | `Spec => []AccessUnitsExact` |
| | `IvfIsReadBack` | `Spec => []IvfReadsBack` |
| `HeadersProofs` | `HeaderStates` | `Spec => []HInv`, the inductive invariant |
| | `EmitsAsCoded` | `Spec => []HeaderReEmitted` |
| | `RewritesReadBack` | `Spec => []RewriteReadsBack` |
| | `ReadersAgree` | `Spec => []ParsersAgree` |
| | `OutputReadsBack` | `Spec => []FramesReadBack` |

Every safety property that a passing run checks is among them, the action
property and the refinement included.

Except for `Container` the proof is `Init => IInv`,
`IInv /\ [Next]_vars => IInv'` with one step per action, and
`IInv => property`.  None of the properties is inductive by itself; what each
invariant adds is the following.

**`SplitInput`**: `IInv == TypeOK /\ Registers /\ Outcome /\ Generation /\
CleanSlots`.  The contract speaks of the whole history, the scan has three
registers.  `Registers` says that `sh`, `anchor`, `pred` and `dirty` are the
answers to the contract's four questions about the units read so far (the
governing header, the last anchor, the last unit that re-based the slots, the
first that clashed since).  Without it nothing is known of what a
candidate is compared with.  `Outcome` says that every earlier golden of the
contract is one the scan measures against itself, `Generation` that no header
changed since the anchor.  For an intra candidate the code's predecessor is the
candidate and the contract's the one in front of it; that no order hint follows
itself (`OwnSuccessor`, arithmetic modulo a power of two) makes these exactly
the goldens passed over.  `CleanSlots` is
inductive once the others are known: a unit that sets no mark and is no
re-show refreshes nothing.  `SpliceSafe` follows from `CleanSlots` before
the step.

**`Playback`**: `IInv == TypeOK /\ Stage /\ Grammar /\ Samples /\ Reach /\
Screen`.

- `Stage`: what each phase may rely on, such as every prepared segment having a
  golden that refreshes the slot it is re-shown from, and measured slots that
  were its own keyframe's when the flag was spliced;
- `Grammar`: a golden stands right behind the key of its segment, a re-show
  behind a golden or another re-show of its segment;
- `Samples`: `keySamples` and the key TUs name each other, in order;
- `Reach`: every TU has a key at most gop before it, and while a segment has
  frames left behind an emitted golden, its last chunk was a full gop, so one
  more re-show is still within reach;
- `Screen`: what the player's slots hold, given the TU on the screen.

`RightPicture` needs `Screen` (the next picture depends on the slots) and
`Grammar` (and on which TU comes next); `SeekErrorWithinGop` needs `Reach`,
because the loop's `goldenEmitted` carries the knowledge that a full chunk
stands before the trailing frame.  Four theorems add to it:

- `Fits`, for `OneTuPerFrame`: what the emission loop has left is what its
  segment still lacks, so that it comes down to zero and never steps over it,
  and each TU lies within its segment's frames.  The refinement of `StillVideo`
  rests on it: the image of a TU is the one whose frames contain its position,
  so `PlayNext` maps to `Advance`, `SeekTo` to `Seek`, every step of the
  assembler to a stutter;
- `Accepted`, for `FlagMatchesHeader` and `InspectorAgrees`: the stream was made
  from pairs and headers that passed the assembler's checks.  With `Grammar` it
  says which header is in force at each frame (`InForceIs`): the rewritten one,
  or the input's own in front of the frame, which for a golden without one is
  the last of its key unit.  The report of `analyze` on the finished
  stream is a fold over its units; `ReportAt(p)` says what it is after `p` of
  them (the header, the slots that hold keyframes, the kinds, the sets of keys
  and goldens), and `Grammar` gives the step from `p` to `p + 1`.

**`Inspect`**: both properties speak of what may be shown many units later, so
the invariant keeps every slot: `Synced` (the table says KEY where a decoder has
a keyframe, as long as no keyframe was re-shown) and `Playing` (while the checks
hold nothing illegal was shown, and every slot without a keyframe is showable),
beside the type of the report and one kind per unit.

**`Commands`**: `IInv == TypeOK /\ Exclusive /\ \A p : Good(proc[p],
files[MyDir(p)], out[p])`.  What is published depends on files that other
processes may write.  `Exclusive` says that two which work in one directory are
both marked crossed; `Good` says of a process that was not, stage by stage, what
its directory holds that a later stage will read (`Workplace`: the images coded
at the rung's CRF, the build, the muxed file, the candidate that was chosen so
far); it says nothing of the rest, which a killed predecessor may have left.
`Rung` and `Tried` tie the choice to the ladder: what was tried are its first
rungs, the choice is the last of them that built, and none but the last one
tried can have fitted.

**`Container`**: the state is the input, so the only invariant is that it is a
sequence of packets, and each property is a lemma about *all* such sequences.
The work is an induction over each fold of the code, one packet or OBU more at
a time, over what the accumulator says of the input read so far.

- `ObusKept`: what came out, what is held and what is still to come are the
  input without its delimiters; `Concat` and `Canonical` remove nothing else.
- `OneDelimiter`: every item that holds a frame is tidy, what is held has no
  frame, and `Concat` makes tidy of anything.
- `CodedStampsKept`: an item comes out exactly when a coded or a damaged packet
  goes in, and under its timestamp; a held tail only joins the last.
- `IvfMatchesObu`: on packets that lead with a delimiter and hold at most one
  frame, the groups `SplitObu` cuts are the packets themselves, and from there
  on both paths are the same merge.
- `SizeUnderItsHeader`: `GeometryStep` keeps that the running header is the last
  one of the units scanned (as long as none has a header behind its first
  frame), and that the size in hand was read under the last one in front of its
  frame.

**`Lengths`**: `IInv == Typed /\ Settled /\ Searched`.  `Settled`: what is built
is what `segment_frames` returned and was not refused.  The sum the code forms
can wrap, and only the assembler's saturating total catches that; the lemmas
compare the true sum, the wrapped and the saturated one.  `Searched`: the gop in
hand is the first, or at most twice one that did not fit; with the lemma that a
longer gop never makes a longer stream this bounds the search from below.
`ProjectionUpToGrowth` needs no invariant: `plan` and the emission loop agree on
how many gops open (`TwoOpenEveryGop`) but for a last single frame, and `Growth` is what differs per gop.

**`Outputs`**: `IInv == Inputs /\ AudioCut /\ Mp4Written /\ IvfRead`.
`AudioCut`: the access units parsed so far reach from the first byte to the
parser, each behind something that reads as a header of its length and of the
configuration, and as long as the frames say their true lengths the parser
stands where a frame does (`InStep`); of a stream of true lengths and one
configuration it therefore finds the next header wherever it stands.  `IvfRead`: the
reader stands behind the packets it returned, which are the first of the file.
For MP4 the argument is in the lemmas: sizes of boxes are sums, `moov` has
the same size before and after the offsets are filled in, a box tells its
duration in whichever version (`BoxTells`), and rounding down to milliseconds
keeps the order of the tracks, so that the larger of the rounded durations is
the rounded larger one.

**`Headers`**: `HInv == InputInv /\ ParsedInv /\ SettledInv /\ SlotsInv /\
WalkInv`.

- `ParsedInv`: the header in hand is what the parser makes of the coded one.
  `ReEmits` then shows, group by group (timing and operating points, sizes,
  tools, colour), that the emitter writes the fields the parser read: what the
  parser stores for an element that is not coded (`Canonical`) makes each of the
  emitter's conditions come out as the parser's did.
- `SettledInv`: what is emitted differs from the parsed header by its timing
  only (`Retimed`), is canonical again, and either declares the model that was
  asked for, with equally spaced pictures, or is the parsed header itself or one
  without a model from one without (`Settles`).  A canonical header is a fixed
  point of the parser (`CanonicalKept`), so it is read as what it declares.
- `SlotsInv`: the scanner's slots and those of a reader of the output are the
  same, and behind a key every slot has a size, which `frame_size_with_refs`
  needs of a golden that takes its size from one.
- `WalkInv`: the two properties of frame headers.  A walk is cut where the flag
  is spliced in (`BeforeRemoval`, `Removal`, the rest); in front of it and behind
  it no condition reads what a rewrite changed, so the reader of the output takes
  the same fields, with the flag between them.  That tiles move whole is
  arithmetic of bits rounded up to bytes.

**`Ffi`**: `FfiInv == FfiTypeOK /\ ErrorKept /\ BuffersHeldOnce /\
FailureIsTold`.
`ErrorIsOwnLast` speaks of the pointer the program holds; what keeps it good is
that it is the thread's `LAST_ERROR` and that no other thread's is at the same
address.  `ErrorKept` says so, also inside a call, where the pointer has been
given up.  That two threads never share a string (`OwnStrings`) follows from the
message: it names its thread.

**Induction over data.**  The library's induction theorems take a predicate as a
parameter, which the provers cannot instantiate.  `NatRecursion` states what
is needed with sets: every nonempty set of naturals has a least element
(`LeastNumber`, from the library's `WFMin`), so a set that has zero and every
successor is all of them.  From that come the equation of a recursive function
(`RecDefined`), of a fold over one element more (`FoldAppend`), and the invariant
of a fold (`FoldInvariant`), for a step that is a constant operator.  A proof
module takes an `INSTANCE` of these lemmas for each step of its model (`WalkObu`, `MergePacket`,
`SplitObu`, `WordPlus`, ...) and shows once that the model's fold is the
instance's.  For this the filters of `Container` are written as folds of a named
step (`Undelimited`, `ParsedHeader`) and the shifts of `FrameHeader` as a
recursive function.

**Only model-checked.**

- `CallReturns`, `Ends` and `EveryProcessEnds`: liveness under fairness, which
  is beyond the prover.
- The three violations, each of which is a counterexample.

## 5. Not modelled

- **Bytes**: leb128, OBU framing, the layout of an ADTS or IVF header; stateless
  codecs that the repository tests on bytes.  Widths and order of header
  fields are modelled, the values of fields that no condition reads are
  placeholders.
- **A C program that breaks the contract of `stillcast.h`**: a pointer used
  after the next call, a buffer freed twice.  An error message never holds a
  NUL byte, which `CString::new` would refuse.
- **Annex-B against the other two paths**: `container::read` merges frameless
  units of IVF and section-5 input but not of Annex-B input
  (`container.rs:90-92`); `ReadAnnexB` models that, and only `OneDelimiter` and
  nothing about equality is claimed of it.
- **Library API** (`api.rs`): two calls composed, no state; `Ffi` takes it as
  one step.
- **The encode command, the playlist's syntax, tags, cover art, transcoding of
  audio**: calls of ffmpeg and text.  In `Commands` ffmpeg is a call that writes
  what it was given or fails, leaving a part of it.
- **A key frame in front of every header of its unit**: the scan takes it for an
  anchor, and nothing in the pair says what it was coded under. `SplitInput` has
  such units; `FromSplit` keeps them out of `Assemble`'s playlists.
- **Removal of a work directory that fails half-way**, and files that are
  changed by programs other than stillcast.
- **Diagnostics**: texts; their counters (`afterAnchor`, `nAnchors`, `keyOnly`)
  are kept in `SplitInput`.
- **Film grain, unsupported syntax**: a unit the parsers refuse is a unit with
  `readable = FALSE` or `ok = FALSE`; in `Headers`, `Supported` and
  `ScanRefuses` end the walk.

## 6. Plan

Written: `SplitInput` with the contract as its reference definition;
`Assemble`, `Playback`, the abstract `StillVideo`; `Container`; `Inspect` and
`InspectedPlayback`; `SeqHeader`, `FrameHeader` and `Headers`; `Commands`;
`Lengths`; `Mp4` and `Outputs`; `Ffi`; `NatRecursion` and the proofs about every
one of these modules.

Left: `Pipeline`, `Container` feeding `SplitInput`, for the geometry against the
pair that is returned and for Annex-B units that were not merged.
