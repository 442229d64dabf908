------------------------------ MODULE Outputs ------------------------------
(***************************************************************************)
(* What becomes of the assembled units: build_output puts them into an     *)
(* IVF, or into an MP4 beside the access units of an ADTS stream.  An MP4  *)
(* is read by a player, which finds a sample through the tables; an IVF by *)
(* this program's own reader, which also takes files that others wrote.    *)
(***************************************************************************)
EXTENDS Mp4

CONSTANTS
    Videos,     \* [samples, sync, av1c, den, num, fps]: units and the donor's rate
    AdtsFiles,  \* sequences of frames, or NoAudio
    Metas,      \* sequences of the sizes of tags
    HeaderLens, \* header lengths of the IVF files read
    Cuts        \* how many bytes such a file is short of

VideoInputs == [samples : Seq(Nat \ {0}), sync : Seq(Nat), av1c : Nat,
                den : Nat, num : Nat, fps : Nat]

\* What reads as a header, with sync bits and all: where in its frame it stands
\* and what it says, the frame's length in 13 bits.
AdtsHeaders == [at : Nat, coded : 0..8191, crc : BOOLEAN,
                profile : Nat, channels : Nat, rate : Nat]

\* A frame holds at least its header, at 0.  Its audio is any bytes, and some of
\* them may read as a header too.
AdtsFrames == [len : Nat \ 0..6, headers : SUBSET AdtsHeaders]

AccessUnits == [at : Nat, len : Nat]

ASSUME OutputsAssumption ==
    /\ MaxU32 \in Nat /\ NoAudio \notin Seq(AccessUnits)
    /\ \A v \in Videos : v \in VideoInputs /\ v.samples # << >>
    /\ \A f \in AdtsFiles \ {NoAudio} :
         /\ f \in Seq(AdtsFrames)
         /\ \A k \in DOMAIN f : \A g, h \in f[k].headers :
              h.at < f[k].len /\ (g.at = h.at => g = h)
    /\ Metas \subseteq Seq(Nat) /\ HeaderLens \subseteq Nat /\ Cuts \subseteq Nat

VARIABLES
    video, meta, adts,  \* the inputs
    phase,
    offset,      \* i of the ADTS parser, off of the IVF reader
    config,      \* its first_config
    audio,       \* the access units parsed so far, then the audio track
    file,        \* the file written
    packets      \* the packets read back

vars == <<video, meta, adts, phase, offset, config, audio, file, packets>>

NoFile == [kind |-> "none"]

(***************************************************************************)
(* Rates: a zero means unset, and a rate is kept as a reduced fraction.    *)
(***************************************************************************)
GcdOf(a, b) == CHOOSE d \in 1..a : /\ a % d = 0 /\ b % d = 0
                                   /\ \A e \in (d + 1)..a : a % e # 0 \/ b % e # 0
Rate(den, num) == IF den = 0 \/ num = 0 THEN <<30, 1>>
                  ELSE <<den \div GcdOf(den, num), num \div GcdOf(den, num)>>
OutRate(v) == IF v.fps > 0 THEN <<v.fps, 1>> ELSE Rate(v.den, v.num)

(***************************************************************************)
(* Where something starts in a file that is laid out as these sizes: its   *)
(* index, or 0 where nothing does.                                         *)
(***************************************************************************)
StartingAt(sizes, at) ==
    LET here == {k \in DOMAIN sizes : Total(SubSeq(sizes, 1, k - 1)) = at}
    IN IF here = {} THEN 0 ELSE CHOOSE k \in here : TRUE

Init ==
    /\ video \in Videos /\ meta \in Metas /\ adts \in AdtsFiles
    /\ phase = "container" /\ offset = 0 /\ config = NoFile
    /\ audio = NoAudio /\ file = NoFile /\ packets = << >>

KeepInputs == UNCHANGED <<video, meta, adts>>

\* --audio needs an mp4; without audio the mp4 is written at once.
ChooseMp4 ==
    /\ phase = "container"
    /\ phase' = IF adts = NoAudio THEN "mp4" ELSE "adts"
    /\ KeepInputs /\ UNCHANGED <<offset, config, audio, file, packets>>

ChooseIvf ==
    /\ phase = "container"
    /\ phase' = IF adts = NoAudio THEN "ivf" ELSE "needs_mp4"
    /\ KeepInputs /\ UNCHANGED <<offset, config, audio, file, packets>>

(***************************************************************************)
(* The ADTS parser goes from one header to the next, as far as each says.  *)
(* What stands there it takes for a header when it reads as one, though it *)
(* be within a frame's audio; else sync is lost.                           *)
(***************************************************************************)
Lens(f) == [k \in DOMAIN f |-> f[k].len]
FrameStart(f, k) == Total(SubSeq(Lens(f), 1, k - 1))
HeadersAt(f, at) == UNION {{h \in f[k].headers : FrameStart(f, k) + h.at = at} : k \in DOMAIN f}
ConfigOf(h) == [profile |-> h.profile, rate |-> h.rate, channels |-> h.channels]

\* Slip: the profile may change from frame to frame.
Slip_AdtsRefuses(h, left) ==
    \/ left < 7 \/ h.crc
    \/ h.channels = 0
    \/ h.coded < 7 \/ h.coded > left
    \/ h.rate = 0
    \/ config # NoFile /\ (config.rate # h.rate \/ config.channels # h.channels)

AdtsRefuses(h, left) ==
    \/ left < 7 \/ h.crc
    \/ h.channels = 0
    \/ h.coded < 7 \/ h.coded > left
    \/ h.rate = 0
    \/ config # NoFile /\ config # ConfigOf(h)

AccessUnit(h) == [at |-> offset + 7, len |-> h.coded - 7]

ParseAdts ==
    LET left == Total(Lens(adts)) - offset
        taken == {h \in HeadersAt(adts, offset) : ~ AdtsRefuses(h, left)}
    IN /\ phase = "adts" /\ left > 0
       /\ \/ /\ taken = {}
             /\ phase' = "refused" /\ UNCHANGED <<offset, config, audio>>
          \/ \E h \in taken :
               /\ audio' = Append(IF audio = NoAudio THEN << >> ELSE audio, AccessUnit(h))
               /\ config' = ConfigOf(h)
               /\ offset' = offset + h.coded
               /\ UNCHANGED phase
       /\ KeepInputs /\ UNCHANGED <<file, packets>>

AdtsDone ==
    /\ phase = "adts" /\ offset = Total(Lens(adts))
    /\ phase' = IF audio = NoAudio THEN "refused" ELSE "mp4"
    /\ KeepInputs /\ UNCHANGED <<offset, config, audio, file, packets>>

\* Every access unit is 1024 samples long.
VideoTrack == [samples |-> video.samples, sync |-> video.sync, av1c |-> video.av1c,
               timescale |-> OutRate(video)[1], delta |-> OutRate(video)[2]]
AudioTrack == IF audio = NoAudio THEN NoAudio
              ELSE [samples |-> [k \in DOMAIN audio |-> audio[k].len],
                    timescale |-> config.rate, delta |-> 1024]

WriteMp4 ==
    /\ phase = "mp4"
    /\ file' = write(VideoTrack, AudioTrack, meta)
    /\ phase' = "played"
    /\ KeepInputs /\ UNCHANGED <<offset, config, audio, packets>>

(***************************************************************************)
(* IVF.  A packet is its timestamp and size behind a header of 12 bytes.   *)
(***************************************************************************)
IvfOf(header_len, den, num, ps, cut) ==
    [kind |-> "ivf", header_len |-> header_len, den |-> den, num |-> num, packets |-> ps,
     len |-> header_len + Total([k \in DOMAIN ps |-> 12 + ps[k].size]) - cut]

WriteIvf ==
    /\ phase = "ivf"
    /\ file' = IvfOf(32, OutRate(video)[1], OutRate(video)[2],
                     [k \in DOMAIN video.samples |-> [ts |-> k - 1, size |-> video.samples[k]]], 0)
    /\ phase' = "written"
    /\ KeepInputs /\ UNCHANGED <<offset, config, audio, packets>>

\* Another program's file of the same packets: a longer header, the donor's
\* rate as it stands, the end missing.
OtherIvf ==
    /\ phase = "ivf"
    /\ \E h \in HeaderLens, cut \in Cuts :
         file' = IvfOf(h, video.den, video.num,
                       [k \in DOMAIN video.samples |-> [ts |-> 7 * k, size |-> video.samples[k]]],
                       cut)
    /\ phase' = "written"
    /\ KeepInputs /\ UNCHANGED <<offset, config, audio, packets>>

\* Slip: packets are looked for behind the fixed header.
Slip_IvfStart(f) == 32
IvfStart(f) == f.header_len

OpenIvf ==
    /\ phase = "written"
    /\ IF file.header_len < 32 \/ file.header_len > file.len
       THEN phase' = "refused" /\ UNCHANGED offset
       ELSE phase' = "read" /\ offset' = IvfStart(file)
    /\ KeepInputs /\ UNCHANGED <<config, audio, file, packets>>

\* The next packet of the file, or the end of it.
ReadPacket ==
    LET sizes == [k \in DOMAIN file.packets |-> 12 + file.packets[k].size]
        k == StartingAt(<<file.header_len>> \o sizes, offset) - 1
    IN /\ phase = "read" /\ offset < file.len
       /\ IF k \notin DOMAIN file.packets \/ offset + 12 > file.len
               \/ offset + sizes[k] > file.len
          THEN phase' = "refused" /\ UNCHANGED <<offset, packets>>
          ELSE /\ packets' = Append(packets, file.packets[k])
               /\ offset' = offset + sizes[k]
               /\ UNCHANGED phase
       /\ KeepInputs /\ UNCHANGED <<config, audio, file>>

EndOfIvf ==
    /\ phase = "read" /\ offset >= file.len
    /\ phase' = "readback"
    /\ KeepInputs /\ UNCHANGED <<offset, config, audio, file, packets>>

Next == \/ ChooseMp4 \/ ChooseIvf \/ ParseAdts \/ AdtsDone \/ WriteMp4
        \/ WriteIvf \/ OtherIvf \/ OpenIvf \/ ReadPacket \/ EndOfIvf

Spec == Init /\ [][Next]_vars

-----------------------------------------------------------------------------
(* The player: it finds sample k of a track through the tables.            *)

Located(t, k) == [at |-> t.stco + Total(SubSeq(t.stsz, 1, k - 1)), len |-> t.stsz[k]]

\* Where the sample that is n-th in the media data really lies.
Lies(n) == [at |-> FtypSize + file.moov + 8 + Total(SubSeq(file.payload, 1, n - 1)),
            len |-> file.payload[n]]

FileLen == FtypSize + file.moov + 8 + Total(file.payload)

(***************************************************************************)
(* In a file of up to 2^32 bytes the tables of both tracks lead to exactly *)
(* the bytes of each sample, the last included (mp4.rs 474-535).  Above    *)
(* that offsets and sizes are narrowed without an error.                   *)
(***************************************************************************)
SamplesFound ==
    phase = "played" /\ FileLen <= MaxU32 =>
        LET n == Len(file.video.stsz)
        IN /\ \A k \in 1..n : Located(file.video, k) = Lies(k)
           /\ file.audio # NoAudio =>
                \A k \in DOMAIN file.audio.stsz : Located(file.audio, k) = Lies(n + k)
           /\ file.mdatSize = 8 + Total(file.payload)
           /\ n = file.video.stsc

(***************************************************************************)
(* Every duration a player reads is the true one, in a field that holds    *)
(* it, above 32 bits too: a track's media is as long as its samples, and   *)
(* the movie, in the movie's header and in each track's, as long as its    *)
(* longest track, to the millisecond (mp4.rs 223-300, 461-513).            *)
(***************************************************************************)
Tracks == {file.video} \cup (IF AudioTrack = NoAudio THEN {} ELSE {file.audio})

DurationsTrue ==
    phase = "played" =>
        LET movie == file.mvhd.duration
        IN /\ \A t \in Tracks :
                /\ t.mdhd.duration = t.delta * t.stsc
                /\ 1000 * t.mdhd.duration < (movie + 1) * t.timescale
                /\ t.tkhd.duration = movie
           /\ \E t \in Tracks : movie * t.timescale <= 1000 * t.mdhd.duration
           /\ \A b \in {file.mvhd} \cup UNION {{t.tkhd, t.mdhd} : t \in Tracks} :
                b.version = 1 \/ b.duration <= MaxU32

\* A frame whose header says its length, and a stream the parser is made for.
Truthful(f) ==
    /\ \E h \in f.headers : h.at = 0
    /\ \A h \in f.headers : h.at = 0 => h.coded = f.len
Supported(h) == ~ h.crc /\ h.channels # 0 /\ h.rate # 0
TrueHeaders(f) == UNION {{h \in f[k].headers : h.at = 0} : k \in DOMAIN f}
Proper(f) ==
    /\ f # << >> /\ \A k \in DOMAIN f : Truthful(f[k])
    /\ \A g, h \in TrueHeaders(f) : Supported(h) /\ ConfigOf(g) = ConfigOf(h)

(***************************************************************************)
(* The audio track is the whole stream without its headers: the units lie  *)
(* one behind the other from the first byte to the last, each behind       *)
(* something that reads as a header of its length and of the one           *)
(* configuration the track declares.  As long as the headers of the frames *)
(* say their true lengths these are the frames, whatever their audio looks *)
(* like; behind one that does not the parser follows whatever reads as a   *)
(* header.  A stream of true lengths and one configuration is not refused  *)
(* (adts.rs 24-94).                                                        *)
(***************************************************************************)
AccessUnitsExact ==
    /\ audio # NoAudio /\ phase \in {"mp4", "played"} =>
         /\ audio[1].at = 7
         /\ \A k \in 2..Len(audio) : audio[k].at = audio[k - 1].at + audio[k - 1].len + 7
         /\ Last(audio).at + Last(audio).len = Total(Lens(adts))
         /\ \A k \in DOMAIN audio :
              /\ \E h \in HeadersAt(adts, audio[k].at - 7) :
                   h.coded = 7 + audio[k].len /\ ConfigOf(h) = config
              /\ (\A j \in DOMAIN adts : j < k => Truthful(adts[j])) =>
                   k \in DOMAIN adts /\ audio[k].at = FrameStart(adts, k) + 7
    /\ adts # NoAudio /\ phase = "refused" => ~ Proper(adts)

(***************************************************************************)
(* An IVF file is read back as the packets it was written with: from this  *)
(* writer always, from others whatever the length of their header.  One    *)
(* that was cut is read only when the cut is between two packets, and      *)
(* nothing but a cut or a bad header has a file refused (ivf.rs 49-117).   *)
(***************************************************************************)
IvfReadsBack ==
    LET whole == file.header_len + Total([k \in DOMAIN file.packets |-> 12 + file.packets[k].size])
    IN /\ phase = "readback" =>
             /\ packets = SubSeq(file.packets, 1, Len(packets))
             /\ file.len = file.header_len + Total([k \in DOMAIN packets |-> 12 + packets[k].size])
       /\ phase = "refused" /\ file # NoFile =>
             file.header_len < 32 \/ file.len < whole

=============================================================================
