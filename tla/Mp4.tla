--------------------------------- MODULE Mp4 ---------------------------------
(***************************************************************************)
(* The MP4 writer.  A box is its size, which is all the layout depends on; *)
(* of the tables and headers those that a player finds a sample and its    *)
(* time by are kept.  Sizes are the real ones, in bytes; MaxU32 stands for *)
(* u32::MAX, so that a small file can pass it.                             *)
(***************************************************************************)
EXTENDS Naturals, Sequences, SequencesExt

CONSTANTS MaxU32, NoAudio

U32(x) == x % (MaxU32 + 1)
Total(sizes) == FoldLeft(LAMBDA t, s : t + s, 0, sizes)
Larger(a, b) == IF a < b THEN b ELSE a

Bx(payload) == 8 + payload
FullBox(payload) == Bx(4 + payload)

\* A duration above 32 bits takes version 1, whose times are all twice as wide.
Wide(duration) == duration > MaxU32
Told(duration) == IF Wide(duration) THEN duration ELSE U32(duration)

\* The boxes that say a duration; in version 1 that and two times are wider.
TimedBox(duration, payload) ==
    [version |-> IF Wide(duration) THEN 1 ELSE 0,
     size |-> FullBox(IF Wide(duration) THEN payload + 12 ELSE payload),
     duration |-> Told(duration)]

mvhd(ms) == TimedBox(ms, 96)
tkhd(ms) == TimedBox(ms, 80)
mdhd(duration) == TimedBox(duration, 20)
hdlr(name) == FullBox(21 + name)
dinf == Bx(FullBox(4 + FullBox(0)))
HandlerName == 15                     \* "stillcast video", "stillcast audio"

av01_sample_entry(av1c) == Bx(78 + Bx(av1c))
mp4a_sample_entry == Bx(28 + FullBox(24))

\* stsd, stts, stsc, stsz, stco and, for the video, stss.
stbl(entry, n, syncs) ==
    Bx(FullBox(4 + entry) + FullBox(12) + FullBox(16) + FullBox(8 + 4 * n)
         + FullBox(8) + (IF syncs = 0 THEN 0 ELSE FullBox(4 + 4 * syncs)))
minf_video(table) == Bx(FullBox(8) + dinf + table)
minf_audio(table) == Bx(FullBox(2) + dinf + table)
mdia(duration, minf) == Bx(mdhd(duration).size + hdlr(HandlerName) + minf)
trak(ms, media) == Bx(tkhd(ms).size + media)

\* `items` are the sizes of the tags there are; without any there is no box.
udta(items) ==
    IF items = << >> THEN 0
    ELSE Bx(FullBox(hdlr(4) + Bx(Total([k \in DOMAIN items |-> Bx(Bx(8 + items[k]))]))))

FtypSize == Bx(24)

(***************************************************************************)
(* A track is [samples, delta, timescale] with the size of each sample;    *)
(* the video's also has its sync samples and the size of its av1C.         *)
(***************************************************************************)
MediaDuration(t) == t.delta * Len(t.samples)
Millis(t) == (MediaDuration(t) * 1000) \div t.timescale

\* Slip: the movie lasts as long as its tracks together.
Slip_MovieMillis(video, audio) ==
    Millis(video) + IF audio = NoAudio THEN 0 ELSE Millis(audio)

MovieMillis(video, audio) ==
    IF audio = NoAudio THEN Millis(video) ELSE Larger(Millis(video), Millis(audio))

video_trak(video, ms) ==
    trak(ms, mdia(MediaDuration(video),
                  minf_video(stbl(av01_sample_entry(video.av1c), Len(video.samples),
                                  Len(video.sync)))))
audio_trak(audio, ms) ==
    trak(ms, mdia(MediaDuration(audio),
                  minf_audio(stbl(mp4a_sample_entry, Len(audio.samples), 0))))

\* The size of moov, whatever offsets it is built with.
build_moov(video, audio, meta, v_off, a_off) ==
    LET ms == MovieMillis(video, audio)
    IN Bx(mvhd(ms).size + video_trak(video, ms)
          + (IF audio = NoAudio THEN 0 ELSE audio_trak(audio, ms))
          + udta(meta))

\* What the boxes say of a track in a movie of ms: its durations, its one chunk
\* and the samples in that.
Tables(t, off, ms) ==
    [stco |-> U32(off), stsc |-> Len(t.samples),
     stsz |-> [k \in DOMAIN t.samples |-> U32(t.samples[k])],
     delta |-> t.delta, timescale |-> t.timescale,
     tkhd |-> tkhd(ms), mdhd |-> mdhd(MediaDuration(t))]

\* Slip: the second track's chunk is placed at the start of the media.
Slip_AudioOffset(video) == 0

\* Where the audio starts within the media data.
AudioOffset(video) == Total(video.samples)

(***************************************************************************)
(* The file: ftyp, moov, mdat.  moov is built once to be measured and once *)
(* with the offsets that follow from its size.                             *)
(***************************************************************************)
write(video, audio, meta) ==
    LET ms == MovieMillis(video, audio)
        moov_len == build_moov(video, audio, meta, 0, 0)
        data_off == FtypSize + moov_len + 8
        v_off == data_off
        a_off == data_off + AudioOffset(video)
        moov == build_moov(video, audio, meta, v_off, a_off)
        media == Total(video.samples)
                    + IF audio = NoAudio THEN 0 ELSE Total(audio.samples)
    IN [kind |-> "mp4", moov |-> moov,
        mvhd |-> mvhd(ms),
        video |-> Tables(video, v_off, ms),
        audio |-> IF audio = NoAudio THEN NoAudio ELSE Tables(audio, a_off, ms),
        stss |-> video.sync,
        \* What lies behind moov: the header of mdat, then the samples.
        mdatSize |-> U32(U32(media) + 8),
        payload |-> video.samples \o IF audio = NoAudio THEN << >> ELSE audio.samples]

=============================================================================
