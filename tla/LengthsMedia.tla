---------------------------- MODULE LengthsMedia ----------------------------
\* The length functions of src/src/carver.rs for pictures, sound and video that
\* are streams of chunks, frames or boxes.
EXTENDS FileLength

swf_length(s, h) == When(Reads(s, 0, 8) /\ h.ok /\ h.size >= 8, Ends(s, h.size))

gif_length(s, h) == When(Reads(s, 0, 13) /\ h.ok, From(13 + h.table))
\* A chain of sub-blocks takes u.chain bytes and a terminator.
gif_skip_subblocks(s, a, p, u) == When(p + u.chain + 1 <= s.limit, Moves(a, p + u.chain + 1))
gif_step(s, h, a, u) ==
  IF a.at >= s.limit \/ u.kind = "junk" THEN Refused
  ELSE IF u.kind = "trailer" THEN Ends(s, a.at + 1)
  ELSE IF u.kind = "extension" THEN gif_skip_subblocks(s, a, a.at + 2, u)
  ELSE gif_skip_subblocks(s, a, a.at + 1 + 9 + u.table + 1, u)

jpeg_length(s, h) == When(Reads(s, 0, 3) /\ h.ok, From(2))
\* u: the next FF byte and what follows it.  kept: the images open inside.
jpeg_step(s, h, a, u) ==
  LET m == a.at + u.gap
  IN  IF m + 2 > s.limit THEN Refused
      ELSE IF u.kind = "SOI" THEN [Moves(a, m + 2) EXCEPT !.kept = @ + 1]
      ELSE IF u.kind = "other" THEN Moves(a, m + 1)
      ELSE IF a.kept = 0 THEN Ends(s, m + 2)
      ELSE [Moves(a, m + 2) EXCEPT !.kept = @ - 1]

flv_length(s, h) == When(Reads(s, 0, 9) /\ h.ok, From(9))
\* u.prev: the size field in front of the tag, read even when no tag follows.
flv_step(s, h, a, u) ==
  LET tag  == a.at + 4
      next == tag + 11 + u.size
  IN  IF tag > s.limit THEN Keeps(s, a, a.at, 1)
      ELSE IF a.n = 0 /\ u.prev # 0 THEN Refused
      ELSE IF u.ok /\ a.n < MaxUnits /\ next <= s.limit THEN Moves(a, next)
      ELSE Keeps(s, a, tag, 1)

rtf_length(s, h) == From(0)
\* u: the next brace that no backslash comes before.  kept: the depth.
rtf_step(s, h, a, u) ==
  LET m == a.at + u.gap + 1
  IN  IF m > s.limit THEN Refused
      ELSE IF u.kind = "open" THEN [Moves(a, m) EXCEPT !.kept = @ + 1]
      ELSE IF a.kept = 1 THEN Ends(s, m)
      ELSE When(a.kept > 1, [Moves(a, m) EXCEPT !.kept = @ - 1])

\* Frames of u.size bytes (frame_length, at least 4; None for no frame),
\* maybe an ID3v1 trailer.
frame_length(u) == u.kind = "frame" /\ u.size >= 4
walk_mp3_frames(s, a, u, least) ==
  IF Reads(s, a.at, 4) /\ u.kind = "TAG" THEN Keeps(s, a, a.at + 128, least)
  ELSE IF Reads(s, a.at, 4) /\ frame_length(u) /\ a.at + u.size <= s.limit THEN Moves(a, a.at + u.size)
  ELSE Keeps(s, a, a.at, least)
mp3_length(s, h) ==
  LET audio == 10 + h.tag + h.footer
  IN  When(Reads(s, 0, 10) /\ h.ok /\ audio < s.limit, From(audio))
mp3_step(s, h, a, u) == walk_mp3_frames(s, a, u, 3)
mp3_raw_length(s, h) == From(0)
mp3_raw_step(s, h, a, u) == walk_mp3_frames(s, a, u, h.min_frames)

djvu_length(s, h) == When(Reads(s, 0, 16) /\ h.ok /\ h.size >= 4, Ends(s, h.size + 12))

\* The size is in words; a placeable header adds 22 bytes.
wmf_length(s, h) ==
  When(Reads(s, 0, IF h.placeable THEN 32 ELSE 10) /\ h.ok /\ h.words >= 9,
       Ends(s, h.words * 2 + (IF h.placeable THEN 22 ELSE 0)))

psd_length(s, h) ==
  When(Reads(s, 0, 26) /\ h.ok /\ h.channels \in 1 .. 56 /\ h.width # 0 /\ h.height # 0, From(26))
\* Three sections, each a size field and that many bytes.
psd_section(s, a, u, field) ==
  LET next == a.at + field + u.size IN When(Reads(s, a.at, field) /\ next <= s.limit, Moves(a, next))
psd_field(h, i) == IF i = 2 /\ h.psb THEN 8 ELSE 4
\* Then a compression method and the pixels: raw rows, or a count per row and the rows.
psd_image(s, h, a, u) ==
  LET rows   == h.height * h.channels
      counts == rows * (IF h.psb THEN 4 ELSE 2)
      p      == a.at + 2
  IN  IF ~Reads(s, a.at, 2) THEN Refused
      ELSE IF u.kind = "raw"
        THEN Ends(s, p + rows * (IF h.depth = 1 THEN CeilDiv(h.width, 8) ELSE h.width * (h.depth \div 8)))
      ELSE When(u.kind = "packbits" /\ counts <= 64 * 1024 * 1024 /\ Reads(s, p, counts),
                Ends(s, p + counts + rows * u.size))
psd_step(s, h, a, u) ==
  IF a.n < 3 THEN psd_section(s, a, u, psd_field(h, a.n)) ELSE psd_image(s, h, a, u)

midi_length(s, h) == When(Reads(s, 0, 8) /\ h.ok /\ 14 <= s.limit, From(14))
midi_step(s, h, a, u) == Follows(s, a, u.ok, a.at + 8 + u.size, 1)

asf_length(s, h) == From(0)
asf_step(s, h, a, u) == Follows(s, a, u.ok /\ u.size >= 24, a.at + u.size, 1)

ogg_length(s, h) == From(0)
ogg_step(s, h, a, u) == Follows(s, a, u.ok, a.at + 27 + u.segs + u.size, 1)

\* The header element, then the Segment: its declared size, or the children
\* that declare theirs.
ebml_vint(s, p, len) == p + len <= s.limit
ebml_length(s, h) ==
  LET seg  == 4 + h.hlen + h.hsize
      data == seg + 4 + h.slen
  IN  IF ~(h.ok /\ ~h.hunknown /\ Reads(s, 0, 4) /\ ebml_vint(s, 4, h.hlen) /\ ebml_vint(s, seg + 4, h.slen)) THEN Refused
      ELSE IF h.unknown THEN From(data)
      ELSE When(h.size > 0, Ends(s, data + h.size))
ebml_id_len(s, p, u) == u.ok /\ p + u.idlen <= s.limit
ebml_step(s, h, a, u) ==
  FollowsOn(s, a, ebml_id_len(s, a.at, u) /\ ebml_vint(s, a.at + u.idlen, u.len) /\ ~u.unknown,
            a.at + u.idlen + u.len + u.size, 1)

\* kept: the sample-rate index every frame must share (0 until one is seen).
aac_length(s, h) == From(0)
aac_step(s, h, a, u) ==
  LET ok == Reads(s, a.at, 7) /\ u.ok /\ a.kept \in {0, u.rate} /\ u.size >= 7
  IN  [FollowsOn(s, a, ok, a.at + u.size, 4) EXCEPT !.kept = u.rate]

mpegts_length(s, h) == From(0)
mpegts_step(s, h, a, u) == FollowsOn(s, a, u.ok, a.at + 188, 8)

mpegps_length(s, h) == From(0)
\* Pack headers of u.size bytes (MPEG-1 or 2), packets, an end code that counts as one.
mpegps_step(s, h, a, u) ==
  IF u.kind = "end" /\ a.at + 4 <= s.limit THEN Keeps(s, Moves(a, a.at + 4), a.at + 4, 4)
  ELSE FollowsOn(s, a, u.kind \in {"pack", "packet"}, a.at + u.size, 4)

icc_length(s, h) == When(Reads(s, 0, 4) /\ h.size >= 128 /\ h.size % 4 = 0, Ends(s, h.size))

rf64_length(s, h) == When(Reads(s, 0, 28) /\ h.ok /\ h.size + 8 >= 28, Ends(s, h.size + 8))
e57_length(s, h)  == When(Reads(s, 0, 24) /\ h.ok /\ h.size >= 48, Ends(s, h.size))

qoa_length(s, h) == When(Reads(s, 0, 8) /\ h.ok /\ h.samples # 0, From(8))
qoa_step(s, h, a, u) ==
  LET next == a.at + u.size
  IN  IF a.at + 8 > s.limit \/ (a.n = 0 /\ ~u.ok) \/ u.size < 8 THEN Refused
      ELSE IF a.n + 1 = CeilDiv(h.samples, 5120) THEN Ends(s, next)
      ELSE When(next <= s.limit, Moves(a, next))

\* Counted frames: h.frames of them.
ivf_length(s, h) == When(Reads(s, 0, 32) /\ h.ok /\ h.frames # 0, From(32))
ivf_step(s, h, a, u) ==
  LET next == a.at + 12 + u.size
  IN  IF next > s.limit THEN Refused ELSE IF a.n + 1 = h.frames THEN Ends(s, next) ELSE Moves(a, next)

dsdiff_length(s, h) == When(Reads(s, 0, 16) /\ h.ok /\ h.size >= 4, Ends(s, 12 + h.size))
dsf_length(s, h) == When(Reads(s, 0, 32) /\ h.ok /\ h.size >= 92, Ends(s, h.size))
flic_length(s, h) == When(Reads(s, 0, 16) /\ h.ok /\ h.size >= 128, Ends(s, h.size))
sun_raster_length(s, h) == When(Reads(s, 0, 32) /\ h.ok /\ h.size # 0, Ends(s, 32 + h.map + h.size))
\* The descriptor, the header, then the seek table, WAV header, frames and tail.
ape_length(s, h) ==
  When(Reads(s, 0, 36) /\ h.ok /\ h.descriptor \in 52 .. 4096 /\ h.header >= 24 /\ h.frames # 0,
       Ends(s, h.descriptor + h.header + h.tables + h.frames + h.tail))
\* h.size is None when the header does not know its size.
au_length(s, h) ==
  When(Reads(s, 0, 16) /\ h.ok /\ h.off \in 24 .. 1048576 /\ h.size # -1, Ends(s, h.off + h.size))

wavpack_length(s, h) == From(0)
wavpack_step(s, h, a, u) ==
  IF a.at < s.limit /\ Reads(s, a.at, 12) /\ u.ok /\ a.n = 0 /\ ~u.known THEN Refused
  ELSE FollowsOn(s, a, u.ok /\ u.size >= 24, a.at + u.size + 8, 1)

voc_length(s, h) == When(Reads(s, 0, 22) /\ h.ok /\ h.header \in 20 .. 256, From(h.header))
voc_step(s, h, a, u) ==
  IF a.at >= s.limit \/ a.n = MaxUnits THEN Refused
  ELSE IF u.last THEN Ends(s, a.at + 1) ELSE Moves(a, a.at + 4 + u.size)

amr_length(s, h) == From(6)
amr_step_empty(s, h, a, u) == FollowsOn(s, a, Reads(s, a.at, 1) /\ u.ok, a.at + u.size, 1)
amr_step(s, h, a, u) == FollowsOn(s, a, Reads(s, a.at, 1) /\ u.ok /\ u.size # 0, a.at + u.size, 1)

\* kept: whether an ftyp box was seen.  A box of size 0 reaches to the limit,
\* and one past it is cut there.
mp4_length(s, h) == Keeping(0, FALSE)
mp4_close(s, a, p) == When(a.kept /\ p >= 8, Ends(s, p))
mp4_step(s, h, a, u) ==
  LET box  == IF u.size = 0 THEN s.limit - a.at ELSE u.size
      seen == [a EXCEPT !.kept = @ \/ u.ftyp]
  IN  IF a.at + 8 > s.limit \/ ~u.ok THEN mp4_close(s, a, a.at)
      ELSE IF box < 8 \/ (u.wide /\ ~Reads(s, a.at, 16)) THEN mp4_close(s, seen, a.at)
      ELSE IF a.at + box >= s.limit THEN mp4_close(s, seen, s.limit)
      ELSE Moves(seen, a.at + box)
=============================================================================
