--------------------------- MODULE LengthsArchive ---------------------------
\* The length functions of src/src/carver.rs for archives, packages, documents,
\* captures and program images, and the plain size fields of file_length.
EXTENDS FileLength

zip_length(s, h) == From(0)
\* u: the next EOCD record, u.gap bytes further on.  kept: the end a ZIP64
\* record would give, used when no record describes this archive.
zip_step(s, h, a, u) ==
  LET eocd == a.at + u.gap
      end  == eocd + 22 + u.comment
      read == Reads(s, eocd, 22) /\ end <= s.limit
  IN  IF eocd + 4 > s.limit THEN When(a.kept > 0, Ends(s, a.kept))
      ELSE IF read /\ ~u.zip64 /\ u.cd_off + u.cd_size = eocd THEN Ends(s, end)
      ELSE [Moves(a, eocd + 4) EXCEPT !.kept = IF read /\ u.zip64 THEN end ELSE @]

rar_length(s, h) == When(Reads(s, 0, 7) /\ h.ok, From(IF h.v5 THEN 8 ELSE 7))
rar4_length(s, a, u) ==
  LET p == a.at + u.head_size + (IF u.long THEN u.add_size ELSE 0)
  IN  IF ~Reads(s, a.at, IF u.long THEN 11 ELSE 7) THEN Refused
      ELSE IF u.last /\ u.head_size >= 7 /\ a.n < MaxUnits THEN Ends(s, p)
      ELSE Must(s, a, u.head_size >= 7, p)
\* u.fields: the bytes of the type, flags and size vints, all to be read.
rar5_length(s, a, u) ==
  LET p == a.at + 4 + u.hs_len + u.head_size + u.add_size
  IN  IF ~Reads(s, a.at + 4, u.hs_len + u.fields) THEN Refused
      ELSE IF u.last /\ a.n < MaxUnits THEN Ends(s, p)
      ELSE Must(s, a, TRUE, p)
rar_step(s, h, a, u) == IF h.v5 THEN rar5_length(s, a, u) ELSE rar4_length(s, a, u)

zstd_length(s, h) == When(Reads(s, 0, 5) /\ h.ok, From(5 + h.window + h.dict + h.fcs))
zstd_step(s, h, a, u) ==
  LET p == a.at + 3 + (IF u.type = "rle" THEN 1 ELSE u.size)
  IN  IF ~Reads(s, a.at, 3) \/ u.type = "reserved" \/ p > s.limit THEN Refused
      ELSE IF u.last \/ a.n + 1 = MaxUnits THEN Ends(s, p + h.checksum)
      ELSE Moves(a, p)

lz4_length(s, h) == When(Reads(s, 0, 5) /\ h.ok, From(7 + h.content_size + h.dict))
lz4_step(s, h, a, u) ==
  LET p == a.at + 4 + u.size + h.block_checksum
  IN  IF ~Reads(s, a.at, 4) THEN Refused
      ELSE IF u.size = 0 THEN Ends(s, a.at + 4 + h.checksum)
      ELSE IF p > s.limit THEN Refused
      ELSE IF a.n + 1 = MaxUnits THEN Ends(s, p + h.checksum)
      ELSE Moves(a, p)

\* h.parts: the resources with an offset.
wim_length(s, h) ==
  LET end == FurthestEnd(208, h.parts)
  IN  When(Reads(s, 0, 148) /\ h.ok /\ end > 208, Ends(s, end))

evtx_length(s, h) ==
  When(Reads(s, 0, 48) /\ h.ok /\ h.chunks # 0, Ends(s, 4096 + h.chunks * 65536))

pcap_length(s, h) == When(Reads(s, 0, 24) /\ h.ok, From(24))
pcap_step(s, h, a, u) ==
  Follows(s, a, u.size # 0 /\ u.size <= h.snaplen /\ u.size <= u.orig, a.at + 16 + u.size, 1)

pcapng_length(s, h) == When(Reads(s, 0, 12) /\ h.ok, From(0))
\* u.tail: the length repeated at the end of the block.
pcapng_step(s, h, a, u) ==
  Follows(s, a, u.size >= 12 /\ u.size % 4 = 0 /\ u.tail = u.size, a.at + u.size, 1)

regf_length(s, h) ==
  When(Reads(s, 0, 48) /\ h.ok /\ h.size # 0 /\ h.size % 4096 = 0, Ends(s, 4096 + h.size))

pdb_length(s, h) == When(Reads(s, 0, 44) /\ h.ok /\ h.block * h.blocks >= 44, Ends(s, h.block * h.blocks))

dex_length(s, h) == When(Reads(s, 0, 44) /\ h.ok /\ h.size >= 112, Ends(s, h.size))

ar_length(s, h) == When(Reads(s, 0, 8) /\ h.ok, From(8))
ar_step(s, h, a, u) == FollowsOn(s, a, u.ok, a.at + 60 + Up(u.size, 2), 1)

tar_length(s, h) == From(0)
tar_step_unpadded(s, h, a, u) ==
  IF a.at + 512 <= s.limit /\ u.kind = "zero"
    THEN When(a.n > 0, Ends(s, IF a.at + 1024 <= s.limit THEN a.at + 1024 ELSE a.at + 512))
  ELSE Follows(s, a, u.kind = "member" /\ u.ok, a.at + 512 + u.size, 1)
\* tar_checksum_ok and the octal or binary size: u.ok, u.size.
tar_step(s, h, a, u) ==
  IF a.at + 512 <= s.limit /\ u.kind = "zero"
    THEN When(a.n > 0, Ends(s, IF a.at + 1024 <= s.limit THEN a.at + 1024 ELSE a.at + 512))
  ELSE Follows(s, a, u.kind = "member" /\ u.ok, a.at + 512 + Up(u.size, 512), 1)

cpio_length(s, h) == From(0)
cpio_step(s, h, a, u) ==
  LET named == a.at + Up(110 + u.name, 4)
  IN  IF ~(u.ok /\ u.name \in 1 .. 8192 /\ a.at + 110 + u.name <= s.limit) THEN Refused
      ELSE IF u.kind = "trailer" THEN When(a.n > 0, Ends(s, Min({named, s.limit})))
      ELSE Must(s, a, TRUE, named + Up(u.size, 4))

squashfs_length(s, h) == When(Reads(s, 0, 48) /\ h.ok /\ h.size >= 96, Ends(s, h.size))

mcap_length(s, h) == From(8)
\* The record is held against the absolute limit; the length, at the end,
\* against the right one.
mcap_step(s, h, a, u) ==
  IF a.at + 9 > s.start + s.limit \/ ~Reads(s, a.at, 9) \/ ~u.ok \/ a.n = MaxUnits THEN Refused
  ELSE IF u.last THEN Ends(s, a.at + 9 + u.size + 8)
  ELSE Moves(a, a.at + 9 + u.size)

\* A lead, the signature header padded to 8, then h.size bytes more (the 64-bit
\* size tag wins over the 32-bit one; 0 when there is neither).
rpm_length(s, h) ==
  LET header == 16 + h.count * 16 + h.data
  IN  When(/\ Reads(s, 0, 96 + 16) /\ h.ok /\ h.count \in 1 .. 65536
           /\ 96 + header <= Min({s.held, 128 * 1024}) /\ h.tagged,
           Ends(s, 96 + Up(header, 8) + h.size))

grib2_length(s, h) == From(0)
grib2_step(s, h, a, u) == Follows(s, a, u.ok /\ u.size >= 16 /\ u.tail, a.at + u.size, 1)

\* HeaderSizeLe32 and HeaderSizeBe32, FormSize and RiffSize, Fixed.
HeaderSize(s, h) == When(Reads(s, 0, h.off + 4) /\ h.size # 0, Ends(s, h.size))
ChunkSize(s, h) == When(Reads(s, 0, 8) /\ h.size # 0, Ends(s, h.size + 8))
Fixed(s, h) == When(h.size # 0, Ends(s, h.size))
\* h.value * mul + add, for a field of h.width bytes at h.off.
sizefield_length(s, h) ==
  LET size == h.value * h.mul + h.add
  IN  When(Reads(s, 0, h.off + h.width) /\ size # 0, Ends(s, size))
SevenZip(s, h) == When(Reads(s, 0, 32) /\ h.off + h.size > 0, Ends(s, 32 + h.off + h.size))

hdf5_length(s, h) == When(Reads(s, 0, h.eof + 8) /\ h.ok /\ h.size >= 36, Ends(s, h.size))

\* Metadata blocks up to an empty one and a sync marker, then data blocks that
\* end in the marker.  kept: the end of the last of them, 0 in the metadata.
avro_length(s, h) == When(Reads(s, 0, 4) /\ h.ok, From(4))
avro_long(s, a, u) == a.at + u.long <= s.limit
avro_step(s, h, a, u) ==
  LET first == a.at + u.long + 16
      next  == a.at + u.long + u.size + 16
  IN  IF a.kept > 0
        THEN IF u.sync /\ next <= s.limit THEN [Moves(a, next) EXCEPT !.kept = next] ELSE Ends(s, a.kept)
      ELSE IF u.kind = "end" THEN When(first <= s.limit, [Moves(a, first) EXCEPT !.kept = first])
      ELSE When(avro_long(s, a, u) /\ u.size >= 0 /\ next - 16 <= s.limit, Moves(a, next - 16))

usdc_length(s, h) ==
  LET toc_end == h.off + 8 + h.count * 32
  IN  When(Reads(s, 0, 24) /\ h.ok /\ h.off >= 32 /\ h.count \in 1 .. 4096 /\ toc_end <= s.limit,
           Ends(s, FurthestEnd(toc_end, h.parts)))

\* kept: the furthest end of a packed file.
godot_pck_length(s, h) ==
  When(Reads(s, 0, 100) /\ h.ok /\ h.count # 0, Keeping(IF h.version = 1 THEN 88 ELSE 100, 0))
godot_pck_step(s, h, a, u) ==
  LET next == a.at + 4 + u.path + 16 + (IF h.version = 1 THEN 16 ELSE 20)
      end  == Max({a.kept, h.base + u.off + u.size})
  IN  IF u.path > 4096 \/ next > s.limit THEN Refused
      ELSE IF a.n + 1 = h.count THEN Ends(s, Max({next, end}))
      ELSE [Moves(a, next) EXCEPT !.kept = end]

vpk_length(s, h) ==
  When(Reads(s, 0, 28) /\ h.ok /\ h.sizes[1] # 0, Ends(s, 28 + MapThenSumSet(LAMBDA i : h.sizes[i], DOMAIN h.sizes)))

\* h.strings: where the version strings end.
unityfs_length(s, h) == When(Reads(s, 0, h.strings + 8) /\ h.ok /\ h.size >= h.strings + 8, Ends(s, h.size))

journal_length(s, h) ==
  When(Reads(s, 0, 104) /\ h.ok /\ h.header \in 208 .. 65536 /\ h.size # 0, Ends(s, h.header + h.size))

npy_length(s, h) ==
  LET data == h.prefix + h.header
  IN  When(Reads(s, 0, data) /\ h.ok /\ h.header \in 1 .. 65536, Ends(s, data + h.count * h.item))

\* h.kvs key-value pairs, then h.tensors tensors, then the data, aligned.
\* kept: the alignment and the furthest end of a tensor's data.
gguf_length(s, h) == When(Reads(s, 0, 24) /\ h.ok, Keeping(24, [align |-> 32, end |-> 0]))
gguf_skip_value(a, u) == a.at + 8 + u.key + 4 + u.value
gguf_tensor(a, u) == a.at + 8 + u.name + 4 + 8 * u.dims + 4 + 8
gguf_step(s, h, a, u) ==
  IF a.n < h.kvs
    THEN When(gguf_skip_value(a, u) <= s.limit /\ u.align \in {0} \cup 1 .. 4096,
              [Moves(a, gguf_skip_value(a, u)) EXCEPT !.kept.align = IF u.align = 0 THEN @ ELSE u.align])
  ELSE IF a.n < h.kvs + h.tensors
    THEN When(u.ok /\ gguf_tensor(a, u) <= s.limit /\ u.elems % u.block = 0,
              [Moves(a, gguf_tensor(a, u))
                 EXCEPT !.kept.end = Max({@, u.off + (u.elems \div u.block) * u.block_bytes})])
  ELSE Ends(s, Up(a.at, a.kept.align) + a.kept.end)

zim_length(s, h) == When(Reads(s, 0, 80) /\ h.ok /\ h.off >= 80, Ends(s, h.off + 16))
md2_length(s, h) == When(Reads(s, 0, 68) /\ h.ok /\ h.size >= 68, Ends(s, h.size))
pst_length(s, h) == When(Reads(s, 0, 192) /\ h.ok /\ h.size >= 192, Ends(s, h.size))
uimage_length(s, h) == When(Reads(s, 0, 64) /\ h.ok /\ h.size # 0, Ends(s, 64 + h.size))
shp_length(s, h) == When(Reads(s, 0, 32) /\ h.ok /\ h.words * 2 >= 100, Ends(s, h.words * 2))
psxexe_length(s, h) ==
  When(Reads(s, 0, 32) /\ h.ok /\ h.size # 0 /\ h.size % 2048 = 0, Ends(s, 2048 + h.size))
genesis_length(s, h) == When(Reads(s, 0, 424) /\ h.ok /\ h.last >= 511, Ends(s, h.last + 1))
\* The checksum of the header is in h.ok; h.code doubles a size of 32 KiB.
gameboy_length(s, h) == When(Reads(s, 0, 336) /\ h.ok /\ h.code <= 8, Ends(s, 32768 * 2 ^ h.code))
nes_length(s, h) ==
  When(Reads(s, 0, 16) /\ h.ok /\ h.prg # 0,
       Ends(s, 16 + (IF h.trainer THEN 512 ELSE 0) + h.prg * 16384 + h.chr * 8192))

blend_length(s, h) == When(Reads(s, 0, 12) /\ h.ok, From(12))
blend_step(s, h, a, u) ==
  LET next == a.at + 16 + h.ptr + u.size
  IN  IF u.last THEN Ends(s, next) ELSE When(next <= s.limit, Moves(a, next))

\* The FAT sectors a compound file lists: 109 in its header (h.fats of them
\* used) and more in a chain of DIFAT sectors, as many as the header says.
\* kept: the DIFAT sector to read (NoSector at the end) and the FAT sectors found.
NoSector == -1
cfbf_sector(s, h, n) == Reads(s, (n + 1) * h.sector, h.sector)
cfbf_length(s, h) ==
  When(/\ Reads(s, 0, 512) /\ h.ok /\ h.num_fats # 0 /\ h.num_fats <= s.limit \div h.sector + 2,
       Keeping(0, [difat |-> h.difat, fats |-> h.fats]))
\* h.fat_top: the highest FAT sector; h.used: the last sector a FAT entry marks.
cfbf_close(s, h, a) ==
  When(a.kept.fats = h.num_fats /\ cfbf_sector(s, h, h.fat_top) /\ h.used >= 0, Ends(s, (h.used + 2) * h.sector))
cfbf_step(s, h, a, u) ==
  IF a.kept.difat = NoSector \/ a.n >= h.num_difat THEN cfbf_close(s, h, a)
  ELSE When(cfbf_sector(s, h, a.kept.difat),
            [Moves(a, a.at + 1) EXCEPT !.kept = [difat |-> u.next, fats |-> @.fats + u.fats]])

android_sparse_length(s, h) ==
  When(Reads(s, 0, 28) /\ h.ok /\ h.header \in 28 .. 256 /\ h.chunk \in 12 .. 64, From(h.header))
android_sparse_step(s, h, a, u) ==
  IF a.n = h.count THEN Ends(s, a.at)
  ELSE When(a.at + h.chunk <= s.limit /\ Reads(s, a.at, 12) /\ u.size >= h.chunk, Moves(a, a.at + u.size))
=============================================================================
