--------------------------- MODULE LengthsGraphics --------------------------
\* The length functions of src/src/carver.rs for textures, scenes, raster and
\* firmware images, whose length follows from dimensions or page counts.
EXTENDS FileLength

\* Mip level i of a texture: blocks of h.block pixels a side and h.bytes bytes.
Half(n, i) == Max({n \div 2 ^ i, 1})
dds_level(h, i) == CeilDiv(Half(h.width, i), h.block) * CeilDiv(Half(h.height, i), h.block) * h.bytes
dds_length(s, h) ==
  When(Reads(s, 0, 128) /\ h.ok /\ h.width \in 1 .. 65536 /\ h.height \in 1 .. 65536 /\ h.mips <= 20,
       Ends(s, 128 + MapThenSumSet(LAMBDA i : dds_level(h, i), 0 .. Max({h.mips, 1}) - 1)))

astc_length(s, h) ==
  When(Reads(s, 0, 16) /\ h.ok /\ \A d \in 1 .. 3 : h.block[d] \in 1 .. 12 /\ h.pixels[d] # 0,
       Ends(s, 16 + 16 * CeilDiv(h.pixels[1], h.block[1]) * CeilDiv(h.pixels[2], h.block[2])
                       * CeilDiv(h.pixels[3], h.block[3])))

glb_length(s, h) ==
  When(Reads(s, 0, 12) /\ h.ok /\ h.size >= 20 /\ h.size % 4 = 0 /\ h.size <= s.limit, From(12))
\* The chunks must fill the size exactly, the JSON chunk first (u.json).
glb_step(s, h, a, u) ==
  IF a.at >= h.size THEN When(a.at = h.size, Ends(s, h.size))
  ELSE When(a.at + 8 <= h.size /\ Reads(s, a.at, 8) /\ u.size % 4 = 0 /\ (a.n = 0 => u.json),
            Moves(a, a.at + 8 + u.size))

\* kv: the key-value data in front of the levels.
ktx1_length(s, h) == When(Reads(s, 0, 64) /\ h.ok /\ h.levels <= 32, From(64 + h.kv))
ktx1_step(s, h, a, u) ==
  LET next == a.at + 4 + Up(u.size, 4)
  IN  IF ~Reads(s, a.at, 4) THEN Refused
      ELSE IF a.n + 1 >= h.levels THEN Ends(s, next)
      ELSE When(next <= s.limit, Moves(a, next))

\* Attributes of u.size bytes after a name and a type, within one window, then
\* the chunk offset table, which ends where its first entry points.
exr_length(s, h) == When(Reads(s, 0, 8) /\ h.ok, From(8))
exr_chunks(s, h, table) ==
  When(/\ Reads(s, table, 8) /\ h.first > table /\ (h.first - table) % 8 = 0
       /\ h.last >= h.first /\ Reads(s, h.last, 8),
       Ends(s, h.last + 8 + h.size))
exr_step(s, h, a, u) ==
  LET n == Min({s.held, h.window})
  IN  IF a.at >= n \/ a.n = MaxUnits THEN Refused
      ELSE IF u.kind = "end" THEN exr_chunks(s, h, a.at + 1)
      ELSE When(a.at + u.names + 4 <= n, Moves(a, a.at + u.names + 4 + u.size))

bsp_length(s, h) ==
  When(Reads(s, 0, 1032) /\ h.ok, Ends(s, FurthestEnd(1036, {p \in h.parts : p.size # 0})))

\* kept: the pixels still to come.
qoi_length(s, h) ==
  When(Reads(s, 0, 14) /\ h.ok /\ h.width # 0 /\ h.height # 0, Keeping(14, h.width * h.height))
qoi_step(s, h, a, u) ==
  IF a.kept > 0
    THEN When(Reads(s, a.at, u.len) /\ a.at + u.len <= s.limit, [Moves(a, a.at + u.len) EXCEPT !.kept = @ - u.run])
  ELSE When(Reads(s, a.at, 8) /\ u.marker, Ends(s, a.at + 8))

farbfeld_length(s, h) ==
  When(Reads(s, 0, 16) /\ h.ok /\ h.width # 0 /\ h.height # 0, Ends(s, 16 + h.width * h.height * 8))

\* cs: the colour space; an odd width or height has chroma for the half pixel.
y4m_frame(h) ==
  LET cw == CeilDiv(h.width, 2)  ch == CeilDiv(h.height, 2)
  IN  CASE h.cs = "mono" -> h.width * h.height
        [] h.cs = "420"  -> h.width * h.height + cw * ch * 2
        [] h.cs = "422"  -> h.width * h.height + cw * h.height * 2
        [] h.cs = "444"  -> h.width * h.height * 3
y4m_length(s, h) == When(Reads(s, 0, 10) /\ h.ok /\ h.width > 0 /\ h.height > 0, From(h.header))
\* u.line: the bytes of the FRAME line, 0 when it does not end in the window.
y4m_step(s, h, a, u) ==
  LET next == a.at + u.line + y4m_frame(h)
  IN  IF ~Reads(s, a.at, 5) \/ u.kind # "FRAME" THEN Keeps(s, a, a.at, 1)
      ELSE When(u.line # 0 /\ next <= s.limit, Moves(a, next))

pvr_length(s, h) ==
  When(Reads(s, 0, 52) /\ h.ok /\ h.width # 0 /\ h.height # 0 /\ h.mips \in 1 .. 32,
       Ends(s, 52 + h.meta + MapThenSumSet(LAMBDA i : dds_level(h, i), 0 .. h.mips - 1)))

blp_length(s, h) ==
  LET levels == {p \in h.parts : p.size # 0}
  IN  When(Reads(s, 0, 148) /\ h.ok /\ levels # {}, Ends(s, FurthestEnd(148, levels)))

\* Rows of sections, each rounded up to a page.
Pages(sizes, page) == MapThenSumSet(LAMBDA i : Up(sizes[i], page), DOMAIN sizes)
vendorboot_length(s, h) ==
  When(/\ Reads(s, 0, IF h.version = 4 THEN 2128 ELSE 2104) /\ h.ok
       /\ h.page \in 256 .. 65536 /\ h.header \in 2048 .. 8192 /\ h.sizes[1] # 0,
       Ends(s, Up(h.header, h.page) + Pages(h.sizes, h.page)))
\* From version 3 on the page is fixed; the sections are those of the version.
bootimg_length(s, h) ==
  LET page == IF h.version <= 2 THEN h.page ELSE 4096
      need == CASE h.version = 1 -> 1636 [] h.version = 2 -> 1652 [] h.version = 4 -> 1584 [] OTHER -> 44
  IN  When(/\ Reads(s, 0, need) /\ h.ok /\ h.version <= 4 /\ h.sizes[1] # 0
           /\ (h.version <= 2 => page \in 256 .. 65536),
           Ends(s, page + Pages(h.sizes, page)))

ktx2_length(s, h) ==
  LET levels == 80 + 24 * Max({h.levels, 1})
  IN  When(Reads(s, 0, 80) /\ h.ok /\ h.levels <= 32 /\ levels <= s.limit, Ends(s, FurthestEnd(levels, h.parts)))

nifti_length(s, h) ==
  When(Reads(s, 0, 352) /\ h.ok /\ h.off >= 348 /\ h.voxels # 0, Ends(s, h.off + h.voxels * h.bytes))

las_length(s, h) ==
  When(/\ Reads(s, 0, IF h.minor >= 4 THEN 263 ELSE 111) /\ h.ok /\ h.header \in 94 .. 1024
       /\ h.off >= h.header /\ h.record \in 1 .. 1024 /\ h.points # 0,
       Ends(s, h.off + h.points * h.record))

raf_length(s, h) ==
  When(Reads(s, 0, 108) /\ h.ok /\ FurthestEnd(0, h.parts) >= 108, Ends(s, FurthestEnd(0, h.parts)))
=============================================================================
