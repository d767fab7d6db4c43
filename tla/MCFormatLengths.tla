--------------------------- MODULE MCFormatLengths ---------------------------
\* Files of every type FormatLengths measures, their lengths given as numbers
\* worked out by hand from each format's layout.
EXTENDS FormatLengths, TLC

Sources(limits) ==
  {[start |-> b, limit |-> n, held |-> n + more] : b \in {0, 7}, n \in limits, more \in {0, 4096}}
Around(n) == Sources({n - 1, n, n + 100})
Whole(n) == [bytes |-> n, st |-> "closed"]
Begun(n) == [bytes |-> n, st |-> "open"]
Not == [bytes |-> 0, st |-> "broken"]

OK == [ok |-> TRUE]
Part(o, n) == [off |-> o, size |-> n]
\* A file whose header says it all, n bytes long.
One(fmt, h, n) == [fmt |-> fmt, h |-> OK @@ h, units |-> <<{}>>, sources |-> Around(n), file |-> Whole(n)]
\* A file that begins with n bytes of header and goes on in units.
Many(fmt, h, n, units, limits) ==
  [fmt |-> fmt, h |-> OK @@ h, units |-> units, sources |-> Sources(limits), file |-> Begun(n)]
\* A file whose header begins a search: its n bytes are settled at once.
Search(fmt, h, units, n) ==
  [fmt |-> fmt, h |-> OK @@ h, units |-> units, sources |-> Around(n), file |-> Whole(n)]

On(u, n)    == u @@ [bytes |-> n, leaves |-> "open"]
Shut(u, n)  == u @@ [bytes |-> n, leaves |-> "closed"]
Break(u)    == u @@ [bytes |-> 0, leaves |-> "broken"]
Idle        == On([idle |-> TRUE], 0)

ArchiveCases ==
  LET eocd == [cd_size |-> 40, cd_off |-> 60, comment |-> 5, zip64 |-> FALSE]
      stray == [gap |-> 50, cd_size |-> 5, cd_off |-> 10, comment |-> 0, zip64 |-> FALSE]
      big == [gap |-> 100, cd_size |-> 0, cd_off |-> 0, comment |-> 0, zip64 |-> TRUE]
      none == [gap |-> 5000, cd_size |-> 0, cd_off |-> 0, comment |-> 0, zip64 |-> FALSE]
      v4 == [head_size |-> 40, long |-> TRUE, add_size |-> 100, last |-> FALSE]
      v4end == [head_size |-> 7, long |-> FALSE, add_size |-> 0, last |-> TRUE]
      v5 == [hs_len |-> 1, head_size |-> 20, add_size |-> 30, fields |-> 3, last |-> FALSE]
      z == [type |-> "raw", size |-> 10, last |-> FALSE]
      rec == [size |-> 20, orig |-> 60]
      blk == [size |-> 28, tail |-> 28]
      mem == [ok |-> TRUE, kind |-> "member", size |-> 600]
      cp == [ok |-> TRUE, name |-> 6, kind |-> "member", size |-> 10]
      mc == [ok |-> TRUE, last |-> FALSE, size |-> 20]
      gr == [ok |-> TRUE, size |-> 50, tail |-> TRUE]
  IN
  { Many("zip", <<>>, 0, <<{Shut(eocd @@ [gap |-> 100], 127), On(stray, 54)},
                           {Shut(eocd @@ [gap |-> 46], 73)}>>, {126, 127, 300}),
    Many("zip", <<>>, 0, <<{Shut(big, 122)}, {On(none, 0)}>>, {121, 122, 300}),
    Many("rar", [v5 |-> FALSE], 7,
         <<{On(v4, 140)}, {On(v4, 140), Break([v4 EXCEPT !.head_size = 3]), Shut(v4end, 7)}, {On(v4, 140), Shut(v4end, 7)}>>,
         {153, 154, 293, 294, 4000}),
    Many("rar", [v5 |-> TRUE], 8, <<{On(v5, 55)}, {On(v5, 55), Shut([v5 EXCEPT !.last = TRUE, !.add_size = 0], 25)}>>,
         {87, 88, 142, 143, 2000}),
    Many("zstd", [window |-> 1, dict |-> 0, fcs |-> 0, checksum |-> 4], 6,
         <<{On(z, 13), On([z EXCEPT !.type = "rle"], 4), Shut([z EXCEPT !.last = TRUE], 17)}, {Break([z EXCEPT !.type = "reserved"]), On(z, 13)},
           {Shut([z EXCEPT !.last = TRUE], 17)}>>, {22, 23, 39, 40, 49, 300}),
    Many("lz4", [content_size |-> 8, dict |-> 0, block_checksum |-> 4, checksum |-> 4], 15,
         <<{On([size |-> 20], 28)}, {On([size |-> 20], 28), Shut([size |-> 0], 8)}>>, {50, 51, 78, 79, 4000}),
    One("wim", [parts |-> {Part(208, 100), Part(308, 50)}], 358), One("evtx", [chunks |-> 1], 69632),
    Many("pcap", [snaplen |-> 50], 24, <<{On(rec, 36)}, {On(rec, 36), Shut([rec EXCEPT !.size = 0], 0), Shut([rec EXCEPT !.orig = 3], 0)}>>,
         {59, 60, 95, 96, 500, 2000}),
    Many("pcapng", <<>>, 0, <<{On(blk, 28)}, {On(blk, 28), Shut([blk EXCEPT !.tail = 4], 0), Shut([size |-> 0, tail |-> 0], 0)}>>,
         {27, 28, 56, 300, 2000}),
    One("regf", [size |-> 4096], 8192), One("pdb", [block |-> 512, blocks |-> 9], 4608), One("dex", [size |-> 200], 200),
    Many("ar", <<>>, 8, <<{On([ok |-> TRUE, size |-> 11], 72)}, {On([ok |-> TRUE, size |-> 10], 70), Shut([ok |-> FALSE, size |-> 0], 0)}>>,
         {79, 80, 150, 400}),
    Many("tar", <<>>, 0, <<{On(mem, 1536)}, {On([mem EXCEPT !.size = 0], 512), Shut([mem EXCEPT !.kind = "zero"], 1024), Shut([mem EXCEPT !.ok = FALSE], 0)}>>,
         {1535, 1536, 2048, 2560, 3072, 9000}),
    Many("cpio", <<>>, 0, <<{On(cp, 128)}, {On(cp, 128), Shut([cp EXCEPT !.kind = "trailer", !.name = 11], 124), Break([cp EXCEPT !.name = 0])}>>,
         {250, 251, 252, 380, 3000}),
    One("squashfs", [size |-> 200], 200),
    Many("mcap", <<>>, 8, <<{On(mc, 29)}, {On(mc, 29), Break([mc EXCEPT !.ok = FALSE]), Shut([mc EXCEPT !.last = TRUE], 37)}>>,
         {73, 74, 75, 103, 600}),
    One("rpm", [count |-> 2, data |-> 5, tagged |-> TRUE, size |-> 1000], 1152),
    Many("grib2", <<>>, 0, <<{On(gr, 50)}, {On(gr, 50), Shut([gr EXCEPT !.tail = FALSE], 0), Shut([gr EXCEPT !.size = 0], 0)}>>, {49, 50, 99, 100, 900}) }

PackageCases ==
  LET data == [kind |-> "data", long |-> 3, size |-> 40, sync |-> TRUE]
      kv == [key |-> 4, value |-> 4, align |-> 64]
      tensor == [ok |-> TRUE, name |-> 4, dims |-> 1, elems |-> 32, block |-> 32, block_bytes |-> 18, off |-> 0]
      cfb == [num_fats |-> 2, sector |-> 512, difat |-> NoSector, fats |-> 2, num_difat |-> 0, fat_top |-> 1, used |-> 5]
      chained == [cfb EXCEPT !.difat = 3, !.fats = 1, !.num_difat = 1]
  IN
  { One("HeaderSize", [off |-> 4, size |-> 300], 300), One("ChunkSize", [size |-> 292], 300), One("Fixed", [size |-> 1440], 1440),
    One("sizefield", [value |-> 10, mul |-> 512, add |-> 16, off |-> 8, width |-> 4], 5136),
    One("SevenZip", [off |-> 100, size |-> 20], 152), One("hdf5", [eof |-> 40, size |-> 500], 500),
    Many("avro", <<>>, 4, <<{On([data EXCEPT !.kind = "block"], 43)}, {Break([data EXCEPT !.kind = "block", !.size = -1]), On([data EXCEPT !.kind = "end", !.long = 1], 17)},
                            {On(data, 59), Shut([data EXCEPT !.sync = FALSE], 0)}>>, {63, 64, 122, 123, 900}),
    One("usdc", [off |-> 100, count |-> 2, parts |-> {Part(32, 68)}], 172),
    One("usdc", [off |-> 100, count |-> 2, parts |-> {Part(172, 28)}], 200),
    Many("godot_pck", [version |-> 1, count |-> 2, base |-> 0], 88,
         <<{On([path |-> 8, off |-> 226, size |-> 30], 44)}, {Shut([path |-> 8, off |-> 176, size |-> 50], 124), Break([path |-> 5000, off |-> 0, size |-> 0])}>>,
         {255, 256, 400}),
    One("vpk", [sizes |-> <<10, 20, 0, 5>>], 63), One("unityfs", [strings |-> 30, size |-> 400], 400),
    One("journal", [header |-> 256, size |-> 1000], 1256),
    One("npy", [prefix |-> 10, header |-> 118, count |-> 12, item |-> 8], 224),
    Many("gguf", [kvs |-> 1, tensors |-> 1], 24,
         <<{On(kv, 20)}, {On(tensor, 36), Break([tensor EXCEPT !.elems = 33])}, {Shut(tensor, 66)}>>, {145, 146, 300}),
    Many("gguf", [kvs |-> 1, tensors |-> 1], 24, <<{On([kv EXCEPT !.align = 0], 20)}, {On(tensor, 36)}, {Shut(tensor, 34)}>>, {113, 114, 300}),
    One("zim", [off |-> 200], 216), One("md2", [size |-> 100], 100), One("pst", [size |-> 300], 300),
    One("uimage", [size |-> 100], 164), One("shp", [words |-> 60], 120), One("psxexe", [size |-> 2048], 4096),
    One("genesis", [last |-> 1023], 1024), One("gameboy", [code |-> 0], 32768), One("gameboy", [code |-> 2], 131072),
    One("nes", [trainer |-> TRUE, prg |-> 1, chr |-> 1], 25104), One("nes", [trainer |-> FALSE, prg |-> 2, chr |-> 0], 32784),
    Many("blend", [ptr |-> 8], 12, <<{On([last |-> FALSE, size |-> 40], 64)}, {On([last |-> FALSE, size |-> 0], 24), Shut([last |-> TRUE, size |-> 0], 24)}>>,
         {99, 100, 124, 300}),
    Search("cfbf", cfb, <<{Idle}>>, 3584),
    Search("cfbf", chained, <<{On([next |-> NoSector, fats |-> 1], 0)}>>, 3584),
    [Search("cfbf", [chained EXCEPT !.num_difat = 4], <<{On([next |-> 3, fats |-> 1], 0)}>>, 3584) EXCEPT !.file = Not],
    Many("android_sparse", [header |-> 28, chunk |-> 12, count |-> 2], 28,
         <<{On([size |-> 112], 112), Break([size |-> 4])}, {On([size |-> 12], 12)}, {Shut([size |-> 0], 0)}>>, {151, 152, 400}) }

MediaCases ==
  LET frame == [kind |-> "frame", size |-> 100]
      f == {On(frame, 100)}
      after == {On(frame, 100), Shut([frame EXCEPT !.kind = "TAG"], 128), Shut([frame EXCEPT !.kind = "junk"], 0)}
      section == {On([kind |-> "section", size |-> 10], 14)}
      pixels(raw, packed) == {Shut([kind |-> "raw", size |-> 0], raw), Shut([kind |-> "packbits", size |-> 5], packed)}
      psd == [channels |-> 3, width |-> 4, height |-> 2, depth |-> 8, psb |-> FALSE]
      sub == [kind |-> "image", chain |-> 20, table |-> 3]
      box == [ok |-> TRUE, wide |-> FALSE, ftyp |-> FALSE, size |-> 100]
      tag == [prev |-> 0, ok |-> TRUE, size |-> 20]
      track == [ok |-> TRUE, size |-> 30]
      page == [ok |-> TRUE, segs |-> 2, size |-> 50]
      child == [ok |-> TRUE, idlen |-> 4, len |-> 1, unknown |-> FALSE, size |-> 50]
      mkv == [hlen |-> 1, hsize |-> 20, hunknown |-> FALSE, slen |-> 8, size |-> 100, unknown |-> FALSE]
      adts == [ok |-> TRUE, rate |-> 4, size |-> 100]
      pack == [kind |-> "pack", size |-> 14]
      wv == [ok |-> TRUE, known |-> TRUE, size |-> 40]
      mark(kind, gap) == [kind |-> kind, gap |-> gap]
  IN
  { One("swf", [size |-> 100], 100),
    Many("gif", [table |-> 6], 19, <<{On(sub, 35)}, {On([sub EXCEPT !.kind = "extension", !.chain = 5], 8), Break([sub EXCEPT !.kind = "junk"]), Shut([sub EXCEPT !.kind = "trailer"], 1)}>>,
         {54, 55, 62, 63, 200}),
    Many("jpeg", <<>>, 2, <<{On(mark("other", 10), 11)}, {Shut(mark("EOI", 30), 32)}>>, {44, 45, 100}),
    Many("jpeg", <<>>, 2, <<{On(mark("SOI", 10), 12)}, {On(mark("EOI", 20), 22)}, {On(mark("other", 5), 6), Shut(mark("EOI", 7), 9)}>>, {35, 36, 44, 45, 100}),
    Many("flv", <<>>, 9, <<{On(tag, 35), Break([tag EXCEPT !.prev = 9])}, {On([tag EXCEPT !.prev = 31], 35), Shut([tag EXCEPT !.prev = 31, !.ok = FALSE], 4)}>>,
         {47, 48, 82, 83, 700}),
    Many("rtf", <<>>, 0, <<{On(mark("open", 0), 1), Break(mark("close", 0))}, {On(mark("open", 5), 6), Shut(mark("close", 9), 10)}, {On(mark("close", 3), 4)},
                           {Shut(mark("close", 2), 3)}>>, {10, 11, 13, 14, 60}),
    Many("mp3", [tag |-> 20, footer |-> 0], 30, <<f, f, f, after>>, {329, 330, 458, 500, 1500}),
    Many("mp3", [tag |-> 20, footer |-> 10], 40, <<f, f, f, after>>, {339, 340, 468}),
    Many("mp3_raw", [min_frames |-> 8], 0, <<f, f, f, f, f, f, f, f, after>>, {799, 800, 928, 2000}),
    One("djvu", [size |-> 100], 112), One("wmf", [placeable |-> TRUE, words |-> 20], 62), One("wmf", [placeable |-> FALSE, words |-> 20], 40),
    Many("psd", psd, 26, <<section, section, section, pixels(26, 44)>>, {93, 94, 111, 112, 300}),
    Many("psd", [psd EXCEPT !.psb = TRUE], 26, <<section, section, {On([kind |-> "section", size |-> 10], 18)}, pixels(26, 56)>>, {98, 127, 128}),
    Many("psd", [psd EXCEPT !.depth = 1, !.width = 10], 26, <<section, section, section, pixels(14, 44)>>, {82, 112}),
    Many("midi", <<>>, 14, <<{On(track, 38)}, {On(track, 38), Shut([track EXCEPT !.ok = FALSE], 0)}>>, {51, 52, 90, 500}),
    Many("asf", <<>>, 0, <<{On(track, 30)}, {On(track, 30), Shut([track EXCEPT !.size = 0], 0), Shut([track EXCEPT !.size = 23], 0)}>>, {29, 30, 60, 400}),
    Many("ogg", <<>>, 0, <<{On(page, 79)}, {On(page, 79), Shut([page EXCEPT !.ok = FALSE], 0)}>>, {78, 79, 158, 900}),
    One("ebml", mkv, 137),
    Many("ebml", [mkv EXCEPT !.unknown = TRUE], 37, <<{On(child, 55)}, {On(child, 55), Break([child EXCEPT !.unknown = TRUE]), Shut([child EXCEPT !.ok = FALSE], 0)}>>, {91, 92, 147, 700}),
    Many("aac", <<>>, 0, <<{On(adts, 100)}, {On(adts, 100)}, {On(adts, 100)}, {On(adts, 100)}, {On(adts, 100), Shut([adts EXCEPT !.rate = 3], 0), Shut([adts EXCEPT !.size = 0], 0)}>>,
         {399, 400, 500, 1200}),
    Many("mpegts", <<>>, 0, [i \in 1 .. 9 |-> IF i < 9 THEN {On(OK, 188)} ELSE {On(OK, 188), Shut([ok |-> FALSE], 0)}], {1503, 1504, 1692, 2500}),
    Many("mpegps", <<>>, 0, <<{On(pack, 14)}, {On([kind |-> "packet", size |-> 100], 100)}, {On(pack, 14)},
                              {Shut([kind |-> "end", size |-> 4], 4), On(pack, 14)}, {Shut([kind |-> "junk", size |-> 0], 0), Shut([kind |-> "end", size |-> 4], 4)}>>,
         {131, 132, 142, 145, 146, 300}),
    One("icc", [size |-> 132], 132), One("rf64", [size |-> 100], 108), One("e57", [size |-> 100], 100),
    Many("qoa", [samples |-> 6000], 8, <<{On(track, 30), Break([track EXCEPT !.ok = FALSE])}, {Shut([track EXCEPT !.ok = FALSE], 30), Break([track EXCEPT !.size = 4])}>>, {67, 68, 200}),
    Many("ivf", [frames |-> 2], 32, <<{On([size |-> 20], 32)}, {Shut([size |-> 20], 32)}>>, {95, 96, 300}),
    One("dsdiff", [size |-> 100], 112), One("dsf", [size |-> 100], 100), One("flic", [size |-> 200], 200),
    One("sun_raster", [map |-> 6, size |-> 50], 88),
    One("ape", [descriptor |-> 52, header |-> 24, frames |-> 100, tables |-> 30, tail |-> 8], 214),
    One("au", [off |-> 24, size |-> 100], 124), [One("au", [off |-> 24, size |-> -1], 124) EXCEPT !.file = Not],
    Many("wavpack", <<>>, 0, <<{On(wv, 48), Break([wv EXCEPT !.known = FALSE])}, {On([wv EXCEPT !.known = FALSE], 48), Shut([wv EXCEPT !.ok = FALSE], 0), Shut([wv EXCEPT !.size = 0], 0)}>>, {47, 48, 96, 500}),
    Many("voc", [header |-> 26], 26, <<{On([last |-> FALSE, size |-> 10], 14), Shut([last |-> TRUE, size |-> 0], 1)}, {On([last |-> FALSE, size |-> 0], 4), Shut([last |-> TRUE, size |-> 0], 1)}>>, {26, 27, 40, 41, 300}),
    Many("amr", <<>>, 6, <<{On([ok |-> TRUE, size |-> 13], 13)}, {On([ok |-> TRUE, size |-> 1], 1), Shut([ok |-> TRUE, size |-> 0], 0), Shut([ok |-> FALSE, size |-> 1], 0)}>>, {18, 19, 20, 40}),
    Many("mp4", <<>>, 0, <<{On([box EXCEPT !.ftyp = TRUE, !.size = 24], 24)},
                           {On(box, 100), On([box EXCEPT !.wide = TRUE], 100), Break([box EXCEPT !.size = 0]), Shut([box EXCEPT !.ok = FALSE], 0), Shut([box EXCEPT !.size = 7], 0)}>>,
         {24, 124, 130, 400}) }

TableCases ==
  LET ifd(parts, subs, next) == [count |-> 1, parts |-> parts, subs |-> subs, next |-> next]
      tiff == [big |-> FALSE, first |-> 8,
               ifds |-> (8 :> ifd({Part(100, 50)}, <<60>>, 26)) @@ (26 :> ifd({}, <<>>, 0)) @@ (60 :> ifd({Part(150, 30)}, <<>>, 0))]
      pe == [lfanew |-> 64, opt |-> 224, dir |-> 96, sections |-> 2, parts |-> {Part(512, 512), Part(0, 9000)}, cert |-> Part(1024, 100)]
      footer == [len |-> 5, window |-> 16, markers |-> {14, 40}, newlines |-> 1, trailing |-> 2]
  IN
  { One("Sqlite", [page |-> 4096, pages |-> 2], 8192), One("Sqlite", [page |-> 1, pages |-> 1], 65536),
    One("sfnt", [count |-> 2, parts |-> {Part(44, 10), Part(56, 6)}], 64),
    One("ttc", [count |-> 1, fonts |-> {20, 48}, parts |-> {Part(76, 20)}], 96),
    One("icocur", [count |-> 1, parts |-> {Part(22, 40)}], 62),
    Many("wasm", <<>>, 8, <<{On([ok |-> TRUE, leb |-> 1, size |-> 10], 12)}, {On([ok |-> TRUE, leb |-> 5, size |-> 4], 10), Shut([ok |-> FALSE, leb |-> 1, size |-> 1], 0), Shut([ok |-> TRUE, leb |-> 1, size |-> 0], 0), Shut([ok |-> TRUE, leb |-> 6, size |-> 4], 0)}>>, {19, 20, 30, 200}),
    Search("tiff", tiff, <<{Idle}>>, 180),
    \* Directories that name themselves and each other, and one that is not there.
    Search("tiff", [tiff EXCEPT !.ifds[26].next = 8, !.ifds[60].subs = <<60, 8, 4, 999>>], <<{Idle}>>, 180),
    Search("tiff", [big |-> TRUE, first |-> 16, ifds |-> (16 :> ifd({Part(60, 20)}, <<>>, 16))], <<{Idle}>>, 80),
    One("pe", pe, 1124), One("pe", [pe EXCEPT !.cert = Part(0, 100)], 1024), One("pe", [pe EXCEPT !.opt = 96], 1024),
    One("elf", [off |-> 1000, count |-> 10, entry |-> 64], 1640),
    Many("macho", [header |-> 28, cmds |-> 80, ncmds |-> 2], 108,
         <<{On([size |-> 40, parts |-> {Part(4096, 100)}], 4088)}, {On([size |-> 40, parts |-> {}], 0), Break([size |-> 0, parts |-> {}])}, {Shut([size |-> 0, parts |-> {}], 0)}>>, {4195, 4196, 5000}),
    One("eps", [ps |-> Part(30, 100), parts |-> {Part(30, 100), Part(130, 20), Part(900, 0)}], 150),
    One("pcf", [count |-> 1, parts |-> {Part(24, 100)}], 124), One("applesingle", [count |-> 1, parts |-> {Part(38, 10)}], 48),
    One("pak", [off |-> 100, size |-> 64], 164), One("wad", [off |-> 100, count |-> 2], 132) }
  \cup {Search("find_footer", [footer EXCEPT !.markers = {m, 60}, !.newlines = n], <<{Idle}>>, m + 5 + Min({n, 2})) : m \in 9 .. 36, n \in {0, 3}}

GraphicsCases ==
  LET tex == [width |-> 8, height |-> 8, block |-> 4, bytes |-> 8, mips |-> 2]
      pic == [width |-> 2, height |-> 2]
      y4m == [width |-> 3, height |-> 3, header |-> 20]
      line(n) == {On([kind |-> "FRAME", line |-> 6], n)}
      video(cs, n) == Many("y4m", y4m @@ [cs |-> cs], 20, <<line(n), line(n) \cup {Break([kind |-> "FRAME", line |-> 0]), Shut([kind |-> "junk", line |-> 0], 0)}>>, {20 + n - 1, 20 + n, 300})
      px(len, run, m) == [len |-> len, run |-> run, marker |-> m]
      attr == [kind |-> "attribute", names |-> 10, size |-> 8]
  IN
  { One("dds", tex, 168), One("dds", [tex EXCEPT !.mips = 0, !.width = 5], 160),
    One("astc", [block |-> <<4, 4, 1>>, pixels |-> <<8, 9, 1>>], 112),
    Many("glb", [size |-> 60], 12, <<{On([size |-> 20, json |-> TRUE], 28), Break([size |-> 20, json |-> FALSE])}, {On([size |-> 12, json |-> FALSE], 20), Break([size |-> 16, json |-> FALSE])}, {Shut([size |-> 0, json |-> FALSE], 0)}>>, {59, 60, 300}),
    Many("ktx1", [levels |-> 2, kv |-> 12], 76, <<{On([size |-> 10], 16)}, {Shut([size |-> 4], 8)}>>, {99, 100, 300}),
    Many("exr", [window |-> 64, first |-> 47, last |-> 60, size |-> 20], 8, <<{On(attr, 22)}, {Shut([attr EXCEPT !.kind = "end"], 58)}>>, {87, 88, 300}),
    One("bsp", [parts |-> {Part(1036, 100), Part(9000, 0)}], 1136),
    Many("qoi", pic, 14, <<{On(px(1, 3, FALSE), 1), On(px(1, 4, FALSE), 1)}, {On(px(4, 1, FALSE), 4)}, {Shut(px(1, 1, TRUE), 8)}>>, {26, 27, 100}),
    One("farbfeld", pic, 48), video("mono", 15), video("420", 23), video("422", 27), video("444", 33),
    One("pvr", tex @@ [meta |-> 15], 107), One("blp", [parts |-> {Part(148, 50), Part(0, 0)}], 198),
    One("vendorboot", [version |-> 3, page |-> 2048, header |-> 2112, sizes |-> <<3000, 100>>], 10240),
    One("bootimg", [version |-> 0, page |-> 2048, sizes |-> <<3000, 0, 100>>], 8192), One("bootimg", [version |-> 3, page |-> 1, sizes |-> <<3000, 5000>>], 16384),
    One("ktx2", [levels |-> 0, parts |-> {Part(104, 40)}], 144), One("nifti", [off |-> 352, voxels |-> 100, bytes |-> 2], 552),
    One("las", [minor |-> 2, header |-> 227, off |-> 300, record |-> 20, points |-> 5], 400), One("las", [minor |-> 4, header |-> 375, off |-> 375, record |-> 30, points |-> 2], 435),
    One("raf", [parts |-> {Part(148, 100), Part(108, 10)}], 248) }

VolumeCases ==
  LET v(n, size) == [blocks |-> n, block |-> size]
  IN
  { One("erofs", [bits |-> 12, blocks |-> 3], 12288), One("f2fs", [bits |-> 12, blocks |-> 3], 12288), One("exfat", [bits |-> 9, blocks |-> 30], 15360),
    One("btrfs", [blocks |-> 131072, devices |-> 1], 131072), One("xfs", v(10, 4096), 40960), One("apfs", v(10, 4096), 40960),
    One("refs", v(20, 512), 10240), One("ntfs", v(20, 512), 10240), One("swap", [blocks |-> 9], 40960), One("romfs", [size |-> 1024], 1024),
    One("cramfs", [size |-> 4096], 4096), One("jfs", v(20, 4096), 81920), One("ufs", v(20, 2048), 40960), One("befs", v(20, 1024), 20480),
    One("hfsplus", v(20, 4096), 81920), One("iso9660", v(20, 2048), 40960),
    One("reiserfs", [at |-> <<OK @@ v(20, 4096), [ok |-> FALSE] @@ v(20, 4096)>>], 81920),
    One("reiserfs", [at |-> <<[ok |-> FALSE] @@ v(0, 0), OK @@ v(10, 4096)>>], 40960) }

\* In the end one unit is read for ever: bytes read again stay the same.
Settled(c) ==
  IF Last(c.units) = {} THEN {c} ELSE {[c EXCEPT !.units = Append(@, {u})] : u \in Last(c.units)}
MCCases ==
  UNION {Settled(c) : c \in ArchiveCases \cup PackageCases \cup MediaCases \cup TableCases
                             \cup GraphicsCases \cup VolumeCases}
=============================================================================
