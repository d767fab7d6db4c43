---------------------------- MODULE LengthsTables ---------------------------
\* The length functions of src/src/carver.rs that follow offsets: fonts, icons,
\* TIFF directories, executables, directories of lumps; and the footer search.
EXTENDS FileLength

Sqlite(s, h) ==
  LET page == IF h.page = 1 THEN 65536 ELSE h.page
  IN  When(Reads(s, 0, 32) /\ page * h.pages # 0, Ends(s, page * h.pages))

\* A font's table directory at `dir` and what its tables reach; 0 for None.
\* h.parts: its tables.
sfnt_tables_end(s, h, dir) ==
  LET dir_end == dir + 12 + h.count * 16
      end     == Max({dir_end} \cup {Up(e, 4) : e \in EndOf(h.parts)})
  IN  IF /\ dir_end <= s.limit /\ end <= s.limit
         /\ h.count \in 1 .. 512 /\ h.ok /\ \A t \in h.parts : t.off >= dir_end
        THEN end ELSE 0
sfnt_length(s, h) ==
  LET end == sfnt_tables_end(s, h, 0) IN When(end > 0, Ends(s, end))
\* h.fonts: the offsets of its fonts, all read as one directory here.
ttc_length(s, h) ==
  LET offsets_end == 12 + Cardinality(h.fonts) * 4
      ends == {sfnt_tables_end(s, h, f) : f \in h.fonts}
  IN  When(/\ Reads(s, 0, 12) /\ Cardinality(h.fonts) \in 1 .. 1024 /\ offsets_end <= s.limit
           /\ \A f \in h.fonts : f >= offsets_end /\ f < s.limit
           /\ 0 \notin ends,
           Ends(s, Max({offsets_end} \cup ends)))

\* h.parts: the images; h.ok: every entry's small fields, and a bitmap or PNG header at its offset.
icocur_length(s, h) ==
  LET dir_end == 6 + h.count * 16
  IN  When(/\ Reads(s, 0, 6) /\ h.count \in 1 .. 1024 /\ h.ok /\ dir_end <= s.limit
           /\ \A i \in h.parts : i.size # 0 /\ i.off >= dir_end /\ i.off + 8 <= s.limit,
           Ends(s, FurthestEnd(dir_end, h.parts)))

wasm_length(s, h) == When(Reads(s, 0, 8) /\ h.ok, From(8))
wasm_leb(s, p, u) == u.leb <= 5 /\ p + u.leb <= s.limit
wasm_step(s, h, a, u) ==
  Follows(s, a, u.ok /\ wasm_leb(s, a.at + 1, u) /\ u.size # 0, a.at + 1 + u.leb + u.size, 1)

\* A TIFF is a graph of image file directories: h.ifds gives, at an offset,
\* the directory that reads there: its entry count, the data its entries hold
\* elsewhere, the directories its SubIFD, Exif and GPS entries name (subs, in
\* order) and the one its chain pointer names (next, 0 for none).
\* kept: the offsets to visit, those visited, and the furthest end.
tiff_layout(h) ==
  IF h.big THEN [count |-> 8, entry |-> 20, ptr |-> 8, header |-> 16]
  ELSE          [count |-> 2, entry |-> 12, ptr |-> 4, header |-> 8]
tiff_length(s, h) ==
  LET L == tiff_layout(h)
  IN  When(Reads(s, 0, 8) /\ h.ok /\ L.header <= s.limit,
           Keeping(0, [queue |-> <<h.first>>, visited |-> {}, end |-> L.header]))
tiff_close(s, h, a) ==
  When(a.n > 0 /\ a.kept.end > tiff_layout(h).header, Ends(s, a.kept.end))
\* strip_tile_end and the out-of-line fields: parts that may lie anywhere.
tiff_ends(s, h, ifd) ==
  LET L    == tiff_layout(h)
      d    == h.ifds[ifd]
      span == ifd + L.count + d.count * L.entry + L.ptr
  IN  EndOf(d.parts) \cup (IF span <= s.limit THEN {span} ELSE {})
tiff_visit(s, h, a, ifd, rest) ==
  LET L     == tiff_layout(h)
      d     == h.ifds[ifd]
      chain == ifd + L.count + d.count * L.entry
      more  == d.subs \o (IF d.next # 0 /\ chain + L.ptr <= s.limit THEN <<d.next>> ELSE <<>>)
  IN  [a EXCEPT !.n = @ + 1,
                !.kept = [queue   |-> rest \o more, visited |-> @.visited \cup {ifd},
                          end     |-> Max({@.end} \cup tiff_ends(s, h, ifd))]]
\* One pop of the queue.
tiff_step(s, h, a, u) ==
  LET L    == tiff_layout(h)
      ifd  == Last(a.kept.queue)
      rest == Front(a.kept.queue)
      skip == ifd < L.header \/ ifd \in a.kept.visited
  IN  IF a.kept.queue = <<>> THEN tiff_close(s, h, a)
      ELSE IF skip THEN [a EXCEPT !.kept.queue = rest]
      ELSE IF a.n >= MaxUnits \/ ifd \notin DOMAIN h.ifds \/ ifd + L.count > s.limit
        THEN [a EXCEPT !.kept.queue = rest, !.kept.visited = @ \cup {ifd}]
      ELSE tiff_visit(s, h, a, ifd, rest)

\* The certificate table is appended to the sections; dir is where the data
\* directories of this flavour of optional header begin.
pe_cert_end(h) ==
  IF h.opt >= h.dir + 40 /\ h.cert.off # 0 THEN {h.cert.off + h.cert.size} ELSE {}
pe_length(s, h) ==
  LET table == h.lfanew + 24 + h.opt
      raw   == {p \in h.parts : p.off # 0}
  IN  When(/\ Reads(s, 0, 64) /\ h.ok /\ h.lfanew >= 64 /\ h.lfanew + 24 <= s.limit
           /\ h.sections \in 1 .. 96,
           Ends(s, Max({FurthestEnd(table + h.sections * 40, raw)} \cup pe_cert_end(h))))

elf_length(s, h) ==
  When(Reads(s, 0, 52) /\ h.ok /\ h.off # 0 /\ h.count # 0 /\ h.entry # 0,
       Ends(s, h.off + h.count * h.entry))

\* u: the next load command and the parts it names.  kept: their furthest end;
\* positions count from the first command, all of which take h.cmds bytes.
macho_length(s, h) ==
  LET cmds_end == h.header + h.cmds
  IN  When(/\ Reads(s, 0, h.header) /\ h.ok /\ h.ncmds # 0 /\ h.cmds # 0
           /\ cmds_end <= s.limit /\ Reads(s, h.header, h.cmds),
           Keeping(0, cmds_end))
macho_step(s, h, a, u) ==
  IF a.n = h.ncmds \/ a.at + 8 > h.cmds THEN Ends(s, a.kept)
  ELSE When(u.size >= 8 /\ u.size % 4 = 0 /\ a.at + u.size <= h.cmds,
            [Moves(a, a.at + u.size) EXCEPT !.kept = FurthestEnd(@, u.parts)])

\* h.parts: the PostScript, WMF and TIFF sections; h.ps: the first of them.
eps_length(s, h) ==
  LET end == FurthestEnd(0, {p \in h.parts : p.off # 0 /\ p.size # 0})
  IN  When(Reads(s, 0, 28) /\ h.ps.off >= 30 /\ h.ps.size # 0 /\ end >= 30, Ends(s, end))

\* A directory of h.count rows of `row` bytes after `base`, and what its rows reach.
Directory(s, h, base, row, most, after) ==
  LET toc_end == base + h.count * row
  IN  When(/\ Reads(s, 0, base) /\ h.ok /\ h.count \in 1 .. most /\ toc_end <= s.limit
           /\ after => \A p \in h.parts : p.off >= toc_end,
           Ends(s, FurthestEnd(toc_end, h.parts)))
pcf_length(s, h)         == Directory(s, h, 8, 16, 64, TRUE)
applesingle_length(s, h) == Directory(s, h, 26, 12, 256, FALSE)

pak_length(s, h) ==
  When(Reads(s, 0, 12) /\ h.ok /\ h.off >= 12 /\ h.size # 0 /\ h.size % 64 = 0, Ends(s, h.off + h.size))
wad_length(s, h) == When(Reads(s, 0, 12) /\ h.ok /\ h.count >= 0 /\ h.off >= 12, Ends(s, h.off + h.count * 16))

\* The first marker that lies whole in a window of h.window bytes and an
\* overlap, read from a.at.  h.markers: where the marker's bytes are;
\* h.newlines: the line ends after one, of which h.trailing are taken.
find_footer(s, h) == From(0)
find_footer_step(s, h, a, u) ==
  LET overlap == h.len - 1
      n       == Min({s.limit - a.at, h.window + overlap})
      seen    == {m \in h.markers : m >= a.at /\ m + h.len <= a.at + n}
      end     == Min(seen) + h.len
  IN  IF a.at >= s.limit THEN Refused
      ELSE IF seen # {} THEN Ends(s, Min({end + Min({h.newlines, h.trailing}), s.limit}))
      ELSE When(a.at + n < s.limit, Moves(a, a.at + n - overlap))
=============================================================================
