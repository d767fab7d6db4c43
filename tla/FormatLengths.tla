---------------------------- MODULE FormatLengths ----------------------------
(***************************************************************************)
(* file_length of src/src/carver.rs: the length of a candidate file, by    *)
(* the rule of its type.  One case is one file's header and the units that *)
(* may follow it.  The same bytes are measured at once in several sources: *)
(* whole or cut short, near the start of the device or far from it.        *)
(*                                                                         *)
(* `file` is the truth the lengths are held against: how many bytes of a   *)
(* file of this type there are so far, as its format defines them, and     *)
(* whether it is open, closed (whole) or broken (no file of this type).    *)
(***************************************************************************)
EXTENDS LengthsArchive, LengthsMedia, LengthsTables, LengthsGraphics, LengthsVolumes

CONSTANT Cases   \* [fmt, h, units, sources, file]

VARIABLES case, walk, file, step
vars == <<case, walk, file, step>>

Measure(fmt, s, h) ==
  CASE fmt = "zip" -> zip_length(s, h) [] fmt = "rar" -> rar_length(s, h)
    [] fmt = "zstd" -> zstd_length(s, h) [] fmt = "lz4" -> lz4_length(s, h)
    [] fmt = "wim" -> wim_length(s, h) [] fmt = "evtx" -> evtx_length(s, h)
    [] fmt = "pcap" -> pcap_length(s, h) [] fmt = "pcapng" -> pcapng_length(s, h)
    [] fmt = "regf" -> regf_length(s, h) [] fmt = "pdb" -> pdb_length(s, h)
    [] fmt = "dex" -> dex_length(s, h) [] fmt = "ar" -> ar_length(s, h)
    [] fmt = "tar" -> tar_length(s, h) [] fmt = "cpio" -> cpio_length(s, h)
    [] fmt = "squashfs" -> squashfs_length(s, h) [] fmt = "mcap" -> mcap_length(s, h)
    [] fmt = "rpm" -> rpm_length(s, h) [] fmt = "grib2" -> grib2_length(s, h)
    [] fmt = "HeaderSize" -> HeaderSize(s, h) [] fmt = "ChunkSize" -> ChunkSize(s, h)
    [] fmt = "Fixed" -> Fixed(s, h) [] fmt = "sizefield" -> sizefield_length(s, h)
    [] fmt = "SevenZip" -> SevenZip(s, h) [] fmt = "hdf5" -> hdf5_length(s, h)
    [] fmt = "avro" -> avro_length(s, h) [] fmt = "usdc" -> usdc_length(s, h)
    [] fmt = "godot_pck" -> godot_pck_length(s, h) [] fmt = "vpk" -> vpk_length(s, h)
    [] fmt = "unityfs" -> unityfs_length(s, h) [] fmt = "journal" -> journal_length(s, h)
    [] fmt = "npy" -> npy_length(s, h) [] fmt = "gguf" -> gguf_length(s, h)
    [] fmt = "zim" -> zim_length(s, h) [] fmt = "md2" -> md2_length(s, h)
    [] fmt = "pst" -> pst_length(s, h) [] fmt = "uimage" -> uimage_length(s, h)
    [] fmt = "shp" -> shp_length(s, h) [] fmt = "psxexe" -> psxexe_length(s, h)
    [] fmt = "genesis" -> genesis_length(s, h) [] fmt = "gameboy" -> gameboy_length(s, h)
    [] fmt = "nes" -> nes_length(s, h) [] fmt = "blend" -> blend_length(s, h)
    [] fmt = "cfbf" -> cfbf_length(s, h) [] fmt = "android_sparse" -> android_sparse_length(s, h)
    [] fmt = "swf" -> swf_length(s, h) [] fmt = "gif" -> gif_length(s, h)
    [] fmt = "jpeg" -> jpeg_length(s, h) [] fmt = "flv" -> flv_length(s, h)
    [] fmt = "rtf" -> rtf_length(s, h) [] fmt = "mp3" -> mp3_length(s, h)
    [] fmt = "mp3_raw" -> mp3_raw_length(s, h) [] fmt = "djvu" -> djvu_length(s, h)
    [] fmt = "wmf" -> wmf_length(s, h) [] fmt = "psd" -> psd_length(s, h)
    [] fmt = "midi" -> midi_length(s, h) [] fmt = "asf" -> asf_length(s, h)
    [] fmt = "ogg" -> ogg_length(s, h) [] fmt = "ebml" -> ebml_length(s, h)
    [] fmt = "aac" -> aac_length(s, h) [] fmt = "mpegts" -> mpegts_length(s, h)
    [] fmt = "mpegps" -> mpegps_length(s, h) [] fmt = "icc" -> icc_length(s, h)
    [] fmt = "rf64" -> rf64_length(s, h) [] fmt = "e57" -> e57_length(s, h)
    [] fmt = "qoa" -> qoa_length(s, h) [] fmt = "ivf" -> ivf_length(s, h)
    [] fmt = "dsdiff" -> dsdiff_length(s, h) [] fmt = "dsf" -> dsf_length(s, h)
    [] fmt = "flic" -> flic_length(s, h) [] fmt = "sun_raster" -> sun_raster_length(s, h)
    [] fmt = "ape" -> ape_length(s, h) [] fmt = "au" -> au_length(s, h)
    [] fmt = "wavpack" -> wavpack_length(s, h) [] fmt = "voc" -> voc_length(s, h)
    [] fmt = "amr" -> amr_length(s, h) [] fmt = "mp4" -> mp4_length(s, h)
    [] fmt = "Sqlite" -> Sqlite(s, h) [] fmt = "sfnt" -> sfnt_length(s, h)
    [] fmt = "ttc" -> ttc_length(s, h) [] fmt = "icocur" -> icocur_length(s, h)
    [] fmt = "wasm" -> wasm_length(s, h) [] fmt = "tiff" -> tiff_length(s, h)
    [] fmt = "pe" -> pe_length(s, h) [] fmt = "elf" -> elf_length(s, h)
    [] fmt = "macho" -> macho_length(s, h) [] fmt = "eps" -> eps_length(s, h)
    [] fmt = "pcf" -> pcf_length(s, h) [] fmt = "applesingle" -> applesingle_length(s, h)
    [] fmt = "pak" -> pak_length(s, h) [] fmt = "wad" -> wad_length(s, h)
    [] fmt = "find_footer" -> find_footer(s, h) [] fmt = "dds" -> dds_length(s, h)
    [] fmt = "astc" -> astc_length(s, h) [] fmt = "glb" -> glb_length(s, h)
    [] fmt = "ktx1" -> ktx1_length(s, h) [] fmt = "exr" -> exr_length(s, h)
    [] fmt = "bsp" -> bsp_length(s, h) [] fmt = "qoi" -> qoi_length(s, h)
    [] fmt = "farbfeld" -> farbfeld_length(s, h) [] fmt = "y4m" -> y4m_length(s, h)
    [] fmt = "pvr" -> pvr_length(s, h) [] fmt = "blp" -> blp_length(s, h)
    [] fmt = "vendorboot" -> vendorboot_length(s, h) [] fmt = "bootimg" -> bootimg_length(s, h)
    [] fmt = "ktx2" -> ktx2_length(s, h) [] fmt = "nifti" -> nifti_length(s, h)
    [] fmt = "las" -> las_length(s, h) [] fmt = "raf" -> raf_length(s, h)
    [] fmt = "erofs" -> erofs_length(s, h) [] fmt = "f2fs" -> f2fs_length(s, h)
    [] fmt = "btrfs" -> btrfs_length(s, h) [] fmt = "xfs" -> xfs_length(s, h)
    [] fmt = "exfat" -> exfat_length(s, h) [] fmt = "apfs" -> apfs_length(s, h)
    [] fmt = "refs" -> refs_length(s, h) [] fmt = "ntfs" -> ntfs_length(s, h)
    [] fmt = "swap" -> swap_length(s, h) [] fmt = "romfs" -> romfs_length(s, h)
    [] fmt = "cramfs" -> cramfs_length(s, h) [] fmt = "jfs" -> jfs_length(s, h)
    [] fmt = "ufs" -> ufs_length(s, h) [] fmt = "befs" -> befs_length(s, h)
    [] fmt = "hfsplus" -> hfsplus_length(s, h) [] fmt = "reiserfs" -> reiserfs_length(s, h)
    [] fmt = "iso9660" -> iso9660_length(s, h)

Walk(fmt, s, h, a, u) ==
  CASE fmt = "zip" -> zip_step(s, h, a, u) [] fmt = "rar" -> rar_step(s, h, a, u)
    [] fmt = "zstd" -> zstd_step(s, h, a, u) [] fmt = "lz4" -> lz4_step(s, h, a, u)
    [] fmt = "pcap" -> pcap_step(s, h, a, u) [] fmt = "pcapng" -> pcapng_step(s, h, a, u)
    [] fmt = "ar" -> ar_step(s, h, a, u) [] fmt = "tar" -> tar_step(s, h, a, u)
    [] fmt = "cpio" -> cpio_step(s, h, a, u) [] fmt = "mcap" -> mcap_step(s, h, a, u)
    [] fmt = "grib2" -> grib2_step(s, h, a, u) [] fmt = "avro" -> avro_step(s, h, a, u)
    [] fmt = "godot_pck" -> godot_pck_step(s, h, a, u) [] fmt = "gguf" -> gguf_step(s, h, a, u)
    [] fmt = "blend" -> blend_step(s, h, a, u) [] fmt = "cfbf" -> cfbf_step(s, h, a, u)
    [] fmt = "android_sparse" -> android_sparse_step(s, h, a, u) [] fmt = "gif" -> gif_step(s, h, a, u)
    [] fmt = "jpeg" -> jpeg_step(s, h, a, u) [] fmt = "flv" -> flv_step(s, h, a, u)
    [] fmt = "rtf" -> rtf_step(s, h, a, u) [] fmt = "mp3" -> mp3_step(s, h, a, u)
    [] fmt = "mp3_raw" -> mp3_raw_step(s, h, a, u) [] fmt = "psd" -> psd_step(s, h, a, u)
    [] fmt = "midi" -> midi_step(s, h, a, u) [] fmt = "asf" -> asf_step(s, h, a, u)
    [] fmt = "ogg" -> ogg_step(s, h, a, u) [] fmt = "ebml" -> ebml_step(s, h, a, u)
    [] fmt = "aac" -> aac_step(s, h, a, u) [] fmt = "mpegts" -> mpegts_step(s, h, a, u)
    [] fmt = "mpegps" -> mpegps_step(s, h, a, u) [] fmt = "qoa" -> qoa_step(s, h, a, u)
    [] fmt = "ivf" -> ivf_step(s, h, a, u) [] fmt = "wavpack" -> wavpack_step(s, h, a, u)
    [] fmt = "voc" -> voc_step(s, h, a, u) [] fmt = "amr" -> amr_step(s, h, a, u)
    [] fmt = "mp4" -> mp4_step(s, h, a, u) [] fmt = "wasm" -> wasm_step(s, h, a, u)
    [] fmt = "tiff" -> tiff_step(s, h, a, u) [] fmt = "macho" -> macho_step(s, h, a, u)
    [] fmt = "find_footer" -> find_footer_step(s, h, a, u) [] fmt = "glb" -> glb_step(s, h, a, u)
    [] fmt = "ktx1" -> ktx1_step(s, h, a, u) [] fmt = "exr" -> exr_step(s, h, a, u)
    [] fmt = "qoi" -> qoi_step(s, h, a, u) [] fmt = "y4m" -> y4m_step(s, h, a, u)

NoCase == [fmt |-> "none", sources |-> {}]
Init == case = NoCase /\ walk = <<>> /\ file = [bytes |-> 0, st |-> "open"] /\ step = 0

Open == \E s \in DOMAIN walk : walk[s].st = "on"

\* The header is read.
Begin(c) ==
  /\ case = NoCase
  /\ case' = c /\ file' = c.file /\ step' = 0
  /\ walk' = [s \in c.sources |-> Measure(c.fmt, s, c.h)]

\* One more unit is read where the walks are.  A file that goes on past the
\* cap of the walks is not claimed whole.
Laid(f, u) ==
  IF f.st # "open" THEN f
  ELSE [bytes |-> f.bytes + u.bytes,
        st    |-> IF step >= MaxUnits THEN "broken" ELSE u.leaves]
UnitsNow == case.units[Min({step + 1, Len(case.units)})]
Read(u) ==
  /\ Open /\ u \in UnitsNow
  /\ walk' = [s \in DOMAIN walk |->
               IF walk[s].st = "on" THEN Walk(case.fmt, s, case.h, walk[s], u) ELSE walk[s]]
  /\ file' = Laid(file, u)
  /\ step' = IF step > MaxUnits THEN step ELSE step + 1
  /\ UNCHANGED case

ReadNext == Open /\ \E u \in UnitsNow : Read(u)
Next == (\E c \in Cases : Begin(c)) \/ ReadNext
Spec == Init /\ [][Next]_vars /\ WF_vars(ReadNext)

(* ------------------------------ Properties ----------------------------- *)

Found(s) == walk[s].st = "end"

\* A whole file that lies within the limit, wherever it is and whatever
\* follows it, is found with its own length: no unit is left off, none of
\* what follows is taken in, no padding or trailer is miscounted.
WholeFileFound ==
  file.st = "closed" =>
    \A s \in DOMAIN walk :
      (file.bytes <= s.limit /\ walk[s].st # "on") => Found(s) /\ walk[s].at = file.bytes

\* Cutting the source short never makes a file longer, and a length never
\* reaches past the limit or is empty.
CutFileNotLonger ==
  \A s, t \in DOMAIN walk :
    Found(s) => /\ walk[s].at \in 1 .. s.limit
                /\ (s.limit <= t.limit /\ s.held <= t.held /\ Found(t)) => walk[s].at <= walk[t].at

\* The length does not depend on where the file begins, though the functions
\* mix positions counted from the file's start and from the device's.
PlaceIndependent ==
  \A s, t \in DOMAIN walk :
    (s.limit = t.limit /\ s.held = t.held /\ Found(s) /\ walk[t].st # "on") => walk[s] = walk[t]

\* Every walk comes to an end whatever it reads: units of no size, chains of
\* directories that loop, files that never close.
WalksEnd == <>[](~Open)
=============================================================================
