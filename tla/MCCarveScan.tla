---------------------------- MODULE MCCarveScan ----------------------------
(***************************************************************************)
(* A small disk for CarveReference: with ScanChunk 4 and Overlap 3 the     *)
(* chunks scan offsets 0-3, 4-7 and 8-11.                                  *)
(***************************************************************************)
EXTENDS CarveReference, TLC

Candidate(magic, off, reach, len, ext) ==
  [at |-> magic, off |-> off, reach |-> reach, len |-> len, ext |-> ext, volume |-> FALSE,
   validity |-> "valid", capped |-> FALSE, digest |-> ext]

DiskWith(second) ==
  { Candidate(0, 1, 1, 2, "tar"),            \* its file would start before the disk
    Candidate(2, 1, 2, 5, second),           \* runs into the second chunk
    [Candidate(5, 0, 1, 1, "png") EXCEPT !.digest = "thumbnail"],   \* nested in it
    [Candidate(6, 0, 2, 5, "iso") EXCEPT     \* a filesystem image; magic across 6|7
       !.volume = TRUE, !.validity = "unknown"],
    [Candidate(7, 0, 1, 1, "gif") EXCEPT     \* the content of the second file again
       !.digest = second, !.capped = TRUE],
    [Candidate(8, 0, 1, 1, "png") EXCEPT !.validity = "invalid"],
    Candidate(10, 0, 1, 2, "mp3") }          \* cut short by the end of the source

Disk == DiskWith("jpg")
\* A zip that classify_zip names docx: no signature of the table has that name.
DiskWithOffice == DiskWith("docx")
Table == {"tar", "jpg", "png", "iso", "gif", "mp3", "zip"}
=============================================================================
