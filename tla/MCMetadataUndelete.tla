------------------------- MODULE MCMetadataUndelete -------------------------
(* MetadataUndelete on volumes of a few blocks and records. *)
EXTENDS MetadataUndelete

SizeOf  == [x \in Files |-> CASE x = "a" -> 1 [] x = "b" -> 3 [] OTHER -> 2]
HolesOf == [x \in Files |-> IF x = "b" THEN {2} ELSE {}]
Commands == {Files, {"b"}}
=============================================================================
