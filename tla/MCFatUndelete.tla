---------------------------- MODULE MCFatUndelete ----------------------------
(* FatUndelete on volumes of a handful of clusters. *)
EXTENDS FatUndelete

BlocksOf == [x \in Files |-> CASE x = "a" -> 1 [] x = "b" -> 2 [] x = "j" -> 2 [] OTHER -> 0]
ExtOf    == [x \in Files |-> IF x = "j" THEN "jpg" ELSE "txt"]
Commands == {Files}
=============================================================================
