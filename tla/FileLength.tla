----------------------------- MODULE FileLength -----------------------------
(***************************************************************************)
(* What every length function of src/src/carver.rs works with.             *)
(*                                                                         *)
(* A candidate file begins at offset 0.  s.limit is how far it may reach   *)
(* (file_start + max_size, or the end of the scan), s.held how many bytes  *)
(* the source has from there (s.limit <= s.held).  The bytes themselves    *)
(* are a header record h, with the numbers it holds and `ok` for the fixed *)
(* bytes and plausibility fields, and, for a format that is walked, one    *)
(* unit record u per step: what is read at the position reached.           *)
(*                                                                         *)
(* A walk is [st, at, n, kept]: on, refused (None) or ended (Some(at)); at *)
(* is the position reached, n the units passed, kept one number a format   *)
(* carries along.                                                          *)
(***************************************************************************)
EXTENDS Integers, FiniteSets, FiniteSetsExt, Sequences, SequencesExt

CONSTANT MaxUnits   \* stands for the caps MAX_BLOCKS, MAX_TRACKS, ... of the walks
\* Above every least number of units a walk asks for.
ASSUME MaxUnitsAssumption == MaxUnits \in Nat /\ MaxUnits > 8

Refused == [st |-> "none", at |-> 0, n |-> 0, kept |-> 0]
From(p) == [st |-> "on", at |-> p, n |-> 0, kept |-> 0]
Keeping(p, k) == [From(p) EXCEPT !.kept = k]

\* read_at fills a buffer of n bytes at p.
Reads(s, p, n) == p + n <= s.held

\* Some(p), when the file then ends within the limit.
Ends_absolute(s, p) == IF p <= s.start + s.limit THEN [From(p) EXCEPT !.st = "end"] ELSE Refused
Ends_held(s, p) == IF p <= s.held THEN [From(p) EXCEPT !.st = "end"] ELSE Refused
Ends(s, p) == IF p <= s.limit THEN [From(p) EXCEPT !.st = "end"] ELSE Refused
When(ok, a) == IF ok THEN a ELSE Refused

\* Units are counted up to one more than the cap.
Moves(a, p) == [a EXCEPT !.at = p, !.n = Min({@ + 1, MaxUnits + 1})]
\* A walk that keeps what it has passed: after `least` units the file ends at p.
Keeps(s, a, p, least) == When(a.n >= least, Ends(s, p))

\* A walk that needs its end marker: a unit must be sound and lie within the limit.
Must(s, a, ok, next) == When(ok /\ next <= s.limit /\ a.n < MaxUnits, Moves(a, next))
\* A walk that ends where the units do.
Follows(s, a, ok, next, least) ==
  IF ok /\ next <= s.limit /\ a.n < MaxUnits THEN Moves(a, next) ELSE Keeps(s, a, a.at, least)

\* The same for a walk with no cap.
FollowsOn(s, a, ok, next, least) ==
  IF ok /\ next <= s.limit THEN Moves(a, next) ELSE Keeps(s, a, a.at, least)

\* The furthest end of a set of parts [off, size].
EndOf(parts) == {p.off + p.size : p \in parts}
FurthestEnd(base, parts) == Max({base} \cup EndOf(parts))
Up(n, to) == ((n + to - 1) \div to) * to      \* rounded up to a multiple
CeilDiv(n, by) == (n + by - 1) \div by
=============================================================================
