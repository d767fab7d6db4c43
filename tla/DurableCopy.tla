----------------------------- MODULE DurableCopy -----------------------------
(***************************************************************************)
(* What a resumable copier promises, with no word on chunks, sectors,      *)
(* retry passes, cancels or kills: a durable record claims some cells of   *)
(* the source as safely copied, and it only ever claims cells the copy     *)
(* holds.  src/src/image.rs implements it (see ImageCopy): the record is   *)
(* the map file, the copy is the image file.                               *)
(***************************************************************************)
CONSTANT Wanted      \* the cells to copy that the source can deliver

VARIABLES held,      \* cells the copy holds
          claimed    \* cells the durable record claims

vars == <<held, claimed>>

Init == held \subseteq Wanted /\ claimed = {}

\* The copier works: what it holds, it keeps.
Copy ==
  /\ held \subseteq held' /\ held' \subseteq Wanted
  /\ claimed' = claimed

\* It records progress: claims are added, never withdrawn.
Record ==
  /\ held' = held
  /\ claimed \subseteq claimed' /\ claimed' \subseteq held

\* The user starts over, with no claim left.
StartOver ==
  /\ claimed' = {} /\ claimed = {}
  /\ held' \subseteq Wanted

\* The record or part of the copy is taken away from outside; a claim the copy
\* no longer backs is void.
Lose ==
  /\ held' \subseteq held
  /\ claimed' \subseteq claimed \cap held'

Next == Copy \/ Record \/ StartOver \/ Lose

Spec == Init /\ [][Next]_vars

\* The promise: a resume that skips the claimed cells skips nothing it lacks.
ClaimsHeld == claimed \subseteq held
=============================================================================
