---------------------------- MODULE ClusterWalk ----------------------------
(* FreeWalk of src/src/recover.rs, the walk over the clusters a deleted     *)
(* FAT or exFAT file can occupy: free ones, upwards from its start cluster, *)
(* wrapping once to cluster 2 and then stopping below the start.  Clusters  *)
(* are numbered 2..max; NoCluster stands for the end of the walk.           *)
EXTENDS Naturals, FiniteSetsExt

NoCluster == 0

\* The next candidate after `after`, with the walk's wrapped flag as it is
\* left.  `free` is the set of clusters is_free answers true for.
NextAfter_noStop(start, max, free, wrapped, after, canWrap) ==
    LET ahead == {c \in free : c > after /\ c <= max}
        again == {c \in free : c >= 2 /\ c <= max}
    IN  IF ahead # {} THEN [cluster |-> Min(ahead), wrapped |-> wrapped]
        ELSE IF ~canWrap THEN [cluster |-> NoCluster, wrapped |-> wrapped]
        ELSE IF again # {} THEN [cluster |-> Min(again), wrapped |-> TRUE]
        ELSE [cluster |-> NoCluster, wrapped |-> TRUE]

NextAfter(start, max, free, wrapped, after, canWrap) ==
    LET stop  == IF wrapped THEN start ELSE max + 1
        ahead == {c \in free : c > after /\ c < stop}
        below == {c \in free : c >= 2 /\ c < start}
    IN  IF ahead # {} THEN [cluster |-> Min(ahead), wrapped |-> wrapped]
        ELSE IF wrapped \/ ~canWrap
               THEN [cluster |-> NoCluster, wrapped |-> wrapped]
        ELSE IF below # {} THEN [cluster |-> Min(below), wrapped |-> TRUE]
        ELSE [cluster |-> NoCluster, wrapped |-> TRUE]
=============================================================================
