----------------------------- MODULE OutputTree -----------------------------
(***************************************************************************)
(* The one way recovered bytes get a file: create_output_file of           *)
(* src/src/recover.rs, step by step, in a directory other programs use.    *)
(*                                                                         *)
(* A path is a sequence of names from the output directory down; a name is *)
(* [stem, at, no, ext], its number 0 until the path is found taken.  A     *)
(* node is a directory, a file and what it holds, or a symbolic link that  *)
(* leads out of the tree to nothing.  Other programs only add: they do not *)
(* swap a directory this run has looked at for a link.                     *)
(***************************************************************************)
EXTENDS Integers, Sequences, SequencesExt, FiniteSets

CONSTANT MaxPlants        \* bound: what other programs put into the tree
ASSUME PlantAssumption == MaxPlants \in Nat

VARIABLES
  tree,     \* path -> node
  cur,      \* the file being made
  others,   \* path -> node this run did not make: a history
  made      \* the files this run made and kept, with what it wrote: a history
treeVars == <<tree, cur, others, made>>

Name(stem, at, ext) == [stem |-> stem, at |-> at, no |-> 0, ext |-> ext]
Folder(stem) == Name(stem, 0, "")
Node(kind, holds) == [kind |-> kind, holds |-> holds]
Directory == Node("dir", "")
Occupied(t, path) == path \in DOMAIN t
With(t, path, node) == [p \in DOMAIN t \cup {path} |-> IF p = path THEN node ELSE t[p]]
Without(t, paths) == [p \in DOMAIN t \ paths |-> t[p]]

\* file_stem and extension: the number goes between them.
Numbered(path, n) == [path EXCEPT ![Len(path)].no = n]
UniquePath(t, path) ==
  LET Free(n) == ~Occupied(t, Numbered(path, n)) IN
    Numbered(path, CHOOSE n \in 0 .. Cardinality(DOMAIN t) :
                     Free(n) /\ \A k \in 0 .. n - 1 : ~Free(k))

NoFile == [step |-> "none", out |-> <<>>, rel |-> <<>>, depth |-> 0, tries |-> 0, content |-> "",
           file |-> <<>>]
\* create_dir_all of the directory the user chose, links and all.
MakeOut(t, out) ==
  LET missing == { p \in Prefixes(out) : p \notin DOMAIN t } IN
    [p \in DOMAIN t \cup missing |-> IF p \in missing THEN Directory ELSE t[p]]
BeginFile(out, rel, content) ==
  /\ tree' = MakeOut(tree, out)
  /\ cur' = [step |-> "look", out |-> out, rel |-> rel, depth |-> 1, tries |-> 0,
             content |-> content, file |-> <<>>]

Parent == cur.out \o SubSeq(cur.rel, 1, cur.depth)
Deeper == [cur EXCEPT !.depth = @ + 1, !.tries = 0]
Failed == [cur EXCEPT !.step = "failed"]
\* A link among the parents is refused, never followed; so is a file.
LookAtParent ==
  /\ cur.step = "look" /\ cur.depth < Len(cur.rel)
  /\ cur' = CASE ~Occupied(tree, Parent) -> [cur EXCEPT !.step = "mkdir"]
              [] Occupied(tree, Parent) /\ tree[Parent].kind = "dir" -> Deeper
              [] OTHER -> Failed
  /\ UNCHANGED <<tree, others, made>>
\* It may have appeared since: the second look decides.
MakeParent ==
  /\ cur.step = "mkdir"
  /\ IF Occupied(tree, Parent)
     THEN /\ cur' = IF cur.tries = 0 THEN [cur EXCEPT !.step = "look", !.tries = 1] ELSE Failed
          /\ UNCHANGED tree
     ELSE /\ tree' = With(tree, Parent, Directory)
          /\ cur' = [Deeper EXCEPT !.step = "look"]
  /\ UNCHANGED <<others, made>>
ParentsStand == cur.step = "look" /\ cur.depth = Len(cur.rel)
CreateNew_at(n) ==
  LET path == cur.out \o Numbered(cur.rel, n) IN
    /\ tree' = With(tree, path, Node("file", ""))
    /\ cur' = [cur EXCEPT !.step = "write", !.file = path]
    /\ UNCHANGED <<others, made>>
\* The file is opened as the path says, and cut when it is there.
CreateNew_truncate == ParentsStand /\ CreateNew_at(0)
\* Atomic with the test for a free name: every taken one gives the next.
CreateNew ==
  /\ ParentsStand
  /\ LET path == UniquePath(tree, cur.out \o cur.rel) IN CreateNew_at(path[Len(path)].no)

\* The bytes are written, or the disk is full and what there was room for stays.
WriteFile ==
  /\ cur.step = "write"
  /\ tree' = [tree EXCEPT ![cur.file].holds = cur.content]
  /\ cur' = [cur EXCEPT !.step = "written"]
  /\ UNCHANGED <<others, made>>
WriteFails ==
  /\ cur.step = "write"
  /\ cur' = Failed
  /\ UNCHANGED <<tree, others, made>>

\* Another program makes a file, a directory or a link where nothing is.
Plant(path, kind) ==
  /\ Cardinality({ p \in DOMAIN others : others[p].holds = "theirs" }) < MaxPlants
  /\ ~Occupied(tree, path) /\ Occupied(tree, Front(path)) /\ tree[Front(path)].kind = "dir"
  /\ tree' = With(tree, path, Node(kind, "theirs"))
  /\ others' = With(others, path, Node(kind, "theirs"))
  /\ UNCHANGED <<cur, made>>
=============================================================================
