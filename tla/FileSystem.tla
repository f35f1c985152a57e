----------------------------- MODULE FileSystem -----------------------------
(***************************************************************************)
(* What the engine promises to one caller: a map from paths to contents.   *)
(*                                                                         *)
(* A call that succeeds sets one file, or removes it.  A call that fails   *)
(* leaves its file in doubt: it has the old content, the new one, or, if   *)
(* the write was cut off, none of either, and until the engine has settled *)
(* it may turn into any of these, but into nothing else.  A file no call   *)
(* names keeps its content.  Renames are made of the steps of their files; *)
(* a rename sets a path to a content another path has at that moment, and  *)
(* removes a path.                                                         *)
(***************************************************************************)
CONSTANTS
    Path,       \* names of files
    Data,       \* contents
    Empty,      \* what a write that was cut off leaves
    None        \* the file is not there

VARIABLES
    files,      \* what a reader finds at each path
    doubt       \* what a file in doubt may turn into

Value == Data \cup {None}

FSTypeOK ==
    /\ files \in [Path -> Value]
    /\ doubt \in [Path -> SUBSET Value]

FSInit == files \in [Path -> Value] /\ doubt = [p \in Path |-> {}]

(* A call finds out, or decides, what a file in doubt is, or leaves p be.  *)
Settles(p) ==
    /\ files'[p] \in doubt[p] \cup {files[p]}
    /\ doubt'[p] \subseteq doubt[p]

(* A write of v to p, or, if v is None, a delete of p: that succeeds,      *)
Sets(p, v) == files'[p] = v /\ doubt'[p] = {}

(* and that fails.                                                         *)
Fails(p, v) ==
    LET torn == IF v = None THEN {} ELSE {Empty}
        possible == doubt[p] \cup {files[p], v} \cup torn IN
    files'[p] \in possible /\ doubt'[p] \subseteq possible

(* A call that names p with a new content, and a call that only looks.     *)
FSWrites(p, v) ==
    /\ \A q \in Path \ {p} : Settles(q)
    /\ Sets(p, v) \/ Fails(p, v)

FSReads == \A q \in Path : Settles(q)

FSNext ==
    /\ files' \in [Path -> Value]
    /\ doubt' \in [Path -> SUBSET Value]
    /\ FSReads \/ \E p \in Path : \E v \in Value : FSWrites(p, v)

FSSpec == FSInit /\ [][FSNext]_<<files, doubt>>
=============================================================================
