----------------------------- MODULE MountProofs -----------------------------
(***************************************************************************)
(* Theorems about Mount, for every value of its constants: the type        *)
(* invariant, that a mount implements the file system of FileSystem, and   *)
(* that a file which is created and then appended to reads as what was     *)
(* appended.                                                               *)
(*                                                                         *)
(* The last one needs to know that an append to such a file cannot be      *)
(* refused: its object is there (FollowedOK), so, in a tree, no directory  *)
(* has its name and no file the name of one of its parents (TreeOK); and   *)
(* that a rename under way does not write or remove it (FollowedOK again). *)
(***************************************************************************)
EXTENDS Mount, NamespaceProofs, SequenceTheorems

TreeOK ==
    tree =>
        /\ \A p \in folders : store[p] = None
        /\ \A p \in Path : store[p] # None => \A q \in Path : p \in Below[q] => q \in folders

Touched(from, to) == {from, to} \cup Below[from] \cup Below[to]

FollowedOK ==
    handle # NoHandle =>
        /\ store[handle.path] # None
        /\ InDoubt(handle.path) = {}
        /\ Visible(handle.path) = handle.written
        /\ moving # Idle => handle.path \notin Touched(moving.from, moving.to)

MountInv ==
    /\ IInv
    /\ handle \in Handle \cup {NoHandle}
    /\ TreeOK
    /\ FollowedOK

-----------------------------------------------------------------------------
(* Contents.                                                               *)

LEMMA DataFacts ==
    /\ \A d \in Data : d \in Seq(Block \cup {Zero}) /\ Len(d) \in 0 .. MaxLen
    /\ \A d \in Seq(Block \cup {Zero}) : Len(d) <= MaxLen => d \in Data
    /\ <<>> \in Data /\ MaxLen \in Nat
<1>. DEFINE B == Block \cup {Zero}
<1>1. MaxLen \in Nat /\ Data = UNION {[1 .. n -> B] : n \in 0 .. MaxLen} /\ Empty = <<>>
  BY MountAssumption
<1>. HIDE DEF B
<1>2. ASSUME NEW d \in Data
      PROVE  d \in Seq(B) /\ Len(d) \in 0 .. MaxLen
  <2>1. PICK n \in 0 .. MaxLen : d \in [1 .. n -> B]
    BY <1>1
  <2>2. n \in Nat
    BY <1>1, <2>1
  <2>. QED  BY <2>1, <2>2, SeqDef
<1>3. ASSUME NEW d \in Seq(B), Len(d) <= MaxLen
      PROVE  d \in Data
  <2>1. Len(d) \in 0 .. MaxLen /\ d \in [1 .. Len(d) -> B]
    BY <1>1, <1>3
  <2>. QED  BY <1>1, <2>1
<1>4. <<>> \in Data
  BY <1>1, NamespaceAssumption
<1>. QED  BY <1>1, <1>2, <1>3, <1>4 DEF B

(* A write at the end of a file is an append; and it never makes a file    *)
(* longer than it has to.                                                  *)
LEMMA MergedFacts ==
    ASSUME NEW existing \in Data, NEW offset \in 0 .. MaxLen - 1, NEW b \in Block
    PROVE  /\ Merged(existing, offset, b) \in Data
           /\ Len(existing) = offset => Merged(existing, offset, b) = Append(existing, b)
<1>. DEFINE B == Block \cup {Zero}
            m == IF Len(existing) > offset THEN Len(existing) ELSE offset + 1
            e(i) == IF i = offset + 1 THEN b ELSE IF i <= Len(existing) THEN existing[i] ELSE Zero
<1>1. existing \in Seq(B) /\ Len(existing) \in 0 .. MaxLen /\ MaxLen \in Nat
  BY DataFacts
<1>2. m \in Nat /\ m <= MaxLen /\ offset \in Nat
  BY <1>1
<1>3. \A i \in 1 .. m : e(i) \in B
  <2>1. \A i \in 1 .. Len(existing) : existing[i] \in B
    BY <1>1, ElementOfSeq
  <2>. QED  BY <1>1, <1>2, <2>1
<1>4. Merged(existing, offset, b) = [i \in 1 .. m |-> e(i)]
  BY DEF Merged
<1>. HIDE DEF m
<1>5. [i \in 1 .. m |-> e(i)] \in [1 .. m -> B]
  BY <1>3
<1>. HIDE DEF e, B
<1>6. Merged(existing, offset, b) \in Seq(B) /\ Len(Merged(existing, offset, b)) = m
  BY <1>2, <1>4, <1>5, SeqDef
<1>7. Merged(existing, offset, b) \in Data
  BY <1>2, <1>6, DataFacts DEF B
<1>8. ASSUME Len(existing) = offset
      PROVE  Merged(existing, offset, b) = Append(existing, b)
  <2>1. m = offset + 1
    BY <1>2, <1>8 DEF m
  <2>2. /\ Append(existing, b) \in Seq(B) /\ Len(Append(existing, b)) = m
        /\ \A i \in 1 .. offset : Append(existing, b)[i] = existing[i]
        /\ Append(existing, b)[m] = b
    BY <1>1, <1>8, <2>1, AppendProperties DEF B
  <2>3. \A i \in 1 .. m : Merged(existing, offset, b)[i] = Append(existing, b)[i]
    BY <1>2, <1>4, <1>8, <2>1, <2>2 DEF e
  <2>. QED  BY <1>6, <2>2, <2>3, SeqEqual
<1>. QED  BY <1>7, <1>8

-----------------------------------------------------------------------------
(* Paths: a file goes below the new name.                                  *)

LEMMA TargetInside ==
    ASSUME NEW from \in Path, NEW to \in Path, NEW p \in Path,
           p = from \/ p \in Below[from], Target(from, to, p) \in Path
    PROVE  Target(from, to, p) = to \/ Target(from, to, p) \in Below[to]
<1>. DEFINE rest == SubSeq(p, Len(from) + 1, Len(p))
<1>1. from \in Seq(STRING) /\ to \in Seq(STRING) /\ p \in Seq(STRING)
  BY NamespaceAssumption
<1>2. Len(from) \in Nat /\ Len(to) \in Nat /\ Len(p) \in Nat
  BY <1>1
<1>3. \A i \in Len(from) + 1 .. Len(p) : p[i] \in STRING
  BY <1>1, <1>2, ElementOfSeq
<1>4. /\ rest \in Seq(STRING)
      /\ Len(rest) = IF Len(from) + 1 <= Len(p) THEN Len(p) - (Len(from) + 1) + 1 ELSE 0
  BY <1>2, <1>3, SubSeqProperties
<1>. HIDE DEF rest
<1>5. /\ Target(from, to, p) = to \o rest
      /\ to \o rest \in Seq(STRING) /\ Len(to \o rest) = Len(to) + Len(rest)
      /\ \A i \in 1 .. Len(to) + Len(rest) : (to \o rest)[i] =
                IF i <= Len(to) THEN to[i] ELSE rest[i - Len(to)]
  BY <1>1, <1>4, ConcatProperties DEF Target, rest
<1>6. CASE p = from
  <2>1. Len(rest) = 0
    BY <1>2, <1>4, <1>6
  <2>. QED  BY <1>1, <1>2, <1>5, <2>1, SeqEqual
<1>7. CASE p \in Below[from]
  <2>1. Len(from) < Len(p)
    BY <1>7, DirFacts DEF Below
  <2>2. Len(rest) \in Nat /\ Len(rest) > 0
    BY <1>2, <1>4, <2>1
  <2>3. Len(to) < Len(to \o rest) /\ \A i \in 1 .. Len(to) : to[i] = (to \o rest)[i]
    BY <1>2, <1>5, <2>2
  <2>. QED  BY <1>5, <2>3, DirFacts DEF Below
<1>. QED  BY <1>6, <1>7

-----------------------------------------------------------------------------
(* The tree.                                                               *)

LEMMA TreeSame ==
    ASSUME TreeOK, UNCHANGED bucket
    PROVE  TreeOK'
BY DEF TreeOK, bucket

LEMMA TreePut ==
    ASSUME StateOK, TreeOK, NEW p \in Path, NEW d \in Data, NEW how,
           PutObject(p, d, how), how # "before" => ~Refused(p)
    PROVE  TreeOK'
<1>1. store \in [Path -> Value] /\ folders \subseteq Path
  BY DEF StateOK
<1>2. tree' = tree
  BY DEF PutObject
<1>3. CASE how = "before"
  <2>1. store' = store /\ folders' = folders
    BY <1>1, <1>3 DEF PutObject
  <2>. QED  BY <1>2, <2>1 DEF TreeOK
<1>4. CASE how # "before" /\ tree
  <2>1. p \notin folders /\ \A q \in Path : p \in Below[q] => store[q] = None
    BY <1>4 DEF Refused, BelowFile
  <2>2. folders' = folders \cup {q \in Path : p \in Below[q]}
    BY <1>4 DEF PutObject
  <2>3. \A q \in Path \ {p} : store'[q] = store[q]
    BY <1>1 DEF PutObject
  <2>4. p \notin Below[p]
    <3>1. Len(p) \in Nat
      BY NamespaceAssumption
    <3>. QED  BY <3>1, DirFacts DEF Below
  <2>5. \A q \in folders' : store'[q] = None
    <3>1. ASSUME NEW q \in folders'
          PROVE  store'[q] = None
      <4>1. q \in Path /\ q # p
        BY <1>1, <2>1, <2>2, <2>4
      <4>2. store[q] = None
        BY <1>4, <2>1, <2>2 DEF TreeOK
      <4>. QED  BY <2>3, <4>1, <4>2
    <3>. QED  BY <3>1
  <2>6. \A r \in Path : store'[r] # None
            => \A q \in Path : r \in Below[q] => q \in folders'
    <3>1. ASSUME NEW r \in Path, store'[r] # None, NEW q \in Path, r \in Below[q]
          PROVE  q \in folders'
      <4>1. CASE r = p
        BY <2>2, <3>1, <4>1
      <4>2. CASE r # p
        BY <1>4, <2>2, <2>3, <3>1, <4>2 DEF TreeOK
      <4>. QED  BY <4>1, <4>2
    <3>. QED  BY <3>1
  <2>. QED  BY <2>5, <2>6 DEF TreeOK
<1>5. CASE ~tree
  BY <1>2, <1>5 DEF TreeOK
<1>. QED  BY <1>3, <1>4, <1>5

LEMMA TreeRemove ==
    ASSUME StateOK, TreeOK, NEW p \in Path, NEW kind, NEW how, RemoveObject(p, kind, how)
    PROVE  TreeOK' /\ \A q \in Path \ {p} : store'[q] = store[q]
<1>1. store \in [Path -> Value] /\ folders \subseteq Path
  BY DEF StateOK
<1>2. /\ tree' = tree /\ folders' = folders
      /\ \A q \in Path : store'[q] = store[q] \/ store'[q] = None
      /\ \A q \in Path \ {p} : store'[q] = store[q]
  BY <1>1 DEF RemoveObject
<1>. QED  BY <1>1, <1>2 DEF TreeOK

(* An export writes where it can, and one object.                          *)
LEMMA TreeWrites ==
    ASSUME StateOK, TreeOK, NEW es, NEW ds, NEW p \in Path, NEW d \in Data,
           NEW how \in Outcomes, Writes(es, ds, p, d, how)
    PROVE  TreeOK' /\ \A q \in Path \ {p} : store'[q] = store[q]
<1>1. PutObject(p, d, how) /\ (how # "before" => ~Refused(p))
  BY DEF Writes, Exports, Ends
<1>2. \A q \in Path \ {p} : store'[q] = store[q]
  BY <1>1 DEF PutObject, StateOK
<1>. QED  BY <1>1, <1>2, TreePut

LEMMA TreeDeletes ==
    ASSUME StateOK, TreeOK, NEW p \in Path, NEW how, Deletes(p, how)
    PROVE  TreeOK' /\ \A q \in Path \ {p} : store'[q] = store[q]
BY TreeRemove DEF Deletes

-----------------------------------------------------------------------------
(* The followed file in steps that are about something else.               *)

LEMMA SettledKeeps ==
    ASSUME NEW q \in Path, FS!Settles(q), InDoubt(q) = {}
    PROVE  Visible(q)' = Visible(q) /\ InDoubt(q)' = {}
BY DEF FS!Settles

LEMMA Elsewhere ==
    ASSUME MountInv, IInv', TreeOK',
           handle' = handle \/ handle' = NoHandle,
           handle' # NoHandle =>
                /\ FS!Settles(handle.path)
                /\ store'[handle.path] = store[handle.path]
                /\ moving' # Idle => handle.path \notin Touched(moving'.from, moving'.to)
    PROVE  MountInv'
<1>1. handle' \in Handle \cup {NoHandle}
  BY DEF MountInv
<1>2. FollowedOK'
  <2>1. CASE handle' = NoHandle
    BY <2>1 DEF FollowedOK
  <2>2. CASE handle' # NoHandle
    <3>1. handle' = handle /\ handle # NoHandle /\ handle.path \in Path
      BY <2>2 DEF MountInv, Handle
    <3>2. /\ Visible(handle.path)' = Visible(handle.path)
          /\ InDoubt(handle.path)' = {}
      BY <2>2, <3>1, SettledKeeps DEF MountInv, FollowedOK
    <3>. QED  BY <2>2, <3>1, <3>2 DEF MountInv, FollowedOK, Touched
  <2>. QED  BY <2>1, <2>2
<1>. QED  BY <1>1, <1>2 DEF MountInv

(* A call that looks.                                                      *)
LEMMA LooksKeeps ==
    ASSUME MountInv, IInv', FS!FSReads, UNCHANGED bucket, UNCHANGED handle,
           moving' # Idle /\ handle # NoHandle
                => handle.path \notin Touched(moving'.from, moving'.to)
    PROVE  MountInv' /\ FS!FSNext
<1>1. TreeOK' /\ UNCHANGED store
  BY TreeSame DEF MountInv, bucket
<1>2. handle # NoHandle => handle.path \in Path
  BY DEF MountInv, Handle
<1>. QED  BY <1>1, <1>2, Elsewhere, AbstractNext DEF FS!FSReads

(* A call that changes another file.                                       *)
LEMMA WritesKeeps ==
    ASSUME MountInv, IInv', TreeOK', NEW p \in Path, NEW v \in Value, FS!FSWrites(p, v),
           \A q \in Path \ {p} : store'[q] = store[q],
           handle' = handle \/ handle' = NoHandle,
           handle' # NoHandle => handle.path # p,
           moving' # Idle /\ handle' # NoHandle
                => handle.path \notin Touched(moving'.from, moving'.to)
    PROVE  MountInv' /\ FS!FSNext
<1>1. handle # NoHandle => handle.path \in Path
  BY DEF MountInv, Handle
<1>. QED  BY <1>1, Elsewhere, AbstractNext DEF FS!FSWrites

-----------------------------------------------------------------------------
(* The requests that are calls of Namespace.                               *)

LEMMA LookStep ==
    ASSUME MountInv, UNCHANGED handle,
           \/ \E p \in Path : Stat(p) \/ Read(p)
           \/ \E d \in Dir : ListDir(d)
    PROVE  MountInv' /\ FS!FSNext
<1>1. IInv' /\ FS!FSReads
  BY StatStep, ReadStep, ListDirStep DEF MountInv
<1>2. UNCHANGED bucket /\ moving' = Idle
  BY DEF Stat, Read, ListDir, Lists, ListFails
<1>. QED  BY <1>1, <1>2, LooksKeeps

LEMMA FlushStep ==
    ASSUME MountInv, NEW p \in Path, FlushSome(p)
    PROVE  MountInv' /\ FS!FSNext
<1>1. /\ StateOK /\ TreeOK /\ IInv /\ FlushPath(p) /\ UNCHANGED handle
      /\ data \in [Path -> Data]
  BY DEF MountInv, IInv, StateOK, FlushSome
<1>2. IInv' /\ FS!FSWrites(p, Intended(p))
  BY <1>1, FlushPathStep
<1>3. Intended(p) \in Value
  BY <1>1 DEF Intended, Value
<1>4. TreeOK' /\ \A q \in Path \ {p} : store'[q] = store[q]
  <2>1. CASE Conflicts(p)
    BY <1>1, <2>1, TreeSame DEF Conflicts, bucket
  <2>2. CASE \E how \in Outcomes : Deletes(p, how)
    BY <1>1, <2>2, TreeDeletes
  <2>3. CASE \E how \in Outcomes : Writes(entries, data, p, data[p], how)
    <3>1. data[p] \in Data
      BY <1>1
    <3>. QED  BY <1>1, <2>3, <3>1, TreeWrites
  <2>. QED  BY <1>1, <2>1, <2>2, <2>3 DEF FlushPath
<1>5. handle # NoHandle => handle.path # p
  <2>1. InDoubt(p) # {}
    BY <1>1 DEF FlushPath, InDoubt
  <2>. QED  BY <2>1 DEF MountInv, FollowedOK
<1>6. moving' = Idle
  BY <1>1 DEF FlushPath
<1>. QED  BY <1>1, <1>2, <1>3, <1>4, <1>5, <1>6, WritesKeeps

LEMMA UnlinkStep ==
    ASSUME MountInv, NEW p \in Path, Unlink(p)
    PROVE  MountInv' /\ FS!FSNext
<1>1. /\ StateOK /\ TreeOK /\ IInv /\ DeletePath(p)
      /\ handle' = handle \/ handle' = NoHandle
      /\ handle' # NoHandle => handle.path # p
  BY DEF MountInv, IInv, Unlink, Dropped
<1>2. IInv' /\ FS!FSWrites(p, None)
  BY <1>1, DeletePathStep
<1>3. TreeOK' /\ (\A q \in Path \ {p} : store'[q] = store[q]) /\ moving' = Idle
  BY <1>1, TreeDeletes DEF DeletePath
<1>. QED  BY <1>1, <1>2, <1>3, WritesKeeps DEF Value

LEMMA RenameRequestStep ==
    ASSUME MountInv, NEW r \in Renames, RenameRequest(r[1], r[2])
    PROVE  MountInv' /\ FS!FSNext
<1>1. r[1] \in Path /\ r[2] \in Path /\ <<r[1], r[2]>> \in Renames
  BY RenamePair
<1>2. /\ RenameStart(r[1], r[2])
      /\ handle' = handle \/ handle' = NoHandle
      /\ handle' # NoHandle => handle' = handle /\ handle.path \notin Touched(r[1], r[2])
  BY DEF RenameRequest, Dropped, Touched
<1>3. IInv' /\ FS!FSReads
  BY <1>1, <1>2, RenameStartStep DEF MountInv
<1>4. UNCHANGED bucket /\ moving'.from = r[1] /\ moving'.to = r[2]
  BY <1>2 DEF RenameStart
<1>5. TreeOK' /\ UNCHANGED store
  BY <1>4, TreeSame DEF MountInv, bucket
<1>6. handle # NoHandle => handle.path \in Path
  BY DEF MountInv, Handle
<1>7. MountInv'
  BY <1>2, <1>3, <1>4, <1>5, <1>6, Elsewhere DEF FS!FSReads
<1>. QED  BY <1>3, <1>7, AbstractNext DEF MountInv

-----------------------------------------------------------------------------
(* The steps of a rename.                                                  *)

LEMMA RenameCopyKeeps ==
    ASSUME MountInv, NEW p \in Path, RenameCopy(p), UNCHANGED handle
    PROVE  MountInv' /\ FS!FSNext
<1>. DEFINE target == Target(moving.from, moving.to, p)
<1>1. /\ StateOK /\ MoveOK /\ TreeOK /\ IInv /\ moving # Idle /\ moving.files[p] > 0
  BY DEF MountInv, IInv, RenameCopy
<1>2. IInv' /\ CopiesTo(p, target) /\ target \in Path
  BY <1>1, RenameCopyStep
<1>3. target \in Touched(moving.from, moving.to)
  BY <1>1, <1>2, MoveFacts, TargetInside DEF Touched
<1>4. handle # NoHandle => handle.path \in Path /\ handle.path # target
  BY <1>1, <1>3 DEF MountInv, Handle, FollowedOK
<1>5. \A q \in Path \ {target} : FS!Settles(q)
  BY <1>2 DEF CopiesTo, FS!FSReads, FS!FSWrites
<1>. HIDE DEF target
<1>6. /\ TreeOK' /\ \A q \in Path \ {target} : store'[q] = store[q]
      /\ moving' # Idle => moving'.from = moving.from /\ moving'.to = moving.to
  <2>1. CASE UNCHANGED bucket /\ moving' = Idle
    BY <1>1, <2>1, TreeSame DEF bucket
  <2>2. CASE /\ Readable(p)
             /\ \E keep \in BOOLEAN, how \in Outcomes :
                /\ Writes(AfterRead(p, keep), DataRead(p, keep), target, Content(p), how)
                /\ moving' = IF how = "done" THEN [moving EXCEPT !.copied = p] ELSE Idle
    <3>1. PICK keep \in BOOLEAN, how \in Outcomes :
                /\ Writes(AfterRead(p, keep), DataRead(p, keep), target, Content(p), how)
                /\ moving' = IF how = "done" THEN [moving EXCEPT !.copied = p] ELSE Idle
      BY <2>2
    <3>2. Content(p) \in Data
      BY <1>1, <2>2, ContentIsVisible
    <3>3. moving' # Idle => moving'.from = moving.from /\ moving'.to = moving.to
      BY <1>1, <3>1, MoveFacts DEF Move
    <3>. QED  BY <1>1, <1>2, <3>1, <3>2, <3>3, TreeWrites
  <2>. QED  BY <2>1, <2>2 DEF RenameCopy, target
<1>7. MountInv'
  BY <1>1, <1>2, <1>4, <1>5, <1>6, Elsewhere DEF MountInv, FollowedOK
<1>8. FS!FSNext
  <2>1. (IF Visible(p) = None THEN Empty ELSE Visible(p)) \in Value
    BY <1>1, ConstantFacts DEF StateOK, Visible, Value
  <2>. QED  BY <1>2, <2>1, AbstractNext DEF CopiesTo
<1>. QED  BY <1>7, <1>8

LEMMA RenameGoesOnStep ==
    ASSUME MountInv, RenameGoesOn
    PROVE  MountInv' /\ FS!FSNext
<1>1. UNCHANGED handle /\ IInv /\ StateOK /\ MoveOK /\ TreeOK
  BY DEF MountInv, IInv, RenameGoesOn
<1>2. ASSUME NEW p \in Path, RenameList(p)
      PROVE  MountInv' /\ FS!FSNext
  <2>1. IInv' /\ FS!FSReads
    BY <1>1, <1>2, RenameListStep
  <2>2. UNCHANGED bucket
    BY <1>2 DEF RenameList, Lists, ListFails
  <2>3. moving # Idle /\ moving \in Move
    BY <1>1, <1>2, MoveFacts DEF RenameList
  <2>4. moving' # Idle => moving'.from = moving.from /\ moving'.to = moving.to
    BY <1>2, <2>3 DEF RenameList, Move
  <2>. QED  BY <1>1, <2>1, <2>2, <2>3, <2>4, LooksKeeps DEF MountInv, FollowedOK
<1>3. ASSUME NEW p \in Path, RenameCopy(p)
      PROVE  MountInv' /\ FS!FSNext
  BY <1>1, <1>3, RenameCopyKeeps
<1>4. CASE RenameDelete
  <2>1. IInv' /\ moving.copied \in Path /\ FS!FSWrites(moving.copied, None)
    BY <1>1, <1>4, RenameDeleteStep
  <2>2. PICK how \in Outcomes :
            /\ Deletes(moving.copied, how)
            /\ moving' = IF how = "done"
                         THEN [moving EXCEPT !.copied = <<>>, !.files[moving.copied] = @ - 1]
                         ELSE Idle
    BY <1>4 DEF RenameDelete
  <2>3. TreeOK' /\ \A q \in Path \ {moving.copied} : store'[q] = store[q]
    BY <1>1, <2>1, <2>2, TreeDeletes
  <2>4. moving # Idle /\ moving.copied # <<>> /\ moving \in Move
    BY <1>1, <1>4, MoveFacts DEF RenameDelete
  <2>5. moving' # Idle => moving'.from = moving.from /\ moving'.to = moving.to
    BY <2>2, <2>4 DEF Move
  <2>6. moving.copied \in Touched(moving.from, moving.to)
    BY <1>1, <2>1, <2>4, MoveFacts DEF Touched
  <2>. QED  BY <1>1, <2>1, <2>3, <2>4, <2>5, <2>6, WritesKeeps DEF MountInv, FollowedOK, Value
<1>5. CASE RenameEnd
  <2>1. IInv' /\ FS!FSReads
    BY <1>1, <1>5, RenameEndStep
  <2>2. UNCHANGED bucket /\ moving' = Idle
    BY <1>5 DEF RenameEnd
  <2>. QED  BY <1>1, <2>1, <2>2, LooksKeeps
<1>. QED  BY <1>2, <1>3, <1>4, <1>5 DEF RenameGoesOn

-----------------------------------------------------------------------------
(* The requests that start and lengthen the followed file.                 *)

LEMMA DoneSets ==
    ASSUME StateOK, NEW es \in Index, NEW ds \in [Path -> Data],
           NEW p \in Path, NEW d \in Data, Exports(es, ds, p, d, "done")
    PROVE  Visible(p)' = d /\ InDoubt(p)' = {} /\ store'[p] = d /\ d # None
<1>1. /\ entries'[p] = Clean("file", TRUE) /\ data'[p] = d /\ store'[p] = d
  BY DEF Exports, PutObject, StateOK, Index
<1>2. /\ entries'[p] # NoEntry /\ entries'[p].kind = "file" /\ entries'[p].cached
      /\ ~entries'[p].dirty /\ ~entries'[p].deleted
  BY <1>1, CleanType DEF Kinds
<1>. QED  BY <1>1, <1>2, ConstantFacts DEF Visible, HasData, Known, InDoubt, IsDirty

LEMMA CreateStep ==
    ASSUME MountInv, NEW p \in Path, Create(p)
    PROVE  MountInv' /\ FS!FSNext
<1>1. /\ StateOK /\ TreeOK /\ IInv /\ WriteFile(p, <<>>) /\ <<>> \in Data
      /\ entries \in Index /\ data \in [Path -> Data]
  BY DataFacts DEF MountInv, IInv, StateOK, Create
<1>2. IInv' /\ FS!FSWrites(p, <<>>) /\ <<>> \in Value
  BY <1>1, WriteFileStep DEF Value
<1>3. PICK how \in Outcomes : Writes(entries, data, p, <<>>, how)
  BY <1>1 DEF WriteFile
<1>4. TreeOK' /\ \A q \in Path \ {p} : store'[q] = store[q]
  BY <1>1, <1>3, TreeWrites
<1>5. moving' = Idle
  BY <1>1 DEF WriteFile
<1>6. CASE entries'[p].dirty
  <2>1. /\ handle' = handle \/ handle' = NoHandle
        /\ handle' # NoHandle => handle.path # p
    BY <1>6 DEF Create, Dropped
  <2>. QED  BY <1>2, <1>4, <1>5, <2>1, WritesKeeps
<1>7. CASE ~entries'[p].dirty
  <2>1. handle' = [path |-> p, written |-> <<>>]
    BY <1>7 DEF Create
  <2>2. handle' \in Handle /\ handle'.path = p /\ handle'.written = <<>>
    BY <1>1, <2>1 DEF Handle
  <2>3. how = "done"
    <3>1. CASE how # "done"
      <4>1. entries'[p] = Dirty
        BY <1>1, <1>3, <3>1 DEF Writes, Exports, Index
      <4>. QED  BY <1>7, <4>1, DirtyType
    <3>. QED  BY <3>1
  <2>4. Visible(p)' = <<>> /\ InDoubt(p)' = {} /\ store'[p] # None
    BY <1>1, <1>3, <2>3, DoneSets DEF Writes
  <2>5. FollowedOK'
    BY <1>5, <2>2, <2>4 DEF FollowedOK
  <2>6. FS!FSNext
    BY <1>2, AbstractNext
  <2>. QED  BY <1>2, <1>4, <2>2, <2>5, <2>6 DEF MountInv
<1>. QED  BY <1>6, <1>7

LEMMA ExistingType ==
    ASSUME StateOK, NEW p \in Path, NEW offset \in Nat
    PROVE  Existing(p, offset) \in Data
BY ContentIsVisible, DataFacts DEF Existing

(* What write finds of the followed file is what was written to it.        *)
LEMMA FollowedExisting ==
    ASSUME StateOK, TreeOK, NEW p \in Path, NEW written \in Data,
           store[p] # None, Visible(p) = written, ~BelowFile(p)
    PROVE  ~Refused(p) /\ Existing(p, Len(written)) = written
<1>1. ~Refused(p)
  BY DEF Refused, TreeOK
<1>2. Readable(p)
  <2>1. CASE Known(entries, p)
    <3>1. entries[p] # NoEntry /\ entries[p] \in Entry
      BY <2>1 DEF Known, StateOK, Index
    <3>2. entries[p].kind = "file"
      BY <3>1 DEF StateOK, CacheAgrees, Entry, Kinds
    <3>. QED  BY <2>1, <3>2 DEF Readable, Kind, Finds
  <2>2. CASE ~Known(entries, p)
    BY <2>2 DEF Readable, Kind, Finds
  <2>. QED  BY <2>1, <2>2
<1>3. Content(p) = written
  <2>1. written # None
    BY ConstantFacts
  <2>2. Content(p) = IF Visible(p) = None THEN Empty ELSE Visible(p)
    BY <1>2, ContentIsVisible
  <2>. QED  BY <2>1, <2>2
<1>4. CASE Len(written) > 0
  BY <1>1, <1>2, <1>3, <1>4 DEF Existing
<1>5. CASE ~(Len(written) > 0)
  <2>1. written \in Seq(Block \cup {Zero}) /\ Len(written) = 0
    BY <1>5, DataFacts
  <2>2. written = <<>>
    BY <2>1, EmptySeq
  <2>. QED  BY <1>1, <1>5, <2>2 DEF Existing
<1>. QED  BY <1>4, <1>5

LEMMA WriteAtStep ==
    ASSUME MountInv, NEW p \in Path, NEW offset \in 0 .. MaxLen - 1, NEW b \in Block,
           WriteAt(p, offset, b)
    PROVE  MountInv' /\ FS!FSNext
<1>1. /\ StateOK /\ MoveOK /\ TreeOK /\ IInv /\ offset \in Nat
      /\ entries \in Index /\ data \in [Path -> Data] /\ mishaps \in Nat
  BY DEF MountInv, IInv, StateOK
<1>2. /\ moving = Idle /\ moving' = Idle /\ ~BelowFile(p)
      /\ handle' = Appended(p, offset, b)
  BY DEF WriteAt
<1>3. MoveOK'
  BY <1>1, <1>2, NotMoving
<1>. DEFINE d == Merged(Existing(p, offset), offset, b)
            z == Merged(<<>>, offset, b)
<1>4. d \in Data /\ z \in Data
  BY <1>1, ExistingType, MergedFacts, DataFacts
<1>. HIDE DEF d, z
<1>5. ASSUME NEW v \in Data, StateOK', FS!FSWrites(p, v), TreeOK',
             \A q \in Path \ {p} : store'[q] = store[q],
             \/ handle = NoHandle \/ handle.path # p
             \/ offset # Len(handle.written) \/ mishaps' # mishaps
      PROVE  MountInv' /\ FS!FSNext
  <2>1. /\ handle' = handle \/ handle' = NoHandle
        /\ handle' # NoHandle => handle.path # p
    BY <1>2, <1>5 DEF Appended
  <2>2. IInv' /\ v \in Value
    BY <1>3, <1>5 DEF IInv, Value
  <2>. QED  BY <1>2, <1>5, <2>1, <2>2, WritesKeeps
<1>6. ASSUME NEW how \in Outcomes, Writes(entries, data, p, d, how)
      PROVE  MountInv' /\ FS!FSNext
  <2>1. StateOK' /\ FS!FSWrites(p, d)
    BY <1>1, <1>4, <1>6, WritesStep DEF Untouched
  <2>2. TreeOK' /\ \A q \in Path \ {p} : store'[q] = store[q]
    BY <1>1, <1>4, <1>6, TreeWrites
  <2>3. CASE /\ handle # NoHandle /\ handle.path = p
             /\ offset = Len(handle.written) /\ mishaps' = mishaps
    <3>0. /\ handle.written \in Data /\ store[p] # None
          /\ Visible(p) = handle.written
      BY <2>3 DEF MountInv, Handle, FollowedOK
    <3>1. ~Refused(p) /\ Existing(p, offset) = handle.written
      BY <1>1, <1>2, <2>3, <3>0, FollowedExisting
    <3>2. how = "done"
      BY <1>1, <1>6, <2>3, <3>1 DEF Writes, Ends
    <3>3. handle.written \in Data /\ handle \in Handle
      BY <2>3 DEF MountInv, Handle
    <3>4. d = Append(handle.written, b)
      BY <2>3, <3>1, <3>3, MergedFacts DEF d
    <3>5. handle' = [handle EXCEPT !.written = d]
      BY <1>2, <2>3, <3>3, <3>4 DEF Appended, Handle
    <3>6. handle' \in Handle /\ handle'.path = p /\ handle'.written = d
      BY <1>4, <2>3, <3>3, <3>5 DEF Handle
    <3>7. Visible(p)' = d /\ InDoubt(p)' = {} /\ store'[p] # None
      BY <1>1, <1>4, <1>6, <3>2, DoneSets DEF Writes
    <3>8. FollowedOK'
      BY <1>2, <3>6, <3>7 DEF FollowedOK
    <3>9. IInv' /\ d \in Value
      BY <1>3, <1>4, <2>1 DEF IInv, Value
    <3>. QED  BY <2>1, <2>2, <3>6, <3>8, <3>9, AbstractNext DEF MountInv
  <2>. QED  BY <1>4, <1>5, <2>1, <2>2, <2>3
<1>7. ASSUME Mishap,
             Exports(entries, data, p, z, IF Refused(p) THEN "before" ELSE "done")
      PROVE  MountInv' /\ FS!FSNext
  <2>. DEFINE how == IF Refused(p) THEN "before" ELSE "done"
  <2>1. mishaps' \in 0 .. Mishaps /\ mishaps' # mishaps
    BY <1>1, <1>7, ConstantFacts DEF Mishap
  <2>2. how \in Outcomes /\ (how # "before" => ~Refused(p))
    BY DEF Outcomes
  <2>. HIDE DEF how
  <2>3. Exports(entries, data, p, z, how)
    BY <1>7 DEF how
  <2>4. StateOK' /\ FS!FSWrites(p, z)
    BY <1>1, <1>4, <2>1, <2>2, <2>3, ExportsStep DEF Untouched
  <2>5. TreeOK'
    BY <1>1, <1>4, <2>2, <2>3, TreePut DEF Exports
  <2>6. \A q \in Path \ {p} : store'[q] = store[q]
    BY <1>1, <2>3 DEF Exports, PutObject, StateOK
  <2>. QED  BY <1>4, <1>5, <2>1, <2>4, <2>5, <2>6
<1>. QED  BY <1>6, <1>7 DEF WriteAt, d, z

-----------------------------------------------------------------------------
(* The theorems.                                                           *)

LEMMA MountNextStep ==
    ASSUME MountInv, MountNext
    PROVE  MountInv' /\ FS!FSNext
<1>0. Named \subseteq Path
  BY NamespaceAssumption
<1>1. ASSUME NEW p \in Path, LookupOrGetattr(p) \/ ReadFile(p) \/ FlushSome(p)
      PROVE  MountInv' /\ FS!FSNext
  BY <1>1, LookStep, FlushStep DEF LookupOrGetattr, ReadFile
<1>2. ASSUME NEW d \in Dir, Readdir(d)
      PROVE  MountInv' /\ FS!FSNext
  BY <1>2, LookStep DEF Readdir
<1>3. ASSUME NEW p \in Named, Create(p) \/ Unlink(p)
      PROVE  MountInv' /\ FS!FSNext
  BY <1>0, <1>3, CreateStep, UnlinkStep
<1>4. ASSUME NEW p \in Named, NEW offset \in 0 .. MaxLen - 1, NEW b \in Block,
             WriteAt(p, offset, b)
      PROVE  MountInv' /\ FS!FSNext
  BY <1>0, <1>4, WriteAtStep
<1>5. ASSUME NEW r \in Renames, RenameRequest(r[1], r[2])
      PROVE  MountInv' /\ FS!FSNext
  BY <1>5, RenameRequestStep
<1>. QED  BY <1>1, <1>2, <1>3, <1>4, <1>5, RenameGoesOnStep DEF MountNext

LEMMA MountStutters ==
    ASSUME MountInv, UNCHANGED mountVars
    PROVE  /\ MountInv'
           /\ UNCHANGED <<[p \in Path |-> Visible(p)], [p \in Path |-> InDoubt(p)]>>
<1>1. /\ UNCHANGED handle /\ UNCHANGED vars
      /\ UNCHANGED <<tree, store, folders, entries, data, moving>> /\ IInv
  BY DEF MountInv, mountVars, vars, bucket, cache
<1>2. IInv' /\ UNCHANGED <<[p \in Path |-> Visible(p)], [p \in Path |-> InDoubt(p)]>>
  BY <1>1, Stutters
<1>3. TreeOK' /\ FollowedOK'
  BY <1>1 DEF MountInv, TreeOK, FollowedOK, Visible, InDoubt, HasData, Known, IsDirty, Intended
<1>. QED  BY <1>1, <1>2, <1>3 DEF MountInv

(* The invariant is inductive.                                             *)
THEOREM MountInvariant == MountSpec => []MountInv
<1>1. MountInit => MountInv
  <2>1. MountInit => IInv /\ handle = NoHandle
    BY InitInv DEF MountInit
  <2>2. MountInit => TreeOK
    BY DEF MountInit, Init, TreeOK
  <2>. QED  BY <2>1, <2>2 DEF MountInv, FollowedOK
<1>2. MountInv /\ [MountNext]_mountVars => MountInv'
  BY MountNextStep, MountStutters
<1>. QED  BY <1>1, <1>2, PTL DEF MountSpec

(* Type correctness: a file a mount writes is never longer than the last   *)
(* offset written and what was there (main.rs:284-302).                    *)
THEOREM MountTypeCorrect == MountSpec => []MountTypeOK
<1>1. MountInv => MountTypeOK
  BY DEF MountInv, IInv, StateOK, MoveOK, MountTypeOK, TypeOK, Index
<1>. QED  BY <1>1, MountInvariant, PTL

(* A file that was created and then appended to reads as what was          *)
(* appended, for every namespace, any renames and any failures.            *)
THEOREM AppendsAreKept == MountSpec => []AppendsKept
<1>1. MountInv => AppendsKept
  BY DEF MountInv, FollowedOK, AppendsKept
<1>. QED  BY <1>1, MountInvariant, PTL

(* A mount implements the file system of FileSystem.                       *)
THEOREM MountRefinement == MountSpec => ImplementsFileSystem
<1>1. MountInit => FS!FSInit
  BY InitInv DEF MountInit
<1>2. MountInv /\ [MountNext]_mountVars
        => [FS!FSNext]_<<[p \in Path |-> Visible(p)], [p \in Path |-> InDoubt(p)]>>
  BY MountNextStep, MountStutters
<1>. QED  BY <1>1, <1>2, MountInvariant, PTL DEF MountSpec, ImplementsFileSystem, FS!FSSpec
=============================================================================
