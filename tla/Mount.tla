-------------------------------- MODULE Mount --------------------------------
(***************************************************************************)
(* The FUSE mount, crates/openfiles-fuse/src/main.rs, over the engine as   *)
(* Namespace has it.  A session takes one request after the other, and a   *)
(* handler blocks on its engine calls, so the mount is the one caller      *)
(* Namespace speaks of.                                                    *)
(*                                                                         *)
(* An inode is a number for a path and never stands for another one: the   *)
(* tables only grow, and nothing happens to them when a file is renamed or *)
(* unlinked.  So a request that comes with an inode comes with a path,     *)
(* maybe one whose file has gone.  A content is a sequence of blocks, and  *)
(* the kernel reads and writes one block at a time.                        *)
(***************************************************************************)
EXTENDS Namespace

CONSTANTS
    Block,      \* what a process writes
    Zero,       \* a block of zeros
    MaxLen,     \* bounds the length of a file
    NoHandle    \* no file is being followed

VARIABLE
    handle      \* ghost: a file just created, and what was appended to it

mountVars == <<vars, handle>>

Handle == [path : Path, written : Data]

ASSUME MountAssumption ==
    /\ Zero \notin Block
    /\ MaxLen \in Nat
    /\ Data = UNION {[1 .. n -> Block \cup {Zero}] : n \in 0 .. MaxLen}
    /\ Empty = <<>>
    /\ NoHandle \notin Handle

MountTypeOK == TypeOK /\ handle \in Handle \cup {NoHandle}

MountInit == Init /\ handle = NoHandle

-----------------------------------------------------------------------------
(* What write makes of a file: the bytes there were, zeros up to `offset'  *)
(* if it was shorter, and b at `offset'.                                   *)
(* Mutation: a block too many.                                             *)
MergedTooLong(existing, offset, b) ==
    [i \in 1 .. offset + 2 |->
        IF i = offset + 1 THEN b ELSE IF i <= Len(existing) THEN existing[i] ELSE Zero]
Merged(existing, offset, b) ==
    [i \in 1 .. IF Len(existing) > offset THEN Len(existing) ELSE offset + 1 |->
        IF i = offset + 1 THEN b ELSE IF i <= Len(existing) THEN existing[i] ELSE Zero]

(* It does not ask for the bytes there were when it writes at 0; when they *)
(* cannot be read it takes them for none.                                  *)
(* Mutation: it asks the cache only.                                       *)
ExistingCached(p, offset) == IF offset > 0 /\ HasData(p) THEN data[p] ELSE <<>>
Existing(p, offset) == IF offset > 0 /\ Readable(p) THEN Content(p) ELSE <<>>

(* A handle is followed as long as its file is only appended to.           *)
Appended(p, offset, b) ==
    IF handle = NoHandle \/ handle.path # p THEN handle
    ELSE IF offset = Len(handle.written) /\ mishaps' = mishaps
    THEN [handle EXCEPT !.written = Append(@, b)]
    ELSE NoHandle
Dropped(some) == IF handle # NoHandle /\ handle.path \in some THEN NoHandle ELSE handle

(* The read of the bytes there were may fail, and the write goes on.       *)
WriteAt(p, offset, b) ==
    /\ moving = Idle
    /\ ~BelowFile(p)
    /\ \/ \E how \in Outcomes :
            Writes(entries, data, p, Merged(Existing(p, offset), offset, b), how)
       \/ /\ offset > 0 /\ Mishap
          /\ Exports(entries, data, p, Merged(<<>>, offset, b),
                     IF Refused(p) THEN "before" ELSE "done")
    /\ handle' = Appended(p, offset, b)
    /\ UNCHANGED moving

(* create empties the file and follows with a stat, which finds the entry. *)
Create(p) ==
    /\ WriteFile(p, <<>>)
    /\ handle' = IF entries'[p].dirty THEN Dropped({p})
                 ELSE [path |-> p, written |-> <<>>]

Unlink(p) == DeletePath(p) /\ handle' = Dropped({p})

RenameRequest(from, to) ==
    /\ RenameStart(from, to)
    /\ handle' = Dropped({from, to} \cup Below[from] \cup Below[to])

LookupOrGetattr(p) == Stat(p) /\ UNCHANGED handle
Readdir(d) == ListDir(d) /\ UNCHANGED handle
ReadFile(p) == Read(p) /\ UNCHANGED handle

(* flush exports every dirty entry, of whatever file.                      *)
FlushSome(p) == FlushPath(p) /\ UNCHANGED handle

RenameGoesOn ==
    /\ (\E p \in Path : RenameList(p) \/ RenameCopy(p)) \/ RenameDelete \/ RenameEnd
    /\ UNCHANGED handle

MountNext ==
    \/ \E p \in Path : LookupOrGetattr(p) \/ ReadFile(p) \/ FlushSome(p)
    \/ \E d \in Dir : Readdir(d)
    \/ \E p \in Named : Create(p) \/ Unlink(p)
    \/ \E p \in Named, offset \in 0 .. MaxLen - 1, b \in Block : WriteAt(p, offset, b)
    \/ \E r \in Renames : RenameRequest(r[1], r[2])
    \/ RenameGoesOn

MountSpec == MountInit /\ [][MountNext]_mountVars

-----------------------------------------------------------------------------
(* A file that was created and then appended to, block after block, reads  *)
(* as what was appended, whatever was listed, read, looked up or renamed   *)
(* in between (main.rs:265-309), until a call on it fails.                 *)
AppendsKept == handle # NoHandle => Visible(handle.path) = handle.written
=============================================================================
