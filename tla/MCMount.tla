------------------------------- MODULE MCMount -------------------------------
(* Values of the constants of Mount for TLC.                               *)
EXTENDS Mount, SequencesExt

CONSTANT x

MCEmpty == <<>>
MCData == UNION {[1 .. n -> Block \cup {Zero}] : n \in 0 .. MaxLen}

(* A directory with a file, and a file whose name starts with the          *)
(* directory's.  The third rename makes a file of a name the first two     *)
(* take for a directory.                                                   *)
MCPath == {<<"d">>, <<"d", "a">>, <<"dx">>, <<"dx", "a">>}
MCStartsWith ==
    [p \in MCPath |-> {q \in MCPath : IsStrictPrefix(p, q) \/ (p = <<"d">> /\ q = <<"dx">>)}]
MCNamed == {<<"d", "a">>}
MCEager == {<<"d">>}
MCRenames == {<< <<"d">>, <<"dx">> >>, << <<"dx">>, <<"d">> >>, << <<"d", "a">>, <<"dx">> >>}
=============================================================================
