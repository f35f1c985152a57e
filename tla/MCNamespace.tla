---------------------------- MODULE MCNamespace ----------------------------
(* Values of the constants of Namespace for TLC.                           *)
EXTENDS Namespace, SequencesExt

CONSTANT x

(* A directory with a file and a directory with a file, and the same names *)
(* below the name it is renamed to.  No name starts with another.          *)
MCPath == {<<top>> \o rest : top \in {"d", "e"},
                             rest \in {<<>>, <<"a">>, <<"f">>, <<"f", "a">>}}
MCStartsWith == [p \in MCPath |-> {q \in MCPath : IsStrictPrefix(p, q)}]
MCNamed == {<<"d", "a">>, <<"d", "f", "a">>}
MCEager == {<<"d">>}
MCRenames == {<< <<"d">>, <<"e">> >>}
=============================================================================
