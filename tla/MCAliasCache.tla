---------------------------- MODULE MCAliasCache ----------------------------
(***************************************************************************)
(* Lists of names to run AliasCache on.                                    *)
(***************************************************************************)
EXTENDS AliasCache, SequencesExt

\* All lists of three names of up to three parts.
MCNames == SeqOf(Parts, 3) \ {<<>>}
Triples == TupleOf(MCNames, 3)

\* Lists of four names that end in each other, as the names of images do that
\* are at several levels of a registry.
Nested == {<<"a">>, <<"a", "a">>, <<"b", "a">>, <<"a", "b", "a">>, <<"b", "b", "a">>,
           <<"a", "a", "b", "a">>}
Quadruples == TupleOf(Nested, 4)

MCLists == {<<>>} \cup Triples \cup Quadruples
=============================================================================
