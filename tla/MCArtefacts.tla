---------------------------- MODULE MCArtefacts ----------------------------
(***************************************************************************)
(* Two packages to run Artefacts on: their contents share a file and the   *)
(* beginning of their hashes.                                              *)
(***************************************************************************)
EXTENDS Artefacts

Both == [f \in Paths |-> "v1"]
First == [f \in Paths |-> IF f = "f" THEN "v2" ELSE Absent]
MCFileIn == [c \in Contents |-> IF c = "c1" THEN Both ELSE First]
MCReplaced == [a \in Attests |-> IF a = "a1" THEN {"app"} ELSE {"app", "db"}]
MCPrefix == [c \in Contents |-> "p"]

\* Different packages, one without attestations.
MCPackage == [w \in Pushes |-> IF w = "first" THEN <<"c1", "a1">> ELSE <<"c2", NoAttest>>]

\* The tag of one of them, and the one that they share.
MCAsked == {<<"config", "c1">>, <<"alias", "p">>}
=============================================================================
