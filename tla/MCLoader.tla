------------------------------ MODULE MCLoader ------------------------------
(***************************************************************************)
(* A manifest directory to run Loader on.                                  *)
(***************************************************************************)
EXTENDS Loader

\* One manifest in the directory and two below it.
MCBelow == [d \in Dirs |-> IF d = "." THEN {"sub"} ELSE {}]
MCDirOf == [f \in Files |-> IF f = "a" THEN "." ELSE "sub"]
=============================================================================
