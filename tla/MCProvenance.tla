---------------------------- MODULE MCProvenance ----------------------------
(***************************************************************************)
(* Small repositories to run Provenance on.                                *)
(***************************************************************************)
EXTENDS Provenance

\* "plain" has no image references, "images" has, and becomes "packaged",
\* which is left as it is.
MCUpdated == [c \in HasImages |-> "packaged"]

Cloned == [r \in Remotes |-> IF r = Origin THEN "hub" ELSE NoURL]
TwoRemotes == [r \in Remotes |-> IF r = Origin THEN NoURL ELSE IF r = "mirror" THEN "hub" ELSE "lab"]

\* A file in the worktree, the index and HEAD: committed, or new; a manifest may
\* also be modified, or staged and then restored.
Usual(f) ==
    {<<"images", "images", "images">>, <<"images", Absent, Absent>>} \cup
    (IF f \in Manifests
     THEN {<<"plain", "images", "images">>, <<"images", "plain", "images">>} ELSE {})
UsualFiles == {s \in [Files -> UNION {Usual(f) : f \in Files}] : \A f \in Files : s[f] \in Usual(f)}
UsualTrees ==
    {[worktree |-> [f \in Files |-> s[f][1]], index |-> [f \in Files |-> s[f][2]],
      tree |-> [f \in Files |-> s[f][3]], remotes |-> Cloned] : s \in UsualFiles}

\* Everything is committed.
Clean == [f \in Files |-> "images"]
CleanTree == {[worktree |-> Clean, index |-> Clean, tree |-> Clean, remotes |-> Cloned]}

\* One file has been edited since.
OneEdited == [f \in Files |-> IF f = "m" THEN "plain" ELSE "images"]
EditedTree == {[worktree |-> OneEdited, index |-> Clean, tree |-> Clean, remotes |-> Cloned]}

\* One file of several is committed.
OneTracked == [f \in Files |-> IF f = "m" THEN "images" ELSE Absent]
PartlyTracked == {[worktree |-> Clean, index |-> OneTracked, tree |-> OneTracked, remotes |-> Cloned]}

\* As a clone whose remote is renamed, with another one added.
CleanTwoRemotes == {[worktree |-> Clean, index |-> Clean, tree |-> Clean, remotes |-> TwoRemotes]}
=============================================================================
