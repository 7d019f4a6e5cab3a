---------------------------- MODULE TapedRegistry ----------------------------
(***************************************************************************)
(* What `tape package` promises to everyone who reads the destination      *)
(* repository, without any of the steps it takes: a package appears at     *)
(* once and whole, it refers only to images of that repository, by digest, *)
(* and a name (a full tag or its short alias) leads to a package that is   *)
(* there.  Images and packages stay.                                       *)
(***************************************************************************)
CONSTANTS
    Dest,         \* the repository
    Prefix(_)     \* the first 7 digits of the hash of some contents

VARIABLES
    images,       \* digests of the manifests held
    packages,     \* packages held
    tagged,       \* the packages that a tag config.<hash> points at
    aliased       \* the packages that an alias config.<prefix> points at

vars == <<images, packages, tagged, aliased>>

\* Every image reference of package x is the digest of a manifest held here.
Closed(x) ==
    \A l \in DOMAIN x.contents :
        x.contents[l].name = Dest /\ x.contents[l].digest \in images

Init == packages = {} /\ tagged = {} /\ aliased = {}

Hold ==
    /\ images \subseteq images'
    /\ UNCHANGED <<packages, tagged, aliased>>

\* A tag points at one package: x takes it from the package that had it.
Publish(x) ==
    /\ Closed(x)
    /\ packages' = packages \cup {x}
    /\ tagged' = {y \in tagged : y.contents # x.contents} \cup {x}
    /\ UNCHANGED <<images, aliased>>

Announce(x) ==
    /\ x \in packages
    /\ aliased' = {y \in aliased : Prefix(y.contents) # Prefix(x.contents)} \cup {x}
    /\ UNCHANGED <<images, packages, tagged>>

Next ==
    \/ Hold
    \/ \E x \in packages' : Publish(x)
    \/ \E x \in packages : Announce(x)

Spec == Init /\ [][Next]_vars
=============================================================================
