---------------------------- MODULE PackageStore ----------------------------
(***************************************************************************)
(* What the repository of packages promises to those who pull or view one: *)
(* a package appears at once and whole; what a reader is given is of one   *)
(* package, that the tag it asked for pointed at while it was reading.     *)
(***************************************************************************)
CONSTANTS
    Packages,
    NoPackage,
    Tags,
    Readers,
    Given,       \* Given[q][x]: what reader q may be left with when it is given x
    Nothing      \* a reader that has not been given a package

VARIABLES
    packages,    \* packages that are there
    tags,        \* the package that a tag points at
    wanted,      \* the tag that a reader asks for
    chosen,      \* the package that it is going to be given
    result       \* what it has

vars == <<packages, tags, wanted, chosen, result>>

Init ==
    /\ packages = {}
    /\ tags = [t \in Tags |-> NoPackage]
    /\ wanted \in [Readers -> Tags]
    /\ chosen = [q \in Readers |-> NoPackage]
    /\ result = [q \in Readers |-> Nothing]

\* A package appears together with a tag that points at it.
Publish(x, t) ==
    /\ packages' = packages \cup {x}
    /\ tags' = [tags EXCEPT ![t] = x]
    /\ UNCHANGED <<wanted, chosen, result>>

Ask(q, t) ==
    /\ wanted' = [wanted EXCEPT ![q] = t]
    /\ chosen' = [chosen EXCEPT ![q] = NoPackage]
    /\ result' = [result EXCEPT ![q] = Nothing]
    /\ UNCHANGED <<packages, tags>>

Choose(q) ==
    /\ tags[wanted[q]] \in packages
    /\ chosen' = [chosen EXCEPT ![q] = tags[wanted[q]]]
    /\ UNCHANGED <<packages, tags, wanted, result>>

Give(q) ==
    /\ chosen[q] \in packages
    /\ \E r \in Given[q][chosen[q]] : result' = [result EXCEPT ![q] = r]
    /\ UNCHANGED <<packages, tags, wanted, chosen>>

Next ==
    \/ \E x \in Packages, t \in Tags : Publish(x, t)
    \/ \E q \in Readers : Choose(q) \/ Give(q) \/ \E t \in Tags : Ask(q, t)

Spec == Init /\ [][Next]_vars
=============================================================================
