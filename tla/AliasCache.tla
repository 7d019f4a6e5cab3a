----------------------------- MODULE AliasCache -----------------------------
(***************************************************************************)
(* The short names of images (manifest/image/alias.go).  The name of an    *)
(* image is a sequence of parts, and its alias is made of the last of      *)
(* them.  MakeAliasesForNames begins with aliases of one part and sweeps   *)
(* over all pairs of names, making aliases longer where they collide,      *)
(* until a sweep changes nothing.  A step is one pair of a sweep.          *)
(***************************************************************************)
EXTENDS Naturals, Sequences

CONSTANTS
    Parts,       \* parts of names: what is between two separators
    Lists        \* lists of names that the images of a package may have

ASSUME AliasAssumption == Lists \subseteq Seq(Seq(Parts) \ {<<>>})

VARIABLES
    list,        \* the names, in the order of the list of images
    width,       \* width[i]: number of parts of the alias of name i, last - current + 1
    names,       \* names[i]: the alias as it was last joined
    at,          \* the pair <<n, m>> that is compared next
    mutated,     \* whether this sweep has changed an alias
    pc

vars == <<list, width, names, at, mutated, pc>>

\* The last k parts of name x.
Suffix(x, k) == SubSeq(x, Len(x) - k + 1, Len(x))

Alias(i) == Suffix(list[i], width[i])

TypeOK ==
    /\ list \in Lists
    /\ width \in [DOMAIN list -> Nat \ {0}]
    /\ \A i \in DOMAIN list : width[i] <= Len(list[i])
    /\ names \in [DOMAIN list -> Seq(Parts)]
    /\ at \in (1..(Len(list) + 1)) \X (1..(Len(list) + 1))
    /\ mutated \in BOOLEAN
    /\ pc \in {"sweep", "done"}

Init ==
    /\ list \in Lists
    /\ width = [i \in DOMAIN list |-> 1]
    /\ names = [i \in DOMAIN list |-> Suffix(list[i], 1)]
    /\ at = <<1, 1>>
    /\ mutated = FALSE
    /\ pc = "sweep"

-----------------------------------------------------------------------------
Extendable(w, i) == w[i] < Len(list[i])

\* A fault: current is moved the wrong way.
Shorten(w, i) == IF Extendable(w, i) THEN [w EXCEPT ![i] = @ - 1] ELSE w

\* The widths w after name i has been extended, if that is possible.
Extend(w, i) == IF Extendable(w, i) THEN [w EXCEPT ![i] = @ + 1] ELSE w

\* Names m and n have the same alias: both are extended.
SeparateEqual(m, n) ==
    IF names[m] = names[n] THEN Extend(Extend(width, m), n) ELSE width

\* The alias of a would become the alias of b when extended: both are extended.
SeparateNext(w, a, b) ==
    IF Suffix(list[a], w[a] + 1) = Suffix(list[b], w[b]) THEN Extend(Extend(w, a), b) ELSE w

\* A fault: the last suffix of b before its alias is not tried.
MatchedButLast(w, a, b, k) == k + 1 < w[b] /\ Suffix(list[a], k) = Suffix(list[b], k)

\* The last k parts of a and b are the same, and shorter than the alias of b.
Matched(w, a, b, k) == k < w[b] /\ Suffix(list[a], k) = Suffix(list[b], k)

\* Trying the suffixes of b from the last part on, up to its alias, leaves a
\* with k parts: a is extended for as long as it equals one of them.
Leaves(w, a, b, k) ==
    /\ k \in w[a]..Len(list[a])
    /\ \A j \in w[a]..(k - 1) : Matched(w, a, b, j)
    /\ k < Len(list[a]) => ~Matched(w, a, b, k)

\* extendIfSuffixMatches(l[a], l[b]) turns the widths w into v.
ExtendIfSuffixMatches(w, v, a, b) ==
    IF Extendable(w, a)
    THEN LET u == SeparateNext(w, a, b)
         IN  \E k \in 1..Len(list[a]) : Leaves(u, a, b, k) /\ v = [u EXCEPT ![a] = k]
    ELSE v = w

\* A fault: names are joined again only where the first check extended them.
JoinedEqual(w, v, m, n) ==
    [i \in DOMAIN list |-> IF i \in {m, n} /\ w[i] # width[i] THEN Suffix(list[i], w[i])
                           ELSE names[i]]

\* The first check joins the names it has extended, the second one both if it
\* has extended any.
Joined(w, v, m, n) ==
    [i \in DOMAIN list |->
        IF i \in {m, n} /\ v # w THEN Suffix(list[i], v[i])
        ELSE IF i \in {m, n} /\ w[i] # width[i] THEN Suffix(list[i], w[i])
        ELSE names[i]]

\* A fault: equal names are separated too.
DistinctPair(m, n) == m # n
Comparable(m, n) == m # n /\ list[m] # list[n]

\* The pair after <<n, m>>: m runs in the inner loop.
After(pair) == IF pair[2] < Len(list) THEN <<pair[1], pair[2] + 1>> ELSE <<pair[1] + 1, 1>>

Compare ==
    LET n == at[1]
        m == at[2]
    IN
    /\ pc = "sweep" /\ n <= Len(list)
    /\ IF Comparable(m, n)
       THEN LET w == SeparateEqual(m, n)
            IN  /\ ExtendIfSuffixMatches(w, width', m, n)
                /\ names' = Joined(w, width', m, n)
                /\ mutated' = (mutated \/ width' # width)
       ELSE UNCHANGED <<width, names, mutated>>
    /\ at' = After(at)
    /\ UNCHANGED <<list, pc>>

\* A fault: mutated is not reset.
EndSweepMutated ==
    /\ pc = "sweep" /\ at[1] > Len(list)
    /\ IF mutated THEN at' = <<1, 1>> /\ UNCHANGED pc ELSE pc' = "done" /\ UNCHANGED at
    /\ UNCHANGED <<list, width, names, mutated>>

EndSweep ==
    /\ pc = "sweep" /\ at[1] > Len(list)
    /\ IF mutated THEN at' = <<1, 1>> /\ mutated' = FALSE /\ UNCHANGED pc
                  ELSE pc' = "done" /\ UNCHANGED <<at, mutated>>
    /\ UNCHANGED <<list, width, names>>

Next == Compare \/ EndSweep

Spec == Init /\ [][Next]_vars

\* The loop runs in one goroutine and waits for nothing.
FairSpec == Spec /\ WF_vars(Next)

-----------------------------------------------------------------------------
(* Match: look a name up by its alias, its full name or any suffix.        *)

\* A fault: suffixes are tried also for a term that is an alias or a name.
SuffixCandidates(term) ==
    {i \in DOMAIN list : \E k \in 1..Len(list[i]) : term = Suffix(list[i], k)}

ExactCandidates(term) == {i \in DOMAIN list : term \in {Alias(i), list[i]}}

Candidates(term) ==
    IF ExactCandidates(term) # {} THEN ExactCandidates(term)
    ELSE {i \in DOMAIN list : \E k \in 1..Len(list[i]) : term = Suffix(list[i], k)}

-----------------------------------------------------------------------------
(* Properties.                                                             *)

\* No other name ends in the last k parts of name i.
Unique(i, k) ==
    \A j \in DOMAIN list :
        list[j] # list[i] => ~(k <= Len(list[j]) /\ Suffix(list[j], k) = Suffix(list[i], k))

\* Whatever the order of the list, an alias is the shortest suffix of its name
\* that no other name ends in, and the full name if there is none: aliases of
\* different names differ and equal names have equal aliases (MakeAliasesForNames;
\* alias_test.go:73 wants it independent of the order).
ShortestUnique ==
    pc = "done" =>
        \A i \in DOMAIN list : \E k \in 1..Len(list[i]) :
            /\ names[i] = Suffix(list[i], k)
            /\ Unique(i, k) \/ k = Len(list[i])
            /\ \A j \in 1..(k - 1) : ~Unique(i, j)

\* No sweep, whatever it has compared so far, makes an alias longer than it
\* has to be (extendIfSuffixMatches tries aliases that are changing).
NoLongerThanNeeded ==
    \A i \in DOMAIN list : \A j \in 1..(width[i] - 1) : ~Unique(i, j)

\* The strings that are compared are those that the positions stand for,
\* although each is joined again in some branches only (MakeAliasesForNames).
NamesJoined == \A i \in DOMAIN list : names[i] = Alias(i)

\* Match finds an image by its alias, and by every longer suffix of its name,
\* and takes no other image for it (Match, MakeAliasesForNames).
AliasesLead ==
    pc = "done" =>
        \A i \in DOMAIN list : \A k \in width[i]..Len(list[i]) :
            Candidates(Suffix(list[i], k)) = {j \in DOMAIN list : list[j] = list[i]}

\* The sweeps cannot go on for ever: a comparison that changes anything makes an
\* alias longer and none shorter, and tells so; any other one only goes on to a
\* later pair; and a sweep is followed by another one only if that has been told
\* since it began (MakeAliasesForNames, mutated).
Later(b, a) == b[1] > a[1] \/ (b[1] = a[1] /\ b[2] > a[2])

SweepsAdvance ==
    [][\/ width' # width /\ mutated' /\ \A i \in DOMAIN list : width[i] <= width'[i]
       \/ /\ UNCHANGED <<width, names>>
          /\ \/ mutated /\ ~mutated'
             \/ UNCHANGED mutated /\ (Later(at', at) \/ (pc = "sweep" /\ pc' = "done"))]_vars

\* The sweeps come to an end (MakeAliasesForNames loops until nothing changes).
SweepsEnd == <>(pc = "done")
=============================================================================
