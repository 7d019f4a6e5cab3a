---------------------------- MODULE ImageRegistry ----------------------------
(***************************************************************************)
(* The OCI registries that tape reads images from and copies images to.    *)
(* They are services outside the repository: what they do is taken from    *)
(* the calls oci/oci.go makes.  A repository keeps manifests by digest,    *)
(* which nothing removes, and tags, which their owners move at any time.   *)
(*                                                                         *)
(* A manifest is its digest (SHA-256 is taken as collision free).  An      *)
(* index lists the manifests of its platforms in IndexOf; a single         *)
(* manifest has IndexOf = {}.  The tag of a cosign artefact names in its   *)
(* text the digest it is about: that digest is Subject.                    *)
(***************************************************************************)
EXTENDS Naturals, FiniteSets

CONSTANTS
    Names,       \* repositories that manifests refer to
    Dest,        \* the repository of --output-image
    Tags,        \* tags written by the authors of images
    NoTag,       \* a reference without a tag
    Latest,      \* the tag a registry client assumes when there is none
    CosignTags,  \* the tags sha256-<digest>.sig, .att and .sbom
    Subject,     \* the digest a cosign tag is about
    Digests,     \* manifests
    NoDigest,    \* a reference without a digest, a tag that does not exist
    IndexOf,     \* the manifests an index lists
    InitialTags, \* what the tags of the authors point at initially
    Versions,    \* what the authors point a tag at later
    MaxRetags    \* bound: how often authors move tags during a behaviour

Repos == Names \cup {Dest}

\* The tag of a copied image is app.<sha256 of name:tag>: the pair stands for the hash.
AppTags == Names \X (Tags \cup {NoTag})
AllTags == Tags \cup AppTags

\* A reference as it is parsed out of an image field.
Ref == [name : Repos, tag : AllTags \cup {NoTag}, digest : Digests \cup {NoDigest}]

ASSUME RegistryAssumption ==
    /\ Latest \in Tags /\ NoTag \notin AllTags
    /\ NoDigest \notin Digests
    /\ CosignTags \subseteq Tags
    /\ Subject \in [CosignTags -> Digests]
    /\ IndexOf \in [Digests -> SUBSET Digests]
    /\ InitialTags \in [Names -> [Tags -> Digests \cup {NoDigest}]]
    /\ Versions \in [Names -> [Tags -> SUBSET (Digests \cup {NoDigest})]]
    /\ MaxRetags \in Nat

VARIABLES
    stored,      \* stored[r]: the manifests that can be fetched from r by digest
    tags,        \* tags[r][t]: the digest tag t of r points at now
    retags       \* number of tags moved so far

registryVars == <<stored, tags, retags>>

RegistryTypeOK ==
    /\ stored \in [Repos -> SUBSET Digests]
    /\ tags \in [Repos -> [AllTags -> Digests \cup {NoDigest}]]
    /\ retags \in 0..MaxRetags

\* Everything the authors ever point a tag at, with the manifests it lists.
PushedBy(n) ==
    LET tops == (UNION {Versions[n][t] \cup {InitialTags[n][t]} : t \in Tags}) \cap Digests
    IN  tops \cup (UNION {IndexOf[d] : d \in tops})

RegistryInit ==
    /\ stored = [r \in Repos |-> IF r \in Names THEN PushedBy(r) ELSE {}]
    /\ tags = [r \in Repos |-> [t \in AllTags |->
                 IF r \in Names /\ t \in Tags THEN InitialTags[r][t] ELSE NoDigest]]
    /\ retags = 0

-----------------------------------------------------------------------------
(* Reading.                                                                *)

TagOf(ref) == IF ref.tag = NoTag THEN Latest ELSE ref.tag

\* What a HEAD request for ref answers: a digest identifies itself, a tag is
\* looked up now.  NoDigest is the answer "not found".
Digest(ref) ==
    IF ref.digest = NoDigest THEN tags[ref.name][TagOf(ref)]
    ELSE IF ref.digest \in stored[ref.name] THEN ref.digest
    ELSE NoDigest

\* The tags of repository n whose name starts with sha256-<d>.
ListRelated(n, d) ==
    {t \in CosignTags : Subject[t] = d /\ tags[n][t] # NoDigest}

-----------------------------------------------------------------------------
(* Writing.                                                                *)

\* Copying an index pushes the manifests it lists first, then the tag.
Push(d, t) ==
    /\ stored' = [stored EXCEPT ![Dest] = @ \cup {d} \cup IndexOf[d]]
    /\ tags' = [tags EXCEPT ![Dest][t] = d]
    /\ UNCHANGED retags

\* The authors of n point a tag at another version, or sign an image again.
Retag(n, t) ==
    /\ retags < MaxRetags
    /\ \E d \in Versions[n][t] \ {tags[n][t]} : tags' = [tags EXCEPT ![n][t] = d]
    /\ retags' = retags + 1
    /\ UNCHANGED stored
=============================================================================
