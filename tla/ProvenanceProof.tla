-------------------------- MODULE ProvenanceProof --------------------------
(***************************************************************************)
(* Proofs about Provenance, for any repository and whatever people do.     *)
(***************************************************************************)
EXTENDS Provenance, FiniteSetTheorems, TLAPS

\* The phases of a run: what is registered, when, and when all is summarised.
Before == {"detect", "compare", "staged", "unstaged", "scan"}
During == {"summariseDir", "find", "read", "summarise", "associate", "resolve", "update"}
After == {"rescan", "push"}
Summarised == {"associate", "resolve", "update"} \cup After

\* What the update makes of contents.
Changed(c) == IF c \in HasImages THEN Updated[c] ELSE c

\* The registered manifests with images, and what is said of those.
WithImages == {r \in registered : r[2] \in HasImages}
Said(kind) == {[kind |-> kind, path |-> r[1], digest |-> r[2]] : r \in WithImages}
SaidReplaced == {[kind |-> "replaced", path |-> r[1], digest |-> temp[r[1]]] : r \in WithImages}

\* Manifests that nobody touches are in the temporary directory until the update.
LoadInv ==
    /\ pc \in Before \cup During => \A f \in Manifests : f \notin touched => temp[f] = worktree[f]
    /\ \E f \in Manifests : There(f)

\* The registered digest of a manifest is the one it was loaded with.
RegisterInv ==
    /\ pc \in Before => registered = {} /\ entries = {}
    /\ \A r \in registered : There(r[1]) /\ (r[1] \notin touched => r[2] = worktree[r[1]])
    /\ \A r, s \in registered : r[1] = s[1] => r = s
    /\ pc \in During \cup After => \A f \in Manifests : There(f) => \E r \in registered : r[1] = f
    /\ pc \in During => \A r \in registered : temp[r[1]] = r[2]
    /\ pc \in Before \cup During => mutated = {}
    /\ pc \in After => \A r \in registered : temp[r[1]] = Changed(r[2])
    /\ pc \in After => mutated = {[path |-> r[1], digest |-> temp[r[1]], old |-> r[2]] : r \in WithImages}
    /\ pc \in During \cup After =>
           \A f \in Manifests : trackers[f] = IF There(f) THEN {temp[f]} ELSE {}

\* The object that was committed, as it was found.
Committed(path, object) == \E k \in DOMAIN commits : commits[k][path] = object

\* The checker of a file has what HEAD had, and then what the worktree had.
CheckerInv ==
    /\ pc \notin {"read", "summarise", "failed"} => checker = {}
    /\ \A c \in checker :
         /\ c.path \in Unsummarised /\ c.object \in Contents /\ Committed(c.path, c.object)
         /\ c.path \notin touched => c.object = HeadTree[c.path]
    /\ pc = "summarise" =>
         \A c \in checker : c.hash \in Contents /\ (c.path \notin touched => c.hash = worktree[c.path])

\* What an entry says of a file that nobody has touched.
Told(e) ==
    /\ e.object = worktree[e.path]
    /\ e.unmodified <=> worktree[e.path] = HeadTree[e.path]
    /\ e.unmodified => commits[e.source.commit][e.path] = e.object

\* There is one entry for each registered manifest that has been summarised.
EntryInv ==
    /\ \A e \in entries :
         /\ <<e.path, e.digest>> \in registered /\ e.source.commit \in DOMAIN commits
         /\ e.path \notin touched => Told(e)
         /\ e.unmodified => Committed(e.path, e.object)
    /\ \A e, g \in entries : e.path = g.path => e = g
    /\ pc \in Summarised => Unsummarised = {}

\* Statements so far.
StatementInv ==
    /\ pc \in Before \cup (During \ Summarised) => statements = {}
    /\ pc = "associate" => statements = Subjects
    /\ pc = "resolve" => statements = Subjects \cup Said("original")
    /\ pc \in {"update", "rescan"} => statements = Subjects \cup Said("original") \cup Said("resolved")
    /\ pc = "push" => statements = Subjects \cup Said("original") \cup Said("resolved") \cup SaidReplaced

\* A directory in which nothing differs, and one whose tree is in the worktree.
DirClean ==
    \A f \in InDir : \/ worktree[f] = index[f] /\ index[f] = HeadTree[f]
                     \/ f \in Ignored /\ index[f] = Absent /\ HeadTree[f] = Absent
TreeThere(fs) == \A f \in fs : HeadTree[f] # Absent => worktree[f] = HeadTree[f]

\* What the checker of the directory has found, when nobody touches it.
DirInv ==
    /\ pc = "detect" => base.unmodified
    /\ touched \cap InDir = {} =>
         /\ pc = "compare" =>
              /\ \A f \in InDir : base.tree[f] = HeadTree[f]
              /\ \A f \in unread : HeadTree[f] # Absent
              /\ IF base.unmodified THEN TreeThere(InDir \ unread) ELSE ~DirClean
         /\ pc \in {"staged", "unstaged"} => TreeThere(InDir)
         /\ pc = "staged" => base.unmodified
         /\ pc = "unstaged" => (base.unmodified <=> \A f \in InDir : HeadTree[f] = index[f])
         /\ pc \in {"scan"} \cup During \cup After => (base.unmodified <=> DirClean)

\* The inductive invariant.
IInv ==
    /\ TypeOK /\ LoadInv /\ RegisterInv /\ CheckerInv /\ EntryInv /\ StatementInv /\ DirInv
    /\ CheckedInNotRefused

-----------------------------------------------------------------------------
\* At first there are the manifests that were loaded.
LEMMA InitIInv == Init => IInv
<1> SUFFICES ASSUME Init PROVE IInv
  OBVIOUS
<1>1. /\ GitInit /\ pc = "detect" /\ temp = [f \in Manifests |-> worktree[f]]
      /\ (\E f \in Manifests : worktree[f] # Absent) /\ trackers = [f \in Manifests |-> {}]
      /\ registered = {} /\ mutated = {} /\ unread = {} /\ checker = {} /\ entries = {} /\ statements = {}
      /\ base = [tree |-> [f \in InDir |-> Absent], unmodified |-> TRUE, source |-> NoSource]
  BY DEF Init
<1>2. PICK i \in Initial : /\ worktree = i.worktree /\ index = i.index
                           /\ commits = <<i.tree>> /\ remotes = i.remotes
  BY <1>1 DEF GitInit
<1>3. GitTypeOK
  <2>1. /\ i.worktree \in Tree /\ i.index \in Tree /\ i.tree \in Tree
        /\ i.remotes \in [Remotes -> URLs \cup {NoURL}]
    BY GitAssumption
  <2>2. commits \in Seq(Tree) /\ head \in 1..Len(commits)
    BY <1>1, <1>2, <2>1 DEF GitInit
  <2>3. changes \in 0..MaxChanges /\ touched \subseteq Files
    BY <1>1, GitAssumption DEF GitInit
  <2> QED BY <1>2, <2>1, <2>2, <2>3 DEF GitTypeOK
<1>4. base \in DirEntry /\ base.unmodified
  <2>1. NoSource \in Source
    BY DEF NoSource, Source
  <2> QED BY <1>1, <2>1 DEF DirEntry
<1>5. temp \in [Manifests -> Contents \cup {Absent}] /\ trackers \in [Manifests -> SUBSET Contents]
  <2>1. \A f \in Manifests : f \in Files /\ worktree[f] \in Contents \cup {Absent}
    BY <1>3, GitAssumption, ProvenanceAssumption DEF GitTypeOK, Tree
  <2> QED BY <1>1, <2>1
<1>6. TypeOK
  BY <1>1, <1>3, <1>4, <1>5 DEF TypeOK
<1>7. LoadInv
  BY <1>1 DEF LoadInv, There
<1>8. RegisterInv
  BY <1>1 DEF RegisterInv, Before, During, After
<1>9. CheckerInv /\ EntryInv
  BY <1>1 DEF CheckerInv, EntryInv, Summarised, After
<1>10. StatementInv
  BY <1>1 DEF StatementInv, After, Before, During, Summarised
<1>11. DirInv
  BY <1>1, <1>4 DEF DirInv, During, After
<1>12. CheckedInNotRefused
  BY <1>1 DEF CheckedInNotRefused
<1> QED BY <1>6, <1>7, <1>8, <1>9, <1>10, <1>11, <1>12 DEF IInv

-----------------------------------------------------------------------------
(* What people do.                                                         *)

\* Commits stay, and files that are not touched are everywhere what they were.
LEMMA PeopleKeep ==
    ASSUME GitTypeOK, People
    PROVE  /\ GitTypeOK' /\ touched \subseteq touched'
           /\ \A k \in DOMAIN commits : k \in DOMAIN commits' /\ commits'[k] = commits[k]
           /\ \A f \in Files \ touched' : /\ worktree'[f] = worktree[f] /\ index'[f] = index[f]
                                          /\ HeadTree'[f] = HeadTree[f]
<1> USE DEF GitTypeOK, Touch, HeadTree
<1>1. /\ worktree \in Tree /\ index \in Tree /\ commits \in Seq(Tree) /\ head \in 1..Len(commits)
      /\ head \in DOMAIN commits /\ HeadTree \in Tree
      /\ remotes \in [Remotes -> URLs \cup {NoURL}] /\ changes \in 0..MaxChanges /\ touched \subseteq Files
  OBVIOUS
<1>2. ASSUME NEW fs \in SUBSET Files, Touch(fs) PROVE changes' \in 0..MaxChanges /\ touched' = touched \cup fs
  BY <1>1, <1>2, GitAssumption
<1>3. ASSUME NEW f \in Files, Edit(f)
      PROVE  /\ worktree' \in Tree /\ \A g \in Files \ {f} : worktree'[g] = worktree[g]
             /\ Touch({f}) /\ UNCHANGED <<index, commits, head, remotes>>
  <2>1. PICK c \in (Contents \cup {Absent}) \ {worktree[f]} : worktree' = [worktree EXCEPT ![f] = c]
    BY <1>3 DEF Edit
  <2>2. worktree' \in Tree /\ \A g \in Files \ {f} : worktree'[g] = worktree[g]
    BY <1>1, <2>1 DEF Tree
  <2> QED BY <1>3, <2>2 DEF Edit
<1>4. CASE \E f \in Files : Edit(f)
  <2> PICK f \in Files : Edit(f)
    BY <1>4
  <2> QED BY <1>1, <1>2, <1>3
<1>5. CASE \E f \in Files : Stage(f)
  <2> PICK f \in Files : Stage(f)
    BY <1>5
  <2>1. index' = [index EXCEPT ![f] = worktree[f]] /\ Touch({f}) /\ UNCHANGED <<worktree, commits, head, remotes>>
    BY DEF Stage
  <2>2. index' \in Tree /\ \A g \in Files \ {f} : index'[g] = index[g]
    BY <1>1, <2>1 DEF Tree
  <2> QED BY <1>1, <1>2, <2>1, <2>2
<1>6. CASE Commit
  <2> DEFINE fs == {f \in Files : HeadTree[f] # index[f]}
  <2>1. /\ commits' = Append(commits, index) /\ head' = Len(commits')
        /\ Touch(fs) /\ UNCHANGED <<worktree, index, remotes>>
    BY <1>6 DEF Commit
  <2>2. /\ commits' \in Seq(Tree) /\ head' \in 1..Len(commits') /\ commits'[head'] = index
        /\ \A k \in DOMAIN commits : k \in DOMAIN commits' /\ commits'[k] = commits[k]
    BY <1>1, <2>1
  <2>3. changes' \in 0..MaxChanges /\ touched' = touched \cup fs
    BY <1>2, <2>1
  <2> QED BY <1>1, <2>1, <2>2, <2>3
<1>7. CASE \E c \in DOMAIN commits : Reset(c)
  <2> PICK c \in DOMAIN commits : Reset(c)
    BY <1>7
  <2> DEFINE fs == {f \in Files : HeadTree[f] # commits[c][f]}
  <2>1. head' = c /\ Touch(fs) /\ UNCHANGED <<worktree, index, commits, remotes>>
    BY DEF Reset
  <2>2. changes' \in 0..MaxChanges /\ touched' = touched \cup fs
    BY <1>2, <2>1
  <2>3. c \in 1..Len(commits)
    BY <1>1
  <2> QED BY <1>1, <2>1, <2>2, <2>3
<1>8. CASE \E r \in Remotes : SetRemote(r)
  <2> PICK r \in Remotes : SetRemote(r)
    BY <1>8
  <2>1. PICK u \in URLs \cup {NoURL} : remotes' = [remotes EXCEPT ![r] = u]
    BY DEF SetRemote
  <2>2. remotes' \in [Remotes -> URLs \cup {NoURL}]
    BY <1>1, <2>1
  <2>3. Touch({}) /\ UNCHANGED <<worktree, index, commits, head>>
    BY DEF SetRemote
  <2>4. changes' \in 0..MaxChanges /\ touched' = touched
    BY <1>2, <2>3
  <2> QED BY <1>1, <2>2, <2>3, <2>4
<1> QED BY <1>4, <1>5, <1>6, <1>7, <1>8 DEF People

\* People do not disturb what is known of other files.
LEMMA PeopleStep == ASSUME IInv, People, UNCHANGED <<pc, appVars>> PROVE IInv'
<1>1. /\ pc' = pc /\ temp' = temp /\ trackers' = trackers /\ registered' = registered /\ mutated' = mutated
      /\ base' = base /\ unread' = unread /\ checker' = checker /\ entries' = entries
      /\ statements' = statements
  BY DEF appVars
<1>2. /\ GitTypeOK' /\ touched \subseteq touched'
      /\ \A k \in DOMAIN commits : k \in DOMAIN commits' /\ commits'[k] = commits[k]
      /\ \A f \in Files \ touched' : /\ worktree'[f] = worktree[f] /\ index'[f] = index[f]
                                     /\ HeadTree'[f] = HeadTree[f]
  BY PeopleKeep DEF IInv, TypeOK
<1>3. TypeOK /\ TypeOK'
  BY <1>1, <1>2 DEF IInv, TypeOK
<1>4. Manifests \subseteq Files /\ InDir \subseteq Files /\ Manifests \subseteq InDir
  BY GitAssumption, ProvenanceAssumption
<1>5. LoadInv'
  BY <1>1, <1>2, <1>4 DEF IInv, LoadInv, There
<1>6. RegisterInv'
  <2>1. \A r \in registered : r[1] \in Files
    BY <1>3, <1>4 DEF TypeOK
  <2>2. \A r \in registered : r[1] \notin touched' => r[2] = worktree'[r[1]]
    BY <1>2, <2>1 DEF IInv, RegisterInv
  <2> QED BY <1>1, <2>2 DEF IInv, RegisterInv, There, WithImages
<1>7. CheckerInv'
  <2>1. \A c \in checker : c.path \in Files
    BY <1>3 DEF TypeOK, Checker
  <2>2. ASSUME NEW c \in checker
        PROVE  /\ Committed(c.path, c.object)'
               /\ c.path \notin touched' => c.object = HeadTree'[c.path]
               /\ pc = "summarise" /\ c.path \notin touched' => c.hash = worktree'[c.path]
    BY <1>2, <2>1 DEF IInv, CheckerInv, Committed
  <2> QED BY <1>1, <2>2 DEF IInv, CheckerInv, Unsummarised, Committed
<1>8. EntryInv'
  <2>1. ASSUME NEW e \in entries
        PROVE  /\ e.source.commit \in DOMAIN commits'
               /\ e.path \notin touched' => Told(e)'
               /\ e.unmodified => Committed(e.path, e.object)'
    <3>1. e.path \in Files
      BY <1>3, <1>4 DEF TypeOK, Entry
    <3>2. /\ e.source.commit \in DOMAIN commits /\ (e.path \notin touched => Told(e))
          /\ e.unmodified => Committed(e.path, e.object)
      BY DEF IInv, EntryInv
    <3>3. e.source.commit \in DOMAIN commits' /\ commits'[e.source.commit] = commits[e.source.commit]
      BY <1>2, <3>2
    <3>4. e.path \notin touched' => Told(e)'
      BY <1>2, <3>1, <3>2, <3>3 DEF Told
    <3>5. e.unmodified => Committed(e.path, e.object)'
      BY <1>2, <3>2 DEF Committed
    <3> QED BY <3>3, <3>4, <3>5
  <2> QED BY <1>1, <2>1 DEF IInv, EntryInv, Unsummarised, Told, Committed
<1>9. StatementInv'
  BY <1>1 DEF IInv, StatementInv, Subjects, Said, SaidReplaced, WithImages
<1>10. ASSUME touched' \cap InDir = {}
       PROVE  /\ touched \cap InDir = {}
              /\ \A f \in InDir : worktree'[f] = worktree[f] /\ index'[f] = index[f] /\ HeadTree'[f] = HeadTree[f]
  BY <1>2, <1>4, <1>10
<1>11. DirInv'
  <2>1. CASE touched' \cap InDir = {}
    <3>1. (DirClean' <=> DirClean) /\ \A fs \in SUBSET InDir : TreeThere(fs)' <=> TreeThere(fs)
      BY <1>10, <2>1 DEF DirClean, TreeThere
    <3>2. unread \subseteq InDir
      BY <1>3 DEF TypeOK
    <3> QED BY <1>1, <1>10, <2>1, <3>1, <3>2 DEF IInv, DirInv
  <2>2. CASE touched' \cap InDir # {}
    BY <1>1, <2>2 DEF IInv, DirInv
  <2> QED BY <2>1, <2>2
<1>12. CheckedInNotRefused'
  BY <1>1, <1>4, <1>10 DEF IInv, CheckedInNotRefused
<1> QED BY <1>3, <1>5, <1>6, <1>7, <1>8, <1>9, <1>11, <1>12 DEF IInv

-----------------------------------------------------------------------------
(* What the run does: the repository stays as it is.                       *)

\* Which part of the invariant is not disturbed when.
LEMMA GitKept ==
    ASSUME TypeOK, UNCHANGED gitVars
    PROVE  /\ GitTypeOK' /\ worktree' = worktree /\ index' = index /\ commits' = commits /\ head' = head
           /\ touched' = touched /\ HeadTree' = HeadTree /\ DirClean' = DirClean
           /\ \A fs : TreeThere(fs)' = TreeThere(fs)
BY DEF TypeOK, GitTypeOK, gitVars, HeadTree, DirClean, TreeThere

\* What was loaded stays, unless it is updated.
LEMMA LoadKept ==
    ASSUME TypeOK, LoadInv, UNCHANGED gitVars, temp' = temp,
           pc' \in Before \cup During => pc \in Before \cup During
    PROVE  LoadInv'
BY GitKept DEF LoadInv, There

\* What is registered stays.
LEMMA RegisterKept ==
    ASSUME TypeOK, RegisterInv, UNCHANGED gitVars, UNCHANGED <<temp, trackers, registered, mutated>>,
           pc' \in Before => pc \in Before /\ entries' = entries,
           pc' \in During => pc \in During, pc' \in After => pc \in After
    PROVE  RegisterInv'
<1>1. \A r \in registered : There(r[1])' = There(r[1]) /\ worktree' = worktree /\ touched' = touched
  BY GitKept DEF There
<1>2. pc' \in Before => registered' = {} /\ entries' = {}
  BY DEF RegisterInv
<1>3. pc' \in Before \cup During => mutated' = {}
  BY DEF RegisterInv
<1>4. pc' \in After => mutated' = {[path |-> r[1], digest |-> temp'[r[1]], old |-> r[2]] : r \in WithImages'}
  BY DEF RegisterInv, WithImages
<1>5. pc' \in During \cup After =>
        /\ \A f \in Manifests : There(f)' => \E r \in registered' : r[1] = f
        /\ \A f \in Manifests : trackers'[f] = IF There(f)' THEN {temp'[f]} ELSE {}
  BY DEF RegisterInv, There
<1>6. /\ pc' \in During => \A r \in registered' : temp'[r[1]] = r[2]
      /\ pc' \in After => \A r \in registered' : temp'[r[1]] = Changed(r[2])
      /\ \A r, s \in registered' : r[1] = s[1] => r = s
  BY DEF RegisterInv
<1>7. \A r \in registered' : There(r[1])' /\ (r[1] \notin touched' => r[2] = worktree'[r[1]])
  BY <1>1 DEF RegisterInv
<1> QED BY <1>2, <1>3, <1>4, <1>5, <1>6, <1>7 DEF RegisterInv, Changed

\* No checker is at work.
LEMMA CheckerKept == ASSUME checker' = {} PROVE CheckerInv'
BY DEF CheckerInv

\* Entries stay.
LEMMA EntryKept ==
    ASSUME TypeOK, EntryInv, UNCHANGED gitVars, UNCHANGED <<registered, entries>>,
           pc' \in Summarised => pc \in Summarised
    PROVE  EntryInv'
<1>1. commits' = commits /\ worktree' = worktree /\ touched' = touched /\ HeadTree' = HeadTree
  BY GitKept
<1>2. \A e \in entries : Told(e)' = Told(e) /\ Committed(e.path, e.object)' = Committed(e.path, e.object)
  BY <1>1 DEF Told, Committed
<1> QED BY <1>1, <1>2 DEF EntryInv, Unsummarised

\* Statements stay.
LEMMA StatementKept ==
    ASSUME StatementInv, UNCHANGED statements,
           pc \in Before \cup (During \ Summarised),
           pc' \in Before \cup (During \ Summarised) \cup {"failed", "panicked"}
    PROVE  StatementInv'
BY DEF StatementInv, Before, During, Summarised, After

\* The verdict on the directory stays.
LEMMA DirKept ==
    ASSUME TypeOK, DirInv, UNCHANGED gitVars, base'.unmodified = base.unmodified,
           pc \in {"scan"} \cup During \cup After,
           pc' \in {"scan", "failed"} \cup During \cup After
    PROVE  DirInv'
BY GitKept DEF DirInv, During, After

\* A run that is refused leaves everything.
LEMMA AbortStep ==
    ASSUME IInv, Abort,
           ~(/\ touched \cap InDir = {}
             /\ \A f \in InDir : HeadTree[f] # Absent => worktree[f] # Absent
             /\ \A f \in Manifests : worktree[f] # Absent => HeadTree[f] # Absent)
    PROVE  IInv'
<1>1. /\ pc' = "failed" /\ UNCHANGED gitVars /\ temp' = temp /\ trackers' = trackers
      /\ registered' = registered /\ mutated' = mutated /\ base' = base /\ unread' = unread
      /\ checker' = checker /\ entries' = entries /\ statements' = statements
  BY DEF Abort, Goto, appVars
<1>2. /\ TypeOK /\ GitTypeOK' /\ worktree' = worktree /\ commits' = commits
      /\ touched' = touched /\ HeadTree' = HeadTree
  BY <1>1, GitKept DEF IInv
<1>3. TypeOK'
  BY <1>1, <1>2 DEF TypeOK
<1>4. LoadInv' /\ RegisterInv'
  BY <1>1, <1>2, LoadKept, RegisterKept DEF IInv, Before, During, After
<1>5. CheckerInv'
  BY <1>1, <1>2 DEF IInv, CheckerInv, Unsummarised, Committed
<1>6. EntryInv'
  BY <1>1, <1>2, EntryKept DEF IInv, Summarised, After
<1>7. StatementInv'
  BY <1>1 DEF StatementInv, Before, During, Summarised, After
<1>8. DirInv'
  BY <1>1 DEF DirInv, During, After
<1>9. CheckedInNotRefused'
  BY <1>2 DEF CheckedInNotRefused
<1> QED BY <1>3, <1>4, <1>5, <1>6, <1>7, <1>8, <1>9 DEF IInv

-----------------------------------------------------------------------------
(* The check of the directory.                                             *)

\* Only the checker of the directory has been at work.
LEMMA DirCheckKeeps ==
    ASSUME IInv, pc \in Before, pc' \in Before \cup {"panicked"},
           UNCHANGED gitVars, UNCHANGED <<temp, trackers, registered, mutated, checker, entries, statements>>
    PROVE  LoadInv' /\ RegisterInv' /\ CheckerInv' /\ EntryInv' /\ StatementInv' /\ CheckedInNotRefused'
<1>1. /\ TypeOK /\ LoadInv /\ RegisterInv /\ CheckerInv /\ EntryInv /\ StatementInv
      /\ temp' = temp /\ checker' = checker /\ statements' = statements
  BY DEF IInv
<1>2. LoadInv' /\ RegisterInv'
  BY <1>1, LoadKept, RegisterKept DEF Before, During, After
<1>3. checker' = {}
  BY <1>1 DEF CheckerInv, Before
<1>4. EntryInv'
  BY <1>1, EntryKept DEF Before, Summarised, After
<1>5. StatementInv'
  BY <1>1, StatementKept DEF Before, During, Summarised, After
<1>6. CheckedInNotRefused'
  BY DEF CheckedInNotRefused, Before
<1> QED BY <1>2, <1>3, <1>4, <1>5, <1>6, CheckerKept

\* A directory that is checked in has something in HEAD.
LEMMA DetectStep == ASSUME IInv, Detect PROVE IInv'
<1>1. pc = "detect" /\ TypeOK /\ LoadInv
  BY DEF Detect, IInv
<1>2. Manifests \subseteq InDir /\ InDir \subseteq Files
  BY GitAssumption, ProvenanceAssumption
<1>3. CASE ~InGit
  <2>1. /\ pc' = "panicked" /\ UNCHANGED gitVars /\ base' = base /\ unread' = unread
        /\ UNCHANGED <<temp, trackers, registered, mutated, checker, entries, statements>>
    BY <1>3 DEF Detect, Goto, appVars
  <2>2. TypeOK'
    BY <1>1, <2>1, GitKept DEF TypeOK
  <2>3. DirInv'
    BY <2>1 DEF DirInv, During, After
  <2> QED BY <1>1, <2>1, <2>2, <2>3, DirCheckKeeps DEF IInv, Before
<1>4. CASE InGit /\ \A f \in InDir : HeadTree[f] = Absent
  <2>1. Abort
    BY <1>4 DEF Detect
  <2>2. PICK f \in Manifests : temp[f] # Absent
    BY <1>1 DEF LoadInv, There
  <2>3. f \notin touched => worktree[f] # Absent
    BY <1>1, <2>2 DEF LoadInv, Before
  <2> QED BY <1>2, <1>4, <2>1, <2>3, AbortStep
<1>5. CASE InGit /\ ~\A f \in InDir : HeadTree[f] = Absent
  <2>1. /\ base' = [base EXCEPT !.tree = [f \in InDir |-> HeadTree[f]]]
        /\ unread' = {f \in InDir : HeadTree[f] # Absent}
        /\ pc' = "compare" /\ UNCHANGED gitVars
        /\ UNCHANGED <<temp, trackers, registered, mutated, checker, entries, statements>>
    BY <1>5 DEF Detect, Goto
  <2>2. HeadTree \in Tree
    BY <1>1 DEF TypeOK, GitTypeOK, HeadTree
  <2>3. [f \in InDir |-> HeadTree[f]] \in [InDir -> Contents \cup {Absent}]
    BY <1>2, <2>2 DEF Tree
  <2>4. base' \in DirEntry /\ base'.unmodified = base.unmodified /\ base'.tree = [f \in InDir |-> HeadTree[f]]
    BY <1>1, <2>1, <2>3 DEF TypeOK, DirEntry
  <2>5. TypeOK'
    BY <1>1, <2>1, <2>4, GitKept DEF TypeOK
  <2>6. base'.unmodified
    BY <1>1, <2>4 DEF IInv, DirInv
  <2>7. \A f \in InDir \ unread' : HeadTree[f] = Absent
    BY <2>1
  <2>8. HeadTree' = HeadTree /\ TreeThere(InDir \ unread)'
    BY <1>1, <2>1, <2>7, GitKept DEF TreeThere
  <2>9. DirInv'
    <3>1. /\ \A f \in InDir : base'.tree[f] = HeadTree'[f]
          /\ \A f \in unread' : HeadTree'[f] # Absent
      BY <2>1, <2>4, <2>8
    <3> QED BY <2>1, <2>6, <2>8, <3>1 DEF DirInv, During, After
  <2> QED BY <1>1, <2>1, <2>5, <2>9, DirCheckKeeps DEF IInv, Before
<1> QED BY <1>3, <1>4, <1>5

\* A file of the tree is there, unless it has been removed, and tells whether
\* the directory differs.
LEMMA CompareFileStep == ASSUME IInv, NEW f \in InDir, CompareFile(f) PROVE IInv'
<1>1. pc = "compare" /\ base.unmodified /\ f \in unread /\ TypeOK /\ DirInv
  BY DEF CompareFile, IInv
<1>2. CASE worktree[f] = Absent
  <2>1. Abort
    BY <1>2 DEF CompareFile
  <2>2. touched \cap InDir = {} => HeadTree[f] # Absent
    BY <1>1 DEF DirInv
  <2> QED BY <1>2, <2>1, <2>2, AbortStep
<1>3. CASE worktree[f] # Absent
  <2>1. /\ base' = [base EXCEPT !.unmodified = (worktree[f] = base.tree[f])]
        /\ unread' = unread \ {f} /\ pc' = "compare" /\ UNCHANGED gitVars
        /\ UNCHANGED <<temp, trackers, registered, mutated, checker, entries, statements>>
    BY <1>3 DEF CompareFile, Goto
  <2>2. /\ base' \in DirEntry /\ base'.tree = base.tree
        /\ base'.unmodified <=> worktree[f] = base.tree[f]
    <3>1. base \in DirEntry /\ (worktree[f] = base.tree[f]) \in BOOLEAN
      BY <1>1 DEF TypeOK
    <3> QED BY <2>1, <3>1 DEF DirEntry
  <2>3. TypeOK'
    BY <1>1, <2>1, <2>2, GitKept DEF TypeOK
  <2>4. worktree' = worktree /\ HeadTree' = HeadTree /\ touched' = touched /\ DirClean' = DirClean
    BY <1>1, <2>1, GitKept
  <2>5. DirInv'
    <3>1. CASE touched \cap InDir = {}
      <4>1. /\ \A g \in InDir : base.tree[g] = HeadTree[g]
            /\ \A g \in unread : HeadTree[g] # Absent
            /\ TreeThere(InDir \ unread)
        BY <1>1, <3>1 DEF DirInv
      <4>2. base'.unmodified => TreeThere(InDir \ unread)'
        BY <2>1, <2>2, <2>4, <4>1 DEF TreeThere
      <4>3. ~base'.unmodified => ~DirClean'
        BY <1>1, <2>2, <2>4, <4>1 DEF DirClean
      <4> QED BY <2>1, <2>2, <2>4, <4>1, <4>2, <4>3 DEF DirInv, During, After
    <3>2. CASE touched \cap InDir # {}
      BY <2>1, <2>4, <3>2 DEF DirInv
    <3> QED BY <3>1, <3>2
  <2> QED BY <1>1, <2>1, <2>3, <2>5, DirCheckKeeps DEF IInv, Before
<1> QED BY <1>2, <1>3

\* The tree is in the worktree, or the directory differs.
LEMMA EndCompareStep == ASSUME IInv, EndCompare PROVE IInv'
<1>1. /\ pc = "compare" /\ (unread = {} \/ ~base.unmodified) /\ TypeOK /\ DirInv
      /\ pc' = IF base.unmodified THEN "staged" ELSE "scan"
      /\ UNCHANGED gitVars /\ base' = base /\ unread' = unread
      /\ UNCHANGED <<temp, trackers, registered, mutated, checker, entries, statements>>
  BY DEF EndCompare, Goto, appVars, IInv
<1>2. TypeOK'
  BY <1>1, GitKept DEF TypeOK
<1>3. touched' = touched /\ DirClean' = DirClean /\ TreeThere(InDir)' = TreeThere(InDir)
  BY <1>1, GitKept
<1>4. ASSUME touched \cap InDir = {}
      PROVE  (base.unmodified => TreeThere(InDir)) /\ (~base.unmodified => ~DirClean)
  BY <1>1, <1>4 DEF DirInv, TreeThere
<1>5. DirInv'
  BY <1>1, <1>3, <1>4 DEF DirInv, During, After
<1> QED BY <1>1, <1>2, <1>5, DirCheckKeeps DEF IInv, Before

\* What Status says of the index.
LEMMA CompareStagedStep == ASSUME IInv, CompareStaged PROVE IInv'
<1>1. /\ pc = "staged" /\ TypeOK /\ DirInv
      /\ base' = [base EXCEPT !.unmodified = @ /\ StagedChanges \cap InDir = {}]
      /\ pc' = "unstaged" /\ UNCHANGED gitVars /\ unread' = unread
      /\ UNCHANGED <<temp, trackers, registered, mutated, checker, entries, statements>>
  BY DEF CompareStaged, Compare, Goto, IInv
<1>2. /\ base' \in DirEntry
      /\ base'.unmodified <=> base.unmodified /\ StagedChanges \cap InDir = {}
  <2>1. base \in DirEntry /\ base.unmodified \in BOOLEAN
    BY <1>1 DEF TypeOK, DirEntry
  <2>2. (base.unmodified /\ StagedChanges \cap InDir = {}) \in BOOLEAN
    OBVIOUS
  <2> QED BY <1>1, <2>1, <2>2 DEF DirEntry
<1>3. TypeOK'
  BY <1>1, <1>2, GitKept DEF TypeOK
<1>4. /\ touched' = touched /\ HeadTree' = HeadTree /\ index' = index
      /\ TreeThere(InDir)' = TreeThere(InDir)
  BY <1>1, GitKept
<1>5. StagedChanges \cap InDir = {} <=> \A f \in InDir : HeadTree[f] = index[f]
  BY GitAssumption DEF StagedChanges
<1>6. DirInv'
  BY <1>1, <1>2, <1>4, <1>5 DEF DirInv, During, After
<1> QED BY <1>1, <1>3, <1>6, DirCheckKeeps DEF IInv, Before

\* And of the files.
LEMMA CompareUnstagedStep == ASSUME IInv, CompareUnstaged PROVE IInv'
<1>1. /\ pc = "unstaged" /\ TypeOK /\ DirInv
      /\ base' = [base EXCEPT !.unmodified = @ /\ UnstagedChanges \cap InDir = {}]
      /\ pc' = "scan" /\ UNCHANGED gitVars /\ unread' = unread
      /\ UNCHANGED <<temp, trackers, registered, mutated, checker, entries, statements>>
  BY DEF CompareUnstaged, Compare, Goto, IInv
<1>2. /\ base' \in DirEntry
      /\ base'.unmodified <=> base.unmodified /\ UnstagedChanges \cap InDir = {}
  <2>1. base \in DirEntry /\ base.unmodified \in BOOLEAN
    BY <1>1 DEF TypeOK, DirEntry
  <2>2. (base.unmodified /\ UnstagedChanges \cap InDir = {}) \in BOOLEAN
    OBVIOUS
  <2> QED BY <1>1, <2>1, <2>2 DEF DirEntry
<1>3. TypeOK'
  BY <1>1, <1>2, GitKept DEF TypeOK
<1>4. touched' = touched /\ DirClean' = DirClean
  BY <1>1, GitKept
<1>5. UnstagedChanges \cap InDir = {} <=>
        \A f \in InDir : index[f] = worktree[f] \/ (index[f] = Absent /\ f \in Ignored)
  BY GitAssumption DEF UnstagedChanges
<1>6. ASSUME touched \cap InDir = {} PROVE base'.unmodified <=> DirClean
  <2>1. TreeThere(InDir) /\ (base.unmodified <=> \A f \in InDir : HeadTree[f] = index[f])
    BY <1>1, <1>6 DEF DirInv
  <2>2. ASSUME DirClean PROVE base'.unmodified
    BY <1>2, <1>5, <2>1, <2>2 DEF DirClean
  <2>3. ASSUME base'.unmodified PROVE DirClean
    BY <1>2, <1>5, <2>1, <2>3 DEF DirClean
  <2> QED BY <2>2, <2>3
<1>7. DirInv'
  BY <1>1, <1>4, <1>6 DEF DirInv, During, After
<1> QED BY <1>1, <1>3, <1>7, DirCheckKeeps DEF IInv, Before

-----------------------------------------------------------------------------
(* Registered manifests and their checkers.                                *)

\* Every manifest that was loaded is registered, once, with its digest.
LEMMA ScanStep == ASSUME IInv, Scan PROVE IInv'
<1>1. /\ pc = "scan" /\ TypeOK /\ LoadInv /\ RegisterInv /\ CheckerInv /\ EntryInv /\ StatementInv /\ DirInv
      /\ trackers' = [f \in Manifests |-> IF There(f) THEN {temp[f]} ELSE {}]
      /\ registered' = {<<f, temp[f]>> : f \in {g \in Manifests : There(g)}}
      /\ pc' = "summariseDir" /\ UNCHANGED gitVars
      /\ UNCHANGED <<temp, mutated, base, unread, checker, entries, statements>>
  BY DEF Scan, Scanned, Goto, IInv
<1>2. entries = {} /\ entries' = {} /\ checker' = {} /\ mutated' = {}
  BY <1>1 DEF RegisterInv, CheckerInv, Before
<1>3. \A f \in Manifests : There(f)' = There(f) /\ (There(f) => temp[f] \in Contents)
  BY <1>1 DEF There, TypeOK
<1>4. TypeOK'
  <2>1. registered' \subseteq Manifests \X Contents
    BY <1>1, <1>3
  <2>2. trackers' \in [Manifests -> SUBSET Contents]
    BY <1>1, <1>3
  <2> QED BY <1>1, <2>1, <2>2, GitKept DEF TypeOK
<1>5. LoadInv'
  BY <1>1, LoadKept DEF Before, During
<1>6. RegisterInv'
  <2>1. ASSUME NEW r \in registered'
        PROVE  /\ r[1] \in Manifests /\ There(r[1]) /\ r = <<r[1], temp[r[1]]>>
               /\ r[1] \notin touched' => r[2] = worktree'[r[1]]
    <3>1. touched' = touched /\ worktree' = worktree
      BY <1>1, GitKept
    <3> QED BY <1>1, <3>1 DEF LoadInv, Before
  <2>2. \A f \in Manifests : There(f) => <<f, temp[f]>> \in registered'
    BY <1>1
  <2>3. \A r, q \in registered' : r[1] = q[1] => r = q
    BY <2>1
  <2>4. \A f \in Manifests : trackers'[f] = IF There(f)' THEN {temp'[f]} ELSE {}
    BY <1>1, <1>3
  <2>5. \A f \in Manifests : There(f)' => \E r \in registered' : r[1] = f
    BY <1>3, <2>2
  <2>6. \A r \in registered' : There(r[1])' /\ temp'[r[1]] = r[2]
    BY <1>1, <1>3, <2>1
  <2> QED BY <1>1, <1>2, <2>1, <2>3, <2>4, <2>5, <2>6 DEF RegisterInv, Before, During, After
<1>7. CheckerInv' /\ EntryInv'
  BY <1>1, <1>2, CheckerKept DEF EntryInv, Summarised, After
<1>8. StatementInv'
  BY <1>1, StatementKept DEF Before, During, Summarised, After
<1>9. DirInv'
  BY <1>1, DirKept DEF During
<1>10. CheckedInNotRefused'
  BY <1>1 DEF CheckedInNotRefused
<1> QED BY <1>4, <1>5, <1>6, <1>7, <1>8, <1>9, <1>10 DEF IInv

\* A summary names the commit that HEAD is.
LEMMA SourcesNow ==
    ASSUME GitTypeOK, NEW s \in Sources
    PROVE  s \in Source /\ s.commit = head /\ head \in DOMAIN commits
<1>1. PICK u \in PrimaryURLs : s = [url |-> u, commit |-> head, remotes |-> Cardinality(RemotesThere)]
  BY DEF Sources
<1>2. u \in URLs \cup {NoURL}
  BY GitAssumption DEF GitTypeOK, PrimaryURLs, RemotesThere
<1>3. Cardinality(RemotesThere) \in Nat
  <2>1. IsFiniteSet(RemotesThere)
    BY GitAssumption, FS_Subset DEF RemotesThere
  <2> QED BY <2>1, FS_CardinalityType
<1>4. head \in DOMAIN commits /\ head \in Nat
  BY DEF GitTypeOK
<1> QED BY <1>1, <1>2, <1>3, <1>4 DEF Source

\* The directory is summarised.
LEMMA SummariseDirStep == ASSUME IInv, SummariseDir PROVE IInv'
<1>1. /\ pc = "summariseDir" /\ TypeOK /\ LoadInv /\ RegisterInv /\ CheckerInv /\ EntryInv
      /\ StatementInv /\ DirInv
      /\ pc' = "find" /\ UNCHANGED gitVars
      /\ UNCHANGED <<temp, trackers, registered, mutated, unread, checker, entries, statements>>
  BY DEF SummariseDir, Goto, IInv
<1>2. PICK s \in Sources : base' = [base EXCEPT !.source = s]
  BY DEF SummariseDir
<1>3. s \in Source
  BY <1>1, SourcesNow DEF TypeOK
<1>4. base' \in DirEntry /\ base'.unmodified = base.unmodified
  BY <1>1, <1>2, <1>3 DEF TypeOK, DirEntry
<1>5. TypeOK'
  BY <1>1, <1>4, GitKept DEF TypeOK
<1>6. LoadInv' /\ RegisterInv'
  BY <1>1, LoadKept, RegisterKept DEF Before, During, After
<1>7. checker' = {}
  BY <1>1 DEF CheckerInv
<1>8. EntryInv' /\ StatementInv'
  BY <1>1, EntryKept, StatementKept DEF Before, During, Summarised, After
<1>9. DirInv'
  BY <1>1, <1>4, DirKept DEF During
<1>10. CheckedInNotRefused'
  BY <1>1 DEF CheckedInNotRefused
<1> QED BY <1>5, <1>6, <1>7, <1>8, <1>9, <1>10, CheckerKept DEF IInv

\* Steps of a checker of a file leave all but that checker.
LEMMA CheckerKeeps ==
    ASSUME IInv, pc \in {"find", "read"}, pc' \in {"read", "summarise"}, UNCHANGED gitVars,
           UNCHANGED <<temp, trackers, registered, mutated, base, unread, entries, statements>>,
           checker' \subseteq Checker, CheckerInv'
    PROVE  IInv'
<1>1. /\ TypeOK /\ LoadInv /\ RegisterInv /\ EntryInv /\ StatementInv /\ DirInv
      /\ temp' = temp /\ base' = base /\ statements' = statements
      /\ UNCHANGED <<temp, trackers, registered, mutated>> /\ UNCHANGED <<registered, entries>>
  BY DEF IInv
<1>2. TypeOK'
  BY <1>1, GitKept DEF TypeOK
<1>3. LoadInv' /\ RegisterInv'
  BY <1>1, LoadKept, RegisterKept DEF Before, During, After
<1>4. EntryInv' /\ StatementInv'
  BY <1>1, EntryKept, StatementKept DEF Before, During, Summarised, After
<1>5. DirInv'
  BY <1>1, DirKept DEF During
<1>6. CheckedInNotRefused'
  BY DEF CheckedInNotRefused
<1> QED BY <1>2, <1>3, <1>4, <1>5, <1>6 DEF IInv

\* A registered manifest was there when it was loaded.
LEMMA RegisteredThere ==
    ASSUME TypeOK, LoadInv, RegisterInv, pc \in During, NEW f \in Unsummarised
    PROVE  f \in Manifests /\ f \in InDir /\ f \in Files /\ (f \notin touched => worktree[f] # Absent)
<1>1. PICK r \in registered : r[1] = f
  BY DEF Unsummarised
<1>2. r[1] \in Manifests /\ temp[f] # Absent
  BY <1>1 DEF TypeOK, RegisterInv, There
<1>3. f \notin touched => temp[f] = worktree[f]
  BY <1>1, <1>2 DEF LoadInv
<1> QED BY <1>1, <1>2, <1>3, GitAssumption, ProvenanceAssumption

\* The object that is found is that of HEAD.
LEMMA FindStep == ASSUME IInv, NEW f \in Manifests, Find(f) PROVE IInv'
<1>1. pc = "find" /\ f \in Unsummarised /\ TypeOK /\ LoadInv /\ RegisterInv
  BY DEF Find, IInv
<1>2. f \in InDir /\ f \in Files /\ (f \notin touched => worktree[f] # Absent)
  BY <1>1, RegisteredThere DEF During
<1>3. CASE HeadTree[f] = Absent
  <2>1. Abort
    BY <1>3 DEF Find
  <2> QED BY <1>2, <1>3, <2>1, AbortStep
<1>4. CASE HeadTree[f] # Absent
  <2> DEFINE c == [path |-> f, object |-> HeadTree[f], hash |-> Absent]
  <2>1. /\ checker' = {c} /\ pc' = "read" /\ UNCHANGED gitVars
        /\ UNCHANGED <<temp, trackers, registered, mutated, base, unread, entries, statements>>
    BY <1>4 DEF Find, Goto
  <2>2. HeadTree \in Tree /\ head \in DOMAIN commits
    BY <1>1 DEF TypeOK, GitTypeOK, HeadTree
  <2>3. HeadTree[f] \in Contents
    BY <1>2, <1>4, <2>2 DEF Tree
  <2>4. c \in Checker
    BY <1>2, <2>3 DEF Checker
  <2>5. c.path = f /\ c.object = HeadTree[f]
    OBVIOUS
  <2> HIDE DEF c
  <2>6. Committed(c.path, c.object)
    BY <2>2, <2>5 DEF Committed, HeadTree
  <2>7. commits' = commits /\ HeadTree' = HeadTree /\ touched' = touched /\ Unsummarised' = Unsummarised
    BY <1>1, <2>1, GitKept DEF Unsummarised
  <2>8. CheckerInv'
    BY <1>1, <2>1, <2>3, <2>5, <2>6, <2>7 DEF CheckerInv, Committed
  <2> QED BY <1>1, <2>1, <2>4, <2>8, CheckerKeeps
<1> QED BY <1>3, <1>4

\* The file that is read is in HEAD, so it is there unless it has been removed.
LEMMA ReadStep == ASSUME IInv, NEW c \in checker, Read(c) PROVE IInv'
<1>1. /\ pc = "read" /\ TypeOK /\ LoadInv /\ RegisterInv /\ CheckerInv
      /\ c \in Checker /\ c.path \in Unsummarised /\ c.object \in Contents
      /\ Committed(c.path, c.object) /\ (c.path \notin touched => c.object = HeadTree[c.path])
  BY DEF Read, IInv, CheckerInv, TypeOK
<1>2. c.path \in InDir /\ c.path \in Files /\ c.path \in Manifests
  BY <1>1, RegisteredThere DEF During
<1>3. CASE worktree[c.path] = Absent
  <2>1. Abort
    BY <1>3 DEF Read
  <2>2. c.object # Absent
    BY <1>1, GitAssumption
  <2> QED BY <1>1, <1>2, <1>3, <2>1, <2>2, AbortStep
<1>4. CASE worktree[c.path] # Absent
  <2> DEFINE d == [c EXCEPT !.hash = worktree[c.path]]
  <2>1. /\ checker' = {d} /\ pc' = "summarise" /\ UNCHANGED gitVars
        /\ UNCHANGED <<temp, trackers, registered, mutated, base, unread, entries, statements>>
    BY <1>4 DEF Read, Goto
  <2>2. worktree[c.path] \in Contents
    BY <1>1, <1>2, <1>4 DEF TypeOK, GitTypeOK, Tree
  <2>3. d \in Checker /\ d.path = c.path /\ d.object = c.object /\ d.hash = worktree[c.path]
    BY <1>1, <2>2 DEF Checker
  <2> HIDE DEF d
  <2>4. /\ commits' = commits /\ HeadTree' = HeadTree /\ touched' = touched /\ worktree' = worktree
        /\ Unsummarised' = Unsummarised
    BY <1>1, <2>1, GitKept DEF Unsummarised
  <2>5. CheckerInv'
    BY <1>1, <2>1, <2>2, <2>3, <2>4 DEF CheckerInv, Committed
  <2> QED BY <1>1, <2>1, <2>3, <2>5, CheckerKeeps
<1> QED BY <1>3, <1>4

\* The entry of a file nobody has touched says what is the case.
LEMMA SummariseStep == ASSUME IInv, NEW c \in checker, Summarise(c) PROVE IInv'
<1>1. /\ pc = "summarise" /\ TypeOK /\ LoadInv /\ RegisterInv /\ CheckerInv /\ EntryInv /\ StatementInv /\ DirInv
      /\ checker' = {} /\ pc' = "find" /\ UNCHANGED gitVars
      /\ UNCHANGED <<temp, trackers, registered, mutated, base, unread, statements>>
  BY DEF Summarise, Goto, IInv
<1>2. PICK r \in registered, s \in Sources :
        /\ r[1] = c.path
        /\ entries' = entries \cup {[path |-> c.path, digest |-> r[2], unmodified |-> c.object = c.hash,
                                     object |-> c.hash, source |-> s]}
  BY DEF Summarise
<1> DEFINE e == [path |-> c.path, digest |-> r[2], unmodified |-> c.object = c.hash,
                 object |-> c.hash, source |-> s]
<1>3. /\ c.path \in Unsummarised /\ c.object \in Contents /\ Committed(c.path, c.object)
      /\ c.path \notin touched => c.object = HeadTree[c.path] /\ c.hash = worktree[c.path]
      /\ c.hash \in Contents
  BY <1>1 DEF CheckerInv
<1>4. c.path \in Manifests /\ r = <<c.path, r[2]>> /\ r[2] \in Contents
  BY <1>1, <1>2 DEF TypeOK
<1>5. s \in Source /\ s.commit = head /\ head \in DOMAIN commits
  BY <1>1, SourcesNow DEF TypeOK
<1>6. e \in Entry
  <2>1. (c.object = c.hash) \in BOOLEAN
    OBVIOUS
  <2> QED BY <1>3, <1>4, <1>5, <2>1 DEF Entry
<1>7. e.path = c.path /\ e.digest = r[2] /\ e.object = c.hash /\ e.source = s
  OBVIOUS
<1>8. e.unmodified <=> c.object = c.hash
  OBVIOUS
<1>9. entries' = entries \cup {e}
  BY <1>2
<1> HIDE DEF e
<1>10. TypeOK'
  BY <1>1, <1>6, <1>9, GitKept DEF TypeOK
<1>11. LoadInv' /\ RegisterInv'
  BY <1>1, LoadKept, RegisterKept DEF Before, During, After
<1>12. commits' = commits /\ HeadTree' = HeadTree /\ touched' = touched /\ worktree' = worktree
  BY <1>1, GitKept
<1>13. EntryInv'
  <2>1. ASSUME NEW g \in entries'
        PROVE  /\ <<g.path, g.digest>> \in registered' /\ g.source.commit \in DOMAIN commits'
               /\ g.path \notin touched' => Told(g)'
               /\ g.unmodified => Committed(g.path, g.object)'
    <3>1. CASE g \in entries
      BY <1>1, <1>12, <3>1 DEF EntryInv, Told, Committed
    <3>2. CASE g = e
      <4>1. <<g.path, g.digest>> \in registered' /\ g.source.commit = head /\ g.source.commit \in DOMAIN commits'
        BY <1>1, <1>4, <1>5, <1>7, <1>12, <3>2
      <4>2. g.unmodified => Committed(g.path, g.object)'
        BY <1>3, <1>7, <1>8, <1>12, <3>2 DEF Committed
      <4>3. ASSUME g.path \notin touched' PROVE Told(g)'
        <5>1. c.object = HeadTree[c.path] /\ c.hash = worktree[c.path]
          BY <1>3, <1>7, <1>12, <3>2, <4>3
        <5>2. g.object = worktree[g.path] /\ (g.unmodified <=> HeadTree[g.path] = worktree[g.path])
          BY <1>7, <1>8, <3>2, <5>1
        <5>3. g.unmodified => commits[g.source.commit][g.path] = g.object
          BY <4>1, <5>2 DEF HeadTree
        <5> QED BY <1>12, <5>2, <5>3 DEF Told
      <4> QED BY <4>1, <4>2, <4>3
    <3> QED BY <1>9, <3>1, <3>2
  <2>2. \A g \in entries : g.path # e.path
    BY <1>3, <1>7 DEF Unsummarised
  <2>3. \A g, h \in entries' : g.path = h.path => g = h
    BY <1>1, <1>9, <2>2 DEF EntryInv
  <2> QED BY <1>1, <2>1, <2>3 DEF EntryInv, Summarised, After
<1>14. StatementInv'
  BY <1>1, StatementKept DEF Before, During, Summarised, After
<1>15. DirInv'
  BY <1>1, DirKept DEF During
<1>16. CheckedInNotRefused'
  BY <1>1 DEF CheckedInNotRefused
<1> QED BY <1>1, <1>10, <1>11, <1>13, <1>14, <1>15, <1>16, CheckerKept DEF IInv

-----------------------------------------------------------------------------
(* Statements.                                                             *)

\* A statement that is relevant is added.
LEMMA AssociateKeeps ==
    ASSUME IInv, NEW ss \in SUBSET Statement, NEW next, Associate(ss, next), Relevant(ss),
           pc \in {"find"} \cup Summarised, Unsummarised = {}, next \in Summarised,
           next \in During => pc \in During, next \in After => pc \in After
    PROVE  /\ pc' = next /\ statements' = statements \cup ss
           /\ UNCHANGED <<temp, registered, entries>>
           /\ StatementInv' => IInv'
<1>1. /\ TypeOK /\ LoadInv /\ RegisterInv /\ CheckerInv /\ EntryInv /\ DirInv
      /\ statements' = statements \cup ss /\ pc' = next /\ UNCHANGED gitVars
      /\ UNCHANGED <<temp, trackers, registered, mutated>> /\ UNCHANGED <<registered, entries>>
      /\ base' = base /\ unread' = unread /\ checker' = checker
  BY DEF Associate, Goto, IInv
<1>2. TypeOK'
  BY <1>1, GitKept DEF TypeOK, Summarised, After
<1>3. LoadInv' /\ RegisterInv'
  BY <1>1, LoadKept, RegisterKept DEF Summarised, Before, During, After
<1>4. checker' = {}
  BY <1>1 DEF CheckerInv, Summarised, After
<1>5. EntryInv'
  <2>1. CASE pc \in Summarised
    BY <1>1, <2>1, EntryKept
  <2>2. CASE pc = "find"
    <3>1. commits' = commits /\ worktree' = worktree /\ touched' = touched /\ HeadTree' = HeadTree
      BY <1>1, GitKept
    <3>2. \A e \in entries : Told(e)' = Told(e) /\ Committed(e.path, e.object)' = Committed(e.path, e.object)
      BY <3>1 DEF Told, Committed
    <3> QED BY <1>1, <3>1, <3>2 DEF EntryInv, Unsummarised
  <2> QED BY <2>1, <2>2
<1>6. DirInv'
  BY <1>1, DirKept DEF Summarised, During, After
<1>7. CheckedInNotRefused'
  BY <1>1 DEF CheckedInNotRefused, Summarised, After
<1> QED BY <1>1, <1>2, <1>3, <1>4, <1>5, <1>6, <1>7, CheckerKept DEF IInv

\* Statements about all entries are about registered manifests.
LEMMA AssociateCoreStep == ASSUME IInv, AssociateCoreStatements PROVE IInv'
<1>1. /\ pc = "find" /\ Unsummarised = {} /\ Associate(Subjects, "associate")
      /\ TypeOK /\ EntryInv /\ StatementInv
  BY DEF AssociateCoreStatements, IInv
<1>2. Subjects \in SUBSET Statement
  BY <1>1 DEF Subjects, Statement, TypeOK, Entry
<1>3. Relevant(Subjects)
  <2>1. ASSUME NEW s \in Subjects PROVE <<s.path, s.digest>> \in registered
    <3>1. PICK e \in entries : s = [kind |-> "dirContents", path |-> e.path, digest |-> e.digest]
      BY DEF Subjects
    <3>2. <<e.path, e.digest>> \in registered
      BY <1>1 DEF EntryInv
    <3> QED BY <3>1, <3>2
  <2> QED BY <2>1 DEF Relevant
<1>4. /\ pc' = "associate" /\ statements' = statements \cup Subjects /\ UNCHANGED <<temp, registered, entries>>
      /\ StatementInv' => IInv'
  BY <1>1, <1>2, <1>3, AssociateKeeps DEF Summarised, During, After
<1>5. statements = {}
  BY <1>1 DEF StatementInv, During, Summarised, After
<1>6. StatementInv'
  BY <1>4, <1>5 DEF StatementInv, Subjects, Before, During, Summarised, After
<1> QED BY <1>4, <1>6

\* Before the update, the scanner has found what is registered.
LEMMA ImagesRegistered ==
    ASSUME TypeOK, RegisterInv, pc \in During, NEW kind \in {"original", "resolved"}
    PROVE  /\ ImageStatements(kind) = Said(kind)
           /\ ImageStatements(kind) \subseteq Statement /\ Relevant(ImageStatements(kind))
<1>1. ASSUME NEW f \in Manifests, NEW c \in trackers[f] \cap HasImages
      PROVE  <<f, c>> \in WithImages
  <2>1. There(f) /\ c = temp[f]
    <3>1. trackers[f] = IF There(f) THEN {temp[f]} ELSE {}
      BY DEF RegisterInv
    <3> QED BY <3>1
  <2>2. PICK r \in registered : r[1] = f
    BY <2>1 DEF RegisterInv
  <2>3. r[2] = c /\ r = <<r[1], r[2]>>
    BY <2>1, <2>2 DEF RegisterInv, TypeOK
  <2> QED BY <2>2, <2>3 DEF WithImages
<1>2. ASSUME NEW r \in WithImages
      PROVE  r[1] \in Manifests /\ r[2] \in trackers[r[1]] \cap HasImages /\ r = <<r[1], r[2]>> /\ r \in registered
  BY DEF WithImages, RegisterInv, TypeOK
<1>3. ImageStatements(kind) \subseteq Said(kind)
  <2>1. ASSUME NEW s \in ImageStatements(kind) PROVE s \in Said(kind)
    <3>1. PICK f \in Manifests : \E c \in trackers[f] \cap HasImages : s = [kind |-> kind, path |-> f, digest |-> c]
      BY DEF ImageStatements
    <3>2. PICK c \in trackers[f] \cap HasImages : s = [kind |-> kind, path |-> f, digest |-> c]
      BY <3>1
    <3>3. <<f, c>> \in WithImages
      BY <1>1
    <3>4. s = [kind |-> kind, path |-> <<f, c>>[1], digest |-> <<f, c>>[2]]
      BY <3>2
    <3> QED BY <3>3, <3>4 DEF Said
  <2> QED BY <2>1
<1>4. Said(kind) \subseteq ImageStatements(kind)
  BY <1>2 DEF Said, ImageStatements
<1>5. ASSUME NEW s \in Said(kind)
      PROVE  s \in Statement /\ <<s.path, s.digest>> \in registered
  <2>1. PICK r \in WithImages : s = [kind |-> kind, path |-> r[1], digest |-> r[2]]
    BY DEF Said
  <2>2. r[1] \in Manifests /\ r[2] \in Contents /\ r = <<r[1], r[2]>> /\ r \in registered
    BY <1>2, ProvenanceAssumption
  <2> QED BY <2>1, <2>2 DEF Statement
<1> QED BY <1>3, <1>4, <1>5 DEF Relevant

\* The statements on original references.
LEMMA AssociateOriginalStep == ASSUME IInv, AssociateOriginal PROVE IInv'
<1>1. /\ pc = "associate" /\ Associate(ImageStatements("original"), "resolve")
      /\ TypeOK /\ RegisterInv /\ EntryInv /\ StatementInv
  BY DEF AssociateOriginal, IInv
<1>2. /\ ImageStatements("original") = Said("original")
      /\ ImageStatements("original") \in SUBSET Statement /\ Relevant(ImageStatements("original"))
  BY <1>1, ImagesRegistered DEF During
<1>3. Unsummarised = {}
  BY <1>1 DEF EntryInv, Summarised
<1>4. /\ pc' = "resolve" /\ statements' = statements \cup ImageStatements("original")
      /\ UNCHANGED <<temp, registered, entries>> /\ (StatementInv' => IInv')
  BY <1>1, <1>2, <1>3, AssociateKeeps DEF Summarised, During, After
<1>5. statements' = Subjects \cup Said("original")
  BY <1>1, <1>2, <1>4 DEF StatementInv
<1>6. StatementInv'
  BY <1>4, <1>5 DEF StatementInv, Subjects, Said, WithImages, Before, During, Summarised, After
<1> QED BY <1>4, <1>6

\* And on resolved ones.
LEMMA AssociateResolvedStep == ASSUME IInv, AssociateResolved PROVE IInv'
<1>1. /\ pc = "resolve" /\ Associate(ImageStatements("resolved"), "update")
      /\ TypeOK /\ RegisterInv /\ EntryInv /\ StatementInv
  BY DEF AssociateResolved, IInv
<1>2. /\ ImageStatements("resolved") = Said("resolved")
      /\ ImageStatements("resolved") \in SUBSET Statement /\ Relevant(ImageStatements("resolved"))
  BY <1>1, ImagesRegistered DEF During
<1>3. Unsummarised = {}
  BY <1>1 DEF EntryInv, Summarised
<1>4. /\ pc' = "update" /\ statements' = statements \cup ImageStatements("resolved")
      /\ UNCHANGED <<temp, registered, entries>> /\ (StatementInv' => IInv')
  BY <1>1, <1>2, <1>3, AssociateKeeps DEF Summarised, During, After
<1>5. statements' = Subjects \cup Said("original") \cup Said("resolved")
  BY <1>1, <1>2, <1>4 DEF StatementInv
<1>6. StatementInv'
  BY <1>4, <1>5 DEF StatementInv, Subjects, Said, WithImages, Before, During, Summarised, After
<1> QED BY <1>4, <1>6

\* A manifest with images stays one.
LEMMA ChangedContents ==
    ASSUME NEW c \in Contents \cup {Absent}
    PROVE  /\ Changed(c) \in Contents \cup {Absent} /\ (Changed(c) = Absent <=> c = Absent)
           /\ Changed(c) \in HasImages <=> c \in HasImages
BY GitAssumption, ProvenanceAssumption DEF Changed

\* The update leads back to what is registered.
LEMMA UpdateStep == ASSUME IInv, Update PROVE IInv'
<1>1. /\ pc = "update" /\ TypeOK /\ LoadInv /\ RegisterInv /\ CheckerInv /\ EntryInv /\ StatementInv /\ DirInv
      /\ temp' = [f \in Manifests |-> Changed(temp[f])]
      /\ mutated' = {[path |-> f, digest |-> Changed(temp[f]), old |-> temp[f]] :
                       f \in {g \in Manifests : temp[g] \in HasImages}}
      /\ trackers' = [f \in Manifests |-> IF There(f) THEN {Changed(temp[f])} ELSE {}]
      /\ pc' = "rescan" /\ UNCHANGED gitVars /\ base' = base /\ unread' = unread
      /\ registered' = registered /\ entries' = entries /\ checker' = checker /\ statements' = statements
  BY DEF Update, Rewritten, Rescanned, Changed, Goto, IInv
<1>2. \A f \in Manifests : temp[f] \in Contents \cup {Absent}
  BY <1>1 DEF TypeOK
<1>3. \A f \in Manifests : There(f)' = There(f) /\ (There(f) => Changed(temp[f]) \in Contents)
  BY <1>1, <1>2, ChangedContents DEF There
<1>4. TypeOK'
  <2>1. temp' \in [Manifests -> Contents \cup {Absent}]
    BY <1>1, <1>2, ChangedContents
  <2>2. trackers' \in [Manifests -> SUBSET Contents]
    BY <1>1, <1>3
  <2>3. mutated' \subseteq Mutation
    <3>1. \A f \in Manifests : temp[f] \in HasImages => temp[f] \in Contents /\ Changed(temp[f]) \in Contents
      BY ProvenanceAssumption DEF Changed
    <3> QED BY <1>1, <3>1 DEF Mutation
  <2> QED BY <1>1, <2>1, <2>2, <2>3, GitKept DEF TypeOK
<1>5. LoadInv'
  BY <1>1, <1>3 DEF LoadInv, Before, During
<1>6. RegisterInv'
  <2>1. \A r \in registered : /\ r[1] \in Manifests /\ There(r[1])' /\ temp[r[1]] = r[2]
                              /\ temp'[r[1]] = Changed(r[2])
    BY <1>1, <1>3 DEF RegisterInv, TypeOK, During
  <2>2. worktree' = worktree /\ touched' = touched
    BY <1>1, GitKept
  <2>3. mutated' = {[path |-> r[1], digest |-> temp'[r[1]], old |-> r[2]] : r \in WithImages'}
    <3>1. ASSUME NEW m \in mutated'
          PROVE  \E r \in WithImages' : m = [path |-> r[1], digest |-> temp'[r[1]], old |-> r[2]]
      <4>1. PICK f \in Manifests : /\ temp[f] \in HasImages
                                   /\ m = [path |-> f, digest |-> Changed(temp[f]), old |-> temp[f]]
        BY <1>1
      <4>2. There(f)
        BY <4>1, GitAssumption, ProvenanceAssumption DEF There
      <4>3. PICK r \in registered : r[1] = f
        BY <1>1, <4>2 DEF RegisterInv, During
      <4> QED BY <1>1, <2>1, <4>1, <4>3 DEF WithImages
    <3>2. ASSUME NEW r \in WithImages'
          PROVE  [path |-> r[1], digest |-> temp'[r[1]], old |-> r[2]] \in mutated'
      <4>1. r \in registered /\ r[2] \in HasImages
        BY <1>1 DEF WithImages
      <4>2. r[1] \in Manifests /\ temp[r[1]] = r[2] /\ temp'[r[1]] = Changed(temp[r[1]])
        BY <2>1, <4>1
      <4> QED BY <1>1, <4>1, <4>2
    <3> QED BY <3>1, <3>2
  <2>4. \A f \in Manifests : trackers'[f] = IF There(f)' THEN {temp'[f]} ELSE {}
    BY <1>1, <1>3
  <2>5. \A f \in Manifests : There(f)' => \E r \in registered' : r[1] = f
    BY <1>1, <1>3 DEF RegisterInv, During
  <2>6. /\ \A r \in registered' : There(r[1])' /\ (r[1] \notin touched' => r[2] = worktree'[r[1]])
        /\ \A r \in registered' : temp'[r[1]] = Changed(r[2])
        /\ \A r, q \in registered' : r[1] = q[1] => r = q
    BY <1>1, <2>1, <2>2 DEF RegisterInv
  <2> QED BY <1>1, <2>3, <2>4, <2>5, <2>6 DEF RegisterInv, Changed, Before, During, After
<1>7. checker' = {}
  BY <1>1 DEF CheckerInv
<1>8. EntryInv'
  BY <1>1, EntryKept DEF Summarised
<1>9. StatementInv'
  BY <1>1 DEF StatementInv, Subjects, Said, WithImages, Before, During, Summarised, After
<1>10. DirInv'
  BY <1>1, DirKept DEF During, After
<1>11. CheckedInNotRefused'
  BY <1>1 DEF CheckedInNotRefused
<1> QED BY <1>4, <1>5, <1>6, <1>7, <1>8, <1>9, <1>10, <1>11, CheckerKept DEF IInv

\* After the update, the scanner has found what the registry leads back from.
LEMMA ImagesMutated ==
    ASSUME TypeOK, RegisterInv, pc \in After
    PROVE  /\ ImageStatements("replaced") = SaidReplaced
           /\ ImageStatements("replaced") \subseteq Statement /\ Relevant(ImageStatements("replaced"))
<1>1. ASSUME NEW r \in registered
      PROVE  /\ r[1] \in Manifests /\ r[2] \in Contents /\ r = <<r[1], r[2]>>
             /\ temp[r[1]] = Changed(r[2]) /\ (temp[r[1]] \in HasImages <=> r[2] \in HasImages)
             /\ trackers[r[1]] = {temp[r[1]]}
  <2>1. r[1] \in Manifests /\ r[2] \in Contents /\ r = <<r[1], r[2]>>
    BY DEF TypeOK
  <2>2. temp[r[1]] = Changed(r[2]) /\ trackers[r[1]] = {temp[r[1]]}
    BY <2>1 DEF RegisterInv
  <2> QED BY <2>1, <2>2, ChangedContents
<1>2. ASSUME NEW s \in ImageStatements("replaced") PROVE s \in SaidReplaced
  <2>1. PICK f \in Manifests : \E c \in trackers[f] \cap HasImages : s = [kind |-> "replaced", path |-> f, digest |-> c]
    BY DEF ImageStatements
  <2>2. PICK c \in trackers[f] \cap HasImages : s = [kind |-> "replaced", path |-> f, digest |-> c]
    BY <2>1
  <2>3. There(f) /\ c = temp[f]
    <3>1. trackers[f] = IF There(f) THEN {temp[f]} ELSE {}
      BY DEF RegisterInv
    <3> QED BY <2>2, <3>1
  <2>4. PICK r \in registered : r[1] = f
    BY <2>3 DEF RegisterInv
  <2>5. r \in WithImages
    BY <1>1, <2>2, <2>3, <2>4 DEF WithImages
  <2> QED BY <2>2, <2>3, <2>4, <2>5 DEF SaidReplaced
<1>3. ASSUME NEW s \in SaidReplaced
      PROVE  /\ s \in ImageStatements("replaced") /\ s \in Statement
             /\ \E m \in mutated : m.path = s.path /\ m.digest = s.digest
  <2>1. PICK r \in WithImages : s = [kind |-> "replaced", path |-> r[1], digest |-> temp[r[1]]]
    BY DEF SaidReplaced
  <2>2. r \in registered /\ r[2] \in HasImages
    BY DEF WithImages
  <2>3. r[1] \in Manifests /\ temp[r[1]] \in trackers[r[1]] \cap HasImages /\ temp[r[1]] \in Contents
    BY <1>1, <2>2, ProvenanceAssumption
  <2>4. [path |-> r[1], digest |-> temp[r[1]], old |-> r[2]] \in mutated
    BY <2>1 DEF RegisterInv
  <2>5. s \in ImageStatements("replaced")
    BY <2>1, <2>3 DEF ImageStatements
  <2>6. s \in Statement
    BY <2>1, <2>3 DEF Statement
  <2> QED BY <2>1, <2>4, <2>5, <2>6
<1> QED BY <1>2, <1>3 DEF Relevant

\* The statements on replaced references.
LEMMA AssociateReplacedStep == ASSUME IInv, AssociateReplaced PROVE IInv'
<1>1. /\ pc = "rescan" /\ Associate(ImageStatements("replaced"), "push")
      /\ TypeOK /\ RegisterInv /\ EntryInv /\ StatementInv
  BY DEF AssociateReplaced, IInv
<1>2. /\ ImageStatements("replaced") = SaidReplaced
      /\ ImageStatements("replaced") \in SUBSET Statement /\ Relevant(ImageStatements("replaced"))
  BY <1>1, ImagesMutated DEF After
<1>3. Unsummarised = {}
  BY <1>1 DEF EntryInv, Summarised, After
<1>4. /\ pc' = "push" /\ statements' = statements \cup ImageStatements("replaced")
      /\ UNCHANGED <<temp, registered, entries>> /\ (StatementInv' => IInv')
  BY <1>1, <1>2, <1>3, AssociateKeeps DEF Summarised, During, After
<1>5. statements' = Subjects \cup Said("original") \cup Said("resolved") \cup SaidReplaced
  BY <1>1, <1>2, <1>4 DEF StatementInv
<1>6. StatementInv'
  BY <1>4, <1>5 DEF StatementInv, Subjects, Said, SaidReplaced, WithImages, Before, During, Summarised, After
<1> QED BY <1>4, <1>6

-----------------------------------------------------------------------------
\* The invariant is inductive.
LEMMA NextIInv == ASSUME IInv, [Next]_vars PROVE IInv'
<1>1. CASE Tape
  BY <1>1, DetectStep, CompareFileStep, EndCompareStep, CompareStagedStep, CompareUnstagedStep, ScanStep,
     SummariseDirStep, FindStep, ReadStep, SummariseStep, AssociateCoreStep, AssociateOriginalStep,
     AssociateResolvedStep, UpdateStep, AssociateReplacedStep DEF Tape
<1>2. CASE People /\ UNCHANGED <<pc, appVars>>
  BY <1>2, PeopleStep
<1>3. CASE UNCHANGED vars
  <2>1. /\ pc' = pc /\ temp' = temp /\ trackers' = trackers /\ registered' = registered /\ mutated' = mutated
        /\ base' = base /\ unread' = unread /\ checker' = checker /\ entries' = entries
        /\ statements' = statements /\ UNCHANGED gitVars
    BY <1>3 DEF vars, appVars
  <2>2. /\ TypeOK /\ LoadInv /\ RegisterInv /\ CheckerInv /\ EntryInv /\ StatementInv /\ DirInv
        /\ CheckedInNotRefused
    BY DEF IInv
  <2>3. /\ GitTypeOK' /\ worktree' = worktree /\ index' = index /\ commits' = commits
        /\ touched' = touched /\ HeadTree' = HeadTree /\ DirClean' = DirClean
        /\ \A fs : TreeThere(fs)' = TreeThere(fs)
    BY <2>1, <2>2, GitKept
  <2>4. TypeOK'
    BY <2>1, <2>2, <2>3 DEF TypeOK
  <2>5. LoadInv' /\ RegisterInv' /\ EntryInv'
    BY <2>1, <2>2, LoadKept, RegisterKept, EntryKept
  <2>6. CheckerInv'
    BY <2>1, <2>2, <2>3 DEF CheckerInv, Unsummarised, Committed
  <2>7. StatementInv'
    BY <2>1, <2>2 DEF StatementInv, Subjects, Said, SaidReplaced, WithImages
  <2>8. DirInv'
    BY <2>1, <2>2, <2>3 DEF DirInv
  <2>9. CheckedInNotRefused'
    BY <2>1, <2>2, <2>3 DEF CheckedInNotRefused
  <2> QED BY <2>4, <2>5, <2>6, <2>7, <2>8, <2>9 DEF IInv
<1> QED BY <1>1, <1>2, <1>3 DEF Next

\* Whatever people do, the invariant holds.
THEOREM Inductive == Spec => []IInv
BY InitIInv, NextIInv, PTL DEF Spec

\* The variables have their types; in particular an entry is about a manifest
\* with contents, and an object that was there (Summary).
THEOREM TypeCorrect == Spec => []TypeOK
<1>1. IInv => TypeOK
  BY DEF IInv
<1> QED BY <1>1, Inductive, PTL

\* What is attested of a manifest that nobody touched is the case, whatever was
\* done with other files, HEAD and remotes (Check, MakeSummary, Register).
THEOREM QuietFiles == Spec => []QuietFilesTold
<1>1. ASSUME IInv PROVE QuietFilesTold
  <2>1. ASSUME pc = "push", NEW e \in entries, e.path \notin touched
        PROVE  Told(e) /\ e.digest = worktree[e.path]
    <3>1. <<e.path, e.digest>> \in registered /\ Told(e)
      BY <1>1, <2>1 DEF IInv, EntryInv
    <3>2. e.digest = worktree[e.path]
      BY <1>1, <2>1, <3>1 DEF IInv, RegisterInv
    <3> QED BY <3>1, <3>2
  <2> QED BY <2>1 DEF QuietFilesTold, Told
<1> QED BY <1>1, Inductive, PTL

\* A directory that nobody touched is attested to be unmodified if and only if
\* nothing in it differs (Check, fileIsInDir).
THEOREM QuietDir == Spec => []QuietDirTold
<1>1. IInv => QuietDirTold
  BY DEF IInv, DirInv, QuietDirTold, DirClean, After
<1> QED BY <1>1, Inductive, PTL

\* What is attested to be unmodified was committed at some time (findByPath).
THEOREM UnmodifiedCommitted == Spec => []UnmodifiedIsCommitted
<1>1. IInv => UnmodifiedIsCommitted
  BY DEF IInv, EntryInv, Committed, UnmodifiedIsCommitted
<1> QED BY <1>1, Inductive, PTL

\* A directory that is checked in and left alone is not refused
\* (AssociateStatements, MakeSummary).
THEOREM NotRefused == Spec => []CheckedInNotRefused
<1>1. IInv => CheckedInNotRefused
  BY DEF IInv
<1> QED BY <1>1, Inductive, PTL

\* The statements about one manifest of a package.
LEMMA StatementsOf ==
    ASSUME IInv, pc = "push", NEW f \in Manifests, There(f)
    PROVE  \E e \in entries :
             /\ {x \in entries : x.path = f} = {e}
             /\ {s \in statements : s.path = f /\ s.kind \in {"dirContents", "original", "resolved"}}
                  = {[kind |-> k, path |-> f, digest |-> e.digest] :
                       k \in IF e.digest \in HasImages THEN {"dirContents", "original", "resolved"}
                             ELSE {"dirContents"}}
             /\ IF e.digest \in HasImages
                THEN /\ {s \in statements : s.path = f /\ s.kind = "replaced"}
                          = {[kind |-> "replaced", path |-> f, digest |-> temp[f]]}
                     /\ {m \in mutated : m.path = f}
                          = {[path |-> f, digest |-> temp[f], old |-> e.digest]}
                ELSE temp[f] = e.digest
<1>1. /\ TypeOK /\ RegisterInv /\ EntryInv /\ StatementInv
      /\ statements = Subjects \cup Said("original") \cup Said("resolved") \cup SaidReplaced
      /\ Unsummarised = {}
      /\ mutated = {[path |-> r[1], digest |-> temp[r[1]], old |-> r[2]] : r \in WithImages}
  BY DEF IInv, StatementInv, EntryInv, RegisterInv, Summarised, After
<1>2. PICK r \in registered : r[1] = f
  BY <1>1 DEF RegisterInv, After
<1>3. PICK e \in entries : e.path = f
  BY <1>1, <1>2 DEF Unsummarised
<1>4. /\ \A x \in entries : x.path = f => x = e
      /\ \A q \in registered : q[1] = f => q = r
      /\ e.digest = r[2] /\ temp[f] = Changed(r[2])
  <2>1. <<e.path, e.digest>> \in registered
    BY <1>1 DEF EntryInv
  <2>2. <<f, e.digest>> = r
    BY <1>1, <1>2, <1>3, <2>1 DEF RegisterInv
  <2> QED BY <1>1, <1>2, <1>3, <2>2 DEF EntryInv, RegisterInv, After
<1>5. \A s \in Subjects : s.kind = "dirContents" /\ (s.path = f => s.digest = e.digest)
  BY <1>4 DEF Subjects
<1>6. [kind |-> "dirContents", path |-> f, digest |-> e.digest] \in Subjects
  BY <1>3 DEF Subjects
<1>7. \A k : \A s \in Said(k) :
        s.kind = k /\ (s.path = f => s.digest = e.digest /\ e.digest \in HasImages)
  BY <1>4 DEF Said, WithImages
<1>8. \A k : e.digest \in HasImages => [kind |-> k, path |-> f, digest |-> e.digest] \in Said(k)
  BY <1>2, <1>4 DEF Said, WithImages
<1>9. \A s \in SaidReplaced : s.kind = "replaced" /\ (s.path = f => s.digest = temp[f] /\ e.digest \in HasImages)
  BY <1>4 DEF SaidReplaced, WithImages
<1>10. e.digest \in HasImages => [kind |-> "replaced", path |-> f, digest |-> temp[f]] \in SaidReplaced
  BY <1>2, <1>4 DEF SaidReplaced, WithImages
<1>11. \A s \in statements : s = [kind |-> s.kind, path |-> s.path, digest |-> s.digest]
  BY <1>1 DEF TypeOK, Statement
<1>12. {x \in entries : x.path = f} = {e}
  BY <1>3, <1>4
<1> DEFINE kinds == IF e.digest \in HasImages THEN {"dirContents", "original", "resolved"} ELSE {"dirContents"}
           ss == {s \in statements : s.path = f /\ s.kind \in {"dirContents", "original", "resolved"}}
<1>13. ASSUME NEW s \in ss PROVE s.kind \in kinds /\ s.digest = e.digest /\ s.path = f
  BY <1>1, <1>5, <1>7, <1>9
<1>14. ASSUME NEW k \in kinds PROVE [kind |-> k, path |-> f, digest |-> e.digest] \in ss
  <2>1. k \in {"dirContents", "original", "resolved"} /\ (k # "dirContents" => e.digest \in HasImages)
    OBVIOUS
  <2>2. [kind |-> k, path |-> f, digest |-> e.digest] \in statements
    BY <1>1, <1>6, <1>8, <2>1
  <2> QED BY <2>1, <2>2
<1>15. ss = {[kind |-> k, path |-> f, digest |-> e.digest] : k \in kinds}
  <2>1. \A s \in ss : s = [kind |-> s.kind, path |-> f, digest |-> e.digest]
    BY <1>11, <1>13
  <2> HIDE DEF ss, kinds
  <2> QED BY <1>13, <1>14, <2>1
<1>16. ASSUME e.digest \in HasImages
       PROVE  /\ {s \in statements : s.path = f /\ s.kind = "replaced"}
                   = {[kind |-> "replaced", path |-> f, digest |-> temp[f]]}
              /\ {m \in mutated : m.path = f} = {[path |-> f, digest |-> temp[f], old |-> e.digest]}
  <2>1. ASSUME NEW s \in statements, s.path = f, s.kind = "replaced"
        PROVE  s = [kind |-> "replaced", path |-> f, digest |-> temp[f]]
    <3>1. s \in SaidReplaced
      BY <1>1, <1>5, <1>7, <2>1
    <3> QED BY <1>9, <1>11, <2>1, <3>1
  <2>2. [kind |-> "replaced", path |-> f, digest |-> temp[f]] \in statements
    BY <1>1, <1>10, <1>16
  <2>3. ASSUME NEW m \in mutated, m.path = f
        PROVE  m = [path |-> f, digest |-> temp[f], old |-> e.digest]
    <3>1. PICK q \in WithImages : m = [path |-> q[1], digest |-> temp[q[1]], old |-> q[2]]
      BY <1>1
    <3>2. q \in registered /\ q[1] = f
      BY <2>3, <3>1 DEF WithImages
    <3> QED BY <1>4, <3>1, <3>2
  <2>4. [path |-> f, digest |-> temp[f], old |-> e.digest] \in mutated
    <3>1. r \in WithImages
      BY <1>4, <1>16 DEF WithImages
    <3> QED BY <1>1, <1>2, <1>4, <3>1
  <2> QED BY <2>1, <2>2, <2>3, <2>4
<1>17. e.digest \notin HasImages => temp[f] = e.digest
  BY <1>4 DEF Changed
<1> QED BY <1>3, <1>12, <1>15, <1>16, <1>17

\* The statements in a package lead from each manifest in it to the one that was
\* loaded (RegisterMutated, Reset, AssociateStatements).
THEOREM StatementsLeadBack == Spec => []StatementsAboutPackage
<1>1. IInv => StatementsAboutPackage
  BY StatementsOf DEF StatementsAboutPackage
<1> QED BY <1>1, Inductive, PTL
=============================================================================
