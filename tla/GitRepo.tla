------------------------------- MODULE GitRepo -------------------------------
(***************************************************************************)
(* The Git repository that a manifest directory is in, with the people who *)
(* work in it.  It is outside of tape: what can be read of it is what      *)
(* attest/vcs/git/git.go reads, through go-git.                            *)
(*                                                                         *)
(* The contents of a file stand for their hash.  A commit is its number;   *)
(* of what it records only the tree is kept.  Checking out another branch, *)
(* rebasing or pulling is made of the actions here, in some order.         *)
(***************************************************************************)
EXTENDS Naturals, Sequences, FiniteSets

CONSTANTS
    Files,       \* paths of files, from the root of the repository
    InDir,       \* those in the manifest directory and below it
    Contents,
    Absent,      \* a file that is not there
    Ignored,     \* files that .gitignore excludes
    Remotes,     \* names of remotes
    Origin,      \* the name a clone gives to where it comes from
    URLs,
    NoURL,       \* a remote that is not there, a repository without remotes
    Initial,     \* initial worktree, index, tree of HEAD, and remotes
    MaxChanges   \* bound: how often somebody changes the repository

Tree == [Files -> Contents \cup {Absent}]

ASSUME GitAssumption ==
    /\ InDir \subseteq Files /\ Ignored \subseteq Files
    /\ Absent \notin Contents
    /\ Origin \in Remotes /\ IsFiniteSet(Remotes)
    /\ NoURL \notin URLs
    /\ Initial \subseteq [worktree : Tree, index : Tree, tree : Tree,
                          remotes : [Remotes -> URLs \cup {NoURL}]]
    /\ MaxChanges \in Nat

VARIABLES
    worktree,    \* worktree[f]: the contents of f on disk
    index,       \* index[f]: the contents that are staged
    commits,     \* the trees of all commits there have been
    head,        \* the commit that HEAD is
    remotes,     \* remotes[r]: the URL of r
    changes,     \* number of changes so far
    touched      \* history: files whose contents somewhere have been changed

gitVars == <<worktree, index, commits, head, remotes, changes, touched>>

GitTypeOK ==
    /\ worktree \in Tree /\ index \in Tree
    /\ commits \in Seq(Tree) /\ head \in 1..Len(commits)
    /\ remotes \in [Remotes -> URLs \cup {NoURL}]
    /\ changes \in 0..MaxChanges
    /\ touched \subseteq Files

GitInit ==
    /\ \E i \in Initial :
         /\ worktree = i.worktree /\ index = i.index
         /\ commits = <<i.tree>> /\ remotes = i.remotes
    /\ head = 1 /\ changes = 0 /\ touched = {}

HeadTree == commits[head]

Touch(fs) ==
    /\ changes < MaxChanges /\ changes' = changes + 1
    /\ touched' = touched \cup fs

-----------------------------------------------------------------------------
(* What people do.                                                         *)

\* Write or remove f.
Edit(f) ==
    /\ \E c \in (Contents \cup {Absent}) \ {worktree[f]} : worktree' = [worktree EXCEPT ![f] = c]
    /\ Touch({f})
    /\ UNCHANGED <<index, commits, head, remotes>>

Stage(f) ==
    /\ index[f] # worktree[f]
    /\ index' = [index EXCEPT ![f] = worktree[f]]
    /\ Touch({f})
    /\ UNCHANGED <<worktree, commits, head, remotes>>

\* Commit what is staged, which may be nothing when a commit is amended.
Commit ==
    /\ commits' = Append(commits, index)
    /\ head' = Len(commits')
    /\ Touch({f \in Files : HeadTree[f] # index[f]})
    /\ UNCHANGED <<worktree, index, remotes>>

\* Move HEAD to another commit, and nothing else.
Reset(c) ==
    /\ c # head /\ head' = c
    /\ Touch({f \in Files : HeadTree[f] # commits[c][f]})
    /\ UNCHANGED <<worktree, index, commits, remotes>>

SetRemote(r) ==
    /\ \E u \in (URLs \cup {NoURL}) \ {remotes[r]} : remotes' = [remotes EXCEPT ![r] = u]
    /\ Touch({})
    /\ UNCHANGED <<worktree, index, commits, head>>

People ==
    \/ \E f \in Files : Edit(f) \/ Stage(f)
    \/ Commit
    \/ \E c \in DOMAIN commits : Reset(c)
    \/ \E r \in Remotes : SetRemote(r)

-----------------------------------------------------------------------------
(* What go-git reads.                                                      *)

RemotesThere == {r \in Remotes : remotes[r] # NoURL}

\* Remotes() returns the remotes in the order of a map: which one is the first
\* can be different each time.
PrimaryURLs ==
    IF RemotesThere = {} THEN {NoURL}
    ELSE IF Origin \in RemotesThere THEN {remotes[Origin]}
    ELSE {remotes[r] : r \in RemotesThere}

\* Worktree.Status compares HEAD with the index, then the index with the files.
StagedChanges == {f \in Files : HeadTree[f] # index[f]}
UnstagedChanges == {f \in Files : index[f] # worktree[f] /\ ~(index[f] = Absent /\ f \in Ignored)}
=============================================================================
