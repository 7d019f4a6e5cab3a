----------------------------- MODULE LoaderProof -----------------------------
(***************************************************************************)
(* Proofs about Loader, for every directory and any writes to it.          *)
(***************************************************************************)
EXTENDS Loader, TLAPS

\* f has been there since before Load was called, and nobody has touched it.
Quiet(f) == source[f] \in 1..Start

\* Versions are as old as the clock tells.
ClockInv ==
    \A f \in Files :
        /\ source[f] <= clock /\ infos[f] <= clock
        /\ f \in In(source) => infos[f] <= source[f]

\* The directories in D have been read by the first walk: it has listed their
\* quiet files, or is about to, and it is about to read what is below them.
Walked(D) ==
    /\ Root \in D \cup dirs
    /\ \A d \in D : Below[d] \subseteq D \cup dirs
    /\ \A f \in Files : Quiet(f) /\ DirOf[f] \in D => f \in entries \cup relPaths

\* When the first walk has ended, it has listed all quiet files.
ListInv ==
    /\ pc = "list" => \E D \in SUBSET Dirs : Walked(D)
    /\ pc \in {"copy", "read", "scan", "push"} => \A f \in Files : Quiet(f) => f \in relPaths

\* A copy of a quiet file is the file, and old copies are in the list.
CopyInv ==
    \A f \in In(copied) :
        /\ Quiet(f) => copied[f] = source[f]
        /\ copied[f] \in 1..Start => f \in relPaths

\* Nothing is copied before the list is complete.
PhaseInv ==
    /\ pc = "list" => copied = None /\ infos = None
    /\ pc = "push" => relPaths \subseteq In(copied)

\* The inductive invariant.
IInv == TypeOK /\ ClockInv /\ ListInv /\ CopyInv /\ PhaseInv /\ TimesNotLater

-----------------------------------------------------------------------------
\* Nothing is listed or copied when Load is called.
LEMMA InitIInv == Init => IInv
<1> SUFFICES ASSUME Init PROVE IInv
  OBVIOUS
<1>1. /\ source \in [Files -> 0..Start] /\ clock = Start /\ pc = "list" /\ dirs = {Root}
      /\ entries = {} /\ relPaths = {} /\ infos = None /\ copied = None /\ times = None
  BY DEF Init
<1>2. None \in [Files -> Versions] /\ \A f \in Files : None[f] = 0
  BY LoaderAssumption DEF None, Versions, Absent
<1>3. TypeOK
  <2>1. source \in [Files -> Versions]
    BY <1>1, LoaderAssumption DEF Versions
  <2>2. clock \in Start..MaxTime /\ dirs \subseteq Dirs
    BY <1>1, LoaderAssumption
  <2> QED BY <1>1, <1>2, <2>1, <2>2 DEF TypeOK
<1>4. ClockInv
  <2>1. \A f \in Files : source[f] \in 0..Start /\ infos[f] = 0
    BY <1>1, <1>2
  <2>2. ASSUME NEW f \in Files
        PROVE  source[f] <= Start /\ infos[f] <= Start /\ infos[f] <= source[f]
    <3> HIDE DEF Init
    <3> QED BY <2>1, LoaderAssumption
  <2> QED BY <1>1, <2>2 DEF ClockInv, In
<1>5. ListInv
  <2>1. Walked({})
    BY <1>1 DEF Walked
  <2> QED BY <1>1, <2>1 DEF ListInv
<1>6. In(copied) = {}
  BY <1>1, <1>2 DEF In, Absent
<1>7. CopyInv /\ PhaseInv /\ TimesNotLater
  BY <1>1, <1>6 DEF CopyInv, PhaseInv, TimesNotLater
<1> QED BY <1>3, <1>4, <1>5, <1>7 DEF IInv

\* A file that is written to is quiet no more, and later than all copies.
LEMMA WriteStep == ASSUME IInv, NEW g \in Files, Write(g) PROVE IInv'
<1>1. /\ clock < MaxTime /\ clock' = clock + 1 /\ source' = [source EXCEPT ![g] = clock + 1]
      /\ UNCHANGED <<pc, dirs, entries, infos, relPaths, copied, times>>
  BY DEF Write
<1>2. /\ source \in [Files -> Versions] /\ clock \in Start..MaxTime
      /\ infos \in [Files -> Versions] /\ copied \in [Files -> Versions]
      /\ Start \in Nat /\ MaxTime \in Nat
  BY LoaderAssumption DEF IInv, TypeOK
<1>3. TypeOK'
  BY <1>1, <1>2 DEF IInv, TypeOK, Versions
<1>4. \A f \in Files : source'[f] = IF f = g THEN clock + 1 ELSE source[f]
  BY <1>1, <1>2
<1>5. \A f \in Files : Quiet(f)' => Quiet(f) /\ source'[f] = source[f]
  BY <1>1, <1>2, <1>4 DEF Quiet
<1>6. ClockInv'
  BY <1>1, <1>2, <1>4 DEF IInv, ClockInv, In, Absent, Versions
<1>7. ListInv'
  BY <1>1, <1>5 DEF IInv, ListInv, Walked
<1>8. CopyInv' /\ PhaseInv' /\ TimesNotLater'
  BY <1>1, <1>5 DEF IInv, CopyInv, PhaseInv, TimesNotLater, In
<1> QED BY <1>3, <1>6, <1>7, <1>8 DEF IInv

\* A file that is removed is quiet no more.
LEMMA RemoveStep == ASSUME IInv, NEW g \in Files, Remove(g) PROVE IInv'
<1>1. /\ source' = [source EXCEPT ![g] = 0]
      /\ UNCHANGED <<clock, pc, dirs, entries, infos, relPaths, copied, times>>
  BY DEF Remove, Absent
<1>2. /\ source \in [Files -> Versions] /\ clock \in Start..MaxTime
      /\ infos \in [Files -> Versions] /\ copied \in [Files -> Versions]
      /\ Start \in Nat /\ MaxTime \in Nat
  BY LoaderAssumption DEF IInv, TypeOK
<1>3. TypeOK'
  BY <1>1, <1>2 DEF IInv, TypeOK, Versions
<1>4. \A f \in Files : source'[f] = IF f = g THEN 0 ELSE source[f]
  BY <1>1, <1>2
<1>5. \A f \in Files : Quiet(f)' => Quiet(f) /\ source'[f] = source[f]
  BY <1>1, <1>2, <1>4 DEF Quiet
<1>6. ClockInv'
  BY <1>1, <1>2, <1>4 DEF IInv, ClockInv, In, Absent, Versions
<1>7. ListInv'
  BY <1>1, <1>5 DEF IInv, ListInv, Walked
<1>8. CopyInv' /\ PhaseInv' /\ TimesNotLater'
  BY <1>1, <1>5 DEF IInv, CopyInv, PhaseInv, TimesNotLater, In
<1> QED BY <1>3, <1>6, <1>7, <1>8 DEF IInv

\* A Load that fails keeps what it had.
LEMMA AbortStep == IInv /\ Abort => IInv'
<1> SUFFICES ASSUME IInv, Abort PROVE IInv'
  OBVIOUS
<1>1. /\ pc' = "failed"
      /\ UNCHANGED <<source, clock, dirs, entries, infos, relPaths, copied, times>>
  BY DEF Abort
<1>2. TypeOK' /\ ClockInv' /\ CopyInv' /\ PhaseInv' /\ TimesNotLater'
  BY <1>1 DEF IInv, TypeOK, ClockInv, CopyInv, PhaseInv, TimesNotLater, In, Quiet
<1>3. ListInv'
  BY <1>1 DEF ListInv
<1> QED BY <1>2, <1>3 DEF IInv

\* Reading a directory keeps the invariant: its quiet files are entries then.
LEMMA ReadDirStep == ASSUME IInv, NEW d \in Dirs, ReadDir(d) PROVE IInv'
<1>1. /\ pc \in {"list", "copy"} /\ d \in dirs
      /\ dirs' = (dirs \ {d}) \cup Below[d]
      /\ entries' = entries \cup {f \in In(source) : DirOf[f] = d}
      /\ UNCHANGED <<source, clock, pc, infos, relPaths, copied, times>>
  BY DEF ReadDir, Entries
<1>2. TypeOK'
  <2>1. Below[d] \subseteq Dirs
    BY LoaderAssumption
  <2> QED BY <1>1, <2>1 DEF IInv, TypeOK, In
<1>3. ClockInv' /\ CopyInv' /\ PhaseInv' /\ TimesNotLater'
  BY <1>1 DEF IInv, ClockInv, CopyInv, PhaseInv, TimesNotLater, In, Quiet
<1>4. ListInv'
  <2>1. CASE pc = "list"
    <3>1. PICK D \in SUBSET Dirs : Walked(D)
      BY <2>1 DEF IInv, ListInv
    <3>2. Root \in (D \cup {d}) \cup dirs'
      BY <1>1, <3>1 DEF Walked
    <3>3. \A e \in D \cup {d} : Below[e] \subseteq (D \cup {d}) \cup dirs'
      BY <1>1, <3>1 DEF Walked
    <3>4. ASSUME NEW f \in Files, Quiet(f), DirOf[f] \in D \cup {d}
          PROVE  f \in entries' \cup relPaths'
      <4>1. f \in In(source)
        BY <3>4, LoaderAssumption DEF Quiet, In, Absent
      <4> QED BY <1>1, <3>1, <3>4, <4>1 DEF Walked
    <3>5. Walked(D \cup {d})'
      BY <1>1, <3>2, <3>3, <3>4 DEF Walked, Quiet
    <3>6. D \cup {d} \in SUBSET Dirs
      OBVIOUS
    <3> QED BY <1>1, <2>1, <3>5, <3>6 DEF ListInv
  <2>2. CASE pc = "copy"
    BY <1>1, <2>2 DEF IInv, ListInv, Quiet
  <2> QED BY <1>1, <2>1, <2>2
<1> QED BY <1>2, <1>3, <1>4 DEF IInv

\* Listing a file keeps the invariant: it passes from the entries to the list.
LEMMA ListStep == ASSUME IInv, NEW g \in Files, List(g) PROVE IInv'
<1>1. CASE g \notin In(source)
  BY <1>1, AbortStep DEF List
<1>2. CASE g \in In(source)
  <2>1. /\ pc = "list" /\ relPaths' = relPaths \cup {g} /\ entries' = entries \ {g}
        /\ UNCHANGED <<source, clock, pc, dirs, infos, copied, times>>
    BY <1>2 DEF List
  <2>2. TypeOK' /\ ClockInv' /\ CopyInv' /\ PhaseInv' /\ TimesNotLater'
    BY <2>1 DEF IInv, TypeOK, ClockInv, CopyInv, PhaseInv, TimesNotLater, In, Quiet
  <2>3. PICK D \in SUBSET Dirs : Walked(D)
    BY <2>1 DEF IInv, ListInv
  <2>4. Walked(D)'
    BY <2>1, <2>3 DEF Walked, Quiet
  <2> QED BY <2>1, <2>2, <2>4 DEF IInv, ListInv
<1> QED BY <1>1, <1>2

\* At the end of the first walk every directory has been read.
LEMMA EndListStep == IInv /\ EndList => IInv'
<1> SUFFICES ASSUME IInv, EndList PROVE IInv'
  OBVIOUS
<1>1. CASE relPaths = {}
  BY <1>1, AbortStep DEF EndList
<1>2. CASE relPaths # {}
  <2>1. /\ pc = "list" /\ dirs = {} /\ entries = {} /\ pc' = "copy" /\ dirs' = {Root}
        /\ UNCHANGED <<source, clock, entries, infos, relPaths, copied, times>>
    BY <1>2 DEF EndList
  <2>2. TypeOK' /\ ClockInv' /\ CopyInv' /\ PhaseInv' /\ TimesNotLater'
    BY <2>1, LoaderAssumption
       DEF IInv, TypeOK, ClockInv, CopyInv, PhaseInv, TimesNotLater, In, Quiet
  <2>3. PICK D \in SUBSET Dirs : Walked(D)
    BY <2>1 DEF IInv, ListInv
  <2>4. D = Dirs
    <3>1. Root \in D /\ \A d \in D : Below[d] \subseteq D
      BY <2>1, <2>3 DEF Walked
    <3> QED BY <3>1, LoaderAssumption
  <2>5. \A f \in Files : Quiet(f) => f \in relPaths
    BY <2>1, <2>3, <2>4, LoaderAssumption DEF Walked
  <2> QED BY <2>1, <2>2, <2>5 DEF IInv, ListInv, Quiet
<1> QED BY <1>1, <1>2

\* Looking at a file to copy keeps the invariant: its time is that of now.
LEMMA StatStep == ASSUME IInv, NEW g \in Files, Stat(g) PROVE IInv'
<1>1. pc = "copy" /\ UNCHANGED <<source, clock, pc, relPaths, copied, times>>
  BY DEF Stat
<1>2. /\ source \in [Files -> Versions] /\ clock \in Start..MaxTime /\ infos \in [Files -> Versions]
      /\ Start \in Nat /\ MaxTime \in Nat
  BY LoaderAssumption DEF IInv, TypeOK
<1>3. /\ infos' \in [Files -> Versions] /\ entries' \subseteq Files /\ dirs' \subseteq Dirs
      /\ \A f \in Files : infos'[f] \in {0, infos[f], source[f]}
  <2>1. CASE g \in In(source)
    BY <1>2, <2>1 DEF Stat, IInv, TypeOK
  <2>2. CASE g \notin In(source)
    <3>1. 0 \in Versions
      BY <1>2 DEF Versions
    <3> QED BY <1>2, <2>2, <3>1 DEF Stat, IInv, TypeOK, Absent
  <2> QED BY <2>1, <2>2
<1>4. TypeOK'
  BY <1>1, <1>3 DEF IInv, TypeOK
<1>5. ClockInv'
  BY <1>1, <1>2, <1>3 DEF IInv, ClockInv, In, Absent, Versions
<1>6. ListInv' /\ CopyInv' /\ PhaseInv' /\ TimesNotLater'
  BY <1>1 DEF IInv, ListInv, CopyInv, PhaseInv, TimesNotLater, In, Quiet
<1> QED BY <1>4, <1>5, <1>6 DEF IInv

\* Copying a file keeps the invariant: the list has it if it is quiet.
LEMMA CopyFileStep == ASSUME IInv, NEW g \in Files, CopyFile(g) PROVE IInv'
<1>1. /\ pc = "copy" /\ g \in In(infos) /\ infos' = [infos EXCEPT ![g] = 0]
      /\ UNCHANGED <<source, clock, pc, dirs, entries, relPaths>>
  BY DEF CopyFile, Absent
<1>2. /\ source \in [Files -> Versions] /\ clock \in Start..MaxTime /\ infos \in [Files -> Versions]
      /\ copied \in [Files -> Versions] /\ times \in [Files -> Versions]
      /\ Start \in Nat /\ MaxTime \in Nat /\ 0 \in Versions
  BY LoaderAssumption DEF IInv, TypeOK, Versions
<1>3. /\ copied' \in [Files -> Versions] /\ times' \in [Files -> Versions]
      /\ \A f \in Files : f # g => copied'[f] = copied[f] /\ times'[f] = times[f]
      /\ \/ copied'[g] = copied[g] /\ times'[g] = times[g]
         \/ g \in In(source) /\ copied'[g] = source[g] /\ times'[g] = infos[g]
  <2>1. CASE g \in In(source)
    BY <1>2, <2>1 DEF CopyFile, Preserved
  <2>2. CASE g \notin In(source)
    BY <1>2, <2>2 DEF CopyFile
  <2> QED BY <2>1, <2>2
<1>4. TypeOK'
  BY <1>1, <1>2, <1>3 DEF IInv, TypeOK
<1>5. ClockInv'
  BY <1>1, <1>2 DEF IInv, ClockInv, In, Absent, Versions
<1>6. ListInv' /\ PhaseInv'
  BY <1>1 DEF IInv, ListInv, PhaseInv, Quiet
<1>7. CopyInv'
  <2> SUFFICES ASSUME NEW f \in Files, copied'[f] # 0
               PROVE  /\ Quiet(f) => copied'[f] = source[f]
                      /\ copied'[f] \in 1..Start => f \in relPaths
    BY <1>1 DEF CopyInv, In, Quiet, Absent
  <2>1. CASE copied'[f] = copied[f]
    BY <2>1 DEF IInv, CopyInv, In, Absent
  <2>2. CASE copied'[f] = source[f]
    BY <1>1, <2>2 DEF IInv, ListInv, Quiet
  <2> QED BY <1>3, <2>1, <2>2
<1>8. TimesNotLater'
  <2> SUFFICES ASSUME NEW f \in Files, copied'[f] # 0 PROVE times'[f] \in 1..copied'[f]
    BY DEF TimesNotLater, In, Absent
  <2>1. CASE copied'[f] = copied[f] /\ times'[f] = times[f]
    BY <2>1 DEF IInv, TimesNotLater, In, Absent
  <2>2. CASE f = g /\ g \in In(source) /\ copied'[g] = source[g] /\ times'[g] = infos[g]
    <3>1. infos[g] <= source[g] /\ infos[g] # 0
      BY <1>1, <2>2 DEF IInv, ClockInv, In, Absent
    <3> QED BY <1>2, <2>2, <3>1 DEF Versions
  <2> QED BY <1>3, <2>1, <2>2
<1> QED BY <1>4, <1>5, <1>6, <1>7, <1>8 DEF IInv

\* The last steps of Load change the phase only; Scan has found all files.
LEMMA PhaseStep == IInv /\ (EndCopy \/ ReadTemp \/ Scan) => IInv'
<1> SUFFICES ASSUME IInv, EndCopy \/ ReadTemp \/ Scan PROVE IInv'
  OBVIOUS
<1>1. CASE Abort
  BY <1>1, AbortStep
<1>2. CASE ~Abort
  <2>1. /\ pc \in {"copy", "read", "scan"} /\ pc' \in {"read", "scan", "push"}
        /\ pc' = "push" => relPaths \subseteq In(copied)
        /\ UNCHANGED <<source, clock, dirs, entries, infos, relPaths, copied, times>>
    BY <1>2 DEF EndCopy, ReadTemp, Scan, Scannable
  <2>2. TypeOK' /\ ClockInv' /\ ListInv' /\ CopyInv' /\ PhaseInv' /\ TimesNotLater'
    BY <2>1 DEF IInv, TypeOK, ClockInv, ListInv, CopyInv, PhaseInv, TimesNotLater, In, Quiet
  <2> QED BY <2>2 DEF IInv
<1> QED BY <1>1, <1>2

\* The strengthening is invariant.
THEOREM Invariance == Spec => []IInv
<1>1. IInv /\ UNCHANGED vars => IInv'
  BY DEF IInv, vars, TypeOK, ClockInv, ListInv, Walked, CopyInv, PhaseInv, TimesNotLater, In, Quiet
<1>2. IInv /\ [Next]_vars => IInv'
  BY <1>1, WriteStep, RemoveStep, ReadDirStep, ListStep, EndListStep, StatStep, CopyFileStep,
     PhaseStep DEF Next, Load
<1> QED BY <1>2, InitIInv, PTL DEF Spec

\* Every variable keeps its type.
THEOREM TypeCorrect == Spec => []TypeOK
<1>1. IInv => TypeOK
  BY DEF IInv
<1> QED BY <1>1, Invariance, PTL

\* Whatever is written meanwhile, and whatever the copy passes over, a manifest
\* that nobody touches is pushed as it is, scanned.
THEOREM QuietLoaded == Spec => []QuietFilesLoaded
<1>1. IInv => QuietFilesLoaded
  BY DEF IInv, ListInv, CopyInv, PhaseInv, QuietFilesLoaded, Quiet
<1> QED BY <1>1, Invariance, PTL

\* A manifest that is pushed without a scan is newer than the call to Load.
THEOREM UnscannedNew == Spec => []UnscannedAreNew
<1>1. IInv => UnscannedAreNew
  <2> SUFFICES ASSUME IInv, NEW f \in In(copied) \ relPaths PROVE copied[f] > Start
    BY DEF UnscannedAreNew
  <2>1. copied[f] \in Nat /\ copied[f] # 0 /\ Start \in Nat
    BY LoaderAssumption DEF IInv, TypeOK, In, Absent, Versions
  <2> QED BY <2>1 DEF IInv, CopyInv
<1> QED BY <1>1, Invariance, PTL

\* The time of a copy is never later than its contents.
THEOREM CopyTimes == Spec => []TimesNotLater
<1>1. IInv => TimesNotLater
  BY DEF IInv
<1> QED BY <1>1, Invariance, PTL
=============================================================================
