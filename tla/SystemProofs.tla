---------------------------- MODULE SystemProofs ----------------------------
(* Theorems about Filesystem and CommandLine: what the result of           *)
(* ensure_directory_structure means while other processes make             *)
(* directories, that read_paths returns every path, and what the option    *)
(* parser finds.                                                           *)
EXTENDS Filesystem, CommandLine, WellFoundedInduction, FiniteSetTheorems,
        SequenceTheorems, TLAPS

FilesTypeOK ==
    /\ exists \subseteq Seq(STRING)
    /\ pc \in [Processes -> {"idle", "access", "mkdir", "done"}]
    /\ path \in [Processes -> Paths]
    /\ depth \in [Processes -> Nat]
    /\ \A p \in Processes : depth[p] <= Len(path[p])
    /\ errno \in [Processes -> {"none", "EEXIST", "ENOENT", "EACCES"}]
    /\ status \in [Processes -> {0, 1}]
    /\ maker \in [AllDirectories -> Processes \cup {"none"}]
    /\ missed \in [Processes -> SUBSET AllDirectories]

\* A directory is only there with everything above it.
Tree == <<>> \in exists /\ \A d \in exists : Prefixes(d) \subseteq exists

\* What a call knows: a mkdir is only tried behind a directory that is there,
\* and with an errno that is that of the access that found nothing.
Knows(p) ==
    /\ pc[p] = "access" /\ depth[p] < Len(path[p]) => errno[p] = "ENOENT"
    /\ pc[p] = "mkdir" => depth[p] > 0
    /\ pc[p] = "mkdir" /\ status[p] = 1 =>
         errno[p] = "ENOENT" /\ Directory(p, depth[p] - 1) \in exists
    /\ pc[p] = "done" /\ status[p] = 1 => path[p] \in exists

FilesInv == FilesTypeOK /\ Tree /\ \A p \in Processes : Knows(p)

-----------------------------------------------------------------------------
(* Paths                                                                     *)

LEMMA PathSeq ==
    ASSUME FilesTypeOK, NEW p \in Processes
    PROVE  path[p] \in Seq(STRING) /\ path[p] \in Paths /\ Len(path[p]) \in Nat
           /\ Len(path[p]) > 0
<1>1. path[p] \in Seq(STRING) /\ path[p] \in Paths /\ path[p] # <<>>
  BY FilesystemAssumption DEF FilesTypeOK
<1>2. Len(path[p]) = 0 => path[p] = <<>>
  BY <1>1, EmptySeq
<1> QED
  BY <1>1, <1>2, LenProperties

LEMMA SubSeqTypes ==
    ASSUME NEW s \in Seq(STRING), NEW n \in 0..Len(s)
    PROVE  /\ SubSeq(s, 1, n) \in Seq(STRING)
           /\ Len(SubSeq(s, 1, n)) = n
           /\ \A i \in 1..n : SubSeq(s, 1, n)[i] = s[i]
<1>1. Len(s) \in Nat /\ s \in [1..Len(s) -> STRING]
  BY LenProperties
<1>2. n \in Int /\ 1 \in Int /\ \A i \in 1..n : s[i] \in STRING
  BY <1>1
<1>3. /\ SubSeq(s, 1, n) \in Seq(STRING)
      /\ Len(SubSeq(s, 1, n)) = IF 1 <= n THEN n - 1 + 1 ELSE 0
      /\ \A i \in 1..n - 1 + 1 : SubSeq(s, 1, n)[i] = s[1 + i - 1]
  BY <1>2, SubSeqProperties
<1> QED
  BY <1>1, <1>3

\* The directories above the n-th one of a path are those of the path.
LEMMA PrefixesOfPrefix ==
    ASSUME NEW s \in Seq(STRING), NEW n \in 0..Len(s)
    PROVE  Prefixes(SubSeq(s, 1, n)) = {SubSeq(s, 1, k) : k \in 0..n}
<1> DEFINE t == SubSeq(s, 1, n)
<1>0. Len(s) \in Nat
  BY LenProperties
<1>1. t \in Seq(STRING) /\ Len(t) = n /\ \A i \in 1..n : t[i] = s[i]
  BY SubSeqTypes
<1>2. ASSUME NEW k \in 0..n PROVE SubSeq(t, 1, k) = SubSeq(s, 1, k)
  <2>1. k \in 0..Len(t) /\ k \in 0..Len(s)
    BY <1>0, <1>1
  <2>2. /\ SubSeq(t, 1, k) \in Seq(STRING) /\ Len(SubSeq(t, 1, k)) = k
        /\ \A i \in 1..k : SubSeq(t, 1, k)[i] = t[i]
    BY <1>1, <2>1, SubSeqTypes
  <2>3. /\ SubSeq(s, 1, k) \in Seq(STRING) /\ Len(SubSeq(s, 1, k)) = k
        /\ \A i \in 1..k : SubSeq(s, 1, k)[i] = s[i]
    BY <2>1, SubSeqTypes
  <2>4. \A i \in 1..k : t[i] = s[i]
    BY <1>0, <1>1
  <2> QED
    BY <2>2, <2>3, <2>4, SeqEqual
<1>3. Prefixes(t) = {SubSeq(t, 1, k) : k \in 0..n}
  BY <1>1 DEF Prefixes
<1> QED
  BY <1>2, <1>3

LEMMA WholePath ==
    ASSUME FilesTypeOK, NEW p \in Processes
    PROVE  Directory(p, Len(path[p])) = path[p]
BY PathSeq, SubSeqFull DEF Directory

LEMMA RootOfPath ==
    ASSUME NEW p \in Processes
    PROVE  Directory(p, 0) = <<>>
BY SubSeqEmpty DEF Directory

\* All names of a path are the path.
LEMMA SubSeqWhole ==
    ASSUME NEW s \in Seq(STRING)
    PROVE  SubSeq(s, 1, Len(s)) = s
OBVIOUS

LEMMA DirectoryTypes ==
    ASSUME FilesTypeOK, NEW p \in Processes, NEW n \in 0..Len(path[p])
    PROVE  /\ Directory(p, n) \in AllDirectories
           /\ Directory(p, n) \in Seq(STRING)
           /\ Len(Directory(p, n)) = n
<1>1. Directory(p, n) \in Prefixes(path[p])
  BY DEF Directory, Prefixes
<1> QED
  BY <1>1, PathSeq, SubSeqTypes DEF Directory, AllDirectories

-----------------------------------------------------------------------------
LEMMA FilesInitial == FilesInit => FilesInv
<1> SUFFICES ASSUME FilesInit PROVE FilesInv
  OBVIOUS
<1>1. AllDirectories \subseteq Seq(STRING)
  <2>1. ASSUME NEW s \in Paths, NEW d \in Prefixes(s) PROVE d \in Seq(STRING)
    BY SubSeqTypes, FilesystemAssumption DEF Prefixes
  <2> QED
    BY <2>1 DEF AllDirectories
<1>2. exists \subseteq Seq(STRING) /\ Tree
  BY <1>1 DEF FilesInit, Tree
<1>3. \A p \in Processes : 0 <= Len(path[p])
  <2>1. \A s \in Paths : Len(s) \in Nat
    BY LenProperties, FilesystemAssumption
  <2> QED
    BY <2>1 DEF FilesInit
<1>4. FilesTypeOK
  BY <1>2, <1>3 DEF FilesInit, FilesTypeOK
<1> QED
  BY <1>2, <1>4 DEF FilesInit, FilesInv, Knows

\* What the other processes know stays true while the tree grows.
LEMMA OthersKnow ==
    ASSUME FilesInv, NEW p \in Processes, NEW q \in Processes, q # p,
           exists \subseteq exists', UNCHANGED path,
           pc'[q] = pc[q], depth'[q] = depth[q], errno'[q] = errno[q],
           status'[q] = status[q]
    PROVE  Knows(q)'
BY DEF FilesInv, Knows, Directory

\* A return leaves its caller, or the program, with what it knows.
LEMMA Returns ==
    ASSUME FilesInv, NEW p \in Processes, NEW r \in {0, 1}, Return(p, r),
           pc[p] \in {"access", "mkdir"}, UNCHANGED path,
           exists \subseteq exists', exists' \subseteq Seq(STRING), Tree',
           errno' \in [Processes -> {"none", "EEXIST", "ENOENT", "EACCES"}],
           \A q \in Processes \ {p} : errno'[q] = errno[q],
           maker' \in [AllDirectories -> Processes \cup {"none"}],
           UNCHANGED missed,
           r = 1 => Directory(p, depth[p]) \in exists',
           r = 1 /\ depth[p] < Len(path[p]) => errno'[p] = "ENOENT"
    PROVE  FilesInv'
<1> DEFINE outermost == depth[p] = Len(path[p])
<1>0. depth[p] \in Nat /\ Len(path[p]) \in Nat /\ depth[p] <= Len(path[p])
  BY PathSeq DEF FilesInv, FilesTypeOK
<1>1. /\ status' = [status EXCEPT ![p] = r]
      /\ pc' = [pc EXCEPT ![p] = IF outermost THEN "done" ELSE "mkdir"]
      /\ depth' = [depth EXCEPT ![p] = IF outermost THEN @ ELSE @ + 1]
  BY DEF Return
<1>2. /\ status'[p] = r
      /\ pc'[p] = IF outermost THEN "done" ELSE "mkdir"
      /\ depth'[p] = IF outermost THEN depth[p] ELSE depth[p] + 1
      /\ \A q \in Processes \ {p} :
           status'[q] = status[q] /\ pc'[q] = pc[q] /\ depth'[q] = depth[q]
  BY <1>1 DEF FilesInv, FilesTypeOK
<1>3. FilesTypeOK'
  <2>1. depth'[p] \in Nat /\ depth'[p] <= Len(path[p])
    BY <1>0, <1>2
  <2>2. depth' \in [Processes -> Nat] /\ \A q \in Processes : depth'[q] <= Len(path[q])
    BY <1>0, <1>1, <1>2, <2>1 DEF FilesInv, FilesTypeOK
  <2>3. /\ pc' \in [Processes -> {"idle", "access", "mkdir", "done"}]
        /\ status' \in [Processes -> {0, 1}]
    BY <1>1 DEF FilesInv, FilesTypeOK
  <2> QED
    BY <2>2, <2>3 DEF FilesInv, FilesTypeOK
<1>4. Knows(p)'
  <2>1. CASE outermost
    <3>1. r = 1 => path[p] \in exists'
      BY <2>1, WholePath DEF FilesInv
    <3> QED
      BY <1>2, <2>1, <3>1 DEF Knows
  <2>2. CASE ~outermost
    <3>1. depth[p] < Len(path[p]) /\ depth'[p] = depth[p] + 1 /\ depth'[p] > 0
          /\ depth'[p] - 1 = depth[p] /\ pc'[p] = "mkdir"
      BY <1>0, <1>2, <2>2
    <3>2. Directory(p, depth[p])' = SubSeq(path[p], 1, depth'[p])
      BY DEF Directory
    <3>3. r = 1 => SubSeq(path[p], 1, depth'[p] - 1) \in exists'
      BY <3>1 DEF Directory
    <3> QED
      BY <1>2, <3>1, <3>3 DEF Knows, Directory
  <2> QED
    BY <2>1, <2>2
<1>5. \A q \in Processes \ {p} : Knows(q)'
  BY <1>2, OthersKnow
<1> QED
  BY <1>3, <1>4, <1>5 DEF FilesInv

LEMMA CallKnows ==
    ASSUME FilesInv, NEW p \in Processes, Call(p)
    PROVE  FilesInv'
<1>0. Len(path[p]) \in Nat
  BY PathSeq DEF FilesInv
<1>1. /\ pc'[p] = "access" /\ depth'[p] = Len(path[p])
      /\ \A q \in Processes \ {p} : pc'[q] = pc[q] /\ depth'[q] = depth[q]
      /\ UNCHANGED <<exists, path, errno, status, maker, missed>>
  BY DEF Call, FilesInv, FilesTypeOK
<1>2. FilesTypeOK'
  BY <1>0, <1>1 DEF Call, FilesInv, FilesTypeOK
<1>3. Knows(p)'
  BY <1>0, <1>1 DEF Knows
<1>4. \A q \in Processes \ {p} : Knows(q)'
  BY <1>1, OthersKnow
<1> QED
  BY <1>1, <1>2, <1>3, <1>4 DEF FilesInv, Tree

LEMMA AccessKnows ==
    ASSUME FilesInv, NEW p \in Processes, Access(p)
    PROVE  FilesInv'
<1>0. depth[p] \in Nat /\ Len(path[p]) \in Nat /\ depth[p] <= Len(path[p])
  BY PathSeq DEF FilesInv, FilesTypeOK
<1>1. CASE Directory(p, depth[p]) \in exists
  <2>1. Return(p, 1) /\ UNCHANGED <<errno, missed, exists, path, maker>>
    BY <1>1 DEF Access, Found
  <2>2. depth[p] < Len(path[p]) => errno[p] = "ENOENT"
    BY DEF Access, FilesInv, Knows
  <2>3. FilesTypeOK /\ Tree /\ Tree'
    BY <2>1 DEF FilesInv, Tree
  <2> QED
    BY <1>1, <2>1, <2>2, <2>3, Returns DEF Access, FilesTypeOK
<1>2. CASE Directory(p, depth[p]) \notin exists
  <2>1. /\ errno' = [errno EXCEPT ![p] = "ENOENT"]
        /\ missed' = [missed EXCEPT ![p] = @ \cup {Directory(p, depth[p])}]
        /\ depth' = [depth EXCEPT ![p] = @ - 1]
        /\ pc[p] = "access"
        /\ UNCHANGED <<status, pc, exists, path, maker>>
    BY <1>2 DEF Access, Dirname
  <2>2. depth[p] # 0
    BY <1>2, RootOfPath DEF FilesInv, Tree
  <2>3. depth'[p] = depth[p] - 1 /\ depth'[p] \in Nat /\ depth'[p] <= Len(path[p])
    BY <1>0, <2>1, <2>2 DEF FilesInv, FilesTypeOK
  <2>4. Directory(p, depth[p]) \in AllDirectories
    BY <1>0, DirectoryTypes DEF FilesInv
  <2>5. /\ depth' \in [Processes -> Nat]
        /\ \A q \in Processes : depth'[q] <= Len(path[q])
    BY <2>1, <2>3 DEF FilesInv, FilesTypeOK
  <2>6. FilesTypeOK'
    BY <2>1, <2>4, <2>5 DEF FilesInv, FilesTypeOK
  <2>7. Knows(p)'
    BY <2>1 DEF Knows, FilesInv, FilesTypeOK
  <2>8. \A q \in Processes \ {p} : Knows(q)'
    BY <2>1, OthersKnow DEF FilesInv, FilesTypeOK
  <2> QED
    BY <2>1, <2>6, <2>7, <2>8 DEF FilesInv, Tree
<1> QED
  BY <1>1, <1>2

\* A directory that is made below one that is there.
LEMMA TreeGrows ==
    ASSUME FilesInv, NEW p \in Processes, NEW n \in 1..Len(path[p]),
           Directory(p, n - 1) \in exists, exists' = exists \cup {Directory(p, n)}
    PROVE  Tree' /\ exists' \subseteq Seq(STRING)
<1>0. path[p] \in Seq(STRING) /\ Len(path[p]) \in Nat
  BY PathSeq DEF FilesInv
<1>1. n \in 0..Len(path[p]) /\ n - 1 \in 0..Len(path[p]) /\ n \in Nat
  BY <1>0
<1>2. /\ Prefixes(Directory(p, n)) = {SubSeq(path[p], 1, k) : k \in 0..n}
      /\ Prefixes(Directory(p, n - 1)) = {SubSeq(path[p], 1, k) : k \in 0..(n - 1)}
  BY <1>0, <1>1, PrefixesOfPrefix DEF Directory
<1>3. \A k \in 0..n : k = n \/ k \in 0..(n - 1)
  BY <1>1
<1>4. Prefixes(Directory(p, n)) \subseteq Prefixes(Directory(p, n - 1)) \cup {Directory(p, n)}
  BY <1>2, <1>3 DEF Directory
<1>5. Prefixes(Directory(p, n)) \subseteq exists'
  BY <1>4 DEF FilesInv, Tree
<1>6. exists' \subseteq Seq(STRING)
  BY <1>1, DirectoryTypes DEF FilesInv, FilesTypeOK
<1> QED
  BY <1>5, <1>6 DEF FilesInv, Tree

LEMMA MkdirKnows ==
    ASSUME FilesInv, NEW p \in Processes, Mkdir(p)
    PROVE  FilesInv'
<1> DEFINE d == Directory(p, depth[p])
<1>0. /\ depth[p] \in Nat /\ Len(path[p]) \in Nat /\ depth[p] <= Len(path[p])
      /\ depth[p] > 0 /\ pc[p] = "mkdir"
  BY PathSeq DEF FilesInv, FilesTypeOK, Knows, Mkdir
<1>1. UNCHANGED <<path, missed>> /\ FilesTypeOK /\ Tree
  BY DEF Mkdir, FilesInv
<1>2. CASE status[p] = 0
  <2>1. Return(p, 0) /\ UNCHANGED <<exists, maker, errno>>
    BY <1>2 DEF Mkdir
  <2>2. Tree' /\ exists \subseteq exists' /\ exists' \subseteq Seq(STRING)
    BY <1>1, <2>1 DEF Tree, FilesTypeOK
  <2>3. /\ errno' \in [Processes -> {"none", "EEXIST", "ENOENT", "EACCES"}]
        /\ \A q \in Processes \ {p} : errno'[q] = errno[q]
        /\ maker' \in [AllDirectories -> Processes \cup {"none"}]
    BY <1>1, <2>1 DEF FilesTypeOK
  <2>4. 0 \in {0, 1} /\ 0 # 1
    OBVIOUS
  <2> QED
    BY <1>0, <1>1, <2>1, <2>2, <2>3, <2>4, Returns
<1>3. CASE status[p] # 0
  <2>1. status[p] = 1
    BY <1>1, <1>3 DEF FilesTypeOK
  <2>2. errno[p] = "ENOENT" /\ Directory(p, depth[p] - 1) \in exists
    BY <1>0, <2>1 DEF FilesInv, Knows
  <2>3. PICK result \in {"ok", "EEXIST", "EACCES"} :
          /\ Return(p, IF result = "ok" THEN 1 ELSE 0)
          /\ exists' = IF result = "ok" THEN exists \cup {d} ELSE exists
          /\ maker' = IF result = "ok" THEN [maker EXCEPT ![d] = p] ELSE maker
          /\ errno' = [errno EXCEPT ![p] =
                         IF result \in {"EEXIST", "EACCES"} THEN result ELSE @]
    BY <1>3, <2>2 DEF Mkdir, Succeeds
  <2>4. exists \subseteq exists' /\ exists' \subseteq Seq(STRING) /\ Tree'
    <3>1. CASE result = "ok"
      BY <1>0, <2>2, <2>3, <3>1, TreeGrows
    <3>2. CASE result # "ok"
      BY <1>1, <2>3, <3>2 DEF FilesTypeOK, Tree
    <3> QED
      BY <3>1, <3>2
  <2>5. /\ errno' \in [Processes -> {"none", "EEXIST", "ENOENT", "EACCES"}]
        /\ \A q \in Processes \ {p} : errno'[q] = errno[q]
        /\ result = "ok" => errno'[p] = "ENOENT"
    BY <1>1, <2>2, <2>3 DEF FilesTypeOK
  <2>6. maker' \in [AllDirectories -> Processes \cup {"none"}]
    BY <1>1, <2>3 DEF FilesTypeOK
  <2>7. result = "ok" => d \in exists'
    BY <2>3
  <2> QED
    BY <1>0, <1>1, <2>3, <2>4, <2>5, <2>6, <2>7, Returns
<1> QED
  BY <1>2, <1>3

LEMMA FilesStep == FilesInv /\ [FilesNext]_filesVars => FilesInv'
<1> SUFFICES ASSUME FilesInv, [FilesNext]_filesVars PROVE FilesInv'
  OBVIOUS
<1>1. CASE UNCHANGED filesVars
  BY <1>1 DEF filesVars, FilesInv, FilesTypeOK, Tree, Knows, Directory
<1> QED
  BY <1>1, CallKnows, AccessKnows, MkdirKnows DEF FilesNext

LEMMA FilesAlways == FilesSpec => []FilesInv
BY FilesInitial, FilesStep, PTL DEF FilesSpec

\* A call that returned 1 can be relied on, for any paths and any number of
\* processes: the path is there with everything above it, though nothing
\* holds the tree between access and mkdir (filesystem.h:19-35).
THEOREM OneCanBeReliedOn == FilesSpec => []OneMeansThere
<1>1. FilesInv => OneMeansThere
  BY DEF FilesInv, Knows, Tree, OneMeansThere
<1> QED
  BY <1>1, FilesAlways, PTL

-----------------------------------------------------------------------------
(* Why a call may return 0                                                   *)

Excused(p) == errno[p] = "EACCES" \/ Overtaken(p)

\* A directory that was missed and is there was made since; what a process
\* made lies above what it makes next; what it could not make it missed.
Raced(p) ==
    /\ \A d \in missed[p] : d \in exists => maker[d] # "none"
    /\ \A d \in AllDirectories : maker[d] = p =>
         pc[p] = "done" \/ (pc[p] = "mkdir" /\ Len(d) < depth[p])
    /\ \A k \in 0..Len(path[p]) :
         \/ pc[p] = "access" /\ depth[p] < k
         \/ pc[p] = "mkdir" /\ depth[p] <= k
         => Directory(p, k) \in missed[p]
    /\ pc[p] \in {"mkdir", "done"} /\ status[p] = 0 => Excused(p)
    /\ pc[p] = "done" /\ status[p] = 0 => path[p] \in missed[p] /\ maker[path[p]] # p

RaceInv ==
    /\ FilesInv
    /\ \A d \in AllDirectories : maker[d] # "none" => d \in exists
    /\ \A p \in Processes : Raced(p)

LEMMA RaceInitial == FilesInit => RaceInv
<1> SUFFICES ASSUME FilesInit PROVE RaceInv
  OBVIOUS
<1>1. \A p \in Processes : "none" # p
  BY FilesystemAssumption
<1>2. ASSUME NEW p \in Processes PROVE Raced(p)
  <2>1. pc[p] = "idle" /\ missed[p] = {} /\ \A d \in AllDirectories : maker[d] = "none"
    BY DEF FilesInit
  <2> QED
    BY <1>1, <2>1 DEF Raced
<1>3. \A d \in AllDirectories : maker[d] = "none"
  BY DEF FilesInit
<1> QED
  BY <1>2, <1>3, FilesInitial DEF RaceInv

\* What the tree and its makers may do in a step of p.
Grows(p) ==
    \/ UNCHANGED <<exists, maker>>
    \/ \E d \in AllDirectories \ exists :
         exists' = exists \cup {d} /\ maker' = [maker EXCEPT ![d] = p]

\* A directory with a maker keeps it; what was missed gets one when it appears.
LEMMA MakersStay ==
    ASSUME RaceInv, NEW p \in Processes, Grows(p)
    PROVE  /\ \A d \in AllDirectories : maker[d] # "none" => maker'[d] = maker[d]
           /\ \A d \in AllDirectories : maker'[d] # "none" => d \in exists'
           /\ \A d \in AllDirectories :
                (d \in exists => maker[d] # "none") => (d \in exists' => maker'[d] # "none")
           /\ \A d \in AllDirectories, q \in Processes \ {p} :
                maker'[d] = q => maker[d] = q
<1>0. maker \in [AllDirectories -> Processes \cup {"none"}] /\ p # "none"
  BY FilesystemAssumption DEF RaceInv, FilesInv, FilesTypeOK
<1>1. CASE UNCHANGED <<exists, maker>>
  BY <1>1 DEF RaceInv
<1>2. CASE \E d \in AllDirectories \ exists :
             exists' = exists \cup {d} /\ maker' = [maker EXCEPT ![d] = p]
  <2>1. PICK d \in AllDirectories \ exists :
          exists' = exists \cup {d} /\ maker' = [maker EXCEPT ![d] = p]
    BY <1>2
  <2>2. maker[d] = "none"
    BY DEF RaceInv
  <2>3. maker'[d] = p /\ \A e \in AllDirectories \ {d} : maker'[e] = maker[e]
    BY <1>0, <2>1
  <2>4. \A e \in AllDirectories : maker[e] # "none" => e \in exists
    BY DEF RaceInv
  <2> QED
    BY <1>0, <2>1, <2>2, <2>3, <2>4
<1> QED
  BY <1>1, <1>2 DEF Grows

LEMMA OthersRaced ==
    ASSUME RaceInv, NEW p \in Processes, NEW q \in Processes, q # p, Grows(p),
           UNCHANGED path, pc'[q] = pc[q], depth'[q] = depth[q],
           errno'[q] = errno[q], status'[q] = status[q], missed'[q] = missed[q]
    PROVE  Raced(q)'
<1>1. Raced(q) /\ missed[q] \subseteq AllDirectories
  BY DEF RaceInv, FilesInv, FilesTypeOK
<1>2. \A d \in missed'[q] : d \in exists' => maker'[d] # "none"
  BY <1>1, MakersStay DEF Raced
<1>3. \A d \in AllDirectories : maker'[d] = q =>
        pc'[q] = "done" \/ (pc'[q] = "mkdir" /\ Len(d) < depth'[q])
  BY <1>1, MakersStay DEF Raced
<1>4. Excused(q) => Excused(q)'
  BY <1>1, MakersStay DEF Excused, Overtaken
<1>5. path[q] \in AllDirectories /\ maker[path[q]] # q => maker'[path[q]] # q
  BY MakersStay
<1> QED
  BY <1>1, <1>2, <1>3, <1>4, <1>5 DEF Raced, Directory

\* What a return means for the process that returns, if the directory that it
\* made, if any, is the one it returns from.
LEMMA ReturnsRaced ==
    ASSUME RaceInv, NEW p \in Processes, NEW r \in {0, 1}, Return(p, r),
           pc[p] \in {"access", "mkdir"}, UNCHANGED <<path, missed>>, Grows(p),
           \A d \in AllDirectories : maker'[d] = p =>
             maker[d] = p \/ d = Directory(p, depth[p]),
           r = 0 => pc[p] = "mkdir" /\ Excused(p)' /\ UNCHANGED maker
    PROVE  Raced(p)'
<1>0. /\ depth[p] \in Nat /\ Len(path[p]) \in Nat /\ depth[p] <= Len(path[p])
      /\ FilesTypeOK
  BY PathSeq DEF RaceInv, FilesInv, FilesTypeOK
<1>1. /\ status'[p] = r
      /\ pc'[p] = IF depth[p] = Len(path[p]) THEN "done" ELSE "mkdir"
      /\ depth'[p] = IF depth[p] = Len(path[p]) THEN depth[p] ELSE depth[p] + 1
  BY <1>0 DEF Return, FilesTypeOK
<1>2. Raced(p) /\ missed[p] \subseteq AllDirectories
  BY <1>0 DEF RaceInv, FilesTypeOK
<1>3. \A d \in missed'[p] : d \in exists' => maker'[d] # "none"
  BY <1>2, MakersStay DEF Raced
<1>4. ASSUME NEW d \in AllDirectories, maker'[d] = p, pc'[p] # "done"
      PROVE  pc'[p] = "mkdir" /\ Len(d) < depth'[p]
  <2>1. pc'[p] = "mkdir" /\ depth'[p] = depth[p] + 1
    BY <1>1, <1>4
  <2>2. CASE maker[d] = p
    <3>1. Len(d) < depth[p]
      BY <1>2, <2>2 DEF Raced
    <3>2. Len(d) \in Nat
      <4>1. PICK s \in Paths : d \in Prefixes(s)
        BY DEF AllDirectories
      <4>2. s \in Seq(STRING)
        BY FilesystemAssumption
      <4>3. PICK k \in 0..Len(s) : d = SubSeq(s, 1, k)
        BY <4>1 DEF Prefixes
      <4>4. Len(s) \in Nat /\ Len(d) = k
        BY <4>2, <4>3, SubSeqTypes, LenProperties
      <4> QED
        BY <4>4
    <3> QED
      BY <1>0, <2>1, <3>1, <3>2
  <2>3. CASE d = Directory(p, depth[p])
    <3>1. Len(d) = depth[p]
      BY <1>0, <2>3, DirectoryTypes
    <3> QED
      BY <1>0, <2>1, <3>1
  <2> QED
    BY <1>4, <2>2, <2>3
<1>5. ASSUME NEW k \in 0..Len(path[p]), pc'[p] = "mkdir", depth'[p] <= k
      PROVE  Directory(p, k) \in missed[p]
  <2>1. depth[p] < k /\ depth[p] <= k
    BY <1>0, <1>1, <1>5
  <2> QED
    BY <1>2, <2>1 DEF Raced
<1>6. pc'[p] # "access"
  BY <1>1
<1>7. ASSUME pc'[p] = "done", r = 0
      PROVE  path[p] \in missed[p] /\ maker'[path[p]] # p
  <2>1. depth[p] = Len(path[p]) /\ pc[p] = "mkdir" /\ maker' = maker
    BY <1>1, <1>7
  <2>2. Directory(p, depth[p]) = path[p]
    BY <1>0, <2>1, PathSeq, SubSeqWhole DEF Directory
  <2>3. depth[p] \in 0..Len(path[p]) /\ depth[p] <= depth[p] /\ ~(depth[p] < depth[p])
    BY <1>0, <2>1
  <2>4. path[p] \in missed[p]
    BY <1>2, <2>1, <2>2, <2>3 DEF Raced
  <2> QED
    BY <1>2, <2>1, <2>3, <2>4 DEF Raced
<1> QED
  BY <1>1, <1>3, <1>4, <1>5, <1>6, <1>7 DEF Raced, Directory

LEMMA CallRaced ==
    ASSUME RaceInv, NEW p \in Processes, Call(p)
    PROVE  \A q \in Processes : Raced(q)'
<1>1. /\ pc[p] = "idle" /\ pc'[p] = "access" /\ depth'[p] = Len(path[p])
      /\ \A q \in Processes \ {p} : pc'[q] = pc[q] /\ depth'[q] = depth[q]
      /\ UNCHANGED <<exists, path, errno, status, maker, missed>>
  BY DEF Call, RaceInv, FilesInv, FilesTypeOK
<1>2. Raced(p) /\ Len(path[p]) \in Nat
  BY PathSeq DEF RaceInv, FilesInv
<1>3. \A k \in 0..Len(path[p]) : ~(depth'[p] < k)
  BY <1>1, <1>2
<1>4. Raced(p)'
  BY <1>1, <1>2, <1>3 DEF Raced
<1>5. \A q \in Processes \ {p} : Raced(q)'
  BY <1>1, OthersRaced DEF Grows
<1> QED
  BY <1>4, <1>5

LEMMA AccessRaced ==
    ASSUME RaceInv, NEW p \in Processes, Access(p)
    PROVE  \A q \in Processes : Raced(q)'
<1>0. /\ depth[p] \in Nat /\ Len(path[p]) \in Nat /\ depth[p] <= Len(path[p])
      /\ FilesTypeOK /\ pc[p] = "access" /\ Raced(p)
      /\ UNCHANGED <<exists, path, maker>>
  BY PathSeq DEF RaceInv, FilesInv, FilesTypeOK, Access
<1>1. CASE Directory(p, depth[p]) \in exists
  <2>1. Return(p, 1) /\ UNCHANGED <<errno, missed>>
    BY <1>1 DEF Access, Found
  <2>2. 1 \in {0, 1} /\ 1 # 0
    OBVIOUS
  <2>3. Grows(p) /\ \A d \in AllDirectories : maker'[d] = p => maker[d] = p
    BY <1>0 DEF Grows
  <2>4. Raced(p)'
    BY <1>0, <2>1, <2>2, <2>3, ReturnsRaced
  <2>5. \A q \in Processes \ {p} :
          pc'[q] = pc[q] /\ depth'[q] = depth[q] /\ status'[q] = status[q]
    BY <1>0, <2>1 DEF Return, FilesTypeOK
  <2>6. \A q \in Processes \ {p} : Raced(q)'
    BY <1>0, <2>1, <2>3, <2>5, OthersRaced
  <2> QED
    BY <2>4, <2>6
<1>2. CASE Directory(p, depth[p]) \notin exists
  <2>1. /\ errno' = [errno EXCEPT ![p] = "ENOENT"]
        /\ missed' = [missed EXCEPT ![p] = @ \cup {Directory(p, depth[p])}]
        /\ depth' = [depth EXCEPT ![p] = @ - 1]
        /\ UNCHANGED <<status, pc>>
    BY <1>2 DEF Access, Dirname
  <2>2. /\ missed'[p] = missed[p] \cup {Directory(p, depth[p])}
        /\ depth'[p] = depth[p] - 1 /\ pc'[p] = "access"
        /\ \A q \in Processes \ {p} :
             errno'[q] = errno[q] /\ missed'[q] = missed[q] /\ depth'[q] = depth[q]
    BY <1>0, <2>1 DEF FilesTypeOK
  <2>3. \A d \in missed'[p] : d \in exists' => maker'[d] # "none"
    BY <1>0, <1>2, <2>2 DEF Raced
  <2>4. \A d \in AllDirectories : maker'[d] # p
    BY <1>0 DEF Raced
  <2>5. ASSUME NEW k \in 0..Len(path[p]), depth'[p] < k
        PROVE  Directory(p, k) \in missed'[p]
    <3>1. k = depth[p] \/ depth[p] < k
      BY <1>0, <2>2, <2>5
    <3> QED
      BY <1>0, <2>2, <3>1 DEF Raced
  <2>6. Raced(p)'
    BY <1>0, <2>2, <2>3, <2>4, <2>5 DEF Raced, Directory
  <2>7. \A q \in Processes \ {p} : Raced(q)'
    BY <1>0, <2>1, <2>2, OthersRaced DEF Grows
  <2> QED
    BY <2>6, <2>7
<1> QED
  BY <1>1, <1>2

LEMMA MkdirRaced ==
    ASSUME RaceInv, NEW p \in Processes, Mkdir(p)
    PROVE  Grows(p) /\ \A q \in Processes : Raced(q)'
<1> DEFINE d == Directory(p, depth[p])
<1>0. /\ depth[p] \in Nat /\ Len(path[p]) \in Nat /\ depth[p] <= Len(path[p])
      /\ FilesTypeOK /\ Raced(p) /\ pc[p] = "mkdir"
      /\ UNCHANGED <<path, missed>>
  BY PathSeq DEF RaceInv, FilesInv, FilesTypeOK, Mkdir
<1>1. d \in AllDirectories /\ Len(d) = depth[p] /\ d \in missed[p]
  <2>1. depth[p] \in 0..Len(path[p]) /\ depth[p] <= depth[p]
    BY <1>0
  <2> QED
    BY <1>0, <2>1, DirectoryTypes DEF Raced
<1>2. CASE status[p] = 0
  <2>1. Return(p, 0) /\ UNCHANGED <<exists, maker, errno>>
    BY <1>2 DEF Mkdir
  <2>2. Grows(p) /\ \A e \in AllDirectories : maker'[e] = p => maker[e] = p
    BY <2>1 DEF Grows
  <2>3. Excused(p)'
    BY <1>0, <1>2, <2>1 DEF Raced, Excused, Overtaken
  <2>4. 0 \in {0, 1}
    OBVIOUS
  <2>5. Raced(p)'
    BY <1>0, <2>1, <2>2, <2>3, <2>4, ReturnsRaced
  <2>6. \A q \in Processes \ {p} :
          pc'[q] = pc[q] /\ depth'[q] = depth[q] /\ status'[q] = status[q]
    BY <1>0, <2>1 DEF Return, FilesTypeOK
  <2>7. \A q \in Processes \ {p} : Raced(q)'
    BY <1>0, <2>1, <2>2, <2>6, OthersRaced
  <2> QED
    BY <2>2, <2>5, <2>7
<1>3. CASE status[p] # 0
  <2>1. errno[p] = "ENOENT"
    BY <1>0, <1>3 DEF RaceInv, FilesInv, Knows, FilesTypeOK
  <2>2. PICK result \in {"ok", "EEXIST", "EACCES"} :
          /\ result = "EEXIST" <=> d \in exists
          /\ Return(p, IF result = "ok" THEN 1 ELSE 0)
          /\ exists' = IF result = "ok" THEN exists \cup {d} ELSE exists
          /\ maker' = IF result = "ok" THEN [maker EXCEPT ![d] = p] ELSE maker
          /\ errno' = [errno EXCEPT ![p] =
                         IF result \in {"EEXIST", "EACCES"} THEN result ELSE @]
    BY <1>3, <2>1 DEF Mkdir, Succeeds
  <2>3. Grows(p)
    BY <1>1, <2>2 DEF Grows
  <2>4. \A e \in AllDirectories : maker'[e] = p => maker[e] = p \/ e = d
    BY <1>0, <1>1, <2>2 DEF FilesTypeOK
  <2>5. result = "EEXIST" => maker[d] \notin {p, "none"}
    <3>1. ~(Len(d) < depth[p])
      BY <1>0, <1>1
    <3> QED
      BY <1>0, <1>1, <2>2, <3>1 DEF Raced
  <2>6. result # "ok" => Excused(p)' /\ UNCHANGED maker
    <3>1. result = "EEXIST" => Excused(p)'
      BY <1>0, <1>1, <2>2, <2>5 DEF Excused, Overtaken
    <3>2. result = "EACCES" => errno'[p] = "EACCES"
      BY <1>0, <2>2 DEF FilesTypeOK
    <3> QED
      BY <2>2, <3>1, <3>2 DEF Excused
  <2>7. PICK r \in {0, 1} : r = IF result = "ok" THEN 1 ELSE 0
    OBVIOUS
  <2>8. Raced(p)'
    BY <1>0, <2>2, <2>3, <2>4, <2>6, <2>7, ReturnsRaced
  <2>9. \A q \in Processes \ {p} :
          /\ pc'[q] = pc[q] /\ depth'[q] = depth[q] /\ status'[q] = status[q]
          /\ errno'[q] = errno[q]
    BY <1>0, <2>2 DEF Return, FilesTypeOK
  <2>10. \A q \in Processes \ {p} : Raced(q)'
    BY <1>0, <2>3, <2>9, OthersRaced
  <2> QED
    BY <2>3, <2>8, <2>10
<1> QED
  BY <1>2, <1>3

LEMMA RaceStep == RaceInv /\ [FilesNext]_filesVars => RaceInv'
<1> SUFFICES ASSUME RaceInv, [FilesNext]_filesVars PROVE RaceInv'
  OBVIOUS
<1>1. FilesInv'
  BY FilesStep DEF RaceInv
<1>2. CASE UNCHANGED filesVars
  BY <1>1, <1>2 DEF filesVars, RaceInv, Raced, Excused, Overtaken, Directory
<1>3. ASSUME NEW p \in Processes, Call(p) \/ Access(p) \/ Mkdir(p)
      PROVE  RaceInv'
  <2>1. Grows(p)
    BY <1>3, MkdirRaced DEF Call, Access, Grows
  <2>2. \A q \in Processes : Raced(q)'
    BY <1>3, CallRaced, AccessRaced, MkdirRaced
  <2> QED
    BY <1>1, <2>1, <2>2, MakersStay DEF RaceInv
<1> QED
  BY <1>2, <1>3 DEF FilesNext

\* For any paths and any number of processes, a call that no other overtook
\* tells exactly whether the path is there, and returns 0 only where mkdir was
\* refused (filesystem.h:19-35).
THEOREM ExactWithoutRace == FilesSpec => []ExactUnlessOvertaken
<1>1. RaceInv => ExactUnlessOvertaken
  <2> SUFFICES ASSUME RaceInv, NEW p \in Processes, pc[p] = "done", ~Overtaken(p)
               PROVE  /\ status[p] = 1 <=> path[p] \in exists
                      /\ status[p] = 0 => errno[p] = "EACCES"
    BY DEF ExactUnlessOvertaken
  <2>1. Raced(p) /\ status[p] \in {0, 1} /\ FilesTypeOK
    BY DEF RaceInv, FilesInv, FilesTypeOK
  <2>2. CASE status[p] = 1
    <3>1. path[p] \in Prefixes(path[p])
      <4>1. Len(path[p]) \in 0..Len(path[p]) /\ path[p] = SubSeq(path[p], 1, Len(path[p]))
        BY <2>1, PathSeq, SubSeqWhole
      <4> QED
        BY <4>1 DEF Prefixes
    <3>2. Prefixes(path[p]) \subseteq exists
      BY <2>2 DEF RaceInv, FilesInv, Knows, Tree
    <3> QED
      BY <2>2, <3>1, <3>2
  <2>3. CASE status[p] = 0
    <3>1. errno[p] = "EACCES" /\ path[p] \in missed[p] /\ maker[path[p]] # p
      BY <2>1, <2>3 DEF Raced, Excused
    <3>2. path[p] \notin exists
      BY <2>1, <3>1 DEF Raced, Overtaken
    <3> QED
      BY <2>3, <3>1, <3>2
  <2> QED
    BY <2>1, <2>2, <2>3
<1> QED
  BY <1>1, RaceInitial, RaceStep, PTL DEF FilesSpec

-----------------------------------------------------------------------------
(* Facts about numbers                                                     *)

\* A set of natural numbers has a least one.
LEMMA LeastNumber ==
    ASSUME NEW S, S \subseteq Nat, S # {}
    PROVE  \E m \in S : \A n \in S : m <= n
<1> DEFINE Less == {p \in Nat \X Nat : p[1] < p[2]}
<1>1. IsWellFoundedOn(Less, Nat)
  BY NatLessThanWellFounded DEF OpToRel
<1>2. PICK m \in S : \A n \in S : <<n, m>> \notin Less
  BY <1>1, WFMin
<1>3. ASSUME NEW n \in S PROVE m <= n
  <2>1. <<n, m>> \in Nat \X Nat /\ <<n, m>>[1] = n /\ <<n, m>>[2] = m
    OBVIOUS
  <2>2. ~(n < m)
    BY <1>2, <2>1
  <2> QED
    BY <2>2
<1> QED
  BY <1>3

-----------------------------------------------------------------------------
(* read_paths                                                                *)

\* what the loop over the characters makes of character i
Scanned(i, p) ==
    IF input[i] # Delimiter THEN p
    ELSE [start |-> i + 1,
          paths |-> IF i > p.start THEN Append(p.paths, <<p.start, i - 1>>) ELSE p.paths]
Fresh == [start |-> 1, paths |-> <<>>]

\* f are the results of the loop for the first n characters
ScanWalk(n, f) == f = [i \in 0..n |-> IF i = 0 THEN Fresh ELSE Scanned(i, f[i - 1])]

LEMMA ScanWalkAt ==
    ASSUME NEW n \in Nat, NEW f, ScanWalk(n, f)
    PROVE  f[0] = Fresh /\ \A i \in 1..n : f[i] = Scanned(i, f[i - 1])
<1>1. \A i \in 0..n : f[i] = IF i = 0 THEN Fresh ELSE Scanned(i, f[i - 1])
  BY DEF ScanWalk
<1> QED BY <1>1

LEMMA ScanWalkExists == ASSUME NEW n \in Nat PROVE \E f : ScanWalk(n, f)
<1> DEFINE Wrong == {m \in Nat : ~\E f : ScanWalk(m, f)}
<1> SUFFICES ASSUME Wrong # {} PROVE FALSE
  OBVIOUS
<1>1. PICK m \in Wrong : \A k \in Wrong : m <= k
  <2>1. Wrong \subseteq Nat
    OBVIOUS
  <2> HIDE DEF Wrong
  <2> QED BY <2>1, LeastNumber
<1>2. CASE m = 0
  <2>1. ScanWalk(0, [i \in 0..0 |-> Fresh])
    BY DEF ScanWalk
  <2> QED BY <1>1, <1>2, <2>1
<1>3. CASE m # 0
  <2>1. m - 1 \in Nat /\ ~(m <= m - 1)
    BY <1>1, <1>3
  <2>2. PICK f : ScanWalk(m - 1, f)
    BY <1>1, <2>1
  <2> DEFINE g == [i \in 0..m |-> IF i = m THEN Scanned(m, f[m - 1]) ELSE f[i]]
  <2>3. ASSUME NEW i \in 0..m PROVE g[i] = IF i = 0 THEN Fresh ELSE Scanned(i, g[i - 1])
    <3>1. CASE i = m
      <4>1. m - 1 \in 0..m /\ m - 1 # m
        BY <2>1
      <4>2. g[m - 1] = f[m - 1]
        BY <4>1
      <4> QED BY <1>3, <3>1, <4>2
    <3>2. CASE i # m
      <4>1. i \in 0..(m - 1) /\ g[i] = f[i]
        BY <2>1, <3>2
      <4>2. i # 0 => i - 1 \in 0..m /\ i - 1 # m /\ g[i - 1] = f[i - 1] /\ i \in 1..(m - 1)
        BY <2>1, <4>1
      <4>3. f[0] = Fresh /\ \A j \in 1..(m - 1) : f[j] = Scanned(j, f[j - 1])
        BY <2>1, <2>2, ScanWalkAt
      <4> HIDE DEF g
      <4> QED BY <4>1, <4>2, <4>3
    <3> QED BY <3>1, <3>2
  <2>4. ScanWalk(m, g)
    <3>1. g = [i \in 0..m |-> g[i]]
      OBVIOUS
    <3>2. [i \in 0..m |-> g[i]] = [i \in 0..m |-> IF i = 0 THEN Fresh ELSE Scanned(i, g[i - 1])]
      <4> HIDE DEF g
      <4> QED BY <2>3
    <3> HIDE DEF g
    <3> QED BY <3>1, <3>2 DEF ScanWalk
  <2> QED BY <1>1, <2>4
<1> QED BY <1>2, <1>3

\* The recursion of Scan is such a walk.
LEMMA ScanUnfolds ==
    ASSUME NEW n \in Nat
    PROVE  \E f : ScanWalk(n, f) /\ Scan(n) = f[n].paths
<1> DEFINE scanned[i \in 0..n] ==
             IF i = 0 THEN [start |-> 1, paths |-> <<>>]
             ELSE IF input[i] # Delimiter THEN scanned[i - 1]
             ELSE [start |-> i + 1,
                   paths |-> IF i > scanned[i - 1].start
                             THEN Append(scanned[i - 1].paths, <<scanned[i - 1].start, i - 1>>)
                             ELSE scanned[i - 1].paths]
           Is(g) == g = [i \in 0..n |->
             IF i = 0 THEN [start |-> 1, paths |-> <<>>]
             ELSE IF input[i] # Delimiter THEN g[i - 1]
             ELSE [start |-> i + 1,
                   paths |-> IF i > g[i - 1].start
                             THEN Append(g[i - 1].paths, <<g[i - 1].start, i - 1>>)
                             ELSE g[i - 1].paths]]
<1>1. scanned = CHOOSE g : Is(g)
  OBVIOUS
<1>2. Scan(n) = scanned[n].paths
  BY DEF Scan
<1>3. PICK f : ScanWalk(n, f)
  BY ScanWalkExists
<1>4. Is(f)
  BY <1>3 DEF ScanWalk, Scanned, Fresh
<1>5. Is(scanned)
  <2> HIDE DEF scanned, Is
  <2> QED BY <1>1, <1>4
<1> HIDE DEF scanned
<1>6. ScanWalk(n, scanned)
  BY <1>5 DEF ScanWalk, Scanned, Fresh
<1> QED BY <1>2, <1>6

\* What is known of the result p for the first n characters: where the piece
\* begins that is not ended, and that the paths are the pieces that are.
ScanOK(n, p) ==
    /\ p.start \in 1..(n + 1)
    /\ p.start = 1 \/ input[p.start - 1] = Delimiter
    /\ \A k \in p.start..n : input[k] # Delimiter
    /\ p.paths \in Seq(Nat \X Nat)
    /\ {p.paths[i] : i \in 1..Len(p.paths)} = Pieces(n)
    /\ \A i \in 1..Len(p.paths) : p.paths[i][2] < p.start
    /\ \A i, j \in 1..Len(p.paths) : i < j => p.paths[i][2] < p.paths[j][1]

LEMMA ScannedOther ==
    ASSUME NEW n \in Nat \ {0}, NEW p, ScanOK(n - 1, p), input[n] # Delimiter
    PROVE  ScanOK(n, p)
<1>1. Pieces(n) = Pieces(n - 1)
  <2>1. ASSUME NEW i \in 1..n, NEW j \in 1..n, j < n, input[j + 1] = Delimiter
        PROVE  i <= j => i \in 1..(n - 1) /\ j \in 1..(n - 1) /\ j < n - 1
    BY <2>1
  <2>2. Pieces(n) \subseteq Pieces(n - 1)
    <3> SUFFICES ASSUME NEW i \in 1..n, NEW j \in 1..n,
                        /\ i <= j /\ \A k \in i..j : input[k] # Delimiter
                        /\ i = 1 \/ input[i - 1] = Delimiter
                        /\ j < n /\ input[j + 1] = Delimiter
                 PROVE  <<i, j>> \in Pieces(n - 1)
      BY DEF Pieces
    <3>1. i \in 1..(n - 1) /\ j \in 1..(n - 1) /\ j < n - 1
      BY <2>1
    <3> QED BY <3>1 DEF Pieces
  <2>3. Pieces(n - 1) \subseteq Pieces(n)
    BY DEF Pieces
  <2> QED BY <2>2, <2>3
<1>2. p.start \in 1..(n + 1) /\ \A k \in p.start..n : input[k] # Delimiter
  BY DEF ScanOK
<1> QED BY <1>1, <1>2 DEF ScanOK

LEMMA ScannedDelimiter ==
    ASSUME NEW n \in Nat \ {0}, NEW p, ScanOK(n - 1, p), input[n] = Delimiter
    PROVE  ScanOK(n, Scanned(n, p))
<1>1. PICK start \in 1..n : start = p.start
  BY DEF ScanOK
<1>2. PICK s \in Seq(Nat \X Nat) : s = p.paths
  BY DEF ScanOK
<1>3. /\ start = 1 \/ input[start - 1] = Delimiter
      /\ \A k \in start..(n - 1) : input[k] # Delimiter
      /\ {s[i] : i \in 1..Len(s)} = Pieces(n - 1)
      /\ \A i \in 1..Len(s) : s[i][2] < start
      /\ \A i, j \in 1..Len(s) : i < j => s[i][2] < s[j][1]
  BY <1>1, <1>2 DEF ScanOK
<1>4. PICK t : t = IF n > start THEN Append(s, <<start, n - 1>>) ELSE s
  OBVIOUS
<1>5. Scanned(n, p) = [start |-> n + 1, paths |-> t]
  BY <1>1, <1>2, <1>4 DEF Scanned
<1>6. ASSUME NEW i \in 1..n, NEW j \in 1..n
      PROVE  <<i, j>> \in Pieces(n) <=> <<i, j>> \in Pieces(n - 1) \/ (n > start /\ i = start /\ j = n - 1)
  <2>1. <<i, j>> \in Pieces(n) <=>
          /\ i <= j /\ \A k \in i..j : input[k] # Delimiter
          /\ i = 1 \/ input[i - 1] = Delimiter
          /\ j < n /\ input[j + 1] = Delimiter
    BY DEF Pieces
  <2>2. <<i, j>> \in Pieces(n - 1) <=>
          /\ i <= j /\ \A k \in i..j : input[k] # Delimiter
          /\ i = 1 \/ input[i - 1] = Delimiter
          /\ j < n - 1 /\ input[j + 1] = Delimiter
    <3>1. i <= j /\ j < n - 1 => i \in 1..(n - 1) /\ j \in 1..(n - 1)
      OBVIOUS
    <3>2. <<i, j>>[1] = i /\ <<i, j>>[2] = j
      OBVIOUS
    <3>3. <<i, j>> \in (1..(n - 1)) \X (1..(n - 1)) <=> i \in 1..(n - 1) /\ j \in 1..(n - 1)
      OBVIOUS
    <3> QED BY <3>1, <3>2, <3>3 DEF Pieces
  <2>3. CASE j < n - 1
    BY <2>1, <2>2, <2>3
  <2>4. CASE j = n - 1
    <3>1. <<i, j>> \in Pieces(n - 1) <=> FALSE
      BY <2>2, <2>4
    <3>2. ASSUME <<i, j>> \in Pieces(n) PROVE n > start /\ i = start
      <4>1. ~(start > i)
        <5> SUFFICES ASSUME start > i PROVE FALSE
          OBVIOUS
        <5>1. start - 1 \in i..j
          BY <2>4
        <5> QED BY <1>3, <2>1, <3>2, <5>1
      <4>2. ~(i > start)
        <5> SUFFICES ASSUME i > start PROVE FALSE
          OBVIOUS
        <5>1. i # 1 /\ i - 1 \in start..(n - 1)
          BY <2>1, <2>4, <3>2
        <5> QED BY <1>3, <2>1, <3>2, <5>1
      <4> QED BY <2>1, <2>4, <3>2, <4>1, <4>2
    <3>3. ASSUME n > start, i = start PROVE <<i, j>> \in Pieces(n)
      <4>1. i <= j /\ j + 1 = n /\ j < n
        BY <2>4, <3>3
      <4> QED BY <1>3, <2>1, <2>4, <3>3, <4>1
    <3> QED BY <2>4, <3>1, <3>2, <3>3
  <2>5. CASE j = n
    BY <2>1, <2>2, <2>5
  <2> QED BY <2>3, <2>4, <2>5
<1>7. CASE n > start
  <2>1. PICK last \in Nat \X Nat : last = <<start, n - 1>> /\ last[1] = start /\ last[2] = n - 1
    <3>1. <<start, n - 1>> \in Nat \X Nat
      OBVIOUS
    <3> QED BY <3>1
  <2>2. /\ t \in Seq(Nat \X Nat) /\ Len(s) \in Nat /\ Len(t) = Len(s) + 1
        /\ t[Len(s) + 1] = last /\ \A i \in 1..Len(s) : t[i] = s[i]
    <3>1. t = Append(s, last)
      BY <1>4, <1>7, <2>1
    <3> QED BY <3>1
  <2>3. {t[i] : i \in 1..Len(t)} = Pieces(n)
    <3>1. {t[i] : i \in 1..Len(t)} = {s[i] : i \in 1..Len(s)} \cup {last}
      <4>1. \A i \in 1..Len(t) : i \in 1..Len(s) \/ i = Len(s) + 1
        BY <2>2
      <4>2. Len(s) + 1 \in 1..Len(t) /\ \A i \in 1..Len(s) : i \in 1..Len(t)
        BY <2>2
      <4>3. ASSUME NEW x \in {t[i] : i \in 1..Len(t)} PROVE x \in {s[i] : i \in 1..Len(s)} \cup {last}
        <5>1. PICK i \in 1..Len(t) : x = t[i]
          OBVIOUS
        <5> QED BY <2>2, <4>1, <5>1
      <4>4. ASSUME NEW i \in 1..Len(s) PROVE s[i] \in {t[k] : k \in 1..Len(t)}
        BY <2>2, <4>2
      <4>5. last \in {t[k] : k \in 1..Len(t)}
        BY <2>2, <4>2
      <4> QED BY <4>3, <4>4, <4>5
    <3>2. ASSUME NEW x \in Pieces(n) PROVE x \in Pieces(n - 1) \cup {last}
      <4>1. PICK i \in 1..n, j \in 1..n : x = <<i, j>>
        BY DEF Pieces
      <4> QED BY <1>6, <2>1, <4>1
    <3>3. ASSUME NEW x \in Pieces(n - 1) PROVE x \in Pieces(n)
      <4>1. PICK i \in 1..n, j \in 1..n : x = <<i, j>>
        BY DEF Pieces
      <4> QED BY <1>6, <4>1
    <3>4. last \in Pieces(n)
      <4>1. start \in 1..n /\ n - 1 \in 1..n
        BY <1>7
      <4> QED BY <1>6, <1>7, <2>1, <4>1
    <3> QED BY <1>3, <3>1, <3>2, <3>3, <3>4
  <2>4. ASSUME NEW i \in 1..Len(t) PROVE t[i][2] < n + 1
    <3>1. i \in 1..Len(s) \/ i = Len(s) + 1
      BY <2>2
    <3>2. CASE i \in 1..Len(s)
      <4>1. t[i] \in Nat \X Nat /\ t[i][2] \in Nat
        BY <2>2
      <4>2. t[i] = s[i] /\ s[i][2] < start
        BY <1>3, <2>2, <3>2
      <4> QED BY <4>1, <4>2
    <3> QED BY <2>1, <2>2, <3>1, <3>2
  <2>5. ASSUME NEW i \in 1..Len(t), NEW j \in 1..Len(t), i < j PROVE t[i][2] < t[j][1]
    <3>a. Len(s) \in Nat /\ Len(t) = Len(s) + 1
      BY <2>2
    <3>b. i \in 1..(Len(s) + 1) /\ j \in 1..(Len(s) + 1)
      BY <3>a
    <3>1. i \in 1..Len(s) /\ (j \in 1..Len(s) \/ j = Len(s) + 1)
      BY <2>5, <3>a, <3>b
    <3>2. s[i][2] < start /\ (j \in 1..Len(s) => s[i][2] < s[j][1])
      BY <1>3, <2>5, <3>1
    <3> QED BY <2>1, <2>2, <3>1, <3>2
  <2>6. ScanOK(n, [start |-> n + 1, paths |-> t])
    BY <2>2, <2>3, <2>4, <2>5 DEF ScanOK
  <2> QED BY <1>5, <2>6
<1>8. CASE ~(n > start)
  <2>1. t = s
    BY <1>4, <1>8
  <2>2. Pieces(n) = Pieces(n - 1)
    <3>1. ASSUME NEW x \in Pieces(n) PROVE x \in Pieces(n - 1)
      <4>1. PICK i \in 1..n, j \in 1..n : x = <<i, j>>
        BY DEF Pieces
      <4> QED BY <1>6, <1>8, <4>1
    <3>2. ASSUME NEW x \in Pieces(n - 1) PROVE x \in Pieces(n)
      <4>1. PICK i \in 1..n, j \in 1..n : x = <<i, j>>
        BY DEF Pieces
      <4> QED BY <1>6, <4>1
    <3> QED BY <3>1, <3>2
  <2>3. \A i \in 1..Len(s) : s[i][2] < n + 1
    <3> SUFFICES ASSUME NEW i \in 1..Len(s) PROVE s[i][2] < n + 1
      OBVIOUS
    <3>1. s[i] \in Nat \X Nat /\ s[i][2] \in Nat
      OBVIOUS
    <3> QED BY <1>3, <3>1
  <2>4. ScanOK(n, [start |-> n + 1, paths |-> s])
    BY <1>3, <2>2, <2>3 DEF ScanOK
  <2> QED BY <1>5, <2>1, <2>4
<1> QED BY <1>7, <1>8

LEMMA ScanFindsPieces ==
    ASSUME NEW n \in Nat
    PROVE  \E p : ScanOK(n, p) /\ Scan(n) = p.paths
<1>1. PICK f : ScanWalk(n, f) /\ Scan(n) = f[n].paths
  BY ScanUnfolds
<1>2. f[0] = Fresh /\ \A i \in 1..n : f[i] = Scanned(i, f[i - 1])
  BY <1>1, ScanWalkAt
<1> DEFINE Wrong == {i \in 0..n : ~ScanOK(i, f[i])}
<1>3. Wrong = {}
  <2> SUFFICES ASSUME Wrong # {} PROVE FALSE
    OBVIOUS
  <2>1. PICK i \in Wrong : \A k \in Wrong : i <= k
    <3>1. Wrong \subseteq Nat
      OBVIOUS
    <3> HIDE DEF Wrong
    <3> QED BY <3>1, LeastNumber
  <2>2. i # 0
    <3>1. Pieces(0) = {}
      BY DEF Pieces
    <3>2. <<>> \in Seq(Nat \X Nat) /\ Len(<<>>) = 0
      OBVIOUS
    <3>3. {Fresh.paths[k] : k \in 1..0} = {}
      OBVIOUS
    <3>4. ScanOK(0, Fresh)
      BY <3>1, <3>2, <3>3 DEF ScanOK, Fresh
    <3> QED BY <1>2, <2>1, <3>4
  <2>3. i \in Nat \ {0} /\ i \in 1..n /\ i - 1 \in 0..n /\ ~(i <= i - 1)
    BY <2>1, <2>2
  <2>4. ScanOK(i - 1, f[i - 1])
    BY <2>1, <2>3
  <2>5. ScanOK(i, Scanned(i, f[i - 1]))
    <3>1. CASE input[i] = Delimiter
      BY <2>3, <2>4, <3>1, ScannedDelimiter
    <3>2. CASE input[i] # Delimiter
      <4>1. ScanOK(i, f[i - 1])
        BY <2>3, <2>4, <3>2, ScannedOther
      <4> QED BY <3>2, <4>1 DEF Scanned
    <3> QED BY <3>1, <3>2
  <2> QED BY <1>2, <2>1, <2>3, <2>5
<1>4. ScanOK(n, f[n])
  BY <1>3
<1> QED BY <1>1, <1>4

\* What is inductive: there is always room for what was read, so that the
\* reading ends only where the input does or where it fails.
PathsInv ==
    /\ input \in Inputs
    /\ dataSize \in Nat \ {0} /\ dataUsed \in 0..dataSize /\ dataUsed <= Len(input)
    /\ phase = "data" => /\ paths = Scan(dataUsed)
                         /\ ~readFailed => dataUsed = Len(input)

LEMMA InputLength == ASSUME NEW s \in Inputs PROVE Len(s) \in Nat
<1>1. s \in Seq({s[i] : i \in DOMAIN s})
  BY CommandLineAssumption
<1> QED BY <1>1

LEMMA PathsInitial == PathsInit => PathsInv
BY InputLength, CommandLineAssumption DEF PathsInit, PathsInv

LEMMA PathsStep == PathsInv /\ [PathsNext]_pathsVars => PathsInv'
<1> SUFFICES ASSUME PathsInv, [PathsNext]_pathsVars PROVE PathsInv'
  OBVIOUS
<1>0. Len(input) \in Nat
  BY InputLength DEF PathsInv
<1>1. SizeForRead \in Nat \ {0} /\ dataUsed < SizeForRead /\ dataUsed \in Nat
  BY DEF PathsInv, SizeForRead
<1>2. CASE GrowFails
  BY <1>2 DEF GrowFails, ReturnNull, PathsInv
<1>3. CASE ReadSome
  <2>1. PICK n \in 1..(Len(input) - dataUsed) :
          dataUsed + n <= SizeForRead /\ dataUsed' = dataUsed + n
    BY <1>3 DEF ReadSome
  <2>2. /\ phase = "read" /\ dataSize' = SizeForRead /\ input' = input /\ phase' = phase
    BY <1>3 DEF ReadSome
  <2>3. dataUsed' \in 0..dataSize' /\ dataUsed' <= Len(input')
    BY <1>0, <1>1, <2>1, <2>2
  <2> QED BY <1>1, <2>2, <2>3 DEF PathsInv
<1>4. CASE ReadEnds
  <2>1. /\ input' = input /\ dataUsed' = dataUsed
        /\ readFailed' \/ dataUsed = Len(input)
    BY <1>1, <1>4 DEF ReadEnds, ReturnNull
  <2>2. CASE ReturnNull
    BY <2>1, <2>2 DEF ReturnNull, PathsInv
  <2>3. CASE ~ReturnNull
    <3>1. paths' = Scan(dataUsed) /\ dataSize' = SizeForRead
      BY <1>4, <2>3 DEF ReadEnds
    <3>2. Scan(dataUsed)' = Scan(dataUsed)
      BY <2>1 DEF Scan
    <3> QED BY <1>1, <2>1, <3>1, <3>2 DEF PathsInv
  <2> QED BY <2>2, <2>3
<1>5. CASE UNCHANGED pathsVars
  <2>1. Scan(dataUsed)' = Scan(dataUsed)
    BY <1>5 DEF Scan, pathsVars
  <2> QED BY <1>5, <2>1 DEF PathsInv, pathsVars
<1> QED BY <1>2, <1>3, <1>4, <1>5 DEF PathsNext

\* However read cuts the input into chunks and however often the block grows,
\* read_paths returns each path that a delimiter ends, in order, for every
\* input and every size of the first block; only a read that fails cuts the
\* list short (other.c:19-71).
THEOREM PathsAreComplete == PathsSpec => []PathsComplete
<1>1. PathsInv => PathsComplete
  <2> SUFFICES ASSUME PathsInv, phase = "data" PROVE PathsComplete
    BY DEF PathsComplete
  <2>1. dataUsed \in Nat /\ dataUsed <= dataSize /\ paths = Scan(dataUsed)
        /\ (~readFailed => dataUsed = Len(input))
    BY DEF PathsInv
  <2>2. PICK p : ScanOK(dataUsed, p) /\ Scan(dataUsed) = p.paths
    BY <2>1, ScanFindsPieces
  <2>3. /\ paths \in Seq(Nat \X Nat)
        /\ {paths[i] : i \in 1..Len(paths)} = Pieces(dataUsed)
        /\ \A i, j \in 1..Len(paths) : i < j => paths[i][2] < paths[j][1]
    BY <2>1, <2>2 DEF ScanOK
  <2>4. DOMAIN paths = 1..Len(paths)
    BY <2>3
  <2> QED BY <2>1, <2>3, <2>4 DEF PathsComplete
<1> QED
  BY PathsInitial, PathsStep, <1>1, PTL DEF PathsSpec

-----------------------------------------------------------------------------
(* simple_option_parser                                                      *)

LEMMA ArgumentCount ==
    ASSUME arguments \in Lines
    PROVE  Len(arguments) \in Nat /\ DOMAIN arguments = 1..Len(arguments)
<1>1. arguments \in Seq({arguments[i] : i \in DOMAIN arguments})
  BY CommandLineAssumption
<1> QED BY <1>1

\* Every other option with a value in a row is the value of the one before it.
LEMMA ValueStep ==
    /\ ~IsValue(1)
    /\ \A i \in Nat \ {0} : IsValue(i + 1) <=> arguments[i] \in RequiresValue /\ ~IsValue(i)
<1> DEFINE Run(i) == {k \in 1..(i - 1) : \A l \in k..(i - 1) : arguments[l] \in RequiresValue}
<1>1. ~IsValue(1)
  <2>1. Run(1) = {}
    OBVIOUS
  <2>2. RunBefore(1) = 0
    BY <2>1, FS_EmptySet DEF RunBefore
  <2> QED BY <2>2 DEF IsValue
<1>2. ASSUME NEW i \in Nat \ {0}
      PROVE  IsValue(i + 1) <=> arguments[i] \in RequiresValue /\ ~IsValue(i)
  <2>1. (i + 1) - 1 = i
    OBVIOUS
  <2>2. Run(i + 1) = {k \in 1..i : \A l \in k..i : arguments[l] \in RequiresValue}
    BY <2>1
  <2>3. IsFiniteSet(Run(i))
    <3>1. IsFiniteSet(1..(i - 1))
      BY FS_Interval
    <3>2. Run(i) \in SUBSET (1..(i - 1))
      OBVIOUS
    <3> QED BY <3>1, <3>2, FS_Subset
  <2>4. PICK c \in Nat : c = Cardinality(Run(i)) /\ RunBefore(i) = c
    BY <2>3, FS_CardinalityType DEF RunBefore
  <2>5. CASE arguments[i] \in RequiresValue
    <3>1. Run(i + 1) = Run(i) \cup {i}
      <4>1. ASSUME NEW k \in 1..(i - 1)
            PROVE  (\A l \in k..i : arguments[l] \in RequiresValue)
                     <=> \A l \in k..(i - 1) : arguments[l] \in RequiresValue
        <5>1. \A l \in k..i : l = i \/ l \in k..(i - 1)
          OBVIOUS
        <5>2. \A l \in k..(i - 1) : l \in k..i
          OBVIOUS
        <5> QED BY <2>5, <5>1, <5>2
      <4>2. \A l \in i..i : l = i
        OBVIOUS
      <4>3. \A k \in 1..i : k = i \/ k \in 1..(i - 1)
        OBVIOUS
      <4>4. i \in 1..i /\ \A k \in 1..(i - 1) : k \in 1..i
        OBVIOUS
      <4> QED BY <2>2, <2>5, <4>1, <4>2, <4>3, <4>4
    <3>2. i \notin Run(i)
      OBVIOUS
    <3> HIDE DEF Run
    <3>3. Cardinality(Run(i + 1)) = c + 1
      BY <2>3, <2>4, <3>1, <3>2, FS_AddElement
    <3>4. RunBefore(i + 1) = c + 1
      BY <3>3 DEF RunBefore, Run
    <3>5. (c + 1) % 2 = 1 <=> c % 2 # 1
      OBVIOUS
    <3> QED BY <2>4, <2>5, <3>4, <3>5 DEF IsValue
  <2>6. CASE arguments[i] \notin RequiresValue
    <3>1. Run(i + 1) = {}
      <4>1. \A k \in 1..i : i \in k..i
        OBVIOUS
      <4> QED BY <2>2, <2>6, <4>1
    <3>2. RunBefore(i + 1) = 0
      BY <3>1, FS_EmptySet DEF RunBefore
    <3> QED BY <2>6, <3>2 DEF IsValue
  <2> QED BY <2>5, <2>6
<1> QED BY <1>1, <1>2

OptionsUpTo(n) == {i \in 1..n : ~IsValue(i)}
ValuedUpTo(n, o) == {i \in OptionsUpTo(n) : arguments[i] = o /\ i < Len(arguments)}
ValueAmong(S) == IF S = {} THEN None ELSE arguments[1 + CHOOSE i \in S : \A j \in S : j <= i]

\* p and v are what is found in the first n arguments
FoundBefore(n, p, v) ==
    /\ p = {arguments[i] : i \in OptionsUpTo(n)}
    /\ \A o \in RequiresValue : v[o] = ValueAmong(ValuedUpTo(n, o))

OptionsEnds == {i \in DOMAIN arguments : ~IsValue(i) /\ arguments[i] \notin Supported}
OptionsStop == IF OptionsEnds = {} THEN Len(arguments) + 1
               ELSE CHOOSE i \in OptionsEnds : \A j \in OptionsEnds : i <= j

\* OptionsParsed, of what was found and returned
Outcome(p, v, r, x) ==
    /\ FoundBefore(OptionsStop - 1, p, v)
    /\ r = 0 <=> OptionsEnds = {} /\ IsValue(Len(arguments) + 1)
    /\ r = 1 => x = IF OptionsEnds # {} /\ arguments[OptionsStop] = Dashes
                    THEN OptionsStop ELSE OptionsStop - 1

LEMMA ParsedIsOutcome ==
    OptionsParsed <=> (returned # -1 => Outcome(present, valueOf, returned, index))
BY DEF OptionsParsed, Outcome, FoundBefore, OptionsEnds, OptionsStop, ValuedUpTo, OptionsUpTo, ValueAmong

\* What is inductive: the parser is never at the value of an option, and has
\* seen the options before it.
OptionsInv ==
    /\ arguments \in Lines
    /\ index \in 0..Len(arguments)
    /\ returned \in {-1, 0, 1}
    /\ DOMAIN valueOf = RequiresValue /\ valueOf = [o \in RequiresValue |-> valueOf[o]]
    /\ returned = -1 => /\ ~IsValue(index + 1)
                        /\ \A i \in 1..index : IsValue(i) \/ arguments[i] \in Supported
                        /\ FoundBefore(index, present, valueOf)
    /\ returned # -1 => Outcome(present, valueOf, returned, index)

LEMMA OptionsInitial == OptionsInit => OptionsInv
<1> SUFFICES ASSUME OptionsInit PROVE OptionsInv
  OBVIOUS
<1>1. arguments \in Lines /\ index = 0 /\ present = {} /\ returned = -1
      /\ valueOf = [o \in RequiresValue |-> None]
  BY DEF OptionsInit
<1>2. Len(arguments) \in Nat
  BY <1>1, ArgumentCount
<1>3. OptionsUpTo(0) = {} /\ \A o : ValuedUpTo(0, o) = {}
  BY DEF OptionsUpTo, ValuedUpTo
<1>4. FoundBefore(0, present, valueOf)
  BY <1>1, <1>3 DEF FoundBefore, ValueAmong
<1>5. ~IsValue(0 + 1)
  BY ValueStep
<1> QED BY <1>1, <1>2, <1>4, <1>5 DEF OptionsInv

\* The places up to the next argument, which is not a value.
LEMMA UpToNext ==
    ASSUME NEW n \in Nat, ~IsValue(n + 1)
    PROVE  OptionsUpTo(n + 1) = OptionsUpTo(n) \cup {n + 1}
<1>1. \A i \in 1..(n + 1) : i \in 1..n \/ i = n + 1
  OBVIOUS
<1>2. n + 1 \in 1..(n + 1) /\ \A i \in 1..n : i \in 1..(n + 1)
  OBVIOUS
<1> QED BY <1>1, <1>2 DEF OptionsUpTo

LEMMA UpToValue ==
    ASSUME NEW n \in Nat, IsValue(n + 1)
    PROVE  OptionsUpTo(n + 1) = OptionsUpTo(n)
<1>1. \A i \in 1..(n + 1) : i \in 1..n \/ i = n + 1
  OBVIOUS
<1>2. \A i \in 1..n : i \in 1..(n + 1)
  OBVIOUS
<1> QED BY <1>1, <1>2 DEF OptionsUpTo

\* An option that takes no value, or whose value is missing.
LEMMA FoundPlain ==
    ASSUME NEW n \in Nat, NEW p, NEW v, FoundBefore(n, p, v), ~IsValue(n + 1),
           arguments[n + 1] \notin RequiresValue \/ n + 1 >= Len(arguments),
           arguments \in Lines
    PROVE  FoundBefore(n + 1, p \cup {arguments[n + 1]}, v)
<1>0. Len(arguments) \in Nat
  BY ArgumentCount
<1>1. OptionsUpTo(n + 1) = OptionsUpTo(n) \cup {n + 1}
  BY UpToNext
<1>2. \A o \in RequiresValue : ValuedUpTo(n + 1, o) = ValuedUpTo(n, o)
  <2> SUFFICES ASSUME NEW o \in RequiresValue PROVE ValuedUpTo(n + 1, o) = ValuedUpTo(n, o)
    OBVIOUS
  <2>1. ~(arguments[n + 1] = o /\ n + 1 < Len(arguments))
    BY <1>0
  <2> QED BY <1>1, <2>1 DEF ValuedUpTo
<1>3. {arguments[i] : i \in OptionsUpTo(n + 1)} = {arguments[i] : i \in OptionsUpTo(n)} \cup {arguments[n + 1]}
  BY <1>1
<1> QED BY <1>2, <1>3 DEF FoundBefore

\* An option and its value.
LEMMA FoundValued ==
    ASSUME NEW n \in Nat, NEW p, NEW v, FoundBefore(n, p, v), ~IsValue(n + 1),
           arguments[n + 1] \in RequiresValue, n + 1 < Len(arguments),
           v = [o \in RequiresValue |-> v[o]], arguments \in Lines
    PROVE  FoundBefore(n + 2, p \cup {arguments[n + 1]},
                 [v EXCEPT ![arguments[n + 1]] = arguments[n + 2]])
<1> DEFINE a == arguments[n + 1]
           w == [v EXCEPT ![a] = arguments[n + 2]]
<1>0. PICK m \in Nat : m = n + 1 /\ m + 1 = n + 2 /\ Len(arguments) \in Nat
  BY ArgumentCount
<1>1. IsValue(m + 1)
  <2>1. m \in Nat \ {0}
    BY <1>0
  <2> QED BY <1>0, <2>1, ValueStep
<1>2. OptionsUpTo(n + 2) = OptionsUpTo(n) \cup {n + 1}
  <2>1. OptionsUpTo(m + 1) = OptionsUpTo(m)
    BY <1>1, UpToValue
  <2>2. OptionsUpTo(n + 1) = OptionsUpTo(n) \cup {n + 1}
    BY UpToNext
  <2> QED BY <1>0, <2>1, <2>2
<1>3. {arguments[i] : i \in OptionsUpTo(n + 2)} = {arguments[i] : i \in OptionsUpTo(n)} \cup {a}
  BY <1>2
<1>4. w[a] = arguments[n + 2] /\ \A o \in RequiresValue : o # a => w[o] = v[o]
  OBVIOUS
<1>5. ASSUME NEW o \in RequiresValue PROVE w[o] = ValueAmong(ValuedUpTo(n + 2, o))
  <2>1. CASE o # a
    <3>1. ValuedUpTo(n + 2, o) = ValuedUpTo(n, o)
      BY <1>2, <2>1 DEF ValuedUpTo
    <3> QED BY <1>4, <2>1, <3>1 DEF FoundBefore
  <2>2. CASE o = a
    <3>1. ValuedUpTo(n + 2, o) = ValuedUpTo(n, o) \cup {n + 1}
      BY <1>2, <2>2 DEF ValuedUpTo
    <3>2. \A i \in ValuedUpTo(n, o) : i \in Nat /\ i <= n
      BY DEF ValuedUpTo, OptionsUpTo
    <3>3. PICK S : S = ValuedUpTo(n + 2, o)
      OBVIOUS
    <3>4. n + 1 \in S /\ \A i \in S : i \in Nat /\ i <= n + 1
      BY <3>1, <3>2, <3>3
    <3>5. (CHOOSE i \in S : \A j \in S : j <= i) = n + 1
      <4>1. \A i \in S : (\A j \in S : j <= i) => i = n + 1
        BY <3>4
      <4> QED BY <3>4, <4>1
    <3>6. ValueAmong(S) = arguments[1 + (n + 1)]
      BY <3>4, <3>5 DEF ValueAmong
    <3>7. 1 + (n + 1) = n + 2
      OBVIOUS
    <3> QED BY <1>4, <2>2, <3>3, <3>6, <3>7
  <2> QED BY <2>1, <2>2
<1> HIDE DEF w
<1>6. p \cup {a} = {arguments[i] : i \in OptionsUpTo(n + 2)}
  BY <1>3 DEF FoundBefore
<1>7. FoundBefore(n + 2, p \cup {a}, w)
  BY <1>5, <1>6 DEF FoundBefore
<1> QED BY <1>7 DEF w

LEMMA StopAt ==
    ASSUME NEW s \in OptionsEnds, s \in Nat, \A j \in OptionsEnds : j \in Nat /\ s <= j
    PROVE  OptionsEnds # {} /\ OptionsStop = s
<1>1. \A i \in OptionsEnds : (\A j \in OptionsEnds : i <= j) => i = s
  OBVIOUS
<1> QED BY <1>1 DEF OptionsStop

LEMMA OptionsStep == OptionsInv /\ [OptionsNext]_optionsVars => OptionsInv'
<1> SUFFICES ASSUME OptionsInv, [OptionsNext]_optionsVars PROVE OptionsInv'
  OBVIOUS
<1>1. /\ arguments \in Lines /\ index \in 0..Len(arguments)
      /\ Len(arguments) \in Nat /\ DOMAIN arguments = 1..Len(arguments)
      /\ valueOf = [o \in RequiresValue |-> valueOf[o]] /\ DOMAIN valueOf = RequiresValue
  BY ArgumentCount DEF OptionsInv
<1>2. arguments' = arguments
  BY DEF OptionsNext, OptionsEnd, PlainOption, OptionWithValue, AllArguments, Looks, optionsVars
<1>3. /\ \A i : IsValue(i)' <=> IsValue(i)
      /\ \A n, p, v : FoundBefore(n, p, v)' <=> FoundBefore(n, p, v)
      /\ \A p, v, r, x : Outcome(p, v, r, x)' <=> Outcome(p, v, r, x)
  <2>1. \A i : IsValue(i)' <=> IsValue(i)
    BY <1>2 DEF IsValue, RunBefore
  <2>2. \A n : OptionsUpTo(n)' = OptionsUpTo(n)
    BY <2>1 DEF OptionsUpTo
  <2>3. \A n, o : ValuedUpTo(n, o)' = ValuedUpTo(n, o)
    BY <1>2, <2>2 DEF ValuedUpTo
  <2>4. \A S : ValueAmong(S)' = ValueAmong(S)
    BY <1>2 DEF ValueAmong
  <2>5. \A n, p, v : FoundBefore(n, p, v)' <=> FoundBefore(n, p, v)
    BY <1>2, <2>2, <2>3, <2>4 DEF FoundBefore
  <2>6. OptionsEnds' = OptionsEnds
    BY <1>2, <2>1 DEF OptionsEnds
  <2>7. OptionsStop' = OptionsStop
    BY <1>2, <2>6 DEF OptionsStop
  <2> QED BY <1>2, <2>1, <2>5, <2>6, <2>7 DEF Outcome
<1>4. PICK n \in Nat : n = index /\ n <= Len(arguments)
  BY <1>1
<1>5. returned = -1 => /\ ~IsValue(n + 1)
                       /\ \A i \in 1..n : IsValue(i) \/ arguments[i] \in Supported
                       /\ FoundBefore(n, present, valueOf)
  BY <1>4 DEF OptionsInv
<1>6. CASE OptionsEnd
  <2>1. /\ returned = -1 /\ n < Len(arguments) /\ Current = arguments[n + 1]
        /\ Current \notin Supported /\ returned' = 1
        /\ index' = (IF Current = Dashes THEN n + 1 ELSE n)
        /\ present' = present /\ valueOf' = valueOf
    BY <1>4, <1>6 DEF OptionsEnd, Looks, Current
  <2>2. n + 1 \in OptionsEnds
    BY <1>1, <1>5, <2>1 DEF OptionsEnds
  <2>3. \A j \in OptionsEnds : j \in Nat /\ n + 1 <= j
    <3> SUFFICES ASSUME NEW j \in OptionsEnds PROVE j \in Nat /\ n + 1 <= j
      OBVIOUS
    <3>1. j \in 1..Len(arguments) /\ ~IsValue(j) /\ arguments[j] \notin Supported
      BY <1>1 DEF OptionsEnds
    <3>2. j \notin 1..n
      BY <1>5, <2>1, <3>1
    <3> QED BY <1>1, <3>1, <3>2
  <2>4. OptionsEnds # {} /\ OptionsStop = n + 1
    BY <2>2, <2>3, StopAt
  <2>5. Outcome(present, valueOf, 1, index')
    <3>1. OptionsStop - 1 = n
      BY <2>4
    <3> QED BY <1>5, <2>1, <2>4, <3>1 DEF Outcome
  <2>6. index' \in 0..Len(arguments)
    BY <1>1, <2>1
  <2> QED BY <1>1, <1>2, <1>3, <2>1, <2>5, <2>6 DEF OptionsInv
<1>7. CASE PlainOption
  <2>1. /\ returned = -1 /\ n < Len(arguments) /\ Current = arguments[n + 1]
        /\ Current \in Supported \ RequiresValue /\ returned' = -1
        /\ index' = n + 1 /\ present' = present \cup {arguments[n + 1]} /\ valueOf' = valueOf
    BY <1>4, <1>7 DEF PlainOption, Looks, Current, Width
  <2>2. FoundBefore(n + 1, present', valueOf')
    BY <1>1, <1>5, <2>1, FoundPlain
  <2>3. PICK m \in Nat \ {0} : m = n + 1
    OBVIOUS
  <2>4. ~IsValue(m + 1)
    BY <1>5, <2>1, <2>3, ValueStep
  <2>5. \A i \in 1..m : IsValue(i) \/ arguments[i] \in Supported
    <3>1. \A i \in 1..m : i \in 1..n \/ i = n + 1
      BY <2>3
    <3> QED BY <1>5, <2>1, <3>1
  <2>6. index' \in 0..Len(arguments)
    BY <1>1, <2>1
  <2> QED BY <1>1, <1>2, <1>3, <2>1, <2>2, <2>3, <2>4, <2>5, <2>6 DEF OptionsInv
<1>8. CASE OptionWithValue
  <2>1. /\ returned = -1 /\ n < Len(arguments) /\ Current = arguments[n + 1]
        /\ Current \in RequiresValue /\ present' = present \cup {arguments[n + 1]}
    BY <1>4, <1>8 DEF OptionWithValue, Looks, Current
  <2>2. PICK m \in Nat \ {0} : m = n + 1
    OBVIOUS
  <2>3. IsValue(m + 1)
    BY <1>5, <2>1, <2>2, ValueStep
  <2>4. \A i \in 1..(n + 1) : IsValue(i) \/ arguments[i] \in Supported
    <3>1. \A i \in 1..(n + 1) : i \in 1..n \/ i = n + 1
      OBVIOUS
    <3> QED BY <1>5, <2>1, <3>1, CommandLineAssumption
  <2>5. CASE n + 1 >= Len(arguments)
    <3>1. returned' = 0 /\ index' = index /\ valueOf' = valueOf
      BY <1>4, <1>8, <2>5 DEF OptionWithValue
    <3>2. Len(arguments) = n + 1
      BY <1>1, <2>1, <2>5
    <3>3. OptionsEnds = {}
      BY <1>1, <2>4, <3>2 DEF OptionsEnds
    <3>4. OptionsStop - 1 = n + 1
      BY <3>2, <3>3 DEF OptionsStop
    <3>5. FoundBefore(n + 1, present', valueOf')
      BY <1>1, <1>5, <2>1, <2>5, <3>1, FoundPlain
    <3>6. IsValue(Len(arguments) + 1)
      BY <2>2, <2>3, <3>2
    <3>7. Outcome(present', valueOf', 0, index')
      BY <3>3, <3>4, <3>5, <3>6 DEF Outcome
    <3> QED BY <1>1, <1>2, <1>3, <3>1, <3>7 DEF OptionsInv
  <2>6. CASE ~(n + 1 >= Len(arguments))
    <3>1. /\ returned' = -1 /\ index' = n + 2
          /\ valueOf' = [valueOf EXCEPT ![arguments[n + 1]] = arguments[n + 2]]
      BY <1>4, <1>8, <2>1, <2>6 DEF OptionWithValue, Width
    <3>2. n + 1 < Len(arguments)
      BY <1>1, <2>6
    <3>3. FoundBefore(n + 2, present', valueOf')
      BY <1>1, <1>5, <2>1, <3>1, <3>2, FoundValued
    <3>4. PICK k \in Nat \ {0} : k = m + 1 /\ k = n + 2
      BY <2>2
    <3>5. ~IsValue(k + 1)
      BY <2>3, <3>4, ValueStep
    <3>6. \A i \in 1..k : IsValue(i) \/ arguments[i] \in Supported
      <4>1. \A i \in 1..k : i \in 1..(n + 1) \/ i = m + 1
        BY <2>2, <3>4
      <4> QED BY <2>3, <2>4, <4>1
    <3>7. index' \in 0..Len(arguments)
      BY <1>1, <3>1, <3>2
    <3>8. DOMAIN valueOf' = RequiresValue /\ valueOf' = [o \in RequiresValue |-> valueOf'[o]]
      BY <1>1, <3>1
    <3> QED BY <1>1, <1>2, <1>3, <3>1, <3>3, <3>4, <3>5, <3>6, <3>7, <3>8 DEF OptionsInv
  <2> QED BY <2>5, <2>6
<1>9. CASE AllArguments
  <2>1. /\ returned = -1 /\ returned' = 1 /\ index' = index /\ present' = present
        /\ valueOf' = valueOf /\ n = Len(arguments)
    BY <1>1, <1>4, <1>9 DEF AllArguments
  <2>2. OptionsEnds = {}
    BY <1>1, <1>5, <2>1 DEF OptionsEnds
  <2>3. OptionsStop - 1 = n
    BY <1>1, <2>1, <2>2 DEF OptionsStop
  <2>4. Outcome(present, valueOf, 1, index)
    BY <1>4, <1>5, <2>1, <2>2, <2>3 DEF Outcome
  <2> QED BY <1>1, <1>2, <1>3, <2>1, <2>4 DEF OptionsInv
<1>10. CASE UNCHANGED optionsVars
  <2>1. /\ index' = index /\ present' = present /\ valueOf' = valueOf /\ returned' = returned
    BY <1>10 DEF optionsVars
  <2> QED BY <1>2, <1>3, <2>1 DEF OptionsInv
<1> QED BY <1>6, <1>7, <1>8, <1>9, <1>10 DEF OptionsNext

\* The options of every command line are told from the rest, for every set of
\* options a program supports, and the parser fails exactly if the last
\* argument lacks its value (other.c:92-129).
THEOREM OptionsAreParsed == OptionsSpec => []OptionsParsed
<1>1. OptionsInv => OptionsParsed
  BY ParsedIsOutcome DEF OptionsInv
<1> QED
  BY OptionsInitial, OptionsStep, <1>1, PTL DEF OptionsSpec
=============================================================================
