----------------------------- MODULE Filesystem ----------------------------
(* filesystem.h: ensure_directory_structure, called by several processes at  *)
(* once.  It goes up from the path to the first directory that exists, and   *)
(* on the way back makes those below it.  Paths are absolute: a path is the  *)
(* sequence of its names, and <<>> is the root.                              *)
EXTENDS Naturals, SequencesExt

CONSTANTS
    Processes,
    Paths,        \* the paths that may be asked for
    MkdirMayFail  \* mkdir may fail for another reason than EEXIST

ASSUME FilesystemAssumption ==
    /\ Paths \subseteq Seq(STRING) /\ <<>> \notin Paths
    /\ MkdirMayFail \in BOOLEAN
    /\ "none" \notin Processes

VARIABLES
    exists,    \* the paths that exist
    pc,        \* of each process: "idle", "access", "mkdir", "done"
    path,      \* what it was asked for
    depth,     \* how many names of it the innermost call was given
    errno,     \* of each process
    status,    \* what the innermost call returned, and at last the outermost
    maker,     \* who made a directory, of those that were made
    missed     \* the paths that access did not find for a process

filesVars == <<exists, pc, path, depth, errno, status, maker, missed>>

Directory(p, n) == SubSeq(path[p], 1, n)
AllDirectories == UNION {Prefixes(s) : s \in Paths}

\* any part of the tree may be there
FilesInit ==
    /\ exists \in {made \in SUBSET AllDirectories :
                     <<>> \in made /\ \A d \in made : Prefixes(d) \subseteq made}
    /\ pc = [p \in Processes |-> "idle"]
    /\ path \in [Processes -> Paths]
    /\ depth = [p \in Processes |-> 0]
    /\ errno \in [Processes -> {"none", "EEXIST"}]
    /\ status = [p \in Processes |-> 0]
    /\ maker = [d \in AllDirectories |-> "none"]
    /\ missed = [p \in Processes |-> {}]

Call(p) ==
    /\ pc[p] = "idle"
    /\ pc' = [pc EXCEPT ![p] = "access"]
    /\ depth' = [depth EXCEPT ![p] = Len(path[p])]
    /\ UNCHANGED <<exists, path, errno, status, maker, missed>>

\* the innermost call returns r to its caller, which goes on with its mkdir
Return(p, r) ==
    LET outermost == depth[p] = Len(path[p]) IN
    /\ status' = [status EXCEPT ![p] = r]
    /\ pc' = [pc EXCEPT ![p] = IF outermost THEN "done" ELSE "mkdir"]
    /\ depth' = [depth EXCEPT ![p] = IF outermost THEN @ ELSE @ + 1]

Dirname(n) == n - 1

\* Mutant of Found: the result of the call is not set.
FoundUnset == 0
Found == 1

\* file_exists; a call that finds nothing calls itself for the dirname
Access(p) ==
    /\ pc[p] = "access"
    /\ IF Directory(p, depth[p]) \in exists
       THEN Return(p, Found) /\ UNCHANGED <<errno, missed>>
       ELSE /\ errno' = [errno EXCEPT ![p] = "ENOENT"]
            /\ missed' = [missed EXCEPT ![p] = @ \cup {Directory(p, depth[p])}]
            /\ depth' = [depth EXCEPT ![p] = Dirname(@)]
            /\ UNCHANGED <<status, pc>>
    /\ UNCHANGED <<exists, path, maker>>

\* Mutant of Succeeds: what mkdir returned is ignored.
SucceedsAnyway(before, result) == TRUE
\* EEXIST == errno || 0 == mkdir(path, mkdir_mode)
Succeeds(before, result) == before = "EEXIST" \/ result = "ok"

\* the rest of a call whose recursive call returned: free, then mkdir if that
\* one succeeded and errno is not EEXIST
Mkdir(p) ==
    /\ pc[p] = "mkdir"
    /\ LET d == Directory(p, depth[p]) IN
       IF status[p] = 0 THEN Return(p, 0) /\ UNCHANGED <<exists, maker, errno>>
       ELSE \E result \in IF errno[p] = "EEXIST" THEN {"not called"}
                          ELSE IF d \in exists THEN {"EEXIST"}
                          ELSE {"ok"} \cup (IF MkdirMayFail THEN {"EACCES"} ELSE {}) :
              /\ Return(p, IF Succeeds(errno[p], result) THEN 1 ELSE 0)
              /\ exists' = IF result = "ok" THEN exists \cup {d} ELSE exists
              /\ maker' = IF result = "ok" THEN [maker EXCEPT ![d] = p] ELSE maker
              /\ errno' = [errno EXCEPT ![p] =
                             IF result \in {"EEXIST", "EACCES"} THEN result ELSE @]
    /\ UNCHANGED <<path, missed>>

FilesNext == \E p \in Processes : Call(p) \/ Access(p) \/ Mkdir(p)

FilesSpec == FilesInit /\ [][FilesNext]_filesVars

-----------------------------------------------------------------------------
\* A call that returns 1 may be relied on: the path is there, with everything
\* above it (filesystem.h:19).
OneMeansThere ==
    \A p \in Processes :
      pc[p] = "done" /\ status[p] = 1 => Prefixes(path[p]) \subseteq exists

\* Another process made a directory that this one's access had not found.
Overtaken(p) == \E d \in missed[p] : maker[d] \notin {p, "none"}

\* A call that no other overtook tells exactly whether the path is there
\* (filesystem.h:19), and returns 0 only where mkdir was refused.
ExactUnlessOvertaken ==
    \A p \in Processes :
      pc[p] = "done" /\ ~Overtaken(p) =>
        /\ status[p] = 1 <=> path[p] \in exists
        /\ status[p] = 0 => errno[p] = "EACCES"

\* "return 1 if the path exists or has been successfully created"
\* (filesystem.h:19): a call does not return 0 for a path that is there, also
\* if it was another process that made it.
ExistsIsOne ==
    [][\A p \in Processes :
         pc[p] # "done" /\ pc'[p] = "done" /\ path[p] \in exists => status'[p] = 1]_filesVars
=============================================================================
