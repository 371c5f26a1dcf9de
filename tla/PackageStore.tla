---------------------------- MODULE PackageStore ----------------------------
(***************************************************************************)
(* The package cache and the lock file (compiler/src/package_cache.cpp,    *)
(* package_lock.cpp, package_cli.cpp): any number of compiler processes    *)
(* resolve, fetch, verify and prune at once, without a lock between them,  *)
(* and each may be killed at any step.  A package is named by the digest   *)
(* of its files; it is staged in a directory of its own, verified and      *)
(* renamed.  The reads of one verification are one step.                   *)
(***************************************************************************)
EXTENDS Naturals, FiniteSets

CONSTANTS
    Procs,        \* process identifiers; a number is given out again
    Digests,      \* registry packages
    Files,        \* the files of a package
    Manifest,     \* foundation.package, one of them
    Nothing,      \* no name, and no lock file
    Torn,         \* a file that was written in part
    MaxAttempts,  \* staging names one installation tries (100 in the code)
    MaxSequence,  \* bound: staging names of one process identifier
    MaxCommands,  \* bound: commands started under one process identifier
    MaxCrashes    \* bound

ASSUME StoreAssumption ==
    /\ Manifest \in Files /\ Nothing \notin Digests /\ Nothing # Torn
    /\ \A g \in SUBSET Digests : g # Nothing /\ g # Torn
    /\ MaxAttempts \in Nat \ {0} /\ MaxSequence \in Nat
    /\ MaxCommands \in Nat /\ MaxCrashes \in Nat

(* .tmp-<process>-<sequence>                                               *)
Stages == Procs \X (0 .. MaxSequence - 1)
Names == Digests \cup Stages

(* A digest is 64 hexadecimal characters, so it is no staging name.        *)
ASSUME NamesAssumption == Digests \cap Stages = {} /\ Nothing \notin Stages

VARIABLES
    lock,       \* foundation.lock
    lockStage,  \* the lock file in a process's staging directory
    lockDirs,   \* staging directories beside the lock file
    dirs,       \* directories of the cache
    held,       \* what they hold
    source,     \* the registry's copy of a package: "good" or "changed"
    proc,       \* what a process does
    commands,   \* commands started
    crashes,
    hist        \* history: what prunes did to a name since it was made

storeVars == <<dirs, held, hist>>
lockVars == <<lock, lockStage, lockDirs>>
vars == <<lockVars, storeVars, source, proc, commands, crashes>>

Idle == [pc |-> "idle", cmd |-> "none", todo |-> {}, pkg |-> Nothing, seq |-> 0, copied |-> {}]
Init ==
    /\ lock = Nothing /\ lockStage = [p \in Procs |-> Nothing] /\ lockDirs = {}
    /\ dirs = {} /\ held = [n \in Names |-> {}] /\ hist = [n \in Names |-> "clean"]
    /\ source = [d \in Digests |-> "good"]
    /\ proc = [p \in Procs |-> Idle] /\ commands = [p \in Procs |-> 0] /\ crashes = 0

(* verifyAt: the directory is there and its files have the digest.         *)
Whole(n) == n \in dirs /\ held[n] = Files \X {"good"}

At(p, pc) == proc[p].pc = pc
Goto(p, pc) == proc' = [proc EXCEPT ![p].pc = pc]
Start(p, cmd, pc, todo) ==
    /\ At(p, "idle") /\ commands[p] < MaxCommands
    /\ commands' = [commands EXCEPT ![p] = @ + 1]
    /\ proc' = [proc EXCEPT ![p] = [Idle EXCEPT !.cmd = cmd, !.pc = pc, !.todo = todo]]

-----------------------------------------------------------------------------
(* package resolve: writePackageLockAtomically with the generation that    *)
(* the manifests and the registry give now.                                *)
Resolve(p, g) ==
    /\ \A d \in g : source[d] = "good"
    /\ Start(p, "resolve", "compare", g)
    /\ UNCHANGED <<lockVars, storeVars, source, crashes>>
Compare(p) ==
    /\ At(p, "compare")
    /\ Goto(p, IF lock = proc[p].todo THEN "done" ELSE "write")
    /\ UNCHANGED <<lockVars, storeVars, source, commands, crashes>>

(* The first staging name of a process's sequence, which starts at zero,   *)
(* that is free; what a killed process of the same number left behind is   *)
(* passed over, MaxAttempts times at most (FDN4084).                       *)
Stage(p) == <<p, proc[p].seq - 1>>
Free(p, taken) == {<<p, k>> : k \in proc[p].seq .. proc[p].seq + MaxAttempts - 1} \ taken
FirstFree(p, taken, n) == n \in Free(p, taken) /\ \A m \in Free(p, taken) : n[2] <= m[2]
MakeLock(p) ==
    /\ At(p, "write") /\ proc[p].seq + MaxAttempts <= MaxSequence
    /\ IF Free(p, lockDirs) = {} THEN Goto(p, "failed") /\ UNCHANGED lockDirs
       ELSE \E n \in Free(p, lockDirs) :
            /\ FirstFree(p, lockDirs, n) /\ lockDirs' = lockDirs \cup {n}
            /\ proc' = [proc EXCEPT ![p].pc = "writing", ![p].seq = n[2] + 1]
    /\ UNCHANGED <<lock, lockStage, storeVars, source, commands, crashes>>

(* cleanup: remove_all of the staging directory.                           *)
CleanupLock(p) ==
    lockStage' = [lockStage EXCEPT ![p] = Nothing] /\ lockDirs' = lockDirs \ {Stage(p)}

(* The staged file is written, perhaps in part, and read back (FDN4085,    *)
(* FDN4086).                                                               *)
WriteLock(p) ==
    /\ At(p, "writing") /\ Goto(p, "written")
    /\ \E content \in {Torn, proc[p].todo} : lockStage' = [lockStage EXCEPT ![p] = content]
    /\ UNCHANGED <<lock, lockDirs, storeVars, source, commands, crashes>>
ReadsBack(p) == lockStage[p] = proc[p].todo
VerifyLock(p) ==
    /\ At(p, "written")
    /\ IF ReadsBack(p)
       THEN Goto(p, "replace") /\ UNCHANGED <<lockStage, lockDirs>>
       ELSE Goto(p, "ioerror") /\ CleanupLock(p)
    /\ UNCHANGED <<lock, storeVars, source, commands, crashes>>

(* replaceFile, which may fail (FDN4087); then the staging directory goes. *)
ReplaceLock(p) ==
    /\ At(p, "replace")
    /\ \/ /\ Goto(p, "replaced") /\ lock' = lockStage[p]
          /\ lockStage' = [lockStage EXCEPT ![p] = Nothing] /\ UNCHANGED lockDirs
       \/ Goto(p, "ioerror") /\ CleanupLock(p) /\ UNCHANGED lock
    /\ UNCHANGED <<storeVars, source, commands, crashes>>
FinishLock(p) ==
    /\ At(p, "replaced") /\ Goto(p, "done") /\ CleanupLock(p)
    /\ UNCHANGED <<lock, storeVars, source, commands, crashes>>

-----------------------------------------------------------------------------
(* package fetch, verify and prune read the lock; one that cannot be read  *)
(* ends the command.  A fetch of a stale lock ends here without effect.    *)
ReadLock(p, cmd, pc) ==
    /\ lock # Nothing
    /\ IF lock = Torn THEN Start(p, cmd, "failed", {}) ELSE Start(p, cmd, pc, lock)
    /\ UNCHANGED <<lockVars, storeVars, source, crashes>>
Fetch(p) ==
    /\ lock \notin {Nothing, Torn} => \A d \in lock : source[d] = "good"
    /\ ReadLock(p, "fetch", "check")
Verify(p) == ReadLock(p, "verify", "check")

(* The package is there: on to the next one.                               *)
Advanced(p, d) ==
    LET left == proc[p].todo \ {d}
    IN  proc' = [proc EXCEPT ![p].todo = left, ![p].pkg = Nothing,
                             ![p].pc = IF left = {} THEN "done" ELSE "check"]

(* verifyPackageInCache: only a missing package is installed (FDN4070).    *)
Check(p, d) ==
    /\ At(p, "check") /\ d \in proc[p].todo
    /\ IF Whole(d) THEN Advanced(p, d)
       ELSE proc' = [proc EXCEPT ![p].pkg = d,
                        ![p].pc = IF d \notin dirs /\ proc[p].cmd = "fetch" THEN "inspect" ELSE "failed"]
    /\ UNCHANGED <<lockVars, storeVars, source, commands, crashes>>

(* installPackageInCache: the candidate must be unchanged (FDN4074); a     *)
(* destination that has appeared is verified instead.                      *)
Inspect(p) ==
    LET d == proc[p].pkg
    IN  /\ At(p, "inspect")
        /\ CASE source[d] # "good" -> Goto(p, "failed")
             [] source[d] = "good" /\ d \notin dirs -> Goto(p, "make")
             [] source[d] = "good" /\ d \in dirs -> IF Whole(d) THEN Advanced(p, d) ELSE Goto(p, "failed")
        /\ UNCHANGED <<lockVars, storeVars, source, commands, crashes>>

(* The staging directory, named like the lock file's.                      *)
MakeStage(p) ==
    /\ At(p, "make") /\ proc[p].seq + MaxAttempts <= MaxSequence
    /\ IF Free(p, dirs) = {} THEN Goto(p, "failed") /\ UNCHANGED <<dirs, hist>>
       ELSE \E n \in Free(p, dirs) :
            /\ FirstFree(p, dirs, n)
            /\ dirs' = dirs \cup {n} /\ hist' = [hist EXCEPT ![n] = "clean"]
            /\ proc' = [proc EXCEPT ![p].pc = "copy", ![p].seq = n[2] + 1, ![p].copied = {}]
    /\ UNCHANGED <<lockVars, held, source, commands, crashes>>

(* cleanup: remove_all of the process's own staging directory.             *)
Cleanup(p) == dirs' = dirs \ {Stage(p)} /\ held' = [held EXCEPT ![Stage(p)] = {}]

(* The manifest is written first, from memory; the other files are copied  *)
(* and their directories made again if they are gone.                      *)
Copy(p, f) ==
    /\ At(p, "copy") /\ f \notin proc[p].copied /\ (f # Manifest => Manifest \in proc[p].copied)
    /\ IF f = Manifest /\ Stage(p) \notin dirs
       THEN Goto(p, "failed") /\ UNCHANGED <<dirs, held>>
       ELSE /\ dirs' = dirs \cup {Stage(p)}
            /\ held' = [held EXCEPT ![Stage(p)] = @ \cup
                            {<<f, IF f = Manifest THEN "good" ELSE source[proc[p].pkg]>>}]
            /\ LET copied == proc[p].copied \cup {f}
               IN  proc' = [proc EXCEPT ![p].copied = copied,
                               ![p].pc = IF copied = Files THEN "verify" ELSE "copy"]
    /\ UNCHANGED <<lockVars, hist, source, commands, crashes>>
CopyFails(p) ==
    /\ At(p, "copy") /\ Goto(p, "ioerror") /\ Cleanup(p)
    /\ UNCHANGED <<lockVars, hist, source, commands, crashes>>
MutStaged(p) == Stage(p) \in dirs
Staged(p) == Whole(Stage(p))
VerifyStage(p) ==
    /\ At(p, "verify")
    /\ IF Staged(p) THEN Goto(p, "rename") /\ UNCHANGED <<dirs, held>>
                    ELSE Goto(p, "failed") /\ Cleanup(p)
    /\ UNCHANGED <<lockVars, hist, source, commands, crashes>>

(* rename: onto nothing or an empty directory.  Whoever comes second       *)
(* removes its staging and verifies what the other one published.          *)
Rename(p) ==
    LET d == proc[p].pkg
        n == Stage(p)
    IN  /\ At(p, "rename")
        /\ IF n \in dirs /\ held[d] = {}
           THEN /\ dirs' = (dirs \ {n}) \cup {d}
                /\ held' = [held EXCEPT ![d] = held[n], ![n] = {}]
                /\ hist' = [hist EXCEPT ![d] = IF hist[n] = "spoilt" THEN "spoilt" ELSE "clean"]
                /\ Advanced(p, d)
           ELSE Goto(p, "lost") /\ Cleanup(p) /\ UNCHANGED hist
        /\ UNCHANGED <<lockVars, source, commands, crashes>>
MutConcurrent(d) == FALSE
Concurrent(d) == Whole(d)
Lost(p) ==
    /\ At(p, "lost")
    /\ IF Concurrent(proc[p].pkg) THEN Advanced(p, proc[p].pkg) ELSE Goto(p, "failed")
    /\ UNCHANGED <<lockVars, storeVars, source, commands, crashes>>

-----------------------------------------------------------------------------
(* package prune keeps what the lock names, lists the rest and every       *)
(* staging directory, and removes them one file at a time.                 *)
Prune(p) == ReadLock(p, "prune", "list")
Removed(keep) == {n \in dirs : n \in Stages \/ n \notin keep}
List(p) ==
    /\ At(p, "list")
    /\ proc' = [proc EXCEPT ![p].todo = Removed(@), ![p].pc = "remove"]
    /\ UNCHANGED <<lockVars, storeVars, source, commands, crashes>>
Removing(p, n) == At(p, "remove") /\ n \in proc[p].todo /\ proc[p].pkg \in {Nothing, n}
RemoveFile(p, n, x) ==
    /\ Removing(p, n) /\ x \in held[n]
    /\ held' = [held EXCEPT ![n] = @ \ {x}] /\ hist' = [hist EXCEPT ![n] = "spoilt"]
    /\ proc' = [proc EXCEPT ![p].pkg = n]
    /\ UNCHANGED <<lockVars, dirs, source, commands, crashes>>
RemoveDir(p, n) ==
    /\ Removing(p, n) /\ held[n] = {}
    /\ dirs' = dirs \ {n}
    /\ hist' = [hist EXCEPT ![n] = IF n \in dirs THEN "removed" ELSE @]
    /\ proc' = [proc EXCEPT ![p].todo = @ \ {n}, ![p].pkg = Nothing]
    /\ UNCHANGED <<lockVars, held, source, commands, crashes>>
Pruned(p) ==
    /\ At(p, "remove")
    /\ Goto(p, IF proc[p].todo = {} THEN "done" ELSE "ioerror")
    /\ UNCHANGED <<lockVars, storeVars, source, commands, crashes>>

-----------------------------------------------------------------------------
Exit(p) ==
    /\ proc[p].pc \in {"done", "failed", "ioerror"} \/ (At(p, "check") /\ proc[p].todo = {})
    /\ proc' = [proc EXCEPT ![p] = Idle]
    /\ UNCHANGED <<lockVars, storeVars, source, commands, crashes>>

(* A process is killed; its staging directories stay.                      *)
Crash(p) ==
    /\ ~At(p, "idle") /\ crashes < MaxCrashes /\ crashes' = crashes + 1
    /\ proc' = [proc EXCEPT ![p] = Idle] /\ lockStage' = [lockStage EXCEPT ![p] = Nothing]
    /\ UNCHANGED <<lock, lockDirs, storeVars, source, commands>>

(* Somebody edits the registry's directory of a package.                   *)
SourceChanges(d) ==
    /\ source[d] = "good" /\ source' = [source EXCEPT ![d] = "changed"]
    /\ UNCHANGED <<lockVars, storeVars, proc, commands, crashes>>

LockCommand(p) ==
    \/ \E g \in SUBSET Digests : Resolve(p, g)
    \/ Compare(p) \/ MakeLock(p) \/ WriteLock(p) \/ VerifyLock(p) \/ ReplaceLock(p) \/ FinishLock(p)
FetchCommand(p) ==
    \/ Fetch(p) \/ Verify(p) \/ Inspect(p) \/ MakeStage(p) \/ CopyFails(p) \/ VerifyStage(p)
    \/ Rename(p) \/ Lost(p)
    \/ (\E d \in Digests : Check(p, d)) \/ (\E f \in Files : Copy(p, f))
PruneCommand(p) ==
    \/ Prune(p) \/ List(p) \/ Pruned(p)
    \/ \E n \in Names : RemoveDir(p, n) \/ \E x \in held[n] : RemoveFile(p, n, x)
Next ==
    \/ \E p \in Procs : LockCommand(p) \/ FetchCommand(p) \/ PruneCommand(p) \/ Exit(p) \/ Crash(p)
    \/ \E d \in Digests : SourceChanges(d)
Spec == Init /\ [][Next]_vars

-----------------------------------------------------------------------------
ProcStates ==
    {"idle", "compare", "write", "writing", "written", "replace", "replaced", "check", "inspect", "make", "copy",
     "verify", "rename", "lost", "list", "remove", "done", "failed", "ioerror"}
Commands == {"none", "resolve", "fetch", "verify", "prune"}
ProcType == [pc : ProcStates, cmd : Commands, todo : SUBSET Names, pkg : Names \cup {Nothing},
             seq : 0 .. MaxSequence, copied : SUBSET Files]
TypeOK ==
    /\ lock \in {Nothing, Torn} \cup SUBSET Digests
    /\ lockStage \in [Procs -> {Nothing, Torn} \cup SUBSET Digests] /\ lockDirs \subseteq Stages
    /\ dirs \subseteq Names /\ held \in [Names -> SUBSET (Files \X {"good", "changed"})]
    /\ source \in [Digests -> {"good", "changed"}]
    /\ hist \in [Names -> {"clean", "spoilt", "removed"}]
    /\ proc \in [Procs -> ProcType]
    /\ commands \in [Procs -> 0 .. MaxCommands] /\ crashes \in 0 .. MaxCrashes

(* What is published under a digest has that digest, whoever installs it   *)
(* at the same time, whoever is killed on the way and however the          *)
(* registry's files change while they are copied.  The one exception is a  *)
(* directory from which a prune has taken a file and not all.              *)
EntriesAreWhole ==
    \A d \in Digests : (d \in dirs /\ hist[d] # "spoilt") => Whole(d)

(* "all concurrent cache installations observe the same verified entry"    *)
(* (package_cache_test.cpp) and "concurrent lock writes leave one complete *)
(* valid generation" (package_lock_test.cpp): a fetch never fails because  *)
(* of another process that installs or resolves, or of what a killed one   *)
(* left, only because the registry changed or a prune took the entry or    *)
(* the staging directory away.                                             *)
Excused(p) ==
    /\ proc[p].pkg \in Digests
    /\ \/ source[proc[p].pkg] = "changed"
       \/ hist[proc[p].pkg] # "clean"
       \/ proc[p].seq > 0 /\ hist[Stage(p)] # "clean"
Caused(p) ==
    (proc[p].pc # "failed" /\ proc'[p].pc = "failed" /\ proc'[p].cmd = "fetch") => Excused(p)'
FetchFailsForACause == [][\A p \in Procs : Caused(p)]_vars

(* What makes them inductive.  Where a process is tells what it holds; a   *)
(* lock file is torn only in its staging directory; what a process stages  *)
(* is its own, and differs from what it copied only if the registry        *)
(* changed or a prune came by.                                             *)
StagingStates == {"copy", "verify", "rename"}
InstallStates == {"inspect", "make", "lost"} \cup StagingStates
Staging(p) == proc[p].pc \in StagingStates
Agrees(r) ==
    /\ r.pc \in {"compare", "write", "writing", "written", "replace", "check", "list"} \cup InstallStates =>
           r.todo \subseteq Digests
    /\ r.pc \in {"compare", "write"} => r.cmd = "resolve"
    /\ r.pc \in InstallStates => r.pkg \in Digests
    /\ r.pc \in StagingStates => r.seq > 0
    /\ r.pc \in {"verify", "rename"} => r.copied = Files
ProcsAgree == \A p \in Procs : Agrees(proc[p])
LockIsWhole ==
    lock # Torn /\ \A p \in Procs : At(p, "replace") => lockStage[p] = proc[p].todo
OnlyDirsHold == \A n \in Names : held[n] # {} => n \in dirs
StagesAreWhole ==
    \A p \in Procs : (At(p, "rename") /\ hist[Stage(p)] # "spoilt" /\ Stage(p) \in dirs) => Whole(Stage(p))
StagesAreIntact ==
    \A p \in Procs : (Staging(p) /\ hist[Stage(p)] = "clean") =>
        /\ Stage(p) \in dirs
        /\ source[proc[p].pkg] = "good" => held[Stage(p)] = proc[p].copied \X {"good"}
LostForACause == \A p \in Procs : At(p, "lost") => Whole(proc[p].pkg) \/ Excused(p)

(* The staging directories of an identifier that nobody uses any more: one *)
(* for each process that was killed, at most.                              *)
Leftover(p) ==
    {k \in 0 .. MaxSequence - 1 : <<p, k>> \in dirs /\ ~(Staging(p) /\ k = proc[p].seq - 1)}
LeftoversAreCounted == \A p \in Procs : Cardinality(Leftover(p)) <= crashes

(* The inductive invariants of the proofs.                                 *)
EntryInv == TypeOK /\ ProcsAgree /\ OnlyDirsHold /\ StagesAreWhole /\ EntriesAreWhole
FetchInv ==
    EntryInv /\ LockIsWhole /\ StagesAreIntact /\ LostForACause /\ LeftoversAreCounted
=============================================================================
