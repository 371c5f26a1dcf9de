------------------------- MODULE PackageStoreProofs -------------------------
(* Proofs about PackageStore, for any number of processes, packages, files *)
(* and kills: what is published under a digest has that digest, and a      *)
(* fetch fails only for a cause.                                           *)
EXTENDS PackageStore, FiniteSetTheorems, TLAPS

(* The kinds of steps, by the variables they change.                       *)
LEMMA StepCases ==
    ASSUME [Next]_vars
    PROVE  \/ \E p \in Procs :
                \/ \E g \in SUBSET Digests : Resolve(p, g)
                \/ Compare(p) \/ MakeLock(p) \/ WriteLock(p) \/ VerifyLock(p) \/ ReplaceLock(p) \/ FinishLock(p)
                \/ Fetch(p) \/ Verify(p) \/ Prune(p)
                \/ \E d \in Digests : Check(p, d)
                \/ Inspect(p) \/ Lost(p) \/ List(p) \/ Pruned(p) \/ Exit(p) \/ Crash(p)
                \/ MakeStage(p) \/ CopyFails(p) \/ VerifyStage(p) \/ Rename(p)
                \/ \E f \in Files : Copy(p, f)
                \/ \E n \in Names : RemoveDir(p, n)
                \/ \E n \in Names : \E x \in held[n] : RemoveFile(p, n, x)
           \/ \E d \in Digests : SourceChanges(d)
           \/ UNCHANGED vars
  BY DEF Next, LockCommand, FetchCommand, PruneCommand

-----------------------------------------------------------------------------
(* A step of process p, by the fields its record then has.                 *)
Now(p, pc, cmd, todo, pkg, seq, copied) ==
    /\ proc' \in [Procs -> ProcType] /\ \A q \in Procs : q # p => proc'[q] = proc[q]
    /\ proc'[p].pc = pc /\ proc'[p].cmd = cmd /\ proc'[p].todo = todo /\ proc'[p].pkg = pkg
    /\ proc'[p].seq = seq /\ proc'[p].copied = copied
Same(p, pc) == Now(p, pc, proc[p].cmd, proc[p].todo, proc[p].pkg, proc[p].seq, proc[p].copied)
Ended(p) == Now(p, "idle", "none", {}, Nothing, 0, {})
OnTo(p, d) ==
    LET left == proc[p].todo \ {d}
    IN  Now(p, IF left = {} THEN "done" ELSE "check", proc[p].cmd, left, Nothing, proc[p].seq, proc[p].copied)

(* A record whose fields are typed, and the assignments of the module.     *)
LEMMA Assigned ==
    ASSUME proc \in [Procs -> ProcType], NEW p \in Procs, NEW r \in ProcType,
           proc' = [proc EXCEPT ![p] = r]
    PROVE  Now(p, r.pc, r.cmd, r.todo, r.pkg, r.seq, r.copied)
  BY DEF Now

LEMMA GotoFacts ==
    ASSUME proc \in [Procs -> ProcType], NEW p \in Procs, NEW pc \in ProcStates, Goto(p, pc)
    PROVE  Same(p, pc)
  BY DEF Goto, Same, Now, ProcType

LEMMA IdleFacts ==
    /\ Idle \in ProcType /\ Idle.pc = "idle" /\ Idle.cmd = "none" /\ Idle.todo = {}
    /\ Idle.pkg = Nothing /\ Idle.seq = 0 /\ Idle.copied = {}
  BY StoreAssumption DEF ProcType, Idle, ProcStates, Commands

LEMMA EndFacts ==
    ASSUME proc \in [Procs -> ProcType], NEW p \in Procs, proc' = [proc EXCEPT ![p] = Idle]
    PROVE  Ended(p)
  BY IdleFacts DEF Ended, Now

LEMMA StartFacts ==
    ASSUME proc \in [Procs -> ProcType], NEW p \in Procs, NEW cmd \in Commands, NEW pc \in ProcStates,
           NEW todo \in SUBSET Names, Start(p, cmd, pc, todo)
    PROVE  Now(p, pc, cmd, todo, Nothing, 0, {})
  <1> DEFINE r == [Idle EXCEPT !.cmd = cmd, !.pc = pc, !.todo = todo]
  <1>1. /\ r \in ProcType /\ r.pc = pc /\ r.cmd = cmd /\ r.todo = todo
        /\ r.pkg = Nothing /\ r.seq = 0 /\ r.copied = {}
    BY IdleFacts DEF ProcType
  <1>2. proc' = [proc EXCEPT ![p] = r]
    BY DEF Start
  <1> QED
    BY <1>1, <1>2, Assigned

LEMMA AdvancedFacts ==
    ASSUME proc \in [Procs -> ProcType], NEW p \in Procs, NEW d, Advanced(p, d)
    PROVE  OnTo(p, d)
  <1> DEFINE left == proc[p].todo \ {d}
             pc == IF left = {} THEN "done" ELSE "check"
  <1>1. proc' = [proc EXCEPT ![p].todo = left, ![p].pkg = Nothing, ![p].pc = pc]
    BY DEF Advanced
  <1>2. pc \in ProcStates /\ left \in SUBSET Names
    BY DEF ProcStates, ProcType
  <1> HIDE DEF left, pc
  <1>3. Now(p, pc, proc[p].cmd, left, Nothing, proc[p].seq, proc[p].copied)
    BY <1>1, <1>2 DEF Now, ProcType
  <1> QED
    BY <1>3 DEF OnTo, left, pc

-----------------------------------------------------------------------------
(* Every step in these terms.                                              *)
Quiet == UNCHANGED <<dirs, held, hist, source>>

LEMMA ResolveStep ==
    ASSUME TypeOK, NEW p \in Procs, NEW g \in SUBSET Digests, Resolve(p, g)
    PROVE  /\ Now(p, "compare", "resolve", g, Nothing, 0, {}) /\ Quiet
           /\ UNCHANGED <<lock, lockStage, lockDirs, crashes>> /\ commands' \in [Procs -> 0 .. MaxCommands]
           /\ proc[p].pc = "idle"
  <1>1. Start(p, "resolve", "compare", g) /\ g \in SUBSET Names
    BY DEF Resolve, Names
  <1>2. Now(p, "compare", "resolve", g, Nothing, 0, {})
    BY <1>1, StartFacts DEF TypeOK, Commands, ProcStates
  <1>3. commands' \in [Procs -> 0 .. MaxCommands]
    BY <1>1, StoreAssumption DEF Start, TypeOK
  <1> QED
    BY <1>1, <1>2, <1>3 DEF Resolve, Start, At, Quiet, lockVars, storeVars

LEMMA ReadStep ==
    ASSUME TypeOK, NEW p \in Procs, Fetch(p) \/ Verify(p) \/ Prune(p)
    PROVE  /\ \E cmd \in Commands, pc \in {"check", "list"} :
                 \/ lock = Torn /\ Now(p, "failed", cmd, {}, Nothing, 0, {})
                 \/ lock \in SUBSET Digests /\ Now(p, pc, cmd, lock, Nothing, 0, {})
           /\ Quiet /\ UNCHANGED <<lock, lockStage, lockDirs, crashes>>
           /\ commands' \in [Procs -> 0 .. MaxCommands] /\ proc[p].pc = "idle"
  <1>1. PICK cmd \in Commands, pc \in {"check", "list"} : ReadLock(p, cmd, pc)
    BY DEF Fetch, Verify, Prune, Commands
  <1>2. PICK to \in {"failed", pc}, todo \in {{}, lock} :
           /\ Start(p, cmd, to, todo)
           /\ \/ lock = Torn /\ to = "failed" /\ todo = {}
              \/ lock \in SUBSET Digests /\ to = pc /\ todo = lock
    BY <1>1 DEF ReadLock, TypeOK
  <1>3. Now(p, to, cmd, todo, Nothing, 0, {})
    <2>1. to \in ProcStates /\ todo \in SUBSET Names
      BY <1>2 DEF ProcStates, Names
    <2> QED
      BY <1>2, <2>1, StartFacts DEF TypeOK
  <1>4. commands' \in [Procs -> 0 .. MaxCommands] /\ proc[p].pc = "idle"
    BY <1>2, StoreAssumption DEF Start, TypeOK, At
  <1> QED
    BY <1>1, <1>2, <1>3, <1>4 DEF ReadLock, Quiet, lockVars, storeVars

(* A free staging name in a process's sequence, of the lock or the cache.   *)
LEMMA FreeNames ==
    ASSUME TypeOK, NEW p \in Procs, proc[p].seq + MaxAttempts <= MaxSequence, NEW taken, NEW n \in Free(p, taken)
    PROVE  \E k \in 0 .. MaxSequence - 1 : n = <<p, k>> /\ n[2] = k /\ k + 1 \in 0 .. MaxSequence /\ n \notin taken
  <1>1. PICK k \in proc[p].seq .. proc[p].seq + MaxAttempts - 1 : n = <<p, k>>
    BY DEF Free
  <1>2. proc[p].seq \in 0 .. MaxSequence
    BY DEF TypeOK, ProcType
  <1>3. k \in 0 .. MaxSequence - 1 /\ k + 1 \in 0 .. MaxSequence /\ n[2] = k /\ n \notin taken
    BY <1>1, <1>2, StoreAssumption DEF Free
  <1> QED
    BY <1>1, <1>3

LEMMA MakeLockStep ==
    ASSUME TypeOK, NEW p \in Procs, MakeLock(p)
    PROVE  /\ Quiet /\ UNCHANGED <<lock, lockStage, commands, crashes>> /\ proc[p].pc = "write"
           /\ \E pc \in {"failed", "writing"}, seq \in 0 .. MaxSequence :
                 Now(p, pc, proc[p].cmd, proc[p].todo, proc[p].pkg, seq, proc[p].copied)
           /\ lockDirs' \subseteq Stages
  <1>1. /\ Quiet /\ UNCHANGED <<lock, lockStage, commands, crashes>> /\ proc[p].pc = "write"
        /\ proc[p].seq + MaxAttempts <= MaxSequence /\ proc[p].seq \in 0 .. MaxSequence
    BY DEF MakeLock, Quiet, At, storeVars, TypeOK, ProcType
  <1>2. CASE Free(p, lockDirs) = {}
    <2>1. Same(p, "failed") /\ UNCHANGED lockDirs
      BY <1>2, GotoFacts DEF MakeLock, TypeOK, ProcStates
    <2> QED
      BY <1>1, <2>1 DEF Same, TypeOK
  <1>3. CASE Free(p, lockDirs) # {}
    <2>1. PICK n \in Free(p, lockDirs) :
             /\ lockDirs' = lockDirs \cup {n}
             /\ proc' = [proc EXCEPT ![p].pc = "writing", ![p].seq = n[2] + 1]
      BY <1>3 DEF MakeLock
    <2>2. PICK k \in 0 .. MaxSequence - 1 : n = <<p, k>> /\ n[2] = k /\ k + 1 \in 0 .. MaxSequence
      BY <1>1, FreeNames
    <2>3. proc' = [proc EXCEPT ![p].pc = "writing", ![p].seq = k + 1]
      BY <2>1, <2>2
    <2>4. Now(p, "writing", proc[p].cmd, proc[p].todo, proc[p].pkg, k + 1, proc[p].copied)
      BY <2>2, <2>3 DEF TypeOK, Now, ProcType, ProcStates
    <2>5. lockDirs' \subseteq Stages
      BY <2>1, <2>2 DEF TypeOK, Stages
    <2> QED
      BY <1>1, <2>2, <2>4, <2>5
  <1> QED
    BY <1>2, <1>3

LEMMA LockStep ==
    ASSUME TypeOK, NEW p \in Procs,
           Compare(p) \/ WriteLock(p) \/ VerifyLock(p) \/ ReplaceLock(p) \/ FinishLock(p)
    PROVE  /\ Quiet /\ UNCHANGED <<commands, crashes>> /\ lockDirs' \subseteq lockDirs
           /\ \/ proc[p].pc = "compare" /\ (Same(p, "done") \/ Same(p, "write")) /\ UNCHANGED <<lock, lockStage>>
              \/ /\ proc[p].pc = "writing" /\ Same(p, "written") /\ UNCHANGED lock
                 /\ \E x \in {Torn, proc[p].todo} : lockStage' = [lockStage EXCEPT ![p] = x]
              \/ /\ proc[p].pc = "written" /\ lockStage[p] = proc[p].todo /\ Same(p, "replace")
                 /\ UNCHANGED <<lock, lockStage>>
              \/ /\ proc[p].pc \in {"written", "replace"} /\ Same(p, "ioerror") /\ UNCHANGED lock
                 /\ lockStage' = [lockStage EXCEPT ![p] = Nothing]
              \/ /\ proc[p].pc = "replace" /\ Same(p, "replaced")
                 /\ lock' = lockStage[p] /\ lockStage' = [lockStage EXCEPT ![p] = Nothing]
              \/ /\ proc[p].pc = "replaced" /\ Same(p, "done") /\ UNCHANGED lock
                 /\ lockStage' = [lockStage EXCEPT ![p] = Nothing]
  <1>1. \A pc \in ProcStates : Goto(p, pc) => Same(p, pc)
    BY GotoFacts DEF TypeOK
  <1>2. Quiet /\ UNCHANGED <<commands, crashes>> /\ lockDirs' \subseteq lockDirs
    BY DEF Compare, WriteLock, VerifyLock, ReplaceLock, FinishLock, CleanupLock, Quiet, lockVars, storeVars
  <1>3. CASE Compare(p)
    BY <1>1, <1>2, <1>3 DEF Compare, At, ProcStates, lockVars
  <1>4. CASE WriteLock(p)
    BY <1>1, <1>2, <1>4 DEF WriteLock, At, ProcStates
  <1>5. CASE VerifyLock(p)
    <2>1. CASE ReadsBack(p)
      BY <1>1, <1>2, <1>5, <2>1 DEF VerifyLock, ReadsBack, At, ProcStates
    <2>2. CASE ~ReadsBack(p)
      BY <1>1, <1>2, <1>5, <2>2 DEF VerifyLock, CleanupLock, At, ProcStates
    <2> QED
      BY <2>1, <2>2
  <1>6. CASE ReplaceLock(p)
    BY <1>1, <1>2, <1>6 DEF ReplaceLock, CleanupLock, At, ProcStates
  <1>7. CASE FinishLock(p)
    BY <1>1, <1>2, <1>7 DEF FinishLock, CleanupLock, At, ProcStates
  <1> QED
    BY <1>3, <1>4, <1>5, <1>6, <1>7

LEMMA CheckStep ==
    ASSUME TypeOK, NEW p \in Procs, NEW d \in Digests, Check(p, d)
    PROVE  /\ Quiet /\ UNCHANGED <<lock, lockStage, lockDirs, commands, crashes>> /\ proc[p].pc = "check"
           /\ \/ Whole(d) /\ OnTo(p, d)
              \/ /\ ~Whole(d)
                 /\ \E pc \in {"inspect", "failed"} :
                       /\ Now(p, pc, proc[p].cmd, proc[p].todo, d, proc[p].seq, proc[p].copied)
                       /\ (pc = "failed" /\ proc[p].cmd = "fetch") => d \in dirs
  <1>1. Quiet /\ UNCHANGED <<lock, lockStage, lockDirs, commands, crashes>> /\ proc[p].pc = "check"
    BY DEF Check, Quiet, At, lockVars, storeVars
  <1>2. CASE Whole(d)
    BY <1>1, <1>2, AdvancedFacts DEF Check, TypeOK
  <1>3. CASE ~Whole(d)
    <2> DEFINE pc == IF d \notin dirs /\ proc[p].cmd = "fetch" THEN "inspect" ELSE "failed"
    <2>1. proc' = [proc EXCEPT ![p].pkg = d, ![p].pc = pc]
      BY <1>3 DEF Check
    <2>2. pc \in ProcStates /\ pc \in {"inspect", "failed"} /\ d \in Names
      BY DEF ProcStates, Names
    <2>3. (pc = "failed" /\ proc[p].cmd = "fetch") => d \in dirs
      OBVIOUS
    <2> HIDE DEF pc
    <2>4. Now(p, pc, proc[p].cmd, proc[p].todo, d, proc[p].seq, proc[p].copied)
      BY <2>1, <2>2 DEF TypeOK, Now, ProcType
    <2> QED
      BY <1>1, <1>3, <2>2, <2>3, <2>4
  <1> QED
    BY <1>2, <1>3

LEMMA InstallStep ==
    ASSUME TypeOK, NEW p \in Procs, Inspect(p) \/ Lost(p)
    PROVE  /\ Quiet /\ UNCHANGED <<lock, lockStage, lockDirs, commands, crashes>>
           /\ LET d == proc[p].pkg
              IN  \/ proc[p].pc = "inspect" /\ source[d] # "good" /\ Same(p, "failed")
                  \/ proc[p].pc = "inspect" /\ Same(p, "make")
                  \/ proc[p].pc = "inspect" /\ d \in dirs /\ ~Whole(d) /\ Same(p, "failed")
                  \/ proc[p].pc \in {"inspect", "lost"} /\ Whole(d) /\ OnTo(p, d)
                  \/ proc[p].pc = "lost" /\ ~Whole(d) /\ Same(p, "failed")
  <1>1. \A pc \in ProcStates : Goto(p, pc) => Same(p, pc)
    BY GotoFacts DEF TypeOK
  <1>2. Advanced(p, proc[p].pkg) => OnTo(p, proc[p].pkg)
    BY AdvancedFacts DEF TypeOK
  <1>3. Quiet /\ UNCHANGED <<lock, lockStage, lockDirs, commands, crashes>>
    BY DEF Inspect, Lost, Quiet, lockVars, storeVars
  <1>4. CASE Inspect(p)
    BY <1>1, <1>2, <1>3, <1>4 DEF Inspect, At, ProcStates
  <1>5. CASE Lost(p)
    BY <1>1, <1>2, <1>3, <1>5 DEF Lost, Concurrent, At, ProcStates
  <1> QED
    BY <1>4, <1>5

LEMMA EndStep ==
    ASSUME TypeOK, NEW p \in Procs, Pruned(p) \/ Exit(p) \/ Crash(p) \/ List(p)
    PROVE  /\ Quiet /\ UNCHANGED <<lock, lockDirs, commands>>
           /\ \/ proc[p].pc = "remove" /\ (Same(p, "done") \/ Same(p, "ioerror")) /\ UNCHANGED <<lockStage, crashes>>
              \/ ~Staging(p) /\ Ended(p) /\ UNCHANGED <<lockStage, crashes>>
              \/ /\ Ended(p) /\ lockStage' = [lockStage EXCEPT ![p] = Nothing]
                 /\ crashes' = crashes + 1 /\ crashes' \in 0 .. MaxCrashes
              \/ /\ proc[p].pc = "list" /\ UNCHANGED <<lockStage, crashes>>
                 /\ \E todo \in SUBSET Names :
                       Now(p, "remove", proc[p].cmd, todo, proc[p].pkg, proc[p].seq, proc[p].copied)
  <1>1. Quiet /\ UNCHANGED <<lock, lockDirs, commands>>
    BY DEF Pruned, Exit, Crash, List, Quiet, lockVars, storeVars
  <1>2. CASE Pruned(p)
    <2>1. Same(p, "done") \/ Same(p, "ioerror")
      BY <1>2, GotoFacts DEF TypeOK, Pruned, ProcStates
    <2> QED
      BY <1>1, <1>2, <2>1 DEF Pruned, At, lockVars
  <1>3. CASE Exit(p)
    <2>1. Ended(p)
      BY <1>3, EndFacts DEF TypeOK, Exit
    <2> QED
      BY <1>1, <1>3, <2>1 DEF Exit, At, lockVars, Staging, StagingStates
  <1>4. CASE Crash(p)
    <2>1. Ended(p)
      BY <1>4, EndFacts DEF TypeOK, Crash
    <2>2. crashes' = crashes + 1 /\ crashes' \in 0 .. MaxCrashes
      BY <1>4, StoreAssumption DEF TypeOK, Crash
    <2> QED
      BY <1>1, <1>4, <2>1, <2>2 DEF Crash
  <1>5. CASE List(p)
    <2> DEFINE todo == Removed(proc[p].todo)
    <2>1. proc' = [proc EXCEPT ![p].todo = todo, ![p].pc = "remove"]
      BY <1>5 DEF List
    <2>2. todo \in SUBSET Names
      BY DEF Removed, TypeOK
    <2> HIDE DEF todo
    <2>3. Now(p, "remove", proc[p].cmd, todo, proc[p].pkg, proc[p].seq, proc[p].copied)
      BY <2>1, <2>2 DEF TypeOK, Now, ProcType, ProcStates
    <2> QED
      BY <1>1, <1>5, <2>2, <2>3 DEF List, At, lockVars
  <1> QED
    BY <1>2, <1>3, <1>4, <1>5

LEMMA MakeStep ==
    ASSUME TypeOK, NEW p \in Procs, MakeStage(p)
    PROVE  /\ UNCHANGED <<lock, lockStage, lockDirs, held, source, commands, crashes>> /\ proc[p].pc = "make"
           /\ proc[p].seq + MaxAttempts <= MaxSequence
           /\ \/ /\ \A k \in proc[p].seq .. proc[p].seq + MaxAttempts - 1 : <<p, k>> \in dirs
                 /\ Same(p, "failed") /\ UNCHANGED <<dirs, hist>>
              \/ \E k \in 0 .. MaxSequence - 1 :
                    /\ <<p, k>> \notin dirs /\ dirs' = dirs \cup {<<p, k>>}
                    /\ hist' = [hist EXCEPT ![<<p, k>>] = "clean"]
                    /\ Now(p, "copy", proc[p].cmd, proc[p].todo, proc[p].pkg, k + 1, {})
  <1>1. /\ UNCHANGED <<lock, lockStage, lockDirs, held, source, commands, crashes>> /\ proc[p].pc = "make"
        /\ proc[p].seq + MaxAttempts <= MaxSequence
    BY DEF MakeStage, At, lockVars
  <1>2. CASE Free(p, dirs) = {}
    <2>1. Same(p, "failed") /\ UNCHANGED <<dirs, hist>>
      BY <1>2, GotoFacts DEF MakeStage, TypeOK, ProcStates
    <2>2. \A k \in proc[p].seq .. proc[p].seq + MaxAttempts - 1 : <<p, k>> \in dirs
      BY <1>2 DEF Free
    <2> QED
      BY <1>1, <2>1, <2>2
  <1>3. CASE Free(p, dirs) # {}
    <2>1. PICK n \in Free(p, dirs) :
             /\ dirs' = dirs \cup {n} /\ hist' = [hist EXCEPT ![n] = "clean"]
             /\ proc' = [proc EXCEPT ![p].pc = "copy", ![p].seq = n[2] + 1, ![p].copied = {}]
      BY <1>3 DEF MakeStage
    <2>2. PICK k \in 0 .. MaxSequence - 1 :
             n = <<p, k>> /\ n[2] = k /\ k + 1 \in 0 .. MaxSequence /\ n \notin dirs
      BY <1>1, FreeNames
    <2>5. proc' = [proc EXCEPT ![p].pc = "copy", ![p].seq = k + 1, ![p].copied = {}]
      BY <2>1, <2>2
    <2>6. Now(p, "copy", proc[p].cmd, proc[p].todo, proc[p].pkg, k + 1, {})
      BY <2>2, <2>5 DEF TypeOK, Now, ProcType, ProcStates
    <2> QED
      BY <1>1, <2>1, <2>2, <2>6
  <1> QED
    BY <1>2, <1>3

LEMMA CopyStep ==
    ASSUME TypeOK, NEW p \in Procs, NEW f \in Files, Copy(p, f)
    PROVE  /\ UNCHANGED <<lock, lockStage, lockDirs, hist, source, commands, crashes>> /\ proc[p].pc = "copy"
           /\ \/ Stage(p) \notin dirs /\ Same(p, "failed") /\ UNCHANGED <<dirs, held>>
              \/ /\ dirs' = dirs \cup {Stage(p)}
                 /\ \E x \in {"good", source[proc[p].pkg]} :
                       held' = [held EXCEPT ![Stage(p)] = @ \cup {<<f, x>>}]
                 /\ \E pc \in {"copy", "verify"} :
                       /\ pc = "verify" => proc[p].copied \cup {f} = Files
                       /\ Now(p, pc, proc[p].cmd, proc[p].todo, proc[p].pkg, proc[p].seq, proc[p].copied \cup {f})
  <1>1. UNCHANGED <<lock, lockStage, lockDirs, hist, source, commands, crashes>> /\ proc[p].pc = "copy"
    BY DEF Copy, At, lockVars
  <1>2. CASE f = Manifest /\ Stage(p) \notin dirs
    <2>1. Same(p, "failed") /\ UNCHANGED <<dirs, held>>
      BY <1>2, GotoFacts DEF Copy, TypeOK, ProcStates
    <2> QED
      BY <1>1, <1>2, <2>1
  <1>3. CASE ~(f = Manifest /\ Stage(p) \notin dirs)
    <2> DEFINE copied == proc[p].copied \cup {f}
               pc == IF copied = Files THEN "verify" ELSE "copy"
               x == IF f = Manifest THEN "good" ELSE source[proc[p].pkg]
    <2>1. /\ dirs' = dirs \cup {Stage(p)}
          /\ held' = [held EXCEPT ![Stage(p)] = @ \cup {<<f, x>>}]
          /\ proc' = [proc EXCEPT ![p].copied = copied, ![p].pc = pc]
      BY <1>3 DEF Copy
    <2>2. x \in {"good", source[proc[p].pkg]} /\ pc \in {"copy", "verify"} /\ (pc = "verify" => copied = Files)
      OBVIOUS
    <2>3. copied \in SUBSET Files
      BY DEF TypeOK, ProcType
    <2> HIDE DEF copied, pc, x
    <2>4. Now(p, pc, proc[p].cmd, proc[p].todo, proc[p].pkg, proc[p].seq, copied)
      BY <2>1, <2>2, <2>3 DEF TypeOK, Now, ProcType, ProcStates
    <2> QED
      BY <1>1, <2>1, <2>2, <2>4 DEF copied
  <1> QED
    BY <1>2, <1>3

LEMMA VerifyStep ==
    ASSUME TypeOK, NEW p \in Procs, CopyFails(p) \/ VerifyStage(p)
    PROVE  /\ UNCHANGED <<lock, lockStage, lockDirs, hist, source, commands, crashes>>
           /\ \/ proc[p].pc = "copy" /\ Same(p, "ioerror") /\ Cleanup(p)
              \/ proc[p].pc = "verify" /\ Whole(Stage(p)) /\ Same(p, "rename") /\ UNCHANGED <<dirs, held>>
              \/ proc[p].pc = "verify" /\ ~Whole(Stage(p)) /\ Same(p, "failed") /\ Cleanup(p)
  <1>1. \A pc \in ProcStates : Goto(p, pc) => Same(p, pc)
    BY GotoFacts DEF TypeOK
  <1>2. UNCHANGED <<lock, lockStage, lockDirs, hist, source, commands, crashes>>
    BY DEF CopyFails, VerifyStage, lockVars
  <1>3. CASE CopyFails(p)
    BY <1>1, <1>2, <1>3 DEF CopyFails, At, ProcStates
  <1>4. CASE VerifyStage(p)
    <2>1. CASE Staged(p)
      BY <1>1, <1>2, <1>4, <2>1 DEF VerifyStage, Staged, At, ProcStates
    <2>2. CASE ~Staged(p)
      BY <1>1, <1>2, <1>4, <2>2 DEF VerifyStage, Staged, At, ProcStates
    <2> QED
      BY <2>1, <2>2
  <1> QED
    BY <1>3, <1>4

LEMMA RenameStep ==
    ASSUME TypeOK, NEW p \in Procs, Rename(p)
    PROVE  LET d == proc[p].pkg
               n == Stage(p)
           IN  /\ UNCHANGED <<lock, lockStage, lockDirs, source, commands, crashes>> /\ proc[p].pc = "rename"
               /\ \/ /\ n \in dirs /\ held[d] = {} /\ OnTo(p, d)
                     /\ dirs' = (dirs \ {n}) \cup {d} /\ held' = [held EXCEPT ![d] = held[n], ![n] = {}]
                     /\ hist' = [hist EXCEPT ![d] = IF hist[n] = "spoilt" THEN "spoilt" ELSE "clean"]
                  \/ /\ n \notin dirs \/ held[d] # {}
                     /\ Same(p, "lost") /\ Cleanup(p) /\ UNCHANGED hist
  <1> DEFINE d == proc[p].pkg
             n == Stage(p)
  <1>1. UNCHANGED <<lock, lockStage, lockDirs, source, commands, crashes>> /\ proc[p].pc = "rename"
    BY DEF Rename, At, lockVars
  <1>2. CASE n \in dirs /\ held[d] = {}
    <2>1. OnTo(p, d)
      BY <1>2, AdvancedFacts DEF Rename, TypeOK
    <2> QED
      BY <1>1, <1>2, <2>1 DEF Rename
  <1>3. CASE ~(n \in dirs /\ held[d] = {})
    <2>1. Same(p, "lost")
      BY <1>3, GotoFacts DEF Rename, TypeOK, ProcStates
    <2> QED
      BY <1>1, <1>3, <2>1 DEF Rename
  <1> QED
    BY <1>2, <1>3

LEMMA RemoveStep ==
    ASSUME TypeOK, NEW p \in Procs, NEW n \in Names,
           RemoveDir(p, n) \/ \E x \in held[n] : RemoveFile(p, n, x)
    PROVE  /\ UNCHANGED <<lock, lockStage, lockDirs, source, commands, crashes>> /\ proc[p].pc = "remove"
           /\ \E todo \in SUBSET Names, pkg \in Names \cup {Nothing} :
                 Now(p, "remove", proc[p].cmd, todo, pkg, proc[p].seq, proc[p].copied)
           /\ \/ /\ held[n] = {} /\ dirs' = dirs \ {n} /\ UNCHANGED held
                 /\ hist' = [hist EXCEPT ![n] = IF n \in dirs THEN "removed" ELSE @]
              \/ /\ hist' = [hist EXCEPT ![n] = "spoilt"] /\ UNCHANGED dirs
                 /\ \E x \in held[n] : held' = [held EXCEPT ![n] = @ \ {x}]
  <1>1. CASE RemoveDir(p, n)
    <2> DEFINE todo == proc[p].todo \ {n}
    <2>1. proc' = [proc EXCEPT ![p].todo = todo, ![p].pkg = Nothing]
      BY <1>1 DEF RemoveDir
    <2>2. todo \in SUBSET Names
      BY DEF TypeOK, ProcType
    <2>3. proc[p].pc = "remove"
      BY <1>1 DEF RemoveDir, Removing, At
    <2> HIDE DEF todo
    <2>4. Now(p, "remove", proc[p].cmd, todo, Nothing, proc[p].seq, proc[p].copied)
      BY <2>1, <2>2, <2>3 DEF TypeOK, Now, ProcType
    <2> QED
      BY <1>1, <2>2, <2>3, <2>4 DEF RemoveDir, lockVars
  <1>2. CASE \E x \in held[n] : RemoveFile(p, n, x)
    <2>1. proc' = [proc EXCEPT ![p].pkg = n] /\ proc[p].pc = "remove"
      BY <1>2 DEF RemoveFile, Removing, At
    <2>2. proc[p].todo \in SUBSET Names
      BY DEF TypeOK, ProcType
    <2>3. Now(p, "remove", proc[p].cmd, proc[p].todo, n, proc[p].seq, proc[p].copied)
      BY <2>1 DEF TypeOK, Now, ProcType
    <2> QED
      BY <1>2, <2>1, <2>2, <2>3 DEF RemoveFile, lockVars
  <1> QED
    BY <1>1, <1>2

-----------------------------------------------------------------------------
(* Entries are whole.                                                      *)

(* The staging name of a process that stages.                              *)
LEMMA StageName ==
    ASSUME TypeOK, ProcsAgree, NEW p \in Procs, Staging(p)
    PROVE  /\ Stage(p) \in Stages /\ Stage(p) \in Names /\ Stage(p) \notin Digests
           /\ proc[p].pkg \in Digests /\ proc[p].pkg \in Names /\ proc[p].pkg # Stage(p)
           /\ \A q \in Procs : q # p => Stage(q) # Stage(p)
  <1>1. proc[p].seq \in 0 .. MaxSequence /\ proc[p].seq > 0 /\ proc[p].pkg \in Digests
    BY DEF TypeOK, ProcType, ProcsAgree, Agrees, Staging, InstallStates
  <1>2. Stage(p) \in Stages
    BY <1>1, StoreAssumption DEF Stage, Stages
  <1>3. \A q \in Procs : q # p => Stage(q) # Stage(p)
    BY DEF Stage
  <1> QED
    BY <1>1, <1>2, <1>3, NamesAssumption DEF Names

(* A step that leaves the store alone, of a process that does not come to  *)
(* its rename with it.                                                     *)
LEMMA QuietEntry ==
    ASSUME EntryInv, NEW p \in Procs, Quiet,
           proc' \in [Procs -> ProcType], \A q \in Procs : q # p => proc'[q] = proc[q],
           Agrees(proc'[p]), proc'[p].pc # "rename"
    PROVE  ProcsAgree' /\ OnlyDirsHold' /\ StagesAreWhole' /\ EntriesAreWhole'
  <1>1. ProcsAgree'
    BY DEF EntryInv, ProcsAgree, Agrees
  <1>2. OnlyDirsHold' /\ EntriesAreWhole'
    BY DEF EntryInv, OnlyDirsHold, EntriesAreWhole, Whole, Quiet
  <1>3. StagesAreWhole'
    BY DEF EntryInv, StagesAreWhole, Stage, At, Whole, Quiet
  <1> QED
    BY <1>1, <1>2, <1>3

LEMMA QuietStep ==
    ASSUME EntryInv, NEW p \in Procs,
           \/ \E g \in SUBSET Digests : Resolve(p, g)
           \/ Compare(p) \/ MakeLock(p) \/ WriteLock(p) \/ VerifyLock(p) \/ ReplaceLock(p) \/ FinishLock(p)
           \/ Fetch(p) \/ Verify(p) \/ Prune(p)
           \/ \E d \in Digests : Check(p, d)
           \/ Inspect(p) \/ Lost(p) \/ List(p) \/ Pruned(p) \/ Exit(p) \/ Crash(p)
    PROVE  EntryInv'
  <1>1. TypeOK /\ ProcsAgree
    BY DEF EntryInv
  <1>2. proc[p].todo \subseteq Names /\ Digests \subseteq Names
    BY <1>1 DEF TypeOK, ProcType, Names
  <1>3. Agrees(proc[p])
    BY <1>1 DEF ProcsAgree
  <1>4. CASE \E g \in SUBSET Digests : Resolve(p, g)
    <2>1. PICK g \in SUBSET Digests : Resolve(p, g)
      BY <1>4
    <2>2. /\ Now(p, "compare", "resolve", g, Nothing, 0, {}) /\ Quiet
          /\ UNCHANGED <<lock, lockStage, lockDirs, crashes>> /\ commands' \in [Procs -> 0 .. MaxCommands]
      BY <1>1, <2>1, ResolveStep
    <2>3. Agrees(proc'[p]) /\ proc'[p].pc # "rename"
      BY <2>2 DEF Now, Agrees, InstallStates, StagingStates
    <2>4. TypeOK'
      BY <1>1, <2>2 DEF TypeOK, Now, Quiet
    <2> QED
      BY <2>2, <2>3, <2>4, QuietEntry DEF Now, EntryInv
  <1>5. CASE Fetch(p) \/ Verify(p) \/ Prune(p)
    <2>1. /\ \E cmd \in Commands, pc \in {"check", "list"} :
                 \/ lock = Torn /\ Now(p, "failed", cmd, {}, Nothing, 0, {})
                 \/ lock \in SUBSET Digests /\ Now(p, pc, cmd, lock, Nothing, 0, {})
          /\ Quiet /\ UNCHANGED <<lock, lockStage, lockDirs, crashes>> /\ commands' \in [Procs -> 0 .. MaxCommands]
      BY <1>1, <1>5, ReadStep
    <2>2. Agrees(proc'[p]) /\ proc'[p].pc # "rename"
      BY <2>1 DEF Now, Agrees, InstallStates, StagingStates
    <2>3. proc' \in [Procs -> ProcType] /\ \A q \in Procs : q # p => proc'[q] = proc[q]
      BY <2>1 DEF Now
    <2>4. TypeOK'
      BY <1>1, <2>1, <2>3 DEF TypeOK, Quiet
    <2> QED
      BY <2>1, <2>2, <2>3, <2>4, QuietEntry DEF EntryInv
  <1>6. CASE Compare(p) \/ WriteLock(p) \/ VerifyLock(p) \/ ReplaceLock(p) \/ FinishLock(p)
    <2>1. /\ Quiet /\ UNCHANGED <<commands, crashes>> /\ lockDirs' \subseteq lockDirs
          /\ \/ /\ proc[p].pc \in {"compare", "writing", "written", "replace"}
                /\ \E pc \in {"done", "write", "written", "replace", "replaced", "ioerror"} :
                      Same(p, pc) /\ (pc = "write" => proc[p].pc = "compare")
             \/ proc[p].pc = "replaced" /\ Same(p, "done") /\ lock' = lock
          /\ \/ lockStage' \in {lockStage, [lockStage EXCEPT ![p] = Nothing]}
             \/ /\ proc[p].pc = "writing"
                /\ \E x \in {Torn, proc[p].todo} : lockStage' = [lockStage EXCEPT ![p] = x]
          /\ lock' \in {lock, lockStage[p]}
      BY <1>1, <1>6, LockStep
    <2>2. proc[p].pc # "replaced" => proc[p].todo \in SUBSET Digests
      BY <1>3, <2>1 DEF Agrees
    <2>3. Agrees(proc'[p]) /\ proc'[p].pc # "rename"
      BY <1>3, <2>1, <2>2 DEF Same, Now, Agrees, InstallStates, StagingStates
    <2>4. proc' \in [Procs -> ProcType] /\ \A q \in Procs : q # p => proc'[q] = proc[q]
      BY <2>1 DEF Same, Now
    <2>5. TypeOK'
      BY <1>1, <2>1, <2>2, <2>4 DEF TypeOK, Quiet
    <2> QED
      BY <2>1, <2>3, <2>4, <2>5, QuietEntry DEF EntryInv
  <1>10. CASE MakeLock(p)
    <2>1. /\ Quiet /\ UNCHANGED <<lock, lockStage, commands, crashes>> /\ proc[p].pc = "write"
          /\ lockDirs' \subseteq Stages
      BY <1>1, <1>10, MakeLockStep
    <2>2. PICK pc \in {"failed", "writing"}, seq \in 0 .. MaxSequence :
             Now(p, pc, proc[p].cmd, proc[p].todo, proc[p].pkg, seq, proc[p].copied)
      BY <1>1, <1>10, MakeLockStep
    <2>3. Agrees(proc'[p]) /\ proc'[p].pc # "rename"
      BY <1>3, <2>1, <2>2 DEF Now, Agrees, InstallStates, StagingStates
    <2>4. TypeOK'
      BY <1>1, <2>1, <2>2 DEF TypeOK, Now, Quiet
    <2> QED
      BY <2>1, <2>2, <2>3, <2>4, QuietEntry DEF EntryInv, Now
  <1>7. CASE \E d \in Digests : Check(p, d)
    <2>1. PICK d \in Digests : Check(p, d)
      BY <1>7
    <2>2. /\ Quiet /\ UNCHANGED <<lock, lockStage, lockDirs, commands, crashes>> /\ proc[p].pc = "check"
          /\ \/ OnTo(p, d)
             \/ \E pc \in {"inspect", "failed"} :
                   Now(p, pc, proc[p].cmd, proc[p].todo, d, proc[p].seq, proc[p].copied)
      BY <1>1, <2>1, CheckStep
    <2>3. Agrees(proc'[p]) /\ proc'[p].pc # "rename"
      BY <1>3, <2>2 DEF OnTo, Now, Agrees, InstallStates, StagingStates
    <2>4. proc' \in [Procs -> ProcType] /\ \A q \in Procs : q # p => proc'[q] = proc[q]
      BY <2>2 DEF OnTo, Now
    <2>5. TypeOK'
      BY <1>1, <2>2, <2>4 DEF TypeOK, Quiet
    <2> QED
      BY <2>2, <2>3, <2>4, <2>5, QuietEntry DEF EntryInv
  <1>8. CASE Inspect(p) \/ Lost(p)
    <2>1. /\ Quiet /\ UNCHANGED <<lock, lockStage, lockDirs, commands, crashes>> /\ proc[p].pc \in {"inspect", "lost"}
          /\ \/ OnTo(p, proc[p].pkg)
             \/ \E pc \in {"make", "failed"} : Same(p, pc)
      BY <1>1, <1>8, InstallStep
    <2>3. Agrees(proc'[p]) /\ proc'[p].pc # "rename"
      BY <1>3, <2>1 DEF OnTo, Same, Now, Agrees, InstallStates, StagingStates
    <2>4. proc' \in [Procs -> ProcType] /\ \A q \in Procs : q # p => proc'[q] = proc[q]
      BY <2>1 DEF OnTo, Same, Now
    <2>5. TypeOK'
      BY <1>1, <2>1, <2>4 DEF TypeOK, Quiet
    <2> QED
      BY <2>1, <2>3, <2>4, <2>5, QuietEntry DEF EntryInv
  <1>9. CASE Pruned(p) \/ Exit(p) \/ Crash(p) \/ List(p)
    <2>1. /\ Quiet /\ UNCHANGED <<lock, lockDirs, commands>>
          /\ lockStage' \in {lockStage, [lockStage EXCEPT ![p] = Nothing]}
          /\ crashes' \in 0 .. MaxCrashes
          /\ \/ Same(p, "done") \/ Same(p, "ioerror") \/ Ended(p)
             \/ \E todo \in SUBSET Names :
                   Now(p, "remove", proc[p].cmd, todo, proc[p].pkg, proc[p].seq, proc[p].copied)
      BY <1>1, <1>9, EndStep DEF TypeOK
    <2>2. Agrees(proc'[p]) /\ proc'[p].pc # "rename"
      BY <2>1 DEF Same, Ended, Now, Agrees, InstallStates, StagingStates
    <2>3. proc' \in [Procs -> ProcType] /\ \A q \in Procs : q # p => proc'[q] = proc[q]
      BY <2>1 DEF Same, Ended, Now
    <2>4. TypeOK'
      BY <1>1, <2>1, <2>3 DEF TypeOK, Quiet
    <2> QED
      BY <2>1, <2>2, <2>3, <2>4, QuietEntry DEF EntryInv
  <1> QED
    BY <1>4, <1>5, <1>6, <1>7, <1>8, <1>9, <1>10

LEMMA MakeEntry ==
    ASSUME EntryInv, NEW p \in Procs, MakeStage(p)
    PROVE  EntryInv'
  <1> USE DEF EntryInv
  <1>1. UNCHANGED <<lock, lockStage, lockDirs, held, source, commands, crashes>> /\ proc[p].pc = "make"
    BY MakeStep
  <1>2. Agrees(proc[p])
    BY DEF ProcsAgree
  <1>3. CASE Same(p, "failed") /\ UNCHANGED <<dirs, hist>>
    <2>1. Agrees(proc'[p]) /\ proc'[p].pc # "rename"
      BY <1>3 DEF Same, Now, Agrees, InstallStates, StagingStates
    <2>2. TypeOK'
      BY <1>1, <1>3 DEF TypeOK, Same, Now
    <2> QED
      BY <1>1, <1>3, <2>1, <2>2, QuietEntry DEF Same, Now, Quiet
  <1>4. ASSUME NEW k \in 0 .. MaxSequence - 1, <<p, k>> \notin dirs, dirs' = dirs \cup {<<p, k>>},
               hist' = [hist EXCEPT ![<<p, k>>] = "clean"],
               Now(p, "copy", proc[p].cmd, proc[p].todo, proc[p].pkg, k + 1, {})
        PROVE  EntryInv'
    <2>1. <<p, k>> \in Names /\ <<p, k>> \notin Digests
      BY NamesAssumption DEF Names, Stages
    <2>2. TypeOK'
      BY <1>1, <1>4, <2>1 DEF TypeOK, Now
    <2>3. ProcsAgree'
      BY <1>1, <1>2, <1>4 DEF Now, ProcsAgree, Agrees, InstallStates, StagingStates
    <2>4. OnlyDirsHold' /\ EntriesAreWhole'
      BY <1>1, <1>4, <2>1 DEF OnlyDirsHold, EntriesAreWhole, Whole, TypeOK, Names
    <2>5. StagesAreWhole'
      <3> SUFFICES ASSUME NEW q \in Procs, proc'[q].pc = "rename", hist'[Stage(q)'] # "spoilt", Stage(q)' \in dirs'
                   PROVE  held'[Stage(q)'] = Files \X {"good"}
        BY DEF StagesAreWhole, At, Whole
      <3>1. q # p /\ proc'[q] = proc[q] /\ Stage(q)' = Stage(q)
        BY <1>4 DEF Now, Stage
      <3>2. Stage(q) # <<p, k>> /\ Stage(q) \in Names
        BY <3>1, StageName DEF Stage, Staging, StagingStates
      <3> QED
        BY <1>1, <1>4, <3>1, <3>2 DEF StagesAreWhole, At, Whole, TypeOK
    <2> QED
      BY <2>2, <2>3, <2>4, <2>5
  <1> QED
    BY <1>3, <1>4, MakeStep

(* A step in which a process changes the content of its own staging        *)
(* directory and does not come to its rename.                              *)
LEMMA OwnEntry ==
    ASSUME EntryInv, NEW p \in Procs, Staging(p),
           proc' \in [Procs -> ProcType], \A q \in Procs : q # p => proc'[q] = proc[q],
           Agrees(proc'[p]), proc'[p].pc # "rename", UNCHANGED <<lock, lockStage, lockDirs, hist, source, commands, crashes>>,
           \A n \in Names : n # Stage(p) => held'[n] = held[n] /\ (n \in dirs' <=> n \in dirs),
           held' \in [Names -> SUBSET (Files \X {"good", "changed"})], dirs' \subseteq Names,
           held'[Stage(p)] # {} => Stage(p) \in dirs'
    PROVE  EntryInv'
  <1> USE DEF EntryInv
  <1>1. TypeOK'
    BY DEF TypeOK
  <1>2. ProcsAgree'
    BY DEF ProcsAgree, Agrees
  <1>3. Stage(p) \in Names /\ Stage(p) \notin Digests
    BY StageName
  <1>4. OnlyDirsHold' /\ EntriesAreWhole'
    BY <1>3 DEF OnlyDirsHold, EntriesAreWhole, Whole, Names
  <1>5. StagesAreWhole'
    <2> SUFFICES ASSUME NEW q \in Procs, proc'[q].pc = "rename", hist'[Stage(q)'] # "spoilt", Stage(q)' \in dirs'
                 PROVE  held'[Stage(q)'] = Files \X {"good"}
      BY DEF StagesAreWhole, At, Whole
    <2>1. q # p /\ proc'[q] = proc[q] /\ Stage(q)' = Stage(q)
      BY DEF Stage
    <2>2. Stage(q) # Stage(p) /\ Stage(q) \in Names
      BY <2>1, StageName DEF Staging, StagingStates
    <2> QED
      BY <2>1, <2>2 DEF StagesAreWhole, At, Whole
  <1> QED
    BY <1>1, <1>2, <1>4, <1>5

LEMMA CopyEntry ==
    ASSUME EntryInv, NEW p \in Procs, \E f \in Files : Copy(p, f)
    PROVE  EntryInv'
  <1> USE DEF EntryInv
  <1>1. PICK f \in Files : Copy(p, f)
    OBVIOUS
  <1>2. UNCHANGED <<lock, lockStage, lockDirs, hist, source, commands, crashes>> /\ proc[p].pc = "copy"
    BY <1>1, CopyStep
  <1>3. Staging(p) /\ Agrees(proc[p])
    BY <1>2 DEF Staging, StagingStates, ProcsAgree
  <1>4. Stage(p) \in Names /\ proc[p].pkg \in Digests
    BY <1>3, StageName
  <1>5. CASE Same(p, "failed") /\ UNCHANGED <<dirs, held>>
    <2>1. Agrees(proc'[p]) /\ proc'[p].pc # "rename"
      BY <1>5 DEF Same, Now, Agrees, InstallStates, StagingStates
    <2>2. TypeOK'
      BY <1>2, <1>5 DEF TypeOK, Same, Now
    <2> QED
      BY <1>2, <1>5, <2>1, <2>2, QuietEntry DEF Same, Now, Quiet
  <1>6. ASSUME NEW x \in {"good", source[proc[p].pkg]}, NEW pc \in {"copy", "verify"},
               dirs' = dirs \cup {Stage(p)}, held' = [held EXCEPT ![Stage(p)] = @ \cup {<<f, x>>}],
               pc = "verify" => proc[p].copied \cup {f} = Files,
               Now(p, pc, proc[p].cmd, proc[p].todo, proc[p].pkg, proc[p].seq, proc[p].copied \cup {f})
        PROVE  EntryInv'
    <2>1. x \in {"good", "changed"}
      BY <1>4 DEF TypeOK
    <2>2. Agrees(proc'[p]) /\ proc'[p].pc # "rename"
      BY <1>2, <1>3, <1>6 DEF Now, Agrees, InstallStates, StagingStates
    <2>3. /\ \A n \in Names : n # Stage(p) => held'[n] = held[n] /\ (n \in dirs' <=> n \in dirs)
          /\ held' \in [Names -> SUBSET (Files \X {"good", "changed"})] /\ dirs' \subseteq Names
          /\ Stage(p) \in dirs'
      BY <1>4, <1>6, <2>1 DEF TypeOK
    <2> QED
      BY <1>2, <1>3, <1>6, <2>2, <2>3, OwnEntry DEF Now
  <1>7. CASE dirs' = dirs \cup {Stage(p)}
    <2>1. PICK x \in {"good", source[proc[p].pkg]} : held' = [held EXCEPT ![Stage(p)] = @ \cup {<<f, x>>}]
      BY <1>1, <1>7, <1>5, CopyStep
    <2>2. PICK pc \in {"copy", "verify"} :
             /\ pc = "verify" => proc[p].copied \cup {f} = Files
             /\ Now(p, pc, proc[p].cmd, proc[p].todo, proc[p].pkg, proc[p].seq, proc[p].copied \cup {f})
      BY <1>1, <1>7, CopyStep
    <2> QED
      BY <1>6, <1>7, <2>1, <2>2
  <1> QED
    BY <1>1, <1>5, <1>7, CopyStep

LEMMA VerifyEntry ==
    ASSUME EntryInv, NEW p \in Procs, CopyFails(p) \/ VerifyStage(p)
    PROVE  EntryInv'
  <1> USE DEF EntryInv
  <1>1. UNCHANGED <<lock, lockStage, lockDirs, hist, source, commands, crashes>> /\ Staging(p)
    BY VerifyStep DEF Staging, StagingStates
  <1>2. Stage(p) \in Names /\ Agrees(proc[p])
    BY <1>1, StageName DEF ProcsAgree
  <1>3. ASSUME NEW pc \in {"ioerror", "failed"}, Same(p, pc), Cleanup(p)
        PROVE  EntryInv'
    <2>1. Agrees(proc'[p]) /\ proc'[p].pc # "rename"
      BY <1>3 DEF Same, Now, Agrees, InstallStates, StagingStates
    <2>2. /\ \A n \in Names : n # Stage(p) => held'[n] = held[n] /\ (n \in dirs' <=> n \in dirs)
          /\ held' \in [Names -> SUBSET (Files \X {"good", "changed"})] /\ dirs' \subseteq Names
          /\ held'[Stage(p)] = {}
      BY <1>2, <1>3 DEF TypeOK, Cleanup
    <2> QED
      BY <1>1, <1>3, <2>1, <2>2, OwnEntry DEF Same, Now
  <1>4. CASE proc[p].pc = "verify" /\ Whole(Stage(p)) /\ Same(p, "rename") /\ UNCHANGED <<dirs, held>>
    <2>1. TypeOK'
      BY <1>1, <1>4 DEF TypeOK, Same, Now
    <2>2. ProcsAgree'
      BY <1>2, <1>4 DEF Same, Now, ProcsAgree, Agrees, InstallStates, StagingStates
    <2>3. OnlyDirsHold' /\ EntriesAreWhole'
      BY <1>1, <1>4 DEF OnlyDirsHold, EntriesAreWhole, Whole
    <2>4. StagesAreWhole'
      BY <1>1, <1>4 DEF Same, Now, StagesAreWhole, At, Stage, Whole
    <2> QED
      BY <2>1, <2>2, <2>3, <2>4
  <1> QED
    BY <1>3, <1>4, VerifyStep

LEMMA RenameEntry ==
    ASSUME EntryInv, NEW p \in Procs, Rename(p)
    PROVE  EntryInv'
  <1> USE DEF EntryInv
  <1> DEFINE d == proc[p].pkg
             n == Stage(p)
  <1>1. UNCHANGED <<lock, lockStage, lockDirs, source, commands, crashes>> /\ proc[p].pc = "rename"
    BY RenameStep
  <1>2. Staging(p) /\ Agrees(proc[p])
    BY <1>1 DEF Staging, StagingStates, ProcsAgree
  <1>3. n \in Names /\ n \notin Digests /\ d \in Digests /\ d \in Names /\ d # n
    BY <1>2, StageName
  <1>4. CASE Same(p, "lost") /\ Cleanup(p) /\ UNCHANGED hist
    <2>1. Agrees(proc'[p]) /\ proc'[p].pc # "rename"
      BY <1>1, <1>2, <1>4 DEF Same, Now, Agrees, InstallStates, StagingStates
    <2>2. /\ \A m \in Names : m # Stage(p) => held'[m] = held[m] /\ (m \in dirs' <=> m \in dirs)
          /\ held' \in [Names -> SUBSET (Files \X {"good", "changed"})] /\ dirs' \subseteq Names
          /\ held'[Stage(p)] = {}
      BY <1>3, <1>4 DEF TypeOK, Cleanup
    <2> QED
      BY <1>1, <1>2, <1>4, <2>1, <2>2, OwnEntry DEF Same, Now
  <1>5. CASE /\ n \in dirs /\ held[d] = {} /\ OnTo(p, d)
             /\ dirs' = (dirs \ {n}) \cup {d} /\ held' = [held EXCEPT ![d] = held[n], ![n] = {}]
             /\ hist' = [hist EXCEPT ![d] = IF hist[n] = "spoilt" THEN "spoilt" ELSE "clean"]
    <2>1. Agrees(proc'[p]) /\ proc'[p].pc # "rename" /\ proc' \in [Procs -> ProcType]
          /\ \A q \in Procs : q # p => proc'[q] = proc[q]
      BY <1>1, <1>2, <1>5 DEF OnTo, Now, Agrees, InstallStates, StagingStates
    <2>2. hist[n] # "spoilt" => held[n] = Files \X {"good"}
      BY <1>1, <1>5 DEF StagesAreWhole, At, Whole
    <2> HIDE DEF d, n
    <2>3. /\ held'[d] = held[n] /\ held'[n] = {} /\ d \in dirs' /\ n \notin dirs'
          /\ \A m \in Names : m # d /\ m # n => held'[m] = held[m] /\ hist'[m] = hist[m] /\ (m \in dirs' <=> m \in dirs)
          /\ hist'[d] # "spoilt" => hist[n] # "spoilt"
      BY <1>3, <1>5 DEF TypeOK
    <2>4. TypeOK'
      <3>1. dirs' \subseteq Names /\ held' \in [Names -> SUBSET (Files \X {"good", "changed"})]
        BY <1>3, <1>5 DEF TypeOK
      <3>2. hist' \in [Names -> {"clean", "spoilt", "removed"}]
        BY <1>3, <1>5 DEF TypeOK
      <3> QED
        BY <1>1, <2>1, <3>1, <3>2 DEF TypeOK
    <2>5. ProcsAgree'
      BY <2>1 DEF ProcsAgree, Agrees
    <2>6. OnlyDirsHold'
      BY <2>3 DEF OnlyDirsHold
    <2>7. EntriesAreWhole'
      BY <1>3, <2>2, <2>3 DEF EntriesAreWhole, Whole, Names
    <2>8. StagesAreWhole'
      <3> SUFFICES ASSUME NEW q \in Procs, proc'[q].pc = "rename", hist'[Stage(q)'] # "spoilt", Stage(q)' \in dirs'
                   PROVE  held'[Stage(q)'] = Files \X {"good"}
        BY DEF StagesAreWhole, At, Whole
      <3>1. q # p /\ proc'[q] = proc[q] /\ Stage(q)' = Stage(q)
        BY <2>1 DEF Stage
      <3>2. Stage(q) # n /\ Stage(q) \in Names /\ Stage(q) # d
        BY <1>2, <1>3, <3>1, StageName DEF Staging, StagingStates, n
      <3> QED
        BY <2>3, <3>1, <3>2 DEF StagesAreWhole, At, Whole
    <2> QED
      BY <2>4, <2>5, <2>6, <2>7, <2>8
  <1> QED
    BY <1>4, <1>5, RenameStep

LEMMA RemoveEntry ==
    ASSUME EntryInv, NEW p \in Procs, NEW n \in Names,
           RemoveDir(p, n) \/ \E x \in held[n] : RemoveFile(p, n, x)
    PROVE  EntryInv'
  <1> USE DEF EntryInv
  <1>1. /\ UNCHANGED <<lock, lockStage, lockDirs, source, commands, crashes>> /\ proc[p].pc = "remove"
        /\ proc' \in [Procs -> ProcType] /\ \A q \in Procs : q # p => proc'[q] = proc[q]
        /\ proc'[p].pc = "remove"
    BY RemoveStep DEF Now
  <1>2. /\ \A m \in Names : m # n => held'[m] = held[m] /\ hist'[m] = hist[m] /\ (m \in dirs' <=> m \in dirs)
        /\ hist'[n] # "spoilt" => n \notin dirs'
        /\ held'[n] # {} => n \in dirs'
        /\ dirs' \subseteq Names /\ held' \in [Names -> SUBSET (Files \X {"good", "changed"})]
        /\ hist' \in [Names -> {"clean", "spoilt", "removed"}]
    <2>1. CASE /\ held[n] = {} /\ dirs' = dirs \ {n} /\ UNCHANGED held
               /\ hist' = [hist EXCEPT ![n] = IF n \in dirs THEN "removed" ELSE @]
      BY <2>1 DEF TypeOK
    <2>2. CASE /\ hist' = [hist EXCEPT ![n] = "spoilt"] /\ UNCHANGED dirs
               /\ \E x \in held[n] : held' = [held EXCEPT ![n] = @ \ {x}]
      <3>1. held[n] # {} /\ n \in dirs
        BY <2>2 DEF OnlyDirsHold
      <3> QED
        BY <2>2, <3>1 DEF TypeOK
    <2> QED
      BY <2>1, <2>2, RemoveStep
  <1>3. TypeOK'
    BY <1>1, <1>2 DEF TypeOK
  <1>4. ProcsAgree'
    BY <1>1 DEF ProcsAgree, Agrees, InstallStates, StagingStates
  <1>5. OnlyDirsHold' /\ EntriesAreWhole'
    BY <1>2 DEF OnlyDirsHold, EntriesAreWhole, Whole, Names
  <1>6. StagesAreWhole'
    <2> SUFFICES ASSUME NEW q \in Procs, proc'[q].pc = "rename", hist'[Stage(q)'] # "spoilt", Stage(q)' \in dirs'
                 PROVE  held'[Stage(q)'] = Files \X {"good"}
      BY DEF StagesAreWhole, At, Whole
    <2>1. q # p /\ proc'[q] = proc[q] /\ Stage(q)' = Stage(q)
      BY <1>1 DEF Stage
    <2>2. Stage(q) # n /\ Stage(q) \in Names
      BY <1>2, <2>1, StageName DEF Staging, StagingStates
    <2> QED
      BY <1>2, <2>1, <2>2 DEF StagesAreWhole, At, Whole
  <1> QED
    BY <1>3, <1>4, <1>5, <1>6

LEMMA EntryStep ==
    ASSUME EntryInv, [Next]_vars
    PROVE  EntryInv'
  <1>1. CASE (\E d \in Digests : SourceChanges(d)) \/ UNCHANGED vars
    <2>1. UNCHANGED <<lock, lockStage, lockDirs, dirs, held, hist, proc, commands, crashes>>
      BY <1>1 DEF SourceChanges, vars, lockVars, storeVars
    <2>2. source' \in [Digests -> {"good", "changed"}]
      BY <1>1 DEF SourceChanges, vars, EntryInv, TypeOK
    <2> QED
      BY <2>1, <2>2 DEF EntryInv, TypeOK, ProcsAgree, Agrees, OnlyDirsHold, StagesAreWhole, EntriesAreWhole,
                        At, Stage, Whole
  <1> QED
    BY <1>1, StepCases, QuietStep, MakeEntry, CopyEntry, VerifyEntry, RenameEntry, RemoveEntry

LEMMA EntryInit == Init => EntryInv
  <1> SUFFICES ASSUME Init PROVE EntryInv
    OBVIOUS
  <1>1. \A p \in Procs : proc[p] = Idle
    BY DEF Init
  <1>2. proc \in [Procs -> ProcType]
    BY IdleFacts DEF Init
  <1>3. TypeOK
    BY <1>2, StoreAssumption DEF Init, TypeOK
  <1>4. ProcsAgree
    BY <1>1, IdleFacts DEF ProcsAgree, Agrees, InstallStates, StagingStates
  <1>5. OnlyDirsHold /\ EntriesAreWhole
    BY DEF Init, OnlyDirsHold, EntriesAreWhole
  <1>6. StagesAreWhole
    BY <1>1, IdleFacts DEF StagesAreWhole, At
  <1> QED
    BY <1>3, <1>4, <1>5, <1>6 DEF EntryInv

(* installPackageInCache publishes nothing but verified packages: whatever *)
(* stands under a digest is whole, whoever installs, resolves, prunes or   *)
(* is killed at the same time, unless a prune took some of its files.      *)
THEOREM EntriesStayWhole == Spec => []EntriesAreWhole
  <1>1. EntryInv => EntriesAreWhole
    BY DEF EntryInv
  <1> QED
    BY <1>1, EntryInit, EntryStep, PTL DEF Spec

-----------------------------------------------------------------------------
(* A fetch fails for a cause.                                              *)

(* What the invariant says of one process.                                 *)
Intact(p) ==
    (Staging(p) /\ hist[Stage(p)] = "clean") =>
        /\ Stage(p) \in dirs
        /\ source[proc[p].pkg] = "good" => held[Stage(p)] = proc[p].copied \X {"good"}
Sound(p) ==
    /\ At(p, "replace") => lockStage[p] = proc[p].todo
    /\ Intact(p)
    /\ At(p, "lost") => Whole(proc[p].pkg) \/ Excused(p)

LEMMA FetchParts ==
    FetchInv <=> EntryInv /\ lock # Torn /\ (\A p \in Procs : Sound(p)) /\ LeftoversAreCounted
  BY DEF FetchInv, LockIsWhole, StagesAreIntact, LostForACause, Sound, Intact

(* The names that are no staging name of p, and what a step of p leaves    *)
(* of them: what a prune takes is recorded.                                *)
Foreign(p) == {n \in Names : \A k \in 0 .. MaxSequence - 1 : n # <<p, k>>}
Spares(p) ==
    \A n \in Foreign(p) :
        /\ hist'[n] = "clean" => hist[n] = "clean" \/ (n \in Digests /\ Whole(n)')
        /\ (n \in Stages /\ hist'[n] = "clean") => held'[n] = held[n] /\ (n \in dirs => n \in dirs')
        /\ n \in Stages /\ n \in dirs' => n \in dirs
        /\ Whole(n) => Whole(n)' \/ hist'[n] # "clean"

LEMMA ForeignNames ==
    ASSUME TypeOK, NEW p \in Procs
    PROVE  /\ Digests \subseteq Foreign(p)
           /\ \A q \in Procs : (q # p /\ proc[q].seq > 0) => Stage(q) \in Foreign(p) /\ Stage(q) \in Stages
           /\ \A q \in Procs, k \in 0 .. MaxSequence - 1 : q # p => <<q, k>> \in Foreign(p) /\ <<q, k>> \in Stages
  <1>1. Digests \subseteq Foreign(p)
    BY NamesAssumption DEF Foreign, Names, Stages
  <1>2. ASSUME NEW q \in Procs, NEW k \in 0 .. MaxSequence - 1, q # p
        PROVE  <<q, k>> \in Foreign(p) /\ <<q, k>> \in Stages
    BY <1>2 DEF Foreign, Names, Stages
  <1>3. ASSUME NEW q \in Procs, q # p, proc[q].seq > 0
        PROVE  Stage(q) \in Foreign(p) /\ Stage(q) \in Stages
    <2>1. proc[q].seq - 1 \in 0 .. MaxSequence - 1
      BY <1>3, StoreAssumption DEF TypeOK, ProcType
    <2> QED
      BY <1>2, <1>3, <2>1 DEF Stage
  <1> QED
    BY <1>1, <1>2, <1>3

LEMMA ExcusedStays ==
    ASSUME TypeOK, NEW p \in Procs, NEW q \in Procs, q # p, proc'[q] = proc[q], source' = source, Spares(p), Excused(q)
    PROVE  Excused(q)' \/ Whole(proc[q].pkg)'
  <1>1. Stage(q)' = Stage(q)
    BY DEF Stage
  <1>2. /\ proc[q].pkg \in Foreign(p)
        /\ proc[q].seq > 0 => Stage(q) \in Foreign(p) /\ Stage(q) \notin Digests
    BY ForeignNames, NamesAssumption DEF Excused
  <1> QED
    BY <1>1, <1>2 DEF Excused, Spares, Whole

LEMMA OthersStaySound ==
    ASSUME EntryInv, NEW p \in Procs, NEW q \in Procs, q # p, Sound(q),
           proc'[q] = proc[q], lockStage'[q] = lockStage[q], source' = source, Spares(p)
    PROVE  Sound(q)'
  <1>1. TypeOK /\ Stage(q)' = Stage(q) /\ Agrees(proc[q])
    BY DEF Stage, EntryInv, ProcsAgree
  <1>2. Excused(q) => Excused(q)' \/ Whole(proc[q].pkg)'
    BY <1>1, ExcusedStays
  <1>3. Intact(q)'
    <2>1. SUFFICES ASSUME Staging(q)', hist'[Stage(q)'] = "clean"
                   PROVE  /\ Stage(q)' \in dirs'
                          /\ source'[proc'[q].pkg] = "good" => held'[Stage(q)'] = proc'[q].copied \X {"good"}
      BY DEF Intact
    <2>2. Staging(q) /\ proc[q].seq > 0
      BY <1>1, <2>1 DEF Staging, Agrees
    <2>3. Stage(q) \in Foreign(p) /\ Stage(q) \in Stages /\ Stage(q) \notin Digests
      BY <1>1, <2>2, ForeignNames, NamesAssumption
    <2> QED
      BY <1>1, <2>1, <2>2, <2>3 DEF Sound, Intact, Spares
  <1>4. At(q, "lost")' => Whole(proc[q].pkg)' \/ Excused(q)'
    <2>1. SUFFICES ASSUME At(q, "lost")', ~Excused(q)', ~Excused(q) PROVE Whole(proc[q].pkg)'
      BY <1>2
    <2>2. Whole(proc[q].pkg) /\ proc[q].pkg \in Digests /\ proc[q].pkg \in Foreign(p)
      BY <1>1, <1>2, <2>1, ForeignNames DEF Sound, At, Agrees, InstallStates
    <2>3. hist'[proc[q].pkg] = "clean"
      BY <2>1, <2>2 DEF Excused
    <2> QED
      BY <2>2, <2>3 DEF Spares, Whole
  <1> QED
    BY <1>3, <1>4 DEF Sound, At, Whole

(* A killed process leaves one staging directory behind, at most; every    *)
(* other step leaves none.                                                 *)
LEMMA LeftoversFinite ==
    ASSUME NEW p \in Procs
    PROVE  IsFiniteSet(Leftover(p)) /\ Cardinality(Leftover(p)) \in Nat
  <1>1. 0 \in Int /\ MaxSequence - 1 \in Int
    BY StoreAssumption
  <1>2. IsFiniteSet(0 .. MaxSequence - 1)
    BY <1>1, FS_Interval
  <1>3. Leftover(p) \in SUBSET (0 .. MaxSequence - 1)
    BY DEF Leftover
  <1> QED
    BY <1>2, <1>3, FS_Subset, FS_CardinalityType

LEMMA LeftoverStep ==
    ASSUME EntryInv, EntryInv', LeftoversAreCounted, NEW p \in Procs, Spares(p),
           \A q \in Procs : q # p => proc'[q] = proc[q],
           \/ crashes' = crashes /\ Leftover(p)' \subseteq Leftover(p)
           \/ crashes' = crashes + 1 /\ \E k : Leftover(p)' \subseteq Leftover(p) \cup {k}
    PROVE  LeftoversAreCounted'
  <1>1. crashes \in Nat /\ crashes' \in Nat /\ crashes' >= crashes
    BY DEF EntryInv, TypeOK
  <1>2. SUFFICES ASSUME NEW q \in Procs PROVE Cardinality(Leftover(q)') <= crashes'
    BY DEF LeftoversAreCounted
  <1>3. Cardinality(Leftover(q)) <= crashes
    BY DEF LeftoversAreCounted
  <1>4. IsFiniteSet(Leftover(q)) /\ Cardinality(Leftover(q)) \in Nat
    BY LeftoversFinite
  <1>5. ASSUME Leftover(q)' \subseteq Leftover(q) PROVE Cardinality(Leftover(q)') <= crashes'
    <2>1. IsFiniteSet(Leftover(q)') /\ Cardinality(Leftover(q)') <= Cardinality(Leftover(q))
      BY <1>4, <1>5, FS_Subset
    <2>2. Cardinality(Leftover(q)') \in Nat
      BY <2>1, FS_CardinalityType
    <2> QED
      BY <1>1, <1>3, <1>4, <2>1, <2>2
  <1>6. CASE q # p
    <2>1. \A k \in 0 .. MaxSequence - 1 : <<q, k>> \in dirs' => <<q, k>> \in dirs
      BY <1>6, ForeignNames DEF Spares, EntryInv
    <2>2. Leftover(q)' \subseteq Leftover(q)
      BY <1>6, <2>1 DEF Leftover, Staging
    <2> QED
      BY <1>5, <2>2
  <1>7. CASE q = p /\ crashes' = crashes + 1
    <2>1. PICK k : Leftover(q)' \subseteq Leftover(q) \cup {k}
      BY <1>7, <1>1
    <2>2. /\ IsFiniteSet(Leftover(q) \cup {k})
          /\ Cardinality(Leftover(q) \cup {k}) = IF k \in Leftover(q) THEN Cardinality(Leftover(q))
                                                   ELSE Cardinality(Leftover(q)) + 1
      BY <1>4, FS_AddElement
    <2>3. IsFiniteSet(Leftover(q)') /\ Cardinality(Leftover(q)') <= Cardinality(Leftover(q) \cup {k})
      BY <2>1, <2>2, FS_Subset
    <2>4. Cardinality(Leftover(q)') \in Nat
      BY <2>3, FS_CardinalityType
    <2> QED
      BY <1>1, <1>3, <1>4, <1>7, <2>2, <2>3, <2>4
  <1> QED
    BY <1>1, <1>5, <1>6, <1>7

(* No process fails without a cause in this step.                          *)
Excuses == \A q \in Procs : Caused(q)

LEMMA FetchKept ==
    ASSUME FetchInv, EntryInv', NEW p \in Procs, lock' # Torn, source' = source, Spares(p), Sound(p)', Caused(p),
           \A q \in Procs : q # p => proc'[q] = proc[q] /\ lockStage'[q] = lockStage[q],
           \/ crashes' = crashes /\ Leftover(p)' \subseteq Leftover(p)
           \/ crashes' = crashes + 1 /\ \E k : Leftover(p)' \subseteq Leftover(p) \cup {k}
    PROVE  FetchInv' /\ Excuses
  <1>1. EntryInv /\ LeftoversAreCounted /\ \A q \in Procs : Sound(q)
    BY FetchParts
  <1>2. LeftoversAreCounted'
    BY <1>1, LeftoverStep
  <1>3. \A q \in Procs : Sound(q)'
    BY <1>1, OthersStaySound
  <1>4. (FetchInv <=> EntryInv /\ lock # Torn /\ (\A q \in Procs : Sound(q)) /\ LeftoversAreCounted)'
    BY DEF FetchInv, LockIsWhole, StagesAreIntact, LostForACause, Sound, Intact
  <1>5. Excuses
    BY DEF Excuses, Caused
  <1> QED
    BY <1>2, <1>3, <1>4, <1>5

(* A step that leaves the store alone, of a process that stages nothing    *)
(* after it.                                                               *)
LEMMA QuietFetch ==
    ASSUME FetchInv, EntryInv', NEW p \in Procs, Quiet, lock' # Torn,
           \A q \in Procs : q # p => proc'[q] = proc[q] /\ lockStage'[q] = lockStage[q],
           proc'[p].pc \notin StagingStates \cup {"lost"},
           proc'[p].pc = "replace" => lockStage'[p] = proc'[p].todo,
           Caused(p),
           (~Staging(p) /\ crashes' = crashes) \/ crashes' = crashes + 1
    PROVE  FetchInv' /\ Excuses
  <1>1. Spares(p)
    BY DEF Spares, Quiet, Whole
  <1>2. Sound(p)'
    BY DEF Sound, Intact, Staging, At
  <1>3. Leftover(p)' \subseteq Leftover(p) \cup {proc[p].seq - 1}
    BY DEF Leftover, Quiet
  <1>4. ~Staging(p) => Leftover(p)' \subseteq Leftover(p)
    BY DEF Leftover, Quiet
  <1>5. source' = source
    BY DEF Quiet
  <1> QED
    BY <1>1, <1>2, <1>3, <1>4, <1>5, FetchKept DEF Caused

LEMMA QuietFetchStep ==
    ASSUME FetchInv, EntryInv', NEW p \in Procs,
           \/ \E g \in SUBSET Digests : Resolve(p, g)
           \/ Compare(p) \/ MakeLock(p) \/ WriteLock(p) \/ VerifyLock(p) \/ ReplaceLock(p) \/ FinishLock(p)
           \/ Fetch(p) \/ Verify(p) \/ Prune(p)
           \/ \E d \in Digests : Check(p, d)
           \/ Inspect(p) \/ Lost(p) \/ List(p) \/ Pruned(p) \/ Exit(p) \/ Crash(p)
    PROVE  FetchInv' /\ Excuses
  <1>1. TypeOK /\ ProcsAgree /\ EntriesAreWhole /\ lock # Torn /\ Sound(p)
    BY FetchParts DEF EntryInv
  <1>2. Agrees(proc[p]) /\ lockStage \in [Procs -> {Nothing, Torn} \cup SUBSET Digests]
    BY <1>1 DEF ProcsAgree, TypeOK
  <1>3. CASE \E g \in SUBSET Digests : Resolve(p, g)
    <2>1. PICK g \in SUBSET Digests : Resolve(p, g)
      BY <1>3
    <2>2. /\ Now(p, "compare", "resolve", g, Nothing, 0, {}) /\ Quiet
          /\ UNCHANGED <<lock, lockStage, lockDirs, crashes>> /\ proc[p].pc = "idle"
      BY <1>1, <2>1, ResolveStep
    <2> QED
      BY <1>1, <2>2, QuietFetch DEF Now, Staging, StagingStates, Caused
  <1>4. CASE Fetch(p) \/ Verify(p) \/ Prune(p)
    <2>1. /\ Quiet /\ UNCHANGED <<lock, lockStage, lockDirs, crashes>> /\ proc[p].pc = "idle"
          /\ \E cmd \in Commands, pc \in {"check", "list"} : Now(p, pc, cmd, lock, Nothing, 0, {})
      BY <1>1, <1>4, ReadStep
    <2> QED
      BY <1>1, <2>1, QuietFetch DEF Now, Staging, StagingStates, Caused
  <1>5. CASE Compare(p) \/ WriteLock(p) \/ VerifyLock(p) \/ ReplaceLock(p) \/ FinishLock(p)
    <2>1. /\ Quiet /\ UNCHANGED crashes
          /\ proc[p].pc \in {"compare", "writing", "written", "replace", "replaced"}
          /\ \E pc \in {"done", "write", "written", "replace", "replaced", "ioerror"} :
                /\ Same(p, pc)
                /\ pc = "replace" => lockStage[p] = proc[p].todo /\ UNCHANGED lockStage
          /\ \E x \in {Nothing, Torn, proc[p].todo} : lockStage' \in {lockStage, [lockStage EXCEPT ![p] = x]}
          /\ lock' = lock \/ (proc[p].pc = "replace" /\ lock' = lockStage[p])
      BY <1>1, <1>5, LockStep
    <2>2. proc[p].pc = "replace" => proc[p].todo \in SUBSET Digests
      BY <1>2, <2>1 DEF Agrees
    <2>3. lock' # Torn
      BY <1>1, <2>1, <2>2, StoreAssumption DEF Sound, At
    <2>4. \A q \in Procs : q # p => proc'[q] = proc[q] /\ lockStage'[q] = lockStage[q]
      BY <1>2, <2>1 DEF Same, Now
    <2>5. proc'[p].pc = "replace" => lockStage'[p] = proc'[p].todo
      BY <2>1 DEF Same, Now
    <2> QED
      BY <2>1, <2>3, <2>4, <2>5, QuietFetch DEF Same, Now, Staging, StagingStates, Caused
  <1>9. CASE MakeLock(p)
    <2>1. /\ Quiet /\ UNCHANGED <<lock, lockStage, commands, crashes>> /\ proc[p].pc = "write"
          /\ \E pc \in {"failed", "writing"}, seq \in 0 .. MaxSequence :
                Now(p, pc, proc[p].cmd, proc[p].todo, proc[p].pkg, seq, proc[p].copied)
      BY <1>1, <1>9, MakeLockStep
    <2>2. proc[p].cmd = "resolve"
      BY <1>2, <2>1 DEF Agrees
    <2> QED
      BY <1>1, <2>1, <2>2, QuietFetch DEF Now, Staging, StagingStates, Caused
  <1>6. CASE \E d \in Digests : Check(p, d)
    <2>1. PICK d \in Digests : Check(p, d)
      BY <1>6
    <2>2. Quiet /\ UNCHANGED <<lock, lockStage, lockDirs, commands, crashes>> /\ proc[p].pc = "check"
      BY <1>1, <2>1, CheckStep
    <2>3. CASE OnTo(p, d)
      BY <1>1, <2>2, <2>3, QuietFetch DEF OnTo, Now, Staging, StagingStates, Caused
    <2>4. ASSUME NEW pc \in {"inspect", "failed"}, ~Whole(d),
                 Now(p, pc, proc[p].cmd, proc[p].todo, d, proc[p].seq, proc[p].copied),
                 (pc = "failed" /\ proc[p].cmd = "fetch") => d \in dirs
          PROVE  FetchInv' /\ Excuses
      <3>1. (pc = "failed" /\ proc[p].cmd = "fetch") => hist[d] = "spoilt"
        BY <1>1, <2>4 DEF EntriesAreWhole
      <3>2. (proc'[p].pc = "failed" /\ proc'[p].cmd = "fetch") => Excused(p)'
        BY <2>2, <2>4, <3>1 DEF Now, Excused, Quiet
      <3> QED
        BY <1>1, <2>2, <2>4, <3>2, QuietFetch DEF Now, Staging, StagingStates, Caused
    <2> QED
      BY <1>1, <2>1, <2>3, <2>4, CheckStep
  <1>7. CASE Inspect(p) \/ Lost(p)
    <2>1. Quiet /\ UNCHANGED <<lock, lockStage, lockDirs, commands, crashes>> /\ proc[p].pc \in {"inspect", "lost"}
      BY <1>1, <1>7, InstallStep
    <2>2. proc[p].pkg \in Digests
      BY <1>2, <2>1 DEF Agrees, InstallStates
    <2>3. CASE OnTo(p, proc[p].pkg)
      BY <1>1, <2>1, <2>3, QuietFetch DEF OnTo, Now, Staging, StagingStates, Caused
    <2>4. CASE Same(p, "make")
      BY <1>1, <2>1, <2>4, QuietFetch DEF Same, Now, Staging, StagingStates, Caused
    <2>5. CASE /\ Same(p, "failed")
               /\ \/ source[proc[p].pkg] # "good"
                  \/ proc[p].pkg \in dirs /\ ~Whole(proc[p].pkg)
                  \/ proc[p].pc = "lost" /\ ~Whole(proc[p].pkg)
      <3>1. Excused(p)
        <4>1. CASE source[proc[p].pkg] # "good"
          BY <1>1, <2>2, <4>1 DEF Excused, TypeOK
        <4>2. CASE proc[p].pkg \in dirs /\ ~Whole(proc[p].pkg)
          BY <1>1, <2>2, <4>2 DEF Excused, EntriesAreWhole
        <4>3. CASE proc[p].pc = "lost" /\ ~Whole(proc[p].pkg)
          BY <1>1, <4>3 DEF Sound, At
        <4> QED
          BY <2>5, <4>1, <4>2, <4>3
      <3>2. Excused(p)'
        BY <2>1, <2>5, <3>1 DEF Same, Now, Excused, Quiet, Stage
      <3> QED
        BY <1>1, <2>1, <2>5, <3>2, QuietFetch DEF Same, Now, Staging, StagingStates, Caused
    <2> QED
      BY <1>1, <1>7, <2>3, <2>4, <2>5, InstallStep
  <1>8. CASE Pruned(p) \/ Exit(p) \/ Crash(p) \/ List(p)
    <2>1. /\ Quiet /\ UNCHANGED lock
          /\ lockStage' \in {lockStage, [lockStage EXCEPT ![p] = Nothing]}
          /\ (~Staging(p) /\ crashes' = crashes) \/ crashes' = crashes + 1
          /\ \/ Same(p, "done") \/ Same(p, "ioerror") \/ Ended(p)
             \/ \E todo \in SUBSET Names :
                   Now(p, "remove", proc[p].cmd, todo, proc[p].pkg, proc[p].seq, proc[p].copied)
      BY <1>1, <1>8, EndStep DEF Staging, StagingStates
    <2>2. /\ \A q \in Procs : q # p => proc'[q] = proc[q]
          /\ proc'[p].pc \in {"done", "ioerror", "idle", "remove"}
      BY <2>1 DEF Same, Ended, Now
    <2>3. \A q \in Procs : q # p => lockStage'[q] = lockStage[q]
      BY <1>2, <2>1
    <2> QED
      BY <1>1, <2>1, <2>2, <2>3, QuietFetch DEF StagingStates, Caused
  <1> QED
    BY <1>3, <1>4, <1>5, <1>6, <1>7, <1>8, <1>9

(* So many names are tried that one of them is free.                       *)
LEMMA NameIsFree ==
    ASSUME FetchInv, NEW p \in Procs, proc[p].pc = "make", proc[p].seq + MaxAttempts <= MaxSequence,
           MaxCrashes < MaxAttempts
    PROVE  \E k \in proc[p].seq .. proc[p].seq + MaxAttempts - 1 : <<p, k>> \notin dirs
  <1> DEFINE a == proc[p].seq
             b == a + MaxAttempts - 1
  <1>1. a \in 0 .. MaxSequence /\ crashes \in 0 .. MaxCrashes /\ Cardinality(Leftover(p)) <= crashes
    BY FetchParts DEF EntryInv, TypeOK, ProcType, LeftoversAreCounted
  <1>2. SUFFICES ASSUME \A k \in a .. b : <<p, k>> \in dirs PROVE FALSE
    OBVIOUS
  <1>3. a \in Int /\ b \in Int /\ a <= b /\ b - a + 1 = MaxAttempts /\ a .. b \subseteq 0 .. MaxSequence - 1
    BY <1>1, StoreAssumption
  <1>4. a .. b \in SUBSET Leftover(p)
    BY <1>2, <1>3 DEF Leftover, Staging, StagingStates
  <1>5. IsFiniteSet(Leftover(p)) /\ Cardinality(Leftover(p)) \in Nat
    BY LeftoversFinite
  <1>6. Cardinality(a .. b) <= Cardinality(Leftover(p))
    BY <1>4, <1>5, FS_Subset
  <1> HIDE DEF a, b
  <1>7. Cardinality(a .. b) = MaxAttempts
    BY <1>3, FS_Interval
  <1> QED
    BY <1>1, <1>5, <1>6, <1>7, StoreAssumption

LEMMA MakeFetch ==
    ASSUME FetchInv, EntryInv', NEW p \in Procs, MakeStage(p), MaxCrashes < MaxAttempts
    PROVE  FetchInv' /\ Excuses
  <1>1. TypeOK /\ ProcsAgree /\ OnlyDirsHold /\ lock # Torn
    BY FetchParts DEF EntryInv
  <1>2. /\ UNCHANGED <<lock, lockStage, lockDirs, held, source, commands, crashes>> /\ proc[p].pc = "make"
        /\ proc[p].seq + MaxAttempts <= MaxSequence
    BY <1>1, MakeStep
  <1>3. PICK k \in 0 .. MaxSequence - 1 :
           /\ <<p, k>> \notin dirs /\ dirs' = dirs \cup {<<p, k>>}
           /\ hist' = [hist EXCEPT ![<<p, k>>] = "clean"]
           /\ Now(p, "copy", proc[p].cmd, proc[p].todo, proc[p].pkg, k + 1, {})
    BY <1>1, <1>2, MakeStep, NameIsFree
  <1>4. /\ Stage(p)' = <<p, k>> /\ <<p, k>> \in Names /\ proc'[p].pc = "copy" /\ proc'[p].copied = {}
        /\ proc'[p].seq = k + 1
    BY <1>3 DEF Now, Stage, Names, Stages
  <1>5. Spares(p)
    BY <1>1, <1>2, <1>3 DEF Spares, Foreign, Whole, TypeOK
  <1>6. Sound(p)'
    <2>1. held[<<p, k>>] = {}
      BY <1>1, <1>3, <1>4 DEF OnlyDirsHold
    <2>2. Intact(p)'
      BY <1>2, <1>3, <1>4, <2>1 DEF Intact
    <2> QED
      BY <1>4, <2>2 DEF Sound, At
  <1>7. Leftover(p)' \subseteq Leftover(p)
    BY <1>2, <1>3, <1>4 DEF Leftover, Staging, StagingStates
  <1> QED
    BY <1>1, <1>2, <1>3, <1>5, <1>6, <1>7, FetchKept DEF Now, Caused

(* A step in which a process changes its own staging directory.            *)
LEMMA OwnSpares ==
    ASSUME TypeOK, ProcsAgree, NEW p \in Procs, Staging(p), UNCHANGED hist,
           \A n \in Names : n # Stage(p) => held'[n] = held[n] /\ (n \in dirs' <=> n \in dirs)
    PROVE  Spares(p)
  <1>1. \A n \in Foreign(p) : n \in Names /\ n # Stage(p)
    <2>1. Stage(p) \in Stages
      BY StageName
    <2> QED
      BY <2>1 DEF Foreign, Stage, Stages
  <1> QED
    BY <1>1 DEF Spares, Whole

LEMMA CopyFetch ==
    ASSUME FetchInv, EntryInv', NEW p \in Procs, NEW f \in Files, Copy(p, f)
    PROVE  FetchInv' /\ Excuses
  <1>1. TypeOK /\ ProcsAgree /\ lock # Torn /\ Sound(p)
    BY FetchParts DEF EntryInv
  <1>2. UNCHANGED <<lock, lockStage, lockDirs, hist, source, commands, crashes>> /\ proc[p].pc = "copy"
    BY <1>1, CopyStep
  <1>3. /\ Staging(p) /\ proc[p].seq > 0 /\ proc[p].pkg \in Digests
        /\ Stage(p) \in Names
    BY <1>1, <1>2, StageName DEF Staging, StagingStates, ProcsAgree, Agrees
  <1>4. CASE Stage(p) \notin dirs /\ Same(p, "failed") /\ UNCHANGED <<dirs, held>>
    <2>1. Excused(p)
      BY <1>1, <1>3, <1>4 DEF Sound, Intact, Excused
    <2>2. Excused(p)'
      BY <1>2, <1>4, <2>1 DEF Excused, Same, Now, Stage
    <2>3. Spares(p)
      BY <1>1, <1>2, <1>3, <1>4, OwnSpares
    <2>4. Sound(p)'
      BY <1>4, <2>2 DEF Same, Now, Sound, Intact, At, Staging, StagingStates
    <2>5. Leftover(p)' \subseteq Leftover(p)
      BY <1>4 DEF Leftover, Stage
    <2> QED
      BY <1>1, <1>2, <1>4, <2>2, <2>3, <2>4, <2>5, FetchKept DEF Same, Now, Caused
  <1>5. CASE dirs' = dirs \cup {Stage(p)}
    <2>1. PICK x \in {"good", source[proc[p].pkg]} : held' = [held EXCEPT ![Stage(p)] = @ \cup {<<f, x>>}]
      BY <1>1, <1>5, <1>4, CopyStep
    <2>2. PICK pc \in {"copy", "verify"} :
             /\ pc = "verify" => proc[p].copied \cup {f} = Files
             /\ Now(p, pc, proc[p].cmd, proc[p].todo, proc[p].pkg, proc[p].seq, proc[p].copied \cup {f})
      BY <1>1, <1>5, CopyStep
    <2>3. Spares(p)
      BY <1>1, <1>2, <1>3, <1>5, <2>1, OwnSpares DEF TypeOK
    <2>4. Stage(p)' = Stage(p) /\ Staging(p)'
      BY <2>2 DEF Now, Stage, Staging, StagingStates
    <2>5. Intact(p)'
      <3>1. held'[Stage(p)] = held[Stage(p)] \cup {<<f, x>>}
        BY <1>1, <1>3, <2>1 DEF TypeOK
      <3>2. (hist[Stage(p)] = "clean" /\ source[proc[p].pkg] = "good") =>
               held'[Stage(p)] = (proc[p].copied \cup {f}) \X {"good"}
        BY <1>1, <1>3, <3>1 DEF Sound, Intact
      <3> QED
        BY <1>2, <1>5, <2>2, <2>4, <3>2 DEF Intact, Now
    <2>6. Sound(p)'
      BY <2>2, <2>5 DEF Now, Sound, At
    <2>7. Leftover(p)' \subseteq Leftover(p)
      BY <1>3, <1>5, <2>2, <2>4 DEF Leftover, Stage, Now
    <2> QED
      BY <1>1, <1>2, <2>2, <2>3, <2>6, <2>7, FetchKept DEF Now, Caused
  <1> QED
    BY <1>1, <1>4, <1>5, CopyStep

LEMMA CleanupFacts ==
    ASSUME TypeOK, ProcsAgree, NEW p \in Procs, Staging(p), Cleanup(p), UNCHANGED hist, NEW pc, Same(p, pc)
    PROVE  Spares(p) /\ Leftover(p)' \subseteq Leftover(p)
  <1>1. Spares(p)
    BY StageName, OwnSpares DEF Cleanup, TypeOK
  <1>2. Leftover(p)' \subseteq Leftover(p)
    BY DEF Leftover, Cleanup, Stage, Same, Now
  <1> QED
    BY <1>1, <1>2

LEMMA VerifyFetch ==
    ASSUME FetchInv, EntryInv', NEW p \in Procs, CopyFails(p) \/ VerifyStage(p)
    PROVE  FetchInv' /\ Excuses
  <1>1. TypeOK /\ ProcsAgree /\ lock # Torn /\ Sound(p) /\ Agrees(proc[p])
    BY FetchParts DEF EntryInv, ProcsAgree
  <1>2. UNCHANGED <<lock, lockStage, lockDirs, hist, source, commands, crashes>> /\ Staging(p)
    BY <1>1, VerifyStep DEF Staging, StagingStates
  <1>3. proc[p].seq > 0 /\ proc[p].pkg \in Digests
    BY <1>1, <1>2, StageName DEF Staging, Agrees
  <1>4. CASE Same(p, "ioerror") /\ Cleanup(p)
    <2>1. Spares(p) /\ Leftover(p)' \subseteq Leftover(p)
      BY <1>1, <1>2, <1>4, CleanupFacts
    <2>2. Sound(p)'
      BY <1>4 DEF Same, Now, Sound, Intact, At, Staging, StagingStates
    <2> QED
      BY <1>1, <1>2, <1>4, <2>1, <2>2, FetchKept DEF Same, Now, Caused
  <1>5. CASE proc[p].pc = "verify" /\ ~Whole(Stage(p)) /\ Same(p, "failed") /\ Cleanup(p)
    <2>1. Spares(p) /\ Leftover(p)' \subseteq Leftover(p)
      BY <1>1, <1>2, <1>5, CleanupFacts
    <2>2. proc[p].copied = Files
      BY <1>1, <1>5 DEF Agrees
    <2>3. source[proc[p].pkg] # "good" => source[proc[p].pkg] = "changed"
      BY <1>1, <1>3 DEF TypeOK
    <2>4. Excused(p)
      BY <1>1, <1>2, <1>3, <1>5, <2>2, <2>3 DEF Sound, Intact, Excused, Whole
    <2>5. Excused(p)'
      BY <1>2, <1>5, <2>4 DEF Excused, Same, Now, Stage
    <2>6. Sound(p)'
      BY <1>5, <2>5 DEF Same, Now, Sound, Intact, At, Staging, StagingStates
    <2> QED
      BY <1>1, <1>2, <1>5, <2>1, <2>5, <2>6, FetchKept DEF Same, Now, Caused
  <1>6. CASE Same(p, "rename") /\ UNCHANGED <<dirs, held>>
    <2>1. Spares(p)
      BY <1>1, <1>2, <1>6, OwnSpares
    <2>2. Stage(p)' = Stage(p) /\ Staging(p)'
      BY <1>6 DEF Same, Now, Stage, Staging, StagingStates
    <2>3. Leftover(p)' \subseteq Leftover(p)
      BY <1>6, <2>2 DEF Leftover, Same, Now
    <2>4. Sound(p)'
      BY <1>1, <1>2, <1>6, <2>2 DEF Same, Now, Sound, Intact, At
    <2> QED
      BY <1>1, <1>2, <1>6, <2>1, <2>3, <2>4, FetchKept DEF Same, Now, Caused
  <1> QED
    BY <1>1, <1>4, <1>5, <1>6, VerifyStep

LEMMA EmptyIsNotWhole ==
    ASSUME NEW n, held[n] = {}
    PROVE  ~Whole(n)
  <1>1. <<Manifest, "good">> \in Files \X {"good"}
    BY StoreAssumption
  <1> QED
    BY <1>1 DEF Whole

LEMMA RenameFetch ==
    ASSUME FetchInv, EntryInv', NEW p \in Procs, Rename(p)
    PROVE  FetchInv' /\ Excuses
  <1> DEFINE d == proc[p].pkg
             n == Stage(p)
  <1>1. /\ TypeOK /\ ProcsAgree /\ EntriesAreWhole /\ OnlyDirsHold /\ lock # Torn /\ Sound(p)
        /\ Agrees(proc[p])
    BY FetchParts DEF EntryInv, ProcsAgree
  <1>2. UNCHANGED <<lock, lockStage, lockDirs, source, commands, crashes>> /\ proc[p].pc = "rename"
    BY <1>1, RenameStep
  <1>3. /\ Staging(p) /\ proc[p].seq > 0 /\ n \in Names /\ n \in Stages /\ n \notin Digests
        /\ d \in Digests /\ d \in Names /\ d # n /\ Stages \subseteq Names /\ d \notin Stages
    BY <1>1, <1>2, StageName, NamesAssumption DEF Staging, StagingStates, Agrees, Names
  <1>4. CASE (n \notin dirs \/ held[d] # {}) /\ Same(p, "lost") /\ Cleanup(p) /\ UNCHANGED hist
    <2>1. Spares(p) /\ Leftover(p)' \subseteq Leftover(p)
      BY <1>1, <1>3, <1>4, CleanupFacts
    <2>2. Whole(d) \/ Excused(p)
      BY <1>1, <1>3, <1>4 DEF Sound, Intact, Excused, EntriesAreWhole, OnlyDirsHold
    <2>3. Excused(p) => Excused(p)'
      BY <1>2, <1>4 DEF Excused, Same, Now, Stage
    <2>4. Whole(d) => Whole(d)'
      BY <1>1, <1>3, <1>4 DEF Whole, Cleanup, TypeOK, Same, Now
    <2>5. Sound(p)'
      BY <1>4, <2>2, <2>3, <2>4 DEF Same, Now, Sound, Intact, At, Staging, StagingStates
    <2> QED
      BY <1>1, <1>2, <1>4, <2>1, <2>5, FetchKept DEF Same, Now, Caused
  <1>5. CASE /\ n \in dirs /\ held[d] = {} /\ OnTo(p, d)
             /\ dirs' = (dirs \ {n}) \cup {d} /\ held' = [held EXCEPT ![d] = held[n], ![n] = {}]
             /\ hist' = [hist EXCEPT ![d] = IF hist[n] = "spoilt" THEN "spoilt" ELSE "clean"]
    <2>1. Spares(p)
      <3>1. \A m \in Foreign(p) : m \in Names /\ m # n
        BY <1>3 DEF Foreign, Stage, Stages
      <3>2. ~Whole(d)
        BY <1>5, EmptyIsNotWhole
      <3> HIDE DEF d, n
      <3>3. \A m \in Names : (m # d /\ m # n) =>
               held'[m] = held[m] /\ hist'[m] = hist[m] /\ (m \in dirs' <=> m \in dirs)
        BY <1>1, <1>3, <1>5 DEF TypeOK
      <3>4. d \in dirs' /\ (hist'[d] = "clean" => held'[d] = Files \X {"good"})
        BY <1>3, <1>5 DEF EntryInv, EntriesAreWhole, Whole
      <3> QED
        BY <1>3, <3>1, <3>2, <3>3, <3>4 DEF Spares, Whole
    <2>2. Sound(p)'
      BY <1>5 DEF OnTo, Now, Sound, Intact, At, Staging, StagingStates
    <2>3. Leftover(p)' \subseteq Leftover(p)
      <3>1. \A k \in 0 .. MaxSequence - 1 : <<p, k>> # d
        BY <1>3 DEF Stages
      <3> QED
        BY <1>5, <3>1 DEF Leftover, Stage
    <2> QED
      BY <1>1, <1>2, <1>5, <2>1, <2>2, <2>3, FetchKept DEF OnTo, Now, Caused
  <1> QED
    BY <1>1, <1>4, <1>5, RenameStep

LEMMA RemoveFetch ==
    ASSUME FetchInv, EntryInv', NEW p \in Procs, NEW n \in Names,
           RemoveDir(p, n) \/ \E x \in held[n] : RemoveFile(p, n, x)
    PROVE  FetchInv' /\ Excuses
  <1>1. TypeOK /\ lock # Torn
    BY FetchParts DEF EntryInv
  <1>2. /\ UNCHANGED <<lock, lockStage, lockDirs, source, commands, crashes>> /\ proc[p].pc = "remove"
        /\ proc' \in [Procs -> ProcType] /\ \A q \in Procs : q # p => proc'[q] = proc[q]
        /\ proc'[p].pc = "remove"
    BY <1>1, RemoveStep DEF Now
  <1>3. Sound(p)'
    BY <1>2 DEF Sound, Intact, At, Staging, StagingStates
  <1>4. CASE /\ held[n] = {} /\ dirs' = dirs \ {n} /\ UNCHANGED held
             /\ hist' = [hist EXCEPT ![n] = IF n \in dirs THEN "removed" ELSE @]
    <2>1. ~Whole(n)
      BY <1>4, EmptyIsNotWhole
    <2>2. /\ \A m \in Names : m # n => hist'[m] = hist[m]
          /\ hist'[n] = "clean" => hist[n] = "clean" /\ n \notin dirs
      BY <1>1, <1>4 DEF TypeOK
    <2>3. Spares(p)
      BY <1>4, <2>1, <2>2 DEF Spares, Foreign, Whole
    <2>4. Leftover(p)' \subseteq Leftover(p)
      BY <1>2, <1>4 DEF Leftover, Staging, StagingStates
    <2> QED
      BY <1>1, <1>2, <1>3, <2>3, <2>4, FetchKept DEF Caused
  <1>5. CASE /\ hist' = [hist EXCEPT ![n] = "spoilt"] /\ UNCHANGED dirs
             /\ \E x \in held[n] : held' = [held EXCEPT ![n] = @ \ {x}]
    <2>1. /\ \A m \in Names : m # n => hist'[m] = hist[m] /\ held'[m] = held[m]
          /\ hist'[n] = "spoilt"
      BY <1>1, <1>5 DEF TypeOK
    <2>2. Spares(p)
      BY <1>5, <2>1 DEF Spares, Foreign, Whole
    <2>3. Leftover(p)' \subseteq Leftover(p)
      BY <1>2, <1>5 DEF Leftover, Staging, StagingStates
    <2> QED
      BY <1>1, <1>2, <1>3, <2>2, <2>3, FetchKept DEF Caused
  <1> QED
    BY <1>1, <1>4, <1>5, RemoveStep

LEMMA FetchStep ==
    ASSUME FetchInv, [Next]_vars, MaxCrashes < MaxAttempts
    PROVE  FetchInv' /\ Excuses
  <1>1. EntryInv /\ EntryInv'
    BY EntryStep DEF FetchInv
  <1>2. CASE UNCHANGED vars
    BY <1>1, <1>2 DEF vars, lockVars, storeVars, FetchInv, LockIsWhole, StagesAreIntact, LostForACause,
                LeftoversAreCounted, Leftover, Excused, Staging, Stage, At, Whole, Excuses, Caused
  <1>3. ASSUME NEW d \in Digests, SourceChanges(d) PROVE FetchInv' /\ Excuses
    <2>1. UNCHANGED <<lock, lockStage, lockDirs, dirs, held, hist, proc, commands, crashes>>
      BY <1>3 DEF SourceChanges, lockVars, storeVars
    <2>2. \A e \in Digests : source[e] = "changed" => source'[e] = "changed"
      BY <1>1, <1>3 DEF SourceChanges, EntryInv, TypeOK
    <2>3. \A e \in Digests : source'[e] = "good" => source[e] = "good"
      BY <1>1, <1>3 DEF SourceChanges, EntryInv, TypeOK
    <2>4. LockIsWhole' /\ LeftoversAreCounted'
      BY <2>1 DEF FetchInv, LockIsWhole, LeftoversAreCounted, Leftover, Staging, At
    <2>5. LostForACause' /\ Excuses
      BY <2>1, <2>2 DEF FetchInv, LostForACause, Excused, Stage, At, Whole, Excuses, Caused
    <2>6. \A p \in Procs : Staging(p) => proc[p].pkg \in Digests
      BY <1>1, StageName DEF EntryInv
    <2>7. StagesAreIntact'
      BY <2>1, <2>3, <2>6 DEF FetchInv, StagesAreIntact, Staging, Stage
    <2> QED
      BY <1>1, <2>4, <2>5, <2>7 DEF FetchInv
  <1> QED
    BY <1>1, <1>2, <1>3, StepCases, QuietFetchStep, MakeFetch, CopyFetch, VerifyFetch, RenameFetch, RemoveFetch

LEMMA FetchInit == Init => FetchInv
  <1> SUFFICES ASSUME Init PROVE FetchInv
    OBVIOUS
  <1>1. \A p \in Procs : proc[p].pc = "idle"
    BY IdleFacts DEF Init
  <1>2. lock # Torn
    BY StoreAssumption DEF Init
  <1>3. \A p \in Procs : Sound(p)
    BY <1>1 DEF Sound, Intact, At, Staging, StagingStates
  <1>4. LeftoversAreCounted
    <2>1. \A p \in Procs : Leftover(p) = {}
      BY DEF Init, Leftover
    <2> QED
      BY <2>1, FS_EmptySet DEF LeftoversAreCounted, Init
  <1> QED
    BY <1>2, <1>3, <1>4, EntryInit, FetchParts

(* A fetch reports failure only because the registry's package changed or  *)
(* a prune took the entry or the staging directory away, never because of  *)
(* another installation or resolution: the lock it reads is never torn,    *)
(* the one who comes second finds what the first one published, and as     *)
(* long as fewer processes are killed than names are tried (100 in         *)
(* package_cache.cpp) what they left behind is passed over.                *)
THEOREM FetchesFailForACause ==
    ASSUME MaxCrashes < MaxAttempts
    PROVE  Spec => FetchFailsForACause
  <1>1. FetchInv /\ [Next]_vars => FetchInv'
    BY FetchStep
  <1>2. FetchInv /\ [Next]_vars => [\A p \in Procs : Caused(p)]_vars
    BY FetchStep DEF Excuses
  <1> QED
    BY <1>1, <1>2, FetchInit, PTL DEF Spec, FetchFailsForACause
=============================================================================
