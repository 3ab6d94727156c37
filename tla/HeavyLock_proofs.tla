-------------------------- MODULE HeavyLock_proofs --------------------------
(***************************************************************************)
(* Exclusion, the shown owner and the leaks of HeavyLock, for every set of *)
(* wrappers and with every signal at every point.                          *)
(***************************************************************************)
EXTENDS HeavyLock, FiniteSetTheorems, TLAPS

-----------------------------------------------------------------------------
\* The inductive invariant, by what each part of the lock says of the others

\* Whoever is inside owns the directory.
HolderInv == \A w \in Wrapper : Holds(w) => dir = w

\* From the owner file on until release removes it, it names its writer.
OwnerInv ==
    \A w \in Wrapper :
        /\ pc[w] \in {"trap", "command", "wait", "release", "rm"} => owner = w
        /\ pc[w] = "rmdir" => owner = Nobody

\* A command that was not abandoned belongs to a wrapper that waits for it or was
\* killed; one that was has a wrapper on its way out, whose time is over.
RunningInv ==
    /\ \A w \in running \ abandoned :
         dir = w /\ owner = w /\ pc[w] \in {"wait", "stopped"}
    /\ \A w \in abandoned : pc[w] \in {"release", "rm", "rmdir", "end", "stopped"}

\* The directory is somebody's, or left by one who was stopped and whose it stays.
LeakInv ==
    /\ dir # Nobody => Holds(dir) \/ \E at \in Label : <<dir, at>> \in leaks
    /\ \A w \in Wrapper, at \in Label : <<w, at>> \in leaks => dir = w /\ pc[w] = "stopped"

LockInv == TypeOK /\ HolderInv /\ OwnerInv /\ RunningInv /\ LeakInv

-----------------------------------------------------------------------------
\* Nothing is held or running at the start.
LEMMA LockInit == Init => LockInv
BY NobodyAssumption
   DEF Init, LockInv, TypeOK, Label, HolderInv, OwnerInv, RunningInv, LeakInv, Holds

\* What a wrapper does by itself keeps the invariant.
LEMMA ScriptKeeps ==
    ASSUME LockInv, NEW w \in Wrapper, Script(w)
    PROVE  LockInv'
<1> USE NobodyAssumption
       DEF LockInv, TypeOK, HolderInv, OwnerInv, RunningInv, LeakInv, Holds, Label, Goto,
           stops
<1>1. CASE MakeLock(w)
  <2>1. owner = Nobody /\ running \subseteq abandoned
    BY <1>1 DEF MakeLock
  <2>2. TypeOK'
    BY <1>1, <2>1 DEF MakeLock
  <2>3. HolderInv'
    BY <1>1 DEF MakeLock
  <2>4. OwnerInv' /\ RunningInv'
    BY <1>1, <2>1 DEF MakeLock
  <2>5. LeakInv'
    BY <1>1 DEF MakeLock
  <2> QED BY <2>2, <2>3, <2>4, <2>5
<1>2. CASE Refuse(w)
  BY <1>2 DEF Refuse
<1>3. CASE Retry(w)
  BY <1>3 DEF Retry
<1>4. CASE RecordOwner(w)
  <2>1. dir = w /\ w \notin running \ abandoned
    BY <1>4 DEF RecordOwner
  <2>2. running \subseteq abandoned
    BY <2>1
  <2>3. TypeOK' /\ HolderInv' /\ RunningInv' /\ LeakInv'
    BY <1>4, <2>1, <2>2 DEF RecordOwner
  <2>4. OwnerInv'
    BY <1>4, <2>1 DEF RecordOwner
  <2> QED BY <2>3, <2>4
<1>5. CASE SetTraps(w)
  BY <1>5 DEF SetTraps
<1>6. CASE StartCommand(w)
  BY <1>6 DEF StartCommand
<1>7. CASE EnterRelease(w)
  BY <1>7 DEF EnterRelease
<1>8. CASE CheckOwner(w)
  <2>1. pc' = [pc EXCEPT ![w] = "rm"]
    BY <1>8 DEF CheckOwner, Mine
  <2> QED BY <1>8, <2>1 DEF CheckOwner
<1>9. CASE RemoveOwner(w)
  <2>1. dir = w /\ running \subseteq abandoned
    BY <1>9 DEF RemoveOwner
  <2>2. OwnerInv'
    BY <1>9, <2>1 DEF RemoveOwner
  <2> QED BY <1>9, <2>1, <2>2 DEF RemoveOwner
<1>10. CASE RemoveLock(w)
  <2>1. dir = w /\ owner = Nobody /\ running \subseteq abandoned
    BY <1>10 DEF RemoveLock
  <2>2. dir' = Nobody
    BY <1>10, <2>1 DEF RemoveLock
  <2> QED BY <1>10, <2>1, <2>2 DEF RemoveLock
<1> QED
  BY <1>1, <1>2, <1>3, <1>4, <1>5, <1>6, <1>7, <1>8, <1>9, <1>10 DEF Script

\* A wrapper that stops where it is leaves a lock that was its own, on record.
LEMMA StopLeaks ==
    ASSUME LockInv, NEW w \in Wrapper,
           pc[w] \notin {"end", "stopped"},
           pc' = [pc EXCEPT ![w] = "stopped"],
           leaks' = IF Holds(w) THEN leaks \cup {<<w, pc[w]>>} ELSE leaks,
           dir' = dir
    PROVE  LeakInv'
<1> USE NobodyAssumption DEF LockInv, TypeOK, HolderInv, LeakInv, Holds
<1>1. pc[w] \in Label
  OBVIOUS
<1>2. ASSUME NEW v \in Wrapper, NEW at \in Label, <<v, at>> \in leaks'
      PROVE  dir' = v /\ pc'[v] = "stopped"
  <2>1. CASE <<v, at>> \in leaks
    BY <2>1
  <2>2. CASE <<v, at>> \notin leaks
    <3>1. Holds(w) /\ <<v, at>> = <<w, pc[w]>>
      BY <1>2, <2>2
    <3>2. v = w
      BY <3>1
    <3> QED BY <3>1, <3>2
  <2> QED BY <2>1, <2>2
<1>3. ASSUME dir' # Nobody, ~Holds(dir)'
      PROVE  \E at \in Label : <<dir, at>>' \in leaks'
  <2>1. CASE dir = w
    <3>1. CASE Holds(w)
      BY <2>1, <3>1, <1>1
    <3>2. CASE ~Holds(w)
      BY <2>1, <3>2, <1>3
    <3> QED BY <3>1, <3>2
  <2>2. CASE dir # w
    BY <1>3, <2>2
  <2> QED BY <2>1, <2>2
<1> QED BY <1>2, <1>3

\* What stops a wrapper keeps the invariant, and so does the end of a command.
LEMMA StopKeeps ==
    ASSUME LockInv, NEW w \in Wrapper, Stop(w) \/ CommandEnds(w)
    PROVE  LockInv'
<1> USE NobodyAssumption
       DEF LockInv, TypeOK, HolderInv, OwnerInv, RunningInv, LeakInv, Holds, Label, Goto,
           stops
<1>1. CASE StopEarly(w)
  <2>1. leaks' \subseteq Wrapper \X Label
    <3>1. pc[w] \in Label
      OBVIOUS
    <3>2. <<w, pc[w]>> \in Wrapper \X Label
      BY <3>1
    <3> QED BY <1>1, <3>2 DEF StopEarly
  <2>2. TypeOK'
    BY <1>1, <2>1 DEF StopEarly
  <2>3. HolderInv' /\ OwnerInv' /\ RunningInv'
    BY <1>1 DEF StopEarly
  <2>4. LeakInv'
    BY <1>1, StopLeaks DEF StopEarly
  <2> QED BY <2>2, <2>3, <2>4
<1>2. CASE Signal(w)
  BY <1>2 DEF Signal
<1>3. CASE SignalFirst(w)
  BY <1>3 DEF SignalFirst
<1>4. CASE SignalLate(w)
  <2>1. leaks' \subseteq Wrapper \X Label
    <3>1. pc[w] \in Label
      OBVIOUS
    <3>2. <<w, pc[w]>> \in Wrapper \X Label
      BY <3>1
    <3> QED BY <1>4, <3>2 DEF SignalLate
  <2>2. TypeOK'
    BY <1>4, <2>1 DEF SignalLate
  <2>3. HolderInv' /\ OwnerInv' /\ RunningInv'
    BY <1>4 DEF SignalLate
  <2>4. LeakInv'
    BY <1>4, StopLeaks DEF SignalLate
  <2> QED BY <2>2, <2>3, <2>4
<1>5. CASE Killed(w)
  <2>1. leaks' \subseteq Wrapper \X Label
    <3>1. pc[w] \in Label
      OBVIOUS
    <3>2. <<w, pc[w]>> \in Wrapper \X Label
      BY <3>1
    <3> QED BY <1>5, <3>2 DEF Killed
  <2>2. TypeOK'
    BY <1>5, <2>1 DEF Killed
  <2>3. HolderInv' /\ OwnerInv' /\ RunningInv'
    BY <1>5 DEF Killed
  <2>4. LeakInv'
    BY <1>5, StopLeaks DEF Killed
  <2> QED BY <2>2, <2>3, <2>4
<1>6. CASE HangUp(w)
  <2>1. dir = w /\ running \ abandoned' = (running \ abandoned) \ {w}
    BY <1>6 DEF HangUp
  <2>2. RunningInv'
    BY <1>6, <2>1 DEF HangUp
  <2>3. TypeOK' /\ HolderInv' /\ OwnerInv' /\ LeakInv'
    BY <1>6 DEF HangUp
  <2> QED BY <2>2, <2>3
<1>7. CASE CommandEnds(w)
  BY <1>7 DEF CommandEnds
<1> QED
  BY <1>1, <1>2, <1>3, <1>4, <1>5, <1>6, <1>7 DEF Stop

\* The invariant of with-heavy-lock.sh holds in every reachable state.
THEOREM LockInvariance == Spec => []LockInv
<1>1. LockInv /\ [Next]_vars => LockInv'
  <2> SUFFICES ASSUME LockInv, [Next]_vars PROVE LockInv'
    OBVIOUS
  <2>1. CASE UNCHANGED vars
    BY <2>1 DEF vars, stops, LockInv, TypeOK, HolderInv, OwnerInv, RunningInv, LeakInv, Holds
  <2>2. CASE Terminating
    BY <2>1, <2>2 DEF Terminating
  <2>3. ASSUME NEW w \in Wrapper, Script(w) \/ CommandEnds(w) \/ Stop(w)
        PROVE  LockInv'
    BY <2>3, ScriptKeeps, StopKeeps
  <2> QED BY <2>1, <2>2, <2>3 DEF Next
<1> QED BY <1>1, LockInit, PTL DEF Spec

\* Beside commands whose wrapper was hung up, two never run together, for any
\* number of wrappers.
THEOREM Exclusion == Spec => []MutualExclusion
<1>1. LockInv => MutualExclusion
  <2> SUFFICES ASSUME LockInv PROVE Cardinality(running \ abandoned) <= 1
    BY DEF MutualExclusion
  <2>1. running \ abandoned = {} \/ \E w \in Wrapper : running \ abandoned = {w}
    BY DEF LockInv, TypeOK, RunningInv
  <2>2. CASE running \ abandoned = {}
    BY <2>2, FS_EmptySet
  <2>3. ASSUME NEW w \in Wrapper, running \ abandoned = {w}
        PROVE  Cardinality(running \ abandoned) <= 1
    BY <2>3, FS_Singleton
  <2> QED BY <2>1, <2>2, <2>3
<1> QED BY <1>1, LockInvariance, PTL

\* The owner that a refused user is shown is the wrapper of a command that
\* runs, abandoned ones apart.
THEOREM OwnerNamed == Spec => []OwnerShown
<1>1. LockInv => OwnerShown
  BY DEF LockInv, RunningInv, OwnerShown
<1> QED BY <1>1, LockInvariance, PTL

\* A wrapper that is over has left a lock exactly when it was stopped before the
\* traps, inside release or by Killed, and that lock is never freed again.
THEOREM LeaksNamed == Spec => []LeftExactlyByLeak
<1>1. LockInv => LeftExactlyByLeak
  BY NobodyAssumption DEF LockInv, TypeOK, LeakInv, LeftExactlyByLeak, Over, Holds
<1> QED BY <1>1, LockInvariance, PTL

=============================================================================
