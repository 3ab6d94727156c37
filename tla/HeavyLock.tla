----------------------------- MODULE HeavyLock -----------------------------
(***************************************************************************)
(* tools/with-heavy-lock.sh: wrappers that share one lock directory, each  *)
(* running one heavy command while it holds the lock.                      *)
(*                                                                         *)
(* A wrapper can be stopped at any point, and while no trap is set every   *)
(* signal ends it on the spot.  Afterwards SIGINT and SIGTERM, which have  *)
(* traps, wait until the foreground command has ended.  Signals without a  *)
(* trap of their own, such as SIGHUP when a terminal goes away, do not:    *)
(* bash runs the EXIT trap at once and dies, whatever the command does.  A *)
(* signal inside the EXIT trap does not run that trap again.  SIGKILL ends *)
(* the wrapper anywhere and leaves its command running.                    *)
(***************************************************************************)
EXTENDS Integers, FiniteSets

CONSTANT Wrapper   \* invocations of with-heavy-lock.sh

Nobody == "nobody"

ASSUME NobodyAssumption == Nobody \notin Wrapper

VARIABLES
    dir,        \* the wrapper that made .heavy-build.lock, or Nobody
    owner,      \* the first line of .heavy-build.lock/owner, or Nobody
    pc,
    running,    \* wrappers whose command is alive
    pending,    \* wrappers with a signal that waits for the command to end
    abandoned,  \* wrappers that let the lock go ahead of their command (history)
    leaks       \* <<wrapper, where>>: stopped while it held the lock (history)

stops == <<pending, abandoned, leaks>>
vars == <<dir, owner, pc, running, stops>>

Init ==
    /\ dir = Nobody
    /\ owner = Nobody
    /\ pc = [w \in Wrapper |-> "mkdir"]
    /\ running = {}
    /\ pending = {}
    /\ abandoned = {}
    /\ leaks = {}

Goto(w, here, there) == pc[w] = here /\ pc' = [pc EXCEPT ![w] = there]

-----------------------------------------------------------------------------
\* The script

\* Faulty variant: mkdir -p, which does not fail on a directory that is there.
MakeLockAnyway(w) ==
    /\ Goto(w, "mkdir", "record")
    /\ dir' = w
    /\ UNCHANGED <<owner, running, stops>>

\* mkdir either makes the directory or fails, in one step.
MakeLock(w) ==
    /\ dir = Nobody
    /\ Goto(w, "mkdir", "record")
    /\ dir' = w
    /\ UNCHANGED <<owner, running, stops>>

\* exit 75, before any trap is set and before the command.
Refuse(w) ==
    /\ dir # Nobody
    /\ Goto(w, "mkdir", "refused")
    /\ UNCHANGED <<dir, owner, running, stops>>

\* "wait for the other build to finish and retry"
Retry(w) ==
    /\ Goto(w, "refused", "mkdir")
    /\ UNCHANGED <<dir, owner, running, stops>>

RecordOwner(w) ==
    /\ Goto(w, "record", "trap")
    /\ owner' = w
    /\ UNCHANGED <<dir, running, stops>>

\* trap release EXIT; from here on every end of the script calls release.
SetTraps(w) ==
    /\ Goto(w, "trap", "command")
    /\ UNCHANGED <<dir, owner, running, stops>>

StartCommand(w) ==
    /\ Goto(w, "command", "wait")
    /\ running' = running \cup {w}
    /\ UNCHANGED <<dir, owner, stops>>

CommandEnds(w) ==
    /\ w \in running
    /\ running' = running \ {w}
    /\ UNCHANGED <<dir, owner, pc, stops>>

\* Faulty variant: the traps of SIGINT and SIGTERM do not wait for the command.
EnterReleaseAtOnce(w) ==
    /\ Goto(w, "wait", "release")
    /\ pending' = pending \ {w}
    /\ UNCHANGED <<dir, owner, running, abandoned, leaks>>

\* The script ends, by itself or by the trap of a pending signal, and bash
\* calls release.
EnterRelease(w) ==
    /\ w \notin running
    /\ Goto(w, "wait", "release")
    /\ pending' = pending \ {w}
    /\ UNCHANGED <<dir, owner, running, abandoned, leaks>>

\* Faulty variant: the whole owner file is compared with the first line.
MineNever(w) == owner = <<w, "purpose">>

Mine(w) == owner = w

CheckOwner(w) ==
    /\ pc[w] = "release"
    /\ pc' = [pc EXCEPT ![w] = IF Mine(w) THEN "rm" ELSE "end"]
    /\ UNCHANGED <<dir, owner, running, stops>>

RemoveOwner(w) ==
    /\ Goto(w, "rm", "rmdir")
    /\ owner' = Nobody
    /\ UNCHANGED <<dir, running, stops>>

\* Faulty variant: rmdir finds the directory not empty.
RemoveLockFailing(w) ==
    /\ Goto(w, "rmdir", "end")
    /\ dir' = dir
    /\ UNCHANGED <<owner, running, stops>>

\* rmdir refuses a directory that is not empty.
RemoveLock(w) ==
    /\ Goto(w, "rmdir", "end")
    /\ dir' = IF owner = Nobody THEN Nobody ELSE dir
    /\ UNCHANGED <<owner, running, stops>>

-----------------------------------------------------------------------------
\* What stops a wrapper

Holds(w) == pc[w] \in {"record", "trap", "command", "wait", "release", "rm", "rmdir"}

\* A signal, or set -e after a printf that failed, before the traps.
StopEarly(w) ==
    /\ pc[w] \in {"mkdir", "record", "trap"}
    /\ pc' = [pc EXCEPT ![w] = "stopped"]
    /\ leaks' = IF Holds(w) THEN leaks \cup {<<w, pc[w]>>} ELSE leaks
    /\ UNCHANGED <<dir, owner, running, pending, abandoned>>

\* SIGINT or SIGTERM that finds the traps set and the command running.
Signal(w) ==
    /\ pc[w] = "wait" /\ w \notin pending
    /\ pending' = pending \cup {w}
    /\ UNCHANGED <<dir, owner, pc, running, abandoned, leaks>>

\* SIGHUP or another signal that ends bash and has no trap here, while the script
\* waits: the EXIT trap runs at once.  The command may go on.
HangUp(w) ==
    /\ Goto(w, "wait", "release")
    /\ pending' = pending \ {w}
    /\ abandoned' = abandoned \cup ({w} \cap running)
    /\ UNCHANGED <<dir, owner, running, leaks>>

\* A signal before the command is started: the script ends, through release.
SignalFirst(w) ==
    /\ Goto(w, "command", "release")
    /\ UNCHANGED <<dir, owner, running, stops>>

\* A signal during release: the script ends, and the rest of release is lost.
SignalLate(w) ==
    /\ pc[w] \in {"release", "rm", "rmdir"}
    /\ pc' = [pc EXCEPT ![w] = "stopped"]
    /\ leaks' = leaks \cup {<<w, pc[w]>>}
    /\ UNCHANGED <<dir, owner, running, pending, abandoned>>

\* SIGKILL, or a signal without a trap on top of a pending one, after which bash
\* may die without the EXIT trap.
Killed(w) ==
    /\ pc[w] \in {"command", "wait"}
    /\ pc' = [pc EXCEPT ![w] = "stopped"]
    /\ leaks' = leaks \cup {<<w, pc[w]>>}
    /\ pending' = pending \ {w}
    /\ UNCHANGED <<dir, owner, running, abandoned>>

-----------------------------------------------------------------------------
Over(w) == pc[w] \in {"end", "stopped"}

Script(w) ==
    \/ MakeLock(w) \/ Refuse(w) \/ Retry(w) \/ RecordOwner(w) \/ SetTraps(w)
    \/ StartCommand(w) \/ EnterRelease(w)
    \/ CheckOwner(w) \/ RemoveOwner(w) \/ RemoveLock(w)

Stop(w) ==
    \/ StopEarly(w) \/ Signal(w) \/ HangUp(w)
    \/ SignalFirst(w) \/ SignalLate(w) \/ Killed(w)

Terminating ==
    /\ \A w \in Wrapper : Over(w)
    /\ running = {}
    /\ UNCHANGED vars

Next ==
    \/ \E w \in Wrapper : Script(w) \/ CommandEnds(w) \/ Stop(w)
    \/ Terminating

Spec == Init /\ [][Next]_vars

\* Scripts run, commands end, and whoever is refused tries again.
FairSpec ==
    Spec /\ \A w \in Wrapper : WF_vars(Script(w)) /\ WF_vars(CommandEnds(w))

-----------------------------------------------------------------------------
Label ==
    {"mkdir", "refused", "record", "trap", "command", "wait", "release", "rm",
     "rmdir", "end", "stopped"}

\* Every variable stays in its type; only the maker of the lock is named in it.
TypeOK ==
    /\ dir \in Wrapper \cup {Nobody}
    /\ owner \in {dir, Nobody}
    /\ pc \in [Wrapper -> Label]
    /\ running \subseteq Wrapper
    /\ pending \subseteq Wrapper
    /\ abandoned \subseteq Wrapper
    /\ leaks \subseteq Wrapper \X Label

\* Only a hang-up lets heavy commands overlap: beside the commands whose wrapper
\* was hung up, however many, at most one runs.  SIGINT, SIGTERM and SIGKILL are
\* safe at any point, and so is a hang-up that finds no command running.
MutualExclusion == Cardinality(running \ abandoned) <= 1

\* While such a command runs, the lock is there and names the wrapper of that very
\* command, which is what a refused user is shown, whatever an abandoned one does.
OwnerShown == \A w \in running \ abandoned : dir = w /\ owner = w

\* docs/environment.md: "The lock wrapper serializes large downloads and builds on
\* a shared host": no two heavy commands run together, whatever signal a wrapper gets.
HeavySerial == Cardinality(running) <= 1

\* A wrapper that is over has left the lock behind exactly when it was stopped
\* before its traps were set, inside release, or by Killed; every other signal while
\* its command runs lets release do its work.  A lock left so stays for good: what
\* docs/running.md tells who finds it, "wait for the other build to finish and
\* retry", does not help.
LeftExactlyByLeak ==
    \A w \in Wrapper : Over(w) /\ dir = w <=> \E at \in Label : <<w, at>> \in leaks

\* docs/running.md: "wait for the other build to finish and retry": unless a
\* wrapper is stopped while it holds the lock, everyone who retries is served.
RetryServed == <>(leaks # {} \/ \A w \in Wrapper : Over(w))

=============================================================================
