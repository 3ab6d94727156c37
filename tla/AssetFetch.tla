----------------------------- MODULE AssetFetch -----------------------------
(***************************************************************************)
(* Fetching pinned files: main() of tools/fetch_simulator.py and           *)
(* install_llvm of tools/bootstrap_jammy_arm64.py, which share a protocol. *)
(* A file is downloaded to a .part name, hashed, renamed, hashed again and *)
(* used; what is there already is only hashed and used.  The hash of a     *)
(* call is that of upstream.lock, or of the index that install_llvm has    *)
(* downloaded: pinned means the file that it is the hash of.               *)
(*                                                                         *)
(* Calls may be made at the same time.  A name leads to a file and a       *)
(* download writes to the file that it opened, wherever a rename has put   *)
(* it since.  A call may be stopped anywhere and a server may send less    *)
(* than the file or something else: each of these counts as a fault.       *)
(***************************************************************************)
EXTENDS Integers, Sequences

CONSTANTS
    Caller,    \* processes that fetch the same files to the same place
    Assets,    \* how many files a call fetches, one after the other
    Blocks,    \* blocks of a file
    MaxFaults  \* bound on stopped calls and bad downloads

ASSUME AssetsAssumption == Assets \in Nat \ {0}
ASSUME BlocksAssumption == Blocks \in Nat \ {0}
ASSUME FaultsAssumption == MaxFaults \in Nat

Number == 1 .. Assets

\* Content of a file: its blocks, as far as it goes.
Absent == <<"absent">>
Pinned == [k \in 1 .. Blocks |-> "good"]

VARIABLES
    part,       \* content of each .part name
    target,     \* content of each asset
    pc,
    asset,      \* the file a call is at
    handle,     \* the name that leads to the file a call writes
    position,   \* blocks a call has written
    used,       \* contents that were unpacked or accepted, of each asset
    faults,
    overlapped  \* two calls were active at the same time (history)

files == <<part, target>>
vars == <<files, pc, asset, handle, position, used, faults, overlapped>>

Init ==
    /\ part = [n \in Number |-> Absent]
    /\ target = [n \in Number |-> Absent]
    /\ pc = [c \in Caller |-> "idle"]
    /\ asset = [c \in Caller |-> 1]
    /\ handle = [c \in Caller |-> "closed"]
    /\ position = [c \in Caller |-> 0]
    /\ used = [n \in Number |-> {}]
    /\ faults = 0
    /\ overlapped = FALSE

Active(c) == pc[c] \notin {"idle", "ok"}

Goto(c, here, there) == pc[c] = here /\ pc' = [pc EXCEPT ![c] = there]

\* An exception or SystemExit: what was written stays where it is.
Fail(c) ==
    /\ pc' = [pc EXCEPT ![c] = "idle"]
    /\ handle' = [handle EXCEPT ![c] = "closed"]

-----------------------------------------------------------------------------
\* A call, made for the first time or once more after one that failed.
Call(c) ==
    /\ Goto(c, "idle", "look")
    /\ asset' = [asset EXCEPT ![c] = 1]
    /\ overlapped' = (overlapped \/ \E d \in Caller : Active(d))
    /\ UNCHANGED <<files, handle, position, used, faults>>

\* if not target.exists()
Look(c) ==
    /\ pc[c] = "look"
    /\ pc' = [pc EXCEPT ![c] = IF target[asset[c]] = Absent THEN "open" ELSE "verify"]
    /\ UNCHANGED <<files, asset, handle, position, used, faults, overlapped>>

\* Faulty variant: the rest of an earlier download is kept.
OpenKeeping(c) ==
    /\ Goto(c, "open", "download")
    /\ part' = [part EXCEPT ![asset[c]] = IF @ = Absent THEN << >> ELSE @]
    /\ handle' = [handle EXCEPT ![c] = "part"]
    /\ position' = [position EXCEPT ![c] = Len(part'[asset[c]])]
    /\ UNCHANGED <<target, asset, used, faults, overlapped>>

\* urlretrieve opens the .part name for writing, which empties it.
Open(c) ==
    /\ Goto(c, "open", "download")
    /\ part' = [part EXCEPT ![asset[c]] = << >>]
    /\ handle' = [handle EXCEPT ![c] = "part"]
    /\ position' = [position EXCEPT ![c] = 0]
    /\ UNCHANGED <<target, asset, used, faults, overlapped>>

\* A file after a block has been written at a position.
Put(content, at, block) ==
    [k \in 1 .. (IF Len(content) > at THEN Len(content) ELSE at + 1) |->
        IF k = at + 1 THEN block ELSE IF k <= Len(content) THEN content[k] ELSE "hole"]

WriteBlock(c, block) ==
    LET n == asset[c] IN
    /\ pc[c] = "download"
    /\ position[c] < Blocks
    /\ position' = [position EXCEPT ![c] = @ + 1]
    /\ part' = IF handle[c] = "part"
                 THEN [part EXCEPT ![n] = Put(@, position[c], block)] ELSE part
    /\ target' = IF handle[c] = "target"
                   THEN [target EXCEPT ![n] = Put(@, position[c], block)] ELSE target
    /\ UNCHANGED <<pc, asset, handle, used, overlapped>>

GoodBlock(c) == WriteBlock(c, "good") /\ UNCHANGED faults

BadBlock(c) ==
    /\ faults < MaxFaults
    /\ faults' = faults + 1
    /\ WriteBlock(c, "bad")

\* The download is over, as far as the server is concerned.
EndDownload(c) ==
    /\ Goto(c, "download", "check")
    /\ handle' = [handle EXCEPT ![c] = "closed"]
    /\ \/ position[c] = Blocks /\ UNCHANGED faults
       \/ position[c] < Blocks /\ faults < MaxFaults /\ faults' = faults + 1
    /\ UNCHANGED <<files, asset, position, used, overlapped>>

\* Faulty variant: the download is not hashed before it gets its name.
CheckOmitted(c) ==
    /\ Goto(c, "check", "rename")
    /\ UNCHANGED <<files, asset, handle, position, used, faults, overlapped>>

\* partial.read_bytes() and its hash, by name.
Check(c) ==
    /\ pc[c] = "check"
    /\ IF part[asset[c]] = Pinned
         THEN pc' = [pc EXCEPT ![c] = "rename"] /\ UNCHANGED handle
         ELSE Fail(c)
    /\ UNCHANGED <<files, asset, position, used, faults, overlapped>>

\* Whoever writes to the renamed file goes on writing to it; the file that it
\* replaces loses its name.
Rename(c) ==
    LET n == asset[c] IN
    /\ pc[c] = "rename"
    /\ IF part[n] = Absent
         THEN Fail(c) /\ UNCHANGED files
         ELSE /\ pc' = [pc EXCEPT ![c] = "verify"]
              /\ target' = [target EXCEPT ![n] = part[n]]
              /\ part' = [part EXCEPT ![n] = Absent]
              /\ handle' = [d \in Caller |->
                   IF asset[d] # n \/ handle[d] = "closed" THEN handle[d]
                   ELSE IF handle[d] = "part" THEN "target" ELSE "unlinked"]
    /\ UNCHANGED <<asset, position, used, faults, overlapped>>

\* Faulty variant: a target that is there has been verified before.
VerifyOmitted(c) ==
    /\ Goto(c, "verify", "use")
    /\ UNCHANGED <<files, asset, handle, position, used, faults, overlapped>>

Verify(c) ==
    /\ pc[c] = "verify"
    /\ IF target[asset[c]] = Pinned
         THEN pc' = [pc EXCEPT ![c] = "use"] /\ UNCHANGED handle
         ELSE Fail(c)
    /\ UNCHANGED <<files, asset, position, used, faults, overlapped>>

\* The archive is read once more by dpkg-deb -x; fetch_simulator.py copies the
\* descriptor beside the library.
Use(c) ==
    /\ pc[c] = "use"
    /\ used' = [used EXCEPT ![asset[c]] = @ \cup {target[asset[c]]}]
    /\ IF asset[c] < Assets
         THEN /\ pc' = [pc EXCEPT ![c] = "look"]
              /\ asset' = [asset EXCEPT ![c] = @ + 1]
         ELSE pc' = [pc EXCEPT ![c] = "ok"] /\ UNCHANGED asset
    /\ UNCHANGED <<files, handle, position, faults, overlapped>>

\* The call is stopped, or a call of the network or the file system raises.
Stop(c) ==
    /\ Active(c)
    /\ faults < MaxFaults
    /\ faults' = faults + 1
    /\ Fail(c)
    /\ UNCHANGED <<files, asset, position, used, overlapped>>

-----------------------------------------------------------------------------
Work(c) ==
    \/ Call(c) \/ Look(c) \/ Open(c) \/ GoodBlock(c) \/ EndDownload(c)
    \/ Check(c) \/ Rename(c) \/ Verify(c) \/ Use(c)

Terminating ==
    /\ \A c \in Caller : pc[c] = "ok"
    /\ UNCHANGED vars

Next ==
    \/ \E c \in Caller : Work(c) \/ BadBlock(c) \/ Stop(c)
    \/ Terminating

Spec == Init /\ [][Next]_vars

\* A call goes on, and is made again when it failed; faults are bounded.
FairSpec == Spec /\ \A c \in Caller : WF_vars(Work(c))

-----------------------------------------------------------------------------
Writing == \E c \in Caller : handle[c] # "closed"

NothingSpoilt == \A n \in Number : target[n] \in {Absent, Pinned}

OneAtATime == \A c, d \in Caller : Active(c) /\ Active(d) => c = d

AtMostTwo == \A b, c, d \in Caller : b = c \/ c = d \/ b = d

\* "verify SHA-256 before use": as long as calls do not overlap, what has the
\* name of an asset, and what was unpacked, is the pinned file, wherever a call
\* was stopped and whatever the servers sent.  A download cut short is never
\* taken for the asset by the next call.
OnlyPinnedFiles ==
    ~overlapped => NothingSpoilt /\ \A n \in Number : used[n] \subseteq {Pinned}

\* Calls that overlap share a .part name, and one can empty the file another has
\* just hashed.  As long as nothing else goes wrong every file is whole again
\* when the last download ends, and the second hash of a call keeps a spoilt file
\* from being used if there is one other call.  With a second one it does not:
\* that one can empty what the other is about to rename, after the second hash.
OverlapHeals ==
    faults = 0 =>
        /\ Writing \/ NothingSpoilt
        /\ AtMostTwo => \A n \in Number : used[n] \subseteq {Pinned}

\* However calls were stopped, failed or overlapped before: once they are made
\* one at a time, one of them ends with everything in place, unless an overlap
\* has left a spoilt file under the name of an asset, which every later call
\* refuses and none replaces.
FetchSucceeds ==
    (<>[]OneAtATime /\ []<>NothingSpoilt) => <>(\E c \in Caller : pc[c] = "ok")

=============================================================================
