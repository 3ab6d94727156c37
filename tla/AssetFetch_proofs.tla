-------------------------- MODULE AssetFetch_proofs --------------------------
(***************************************************************************)
(* What a call of the fetch scripts uses, for any number of callers, files *)
(* and blocks: the pinned files as long as calls do not overlap, wherever  *)
(* they are stopped and whatever servers send; and, when they do overlap,  *)
(* what the files look like once nobody writes any more.                   *)
(***************************************************************************)
EXTENDS AssetFetch, TLAPS

-----------------------------------------------------------------------------
\* The inductive invariant

Label == {"idle", "look", "open", "download", "check", "rename", "verify", "use", "ok"}
Handle == {"closed", "part", "target", "unlinked"}
Block == {"good", "bad", "hole"}

FetchTypes ==
    /\ part \in [Number -> {Absent} \cup Seq(Block)]
    /\ target \in [Number -> {Absent} \cup Seq(Block)]
    /\ pc \in [Caller -> Label]
    /\ asset \in [Caller -> Number]
    /\ handle \in [Caller -> Handle]
    /\ position \in [Caller -> 0 .. Blocks]
    /\ used \in [Number -> SUBSET ({Absent} \cup Seq(Block))]
    /\ faults \in Nat
    /\ overlapped \in BOOLEAN

\* A file is open during a download and only then, and has a name or is unlinked.
HandleInv ==
    \A c \in Caller :
        /\ handle[c] = "closed" <=> pc[c] # "download"
        /\ handle[c] = "part" => part[asset[c]] # Absent
        /\ handle[c] = "target" => target[asset[c]] # Absent

\* Calls made one after the other: what has been hashed is what is there, and
\* what is written has no asset's name.
AloneInv ==
    ~overlapped =>
        /\ OneAtATime
        /\ \A c \in Caller :
             /\ handle[c] \in {"closed", "part"}
             /\ pc[c] = "rename" => part[asset[c]] = Pinned
             /\ pc[c] = "use" => target[asset[c]] = Pinned
        /\ NothingSpoilt
        /\ \A n \in Number : used[n] \subseteq {Pinned}

\* What is missing of a file, somebody is about to write.
Covered(n, name, content) ==
    content # Absent =>
        /\ Len(content) <= Blocks
        /\ \A k \in 1 .. Blocks :
             \/ k <= Len(content) /\ content[k] = "good"
             \/ \E c \in Caller : asset[c] = n /\ handle[c] = name /\ position[c] < k

\* Calls that overlap without a fault.
OverlapInv ==
    faults = 0 =>
        /\ \A n \in Number : Covered(n, "part", part[n]) /\ Covered(n, "target", target[n])
        /\ AtMostTwo =>
             /\ \A c \in Caller : pc[c] = "use" => target[asset[c]] = Pinned
             /\ \A n \in Number : used[n] \subseteq {Pinned}

FetchInv == FetchTypes /\ HandleInv /\ AloneInv /\ OverlapInv

-----------------------------------------------------------------------------
\* Contents

\* No file is told apart from every content, and the pinned file is one.
LEMMA AbsentIsNoContent == Absent \notin Seq(Block) /\ Pinned \in Seq(Block) /\ Len(Pinned) = Blocks
<1>1. Absent \notin Seq(Block)
  BY DEF Absent, Block
<1>2. Pinned \in Seq(Block) /\ Len(Pinned) = Blocks
  BY BlocksAssumption DEF Pinned, Block
<1> QED
  BY <1>1, <1>2

\* Writing a block leaves a content with that block, the others as they were and
\* holes where nobody has written.
LEMMA PutContent ==
    \A f \in Seq(Block), at \in Nat, block \in Block :
        LET p == Put(f, at, block) IN
        /\ p \in Seq(Block) /\ p # Absent /\ p[at + 1] = block
        /\ Len(f) > at => Len(p) = Len(f)
        /\ Len(f) <= at => Len(p) = at + 1
        /\ \A k \in 1 .. Len(f) : k # at + 1 => p[k] = f[k]
<1> TAKE f \in Seq(Block), at \in Nat, block \in Block
<1> DEFINE n == IF Len(f) > at THEN Len(f) ELSE at + 1
<1>1. /\ n \in Nat /\ at + 1 \in 1 .. n /\ 1 .. Len(f) \subseteq 1 .. n
  OBVIOUS
<1>2. \A k \in 1 .. n :
        (IF k = at + 1 THEN block ELSE IF k <= Len(f) THEN f[k] ELSE "hole") \in Block
  BY DEF Block
<1>3. Put(f, at, block) \in Seq(Block) /\ Len(Put(f, at, block)) = n
  BY <1>1, <1>2 DEF Put
<1>4. /\ Put(f, at, block)[at + 1] = block
      /\ \A k \in 1 .. Len(f) : k # at + 1 => Put(f, at, block)[k] = f[k]
  BY <1>1 DEF Put
<1>5. /\ Len(f) > at => n = Len(f)
      /\ Len(f) <= at => n = at + 1
  OBVIOUS
<1> HIDE DEF n
<1> QED
  BY <1>3, <1>4, <1>5, AbsentIsNoContent

\* A file is whole when nobody is left to write to it.
LEMMA WholeWhenClosed ==
    ASSUME FetchTypes, NEW n \in Number, NEW name \in Handle,
           NEW f \in {Absent} \cup Seq(Block), Covered(n, name, f),
           \A c \in Caller : asset[c] = n => handle[c] # name
    PROVE  f \in {Absent, Pinned}
<1> SUFFICES ASSUME f # Absent PROVE f = Pinned
  OBVIOUS
<1>1. f \in Seq(Block) /\ Len(f) <= Blocks /\ \A k \in 1 .. Blocks : k <= Len(f) /\ f[k] = "good"
  BY DEF Covered
<1>2. Len(f) = Blocks
  BY <1>1, BlocksAssumption
<1> QED
  BY <1>1, <1>2, BlocksAssumption DEF Pinned

\* What is about to be written still is, if who writes it goes on.
LEMMA CoveredKept ==
    ASSUME NEW n, NEW name, NEW f, Covered(n, name, f),
           \A d \in Caller : asset[d] = n /\ handle[d] = name =>
              asset'[d] = n /\ handle'[d] = name /\ position'[d] = position[d]
    PROVE  Covered(n, name, f)'
  BY DEF Covered

\* The only call at work.
LEMMA OnlyOne ==
    ASSUME FetchTypes, HandleInv, AloneInv, ~overlapped, NEW c \in Caller, Active(c)
    PROVE  \A d \in Caller \ {c} : pc[d] \in {"idle", "ok"} /\ handle[d] = "closed"
  BY DEF AloneInv, OneAtATime, Active, HandleInv

-----------------------------------------------------------------------------
\* Every step of a call

\* A call that overlaps another one is remembered.
LEMMA CallStep ==
    ASSUME FetchInv, NEW c \in Caller, Call(c)
    PROVE  FetchInv'
<1> USE AssetsAssumption, BlocksAssumption, FaultsAssumption, AbsentIsNoContent
    DEF FetchInv, Call, Goto, files, Number
<1>1. FetchTypes'
  BY DEF FetchTypes, Label, Handle
<1>2. HandleInv'
  BY DEF FetchTypes, HandleInv, Label, Handle
<1>3. AloneInv'
  BY DEF FetchTypes, HandleInv, AloneInv, OneAtATime, Active, NothingSpoilt, Label, Handle
<1>4. OverlapInv'
  <2> SUFFICES ASSUME faults = 0 PROVE OverlapInv'
    BY DEF OverlapInv, FetchTypes
  <2>1. \A n \in Number : Covered(n, "part", part[n])' /\ Covered(n, "target", target[n])'
    <3>1. handle[c] = "closed"
      BY DEF HandleInv
    <3>2. \A d \in Caller : handle[d] # "closed" => asset'[d] = asset[d]
      BY <3>1 DEF FetchTypes
    <3> QED
      BY <3>2, CoveredKept DEF OverlapInv
  <2>2. AtMostTwo => /\ \A d \in Caller : pc'[d] = "use" => target'[asset'[d]] = Pinned
                     /\ \A n \in Number : used'[n] \subseteq {Pinned}
    BY DEF OverlapInv, FetchTypes
  <2> QED
    BY <2>1, <2>2 DEF OverlapInv
<1> QED
  BY <1>1, <1>2, <1>3, <1>4

\* What is there already is not downloaded.
LEMMA LookStep ==
    ASSUME FetchInv, NEW c \in Caller, Look(c)
    PROVE  FetchInv'
<1> USE AssetsAssumption, BlocksAssumption, FaultsAssumption, AbsentIsNoContent
    DEF FetchInv, Look, Goto, files, Number
<1>1. FetchTypes'
  BY DEF FetchTypes, Label, Handle
<1>2. HandleInv'
  BY DEF FetchTypes, HandleInv, Label, Handle
<1>3. AloneInv'
  BY DEF FetchTypes, HandleInv, AloneInv, OneAtATime, Active, NothingSpoilt, Label, Handle
<1>4. OverlapInv'
  BY DEF FetchTypes, HandleInv, OverlapInv, Covered, Label, Handle
<1> QED
  BY <1>1, <1>2, <1>3, <1>4

\* An empty file lacks everything.
LEMMA OpenStep ==
    ASSUME FetchInv, NEW c \in Caller, Open(c)
    PROVE  FetchInv'
<1> USE AssetsAssumption, BlocksAssumption, FaultsAssumption, AbsentIsNoContent
    DEF FetchInv, Open, Goto, files, Number
<1>1. FetchTypes'
  BY DEF FetchTypes, Label, Handle
<1>2. HandleInv'
  <2>1. /\ part' = [part EXCEPT ![asset[c]] = << >>] /\ asset[c] \in Number /\ << >> # Absent
        /\ handle' = [handle EXCEPT ![c] = "part"] /\ pc' = [pc EXCEPT ![c] = "download"]
    BY DEF FetchTypes, Absent
  <2> QED
    BY <2>1 DEF FetchTypes, HandleInv
<1>3. AloneInv'
  BY DEF FetchTypes, HandleInv, AloneInv, OneAtATime, Active, NothingSpoilt, Label, Handle
<1>4. OverlapInv'
  <2> SUFFICES ASSUME faults = 0 PROVE OverlapInv'
    BY DEF OverlapInv, FetchTypes
  <2>1. ASSUME NEW n \in Number
        PROVE  Covered(n, "part", part[n])' /\ Covered(n, "target", target[n])'
    <3>1. handle[c] = "closed"
      BY DEF HandleInv
    <3>2. Covered(n, "target", target[n])'
      <4>1. \A d \in Caller : handle[d] = "target" => handle'[d] = "target" /\ position'[d] = position[d]
        BY <3>1 DEF FetchTypes
      <4> QED BY <4>1 DEF OverlapInv, Covered
    <3>3. CASE n # asset[c]
      <4>1. \A d \in Caller : asset[d] = n => handle'[d] = handle[d] /\ position'[d] = position[d]
        BY <3>3 DEF FetchTypes
      <4>2. part'[n] = part[n]
        BY <3>3 DEF FetchTypes
      <4> QED BY <3>2, <4>1, <4>2 DEF OverlapInv, Covered
    <3>4. CASE n = asset[c]
      <4>1. part'[n] = << >> /\ handle'[c] = "part" /\ position'[c] = 0
        BY <3>4 DEF FetchTypes
      <4> QED BY <3>2, <3>4, <4>1 DEF Covered
    <3> QED BY <3>3, <3>4
  <2>2. AtMostTwo => /\ \A d \in Caller : pc'[d] = "use" => target'[asset'[d]] = Pinned
                     /\ \A n \in Number : used'[n] \subseteq {Pinned}
    BY DEF OverlapInv, FetchTypes
  <2> QED
    BY <2>1, <2>2 DEF OverlapInv
<1> QED
  BY <1>1, <1>2, <1>3, <1>4

\* Who has written everything lacks nothing.
LEMMA EndDownloadStep ==
    ASSUME FetchInv, NEW c \in Caller, EndDownload(c)
    PROVE  FetchInv'
<1> USE AssetsAssumption, BlocksAssumption, FaultsAssumption, AbsentIsNoContent
    DEF FetchInv, EndDownload, Goto, files, Number
<1>1. FetchTypes'
  BY DEF FetchTypes, Label, Handle
<1>2. HandleInv'
  BY DEF FetchTypes, HandleInv, Label, Handle
<1>3. AloneInv'
  BY DEF FetchTypes, HandleInv, AloneInv, OneAtATime, Active, NothingSpoilt, Label, Handle
<1>4. OverlapInv'
  BY DEF FetchTypes, HandleInv, OverlapInv, Covered, Label, Handle
<1> QED
  BY <1>1, <1>2, <1>3, <1>4

\* What is hashed is the pinned file.
LEMMA CheckStep ==
    ASSUME FetchInv, NEW c \in Caller, Check(c)
    PROVE  FetchInv'
<1> USE AssetsAssumption, BlocksAssumption, FaultsAssumption, AbsentIsNoContent
    DEF FetchInv, Check, Goto, files, Number, Fail
<1>1. FetchTypes'
  BY DEF FetchTypes, Label, Handle
<1>2. HandleInv'
  BY DEF FetchTypes, HandleInv, Label, Handle
<1>3. AloneInv'
  <2> SUFFICES ASSUME ~overlapped PROVE AloneInv'
    BY DEF AloneInv
  <2>1. \A d \in Caller \ {c} : pc'[d] \in {"idle", "ok"} /\ handle'[d] = "closed"
    BY OnlyOne DEF FetchTypes, Active, Label, Handle
  <2>2. OneAtATime'
    BY <2>1 DEF OneAtATime, Active
  <2>3. /\ handle'[c] \in {"closed", "part"}
        /\ pc'[c] = "rename" => part'[asset'[c]] = Pinned
        /\ pc'[c] = "use" => target'[asset'[c]] = Pinned
    BY DEF FetchTypes, HandleInv, AloneInv, Label, Handle
  <2>4. NothingSpoilt' /\ \A n \in Number : used'[n] \subseteq {Pinned}
    BY DEF FetchTypes, AloneInv, NothingSpoilt
  <2> QED
    BY <2>1, <2>2, <2>3, <2>4 DEF AloneInv
<1>4. OverlapInv'
  BY DEF FetchTypes, HandleInv, OverlapInv, Covered, Label, Handle
<1> QED
  BY <1>1, <1>2, <1>3, <1>4

\* The file and those who write to it change their name together.
LEMMA RenameStep ==
    ASSUME FetchInv, NEW c \in Caller, Rename(c)
    PROVE  FetchInv'
<1> USE AssetsAssumption, BlocksAssumption, FaultsAssumption, AbsentIsNoContent
    DEF FetchInv, Rename, Goto, files, Number, Fail
<1>1. FetchTypes'
  BY DEF FetchTypes, Label, Handle
<1>2. HandleInv'
  BY DEF FetchTypes, HandleInv, Label, Handle
<1>3. AloneInv'
  <2> SUFFICES ASSUME ~overlapped PROVE AloneInv'
    BY DEF AloneInv
  <2>1. \A d \in Caller \ {c} : pc'[d] \in {"idle", "ok"} /\ handle'[d] = "closed"
    BY OnlyOne DEF FetchTypes, Active, Label, Handle
  <2>2. OneAtATime'
    BY <2>1 DEF OneAtATime, Active
  <2>3. /\ handle'[c] \in {"closed", "part"}
        /\ pc'[c] = "rename" => part'[asset'[c]] = Pinned
        /\ pc'[c] = "use" => target'[asset'[c]] = Pinned
    BY DEF FetchTypes, HandleInv, AloneInv, Label, Handle
  <2>4. NothingSpoilt' /\ \A n \in Number : used'[n] \subseteq {Pinned}
    BY DEF FetchTypes, AloneInv, NothingSpoilt
  <2> QED
    BY <2>1, <2>2, <2>3, <2>4 DEF AloneInv
<1>4. OverlapInv'
  <2> SUFFICES ASSUME faults = 0 PROVE OverlapInv'
    BY DEF OverlapInv, FetchTypes
  <2>0. asset[c] \in Number /\ handle[c] = "closed"
    BY DEF FetchTypes, HandleInv
  <2>1. ASSUME NEW n \in Number
        PROVE  Covered(n, "part", part[n])' /\ Covered(n, "target", target[n])'
    <3>1. Covered(n, "part", part[n]) /\ Covered(n, "target", target[n])
      BY DEF OverlapInv
    <3>2. CASE n # asset[c] \/ part[asset[c]] = Absent
      <4>1. part'[n] = part[n] /\ target'[n] = target[n]
        BY <2>0, <3>2 DEF FetchTypes
      <4>2. \A d \in Caller : asset[d] = n =>
              asset'[d] = n /\ handle'[d] = handle[d] /\ position'[d] = position[d]
        BY <2>0, <3>2 DEF FetchTypes
      <4> HIDE DEF Rename
      <4> QED
        BY <3>1, <4>1, <4>2, CoveredKept
    <3>3. CASE n = asset[c] /\ part[asset[c]] # Absent
      <4>1. part'[n] = Absent /\ target'[n] = part[n]
        BY <2>0, <3>3 DEF FetchTypes
      <4>2. \A d \in Caller : asset[d] = n /\ handle[d] = "part" =>
              asset'[d] = n /\ handle'[d] = "target" /\ position'[d] = position[d]
        BY <2>0, <3>3 DEF FetchTypes
      <4> HIDE DEF Rename
      <4> QED
        BY <3>1, <4>1, <4>2 DEF Covered
    <3> QED
      BY <3>2, <3>3
  <2>2. AtMostTwo => /\ \A d \in Caller : pc'[d] = "use" => target'[asset'[d]] = Pinned
                     /\ \A n \in Number : used'[n] \subseteq {Pinned}
    <3> SUFFICES ASSUME AtMostTwo
                 PROVE  /\ \A d \in Caller : pc'[d] = "use" => target'[asset'[d]] = Pinned
                        /\ \A n \in Number : used'[n] \subseteq {Pinned}
      OBVIOUS
    <3>1. /\ \A d \in Caller : pc[d] = "use" => target[asset[d]] = Pinned
          /\ \A n \in Number : used'[n] \subseteq {Pinned}
      BY DEF OverlapInv
    <3>2. ASSUME NEW d \in Caller, pc'[d] = "use"
          PROVE  target'[asset'[d]] = Pinned
      <4>1. d # c /\ pc[d] = "use" /\ asset'[d] = asset[d] /\ asset[d] \in Number
        BY <3>2 DEF FetchTypes
      <4>2. \A e \in Caller : handle[e] # "part"
        <5>1. handle[d] = "closed"
          BY <4>1 DEF HandleInv
        <5> QED BY <5>1, <4>1, <2>0 DEF AtMostTwo
      <4>3. part[asset[d]] \in {Absent, Pinned}
        BY <4>1, <4>2, WholeWhenClosed DEF OverlapInv, FetchTypes, Handle
      <4>4. \/ target'[asset[d]] = target[asset[d]]
            \/ target'[asset[d]] = part[asset[d]] /\ part[asset[d]] # Absent
        BY <4>1 DEF FetchTypes
      <4> QED BY <3>1, <4>1, <4>3, <4>4
    <3> QED
      BY <3>1, <3>2
  <2> QED
    BY <2>1, <2>2 DEF OverlapInv
<1> QED
  BY <1>1, <1>2, <1>3, <1>4

\* What is hashed is the pinned file.
LEMMA VerifyStep ==
    ASSUME FetchInv, NEW c \in Caller, Verify(c)
    PROVE  FetchInv'
<1> USE AssetsAssumption, BlocksAssumption, FaultsAssumption, AbsentIsNoContent
    DEF FetchInv, Verify, Goto, files, Number, Fail
<1>1. FetchTypes'
  BY DEF FetchTypes, Label, Handle
<1>2. HandleInv'
  BY DEF FetchTypes, HandleInv, Label, Handle
<1>3. AloneInv'
  <2> SUFFICES ASSUME ~overlapped PROVE AloneInv'
    BY DEF AloneInv
  <2>1. \A d \in Caller \ {c} : pc'[d] \in {"idle", "ok"} /\ handle'[d] = "closed"
    BY OnlyOne DEF FetchTypes, Active, Label, Handle
  <2>2. OneAtATime'
    BY <2>1 DEF OneAtATime, Active
  <2>3. /\ handle'[c] \in {"closed", "part"}
        /\ pc'[c] = "rename" => part'[asset'[c]] = Pinned
        /\ pc'[c] = "use" => target'[asset'[c]] = Pinned
    BY DEF FetchTypes, HandleInv, AloneInv, Label, Handle
  <2>4. NothingSpoilt' /\ \A n \in Number : used'[n] \subseteq {Pinned}
    BY DEF FetchTypes, AloneInv, NothingSpoilt
  <2> QED
    BY <2>1, <2>2, <2>3, <2>4 DEF AloneInv
<1>4. OverlapInv'
  BY DEF FetchTypes, HandleInv, OverlapInv, Covered, Label, Handle
<1> QED
  BY <1>1, <1>2, <1>3, <1>4

\* What is used has been hashed.
LEMMA UseStep ==
    ASSUME FetchInv, NEW c \in Caller, Use(c)
    PROVE  FetchInv'
<1> USE AssetsAssumption, BlocksAssumption, FaultsAssumption, AbsentIsNoContent
    DEF FetchInv, Use, Goto, files, Number
<1>1. FetchTypes'
  <2>1. used' \in [Number -> SUBSET ({Absent} \cup Seq(Block))]
    BY DEF FetchTypes
  <2>2. asset' \in [Caller -> Number] /\ pc' \in [Caller -> Label]
    <3>1. asset[c] \in Number
      BY DEF FetchTypes
    <3>2. asset[c] < Assets => asset[c] + 1 \in Number
      BY <3>1
    <3> QED
      BY <3>2 DEF FetchTypes, Label
  <2> QED
    BY <2>1, <2>2 DEF FetchTypes
<1>2. HandleInv'
  BY DEF FetchTypes, HandleInv, Label, Handle
<1>3. AloneInv'
  <2> SUFFICES ASSUME ~overlapped PROVE AloneInv'
    BY DEF AloneInv
  <2>1. \A d \in Caller \ {c} : pc'[d] \in {"idle", "ok"} /\ handle'[d] = "closed"
    BY OnlyOne DEF FetchTypes, Active, Label, Handle
  <2>2. OneAtATime'
    BY <2>1 DEF OneAtATime, Active
  <2>3. /\ handle'[c] \in {"closed", "part"}
        /\ pc'[c] = "rename" => part'[asset'[c]] = Pinned
        /\ pc'[c] = "use" => target'[asset'[c]] = Pinned
    BY DEF FetchTypes, HandleInv, AloneInv, Label, Handle
  <2>4. NothingSpoilt' /\ \A n \in Number : used'[n] \subseteq {Pinned}
    BY DEF FetchTypes, AloneInv, NothingSpoilt
  <2> QED
    BY <2>1, <2>2, <2>3, <2>4 DEF AloneInv
<1>4. OverlapInv'
  <2> SUFFICES ASSUME faults = 0 PROVE OverlapInv'
    BY DEF OverlapInv, FetchTypes
  <2>1. \A n \in Number : Covered(n, "part", part[n])' /\ Covered(n, "target", target[n])'
    <3>1. handle[c] = "closed"
      BY DEF HandleInv
    <3>2. \A d \in Caller : handle[d] # "closed" =>
            asset'[d] = asset[d] /\ handle'[d] = handle[d] /\ position'[d] = position[d]
      BY <3>1 DEF FetchTypes
    <3>3. \A n \in Number : Covered(n, "part", part[n]) /\ Covered(n, "target", target[n])
      BY DEF OverlapInv
    <3>4. part' = part /\ target' = target
      OBVIOUS
    <3> HIDE DEF Use
    <3>5. TAKE n \in Number
    <3>6. Covered(n, "part", part[n])'
      BY <3>2, <3>3, <3>4, CoveredKept
    <3>7. Covered(n, "target", target[n])'
      BY <3>2, <3>3, <3>4, CoveredKept
    <3> QED BY <3>6, <3>7
  <2>2. AtMostTwo => /\ \A d \in Caller : pc'[d] = "use" => target'[asset'[d]] = Pinned
                     /\ \A n \in Number : used'[n] \subseteq {Pinned}
    <3> SUFFICES ASSUME AtMostTwo
                 PROVE  /\ \A d \in Caller : pc'[d] = "use" => target'[asset'[d]] = Pinned
                        /\ \A n \in Number : used'[n] \subseteq {Pinned}
      OBVIOUS
    <3>1. /\ \A d \in Caller : pc[d] = "use" => target[asset[d]] = Pinned
          /\ \A n \in Number : used[n] \subseteq {Pinned}
      BY DEF OverlapInv
    <3>2. \A d \in Caller : pc'[d] = "use" => d # c /\ pc[d] = "use" /\ asset'[d] = asset[d]
      BY DEF FetchTypes
    <3>3. \A n \in Number : used'[n] \subseteq used[n] \cup {target[asset[c]]}
      BY DEF FetchTypes
    <3> QED
      BY <3>1, <3>2, <3>3
  <2> QED
    BY <2>1, <2>2 DEF OverlapInv
<1> QED
  BY <1>1, <1>2, <1>3, <1>4

\* A file that nobody completes counts as a fault.
LEMMA StopStep ==
    ASSUME FetchInv, NEW c \in Caller, Stop(c)
    PROVE  FetchInv'
<1> USE AssetsAssumption, BlocksAssumption, FaultsAssumption, AbsentIsNoContent
    DEF FetchInv, Stop, Goto, files, Number, Fail, Active
<1>1. FetchTypes'
  BY DEF FetchTypes, Label, Handle
<1>2. HandleInv'
  BY DEF FetchTypes, HandleInv, Label, Handle
<1>3. AloneInv'
  BY DEF FetchTypes, HandleInv, AloneInv, OneAtATime, Active, NothingSpoilt, Label, Handle
<1>4. OverlapInv'
  BY DEF FetchTypes, HandleInv, OverlapInv, Covered, Label, Handle
<1> QED
  BY <1>1, <1>2, <1>3, <1>4

-----------------------------------------------------------------------------
\* Every block that is written

\* A block that is written: a good one brings the file nearer to the pinned one,
\* a bad one is a fault.
LEMMA WriteStep ==
    ASSUME FetchInv, NEW c \in Caller, NEW block \in {"good", "bad"}, WriteBlock(c, block),
           (block = "good" /\ UNCHANGED faults) \/ faults' = faults + 1
    PROVE  FetchInv'
<1> USE AssetsAssumption, BlocksAssumption, FaultsAssumption, AbsentIsNoContent
    DEF FetchInv, WriteBlock, files, Number
<1> DEFINE m == asset[c]
<1>1. /\ m \in Number /\ pc[c] = "download" /\ handle[c] \in Handle \ {"closed"}
      /\ position[c] \in 0 .. Blocks - 1 /\ position'[c] = position[c] + 1
      /\ \A d \in Caller \ {c} : position'[d] = position[d]
      /\ pc' = pc /\ asset' = asset /\ handle' = handle /\ used' = used /\ overlapped' = overlapped
      /\ block \in Block /\ faults' \in Nat /\ (faults' = 0 => faults = 0 /\ block = "good")
  BY DEF FetchTypes, HandleInv, Label, Handle, Block
<1>2. ASSUME NEW n \in Number
      PROVE  /\ part'[n] = IF n = m /\ handle[c] = "part"
                             THEN Put(part[n], position[c], block) ELSE part[n]
             /\ target'[n] = IF n = m /\ handle[c] = "target"
                               THEN Put(target[n], position[c], block) ELSE target[n]
  BY <1>1 DEF FetchTypes
<1>3. /\ handle[c] = "part" => part[m] \in Seq(Block)
      /\ handle[c] = "target" => target[m] \in Seq(Block)
  BY <1>1 DEF FetchTypes, HandleInv
<1>p. ASSUME NEW f \in Seq(Block)
      PROVE  LET p == Put(f, position[c], block) IN
             /\ p \in Seq(Block) /\ p # Absent /\ p[position[c] + 1] = block
             /\ Len(f) > position[c] => Len(p) = Len(f)
             /\ Len(f) <= position[c] => Len(p) = position[c] + 1
             /\ \A k \in 1 .. Len(f) : k # position[c] + 1 => p[k] = f[k]
  <2>1. position[c] \in Nat /\ block \in Block
    BY <1>1
  <2> HIDE DEF WriteBlock, FetchInv, m, files, Number
  <2> QED BY <2>1, PutContent, Zenon
<1>4. /\ handle[c] = "part" => part'[m] \in Seq(Block) /\ part'[m] # Absent
      /\ handle[c] = "target" => target'[m] \in Seq(Block) /\ target'[m] # Absent
  <2> HIDE DEF WriteBlock, m
  <2>1. m \in Number
    BY <1>1
  <2> QED BY <1>2, <1>3, <1>p, <2>1
<1>5. FetchTypes'
  <2>1. part' \in [Number -> {Absent} \cup Seq(Block)]
    <3>1. \A n \in Number : part'[n] \in {Absent} \cup Seq(Block)
      BY <1>2, <1>4 DEF FetchTypes
    <3> QED BY <3>1 DEF FetchTypes
  <2>2. target' \in [Number -> {Absent} \cup Seq(Block)]
    <3>1. \A n \in Number : target'[n] \in {Absent} \cup Seq(Block)
      BY <1>2, <1>4 DEF FetchTypes
    <3> QED BY <3>1 DEF FetchTypes
  <2>3. position' \in [Caller -> 0 .. Blocks]
    BY DEF FetchTypes
  <2> QED
    BY <1>1, <2>1, <2>2, <2>3 DEF FetchTypes
<1>6. HandleInv'
  <2> SUFFICES ASSUME NEW d \in Caller
               PROVE  /\ handle[d] = "closed" <=> pc[d] # "download"
                      /\ handle[d] = "part" => part'[asset[d]] # Absent
                      /\ handle[d] = "target" => target'[asset[d]] # Absent
    BY <1>1 DEF HandleInv
  <2>1. asset[d] \in Number
    BY DEF FetchTypes
  <2> QED
    BY <1>2, <1>4, <2>1 DEF HandleInv
<1>7. AloneInv'
  <2> SUFFICES ASSUME ~overlapped PROVE AloneInv'
    BY <1>1 DEF AloneInv
  <2>1. \A d \in Caller \ {c} : pc[d] \in {"idle", "ok"}
    BY <1>1, OnlyOne DEF Active
  <2>2. handle[c] = "part"
    BY <1>1 DEF AloneInv, Handle
  <2>3. target' = target
    BY <2>2
  <2> QED
    BY <1>1, <2>1, <2>3 DEF AloneInv, OneAtATime, Active, NothingSpoilt
<1>8. OverlapInv'
  <2> SUFFICES ASSUME faults = 0, block = "good" PROVE OverlapInv'
    BY <1>1 DEF OverlapInv
  <2>1. ASSUME NEW n \in Number, NEW name \in {"part", "target"}, NEW f, NEW g,
               f \in {Absent} \cup Seq(Block), Covered(n, name, f),
               g = IF n = m /\ handle[c] = name THEN Put(f, position[c], block) ELSE f,
               n = m /\ handle[c] = name => f # Absent,
               g # Absent
        PROVE  /\ Len(g) <= Blocks
               /\ \A k \in 1 .. Blocks :
                    \/ k <= Len(g) /\ g[k] = "good"
                    \/ \E d \in Caller : asset[d] = n /\ handle[d] = name /\ position'[d] < k
    <3>1. CASE ~(n = m /\ handle[c] = name)
      <4>1. g = f /\ \A d \in Caller : asset[d] = n /\ handle[d] = name => position'[d] = position[d]
        BY <1>1, <2>1, <3>1
      <4> HIDE DEF WriteBlock
      <4> QED BY <2>1, <4>1 DEF Covered
    <3>2. CASE n = m /\ handle[c] = name
      <4>1. /\ f \in Seq(Block) /\ g = Put(f, position[c], block) /\ g \in Seq(Block)
            /\ Len(f) > position[c] => Len(g) = Len(f)
            /\ Len(f) <= position[c] => Len(g) = position[c] + 1
            /\ g[position[c] + 1] = "good"
            /\ \A k \in 1 .. Len(f) : k # position[c] + 1 => g[k] = f[k]
        <5> HIDE DEF WriteBlock, m
        <5>1. f \in Seq(Block) /\ g = Put(f, position[c], block)
          BY <2>1, <3>2
        <5> QED BY <5>1, <1>p
      <4>2. Len(g) <= Blocks
        BY <1>1, <2>1, <4>1 DEF Covered
      <4>3. ASSUME NEW k \in 1 .. Blocks
            PROVE  \/ k <= Len(g) /\ g[k] = "good"
                   \/ \E d \in Caller : asset[d] = n /\ handle[d] = name /\ position'[d] < k
        <5>1. CASE k = position[c] + 1
          BY <1>1, <4>1, <5>1
        <5>2. CASE k > position[c] + 1
          BY <1>1, <3>2, <5>2
        <5>3. CASE k < position[c] + 1
          <6>1. \/ k <= Len(f) /\ f[k] = "good"
                \/ \E d \in Caller : asset[d] = n /\ handle[d] = name /\ position[d] < k
            BY <2>1, <4>1 DEF Covered
          <6>2. CASE k <= Len(f) /\ f[k] = "good"
            BY <1>1, <4>1, <5>3, <6>2
          <6>3. ASSUME NEW d \in Caller, asset[d] = n /\ handle[d] = name /\ position[d] < k
                PROVE  asset[d] = n /\ handle[d] = name /\ position'[d] < k
            <7>1. d # c
              BY <1>1, <5>3, <6>3
            <7> QED BY <1>1, <6>3, <7>1
          <6> QED BY <6>1, <6>2, <6>3
        <5> QED BY <1>1, <5>1, <5>2, <5>3
      <4> QED BY <4>2, <4>3
    <3> QED BY <3>1, <3>2
  <2>2. ASSUME NEW n \in Number
        PROVE  Covered(n, "part", part[n])' /\ Covered(n, "target", target[n])'
    <3>1. /\ Covered(n, "part", part[n]) /\ Covered(n, "target", target[n])
          /\ part[n] \in {Absent} \cup Seq(Block) /\ target[n] \in {Absent} \cup Seq(Block)
      BY DEF OverlapInv, FetchTypes
    <3>2. /\ n = m /\ handle[c] = "part" => part[n] # Absent
          /\ n = m /\ handle[c] = "target" => target[n] # Absent
      BY <1>1 DEF HandleInv
    <3>p. Covered(n, "part", part[n])'
      <4>1. part'[n] = IF n = m /\ handle[c] = "part"
                         THEN Put(part[n], position[c], block) ELSE part[n]
        BY <1>2
      <4> HIDE DEF WriteBlock, m
      <4> SUFFICES ASSUME part'[n] # Absent PROVE Covered(n, "part", part[n])'
        BY DEF Covered
      <4>2. /\ Len(part'[n]) <= Blocks
            /\ \A k \in 1 .. Blocks :
                 \/ k <= Len(part'[n]) /\ part'[n][k] = "good"
                 \/ \E d \in Caller : asset[d] = n /\ handle[d] = "part" /\ position'[d] < k
        BY <2>1, <3>1, <3>2, <4>1
      <4> QED BY <1>1, <4>2 DEF Covered
    <3>t. Covered(n, "target", target[n])'
      <4>1. target'[n] = IF n = m /\ handle[c] = "target"
                           THEN Put(target[n], position[c], block) ELSE target[n]
        BY <1>2
      <4> HIDE DEF WriteBlock, m
      <4> SUFFICES ASSUME target'[n] # Absent PROVE Covered(n, "target", target[n])'
        BY DEF Covered
      <4>2. /\ Len(target'[n]) <= Blocks
            /\ \A k \in 1 .. Blocks :
                 \/ k <= Len(target'[n]) /\ target'[n][k] = "good"
                 \/ \E d \in Caller : asset[d] = n /\ handle[d] = "target" /\ position'[d] < k
        BY <2>1, <3>1, <3>2, <4>1
      <4> QED BY <1>1, <4>2 DEF Covered
    <3> QED
      BY <3>p, <3>t
  <2>3. AtMostTwo => /\ \A d \in Caller : pc'[d] = "use" => target'[asset'[d]] = Pinned
                     /\ \A n \in Number : used'[n] \subseteq {Pinned}
    <3> SUFFICES ASSUME AtMostTwo, NEW d \in Caller, pc[d] = "use"
                 PROVE  target'[asset[d]] = Pinned
      BY <1>1 DEF OverlapInv
    <3>1. asset[d] \in Number /\ target[asset[d]] = Pinned
      BY DEF OverlapInv, FetchTypes
    <3>2. CASE ~(asset[d] = m /\ handle[c] = "target")
      BY <1>2, <3>1, <3>2
    <3>3. CASE asset[d] = m /\ handle[c] = "target"
      <4>1. target'[asset[d]] = Put(Pinned, position[c], block)
        BY <1>2, <3>1, <3>3
      <4>2. Put(Pinned, position[c], block) = Pinned
        <5> HIDE DEF WriteBlock, m
        <5>1. position[c] \in Nat /\ position[c] + 1 <= Blocks /\ Len(Pinned) = Blocks
          BY <1>1
        <5>2. (IF Len(Pinned) > position[c] THEN Len(Pinned) ELSE position[c] + 1) = Blocks
          BY <5>1
        <5> QED BY <5>1, <5>2 DEF Put, Pinned
      <4> QED BY <4>1, <4>2
    <3> QED BY <3>2, <3>3
  <2> QED
    BY <1>1, <2>2, <2>3 DEF OverlapInv
<1> QED
  BY <1>5, <1>6, <1>7, <1>8

-----------------------------------------------------------------------------
\* The invariant and what it gives

\* Before the first call there are no files.
LEMMA FetchInit == Init => FetchInv
<1> SUFFICES ASSUME Init PROVE FetchInv
  OBVIOUS
<1> USE AssetsAssumption, BlocksAssumption, AbsentIsNoContent DEF Init, Number
<1>1. FetchTypes
  <2>1. part \in [Number -> {Absent} \cup Seq(Block)] /\ target \in [Number -> {Absent} \cup Seq(Block)]
    OBVIOUS
  <2>2. 1 \in Number /\ 0 \in 0 .. Blocks
    OBVIOUS
  <2>3. /\ pc \in [Caller -> Label] /\ asset \in [Caller -> Number]
        /\ handle \in [Caller -> Handle] /\ position \in [Caller -> 0 .. Blocks]
    BY <2>2 DEF Label, Handle
  <2>4. used \in [Number -> SUBSET ({Absent} \cup Seq(Block))]
    OBVIOUS
  <2> QED
    BY <2>1, <2>3, <2>4 DEF FetchTypes
<1>2. HandleInv /\ AloneInv /\ OverlapInv
  BY DEF HandleInv, AloneInv, OneAtATime, Active, NothingSpoilt, OverlapInv, Covered
<1> QED
  BY <1>1, <1>2 DEF FetchInv

\* Every step of the calls keeps the invariant.
LEMMA FetchStep == FetchInv /\ [Next]_vars => FetchInv'
<1> SUFFICES ASSUME FetchInv, [Next]_vars PROVE FetchInv'
  OBVIOUS
<1>1. ASSUME NEW c \in Caller, Work(c) PROVE FetchInv'
  <2>1. ASSUME GoodBlock(c) PROVE FetchInv'
    BY <2>1, WriteStep DEF GoodBlock
  <2> QED
    BY <1>1, <2>1, CallStep, LookStep, OpenStep, EndDownloadStep, CheckStep, RenameStep,
       VerifyStep, UseStep DEF Work
<1>2. ASSUME NEW c \in Caller, BadBlock(c) PROVE FetchInv'
  BY <1>2, WriteStep DEF BadBlock
<1>3. ASSUME NEW c \in Caller, Stop(c) PROVE FetchInv'
  BY <1>3, StopStep
<1>4. CASE UNCHANGED vars
  BY <1>4 DEF FetchInv, FetchTypes, HandleInv, AloneInv, OneAtATime, Active, NothingSpoilt,
     OverlapInv, Covered, AtMostTwo, vars, files
<1> QED
  BY <1>1, <1>2, <1>3, <1>4 DEF Next, Terminating

\* However calls follow each other, overlap, fail and are stopped, each file is
\* as whole as those who still write to it will make it, and a call made alone
\* hashes what is there.
THEOREM FetchInvariance == Spec => []FetchInv
  BY FetchInit, FetchStep, PTL DEF Spec

\* As long as calls do not overlap, what has an asset's name and what was used is
\* the pinned file: main() of fetch_simulator.py hashes before the name is given
\* and once more before the file is used.
THEOREM OnlyPinnedUsed == Spec => []OnlyPinnedFiles
<1>1. FetchInv => OnlyPinnedFiles
  BY DEF FetchInv, AloneInv, OnlyPinnedFiles
<1> QED
  BY <1>1, FetchInvariance, PTL

\* Of calls that overlap without a fault, any number of them, the last one that
\* writes leaves every file whole; two of them use nothing but pinned files.
THEOREM OverlapsHeal == Spec => []OverlapHeals
<1>1. ASSUME FetchInv PROVE OverlapHeals
  <2> SUFFICES ASSUME faults = 0 PROVE OverlapHeals
    BY DEF OverlapHeals
  <2>1. ASSUME ~Writing PROVE NothingSpoilt
    <3> SUFFICES ASSUME NEW n \in Number PROVE target[n] \in {Absent, Pinned}
      BY DEF NothingSpoilt
    <3>1. FetchTypes /\ Covered(n, "target", target[n]) /\ target[n] \in {Absent} \cup Seq(Block)
      BY <1>1 DEF FetchInv, OverlapInv, FetchTypes
    <3>2. \A c \in Caller : handle[c] # "target"
      BY <2>1 DEF Writing
    <3> QED
      BY <3>1, <3>2, WholeWhenClosed DEF Handle
  <2> QED
    BY <1>1, <2>1 DEF FetchInv, OverlapInv, OverlapHeals
<1> QED
  BY <1>1, FetchInvariance, PTL

=============================================================================
