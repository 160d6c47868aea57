---------------------------- MODULE CursorProofs ----------------------------
(***************************************************************************)
(* Proofs that the Cursor keeps its type and its safety invariants, for   *)
(* every value of the constants that satisfies the module's assumptions.  *)
(*                                                                         *)
(* None of ExecutedPrefix, ChainSound and FinishedComplete is inductive   *)
(* alone.  IInv adds what a step needs to know about the control state:   *)
(* inside a call index is below the list's length (so hashElems[index]    *)
(* exists and incIndex stays in range), a finished cursor is idle with    *)
(* index at the end of the list, and the copy the loop removes inserted   *)
(* blocks from holds every copy the loop has still to visit (so removing  *)
(* a visited block never takes a count below zero).                        *)
(***************************************************************************)
EXTENDS Cursor, TLAPS

USE BlocksAssumption, HashElemsAssumption, PkgsAssumption, BoundsAssumption

RestCoversTodo == \A b \in Blocks : todo[b] <= rest[b]

\* TypeOK without its two Boolean-valued conjuncts, which Zenon handles
\* and the SMT backend does not when they come with arithmetic
TypeData ==
  /\ index \in 0..Len(HashElems)
  /\ blocks \in [Blocks -> Nat]
  /\ todo \in [Blocks -> Nat]
  /\ rest \in [Blocks -> Nat]
  /\ pc \in {"idle", "loop", "end"}
  /\ chain \subseteq Blocks
  /\ mainChain \in Seq(Blocks)
  /\ future \in [Blocks -> SUBSET Pkgs]
  /\ pool \subseteq Pkgs
  /\ received \subseteq Blocks
  /\ dups \in 0..MaxDups
  /\ pastErrors \in 0..MaxPastErrors

TypeBool == finished \in BOOLEAN /\ running \in BOOLEAN

\* where index stands relative to the list, by control state
Control ==
  /\ pc = "loop" => index < Len(HashElems)
  /\ (pc = "idle" /\ ~finished) => index < Len(HashElems)
  /\ finished => (pc = "idle" /\ index = Len(HashElems))

IInv ==
  /\ TypeData
  /\ TypeBool
  /\ RestCoversTodo
  /\ Control
  /\ ExecutedPrefix
  /\ ChainSound

LEMMA TypeSplit == TypeOK <=> TypeData /\ TypeBool
BY Zenon DEF TypeOK, TypeData, TypeBool

\* Appending the next element of a list to its prefix gives the next prefix.
LEMMA AppendSubSeq ==
  ASSUME NEW S, NEW s \in Seq(S), NEW i \in 0..(Len(s) - 1)
  PROVE  Append(SubSeq(s, 1, i), s[i + 1]) = SubSeq(s, 1, i + 1)
OBVIOUS

\* The prefix of a list as long as the list is the list.
LEMMA SubSeqWhole ==
  ASSUME NEW S, NEW s \in Seq(S)
  PROVE  SubSeq(s, 1, Len(s)) = s
OBVIOUS

LEMMA InitIInv == Init => IInv
<1> SUFFICES ASSUME Init PROVE IInv
  OBVIOUS
<1>1. TypeData
  BY DEF Init, TypeData, EmptyBag
<1>2. TypeBool
  BY Zenon DEF Init, TypeBool
<1>3. RestCoversTodo
  BY DEF Init, RestCoversTodo, EmptyBag
<1>4. Control
  BY DEF Init, Control
<1>5. ExecutedPrefix
  BY DEF Init, ExecutedPrefix
<1>6. ChainSound
  BY DEF Init, ChainSound
<1>7. QED
  BY <1>1, <1>2, <1>3, <1>4, <1>5, <1>6 DEF IInv

\* A step that leaves finished and running alone keeps TypeBool.
LEMMA BoolUnchanged ==
  ASSUME TypeBool, finished' = finished, running' = running
  PROVE  TypeBool'
BY Zenon DEF TypeBool

\* A step that leaves pc, finished and index alone keeps Control.
LEMMA ControlUnchanged ==
  ASSUME Control, pc' = pc, finished' = finished, index' = index
  PROVE  Control'
BY Zenon DEF Control

\* Inside the loop the cursor is not finished.
LEMMA LoopNotFinished ==
  ASSUME TypeBool, Control, pc # "idle"
  PROVE  ~finished
BY Zenon DEF TypeBool, Control

\* A step of the loop visits a block of the snapshot while index is in range.
LEMMA VisitFacts ==
  ASSUME IInv, NEW b \in Blocks, Visit(b)
  PROVE  /\ pc = "loop" /\ index < Len(HashElems)
         /\ todo[b] > 0 /\ rest[b] > 0
         /\ todo' = [todo EXCEPT ![b] = todo[b] - 1]
BY DEF Visit, Support, BagTake, IInv, Control, RestCoversTodo, TypeData

\* processFutureTxPackages keeps packages within Pkgs.
LEMMA FutureType ==
  ASSUME TypeData, NEW b \in Blocks, ProcessFuture(b)
  PROVE  future' \in [Blocks -> SUBSET Pkgs] /\ pool' \subseteq Pkgs
BY DEF ProcessFuture, AcceptedPkgs, TypeData

\* Removing the visited block from both the snapshot and the copy keeps the
\* copy covering the snapshot, and both counts natural.
LEMMA TakeBoth ==
  ASSUME TypeData, RestCoversTodo, NEW b \in Blocks, todo[b] > 0,
         todo' = [todo EXCEPT ![b] = todo[b] - 1],
         rest' = [rest EXCEPT ![b] = rest[b] - 1]
  PROVE  todo' \in [Blocks -> Nat] /\ rest' \in [Blocks -> Nat] /\ RestCoversTodo'
<1>1. todo[b] <= rest[b] /\ todo[b] \in Nat /\ rest[b] \in Nat
  BY DEF TypeData, RestCoversTodo
<1>4. todo[b] - 1 \in Nat /\ rest[b] - 1 \in Nat
  BY <1>1
<1>5. todo \in [Blocks -> Nat] /\ rest \in [Blocks -> Nat]
  BY DEF TypeData
<1>6. todo' \in [Blocks -> Nat]
  BY <1>4, <1>5, Zenon
<1>7. rest' \in [Blocks -> Nat]
  BY <1>4, <1>5, Zenon
<1>2. todo' \in [Blocks -> Nat] /\ rest' \in [Blocks -> Nat]
  BY <1>6, <1>7
<1>3. \A x \in Blocks : todo'[x] <= rest'[x]
  BY <1>1 DEF TypeData, RestCoversTodo
<1> QED
  BY <1>2, <1>3 DEF RestCoversTodo

LEMMA NextIInv == IInv /\ [Next]_vars => IInv'
<1> SUFFICES ASSUME IInv, [Next]_vars PROVE IInv'
  OBVIOUS
<1>1. CASE Start
  <2>1. running' = TRUE /\ finished' = finished /\ ~finished
    BY <1>1, Zenon DEF Start
  <2>2. /\ index' = index /\ blocks' = blocks /\ todo' = todo /\ rest' = rest
        /\ pc' = pc /\ chain' = chain /\ mainChain' = mainChain
        /\ future' = future /\ pool' = pool /\ received' = received
        /\ dups' = dups /\ pastErrors' = pastErrors
    BY <1>1, Zenon DEF Start, envVars
  <2>3. TypeBool'
    BY <2>1, Zenon DEF IInv, TypeBool
  <2>4. Control'
    BY <2>1, <2>2, ControlUnchanged DEF IInv
  <2>5. TypeData' /\ RestCoversTodo' /\ ExecutedPrefix' /\ ChainSound'
    BY <2>2, <2>3, <2>4 DEF IInv, TypeData, RestCoversTodo, ExecutedPrefix, ChainSound
  <2>6. QED
    BY <2>5, <2>2, <2>3, <2>4, Zenon DEF IInv
<1>2. ASSUME NEW b \in Blocks, RejectBlock(b) PROVE IInv'
  <2>1. running' = running /\ finished' = finished
    BY <1>2, Zenon DEF RejectBlock
  <2>2. /\ index' = index /\ blocks' = blocks /\ todo' = todo /\ rest' = rest
        /\ pc' = pc /\ chain' = chain /\ mainChain' = mainChain
        /\ future' = future /\ pool' = pool /\ received' = received \cup {b}
        /\ dups' = IF b \in received THEN dups + 1 ELSE dups
        /\ (b \notin received \/ dups < MaxDups) /\ pastErrors' = pastErrors
    BY <1>2, Zenon DEF RejectBlock, Deliver
  <2>3. TypeBool' /\ Control'
    BY <2>1, <2>2, BoolUnchanged, ControlUnchanged DEF IInv
  <2>4. TypeData'
    <3>1. dups' \in 0..MaxDups
      <4>1. CASE b \in received
        BY <2>2, <4>1 DEF IInv, TypeData
      <4>2. CASE b \notin received
        BY <2>2, <4>2 DEF IInv, TypeData
      <4> QED BY <4>1, <4>2
    <3> QED BY <2>2, <3>1 DEF IInv, TypeData
  <2>5. RestCoversTodo' /\ ExecutedPrefix' /\ ChainSound'
    BY <2>2 DEF IInv, RestCoversTodo, ExecutedPrefix, ChainSound
  <2>6. QED
    BY <2>4, <2>5, <2>2, <2>3, Zenon DEF IInv
<1>3. ASSUME NEW b \in Blocks, ProcessBlock(b) PROVE IInv'
  <2>1. running' = running /\ finished' = finished /\ ~finished
    BY <1>3, Zenon DEF ProcessBlock, Deliver
  <2>2. /\ pc = "idle"
        /\ index' = index /\ blocks' = [blocks EXCEPT ![b] = blocks[b] + 1]
        /\ todo' = blocks' /\ rest' = blocks' /\ pc' = "loop"
        /\ chain' = chain /\ mainChain' = mainChain
        /\ future' = future /\ pool' = pool /\ received' = received \cup {b}
        /\ dups' = IF b \in received THEN dups + 1 ELSE dups
        /\ (b \notin received \/ dups < MaxDups) /\ pastErrors' = pastErrors
    BY <1>3, Zenon DEF ProcessBlock, Deliver, BagAdd
  <2>3. index < Len(HashElems)
    BY <2>1, <2>2, Zenon DEF IInv, Control
  <2>4. Control'
    BY <2>1, <2>2, <2>3, Zenon DEF Control
  <2>5. TypeBool'
    BY <2>1, BoolUnchanged DEF IInv
  <2>6. TypeData' /\ RestCoversTodo' /\ ExecutedPrefix' /\ ChainSound'
    <3>1. blocks' \in [Blocks -> Nat] /\ todo' = blocks' /\ rest' = blocks'
      BY <2>2 DEF IInv, TypeData
    <3>2. dups' \in 0..MaxDups
      BY <2>2 DEF IInv, TypeData
    <3>3. received' \subseteq Blocks
      BY <2>2 DEF IInv, TypeData
    <3>4. TypeData'
      BY <2>2, <3>1, <3>2, <3>3 DEF IInv, TypeData
    <3>5. RestCoversTodo'
      BY <3>1 DEF RestCoversTodo
    <3>6. ExecutedPrefix' /\ ChainSound'
      BY <2>2 DEF IInv, ExecutedPrefix, ChainSound
    <3>7. QED
      BY <3>4, <3>5, <3>6
  <2>7. QED
    BY <2>6, <2>2, <2>4, <2>5, Zenon DEF IInv
<1>4. ASSUME NEW b \in Blocks, Skip(b) PROVE IInv'
  <2>1. /\ pc = "loop" /\ index < Len(HashElems) /\ todo[b] > 0
        /\ todo' = [todo EXCEPT ![b] = todo[b] - 1]
    BY <1>4, VisitFacts DEF Skip
  <2>2. running' = running /\ finished' = finished
    BY <1>4, Zenon DEF Skip
  <2>3. /\ index' = index /\ blocks' = blocks /\ rest' = rest
        /\ pc' = pc /\ chain' = chain /\ mainChain' = mainChain
        /\ future' = future /\ pool' = pool /\ received' = received
        /\ dups' = dups /\ pastErrors' = pastErrors
    BY <1>4, Zenon DEF Skip, envVars
  <2>4. TypeBool' /\ Control'
    BY <2>2, <2>3, BoolUnchanged, ControlUnchanged DEF IInv
  <2>5. TypeData' /\ RestCoversTodo' /\ ExecutedPrefix' /\ ChainSound'
    BY <2>1, <2>3, <2>4 DEF IInv, TypeData, RestCoversTodo, ExecutedPrefix, ChainSound
  <2>6. QED
    BY <2>5, <2>1, <2>3, <2>4, Zenon DEF IInv
<1>5. ASSUME NEW b \in Blocks, InsertSide(b) PROVE IInv'
  <2>1. /\ pc = "loop" /\ index < Len(HashElems) /\ todo[b] > 0 /\ rest[b] > 0
        /\ todo' = [todo EXCEPT ![b] = todo[b] - 1]
    BY <1>5, VisitFacts DEF InsertSide
  <2>2. running' = running /\ finished' = finished
    BY <1>5, Zenon DEF InsertSide
  <2>3. /\ index' = index /\ blocks' = blocks
        /\ rest' = [rest EXCEPT ![b] = rest[b] - 1]
        /\ pc' = pc /\ chain' = chain \cup {b} /\ mainChain' = mainChain
        /\ future' = future /\ pool' = pool /\ received' = received
        /\ dups' = dups /\ pastErrors' = pastErrors
        /\ Insertable(b)
    BY <1>5, Zenon DEF InsertSide, BagTake, envVars
  <2>4. TypeBool' /\ Control'
    BY <2>2, <2>3, BoolUnchanged, ControlUnchanged DEF IInv
  <2>5. ChainSound'
    BY <2>3 DEF Insertable, IInv, TypeData, ChainSound
  <2>6. TypeData' /\ RestCoversTodo' /\ ExecutedPrefix' /\ ChainSound'
    <3>1. todo' \in [Blocks -> Nat] /\ rest' \in [Blocks -> Nat] /\ RestCoversTodo'
      BY <2>1, <2>3, TakeBoth DEF IInv
    <3>2. TypeData'
      BY <2>3, <3>1 DEF IInv, TypeData
    <3>3. ExecutedPrefix'
      BY <2>3 DEF IInv, ExecutedPrefix
    <3>4. QED
      BY <2>5, <3>1, <3>2, <3>3
  <2>7. QED
    BY <2>6, <2>1, <2>3, <2>4, <2>5, Zenon DEF IInv
<1>6. ASSUME NEW b \in Blocks, ExecMain(b) PROVE IInv'
  <2>1. /\ pc = "loop" /\ index < Len(HashElems) /\ todo[b] > 0 /\ rest[b] > 0
        /\ todo' = [todo EXCEPT ![b] = todo[b] - 1]
    BY <1>6, VisitFacts DEF ExecMain
  <2>2. running' = running /\ finished' = finished /\ ~finished
    BY <1>6, <2>1, LoopNotFinished, Zenon DEF ExecMain, IInv
  <2>3. /\ index' = index + 1 /\ blocks' = blocks
        /\ rest' = [rest EXCEPT ![b] = rest[b] - 1]
        /\ pc' = IF index' >= Len(HashElems) THEN "end" ELSE "loop"
        /\ chain' = chain \cup {b} /\ mainChain' = Append(mainChain, b)
        /\ ProcessFuture(b) /\ received' = received
        /\ dups' = dups /\ pastErrors' = pastErrors
        /\ Insertable(b) /\ b = HashElems[index + 1]
    BY <1>6, Zenon DEF ExecMain, BagTake, IncIndex, IsTarget, Target, envVars
  <2>4. future' \in [Blocks -> SUBSET Pkgs] /\ pool' \subseteq Pkgs
    BY <2>3, FutureType DEF IInv
  <2>5. ExecutedPrefix'
    <3>1. index \in 0..(Len(HashElems) - 1)
      BY <2>1 DEF IInv, TypeData
    <3>2. Append(SubSeq(HashElems, 1, index), HashElems[index + 1])
            = SubSeq(HashElems, 1, index + 1)
      BY <3>1, AppendSubSeq
    <3>3. QED
      BY <2>3, <3>2 DEF IInv, ExecutedPrefix
  <2>6. todo' \in [Blocks -> Nat] /\ rest' \in [Blocks -> Nat] /\ RestCoversTodo'
    BY <2>1, <2>3, TakeBoth DEF IInv
  <2>13. TypeData'
    <3>1. index' \in 0..Len(HashElems) /\ pc' \in {"idle", "loop", "end"}
      BY <2>1, <2>3 DEF IInv, TypeData
    <3>2. Append(mainChain, b) \in Seq(Blocks)
      BY DEF IInv, TypeData
    <3>3. mainChain' \in Seq(Blocks) /\ chain' \subseteq Blocks
      BY <2>3, <3>2, Zenon DEF IInv, TypeData
    <3>4. QED
      BY <2>3, <2>4, <2>6, <3>1, <3>3 DEF IInv, TypeData
  <2>7. index' <= Len(HashElems) /\ (pc' = "loop" => index' < Len(HashElems))
    BY <2>1, <2>3 DEF IInv, TypeData
  <2>8. Control'
    BY <2>2, <2>3, <2>7, Zenon DEF Control
  <2>9. TypeBool'
    BY <2>2, BoolUnchanged DEF IInv
  <2>10. ChainSound'
    BY <2>3 DEF Insertable, IInv, TypeData, ChainSound
  <2>12. QED
    BY <2>5, <2>6, <2>8, <2>9, <2>10, <2>13, Zenon DEF IInv
<1>7. ASSUME NEW b \in Blocks, ExecMainFails(b) PROVE IInv'
  <2>1. /\ pc = "loop" /\ index < Len(HashElems) /\ todo[b] > 0 /\ rest[b] > 0
        /\ todo' = [todo EXCEPT ![b] = todo[b] - 1]
    BY <1>7, VisitFacts DEF ExecMainFails
  <2>2. running' = running /\ finished' = finished /\ ~finished
    BY <1>7, <2>1, LoopNotFinished, Zenon DEF ExecMainFails, IInv
  <2>3. /\ index' = index /\ blocks' = blocks
        /\ rest' = [rest EXCEPT ![b] = rest[b] - 1]
        /\ pc' = "end"
        /\ chain' = chain \cup {b} /\ mainChain' = mainChain
        /\ ProcessFuture(b) /\ received' = received
        /\ dups' = dups /\ pastErrors < MaxPastErrors
        /\ pastErrors' = pastErrors + 1
        /\ Insertable(b)
    BY <1>7, Zenon DEF ExecMainFails, BagTake
  <2>4. future' \in [Blocks -> SUBSET Pkgs] /\ pool' \subseteq Pkgs
    BY <2>3, FutureType DEF IInv
  <2>5. Control'
    BY <2>2, <2>3, Zenon DEF Control
  <2>6. TypeBool'
    BY <2>2, BoolUnchanged DEF IInv
  <2>7. ChainSound'
    BY <2>3 DEF Insertable, IInv, TypeData, ChainSound
  <2>8. todo' \in [Blocks -> Nat] /\ rest' \in [Blocks -> Nat] /\ RestCoversTodo'
    BY <2>1, <2>3, TakeBoth DEF IInv
  <2>9. TypeData'
    <3>1. pastErrors' \in 0..MaxPastErrors /\ chain' \subseteq Blocks
      BY <2>3 DEF IInv, TypeData
    <3>2. QED
      BY <2>3, <2>4, <2>8, <3>1 DEF IInv, TypeData
  <2>10. ExecutedPrefix'
    BY <2>3 DEF IInv, ExecutedPrefix
  <2>11. QED
    BY <2>5, <2>6, <2>7, <2>8, <2>9, <2>10, Zenon DEF IInv
<1>8. CASE EndLoop
  <2>1. /\ pc' = "idle" /\ index' = index /\ blocks' = rest
        /\ todo' = [x \in Blocks |-> 0] /\ rest' = rest
        /\ chain' = chain /\ mainChain' = mainChain
        /\ future' = future /\ pool' = pool /\ received' = received
        /\ dups' = dups /\ pastErrors' = pastErrors
    BY <1>8, Zenon DEF EndLoop, EmptyBag, envVars
  <2>2. IF index >= Len(HashElems)
          THEN finished' = TRUE /\ running' = FALSE
          ELSE finished' = finished /\ running' = running
    BY <1>8, Zenon DEF EndLoop, ListDone
  <2>3. index \in 0..Len(HashElems)
    BY DEF IInv, TypeData
  <2>4. TypeBool' /\ Control'
    <3>1. CASE index >= Len(HashElems)
      <4>1. index = Len(HashElems)
        BY <2>3, <3>1
      <4>2. QED
        BY <2>1, <2>2, <3>1, <4>1, Zenon DEF TypeBool, Control
    <3>2. CASE ~(index >= Len(HashElems))
      <4>1. index < Len(HashElems)
        BY <2>3, <3>2
      <4>2. QED
        BY <2>1, <2>2, <3>2, <4>1, Zenon DEF IInv, TypeBool, Control
    <3>3. QED
      BY <3>1, <3>2
  <2>5. TypeData' /\ RestCoversTodo' /\ ExecutedPrefix' /\ ChainSound'
    BY <2>1, <2>4 DEF IInv, TypeData, RestCoversTodo, ExecutedPrefix, ChainSound
  <2>6. QED
    BY <2>5, <2>1, <2>4, Zenon DEF IInv
<1>9. CASE UNCHANGED vars
  <2>1. running' = running /\ finished' = finished
    BY <1>9, Zenon DEF vars
  <2>2. /\ index' = index /\ blocks' = blocks /\ todo' = todo /\ rest' = rest
        /\ pc' = pc /\ chain' = chain /\ mainChain' = mainChain
        /\ future' = future /\ pool' = pool /\ received' = received
        /\ dups' = dups /\ pastErrors' = pastErrors
    BY <1>9, Zenon DEF vars, envVars
  <2>3. TypeBool' /\ Control'
    BY <2>1, <2>2, BoolUnchanged, ControlUnchanged DEF IInv
  <2>4. TypeData' /\ RestCoversTodo' /\ ExecutedPrefix' /\ ChainSound'
    BY <2>2, <2>3 DEF IInv, TypeData, RestCoversTodo, ExecutedPrefix, ChainSound
  <2>5. QED
    BY <2>4, <2>2, <2>3, Zenon DEF IInv
<1>10. QED
  BY <1>1, <1>2, <1>3, <1>4, <1>5, <1>6, <1>7, <1>8, <1>9 DEF Next, CursorStep

LEMMA IInvSpec == Spec => []IInv
BY InitIInv, NextIInv, PTL DEF Spec

\* Type correctness of the cursor: every reachable state has TypeOK.
THEOREM TypeCorrect == Spec => []TypeOK
<1>1. IInv => TypeOK
  BY TypeSplit DEF IInv
<1>2. QED
  BY <1>1, IInvSpec, PTL

\* Whatever the arrival order of blocks, the main-chain executions of the
\* cursor are exactly hashElems[0..index-1] (spec 8, Ordering).
THEOREM ExecutedPrefixHolds == Spec => []ExecutedPrefix
BY IInvSpec, PTL DEF IInv

\* Every block the cursor inserts passed VerifyBlock and has its
\* dependencies in the chain (spec 3, dependency discipline).
THEOREM ChainSoundHolds == Spec => []ChainSound
BY IInvSpec, PTL DEF IInv

\* A cursor that reports IsFinished has executed the whole hash list.
THEOREM FinishedCompleteHolds == Spec => []FinishedComplete
<1>1. IInv => FinishedComplete
  <2> SUFFICES ASSUME IInv, finished PROVE mainChain = HashElems
    BY Zenon DEF FinishedComplete
  <2>1. index = Len(HashElems)
    BY Zenon DEF IInv, Control
  <2>2. SubSeq(HashElems, 1, Len(HashElems)) = HashElems
    BY SubSeqWhole
  <2>3. QED
    BY <2>1, <2>2 DEF IInv, ExecutedPrefix
<1>2. QED
  BY <1>1, IInvSpec, PTL

-----------------------------------------------------------------------------
(* Refinement: the cursor implements CursorAbstract under executed <-      *)
(* mainChain and done <- finished.  ExecMain is the abstract Execute       *)
(* (IInv says mainChain is the prefix of length index, so the target is    *)
(* the next element), EndLoop that finishes is Finish (index has reached   *)
(* the end, so the prefix is the whole list), every other step stutters.   *)

\* A step that leaves mainChain and finished alone is an abstract stutter.
LEMMA AbsStutter ==
  ASSUME mainChain' = mainChain, finished' = finished
  PROVE  [Abs!ANext]_Abs!absVars
BY Zenon DEF Abs!absVars

\* The prefix of length index is index long.
LEMMA PrefixLen ==
  ASSUME IInv PROVE Len(mainChain) = index
BY DEF IInv, ExecutedPrefix, TypeData

LEMMA StepRefines == IInv /\ [Next]_vars => [Abs!ANext]_Abs!absVars
<1> SUFFICES ASSUME IInv, [Next]_vars PROVE [Abs!ANext]_Abs!absVars
  OBVIOUS
<1>1. CASE Start
  BY <1>1, AbsStutter, Zenon DEF Start
<1>2. ASSUME NEW b \in Blocks, RejectBlock(b) PROVE [Abs!ANext]_Abs!absVars
  BY <1>2, AbsStutter, Zenon DEF RejectBlock
<1>3. ASSUME NEW b \in Blocks, ProcessBlock(b) PROVE [Abs!ANext]_Abs!absVars
  BY <1>3, AbsStutter, Zenon DEF ProcessBlock
<1>4. ASSUME NEW b \in Blocks, Skip(b) PROVE [Abs!ANext]_Abs!absVars
  BY <1>4, AbsStutter, Zenon DEF Skip
<1>5. ASSUME NEW b \in Blocks, InsertSide(b) PROVE [Abs!ANext]_Abs!absVars
  BY <1>5, AbsStutter, Zenon DEF InsertSide
<1>6. ASSUME NEW b \in Blocks, ExecMain(b) PROVE [Abs!ANext]_Abs!absVars
  <2>1. pc = "loop" /\ index < Len(HashElems)
    BY <1>6, VisitFacts DEF ExecMain
  <2>2. ~finished
    BY <2>1, LoopNotFinished DEF IInv
  <2>3. mainChain' = Append(mainChain, b) /\ b = HashElems[index + 1]
        /\ finished' = finished
    BY <1>6, Zenon DEF ExecMain, IsTarget, Target
  <2>4. /\ Len(mainChain) < Len(HashElems)
        /\ mainChain' = Append(mainChain, HashElems[Len(mainChain) + 1])
    BY <2>1, <2>3, PrefixLen
  <2>5. Abs!Execute
    BY <2>2, <2>3, <2>4, Zenon DEF Abs!Execute
  <2>6. QED
    BY <2>5 DEF Abs!ANext
<1>7. ASSUME NEW b \in Blocks, ExecMainFails(b) PROVE [Abs!ANext]_Abs!absVars
  BY <1>7, AbsStutter, Zenon DEF ExecMainFails
<1>8. CASE EndLoop
  <2>1. mainChain' = mainChain /\ pc # "idle"
    BY <1>8, Zenon DEF EndLoop
  <2>2. IF index >= Len(HashElems) THEN finished' = TRUE
                                  ELSE finished' = finished
    BY <1>8, Zenon DEF EndLoop, ListDone
  <2>3. CASE index >= Len(HashElems)
    <3>1. index = Len(HashElems)
      BY <2>3 DEF IInv, TypeData
    <3>2. mainChain = HashElems
      BY <3>1, SubSeqWhole DEF IInv, ExecutedPrefix
    <3>3. ~finished
      BY <2>1, LoopNotFinished DEF IInv
    <3>4. Abs!Finish
      BY <2>1, <2>2, <2>3, <3>2, <3>3, Zenon DEF Abs!Finish
    <3>5. QED
      BY <3>4 DEF Abs!ANext
  <2>4. CASE ~(index >= Len(HashElems))
    BY <2>1, <2>2, <2>4, AbsStutter, Zenon
  <2>5. QED
    BY <2>3, <2>4
<1>9. CASE UNCHANGED vars
  BY <1>9, AbsStutter, Zenon DEF vars
<1>10. QED
  BY <1>1, <1>2, <1>3, <1>4, <1>5, <1>6, <1>7, <1>8, <1>9 DEF Next, CursorStep

\* The cursor implements the abstract cursor: it executes the hash list in
\* order, one block at a time, and finishes only after its last element.
THEOREM RefinementHolds == Spec => CursorRefinement
<1>1. Init => Abs!AInit
  BY Zenon DEF Init, Abs!AInit
<1>2. QED
  BY <1>1, StepRefines, IInvSpec, PTL DEF Spec, CursorRefinement, Abs!ASpec

=============================================================================
