-------------------------- MODULE ExecutionProofs --------------------------
(***************************************************************************)
(* Theorems about managed memory, for any number of Tensors and            *)
(* allocations, any sizes and any budgets.  Three invariants, each resting *)
(* on those before it: the pins, the books (BInv), the values (ValuesOK).  *)
(***************************************************************************)
EXTENDS Execution, TLAPS, FiniteSetTheorems, SequenceTheorems

USE DEF vars, objects, books, policy

-----------------------------------------------------------------------------
(* Bytes.                                                                  *)

\* A finite set of allocations has a finite number of bytes.
LEMMA VolumeNat ==
  ASSUME NEW size, NEW S, IsFiniteSet(S)
  PROVE  /\ IsFiniteSet({c \in S \X (1 .. MaxSize) : c[2] <= size[c[1]]})
         /\ Volume(size, S) \in Nat
  <1>1. IsFiniteSet(1 .. MaxSize)
    BY FS_Interval, SizeAssumption
  <1>2. IsFiniteSet(S \X (1 .. MaxSize))
    BY <1>1, FS_Product
  <1> QED
    BY <1>2, FS_Subset, FS_CardinalityType DEF Volume

\* Subsets of Tensors and of Buffers are finite.
LEMMA SubsetsFinite ==
  /\ \A T \in SUBSET Tensors : IsFiniteSet(T) /\ FileBytes(T) \in Nat
  /\ \A B \in SUBSET Buffers : IsFiniteSet(B) /\ Bytes(B) \in Nat
  BY FiniteAssumption, FS_Subset, VolumeNat DEF Bytes, FileBytes

-----------------------------------------------------------------------------
(* Frames and the stack.                                                   *)

\* The top of a nonempty stack is a frame.
LEMMA TopType ==
  ASSUME TypeOK, stack # <<>>
  PROVE  Len(stack) \in Nat \ {0} /\ Top \in Frames
  BY EmptySeq, LenProperties, ElementOfSeq DEF TypeOK, Top

\* A method activation is a frame.
LEMMA FrameType ==
  ASSUME TypeOK, NEW kind \in {"create", "realize", "spill", "evict"},
         NEW t \in Tensors, NEW native \in BOOLEAN
  PROVE  Frame(kind, t, native) \in Frames
  <1>1. Frontier(t) \subseteq Tensors
    BY DEF Frontier, TypeOK
  <1> QED
    BY <1>1 DEF Frame, Frames

\* Entering a method keeps the policy's state well typed.
LEMMA EntersType ==
  ASSUME TypeOK, NEW f \in Frames, Enters(f)
  PROVE  /\ pins' \in [Tensors -> Int]
         /\ tracked' \subseteq Tensors
         /\ older' \subseteq Tensors \X Tensors
  <1>1. f.self \in Tensors /\ f.vals \subseteq Tensors
    BY DEF Frames
  <1>2. pins' \in [Tensors -> Int]
    BY DEF Enters, TypeOK
  <1>3. tracked' \subseteq Tensors
    BY <1>1 DEF Enters, TouchSet, TypeOK
  <1>4. older' \subseteq Tensors \X Tensors
    BY <1>1 DEF Enters, TouchOrder, TypeOK
  <1> QED
    BY <1>2, <1>3, <1>4

\* So does a call, which pushes a frame.
LEMMA CallType ==
  ASSUME TypeOK, NEW kind \in {"create", "realize", "spill", "evict"},
         NEW t \in Tensors, NEW native \in BOOLEAN, Call(kind, t, native)
  PROVE  /\ stack' \in Seq(Frames)
         /\ pins' \in [Tensors -> Int]
         /\ tracked' \subseteq Tensors
         /\ older' \subseteq Tensors \X Tensors
  <1>1. Frame(kind, t, native) \in Frames
    BY FrameType
  <1>2. stack' \in Seq(Frames)
    BY <1>1 DEF Call, TypeOK
  <1>3. Enters(Frame(kind, t, native))
    BY DEF Call
  <1> QED
    BY <1>1, <1>2, <1>3, EntersType

\* A return pops one.
LEMMA ReturnType ==
  ASSUME TypeOK, stack # <<>>, Return
  PROVE  /\ stack' \in Seq(Frames)
         /\ pins' \in [Tensors -> Int]
         /\ tracked' \subseteq Tensors
         /\ older' \subseteq Tensors \X Tensors
  <1>1. Top \in Frames /\ Len(stack) \in Nat \ {0}
    BY TopType
  <1>2. stack' \in Seq(Frames)
    <2>1. \A i \in 1 .. (Len(stack) - 1) : stack[i] \in Frames
      BY <1>1, ElementOfSeq DEF TypeOK
    <2> QED
      BY <1>1, <2>1, SubSeqProperties DEF Return
  <1>3. (IF inside THEN {Top.self} ELSE {}) \subseteq Tensors
    BY <1>1 DEF Frames
  <1>4. pins' \in [Tensors -> Int]
    BY DEF Return, TypeOK
  <1>5. tracked' \subseteq Tensors
    BY <1>3 DEF Return, TouchSet, TypeOK
  <1>6. older' \subseteq Tensors \X Tensors
    BY <1>3 DEF Return, TouchOrder, TypeOK
  <1> QED
    BY <1>2, <1>4, <1>5, <1>6

\* Changing a field of the top frame keeps the stack well typed.
LEMMA GotoType ==
  ASSUME TypeOK, stack # <<>>,
         NEW pc \in {"inputs", "reserve", "commit", "apply", "launch"}, Goto(pc)
  PROVE  stack' \in Seq(Frames)
  <1>1. Top \in Frames /\ Len(stack) \in Nat \ {0}
    BY TopType
  <1>2. [Top EXCEPT !.pc = pc] \in Frames
    BY <1>1 DEF Frames
  <1>3. stack' = [stack EXCEPT ![Len(stack)] = [Top EXCEPT !.pc = pc]]
    BY DEF Goto, Top
  <1> QED
    BY <1>1, <1>2, <1>3, ExceptSeq DEF TypeOK

-----------------------------------------------------------------------------
(* Exceptions and finalizers.                                              *)

\* Falling back changes a frame into a frame.
LEMMA FallbackType ==
  ASSUME NEW f \in Frames
  PROVE  Fallback(f) \in Frames
  <1>1. CASE inside
    BY <1>1 DEF Fallback, Frames
  <1>2. CASE ~inside
    BY <1>2 DEF Fallback, Frames
  <1> QED
    BY <1>1, <1>2

\* An exception that unwinds to the activation `kept' leaves well-typed frames.
LEMMA UnwindType ==
  ASSUME TypeOK, stack # <<>>, NEW kept \in 0 .. Len(stack), Unwind(kept)
  PROVE  /\ stack' \in Seq(Frames)
         /\ pins' \in [Tensors -> Int]
         /\ FileBytes(Abandoned(kept)) \in Nat
         /\ UNCHANGED <<inside, tracked, older>>
  <1> DEFINE left == (kept + 1) .. Len(stack)
  <1>2. Top \in Frames /\ Len(stack) \in Nat \ {0}
    BY TopType
  <1>3. \A i \in 1 .. Len(stack) : stack[i] \in Frames
    BY ElementOfSeq DEF TypeOK
  <1>4. left \subseteq 1 .. Len(stack) /\ IsFiniteSet(left)
    BY <1>2, FS_Interval
  <1>5. stack' \in Seq(Frames)
    <2>1. CASE kept = 0
      BY <2>1, EmptySeq DEF Unwind
    <2>2. CASE kept # 0
      <3>1. \A i \in 1 .. (kept - 1) : stack[i] \in Frames
        BY <1>2, <1>3
      <3>2. SubSeq(stack, 1, kept - 1) \in Seq(Frames)
        BY <1>2, <3>1, SubSeqProperties
      <3>3. stack[kept] \in Frames
        BY <1>2, <1>3, <2>2
      <3>4. Fallback(stack[kept]) \in Frames
        BY <3>3, FallbackType
      <3> QED
        BY <2>2, <3>2, <3>4 DEF Unwind
    <2> QED
      BY <2>1, <2>2
  <1>6. FileBytes(Abandoned(kept)) \in Nat
    BY SubsetsFinite DEF Abandoned
  <1>8. pins' \in [Tensors -> Int]
    <2>1. ASSUME NEW t \in Tensors
          PROVE  Cardinality({i \in left : t \in stack[i].vals}) \in Nat
      BY <1>4, FS_Subset, FS_CardinalityType
    <2>2. pins' = [t \in Tensors |->
                    pins[t] - Cardinality({i \in left : t \in stack[i].vals})]
      BY DEF Unwind
    <2>3. pins \in [Tensors -> Int]
      BY DEF TypeOK
    <2> HIDE DEF left
    <2> QED
      BY <2>1, <2>2, <2>3
  <1> QED
    BY <1>5, <1>6, <1>8 DEF Unwind

LEMMA RaiseType ==
  ASSUME TypeOK, stack # <<>>, Raise
  PROVE  TypeOK'
  <1>1. PICK kept \in 0 .. Len(stack) :
          /\ Unwind(kept) /\ nvme' = nvme - FileBytes(Abandoned(kept))
          /\ ram' = IF InRam(Top) /\ Refunded(Top) THEN ram - Size[Top.self] ELSE ram
          /\ UNCHANGED <<objects, leaked>>
    BY DEF Raise
  <1>2. /\ stack' \in Seq(Frames) /\ pins' \in [Tensors -> Int]
        /\ FileBytes(Abandoned(kept)) \in Nat /\ UNCHANGED <<inside, tracked, older>>
    BY <1>1, UnwindType
  <1>3. ram' \in Int
    <2>1. Top.self \in Tensors
      BY TopType DEF Frames
    <2>2. Size[Top.self] \in Int
      BY <2>1, SizeAssumption
    <2> QED
      BY <1>1, <2>2 DEF TypeOK
  <1>4. nvme' \in Int
    BY <1>1, <1>2 DEF TypeOK
  <1> QED
    BY <1>1, <1>2, <1>3, <1>4 DEF TypeOK

\* So do the finalizers.
LEMMA FinalizeType ==
  ASSUME TypeOK, NEW T \in SUBSET Tensors, NEW F \in SUBSET T, Finalize(T, F)
  PROVE  TypeOK'
  <1>1. Orphans(T) \subseteq Buffers
    BY DEF Orphans, Open
  <1>2. /\ Bytes(Orphans(T) \cap charged) \in Nat /\ FileBytes(F) \in Nat
        /\ FileBytes((T \ F) \cap fcharged) \in Nat
    BY <1>1, SubsetsFinite DEF TypeOK
  <1>3. ram' \in Int /\ nvme' \in Int /\ leaked' \in Nat
    BY <1>2 DEF Finalize, TypeOK
  <1>4. /\ operands' \in [Tensors -> SUBSET Tensors]
        /\ buf' \in [Tensors -> Buffers \cup {NoBuffer}]
        /\ spilled' \in [Tensors -> BOOLEAN]
        /\ fdata' \in [Tensors -> SUBSET Pages]
    BY DEF Finalize, Forget, TypeOK
  <1>5. bsize' \in [Buffers -> 0 .. MaxSize] /\ bdata' \in [Buffers -> SUBSET Pages]
    BY SizeAssumption DEF Finalize, Forget, TypeOK
  <1>6. /\ alive' \subseteq Tensors /\ garbage' \subseteq alive'
        /\ charged' \subseteq Buffers /\ fcharged' \subseteq Tensors
        /\ tracked' \subseteq Tensors /\ older' \subseteq Tensors \X Tensors
    BY DEF Finalize, TypeOK
  <1> QED
    BY <1>3, <1>4, <1>5, <1>6 DEF Finalize, TypeOK

\* And storing a fresh allocation.
LEMMA StoreType ==
  ASSUME TypeOK, stack # <<>>, NEW b \in Buffers, NEW data \in SUBSET Pages,
         Store(b, data)
  PROVE  /\ buf' \in [Tensors -> Buffers \cup {NoBuffer}]
         /\ charged' \subseteq Buffers /\ ram' \in Int
         /\ bsize' \in [Buffers -> 0 .. MaxSize]
         /\ bdata' \in [Buffers -> SUBSET Pages]
  <1> DEFINE old == {buf[Top.self]} \cap Orphans({Top.self})
  <1>1. Top \in Frames /\ Top.self \in Tensors
    BY TopType DEF Frames
  <1>2. old \subseteq Buffers
    BY DEF Orphans, Open
  <1>3. Bytes(old \cap charged) \in Nat
    BY <1>2, SubsetsFinite
  <1>4. Size[Top.self] \in 0 .. MaxSize
    BY <1>1, SizeAssumption
  <1>5. buf' \in [Tensors -> Buffers \cup {NoBuffer}]
    BY <1>1 DEF Store, TypeOK
  <1>6. charged' \subseteq Buffers /\ ram' \in Int
    BY <1>3 DEF Store, TypeOK
  <1>7. bsize' \in [Buffers -> 0 .. MaxSize]
    <2>1. Forget(bsize, old, 0) \in [Buffers -> 0 .. MaxSize]
      BY SizeAssumption DEF Forget, TypeOK
    <2>2. bsize' = [Forget(bsize, old, 0) EXCEPT ![b] = Size[Top.self]]
      BY DEF Store
    <2> QED
      BY <1>4, <2>1, <2>2
  <1>8. bdata' \in [Buffers -> SUBSET Pages]
    BY DEF Store, Forget, TypeOK
  <1> QED
    BY <1>5, <1>6, <1>7, <1>8

-----------------------------------------------------------------------------
(* Type correctness.                                                       *)

LEMMA InitType == Init => TypeOK
  <1> SUFFICES ASSUME Init PROVE TypeOK
    OBVIOUS
  <1>1. bsize \in [Buffers -> 0 .. MaxSize]
    BY SizeAssumption DEF Init
  <1>2. stack \in Seq(Frames)
    BY EmptySeq DEF Init
  <1>3. pins \in [Tensors -> Int] /\ ram \in Int /\ nvme \in Int /\ leaked \in Nat
    BY DEF Init
  <1> QED
    BY <1>1, <1>2, <1>3 DEF Init, TypeOK

\* Reading a file back does too, whether the file is then removed or not.
LEMMA ReadBackType ==
  ASSUME TypeOK, NEW b \in Buffers, ReadBack(b)
  PROVE  /\ buf' \in [Tensors -> Buffers \cup {NoBuffer}]
         /\ charged' \subseteq Buffers /\ ram' \in Int /\ fcharged' \subseteq Tensors
         /\ bsize' \in [Buffers -> 0 .. MaxSize]
         /\ bdata' \in [Buffers -> SUBSET Pages]
         /\ spilled' \in [Tensors -> BOOLEAN] /\ fdata' \in [Tensors -> SUBSET Pages]
         /\ FileBytes({Top.self} \cap fcharged) \in Nat
         /\ UNCHANGED <<inside, alive, garbage, operands>>
  <1>1. Top.self \in Tensors
    BY TopType DEF ReadBack, At, Frames
  <1>2. fdata[Top.self] \in SUBSET Pages
    BY <1>1 DEF TypeOK
  <1>3. /\ buf' \in [Tensors -> Buffers \cup {NoBuffer}]
        /\ charged' \subseteq Buffers /\ ram' \in Int
        /\ bsize' \in [Buffers -> 0 .. MaxSize] /\ bdata' \in [Buffers -> SUBSET Pages]
    BY <1>2, StoreType DEF ReadBack, At
  <1>4. spilled' \in [Tensors -> BOOLEAN] /\ fdata' \in [Tensors -> SUBSET Pages]
    BY DEF ReadBack, Forget, TypeOK
  <1>5. FileBytes({Top.self} \cap fcharged) \in Nat /\ fcharged' \subseteq Tensors
    BY <1>1, SubsetsFinite DEF ReadBack, TypeOK
  <1> QED
    BY <1>3, <1>4, <1>5 DEF ReadBack

\* Every step keeps the state well typed.
LEMMA TypeStep == TypeOK /\ [Next]_vars => TypeOK'
  <1> SUFFICES ASSUME TypeOK, [Next]_vars PROVE TypeOK'
    OBVIOUS
  <1>1. CASE Enter \/ Exit
    BY <1>1 DEF Enter, Exit, TypeOK
  <1>2. ASSUME NEW t \in Tensors, NEW ops \in SUBSET Tensors, CreateLazy(t, ops)
       PROVE  TypeOK'
    <2>1. tracked' \subseteq Tensors /\ older' \subseteq Tensors \X Tensors
      BY <1>2 DEF CreateLazy, TouchSet, TouchOrder, TypeOK
    <2>2. operands' \in [Tensors -> SUBSET Tensors]
      BY <1>2 DEF CreateLazy, TypeOK
    <2> QED
      BY <1>2, <2>1, <2>2 DEF CreateLazy, TypeOK
  <1>3. ASSUME NEW t \in Tensors, NEW base \in Tensors, CreateView(t, base)
       PROVE  TypeOK'
    <2>1. tracked' \subseteq Tensors /\ older' \subseteq Tensors \X Tensors
      BY <1>3 DEF CreateView, TouchSet, TouchOrder, TypeOK
    <2>2. operands' \in [Tensors -> SUBSET Tensors]
      BY <1>3 DEF CreateView, TypeOK
    <2>3. buf' \in [Tensors -> Buffers \cup {NoBuffer}]
      BY <1>3 DEF CreateView, TypeOK
    <2> QED
      BY <1>3, <2>1, <2>2, <2>3 DEF CreateView, TypeOK
  <1>4. ASSUME NEW t \in Tensors, Drop(t)
       PROVE  TypeOK'
    <2>1. PICK F \in SUBSET {t} : Finalize({t}, F)
      BY <1>4 DEF Drop
    <2> QED
      BY <2>1, FinalizeType
  <1>5. ASSUME NEW t \in Tensors, LoseInCycle(t)
       PROVE  TypeOK'
    BY <1>5 DEF LoseInCycle, TypeOK
  <1>6. CASE Collect
    <2>1. PICK F \in SUBSET garbage : Finalize(garbage, F)
      BY <1>6 DEF Collect
    <2>2. garbage \in SUBSET Tensors
      BY DEF TypeOK
    <2> QED
      BY <2>1, <2>2, FinalizeType
  <1>7. ASSUME NEW t \in Tensors, BeginCreate(t)
       PROVE  TypeOK'
    <2>1. /\ stack' \in Seq(Frames) /\ pins' \in [Tensors -> Int]
          /\ tracked' \subseteq Tensors /\ older' \subseteq Tensors \X Tensors
      BY <1>7, CallType DEF BeginCreate
    <2> QED
      BY <1>7, <2>1 DEF BeginCreate, TypeOK
  <1>8. ASSUME NEW t \in Tensors, NEW native \in BOOLEAN, BeginRealize(t, native)
       PROVE  TypeOK'
    <2>1. /\ stack' \in Seq(Frames) /\ pins' \in [Tensors -> Int]
          /\ tracked' \subseteq Tensors /\ older' \subseteq Tensors \X Tensors
      BY <1>8, CallType DEF BeginRealize
    <2> QED
      BY <1>8, <2>1 DEF BeginRealize, TypeOK
  <1>9. ASSUME NEW t \in Tensors, BeginSpill(t)
       PROVE  TypeOK'
    <2>1. /\ stack' \in Seq(Frames) /\ pins' \in [Tensors -> Int]
          /\ tracked' \subseteq Tensors /\ older' \subseteq Tensors \X Tensors
      BY <1>9, CallType DEF BeginSpill
    <2> QED
      BY <1>9, <2>1 DEF BeginSpill, TypeOK
  <1>10. ASSUME NEW v \in Tensors, MakeRoom(v)
       PROVE  TypeOK'
    <2>1. /\ stack' \in Seq(Frames) /\ pins' \in [Tensors -> Int]
          /\ tracked' \subseteq Tensors /\ older' \subseteq Tensors \X Tensors
      BY <1>10, CallType DEF MakeRoom
    <2> QED
      BY <1>10, <2>1 DEF MakeRoom, TypeOK
  <1>11. ASSUME NEW native \in BOOLEAN, MaterializeForSpill(native)
       PROVE  TypeOK'
    <2>1. Top.self \in Tensors
      BY <1>11, TopType DEF MaterializeForSpill, At, Frames
    <2>2. /\ stack' \in Seq(Frames) /\ pins' \in [Tensors -> Int]
          /\ tracked' \subseteq Tensors /\ older' \subseteq Tensors \X Tensors
      BY <1>11, <2>1, CallType DEF MaterializeForSpill
    <2> QED
      BY <1>11, <2>2 DEF MaterializeForSpill, TypeOK
  <1>12. ASSUME NEW v \in Tensors, RestoreInput(v)
       PROVE  TypeOK'
    <2> DEFINE caller == [Top EXCEPT !.todo = @ \ {v}]
               frame == Frame("realize", v, FALSE)
    <2>1. Top \in Frames /\ Len(stack) \in Nat \ {0}
      BY <1>12, TopType DEF RestoreInput, At
    <2>2. caller \in Frames
      BY <2>1 DEF Frames
    <2>3. [stack EXCEPT ![Len(stack)] = caller] \in Seq(Frames)
      BY <2>1, <2>2, ExceptSeq DEF TypeOK
    <2>4. frame \in Frames
      BY FrameType
    <2>5. stack' = Append([stack EXCEPT ![Len(stack)] = caller], frame)
      BY <1>12 DEF RestoreInput, Top
    <2>6. stack' \in Seq(Frames)
      <3> HIDE DEF caller, frame
      <3> QED
        BY <2>3, <2>4, <2>5
    <2>7. /\ pins' \in [Tensors -> Int]
          /\ tracked' \subseteq Tensors /\ older' \subseteq Tensors \X Tensors
      BY <1>12, <2>4, EntersType DEF RestoreInput
    <2> QED
      BY <1>12, <2>6, <2>7 DEF RestoreInput, TypeOK
  <1>13. CASE AlreadyResident
    <2>1. /\ stack' \in Seq(Frames) /\ pins' \in [Tensors -> Int]
          /\ tracked' \subseteq Tensors /\ older' \subseteq Tensors \X Tensors
      BY <1>13, ReturnType DEF AlreadyResident, At
    <2> QED
      BY <1>13, <2>1 DEF AlreadyResident, TypeOK
  <1>14. CASE AlreadySpilled
    BY <1>14, RaiseType DEF AlreadySpilled, At
  <1>15. CASE StartReserve
    <2>1. stack' \in Seq(Frames)
      BY <1>15, GotoType DEF StartReserve, At
    <2> QED
      BY <1>15, <2>1 DEF StartReserve, TypeOK
  <1>16. CASE ReserveRead
    <2> DEFINE frame == [Top EXCEPT !.pc = "commit", !.seen = LiveOf(Top) + Size[Top.self]]
    <2>1. Top \in Frames /\ Len(stack) \in Nat \ {0}
      BY <1>16, TopType DEF ReserveRead, At
    <2>2. LiveOf(Top) + Size[Top.self] \in Int
      BY <2>1, SizeAssumption DEF LiveOf, Frames, TypeOK
    <2>3. frame \in Frames
      BY <2>1, <2>2 DEF Frames
    <2>4. stack' = [stack EXCEPT ![Len(stack)] = frame]
      BY <1>16 DEF ReserveRead, Top
    <2>5. stack' \in Seq(Frames)
      BY <2>1, <2>3, <2>4, ExceptSeq DEF TypeOK
    <2> QED
      BY <1>16, <2>5 DEF ReserveRead, TypeOK
  <1>17. CASE ReserveCommit
    <2>1. Top.seen \in Int
      BY <1>17, TopType DEF ReserveCommit, At, Frames
    <2>2. stack' \in Seq(Frames)
      BY <1>17, GotoType DEF ReserveCommit, At
    <2> QED
      BY <1>17, <2>1, <2>2 DEF ReserveCommit, TypeOK
  <1>18. CASE OutOfMemory
    BY <1>18, RaiseType DEF OutOfMemory, At
  <1>19. ASSUME NEW b \in Buffers, FinishCreate(b)
       PROVE  TypeOK'
    <2>1. /\ stack' \in Seq(Frames) /\ pins' \in [Tensors -> Int]
          /\ tracked' \subseteq Tensors /\ older' \subseteq Tensors \X Tensors
      BY <1>19, ReturnType DEF FinishCreate, At
    <2>2. Top.self \in Tensors
      BY <1>19, TopType DEF FinishCreate, At, Frames
    <2>3. /\ buf' \in [Tensors -> Buffers \cup {NoBuffer}]
          /\ bsize' \in [Buffers -> 0 .. MaxSize] /\ bdata' \in [Buffers -> SUBSET Pages]
      <3>1. Size[Top.self] \in 0 .. MaxSize
        BY <2>2, SizeAssumption
      <3>2. buf' \in [Tensors -> Buffers \cup {NoBuffer}]
        BY <1>19 DEF FinishCreate, TypeOK
      <3>3. bsize' \in [Buffers -> 0 .. MaxSize]
        BY <1>19, <3>1 DEF FinishCreate, TypeOK
      <3>4. bdata' \in [Buffers -> SUBSET Pages]
        BY <1>19 DEF FinishCreate, TypeOK
      <3> QED
        BY <3>2, <3>3, <3>4
    <2>4. alive' \subseteq Tensors /\ garbage' \subseteq alive' /\ charged' \subseteq Buffers
      BY <1>19, <2>2 DEF FinishCreate, TypeOK
    <2> QED
      BY <1>19, <2>1, <2>3, <2>4 DEF FinishCreate, TypeOK
  <1>20. ASSUME NEW b \in Buffers, Reload(b)
       PROVE  TypeOK'
    <2>1. /\ stack' \in Seq(Frames) /\ pins' \in [Tensors -> Int]
          /\ tracked' \subseteq Tensors /\ older' \subseteq Tensors \X Tensors
      BY <1>20, ReturnType DEF Reload, ReadBack, At
    <2>2. nvme' \in Int
      BY <1>20, ReadBackType DEF Reload, TypeOK
    <2>3. ReadBack(b)
      BY <1>20 DEF Reload
    <2> QED
      BY <1>20, <2>1, <2>2, <2>3, ReadBackType DEF Reload, TypeOK
  <1>21. ASSUME NEW b \in Buffers, Evaluate(b)
       PROVE  TypeOK'
    <2>1. /\ stack' \in Seq(Frames) /\ pins' \in [Tensors -> Int]
          /\ tracked' \subseteq Tensors /\ older' \subseteq Tensors \X Tensors
      BY <1>21, ReturnType DEF Evaluate, At
    <2>2. Top.self \in Tensors
      BY <1>21, TopType DEF Evaluate, At, Frames
    <2> DEFINE data == IF buf[Top.self] = NoBuffer THEN Pages ELSE bdata[buf[Top.self]]
    <2>3. data \in SUBSET Pages
      BY <2>2 DEF TypeOK
    <2>4. Store(b, data)
      BY <1>21 DEF Evaluate
    <2>5. /\ buf' \in [Tensors -> Buffers \cup {NoBuffer}]
          /\ charged' \subseteq Buffers /\ ram' \in Int
          /\ bsize' \in [Buffers -> 0 .. MaxSize] /\ bdata' \in [Buffers -> SUBSET Pages]
      BY <1>21, <2>3, <2>4, StoreType DEF Evaluate, At
    <2> QED
      BY <1>21, <2>1, <2>5 DEF Evaluate, TypeOK
  <1>22. ASSUME NEW b \in Buffers, AllocateOutput(b)
       PROVE  TypeOK'
    <2>1. stack' \in Seq(Frames)
      BY <1>22, GotoType DEF AllocateOutput, At
    <2>2. {} \in SUBSET Pages
      OBVIOUS
    <2>3. /\ buf' \in [Tensors -> Buffers \cup {NoBuffer}]
          /\ charged' \subseteq Buffers /\ ram' \in Int
          /\ bsize' \in [Buffers -> 0 .. MaxSize] /\ bdata' \in [Buffers -> SUBSET Pages]
      BY <1>22, <2>2, StoreType DEF AllocateOutput, At
    <2> QED
      BY <1>22, <2>1, <2>3 DEF AllocateOutput, TypeOK
  <1>23. CASE Launch
    <2>1. /\ stack' \in Seq(Frames) /\ pins' \in [Tensors -> Int]
          /\ tracked' \subseteq Tensors /\ older' \subseteq Tensors \X Tensors
      BY <1>23, ReturnType DEF Launch, At
    <2>2. bdata' \in [Buffers -> SUBSET Pages]
      BY <1>23 DEF Launch, TypeOK
    <2> QED
      BY <1>23, <2>1, <2>2 DEF Launch, TypeOK
  <1>24. CASE Detach
    <2>1. /\ stack' \in Seq(Frames) /\ pins' \in [Tensors -> Int]
          /\ tracked' \subseteq Tensors /\ older' \subseteq Tensors \X Tensors
      BY <1>24, ReturnType DEF Detach, At
    <2>2. Top.self \in Tensors
      BY <1>24, TopType DEF Detach, At, Frames
    <2> DEFINE freed == {buf[Top.self]} \cap Orphans({Top.self})
    <2>3. freed \subseteq Buffers
      BY DEF Orphans, Open
    <2>4. Bytes(freed \cap charged) \in Nat
      BY <2>3, SubsetsFinite
    <2>5. ram' \in Int /\ charged' \subseteq Buffers /\ fcharged' \subseteq Tensors
      BY <1>24, <2>2, <2>4 DEF Detach, TypeOK
    <2>6. bdata[buf[Top.self]] \in SUBSET Pages
      BY <1>24, <2>2 DEF Detach, TypeOK
    <2>7. /\ spilled' \in [Tensors -> BOOLEAN] /\ fdata' \in [Tensors -> SUBSET Pages]
          /\ buf' \in [Tensors -> Buffers \cup {NoBuffer}]
      BY <1>24, <2>2, <2>6 DEF Detach, TypeOK
    <2>8. bsize' \in [Buffers -> 0 .. MaxSize] /\ bdata' \in [Buffers -> SUBSET Pages]
      BY <1>24, SizeAssumption DEF Detach, Forget, TypeOK
    <2> QED
      BY <1>24, <2>1, <2>5, <2>7, <2>8 DEF Detach, TypeOK
  <1>25. CASE IoFails \/ LaunchFails
    BY <1>25, RaiseType DEF IoFails, LaunchFails, At
  <1>26. CASE UNCHANGED vars
    BY <1>26 DEF TypeOK
  <1>27. CASE StoreFails
    <2>1. PICK kept \in 0 .. Len(stack) :
            Unwind(kept) /\ nvme' = Top.seen - FileBytes(Abandoned(kept))
      BY <1>27 DEF StoreFails
    <2>2. Top \in Frames /\ stack # <<>>
      BY <1>27, TopType DEF StoreFails, At
    <2>3. /\ stack' \in Seq(Frames) /\ pins' \in [Tensors -> Int]
          /\ FileBytes(Abandoned(kept)) \in Nat /\ UNCHANGED <<inside, tracked, older>>
      BY <2>1, <2>2, UnwindType
    <2>4. nvme' \in Int
      BY <2>1, <2>2, <2>3 DEF Frames
    <2>5. leaked' \in Nat
      BY <1>27, <2>2, SizeAssumption DEF StoreFails, Frames, TypeOK
    <2> QED
      BY <1>27, <2>3, <2>4, <2>5 DEF StoreFails, TypeOK
  <1>28. ASSUME NEW b \in Buffers, ReleaseFails(b)
       PROVE  TypeOK'
    <2>1. PICK kept \in 0 .. Len(stack) :
            Unwind(kept) /\ nvme' = nvme - FileBytes(Abandoned(kept))
      BY <1>28 DEF ReleaseFails
    <2>2. stack # <<>> /\ ReadBack(b)
      BY <1>28 DEF ReleaseFails, ReadBack, At
    <2>3. /\ stack' \in Seq(Frames) /\ pins' \in [Tensors -> Int]
          /\ FileBytes(Abandoned(kept)) \in Nat /\ UNCHANGED <<inside, tracked, older>>
      BY <2>1, <2>2, UnwindType
    <2>4. nvme' \in Int
      BY <2>1, <2>3 DEF TypeOK
    <2>5. leaked' \in Nat
      <3>1. FileBytes({Top.self} \cap fcharged) \in Nat
        BY <2>2, ReadBackType
      <3> QED
        BY <1>28, <3>1 DEF ReleaseFails, TypeOK
    <2>6. /\ buf' \in [Tensors -> Buffers \cup {NoBuffer}]
          /\ charged' \subseteq Buffers /\ ram' \in Int /\ fcharged' \subseteq Tensors
          /\ bsize' \in [Buffers -> 0 .. MaxSize]
          /\ bdata' \in [Buffers -> SUBSET Pages]
          /\ spilled' \in [Tensors -> BOOLEAN] /\ fdata' \in [Tensors -> SUBSET Pages]
          /\ UNCHANGED <<alive, garbage, operands>>
      BY <2>2, ReadBackType
    <2>7. /\ inside' \in BOOLEAN /\ alive' \subseteq Tensors /\ garbage' \subseteq alive'
          /\ operands' \in [Tensors -> SUBSET Tensors]
          /\ tracked' \subseteq Tensors /\ older' \subseteq Tensors \X Tensors
      BY <2>3, <2>6 DEF TypeOK
    <2>8. fcharged' \subseteq Tensors /\ charged' \subseteq Buffers
      BY <2>6
    <2> QED
      BY ONLY <2>3, <2>4, <2>5, <2>6, <2>7, <2>8 DEF TypeOK
  <1> QED
    BY <1>1, <1>2, <1>3, <1>4, <1>5, <1>6, <1>7, <1>8, <1>9, <1>10, <1>11, <1>12, <1>13, <1>14, <1>15, <1>16, <1>17, <1>18, <1>19, <1>20, <1>21, <1>22, <1>23, <1>24, <1>25, <1>26, <1>27, <1>28
    DEF Next, Program, Step

\* Tensor, buffer and execution state stays well typed, whatever fails.
THEOREM TypeCorrect == Spec => []TypeOK
  BY InitType, TypeStep, PTL DEF Spec

-----------------------------------------------------------------------------
(* Pins.                                                                   *)

\* The activations on the stack s that pin t.
Holders(s, t) == {i \in 1 .. Len(s) : t \in s[i].vals}

LEMMA PinCountHolders ==
  ASSUME NEW t PROVE PinCount(t) = Cardinality(Holders(stack, t))
  BY DEF PinCount, Holders

LEMMA HoldersFinite ==
  ASSUME NEW s \in Seq(Frames), NEW t
  PROVE  IsFiniteSet(Holders(s, t)) /\ Cardinality(Holders(s, t)) \in Nat
  <1>1. IsFiniteSet(1 .. Len(s))
    BY LenProperties, FS_Interval
  <1>2. Holders(s, t) \subseteq 1 .. Len(s)
    BY DEF Holders
  <1> QED
    BY <1>1, <1>2, FS_Subset, FS_CardinalityType

\* A pushed frame adds one pin to each of its values.
LEMMA PushPins ==
  ASSUME NEW s \in Seq(Frames), NEW f \in Frames, NEW t
  PROVE  Cardinality(Holders(Append(s, f), t))
           = Cardinality(Holders(s, t)) + (IF t \in f.vals THEN 1 ELSE 0)
  <1>1. Len(s) \in Nat /\ Len(Append(s, f)) = Len(s) + 1
    BY LenProperties
  <1>2. \A i \in 1 .. Len(s) + 1 :
          Append(s, f)[i] = IF i = Len(s) + 1 THEN f ELSE s[i]
    BY <1>1
  <1>3. Len(s) + 1 \notin Holders(s, t)
    BY <1>1 DEF Holders
  <1>4. CASE t \in f.vals
    <2>1. Holders(Append(s, f), t) = Holders(s, t) \cup {Len(s) + 1}
      BY <1>1, <1>2, <1>4 DEF Holders
    <2> QED
      BY <1>3, <1>4, <2>1, HoldersFinite, FS_AddElement
  <1>5. CASE t \notin f.vals
    <2>1. Holders(Append(s, f), t) = Holders(s, t)
      BY <1>1, <1>2, <1>5 DEF Holders
    <2> QED
      BY <1>5, <2>1, HoldersFinite
  <1> QED
    BY <1>4, <1>5

\* Cutting the stack down to k frames removes the pins of the others.
LEMMA CutPins ==
  ASSUME NEW s \in Seq(Frames), NEW k \in 0 .. Len(s), NEW t
  PROVE  Cardinality(Holders(SubSeq(s, 1, k), t))
           = Cardinality(Holders(s, t))
             - Cardinality({i \in (k + 1) .. Len(s) : t \in s[i].vals})
  <1> DEFINE left == {i \in (k + 1) .. Len(s) : t \in s[i].vals}
  <1>1. Len(s) \in Nat
    BY LenProperties
  <1>2. \A i \in 1 .. k : s[i] \in Frames
    BY <1>1, ElementOfSeq
  <1>3. Len(SubSeq(s, 1, k)) = k /\ \A i \in 1 .. k : SubSeq(s, 1, k)[i] = s[i]
    BY <1>1, <1>2, SubSeqProperties
  <1>4. Holders(SubSeq(s, 1, k), t) = Holders(s, t) \ left
    BY <1>1, <1>3 DEF Holders
  <1>5. Holders(s, t) \cap left = left
    BY <1>1 DEF Holders
  <1> QED
    BY <1>4, <1>5, HoldersFinite, FS_Difference

-----------------------------------------------------------------------------
\* Calls, returns and exceptions keep the pins balanced.
LEMMA CallPins ==
  ASSUME TypeOK, PinsBalanced, NEW kind \in {"create", "realize", "spill", "evict"},
         NEW t \in Tensors, NEW native \in BOOLEAN, Call(kind, t, native)
  PROVE  PinsBalanced'
  <1> DEFINE f == Frame(kind, t, native)
  <1>1. f \in Frames
    BY FrameType
  <1>2. stack' = Append(stack, f)
        /\ pins' = [u \in Tensors |-> pins[u] + (IF u \in f.vals THEN 1 ELSE 0)]
    BY DEF Call, Enters
  <1> HIDE DEF f
  <1>3. ASSUME NEW u \in Tensors
        PROVE  pins'[u] = Cardinality(Holders(stack', u))
    BY <1>1, <1>2, PushPins, PinCountHolders DEF PinsBalanced, TypeOK
  <1> QED
    BY <1>3 DEF PinsBalanced, PinCount, Holders

LEMMA ReturnPins ==
  ASSUME TypeOK, PinsBalanced, stack # <<>>, Return
  PROVE  PinsBalanced'
  <1> DEFINE n == Len(stack)
  <1>1. n \in Nat \ {0} /\ Top \in Frames
    BY TopType
  <1>2. /\ stack' = SubSeq(stack, 1, n - 1)
        /\ pins' = [u \in Tensors |-> pins[u] - (IF u \in Top.vals THEN 1 ELSE 0)]
    BY DEF Return
  <1>3. ASSUME NEW u \in Tensors
        PROVE  pins'[u] = Cardinality(Holders(stack', u))
    <2> DEFINE left == {i \in n .. n : u \in stack[i].vals}
    <2>1. left = IF u \in Top.vals THEN {n} ELSE {}
      BY <1>1 DEF Top
    <2>2. Cardinality(left) = IF u \in Top.vals THEN 1 ELSE 0
      BY <2>1, FS_Singleton, FS_EmptySet
    <2>3. Cardinality(Holders(stack', u)) = Cardinality(Holders(stack, u)) - Cardinality(left)
      <3>1. n - 1 \in 0 .. n /\ (n - 1) + 1 = n
        BY <1>1
      <3>2. stack \in Seq(Frames) /\ n = Len(stack)
        BY DEF TypeOK
      <3> HIDE DEF n
      <3>3. Cardinality(Holders(SubSeq(stack, 1, n - 1), u))
              = Cardinality(Holders(stack, u))
                - Cardinality({i \in ((n - 1) + 1) .. n : u \in stack[i].vals})
        BY <3>1, <3>2, CutPins
      <3> QED
        BY <1>2, <3>1, <3>3
    <2>4. pins[u] = Cardinality(Holders(stack, u))
      BY PinCountHolders DEF PinsBalanced
    <2>5. pins'[u] = pins[u] - (IF u \in Top.vals THEN 1 ELSE 0)
      BY <1>2
    <2> QED
      BY <2>2, <2>3, <2>4, <2>5
  <1> QED
    BY <1>3 DEF PinsBalanced, PinCount, Holders

LEMMA UnwindPins ==
  ASSUME TypeOK, PinsBalanced, stack # <<>>, NEW kept \in 0 .. Len(stack), Unwind(kept)
  PROVE  PinsBalanced'
  <1>2. Len(stack) \in Nat \ {0} /\ \A i \in 1 .. Len(stack) : stack[i] \in Frames
    BY TopType, ElementOfSeq DEF TypeOK
  <1>3. ASSUME NEW u \in Tensors
        PROVE  Holders(stack', u) = Holders(SubSeq(stack, 1, kept), u)
    <2>1. CASE kept = 0
      <3>1. stack' = <<>>
        BY <2>1 DEF Unwind
      <3>2. SubSeq(stack, 1, 0) = <<>>
        BY SubSeqEmpty
      <3> QED
        BY <2>1, <3>1, <3>2
    <2>2. CASE kept # 0
      <3> DEFINE low == SubSeq(stack, 1, kept - 1)
      <3>1. kept \in 1 .. Len(stack) /\ stack[kept] \in Frames
        BY <1>2, <2>2
      <3>2. /\ low \in Seq(Frames) /\ Len(low) = kept - 1
            /\ \A i \in 1 .. (kept - 1) : low[i] = stack[i]
        <4>1. \A i \in 1 .. (kept - 1) : stack[i] \in Frames
          BY <1>2, <3>1
        <4> QED
          BY <3>1, <4>1, SubSeqProperties
      <3>3. /\ SubSeq(stack, 1, kept) \in Seq(Frames) /\ Len(SubSeq(stack, 1, kept)) = kept
            /\ \A i \in 1 .. kept : SubSeq(stack, 1, kept)[i] = stack[i]
        <4>1. \A i \in 1 .. kept : stack[i] \in Frames
          BY <1>2, <3>1
        <4> QED
          BY <3>1, <4>1, SubSeqProperties
      <3>4. Fallback(stack[kept]).vals = stack[kept].vals
        BY <3>1 DEF Fallback, Frames
      <3>5. stack' = Append(low, Fallback(stack[kept]))
        BY <2>2 DEF Unwind
      <3> HIDE DEF low
      <3>6. Len(stack') = kept /\ \A i \in 1 .. kept : stack'[i].vals = stack[i].vals
        BY <3>1, <3>2, <3>4, <3>5
      <3> QED
        BY <3>3, <3>6 DEF Holders
    <2> QED
      BY <2>1, <2>2
  <1>4. ASSUME NEW u \in Tensors
        PROVE  pins'[u] = Cardinality(Holders(stack', u))
    <2>1. pins'[u] = pins[u]
            - Cardinality({i \in (kept + 1) .. Len(stack) : u \in stack[i].vals})
      BY DEF Unwind
    <2> QED
      BY <1>3, <2>1, CutPins, PinCountHolders DEF PinsBalanced, TypeOK
  <1> QED
    BY <1>4 DEF PinsBalanced, PinCount, Holders

\* A step that replaces the top frame by one with the same values.
LEMMA ReplacePins ==
  ASSUME TypeOK, PinsBalanced, stack # <<>>, NEW f \in Frames, f.vals = Top.vals,
         stack' = [stack EXCEPT ![Len(stack)] = f], UNCHANGED pins
  PROVE  PinsBalanced'
  <1>1. Len(stack) \in Nat \ {0} /\ Top \in Frames
    BY TopType
  <1>2. Len(stack') = Len(stack) /\ \A i \in 1 .. Len(stack) : stack'[i].vals = stack[i].vals
    BY <1>1, ExceptSeq DEF TypeOK, Top
  <1>3. ASSUME NEW u \in Tensors
        PROVE  Holders(stack', u) = Holders(stack, u)
    BY <1>1, <1>2 DEF Holders
  <1> QED
    BY <1>3 DEF PinsBalanced, PinCount, Holders

LEMMA GotoPins ==
  ASSUME TypeOK, PinsBalanced, stack # <<>>, UNCHANGED pins,
         NEW pc \in {"inputs", "reserve", "commit", "apply", "launch"}, Goto(pc)
  PROVE  PinsBalanced'
  <1> DEFINE f == [Top EXCEPT !.pc = pc]
  <1>1. f \in Frames /\ f.vals = Top.vals
    BY TopType DEF Frames
  <1>2. stack' = [stack EXCEPT ![Len(stack)] = f]
    BY DEF Goto, Top
  <1> QED
    BY <1>1, <1>2, ReplacePins

\* Steps that push no frame and pop none.
LEMMA StillPins ==
  ASSUME PinsBalanced, UNCHANGED <<pins, stack>>
  PROVE  PinsBalanced'
  BY DEF PinsBalanced, PinCount

\* Every step keeps the pins balanced.
LEMMA PinsStep == TypeOK /\ PinsBalanced /\ [Next]_vars => PinsBalanced'
  <1> SUFFICES ASSUME TypeOK, PinsBalanced, [Next]_vars PROVE PinsBalanced'
    OBVIOUS
  <1>1. CASE Enter \/ Exit \/ Collect
    BY <1>1, StillPins DEF Enter, Exit, Collect, Finalize
  <1>2. ASSUME NEW t \in Tensors, NEW ops \in SUBSET Tensors, CreateLazy(t, ops)
       PROVE  PinsBalanced'
    BY <1>2, StillPins DEF CreateLazy
  <1>3. ASSUME NEW t \in Tensors, NEW base \in Tensors, CreateView(t, base)
       PROVE  PinsBalanced'
    BY <1>3, StillPins DEF CreateView
  <1>4. ASSUME NEW t \in Tensors, Drop(t) \/ LoseInCycle(t)
       PROVE  PinsBalanced'
    BY <1>4, StillPins DEF Drop, LoseInCycle, Finalize
  <1>5. ASSUME NEW t \in Tensors, BeginCreate(t)
       PROVE  PinsBalanced'
    BY <1>5, CallPins DEF BeginCreate
  <1>6. ASSUME NEW t \in Tensors, NEW native \in BOOLEAN, BeginRealize(t, native)
       PROVE  PinsBalanced'
    BY <1>6, CallPins DEF BeginRealize
  <1>7. ASSUME NEW t \in Tensors, BeginSpill(t)
       PROVE  PinsBalanced'
    BY <1>7, CallPins DEF BeginSpill
  <1>8. ASSUME NEW v \in Tensors, MakeRoom(v)
       PROVE  PinsBalanced'
    BY <1>8, CallPins DEF MakeRoom
  <1>9. ASSUME NEW native \in BOOLEAN, MaterializeForSpill(native)
       PROVE  PinsBalanced'
    <2>1. Top.self \in Tensors
      BY <1>9, TopType DEF MaterializeForSpill, At, Frames
    <2> QED
      BY <1>9, <2>1, CallPins DEF MaterializeForSpill
  <1>10. ASSUME NEW v \in Tensors, RestoreInput(v)
       PROVE  PinsBalanced'
    <2> DEFINE caller == [Top EXCEPT !.todo = @ \ {v}]
               under  == [stack EXCEPT ![Len(stack)] = caller]
               frame  == Frame("realize", v, FALSE)
    <2>1. stack # <<>> /\ Top \in Frames /\ Len(stack) \in Nat \ {0}
      BY <1>10, TopType DEF RestoreInput, At
    <2>2. caller \in Frames /\ caller.vals = Top.vals
      BY <2>1 DEF Frames
    <2>3. /\ under \in Seq(Frames) /\ Len(under) = Len(stack)
          /\ \A i \in 1 .. Len(stack) : under[i].vals = stack[i].vals
      BY <2>1, <2>2, ExceptSeq DEF TypeOK, Top
    <2>4. frame \in Frames
      BY FrameType
    <2>5. stack' = Append(under, frame)
      BY <1>10 DEF RestoreInput, Top
    <2>6. pins' = [u \in Tensors |-> pins[u] + (IF u \in frame.vals THEN 1 ELSE 0)]
      BY <1>10 DEF RestoreInput, Enters
    <2> HIDE DEF caller, under, frame
    <2>7. ASSUME NEW u \in Tensors
          PROVE  pins'[u] = Cardinality(Holders(stack', u))
      <3>1. Holders(under, u) = Holders(stack, u)
        BY <2>3 DEF Holders
      <3>2. pins[u] = Cardinality(Holders(stack, u))
        BY PinCountHolders DEF PinsBalanced
      <3>3. Cardinality(Holders(stack', u))
              = Cardinality(Holders(under, u)) + (IF u \in frame.vals THEN 1 ELSE 0)
        BY <2>3, <2>4, <2>5, PushPins
      <3> QED
        BY <2>6, <3>1, <3>2, <3>3
    <2> QED
      BY <2>7 DEF PinsBalanced, PinCount, Holders
  <1>11. CASE AlreadyResident \/ Launch \/ Detach
    BY <1>11, ReturnPins DEF AlreadyResident, Launch, Detach, At
  <1>12. ASSUME NEW b \in Buffers, FinishCreate(b) \/ Reload(b) \/ Evaluate(b)
       PROVE  PinsBalanced'
    BY <1>12, ReturnPins DEF FinishCreate, Reload, ReadBack, Evaluate, At
  <1>13. CASE AlreadySpilled \/ OutOfMemory \/ IoFails \/ LaunchFails
    <2>1. stack # <<>> /\ Raise
      BY <1>13 DEF AlreadySpilled, OutOfMemory, IoFails, LaunchFails, At
    <2> QED
      BY <2>1, UnwindPins DEF Raise
  <1>14. CASE StartReserve \/ ReserveCommit
    BY <1>14, GotoPins DEF StartReserve, ReserveCommit, At
  <1>15. ASSUME NEW b \in Buffers, AllocateOutput(b)
       PROVE  PinsBalanced'
    BY <1>15, GotoPins DEF AllocateOutput, At
  <1>16. CASE ReserveRead
    <2> DEFINE frame == [Top EXCEPT !.pc = "commit", !.seen = LiveOf(Top) + Size[Top.self]]
    <2>1. stack # <<>> /\ Top \in Frames
      BY <1>16, TopType DEF ReserveRead, At
    <2>2. LiveOf(Top) + Size[Top.self] \in Int
      BY <2>1, SizeAssumption DEF LiveOf, Frames, TypeOK
    <2>3. frame \in Frames /\ frame.vals = Top.vals
      BY <2>1, <2>2 DEF Frames
    <2>4. stack' = [stack EXCEPT ![Len(stack)] = frame] /\ UNCHANGED pins
      BY <1>16 DEF ReserveRead, Top
    <2> HIDE DEF frame
    <2> QED
      BY <2>1, <2>3, <2>4, ReplacePins
  <1>17. CASE UNCHANGED vars
    BY <1>17, StillPins
  <1>18. CASE StoreFails
    BY <1>18, UnwindPins DEF StoreFails, At
  <1>19. ASSUME NEW b \in Buffers, ReleaseFails(b)
       PROVE  PinsBalanced'
    BY <1>19, UnwindPins DEF ReleaseFails, ReadBack, At
  <1> QED
    BY <1>1, <1>2, <1>3, <1>4, <1>5, <1>6, <1>7, <1>8, <1>9, <1>10, <1>11, <1>12, <1>13, <1>14, <1>15, <1>16, <1>17, <1>18, <1>19
    DEF Next, Program, Step

LEMMA InitPins == Init => PinsBalanced
  <1> SUFFICES ASSUME Init, NEW t \in Tensors PROVE pins[t] = PinCount(t)
    BY DEF PinsBalanced
  <1>1. {i \in 1 .. Len(stack) : t \in stack[i].vals} = {}
    BY DEF Init
  <1> QED
    BY <1>1, FS_EmptySet DEF Init, PinCount

\* A Tensor is pinned once for each operation in progress that needs it, and by
\* nothing once no operation is: a failure anywhere in a nest of restores,
\* evictions and fallbacks leaves no pin behind.
THEOREM PinsAlwaysBalanced == Spec => []PinsBalanced
  <1>1. Init => TypeOK /\ PinsBalanced
    BY InitType, InitPins
  <1>2. TypeOK /\ PinsBalanced /\ [Next]_vars => (TypeOK /\ PinsBalanced)'
    BY TypeStep, PinsStep
  <1> QED
    BY <1>1, <1>2, PTL DEF Spec

-----------------------------------------------------------------------------
(***************************************************************************)
(* The books: the counters of an execution cover the bytes really in use   *)
(* and stay within the budgets.                                            *)
(***************************************************************************)

-----------------------------------------------------------------------------
(* The inductive invariant.                                                *)

\* A Tensor that does not exist has nothing; expressions refer to Tensors that
\* are in use; a charged allocation is held by a Tensor, a charged file by one
\* that is spilled.
ObjectsOK ==
  /\ \A t \in Tensors \ alive : buf[t] = NoBuffer /\ ~spilled[t] /\ operands[t] = {}
  /\ \A u \in alive : operands[u] \subseteq alive \ garbage
  /\ charged \subseteq Open
  /\ \A t \in fcharged : spilled[t]

\* An activation, when `exist' are the Tensors there are and `used' those that
\* are not garbage: it works on Tensors that are used, and what it spills is
\* not spilled yet.
ActivationOK(f, in, exist, used, sp) ==
  /\ f.kind = "create" => f.self \notin exist
  /\ f.kind # "create" => f.self \in used /\ (in => f.self \in f.vals)
  /\ f.todo \subseteq used
  /\ f.native => f.kind = "realize"
  /\ f.pc \in {"reserve", "commit"} => in
  /\ in /\ ~InRam(f) /\ f.pc # "inputs" => ~sp[f.self]

\* The places where an activation can call another.
Waits(f) == f.pc \in {"inputs", "reserve"} \/ (f.pc = "apply" /\ ~InRam(f))

\* Only the bottom activation creates, those below the top wait, and inside a
\* scope no two spill one Tensor.
WellStacked(s, in, exist, used, sp) ==
  /\ \A i \in 1 .. Len(s) : ActivationOK(s[i], in, exist, used, sp)
  /\ \A i \in 1 .. Len(s) : s[i].kind = "create" => i = 1
  /\ \A i \in 1 .. Len(s) - 1 : Waits(s[i])
  /\ in => \A i, j \in 1 .. Len(s) :
       ~InRam(s[i]) /\ ~InRam(s[j]) /\ s[i].self = s[j].self => i = j

StackOK == WellStacked(stack, inside, alive, alive \ garbage, spilled)

\* The files in use and what failures have left reserved.
HeldNvme == LiveNvme + leaked

\* Bytes there will be when the reservation of f is stored.
Needed(f) == (IF InRam(f) THEN LiveRam ELSE HeldNvme) + Size[f.self]

\* The counters cover the bytes held and stay within the budgets; between the
\* two halves of reserve, so does the total that was read.
BooksOK ==
  /\ LiveRam <= ram /\ ram <= RamBudget /\ HeldNvme <= nvme /\ nvme <= NvmeBudget
  /\ ~GcInReserve => ram = LiveRam /\ nvme = HeldNvme
  /\ At("commit") => /\ Needed(Top) <= Top.seen /\ Top.seen <= Limit(Top)
                     /\ ~GcInReserve => Top.seen = Needed(Top)

BInv == TypeOK /\ PinsBalanced /\ ObjectsOK /\ StackOK /\ BooksOK

-----------------------------------------------------------------------------
(* Bytes.                                                                  *)

\* Disjoint finite sets have as many members together as apart.
LEMMA DisjointSum ==
  ASSUME NEW A, NEW B, IsFiniteSet(A), IsFiniteSet(B), A \cap B = {}
  PROVE  Cardinality(A \cup B) = Cardinality(A) + Cardinality(B)
  <1>1. Cardinality(A \cup B) = Cardinality(A) + Cardinality(B) - Cardinality(A \cap B)
    BY FS_Union
  <1>2. Cardinality(A \cap B) = 0
    BY FS_EmptySet
  <1>3. Cardinality(A) \in Nat /\ Cardinality(B) \in Nat
    BY FS_CardinalityType
  <1> QED BY <1>1, <1>2, <1>3

\* The bytes of disjoint sets add up.
LEMMA VolumeUnion ==
  ASSUME NEW size, NEW S, NEW T, IsFiniteSet(S), IsFiniteSet(T), S \cap T = {}
  PROVE  Volume(size, S \cup T) = Volume(size, S) + Volume(size, T)
  <1> DEFINE C(R) == {c \in R \X (1 .. MaxSize) : c[2] <= size[c[1]]}
  <1>1. IsFiniteSet(C(S)) /\ IsFiniteSet(C(T))
    BY VolumeNat
  <1>2. C(S \cup T) = C(S) \cup C(T) /\ C(S) \cap C(T) = {}
    OBVIOUS
  <1> HIDE DEF C
  <1>3. Cardinality(C(S) \cup C(T)) = Cardinality(C(S)) + Cardinality(C(T))
    BY <1>1, <1>2, DisjointSum
  <1> QED BY <1>2, <1>3 DEF C, Volume

\* One allocation has the bytes of its size.
LEMMA VolumeOne ==
  ASSUME NEW size, NEW x, size[x] \in 0 .. MaxSize
  PROVE  Volume(size, {x}) = size[x]
  <1> DEFINE C == {c \in {x} \X (1 .. MaxSize) : c[2] <= size[c[1]]}
             D == {x} \X (1 .. size[x])
  <1>1. C = D
    <2>1. ASSUME NEW c PROVE c \in C <=> c \in D
      <3>1. CASE c \in {x} \X (1 .. MaxSize)
        <4>1. c[1] = x /\ c[2] \in 1 .. MaxSize /\ c = <<x, c[2]>>
          BY <3>1
        <4>2. c \in D <=> c[2] \in 1 .. size[x]
          BY <4>1
        <4>3. c[2] \in 1 .. size[x] <=> c[2] <= size[x]
          BY <4>1, SizeAssumption
        <4> QED BY <3>1, <4>1, <4>2, <4>3
      <3>2. CASE c \notin {x} \X (1 .. MaxSize)
        <4>1. 1 .. size[x] \subseteq 1 .. MaxSize
          BY SizeAssumption
        <4> QED BY <3>2, <4>1
      <3> QED BY <3>1, <3>2
    <2> QED BY <2>1
  <1>2. IsFiniteSet({x}) /\ Cardinality({x}) = 1
    BY FS_Singleton
  <1>3. size[x] \in Nat
    BY SizeAssumption
  <1>4. ASSUME NEW n \in Nat
        PROVE  Cardinality({x} \X (1 .. n)) = n
    <2>1. IsFiniteSet(1 .. n) /\ Cardinality(1 .. n) = n
      BY FS_Interval
    <2>2. Cardinality({x} \X (1 .. n)) = Cardinality({x}) * Cardinality(1 .. n)
      BY <1>2, <2>1, FS_Product
    <2> QED BY <1>2, <2>1, <2>2
  <1> QED BY <1>1, <1>3, <1>4 DEF Volume

\* The bytes of a set depend on the sizes of its members only.
LEMMA VolumeSame ==
  ASSUME NEW size, NEW other, NEW S, \A x \in S : size[x] = other[x]
  PROVE  Volume(size, S) = Volume(other, S)
  <1> DEFINE C(f) == {c \in S \X (1 .. MaxSize) : c[2] <= f[c[1]]}
  <1>1. ASSUME NEW c \in S \X (1 .. MaxSize) PROVE size[c[1]] = other[c[1]]
    <2>1. c[1] \in S
      OBVIOUS
    <2> QED BY <2>1
  <1>2. C(size) = C(other)
    BY <1>1
  <1> QED BY <1>2 DEF Volume

\* No allocation, no bytes.
LEMMA VolumeNone == ASSUME NEW size PROVE Volume(size, {}) = 0
  <1> DEFINE C == {c \in {} \X (1 .. MaxSize) : c[2] <= size[c[1]]}
  <1>1. {} \X (1 .. MaxSize) = {}
    BY Zenon
  <1>2. C = {}
    BY <1>1
  <1> QED BY <1>2, FS_EmptySet DEF Volume

\* A part of a finite set has part of its bytes.
LEMMA VolumeRest ==
  ASSUME NEW size, NEW S, IsFiniteSet(S), NEW T \in SUBSET S
  PROVE  /\ Volume(size, S) \in Nat /\ Volume(size, T) \in Nat /\ Volume(size, S \ T) \in Nat
         /\ Volume(size, S \ T) = Volume(size, S) - Volume(size, T)
  <1>1. IsFiniteSet(T) /\ IsFiniteSet(S \ T)
    BY FS_Subset
  <1>2. (S \ T) \cup T = S /\ (S \ T) \cap T = {}
    OBVIOUS
  <1>3. Volume(size, S) = Volume(size, S \ T) + Volume(size, T)
    BY <1>1, <1>2, VolumeUnion
  <1>4. Volume(size, S) \in Nat /\ Volume(size, T) \in Nat /\ Volume(size, S \ T) \in Nat
    BY <1>1, VolumeNat
  <1> QED BY <1>3, <1>4

-----------------------------------------------------------------------------
(* Reservations that are not attached to an allocation or a file yet.      *)

PendRam(s, in) ==
  IF s # <<>> /\ InRam(s[Len(s)]) /\ in /\ s[Len(s)].pc = "apply" THEN Size[s[Len(s)].self] ELSE 0

PendFiles(s, in) ==
  {t \in Tensors : \E i \in 1 .. Len(s) :
     s[i].self = t /\ ~InRam(s[i]) /\ in /\ s[i].pc = "apply"}

\* The bytes in use are those that are charged and those reserved for later.
LEMMA LiveIs ==
  ASSUME ObjectsOK
  PROVE  /\ LiveRam = Volume(bsize, charged) + PendRam(stack, inside)
         /\ LiveNvme = Volume(Size, fcharged) + Volume(Size, PendFiles(stack, inside))
  <1>1. Open \cap charged = charged
    BY DEF ObjectsOK
  <1>2. PendingRam = PendRam(stack, inside)
    BY DEF PendingRam, PendRam, Pending, Top
  <1>3. PendingFiles = PendFiles(stack, inside)
    BY DEF PendingFiles, PendFiles, Pending
  <1> QED BY <1>1, <1>2, <1>3 DEF LiveRam, LiveNvme, Bytes, FileBytes

\* The same after a step.
LEMMA LiveIsNext ==
  ASSUME ObjectsOK'
  PROVE  /\ LiveRam' = Volume(bsize', charged') + PendRam(stack', inside')
         /\ LiveNvme' = Volume(Size, fcharged') + Volume(Size, PendFiles(stack', inside'))
  <1>1. (Open \cap charged)' = charged'
    BY DEF ObjectsOK
  <1>2. PendingRam' = PendRam(stack', inside')
    BY DEF PendingRam, PendRam, Pending, Top
  <1>3. PendingFiles' = PendFiles(stack', inside')
    BY DEF PendingFiles, PendFiles, Pending
  <1> QED BY <1>1, <1>2, <1>3 DEF LiveRam, LiveNvme, Bytes, FileBytes

\* What is reserved for is a number of bytes and a finite set of files.
LEMMA PendNat ==
  ASSUME NEW s \in Seq(Frames), NEW in
  PROVE  /\ PendRam(s, in) \in Nat
         /\ PendFiles(s, in) \in SUBSET Tensors /\ IsFiniteSet(PendFiles(s, in))
         /\ Volume(Size, PendFiles(s, in)) \in Nat
  <1>1. s # <<>> => s[Len(s)].self \in Tensors
    <2>1. s # <<>> => Len(s) \in 1 .. Len(s)
      BY EmptySeq
    <2>2. s # <<>> => s[Len(s)] \in Frames
      BY <2>1, ElementOfSeq
    <2> QED BY <2>2 DEF Frames
  <1>2. PendRam(s, in) \in Nat
    BY <1>1, SizeAssumption DEF PendRam
  <1>3. PendFiles(s, in) \in SUBSET Tensors
    BY DEF PendFiles
  <1>4. IsFiniteSet(PendFiles(s, in))
    BY <1>3, SubsetsFinite
  <1> QED BY <1>2, <1>3, <1>4, VolumeNat

\* A pushed activation.
LEMMA PendPush ==
  ASSUME NEW s \in Seq(Frames), NEW f \in Frames, NEW in
  PROVE  /\ PendRam(Append(s, f), in) =
              IF InRam(f) /\ in /\ f.pc = "apply" THEN Size[f.self] ELSE 0
         /\ PendFiles(Append(s, f), in) = PendFiles(s, in) \cup
              (IF ~InRam(f) /\ in /\ f.pc = "apply" THEN {f.self} ELSE {})
  <1> DEFINE u == Append(s, f)
  <1>1. /\ Len(s) \in Nat /\ u # <<>> /\ Len(u) = Len(s) + 1 /\ u[Len(s) + 1] = f
        /\ \A i \in 1 .. Len(s) : u[i] = s[i]
    BY LenProperties, AppendProperties
  <1> HIDE DEF u
  <1>2. PendRam(u, in) = IF InRam(f) /\ in /\ f.pc = "apply" THEN Size[f.self] ELSE 0
    BY <1>1 DEF PendRam
  <1>3. ASSUME NEW t \in Tensors
        PROVE  t \in PendFiles(u, in) <=>
                 t \in PendFiles(s, in) \/ (t = f.self /\ ~InRam(f) /\ in /\ f.pc = "apply")
    <2>1. \A i \in 1 .. Len(u) : i \in 1 .. Len(s) \/ i = Len(u)
      BY <1>1
    <2>2. 1 .. Len(s) \subseteq 1 .. Len(u) /\ Len(u) \in 1 .. Len(u)
      BY <1>1
    <2> QED BY <1>1, <2>1, <2>2 DEF PendFiles
  <1>4. f.self \in Tensors
    BY DEF Frames
  <1>5. PendFiles(u, in) = PendFiles(s, in) \cup
          (IF ~InRam(f) /\ in /\ f.pc = "apply" THEN {f.self} ELSE {})
    <2>1. PendFiles(u, in) \subseteq Tensors /\ PendFiles(s, in) \subseteq Tensors
      BY DEF PendFiles
    <2> QED BY <1>3, <1>4, <2>1
  <1> QED BY <1>2, <1>5 DEF u

\* The stack cut down to k activations.
LEMMA CutSeq ==
  ASSUME NEW s \in Seq(Frames), NEW k \in 0 .. Len(s)
  PROVE  /\ SubSeq(s, 1, k) \in Seq(Frames) /\ Len(SubSeq(s, 1, k)) = k
         /\ \A i \in 1 .. k : SubSeq(s, 1, k)[i] = s[i]
  <1>1. Len(s) \in Nat /\ \A i \in 1 .. k : s[i] \in Frames
    BY LenProperties, ElementOfSeq
  <1>2. k \in Nat
    BY <1>1
  <1>3. /\ SubSeq(s, 1, k) \in Seq(Frames)
        /\ Len(SubSeq(s, 1, k)) = IF 1 <= k THEN k - 1 + 1 ELSE 0
        /\ \A i \in 1 .. k - 1 + 1 : SubSeq(s, 1, k)[i] = s[1 + i - 1]
    BY <1>1, <1>2, SubSeqProperties
  <1> QED BY <1>2, <1>3

\* A cut gives up the reservations of the activations that are cut off.
LEMMA PendCut ==
  ASSUME NEW s \in Seq(Frames), NEW k \in 0 .. Len(s), NEW in,
         \A i \in 1 .. Len(s) - 1 : Waits(s[i]),
         in => \A i, j \in 1 .. Len(s) :
                 ~InRam(s[i]) /\ ~InRam(s[j]) /\ s[i].self = s[j].self => i = j
  PROVE  /\ k < Len(s) => PendRam(SubSeq(s, 1, k), in) = 0
         /\ PendFiles(SubSeq(s, 1, k), in) = PendFiles(s, in) \
              {t \in Tensors : \E i \in (k + 1) .. Len(s) :
                 s[i].self = t /\ ~InRam(s[i]) /\ in /\ s[i].pc = "apply"}
  <1> DEFINE u == SubSeq(s, 1, k)
  <1>1. Len(s) \in Nat /\ Len(u) = k /\ \A i \in 1 .. k : u[i] = s[i]
    BY CutSeq, LenProperties
  <1> HIDE DEF u
  <1>2. ASSUME k < Len(s) PROVE PendRam(u, in) = 0
    <2>1. k # 0 => Waits(s[k])
      BY <1>1, <1>2
    <2>2. u # <<>> => k # 0
      BY <1>1, EmptySeq
    <2> QED BY <1>1, <2>1, <2>2 DEF PendRam, Waits
  <1>3. ASSUME NEW t \in Tensors
        PROVE  t \in PendFiles(u, in) <=>
                 /\ t \in PendFiles(s, in)
                 /\ ~ \E i \in (k + 1) .. Len(s) :
                        s[i].self = t /\ ~InRam(s[i]) /\ in /\ s[i].pc = "apply"
    <2>1. \A i \in 1 .. Len(s) : i \in 1 .. k <=> i \notin (k + 1) .. Len(s)
      BY <1>1
    <2>2. 1 .. k \subseteq 1 .. Len(s) /\ (k + 1) .. Len(s) \subseteq 1 .. Len(s)
      BY <1>1
    <2> QED BY <1>1, <2>1, <2>2 DEF PendFiles
  <1>4. PendFiles(u, in) \subseteq Tensors /\ PendFiles(s, in) \subseteq Tensors
    BY DEF PendFiles
  <1> QED BY <1>2, <1>3, <1>4 DEF u

-----------------------------------------------------------------------------
(* The stack.                                                              *)

\* A call.
LEMMA WellPush ==
  ASSUME NEW s \in Seq(Frames), NEW f \in Frames, NEW in,
         NEW exist, NEW used, NEW sp,
         WellStacked(s, in, exist, used, sp), ActivationOK(f, in, exist, used, sp),
         f.kind = "create" => s = <<>>,
         s # <<>> => Waits(s[Len(s)]),
         in /\ ~InRam(f) => \A i \in 1 .. Len(s) : ~InRam(s[i]) => s[i].self # f.self
  PROVE  WellStacked(Append(s, f), in, exist, used, sp)
  <1> DEFINE u == Append(s, f)
             n == Len(s)
  <1>1. /\ n \in Nat /\ Len(u) = n + 1 /\ u[n + 1] = f
        /\ \A i \in 1 .. n : u[i] = s[i]
    BY LenProperties, AppendProperties
  <1>2. s = <<>> <=> n = 0
    BY EmptySeq
  <1> HIDE DEF u
  <1>3. \A i \in 1 .. Len(u) : i \in 1 .. n \/ i = n + 1
    BY <1>1
  <1>4. \A i \in 1 .. Len(u) : ActivationOK(u[i], in, exist, used, sp)
    BY <1>1, <1>3 DEF WellStacked
  <1>5. \A i \in 1 .. Len(u) : u[i].kind = "create" => i = 1
    BY <1>1, <1>2, <1>3 DEF WellStacked
  <1>6. \A i \in 1 .. Len(u) - 1 : Waits(u[i])
    <2>1. ASSUME NEW i \in 1 .. n PROVE Waits(s[i])
      <3>1. i = n \/ i \in 1 .. n - 1
        BY <1>1
      <3>2. s # <<>>
        BY <1>1, <1>2
      <3> QED BY <3>1, <3>2 DEF WellStacked
    <2> QED BY <1>1, <2>1
  <1>7. in => \A i, j \in 1 .. Len(u) :
          ~InRam(u[i]) /\ ~InRam(u[j]) /\ u[i].self = u[j].self => i = j
    BY <1>1, <1>3 DEF WellStacked
  <1> QED BY <1>4, <1>5, <1>6, <1>7 DEF WellStacked, u

\* A return, or an exception.
LEMMA WellCut ==
  ASSUME NEW s \in Seq(Frames), NEW k \in 0 .. Len(s), NEW in,
         NEW exist, NEW used, NEW sp,
         WellStacked(s, in, exist, used, sp)
  PROVE  WellStacked(SubSeq(s, 1, k), in, exist, used, sp)
  <1> DEFINE u == SubSeq(s, 1, k)
  <1>1. Len(s) \in Nat /\ Len(u) = k /\ \A i \in 1 .. k : u[i] = s[i]
    BY CutSeq, LenProperties
  <1>2. 1 .. k \subseteq 1 .. Len(s) /\ 1 .. k - 1 \subseteq 1 .. Len(s) - 1
        /\ 1 .. k - 1 \subseteq 1 .. k
    BY <1>1
  <1> HIDE DEF u
  <1> QED BY <1>1, <1>2 DEF WellStacked, u

\* A change of the top activation.
LEMMA WellPut ==
  ASSUME NEW s \in Seq(Frames), s # <<>>, NEW f \in Frames, NEW in,
         NEW exist, NEW used, NEW sp,
         WellStacked(s, in, exist, used, sp), ActivationOK(f, in, exist, used, sp),
         f.kind = s[Len(s)].kind, f.self = s[Len(s)].self
  PROVE  WellStacked([s EXCEPT ![Len(s)] = f], in, exist, used, sp)
  <1> DEFINE n == Len(s)
             u == [s EXCEPT ![n] = f]
  <1>1. n \in Nat \ {0} /\ n \in 1 .. n
    BY EmptySeq
  <1>2. /\ Len(u) = n /\ u[n] = f
        /\ \A i \in 1 .. n : u[i] = IF i = n THEN f ELSE s[i]
    BY <1>1, ExceptSeq
  <1>3. \A i \in 1 .. n : u[i].kind = s[i].kind /\ u[i].self = s[i].self
    BY <1>2
  <1>4. \A i \in 1 .. n : InRam(u[i]) <=> InRam(s[i])
    BY <1>3 DEF InRam
  <1>5. \A i \in 1 .. n - 1 : i \in 1 .. n /\ i # n
    BY <1>1
  <1> HIDE DEF u
  <1>6. \A i \in 1 .. n : ActivationOK(u[i], in, exist, used, sp)
    BY <1>2 DEF WellStacked
  <1>7. \A i \in 1 .. n - 1 : Waits(u[i])
    BY <1>2, <1>5 DEF WellStacked
  <1>8. \A i \in 1 .. n : u[i].kind = "create" => i = 1
    BY <1>3 DEF WellStacked
  <1>9. in => \A i, j \in 1 .. n :
          ~InRam(u[i]) /\ ~InRam(u[j]) /\ u[i].self = u[j].self => i = j
    BY <1>3, <1>4 DEF WellStacked
  <1> QED BY <1>2, <1>6, <1>7, <1>8, <1>9 DEF WellStacked, u

\* Between operations there is nothing to say.
LEMMA WellEmpty ==
  ASSUME NEW in, NEW exist, NEW used, NEW sp
  PROVE  WellStacked(<<>>, in, exist, used, sp)
  <1>1. Len(<<>>) = 0
    OBVIOUS
  <1> QED BY <1>1 DEF WellStacked

-----------------------------------------------------------------------------
(* The books.                                                              *)

\* The bytes in use are natural numbers, before a step and after it.
LEMMA LiveNat ==
  ASSUME TypeOK, ObjectsOK
  PROVE  LiveRam \in Nat /\ LiveNvme \in Nat /\ HeldNvme \in Nat /\ leaked \in Nat
  <1>1. Volume(bsize, charged) \in Nat /\ Volume(Size, fcharged) \in Nat
    BY SubsetsFinite, VolumeNat DEF TypeOK
  <1>2. PendRam(stack, inside) \in Nat /\ Volume(Size, PendFiles(stack, inside)) \in Nat
    BY PendNat DEF TypeOK
  <1>3. LiveRam \in Nat /\ LiveNvme \in Nat /\ leaked \in Nat
    BY <1>1, <1>2, LiveIs DEF TypeOK
  <1>4. \A a, b \in Nat : a + b \in Nat
    OBVIOUS
  <1> QED BY <1>3, <1>4 DEF HeldNvme

LEMMA LiveNatNext ==
  ASSUME TypeOK', ObjectsOK'
  PROVE  LiveRam' \in Nat /\ LiveNvme' \in Nat /\ HeldNvme' \in Nat /\ leaked' \in Nat
  <1>1. charged' \subseteq Buffers /\ fcharged' \subseteq Tensors /\ stack' \in Seq(Frames)
    BY DEF TypeOK
  <1>2. Volume(bsize', charged') \in Nat /\ Volume(Size, fcharged') \in Nat
    BY <1>1, SubsetsFinite, VolumeNat
  <1>3. PendRam(stack', inside') \in Nat /\ Volume(Size, PendFiles(stack', inside')) \in Nat
    BY <1>1, PendNat
  <1>4. LiveRam' \in Nat /\ LiveNvme' \in Nat /\ leaked' \in Nat
    BY <1>2, <1>3, LiveIsNext DEF TypeOK
  <1>5. \A a, b \in Nat : a + b \in Nat
    OBVIOUS
  <1> QED BY <1>4, <1>5 DEF HeldNvme

\* Two numbers that change alike stay in the same order.
LEMMA CoversStill ==
  ASSUME NEW r \in Int, NEW l \in Int, NEW r2 \in Int, NEW l2 \in Int, r2 + l = r + l2
  PROVE  (l <= r => l2 <= r2) /\ (r = l => r2 = l2)
  OBVIOUS

\* A step that changes the counters as it changes the bytes held.
LEMMA HeldStep ==
  ASSUME TypeOK, TypeOK', ObjectsOK, ObjectsOK', BooksOK, ~ At("commit")',
         ram' + LiveRam = ram + LiveRam', nvme' + HeldNvme = nvme + HeldNvme',
         ram' <= ram, nvme' <= nvme
  PROVE  BooksOK'
  <1>1. /\ LiveRam \in Nat /\ HeldNvme \in Nat /\ LiveRam' \in Nat /\ HeldNvme' \in Nat
        /\ ram \in Int /\ nvme \in Int /\ ram' \in Int /\ nvme' \in Int
    BY LiveNat, LiveNatNext DEF TypeOK
  <1>2. /\ LiveRam <= ram /\ ram <= RamBudget /\ HeldNvme <= nvme /\ nvme <= NvmeBudget
        /\ ~GcInReserve => ram = LiveRam /\ nvme = HeldNvme
    BY DEF BooksOK
  <1>3. /\ (LiveRam <= ram => LiveRam' <= ram') /\ (ram = LiveRam => ram' = LiveRam')
        /\ (HeldNvme <= nvme => HeldNvme' <= nvme') /\ (nvme = HeldNvme => nvme' = HeldNvme')
    <2>1. LiveRam \in Int /\ HeldNvme \in Int /\ LiveRam' \in Int /\ HeldNvme' \in Int
      BY <1>1
    <2> QED BY <1>1, <2>1, CoversStill
  <1>4. ram' <= RamBudget /\ nvme' <= NvmeBudget
    BY <1>1, <1>2, BudgetAssumption
  <1> QED BY <1>2, <1>3, <1>4 DEF BooksOK

\* The same for a step that leaves nothing behind.
LEMMA BooksStep ==
  ASSUME TypeOK, TypeOK', ObjectsOK, ObjectsOK', BooksOK, ~ At("commit")',
         ram' + LiveRam = ram + LiveRam', nvme' + LiveNvme = nvme + LiveNvme',
         ram' <= ram, nvme' <= nvme, UNCHANGED leaked
  PROVE  BooksOK'
  <1>1. /\ LiveNvme \in Nat /\ LiveNvme' \in Nat /\ leaked \in Nat /\ leaked' \in Nat
        /\ nvme \in Int /\ nvme' \in Int
    BY LiveNat, LiveNatNext DEF TypeOK
  <1>2. HeldNvme = LiveNvme + leaked /\ HeldNvme' = LiveNvme' + leaked'
    BY DEF HeldNvme
  <1>3. nvme' + HeldNvme = nvme + HeldNvme'
    <2>1. /\ LiveNvme \in Int /\ LiveNvme' \in Int /\ leaked \in Int
          /\ nvme \in Int /\ nvme' \in Int
      BY <1>1
    <2>2. nvme' + LiveNvme = nvme + LiveNvme'
      OBVIOUS
    <2>3. nvme' + (LiveNvme + leaked) = nvme + (LiveNvme' + leaked)
      BY ONLY <2>1, <2>2
    <2>4. leaked' = leaked
      OBVIOUS
    <2> QED BY ONLY <1>2, <2>3, <2>4
  <1> QED BY <1>3, HeldStep

\* A step that leaves objects and counters alone.
LEMMA ObjectsKept ==
  ASSUME ObjectsOK, UNCHANGED objects
  PROVE  ObjectsOK'
  BY DEF ObjectsOK, Open

\* So the books stay right when the reservations do not change either.
LEMMA BooksKept ==
  ASSUME TypeOK, TypeOK', ObjectsOK, BooksOK, ~ At("commit")',
         UNCHANGED objects, UNCHANGED <<ram, nvme, leaked>>,
         PendRam(stack', inside') = PendRam(stack, inside),
         PendFiles(stack', inside') = PendFiles(stack, inside)
  PROVE  ObjectsOK' /\ BooksOK'
  <1>1. ObjectsOK'
    BY ObjectsKept
  <1>2. LiveRam' = LiveRam /\ LiveNvme' = LiveNvme
    BY <1>1, LiveIs, LiveIsNext
  <1>3. ram' + LiveRam = ram + LiveRam' /\ nvme' + LiveNvme = nvme + LiveNvme'
    BY <1>2
  <1>4. ram' <= ram /\ nvme' <= nvme
    BY DEF TypeOK
  <1> QED BY <1>1, <1>3, <1>4, BooksStep

-----------------------------------------------------------------------------
(* Calls.                                                                  *)

\* What a value in use is computed from is in use.
LEMMA FrontierUsed ==
  ASSUME TypeOK, ObjectsOK, NEW t \in alive \ garbage
  PROVE  Frontier(t) \subseteq alive \ garbage /\ t \in Frontier(t)
  <1> DEFINE used == alive \ garbage
             closed(S) == t \in S /\ \A u \in S : IsLazy(u) => operands[u] \subseteq S
  <1>1. used \in SUBSET alive /\ closed(used)
    BY DEF ObjectsOK
  <1>2. Frontier(t) = {u \in alive : \A S \in SUBSET alive : closed(S) => u \in S}
    BY DEF Frontier
  <1>3. Frontier(t) \subseteq used
    BY <1>1, <1>2
  <1>4. t \in Frontier(t)
    BY <1>2
  <1> QED BY <1>3, <1>4

\* A new activation works on values in use.
LEMMA FrameOK ==
  ASSUME TypeOK, ObjectsOK, NEW kind \in {"create", "realize", "spill", "evict"},
         NEW t \in Tensors, NEW native \in BOOLEAN,
         kind = "create" => t \notin alive, kind # "create" => t \in alive \ garbage,
         kind # "realize" => native = FALSE
  PROVE  /\ Frame(kind, t, native) \in Frames
         /\ Frame(kind, t, native).kind = kind /\ Frame(kind, t, native).self = t
         /\ Frame(kind, t, native).pc = "inputs"
         /\ ActivationOK(Frame(kind, t, native), inside, alive, alive \ garbage, spilled)
  <1> DEFINE f == Frame(kind, t, native)
  <1>1. f \in Frames
    BY FrameType
  <1>2. /\ f.kind = kind /\ f.self = t /\ f.pc = "inputs" /\ f.native = native
        /\ f.vals = IF inside /\ kind # "create" THEN Frontier(t) ELSE {}
        /\ \A v \in f.todo : kind # "create" /\ v \in Frontier(t)
    BY DEF Frame
  <1> HIDE DEF f
  <1>3. kind # "create" => Frontier(t) \subseteq alive \ garbage /\ t \in Frontier(t)
    BY FrontierUsed
  <1>4. ActivationOK(f, inside, alive, alive \ garbage, spilled)
    BY <1>2, <1>3 DEF ActivationOK
  <1> QED BY <1>1, <1>2, <1>4 DEF f

\* A call from s, the stack or one that waits for the same.
LEMMA PushStep ==
  ASSUME TypeOK, TypeOK', ObjectsOK, BooksOK,
         NEW s \in Seq(Frames), NEW f \in Frames, stack' = Append(s, f),
         WellStacked(s, inside, alive, alive \ garbage, spilled),
         ActivationOK(f, inside, alive, alive \ garbage, spilled), f.pc = "inputs",
         f.kind = "create" => s = <<>>,
         s # <<>> => Waits(s[Len(s)]),
         inside /\ ~InRam(f) => \A i \in 1 .. Len(s) : ~InRam(s[i]) => s[i].self # f.self,
         PendRam(stack, inside) = 0, PendFiles(stack, inside) = PendFiles(s, inside),
         UNCHANGED inside, UNCHANGED objects, UNCHANGED <<ram, nvme, leaked>>
  PROVE  ObjectsOK' /\ StackOK' /\ BooksOK'
  <1>1. WellStacked(stack', inside, alive, alive \ garbage, spilled)
    BY WellPush
  <1>2. StackOK'
    BY <1>1 DEF StackOK
  <1>3. PendRam(stack', inside) = 0 /\ PendFiles(stack', inside) = PendFiles(s, inside)
    <2>1. PendRam(Append(s, f), inside) =
            IF InRam(f) /\ inside /\ f.pc = "apply" THEN Size[f.self] ELSE 0
      BY ONLY s \in Seq(Frames), f \in Frames, PendPush
    <2>2. PendFiles(Append(s, f), inside) = PendFiles(s, inside) \cup
            (IF ~InRam(f) /\ inside /\ f.pc = "apply" THEN {f.self} ELSE {})
      BY ONLY s \in Seq(Frames), f \in Frames, PendPush
    <2> QED BY ONLY f.pc = "inputs", stack' = Append(s, f), <2>1, <2>2
  <1>4. ~ At("commit")'
    <2>1. Len(stack') = Len(s) + 1 /\ stack'[Len(s) + 1] = f
      BY AppendProperties
    <2>2. Top'.pc = "inputs"
      BY <2>1 DEF Top
    <2> QED BY <2>2 DEF At
  <1> QED BY <1>2, <1>3, <1>4, BooksKept

\* A call from the activation on top.
LEMMA CallStep ==
  ASSUME TypeOK, TypeOK', ObjectsOK, StackOK, BooksOK,
         NEW kind \in {"create", "realize", "spill", "evict"},
         NEW t \in Tensors, NEW native \in BOOLEAN, Call(kind, t, native),
         kind = "create" => t \notin alive /\ stack = <<>>,
         kind # "create" => t \in alive \ garbage,
         kind # "realize" => native = FALSE,
         stack # <<>> => Waits(Top),
         inside /\ kind \in {"spill", "evict"} =>
           \A i \in 1 .. Len(stack) : ~InRam(stack[i]) => stack[i].self # t,
         UNCHANGED inside, UNCHANGED objects, UNCHANGED <<ram, nvme, leaked>>
  PROVE  ObjectsOK' /\ StackOK' /\ BooksOK'
  <1> DEFINE f == Frame(kind, t, native)
  <1>1. /\ f \in Frames /\ f.kind = kind /\ f.self = t /\ f.pc = "inputs"
        /\ ActivationOK(f, inside, alive, alive \ garbage, spilled)
    <2>1. kind = "create" => t \notin alive
      OBVIOUS
    <2>2. f \in Frames
      BY <2>1, FrameOK
    <2>3. f.kind = kind /\ f.self = t /\ f.pc = "inputs"
      BY DEF Frame
    <2>4. ActivationOK(f, inside, alive, alive \ garbage, spilled)
      BY <2>1, FrameOK
    <2> QED BY <2>2, <2>3, <2>4
  <1>2. stack' = Append(stack, f) /\ stack \in Seq(Frames)
    BY DEF Call, TypeOK
  <1> HIDE DEF f
  <1>3. PendRam(stack, inside) = 0
    BY DEF PendRam, Waits, Top
  <1>4. inside /\ ~InRam(f) =>
          \A i \in 1 .. Len(stack) : ~InRam(stack[i]) => stack[i].self # f.self
    BY <1>1 DEF InRam
  <1>5. /\ WellStacked(stack, inside, alive, alive \ garbage, spilled)
        /\ stack # <<>> => Waits(stack[Len(stack)])
    BY DEF StackOK, Top
  <1> QED BY <1>1, <1>2, <1>3, <1>4, <1>5, PushStep

-----------------------------------------------------------------------------
(* Returns, changes of the top activation, exceptions.                     *)

\* What is known of the activation on top.
LEMMA TopWell ==
  ASSUME TypeOK, StackOK, stack # <<>>
  PROVE  /\ Top \in Frames /\ Top.self \in Tensors /\ Len(stack) \in 1 .. Len(stack)
         /\ ActivationOK(Top, inside, alive, alive \ garbage, spilled)
  <1>1. Top \in Frames /\ Len(stack) \in 1 .. Len(stack)
    BY TopType
  <1>2. Top.self \in Tensors
    BY <1>1 DEF Frames
  <1> QED BY <1>1, <1>2 DEF StackOK, WellStacked, Top

\* Leaving the activation on top gives up its reservation only.
LEMMA PopStack ==
  ASSUME TypeOK, StackOK, stack # <<>>,
         stack' = SubSeq(stack, 1, Len(stack) - 1), UNCHANGED inside,
         alive \ garbage \subseteq alive' \ garbage',
         alive' \subseteq alive \cup {Top.self},
         inside => \A t \in Tensors :
           spilled'[t] => spilled[t] \/ (t = Top.self /\ ~InRam(Top))
  PROVE  /\ StackOK' /\ ~ At("commit")'
         /\ PendRam(stack', inside') = 0
         /\ PendFiles(stack', inside') = PendFiles(stack, inside) \
              (IF ~InRam(Top) /\ inside /\ Top.pc = "apply" THEN {Top.self} ELSE {})
  <1> DEFINE n == Len(stack)
             s == SubSeq(stack, 1, n - 1)
  <1>1. /\ n \in Nat \ {0} /\ n - 1 \in 0 .. n /\ n - 1 < n /\ stack \in Seq(Frames)
        /\ \A i \in 1 .. n : stack[i] \in Frames /\ stack[i].self \in Tensors
    <2>1. stack \in Seq(Frames)
      BY DEF TypeOK
    <2>2. n \in Nat \ {0}
      BY TopType
    <2>3. \A i \in 1 .. n : stack[i] \in Frames
      BY <2>1, ElementOfSeq
    <2> QED BY <2>1, <2>2, <2>3 DEF Frames
  <1>2. Len(s) = n - 1 /\ \A i \in 1 .. n - 1 : s[i] = stack[i]
    BY <1>1, CutSeq
  <1>3. /\ \A i \in 1 .. n : ActivationOK(stack[i], inside, alive, alive \ garbage, spilled)
        /\ \A i \in 1 .. n : stack[i].kind = "create" => i = 1
        /\ \A i \in 1 .. n - 1 : Waits(stack[i])
        /\ inside => \A i, j \in 1 .. n :
             ~InRam(stack[i]) /\ ~InRam(stack[j]) /\ stack[i].self = stack[j].self => i = j
    BY DEF StackOK, WellStacked
  <1>4. WellStacked(s, inside, alive, alive \ garbage, spilled)
    BY <1>1, WellCut DEF StackOK
  <1>5. ASSUME NEW i \in 1 .. n - 1, stack[i].kind = "create"
        PROVE  stack[i].self \notin alive'
    <2>1. Top.kind # "create" /\ stack[i].self \notin alive
      BY <1>1, <1>3, <1>5 DEF ActivationOK, Top
    <2>2. Top.self \in alive
      BY <1>1, <1>3, <2>1 DEF ActivationOK, Top
    <2> QED BY <2>1, <2>2
  <1>6. ASSUME inside, NEW i \in 1 .. n - 1, ~InRam(stack[i]), spilled'[stack[i].self]
        PROVE  spilled[stack[i].self]
    <2>1. i \in 1 .. n /\ n \in 1 .. n /\ i # n
      BY <1>1
    <2>2. ~ (stack[i].self = Top.self /\ ~InRam(Top))
      BY <1>3, <1>6, <2>1 DEF Top
    <2> QED BY <1>1, <1>6, <2>1, <2>2
  <1>7. /\ \A i \in 1 .. Len(s) : s[i].kind = "create" => s[i].self \notin alive'
        /\ inside => \A i \in 1 .. Len(s) : ~InRam(s[i]) /\ spilled'[s[i].self] => spilled[s[i].self]
    BY <1>2, <1>5, <1>6
  <1>8. StackOK'
    <2> HIDE DEF s
    <2>1. ASSUME NEW i \in 1 .. Len(s)
          PROVE  ActivationOK(s[i], inside, alive', alive' \ garbage', spilled')
      <3>1. ActivationOK(s[i], inside, alive, alive \ garbage, spilled)
        BY <1>4 DEF WellStacked
      <3> QED BY <1>7, <3>1 DEF ActivationOK
    <2>2. WellStacked(s, inside, alive', alive' \ garbage', spilled')
      BY <1>4, <2>1 DEF WellStacked
    <2> QED BY <2>2 DEF StackOK, s
  <1>9. ~ At("commit")'
    <2>1. stack' # <<>> => n - 1 \in 1 .. n - 1 /\ Len(stack') = n - 1 /\ stack'[n - 1] = stack[n - 1]
      BY <1>1, <1>2, EmptySeq
    <2>2. stack' # <<>> => Top'.pc # "commit"
      BY <1>3, <2>1 DEF Top, Waits
    <2> QED BY <2>2 DEF At
  <1>10. /\ PendRam(s, inside) = 0
         /\ PendFiles(s, inside) = PendFiles(stack, inside) \
              {t \in Tensors : \E i \in (n - 1 + 1) .. n :
                 stack[i].self = t /\ ~InRam(stack[i]) /\ inside /\ stack[i].pc = "apply"}
    <2> HIDE DEF n
    <2> QED BY <1>1, <1>3, PendCut DEF n
  <1>11. {t \in Tensors : \E i \in (n - 1 + 1) .. n :
            stack[i].self = t /\ ~InRam(stack[i]) /\ inside /\ stack[i].pc = "apply"}
           = IF ~InRam(Top) /\ inside /\ Top.pc = "apply" THEN {Top.self} ELSE {}
    <2>1. (n - 1 + 1) .. n = {n} /\ Top.self \in Tensors
      BY <1>1 DEF Top
    <2> QED BY <2>1 DEF Top
  <1> QED BY <1>8, <1>9, <1>10, <1>11

\* Changing the activation on top changes its reservation only.
LEMMA PutStack ==
  ASSUME TypeOK, StackOK, stack # <<>>, NEW f \in Frames,
         stack' = [stack EXCEPT ![Len(stack)] = f],
         f.kind = Top.kind, f.self = Top.self,
         ActivationOK(f, inside, alive, alive \ garbage, spilled),
         UNCHANGED <<inside, alive, garbage, spilled>>
  PROVE  /\ StackOK' /\ Top' = f
         /\ PendRam(stack', inside') =
              IF InRam(f) /\ inside /\ f.pc = "apply" THEN Size[f.self] ELSE 0
         /\ InRam(f) \/ ~inside => PendFiles(stack', inside') = PendFiles(stack, inside)
         /\ ~InRam(f) /\ inside /\ f.pc = "apply" =>
              PendFiles(stack', inside') = PendFiles(stack, inside) \cup {f.self}
         /\ ~InRam(f) /\ inside /\ f.pc # "apply" =>
              PendFiles(stack', inside') = PendFiles(stack, inside) \ {f.self}
  <1>1. /\ stack \in Seq(Frames) /\ Len(stack) \in 1 .. Len(stack)
        /\ f.kind = stack[Len(stack)].kind /\ f.self = stack[Len(stack)].self
        /\ inside \in BOOLEAN
    BY TopWell DEF TypeOK, Top
  <1>2. WellStacked(stack', inside, alive, alive \ garbage, spilled)
    BY <1>1, WellPut DEF StackOK
  <1>3. StackOK'
    BY <1>2 DEF StackOK
  <1> DEFINE n == Len(stack)
  <1>4. Top' = f
    BY <1>1, ExceptSeq DEF Top
  <1>5. /\ n \in Nat \ {0} /\ Len(stack') = n /\ stack'[n] = f /\ stack' # <<>>
        /\ \A i \in 1 .. n : i # n => stack'[i] = stack[i]
        /\ f.self \in Tensors
    <2>1. n \in Nat \ {0}
      BY TopType
    <2>2. /\ Len(stack') = n /\ stack'[n] = f
          /\ \A i \in 1 .. n : i # n => stack'[i] = stack[i]
      BY <1>1, ExceptSeq
    <2>3. stack' # <<>>
      BY <2>1, <2>2, EmptySeq
    <2> QED BY <2>1, <2>2, <2>3 DEF Frames
  <1>6. InRam(f) <=> InRam(stack[n])
    BY <1>1 DEF InRam
  <1>7. inside => \A i, j \in 1 .. n :
          ~InRam(stack[i]) /\ ~InRam(stack[j]) /\ stack[i].self = stack[j].self => i = j
    BY DEF StackOK, WellStacked
  <1>8. PendRam(stack', inside) = IF InRam(f) /\ inside /\ f.pc = "apply" THEN Size[f.self] ELSE 0
    <2>1. stack'[Len(stack')] = f
      BY <1>5
    <2> QED BY ONLY <1>5, <2>1 DEF PendRam
  <1>9. PendFiles(stack', inside) \subseteq Tensors /\ PendFiles(stack, inside) \subseteq Tensors
    BY DEF PendFiles
  <1>10. ASSUME InRam(f) \/ ~inside
         PROVE  PendFiles(stack', inside) = PendFiles(stack, inside)
    <2> HIDE DEF n
    <2>1. ASSUME NEW t \in Tensors
          PROVE  t \in PendFiles(stack', inside) <=> t \in PendFiles(stack, inside)
      BY <1>5, <1>6, <1>10 DEF PendFiles, n
    <2> QED BY <1>9, <2>1
  <1>11. ASSUME ~InRam(f), inside
         PROVE  \A t \in Tensors :
                  t \in PendFiles(stack', inside) <=>
                    IF t = f.self THEN f.pc = "apply" ELSE t \in PendFiles(stack, inside)
    <2>1. ASSUME NEW t \in Tensors, t # f.self
          PROVE  t \in PendFiles(stack', inside) <=> t \in PendFiles(stack, inside)
      BY <1>1, <1>5, <1>6, <2>1 DEF PendFiles
    <2>2. \A i \in 1 .. n : stack'[i].self = f.self /\ ~InRam(stack'[i]) => i = n
      BY <1>1, <1>5, <1>6, <1>7, <1>11
    <2>3. f.self \in PendFiles(stack', inside) <=> f.pc = "apply"
      <3>1. n \in 1 .. Len(stack') /\ stack'[n] = f /\ 1 .. Len(stack') = 1 .. n
        BY ONLY <1>5
      <3>2. ASSUME f.pc = "apply" PROVE f.self \in PendFiles(stack', inside)
        BY <1>5, <1>11, <3>1, <3>2 DEF PendFiles
      <3>3. ASSUME f.self \in PendFiles(stack', inside) PROVE f.pc = "apply"
        BY <2>2, <3>1, <3>3 DEF PendFiles
      <3> QED BY <3>2, <3>3
    <2> QED BY <2>1, <2>3
  <1>12. ASSUME ~InRam(f), inside, f.pc = "apply"
         PROVE  PendFiles(stack', inside) = PendFiles(stack, inside) \cup {f.self}
    BY <1>5, <1>9, <1>11, <1>12
  <1>13. ASSUME ~InRam(f), inside, f.pc # "apply"
         PROVE  PendFiles(stack', inside) = PendFiles(stack, inside) \ {f.self}
    BY <1>5, <1>9, <1>11, <1>13
  <1> QED BY <1>3, <1>4, <1>8, <1>10, <1>12, <1>13

\* Spilling fewer Tensors is no harm to the stack.
LEMMA WellFewer ==
  ASSUME NEW s \in Seq(Frames), NEW in, NEW exist, NEW used, NEW sp, NEW sp2,
         WellStacked(s, in, exist, used, sp), \A t \in Tensors : sp2[t] => sp[t]
  PROVE  WellStacked(s, in, exist, used, sp2)
  <1>1. ASSUME NEW i \in 1 .. Len(s) PROVE ActivationOK(s[i], in, exist, used, sp2)
    <2>1. s[i].self \in Tensors
      <3>1. s[i] \in Frames
        BY ElementOfSeq
      <3> QED BY <3>1 DEF Frames
    <2>2. ActivationOK(s[i], in, exist, used, sp)
      BY DEF WellStacked
    <2> QED BY <2>1, <2>2 DEF ActivationOK
  <1> QED BY <1>1 DEF WellStacked

\* An exception abandons the reservations of the activations it leaves.
LEMMA UnwindStack ==
  ASSUME TypeOK, TypeOK', StackOK, stack # <<>>,
         NEW kept \in 0 .. Len(stack), Caught(kept), Unwind(kept),
         UNCHANGED <<alive, garbage>>, \A t \in Tensors : spilled'[t] => spilled[t]
  PROVE  /\ StackOK' /\ ~ At("commit")' /\ PendRam(stack', inside') = 0
         /\ PendFiles(stack', inside') = PendFiles(stack, inside) \ Abandoned(kept)
         /\ Abandoned(kept) \subseteq PendFiles(stack, inside)
  <1> DEFINE n == Len(stack)
             files == Abandoned(kept)
  <1>1. (kept # 0 => Handles(stack[kept])) /\ UNCHANGED inside
    BY DEF Caught, Unwind
  <1>2. stack' = IF kept = 0 THEN <<>>
                 ELSE Append(SubSeq(stack, 1, kept - 1), Fallback(stack[kept]))
    BY DEF Unwind
  <1>3. /\ stack \in Seq(Frames) /\ n \in Nat \ {0} /\ inside \in BOOLEAN
        /\ \A i \in 1 .. n : stack[i] \in Frames
    <2>1. stack \in Seq(Frames) /\ inside \in BOOLEAN
      BY DEF TypeOK
    <2> QED BY <2>1, TopType, ElementOfSeq
  <1>4. /\ \A i \in 1 .. n : ActivationOK(stack[i], inside, alive, alive \ garbage, spilled)
        /\ \A i \in 1 .. n : stack[i].kind = "create" => i = 1
        /\ \A i \in 1 .. n - 1 : Waits(stack[i])
        /\ inside => \A i, j \in 1 .. n :
             ~InRam(stack[i]) /\ ~InRam(stack[j]) /\ stack[i].self = stack[j].self => i = j
    BY DEF StackOK, WellStacked
  <1>5. files = {t \in Tensors : \E i \in (kept + 1) .. n :
                   stack[i].self = t /\ ~InRam(stack[i]) /\ Refunded(stack[i])}
    BY DEF Abandoned
  <1> HIDE DEF files
  <1>6. files \subseteq PendFiles(stack, inside)
    BY <1>3, <1>5 DEF PendFiles, Refunded
  <1>7. /\ PendRam(stack', inside) = 0
        /\ PendFiles(stack', inside) = PendFiles(stack, inside) \ files
        /\ WellStacked(stack', inside, alive, alive \ garbage, spilled)
        /\ ~ At("commit")'
    <2>1. CASE kept = 0
      <3>1. stack' = <<>> /\ Len(<<>>) = 0
        BY <1>2, <2>1
      <3>2. PendRam(<<>>, inside) = 0 /\ PendFiles(<<>>, inside) = {}
        BY DEF PendRam, PendFiles
      <3>3. PendFiles(stack, inside) \ files = {}
        BY <1>5, <2>1 DEF PendFiles, Refunded
      <3>4. ~ At("commit")'
        BY <3>1 DEF At
      <3> QED BY <3>1, <3>2, <3>3, <3>4, WellEmpty
    <2>2. CASE kept # 0
      <3> DEFINE f == Fallback(stack[kept])
                 low == SubSeq(stack, 1, kept - 1)
      <3>1. /\ kept \in 1 .. n /\ kept - 1 \in 0 .. n /\ kept - 1 < n
            /\ stack[kept] \in Frames /\ (kept - 1) + 1 = kept
        BY <1>3, <2>2
      <3>2. /\ stack[kept].native /\ stack[kept].kind = "realize"
            /\ stack[kept].self \in alive \ garbage
            /\ inside => stack[kept].self \in stack[kept].vals
            /\ stack[kept].todo \subseteq alive \ garbage
        BY <1>1, <1>4, <2>2, <3>1 DEF Handles, ActivationOK
      <3>3. /\ f \in Frames /\ f.kind = "realize" /\ f.native = FALSE
            /\ f.self = stack[kept].self /\ f.vals = stack[kept].vals
            /\ f.todo = stack[kept].todo /\ f.pc = IF inside THEN "reserve" ELSE "apply"
        BY <3>1, <3>2, FallbackType DEF Fallback, Frames
      <3>4. low \in Seq(Frames) /\ Len(low) = kept - 1 /\ \A i \in 1 .. kept - 1 : low[i] = stack[i]
        BY <1>3, <3>1, CutSeq
      <3>5. stack' = Append(low, f)
        BY <1>2, <2>2
      <3> HIDE DEF f, low
      <3>6. InRam(f) /\ ActivationOK(f, inside, alive, alive \ garbage, spilled)
        BY <1>3, <3>2, <3>3 DEF InRam, ActivationOK
      <3>7. WellStacked(low, inside, alive, alive \ garbage, spilled)
        BY <1>3, <3>1, WellCut DEF StackOK, low
      <3>8. low # <<>> => Waits(low[Len(low)])
        <4>1. low # <<>> => kept - 1 \in 1 .. n - 1
          BY <1>3, <3>1, <3>4, EmptySeq
        <4> QED BY <1>4, <3>4, <4>1
      <3>9. WellStacked(stack', inside, alive, alive \ garbage, spilled)
        BY ONLY <3>3, <3>4, <3>5, <3>6, <3>7, <3>8, WellPush
      <3>10. /\ PendRam(stack', inside) = 0
             /\ PendFiles(stack', inside) = PendFiles(low, inside)
        <4>1. PendRam(Append(low, f), inside) =
                IF InRam(f) /\ inside /\ f.pc = "apply" THEN Size[f.self] ELSE 0
          BY ONLY <1>3, <3>3, <3>4, PendPush
        <4>2. PendFiles(Append(low, f), inside) = PendFiles(low, inside) \cup
                (IF ~InRam(f) /\ inside /\ f.pc = "apply" THEN {f.self} ELSE {})
          BY ONLY <1>3, <3>3, <3>4, PendPush
        <4> QED BY ONLY <1>3, <3>3, <3>5, <3>6, <4>1, <4>2
      <3>11. PendFiles(low, inside) = PendFiles(stack, inside) \
               {t \in Tensors : \E i \in kept .. n :
                  stack[i].self = t /\ ~InRam(stack[i]) /\ inside /\ stack[i].pc = "apply"}
        <4> HIDE DEF n
        <4> QED BY <1>3, <1>4, <3>1, PendCut DEF low, n
      <3>12. {t \in Tensors : \E i \in kept .. n :
                  stack[i].self = t /\ ~InRam(stack[i]) /\ inside /\ stack[i].pc = "apply"}
               = files
        <4>1. InRam(stack[kept])
          BY <3>2 DEF InRam
        <4>2. \A i \in kept .. n : i = kept \/ i \in (kept + 1) .. n
          BY <1>3, <3>1
        <4>3. (kept + 1) .. n \subseteq kept .. n
          BY <1>3, <3>1
        <4> QED BY <1>5, <4>1, <4>2, <4>3 DEF Refunded
      <3>13. ~ At("commit")'
        <4>1. Len(stack') = Len(low) + 1 /\ stack'[Len(low) + 1] = f
          BY <3>3, <3>4, <3>5, AppendProperties
        <4>2. Top'.pc # "commit"
          BY <3>3, <4>1 DEF Top
        <4> QED BY <4>2 DEF At
      <3> QED BY <3>9, <3>10, <3>11, <3>12, <3>13
    <2> QED BY <2>1, <2>2
  <1>8. WellStacked(stack', inside, alive, alive \ garbage, spilled')
    <2>1. stack' \in Seq(Frames)
      BY DEF TypeOK
    <2> QED BY <1>7, <2>1, WellFewer
  <1>9. StackOK'
    BY <1>1, <1>8 DEF StackOK
  <1> QED BY <1>1, <1>6, <1>7, <1>9 DEF files

\* Their bytes.
LEMMA UnwindBytes ==
  ASSUME TypeOK, TypeOK', NEW files,
         PendFiles(stack', inside') = PendFiles(stack, inside) \ files,
         files \subseteq PendFiles(stack, inside)
  PROVE  /\ Volume(Size, files) \in Nat
         /\ Volume(Size, PendFiles(stack, inside)) \in Nat
         /\ Volume(Size, PendFiles(stack', inside'))
              = Volume(Size, PendFiles(stack, inside)) - Volume(Size, files)
  <1>1. stack \in Seq(Frames)
    BY DEF TypeOK
  <1>2. /\ PendFiles(stack, inside) \in SUBSET Tensors
        /\ IsFiniteSet(PendFiles(stack, inside))
        /\ Volume(Size, PendFiles(stack, inside)) \in Nat
    BY <1>1, PendNat
  <1> QED BY <1>2, VolumeRest

\* An exception gives back what the activations it leaves have reserved.
LEMMA RaiseStep ==
  ASSUME TypeOK, TypeOK', ObjectsOK, StackOK, BooksOK, stack # <<>>, Raise
  PROVE  ObjectsOK' /\ StackOK' /\ BooksOK'
  <1>1. PICK kept \in 0 .. Len(stack) :
          /\ Caught(kept) /\ Unwind(kept)
          /\ nvme' = nvme - Volume(Size, Abandoned(kept))
          /\ ram' = IF InRam(Top) /\ Refunded(Top) THEN ram - Size[Top.self] ELSE ram
          /\ UNCHANGED <<objects, leaked>>
    BY DEF Raise, FileBytes
  <1> DEFINE files == Abandoned(kept)
  <1>2. /\ StackOK' /\ ~ At("commit")' /\ PendRam(stack', inside') = 0
        /\ PendFiles(stack', inside') = PendFiles(stack, inside) \ files
        /\ files \subseteq PendFiles(stack, inside)
    BY <1>1, UnwindStack
  <1>3. UNCHANGED inside
    BY <1>1 DEF Unwind
  <1>4. ObjectsOK'
    BY <1>1, ObjectsKept
  <1>5. ram' = ram - PendRam(stack, inside)
    <2>1. InRam(Top) /\ Refunded(Top) <=> InRam(Top) /\ inside /\ Top.pc = "apply"
      BY DEF Refunded
    <2>2. ram - 0 = ram
      BY DEF TypeOK
    <2> QED BY <1>1, <2>1, <2>2 DEF PendRam, Top
  <1> HIDE DEF files
  <1>6. /\ Volume(Size, files) \in Nat /\ Volume(Size, PendFiles(stack, inside)) \in Nat
        /\ Volume(Size, PendFiles(stack', inside'))
             = Volume(Size, PendFiles(stack, inside)) - Volume(Size, files)
    BY <1>2, UnwindBytes
  <1>7. /\ Volume(bsize, charged) \in Nat /\ Volume(Size, fcharged) \in Nat
        /\ ram \in Int /\ nvme \in Int /\ PendRam(stack, inside) \in Nat
    BY SubsetsFinite, VolumeNat, PendNat DEF TypeOK
  <1>8. /\ LiveRam = Volume(bsize, charged) + PendRam(stack, inside)
        /\ LiveRam' = Volume(bsize, charged)
        /\ LiveNvme = Volume(Size, fcharged) + Volume(Size, PendFiles(stack, inside))
        /\ LiveNvme' = Volume(Size, fcharged) + Volume(Size, PendFiles(stack', inside'))
    <2>1. /\ LiveRam' = Volume(bsize', charged') + PendRam(stack', inside')
          /\ LiveNvme' = Volume(Size, fcharged') + Volume(Size, PendFiles(stack', inside'))
      BY <1>4, LiveIsNext
    <2>2. LiveRam' = Volume(bsize, charged) + 0
      BY <1>1, <1>2, <2>1
    <2> QED BY <1>1, <1>7, <2>1, <2>2, LiveIs
  <1>9. ram' + LiveRam = ram + LiveRam' /\ ram' <= ram
    BY <1>5, <1>7, <1>8
  <1>10. nvme' + LiveNvme = nvme + LiveNvme' /\ nvme' <= nvme
    <2>1. nvme' = nvme - Volume(Size, files)
      BY <1>1 DEF files
    <2> QED BY <1>6, <1>7, <1>8, <2>1
  <1> QED BY <1>1, <1>2, <1>4, <1>9, <1>10, BooksStep

\* A spill whose directory cannot be made leaves its reservation behind: from
\* then on it counts as held, and that is what reserve has covered.
LEMMA StoreFailsStep ==
  ASSUME TypeOK, TypeOK', ObjectsOK, StackOK, BooksOK, StoreFails
  PROVE  ObjectsOK' /\ StackOK' /\ BooksOK'
  <1>1. PICK kept \in 0 .. Len(stack) :
          /\ Caught(kept) /\ Unwind(kept)
          /\ nvme' = Top.seen - Volume(Size, Abandoned(kept))
    BY DEF StoreFails, FileBytes
  <1>2. /\ stack # <<>> /\ Top.pc = "commit" /\ At("commit") /\ ~InRam(Top)
        /\ leaked' = leaked + Size[Top.self] /\ UNCHANGED ram /\ UNCHANGED objects
    BY DEF StoreFails, At
  <1> DEFINE files == Abandoned(kept)
  <1>3. /\ StackOK' /\ ~ At("commit")' /\ PendRam(stack', inside') = 0
        /\ PendFiles(stack', inside') = PendFiles(stack, inside) \ files
        /\ files \subseteq PendFiles(stack, inside)
    BY <1>1, <1>2, UnwindStack
  <1>4. ObjectsOK'
    BY <1>2, ObjectsKept
  <1>5. PendRam(stack, inside) = 0
    BY <1>2 DEF PendRam, Top
  <1> HIDE DEF files
  <1>6. /\ Volume(Size, files) \in Nat /\ Volume(Size, PendFiles(stack, inside)) \in Nat
        /\ Volume(Size, PendFiles(stack', inside'))
             = Volume(Size, PendFiles(stack, inside)) - Volume(Size, files)
    BY <1>3, UnwindBytes
  <1>7. /\ Volume(bsize, charged) \in Nat /\ Volume(Size, fcharged) \in Nat
        /\ leaked \in Nat /\ Top.seen \in Int /\ Size[Top.self] \in Nat
    <2>1. Top.self \in Tensors /\ Top.seen \in Int
      BY <1>2, TopType DEF Frames
    <2>2. Size[Top.self] \in Nat
      BY <2>1, SizeAssumption
    <2>3. charged \in SUBSET Buffers /\ fcharged \in SUBSET Tensors /\ leaked \in Nat
      BY DEF TypeOK
    <2> QED BY <2>1, <2>2, <2>3, SubsetsFinite, VolumeNat
  <1>8. LiveRam' = LiveRam
    BY <1>2, <1>3, <1>4, <1>5, LiveIs, LiveIsNext
  <1>9. HeldNvme' = Needed(Top) - Volume(Size, files) /\ Needed(Top) \in Int
    <2>1. LiveNvme = Volume(Size, fcharged) + Volume(Size, PendFiles(stack, inside))
      BY LiveIs
    <2>2. LiveNvme' = Volume(Size, fcharged) + Volume(Size, PendFiles(stack', inside'))
      BY <1>2, <1>4, LiveIsNext
    <2>3. HeldNvme' = LiveNvme' + leaked' /\ Needed(Top) = LiveNvme + leaked + Size[Top.self]
      BY <1>2 DEF HeldNvme, Needed
    <2>4. \A f, p, v, l, z \in Int :
            /\ (f + (p - v)) + (l + z) = ((f + p) + l + z) - v
            /\ (f + p) + l + z \in Int
      OBVIOUS
    <2>5. /\ Volume(Size, files) \in Int /\ Volume(Size, PendFiles(stack, inside)) \in Int
          /\ Volume(Size, fcharged) \in Int /\ leaked \in Int /\ Size[Top.self] \in Int
      BY ONLY <1>6, <1>7
    <2>6. HeldNvme' = (Volume(Size, fcharged)
                        + (Volume(Size, PendFiles(stack, inside)) - Volume(Size, files)))
                      + (leaked + Size[Top.self])
      BY ONLY <1>2, <1>6, <2>2, <2>3
    <2>7. Needed(Top) = (Volume(Size, fcharged) + Volume(Size, PendFiles(stack, inside)))
                        + leaked + Size[Top.self]
      BY ONLY <2>1, <2>3
    <2> HIDE DEF files
    <2> QED BY ONLY <2>4, <2>5, <2>6, <2>7
  <1>10. /\ LiveRam <= ram /\ ram <= RamBudget
         /\ Needed(Top) <= Top.seen /\ Top.seen <= NvmeBudget
         /\ ~GcInReserve => ram = LiveRam /\ Top.seen = Needed(Top)
    BY <1>2 DEF BooksOK, Limit
  <1>11. nvme' = Top.seen - Volume(Size, files)
    BY <1>1 DEF files
  <1>12. HeldNvme' <= nvme' /\ nvme' <= NvmeBudget /\ (~GcInReserve => nvme' = HeldNvme')
    BY ONLY <1>6, <1>7, <1>9, <1>10, <1>11, BudgetAssumption
  <1> QED BY <1>2, <1>3, <1>4, <1>8, <1>10, <1>12 DEF BooksOK

-----------------------------------------------------------------------------
(* Finalizers.                                                             *)

\* Nothing that stays refers to what dies.
LEMMA FinalizeObjects ==
  ASSUME TypeOK, ObjectsOK, NEW T \in SUBSET alive,
         \A u \in alive : operands[u] \cap T = {}, NEW F, Finalize(T, F)
  PROVE  ObjectsOK'
  <1>1. /\ alive' = alive \ T /\ garbage' = garbage \ T
        /\ alive \subseteq Tensors
        /\ charged' = charged \ Orphans(T) /\ fcharged' = fcharged \ T
    BY DEF Finalize, TypeOK
  <1>2. ASSUME NEW t \in Tensors
        PROVE  /\ buf'[t] = IF t \in T THEN NoBuffer ELSE buf[t]
               /\ spilled'[t] = IF t \in T THEN FALSE ELSE spilled[t]
               /\ operands'[t] = IF t \in T THEN {} ELSE operands[t]
    BY DEF Finalize, Forget, TypeOK
  <1>3. \A t \in Tensors \ alive' : buf'[t] = NoBuffer /\ ~spilled'[t] /\ operands'[t] = {}
    BY <1>1, <1>2 DEF ObjectsOK
  <1>4. \A u \in alive' : operands'[u] \subseteq alive' \ garbage'
    BY <1>1, <1>2 DEF ObjectsOK
  <1>5. ASSUME NEW b \in charged' PROVE b \in Open'
    <2>1. b \in Open /\ b \notin Orphans(T) /\ b \in Buffers
      BY <1>1 DEF ObjectsOK, Open
    <2>2. PICK t \in alive : buf[t] = b /\ t \notin T
      BY <2>1 DEF Orphans
    <2>3. t \in alive' /\ buf'[t] = b
      BY <1>1, <1>2, <2>2
    <2> QED BY <2>1, <2>3 DEF Open
  <1>6. \A t \in fcharged' : spilled'[t]
    BY <1>1, <1>2 DEF ObjectsOK, TypeOK
  <1> QED BY <1>3, <1>4, <1>5, <1>6 DEF ObjectsOK

\* The finalizers give back what dying values have charged, or leave it behind
\* where a file cannot be removed.  Inside a
\* reservation they may leave its total too large, never too small.
LEMMA FinalizeStep ==
  ASSUME TypeOK, TypeOK', ObjectsOK, StackOK, BooksOK, NEW T \in SUBSET alive,
         \A u \in alive : operands[u] \cap T = {}, NEW F, Finalize(T, F),
         stack # <<>> => T = garbage /\ (Top.pc = "commit" => GcInReserve)
  PROVE  ObjectsOK' /\ StackOK' /\ BooksOK'
  <1> DEFINE lost == Orphans(T) \cap charged
             gone == T \cap fcharged
             back == (T \ F) \cap fcharged
  <1>1. ObjectsOK'
    BY FinalizeObjects
  <1>2. /\ alive' = alive \ T /\ garbage' = garbage \ T
        /\ charged' = charged \ lost /\ fcharged' = fcharged \ gone
        /\ ram' = ram - Volume(bsize, lost) /\ nvme' = nvme - Volume(Size, back)
        /\ leaked' = leaked + Volume(Size, F) /\ F \subseteq T \cap fcharged
        /\ UNCHANGED <<inside, stack>>
    BY DEF Finalize, Bytes, FileBytes
  <1>3. /\ charged \in SUBSET Buffers /\ fcharged \in SUBSET Tensors
        /\ ram \in Int /\ nvme \in Int /\ leaked \in Nat /\ stack \in Seq(Frames)
    BY DEF TypeOK
  <1>4. StackOK'
    <2>1. ASSUME NEW t \in Tensors, spilled'[t] PROVE spilled[t]
      BY <2>1 DEF Finalize, Forget, TypeOK
    <2>2. CASE stack = <<>>
      BY <1>2, <2>2, WellEmpty DEF StackOK
    <2>3. CASE stack # <<>>
      <3>1. alive' \ garbage' = alive \ garbage /\ alive' \subseteq alive
        BY <1>2, <2>3
      <3>2. \A i \in 1 .. Len(stack) : stack[i].self \in Tensors
        <4>1. \A i \in 1 .. Len(stack) : stack[i] \in Frames
          BY <1>3, ElementOfSeq
        <4> QED BY <4>1 DEF Frames
      <3>3. ASSUME NEW i \in 1 .. Len(stack)
            PROVE  ActivationOK(stack[i], inside, alive', alive' \ garbage', spilled')
        <4>1. ActivationOK(stack[i], inside, alive, alive \ garbage, spilled)
          BY DEF StackOK, WellStacked
        <4> QED BY <2>1, <3>1, <3>2, <4>1 DEF ActivationOK
      <3>4. WellStacked(stack, inside, alive', alive' \ garbage', spilled')
        BY <3>3 DEF StackOK, WellStacked
      <3> QED BY <1>2, <3>4 DEF StackOK
    <2> QED BY <2>2, <2>3
  <1>5. /\ Volume(bsize, charged) \in Nat /\ Volume(bsize, lost) \in Nat
        /\ Volume(bsize', charged') = Volume(bsize, charged) - Volume(bsize, lost)
    <2>1. ASSUME NEW b \in charged' PROVE bsize'[b] = bsize[b]
      BY <1>2, <1>3, <2>1 DEF Finalize, Forget, TypeOK
    <2>2. Volume(bsize', charged') = Volume(bsize, charged')
      BY <2>1, VolumeSame
    <2>3. lost \in SUBSET charged /\ IsFiniteSet(charged)
      BY <1>3, SubsetsFinite
    <2>4. /\ Volume(bsize, charged) \in Nat /\ Volume(bsize, lost) \in Nat
          /\ Volume(bsize, charged \ lost) = Volume(bsize, charged) - Volume(bsize, lost)
      <3> HIDE DEF lost
      <3> QED BY <2>3, VolumeRest
    <2> QED BY <1>2, <2>2, <2>4
  <1>6. /\ Volume(Size, fcharged) \in Nat /\ Volume(Size, gone) \in Nat
        /\ Volume(Size, fcharged') = Volume(Size, fcharged) - Volume(Size, gone)
        /\ Volume(Size, F) \in Nat /\ Volume(Size, back) \in Nat
        /\ Volume(Size, gone) = Volume(Size, F) + Volume(Size, back)
    <2>1. gone \in SUBSET fcharged /\ IsFiniteSet(fcharged)
      BY <1>3, SubsetsFinite
    <2>2. /\ gone = F \cup back /\ F \cap back = {}
          /\ F \in SUBSET Tensors /\ back \in SUBSET Tensors
      BY <1>2, <1>3
    <2> HIDE DEF gone, back
    <2>3. IsFiniteSet(F) /\ IsFiniteSet(back)
      BY <2>2, SubsetsFinite
    <2>4. Volume(Size, F) \in Nat /\ Volume(Size, back) \in Nat
      BY <2>3, VolumeNat
    <2>5. Volume(Size, F \cup back) = Volume(Size, F) + Volume(Size, back)
      BY <2>2, <2>3, VolumeUnion
    <2> QED BY <1>2, <2>1, <2>2, <2>4, <2>5, VolumeRest
  <1>7. /\ PendRam(stack, inside) \in Nat /\ Volume(Size, PendFiles(stack, inside)) \in Nat
    BY <1>3, PendNat
  <1> HIDE DEF lost, gone, back
  <1>8. /\ LiveRam = Volume(bsize, charged) + PendRam(stack, inside)
        /\ LiveNvme = Volume(Size, fcharged) + Volume(Size, PendFiles(stack, inside))
        /\ LiveRam' = Volume(bsize', charged') + PendRam(stack, inside)
        /\ LiveNvme' = Volume(Size, fcharged') + Volume(Size, PendFiles(stack, inside))
    BY <1>1, <1>2, LiveIs, LiveIsNext
  <1>9. LiveRam \in Nat /\ LiveRam' \in Nat /\ HeldNvme \in Nat /\ HeldNvme' \in Nat
    BY <1>1, LiveNat, LiveNatNext
  <1>10. /\ ram' + LiveRam = ram + LiveRam' /\ ram' <= ram /\ LiveRam' <= LiveRam
         /\ LiveRam \in Nat /\ LiveRam' \in Nat
    <2>1. ram' = ram - Volume(bsize, lost) /\ LiveRam' = LiveRam - Volume(bsize, lost)
      BY <1>2, <1>5, <1>7, <1>8
    <2> QED BY ONLY <1>3, <1>5, <1>9, <2>1
  <1>11. /\ nvme' + HeldNvme = nvme + HeldNvme' /\ nvme' <= nvme /\ HeldNvme' <= HeldNvme
         /\ HeldNvme \in Nat /\ HeldNvme' \in Nat
    <2>1. LiveNvme' = LiveNvme - Volume(Size, gone) /\ LiveNvme \in Int
      BY <1>2, <1>6, <1>7, <1>8
    <2>2. HeldNvme = LiveNvme + leaked /\ HeldNvme' = LiveNvme' + leaked'
      BY DEF HeldNvme
    <2>3. nvme' = nvme - Volume(Size, back) /\ HeldNvme' = HeldNvme - Volume(Size, back)
      <3>1. \A h, l, f, r \in Int : (h - (f + r)) + (l + f) = (h + l) - r
        OBVIOUS
      <3>2. /\ LiveNvme \in Int /\ leaked \in Int
            /\ Volume(Size, F) \in Int /\ Volume(Size, back) \in Int
        BY ONLY <1>3, <1>6, <2>1
      <3>3. HeldNvme' = (LiveNvme - (Volume(Size, F) + Volume(Size, back)))
                        + (leaked + Volume(Size, F))
        BY ONLY <1>2, <1>6, <2>1, <2>2
      <3>4. HeldNvme' = (LiveNvme + leaked) - Volume(Size, back)
        BY ONLY <3>1, <3>2, <3>3
      <3> QED BY ONLY <1>2, <2>2, <3>4
    <2> QED BY ONLY <1>3, <1>6, <1>9, <2>3
  <1>12. BooksOK'
    <2>1. CASE ~ At("commit")
      <3>1. ~ At("commit")'
        BY <1>2, <2>1 DEF At, Top
      <3> QED BY <1>1, <1>10, <1>11, <3>1, HeldStep
    <2>2. CASE At("commit")
      <3>1. GcInReserve /\ Top' = Top /\ stack # <<>>
        BY <1>2, <2>2 DEF At, Top
      <3>2. Top.self \in Tensors /\ Size[Top.self] \in Int /\ Top.seen \in Int
        BY <3>1, TopType, SizeAssumption DEF Frames
      <3>3. Needed(Top) <= Top.seen /\ Top.seen <= Limit(Top)
        BY <2>2 DEF BooksOK
      <3>4. Needed(Top)' <= Top'.seen /\ Top'.seen <= Limit(Top)'
        <4>1. Needed(Top)' = (IF InRam(Top) THEN LiveRam' ELSE HeldNvme') + Size[Top.self]
          BY <3>1 DEF Needed
        <4>2. Limit(Top)' = Limit(Top)
          BY <3>1 DEF Limit
        <4>3. Needed(Top)' <= Needed(Top) /\ Needed(Top)' \in Int /\ Needed(Top) \in Int
          <5>1. CASE InRam(Top)
            <6>1. Needed(Top)' = LiveRam' + Size[Top.self] /\ Needed(Top) = LiveRam + Size[Top.self]
              BY <4>1, <5>1 DEF Needed
            <6> QED BY ONLY <1>10, <3>2, <6>1
          <5>2. CASE ~InRam(Top)
            <6>1. Needed(Top)' = HeldNvme' + Size[Top.self] /\ Needed(Top) = HeldNvme + Size[Top.self]
              BY <4>1, <5>2 DEF Needed
            <6> QED BY ONLY <1>11, <3>2, <6>1
          <5> QED BY <5>1, <5>2
        <4>4. Top'.seen = Top.seen
          BY <3>1
        <4>5. \A k, l, m \in Int : k <= l /\ l <= m => k <= m
          OBVIOUS
        <4>6. Needed(Top)' <= Top.seen
          BY <3>2, <3>3, <4>3, <4>5
        <4>7. Needed(Top)' <= Top'.seen
          BY ONLY <4>4, <4>6
        <4>8. Top'.seen <= Limit(Top)'
          BY ONLY <3>3, <4>2, <4>4
        <4> QED BY ONLY <4>7, <4>8
      <3>5. LiveRam <= ram /\ HeldNvme <= nvme /\ ram <= RamBudget /\ nvme <= NvmeBudget
        BY DEF BooksOK
      <3>6. ram' \in Int /\ nvme' \in Int
        BY DEF TypeOK
      <3>7. LiveRam' <= ram' /\ HeldNvme' <= nvme'
        <4>1. LiveRam \in Int /\ LiveRam' \in Int /\ HeldNvme \in Int /\ HeldNvme' \in Int
          BY <1>10, <1>11
        <4>2. ram' + LiveRam = ram + LiveRam' /\ nvme' + HeldNvme = nvme + HeldNvme'
          BY <1>10, <1>11
        <4>3. LiveRam <= ram => LiveRam' <= ram'
          BY ONLY <1>3, <3>6, <4>1, <4>2, CoversStill
        <4>4. HeldNvme <= nvme => HeldNvme' <= nvme'
          BY ONLY <1>3, <3>6, <4>1, <4>2, CoversStill
        <4> QED BY ONLY <3>5, <4>3, <4>4
      <3>8. ram' <= RamBudget /\ nvme' <= NvmeBudget
        BY <1>3, <1>10, <1>11, <3>5, <3>6, BudgetAssumption
      <3> QED BY <3>1, <3>4, <3>7, <3>8 DEF BooksOK
    <2> QED BY <2>1, <2>2
  <1> QED BY <1>1, <1>4, <1>12

-----------------------------------------------------------------------------
(* Allocations.                                                            *)

\* Storing a fresh allocation: what is charged for changes by the allocation
\* that is dropped and by the new one.
LEMMA StoreStep ==
  ASSUME TypeOK, TypeOK', ObjectsOK, NEW b \in Free, NEW data, Store(b, data),
         Top.self \in alive, UNCHANGED <<inside, alive>>
  PROVE  /\ charged' \subseteq Open'
         /\ \E out \in Nat :
              /\ ram' = ram - out
              /\ Volume(bsize', charged') = Volume(bsize, charged) - out
                                            + (IF inside THEN Size[Top.self] ELSE 0)
  <1> DEFINE old == {buf[Top.self]} \cap Orphans({Top.self})
             lost == old \cap charged
             new == IF inside THEN {b} ELSE {}
  <1>1. /\ Top.self \in Tensors /\ b \in Buffers /\ b \notin Open
        /\ charged \subseteq Open /\ charged \in SUBSET Buffers
        /\ Size[Top.self] \in 0 .. MaxSize /\ ram \in Int
    BY SizeAssumption DEF TypeOK, ObjectsOK, Free
  <1>2. old \subseteq Open /\ old \subseteq Buffers
    BY DEF Orphans, Open
  <1>3. /\ charged' = (charged \ lost) \cup new /\ ram' = ram - Volume(bsize, lost)
        /\ \A t \in Tensors : buf'[t] = IF t = Top.self THEN b ELSE buf[t]
        /\ \A x \in Buffers : bsize'[x] = IF x = b THEN Size[Top.self]
                                          ELSE IF x \in old THEN 0 ELSE bsize[x]
    BY <1>1 DEF Store, Bytes, Forget, TypeOK
  <1>4. ASSUME NEW x \in charged' PROVE x \in Open'
    <2>1. CASE x = b
      BY <1>1, <1>3, <2>1 DEF Open
    <2>2. CASE x # b
      <3>1. x \in charged /\ x \notin old /\ x \in Open
        BY <1>1, <1>3, <2>2
      <3>2. PICK t \in alive : buf[t] = x /\ t # Top.self
        <4>1. CASE x \in Orphans({Top.self})
          BY <3>1, <4>1 DEF Open
        <4>2. CASE x \notin Orphans({Top.self})
          BY <3>1, <4>2 DEF Orphans
        <4> QED BY <4>1, <4>2
      <3>3. t \in Tensors /\ x \in Buffers
        BY <1>1, <3>1 DEF TypeOK
      <3> QED BY <1>3, <3>2, <3>3 DEF Open
    <2> QED BY <2>1, <2>2
  <1>5. \A x \in charged \ lost : bsize'[x] = bsize[x]
    BY <1>1, <1>3
  <1>6. (charged \ lost) \cap new = {}
    BY <1>1
  <1>7. Volume(bsize', new) = IF inside THEN Size[Top.self] ELSE 0
    <2>1. bsize'[b] = Size[Top.self] /\ bsize'[b] \in 0 .. MaxSize
      BY <1>1, <1>3
    <2> QED BY <2>1, VolumeOne, VolumeNone
  <1>8. lost \in SUBSET charged /\ IsFiniteSet(charged) /\ IsFiniteSet(new)
        /\ IsFiniteSet(charged \ lost)
    <2>1. new \in SUBSET Buffers /\ charged \ lost \in SUBSET Buffers
      BY <1>1
    <2> QED BY <1>1, <2>1, SubsetsFinite
  <1> HIDE DEF lost, new
  <1>9. /\ Volume(bsize, lost) \in Nat /\ Volume(bsize, charged) \in Nat
        /\ Volume(bsize, charged \ lost) = Volume(bsize, charged) - Volume(bsize, lost)
    BY <1>8, VolumeRest
  <1>10. Volume(bsize', charged \ lost) = Volume(bsize, charged \ lost)
    BY <1>5, VolumeSame
  <1>11. Volume(bsize', charged') = Volume(bsize', charged \ lost) + Volume(bsize', new)
    BY <1>3, <1>6, <1>8, VolumeUnion
  <1>12. Volume(bsize', charged') = Volume(bsize, charged) - Volume(bsize, lost)
                                    + (IF inside THEN Size[Top.self] ELSE 0)
    BY <1>7, <1>9, <1>10, <1>11
  <1> QED BY <1>3, <1>4, <1>9, <1>12

\* An operation returns: its reservation has become an allocation or a file.
LEMMA ReturnStep ==
  ASSUME TypeOK, TypeOK', ObjectsOK, ObjectsOK', StackOK, BooksOK, stack # <<>>,
         stack' = SubSeq(stack, 1, Len(stack) - 1), UNCHANGED inside,
         alive \ garbage \subseteq alive' \ garbage',
         alive' \subseteq alive \cup {Top.self},
         inside => \A t \in Tensors :
           spilled'[t] => spilled[t] \/ (t = Top.self /\ ~InRam(Top)),
         NEW out \in Nat, ram' = ram - out,
         Volume(bsize', charged') = Volume(bsize, charged) - out + PendRam(stack, inside),
         NEW fout \in Nat, nvme' = nvme - fout,
         Volume(Size, fcharged') = Volume(Size, fcharged) - fout
           + (IF ~InRam(Top) /\ inside /\ Top.pc = "apply" THEN Size[Top.self] ELSE 0),
         UNCHANGED leaked
  PROVE  StackOK' /\ BooksOK'
  <1> DEFINE mine == IF ~InRam(Top) /\ inside /\ Top.pc = "apply" THEN {Top.self} ELSE {}
  <1>1. /\ StackOK' /\ ~ At("commit")' /\ PendRam(stack', inside') = 0
        /\ PendFiles(stack', inside') = PendFiles(stack, inside) \ mine
    BY PopStack
  <1>2. stack \in Seq(Frames) /\ ram \in Int /\ nvme \in Int
    BY DEF TypeOK
  <1>3. /\ Top.self \in Tensors /\ Size[Top.self] \in 0 .. MaxSize
        /\ Len(stack) \in 1 .. Len(stack)
    BY TopWell, SizeAssumption
  <1>4. mine \in SUBSET PendFiles(stack, inside)
    BY <1>3 DEF PendFiles, Top
  <1>5. Volume(Size, mine) = IF ~InRam(Top) /\ inside /\ Top.pc = "apply"
                             THEN Size[Top.self] ELSE 0
    BY <1>3, VolumeOne, VolumeNone
  <1> HIDE DEF mine
  <1>6. /\ PendRam(stack, inside) \in Nat
        /\ IsFiniteSet(PendFiles(stack, inside))
    BY <1>2, PendNat
  <1>7. /\ Volume(Size, mine) \in Nat /\ Volume(Size, PendFiles(stack, inside)) \in Nat
        /\ Volume(Size, PendFiles(stack', inside'))
             = Volume(Size, PendFiles(stack, inside)) - Volume(Size, mine)
    BY <1>1, <1>4, <1>6, VolumeRest
  <1>8. Volume(bsize, charged) \in Nat /\ Volume(Size, fcharged) \in Nat
    BY SubsetsFinite, VolumeNat DEF TypeOK
  <1>9. /\ LiveRam = Volume(bsize, charged) + PendRam(stack, inside)
        /\ LiveNvme = Volume(Size, fcharged) + Volume(Size, PendFiles(stack, inside))
        /\ LiveRam' = Volume(bsize', charged') + PendRam(stack', inside')
        /\ LiveNvme' = Volume(Size, fcharged') + Volume(Size, PendFiles(stack', inside'))
    BY LiveIs, LiveIsNext
  <1>10. ram' + LiveRam = ram + LiveRam' /\ ram' <= ram
    <2>1. LiveRam' = (Volume(bsize, charged) - out + PendRam(stack, inside)) + 0
      BY <1>1, <1>9
    <2>2. LiveRam' = LiveRam - out /\ LiveRam \in Int
      BY <1>6, <1>8, <1>9, <2>1
    <2>3. ram' + LiveRam = ram + LiveRam'
      BY <1>2, <2>2
    <2> QED BY <1>2, <2>3
  <1>11. nvme' + LiveNvme = nvme + LiveNvme' /\ nvme' <= nvme
    <2>1. Volume(Size, fcharged') = Volume(Size, fcharged) - fout + Volume(Size, mine)
      BY <1>5
    <2>2. Volume(Size, fcharged) \in Int /\ fout \in Int
      BY <1>8
    <2>3. LiveNvme' = LiveNvme - fout /\ LiveNvme \in Int
      <3>1. \A a, m, p, o \in Int : (a - o + m) + (p - m) = (a + p) - o /\ a + p \in Int
        OBVIOUS
      <3>2. Volume(Size, mine) \in Int /\ Volume(Size, PendFiles(stack, inside)) \in Int
        BY <1>7
      <3>3. LiveNvme' = (Volume(Size, fcharged) - fout + Volume(Size, mine))
                        + (Volume(Size, PendFiles(stack, inside)) - Volume(Size, mine))
        BY ONLY <1>7, <1>9, <2>1
      <3> QED BY ONLY <1>9, <2>2, <3>1, <3>2, <3>3
    <2>4. nvme' + LiveNvme = nvme + LiveNvme'
      BY <1>2, <2>2, <2>3
    <2>5. nvme' <= nvme
      BY <1>2
    <2> QED BY <2>4, <2>5
  <1> QED BY <1>1, <1>10, <1>11, BooksStep

\* A new leaf's reservation becomes its allocation.
LEMMA FinishCreateStep ==
  ASSUME TypeOK, TypeOK', ObjectsOK, StackOK, BooksOK, NEW b \in Buffers, FinishCreate(b)
  PROVE  ObjectsOK' /\ StackOK' /\ BooksOK'
  <1> DEFINE t == Top.self
             new == IF inside THEN {b} ELSE {}
  <1>1. /\ stack # <<>> /\ Top.pc = "apply" /\ Top.kind = "create" /\ b \notin Open
        /\ InRam(Top)
    BY DEF FinishCreate, At, Free, InRam
  <1>2. /\ t \in Tensors /\ t \notin alive /\ Size[t] \in 0 .. MaxSize
        /\ Len(stack) \in 1 .. Len(stack) /\ charged \in SUBSET Buffers
        /\ garbage \subseteq alive /\ alive \subseteq Tensors
    <2>1. /\ t \in Tensors /\ Len(stack) \in 1 .. Len(stack)
          /\ ActivationOK(Top, inside, alive, alive \ garbage, spilled)
      BY <1>1, TopWell
    <2>2. t \notin alive
      BY <1>1, <2>1 DEF ActivationOK
    <2>3. charged \in SUBSET Buffers /\ garbage \subseteq alive /\ alive \subseteq Tensors
      BY DEF TypeOK
    <2> QED BY <2>1, <2>2, <2>3, SizeAssumption
  <1>3. /\ alive' = alive \cup {t} /\ charged' = charged \cup new
        /\ \A u \in Tensors : buf'[u] = IF u = t THEN b ELSE buf[u]
        /\ \A x \in Buffers : bsize'[x] = IF x = b THEN Size[t] ELSE bsize[x]
        /\ UNCHANGED <<inside, garbage, operands, spilled, fcharged, ram, nvme, leaked>>
        /\ stack' = SubSeq(stack, 1, Len(stack) - 1)
    <2>1. /\ buf' = [buf EXCEPT ![t] = b] /\ bsize' = [bsize EXCEPT ![b] = Size[t]]
          /\ alive' = alive \cup {t} /\ charged' = IF inside THEN charged \cup {b} ELSE charged
          /\ UNCHANGED <<inside, garbage, operands, spilled, fcharged, ram, nvme, leaked>>
          /\ stack' = SubSeq(stack, 1, Len(stack) - 1)
      BY DEF FinishCreate, Return
    <2>2. charged' = charged \cup new
      BY <2>1
    <2>3. DOMAIN buf = Tensors /\ DOMAIN bsize = Buffers
      BY DEF TypeOK
    <2>4. /\ \A u \in Tensors : buf'[u] = IF u = t THEN b ELSE buf[u]
          /\ \A x \in Buffers : bsize'[x] = IF x = b THEN Size[t] ELSE bsize[x]
      BY ONLY <2>1, <2>3
    <2> QED BY <2>1, <2>2, <2>4
  <1>4. ObjectsOK'
    <2>1. \A u \in Tensors \ alive' : buf'[u] = NoBuffer /\ ~spilled'[u] /\ operands'[u] = {}
      BY <1>3 DEF ObjectsOK
    <2>2. \A u \in alive' : operands'[u] \subseteq alive' \ garbage'
      BY <1>2, <1>3 DEF ObjectsOK
    <2>3. ASSUME NEW x \in charged' PROVE x \in Open'
      <3>1. CASE x = b
        BY <1>2, <1>3, <3>1 DEF Open
      <3>2. CASE x # b
        <4>1. x \in charged /\ x \in Open
          BY <1>3, <3>2 DEF ObjectsOK
        <4>2. PICK u \in alive : buf[u] = x
          BY <4>1 DEF Open
        <4>3. u \in alive' /\ u \in Tensors /\ u # t /\ buf'[u] = x /\ x \in Buffers
          BY <1>2, <1>3, <4>1, <4>2
        <4> QED BY <4>3 DEF Open
      <3> QED BY <3>1, <3>2
    <2>4. \A u \in fcharged' : spilled'[u]
      BY <1>3 DEF ObjectsOK
    <2> QED BY <2>1, <2>2, <2>3, <2>4 DEF ObjectsOK
  <1>5. Volume(bsize', charged') = Volume(bsize, charged) + PendRam(stack, inside)
    <2>1. \A x \in charged : bsize'[x] = bsize[x] /\ x # b
      BY <1>1, <1>2, <1>3 DEF ObjectsOK
    <2>2. Volume(bsize', charged) = Volume(bsize, charged)
      BY <2>1, VolumeSame
    <2>3. Volume(bsize', new) = PendRam(stack, inside)
      <3>1. bsize'[b] = Size[t] /\ bsize'[b] \in 0 .. MaxSize
        BY <1>2, <1>3
      <3>2. PendRam(stack, inside) = IF inside THEN Size[t] ELSE 0
        BY <1>1 DEF PendRam, Top
      <3> QED BY <3>1, <3>2, VolumeOne, VolumeNone
    <2>4. charged \cap new = {} /\ IsFiniteSet(charged) /\ IsFiniteSet(new)
      <3>1. new \in SUBSET Buffers
        OBVIOUS
      <3> QED BY <1>2, <2>1, <3>1, SubsetsFinite
    <2> HIDE DEF new
    <2> QED BY <1>3, <2>2, <2>3, <2>4, VolumeUnion
  <1>6. /\ Volume(bsize, charged) \in Nat /\ Volume(Size, fcharged) \in Nat
        /\ ram \in Int /\ nvme \in Int /\ PendRam(stack, inside) \in Nat
    BY SubsetsFinite, VolumeNat, PendNat DEF TypeOK
  <1>7. /\ 0 \in Nat /\ ram' = ram - 0 /\ nvme' = nvme - 0
        /\ Volume(bsize', charged') = Volume(bsize, charged) - 0 + PendRam(stack, inside)
        /\ Volume(Size, fcharged') = Volume(Size, fcharged) - 0
             + (IF ~InRam(Top) /\ inside /\ Top.pc = "apply" THEN Size[Top.self] ELSE 0)
    BY <1>1, <1>3, <1>5, <1>6
  <1>8. /\ alive \ garbage \subseteq alive' \ garbage' /\ alive' \subseteq alive \cup {Top.self}
        /\ inside => \A u \in Tensors :
             spilled'[u] => spilled[u] \/ (u = Top.self /\ ~InRam(Top))
    BY <1>2, <1>3
  <1> HIDE DEF t, new
  <1> QED BY <1>1, <1>3, <1>4, <1>7, <1>8, ReturnStep

\* A realize that stores the value it has restored or computed.
LEMMA StoredObjects ==
  ASSUME TypeOK, TypeOK', ObjectsOK, NEW b \in Free, NEW data, Store(b, data),
         Top.self \in alive, UNCHANGED <<inside, alive, garbage, operands>>,
         fcharged' \subseteq fcharged \ {Top.self} \/ UNCHANGED <<spilled, fcharged>>,
         \A t \in Tensors : t # Top.self => spilled'[t] = spilled[t]
  PROVE  ObjectsOK'
  <1>1. charged' \subseteq Open'
    BY StoreStep
  <1>2. \A t \in Tensors : t # Top.self => buf'[t] = buf[t]
    BY DEF Store, TypeOK
  <1>3. \A t \in fcharged' : spilled'[t]
    BY DEF ObjectsOK, TypeOK
  <1> QED BY <1>1, <1>2, <1>3 DEF ObjectsOK

\* Restoring: the reservation becomes an allocation, the file's is given back.
LEMMA ReloadStep ==
  ASSUME TypeOK, TypeOK', ObjectsOK, StackOK, BooksOK, NEW b \in Buffers, Reload(b)
  PROVE  ObjectsOK' /\ StackOK' /\ BooksOK'
  <1> DEFINE t == Top.self
             gone == {t} \cap fcharged
  <1>1. /\ stack # <<>> /\ Top.pc = "apply" /\ Top.kind = "realize" /\ b \in Free
        /\ InRam(Top) /\ Store(b, fdata[t])
        /\ UNCHANGED <<inside, alive, garbage, operands, leaked>>
    BY DEF Reload, ReadBack, At, InRam
  <1>2. /\ t \in Tensors /\ t \in alive /\ fcharged \in SUBSET Tensors
    BY <1>1, TopWell DEF ActivationOK, TypeOK
  <1>3. /\ \A u \in Tensors : spilled'[u] = IF u = t THEN FALSE ELSE spilled[u]
        /\ fcharged' = fcharged \ gone /\ fcharged' \subseteq fcharged \ {t}
        /\ nvme' = nvme - Volume(Size, gone)
        /\ stack' = SubSeq(stack, 1, Len(stack) - 1)
    BY <1>2 DEF Reload, ReadBack, Return, FileBytes, TypeOK
  <1>4. ObjectsOK'
    BY <1>1, <1>2, <1>3, StoredObjects
  <1>5. PICK out \in Nat :
          /\ ram' = ram - out
          /\ Volume(bsize', charged') = Volume(bsize, charged) - out
                                        + (IF inside THEN Size[t] ELSE 0)
    BY <1>1, <1>2, StoreStep
  <1>6. PendRam(stack, inside) = IF inside THEN Size[t] ELSE 0
    BY <1>1 DEF PendRam, Top
  <1>7. gone \in SUBSET fcharged /\ IsFiniteSet(fcharged)
    BY <1>2, SubsetsFinite
  <1> HIDE DEF gone, t
  <1>8. /\ Volume(Size, gone) \in Nat /\ Volume(Size, fcharged) \in Nat
        /\ Volume(Size, fcharged') = Volume(Size, fcharged) - Volume(Size, gone)
    BY <1>3, <1>7, VolumeRest
  <1>9. Volume(Size, fcharged') = Volume(Size, fcharged) - Volume(Size, gone)
          + (IF ~InRam(Top) /\ inside /\ Top.pc = "apply" THEN Size[Top.self] ELSE 0)
    BY <1>1, <1>8
  <1>10. /\ alive \ garbage \subseteq alive' \ garbage' /\ alive' \subseteq alive \cup {Top.self}
         /\ inside => \A u \in Tensors :
              spilled'[u] => spilled[u] \/ (u = Top.self /\ ~InRam(Top))
    BY <1>1, <1>3
  <1>11. Volume(bsize', charged') = Volume(bsize, charged) - out + PendRam(stack, inside)
    BY <1>5, <1>6
  <1> QED BY <1>1, <1>3, <1>4, <1>5, <1>8, <1>9, <1>10, <1>11, ReturnStep

\* A file that cannot be removed: the reservation of the allocation goes with it,
\* that of the file stays behind, and the exception unwinds.
LEMMA ReleaseFailsStep ==
  ASSUME TypeOK, TypeOK', ObjectsOK, StackOK, BooksOK, NEW b \in Buffers, ReleaseFails(b)
  PROVE  ObjectsOK' /\ StackOK' /\ BooksOK'
  <1> DEFINE t == Top.self
             gone == {t} \cap fcharged
  <1>1. PICK kept \in 0 .. Len(stack) :
          /\ Caught(kept) /\ Unwind(kept)
          /\ nvme' = nvme - Volume(Size, Abandoned(kept))
    BY DEF ReleaseFails, FileBytes
  <1>2. /\ stack # <<>> /\ Top.pc = "apply" /\ Top.kind = "realize" /\ b \in Free
        /\ InRam(Top) /\ Store(b, fdata[t])
        /\ UNCHANGED <<inside, alive, garbage, operands>>
        /\ leaked' = leaked + Volume(Size, gone)
    BY DEF ReleaseFails, ReadBack, At, InRam, FileBytes
  <1>3. /\ t \in Tensors /\ t \in alive /\ fcharged \in SUBSET Tensors
    BY <1>2, TopWell DEF ActivationOK, TypeOK
  <1>4. /\ \A u \in Tensors : spilled'[u] = IF u = t THEN FALSE ELSE spilled[u]
        /\ fcharged' = fcharged \ gone /\ fcharged' \subseteq fcharged \ {t}
    BY <1>3 DEF ReleaseFails, ReadBack, TypeOK
  <1>5. ObjectsOK'
    BY <1>2, <1>3, <1>4, StoredObjects
  <1> DEFINE files == Abandoned(kept)
  <1>6. /\ StackOK' /\ ~ At("commit")' /\ PendRam(stack', inside') = 0
        /\ PendFiles(stack', inside') = PendFiles(stack, inside) \ files
        /\ files \subseteq PendFiles(stack, inside)
    BY <1>1, <1>2, <1>4, UnwindStack
  <1>7. PICK out \in Nat :
          /\ ram' = ram - out
          /\ Volume(bsize', charged') = Volume(bsize, charged) - out
                                        + (IF inside THEN Size[t] ELSE 0)
    BY <1>2, <1>3, StoreStep
  <1>8. PendRam(stack, inside) = IF inside THEN Size[t] ELSE 0
    BY <1>2 DEF PendRam, Top
  <1>9. gone \in SUBSET fcharged /\ IsFiniteSet(fcharged)
    BY <1>3, SubsetsFinite
  <1> HIDE DEF gone, t, files
  <1>10. /\ Volume(Size, gone) \in Nat /\ Volume(Size, fcharged) \in Nat
         /\ Volume(Size, fcharged') = Volume(Size, fcharged) - Volume(Size, gone)
    BY <1>4, <1>9, VolumeRest
  <1>11. /\ Volume(Size, files) \in Nat /\ Volume(Size, PendFiles(stack, inside)) \in Nat
         /\ Volume(Size, PendFiles(stack', inside'))
              = Volume(Size, PendFiles(stack, inside)) - Volume(Size, files)
    BY <1>6, UnwindBytes
  <1>12. /\ Volume(bsize, charged) \in Nat /\ PendRam(stack, inside) \in Nat
         /\ ram \in Int /\ nvme \in Int /\ leaked \in Nat
    BY SubsetsFinite, VolumeNat, PendNat DEF TypeOK
  <1>13. ram' + LiveRam = ram + LiveRam' /\ ram' <= ram
    <2>1. LiveRam = Volume(bsize, charged) + PendRam(stack, inside)
      BY LiveIs
    <2>2. LiveRam' = Volume(bsize', charged') + PendRam(stack', inside')
      BY <1>5, LiveIsNext
    <2>3. LiveRam' = Volume(bsize, charged) - out + PendRam(stack, inside)
      BY <1>6, <1>7, <1>8, <1>12, <2>2
    <2> QED BY <1>7, <1>12, <2>1, <2>3
  <1>14. nvme' + HeldNvme = nvme + HeldNvme' /\ nvme' <= nvme
    <2>1. LiveNvme = Volume(Size, fcharged) + Volume(Size, PendFiles(stack, inside))
      BY LiveIs
    <2>2. LiveNvme' = Volume(Size, fcharged') + Volume(Size, PendFiles(stack', inside'))
      BY <1>5, LiveIsNext
    <2>3. HeldNvme = LiveNvme + leaked /\ HeldNvme' = LiveNvme' + leaked'
      BY DEF HeldNvme
    <2>4. nvme' = nvme - Volume(Size, files)
      BY <1>1 DEF files
    <2>5. leaked' = leaked + Volume(Size, gone)
      BY <1>2
    <2>6. \A f, g, p, v, l, n \in Int :
            /\ (n - v) - (((f - g) + (p - v)) + (l + g)) = n - ((f + p) + l)
            /\ v \in Nat => n - v <= n
      OBVIOUS
    <2>7. /\ Volume(Size, files) \in Nat /\ Volume(Size, files) \in Int
          /\ Volume(Size, PendFiles(stack, inside)) \in Int
          /\ Volume(Size, fcharged) \in Int /\ Volume(Size, gone) \in Int
          /\ leaked \in Int /\ nvme \in Int
      BY ONLY <1>10, <1>11, <1>12
    <2>8. HeldNvme' = ((Volume(Size, fcharged) - Volume(Size, gone))
                        + (Volume(Size, PendFiles(stack, inside)) - Volume(Size, files)))
                      + (leaked + Volume(Size, gone))
      BY ONLY <1>10, <1>11, <2>2, <2>3, <2>5
    <2>9. HeldNvme = (Volume(Size, fcharged) + Volume(Size, PendFiles(stack, inside))) + leaked
      BY ONLY <2>1, <2>3
    <2> QED BY ONLY <2>4, <2>6, <2>7, <2>8, <2>9
  <1> QED BY <1>5, <1>6, <1>13, <1>14, HeldStep

\* Evaluating: the reservation becomes an allocation.
LEMMA EvaluateStep ==
  ASSUME TypeOK, TypeOK', ObjectsOK, StackOK, BooksOK, NEW b \in Buffers, Evaluate(b)
  PROVE  ObjectsOK' /\ StackOK' /\ BooksOK'
  <1> DEFINE t == Top.self
             data == IF buf[t] = NoBuffer THEN Pages ELSE bdata[buf[t]]
  <1>1. /\ stack # <<>> /\ Top.pc = "apply" /\ Top.kind = "realize" /\ b \in Free
        /\ InRam(Top) /\ Store(b, data)
        /\ UNCHANGED <<inside, alive, garbage, operands, spilled, fcharged, nvme, leaked>>
        /\ stack' = SubSeq(stack, 1, Len(stack) - 1)
    BY DEF Evaluate, Return, At, InRam
  <1>2. t \in Tensors /\ t \in alive
    BY <1>1, TopWell DEF ActivationOK
  <1>3. ObjectsOK'
    BY <1>1, <1>2, StoredObjects
  <1>4. PICK out \in Nat :
          /\ ram' = ram - out
          /\ Volume(bsize', charged') = Volume(bsize, charged) - out
                                        + (IF inside THEN Size[t] ELSE 0)
    BY <1>1, <1>2, StoreStep
  <1>5. PendRam(stack, inside) = IF inside THEN Size[t] ELSE 0
    BY <1>1 DEF PendRam, Top
  <1>6. Volume(Size, fcharged) \in Nat /\ nvme \in Int
    BY SubsetsFinite, VolumeNat DEF TypeOK
  <1>7. /\ 0 \in Nat /\ nvme' = nvme - 0
        /\ Volume(bsize', charged') = Volume(bsize, charged) - out + PendRam(stack, inside)
        /\ Volume(Size, fcharged') = Volume(Size, fcharged) - 0
             + (IF ~InRam(Top) /\ inside /\ Top.pc = "apply" THEN Size[Top.self] ELSE 0)
    BY <1>1, <1>4, <1>5, <1>6
  <1>8. /\ alive \ garbage \subseteq alive' \ garbage' /\ alive' \subseteq alive \cup {Top.self}
        /\ inside => \A u \in Tensors :
             spilled'[u] => spilled[u] \/ (u = Top.self /\ ~InRam(Top))
    BY <1>1
  <1> HIDE DEF t
  <1> QED BY <1>1, <1>3, <1>4, <1>7, <1>8, ReturnStep

\* The native path: the output is allocated, then the kernel is launched.
LEMMA AllocateOutputStep ==
  ASSUME TypeOK, TypeOK', ObjectsOK, StackOK, BooksOK, NEW b \in Buffers, AllocateOutput(b)
  PROVE  ObjectsOK' /\ StackOK' /\ BooksOK'
  <1> DEFINE t == Top.self
             f == [Top EXCEPT !.pc = "launch"]
             none == {}
  <1>1. /\ stack # <<>> /\ Top.pc = "apply" /\ Top.kind = "realize" /\ b \in Free
        /\ InRam(Top) /\ Store(b, none)
        /\ UNCHANGED <<inside, alive, garbage, operands, spilled, fcharged, nvme, leaked>>
        /\ stack' = [stack EXCEPT ![Len(stack)] = f]
    BY DEF AllocateOutput, Goto, Top, At, InRam
  <1>2. /\ t \in Tensors /\ t \in alive /\ Top \in Frames
        /\ ActivationOK(Top, inside, alive, alive \ garbage, spilled)
    BY <1>1, TopWell DEF ActivationOK
  <1>3. /\ f \in Frames /\ f.kind = Top.kind /\ f.self = t /\ f.pc = "launch"
        /\ f.vals = Top.vals /\ f.todo = Top.todo /\ f.native = Top.native
    BY <1>2 DEF Frames
  <1> HIDE DEF f
  <1>4. InRam(f) /\ ActivationOK(f, inside, alive, alive \ garbage, spilled)
    BY <1>1, <1>2, <1>3 DEF ActivationOK, InRam
  <1>5. /\ StackOK' /\ Top' = f
        /\ PendRam(stack', inside') =
             IF InRam(f) /\ inside /\ f.pc = "apply" THEN Size[f.self] ELSE 0
        /\ PendFiles(stack', inside') = PendFiles(stack, inside)
    BY <1>1, <1>3, <1>4, PutStack
  <1>6. ObjectsOK'
    BY <1>1, <1>2, StoredObjects
  <1>7. PICK out \in Nat :
          /\ ram' = ram - out
          /\ Volume(bsize', charged') = Volume(bsize, charged) - out
                                        + (IF inside THEN Size[t] ELSE 0)
    <2> HIDE DEF none
    <2> QED BY <1>1, <1>2, StoreStep
  <1>8. PendRam(stack, inside) = IF inside THEN Size[t] ELSE 0
    BY <1>1 DEF PendRam, Top
  <1>9. /\ Volume(bsize, charged) \in Nat /\ PendRam(stack, inside) \in Nat
        /\ ram \in Int /\ nvme \in Int
    BY SubsetsFinite, VolumeNat, PendNat DEF TypeOK
  <1>10. LiveRam = Volume(bsize, charged) + PendRam(stack, inside)
    BY LiveIs
  <1>11. LiveRam' = Volume(bsize', charged') + PendRam(stack', inside')
    BY <1>6, LiveIsNext
  <1>12. LiveNvme' = LiveNvme
    BY <1>1, <1>5, <1>6, LiveIs, LiveIsNext
  <1>13. ram' + LiveRam = ram + LiveRam' /\ ram' <= ram
    <2>1. Volume(bsize', charged') = Volume(bsize, charged) - out + PendRam(stack, inside)
      BY <1>7, <1>8
    <2>2. LiveRam' = Volume(bsize, charged) - out + PendRam(stack, inside)
      BY <1>3, <1>5, <1>9, <1>11, <2>1
    <2> QED BY <1>7, <1>9, <1>10, <2>2
  <1>14. /\ ~ At("commit")' /\ nvme' + LiveNvme = nvme + LiveNvme' /\ nvme' <= nvme
         /\ UNCHANGED leaked
    BY <1>1, <1>3, <1>5, <1>9, <1>12 DEF At
  <1> QED BY <1>5, <1>6, <1>13, <1>14, BooksStep

\* An operation returns without an allocation or a file of its own.
LEMMA PlainReturn ==
  ASSUME TypeOK, TypeOK', ObjectsOK, StackOK, BooksOK, stack # <<>>, Top.pc # "apply",
         stack' = SubSeq(stack, 1, Len(stack) - 1),
         UNCHANGED <<inside, alive, garbage, operands, buf, spilled, charged,
                     fcharged, bsize, ram, nvme, leaked>>
  PROVE  ObjectsOK' /\ StackOK' /\ BooksOK'
  <1>1. ObjectsOK'
    BY DEF ObjectsOK, Open
  <1>2. /\ Volume(bsize, charged) \in Nat /\ Volume(Size, fcharged) \in Nat
        /\ ram \in Int /\ nvme \in Int
    BY SubsetsFinite, VolumeNat DEF TypeOK
  <1>3. PendRam(stack, inside) = 0
    BY DEF PendRam, Top
  <1>4. /\ 0 \in Nat /\ ram' = ram - 0 /\ nvme' = nvme - 0
        /\ Volume(bsize', charged') = Volume(bsize, charged) - 0 + PendRam(stack, inside)
        /\ Volume(Size, fcharged') = Volume(Size, fcharged) - 0
             + (IF ~InRam(Top) /\ inside /\ Top.pc = "apply" THEN Size[Top.self] ELSE 0)
    BY <1>2, <1>3
  <1>5. /\ alive \ garbage \subseteq alive' \ garbage' /\ alive' \subseteq alive \cup {Top.self}
        /\ inside => \A u \in Tensors :
             spilled'[u] => spilled[u] \/ (u = Top.self /\ ~InRam(Top))
    OBVIOUS
  <1> QED BY <1>1, <1>4, <1>5, ReturnStep

\* Spilling: the reservation becomes a file, the allocation's is given back.
LEMMA DetachStep ==
  ASSUME TypeOK, TypeOK', ObjectsOK, StackOK, BooksOK, Detach
  PROVE  ObjectsOK' /\ StackOK' /\ BooksOK'
  <1> DEFINE t == Top.self
             freed == {buf[t]} \cap Orphans({t})
             lost == freed \cap charged
             new == IF inside THEN {t} ELSE {}
  <1>1. stack # <<>> /\ Top.pc = "apply" /\ ~InRam(Top)
    BY DEF Detach, At
  <1>2. /\ t \in Tensors /\ t \in alive /\ (inside => ~spilled[t])
        /\ Size[t] \in 0 .. MaxSize
    <2>1. t \in Tensors /\ ActivationOK(Top, inside, alive, alive \ garbage, spilled)
      BY <1>1, TopWell
    <2>2. t \in alive /\ (inside => ~spilled[t])
      BY <1>1, <2>1 DEF ActivationOK, InRam
    <2> QED BY <2>1, <2>2, SizeAssumption
  <1>3. charged \in SUBSET Buffers /\ fcharged \in SUBSET Tensors /\ ram \in Int /\ nvme \in Int
    BY DEF TypeOK
  <1>4. /\ charged' = charged \ lost /\ fcharged' = fcharged \cup new
        /\ ram' = ram - Volume(bsize, lost)
        /\ UNCHANGED <<inside, alive, garbage, operands, nvme, leaked>>
        /\ stack' = SubSeq(stack, 1, Len(stack) - 1)
    BY DEF Detach, Return, Bytes
  <1>5. /\ \A u \in Tensors : buf'[u] = IF u = t THEN NoBuffer ELSE buf[u]
        /\ \A u \in Tensors : spilled'[u] = IF u = t THEN TRUE ELSE spilled[u]
        /\ \A x \in Buffers : bsize'[x] = IF x \in freed THEN 0 ELSE bsize[x]
    <2>1. /\ buf' = [buf EXCEPT ![t] = NoBuffer] /\ spilled' = [spilled EXCEPT ![t] = TRUE]
          /\ bsize' = [x \in DOMAIN bsize |-> IF x \in freed THEN 0 ELSE bsize[x]]
      BY DEF Detach, Forget
    <2>2. DOMAIN buf = Tensors /\ DOMAIN spilled = Tensors /\ DOMAIN bsize = Buffers
      BY DEF TypeOK
    <2> HIDE DEF freed
    <2> QED BY ONLY <2>1, <2>2
  <1>6. ObjectsOK'
    <2>1. \A u \in Tensors \ alive' : buf'[u] = NoBuffer /\ ~spilled'[u] /\ operands'[u] = {}
      BY <1>2, <1>4, <1>5 DEF ObjectsOK
    <2>2. \A u \in alive' : operands'[u] \subseteq alive' \ garbage'
      BY <1>4 DEF ObjectsOK
    <2>3. ASSUME NEW x \in charged' PROVE x \in Open'
      <3>1. x \in charged /\ x \notin freed /\ x \in Open /\ x \in Buffers
        BY <1>3, <1>4 DEF ObjectsOK
      <3>2. PICK u \in alive : buf[u] = x /\ u # t
        <4>1. CASE x \in Orphans({t})
          BY <3>1, <4>1 DEF Open
        <4>2. CASE x \notin Orphans({t})
          BY <3>1, <4>2 DEF Orphans
        <4> QED BY <4>1, <4>2
      <3>3. u \in alive' /\ buf'[u] = x
        BY <1>4, <1>5, <3>2 DEF TypeOK
      <3> QED BY <3>1, <3>3 DEF Open
    <2>4. \A u \in fcharged' : spilled'[u]
      BY <1>2, <1>3, <1>4, <1>5 DEF ObjectsOK
    <2> QED BY <2>1, <2>2, <2>3, <2>4 DEF ObjectsOK
  <1>7. \A x \in charged' : bsize'[x] = bsize[x]
    BY <1>3, <1>4, <1>5
  <1>8. fcharged \cap new = {}
    BY <1>2 DEF ObjectsOK
  <1>9. /\ lost \in SUBSET charged /\ IsFiniteSet(charged)
        /\ IsFiniteSet(fcharged) /\ IsFiniteSet(new)
    BY <1>2, <1>3, SubsetsFinite
  <1>10. Volume(Size, new) = IF inside THEN Size[t] ELSE 0
    BY <1>2, VolumeOne, VolumeNone
  <1> HIDE DEF lost, new
  <1>11. /\ Volume(bsize, lost) \in Nat /\ Volume(bsize, charged) \in Nat
         /\ Volume(bsize, charged \ lost) = Volume(bsize, charged) - Volume(bsize, lost)
    BY <1>9, VolumeRest
  <1>12. Volume(bsize', charged') = Volume(bsize, charged) - Volume(bsize, lost)
                                    + PendRam(stack, inside)
    <2>1. Volume(bsize', charged') = Volume(bsize, charged')
      BY <1>7, VolumeSame
    <2>2. PendRam(stack, inside) = 0
      BY <1>1 DEF PendRam, Top
    <2> QED BY <1>4, <1>11, <2>1, <2>2
  <1>13. Volume(Size, fcharged') = Volume(Size, fcharged) - 0
           + (IF ~InRam(Top) /\ inside /\ Top.pc = "apply" THEN Size[Top.self] ELSE 0)
    <2>1. Volume(Size, fcharged') = Volume(Size, fcharged) + Volume(Size, new)
      BY <1>4, <1>8, <1>9, VolumeUnion
    <2>2. Volume(Size, fcharged) \in Nat
      BY <1>9, VolumeNat
    <2> QED BY <1>1, <1>10, <2>1, <2>2
  <1>14. /\ alive \ garbage \subseteq alive' \ garbage' /\ alive' \subseteq alive \cup {Top.self}
         /\ inside => \A u \in Tensors :
              spilled'[u] => spilled[u] \/ (u = Top.self /\ ~InRam(Top))
    BY <1>1, <1>4, <1>5
  <1>15. 0 \in Nat /\ nvme' = nvme - 0
    BY <1>3, <1>4
  <1> HIDE DEF t
  <1> QED BY <1>1, <1>4, <1>6, <1>11, <1>12, <1>13, <1>14, <1>15, ReturnStep

-----------------------------------------------------------------------------
(* Reservations.                                                           *)

\* A file is reserved for at most once.
LEMMA NotReserved ==
  ASSUME StackOK, stack # <<>>, Len(stack) \in 1 .. Len(stack), inside, ~InRam(Top), Top.pc # "apply"
  PROVE  Top.self \notin PendFiles(stack, inside)
  <1>1. \A i, j \in 1 .. Len(stack) :
          ~InRam(stack[i]) /\ ~InRam(stack[j]) /\ stack[i].self = stack[j].self => i = j
    BY DEF StackOK, WellStacked
  <1> QED BY <1>1 DEF PendFiles, Top

\* The top activation moves on without a reservation.
LEMMA MoveStep ==
  ASSUME TypeOK, TypeOK', ObjectsOK, StackOK, stack # <<>>, Top.pc \in {"inputs", "reserve"},
         NEW f \in Frames, f.kind = Top.kind, f.self = Top.self,
         ActivationOK(f, inside, alive, alive \ garbage, spilled),
         inside => f.pc # "apply",
         stack' = [stack EXCEPT ![Len(stack)] = f],
         UNCHANGED inside, UNCHANGED objects, UNCHANGED <<ram, nvme, leaked>>
  PROVE  /\ ObjectsOK' /\ StackOK' /\ Top' = f
         /\ LiveRam' = LiveRam /\ LiveNvme' = LiveNvme /\ HeldNvme' = HeldNvme
  <1>1. /\ StackOK' /\ Top' = f
        /\ PendRam(stack', inside') =
             IF InRam(f) /\ inside /\ f.pc = "apply" THEN Size[f.self] ELSE 0
        /\ InRam(f) \/ ~inside => PendFiles(stack', inside') = PendFiles(stack, inside)
        /\ ~InRam(f) /\ inside /\ f.pc # "apply" =>
             PendFiles(stack', inside') = PendFiles(stack, inside) \ {f.self}
    BY PutStack
  <1>2. PendRam(stack, inside) = 0 /\ PendRam(stack', inside') = 0
    BY <1>1 DEF PendRam, Top
  <1>3. PendFiles(stack', inside') = PendFiles(stack, inside)
    <2>1. Len(stack) \in 1 .. Len(stack)
      BY TopWell
    <2>2. InRam(f) <=> InRam(Top)
      BY DEF InRam
    <2>3. inside /\ ~InRam(f) => f.self \notin PendFiles(stack, inside)
      BY <2>1, <2>2, NotReserved
    <2> QED BY <1>1, <2>3
  <1>4. ObjectsOK'
    BY ObjectsKept
  <1>5. LiveRam' = LiveRam /\ LiveNvme' = LiveNvme
    BY <1>2, <1>3, <1>4, LiveIs, LiveIsNext
  <1> QED BY <1>1, <1>4, <1>5 DEF HeldNvme

\* Nothing is reserved yet.
LEMMA StartReserveStep ==
  ASSUME TypeOK, TypeOK', ObjectsOK, StackOK, BooksOK, StartReserve
  PROVE  ObjectsOK' /\ StackOK' /\ BooksOK'
  <1> DEFINE next == IF inside THEN "reserve" ELSE "apply"
             f == [Top EXCEPT !.pc = next]
  <1>1. /\ stack # <<>> /\ Top.pc = "inputs" /\ (~InRam(Top) => ~spilled[Top.self])
        /\ stack' = [stack EXCEPT ![Len(stack)] = f]
        /\ UNCHANGED inside /\ UNCHANGED objects /\ UNCHANGED <<ram, nvme, leaked>>
    BY DEF StartReserve, Goto, Top, At
  <1>2. Top \in Frames /\ ActivationOK(Top, inside, alive, alive \ garbage, spilled)
    BY <1>1, TopWell
  <1>3. /\ f \in Frames /\ f.kind = Top.kind /\ f.self = Top.self /\ f.pc = next
        /\ f.vals = Top.vals /\ f.todo = Top.todo /\ f.native = Top.native
    BY <1>2 DEF Frames
  <1> HIDE DEF f
  <1>4. ActivationOK(f, inside, alive, alive \ garbage, spilled)
    BY <1>1, <1>2, <1>3 DEF ActivationOK, InRam
  <1>5. /\ ObjectsOK' /\ StackOK' /\ Top' = f
        /\ LiveRam' = LiveRam /\ LiveNvme' = LiveNvme
    BY <1>1, <1>3, <1>4, MoveStep
  <1>6. ~ At("commit")'
    BY <1>3, <1>5 DEF At
  <1>7. /\ ram' + LiveRam = ram + LiveRam' /\ nvme' + LiveNvme = nvme + LiveNvme'
        /\ ram' <= ram /\ nvme' <= nvme
    BY <1>1, <1>5 DEF TypeOK
  <1> QED BY <1>1, <1>5, <1>6, <1>7, BooksStep

\* What reserve is going to store covers the bytes there will be.
LEMMA ReserveReadStep ==
  ASSUME TypeOK, TypeOK', ObjectsOK, StackOK, BooksOK, ReserveRead
  PROVE  ObjectsOK' /\ StackOK' /\ BooksOK'
  <1> DEFINE total == LiveOf(Top) + Size[Top.self]
             f == [Top EXCEPT !.pc = "commit", !.seen = total]
  <1>1. /\ stack # <<>> /\ Top.pc = "reserve" /\ Fits(Top)
        /\ stack' = [stack EXCEPT ![Len(stack)] = f]
        /\ UNCHANGED inside /\ UNCHANGED objects /\ UNCHANGED <<ram, nvme, leaked>>
    BY DEF ReserveRead, Top, At
  <1>2. /\ Top \in Frames /\ Top.self \in Tensors
        /\ ActivationOK(Top, inside, alive, alive \ garbage, spilled)
    BY <1>1, TopWell
  <1>3. ram \in Int /\ nvme \in Int /\ Size[Top.self] \in Int
    BY <1>2, SizeAssumption DEF TypeOK
  <1>4. total \in Int
    BY <1>3 DEF LiveOf
  <1>5. /\ f \in Frames /\ f.kind = Top.kind /\ f.self = Top.self /\ f.pc = "commit"
        /\ f.vals = Top.vals /\ f.todo = Top.todo /\ f.native = Top.native /\ f.seen = total
    BY <1>2, <1>4 DEF Frames
  <1> HIDE DEF f
  <1>6. ActivationOK(f, inside, alive, alive \ garbage, spilled)
    BY <1>1, <1>2, <1>5 DEF ActivationOK, InRam
  <1>7. inside => f.pc # "apply"
    BY <1>5
  <1>8. /\ ObjectsOK' /\ StackOK' /\ Top' = f
        /\ LiveRam' = LiveRam /\ HeldNvme' = HeldNvme
    BY <1>1, <1>5, <1>6, <1>7, MoveStep
  <1>9. /\ LiveRam <= ram /\ ram <= RamBudget /\ HeldNvme <= nvme /\ nvme <= NvmeBudget
        /\ ~GcInReserve => ram = LiveRam /\ nvme = HeldNvme
    BY DEF BooksOK
  <1>10. LiveRam \in Int /\ HeldNvme \in Int
    BY LiveNat
  <1>11. InRam(f) <=> InRam(Top)
    BY <1>5 DEF InRam
  <1>12. /\ Needed(Top)' = (IF InRam(Top) THEN LiveRam ELSE HeldNvme) + Size[Top.self]
         /\ Limit(Top)' = Limit(Top) /\ Top'.seen = total
    <2>1. /\ Needed(Top)' = (IF InRam(Top') THEN LiveRam' ELSE HeldNvme') + Size[Top'.self]
          /\ Limit(Top)' = IF InRam(Top') THEN RamBudget ELSE NvmeBudget
      BY DEF Needed, Limit
    <2>2. Top'.self = Top.self /\ (InRam(Top') <=> InRam(Top)) /\ Top'.seen = total
      BY <1>5, <1>8, <1>11
    <2> QED BY <1>8, <2>1, <2>2 DEF Limit
  <1>13. total <= Limit(Top)
    BY <1>1 DEF Fits
  <1>14. /\ (IF InRam(Top) THEN LiveRam ELSE HeldNvme) + Size[Top.self] <= total
         /\ ~GcInReserve =>
              total = (IF InRam(Top) THEN LiveRam ELSE HeldNvme) + Size[Top.self]
    BY <1>3, <1>9, <1>10 DEF LiveOf
  <1> HIDE DEF total
  <1>15. /\ Needed(Top)' <= Top'.seen /\ Top'.seen <= Limit(Top)'
         /\ ~GcInReserve => Top'.seen = Needed(Top)'
    BY <1>12, <1>13, <1>14
  <1> QED BY <1>1, <1>8, <1>9, <1>15 DEF BooksOK

\* The reservation is made.
LEMMA ReserveCommitStep ==
  ASSUME TypeOK, TypeOK', ObjectsOK, StackOK, BooksOK, ReserveCommit
  PROVE  ObjectsOK' /\ StackOK' /\ BooksOK'
  <1> DEFINE f == [Top EXCEPT !.pc = "apply"]
  <1>1. /\ stack # <<>> /\ Top.pc = "commit" /\ At("commit")
        /\ ram' = (IF InRam(Top) THEN Top.seen ELSE ram)
        /\ nvme' = (IF InRam(Top) THEN nvme ELSE Top.seen)
        /\ stack' = [stack EXCEPT ![Len(stack)] = f]
        /\ UNCHANGED inside /\ UNCHANGED objects /\ UNCHANGED leaked
    BY DEF ReserveCommit, Goto, Top, At
  <1>2. /\ Top \in Frames /\ Top.self \in Tensors /\ Len(stack) \in 1 .. Len(stack)
        /\ ActivationOK(Top, inside, alive, alive \ garbage, spilled)
    BY <1>1, TopWell
  <1>3. /\ ram \in Int /\ nvme \in Int /\ Size[Top.self] \in 0 .. MaxSize
        /\ Top.seen \in Int
    BY <1>2, SizeAssumption DEF TypeOK, Frames
  <1>4. /\ f \in Frames /\ f.kind = Top.kind /\ f.self = Top.self /\ f.pc = "apply"
        /\ f.vals = Top.vals /\ f.todo = Top.todo /\ f.native = Top.native
    BY <1>2 DEF Frames
  <1> HIDE DEF f
  <1>5. inside /\ (InRam(f) <=> InRam(Top))
    BY <1>1, <1>2, <1>4 DEF ActivationOK, InRam
  <1>6. ActivationOK(f, inside, alive, alive \ garbage, spilled)
    BY <1>1, <1>2, <1>4, <1>5 DEF ActivationOK
  <1>7. /\ StackOK' /\ Top' = f
        /\ PendRam(stack', inside') =
             IF InRam(f) /\ inside /\ f.pc = "apply" THEN Size[f.self] ELSE 0
        /\ InRam(f) \/ ~inside => PendFiles(stack', inside') = PendFiles(stack, inside)
        /\ ~InRam(f) /\ inside /\ f.pc = "apply" =>
             PendFiles(stack', inside') = PendFiles(stack, inside) \cup {f.self}
    BY <1>1, <1>4, <1>6, PutStack
  <1>8. ObjectsOK'
    BY <1>1, ObjectsKept
  <1>9. /\ LiveRam = Volume(bsize, charged) + PendRam(stack, inside)
        /\ LiveNvme = Volume(Size, fcharged) + Volume(Size, PendFiles(stack, inside))
        /\ LiveRam' = Volume(bsize, charged) + PendRam(stack', inside')
        /\ LiveNvme' = Volume(Size, fcharged) + Volume(Size, PendFiles(stack', inside'))
    BY <1>1, <1>8, LiveIs, LiveIsNext
  <1>10. PendRam(stack, inside) = 0
    BY <1>1 DEF PendRam, Top
  <1>11. /\ Volume(bsize, charged) \in Nat /\ Volume(Size, fcharged) \in Nat
         /\ stack \in Seq(Frames)
    BY SubsetsFinite, VolumeNat DEF TypeOK
  <1>12. /\ LiveRam <= ram /\ ram <= RamBudget /\ HeldNvme <= nvme /\ nvme <= NvmeBudget
         /\ ~GcInReserve => ram = LiveRam /\ nvme = HeldNvme
         /\ Needed(Top) <= Top.seen /\ Top.seen <= Limit(Top)
         /\ ~GcInReserve => Top.seen = Needed(Top)
    BY <1>1 DEF BooksOK
  <1>13. ~ At("commit")'
    BY <1>4, <1>7 DEF At
  <1>14. CASE InRam(Top)
    <2>1. HeldNvme' = HeldNvme
      <3>1. LiveNvme' = LiveNvme
        BY <1>5, <1>7, <1>9, <1>14
      <3> QED BY <1>1, <3>1 DEF HeldNvme
    <2>2. LiveRam' = Needed(Top)
      <3>1. LiveRam' = Volume(bsize, charged) + Size[Top.self]
        BY <1>4, <1>5, <1>7, <1>9, <1>14
      <3>2. LiveRam = Volume(bsize, charged)
        BY <1>9, <1>10, <1>11
      <3> QED BY <1>14, <3>1, <3>2 DEF Needed
    <2>3. ram' = Top.seen /\ nvme' = nvme /\ Limit(Top) = RamBudget
      BY <1>1, <1>14 DEF Limit
    <2> QED BY <1>7, <1>8, <1>12, <1>13, <2>1, <2>2, <2>3 DEF BooksOK
  <1>15. CASE ~InRam(Top)
    <2>1. LiveRam' = LiveRam
      BY <1>5, <1>7, <1>9, <1>10, <1>15
    <2>2. HeldNvme' = Needed(Top)
      <3>1. Top.self \notin PendFiles(stack, inside)
        BY <1>1, <1>2, <1>5, <1>15, NotReserved
      <3>2. PendFiles(stack', inside') = PendFiles(stack, inside) \cup {Top.self}
        BY <1>4, <1>5, <1>7, <1>15
      <3>3. IsFiniteSet(PendFiles(stack, inside)) /\ IsFiniteSet({Top.self})
            /\ Volume(Size, PendFiles(stack, inside)) \in Nat
        BY <1>11, PendNat, FS_Singleton
      <3>4. PendFiles(stack, inside) \cap {Top.self} = {}
        BY <3>1
      <3>5. Volume(Size, PendFiles(stack, inside) \cup {Top.self})
              = Volume(Size, PendFiles(stack, inside)) + Volume(Size, {Top.self})
        BY <3>3, <3>4, VolumeUnion
      <3>6. Volume(Size, {Top.self}) = Size[Top.self]
        BY <1>3, VolumeOne
      <3>7. Needed(Top) = LiveNvme + leaked + Size[Top.self]
        BY <1>15 DEF Needed, HeldNvme
      <3>8. Size[Top.self] \in Nat
        BY <1>3, SizeAssumption
      <3>9. \A a, p, o, l \in Int : (a + (p + o)) + l = ((a + p) + l) + o
        OBVIOUS
      <3>10. LiveNvme' = Volume(Size, fcharged)
                         + (Volume(Size, PendFiles(stack, inside)) + Size[Top.self])
        BY <1>9, <3>2, <3>5, <3>6
      <3>11. /\ Volume(Size, fcharged) \in Int /\ Volume(Size, PendFiles(stack, inside)) \in Int
             /\ Size[Top.self] \in Int /\ leaked \in Int
        BY <1>11, <3>3, <3>8 DEF TypeOK
      <3>12. HeldNvme' = LiveNvme' + leaked
        BY <1>1 DEF HeldNvme
      <3> QED BY ONLY <1>9, <3>7, <3>9, <3>10, <3>11, <3>12
    <2>3. nvme' = Top.seen /\ ram' = ram /\ Limit(Top) = NvmeBudget
      BY <1>1, <1>15 DEF Limit
    <2> QED BY <1>7, <1>8, <1>12, <1>13, <2>1, <2>2, <2>3 DEF BooksOK
  <1> QED BY <1>14, <1>15

-----------------------------------------------------------------------------
(* Steps between operations.                                               *)

\* Between operations the books change only with what is charged.
LEMMA IdleStep ==
  ASSUME TypeOK, TypeOK', ObjectsOK, ObjectsOK', BooksOK, stack = <<>>,
         UNCHANGED <<charged, fcharged, bsize, ram, nvme, leaked, stack>>
  PROVE  StackOK' /\ BooksOK'
  <1>1. stack' = <<>> /\ Len(<<>>) = 0
    OBVIOUS
  <1>2. StackOK'
    BY <1>1, WellEmpty DEF StackOK
  <1>3. \A in : PendRam(<<>>, in) = 0 /\ PendFiles(<<>>, in) = {}
    BY <1>1 DEF PendRam, PendFiles
  <1>4. LiveRam' = LiveRam /\ LiveNvme' = LiveNvme
    BY <1>1, <1>3, LiveIs, LiveIsNext
  <1>5. ~ At("commit")'
    BY <1>1 DEF At
  <1>6. /\ ram' + LiveRam = ram + LiveRam' /\ nvme' + LiveNvme = nvme + LiveNvme'
        /\ ram' <= ram /\ nvme' <= nvme
    BY <1>4 DEF TypeOK
  <1> QED BY <1>2, <1>5, <1>6, BooksStep

\* An expression charges nothing.
LEMMA CreateLazyStep ==
  ASSUME TypeOK, TypeOK', ObjectsOK, BooksOK,
         NEW t \in Tensors, NEW ops \in SUBSET Tensors, CreateLazy(t, ops)
  PROVE  ObjectsOK' /\ StackOK' /\ BooksOK'
  <1>1. /\ t \notin alive /\ alive' = alive \cup {t} /\ ops \subseteq alive \ garbage
        /\ garbage \subseteq alive /\ alive \subseteq Tensors
        /\ \A u \in Tensors : operands'[u] = IF u = t THEN ops ELSE operands[u]
        /\ UNCHANGED <<inside, garbage, buf, spilled, charged, fcharged, bsize,
                       ram, nvme, leaked, stack>>
    BY DEF CreateLazy, books, TypeOK
  <1>2. \A u \in alive' : operands'[u] \subseteq alive' \ garbage'
    BY <1>1 DEF ObjectsOK
  <1>3. charged' \subseteq Open'
    BY <1>1 DEF ObjectsOK, Open
  <1>4. \A u \in Tensors \ alive' : buf'[u] = NoBuffer /\ ~spilled'[u] /\ operands'[u] = {}
    BY <1>1 DEF ObjectsOK
  <1>5. ObjectsOK'
    BY <1>1, <1>2, <1>3, <1>4 DEF ObjectsOK
  <1> QED BY <1>1, <1>5, IdleStep DEF CreateLazy

\* A view shares an allocation that is charged already.
LEMMA CreateViewStep ==
  ASSUME TypeOK, TypeOK', ObjectsOK, BooksOK,
         NEW t \in Tensors, NEW base \in Tensors, CreateView(t, base)
  PROVE  ObjectsOK' /\ StackOK' /\ BooksOK'
  <1>1. /\ t \notin alive /\ alive' = alive \cup {t} /\ base \in alive \ garbage
        /\ garbage \subseteq alive /\ alive \subseteq Tensors
        /\ \A u \in Tensors : operands'[u] = IF u = t THEN {base} ELSE operands[u]
        /\ \A u \in Tensors : buf'[u] = IF u = t THEN buf[base] ELSE buf[u]
        /\ UNCHANGED <<inside, garbage, spilled, charged, fcharged, bsize,
                       ram, nvme, leaked, stack>>
    BY DEF CreateView, books, TypeOK
  <1>2. \A u \in alive' : operands'[u] \subseteq alive' \ garbage'
    BY <1>1 DEF ObjectsOK
  <1>3. charged' \subseteq Open'
    BY <1>1 DEF ObjectsOK, Open
  <1>4. \A u \in Tensors \ alive' : buf'[u] = NoBuffer /\ ~spilled'[u] /\ operands'[u] = {}
    BY <1>1 DEF ObjectsOK
  <1>5. ObjectsOK'
    BY <1>1, <1>2, <1>3, <1>4 DEF ObjectsOK
  <1> QED BY <1>1, <1>5, IdleStep DEF CreateView

\* Garbage stays charged until it is collected.
LEMMA LoseInCycleStep ==
  ASSUME TypeOK, TypeOK', ObjectsOK, BooksOK, NEW t \in Tensors, LoseInCycle(t)
  PROVE  ObjectsOK' /\ StackOK' /\ BooksOK'
  <1>1. /\ garbage' = garbage \cup {t} /\ stack = <<>>
        /\ \A u \in alive : t \notin operands[u]
        /\ UNCHANGED <<inside, alive, operands, buf, spilled, charged, fcharged, bsize,
                       ram, nvme, leaked, stack>>
    BY DEF LoseInCycle, books, Unreferenced
  <1>2. ObjectsOK'
    BY <1>1 DEF ObjectsOK, Open
  <1> QED BY <1>1, <1>2, IdleStep

\* Entering and leaving the scope.
LEMMA EnterExitStep ==
  ASSUME TypeOK, TypeOK', ObjectsOK, BooksOK, Enter \/ Exit
  PROVE  ObjectsOK' /\ StackOK' /\ BooksOK'
  <1>1. stack = <<>> /\ UNCHANGED objects /\ UNCHANGED <<ram, nvme, leaked, stack>>
    BY DEF Enter, Exit, books
  <1>2. ObjectsOK'
    BY <1>1, ObjectsKept
  <1> QED BY <1>1, <1>2, IdleStep

\* The last reference to a Tensor goes away.
LEMMA DropStep ==
  ASSUME TypeOK, TypeOK', ObjectsOK, StackOK, BooksOK, NEW t \in Tensors, Drop(t)
  PROVE  ObjectsOK' /\ StackOK' /\ BooksOK'
  <1>1. PICK F \in SUBSET {t} : Finalize({t}, F)
    BY DEF Drop
  <1>2. /\ stack = <<>> /\ {t} \in SUBSET alive
        /\ \A u \in alive : operands[u] \cap {t} = {}
    BY DEF Drop, Unreferenced
  <1> QED BY <1>1, <1>2, FinalizeStep

\* The collector runs, perhaps during an operation.
LEMMA CollectStep ==
  ASSUME TypeOK, TypeOK', ObjectsOK, StackOK, BooksOK, Collect
  PROVE  ObjectsOK' /\ StackOK' /\ BooksOK'
  <1>1. PICK F \in SUBSET garbage : Finalize(garbage, F)
    BY DEF Collect
  <1>2. /\ garbage \in SUBSET alive
        /\ \A u \in alive : operands[u] \cap garbage = {}
        /\ stack # <<>> => garbage = garbage /\ (Top.pc = "commit" => GcInReserve)
    BY DEF Collect, ObjectsOK, TypeOK
  <1> QED BY <1>1, <1>2, FinalizeStep

-----------------------------------------------------------------------------
(* Calls.                                                                  *)

\* The operations of the program.
LEMMA BeginStep ==
  ASSUME TypeOK, TypeOK', ObjectsOK, StackOK, BooksOK, NEW t \in Tensors,
         NEW native \in BOOLEAN,
         BeginCreate(t) \/ BeginSpill(t) \/ BeginRealize(t, native)
  PROVE  ObjectsOK' /\ StackOK' /\ BooksOK'
  <1>1. /\ stack = <<>> /\ 1 .. Len(stack) = {}
        /\ UNCHANGED inside /\ UNCHANGED objects /\ UNCHANGED <<ram, nvme, leaked>>
    <2>1. /\ stack = <<>>
          /\ UNCHANGED inside /\ UNCHANGED objects /\ UNCHANGED <<ram, nvme, leaked>>
      BY DEF BeginCreate, BeginSpill, BeginRealize
    <2>2. Len(<<>>) = 0 /\ 1 .. 0 = {}
      OBVIOUS
    <2> QED BY <2>1, <2>2
  <1>2. CASE BeginCreate(t)
    <2>1. t \notin alive /\ Call("create", t, FALSE)
      BY <1>2 DEF BeginCreate
    <2> QED BY <1>1, <2>1, CallStep
  <1>3. CASE BeginSpill(t)
    <2>1. t \in alive \ garbage /\ Call("spill", t, FALSE)
      BY <1>3 DEF BeginSpill
    <2> QED BY <1>1, <2>1, CallStep
  <1>4. CASE BeginRealize(t, native)
    <2>1. t \in alive \ garbage /\ Call("realize", t, native)
      BY <1>4 DEF BeginRealize
    <2> QED BY <1>1, <2>1, CallStep
  <1> QED BY <1>2, <1>3, <1>4

\* A value that an activation in progress works on is pinned.
LEMMA MakeRoomStep ==
  ASSUME TypeOK, TypeOK', PinsBalanced, ObjectsOK, StackOK, BooksOK,
         NEW v \in Tensors, MakeRoom(v)
  PROVE  ObjectsOK' /\ StackOK' /\ BooksOK'
  <1>1. /\ stack # <<>> /\ Top.pc = "reserve" /\ garbage = {} /\ Evictable(v)
        /\ Call("evict", v, FALSE)
        /\ UNCHANGED inside /\ UNCHANGED objects /\ UNCHANGED <<ram, nvme, leaked>>
    BY DEF MakeRoom, Victim, At
  <1>2. Waits(Top)
    BY <1>1 DEF Waits
  <1>3. v \in alive \ garbage /\ pins[v] = 0
    BY <1>1 DEF Evictable, ObjectsOK
  <1>4. {i \in 1 .. Len(stack) : v \in stack[i].vals} = {}
    <2>1. IsFiniteSet({i \in 1 .. Len(stack) : v \in stack[i].vals})
      BY HoldersFinite DEF Holders, TypeOK
    <2>2. Cardinality({i \in 1 .. Len(stack) : v \in stack[i].vals}) = 0
      BY <1>3 DEF PinsBalanced, PinCount
    <2> QED BY <2>1, <2>2, FS_EmptySet
  <1>5. inside => \A i \in 1 .. Len(stack) : ~InRam(stack[i]) => stack[i].self # v
    <2>1. \A i \in 1 .. Len(stack) :
            ActivationOK(stack[i], inside, alive, alive \ garbage, spilled)
      BY DEF StackOK, WellStacked
    <2>2. \A i \in 1 .. Len(stack) : ~InRam(stack[i]) => stack[i].kind # "create"
      BY DEF InRam
    <2>3. inside => \A i \in 1 .. Len(stack) : ~InRam(stack[i]) => stack[i].self \in stack[i].vals
      BY <2>1, <2>2 DEF ActivationOK
    <2> QED BY <1>4, <2>3
  <1> QED BY <1>1, <1>2, <1>3, <1>5, CallStep

\* A spill materializes its own value first.
LEMMA MaterializeForSpillStep ==
  ASSUME TypeOK, TypeOK', ObjectsOK, StackOK, BooksOK,
         NEW native \in BOOLEAN, MaterializeForSpill(native)
  PROVE  ObjectsOK' /\ StackOK' /\ BooksOK'
  <1>1. /\ stack # <<>> /\ Top.pc = "apply" /\ ~InRam(Top)
        /\ Call("realize", Top.self, native)
        /\ UNCHANGED inside /\ UNCHANGED objects /\ UNCHANGED <<ram, nvme, leaked>>
    BY DEF MaterializeForSpill, At
  <1>2. Waits(Top)
    BY <1>1 DEF Waits
  <1>3. /\ Top.self \in Tensors
        /\ ActivationOK(Top, inside, alive, alive \ garbage, spilled)
    BY <1>1, TopWell
  <1>4. Top.self \in alive \ garbage
    BY <1>1, <1>3 DEF ActivationOK, InRam
  <1> QED BY <1>1, <1>2, <1>3, <1>4, CallStep

\* An operation restores its spilled inputs first.
LEMMA RestoreInputStep ==
  ASSUME TypeOK, TypeOK', ObjectsOK, StackOK, BooksOK, NEW v \in Tensors, RestoreInput(v)
  PROVE  ObjectsOK' /\ StackOK' /\ BooksOK'
  <1> DEFINE caller == [Top EXCEPT !.todo = @ \ {v}]
             s == [stack EXCEPT ![Len(stack)] = caller]
             f == Frame("realize", v, FALSE)
             n == Len(stack)
  <1>1. /\ stack # <<>> /\ Top.pc = "inputs" /\ v \in Top.todo
        /\ stack' = Append(s, f)
        /\ UNCHANGED inside /\ UNCHANGED objects /\ UNCHANGED <<ram, nvme, leaked>>
    BY DEF RestoreInput, At, Top
  <1>2. /\ Top \in Frames /\ n \in 1 .. n /\ stack \in Seq(Frames) /\ n \in Nat
        /\ ActivationOK(Top, inside, alive, alive \ garbage, spilled)
    BY <1>1, TopWell DEF TypeOK
  <1>3. /\ caller \in Frames /\ caller.kind = Top.kind /\ caller.self = Top.self
        /\ caller.pc = "inputs" /\ caller.vals = Top.vals /\ caller.todo \subseteq Top.todo
        /\ caller.native = Top.native
    BY <1>1, <1>2 DEF Frames
  <1> HIDE DEF caller
  <1>4. ActivationOK(caller, inside, alive, alive \ garbage, spilled)
    BY <1>1, <1>2, <1>3 DEF ActivationOK, InRam
  <1>5. v \in alive \ garbage
    BY <1>1, <1>2 DEF ActivationOK
  <1>6. /\ f \in Frames /\ f.kind = "realize" /\ f.self = v /\ f.pc = "inputs"
        /\ ActivationOK(f, inside, alive, alive \ garbage, spilled)
    <2>1. v \in alive \ garbage /\ FALSE \in BOOLEAN
      BY <1>5
    <2>2. f.kind = "realize" /\ f.self = v /\ f.pc = "inputs"
      BY DEF Frame
    <2>3. f \in Frames
      BY FrameType
    <2>4. ActivationOK(f, inside, alive, alive \ garbage, spilled)
      BY <2>1, FrameOK
    <2> QED BY <2>2, <2>3, <2>4
  <1>7. /\ s \in Seq(Frames) /\ Len(s) = n /\ s[n] = caller
        /\ \A i \in 1 .. n : i # n => s[i] = stack[i]
    BY <1>2, <1>3, ExceptSeq
  <1>8. WellStacked(s, inside, alive, alive \ garbage, spilled)
    BY <1>1, <1>2, <1>3, <1>4, WellPut DEF StackOK, Top
  <1> HIDE DEF s, f
  <1>9. s # <<>> => Waits(s[Len(s)])
    BY <1>3, <1>7 DEF Waits
  <1>10. PendRam(stack, inside) = 0
    BY <1>1 DEF PendRam, Top
  <1>11. PendFiles(stack, inside) = PendFiles(s, inside)
    <2>1. \A i \in 1 .. n : /\ s[i].self = stack[i].self /\ s[i].pc = stack[i].pc
                            /\ InRam(s[i]) <=> InRam(stack[i])
      BY <1>1, <1>3, <1>7 DEF Top, InRam
    <2> QED BY <1>7, <2>1 DEF PendFiles
  <1>12. f.kind # "create" /\ InRam(f)
    BY <1>6 DEF InRam
  <1> QED BY <1>1, <1>6, <1>7, <1>8, <1>9, <1>10, <1>11, <1>12, PushStep

-----------------------------------------------------------------------------
(* The theorems.                                                           *)

\* Nothing is in use at first.
LEMMA InitBooks == Init => BInv
  <1> SUFFICES ASSUME Init PROVE BInv
    OBVIOUS
  <1>1. TypeOK /\ PinsBalanced
    BY InitType, InitPins
  <1>2. /\ stack = <<>> /\ alive = {} /\ charged = {} /\ fcharged = {}
        /\ ram = 0 /\ nvme = 0 /\ leaked = 0 /\ Len(<<>>) = 0
        /\ \A t \in Tensors : buf[t] = NoBuffer /\ ~spilled[t] /\ operands[t] = {}
    BY DEF Init
  <1>3. ObjectsOK
    BY <1>2 DEF ObjectsOK
  <1>4. StackOK
    BY <1>2, WellEmpty DEF StackOK
  <1>5. PendRam(stack, inside) = 0 /\ PendFiles(stack, inside) = {}
    BY <1>2 DEF PendRam, PendFiles
  <1>6. LiveRam = 0 /\ LiveNvme = 0
    <2>1. /\ LiveRam = Volume(bsize, charged) + PendRam(stack, inside)
          /\ LiveNvme = Volume(Size, fcharged) + Volume(Size, PendFiles(stack, inside))
      BY <1>3, LiveIs
    <2>2. Volume(bsize, {}) = 0 /\ Volume(Size, {}) = 0
      BY VolumeNone
    <2>3. LiveRam = 0 + 0 /\ LiveNvme = 0 + 0
      BY ONLY <1>2, <1>5, <2>1, <2>2
    <2> QED BY <2>3
  <1>7. HeldNvme = 0
    BY <1>2, <1>6 DEF HeldNvme
  <1>8. BooksOK
    BY <1>2, <1>6, <1>7, BudgetAssumption DEF BooksOK, At
  <1> QED BY <1>1, <1>3, <1>4, <1>8 DEF BInv

\* Every step keeps the invariant, one action at a time.
LEMMA BooksKeep == BInv /\ [Next]_vars => BInv'
  <1> SUFFICES ASSUME BInv, [Next]_vars PROVE BInv'
    OBVIOUS
  <1>1. TypeOK /\ PinsBalanced /\ ObjectsOK /\ StackOK /\ BooksOK
    BY DEF BInv
  <1>2. TypeOK' /\ PinsBalanced'
    BY <1>1, TypeStep, PinsStep
  <1> SUFFICES ObjectsOK' /\ StackOK' /\ BooksOK'
    BY <1>2 DEF BInv
  <1> DEFINE Goal == ObjectsOK' /\ StackOK' /\ BooksOK'
  <1>3. CASE Program
    <2>1. CASE Enter \/ Exit
      BY <1>1, <1>2, <2>1, EnterExitStep
    <2>2. ASSUME NEW t \in Tensors, BeginCreate(t) \/ BeginSpill(t) PROVE Goal
      BY <1>1, <1>2, <2>2, BeginStep
    <2>3. ASSUME NEW t \in Tensors, NEW native \in BOOLEAN, BeginRealize(t, native) PROVE Goal
      BY <1>1, <1>2, <2>3, BeginStep
    <2>4. ASSUME NEW t \in Tensors, Drop(t) PROVE Goal
      BY <1>1, <1>2, <2>4, DropStep
    <2>5. ASSUME NEW t \in Tensors, LoseInCycle(t) PROVE Goal
      BY <1>1, <1>2, <2>5, LoseInCycleStep
    <2>6. ASSUME NEW t \in Tensors, NEW base \in Tensors, CreateView(t, base) PROVE Goal
      BY <1>1, <1>2, <2>6, CreateViewStep
    <2>7. ASSUME NEW t \in Tensors, NEW ops \in SUBSET Tensors, CreateLazy(t, ops) PROVE Goal
      BY <1>1, <1>2, <2>7, CreateLazyStep
    <2> HIDE DEF Goal
    <2>8. Goal
      BY <1>3, <2>2, <2>3, <2>4, <2>5, <2>6, <2>7, <2>1 DEF Program, Goal
    <2> QED BY <2>8 DEF Goal
  <1>4. CASE Step
    <2>1. ASSUME NEW v \in Tensors, RestoreInput(v) PROVE Goal
      BY <1>1, <1>2, <2>1, RestoreInputStep
    <2>2. ASSUME NEW v \in Tensors, MakeRoom(v) PROVE Goal
      BY <1>1, <1>2, <2>2, MakeRoomStep
    <2>3. ASSUME AlreadyResident PROVE Goal
      <3>1. /\ stack # <<>> /\ Top.pc # "apply"
            /\ stack' = SubSeq(stack, 1, Len(stack) - 1)
            /\ UNCHANGED <<inside, alive, garbage, operands, buf, spilled, charged,
                           fcharged, bsize, ram, nvme, leaked>>
        BY <2>3 DEF AlreadyResident, Return, At
      <3> QED BY <1>1, <1>2, <3>1, PlainReturn
    <2>4. ASSUME AlreadySpilled \/ OutOfMemory \/ IoFails \/ LaunchFails PROVE Goal
      <3>1. stack # <<>> /\ Raise
        BY <2>4 DEF AlreadySpilled, OutOfMemory, IoFails, LaunchFails, At
      <3> QED BY <1>1, <1>2, <3>1, RaiseStep
    <2>5. ASSUME StartReserve PROVE Goal
      BY <1>1, <1>2, <2>5, StartReserveStep
    <2>6. ASSUME ReserveRead PROVE Goal
      BY <1>1, <1>2, <2>6, ReserveReadStep
    <2>7. ASSUME ReserveCommit PROVE Goal
      BY <1>1, <1>2, <2>7, ReserveCommitStep
    <2>8. ASSUME NEW b \in Buffers, FinishCreate(b) PROVE Goal
      BY <1>1, <1>2, <2>8, FinishCreateStep
    <2>9. ASSUME NEW b \in Buffers, Reload(b) PROVE Goal
      BY <1>1, <1>2, <2>9, ReloadStep
    <2>10. ASSUME NEW b \in Buffers, Evaluate(b) PROVE Goal
      BY <1>1, <1>2, <2>10, EvaluateStep
    <2>11. ASSUME NEW b \in Buffers, AllocateOutput(b) PROVE Goal
      BY <1>1, <1>2, <2>11, AllocateOutputStep
    <2>12. ASSUME NEW native \in BOOLEAN, MaterializeForSpill(native) PROVE Goal
      BY <1>1, <1>2, <2>12, MaterializeForSpillStep
    <2>13. ASSUME Launch PROVE Goal
      <3>1. /\ stack # <<>> /\ Top.pc # "apply"
            /\ stack' = SubSeq(stack, 1, Len(stack) - 1)
            /\ UNCHANGED <<inside, alive, garbage, operands, buf, spilled, charged,
                           fcharged, bsize, ram, nvme, leaked>>
        BY <2>13 DEF Launch, Return, At
      <3> QED BY <1>1, <1>2, <3>1, PlainReturn
    <2>14. ASSUME Detach PROVE Goal
      BY <1>1, <1>2, <2>14, DetachStep
    <2>15. ASSUME StoreFails PROVE Goal
      BY <1>1, <1>2, <2>15, StoreFailsStep
    <2>16. ASSUME NEW b \in Buffers, ReleaseFails(b) PROVE Goal
      BY <1>1, <1>2, <2>16, ReleaseFailsStep
    <2> HIDE DEF Goal
    <2> QED
      <3>1. Goal
        BY <1>4, <2>1, <2>2, <2>3, <2>4, <2>5, <2>6, <2>7, <2>8, <2>9, <2>10, <2>11,
           <2>12, <2>13, <2>14, <2>15, <2>16 DEF Step
      <3> QED BY <3>1 DEF Goal
  <1>5. CASE Collect
    BY <1>1, <1>2, <1>5, CollectStep
  <1>6. CASE UNCHANGED vars
    <2>1. UNCHANGED objects /\ UNCHANGED <<ram, nvme, leaked, inside, stack>>
      BY <1>6 DEF vars, books
    <2>2. ObjectsOK'
      BY <1>1, <2>1, ObjectsKept
    <2>3. LiveRam' = LiveRam /\ LiveNvme' = LiveNvme
      BY <1>1, <2>1, <2>2, LiveIs, LiveIsNext
    <2>4. HeldNvme' = HeldNvme
      BY <2>1, <2>3 DEF HeldNvme
    <2>5. StackOK' /\ BooksOK'
      BY <1>1, <2>1, <2>3, <2>4 DEF StackOK, BooksOK, At, Top, Needed, Limit
    <2> QED BY <2>2, <2>5
  <1> QED BY <1>3, <1>4, <1>5, <1>6 DEF Next

\* The invariant always holds.
LEMMA BooksAlwaysKept == Spec => []BInv
  BY InitBooks, BooksKeep, PTL DEF Spec

\* The allocations and spill files of an execution stay within its budgets,
\* whatever is evicted, fails, is finalized or falls back to the other backend
\* on the way, and even if the collector runs inside a reservation; the files do
\* so together with what failures have left reserved.
THEOREM BudgetAlwaysRespected == Spec => []BudgetRespected
  <1>1. BInv => BudgetRespected
    <2> SUFFICES ASSUME BInv PROVE BudgetRespected
      OBVIOUS
    <2>1. LiveRam \in Nat /\ HeldNvme \in Nat /\ ram \in Int /\ nvme \in Int
      BY LiveNat DEF BInv, TypeOK
    <2>2. LiveRam <= ram /\ ram <= RamBudget /\ HeldNvme <= nvme /\ nvme <= NvmeBudget
      BY DEF BInv, BooksOK
    <2>3. RamBudget \in Int /\ NvmeBudget \in Int
      BY BudgetAssumption
    <2>4. LiveRam <= RamBudget /\ HeldNvme <= NvmeBudget
      BY <2>1, <2>2, <2>3
    <2> QED BY <2>4 DEF BudgetRespected, HeldNvme
  <1> QED BY <1>1, BooksAlwaysKept, PTL

\* When the collector leaves reservations alone, the reported live bytes are
\* exactly the bytes in use and those that the two failures of a spill and of
\* the removal of its file leave reserved: nothing is counted twice, and no
\* other failure leaves anything behind.
THEOREM AccountingAlwaysExact ==
  ASSUME ~GcInReserve PROVE Spec => []AccountingExact
  <1>1. BInv => AccountingExact
    BY DEF BInv, BooksOK, AccountingExact, HeldNvme
  <1> QED BY <1>1, BooksAlwaysKept, PTL

-----------------------------------------------------------------------------
(***************************************************************************)
(* The values: where each is, and that none is lost or taken away from an  *)
(* operation that has pinned it.                                           *)
(***************************************************************************)

-----------------------------------------------------------------------------
(* Its inductive invariant.                                                *)

\* A value is in memory, in a file or deferred, and never in both places.
PlacesOK ==
  /\ \A t \in Tensors : spilled[t] => buf[t] = NoBuffer
  /\ \A t \in alive : buf[t] # NoBuffer \/ spilled[t] \/ operands[t] # {}

\* An activation by itself: it pins values in use; past its inputs it restores
\* nothing more; what it computes or spills is not spilled yet; an output is
\* there when the kernel is launched, and a victim until it is spilled.
FrameHolds(f, in, used, sp, bf) ==
  /\ f.vals \subseteq used
  /\ f.pc # "inputs" => f.todo = {}
  /\ f.native \/ (~InRam(f) /\ f.pc # "inputs") => ~sp[f.self]
  /\ f.pc = "launch" => f.native /\ bf[f.self] # NoBuffer
  /\ f.kind = "evict" => in /\ f.todo = {} /\ bf[f.self] # NoBuffer

\* The input v of an activation f that calls the activation g.
Restoring(f, g, v) == f.pc = "inputs" /\ g.kind = "realize" /\ g.self = v

\* The inputs of the i-th activation are in no file, except those it has still
\* to restore and the one that the next activation restores.
InputsBack(s, i, sp) ==
  \A v \in s[i].vals \ {s[i].self} :
    v \in s[i].todo \/ ~sp[v] \/ (i < Len(s) /\ Restoring(s[i], s[i + 1], v))

\* Only the program spills by itself, and calls nothing while it does; only the
\* top evicts, and no activation below has pinned its victim.
SpillsApart(s) ==
  \A i \in 1 .. Len(s) :
    /\ s[i].kind = "spill" => i = 1
    /\ s[i].kind = "evict" => i = Len(s) /\ \A k \in 1 .. i - 1 : s[i].self \notin s[k].vals

InputsHeld(s, in, used, sp, bf) ==
  /\ \A i \in 1 .. Len(s) : FrameHolds(s[i], in, used, sp, bf)
  /\ \A i \in 1 .. Len(s) : InputsBack(s, i, sp)
  /\ SpillsApart(s)

ValuesOK == PlacesOK /\ InputsHeld(stack, inside, alive \ garbage, spilled, buf)

-----------------------------------------------------------------------------
(* The stack.                                                              *)

\* A call from s.
LEMMA HeldPush ==
  ASSUME NEW s \in Seq(Frames), NEW f \in Frames, NEW in, NEW used, NEW sp, NEW bf,
         \A i \in 1 .. Len(s) : FrameHolds(s[i], in, used, sp, bf),
         \A i \in 1 .. Len(s) - 1 : InputsBack(s, i, sp),
         \A i \in 1 .. Len(s) : /\ s[i].kind # "evict"
                                /\ s[i].kind = "spill" => i = 1,
         s # <<>> => \A v \in s[Len(s)].vals \ {s[Len(s)].self} :
           v \in s[Len(s)].todo \/ ~sp[v] \/ Restoring(s[Len(s)], f, v),
         FrameHolds(f, in, used, sp, bf),
         \A v \in f.vals \ {f.self} : v \in f.todo \/ ~sp[v],
         f.kind = "spill" => s = <<>>,
         f.kind = "evict" => \A k \in 1 .. Len(s) : f.self \notin s[k].vals
  PROVE  InputsHeld(Append(s, f), in, used, sp, bf)
  <1> DEFINE n == Len(s)
             u == Append(s, f)
  <1>1. /\ n \in Nat /\ Len(u) = n + 1 /\ u[n + 1] = f
        /\ \A i \in 1 .. n : u[i] = s[i]
    BY LenProperties, AppendProperties
  <1>2. s = <<>> <=> n = 0
    BY EmptySeq
  <1> HIDE DEF u
  <1>3. \A i \in 1 .. Len(u) : i \in 1 .. n \/ i = n + 1
    BY <1>1
  <1>4. ASSUME NEW i \in 1 .. Len(u) PROVE FrameHolds(u[i], in, used, sp, bf)
    BY <1>1, <1>3
  <1>5. ASSUME NEW i \in 1 .. Len(u) PROVE InputsBack(u, i, sp)
    <2>1. CASE i = n + 1
      BY <1>1, <2>1 DEF InputsBack
    <2>2. CASE i = n /\ n # 0
      <3>1. i \in 1 .. n /\ i < Len(u) /\ u[i] = s[n] /\ u[i + 1] = f /\ s # <<>>
        BY <1>1, <1>2, <2>2
      <3> QED BY <3>1 DEF InputsBack
    <2>3. CASE i \in 1 .. n - 1
      <3>1. u[i] = s[i] /\ u[i + 1] = s[i + 1] /\ i < Len(s) /\ i < Len(u)
        BY <1>1, <2>3
      <3>2. InputsBack(s, i, sp)
        BY <2>3
      <3> QED BY <3>1, <3>2 DEF InputsBack
    <2> QED BY <1>1, <2>1, <2>2, <2>3
  <1>6. SpillsApart(u)
    <2>1. ASSUME NEW i \in 1 .. Len(u), u[i].kind = "spill" PROVE i = 1
      BY <1>1, <1>2, <1>3, <2>1
    <2>2. ASSUME NEW i \in 1 .. Len(u), u[i].kind = "evict"
          PROVE  i = Len(u) /\ \A k \in 1 .. i - 1 : u[i].self \notin u[k].vals
      <3>1. i = n + 1
        BY <1>1, <1>3, <2>2
      <3> QED BY <1>1, <2>2, <3>1
    <2> QED BY <2>1, <2>2 DEF SpillsApart
  <1> QED BY <1>4, <1>5, <1>6 DEF InputsHeld, u

\* A return: the activation on top has restored its value, spilled it without
\* anybody below waiting for it, or was alone.
LEMMA HeldPop ==
  ASSUME NEW s \in Seq(Frames), s # <<>>, NEW in, NEW exist, NEW used, NEW sp, NEW bf,
         WellStacked(s, in, exist, used, sp), InputsHeld(s, in, used, sp, bf),
         NEW used2, used \subseteq used2, NEW sp2, NEW bf2,
         \A t \in Tensors : sp2[t] => sp[t] \/ (t = s[Len(s)].self /\ ~InRam(s[Len(s)])),
         s[Len(s)].kind = "realize" => ~sp2[s[Len(s)].self]
  PROVE  InputsHeld(SubSeq(s, 1, Len(s) - 1), in, used2, sp2, bf2)
  <1> DEFINE n == Len(s)
             u == SubSeq(s, 1, n - 1)
             top == s[n]
  <1>1. /\ n \in Nat \ {0} /\ n - 1 \in 0 .. n /\ n \in 1 .. n
        /\ \A i \in 1 .. n : s[i] \in Frames /\ s[i].self \in Tensors /\ s[i].vals \subseteq Tensors
    <2>1. n \in Nat \ {0}
      BY EmptySeq, LenProperties
    <2>2. \A i \in 1 .. n : s[i] \in Frames
      BY ElementOfSeq
    <2> QED BY <2>1, <2>2 DEF Frames
  <1>2. Len(u) = n - 1 /\ \A i \in 1 .. n - 1 : u[i] = s[i]
    BY <1>1, CutSeq
  <1> HIDE DEF u
  <1>3. \A i \in 1 .. n - 1 : i \in 1 .. n /\ i # n /\ i < n
    BY <1>1
  <1>4. ASSUME NEW i \in 1 .. n - 1
        PROVE  /\ FrameHolds(s[i], in, used, sp, bf) /\ InputsBack(s, i, sp)
               /\ ActivationOK(s[i], in, exist, used, sp) /\ Waits(s[i])
               /\ s[i].kind = "spill" => i = 1
               /\ s[i].kind # "evict"
    BY <1>1, <1>3 DEF InputsHeld, SpillsApart, WellStacked
  <1>5. ASSUME NEW i \in 1 .. n - 1, ~InRam(top)
        PROVE  /\ top.self \notin s[i].vals
               /\ s[i].native \/ ~InRam(s[i]) => s[i].self # top.self
    <2>1. n # 1
      BY <1>1
    <2>2. top.kind = "evict"
      <3>1. top.kind \in {"create", "realize", "spill", "evict"}
        BY <1>1 DEF Frames
      <3>2. top.kind # "spill"
        BY <1>1, <2>1 DEF InputsHeld, SpillsApart
      <3> QED BY <1>5, <3>1, <3>2 DEF InRam
    <2>3. top.self \notin s[i].vals
      BY <1>1, <2>2 DEF InputsHeld, SpillsApart
    <2>4. in
      BY <1>1, <2>2 DEF InputsHeld, FrameHolds
    <2>5. s[i].native \/ ~InRam(s[i]) => s[i].self \in s[i].vals
      BY <1>4, <2>4 DEF ActivationOK, InRam
    <2> QED BY <2>3, <2>5
  <1>6. ASSUME NEW i \in 1 .. n - 1 PROVE FrameHolds(s[i], in, used2, sp2, bf2)
    <2>1. s[i].pc # "launch"
      BY <1>4 DEF Waits
    <2>2. s[i].native \/ (~InRam(s[i]) /\ s[i].pc # "inputs") => ~sp2[s[i].self]
      BY <1>1, <1>3, <1>4, <1>5 DEF FrameHolds
    <2> QED BY <1>4, <2>1, <2>2 DEF FrameHolds
  <1>7. ASSUME NEW i \in 1 .. n - 1 PROVE InputsBack(u, i, sp2)
    <2> SUFFICES ASSUME NEW v \in s[i].vals \ {s[i].self}, v \notin s[i].todo, sp2[v]
                 PROVE  i < n - 1 /\ Restoring(u[i], u[i + 1], v)
      BY <1>2 DEF InputsBack
    <2>1. v \in Tensors
      BY <1>1, <1>3
    <2>2. sp[v]
      BY <1>5, <2>1
    <2>3. Restoring(s[i], s[i + 1], v)
      BY <1>4, <2>2 DEF InputsBack
    <2>4. i # n - 1
      <3>1. ASSUME i = n - 1 PROVE FALSE
        <4>1. s[i + 1] = top
          BY <1>1, <3>1
        <4> QED BY <2>3, <4>1 DEF Restoring
      <3> QED BY <3>1
    <2>5. i < n - 1 /\ i + 1 \in 1 .. n - 1
      BY <1>1, <2>4
    <2> QED BY <1>2, <2>3, <2>5
  <1>8. SpillsApart(u)
    BY <1>2, <1>4 DEF SpillsApart
  <1> QED BY <1>2, <1>6, <1>7, <1>8 DEF InputsHeld, u

\* A change of the activation on top.
LEMMA HeldPut ==
  ASSUME NEW s \in Seq(Frames), s # <<>>, NEW f \in Frames, NEW in, NEW used, NEW sp,
         NEW bf, InputsHeld(s, in, used, sp, bf),
         NEW bf2, \A t \in Tensors : bf[t] # NoBuffer => bf2[t] # NoBuffer,
         f.kind = s[Len(s)].kind, f.self = s[Len(s)].self, f.vals = s[Len(s)].vals,
         FrameHolds(f, in, used, sp, bf2),
         \A v \in f.vals \ {f.self} : v \in f.todo \/ ~sp[v]
  PROVE  InputsHeld([s EXCEPT ![Len(s)] = f], in, used, sp, bf2)
  <1> DEFINE n == Len(s)
             u == [s EXCEPT ![n] = f]
  <1>1. /\ n \in Nat \ {0} /\ n \in 1 .. n
        /\ \A i \in 1 .. n : s[i] \in Frames /\ s[i].self \in Tensors
    <2>1. n \in Nat \ {0} /\ n \in 1 .. n
      BY EmptySeq, LenProperties
    <2>2. \A i \in 1 .. n : s[i] \in Frames
      BY ElementOfSeq
    <2> QED BY <2>1, <2>2 DEF Frames
  <1>2. /\ Len(u) = n /\ u[n] = f
        /\ \A i \in 1 .. n : u[i] = IF i = n THEN f ELSE s[i]
    BY <1>1, ExceptSeq
  <1> HIDE DEF u
  <1>3. \A i \in 1 .. n : u[i].kind = s[i].kind /\ u[i].self = s[i].self /\ u[i].vals = s[i].vals
    BY <1>2
  <1>4. ASSUME NEW i \in 1 .. n PROVE FrameHolds(u[i], in, used, sp, bf2)
    <2>1. CASE i = n
      BY <1>2, <2>1
    <2>2. CASE i # n
      <3>1. FrameHolds(s[i], in, used, sp, bf) /\ u[i] = s[i]
        BY <1>2, <2>2 DEF InputsHeld
      <3> QED BY <1>1, <3>1 DEF FrameHolds
    <2> QED BY <2>1, <2>2
  <1>5. ASSUME NEW i \in 1 .. n PROVE InputsBack(u, i, sp)
    <2>1. CASE i = n
      BY <1>2, <2>1 DEF InputsBack
    <2>2. CASE i # n
      <3>1. i < n /\ i + 1 \in 1 .. n /\ u[i] = s[i] /\ InputsBack(s, i, sp)
        BY <1>1, <1>2, <2>2 DEF InputsHeld
      <3>2. \A v : Restoring(s[i], s[i + 1], v) => Restoring(u[i], u[i + 1], v)
        BY <1>3, <3>1 DEF Restoring
      <3> QED BY <1>2, <3>1, <3>2 DEF InputsBack
    <2> QED BY <2>1, <2>2
  <1>6. SpillsApart(u)
    <2>1. \A i \in 1 .. n : \A k \in 1 .. i - 1 : k \in 1 .. n
      BY <1>1
    <2> QED BY <1>2, <1>3, <2>1 DEF InputsHeld, SpillsApart
  <1> QED BY <1>2, <1>4, <1>5, <1>6 DEF InputsHeld, u

\* Taking values out of files and putting values in memory disturbs nothing.
LEMMA HeldFewer ==
  ASSUME NEW s \in Seq(Frames), NEW in, NEW used, NEW sp, NEW bf, NEW sp2, NEW bf2,
         InputsHeld(s, in, used, sp, bf),
         \A t \in Tensors : sp2[t] => sp[t],
         \A t \in Tensors : bf[t] # NoBuffer => bf2[t] # NoBuffer
  PROVE  InputsHeld(s, in, used, sp2, bf2)
  <1>1. ASSUME NEW i \in 1 .. Len(s)
        PROVE  FrameHolds(s[i], in, used, sp2, bf2) /\ InputsBack(s, i, sp2)
    <2>1. s[i].self \in Tensors /\ s[i].vals \subseteq Tensors
      <3>1. s[i] \in Frames
        BY ElementOfSeq
      <3> QED BY <3>1 DEF Frames
    <2>2. FrameHolds(s[i], in, used, sp, bf) /\ InputsBack(s, i, sp)
      BY DEF InputsHeld
    <2>3. FrameHolds(s[i], in, used, sp2, bf2)
      BY <2>1, <2>2 DEF FrameHolds
    <2>4. InputsBack(s, i, sp2)
      BY <2>1, <2>2 DEF InputsBack
    <2> QED BY <2>3, <2>4
  <1> QED BY <1>1 DEF InputsHeld

\* Between operations there is nothing to say.
LEMMA HeldEmpty ==
  ASSUME NEW in, NEW used, NEW sp, NEW bf
  PROVE  InputsHeld(<<>>, in, used, sp, bf)
  <1>1. Len(<<>>) = 0
    OBVIOUS
  <1> QED BY <1>1 DEF InputsHeld, SpillsApart

-----------------------------------------------------------------------------
(* Calls and returns.                                                      *)

\* What is known of the activation on top.
LEMMA TopHeld ==
  ASSUME TypeOK, ValuesOK, stack # <<>>
  PROVE  /\ FrameHolds(Top, inside, alive \ garbage, spilled, buf)
         /\ \A v \in Top.vals \ {Top.self} : v \in Top.todo \/ ~spilled[v]
         /\ Top.kind # "evict" => \A i \in 1 .. Len(stack) : stack[i].kind # "evict"
         /\ Top.kind = "spill" => Len(stack) = 1
         /\ Top.kind = "evict" =>
              \A k \in 1 .. Len(stack) - 1 : Top.self \notin stack[k].vals
  <1>1. Len(stack) \in Nat \ {0} /\ Len(stack) \in 1 .. Len(stack)
    BY TopType
  <1>2. InputsHeld(stack, inside, alive \ garbage, spilled, buf)
    BY DEF ValuesOK
  <1>3. FrameHolds(Top, inside, alive \ garbage, spilled, buf)
    BY <1>1, <1>2 DEF InputsHeld, Top
  <1>4. \A v \in Top.vals \ {Top.self} : v \in Top.todo \/ ~spilled[v]
    BY <1>1, <1>2 DEF InputsHeld, InputsBack, Top
  <1>5. SpillsApart(stack)
    BY <1>2 DEF InputsHeld
  <1> QED BY <1>1, <1>3, <1>4, <1>5 DEF SpillsApart, Top

\* A call, from the activation on top or by the program.
LEMMA CallHeld ==
  ASSUME TypeOK, ObjectsOK, ValuesOK,
         NEW kind \in {"create", "realize", "spill", "evict"},
         NEW t \in Tensors, NEW native \in BOOLEAN, Call(kind, t, native),
         kind = "create" => t \notin alive, kind # "create" => t \in alive \ garbage,
         kind # "realize" => native = FALSE, native => ~spilled[t],
         kind \in {"create", "spill"} => stack = <<>>,
         kind = "evict" => /\ inside /\ buf[t] # NoBuffer
                           /\ \A k \in 1 .. Len(stack) : t \notin stack[k].vals,
         stack # <<>> => Top.kind # "evict",
         UNCHANGED inside, UNCHANGED objects
  PROVE  ValuesOK'
  <1> DEFINE f == Frame(kind, t, native)
             used == alive \ garbage
  <1>1. /\ f \in Frames /\ f.kind = kind /\ f.self = t /\ f.pc = "inputs" /\ f.native = native
        /\ f.vals = IF inside /\ kind # "create" THEN Frontier(t) ELSE {}
        /\ inside /\ kind # "create" => f.todo = {v \in Frontier(t) \ {t} : spilled[v]}
    BY FrameType DEF Frame
  <1>2. stack' = Append(stack, f) /\ stack \in Seq(Frames)
    BY DEF Call, TypeOK
  <1> HIDE DEF f
  <1>3. kind # "create" => Frontier(t) \subseteq used
    BY FrontierUsed
  <1>4. kind = "evict" => f.todo = {}
    <2> SUFFICES ASSUME kind = "evict" PROVE f.todo = {}
      OBVIOUS
    <2>1. ~IsLazy(t) /\ {t} \in SUBSET alive
      BY DEF IsLazy
    <2>2. Frontier(t) \subseteq {t}
      BY <2>1 DEF Frontier
    <2> QED BY <1>1, <2>2
  <1>5. FrameHolds(f, inside, used, spilled, buf)
    BY <1>1, <1>3, <1>4 DEF FrameHolds, InRam
  <1>6. \A v \in f.vals \ {f.self} : v \in f.todo \/ ~spilled[v]
    BY <1>1
  <1>7. InputsHeld(stack, inside, used, spilled, buf)
    BY DEF ValuesOK
  <1>8. \A i \in 1 .. Len(stack) : stack[i].kind # "evict" /\ (stack[i].kind = "spill" => i = 1)
    <2>1. CASE stack = <<>>
      BY <2>1
    <2>2. CASE stack # <<>>
      BY <1>7, <2>2, TopHeld DEF InputsHeld, SpillsApart
    <2> QED BY <2>1, <2>2
  <1>9. stack # <<>> => \A v \in stack[Len(stack)].vals \ {stack[Len(stack)].self} :
          v \in stack[Len(stack)].todo \/ ~spilled[v]
    BY TopHeld DEF Top
  <1>10. /\ \A i \in 1 .. Len(stack) : FrameHolds(stack[i], inside, used, spilled, buf)
         /\ \A i \in 1 .. Len(stack) - 1 : InputsBack(stack, i, spilled)
    <2>1. 1 .. Len(stack) - 1 \subseteq 1 .. Len(stack)
      BY <1>2, LenProperties
    <2> QED BY <1>7, <2>1 DEF InputsHeld
  <1>11. InputsHeld(Append(stack, f), inside, used, spilled, buf)
    BY <1>1, <1>2, <1>5, <1>6, <1>8, <1>9, <1>10, HeldPush
  <1>12. PlacesOK'
    BY DEF ValuesOK, PlacesOK
  <1> QED BY <1>2, <1>11, <1>12 DEF ValuesOK

\* A return.
LEMMA ReturnHeld ==
  ASSUME TypeOK, StackOK, ValuesOK, stack # <<>>,
         stack' = SubSeq(stack, 1, Len(stack) - 1), UNCHANGED inside,
         alive \ garbage \subseteq alive' \ garbage',
         \A t \in Tensors : spilled'[t] => spilled[t] \/ (t = Top.self /\ ~InRam(Top)),
         Top.kind = "realize" => ~spilled'[Top.self]
  PROVE  InputsHeld(stack', inside', alive' \ garbage', spilled', buf')
  <1>1. /\ stack \in Seq(Frames)
        /\ WellStacked(stack, inside, alive, alive \ garbage, spilled)
        /\ InputsHeld(stack, inside, alive \ garbage, spilled, buf)
    BY DEF TypeOK, StackOK, ValuesOK
  <1> QED BY <1>1, HeldPop DEF Top

\* A change of the activation on top, which may allocate its output.
LEMMA PutHeld ==
  ASSUME TypeOK, ValuesOK, stack # <<>>, NEW f \in Frames,
         stack' = [stack EXCEPT ![Len(stack)] = f], UNCHANGED <<inside, alive, garbage, spilled>>,
         \A t \in Tensors : buf[t] # NoBuffer => buf'[t] # NoBuffer,
         f.kind = Top.kind, f.self = Top.self, f.vals = Top.vals, f.todo = Top.todo,
         FrameHolds(f, inside, alive \ garbage, spilled, buf')
  PROVE  InputsHeld(stack', inside', alive' \ garbage', spilled', buf')
  <1>1. stack \in Seq(Frames) /\ InputsHeld(stack, inside, alive \ garbage, spilled, buf)
    BY DEF TypeOK, ValuesOK
  <1>2. \A v \in f.vals \ {f.self} : v \in f.todo \/ ~spilled[v]
    BY TopHeld
  <1> QED BY <1>1, <1>2, HeldPut DEF Top

\* An exception.
LEMMA UnwindHeld ==
  ASSUME TypeOK, StackOK, ValuesOK, stack # <<>>,
         NEW kept \in 0 .. Len(stack), Caught(kept), Unwind(kept),
         UNCHANGED <<alive, garbage>>,
         \A t \in Tensors : spilled'[t] => spilled[t],
         \A t \in Tensors : buf[t] # NoBuffer => buf'[t] # NoBuffer
  PROVE  InputsHeld(stack', inside', alive' \ garbage', spilled', buf')
  <1>1. kept # 0 => Handles(stack[kept])
    BY DEF Caught
  <1> DEFINE n == Len(stack)
             used == alive \ garbage
             f == Fallback(stack[kept])
             low == SubSeq(stack, 1, kept - 1)
  <1>2. /\ stack' = IF kept = 0 THEN <<>> ELSE Append(low, f)
        /\ UNCHANGED inside
    BY DEF Unwind
  <1>4. InputsHeld(stack, inside, used, spilled, buf)
    BY DEF ValuesOK
  <1>5. CASE kept = 0
    BY <1>2, <1>5, HeldEmpty
  <1>6. CASE kept # 0
    <2>1. /\ kept \in 1 .. n /\ kept - 1 \in 0 .. n /\ kept \in Nat \ {0}
          /\ stack[kept] \in Frames /\ stack \in Seq(Frames) /\ inside \in BOOLEAN
          /\ n \in Nat
      BY <1>6, ElementOfSeq, LenProperties DEF TypeOK
    <2>2. /\ stack[kept].native /\ stack[kept].kind = "realize" /\ stack[kept].pc # "inputs"
      <3>1. ActivationOK(stack[kept], inside, alive, used, spilled)
        BY <2>1 DEF StackOK, WellStacked
      <3> QED BY <1>1, <1>6, <3>1 DEF Handles, ActivationOK
    <2>3. /\ f \in Frames /\ f.kind = "realize" /\ f.native = FALSE
          /\ f.self = stack[kept].self /\ f.vals = stack[kept].vals
          /\ f.todo = stack[kept].todo /\ f.pc \in {"reserve", "apply"}
      BY <2>1, <2>2, FallbackType DEF Fallback, Frames
    <2>4. low \in Seq(Frames) /\ Len(low) = kept - 1 /\ \A i \in 1 .. kept - 1 : low[i] = stack[i]
      BY <2>1, CutSeq
    <2> HIDE DEF f, low
    <2>5. FrameHolds(stack[kept], inside, used, spilled, buf) /\ InputsBack(stack, kept, spilled)
      BY <1>4, <2>1 DEF InputsHeld
    <2>6. FrameHolds(f, inside, used, spilled, buf)
      BY <2>2, <2>3, <2>5 DEF FrameHolds, InRam
    <2>7. \A v \in f.vals \ {f.self} : v \in f.todo \/ ~spilled[v]
      BY <2>2, <2>3, <2>5 DEF InputsBack, Restoring
    <2>8. \A i \in 1 .. kept - 1 : i \in 1 .. n /\ i # n
      BY <2>1
    <2>9. /\ \A i \in 1 .. Len(low) : FrameHolds(low[i], inside, used, spilled, buf)
          /\ \A i \in 1 .. Len(low) : low[i].kind # "evict" /\ (low[i].kind = "spill" => i = 1)
      BY <1>4, <2>4, <2>8 DEF InputsHeld, SpillsApart
    <2>10. ASSUME NEW i \in 1 .. Len(low) - 1 PROVE InputsBack(low, i, spilled)
      <3>1. i \in 1 .. n /\ low[i] = stack[i] /\ low[i + 1] = stack[i + 1] /\ i < Len(low)
        BY <2>1, <2>4
      <3> QED BY <1>4, <3>1 DEF InputsHeld, InputsBack
    <2>11. ASSUME low # <<>>
           PROVE  \A v \in low[Len(low)].vals \ {low[Len(low)].self} :
                    v \in low[Len(low)].todo \/ ~spilled[v] \/ Restoring(low[Len(low)], f, v)
      <3>1. kept - 1 \in 1 .. n /\ (kept - 1) + 1 = kept /\ low[Len(low)] = stack[kept - 1]
        BY <2>1, <2>4, <2>11, EmptySeq
      <3>2. InputsBack(stack, kept - 1, spilled)
        BY <1>4, <3>1 DEF InputsHeld
      <3> QED BY <2>2, <2>3, <3>1, <3>2 DEF InputsBack, Restoring
    <2>12. InputsHeld(Append(low, f), inside, used, spilled, buf)
      BY <2>3, <2>4, <2>6, <2>7, <2>9, <2>10, <2>11, HeldPush
    <2>13. stack' = Append(low, f) /\ stack' \in Seq(Frames)
      BY <1>2, <1>6, UnwindType
    <2>14. InputsHeld(stack', inside, used, spilled, buf)
      BY <2>12, <2>13
    <2>15. InputsHeld(stack', inside, used, spilled', buf')
      BY <2>13, <2>14, HeldFewer
    <2> QED BY <1>2, <2>15
  <1> QED BY <1>5, <1>6

\* One that leaves the objects alone.
LEMMA RaiseHeld ==
  ASSUME TypeOK, StackOK, ValuesOK, stack # <<>>, UNCHANGED objects,
         NEW kept \in 0 .. Len(stack), Caught(kept), Unwind(kept)
  PROVE  ValuesOK'
  <1>1. /\ UNCHANGED <<alive, garbage, operands>>
        /\ \A t \in Tensors : spilled'[t] = spilled[t] /\ buf'[t] = buf[t]
    OBVIOUS
  <1>2. InputsHeld(stack', inside', alive' \ garbage', spilled', buf')
    BY <1>1, UnwindHeld
  <1>3. PlacesOK'
    BY <1>1 DEF ValuesOK, PlacesOK
  <1> QED BY <1>2, <1>3 DEF ValuesOK

-----------------------------------------------------------------------------
(* The actions.                                                            *)

\* Between operations only the places can change.
LEMMA IdleValues ==
  ASSUME BInv, ValuesOK, NEW t \in Tensors,
         \/ Enter \/ Exit \/ LoseInCycle(t) \/ Drop(t)
         \/ \E ops \in SUBSET Tensors : CreateLazy(t, ops)
         \/ \E base \in Tensors : CreateView(t, base)
  PROVE  ValuesOK'
  <1>1. stack' = <<>>
    BY DEF Enter, Exit, LoseInCycle, Drop, CreateLazy, CreateView, Finalize
  <1>2. /\ buf \in [Tensors -> Buffers \cup {NoBuffer}] /\ spilled \in [Tensors -> BOOLEAN]
        /\ operands \in [Tensors -> SUBSET Tensors] /\ alive \subseteq Tensors
        /\ \A u \in Tensors \ alive : buf[u] = NoBuffer /\ ~spilled[u] /\ operands[u] = {}
    BY DEF BInv, TypeOK, ObjectsOK
  <1>3. PlacesOK
    BY DEF ValuesOK
  <1>4. PlacesOK'
    <2>1. CASE Enter \/ Exit \/ LoseInCycle(t)
      BY <1>3, <2>1 DEF Enter, Exit, LoseInCycle, PlacesOK
    <2>2. CASE Drop(t)
      <3>1. /\ alive' = alive \ {t} /\ buf' = Forget(buf, {t}, NoBuffer)
            /\ spilled' = Forget(spilled, {t}, FALSE) /\ operands' = Forget(operands, {t}, {})
        BY <2>2 DEF Drop, Finalize
      <3> QED BY <1>2, <1>3, <3>1 DEF PlacesOK, Forget
    <2>3. ASSUME NEW ops \in SUBSET Tensors, CreateLazy(t, ops) PROVE PlacesOK'
      BY <1>2, <1>3, <2>3 DEF CreateLazy, PlacesOK
    <2>4. ASSUME NEW base \in Tensors, CreateView(t, base) PROVE PlacesOK'
      BY <1>2, <1>3, <2>4 DEF CreateView, PlacesOK
    <2> QED BY <2>1, <2>2, <2>3, <2>4
  <1>5. InputsHeld(stack', inside', (alive \ garbage)', spilled', buf')
    BY <1>1, HeldEmpty
  <1> QED BY <1>4, <1>5 DEF ValuesOK

\* The collector takes nothing an activation works on.
LEMMA CollectHeld ==
  ASSUME BInv, ValuesOK, Collect
  PROVE  ValuesOK'
  <1>1. /\ UNCHANGED <<stack, inside>> /\ alive' = alive \ garbage /\ garbage' = garbage \ garbage
        /\ buf' = Forget(buf, garbage, NoBuffer) /\ spilled' = Forget(spilled, garbage, FALSE)
        /\ operands' = Forget(operands, garbage, {})
    BY DEF Collect, Finalize
  <1>2. /\ buf \in [Tensors -> Buffers \cup {NoBuffer}] /\ spilled \in [Tensors -> BOOLEAN]
        /\ operands \in [Tensors -> SUBSET Tensors]
        /\ alive \subseteq Tensors /\ garbage \subseteq alive /\ stack \in Seq(Frames)
    BY DEF BInv, TypeOK
  <1>3. /\ \A u \in Tensors : u \notin garbage =>
             buf'[u] = buf[u] /\ spilled'[u] = spilled[u] /\ operands'[u] = operands[u]
        /\ \A u \in Tensors : spilled'[u] => u \notin garbage
    BY <1>1, <1>2 DEF Forget
  <1>4. PlacesOK'
    BY <1>1, <1>2, <1>3 DEF ValuesOK, PlacesOK
  <1>5. (alive \ garbage)' = alive \ garbage
    BY <1>1
  <1>6. InputsHeld(stack, inside, alive \ garbage, spilled', buf')
    <2>1. InputsHeld(stack, inside, alive \ garbage, spilled, buf)
      BY DEF ValuesOK
    <2>2. \A i \in 1 .. Len(stack) : stack[i] \in Frames
      BY <1>2, ElementOfSeq
    <2>3. ASSUME NEW i \in 1 .. Len(stack)
          PROVE  /\ FrameHolds(stack[i], inside, alive \ garbage, spilled', buf')
                 /\ InputsBack(stack, i, spilled')
      <3>1. /\ stack[i].self \in Tensors /\ stack[i].vals \subseteq Tensors
            /\ FrameHolds(stack[i], inside, alive \ garbage, spilled, buf)
            /\ InputsBack(stack, i, spilled)
        BY <2>1, <2>2 DEF InputsHeld, Frames
      <3>2. stack[i].kind # "create" => stack[i].self \notin garbage
        BY DEF BInv, StackOK, WellStacked, ActivationOK
      <3>3. stack[i].native => stack[i].kind = "realize"
        BY DEF BInv, StackOK, WellStacked, ActivationOK
      <3>4. FrameHolds(stack[i], inside, alive \ garbage, spilled', buf')
        BY <1>3, <3>1, <3>2, <3>3 DEF FrameHolds
      <3>5. InputsBack(stack, i, spilled')
        BY <1>3, <3>1 DEF InputsBack
      <3> QED BY <3>4, <3>5
    <2> QED BY <2>1, <2>3 DEF InputsHeld
  <1>7. InputsHeld(stack', inside', (alive \ garbage)', spilled', buf')
    BY <1>1, <1>5, <1>6
  <1> QED BY <1>4, <1>7 DEF ValuesOK

\* The operations of the program.
LEMMA BeginHeld ==
  ASSUME BInv, ValuesOK, NEW t \in Tensors, NEW native \in BOOLEAN,
         BeginCreate(t) \/ BeginSpill(t) \/ BeginRealize(t, native)
  PROVE  ValuesOK'
  <1>1. stack = <<>> /\ UNCHANGED inside /\ UNCHANGED objects
    BY DEF BeginCreate, BeginSpill, BeginRealize
  <1>2. TypeOK /\ ObjectsOK
    BY DEF BInv
  <1>3. CASE BeginCreate(t)
    <2>1. t \notin alive /\ Call("create", t, FALSE)
      BY <1>3 DEF BeginCreate
    <2> QED BY <1>1, <1>2, <2>1, CallHeld
  <1>4. CASE BeginSpill(t)
    <2>1. t \in alive \ garbage /\ Call("spill", t, FALSE)
      BY <1>4 DEF BeginSpill
    <2> QED BY <1>1, <1>2, <2>1, CallHeld
  <1>5. CASE BeginRealize(t, native)
    <2>1. t \in alive \ garbage /\ Call("realize", t, native) /\ (native => ~spilled[t])
      BY <1>5 DEF BeginRealize, IsLazy
    <2> QED BY <1>1, <1>2, <2>1, CallHeld
  <1> QED BY <1>3, <1>4, <1>5

\* No activation has pinned a victim.
LEMMA MakeRoomHeld ==
  ASSUME BInv, ValuesOK, NEW v \in Tensors, MakeRoom(v)
  PROVE  ValuesOK'
  <1>1. /\ stack # <<>> /\ Top.pc = "reserve" /\ garbage = {} /\ Evictable(v)
        /\ Call("evict", v, FALSE) /\ InRam(Top)
        /\ UNCHANGED inside /\ UNCHANGED objects
    BY DEF MakeRoom, CanMakeRoom, Victim, At
  <1>2. TypeOK /\ ObjectsOK /\ StackOK /\ PinsBalanced
    BY DEF BInv
  <1>3. v \in alive \ garbage /\ pins[v] = 0 /\ buf[v] # NoBuffer
    BY <1>1, <1>2 DEF Evictable, ObjectsOK
  <1>4. {i \in 1 .. Len(stack) : v \in stack[i].vals} = {}
    <2>1. IsFiniteSet({i \in 1 .. Len(stack) : v \in stack[i].vals})
      BY <1>2, HoldersFinite DEF Holders, TypeOK
    <2>2. Cardinality({i \in 1 .. Len(stack) : v \in stack[i].vals}) = 0
      BY <1>2, <1>3 DEF PinsBalanced, PinCount
    <2> QED BY <2>1, <2>2, FS_EmptySet
  <1>5. inside /\ Top.kind # "evict"
    <2>1. ActivationOK(Top, inside, alive, alive \ garbage, spilled)
      BY <1>1, <1>2, TopWell
    <2> QED BY <1>1, <2>1 DEF ActivationOK, InRam
  <1> QED BY <1>1, <1>2, <1>3, <1>4, <1>5, CallHeld

\* A spill that materializes its value is no eviction.
LEMMA MaterializeHeld ==
  ASSUME BInv, ValuesOK, NEW native \in BOOLEAN, MaterializeForSpill(native)
  PROVE  ValuesOK'
  <1>1. /\ stack # <<>> /\ Top.pc = "apply" /\ ~InRam(Top) /\ buf[Top.self] = NoBuffer
        /\ Call("realize", Top.self, native)
        /\ UNCHANGED inside /\ UNCHANGED objects
    BY DEF MaterializeForSpill, At
  <1>2. TypeOK /\ ObjectsOK /\ StackOK
    BY DEF BInv
  <1>3. Top.self \in Tensors /\ Top.self \in alive \ garbage
    BY <1>1, <1>2, TopWell DEF ActivationOK, InRam
  <1>4. Top.kind # "evict" /\ ~spilled[Top.self]
    BY <1>1, <1>2, TopHeld DEF FrameHolds
  <1> QED BY <1>1, <1>2, <1>3, <1>4, CallHeld

\* The activation that restores an input of another.
LEMMA RestoreHeld ==
  ASSUME BInv, ValuesOK, NEW v \in Tensors, RestoreInput(v)
  PROVE  ValuesOK'
  <1> DEFINE caller == [Top EXCEPT !.todo = @ \ {v}]
             s == [stack EXCEPT ![Len(stack)] = caller]
             f == Frame("realize", v, FALSE)
             n == Len(stack)
             used == alive \ garbage
  <1>1. /\ stack # <<>> /\ Top.pc = "inputs" /\ v \in Top.todo
        /\ stack' = Append(s, f)
        /\ UNCHANGED inside /\ UNCHANGED objects
    BY DEF RestoreInput, At, Top
  <1>2. TypeOK /\ ObjectsOK /\ StackOK
    BY DEF BInv
  <1>3. /\ Top \in Frames /\ n \in 1 .. n /\ stack \in Seq(Frames) /\ n \in Nat
        /\ ActivationOK(Top, inside, alive, used, spilled)
    BY <1>1, <1>2, TopWell DEF TypeOK
  <1>4. /\ caller \in Frames /\ caller.kind = Top.kind /\ caller.self = Top.self
        /\ caller.pc = "inputs" /\ caller.vals = Top.vals /\ caller.todo = Top.todo \ {v}
        /\ caller.native = Top.native
    BY <1>1, <1>3 DEF Frames
  <1> HIDE DEF caller
  <1>5. v \in alive \ garbage
    BY <1>1, <1>3 DEF ActivationOK
  <1>6. /\ f \in Frames /\ f.kind = "realize" /\ f.self = v /\ f.pc = "inputs" /\ f.native = FALSE
        /\ f.vals = IF inside THEN Frontier(v) ELSE {}
        /\ f.todo = {u \in Frontier(v) \ {v} : spilled[u]}
    BY <1>2, FrameType DEF Frame
  <1> HIDE DEF f
  <1>7. /\ s \in Seq(Frames) /\ Len(s) = n /\ s[n] = caller
        /\ \A i \in 1 .. n : i # n => s[i] = stack[i]
    BY <1>3, <1>4, ExceptSeq
  <1> HIDE DEF s
  <1>7a. s # <<>>
    BY <1>3, <1>7, EmptySeq
  <1>8. InputsHeld(stack, inside, used, spilled, buf)
    BY DEF ValuesOK
  <1>9. Top = stack[n]
    BY DEF Top
  <1>10. /\ FrameHolds(Top, inside, used, spilled, buf)
         /\ \A u \in Top.vals \ {Top.self} : u \in Top.todo \/ ~spilled[u]
         /\ Top.kind # "evict" /\ \A i \in 1 .. n : stack[i].kind # "evict"
    <2>1. FrameHolds(Top, inside, used, spilled, buf)
      BY <1>1, <1>2, TopHeld
    <2>2. Top.kind # "evict"
      BY <1>1, <2>1 DEF FrameHolds
    <2> QED BY <1>1, <1>2, <2>1, <2>2, TopHeld
  <1>11. FrameHolds(f, inside, used, spilled, buf)
    <2>1. Frontier(v) \subseteq used
      BY <1>2, <1>5, FrontierUsed
    <2> QED BY <1>6, <2>1 DEF FrameHolds, InRam
  <1>12. \A u \in f.vals \ {f.self} : u \in f.todo \/ ~spilled[u]
    BY <1>6
  <1>13. \A u \in caller.vals \ {caller.self} : u \in caller.todo \/ ~spilled[u] \/ Restoring(caller, f, u)
    BY <1>4, <1>6, <1>10 DEF Restoring
  <1>14. ASSUME NEW i \in 1 .. n PROVE FrameHolds(s[i], inside, used, spilled, buf)
    <2>1. CASE i = n
      BY <1>4, <1>7, <1>10, <2>1 DEF FrameHolds, InRam
    <2>2. CASE i # n
      BY <1>7, <1>8, <2>2 DEF InputsHeld
    <2> QED BY <2>1, <2>2
  <1>15. ASSUME NEW i \in 1 .. n - 1 PROVE InputsBack(s, i, spilled)
    <2>1. i \in 1 .. n /\ i # n /\ i < n /\ i + 1 \in 1 .. n
      BY <1>3
    <2>2. InputsBack(stack, i, spilled) /\ s[i] = stack[i]
      BY <1>7, <1>8, <2>1 DEF InputsHeld
    <2>3. s[i + 1].kind = stack[i + 1].kind /\ s[i + 1].self = stack[i + 1].self
      BY <1>4, <1>7, <1>9, <2>1
    <2>4. \A u : Restoring(stack[i], stack[i + 1], u) => Restoring(s[i], s[i + 1], u)
      BY <2>2, <2>3 DEF Restoring
    <2>5. ASSUME NEW u \in stack[i].vals \ {stack[i].self}
          PROVE  u \in stack[i].todo \/ ~spilled[u] \/ Restoring(stack[i], stack[i + 1], u)
      BY <2>2 DEF InputsBack
    <2> QED BY <1>7, <2>1, <2>2, <2>4, <2>5 DEF InputsBack
  <1>16. \A i \in 1 .. n : s[i].kind # "evict" /\ (s[i].kind = "spill" => i = 1)
    <2>1. \A i \in 1 .. n : s[i].kind = stack[i].kind
      BY <1>4, <1>7, <1>9
    <2> QED BY <1>8, <1>10, <2>1 DEF InputsHeld, SpillsApart
  <1>17. InputsHeld(Append(s, f), inside, used, spilled, buf)
    BY <1>6, <1>7, <1>11, <1>12, <1>13, <1>14, <1>15, <1>7a, <1>16, HeldPush
  <1>18. PlacesOK'
    BY <1>1 DEF ValuesOK, PlacesOK
  <1> QED BY <1>1, <1>17, <1>18 DEF ValuesOK

\* A value that is resident is in no file.
LEMMA ResidentHeld ==
  ASSUME BInv, ValuesOK, AlreadyResident
  PROVE  ValuesOK'
  <1>1. /\ stack # <<>> /\ buf[Top.self] # NoBuffer
        /\ stack' = SubSeq(stack, 1, Len(stack) - 1) /\ UNCHANGED inside /\ UNCHANGED objects
    BY DEF AlreadyResident, At, Return
  <1>2. TypeOK /\ StackOK
    BY DEF BInv
  <1>3. ~spilled[Top.self]
    BY <1>1, <1>2, TopWell DEF ValuesOK, PlacesOK
  <1>4. InputsHeld(stack', inside', (alive \ garbage)', spilled', buf')
    BY <1>1, <1>2, <1>3, ReturnHeld
  <1>5. PlacesOK'
    BY <1>1 DEF ValuesOK, PlacesOK
  <1> QED BY <1>4, <1>5 DEF ValuesOK

\* The three steps of a reservation.
LEMMA ReserveHeld ==
  ASSUME BInv, ValuesOK, StartReserve \/ ReserveRead \/ ReserveCommit
  PROVE  ValuesOK'
  <1>1. TypeOK /\ StackOK
    BY DEF BInv
  <1>2. /\ stack # <<>> /\ Top.pc # "launch"
        /\ UNCHANGED inside /\ UNCHANGED objects
        /\ Top.pc = "inputs" => Top.todo = {} /\ (~InRam(Top) => ~spilled[Top.self])
    BY DEF StartReserve, ReserveRead, ReserveCommit, At
  <1>3. Top \in Frames /\ LiveOf(Top) \in Int /\ Size[Top.self] \in Int
    <2>1. Top \in Frames /\ Top.self \in Tensors
      BY <1>1, <1>2, TopWell
    <2> QED BY <1>1, <2>1, SizeAssumption DEF TypeOK, LiveOf
  <1>4. FrameHolds(Top, inside, alive \ garbage, spilled, buf)
    BY <1>1, <1>2, TopHeld
  <1>5. PICK f \in Frames :
          /\ stack' = [stack EXCEPT ![Len(stack)] = f]
          /\ f.kind = Top.kind /\ f.self = Top.self /\ f.vals = Top.vals /\ f.todo = Top.todo
          /\ f.native = Top.native /\ f.pc \in {"reserve", "commit", "apply"}
    <2>1. ASSUME NEW pc \in {"reserve", "apply"}, Goto(pc)
          PROVE  \E f \in Frames :
                   /\ stack' = [stack EXCEPT ![Len(stack)] = f]
                   /\ f.kind = Top.kind /\ f.self = Top.self /\ f.vals = Top.vals
                   /\ f.todo = Top.todo /\ f.native = Top.native
                   /\ f.pc \in {"reserve", "commit", "apply"}
      <3> DEFINE f == [Top EXCEPT !.pc = pc]
      <3>1. f \in Frames /\ f.kind = Top.kind /\ f.self = Top.self /\ f.vals = Top.vals
            /\ f.todo = Top.todo /\ f.native = Top.native /\ f.pc = pc
        BY <1>3 DEF Frames
      <3>2. stack' = [stack EXCEPT ![Len(stack)] = f]
        BY <2>1 DEF Goto, Top
      <3> QED BY <3>1, <3>2
    <2>2. CASE StartReserve
      BY <2>1, <2>2 DEF StartReserve
    <2>3. CASE ReserveCommit
      BY <2>1, <2>3 DEF ReserveCommit
    <2>4. CASE ReserveRead
      <3> DEFINE total == LiveOf(Top) + Size[Top.self]
                 f == [Top EXCEPT !.pc = "commit", !.seen = total]
      <3>1. total \in Int
        BY <1>3
      <3>2. stack' = [stack EXCEPT ![Len(stack)] = f]
        BY <2>4 DEF ReserveRead, Top
      <3> HIDE DEF total
      <3>3. f \in Frames /\ f.kind = Top.kind /\ f.self = Top.self /\ f.vals = Top.vals
            /\ f.todo = Top.todo /\ f.native = Top.native /\ f.pc = "commit"
        BY <1>3, <3>1 DEF Frames
      <3> QED BY <3>2, <3>3
    <2> QED BY <2>2, <2>3, <2>4
  <1>6. FrameHolds(f, inside, alive \ garbage, spilled, buf)
    BY <1>2, <1>4, <1>5 DEF FrameHolds, InRam
  <1>7. InputsHeld(stack', inside', (alive \ garbage)', spilled', buf')
    BY <1>1, <1>2, <1>5, <1>6, PutHeld
  <1>8. PlacesOK'
    BY <1>2 DEF ValuesOK, PlacesOK
  <1> QED BY <1>7, <1>8 DEF ValuesOK

\* A new leaf is in memory.
LEMMA FinishCreateHeld ==
  ASSUME BInv, ValuesOK, NEW b \in Buffers, FinishCreate(b)
  PROVE  ValuesOK'
  <1>1. TypeOK /\ StackOK /\ ObjectsOK
    BY DEF BInv
  <1>2. /\ stack # <<>> /\ Top.kind = "create" /\ alive' = alive \cup {Top.self}
        /\ buf' = [buf EXCEPT ![Top.self] = b]
        /\ stack' = SubSeq(stack, 1, Len(stack) - 1)
        /\ UNCHANGED <<inside, garbage, operands, spilled>>
    BY DEF FinishCreate, At, Return
  <1>3. /\ Top.self \in Tensors \ alive /\ ~spilled[Top.self] /\ b # NoBuffer
        /\ buf \in [Tensors -> Buffers \cup {NoBuffer}] /\ alive \subseteq Tensors
    <2>1. Top.self \in Tensors \ alive
      BY <1>1, <1>2, TopWell DEF ActivationOK
    <2> QED BY <1>1, <2>1, NoBufferAssumption DEF ObjectsOK, TypeOK
  <1>4. InputsHeld(stack', inside', (alive \ garbage)', spilled', buf')
    BY <1>1, <1>2, ReturnHeld
  <1>5. PlacesOK'
    BY <1>2, <1>3 DEF ValuesOK, PlacesOK
  <1> QED BY <1>4, <1>5 DEF ValuesOK

\* A value that is stored in memory is no longer in a file.
LEMMA StoredHeld ==
  ASSUME TypeOK, StackOK, PlacesOK, stack # <<>>, NEW b \in Buffers,
         buf' = [buf EXCEPT ![Top.self] = b], UNCHANGED <<alive, operands>>,
         spilled' \in [Tensors -> BOOLEAN], ~spilled'[Top.self],
         \A t \in Tensors : t # Top.self => spilled'[t] = spilled[t]
  PROVE  PlacesOK'
  <1>1. /\ Top.self \in Tensors /\ b # NoBuffer
        /\ buf \in [Tensors -> Buffers \cup {NoBuffer}] /\ alive \subseteq Tensors
    BY TopWell, NoBufferAssumption DEF TypeOK
  <1>2. /\ \A t \in Tensors : t # Top.self => buf'[t] = buf[t]
        /\ buf'[Top.self] = b
    BY <1>1
  <1> QED BY <1>1, <1>2 DEF PlacesOK

\* Reading a file back, and evaluating.
LEMMA StoreHeld ==
  ASSUME BInv, BInv', ValuesOK, NEW b \in Buffers, Reload(b) \/ Evaluate(b)
  PROVE  ValuesOK'
  <1>1. TypeOK /\ StackOK /\ TypeOK'
    BY DEF BInv
  <1>2. /\ stack # <<>> /\ Top.kind = "realize" /\ buf' = [buf EXCEPT ![Top.self] = b]
        /\ stack' = SubSeq(stack, 1, Len(stack) - 1)
        /\ UNCHANGED <<inside, alive, garbage, operands>>
        /\ spilled' = [spilled EXCEPT ![Top.self] = FALSE] \/ (UNCHANGED spilled /\ ~spilled[Top.self])
    BY DEF Reload, ReadBack, Evaluate, At, Return, Store
  <1>3. /\ Top.self \in Tensors /\ spilled \in [Tensors -> BOOLEAN]
        /\ spilled' \in [Tensors -> BOOLEAN] /\ ~spilled'[Top.self]
        /\ \A t \in Tensors : t # Top.self => spilled'[t] = spilled[t]
    <2>1. Top.self \in Tensors /\ spilled \in [Tensors -> BOOLEAN]
      BY <1>1, <1>2, TopWell DEF TypeOK
    <2> QED BY <1>2, <2>1
  <1>4. InputsHeld(stack', inside', (alive \ garbage)', spilled', buf')
    <2>1. \A t \in Tensors : spilled'[t] => spilled[t]
      BY <1>3
    <2> QED BY <1>1, <1>2, <1>3, <2>1, ReturnHeld
  <1>5. PlacesOK'
    BY <1>1, <1>2, <1>3, StoredHeld DEF ValuesOK
  <1> QED BY <1>4, <1>5 DEF ValuesOK

\* Reading a file back that then cannot be removed.
LEMMA ReleaseFailsHeld ==
  ASSUME BInv, BInv', ValuesOK, NEW b \in Buffers, ReleaseFails(b)
  PROVE  ValuesOK'
  <1>1. TypeOK /\ StackOK /\ TypeOK' /\ PlacesOK
    BY DEF BInv, ValuesOK
  <1>2. PICK kept \in 0 .. Len(stack) : Caught(kept) /\ Unwind(kept)
    BY DEF ReleaseFails
  <1>3. /\ stack # <<>> /\ buf' = [buf EXCEPT ![Top.self] = b]
        /\ spilled' = [spilled EXCEPT ![Top.self] = FALSE]
        /\ UNCHANGED <<alive, garbage, operands>>
    BY DEF ReleaseFails, ReadBack, Store, At
  <1>4. /\ Top.self \in Tensors /\ spilled \in [Tensors -> BOOLEAN] /\ b # NoBuffer
        /\ buf \in [Tensors -> Buffers \cup {NoBuffer}]
        /\ spilled' \in [Tensors -> BOOLEAN]
    BY <1>1, <1>3, TopWell, NoBufferAssumption DEF TypeOK
  <1>5. /\ ~spilled'[Top.self]
        /\ \A t \in Tensors : t # Top.self => spilled'[t] = spilled[t]
        /\ \A t \in Tensors : buf[t] # NoBuffer => buf'[t] # NoBuffer
    BY <1>3, <1>4
  <1>6. \A t \in Tensors : spilled'[t] => spilled[t]
    BY <1>5
  <1>7. InputsHeld(stack', inside', alive' \ garbage', spilled', buf')
    BY <1>1, <1>2, <1>3, <1>5, <1>6, UnwindHeld
  <1>8. PlacesOK'
    BY <1>1, <1>3, <1>4, <1>5, StoredHeld
  <1> QED BY <1>7, <1>8 DEF ValuesOK

\* The output of a native kernel.
LEMMA AllocateOutputHeld ==
  ASSUME BInv, ValuesOK, NEW b \in Buffers, AllocateOutput(b)
  PROVE  ValuesOK'
  <1> DEFINE f == [Top EXCEPT !.pc = "launch"]
  <1>1. TypeOK /\ StackOK
    BY DEF BInv
  <1>2. /\ stack # <<>> /\ Top.kind = "realize" /\ Top.native /\ Top.pc = "apply"
        /\ buf' = [buf EXCEPT ![Top.self] = b]
        /\ stack' = [stack EXCEPT ![Len(stack)] = f]
        /\ UNCHANGED <<inside, alive, garbage, operands, spilled>>
    BY DEF AllocateOutput, At, Goto, Store, Top
  <1>3. /\ Top \in Frames /\ Top.self \in Tensors /\ b # NoBuffer
        /\ buf \in [Tensors -> Buffers \cup {NoBuffer}] /\ spilled \in [Tensors -> BOOLEAN]
    BY <1>1, <1>2, TopWell, NoBufferAssumption DEF TypeOK
  <1>4. /\ f \in Frames /\ f.kind = Top.kind /\ f.self = Top.self /\ f.vals = Top.vals
        /\ f.todo = Top.todo /\ f.native = Top.native /\ f.pc = "launch"
    BY <1>3 DEF Frames
  <1> HIDE DEF f
  <1>5. FrameHolds(Top, inside, alive \ garbage, spilled, buf)
    BY <1>1, <1>2, TopHeld
  <1>6. buf'[Top.self] # NoBuffer /\ \A t \in Tensors : buf[t] # NoBuffer => buf'[t] # NoBuffer
    BY <1>2, <1>3
  <1>7. FrameHolds(f, inside, alive \ garbage, spilled, buf')
    BY <1>2, <1>4, <1>5, <1>6 DEF FrameHolds, InRam
  <1>8. InputsHeld(stack', inside', (alive \ garbage)', spilled', buf')
    BY <1>1, <1>2, <1>4, <1>6, <1>7, PutHeld
  <1>9. ~spilled[Top.self]
    BY <1>2, <1>5 DEF FrameHolds
  <1>10. PlacesOK'
    BY <1>1, <1>2, <1>3, <1>9, StoredHeld DEF ValuesOK
  <1> QED BY <1>8, <1>10 DEF ValuesOK

\* The end of a kernel.
LEMMA LaunchHeld ==
  ASSUME BInv, ValuesOK, Launch
  PROVE  ValuesOK'
  <1>1. TypeOK /\ StackOK
    BY DEF BInv
  <1>2. /\ stack # <<>> /\ Top.pc = "launch" /\ stack' = SubSeq(stack, 1, Len(stack) - 1)
        /\ UNCHANGED <<inside, alive, garbage, operands, buf, spilled>>
    BY DEF Launch, At, Return
  <1>3. ~spilled[Top.self]
    BY <1>1, <1>2, TopHeld DEF FrameHolds
  <1>4. InputsHeld(stack', inside', (alive \ garbage)', spilled', buf')
    BY <1>1, <1>2, <1>3, ReturnHeld
  <1>5. PlacesOK'
    BY <1>2 DEF ValuesOK, PlacesOK
  <1> QED BY <1>4, <1>5 DEF ValuesOK

\* A value moves from memory to its file.
LEMMA DetachHeld ==
  ASSUME BInv, ValuesOK, Detach
  PROVE  ValuesOK'
  <1>1. TypeOK /\ StackOK
    BY DEF BInv
  <1>2. /\ stack # <<>> /\ ~InRam(Top) /\ stack' = SubSeq(stack, 1, Len(stack) - 1)
        /\ spilled' = [spilled EXCEPT ![Top.self] = TRUE]
        /\ buf' = [buf EXCEPT ![Top.self] = NoBuffer]
        /\ UNCHANGED <<inside, alive, garbage, operands>>
    BY DEF Detach, At, Return
  <1>3. /\ Top.self \in Tensors /\ alive \subseteq Tensors /\ spilled \in [Tensors -> BOOLEAN]
        /\ buf \in [Tensors -> Buffers \cup {NoBuffer}] /\ Top.kind # "realize"
    BY <1>1, <1>2, TopWell DEF TypeOK, InRam
  <1>4. InputsHeld(stack', inside', (alive \ garbage)', spilled', buf')
    <2>1. \A t \in Tensors : spilled'[t] => spilled[t] \/ t = Top.self
      BY <1>2, <1>3
    <2> QED BY <1>1, <1>2, <1>3, <2>1, ReturnHeld
  <1>5. PlacesOK'
    BY <1>2, <1>3 DEF ValuesOK, PlacesOK
  <1> QED BY <1>4, <1>5 DEF ValuesOK

-----------------------------------------------------------------------------
(* The theorems about values.                                              *)

\* In the beginning there are no values.
LEMMA InitValues == Init => ValuesOK
  <1> SUFFICES ASSUME Init PROVE ValuesOK
    OBVIOUS
  <1>1. PlacesOK
    BY DEF Init, PlacesOK
  <1>2. InputsHeld(stack, inside, alive \ garbage, spilled, buf)
    BY HeldEmpty DEF Init
  <1> QED BY <1>1, <1>2 DEF ValuesOK

\* Every step keeps the values where the invariant says.
LEMMA ValuesKeep == BInv /\ BInv' /\ ValuesOK /\ [Next]_vars => ValuesOK'
  <1> SUFFICES ASSUME BInv, BInv', ValuesOK, [Next]_vars PROVE ValuesOK'
    OBVIOUS
  <1>1. TypeOK /\ StackOK
    BY DEF BInv
  <1>2. CASE Program
    <2>1. CASE Enter \/ Exit
      <3>1. CASE Tensors = {}
        <4>1. UNCHANGED objects /\ stack' = <<>>
          BY <2>1 DEF Enter, Exit
        <4>2. InputsHeld(stack', inside', (alive \ garbage)', spilled', buf')
          BY <4>1, HeldEmpty
        <4> QED BY <4>1, <4>2 DEF ValuesOK, PlacesOK
      <3>2. CASE Tensors # {}
        <4>1. PICK t \in Tensors : TRUE
          BY <3>2
        <4> QED BY <2>1, <4>1, IdleValues
      <3> QED BY <3>1, <3>2
    <2>2. ASSUME NEW t \in Tensors, BeginCreate(t) \/ BeginSpill(t) PROVE ValuesOK'
      BY <2>2, BeginHeld
    <2>3. ASSUME NEW t \in Tensors, NEW native \in BOOLEAN, BeginRealize(t, native)
          PROVE  ValuesOK'
      BY <2>3, BeginHeld
    <2>4. ASSUME NEW t \in Tensors, Drop(t) \/ LoseInCycle(t) PROVE ValuesOK'
      BY <2>4, IdleValues
    <2>5. ASSUME NEW t \in Tensors, NEW base \in Tensors, CreateView(t, base) PROVE ValuesOK'
      BY <2>5, IdleValues
    <2>6. ASSUME NEW t \in Tensors, NEW ops \in SUBSET Tensors, CreateLazy(t, ops)
          PROVE  ValuesOK'
      BY <2>6, IdleValues
    <2> QED BY <1>2, <2>1, <2>2, <2>3, <2>4, <2>5, <2>6 DEF Program
  <1>3. CASE Step
    <2>1. ASSUME NEW v \in Tensors, RestoreInput(v) PROVE ValuesOK'
      BY <2>1, RestoreHeld
    <2>2. ASSUME NEW v \in Tensors, MakeRoom(v) PROVE ValuesOK'
      BY <2>2, MakeRoomHeld
    <2>3. ASSUME AlreadyResident PROVE ValuesOK'
      BY <2>3, ResidentHeld
    <2>4. ASSUME AlreadySpilled \/ OutOfMemory \/ IoFails \/ LaunchFails PROVE ValuesOK'
      <3>1. stack # <<>> /\ Raise
        BY <2>4 DEF AlreadySpilled, OutOfMemory, IoFails, LaunchFails, At
      <3>2. PICK kept \in 0 .. Len(stack) : Caught(kept) /\ Unwind(kept) /\ UNCHANGED objects
        BY <3>1 DEF Raise
      <3> QED BY <1>1, <3>1, <3>2, RaiseHeld
    <2>5. ASSUME StartReserve \/ ReserveRead \/ ReserveCommit PROVE ValuesOK'
      BY <2>5, ReserveHeld
    <2>6. ASSUME NEW b \in Buffers, FinishCreate(b) PROVE ValuesOK'
      BY <2>6, FinishCreateHeld
    <2>7. ASSUME NEW b \in Buffers, Reload(b) \/ Evaluate(b) PROVE ValuesOK'
      BY <2>7, StoreHeld
    <2>8. ASSUME NEW b \in Buffers, AllocateOutput(b) PROVE ValuesOK'
      BY <2>8, AllocateOutputHeld
    <2>9. ASSUME NEW native \in BOOLEAN, MaterializeForSpill(native) PROVE ValuesOK'
      BY <2>9, MaterializeHeld
    <2>10. ASSUME Launch PROVE ValuesOK'
      BY <2>10, LaunchHeld
    <2>11. ASSUME Detach PROVE ValuesOK'
      BY <2>11, DetachHeld
    <2>12. ASSUME StoreFails PROVE ValuesOK'
      <3>1. PICK kept \in 0 .. Len(stack) : Caught(kept) /\ Unwind(kept)
        BY <2>12 DEF StoreFails
      <3>2. stack # <<>> /\ UNCHANGED objects
        BY <2>12 DEF StoreFails, At
      <3> QED BY <1>1, <3>1, <3>2, RaiseHeld
    <2>13. ASSUME NEW b \in Buffers, ReleaseFails(b) PROVE ValuesOK'
      BY <2>13, ReleaseFailsHeld
    <2> QED BY <1>3, <2>1, <2>2, <2>3, <2>4, <2>5, <2>6, <2>7, <2>8, <2>9, <2>10, <2>11,
               <2>12, <2>13 DEF Step
  <1>4. CASE Collect
    BY <1>4, CollectHeld
  <1>5. CASE UNCHANGED vars
    BY <1>5 DEF ValuesOK, PlacesOK
  <1> QED BY <1>2, <1>3, <1>4, <1>5 DEF Next

\* The invariant always holds.
LEMMA ValuesAlwaysOK == Spec => []ValuesOK
  BY InitValues, ValuesKeep, BooksAlwaysKept, PTL DEF Spec

\* [Execution.InputsResident] Whatever is restored, evicted or allocated on the
\* way, a kernel or the evaluator finds all its inputs in memory.
THEOREM InputsAlwaysResident == Spec => []InputsResident
  <1>1. BInv /\ ValuesOK => InputsResident
    <2> SUFFICES ASSUME BInv, ValuesOK, stack # <<>>, Top.kind = "realize",
                        Top.pc \in {"apply", "launch"}, NEW v \in Top.vals \ {Top.self}
                 PROVE  buf[v] # NoBuffer \/ (operands[v] # {} /\ ~spilled[v])
      BY DEF InputsResident
    <2>1. FrameHolds(Top, inside, alive \ garbage, spilled, buf)
          /\ (v \in Top.todo \/ ~spilled[v])
      BY TopHeld DEF BInv
    <2>2. v \in alive /\ ~spilled[v]
      BY <2>1 DEF FrameHolds
    <2> QED BY <2>2 DEF ValuesOK, PlacesOK
  <1> QED BY <1>1, BooksAlwaysKept, ValuesAlwaysOK, PTL

-----------------------------------------------------------------------------
(* Who loses an allocation.                                                *)

\* Only the end of a spill takes the allocation of a live Tensor away.
LEMMA OnlyDetach ==
  ASSUME BInv, Next, NEW t \in alive \cap alive', buf[t] # NoBuffer, buf'[t] = NoBuffer
  PROVE  Detach /\ t = Top.self
  <1>1. /\ TypeOK /\ StackOK /\ t \in Tensors /\ buf \in [Tensors -> Buffers \cup {NoBuffer}]
        /\ \A b \in Buffers : b # NoBuffer
    BY NoBufferAssumption DEF BInv, TypeOK
  <1>2. ~ UNCHANGED buf
    OBVIOUS
  <1>3. ASSUME NEW T, NEW F, Finalize(T, F) PROVE FALSE
    <2>1. t \notin T /\ buf' = Forget(buf, T, NoBuffer)
      BY <1>3 DEF Finalize
    <2> QED BY <1>1, <2>1 DEF Forget
  <1>4. ASSUME NEW u \in Tensors, NEW b, b # NoBuffer, buf' = [buf EXCEPT ![u] = b] PROVE FALSE
    BY <1>1, <1>4
  <1>5. CASE Program
    <2>1. ASSUME NEW u \in Tensors, NEW base \in Tensors, CreateView(u, base) PROVE FALSE
      <3>1. buf[base] # NoBuffer /\ buf' = [buf EXCEPT ![u] = buf[base]]
        BY <2>1 DEF CreateView
      <3> QED BY <1>4, <3>1
    <2>2. ASSUME NEW u \in Tensors, Drop(u) PROVE FALSE
      BY <1>3, <2>2 DEF Drop
    <2> QED BY <1>2, <1>5, <2>1, <2>2
            DEF Program, Enter, Exit, BeginCreate, BeginSpill, BeginRealize, LoseInCycle, CreateLazy
  <1>6. CASE Step
    <2>1. ASSUME stack # <<>>, Raise PROVE FALSE
      BY <1>2, <2>1 DEF Raise
    <2>2. ASSUME stack # <<>>, NEW b \in Buffers, buf' = [buf EXCEPT ![Top.self] = b] PROVE FALSE
      BY <1>1, <1>4, <2>2, TopWell
    <2>3. ASSUME NEW b \in Buffers,
                 \/ FinishCreate(b) \/ Reload(b) \/ ReleaseFails(b)
                 \/ Evaluate(b) \/ AllocateOutput(b)
          PROVE  FALSE
      BY <2>2, <2>3
         DEF FinishCreate, Reload, ReleaseFails, ReadBack, Evaluate, AllocateOutput, Store, At
    <2>4. ASSUME AlreadySpilled \/ OutOfMemory \/ IoFails \/ LaunchFails PROVE FALSE
      BY <2>1, <2>4 DEF AlreadySpilled, OutOfMemory, IoFails, LaunchFails, At
    <2>5. Detach
      BY <1>2, <1>6, <2>3, <2>4
         DEF Step, RestoreInput, MakeRoom, AlreadyResident, StartReserve, ReserveRead,
             ReserveCommit, StoreFails, MaterializeForSpill, Launch
    <2>6. buf' = [buf EXCEPT ![Top.self] = NoBuffer]
      BY <2>5 DEF Detach
    <2> QED BY <1>1, <2>5, <2>6
  <1>7. CASE Collect
    BY <1>3, <1>7 DEF Collect
  <1> QED BY <1>5, <1>6, <1>7 DEF Next

\* [Execution.PinnedStayResident] An eviction takes the allocation of no value
\* that an operation in progress has pinned, at any depth of nesting.
THEOREM PinnedAlwaysStayResident == Spec => PinnedStayResident
  <1> DEFINE A == \A t \in alive \cap alive' :
                    pins[t] > 0 /\ buf[t] # NoBuffer /\ buf'[t] = NoBuffer =>
                      Top.self = t /\ Top.kind \in {"spill", "evict"} /\
                      (Top.kind = "evict" => pins[t] = 1)
  <1>1. BInv /\ ValuesOK /\ [Next]_vars => [A]_vars
    <2> SUFFICES ASSUME BInv, ValuesOK, Next, NEW t \in alive \cap alive',
                        pins[t] > 0, buf[t] # NoBuffer, buf'[t] = NoBuffer
                 PROVE  /\ Top.self = t /\ Top.kind \in {"spill", "evict"}
                        /\ Top.kind = "evict" => pins[t] = 1
      OBVIOUS
    <2>1. Detach /\ t = Top.self
      BY OnlyDetach
    <2>2. /\ TypeOK /\ StackOK /\ PinsBalanced /\ t \in Tensors
          /\ stack # <<>> /\ ~InRam(Top)
      BY <2>1 DEF BInv, TypeOK, Detach, At
    <2>3. /\ Top \in Frames /\ Len(stack) \in 1 .. Len(stack)
          /\ ActivationOK(Top, inside, alive, alive \ garbage, spilled)
      BY <2>2, TopWell
    <2>4. Top.kind \in {"spill", "evict"}
      BY <2>2, <2>3 DEF InRam, Frames
    <2>5. ASSUME Top.kind = "evict" PROVE pins[t] = 1
      <3>1. inside /\ \A k \in 1 .. Len(stack) - 1 : t \notin stack[k].vals
        BY <2>1, <2>2, <2>5, TopHeld DEF FrameHolds
      <3>2. t \in stack[Len(stack)].vals
        BY <2>1, <2>3, <2>5, <3>1 DEF ActivationOK, Top
      <3>3. \A k \in 1 .. Len(stack) : k = Len(stack) \/ k \in 1 .. Len(stack) - 1
        BY <2>3
      <3>4. {i \in 1 .. Len(stack) : t \in stack[i].vals} = {Len(stack)}
        BY <2>3, <3>1, <3>2, <3>3
      <3> QED BY <2>2, <3>4, FS_Singleton DEF PinsBalanced, PinCount
    <2> QED BY <2>1, <2>4, <2>5
  <1>2. PinnedStayResident <=> [][A]_vars
    BY DEF PinnedStayResident
  <1> QED BY <1>1, <1>2, BooksAlwaysKept, ValuesAlwaysOK, PTL DEF Spec

-----------------------------------------------------------------------------
(* What becomes of a value.                                                *)

\* A Tensor has its whole value, or can compute it.
Whole(t) ==
  \/ IsLazy(t)
  \/ buf[t] # NoBuffer /\ bdata[buf[t]] = Pages
  \/ buf[t] = NoBuffer /\ spilled[t] /\ fdata[t] = Pages

\* Only the output of a kernel in flight is incomplete, and it is on top.
LEMMA WholeUnlessLaunched ==
  ASSUME TypeOK, StackOK, NoValueLost, NEW t \in alive
  PROVE  Whole(t) \/ (stack # <<>> /\ Top.pc = "launch" /\ Top.self = t)
  <1> SUFFICES ASSUME ~Whole(t) PROVE stack # <<>> /\ Top.pc = "launch" /\ Top.self = t
    OBVIOUS
  <1>1. PICK i \in 1 .. Len(stack) : stack[i].self = t /\ stack[i].pc = "launch"
    BY DEF NoValueLost, Whole
  <1>2. stack # <<>> /\ Len(stack) \in Nat
    BY <1>1, LenProperties, EmptySeq DEF TypeOK
  <1>3. \A k \in 1 .. Len(stack) - 1 : Waits(stack[k])
    BY DEF StackOK, WellStacked
  <1>4. i = Len(stack)
    BY <1>1, <1>2, <1>3 DEF Waits
  <1> QED BY <1>1, <1>2, <1>4 DEF Top

\* A step that leaves the objects alone loses nothing.
LEMMA StillWhole ==
  ASSUME TypeOK, StackOK, NoValueLost, stack = <<>> \/ Top.pc # "launch", UNCHANGED objects
  PROVE  NoValueLost'
  <1> SUFFICES ASSUME NEW t \in alive
               PROVE  \/ IsLazy(t)'
                      \/ buf'[t] # NoBuffer /\ bdata'[buf'[t]] = Pages
                      \/ buf'[t] = NoBuffer /\ spilled'[t] /\ fdata'[t] = Pages
    BY DEF NoValueLost
  <1>1. Whole(t)
    BY WholeUnlessLaunched
  <1> QED BY <1>1 DEF Whole, IsLazy

\* The allocation of a Tensor is open, hence neither free nor an orphan of others.
LEMMA HeldOpen ==
  ASSUME TypeOK, NEW t \in alive, buf[t] # NoBuffer
  PROVE  /\ buf[t] \in Buffers /\ buf[t] \in Open /\ buf[t] \notin Free
         /\ \A T : t \notin T => buf[t] \notin Orphans(T)
  <1>1. buf[t] \in Buffers
    BY DEF TypeOK
  <1> QED BY <1>1 DEF Open, Free, Orphans

\* Finalizing objects loses no value of the others.
LEMMA FinalizeWhole ==
  ASSUME TypeOK, NEW T, NEW F, Finalize(T, F), NEW t \in alive', Whole(t)
  PROVE  Whole(t)'
  <1>1. /\ t \in alive /\ t \notin T /\ t \in Tensors
        /\ buf' = Forget(buf, T, NoBuffer) /\ spilled' = Forget(spilled, T, FALSE)
        /\ operands' = Forget(operands, T, {}) /\ fdata' = Forget(fdata, T, {})
        /\ bdata' = Forget(bdata, Orphans(T), {})
    BY DEF Finalize, TypeOK
  <1>2. buf'[t] = buf[t] /\ spilled'[t] = spilled[t] /\ operands'[t] = operands[t] /\ fdata'[t] = fdata[t]
    BY <1>1 DEF Forget, TypeOK
  <1>3. buf[t] # NoBuffer => bdata'[buf[t]] = bdata[buf[t]]
    <2> SUFFICES ASSUME buf[t] # NoBuffer PROVE bdata'[buf[t]] = bdata[buf[t]]
      OBVIOUS
    <2>1. buf[t] \in Buffers /\ buf[t] \notin Orphans(T)
      BY <1>1, HeldOpen
    <2> QED BY <1>1, <2>1 DEF Forget, TypeOK
  <1> QED BY <1>2, <1>3 DEF Whole, IsLazy

\* Nor does the collector, whatever is in progress.
LEMMA CollectWhole ==
  ASSUME TypeOK, StackOK, NoValueLost, Collect
  PROVE  NoValueLost'
  <1>1. PICK F \in SUBSET garbage : Finalize(garbage, F)
    BY DEF Collect
  <1>2. UNCHANGED stack /\ alive' \subseteq alive
    BY <1>1 DEF Finalize
  <1>3. ASSUME NEW t \in alive'
        PROVE  Whole(t)' \/ \E i \in 1 .. Len(stack) : stack[i].self = t /\ stack[i].pc = "launch"
    <2>1. t \in alive
      BY <1>2
    <2>2. Whole(t) \/ \E i \in 1 .. Len(stack) : stack[i].self = t /\ stack[i].pc = "launch"
      BY <2>1 DEF NoValueLost, Whole
    <2> QED BY <1>1, <2>2, FinalizeWhole
  <1> QED BY <1>2, <1>3 DEF NoValueLost, Whole

\* Between operations every value is whole.
LEMMA IdleWhole ==
  ASSUME TypeOK, StackOK, ObjectsOK, NoValueLost, NEW u \in Tensors,
         \/ LoseInCycle(u) \/ Drop(u)
         \/ \E ops \in SUBSET Tensors : CreateLazy(u, ops)
         \/ \E base \in Tensors : CreateView(u, base)
  PROVE  NoValueLost'
  <1>1. stack = <<>>
    BY DEF LoseInCycle, Drop, CreateLazy, CreateView
  <1>2. \A t \in alive : Whole(t)
    BY <1>1, WholeUnlessLaunched
  <1>3. ASSUME NEW t \in alive' PROVE Whole(t)'
    <2>1. CASE LoseInCycle(u)
      <3>1. t \in alive /\ UNCHANGED <<operands, buf, spilled, bdata, fdata>>
        BY <2>1 DEF LoseInCycle
      <3> QED BY <1>2, <3>1 DEF Whole, IsLazy
    <2>2. CASE Drop(u)
      <3>1. PICK F \in SUBSET {u} : Finalize({u}, F)
        BY <2>2 DEF Drop
      <3>2. t \in alive
        BY <3>1 DEF Finalize
      <3> QED BY <1>2, <3>1, <3>2, FinalizeWhole
    <2>3. ASSUME NEW ops \in SUBSET Tensors, CreateLazy(u, ops) PROVE Whole(t)'
      <3>1. /\ ops # {} /\ operands' = [operands EXCEPT ![u] = ops] /\ alive' = alive \cup {u}
            /\ u \notin alive /\ UNCHANGED <<buf, spilled, bdata, fdata>>
        BY <2>3 DEF CreateLazy
      <3>2. operands \in [Tensors -> SUBSET Tensors] /\ alive \subseteq Tensors
        BY DEF TypeOK
      <3>5. buf[u] = NoBuffer /\ ~spilled[u]
        BY <3>1 DEF ObjectsOK
      <3>3. CASE t = u
        <4>1. operands'[u] # {}
          BY <3>1, <3>2
        <4> QED BY <3>1, <3>3, <4>1, <3>5 DEF Whole, IsLazy
      <3>4. CASE t # u
        <4>1. t \in alive /\ operands'[t] = operands[t]
          BY <3>1, <3>2, <3>4
        <4> QED BY <1>2, <3>1, <4>1 DEF Whole, IsLazy
      <3> QED BY <3>3, <3>4
    <2>4. ASSUME NEW base \in Tensors, CreateView(u, base) PROVE Whole(t)'
      <3>1. /\ base \in alive /\ buf[base] # NoBuffer /\ operands' = [operands EXCEPT ![u] = {base}]
            /\ buf' = [buf EXCEPT ![u] = buf[base]] /\ alive' = alive \cup {u} /\ u \notin alive
            /\ UNCHANGED <<spilled, bdata, fdata>>
        BY <2>4 DEF CreateView
      <3>2. /\ operands \in [Tensors -> SUBSET Tensors] /\ alive \subseteq Tensors
            /\ buf \in [Tensors -> Buffers \cup {NoBuffer}]
        BY DEF TypeOK
      <3>3. CASE t = u
        <4>1. buf'[t] = buf[base] /\ bdata[buf[base]] = Pages
          BY <1>2, <3>1, <3>2, <3>3 DEF Whole, IsLazy
        <4> QED BY <3>1, <4>1 DEF Whole
      <3>4. CASE t # u
        <4>1. t \in alive /\ operands'[t] = operands[t] /\ buf'[t] = buf[t]
          BY <3>1, <3>2, <3>4
        <4> QED BY <1>2, <3>1, <4>1 DEF Whole, IsLazy
      <3> QED BY <3>3, <3>4
    <2> QED BY <2>1, <2>2, <2>3, <2>4
  <1> QED BY <1>3 DEF NoValueLost, Whole

\* Storing a fresh allocation touches no other value.
LEMMA StoreWhole ==
  ASSUME TypeOK, NEW b \in Free, NEW data, Top.self \in Tensors, Store(b, data),
         UNCHANGED operands,
         \A t \in Tensors : t # Top.self => spilled'[t] = spilled[t] /\ fdata'[t] = fdata[t]
  PROVE  /\ buf'[Top.self] = b /\ b # NoBuffer /\ bdata'[b] = data
         /\ \A t \in alive : t # Top.self /\ Whole(t) => Whole(t)'
  <1> DEFINE old == {buf[Top.self]} \cap Orphans({Top.self})
  <1>1. /\ b \in Buffers /\ b # NoBuffer /\ buf \in [Tensors -> Buffers \cup {NoBuffer}]
        /\ bdata \in [Buffers -> SUBSET Pages] /\ alive \subseteq Tensors
        /\ buf' = [buf EXCEPT ![Top.self] = b]
        /\ bdata' = [Forget(bdata, old, {}) EXCEPT ![b] = data]
    BY NoBufferAssumption DEF TypeOK, Free, Store
  <1>2. old \subseteq Orphans({Top.self})
    OBVIOUS
  <1> HIDE DEF old
  <1>3. bdata'[b] = data /\ \A c \in Buffers : c # b /\ c \notin old => bdata'[c] = bdata[c]
    BY <1>1 DEF Forget
  <1>4. ASSUME NEW t \in alive, t # Top.self, Whole(t) PROVE Whole(t)'
    <2>1. buf'[t] = buf[t] /\ spilled'[t] = spilled[t] /\ fdata'[t] = fdata[t]
      BY <1>1, <1>4
    <2>2. buf[t] # NoBuffer => bdata'[buf[t]] = bdata[buf[t]]
      <3> SUFFICES ASSUME buf[t] # NoBuffer PROVE bdata'[buf[t]] = bdata[buf[t]]
        OBVIOUS
      <3>1. buf[t] \in Buffers /\ buf[t] # b /\ buf[t] \notin Orphans({Top.self})
        BY <1>4, HeldOpen
      <3> QED BY <1>2, <1>3, <3>1
    <2> QED BY <1>4, <2>1, <2>2 DEF Whole, IsLazy
  <1> QED BY <1>1, <1>3, <1>4

\* Reading a file back, whatever becomes of the file, and evaluating complete a value.
LEMMA ReloadWhole ==
  ASSUME BInv, ValuesOK, NoValueLost, NEW b \in Buffers, ReadBack(b) \/ Evaluate(b)
  PROVE  NoValueLost'
  <1> DEFINE data == IF ReadBack(b) THEN fdata[Top.self]
                     ELSE IF buf[Top.self] = NoBuffer THEN Pages ELSE bdata[buf[Top.self]]
  <1>1. TypeOK /\ StackOK /\ PlacesOK
    BY DEF BInv, ValuesOK
  <1>2. /\ stack # <<>> /\ Top.pc = "apply" /\ Top.kind = "realize" /\ b \in Free
        /\ alive' = alive /\ UNCHANGED operands
    BY DEF ReadBack, Evaluate, At
  <1>3. Top.self \in alive /\ Top.self \in Tensors
    BY <1>1, <1>2, TopWell DEF ActivationOK
  <1>4. \A t \in alive : Whole(t)
    BY <1>1, <1>2, WholeUnlessLaunched
  <1>5. data = Pages
    <2>1. CASE ReadBack(b)
      <3>1. spilled[Top.self] /\ buf[Top.self] = NoBuffer
        BY <1>1, <1>3, <2>1 DEF ReadBack, PlacesOK
      <3> QED BY <1>3, <1>4, <2>1, <3>1 DEF Whole, IsLazy
    <2>2. CASE ~ReadBack(b)
      BY <1>3, <1>4, <2>2 DEF Whole, IsLazy
    <2> QED BY <2>1, <2>2
  <1>6. Store(b, data)
    <2>1. ReadBack(b) => Store(b, fdata[Top.self])
      BY DEF ReadBack
    <2>2. ~ReadBack(b) => Store(b, IF buf[Top.self] = NoBuffer THEN Pages ELSE bdata[buf[Top.self]])
      BY DEF Evaluate
    <2> QED BY <2>1, <2>2
  <1> HIDE DEF data
  <1>7. \A t \in Tensors : t # Top.self => spilled'[t] = spilled[t] /\ fdata'[t] = fdata[t]
    <2>1. CASE ReadBack(b)
      BY <1>1, <2>1 DEF ReadBack, Forget, TypeOK
    <2>2. CASE Evaluate(b)
      BY <2>2 DEF Evaluate
    <2> QED BY <2>1, <2>2
  <1>8. /\ buf'[Top.self] = b /\ b # NoBuffer /\ bdata'[b] = data
        /\ \A t \in alive : t # Top.self /\ Whole(t) => Whole(t)'
    BY <1>1, <1>2, <1>3, <1>6, <1>7, StoreWhole
  <1>9. \A t \in alive' : Whole(t)'
    BY <1>2, <1>4, <1>5, <1>8 DEF Whole
  <1> QED BY <1>9 DEF NoValueLost, Whole

\* A new leaf is complete.
LEMMA FinishCreateWhole ==
  ASSUME BInv, NoValueLost, NEW b \in Buffers, FinishCreate(b)
  PROVE  NoValueLost'
  <1>1. TypeOK /\ StackOK
    BY DEF BInv
  <1>2. /\ stack # <<>> /\ Top.pc = "apply" /\ b \in Free /\ alive' = alive \cup {Top.self}
        /\ buf' = [buf EXCEPT ![Top.self] = b] /\ bdata' = [bdata EXCEPT ![b] = Pages]
        /\ UNCHANGED <<operands, spilled, fdata>> /\ Top.kind = "create"
    BY DEF FinishCreate, At
  <1>3. /\ Top.self \in Tensors \ alive /\ b # NoBuffer /\ alive \subseteq Tensors
        /\ buf \in [Tensors -> Buffers \cup {NoBuffer}] /\ bdata \in [Buffers -> SUBSET Pages]
    BY <1>1, <1>2, TopWell, NoBufferAssumption DEF ActivationOK, TypeOK
  <1>4. \A t \in alive : Whole(t)
    BY <1>1, <1>2, WholeUnlessLaunched
  <1>5. ASSUME NEW t \in alive' PROVE Whole(t)'
    <2>1. CASE t = Top.self
      BY <1>2, <1>3, <2>1 DEF Whole
    <2>2. CASE t # Top.self
      <3>1. t \in alive /\ buf'[t] = buf[t]
        BY <1>2, <1>3, <2>2
      <3>2. buf[t] # NoBuffer => buf[t] \in Buffers /\ buf[t] # b
        BY <1>1, <1>2, <3>1, HeldOpen
      <3>3. buf[t] # NoBuffer => bdata'[buf[t]] = bdata[buf[t]]
        BY <1>2, <1>3, <3>2
      <3> QED BY <1>2, <1>4, <3>1, <3>3 DEF Whole, IsLazy
    <2> QED BY <2>1, <2>2
  <1> QED BY <1>5 DEF NoValueLost, Whole

\* The output of a kernel is incomplete only while the kernel runs ...
LEMMA AllocateOutputWhole ==
  ASSUME BInv, NoValueLost, NEW b \in Buffers, AllocateOutput(b)
  PROVE  NoValueLost'
  <1> DEFINE f == [Top EXCEPT !.pc = "launch"]
  <1>1. TypeOK /\ StackOK
    BY DEF BInv
  <1>2. /\ stack # <<>> /\ Top.pc = "apply" /\ b \in Free /\ Store(b, {})
        /\ stack' = [stack EXCEPT ![Len(stack)] = f]
        /\ UNCHANGED <<alive, operands, spilled, fdata>>
    BY DEF AllocateOutput, At, Goto, Top
  <1>3. /\ Top.self \in Tensors /\ f \in Frames /\ f.self = Top.self /\ f.pc = "launch"
        /\ Len(stack) \in 1 .. Len(stack)
    BY <1>1, <1>2, TopWell DEF Frames
  <1> HIDE DEF f
  <1>4. Len(stack') = Len(stack) /\ stack'[Len(stack)] = f
    BY <1>1, <1>2, <1>3, ExceptSeq DEF TypeOK
  <1>5. \A t \in alive : Whole(t)
    BY <1>1, <1>2, WholeUnlessLaunched
  <1>6. \A t \in alive : t # Top.self => Whole(t)'
    BY <1>1, <1>2, <1>3, <1>5, StoreWhole
  <1>7. \A t \in alive' :
          Whole(t)' \/ \E i \in 1 .. Len(stack') : stack'[i].self = t /\ stack'[i].pc = "launch"
    BY <1>2, <1>3, <1>4, <1>6
  <1> QED BY <1>7 DEF NoValueLost, Whole

\* ... and is complete at its end.
LEMMA LaunchWhole ==
  ASSUME BInv, ValuesOK, NoValueLost, Launch
  PROVE  NoValueLost'
  <1>1. TypeOK /\ StackOK
    BY DEF BInv
  <1>2. /\ stack # <<>> /\ Top.pc = "launch" /\ bdata' = [bdata EXCEPT ![buf[Top.self]] = Pages]
        /\ UNCHANGED <<alive, operands, buf, spilled, fdata>>
    BY DEF Launch, At
  <1>3. /\ Top.self \in Tensors /\ buf[Top.self] \in Buffers /\ buf[Top.self] # NoBuffer
        /\ bdata \in [Buffers -> SUBSET Pages]
    <2>1. Top.self \in Tensors /\ buf[Top.self] # NoBuffer
      BY <1>1, <1>2, TopWell, TopHeld DEF FrameHolds
    <2> QED BY <1>1, <2>1 DEF TypeOK
  <1>4. \A c : c \in Buffers => bdata'[c] = bdata[c] \/ bdata'[c] = Pages
    BY <1>2, <1>3
  <1>5. ASSUME NEW t \in alive' PROVE Whole(t)'
    <2>1. CASE t = Top.self
      BY <1>2, <1>3, <2>1 DEF Whole
    <2>2. CASE t # Top.self
      <3>1. t \in alive /\ Whole(t)
        BY <1>1, <1>2, <2>2, WholeUnlessLaunched
      <3>2. buf[t] # NoBuffer => buf[t] \in Buffers
        BY <1>1, <3>1, HeldOpen
      <3> QED BY <1>2, <1>4, <3>1, <3>2 DEF Whole, IsLazy
    <2> QED BY <2>1, <2>2
  <1> QED BY <1>5 DEF NoValueLost, Whole

\* A spill moves the value to the file before letting go of the allocation.
LEMMA DetachWhole ==
  ASSUME BInv, NoValueLost, Detach
  PROVE  NoValueLost'
  <1> DEFINE freed == {buf[Top.self]} \cap Orphans({Top.self})
  <1>1. TypeOK /\ StackOK
    BY DEF BInv
  <1>2. /\ stack # <<>> /\ Top.pc = "apply" /\ ~InRam(Top) /\ buf[Top.self] # NoBuffer
        /\ spilled' = [spilled EXCEPT ![Top.self] = TRUE]
        /\ fdata' = [fdata EXCEPT ![Top.self] = bdata[buf[Top.self]]]
        /\ buf' = [buf EXCEPT ![Top.self] = NoBuffer]
        /\ bdata' = Forget(bdata, freed, {})
        /\ UNCHANGED <<alive, operands>>
    BY DEF Detach, At
  <1>3. /\ Top.self \in Tensors /\ Top.self \in alive /\ alive \subseteq Tensors
        /\ spilled \in [Tensors -> BOOLEAN] /\ fdata \in [Tensors -> SUBSET Pages]
        /\ buf \in [Tensors -> Buffers \cup {NoBuffer}] /\ bdata \in [Buffers -> SUBSET Pages]
    BY <1>1, <1>2, TopWell DEF ActivationOK, InRam, TypeOK
  <1>4. freed \subseteq Orphans({Top.self})
    OBVIOUS
  <1> HIDE DEF freed
  <1>5. \A t \in alive : Whole(t)
    BY <1>1, <1>2, WholeUnlessLaunched
  <1>6. ASSUME NEW t \in alive' PROVE Whole(t)'
    <2>1. CASE t = Top.self
      <3>1. bdata[buf[Top.self]] = Pages
        BY <1>2, <1>3, <1>5 DEF Whole, IsLazy
      <3>2. buf'[t] = NoBuffer /\ spilled'[t] /\ fdata'[t] = Pages
        BY <1>2, <1>3, <2>1, <3>1
      <3> QED BY <3>2 DEF Whole
    <2>2. CASE t # Top.self
      <3>1. /\ t \in alive /\ Whole(t) /\ buf'[t] = buf[t] /\ spilled'[t] = spilled[t]
            /\ fdata'[t] = fdata[t]
        BY <1>2, <1>3, <1>5, <2>2
      <3>2. buf[t] # NoBuffer => bdata'[buf[t]] = bdata[buf[t]]
        <4> SUFFICES ASSUME buf[t] # NoBuffer PROVE bdata'[buf[t]] = bdata[buf[t]]
          OBVIOUS
        <4>1. buf[t] \in Buffers /\ buf[t] \notin Orphans({Top.self})
          BY <1>1, <2>2, <3>1, HeldOpen
        <4> QED BY <1>2, <1>3, <1>4, <4>1 DEF Forget
      <3> QED BY <1>2, <3>1, <3>2 DEF Whole, IsLazy
    <2> QED BY <2>1, <2>2
  <1> QED BY <1>6 DEF NoValueLost, Whole

\* No step loses a value.
LEMMA WholeKeep ==
  ASSUME ~LaunchMayFail, BInv, ValuesOK, NoValueLost, [Next]_vars
  PROVE  NoValueLost'
  <1>1. TypeOK /\ StackOK
    BY DEF BInv
  <1>2. CASE Program
    <2>1. ASSUME \/ Enter \/ Exit
                 \/ \E t \in Tensors : \/ BeginCreate(t) \/ BeginSpill(t)
                                       \/ \E native \in BOOLEAN : BeginRealize(t, native)
          PROVE  NoValueLost'
      <3>1. stack = <<>> /\ UNCHANGED objects
        BY <2>1 DEF Enter, Exit, BeginCreate, BeginSpill, BeginRealize
      <3> QED BY <1>1, <3>1, StillWhole
    <2>2. ASSUME NEW t \in Tensors,
                 \/ LoseInCycle(t) \/ Drop(t)
                 \/ \E ops \in SUBSET Tensors : CreateLazy(t, ops)
                 \/ \E base \in Tensors : CreateView(t, base)
          PROVE  NoValueLost'
      BY <1>1, <2>2, IdleWhole DEF BInv
    <2> QED BY <1>2, <2>1, <2>2 DEF Program
  <1>3. CASE Step
    <2>1. ASSUME stack # <<>>, Top.pc # "launch", UNCHANGED objects PROVE NoValueLost'
      BY <1>1, <2>1, StillWhole
    <2>2. ASSUME AlreadySpilled \/ OutOfMemory \/ IoFails PROVE NoValueLost'
      <3>1. stack # <<>> /\ Top.pc # "launch" /\ Raise
        BY <2>2 DEF AlreadySpilled, OutOfMemory, IoFails, At
      <3> QED BY <2>1, <3>1 DEF Raise
    <2>3. ASSUME NEW v \in Tensors, RestoreInput(v) \/ MakeRoom(v) PROVE NoValueLost'
      BY <2>1, <2>3 DEF RestoreInput, MakeRoom, At
    <2>4. ASSUME \/ AlreadyResident \/ StartReserve \/ ReserveRead
                 \/ ReserveCommit \/ StoreFails
          PROVE  NoValueLost'
      BY <2>1, <2>4
         DEF AlreadyResident, StartReserve, ReserveRead, ReserveCommit, StoreFails, At
    <2>5. ASSUME NEW b \in Buffers,
                 \/ FinishCreate(b) \/ Reload(b) \/ ReleaseFails(b)
                 \/ Evaluate(b) \/ AllocateOutput(b)
          PROVE  NoValueLost'
      <3>1. Reload(b) \/ ReleaseFails(b) => ReadBack(b)
        BY DEF Reload, ReleaseFails
      <3> QED BY <2>5, <3>1, FinishCreateWhole, ReloadWhole, AllocateOutputWhole
    <2>6. ASSUME NEW native \in BOOLEAN, MaterializeForSpill(native) PROVE NoValueLost'
      BY <2>1, <2>6 DEF MaterializeForSpill, At
    <2>7. ASSUME Launch \/ Detach PROVE NoValueLost'
      BY <2>7, LaunchWhole, DetachWhole
    <2>8. ~LaunchFails
      BY DEF LaunchFails
    <2> QED BY <1>3, <2>2, <2>3, <2>4, <2>5, <2>6, <2>7, <2>8 DEF Step
  <1>4. CASE Collect
    BY <1>1, <1>4, CollectWhole
  <1>5. CASE UNCHANGED vars
    <2>1. UNCHANGED <<alive, operands, buf, spilled, bdata, fdata, stack>>
      BY <1>5
    <2> QED BY <2>1 DEF NoValueLost, IsLazy
  <1> QED BY <1>2, <1>3, <1>4, <1>5 DEF Next

\* [Execution.NoValueLost] When no kernel fails, a value that was materialized
\* survives every eviction, restoration, failure of a transfer or an allocation,
\* fallback and finalization: it is complete in memory or in its file.
THEOREM ValuesNeverLost ==
  ASSUME ~LaunchMayFail PROVE Spec => []NoValueLost
  <1>1. Init => NoValueLost
    BY DEF Init, NoValueLost
  <1>2. BInv /\ ValuesOK /\ NoValueLost /\ [Next]_vars => NoValueLost'
    BY WholeKeep
  <1> QED BY <1>1, <1>2, BooksAlwaysKept, ValuesAlwaysOK, PTL DEF Spec

=============================================================================
