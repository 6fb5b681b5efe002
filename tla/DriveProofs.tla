---------------------------- MODULE DriveProofs ----------------------------
(***************************************************************************)
(* Proofs about Drive, for any width of the offsets, any set of drives and *)
(* any driver: what erase_device has done when it reports success, and why *)
(* its loop ends.                                                          *)
(***************************************************************************)
EXTENDS Drive, TLAPS

\* Truncation to u32 is the identity on u32, and takes one Modulus off sums.
LEMMA U32Range ==
    \A n \in Int :
        /\ U32(n) \in 0 .. Modulus - 1
        /\ n \in 0 .. Modulus - 1 => U32(n) = n
  BY ModulusAssumption DEF U32

LEMMA CapacityNat == \A d \in Geometries : Capacity(d) \in Nat
<1> SUFFICES ASSUME NEW d \in Geometries PROVE Capacity(d) \in Nat
  OBVIOUS
<1>1. d.num_write_blocks \in Nat /\ d.write_block_size \in Nat
  BY GeometriesAssumption, ModulusAssumption
<1>2. \A m, n \in Nat : m * n \in Nat
  OBVIOUS
<1> QED
  BY <1>1, <1>2 DEF Capacity

\* The size of a drive that fits is its capacity.
LEMMA SizeExact ==
    \A d \in Geometries : Capacity(d) < Modulus => Size(d) = Capacity(d)
  BY CapacityNat, U32Range, ModulusAssumption DEF Size, Capacity

-----------------------------------------------------------------------------
LEMMA InitIInv == Init => IInv
  BY ModulusAssumption
  DEF Init, IInv, TypeOK, PrefixErased, RestsBetweenCommands, RightWay, Looping,
      Fresh, Failed

\* A command that is taken extends the erased prefix, or passes its end.
LEMMA EraseNextIInv ==
  ASSUME IInv, EraseNext
  PROVE  IInv'
<1> USE DEF IInv
<1>1. /\ pc = "loop" /\ pc' = "is_busy"
      /\ UNCHANGED <<info, drive, erased>>
      /\ address' = U32(address + ctx')
  BY DEF EraseNext, NotTaken, Taken, deviceVars
<1>2. CASE NotTaken
  <2>1. ctx' = Failed /\ UNCHANGED pending
    BY <1>2 DEF NotTaken, deviceVars
  <2>2. address' \in 0 .. Modulus - 1
    BY <1>1, <2>1, U32Range DEF TypeOK, Failed
  <2>3. TypeOK'
    BY <1>1, <2>1, <2>2 DEF TypeOK, Failed
  <2> QED
    BY <1>1, <2>1, <2>3
    DEF PrefixErased, RestsBetweenCommands, RightWay, IsError, Failed
<1>3. ASSUME NEW n \in EraseCounts, Taken(address .. address + n - 1, n)
      PROVE  IInv'
  <2>1. /\ ~IsError(ctx) /\ ctx' = n
        /\ pending' = pending \cup ((address .. address + n - 1) \cap Contents(drive))
    BY <1>3 DEF Taken
  <2>2. n \in 0 .. Modulus - 1 /\ address \in 0 .. Modulus - 1
    BY EraseCountsAssumption DEF TypeOK
  <2>3. address' \in 0 .. Modulus - 1
    BY <1>1, <2>1, <2>2, U32Range, ModulusAssumption
  <2>4. TypeOK'
    BY <1>1, <2>1, <2>2, <2>3, ModulusAssumption DEF TypeOK, Failed
  <2>5. info = drive
    BY <1>1, <2>1 DEF PrefixErased, Looping
  <2>6. ASSUME Capacity(drive) < Modulus,
               NEW b \in Contents(drive), b < address'
        PROVE  b \in erased \cup pending'
    <3>1. b \in Nat /\ b < Modulus
      BY <2>6, CapacityNat, ModulusAssumption DEF Contents, TypeOK
    <3>2. CASE b < address
      BY <1>1, <2>1, <2>6, <3>2 DEF PrefixErased, Looping
    <3>3. CASE ~(b < address)
      <4>1. b < address + n
        <5>1. CASE address + n < Modulus
          BY <1>1, <2>1, <2>2, <2>6, <5>1, U32Range, ModulusAssumption
        <5>2. CASE ~(address + n < Modulus)
          BY <2>2, <3>1, <5>2, ModulusAssumption
        <5> QED
          BY <5>1, <5>2
      <4>2. b \in address .. address + n - 1
        BY <2>2, <3>1, <3>3, <4>1, ModulusAssumption
      <4> QED
        BY <2>1, <2>6, <4>2
    <3> QED
      BY <3>2, <3>3
  <2>7. PrefixErased'
    BY <1>1, <2>5, <2>6 DEF PrefixErased, Contents, Capacity
  <2>8. RestsBetweenCommands'
    BY <1>1 DEF RestsBetweenCommands
  <2>9. RightWay'
    BY <1>1, <2>1 DEF RightWay, Looping
  <2> QED
    BY <2>4, <2>7, <2>8, <2>9
<1> QED
  BY <1>2, <1>3 DEF EraseNext

LEMMA CallStepIInv ==
  ASSUME IInv, CallStep
  PROVE  IInv'
<1> USE DEF IInv, TypeOK, PrefixErased, RestsBetweenCommands, RightWay, Looping,
        deviceVars
<1>1. CASE GetInfo
  BY <1>1, ModulusAssumption, CapacityNat
  DEF GetInfo, IsError, Fresh, Failed, Contents
<1>2. CASE EraseAll
  BY <1>2, ModulusAssumption DEF EraseAll, NotTaken, Taken, Fresh, Failed
<1>3. CASE StillBusy
  BY <1>3 DEF StillBusy, IsError, Failed
<1>4. CASE NotBusy
  BY <1>4 DEF NotBusy, IsError, Fresh, Failed
<1>5. CASE Wait
  BY <1>5 DEF Wait
<1>6. CASE EraseDeviceDone
  BY <1>6 DEF EraseDeviceDone
<1> QED
  BY <1>1, <1>2, <1>3, <1>4, <1>5, <1>6, EraseNextIInv DEF CallStep

LEMMA NextIInv == IInv /\ [Next]_vars => IInv'
<1> SUFFICES ASSUME IInv, [Next]_vars PROVE IInv'
  OBVIOUS
<1> USE DEF IInv, TypeOK, PrefixErased, RestsBetweenCommands, RightWay, Looping,
        deviceVars
<1>1. CASE EraseDevice
  BY <1>1 DEF EraseDevice
<1>2. CASE erase_blocks \/ set_attributes
  BY <1>2, ModulusAssumption
  DEF erase_blocks, set_attributes, NotTaken, Taken, Fresh, Failed
<1>3. CASE Protection \/ ResetError
  BY <1>3 DEF Protection, ResetError, After, Fresh, Failed
<1>4. CASE FinishErase
  BY <1>4 DEF FinishErase
<1>5. CASE UNCHANGED vars
  BY <1>5 DEF vars
<1> QED
  BY <1>1, <1>2, <1>3, <1>4, <1>5, CallStepIInv DEF Next

-----------------------------------------------------------------------------
\* IInv holds in every reachable state.
THEOREM Invariance == Spec => []IInv
  BY InitIInv, NextIInv, PTL DEF Spec

\* The types, and that the offset stays a u32 (TypeOK).
THEOREM TypeCorrect == Spec => []TypeOK
<1>1. IInv => TypeOK
  BY DEF IInv
<1> QED
  BY <1>1, Invariance, PTL

\* No command follows another before the drive has come to rest
\* (RestsBetweenCommands).
THEOREM NoCommandWhileBusy == Spec => []RestsBetweenCommands
<1>1. IInv => RestsBetweenCommands
  BY DEF IInv
<1> QED
  BY <1>1, Invariance, PTL

\* What lies below the offset of the loop is erased or being erased
\* (PrefixErased), also when the offset has wrapped around.
THEOREM PrefixIsErased == Spec => []PrefixErased
<1>1. IInv => PrefixErased
  BY DEF IInv
<1> QED
  BY <1>1, Invariance, PTL

-----------------------------------------------------------------------------
(***************************************************************************)
(* What the success of erase_device means.                                 *)
(***************************************************************************)

\* The loop ends at the end of the drive.
LEMMA LoopSuccess ==
  ASSUME IInv, EraseDeviceDone, ~IsError(ctx')
  PROVE  /\ ~drive.erase_device
         /\ Capacity(drive) < Modulus =>
                erased' = Contents(drive) /\ pending' = {}
<1>1. /\ pc = "loop" /\ address >= Size(info) /\ ~IsError(ctx)
      /\ UNCHANGED <<pending, erased>>
  BY DEF EraseDeviceDone, deviceVars
<1>2. /\ drive \in Geometries /\ info = drive
      /\ ~drive.erase_device
      /\ pending \subseteq Contents(drive) /\ erased \subseteq Contents(drive)
  BY <1>1 DEF IInv, TypeOK, PrefixErased, RightWay, Looping
<1>3. ASSUME Capacity(drive) < Modulus
      PROVE  erased' = Contents(drive) /\ pending' = {}
  <2>1. address >= Capacity(drive) /\ Capacity(drive) \in Nat /\ address \in Nat
    BY <1>1, <1>2, <1>3, SizeExact, CapacityNat, ModulusAssumption DEF IInv, TypeOK
  <2>2. Contents(drive) \subseteq erased \cup pending
    BY <1>1, <1>3, <2>1 DEF IInv, PrefixErased, Looping, Contents
  <2>3. pending = {}
    <3>1. CASE Capacity(drive) = 0
      BY <1>2, <3>1 DEF Contents
    <3>2. CASE Capacity(drive) > 0
      BY <1>1, <2>1, <3>2 DEF IInv, RestsBetweenCommands
    <3> QED
      BY <2>1, <3>1, <3>2
  <2> QED
    BY <1>1, <1>2, <2>2, <2>3
<1> QED
  BY <1>2, <1>3

\* A drive that erases itself has been told to erase everything.
LEMMA CommandSuccess ==
  ASSUME IInv, EraseAll, ~IsError(ctx')
  PROVE  drive.erase_device /\ erased' \cup pending' = Contents(drive)
<1>1. ~NotTaken
  BY DEF NotTaken, IsError, Failed
<1>2. /\ pc = "erase_all" /\ ~IsError(ctx)
      /\ erased' = erased
      /\ pending' = pending \cup (Contents(drive) \cap Contents(drive))
  BY <1>1 DEF EraseAll, Taken
<1> QED
  BY <1>2 DEF IInv, TypeOK, RightWay

\* The success of erase_device means what EraseSuccess says, whichever way it
\* has taken: a drive that erases itself may still be erasing.
THEOREM SuccessMeans == Spec => EraseSuccess
<1>1. IInv /\ [Next]_vars =>
        [pc # "idle" /\ pc' = "idle" /\ ~IsError(ctx') =>
            IF drive.erase_device
            THEN erased' \cup pending' = Contents(drive)
            ELSE Capacity(drive) < Modulus =>
                    erased' = Contents(drive) /\ pending' = {}]_vars
  <2> SUFFICES ASSUME IInv, Next, pc # "idle", pc' = "idle", ~IsError(ctx')
               PROVE  IF drive.erase_device
                      THEN erased' \cup pending' = Contents(drive)
                      ELSE Capacity(drive) < Modulus =>
                              erased' = Contents(drive) /\ pending' = {}
    BY DEF vars
  <2>1. EraseAll \/ EraseDeviceDone
    BY DEF Next, CallStep, EraseDevice, GetInfo, EraseNext, StillBusy, NotBusy, Wait,
           erase_blocks, set_attributes, Protection, ResetError, FinishErase
  <2> QED
    BY <2>1, LoopSuccess, CommandSuccess
<1> QED
  BY <1>1, Invariance, PTL DEF Spec, EraseSuccess

-----------------------------------------------------------------------------
(***************************************************************************)
(* Why the loop of erase_device ends.                                      *)
(***************************************************************************)

\* Sizes are u32, and an error is a negative result.
LEMMA SizeRange == \A d \in Geometries : Size(d) \in 0 .. Modulus - 1
<1> SUFFICES ASSUME NEW d \in Geometries PROVE Size(d) \in 0 .. Modulus - 1
  OBVIOUS
<1>1. Capacity(d) \in Nat
  BY CapacityNat
<1> QED
  BY <1>1, U32Range DEF Size, Capacity

\* Bytes of a drive that fits are counted without wrapping around.
LEMMA FittingExact ==
  ASSUME IInv, pc = "loop", ~IsError(ctx), drive \in Fitting,
         NEW n \in EraseCounts, address < Size(info)
  PROVE  n > 0 /\ U32(address + n) = address + n
<1>1. /\ info = drive /\ drive \in Geometries
      /\ n > 0 /\ Capacity(drive) + n <= Modulus
  BY DEF IInv, PrefixErased, Looping, Fitting
<1>2. /\ n \in 0 .. Modulus - 1 /\ address \in 0 .. Modulus - 1
      /\ Capacity(drive) \in Nat /\ Modulus \in Nat
  BY <1>1, EraseCountsAssumption, CapacityNat, ModulusAssumption DEF IInv, TypeOK
<1>3. Size(info) = Capacity(drive)
  BY <1>1, <1>2, SizeExact
<1>4. address + n \in 0 .. Modulus - 1
  BY <1>1, <1>2, <1>3
<1> QED
  BY <1>1, <1>4, U32Range

\* Every command brings the end nearer.
LEMMA CommandNearer ==
  ASSUME IInv, EraseNext, drive \in Fitting
  PROVE  CommandsLeft' < CommandsLeft
<1> DEFINE size == Size(info)
<1>1. /\ pc = "loop" /\ address < size
      /\ info' = info
      /\ address' = U32(address + ctx')
  BY DEF EraseNext
<1>2. /\ size \in 0 .. Modulus - 1 /\ address \in 0 .. Modulus - 1
      /\ Size(info)' = size
      /\ Modulus \in Nat
  BY <1>1, SizeRange, ModulusAssumption DEF IInv, TypeOK, Size, U32
<1> HIDE DEF size
<1>3. CommandsLeft = IF IsError(ctx) THEN address + 1 ELSE 2 * size - address
  BY <1>1, <1>2 DEF CommandsLeft, size
<1>4. CommandsLeft' =
        IF address' >= size THEN 0
        ELSE IF IsError(ctx') THEN address' + 1 ELSE 2 * size - address'
  BY <1>2 DEF CommandsLeft, IsError
<1>5. CASE NotTaken
  <2>1. ctx' = Failed /\ IsError(ctx')
    BY <1>5 DEF NotTaken, IsError, Failed
  <2>2. address' = U32(address - 1)
    BY <1>1, <1>2, <2>1 DEF Failed
  <2>3. CASE address = 0
    <3>1. address' = Modulus - 1
      BY <1>2, <2>2, <2>3, ModulusAssumption DEF U32
    <3> QED
      BY <1>1, <1>2, <1>3, <1>4, <2>3, <3>1
  <2>4. CASE address > 0
    <3>1. address' = address - 1
      BY <1>2, <2>2, <2>4, U32Range
    <3> QED
      BY <1>1, <1>2, <1>3, <1>4, <2>1, <2>4, <3>1
  <2> QED
    BY <1>2, <2>3, <2>4
<1>6. ASSUME NEW n \in EraseCounts, Taken(address .. address + n - 1, n)
      PROVE  CommandsLeft' < CommandsLeft
  <2>1. ~IsError(ctx) /\ ctx' = n
    BY <1>6 DEF Taken
  <2>2. n > 0 /\ address' = address + n
    BY <1>1, <1>6, <2>1, FittingExact DEF size
  <2>3. n \in Nat /\ ~IsError(ctx')
    BY <1>2, <2>1, <2>2, EraseCountsAssumption, ModulusAssumption DEF IsError
  <2> QED
    BY <1>1, <1>2, <1>3, <1>4, <2>1, <2>2, <2>3
<1> QED
  BY <1>5, <1>6 DEF EraseNext

\* Between two commands the offset stays, and the drive only comes to rest.
LEMMA BetweenCommands ==
  ASSUME IInv, [Next]_vars, ~EraseNext, Looping, Looping'
  PROVE  /\ CommandsLeft' <= CommandsLeft
         /\ pending' \subseteq pending
         /\ address' = address
<1> DEFINE size == Size(info)
<1>1. /\ address' = address /\ info' = info
      /\ pending' \subseteq pending
      /\ IsError(ctx) => IsError(ctx')
  <2>1. CASE CallStep
    BY <2>1
    DEF CallStep, GetInfo, EraseAll, StillBusy, NotBusy, Wait, EraseDeviceDone,
        Looping, deviceVars, IsError, Fresh, Failed
  <2>2. CASE EraseDevice \/ erase_blocks \/ set_attributes \/ Protection \/ ResetError
    BY <2>2 DEF EraseDevice, erase_blocks, set_attributes, Protection, ResetError, Looping
  <2>3. CASE FinishErase
    BY <2>3 DEF FinishErase, IInv, TypeOK
  <2>4. CASE UNCHANGED vars
    BY <2>4 DEF vars
  <2> QED
    BY <2>1, <2>2, <2>3, <2>4 DEF Next
<1>2. /\ size \in 0 .. Modulus - 1 /\ address \in 0 .. Modulus - 1
      /\ Size(info)' = size
      /\ Modulus \in Nat
  BY <1>1, SizeRange, ModulusAssumption DEF IInv, TypeOK, Size, U32
<1> HIDE DEF size
<1>3. CommandsLeft =
        IF address >= size THEN 0
        ELSE IF IsError(ctx) THEN address + 1 ELSE 2 * size - address
  BY DEF CommandsLeft, size
<1>4. CommandsLeft' =
        IF address >= size THEN 0
        ELSE IF IsError(ctx') THEN address + 1 ELSE 2 * size - address
  BY <1>1, <1>2 DEF CommandsLeft, IsError
<1>5. CommandsLeft' <= CommandsLeft
  BY <1>1, <1>2, <1>3, <1>4
<1> QED
  BY <1>1, <1>5

\* Every command takes the loop of erase_device nearer its end, and nothing
\* takes it back (EraseProgress): on a drive that fits, at most twice its size
\* in commands, whichever of them fail.
THEOREM Progress == Spec => EraseProgress
<1>1. IInv /\ [Next]_vars =>
        [Looping /\ drive \in Fitting =>
            /\ EraseNext => CommandsLeft' < CommandsLeft
            /\ ~EraseNext /\ Looping' =>
                /\ CommandsLeft' <= CommandsLeft
                /\ pending' \subseteq pending
                /\ address' = address]_vars
  BY CommandNearer, BetweenCommands
<1> QED
  BY <1>1, Invariance, PTL DEF Spec, EraseProgress

\* The number that Progress counts down is a natural number.
THEOREM BoundedCommands == Spec => [](CommandsLeft \in 0 .. 2 * Size(info))
<1>1. IInv => CommandsLeft \in 0 .. 2 * Size(info)
  <2> SUFFICES ASSUME IInv PROVE CommandsLeft \in 0 .. 2 * Size(info)
    OBVIOUS
  <2>1. Size(info) \in Nat /\ address \in Nat
    BY SizeRange, ModulusAssumption DEF IInv, TypeOK
  <2> QED
    BY <2>1 DEF CommandsLeft
<1> QED
  BY <1>1, Invariance, PTL

=============================================================================
