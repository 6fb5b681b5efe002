------------------------------- MODULE Drive -------------------------------
(***************************************************************************)
(* hal::Drive: erasing a drive through its driver.                         *)
(*                                                                         *)
(* erase_device asks the driver for the geometry of the drive.  A drive    *)
(* that can erase itself is told to, and the call returns.  Any other is   *)
(* erased piece by piece: each command starts at an offset of type u32 and *)
(* returns how many bytes it erases, which is what the offset advances by; *)
(* the call waits for the drive to be idle before the next command.        *)
(*                                                                         *)
(* The driver is external.  A command it takes erases the n bytes that it  *)
(* returns, from the start it was given, while the drive reports busy.     *)
(* Offsets are scaled down: Modulus stands for 2^32.                       *)
(***************************************************************************)
EXTENDS ExecutionContext

CONSTANTS
    Modulus,      \* one more than the largest u32
    Geometries,   \* drives: what I_DRIVE_GETINFO reports of them
    EraseCounts   \* how much one erase command may erase

ASSUME ModulusAssumption == Modulus \in Nat /\ Modulus > 1

ASSUME GeometriesAssumption ==
    Geometries \subseteq [num_write_blocks : 0 .. Modulus - 1,
                          write_block_size : 0 .. Modulus - 1,
                          erase_device : BOOLEAN]

\* The count is the int that ioctl returns.
ASSUME EraseCountsAssumption == EraseCounts \subseteq 0 .. Modulus - 1

VARIABLES
    ctx,       \* the error context of the caller
    pc,        \* where the caller is in erase_device
    info,      \* what get_info() returned, or garbage
    address,   \* the offset of the next command
    drive,     \* the geometry of the drive
    pending,   \* the bytes being erased; the drive is busy while there are any
    erased     \* the bytes erased and not written since

deviceVars == <<drive, pending, erased>>
vars == <<ctx, pc, info, address, drive, pending, erased>>

U32(n) == n % Modulus

\* A variant that leaves out the last block.
SizeShort(i) == U32((i.num_write_blocks - 1) * i.write_block_size)

\* Info::size() multiplies two 32 bit numbers before it widens to u64.
Size(i) == U32(i.num_write_blocks * i.write_block_size)

\* What the drive really holds.
Capacity(d) == d.num_write_blocks * d.write_block_size
Contents(d) == 0 .. Capacity(d) - 1

Init ==
    /\ ctx = Fresh
    /\ pc = "idle"
    /\ info \in Geometries
    /\ address = 0
    /\ drive \in Geometries
    /\ pending = {}
    /\ erased = {}

-----------------------------------------------------------------------------
(***************************************************************************)
(* set_attributes: skipped when an error is pending, refused by the        *)
(* driver, or taken.                                                       *)
(***************************************************************************)
NotTaken ==
    /\ ctx' = Failed
    /\ UNCHANGED deviceVars

\* The drive starts erasing and the driver returns result.
Taken(bytes, result) ==
    /\ ~IsError(ctx)
    /\ ctx' = result
    /\ pending' = pending \cup (bytes \cap Contents(drive))
    /\ UNCHANGED <<drive, erased>>

\* The call starts.  Whatever was erased may have been written since.
EraseDevice ==
    /\ pc = "idle"
    /\ pc' = "get_info"
    /\ erased' = {}
    /\ UNCHANGED <<ctx, info, address, drive, pending>>

\* const auto info = get_info(); the struct is not initialized, and stays so
\* when the request is skipped or fails.
GetInfo ==
    /\ pc = "get_info"
    /\ \/ /\ ~IsError(ctx)
          /\ ctx' = Fresh
          /\ info' = drive
       \/ /\ ctx' = Failed
          /\ info' \in Geometries
    /\ address' = 0
    /\ pc' = IF info'.erase_device THEN "erase_all" ELSE "loop"
    /\ UNCHANGED deviceVars

\* return set_attributes(Attributes().set_flags(Flags::erase_device)); the call
\* returns while the drive is erasing.
EraseAll ==
    /\ pc = "erase_all"
    /\ NotTaken \/ Taken(Contents(drive), Fresh)
    /\ pc' = "idle"
    /\ UNCHANGED <<info, address>>

\* Variants of the next action: the offset is an int that goes below zero, it
\* advances by a write block whatever was erased, it is assigned, not added to.
EraseNextBy(offset(_)) ==
    /\ pc = "loop"
    /\ address < Size(info)
    /\ \/ NotTaken
       \/ \E n \in EraseCounts : Taken(address .. address + n - 1, n)
    /\ address' = offset(ctx')
    /\ pc' = "is_busy"
    /\ UNCHANGED info

EraseNextSigned == LET offset(n) == address + n IN EraseNextBy(offset)
EraseNextFixed == LET offset(n) == U32(address + info.write_block_size) IN EraseNextBy(offset)
EraseNextAssigned == LET offset(n) == U32(n) IN EraseNextBy(offset)

\* address += set_attributes(... erase_blocks ... address ...).return_value();
\* The end that the request names is left out: the driver says what it erased.
EraseNext ==
    /\ pc = "loop"
    /\ address < Size(info)
    /\ \/ NotTaken
       \/ \E n \in EraseCounts : Taken(address .. address + n - 1, n)
    /\ address' = U32(address + ctx')
    /\ pc' = "is_busy"
    /\ UNCHANGED info

\* while (is_busy() && is_success()): the request may fail, which reads as
\* not busy.
StillBusy ==
    /\ pc = "is_busy"
    /\ ~IsError(ctx)
    /\ pending # {}
    /\ ctx' = 1
    /\ pc' = "wait"
    /\ UNCHANGED <<info, address, deviceVars>>

\* A variant that does not wait for the drive.
NotBusyAsked ==
    /\ pc = "is_busy"
    /\ ctx' \in After(ctx, {Fresh})
    /\ pc' = "loop"
    /\ UNCHANGED <<info, address, deviceVars>>

NotBusy ==
    /\ pc = "is_busy"
    /\ \/ ~IsError(ctx) /\ pending = {} /\ ctx' = Fresh
       \/ ctx' = Failed
    /\ pc' = "loop"
    /\ UNCHANGED <<info, address, deviceVars>>

\* chrono::wait(info.erase_block_time());
Wait ==
    /\ pc = "wait"
    /\ pc' = "is_busy"
    /\ UNCHANGED <<ctx, info, address, deviceVars>>

EraseDeviceDone ==
    /\ pc = "loop"
    /\ address >= Size(info)
    /\ pc' = "idle"
    /\ UNCHANGED <<ctx, info, address, deviceVars>>

CallStep ==
    GetInfo \/ EraseAll \/ EraseNext \/ StillBusy \/ NotBusy \/ Wait \/ EraseDeviceDone

-----------------------------------------------------------------------------
\* erase_blocks(start_address, end_address) does not wait for the drive.
erase_blocks ==
    /\ pc = "idle"
    /\ \/ NotTaken
       \/ \E start, end \in 0 .. Modulus - 1 : Taken(start .. end - 1, Fresh)
    /\ UNCHANGED <<pc, info, address>>

\* set_attributes(attributes) with Flags::erase_device does not wait either.
set_attributes ==
    /\ pc = "idle"
    /\ NotTaken \/ Taken(Contents(drive), Fresh)
    /\ UNCHANGED <<pc, info, address>>

\* protect, unprotect, reset, is_busy, get_info and set_attributes without an
\* argument: one request that erases nothing.
Protection ==
    /\ pc = "idle"
    /\ ctx' \in After(ctx, {Failed, Fresh})
    /\ UNCHANGED <<pc, info, address, deviceVars>>

ResetError ==
    /\ pc = "idle"
    /\ ctx' = Fresh
    /\ UNCHANGED <<pc, info, address, deviceVars>>

\* The drive has erased what it was told to.
FinishErase ==
    /\ pending # {}
    /\ erased' = erased \cup pending
    /\ pending' = {}
    /\ UNCHANGED <<ctx, pc, info, address, drive>>

Next ==
    \/ EraseDevice \/ CallStep
    \/ erase_blocks \/ set_attributes \/ Protection \/ ResetError
    \/ FinishErase

Spec == Init /\ [][Next]_vars

\* The caller runs on, and a drive does not stay busy for ever.
FairSpec == Spec /\ WF_vars(CallStep) /\ WF_vars(FinishErase)

-----------------------------------------------------------------------------
(***************************************************************************)
(* Properties.                                                             *)
(***************************************************************************)

\* The types of the variables; the offset stays a u32.
TypeOK ==
    /\ ctx \in Int /\ ctx >= Failed
    /\ pc \in {"idle", "get_info", "erase_all", "loop", "is_busy", "wait"}
    /\ info \in Geometries
    /\ address \in 0 .. Modulus - 1
    /\ drive \in Geometries
    /\ pending \subseteq Contents(drive)
    /\ erased \subseteq Contents(drive)

Looping == pc \in {"loop", "is_busy", "wait"}

\* While no command has failed, everything below the offset is erased or being
\* erased, also when the offset wrapped around.
PrefixErased ==
    Looping /\ ~IsError(ctx) =>
        /\ info = drive
        /\ Capacity(drive) < Modulus =>
            \A b \in Contents(drive) : b < address => b \in erased \cup pending

\* Between two commands of erase_device the drive has come to rest, so that no
\* command reaches a busy drive.  (The first one can: erase_blocks and a whole
\* device erase leave the drive busy.)
RestsBetweenCommands ==
    pc = "loop" /\ ~IsError(ctx) /\ address > 0 => pending = {}

\* erase_device takes the way that the drive asks for: it tells only a drive
\* that erases itself to, and erases any other piece by piece.
RightWay ==
    /\ pc = "erase_all" /\ ~IsError(ctx) => info = drive /\ drive.erase_device
    /\ Looping /\ ~IsError(ctx) => ~drive.erase_device

\* What it means that erase_device returns without an error.  A drive that is
\* erased piece by piece is erased from end to end and at rest, if its capacity
\* fits the u32 that Info::size() computes in.  Of a drive that erases itself
\* it means less: the call does not wait, and every byte is erased or still
\* being erased.
EraseSuccess ==
    [][pc # "idle" /\ pc' = "idle" /\ ~IsError(ctx') =>
        IF drive.erase_device
        THEN erased' \cup pending' = Contents(drive)
        ELSE Capacity(drive) < Modulus =>
                erased' = Contents(drive) /\ pending' = {}]_vars

IInv == TypeOK /\ PrefixErased /\ RestsBetweenCommands /\ RightWay

\* The drives on which no command takes the offset past the largest u32.
Fitting ==
    {d \in Geometries : \A n \in EraseCounts : n > 0 /\ Capacity(d) + n <= Modulus}

\* How many more commands the loop can give.  After an error the offset counts
\* down to 0, and from there to the largest u32, where the loop ends.
CommandsLeft ==
    IF address >= Size(info) THEN 0
    ELSE IF IsError(ctx) THEN address + 1
    ELSE 2 * Size(info) - address

\* The loop of erase_device gets nearer its end with every command, taken or
\* not; between two commands it gets no further from it, whatever fails, and
\* the drive gets nothing more to erase.
EraseProgress ==
    [][Looping /\ drive \in Fitting =>
        /\ EraseNext => CommandsLeft' < CommandsLeft
        /\ ~EraseNext /\ Looping' =>
            /\ CommandsLeft' <= CommandsLeft
            /\ pending' \subseteq pending
            /\ address' = address]_vars

\* erase_device returns, also after an error has turned its loop into a count
\* down, if every command erases something and the offset does not wrap around.
EraseReturns == pc # "idle" /\ drive \in Fitting ~> pc = "idle"

=============================================================================
