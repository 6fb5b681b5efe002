----------------------------- MODULE FlashCalls -----------------------------
(***************************************************************************)
(* The memory of a flash chip, and what the calls of hal::QSPI_FLASH ask   *)
(* for.                                                                    *)
(***************************************************************************)
EXTENDS Integers

CONSTANTS
    BlockSize,       \* what an erase command erases
    MemorySize,
    Bits,            \* of a byte; writing can clear bits, erasing sets them all
    MaxLength,       \* of a buffer
    Data,            \* what the buffers that callers write hold
    Calls,           \* the calls that are made
    NoCall

Memory == 0 .. MemorySize - 1
Buffer == 0 .. MaxLength - 1
Bytes == SUBSET Bits

ASSUME MemoryAssumption ==
    /\ BlockSize \in Nat \ {0}
    /\ MemorySize \in Nat
    /\ MaxLength \in Nat

ASSUME DataAssumption == Data \in [Buffer -> Bytes]

Call == [op : {"read", "write", "erase"}, address : Memory, length : 0 .. MaxLength]

\* A call is for bytes that the chip has.
ASSUME CallsAssumption ==
    /\ Calls \subseteq {c \in Call : c.address + c.length <= MemorySize}
    /\ NoCall \notin Calls

\* What the chip holds at first, and a buffer that can hold anything.
Blank == [a \in Memory |-> Bits]
Unread == [k \in Buffer |-> Bytes]

\* The block that an address belongs to.
Block(a) == {b \in Memory : b \div BlockSize = a \div BlockSize}

\* What call c is to make of byte a that holds old.
Asked(c, a, old) ==
    IF c.op = "write" /\ a \in c.address .. c.address + c.length - 1
    THEN old \cap Data[a - c.address]
    ELSE IF c.op = "erase" /\ a \in Block(c.address) THEN Bits
    ELSE old

=============================================================================
