-------------------------------- MODULE I2C --------------------------------
(***************************************************************************)
(* hal::I2C: several threads using one I2C object, that is one bus and one *)
(* device file.                                                            *)
(*                                                                         *)
(* prepare() selects the slave that later reads and writes talk to.  The   *)
(* selection belongs to the bus and the offset to the file; neither        *)
(* belongs to the call that has set it.  scan tries one address after      *)
(* another, modify_register reads a register, changes a bit and writes it  *)
(* back, and both make a request at a time, so that requests of other      *)
(* threads come between.                                                   *)
(*                                                                         *)
(* The bus and the slaves are external.  A slave has registers, whose      *)
(* contents are sets of bits.  With prepare_ptr_data a transfer is for the *)
(* register at the offset of the file; with prepare_data it is for any one *)
(* the slave thinks of.                                                    *)
(***************************************************************************)
EXTENDS ExecutionContext

CONSTANTS
    Threads,
    LastAddress,     \* of the addresses scan tries, 127 in the code
    Populations,     \* which sets of slaves there can be on the bus
    LastLocation,    \* of the registers of a slave
    Bits,            \* of a register
    Contents,        \* what registers hold before modify_register is used
    Options,         \* the ModifyRegister objects that callers pass
    NoOptions        \* outside of modify_register there is none

ASSUME BoundsAssumption == LastAddress \in Nat /\ LastLocation \in Nat

ASSUME PopulationsAssumption == Populations \subseteq SUBSET (1 .. LastAddress)

ASSUME ContentsAssumption == Contents \subseteq SUBSET Bits

ASSUME OptionsAssumption ==
    Options \subseteq [location : 0 .. LastLocation, bit : Bits, value : BOOLEAN]

Bytes == SUBSET Bits

Addresses == 1 .. LastAddress
Locations == 0 .. LastLocation
Flags == {"prepare_ptr_data", "prepare_data"}

VARIABLES
    ctx,          \* ctx[t]: the error context of t
    pc,           \* pc[t]: the statement of scan or modify_register t is at
    addr,         \* addr[t]: the next address of t's scan
    result,       \* result[t]: the addresses t's scan has found
    saved,        \* saved[t]: the context that t's ErrorScope was opened in
    options,      \* options[t]: the argument of t's modify_register
    value,        \* value[t]: what its local variable can hold, which is any
                  \* byte until it is assigned
    slave,        \* the selected slave, 0 if there is none
    o_flags,      \* how it was selected
    offset,       \* of the file
    registers,    \* registers[a][l]: what register l of slave a holds
    present,      \* the slaves on the bus
    reselected,   \* history: reselected[t]: others configured the bus
    moved,        \* history: moved[t]: others moved the offset or wrote; both
                  \* since the call of t began
    hampered      \* history: hampered[t]: t's scan began with a pending error
                  \* or a request failed that a slave would have answered

scanVars == <<addr, result, saved, hampered>>
modifyVars == <<options, value>>
callVars == <<pc, scanVars, modifyVars>>
busVars == <<slave, o_flags>>
fileVars == <<offset, registers>>
history == <<reselected, moved>>
vars == <<ctx, callVars, busVars, fileVars, present, history>>

Init ==
    /\ ctx = [t \in Threads |-> Fresh]
    /\ pc = [t \in Threads |-> "idle"]
    /\ addr = [t \in Threads |-> 1]
    /\ result = [t \in Threads |-> {}]
    /\ saved = [t \in Threads |-> Fresh]
    /\ options = [t \in Threads |-> NoOptions]
    /\ value = [t \in Threads |-> Bytes]
    /\ slave = 0
    /\ o_flags \in Flags
    /\ offset = 0
    /\ registers \in [Addresses -> [Locations -> Contents]]
    /\ present \in Populations
    /\ reselected = [t \in Threads |-> FALSE]
    /\ moved = [t \in Threads |-> FALSE]
    /\ hampered = [t \in Threads |-> FALSE]

-----------------------------------------------------------------------------
(***************************************************************************)
(* Requests.  Each is skipped when an error is pending, may fail, or is    *)
(* done.                                                                   *)
(***************************************************************************)
NotDone(t) ==
    /\ ctx' = [ctx EXCEPT ![t] = Failed]
    /\ UNCHANGED <<busVars, fileVars, history>>

Done(t) ==
    /\ ~IsError(ctx[t])
    /\ ctx' = [ctx EXCEPT ![t] = Fresh]

\* What t has just done, as a call that another thread is in has to see it.
ForOthers(h, t) == [u \in Threads |-> h[u] \/ (u # t /\ pc[u] # "idle")]

\* I_I2C_SETATTR with a prepare flag.
Selected(t, address, flags) ==
    /\ Done(t)
    /\ slave' = address
    /\ o_flags' = flags
    /\ reselected' = ForOthers(reselected, t)
    /\ UNCHANGED <<fileVars, moved>>

prepare(t, address, flags) == NotDone(t) \/ Selected(t, address, flags)

seek(t, location) ==
    \/ NotDone(t)
    \/ /\ Done(t)
       /\ offset' = location
       /\ moved' = ForOthers(moved, t)
       /\ UNCHANGED <<busVars, registers, reselected>>

\* The registers that a transfer can be for.
Reached == IF o_flags = "prepare_ptr_data" THEN {offset} \cap Locations ELSE Locations

\* A transfer of one byte moves the offset, or leaves it, as the driver likes.
Transferred(t) ==
    /\ Done(t)
    /\ slave \in present
    /\ offset' \in {offset, offset + 1} \cap (0 .. LastLocation + 1)
    /\ moved' = ForOthers(moved, t)
    /\ UNCHANGED <<busVars, reselected>>

ReadDone(t, byte) ==
    /\ Transferred(t)
    /\ \E l \in Reached : byte = registers[slave][l]
    /\ UNCHANGED registers

write(t, byte) ==
    \/ NotDone(t)
    \/ /\ Transferred(t)
       /\ \E l \in Reached : registers' = [registers EXCEPT ![slave][l] = byte]

-----------------------------------------------------------------------------
(***************************************************************************)
(* Calls that are one request.                                             *)
(***************************************************************************)
Prepare(t) ==
    /\ pc[t] = "idle"
    /\ \E address \in Addresses, flags \in Flags : prepare(t, address, flags)
    /\ UNCHANGED <<callVars, present>>

\* set_attributes() and reset(): the driver may forget what was selected.
Configure(t) ==
    /\ pc[t] = "idle"
    /\ NotDone(t) \/ Selected(t, 0, o_flags)
    /\ UNCHANGED <<callVars, present>>

Seek(t) ==
    /\ pc[t] = "idle"
    /\ \E location \in Locations : seek(t, location)
    /\ UNCHANGED <<callVars, present>>

Read(t) ==
    /\ pc[t] = "idle"
    /\ NotDone(t) \/ \E byte \in Bytes : ReadDone(t, byte)
    /\ UNCHANGED <<callVars, present>>

Write(t) ==
    /\ pc[t] = "idle"
    /\ \E byte \in Contents : write(t, byte)
    /\ UNCHANGED <<callVars, present>>

\* The caller has dealt with an error and resets its context.
ResetError(t) ==
    /\ pc[t] = "idle"
    /\ ctx' = [ctx EXCEPT ![t] = Fresh]
    /\ UNCHANGED <<callVars, busVars, fileVars, present, history>>

Goto(t, next) == pc' = [pc EXCEPT ![t] = next]

Enter(t, first) ==
    /\ pc[t] = "idle"
    /\ Goto(t, first)
    /\ UNCHANGED history

\* A call returns: its local variables are gone, and what others did during it
\* is of no account any more.
Return(t) ==
    /\ \/ pc[t] = "return"
       \/ pc[t] = "scan" /\ addr[t] \notin Addresses
    /\ Goto(t, "idle")
    /\ addr' = [addr EXCEPT ![t] = 1]
    /\ result' = [result EXCEPT ![t] = {}]
    /\ saved' = [saved EXCEPT ![t] = Fresh]
    /\ hampered' = [hampered EXCEPT ![t] = FALSE]
    /\ options' = [options EXCEPT ![t] = NoOptions]
    /\ value' = [value EXCEPT ![t] = Bytes]
    /\ reselected' = [reselected EXCEPT ![t] = FALSE]
    /\ moved' = [moved EXCEPT ![t] = FALSE]
    /\ UNCHANGED <<ctx, busVars, fileVars, present>>

-----------------------------------------------------------------------------
(***************************************************************************)
(* scan                                                                    *)
(***************************************************************************)
ScanBegin(t) ==
    /\ Enter(t, "scan")
    /\ hampered' = [hampered EXCEPT ![t] = IsError(ctx[t])]
    /\ UNCHANGED <<ctx, addr, result, saved, modifyVars, busVars, fileVars, present>>

\* A variant that tries one address too many, for which ScanResult has no room.
ScanOpenScopeLast(t) ==
    /\ pc[t] = "scan"
    /\ addr[t] <= LastAddress + 1
    /\ saved' = [saved EXCEPT ![t] = ctx[t]]
    /\ Goto(t, "scan_prepare")
    /\ UNCHANGED <<ctx, addr, result, hampered, modifyVars, busVars, fileVars, present, history>>

\* for (...) { api::ErrorScope es; whose constructor may reset an error.
ScanOpenScope(t) ==
    /\ pc[t] = "scan"
    /\ addr[t] \in Addresses
    /\ saved' = [saved EXCEPT ![t] = ctx[t]]
    /\ \E context \in {ctx[t], Fresh} : ctx' = [ctx EXCEPT ![t] = context]
    /\ Goto(t, "scan_prepare")
    /\ UNCHANGED <<addr, result, hampered, modifyVars, busVars, fileVars, present, history>>

\* prepare(addr, Flags::prepare_data)
ScanPrepare(t) ==
    /\ pc[t] = "scan_prepare"
    /\ \/ NotDone(t) /\ hampered' = [hampered EXCEPT ![t] = @ \/ ~IsError(ctx[t])]
       \/ Selected(t, addr[t], "prepare_data") /\ UNCHANGED hampered
    /\ Goto(t, "scan_read")
    /\ UNCHANGED <<addr, result, saved, modifyVars, present>>

\* .read(View(&c)), which fails when nobody answers.
ScanRead(t) ==
    /\ pc[t] = "scan_read"
    /\ \/ /\ NotDone(t)
          /\ hampered' = [hampered EXCEPT ![t] = @ \/ (~IsError(ctx[t]) /\ slave \in present)]
       \/ (\E byte \in Bytes : ReadDone(t, byte)) /\ UNCHANGED hampered
    /\ Goto(t, "scan_check")
    /\ UNCHANGED <<addr, result, saved, modifyVars, present>>

\* if (return_value() == 1) result.at(addr) = addr;
Check(t) ==
    result' = [result EXCEPT ![t] = IF IsError(ctx[t]) THEN @ ELSE @ \cup {addr[t]}]

\* A variant without the ErrorScope.
ScanUnscoped(t) ==
    /\ pc[t] = "scan_check"
    /\ Check(t)
    /\ addr' = [addr EXCEPT ![t] = @ + 1]
    /\ Goto(t, "scan")
    /\ UNCHANGED <<ctx, saved, hampered, modifyVars, busVars, fileVars, present, history>>

\* The check, and the end of the block: the ErrorScope leaves the context as it
\* found it, or without an error.
ScanCloseScope(t) ==
    /\ pc[t] = "scan_check"
    /\ Check(t)
    /\ \E context \in {saved[t], Fresh} : ctx' = [ctx EXCEPT ![t] = context]
    /\ addr' = [addr EXCEPT ![t] = @ + 1]
    /\ Goto(t, "scan")
    /\ UNCHANGED <<saved, hampered, modifyVars, busVars, fileVars, present, history>>

ScanStep(t) ==
    \/ ScanOpenScope(t) \/ ScanPrepare(t) \/ ScanRead(t) \/ ScanCloseScope(t)

-----------------------------------------------------------------------------
(***************************************************************************)
(* modify_register                                                         *)
(***************************************************************************)
\* u8 value;
ModifyBegin(t) ==
    /\ Enter(t, "seek_to_read")
    /\ \E o \in Options : options' = [options EXCEPT ![t] = o]
    /\ UNCHANGED <<ctx, scanVars, value, busVars, fileVars, present>>

\* seek(options.location())
ModifySeekToRead(t) ==
    /\ pc[t] = "seek_to_read"
    /\ seek(t, options[t].location)
    /\ Goto(t, "read")
    /\ UNCHANGED <<scanVars, modifyVars, present>>

\* if (options.value()) value |= bit; else value &= bit;
Modified(byte, o) ==
    IF o.value THEN byte \cup {o.bit} ELSE byte \cap {o.bit}

\* A variant that reads in an ErrorScope of its own.
ModifyReadScoped(t) ==
    /\ pc[t] = "read"
    /\ ctx' = [ctx EXCEPT ![t] = Fresh]
    /\ Goto(t, "seek_to_write")
    /\ UNCHANGED <<scanVars, modifyVars, busVars, fileVars, present, history>>

\* .read(var::View(value)), and the change of value.
ModifyRead(t) ==
    /\ pc[t] = "read"
    /\ \E read \in SUBSET Bytes :
        /\ \/ NotDone(t) /\ read = value[t]
           \/ \E byte \in Bytes : ReadDone(t, byte) /\ read = {byte}
        /\ value' = [value EXCEPT ![t] = {Modified(byte, options[t]) : byte \in read}]
    /\ Goto(t, "seek_to_write")
    /\ UNCHANGED <<scanVars, options, present>>

\* A variant without the second seek.
ModifyStay(t) ==
    /\ pc[t] = "seek_to_write"
    /\ Goto(t, "write")
    /\ UNCHANGED <<ctx, scanVars, modifyVars, busVars, fileVars, present, history>>

\* seek(options.location())
ModifySeekToWrite(t) ==
    /\ pc[t] = "seek_to_write"
    /\ seek(t, options[t].location)
    /\ Goto(t, "write")
    /\ UNCHANGED <<scanVars, modifyVars, present>>

\* .write(var::View(value))
ModifyWrite(t) ==
    /\ pc[t] = "write"
    /\ \E byte \in value[t] : write(t, byte)
    /\ Goto(t, "return")
    /\ UNCHANGED <<scanVars, modifyVars, present>>

ModifyStep(t) ==
    \/ ModifySeekToRead(t) \/ ModifyRead(t)
    \/ ModifySeekToWrite(t) \/ ModifyWrite(t)

-----------------------------------------------------------------------------
CallerStep(t) ==
    \/ Prepare(t) \/ Configure(t) \/ Seek(t) \/ Read(t) \/ Write(t)
    \/ ResetError(t)
    \/ ScanBegin(t) \/ ModifyBegin(t)

Next == \E t \in Threads : CallerStep(t) \/ ScanStep(t) \/ ModifyStep(t) \/ Return(t)

Spec == Init /\ [][Next]_vars

-----------------------------------------------------------------------------
(***************************************************************************)
(* Properties.                                                             *)
(***************************************************************************)
Scanning == {"scan", "scan_prepare", "scan_read", "scan_check"}
Modifying == {"seek_to_read", "read", "seek_to_write", "write", "return"}

\* The types of the variables.
TypeOK ==
    /\ ctx \in [Threads -> {Failed, Fresh}]
    /\ pc \in [Threads -> {"idle"} \cup Scanning \cup Modifying]
    /\ addr \in [Threads -> 1 .. LastAddress + 1]
    /\ result \in [Threads -> SUBSET Addresses]
    /\ saved \in [Threads -> {Failed, Fresh}]
    /\ options \in [Threads -> Options \cup {NoOptions}]
    /\ value \in [Threads -> SUBSET Bytes]
    /\ slave \in 0 .. LastAddress
    /\ o_flags \in Flags
    /\ offset \in 0 .. LastLocation + 1
    /\ registers \in [Addresses -> [Locations -> Bytes]]
    /\ present \subseteq Addresses
    /\ reselected \in [Threads -> BOOLEAN]
    /\ moved \in [Threads -> BOOLEAN]
    /\ hampered \in [Threads -> BOOLEAN]

\* Past its read modify_register is in error unless it holds the byte it has
\* read.  Nothing else keeps an uninitialized value from the slave: the code
\* relies on the pending error to skip the write.
OnlyReadBytes ==
    \A t \in Threads :
        pc[t] \in {"seek_to_write", "write"} /\ ~IsError(ctx[t]) =>
            \E byte \in Bytes : value[t] = {byte}

\* A scan during which nobody else configures the bus has found, of the
\* addresses it tried, only slaves that are there; and all of them, unless it
\* began in error or a slave failed to answer for another reason.  In particular
\* an address at which nobody answers does not hide a later one.
Found(t) ==
    LET tried == {a \in present : a < addr[t]}
    IN  /\ result[t] \subseteq tried
        /\ ~hampered[t] => result[t] = tried

ScanVerdict == \A t \in Threads : pc[t] = "scan" /\ ~reselected[t] => Found(t)

\* When modify_register sets a bit, without an error, on a slave selected with
\* prepare_ptr_data, and nobody uses the bus or the file in the meantime, then
\* its write changes the register it was called for by that bit, and nothing else.
ModifySetsBit ==
    [][\A t \in Threads :
        LET o == options[t]
        IN  /\ pc[t] = "write" /\ pc'[t] = "return" /\ ~IsError(ctx'[t])
            /\ o_flags = "prepare_ptr_data" /\ ~reselected[t] /\ ~moved[t]
            /\ o.value
            => registers' = [registers EXCEPT ![slave][o.location] = @ \cup {o.bit}]]_vars

\* When it is to clear a bit, under the same conditions, its write does the
\* opposite for all the others: the register keeps that bit alone.
ModifyKeepsBit ==
    [][\A t \in Threads :
        LET o == options[t]
        IN  /\ pc[t] = "write" /\ pc'[t] = "return" /\ ~IsError(ctx'[t])
            /\ o_flags = "prepare_ptr_data" /\ ~reselected[t] /\ ~moved[t]
            /\ ~o.value
            => registers' = [registers EXCEPT ![slave][o.location] = @ \cap {o.bit}]]_vars

\* How many more statements a call goes through.
StatementsLeft(t) ==
    LET rounds == LastAddress + 1 - addr[t]
    IN  CASE pc[t] = "idle" -> 0
          [] pc[t] = "return" -> 1
          [] pc[t] = "write" -> 2
          [] pc[t] = "seek_to_write" -> 3
          [] pc[t] = "read" -> 4
          [] pc[t] = "seek_to_read" -> 5
          [] pc[t] = "scan" -> 4 * rounds + 1
          [] pc[t] = "scan_prepare" -> 4 * rounds
          [] pc[t] = "scan_read" -> 4 * rounds - 1
          [] pc[t] = "scan_check" -> 4 * rounds - 2

\* Every statement of scan and modify_register takes the call nearer its end,
\* whatever the requests answer, and no other thread takes it back.
NearerEnd ==
    [][\A t \in Threads :
        pc[t] # "idle" =>
            IF pc'[t] = pc[t] THEN StatementsLeft(t)' = StatementsLeft(t)
            ELSE StatementsLeft(t)' < StatementsLeft(t)]_vars

(***************************************************************************)
(* The inductive invariant: what a scan and a modify_register that nobody  *)
(* interferes with know on their way.                                      *)
(***************************************************************************)
ScanProgress(t) ==
    /\ pc[t] \notin Scanning => addr[t] = 1 /\ result[t] = {}
    /\ pc[t] \in {"scan_prepare", "scan_read", "scan_check"} =>
        /\ addr[t] \in Addresses
        /\ IsError(saved[t]) => hampered[t]
        /\ ~reselected[t] => Found(t)
    /\ pc[t] \in {"scan", "scan_prepare", "scan_read"} /\ IsError(ctx[t]) => hampered[t]
    /\ pc[t] = "scan_read" /\ ~IsError(ctx[t]) /\ ~reselected[t] => slave = addr[t]
    /\ pc[t] = "scan_check" /\ ~reselected[t] /\ ~hampered[t] =>
        (~IsError(ctx[t]) <=> addr[t] \in present)
    /\ pc[t] = "scan_check" /\ ~reselected[t] /\ ~IsError(ctx[t]) => addr[t] \in present

ModifyProgress(t) ==
    /\ pc[t] \in Modifying \ {"return"} => options[t] \in Options
    /\ ~IsError(ctx[t]) /\ ~reselected[t] /\ ~moved[t] =>
        /\ pc[t] \in {"read", "write"} => offset = options[t].location
        /\ pc[t] \in {"seek_to_write", "write"} /\ o_flags = "prepare_ptr_data" =>
            value[t] = {Modified(registers[slave][options[t].location], options[t])}

Progress == \A t \in Threads : ScanProgress(t) /\ ModifyProgress(t)

IInv == TypeOK /\ OnlyReadBytes /\ ScanVerdict /\ Progress

=============================================================================
