-------------------------------- MODULE QSPI --------------------------------
(***************************************************************************)
(* hal::QSPI_FLASH: several threads reading, writing and erasing one flash *)
(* chip.                                                                   *)
(*                                                                         *)
(* The chip takes a command that changes its memory only if it is at rest  *)
(* and if such commands are enabled, which lasts for one command.  It says *)
(* neither that it ignores a command nor that it has finished one: a call  *)
(* polls the status before it goes on.  A write of more than is left of a  *)
(* page would begin the page again, so write_flash writes page by page.    *)
(*                                                                         *)
(* Every request can fail.  Failures are not sticky here, and most of them *)
(* are ignored.  The chip and the driver are external.                     *)
(***************************************************************************)
EXTENDS FlashCalls

CONSTANTS
    Threads,
    m_page_size,
    MAX_ITERATES     \* of write_enable, 10 in the code

ASSUME SizesAssumption ==
    /\ m_page_size \in Nat \ {0}
    /\ MAX_ITERATES \in Nat \ {0}

VARIABLES
    pc,           \* pc[t]: what the call of t does next
    call,         \* call[t]: the call that t is in
    piece,        \* piece[t]: which of its reads or writes t is at
    address,      \* address[t], buff[t], length[t], page_count[t],
    buff,         \*   result[t]: the local variables of read_flash and
    length,       \*   write_flash; length is what is left, and remain is
    page_count,   \*   a part of it
    result,
    i,            \* i[t]: the local variable of write_enable
    buffer,       \* buffer[t]: what bytes the caller's buffer can hold, which is
                  \*   any until they are read
    memory,       \* of the chip, including what it is about to have finished
    busy,         \* the chip is not at rest (write_in_progress_mask)
    enabled,      \* it takes a changing command (write_enabled_mask)
    before,       \* history: before[t]: memory when the call of t began
    disturbed,    \* history: disturbed[t]: others have sent commands since
    faulty        \* history: faulty[t]: a request of t has failed since

locals == <<address, buff, length, page_count, result>>
chip == <<memory, busy, enabled>>
vars == <<pc, call, piece, locals, i, buffer, chip, before, disturbed, faulty>>

Init ==
    /\ pc = [t \in Threads |-> "idle"]
    /\ call = [t \in Threads |-> NoCall]
    /\ piece = [t \in Threads |-> "first"]
    /\ address = [t \in Threads |-> 0]
    /\ buff = [t \in Threads |-> 0]
    /\ length = [t \in Threads |-> 0]
    /\ page_count = [t \in Threads |-> 0]
    /\ result = [t \in Threads |-> 0]
    /\ i = [t \in Threads |-> 0]
    /\ buffer = [t \in Threads |-> Unread]
    /\ memory = Blank
    /\ busy = FALSE
    /\ enabled = FALSE
    /\ before = [t \in Threads |-> Blank]
    /\ disturbed = [t \in Threads |-> FALSE]
    /\ faulty = [t \in Threads |-> FALSE]

-----------------------------------------------------------------------------
(***************************************************************************)
(* The chip.                                                               *)
(***************************************************************************)
\* It comes to rest.
Finish ==
    /\ busy
    /\ busy' = FALSE
    /\ enabled' = FALSE
    /\ UNCHANGED <<pc, call, piece, locals, i, buffer, memory, before, disturbed, faulty>>

\* What page programming at address start with n bytes of data does to byte a:
\* it stays in the page.
Programmed(start, data, n) ==
    LET page == start - (start % m_page_size)
        index(a) == (a - start) % m_page_size
    IN  [a \in Memory |->
            IF a \in page .. page + m_page_size - 1 /\ index(a) < n
            THEN memory[a] \cap Data[data + index(a)]
            ELSE memory[a]]

ErasedAt(a) == [b \in Memory |-> IF b \in Block(a) THEN Bits ELSE memory[b]]

\* A command that makes memory into m is taken or ignored.
Take(m) ==
    IF enabled /\ ~busy
    THEN memory' = m /\ busy' = TRUE /\ UNCHANGED enabled
    ELSE UNCHANGED chip

-----------------------------------------------------------------------------
(***************************************************************************)
(* Requests of t.                                                          *)
(***************************************************************************)
ForOthers(t) == [u \in Threads |-> disturbed[u] \/ (u # t /\ pc[u] # "idle")]

\* A command reaches the chip.
Sent(t) ==
    /\ disturbed' = ForOthers(t)
    /\ UNCHANGED faulty

\* A request fails on its way.
Lost(t) ==
    /\ faulty' = [faulty EXCEPT ![t] = TRUE]
    /\ UNCHANGED <<chip, disturbed>>

\* A request that changes nothing.
Seen == UNCHANGED <<chip, disturbed, faulty>>

Goto(t, next) == pc' = [pc EXCEPT ![t] = next]

\* read_flash, write_flash and erase_block begin with the same poll.
Begin(t) ==
    /\ pc[t] = "idle"
    /\ \E c \in Calls :
        /\ call' = [call EXCEPT ![t] = c]
        /\ address' = [address EXCEPT ![t] = c.address]
        /\ length' = [length EXCEPT ![t] = c.length]
    /\ before' = [before EXCEPT ![t] = memory]
    /\ Goto(t, "poll")
    /\ UNCHANGED <<piece, buff, page_count, result, i, buffer, chip, disturbed, faulty>>

AfterPoll(t) ==
    IF call[t].op = "read" THEN "send"
    ELSE IF call[t].op = "erase" /\ piece[t] = "last" THEN "return"
    ELSE "enable"

\* A variant that looks at the status once.
PollOnce(t) ==
    /\ pc[t] = "poll"
    /\ Seen
    /\ Goto(t, AfterPoll(t))
    /\ i' = [i EXCEPT ![t] = 0]
    /\ UNCHANGED <<call, piece, locals, buffer, before>>

\* while (status_reg & write_in_progress_mask), until it is clear.  A status
\* that could not be read is 0.
Poll(t) ==
    /\ pc[t] = "poll"
    /\ \/ ~busy /\ Seen
       \/ Lost(t)
    /\ Goto(t, AfterPoll(t))
    /\ i' = [i EXCEPT ![t] = 0]
    /\ UNCHANGED <<call, piece, locals, buffer, before>>

\* write_enable(): write_reg(write_enable_command, NULL, 0)
WriteEnable(t) ==
    /\ pc[t] = "enable"
    /\ \/ Lost(t)
       \/ /\ Sent(t)
          /\ enabled' = (enabled \/ ~busy)
          /\ UNCHANGED <<memory, busy>>
    /\ Goto(t, "check")
    /\ UNCHANGED <<call, piece, locals, i, buffer, before>>

\* A variant of write_flash that starts over with the poll.
GiveUpStartOver(t) ==
    IF call[t].op = "write"
    THEN Goto(t, "poll") /\ UNCHANGED result
    ELSE Goto(t, "return") /\ result' = [result EXCEPT ![t] = -1]

\* Not enabled after the last try: write_flash writes all the same.
GiveUp(t) ==
    IF call[t].op = "write"
    THEN Goto(t, "send") /\ UNCHANGED result
    ELSE Goto(t, "return") /\ result' = [result EXCEPT ![t] = -1]

\* A variant that does not count the tries.
TryForever(t) ==
    /\ Goto(t, "enable")
    /\ UNCHANGED <<i, result>>

TryAgain(t) ==
    /\ i' = [i EXCEPT ![t] = @ + 1]
    /\ IF i[t] + 1 < MAX_ITERATES
       THEN Goto(t, "enable") /\ UNCHANGED result
       ELSE GiveUp(t)

\* if (status & write_enabled_mask) break;
CheckEnabled(t) ==
    /\ pc[t] = "check"
    /\ \/ enabled /\ Seen /\ Goto(t, "send") /\ UNCHANGED <<i, result>>
       \/ ~enabled /\ Seen /\ TryAgain(t)
       \/ Lost(t) /\ TryAgain(t)
    /\ UNCHANGED <<call, piece, address, buff, length, page_count, buffer, before>>

-----------------------------------------------------------------------------
(***************************************************************************)
(* Splitting a read or a write at the pages.                               *)
(***************************************************************************)
\* A variant that is one too large within a page.
mergin_off(t) == m_page_size - (address[t] % m_page_size) + 1

mergin(t) == m_page_size - (address[t] % m_page_size)

IsSplit(t) == piece[t] = "first" /\ length[t] > mergin(t)

\* The size of the read or write that t is at.
size(t) ==
    IF IsSplit(t) THEN mergin(t)
    ELSE IF piece[t] = "page" THEN m_page_size
    ELSE length[t]

IsLast(t) == piece[t] # "page" /\ ~IsSplit(t)

\* A variant that does not move the pointer into the buffer.
AdvanceInMemory(t) ==
    /\ address' = [address EXCEPT ![t] = @ + size(t)]
    /\ UNCHANGED buff

Advance(t) ==
    /\ address' = [address EXCEPT ![t] = @ + size(t)]
    /\ buff' = [buff EXCEPT ![t] = @ + size(t)]

\* A variant that rounds the number of pages up.
NextPieceRoundedUp(t) ==
    LET left == length[t] - size(t)
        pages == IF piece[t] = "first"
                 THEN (left + m_page_size - 1) \div m_page_size
                 ELSE page_count[t] - 1
    IN  /\ Advance(t)
        /\ length' = [length EXCEPT ![t] = left]
        /\ page_count' = [page_count EXCEPT ![t] = pages]
        /\ piece' = [piece EXCEPT ![t] = IF pages > 0 THEN "page" ELSE "last"]
        /\ result' = [result EXCEPT ![t] = @ + size(t)]

\* On to the next read or write.
NextPiece(t) ==
    LET left == length[t] - size(t)
        pages == IF piece[t] = "first" THEN left \div m_page_size ELSE page_count[t] - 1
    IN  /\ Advance(t)
        /\ length' = [length EXCEPT ![t] = left]
        /\ page_count' = [page_count EXCEPT ![t] = pages]
        /\ piece' = [piece EXCEPT ![t] = IF pages > 0 THEN "page" ELSE "last"]
        /\ result' = [result EXCEPT ![t] = @ + size(t)]

\* To the next piece by way of next, or to the end with the result.
Continue(t, next, last) ==
    IF IsLast(t)
    THEN /\ Goto(t, "return")
         /\ result' = [result EXCEPT ![t] = last]
         /\ UNCHANGED <<piece, address, buff, length, page_count>>
    ELSE Goto(t, next) /\ NextPiece(t)

\* read(): a chip that is not at rest puts out anything.
ReadPiece(t) ==
    /\ pc[t] = "send"
    /\ call[t].op = "read"
    /\ \/ /\ Lost(t)
          /\ Continue(t, "send", IF piece[t] = "first" THEN 0 ELSE result[t] + size(t))
          /\ UNCHANGED buffer
       \/ /\ Seen
          /\ Continue(t, "send", result[t] + size(t))
          /\ buffer' = [buffer EXCEPT ![t] = [k \in Buffer |->
                IF k \in buff[t] .. buff[t] + size(t) - 1
                THEN IF busy THEN Bytes ELSE {memory[address[t] + k - buff[t]]}
                ELSE buffer[t][k]]]
    /\ UNCHANGED <<call, i, before>>

\* A variant that polls before the first write only.
WriteAtOnce(t) ==
    /\ pc[t] = "send"
    /\ call[t].op = "write"
    /\ \/ Lost(t)
       \/ Sent(t) /\ Take(Programmed(address[t], buff[t], size(t)))
    /\ Continue(t, "enable", result[t] + size(t))
    /\ i' = [i EXCEPT ![t] = 0]
    /\ UNCHANGED <<call, buffer, before>>

\* write(): with nothing to write, the chip may or may not keep its latch.
\* The result of a write that fails is lost.
WritePiece(t) ==
    /\ pc[t] = "send"
    /\ call[t].op = "write"
    /\ \/ Lost(t)
       \/ Sent(t) /\ size(t) > 0 /\ Take(Programmed(address[t], buff[t], size(t)))
       \/ Sent(t) /\ size(t) = 0 /\ enabled' \in {enabled, busy /\ enabled} /\ UNCHANGED <<memory, busy>>
    /\ Continue(t, "poll", result[t] + size(t))
    /\ UNCHANGED <<call, i, buffer, before>>

\* write_reg(command, address, FLAG_IS_REGISTER_WIDTH_32)
Erase(t) ==
    /\ pc[t] = "send"
    /\ call[t].op = "erase"
    /\ \/ Lost(t)
       \/ Sent(t) /\ Take(ErasedAt(address[t]))
    /\ piece' = [piece EXCEPT ![t] = "last"]
    /\ Goto(t, "poll")
    /\ UNCHANGED <<call, locals, i, buffer, before>>

Return(t) ==
    /\ pc[t] = "return"
    /\ Goto(t, "idle")
    /\ call' = [call EXCEPT ![t] = NoCall]
    /\ piece' = [piece EXCEPT ![t] = "first"]
    /\ address' = [address EXCEPT ![t] = 0]
    /\ buff' = [buff EXCEPT ![t] = 0]
    /\ length' = [length EXCEPT ![t] = 0]
    /\ page_count' = [page_count EXCEPT ![t] = 0]
    /\ result' = [result EXCEPT ![t] = 0]
    /\ i' = [i EXCEPT ![t] = 0]
    /\ buffer' = [buffer EXCEPT ![t] = Unread]
    /\ before' = [before EXCEPT ![t] = Blank]
    /\ disturbed' = [disturbed EXCEPT ![t] = FALSE]
    /\ faulty' = [faulty EXCEPT ![t] = FALSE]
    /\ UNCHANGED chip

CallStep(t) ==
    \/ Poll(t) \/ WriteEnable(t) \/ CheckEnabled(t)
    \/ ReadPiece(t) \/ WritePiece(t) \/ Erase(t) \/ Return(t)

Next == Finish \/ \E t \in Threads : Begin(t) \/ CallStep(t)

Spec == Init /\ [][Next]_vars

\* A thread in a call runs on, and the chip comes to rest.
FairSpec ==
    /\ Spec
    /\ \A t \in Threads : WF_vars(CallStep(t))
    /\ WF_vars(Finish)

-----------------------------------------------------------------------------
(***************************************************************************)
(* Properties.                                                             *)
(***************************************************************************)
\* The types of the variables.
TypeOK ==
    /\ pc \in [Threads -> {"idle", "poll", "enable", "check", "send", "return"}]
    /\ call \in [Threads -> Calls \cup {NoCall}]
    /\ piece \in [Threads -> {"first", "page", "last"}]
    /\ address \in [Threads -> 0 .. MemorySize]
    /\ buff \in [Threads -> 0 .. MaxLength]
    /\ length \in [Threads -> 0 .. MaxLength]
    /\ page_count \in [Threads -> 0 .. MaxLength]
    /\ result \in [Threads -> -1 .. MaxLength]
    /\ i \in [Threads -> 0 .. MAX_ITERATES]
    /\ buffer \in [Threads -> [Buffer -> SUBSET Bytes]]
    /\ memory \in [Memory -> Bytes]
    /\ busy \in BOOLEAN
    /\ enabled \in BOOLEAN
    /\ before \in [Threads -> [Memory -> Bytes]]
    /\ disturbed \in [Threads -> BOOLEAN]
    /\ faulty \in [Threads -> BOOLEAN]

InCall(t) == pc[t] # "idle"

\* Whatever fails and whoever interferes, a byte changes only to what a call
\* under way is to make of it: no write leaves its range by the beginning of a
\* page, and no byte of the buffer goes to the place of another.
OnlyWhatIsAsked ==
    [][\A a \in Memory :
        memory'[a] # memory[a] =>
            \E t \in Threads : InCall(t) /\ memory'[a] = Asked(call[t], a, memory[a])]_vars

Smooth(t) == ~disturbed[t] /\ ~faulty[t]

ChangeDone(t) ==
    pc[t] = "return" /\ Smooth(t) /\ call[t].op # "read" =>
        /\ \A a \in Memory : memory[a] = Asked(call[t], a, before[t][a])
        /\ result[t] = IF call[t].op = "write" THEN call[t].length ELSE 0
        /\ call[t].op = "erase" => ~busy

ReadDone(t) ==
    pc[t] = "return" /\ Smooth(t) /\ call[t].op = "read" =>
        /\ result[t] = call[t].length
        /\ \A k \in 0 .. call[t].length - 1 :
            buffer[t][k] = {memory[call[t].address + k]}

\* A write_flash or erase_block that returns without a fault, and that no other
\* thread's command came into, has changed every byte it was to change: the
\* chip has ignored none of its commands.
ChangeComplete == \A t \in Threads : ChangeDone(t)

\* A read_flash that returns in the same circumstances has filled the buffer
\* with what the chip holds, each byte in its place.
ReadComplete == \A t \in Threads : ReadDone(t)

\* A call returns, also if requests fail.
Returns == \A t \in Threads : InCall(t) ~> ~InCall(t)

\* How many bytes, or commands, of its call t has still to go before the piece
\* that is its last.
Left(t) ==
    IF InCall(t) /\ call[t].op = "erase"
    THEN IF piece[t] = "first" THEN 1 ELSE 0
    ELSE length[t]

\* What is left to do for a piece, counted in steps.
StepsInPiece(t) ==
    CASE pc[t] = "idle" -> 0
      [] pc[t] = "return" -> 1
      [] pc[t] = "send" -> 2
      [] pc[t] = "check" -> 1 + 2 * (MAX_ITERATES - i[t])
      [] pc[t] = "enable" -> 2 + 2 * (MAX_ITERATES - i[t])
      [] pc[t] = "poll" -> 3 + 2 * MAX_ITERATES

StepsLeft(t) == (3 + 2 * MAX_ITERATES) * Left(t) + StepsInPiece(t)

\* Every step of a call takes it nearer its return, also if requests fail, and
\* nobody else takes it away from there: only a chip that never comes to rest
\* keeps a caller.
NearerReturn ==
    [][\A t \in Threads :
        IF CallStep(t)
        THEN StepsLeft(t)' \in 0 .. StepsLeft(t) - 1
        ELSE InCall(t) => StepsLeft(t)' = StepsLeft(t)]_vars

(***************************************************************************)
(* The contract of the flash memory, implemented.                          *)
(***************************************************************************)
Contract == INSTANCE FlashContract WITH
    value <- [t \in Threads |-> IF pc[t] = "return" THEN result[t] ELSE 0],
    clean <- [t \in Threads |-> Smooth(t)]

\* Every step of the code is a step of the contract, or none.
ImplementsContract == Contract!Spec

(***************************************************************************)
(* The inductive invariant.                                                *)
(***************************************************************************)
\* Where a call is.
Splitting(t) ==
    LET c == call[t]
    IN  /\ InCall(t) <=> c \in Calls
        /\ ~InCall(t) => piece[t] = "first" /\ buff[t] = 0 /\ result[t] = 0
        /\ pc[t] \in {"enable", "check"} => i[t] < MAX_ITERATES /\ c.op # "read"
        /\ InCall(t) /\ c.op = "erase" =>
            /\ piece[t] # "page"
            /\ address[t] = c.address
            /\ pc[t] # "return" => result[t] = 0
            /\ pc[t] \in {"enable", "check", "send"} => piece[t] = "first"
        /\ InCall(t) /\ c.op # "erase" =>
            /\ address[t] = c.address + buff[t]
            /\ buff[t] + length[t] = c.length
            /\ pc[t] # "return" => result[t] = buff[t]
            /\ piece[t] = "first" => buff[t] = 0
            /\ piece[t] = "page" =>
                page_count[t] > 0 /\ page_count[t] = length[t] \div m_page_size
            /\ piece[t] = "last" => length[t] < m_page_size
            /\ piece[t] # "first" => address[t] % m_page_size = 0

\* What a call without faults and interference has done so far, to byte a.
SoFar(t, a) ==
    LET c == call[t]
        done == \/ pc[t] = "return"
                \/ c.op = "write" /\ a < address[t]
                \/ c.op = "erase" /\ piece[t] = "last"
    IN  IF done THEN Asked(c, a, before[t][a]) ELSE before[t][a]

SmoothProgress(t) ==
    LET c == call[t]
    IN  InCall(t) /\ Smooth(t) =>
            /\ pc[t] \in {"enable", "check", "send"} => ~busy
            /\ pc[t] = "check" => enabled
            /\ pc[t] = "send" /\ c.op # "read" => enabled
            /\ \A a \in Memory : memory[a] = SoFar(t, a)
            /\ c.op = "read" => \A k \in 0 .. buff[t] - 1 : buffer[t][k] = {memory[c.address + k]}

IInv ==
    /\ TypeOK
    /\ ChangeComplete /\ ReadComplete
    /\ \A t \in Threads : Splitting(t) /\ SmoothProgress(t)

=============================================================================
