# HalAPI in TLA+

HalAPI (`src/library`) is a C++ library that gives programs on Stratify OS, and
programs on a computer linked to such a device, classes for its hardware: a
class per kind of device file (`Pin`, `I2C`, `Drive`, `Flash`, ...), all derived
from `hal::DeviceAccess`.  This directory holds TLA+ modules of the parts of the
library that have behaviour, the configurations that check them with TLC, and
proofs about them that TLAPS checks.

## 1. Inventory

Every call of the library runs in the **error context** of its thread, which
belongs to the API framework (`api::ExecutionContext`, not in this repository).
A failing system call leaves a negative result there.  It is sticky: every later
call of the thread is skipped until the thread resets its context.  Two hazards
run through the whole library because of it: a call that is skipped leaves its
out-parameter uninitialized, and a clean-up that is itself a call does not
happen after an error.

| Part | State | Operations | Interacts with | Hard behaviour |
| --- | --- | --- | --- | --- |
| Device (`Device.hpp/.cpp`) | the device file; the `fs::Aio`s handed to the driver | `read(aio)`, `write(aio)`, `cancel*`, `transfer`, `set_signal_action`, `set_interrupt_priority` | driver queue and interrupt handler, other threads on the file | the driver keeps pointers to `Aio`s and writes through them later; `transfer` polls, without a timeout, for an answer that anybody may cancel |
| DeviceSignal (`DeviceSignal.hpp`) | signal context inside the object | `create_action` | driver (keeps a pointer), the thread that created it | lifetime of the pointer; signals after the thread is gone |
| Drive (`Drive.hpp/.cpp`) | offset of an erase, the drive's busy state | `erase_device`, `erase_blocks`, `protect`, `unprotect`, `reset`, `is_busy`, `get_info` | drive, which works while the caller waits | wrap-around of `u32`, errors in the middle, waiting |
| Pin (`Pin.hpp/.cpp`) | configuration and level of a pin, open pulses | `set_input`, `set_output`, `set_value`, `get_value`, `is_floating`, `PulseScope` | driver, circuit outside, other threads | five separate requests of a probe; the reset of a pulse in error |
| I2C (`I2C.hpp/.cpp`) | slave selected on the bus, file offset | `prepare`, `read`, `write`, `scan`, `modify_register`, `reset` | bus shared by threads, slaves | the selection and the offset belong to the bus and the file, not to the call; read-modify-write in separate calls |
| Flash (`Flash.hpp/.cpp`) | the list it builds; the memory's pages | `get_page_info` (one page, all), `write_page`, `erase_page` | driver, `api::ErrorScope` | two passes over the pages, each ended by an error that must not stay |
| FrameStream, FrameBuffer | `Info` holds pointers into itself | `start`, `stop`, `flush`, `get_info` | driver | copies of `Info`, and what they still point to |
| Timer, Gpio, Adc, Pwm, Spi, I2S, Uart, Usb, ByteBuffer | an `Attributes` object each; the device's configuration | `set_attributes`, commands, getters, one request each; accessors of the driver's structures; printers | driver | whole structures are handed over, members that nobody has set included; getters return locals of requests that were skipped |
| QSPI flash (`QSPI.cpp`) | the chip's latch, busy state and memory | `read_flash`, `write_flash`, `erase_block`, `write_enable`, and configuration of the chip | chip, other threads | splitting at pages; a chip that ignores commands silently; polling |
| Periph (`Periph.cpp`), Core (`Core.cpp`) | a static table of descriptors, without lock or count | `open`, `close`, `read`, `write`, `ioctl`, `seek`; `Core::get_info` | all objects of a port share a descriptor; the process's other descriptors | who closes, closes for all; between a look into the table and its use anything happens |
| phylib util (`util_c.c`) | a table of open ports | `phylib_util_open`, `phylib_util_close` | the same descriptors | a number that was closed is given to somebody else |
| Switchboard (`Switchboard.cpp`) | connections of a device, offset of the open file | find, make, count, print, get, destroy connections | threads on the file, other users of the device | find, then take; an offset that is everybody's |
| Dac, Rtc, Tmr, Emc, Eint, Dev, Led, ByteBufferArray | none | one request per call | driver | none of their own |

QSPI and the parts below it belong to an older interface: they are not part of
the build (`src/library/src/CMakeLists.txt`), and their headers are gone.

What makes each part correct, in a sentence: a transfer that reports success has
sent its source and holds the answer to *its own* read, and nothing the driver
holds points to dead memory; an erase that reports success has erased the whole
drive and left it at rest, or has told a drive that erases itself to, which is
then still at it; a command of its loop never finds the drive busy with the one
before; a probe that reports without an
error says whether the pin is driven; a pulse ends; a scan reports the slaves
that are there; modifying a register changes one bit; a write to a flash chip
changes its range, all of it, and nothing else; the list of pages is complete,
and no error stays behind; the driver reads no signal context that is gone; what
`receive()` of an `Info` says is of the same record as the `Info`; no device is
configured with what nobody has chosen; a request goes to the device that the
object was opened for; a connection that is taken was nobody's.

`PROJECT.json` lists the hazards line by line, with the property that would
notice each of them.

## 2. Modules

| Module | Models |
| --- | --- |
| `ExecutionContext` | the error context, from the way this code relies on it: an integer per thread, negative for a sticky error |
| `TransferContract` | the abstract specification: what a caller of `transfer` is promised |
| `Device` | asynchronous I/O, cancelling and `transfer` by several threads, with the driver's queue |
| `DeviceProofs` | theorems about `Device`, and that it implements `TransferContract` |
| `Drive`, `DriveProofs` | erasing; theorems |
| `Pin`, `PinProofs` | probing and pulses by several threads; theorems |
| `I2C`, `I2CProofs` | scanning a bus and modifying a register of a slave, by several threads; theorems |
| `FlashCalls` | the calls of a `QSPI_FLASH`, and what each asks for |
| `FlashContract` | the abstract specification: what a caller of a `QSPI_FLASH` is promised |
| `QSPI`, `QSPIProofs` | reading, writing and erasing a flash chip page by page, by several threads; theorems, and that it implements `FlashContract` |
| `Periph`, `PeriphProofs` | the table of descriptors, `Core::get_info` and `util_c.c`, an action per access to what threads share; theorems |
| `Switchboard`, `SwitchboardProofs` | the connections of a switchboard, found and taken by several threads; theorems |
| `Context` | the error contexts of the threads, for the four modules that follow |
| `DeviceSignal` | objects whose context the driver reads when an event comes |
| `FrameStream` | `Info` objects, copies, and what their pointers point to |
| `Flash` | the loop of `get_page_info` |
| `Settings` | class by class, where each member of a configuration and each result of a getter comes from |
| `Application`, `ApplicationProofs` | composes these four; theorems about them |
| `MCDevice`, `MCDrive`, `MCPin`, `MCI2C`, `MCQSPI`, `MCPeriph`, `MCSwitchboard`, `MCApplication` | instances for TLC |

Each module states its types, the code's calls as actions, the specification,
and then its properties, each with the behaviour it is about.  A call that the
environment cannot observe half-done is one action; a call that makes several
requests is an action per request, with `pc` at the statement it has reached,
because other threads and the driver run between requests.  Every request is
skipped (pending error), refused (fails now) or taken, whichever the state
allows: errors are possible everywhere.

### Device

`aio[a]` is the state of the `fs::Aio` at address `a`: an address is a caller's
own `Aio` (named by its thread) or a stack address (`Frames`) at which a
`transfer` puts one.  Stack addresses are reused, which is the point: the driver's
`queue` holds pointers, and `Conclude` writes through them whatever lives there
by then, unless it is nobody's memory, where the write is of no consequence to
the model (and recorded as a violation of `AioOutlivesRead` before it happens).

| Code | Actions |
| --- | --- |
| `read`, `write`, `cancel`, `cancel_read`, `cancel_write` | `Read`, `Write`, `Cancel`, `CancelRead`, `CancelWrite` |
| `transfer_implementation` | `TransferBegin`, `TransferRead`, `TransferWrite`, `TransferPoll`, `TransferWait`, `TransferReturn` |
| driver's interrupt handler | `Complete` |
| reset of the context by the caller | `ResetError` |

`U8` is kept: `u8(channel)` makes a cancel of channel 256 a cancel of channel 0,
which includes the reads of transfers under way.  One assumption is made about
callers: they do not pass an `Aio` that is still busy.

`abandoned` is a history variable: some transfer returned with its read queued.
The code really does that when the write fails after the read was taken (finding
1), and from then on nothing can be promised: a stale completion can end another
thread's `transfer`.  The properties say exactly what holds until then.

### TransferContract

Loans and returns: a transfer lends its destination before it sends, sends once,
and may report success only with the destination returned.  Leaving with a loan
outstanding breaks the contract for everybody (`Undefined`).  The refinement
mapping is in `Device` (`LoanOf`, `Contract`).

### Drive

The offset is a `u32` (`Modulus` stands for 2^32) that advances by what the
driver returns, which is -1 for every skipped call, so after an error the loop of
`erase_device` counts down and ends by wrapping around (`EraseNext`).  `info` is
what `get_info()` returned, garbage if the request failed.  `Size` multiplies in
32 bits, as the code does; `Capacity` is what the drive really holds.  The
external drive erases what it said it would (`FinishErase`) at any later time.
The end of the range that a command names is left out: the driver returns how much
it erases.

`erase_device` returns without an error in two ways, and they do not mean the
same.  At the end of the loop everything is erased and the drive is at rest.  A
drive that erases itself has only taken the command (`Drive.cpp:34-36`): the call
does not wait as the loop does, and everything is erased *or still being erased*.
`EraseSuccess` is about both, so that nobody reads more into the success of a call
on a drive of the second kind.

| Code | Actions |
| --- | --- |
| `erase_device` | `EraseDevice`, `GetInfo`, `EraseAll`, `EraseNext`, `StillBusy`, `NotBusy`, `Wait`, `EraseDeviceDone` |
| `erase_blocks`; `set_attributes` that erases all | `erase_blocks`; `set_attributes` |
| `protect`, `unprotect`, `reset` and what erases nothing either | `Protection` |

### Pin

`Levels` is what a read can see: what the pin puts out, what drives it, what
pulls it, or noise.  `get_value` returns any value when its request is skipped or
refused, as `value` is not initialized there.  `disturbed` is a history variable: the pin was reconfigured by another
thread, or driven differently, since this thread's probe began.

| Code | Actions |
| --- | --- |
| `set_input`, `set_output`, `set_value` | `Input`, `Output`, `SetValue` |
| `PulseScope::PulseScope`, `PulseScope::deleter` | `OpenScope`, `CloseScope` |
| `is_floating` | `ProbeBegin`, `ProbePullUp`, `ProbeReadUp`, `ProbePullDown`, `ProbeReadDown`, `ProbeRestore` |
| outside circuit | `ExternalChange` |

### I2C

The slave that transfers are for (`slave`) and how it was selected (`o_flags`)
belong to the bus, the `offset` to the file: both outlive the call that set
them, and a `scan` leaves the last address it tried selected.  A transfer of a
byte moves the offset or leaves it, as the driver likes.  Selected with
`prepare_ptr_data`, a slave transfers the register at the offset; with
`prepare_data`, any register it likes.  `value[t]` is the set of bytes that the
local variable of `modify_register` can hold: every byte until the read has
assigned it, so that a write of an uninitialized byte would be seen.

`api::ErrorScope` is not in this repository.  It is modelled from its use in
`scan`, where the loop relies on it: after its constructor requests are possible
again if it resets the error, or stay impossible if it only remembers it, and its
destructor leaves the context as it was found or without an error.  All four
combinations are allowed.

`reselected[t]` and `moved[t]` are history variables: during the call of `t`,
others have configured the bus, or have moved the offset or written.  `hampered[t]`
is another: the scan began with an error pending, or a request failed that a
slave would have answered.

| Code | Actions |
| --- | --- |
| `prepare`; `set_attributes`, `reset`; `seek`; `read`; `write` | `Prepare`; `Configure`; `Seek`; `Read`; `Write` |
| `scan` | `ScanBegin`, `ScanOpenScope`, `ScanPrepare`, `ScanRead`, `ScanCloseScope` |
| `modify_register` | `ModifyBegin`, `ModifySeekToRead`, `ModifyRead`, `ModifySeekToWrite`, `ModifyWrite` |
| return of either; reset of the context by the caller | `Return`; `ResetError` |

What `modify_register` does when it clears a bit is in the model (`Modified`).
`ModifyKeepsBit` says what comes of it, and nothing in the repository says whether
it should: see the remarks in section 5.

### QSPI

The chip takes a changing command only at rest and with its latch set, and says
neither that it ignored a command nor that it is done (`Take`, `Finish`).  Its
page programming stays in the page and begins it again at its end (`Programmed`);
writing clears bits, erasing sets them.  `memory` includes what a command under
way will have done: nothing can be read meanwhile, since a read of a busy chip
puts out anything.

The local variables of `read_flash` and `write_flash` have their names;
`piece[t]` is which of their reads or writes a call is at: the one before the
loop, one in it, or the one after it, which may be of no bytes.  `length` is
`length` less what the loop has done, so that `remain` is a part of it.  The
locals are `u16` and hold what the callers ask for, 65535 at most, as does their
sum: nothing wraps.  `buffer[t]` are sets of bytes, like `value` in `I2C`.

Requests fail at any time (`Lost`), and failures are not sticky in this older
interface: a status that cannot be read is 0, which ends a poll, and a write that
fails, or is not enabled, counts as done.  `disturbed[t]` and `faulty[t]` are
history variables: another thread's command reached the chip, or a request
failed, during the call of `t`.  `before[t]` is the memory when it began.

| Code | Actions |
| --- | --- |
| the calls; the poll of the status | `Begin`, `Return`; `Poll` |
| `write_enable` | `WriteEnable`, `CheckEnabled` |
| `read_flash`, `write_flash`, `erase_block` | `ReadPiece`, `WritePiece`, `Erase` |
| the chip | `Finish` |

### FlashCalls and FlashContract

`FlashCalls` has what the contract and the code have in common: the memory, the
calls, and what a call asks of a byte (`Asked`).  The contract knows no status, no
latch and no page: a call is commands, each of which does to some bytes of the
memory what the call asks for, and nothing to any other; a *clean* call, one that
no failing request and no foreign command came into, reads what the memory holds
and returns when all is done, with the right value.  `clean` is `Smooth` of
`QSPI`, and `value` is its `result` once the call is about to return; the rest is
the same state.  Polls, enabling and what a busy chip ignores are stutters or a
`Request`; a page that wraps around, a byte written twice with another value or
left out, or a return while a command is ignored would be no step of it.

### Periph

`m_fd_map[f]` is the port that the static table lists descriptor `f` for, `file[f]`
the device file that it is really open on.  The code's statements between two
accesses to the table or to the process's descriptors are one action, so that
any other object can look, open or close in between.  `FileName` is what `open`
makes of a port: two types can have one name, and every real-time clock is the
same file.  `Core::get_info` has a local `Core` object, which is an object whose
`temporary` is set from `GetInfo` until its destructor has closed it.

`lost[o]` is a history variable: another object has closed `o`'s descriptor
since `o` got it.  `exposed[o]` is, that it did so between `o`'s look into the
table and the use of what `o` found; and `raced`, that an exposed object went on
and closed the descriptor, too, which by then may be anybody's.  The table is
said to be true until then.

| Code | Actions |
| --- | --- |
| `PeriphObject::open` | `Open`, `OpenDevice`, `Enter` |
| `PeriphObject::close` | `CloseBegin`, `Clear`, `CloseDevice` |
| `read`, `write`, `ioctl`, `seek` | `RequestBegin`, `Request` |
| `Core::get_info` | `GetInfo`, and the above |
| `phylib_util_open`, `phylib_util_close` | the same |

One assumption is made about the user of `util_c.c`: it closes no port before it
has opened one.  (Its table is static, and all zero until then: the close would
close descriptor 0.)

### Switchboard

A call goes through the statuses of the device by reading on at the offset of
the file, counts what it reads in a local variable, and takes the number it has
counted to for the number of the connection it read: `id[t]` and the offset agree
only while nobody else moves the offset.  `moved[t]` (the offset) and
`changed[t]` (the connections) are the history of that.  What can become of others
when it happens is in `PersistentStays`: their persistent connections can be
replaced, in no other way than this one, or destroyed by name.

`get_connection(u16)` seeks to any number that it is passed: `Connections` stands
for all of those that are past the last status.  It counts in units of
`switchboard_connection_t`, where the loops read a `switchboard_status_t`; the two
are the same in the model.  If they differ in size, a search that shares the file
may also read parts of two statuses, after the seek of another thread: it is
`moved` then, and no property is about what it finds.

| Code | Actions |
| --- | --- |
| `open`; `get_connection`; `destroy_connection` | `Open`; `GetSeek`, `GetRead`; `destroy_connection` |
| `get_available_connection` and the calls that make a connection | `SeekFirst`, `FindBusy`, `FindFree`, `FindNothing`, `create_persistent_connection`, `create_fixed_size_connection`, `Refused` |
| `get_active_connection_count` | `SeekFirst`, `CountStatus`, `CountEnd` |
| `print_connections` | `SeekFirst`, `PrintStatus`, `PrintEnd` |
| the device | `Ends` |

### Context and Application

The threads of an application use devices of one kind (`used`).  The kinds share
nothing but the contexts of their threads, and what another device does to a
context a failing request of the same device could do: one kind at a time is all
there is to see.  Each of the four modules has its variables, an `Init` and a
step; `Application` says that the step of one leaves the variables of the others
alone.

### DeviceSignal

`handler[c][e]` is the address that the driver reads when event `e` of channel `c`
comes.  `set_signal_action` puts the address of the context inside of an object
there, `cancel` takes it out, and an event does, if the context is not persistent.
`expected[s]` is what the caller of `set_signal_action` knows of all this.  The
model has the one assumption that the pointer asks for: an object is destroyed
only after its events were cancelled without an error, or have come.

`cancel` is `Device::cancel_implementation`, which cuts its two ints to `u8`: flags
from the ninth on are never cancelled, and the property is about the first eight,
while `set_signal_action` takes 32; and a channel of 256 or more takes the handlers
of another channel out, of which the caller has said nothing (`CancelChannels`).

| Code | Actions |
| --- | --- |
| constructor, the end of an object | `CreateSignal`, `DestroySignal` |
| `create_action`, `set_signal_action` | `create_action`, `set_signal_action` |
| `cancel`, `cancel_read`, `cancel_write`; `set_interrupt_priority` | `cancel`; `set_interrupt_priority` |
| the driver's event | `DeviceEvent` |

### FrameStream

`m_receive[o]` is the object that the `ChannelInfo`s of the `Info` at `o` point
into.  The constructor points them into itself; the implicit copy operations copy
the pointers.  `detached` is a history variable, of the objects of which nothing
can be said: they were assigned from a temporary (`info = stream.get_info()`,
whose pointers dangle at the semicolon), or what they were copied from has gone
or was assigned.

| Code | Actions |
| --- | --- |
| `auto info = stream.get_info()` | `NewInfo` |
| `info = stream.get_info()`; copies; the end of an object | `AssignInfo`; `CopyInfo`; `DestroyInfo` |
| `start`, `stop`, `flush`, `set_attributes` | `StreamRequest` |

### Flash

One action per statement of the loop.  `hampered[t]` is a history variable: an
error was pending when the call began, or a request for a page that exists
failed.  `ErrorScope` is modelled as in `I2C`, with all four combinations.

| Code | Actions |
| --- | --- |
| `get_page_info()` | `ListBegin`, `ListOpenScope`, `ListPage`, `ListNoPage`, `ListCloseScope` (with the loop's condition, and the second pass), `ListReturn` |
| the calls of one request | `FlashRequest` |

### Settings

`Library` has a record per class: which members of its structure are pins, which
its `Attributes()` presets and with what flags, what is in the others, the flags
that make the driver take the structure, and what the local variable of each
getter holds before the request.  A value is where it comes from: `preset`,
`given`, `board`, `unassigned` (0xff), `zero`, `garbage`.  The actions are the same for
every class.  The driver is handed a structure and, if a flag says so, takes all
its members; that the driver chooses by flags is how the classes use it
(`Flags` in each header, and commands like `assert_cs`).

| Code | Actions |
| --- | --- |
| `Attributes()`; `set_...` of a member; `set_flags`, `set_start` and the like | `NewAttributes`; `SetMember`; `SetFlags`, `AddFlag` |
| `Adc::Attributes::set_group_channel` | `set_group_channel` |
| `set_attributes(attributes)`, without an argument; `Gpio::assign` | `SetAttributes`, `SetDefault`; `assign` |
| `assert_cs`, `deassert_cs`, `attach`, `configure`, `start`, ... | `Command` |
| `get_info`, `get_value`, `get_channel`, `get` | `Get` |
| `enable`, `put`, `flush`, `mute`, ... | `SettingRequest` |

Definitions introduced by a comment "A variant ..." are not part of any
specification.  They are what a plausible slip would have made of the definition
that follows them; replacing that definition by its variant violates the property
that `PROJECT.json` names next to it, which shows that the property notices.

## 3. Runs

`tlc -config <run>.cfg <module>` repeats any of them.

| Run | Module | Question | Outcome |
| --- | --- | --- | --- |
| `transfer` | `MCDevice` | does each transfer wait for its own read, does it leave one behind only after a failed write, do all steps follow the contract, and does a transfer return? | holds, the last under the fairness below |
| `transfer_lifetime` | `MCDevice` | does the `Aio` live until its read completes (`Device.cpp:48`)? | violated, finding 1 |
| `drive_erase` | `MCDrive` | what does the success of `erase_device` mean, on either of its ways, and does it return? | holds: erased and at rest for drives that fit, erased or being erased for drives that erase themselves |
| `pin` | `MCPin` | is the verdict of an undisturbed probe right? | holds |
| `i2c` | `MCI2C` | does a scan find the slaves that are there, does setting a bit change that bit only, and is nothing uninitialized written? | holds |
| `qspi` | `MCQSPI` | do threads that share a chip keep the contract, whatever comes between their requests, does no call ever change anything but its range, and does every step take a call nearer its return, whatever the other thread does? | holds |
| `qspi_alone` | `MCQSPI` | does a call without faults achieve all it was called for, for every range, and does it return? | holds, the last under the fairness below |
| `pulse_scope` | `MCPin` | does leaving a pulse reset the pin (`CHANGES.md:20`)? | violated, finding 2 |
| `ports` | `MCPeriph` | does the table of descriptors tell the truth, and do requests reach their own device and nobody else's? | holds |
| `ports_stale` | `MCPeriph` | is a descriptor that is "no longer valid" given up (`Periph.cpp:76`)? | violated, finding 3 |
| `switchboard` | `MCSwitchboard` | does an undisturbed search find the first free connection, is `ENOSPC` true and the count right, is a persistent connection lost only to a disturbed search or by name, and do calls return? | holds, the last under the fairness below |
| `application` | `MCApplication` | does the driver read only contexts that are alive, do the pointers of an `Info` stay right, is the list of pages complete, and where do configurations and results come from? | holds |

**Bounds.**
*Device*: two threads, two stack addresses and two queue entries: both threads in
`transfer` at once, a request that is stale or of `read()` beside that of a
`transfer`, and a full queue, at which reads can only fail.  `transfer_lifetime`
has three entries; larger queues are what the theorems are for.  Channels 0 and
256 are the one that `transfer` uses, and one that `u8` turns into it.
*Drive*: `u32` is 0..5, a command erases one or two bytes.  The drives are an
empty one, an ordinary one, one whose last command can wrap the offset, one of
exactly 2^32 (`Size` 0), one of more (`Size` a part), and one that erases itself;
this is every relation of capacity, `Size` and wrap-around the code can meet.
*Pin*: two threads, one pulse each at a time; two nested pulses of one thread in
`pulse_scope`.
*I2C*: two threads, each in any call; an absent slave before a present one, and
two slaves; two registers of two bits, so that a transfer that moves the offset
leads to a wrong register and to a wrong slave's one.  Setting the one bit that
is clear tells every wrong write from the right one.
*QSPI*: pages of two bytes.  Two threads with a write in three pieces (a part of a
page, a page, a part), a read and an erase in `qspi`; one thread with every range
of five bytes in `qspi_alone`, which has every position in a page, every number
of pages up to the buffer's, and nothing remaining.  `write_enable` tries twice
instead of ten times: once, again, and the end of the tries.
*Periph*: two descriptors, for two objects of the core (one of which can be
`get_info`'s own), one object of another port of the same type, and one port of
`util_c.c`: three files that want two descriptors, so that every number is
closed and reused.  The two objects of one port are interchangeable.
*Switchboard*: two connections, two threads that share a file, and one that has
its own: a search that passes a busy connection, one that finds none, and both
ways of being disturbed.
*Application*: two threads; two signals on two channels, with an event on either
side of the eighth bit; three `Info`s, for a copy of a copy; memories of no to
three pages; and one member of an `Attributes` object set by the caller, as
members do not depend on one another.

**Fairness.** `Device`: a thread inside `transfer` is scheduled (it is in code
that blocks only in `wait`), and the driver concludes every request.  The second
is an assumption about devices, not about this code: `transfer` has no timeout,
and a device that never answers makes it wait until somebody cancels.  Nothing
obliges a caller to make a call.  `QSPI`: a thread in a call runs on, and the chip
comes to rest.  Its run is of one thread, because a thread that polls can starve
while others keep the chip busy: the code has no turn-taking.  `Drive`: the caller inside `erase_device` runs
on, and a drive does not stay busy for ever.  `EraseReturns` is limited to drives
and erase counts (`Fitting`) for which the offset does not wrap and every command
erases something; without it the loop really can run for ever.  `Switchboard`: a
thread in a call runs on.  Its liveness is limited to a thread whose file nobody
shares: of two threads on one file each can take the other's offset back to the
beginning, for ever.

## 4. Theorems

For all values of the constants, from the assumptions stated in the modules
(`FramesAssumption`, `ChannelsAssumption`, `ModulusAssumption`,
`GeometriesAssumption`, `EraseCountsAssumption`, `MaxScopesAssumption`, of
`I2C` `BoundsAssumption`, `PopulationsAssumption`, `ContentsAssumption`,
`OptionsAssumption`, of `QSPI` `SizesAssumption`, of `FlashCalls`
`MemoryAssumption`, `DataAssumption`, `CallsAssumption`, of `Periph` `PortsAssumption`, `BoundsAssumption`, of
`Switchboard` `FilesAssumption`, `ConnectionsAssumption`, and of the modules of
`Application` `NoSignalAssumption`, `ChannelsAssumption`, `EventsAssumption`, `AddressesAssumption`,
`MaxPagesAssumption`, `MaxGivenAssumption`):

| Module | Theorem | Says |
| --- | --- | --- |
| `DeviceProofs` | `TypeCorrect`, `WaitsForOwnRead`, `NoAnswerMissed` | `Spec => []TypeOK`, `[]BusyIffQueued`, `[]ReadBeforeWrite` |
| `DeviceProofs` | `Refinement` | `Spec => ImplementsContract` |
| `DeviceProofs` | `OnlyFailedWrite`, `AnswerIsSeen` | `Spec => OnlyFailedWriteAbandons`, `AnswerStays` |
| `DeviceProofs` | `AioOutlivesUntilAbandoned` | `Spec => [](~abandoned => AioOutlivesRead)` |
| `DriveProofs` | `TypeCorrect`, `PrefixIsErased`, `NoCommandWhileBusy`, `SuccessMeans` | `Spec => []TypeOK`, `[]PrefixErased`, `[]RestsBetweenCommands`, `EraseSuccess` |
| `DriveProofs` | `Progress`, `BoundedCommands` | `Spec => EraseProgress`, and a bound of `CommandsLeft` |
| `PinProofs` | `TypeCorrect`, `ProgressRight`, `VerdictRight` | `Spec => []TypeOK`, `[]ProbeProgress`, `[]FloatingVerdict` |
| `QSPIProofs` | `TypeCorrect`, `ChangesComplete`, `ReadsComplete`, `NothingElseChanges` | `Spec => []TypeOK`, `[]ChangeComplete`, `[]ReadComplete`, `OnlyWhatIsAsked` |
| `QSPIProofs` | `Refinement` | `Spec => ImplementsContract` |
| `QSPIProofs` | `NearerEnd`, `BoundedCalls` | `Spec => NearerReturn`, and a bound of `StepsLeft` |
| `I2CProofs` | `TypeCorrect`, `NothingUninitialized`, `ScanRight`, `SetsBit` | `Spec => []TypeOK`, `[]OnlyReadBytes`, `[]ScanVerdict`, `ModifySetsBit` |
| `I2CProofs` | `KeepsBit` | `Spec => ModifyKeepsBit` |
| `I2CProofs` | `CallsEnd`, `BoundedCalls` | `Spec => NearerEnd`, and a bound of `StatementsLeft` |
| `PeriphProofs` | `TypeCorrect`, `TableSaysWhatIsOpen`, `RequestsReachOwnDevice`, `OthersAreSafe` | `Spec => []TypeOK`, `[]TableTrue`, `[]OwnDevice`, `[]OthersSafe` |
| `PeriphProofs` | `RiskOnlyFromSharing` | `Spec => []RiskIsSharing` |
| `SwitchboardProofs` | `TypeCorrect`, `FirstFreeFound`, `NoSpaceTrue`, `CountTrue` | `Spec => []TypeOK`, `[]FindsFirstFree`, `NoSpaceRight`, `CountRight` |
| `SwitchboardProofs` | `PersistentLost` | `Spec => PersistentStays` |
| `SwitchboardProofs` | `CallsEnd`, `BoundedRequests` | `Spec => FewerRequestsLeft`, and a bound of `RequestsLeft` |
| `ApplicationProofs` | `TypeCorrect`, `HandlersStayAlive`, `ChannelsOfOwnRecord`, `ListComplete`, `NoGarbage` | `Spec => []TypeOK`, `[]HandlersAlive`, `[]ChannelsConsistent`, `[]PagesRight`, `[]NothingUninitialized` |
| `ApplicationProofs` | `ListEnds`, `BoundedList` | `Spec => ListNearerEnd`, and a bound of `StatementsLeft` |

Each module has an inductive invariant `IInv`.

*Device*: `TypeOK /\ BusyIffQueued /\ ReadBeforeWrite`.  The types include who
owns which address; that no two threads share a frame is what makes an answer
written to a frame an answer for its owner.  `BusyIffQueued` ties the state of an
`Aio` to the queue, both ways until something is abandoned, and one way always:
that an `Aio` which reads busy has a request behind it is never lost, so a loop
never waits for nothing.  `ReadBeforeWrite` ties both to the statement reached.
The refinement follows action by action: `Conclude` is `GiveBack` of the buffers
whose requests it removes; a returning transfer is `Succeed`, `Fail`, or, with
the contract broken, anything.  `OnlyFailedWrite` says that finding 1 is the only
way to break the comment at `Device.cpp:48`: `ReadBeforeWrite` also says that a
transfer in its loop with an error pending has not sent, so that of all that can
end the loop only the failed write leaves a read queued; and while no transfer has
left one, the driver holds no pointer to a dead `Aio`.

*Drive*: `TypeOK /\ PrefixErased /\ RestsBetweenCommands /\ RightWay`.
`EraseSuccess` is about every step in which `erase_device` returns without an error.
Only two do.  At the end of the loop (`LoopSuccess`) it takes that everything below
the offset is erased or being erased (`PrefixErased`, which survives wrap-around
because the offset only gets smaller) and that nothing is being erased any more
where the loop's condition is read; at the very start the offset is zero, which is
why `RestsBetweenCommands` says "between".  On the other way (`CommandSuccess`) the
command that was taken is for all of the drive.  That a call without an error takes
the way its drive asks for is `RightWay`; with an error `info` may be garbage, and the
call goes either way.

*Pin*: `TypeOK /\ ProbeProgress /\ FloatingVerdict`.  `ProbeProgress` says what an
undisturbed probe knows at each of its statements.

*I2C*: `TypeOK /\ OnlyReadBytes /\ ScanVerdict /\ Progress`.  `Progress` says
what a scan and a `modify_register` know at each statement: after a successful
`prepare` the address is the one selected, unless `reselected`; after a read
without error `value` is the modified content of the register, unless
`reselected` or `moved`.  The invariant is a conjunction over threads (`Own`).
A step of one thread keeps the parts of all others by one lemma (`OthersKeep`),
whose premise each request meets: what it changes on the bus or the file it also
marks in the histories of everybody who is in a call.

*QSPI*: `Splitting` says where a call is: the address and the buffer have advanced
by the same amount, what is left ends where the call ends, the pieces after the
first begin at a page, the counted pages are in what is left, and less than a page
is left after them.  It holds under any interference and gives
`OnlyWhatIsAsked`.  `SmoothProgress` adds what an undisturbed call knows of the
chip (at rest, enabled when it writes) and of each byte (done below the address,
as before above it).  The arithmetic is in lemmas on quotient and remainder, for
any page size (`NextPageStart`, `PageLess`, `WithinPage`); `PieceInPage` and
`NextPieceAtPage` are what they say of the code.  The refinement goes by what a
step does to the chip: `ReadPiece` is `Fetch`, what the chip takes is a `Command`
that reaches the bytes of one piece, every other step of a call is a `Request`, and
that a clean call is `Fulfilled` when it returns is `ChangeComplete` and
`ReadComplete`.

*Periph*: `TypeOK`, and, while not `raced`, `Consistent`: what the table lists is
open on the device of its port (`Listed`); what is open is listed or in
somebody's hands (`Accounted`); `util_c.c` shares a descriptor only with objects
that have lost theirs and are exposed if they are about to use it (`UtilOwns`);
what an unexposed call has found in the table is still so (`StillSo`); a
descriptor that is open and not listed yet is its object's alone (`Entering`); and
an object that has lost nothing has its own device (`Unlost`).  None of these is
inductive without the others: to clear an entry keeps `Accounted` only because
the one who clears goes on to close, which is right only by `StillSo`.
`RiskOnlyFromSharing` is the other side of the histories: in a process with one
object for each port nothing is ever lost, exposed or raced, in no order of calls,
because object and table know the same descriptor (`Alone`).  All that the three
properties leave out, and finding 3, needs two objects of one port.

*Switchboard*: `TypeOK`, and for every thread `CallProgress`: an undisturbed search
has counted to the offset of its file, and everything below is busy; an
undisturbed count is that of the busy connections below the offset.

*Application*: an invariant per kind of device.  `HandlersAlive` and
`ChannelsConsistent` are inductive with their types.  `PagesRight` needs
`ListProgress`, which says at each statement of `get_page_info` how many pages
were counted, that the list is the first so many pages, and, unless hampered,
that no error is pending where a request is made, and that a pass which is done
has counted all.  `NothingUninitialized` needs `Origins`, of the values in the
`Attributes` object.  `Unused` says that no call of a kind that is not used is
under way, so that other kinds may do to the contexts what they like.

**Why calls end.**  Liveness under fairness is beyond the prover, but what makes a
loop end is not: a measure that every step of the call lowers and no step of
anybody else raises, and which is a natural number.  Both are proved for every
loop of the code that is modelled, for all values of the constants:

| Call | Measure | What else it takes to return |
| --- | --- | --- |
| `erase_device` | `CommandsLeft` (`Progress`, `BoundedCommands`): at most two commands per byte, as an error turns the loop into a count down | that the drive fits (`Fitting`), and comes to rest after each command |
| `read_flash`, `write_flash`, `erase_block` | `StepsLeft` (`NearerEnd`, `BoundedCalls`): pieces, times the tries of `write_enable` | that the chip comes to rest |
| `scan`, `modify_register` | `StatementsLeft` (`CallsEnd`, `BoundedCalls`) | nothing: whatever requests answer and other threads do |
| `get_page_info` | `StatementsLeft` (`ListEnds`, `BoundedList`): at most twice the pages and two requests | nothing |
| the loops of `Switchboard` | `RequestsLeft` (`CallsEnd`, `BoundedRequests`) | that no other thread moves the offset of the file (`Alone`) |
| `transfer` | none, it waits for the driver; `AnswerIsSeen`: the answer stays until the loop has seen it | that the driver concludes its read |

Given that a thread in a call runs on, this is all there is to `EraseReturns` and
`Returns`; the step from the measure to the leads-to property is TLC's, on the
instances of the runs.  Of `I2C` and `Flash` no run checks liveness: their calls
wait for nobody.

**Only model-checked.** `TransferReturns`, `EraseReturns`, `Returns` of `QSPI` and of
`Switchboard` (the leads-to properties themselves), and the three violations.
`AnswerStays`, `EraseProgress`, `ModifyKeepsBit`, `FewerRequestsLeft`, `RiskIsSharing`, `ListNearerEnd` and `NearerEnd` of `I2C` are
the other way round: proved, and in no run.

## 5. Findings and remarks

1. `transfer_implementation` leaves its loop when the write has failed while its
   read is queued: the driver keeps a pointer to a dead stack frame.  The comment
   at `Device.cpp:48` says that must not happen.  (`transfer_lifetime`)
2. A `PulseScope` that is left with an error pending does not reset the pin: its
   deleter is a call like any other and is skipped.  (`pulse_scope`)
3. `update_fileno` takes any entry of the table for the object's own: an object
   whose descriptor was closed by another, and opened by a third for another port
   since, makes its requests to that port's device.  The comments at
   `Periph.cpp:76` say what it is for.  (`ports_stale`)

Met while reading, without a doc, comment or test that claims otherwise, so no
run is about them:

- `Drive`: `Info::size()` widens after multiplying (`Drive.hpp:41`), so that
  drives of 4 GiB and more are erased in part; `erase_device` passes a block size
  where `erase_blocks` passes an end address (`Drive.cpp:44`); the success of a call
  on a drive that erases itself comes while the drive is busy (`Drive.cpp:35`), where
  the other way waits (`EraseSuccess` says so); a driver
  that returns 0 for a command that worked keeps `erase_device` at the first
  block (`Drive.cpp:39`).
- `Pin`: `is_floating` within a `PulseScope`, or on an output, leaves the pin an
  input (`Pin.cpp:27`).
- `I2C`: `modify_register` with `value` false keeps the bit and clears the others
  (`I2C.hpp:188`; theorem `KeepsBit`); `scan` leaves the last address selected (`I2C.cpp:51`).
- `QSPI`: `write_flash` assigns `result` twice, so that a write that fails is
  reported like one that does not (`QSPI.cpp:207`), where `read_flash` has an
  `else`.
- `Device`: flags of events from the ninth on can be set but not cancelled, and
  channels from 256 on are taken for others, as `cancel_implementation` cuts both to
  `u8`; priorities are cut to `s8`.
- `FrameStream`: `is_stopped` and `is_running` test for the flag being clear; an
  `Info` that is assigned the result of `get_info()` reads memory that is gone.
- `Flash`: `erase_device` and `erase_address` are declared and not defined.
- Getters: most return a local variable that is not initialized when the request
  is skipped; callers must look at the context first.  `Adc::Attributes` leaves
  all members but its pins uninitialized, and `set_group_channel` without a pin
  keeps the pin of the channel before.  `Timer::set_value(const Attributes &)`
  hands the driver a pointer to a structure where the other `set_value` hands it
  the value (`Timer.hpp:147`).
- `util_c.c`: the comparison with `NO_PORT_NUMBER` never holds for a `u8`; a close
  before any open closes descriptor 0.
- `Core::get_info` closes the descriptor that other objects of the core share.
- `Switchboard`: `get_connection(SwitchboardConnection &)` always returns -1; a
  search that fails by a failing read reports `ENOSPC`.

## 6. Not modelled

- `QSPI`'s `set_qspi_mode`, `set_to_four_bytes_address` and
  `set_dummy_cycles_and_strength`: the commands and masks they send are arguments,
  and nothing in the repository says what they do to the chip.
- Settling time of a pull between configuring and reading a pin: the code does
  not wait at all, and the model has the level follow at once.
- Accessors, flags, `from_string`, printers: data without behaviour.  The values of
  members of the `Attributes` classes: only where they come from is modelled.
- `Dac`, `Rtc`, `Tmr`, `Emc`, `Eint`, `Dev`, `Led`, `ByteBufferArray`: one
  request per call, without state of their own; what they share with others, as
  the other calls of `Core` do, is in `Periph`.
- The unit test, which calls nothing of the library.
- Crashes: nothing of the library's state outlives its process.

## 7. Plan

Done, in the order of how much can go wrong between the calls of one operation:
`Device` with its contract, `Drive`, `Pin`, `I2C`, `QSPI`, `Periph` with `util_c.c`,
`Switchboard`, and the classes of one request per call with `DeviceSignal`,
`FrameStream` and `Flash`; the inductive invariant of each, the refinement of both
contracts, and the measure of every loop are proved.

Left: for `Periph`, what of `Consistent` survives a race; for `DeviceSignal`, what
is left of an object whose cancelling failed.  The calls that configure a flash
chip, if a driver for one is added to the repository.
