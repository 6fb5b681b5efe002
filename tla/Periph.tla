------------------------------- MODULE Periph -------------------------------
(***************************************************************************)
(* hal::PeriphObject, the base class of the library's older interface, and *)
(* the C functions of util_c.c: who holds which descriptor of the process. *)
(*                                                                         *)
(* All objects of one peripheral port share one descriptor.  A static      *)
(* table says which port a descriptor has been opened for; it has neither  *)
(* a lock nor a count, so that the first object that closes the descriptor *)
(* closes it for all.  Before each request an object looks into the table, *)
(* and gives its descriptor up if the table no longer knows it.            *)
(*                                                                         *)
(* Every object is used by a thread of its own, one call at a time, and    *)
(* each call is one action per access to what the threads share: the table *)
(* and the descriptors of the process.  The header of the class is not in  *)
(* the repository; Device::open, Device::close and set_fileno are modelled *)
(* from their use here: they set m_fd to the descriptor that was opened,   *)
(* or to a negative number.                                                *)
(***************************************************************************)
EXTENDS Integers, Sequences

CONSTANTS
    Objects,        \* the objects, each with its thread
    m_periph_port,  \* m_periph_port[o]: type and number of o's peripheral
    LINK_OPEN_MAX,  \* how many descriptors the process can have
    UtilName,       \* the peripheral that util_c.c is used for
    UtilTotal       \* how many ports of it there are

Descriptors == 0 .. LINK_OPEN_MAX - 1
UtilPorts == 0 .. UtilTotal - 1

\* A port 0 would be the type "resd", which no object has.
ASSUME PortsAssumption == m_periph_port \in [Objects -> Nat \ {0}]

ASSUME BoundsAssumption == LINK_OPEN_MAX \in Nat /\ UtilTotal \in Nat

VARIABLES
    m_fd,       \* m_fd[o]: o's descriptor, -1 if it has none
    m_fd_map,   \* m_fd_map[f]: the port that f was opened for, 0 if none
    file,       \* file[f]: the device file that f is open on
    pc,         \* pc[o]: the statement that o's call has reached
    temporary,  \* temporary[o]: o is the local object of Core::get_info
    fd, init,   \* the arguments of phylib_util_open: its table of ports, and
                \* whether it is initialized
    lost,       \* history: lost[o]: another object closed o's descriptor
    exposed,    \* history: exposed[o]: and it did between o's look into the
                \* table and the use of what o found there
    raced       \* history: an exposed object closed its descriptor

tables == <<m_fd_map, file>>
utilVars == <<fd, init>>
history == <<lost, exposed, raced>>
vars == <<m_fd, tables, pc, temporary, utilVars, history>>

-----------------------------------------------------------------------------
(***************************************************************************)
(* Names.  The table is indexed by the type of a peripheral.               *)
(***************************************************************************)
periph_name ==
    << "resd", "core", "adc", "dac", "uart", "spi", "usb", "can", "enet",
       "i2c", "i2s", "mem", "rtc", "cec", "qei", "pwm", "pio", "tmr", "eint",
       "wdt", "bod", "dma", "jtag", "reset", "clkout", "lcd", "lcd", "lcd",
       "lcd", "emc", "mci", "ssp", "mcpwm", "nmi", "trace", "sys", "qspi",
       "usart", "sdio", "spdif", "hdmi", "mco", "dfsdm", "i2c", "dcmi" >>

CORE_PERIPH_CORE == 1
CORE_PERIPH_RTC == 12

\* The device file of a port: there is one real-time clock, whatever its
\* number, and several types can share a name.
FileName(port) ==
    LET type == port \div 256
    IN  IF type = CORE_PERIPH_RTC THEN <<"rtc">>
        ELSE <<periph_name[type + 1], port % 256>>

Own(o) == FileName(m_periph_port[o])

UtilFile(p) == <<UtilName, p>>

Init ==
    /\ m_fd = [o \in Objects |-> -1]
    /\ m_fd_map = [f \in Descriptors |-> 0]
    /\ file = [f \in Descriptors |-> <<>>]
    /\ pc = [o \in Objects |-> "idle"]
    /\ temporary = [o \in Objects |-> FALSE]
    /\ fd = [p \in UtilPorts |-> 0]
    /\ init = FALSE
    /\ lost = [o \in Objects |-> FALSE]
    /\ exposed = [o \in Objects |-> FALSE]
    /\ raced = FALSE

-----------------------------------------------------------------------------
(***************************************************************************)
(* The table.                                                              *)
(***************************************************************************)
Closed(f) == file[f] = <<>>

Goto(o, next) == pc' = [pc EXCEPT ![o] = next]

\* A variant that compares the types only.
lookup_type(o) ==
    {f \in Descriptors : m_fd_map[f] \div 256 = m_periph_port[o] \div 256}

\* The descriptors that lookup_fileno() finds; it returns the first.
lookup(o) == {f \in Descriptors : m_fd_map[f] = m_periph_port[o]}

lookup_fileno(o) ==
    IF lookup(o) = {} THEN -1
    ELSE CHOOSE f \in lookup(o) : \A g \in lookup(o) : f <= g

\* A variant that trusts the object.
UpdatedNever(o) == m_fd[o]

\* What update_fileno() leaves in m_fd.
Updated(o) ==
    IF m_fd[o] >= 0 /\ m_fd_map[m_fd[o]] = 0 THEN -1 ELSE m_fd[o]

\* An object is given a descriptor, or none, and begins anew.
SetFileno(o, f) ==
    /\ m_fd' = [m_fd EXCEPT ![o] = f]
    /\ lost' = [lost EXCEPT ![o] = lost[o] /\ f = m_fd[o]]

\* What comes after a call: Core::get_info goes on with its local object.
After(o, next) == Goto(o, IF temporary[o] THEN next ELSE "idle")

-----------------------------------------------------------------------------
(***************************************************************************)
(* open().                                                                 *)
(***************************************************************************)
OpenStep(o) ==
    /\ exposed' = [exposed EXCEPT ![o] = FALSE]
    /\ \/ /\ lookup_fileno(o) >= 0
          /\ SetFileno(o, lookup_fileno(o))
          /\ After(o, "opened")
       \/ /\ lookup_fileno(o) < 0
          /\ Goto(o, "open")
          /\ UNCHANGED <<m_fd, lost>>
    /\ UNCHANGED <<tables, utilVars, raced>>

\* fd = lookup_fileno();
Open(o) == pc[o] = "idle" /\ OpenStep(o) /\ UNCHANGED temporary

\* A variant that does not look at what Device::open has left in m_fd.
OpenDeviceUnchecked(o) ==
    /\ pc[o] = "open"
    /\ \/ \E f \in Descriptors :
            /\ Closed(f)
            /\ file' = [file EXCEPT ![f] = Own(o)]
            /\ SetFileno(o, f)
       \/ SetFileno(o, -1) /\ UNCHANGED file
    /\ Goto(o, "enter")
    /\ UNCHANGED <<m_fd_map, temporary, utilVars, exposed, raced>>

\* ret = Device::open(name, flags);  When it fails, so does open(), and
\* get_info returns.
OpenDevice(o) ==
    /\ pc[o] = "open"
    /\ \/ \E f \in Descriptors :
            /\ Closed(f)
            /\ file' = [file EXCEPT ![f] = Own(o)]
            /\ SetFileno(o, f)
            /\ Goto(o, "enter")
            /\ UNCHANGED temporary
       \/ /\ SetFileno(o, -1)
          /\ Goto(o, "idle")
          /\ temporary' = [temporary EXCEPT ![o] = FALSE]
          /\ UNCHANGED file
    /\ UNCHANGED <<m_fd_map, utilVars, exposed, raced>>

\* m_fd_map[m_fd] = m_periph_port;
Enter(o) ==
    /\ pc[o] = "enter"
    /\ m_fd_map' = [m_fd_map EXCEPT ![m_fd[o]] = m_periph_port[o]]
    /\ After(o, "opened")
    /\ UNCHANGED <<m_fd, file, temporary, utilVars, history>>

-----------------------------------------------------------------------------
(***************************************************************************)
(* close().  The statements after update_fileno() rely on what it found.   *)
(***************************************************************************)
CloseBegin(o) ==
    /\ pc[o] \in {"idle", "asked"}
    /\ SetFileno(o, Updated(o))
    /\ exposed' = [exposed EXCEPT ![o] = FALSE]
    /\ IF Updated(o) >= 0
       THEN Goto(o, "clear") /\ UNCHANGED temporary
       ELSE Goto(o, "idle") /\ temporary' = [temporary EXCEPT ![o] = FALSE]
    /\ UNCHANGED <<tables, utilVars, raced>>

\* The calls that are between update_fileno() and the use of the descriptor
\* f when another object clears f in the table or closes it.
InUse(u, f) == m_fd[u] = f /\ pc[u] \in {"request", "clear", "close"}

Expose(o, f) ==
    exposed' = [u \in Objects |-> exposed[u] \/ (u # o /\ InUse(u, f))]

\* A variant that leaves the port in the table.
ClearNot(o) ==
    /\ pc[o] = "clear"
    /\ Expose(o, m_fd[o])
    /\ Goto(o, "close")
    /\ UNCHANGED <<m_fd, tables, temporary, utilVars, lost, raced>>

\* m_fd_map[m_fd] = 0;
Clear(o) ==
    /\ pc[o] = "clear"
    /\ m_fd_map' = [m_fd_map EXCEPT ![m_fd[o]] = 0]
    /\ Expose(o, m_fd[o])
    /\ Goto(o, "close")
    /\ UNCHANGED <<m_fd, file, temporary, utilVars, lost, raced>>

\* Device::close(); set_fileno(-1);  Get_info's local object is gone then.
CloseDevice(o) ==
    /\ pc[o] = "close"
    /\ file' = [file EXCEPT ![m_fd[o]] = <<>>]
    /\ m_fd' = [m_fd EXCEPT ![o] = -1]
    /\ lost' = [u \in Objects |->
                u # o /\ (lost[u] \/ m_fd[u] = m_fd[o])]
    /\ exposed' = [u \in Objects |->
                   u # o /\ (exposed[u] \/ InUse(u, m_fd[o]))]
    /\ raced' = (raced \/ exposed[o])
    /\ temporary' = [temporary EXCEPT ![o] = FALSE]
    /\ Goto(o, "idle")
    /\ UNCHANGED <<m_fd_map, utilVars>>

-----------------------------------------------------------------------------
(***************************************************************************)
(* read, write, ioctl and seek; Core::get_info.                            *)
(***************************************************************************)

\* update_fileno();
RequestBegin(o) ==
    /\ pc[o] \in {"idle", "opened"}
    /\ SetFileno(o, Updated(o))
    /\ exposed' = [exposed EXCEPT ![o] = FALSE]
    /\ Goto(o, "request")
    /\ UNCHANGED <<tables, temporary, utilVars, raced>>

\* The request itself, for whatever m_fd is open on by now.
Request(o) ==
    /\ pc[o] = "request"
    /\ After(o, "asked")
    /\ exposed' = [exposed EXCEPT ![o] = FALSE]
    /\ UNCHANGED <<m_fd, tables, temporary, utilVars, lost, raced>>

\* Core core(0); core.open();  What follows is set_keep_open(false), by which
\* the destructor closes, the request for the info, and the destructor.
GetInfo(o) ==
    /\ pc[o] = "idle" /\ m_fd[o] = -1
    /\ m_periph_port[o] = CORE_PERIPH_CORE * 256
    /\ temporary' = [temporary EXCEPT ![o] = TRUE]
    /\ exposed' = [exposed EXCEPT ![o] = FALSE]
    /\ \/ /\ lookup_fileno(o) >= 0
          /\ SetFileno(o, lookup_fileno(o))
          /\ Goto(o, "opened")
       \/ /\ lookup_fileno(o) < 0
          /\ Goto(o, "open")
          /\ UNCHANGED <<m_fd, lost>>
    /\ UNCHANGED <<tables, utilVars, raced>>

-----------------------------------------------------------------------------
(***************************************************************************)
(* util_c.c, used by one more thread, which closes no port before it has   *)
(* opened one.                                                             *)
(***************************************************************************)
phylib_util_open(port) ==
    LET opened == IF init THEN fd ELSE [p \in UtilPorts |-> -1]
    IN  /\ init' = TRUE
        /\ \/ /\ opened[port] # -1
              /\ fd' = opened
              /\ UNCHANGED file
           \/ /\ opened[port] = -1
              /\ \/ \E f \in Descriptors :
                      /\ Closed(f)
                      /\ file' = [file EXCEPT ![f] = UtilFile(port)]
                      /\ fd' = [opened EXCEPT ![port] = f]
                 \/ fd' = opened /\ UNCHANGED file
        /\ UNCHANGED <<m_fd, m_fd_map, pc, temporary, history>>

phylib_util_close(port) ==
    /\ init
    /\ fd[port] # -1
    /\ file' = [file EXCEPT ![fd[port]] = <<>>]
    /\ fd' = [fd EXCEPT ![port] = -1]
    /\ UNCHANGED <<m_fd, m_fd_map, pc, temporary, init, history>>

-----------------------------------------------------------------------------
ObjectStep(o) ==
    \/ Open(o) \/ OpenDevice(o) \/ Enter(o)
    \/ CloseBegin(o) \/ Clear(o) \/ CloseDevice(o)
    \/ RequestBegin(o) \/ Request(o)
    \/ GetInfo(o)

UtilStep(port) == phylib_util_open(port) \/ phylib_util_close(port)

Next ==
    \/ \E o \in Objects : ObjectStep(o)
    \/ \E port \in UtilPorts : UtilStep(port)

Spec == Init /\ [][Next]_vars

-----------------------------------------------------------------------------
(***************************************************************************)
(* Properties.                                                             *)
(***************************************************************************)
Files == {FileName(m_periph_port[o]) : o \in Objects} \cup {UtilFile(p) : p \in UtilPorts}

Statements ==
    {"idle", "open", "enter", "opened", "request", "asked", "clear", "close"}

\* The types of the variables.  Where a call writes to the table or closes a
\* descriptor, m_fd is an index into the table.
TypeOK ==
    /\ m_fd \in [Objects -> Descriptors \cup {-1}]
    /\ m_fd_map \in [Descriptors -> {0} \cup {m_periph_port[o] : o \in Objects}]
    /\ file \in [Descriptors -> Files \cup {<<>>}]
    /\ pc \in [Objects -> Statements]
    /\ temporary \in [Objects -> BOOLEAN]
    /\ fd \in [UtilPorts -> Descriptors \cup {-1, 0}]
    /\ init \in BOOLEAN
    /\ lost \in [Objects -> BOOLEAN]
    /\ exposed \in [Objects -> BOOLEAN]
    /\ raced \in BOOLEAN
    /\ \A o \in Objects : pc[o] \in {"enter", "clear", "close"} => m_fd[o] # -1

\* Unless two calls closed one descriptor at the same time, the table tells
\* the truth, in both directions: what it lists is open on the device of the
\* port it is listed for, and a descriptor that is open is listed, or held by
\* util_c.c, or by an object that is about to list it or to close it.
TableTrue ==
    ~raced =>
    \A f \in Descriptors :
        /\ m_fd_map[f] # 0 => file[f] = FileName(m_fd_map[f])
        /\ \/ Closed(f)
           \/ m_fd_map[f] # 0
           \/ \E p \in UtilPorts : (init /\ fd[p] = f)
           \/ \E o \in Objects : (m_fd[o] = f /\ pc[o] \in {"enter", "close"})

\* An object whose descriptor nobody else has closed makes its requests to
\* its own device: sharing, closing and opening by others do not redirect it.
OwnDevice ==
    ~raced =>
    \A o \in Objects :
        pc[o] = "request" /\ m_fd[o] # -1 /\ ~lost[o] => file[m_fd[o]] = Own(o)

\* What update_fileno() is for: an object neither makes a request to nor
\* closes a descriptor that others opened outside of the table, unless its
\* own was closed in the very moment between the look into the table and the
\* use; and so util_c.c keeps its descriptors.
OthersSafe ==
    ~raced =>
    \A p \in UtilPorts :
        init /\ fd[p] # -1 =>
            /\ file[fd[p]] = UtilFile(p)
            /\ \A o \in Objects : InUse(o, fd[p]) => exposed[o]

\* Periph.cpp:76-77, "fd is no longer valid" and "kill the fileno": an object
\* gives a descriptor up that another has closed and that is not open on the
\* device of its port.
LostIsKilled ==
    [][\A o \in Objects :
        RequestBegin(o) /\ lost[o] /\ file[m_fd[o]] # Own(o) => m_fd'[o] = -1]_vars

(***************************************************************************)
(* What is true of the table while no two calls have closed one descriptor *)
(* at the same time; the inductive invariant of PeriphProofs.              *)
(***************************************************************************)
Listed ==
    \A f \in Descriptors : m_fd_map[f] # 0 => file[f] = FileName(m_fd_map[f])

Accounted ==
    \A f \in Descriptors :
        \/ Closed(f)
        \/ m_fd_map[f] # 0
        \/ \E p \in UtilPorts : init /\ fd[p] = f
        \/ \E o \in Objects : m_fd[o] = f /\ pc[o] \in {"enter", "close"}

\* util_c.c shares its descriptors with no object that could use them.
UtilOwns ==
    \A p \in UtilPorts :
        init /\ fd[p] # -1 =>
            /\ fd[p] \in Descriptors
            /\ file[fd[p]] = UtilFile(p)
            /\ m_fd_map[fd[p]] = 0
            /\ \A o \in Objects :
                m_fd[o] = fd[p] =>
                    /\ lost[o]
                    /\ pc[o] # "enter"
                    /\ InUse(o, fd[p]) => exposed[o]

\* What a call has found in the table is still so.
StillSo ==
    \A o \in Objects :
        InUse(o, m_fd[o]) /\ m_fd[o] # -1 /\ ~exposed[o] =>
            /\ ~Closed(m_fd[o])
            /\ m_fd_map[m_fd[o]] = 0 <=> pc[o] = "close"

\* A descriptor that is opened, and not listed yet, is its object's alone.
Entering ==
    \A o \in Objects :
        pc[o] = "enter" =>
            /\ file[m_fd[o]] = Own(o)
            /\ m_fd_map[m_fd[o]] = 0
            /\ \A u \in Objects \ {o} :
                m_fd[u] = m_fd[o] =>
                    /\ pc[u] # "enter"
                    /\ InUse(u, m_fd[o]) => exposed[u]

Unlost ==
    \A o \in Objects : m_fd[o] # -1 /\ ~lost[o] => file[m_fd[o]] = Own(o)

Consistent == Listed /\ Accounted /\ UtilOwns /\ StillSo /\ Entering /\ Unlost

IInv == TypeOK /\ (~raced => Consistent)

-----------------------------------------------------------------------------
NoneShared ==
    \A o, u \in Objects : m_periph_port[o] = m_periph_port[u] => o = u

\* Sharing a port is the only thing that puts the table at risk: in a process
\* that has one object for each port, no object loses its descriptor, no call
\* is exposed, and the table always tells the truth.
RiskIsSharing ==
    NoneShared =>
        /\ ~raced
        /\ \A o \in Objects : ~lost[o] /\ ~exposed[o]
        /\ Consistent

\* What is so in such a process: a port and its object know the same
\* descriptor, and a descriptor has one object.
Alone ==
    /\ ~raced
    /\ \A o \in Objects :
        /\ ~lost[o] /\ ~exposed[o]
        /\ pc[o] = "open" => m_fd[o] = -1
        /\ m_fd[o] # -1 =>
            m_fd_map[m_fd[o]] =
                IF pc[o] \in {"enter", "close"} THEN 0 ELSE m_periph_port[o]
        /\ \A f \in Descriptors : m_fd_map[f] = m_periph_port[o] => m_fd[o] = f
        /\ \A u \in Objects : m_fd[u] = m_fd[o] => u = o \/ m_fd[o] = -1

=============================================================================
