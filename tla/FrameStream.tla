---------------------------- MODULE FrameStream ----------------------------
(***************************************************************************)
(* hal::FrameStream::Info: a record of the driver, and two ChannelInfo     *)
(* objects that point to the halves of that record.                        *)
(*                                                                         *)
(* The class declares no copy operations: a copy takes the pointers over   *)
(* as they are, and they keep pointing into the object that was copied.    *)
(* Info objects are at addresses; so is the temporary object from which    *)
(* `info = stream.get_info()' assigns.                                     *)
(***************************************************************************)
EXTENDS Context

CONSTANTS
    Infos,      \* addresses of Info objects
    Temporary,  \* the address of a temporary object, gone at the semicolon
    Argument,   \* the address of the record that an Info is made from, a
                \* local variable of get_info()
    Records     \* the records the driver can return

ASSUME AddressesAssumption ==
    Temporary \notin Infos /\ Argument \notin Infos \cup {Temporary}

VARIABLES
    infos,      \* the addresses at which there is an object
    m_info,     \* m_info[o]: the record in the object, any if it was not read
    m_receive,  \* m_receive[o]: the object that its ChannelInfos point into
    detached    \* history: the objects that were assigned a temporary object,
                \* or copied from one that has gone or been assigned since

streamVars == <<infos, m_info, m_receive, detached>>

\* What an uninitialized record holds.
Garbage == Records

StreamInit ==
    /\ infos = {}
    /\ m_info = [o \in Infos |-> Garbage]
    /\ m_receive = [o \in Infos |-> o]
    /\ detached = {}

-----------------------------------------------------------------------------
\* start, stop, flush and set_attributes are one request each.
StreamRequest(t) == Requested(t) /\ UNCHANGED streamVars

\* The record that get_info() makes an Info from: whatever was on the stack,
\* unless the request is done.
Answer(t, record) ==
    \/ NotDone(t) /\ record = Garbage
    \/ Done(t) /\ \E r \in Records : record = {r}

\* A variant that points the channels to the constructor's argument.
PointedAtArgument(o) == Argument

\* Info(const stream_ffifo_info_t &info): where the channels point.
Pointed(o) == o

\* auto info = stream.get_info(); makes the object in its place.
NewInfo(t, o) ==
    /\ o \notin infos
    /\ \E record \in SUBSET Records :
        /\ Answer(t, record)
        /\ m_info' = [m_info EXCEPT ![o] = record]
    /\ infos' = infos \cup {o}
    /\ m_receive' = [m_receive EXCEPT ![o] = Pointed(o)]
    /\ UNCHANGED detached

\* The objects that were copied from o.
Copies(o) == {u \in infos \ {o} : m_receive[u] = o}

\* info = stream.get_info(); assigns from a temporary object.
AssignInfo(t, o) ==
    /\ o \in infos
    /\ \E record \in SUBSET Records :
        /\ Answer(t, record)
        /\ m_info' = [m_info EXCEPT ![o] = record]
    /\ m_receive' = [m_receive EXCEPT ![o] = Pointed(Temporary)]
    /\ detached' = detached \cup Copies(o) \cup {o}
    /\ UNCHANGED infos

\* Info copy = info; or copy = info;
CopyInfo(o, copy) ==
    /\ o \in infos /\ copy # o
    /\ infos' = infos \cup {copy}
    /\ m_info' = [m_info EXCEPT ![copy] = m_info[o]]
    /\ m_receive' = [m_receive EXCEPT ![copy] = m_receive[o]]
    /\ detached' = LET others == (detached \cup Copies(copy)) \ {copy}
                   IN  IF o \in others THEN others \cup {copy} ELSE others
    /\ UNCHANGED ctx

DestroyInfo(o) ==
    /\ o \in infos
    /\ infos' = infos \ {o}
    /\ m_info' = [m_info EXCEPT ![o] = Garbage]
    /\ m_receive' = [m_receive EXCEPT ![o] = o]
    /\ detached' = (detached \cup Copies(o)) \ {o}
    /\ UNCHANGED ctx

StreamStep(t) ==
    \/ StreamRequest(t)
    \/ \E o \in Infos : NewInfo(t, o) \/ AssignInfo(t, o) \/ DestroyInfo(o)
    \/ \E o, copy \in Infos : CopyInfo(o, copy)

-----------------------------------------------------------------------------
StreamOK ==
    /\ infos \subseteq Infos
    /\ m_info \in [Infos -> SUBSET Records]
    /\ m_receive \in [Infos -> Infos \cup {Temporary, Argument}]
    /\ detached \subseteq infos

\* What receive() and transmit() say of a stream is alive, and is of the same
\* record as what the Info says itself, also for a copy, until the object that
\* was copied goes or is assigned.  (The result of get_info() that is assigned
\* to an Info reads memory that is gone from the beginning.)
ChannelsConsistent ==
    \A o \in infos \ detached :
        /\ m_receive[o] \in infos
        /\ m_info[m_receive[o]] = m_info[o]

=============================================================================
