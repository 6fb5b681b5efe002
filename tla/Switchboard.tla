---------------------------- MODULE Switchboard ----------------------------
(***************************************************************************)
(* hal::Switchboard: finding, making, counting and ending the connections  *)
(* of a switchboard device.                                                *)
(*                                                                         *)
(* The device file is an array of statuses, one for each connection.  A    *)
(* call goes through it with one read after another, at the offset of the  *)
(* open file, and counts what it reads; to make a connection it then sends *)
(* the number it has counted to in another request.  Threads that share an *)
(* open file share its offset, and all threads share the connections.      *)
(*                                                                         *)
(* The device is not part of the repository.  Who asks for a connection    *)
(* under the number of one that exists may be refused or replace it, and a *)
(* connection that was not made persistent may end by itself.              *)
(***************************************************************************)
EXTENDS Integers, FiniteSets

CONSTANTS
    Threads,        \* the threads
    Files,          \* the open files of the device
    FileOf,         \* FileOf[t]: the open file that t uses
    Connections     \* how many connections the device can have

ASSUME FilesAssumption == FileOf \in [Threads -> Files]

ASSUME ConnectionsAssumption == Connections \in Nat

VARIABLES
    active,     \* the connections with o_flags # 0
    persistent, \* those of them that do not end by themselves
    offset,     \* offset[f]: the status that the next read of f is for
    pc,         \* pc[t]: the loop or request that t's call has reached
    id,         \* id[t]: the local variable id or count of t's call
    moved,      \* history: moved[t]: while t searches or counts, another
                \* thread has moved the offset of t's file
    changed     \* history: changed[t]: and connections were made or ended

device == <<active, persistent>>
history == <<moved, changed>>
vars == <<device, offset, pc, id, history>>

Ids == 0 .. Connections - 1

Init ==
    /\ active = {}
    /\ persistent = {}
    /\ offset = [f \in Files |-> 0]
    /\ pc = [t \in Threads |-> "idle"]
    /\ id = [t \in Threads |-> 0]
    /\ moved = [t \in Threads |-> FALSE]
    /\ changed = [t \in Threads |-> FALSE]

-----------------------------------------------------------------------------
(***************************************************************************)
(* Requests, and what they do to the calls of others.                      *)
(***************************************************************************)
Counting(t) == pc[t] \in {"find", "set", "count"}

Touch(t) ==
    moved' = [u \in Threads |->
              moved[u] \/ (u # t /\ Counting(u) /\ FileOf[u] = FileOf[t])]

MoveTo(t, n) ==
    /\ offset' = [offset EXCEPT ![FileOf[t]] = n]
    /\ Touch(t)

\* The status that a read would return, if there is one.
Position(t) == offset[FileOf[t]]
Readable(t) == Position(t) \in Ids

Goto(t, next) == pc' = [pc EXCEPT ![t] = next]

\* A call returns, and its local variable and its history are gone.
Return(t) ==
    /\ Goto(t, "idle")
    /\ id' = [id EXCEPT ![t] = 0]
    /\ moved' = [moved EXCEPT ![t] = FALSE]

Forget(t) == changed' = [changed EXCEPT ![t] = FALSE]

\* The device makes or ends connections.
Change(t) ==
    changed' = [u \in Threads |-> u # t /\ (changed[u] \/ Counting(u))]

\* A variable that counts statuses.  How far it has gone past their number
\* makes no difference.
CountUp(t) ==
    id' = [id EXCEPT ![t] = IF id[t] > Connections THEN id[t] ELSE id[t] + 1]

\* A variant that begins at the status where the file is.
SeekNot(t, next) ==
    /\ pc[t] = "idle"
    /\ Goto(t, next)
    /\ UNCHANGED <<device, offset, id, history>>

\* int ret = seek(Location(0), whence_set);  When it fails, the call returns,
\* and nothing has changed.
SeekFirst(t, next) ==
    /\ pc[t] = "idle"
    /\ Goto(t, next)
    /\ MoveTo(t, 0)
    /\ UNCHANGED <<device, id, changed>>

\* ret = read(&status, Size(sizeof(status)));
ReadStatus(t) ==
    /\ Readable(t)
    /\ MoveTo(t, Position(t) + 1)
    /\ UNCHANGED <<device, changed>>

\* A read that returns no status: the one past the last, or any that fails.
ReadNothing(t) == UNCHANGED <<device, offset>>

-----------------------------------------------------------------------------
(***************************************************************************)
(* open and get_connection.                                                *)
(***************************************************************************)

\* A file that nobody is using is opened; the request for the info that
\* follows changes nothing.
Open(t) ==
    /\ \A u \in Threads : FileOf[u] = FileOf[t] => pc[u] = "idle"
    /\ MoveTo(t, 0)
    /\ UNCHANGED <<device, pc, id, changed>>

\* read(Location(id * sizeof(switchboard_connection_t)), ...): a seek and a
\* read.  The id is any u16: Connections stands for all the places past the
\* last status.  (If a connection and a status differ in size, the seek ends
\* between two statuses, and so may a call that shares the file: the call is
\* then disturbed.)
GetSeek(t) ==
    /\ pc[t] = "idle"
    /\ \E n \in 0 .. Connections : MoveTo(t, n)
    /\ Goto(t, "get")
    /\ UNCHANGED <<device, id, changed>>

GetRead(t) ==
    /\ pc[t] = "get"
    /\ ReadStatus(t) \/ (ReadNothing(t) /\ UNCHANGED history)
    /\ Goto(t, "idle")
    /\ UNCHANGED id

-----------------------------------------------------------------------------
(***************************************************************************)
(* create_persistent_connection and create_fixed_size_connection.          *)
(***************************************************************************)

\* get_available_connection: a status is read that is busy (a variant does not
\* count it), or
FindBusyUncounted(t) ==
    /\ pc[t] = "find"
    /\ ReadStatus(t)
    /\ Position(t) \in active
    /\ UNCHANGED <<pc, id>>

FindBusy(t) ==
    /\ pc[t] = "find"
    /\ ReadStatus(t)
    /\ Position(t) \in active
    /\ CountUp(t)
    /\ UNCHANGED pc

\* is not, or
FindFree(t) ==
    /\ pc[t] = "find"
    /\ ReadStatus(t)
    /\ Position(t) \notin active
    /\ Goto(t, "set")
    /\ UNCHANGED id

\* there is none.  A variant does not notice;
FindNothingUnnoticed(t) ==
    /\ pc[t] = "find"
    /\ ReadNothing(t)
    /\ Goto(t, "set")
    /\ UNCHANGED <<id, history>>

\* the code sets errno to ENOSPC.
FindNothing(t) ==
    /\ pc[t] = "find"
    /\ ReadNothing(t)
    /\ Return(t)
    /\ Forget(t)

\* A variant whose request does not say that it connects.
ConnectUnsaid(t, keep) ==
    /\ pc[t] = "set"
    /\ id[t] \in Ids
    /\ persistent' = IF keep THEN persistent \cup {id[t]} ELSE persistent \ {id[t]}
    /\ Return(t)
    /\ Change(t)
    /\ UNCHANGED <<active, offset>>

\* ret = set_attr(attr);  The driver takes the request, or refuses it.
Connect(t, keep) ==
    /\ pc[t] = "set"
    /\ id[t] \in Ids
    /\ active' = active \cup {id[t]}
    /\ persistent' = IF keep THEN persistent \cup {id[t]} ELSE persistent \ {id[t]}
    /\ Return(t)
    /\ Change(t)
    /\ UNCHANGED offset

Refused(t) ==
    /\ pc[t] = "set"
    /\ Return(t)
    /\ Forget(t)
    /\ UNCHANGED <<device, offset>>

create_persistent_connection(t) == Connect(t, TRUE)
create_fixed_size_connection(t) == Connect(t, FALSE)

-----------------------------------------------------------------------------
(***************************************************************************)
(* get_active_connection_count, print_connections, destroy_connection.     *)
(***************************************************************************)

\* A variant that counts the free ones too.
CountStatusAll(t) ==
    /\ pc[t] = "count"
    /\ ReadStatus(t)
    /\ CountUp(t)
    /\ UNCHANGED pc

CountStatus(t) ==
    /\ pc[t] = "count"
    /\ ReadStatus(t)
    /\ IF Position(t) \in active THEN CountUp(t) ELSE UNCHANGED id
    /\ UNCHANGED pc

\* A variant for which a read of no bytes, at the end, is no reason to stop.
CountEndless(t) ==
    /\ pc[t] = "count"
    /\ ReadNothing(t)
    /\ IF Readable(t)
       THEN Return(t) /\ Forget(t)
       ELSE UNCHANGED <<pc, id, history>>

CountEnd(t) ==
    /\ pc[t] = "count"
    /\ ReadNothing(t)
    /\ Return(t)
    /\ Forget(t)

\* print_connections numbers what it reads, busy or not, and prints it.
PrintStatus(t) ==
    /\ pc[t] = "print"
    /\ ReadStatus(t)
    /\ CountUp(t)
    /\ UNCHANGED pc

PrintEnd(t) ==
    /\ pc[t] = "print"
    /\ ReadNothing(t)
    /\ Return(t)
    /\ Forget(t)

\* The device may refuse the number; then nothing changes.
destroy_connection(t, i) ==
    /\ pc[t] = "idle"
    /\ active' = active \ {i}
    /\ persistent' = persistent \ {i}
    /\ Change(t)
    /\ UNCHANGED <<offset, pc, id, moved>>

\* A connection ends by itself.
Ends(i) ==
    /\ i \in active \ persistent
    /\ active' = active \ {i}
    /\ changed' = [u \in Threads |-> changed[u] \/ Counting(u)]
    /\ UNCHANGED <<persistent, offset, pc, id, moved>>

-----------------------------------------------------------------------------
\* What a call that is under way does next.
CallStep(t) ==
    \/ FindBusy(t) \/ FindFree(t) \/ FindNothing(t)
    \/ create_persistent_connection(t) \/ create_fixed_size_connection(t)
    \/ Refused(t)
    \/ CountStatus(t) \/ CountEnd(t)
    \/ PrintStatus(t) \/ PrintEnd(t)
    \/ GetRead(t)

\* A call begins.
Call(t) ==
    \/ \E next \in {"find", "count", "print"} : SeekFirst(t, next)
    \/ GetSeek(t)
    \/ Open(t)
    \/ \E i \in Ids : destroy_connection(t, i)

Next ==
    \/ \E t \in Threads : Call(t) \/ CallStep(t)
    \/ \E i \in Ids : Ends(i)

Spec == Init /\ [][Next]_vars

\* A thread that is in a call gets on with it.
FairSpec == Spec /\ \A t \in Threads : WF_vars(CallStep(t))

-----------------------------------------------------------------------------
(***************************************************************************)
(* Properties.                                                             *)
(***************************************************************************)
Undisturbed(t) == ~moved[t] /\ ~changed[t]

\* The types of the variables.
TypeOK ==
    /\ active \subseteq Ids
    /\ persistent \subseteq active
    /\ offset \in [Files -> 0 .. Connections]
    /\ pc \in [Threads -> {"idle", "find", "set", "get", "count", "print"}]
    /\ id \in [Threads -> 0 .. Connections + 1]
    /\ moved \in [Threads -> BOOLEAN]
    /\ changed \in [Threads -> BOOLEAN]

\* The number that get_available_connection has counted to is the number of a
\* connection, of the one whose status it has read, and all before it are
\* busy: unless another thread moves the offset of the file, or connections
\* are made and ended meanwhile, nobody's connection is replaced.
FindsFirstFree ==
    \A t \in Threads :
        pc[t] = "set" /\ Undisturbed(t) =>
            /\ id[t] \in Ids \ active
            /\ \A i \in Ids : i < id[t] => i \in active

\* ENOSPC is the truth for a call that nobody disturbs and whose reads do not
\* fail: the device has no connection left.
NoSpaceRight ==
    [][\A t \in Threads :
        FindNothing(t) /\ Undisturbed(t) /\ ~Readable(t) => active = Ids]_vars

\* So is the number that get_active_connection_count returns.
CountRight ==
    [][\A t \in Threads :
        CountEnd(t) /\ Undisturbed(t) /\ ~Readable(t) =>
            id[t] = Cardinality(active)]_vars

\* A connection that was made persistent ends in two ways: it is destroyed, or
\* it is replaced by a call that has counted to its number, and that call was
\* disturbed between the first status it read and its request.
PersistentStays ==
    [][\A i \in persistent \ persistent' :
        \/ \E t \in Threads : destroy_connection(t, i)
        \/ \E t \in Threads : /\ pc[t] = "set" /\ id[t] = i
                             /\ ~Undisturbed(t)]_vars

Alone(t) == \A u \in Threads \ {t} : FileOf[u] # FileOf[t]

\* How many more requests t's call can make.
RequestsLeft(t) ==
    CASE pc[t] = "idle" -> 0
      [] pc[t] \in {"set", "get"} -> 1
      [] pc[t] = "find" -> Connections - Position(t) + 2
      [] pc[t] \in {"count", "print"} -> Connections - Position(t) + 1

\* A call of a thread that shares its file with no other gets nearer its end
\* with every request, and nothing that others do takes it back.
FewerRequestsLeft ==
    [][\A t \in Threads :
        Alone(t) /\ pc[t] # "idle" =>
            IF CallStep(t) THEN RequestsLeft(t)' < RequestsLeft(t)
            ELSE pc'[t] = pc[t] /\ RequestsLeft(t)' = RequestsLeft(t)]_vars

\* A call of a thread that shares its file with no other returns, whatever
\* others do to the connections.  (Two threads on one file can keep each other
\* in their loops for ever, as each takes the other's offset back to 0.)
Returns ==
    \A t \in Threads :
        Alone(t) => (pc[t] # "idle" ~> pc[t] = "idle")

Busy(n) == {i \in active : i < n}

\* What a call knows at each statement, unless it is disturbed.
CallProgress(t) ==
    /\ pc[t] \in {"idle", "get"} => id[t] = 0
    /\ Undisturbed(t) =>
        /\ pc[t] = "find" => id[t] = Position(t) /\ Busy(id[t]) = 0 .. id[t] - 1
        /\ pc[t] = "set" => id[t] \in Ids \ active /\ Busy(id[t]) = 0 .. id[t] - 1
        /\ pc[t] = "count" => id[t] = Cardinality(Busy(Position(t)))

\* The inductive invariant of SwitchboardProofs.
IInv == TypeOK /\ \A t \in Threads : CallProgress(t)

=============================================================================
