------------------------- MODULE SwitchboardProofs -------------------------
(***************************************************************************)
(* Proofs about Switchboard, for any threads, files and number of          *)
(* connections: what a call finds out is true unless it is disturbed.      *)
(***************************************************************************)
EXTENDS Switchboard, FiniteSetTheorems, TLAPS

Statements == {"idle", "find", "set", "get", "count", "print"}

LEMMA BusyFinite ==
  ASSUME TypeOK, NEW n \in Int
  PROVE  IsFiniteSet(Busy(n)) /\ Cardinality(Busy(n)) \in 0 .. Connections
<1>1. IsFiniteSet(Ids) /\ Cardinality(Ids) <= Connections
  <2>1. 0 \in Int /\ Connections - 1 \in Int
    BY ConnectionsAssumption
  <2>2. /\ IsFiniteSet(0 .. Connections - 1)
        /\ Cardinality(0 .. Connections - 1)
             = IF 0 > Connections - 1 THEN 0 ELSE Connections - 1 - 0 + 1
    BY <2>1, FS_Interval
  <2> QED
    BY <2>2, ConnectionsAssumption DEF Ids
<1>2. Busy(n) \in SUBSET Ids
  BY DEF Busy, TypeOK
<1>3. IsFiniteSet(Busy(n)) /\ Cardinality(Busy(n)) <= Cardinality(Ids)
  BY <1>1, <1>2, FS_Subset
<1>4. Cardinality(Busy(n)) \in Nat /\ Cardinality(Ids) \in Nat
  BY <1>1, <1>3, FS_CardinalityType
<1> QED
  BY <1>1, <1>3, <1>4, ConnectionsAssumption

LEMMA BusyNone ==
  ASSUME TypeOK
  PROVE  Busy(0) = {} /\ Cardinality(Busy(0)) = 0
<1>1. \A i \in active : i \in Nat
  BY ConnectionsAssumption DEF TypeOK, Ids
<1>2. \A i : i \notin Busy(0)
  BY <1>1 DEF Busy
<1>3. Busy(0) = {}
  BY <1>2
<1> QED
  BY <1>3, FS_EmptySet

LEMMA BusyNext ==
  ASSUME TypeOK, NEW n \in Ids
  PROVE  /\ n \in active => /\ Busy(n + 1) = Busy(n) \cup {n}
                            /\ Cardinality(Busy(n + 1)) = Cardinality(Busy(n)) + 1
         /\ n \notin active => Busy(n + 1) = Busy(n)
<1>1. IsFiniteSet(Busy(n))
  BY BusyFinite, ConnectionsAssumption DEF Ids
<1>2. active \subseteq Int /\ n \in Int
  BY ConnectionsAssumption DEF TypeOK, Ids
<1>3. \A i : i \in Busy(n + 1) <=> i \in Busy(n) \/ (i = n /\ n \in active)
  <2>1. \A i \in active : i < n + 1 <=> i < n \/ i = n
    BY <1>2
  <2> QED
    BY <2>1 DEF Busy
<1>4. /\ n \in active => Busy(n + 1) = Busy(n) \cup {n}
      /\ n \notin active => Busy(n + 1) = Busy(n)
  BY <1>3
<1>5. n \notin Busy(n)
  BY <1>2 DEF Busy
<1> QED
  BY <1>1, <1>4, <1>5, FS_AddElement

LEMMA InitIInv == Init => IInv
<1> SUFFICES ASSUME Init PROVE IInv
  OBVIOUS
<1>1. TypeOK
  BY ConnectionsAssumption DEF Init, TypeOK
<1>2. \A t \in Threads : CallProgress(t)
  BY DEF Init, CallProgress
<1> QED
  BY <1>1, <1>2 DEF IInv

-----------------------------------------------------------------------------
\* Moving the offset of a file disturbs all others that count with it.
LEMMA MoveFacts ==
  ASSUME TypeOK, NEW t \in Threads, NEW n \in 0 .. Connections, MoveTo(t, n)
  PROVE  /\ offset' \in [Files -> 0 .. Connections]
         /\ moved' \in [Threads -> BOOLEAN]
         /\ offset'[FileOf[t]] = n
         /\ moved'[t] = moved[t]
         /\ \A u \in Threads \ {t} :
                Counting(u) /\ ~moved'[u] =>
                    ~moved[u] /\ offset'[FileOf[u]] = offset[FileOf[u]]
<1>1. FileOf[t] \in Files /\ \A u \in Threads : FileOf[u] \in Files
  BY FilesAssumption
<1>2. offset' = [offset EXCEPT ![FileOf[t]] = n]
  BY DEF MoveTo
<1>3. /\ moved' = [u \in Threads |->
                      moved[u] \/ (u # t /\ Counting(u) /\ FileOf[u] = FileOf[t])]
      /\ moved \in [Threads -> BOOLEAN]
  BY DEF MoveTo, Touch, TypeOK
<1>4. moved' \in [Threads -> BOOLEAN]
  BY <1>3
<1>5. moved'[t] = moved[t]
  BY <1>3
<1>6. ASSUME NEW u \in Threads \ {t}, Counting(u), ~moved'[u]
      PROVE  ~moved[u] /\ FileOf[u] # FileOf[t]
  BY <1>3, <1>6
<1> QED
  BY <1>1, <1>2, <1>4, <1>5, <1>6 DEF TypeOK

\* A step of another thread keeps what a call knows, or disturbs it.
LEMMA OthersKeep ==
  ASSUME IInv, NEW u \in Threads,
         pc'[u] = pc[u], id'[u] = id[u],
         Counting(u) /\ ~moved'[u] =>
            ~moved[u] /\ offset'[FileOf[u]] = offset[FileOf[u]],
         Counting(u) /\ ~changed'[u] => ~changed[u] /\ active' = active
  PROVE  CallProgress(u)'
<1>1. CallProgress(u)
  BY DEF IInv
<1>2. (pc[u] \in {"idle", "get"} => id[u] = 0)'
  BY <1>1 DEF CallProgress
<1>3. ASSUME Counting(u), Undisturbed(u)'
      PROVE  /\ Undisturbed(u)
             /\ Position(u)' = Position(u)
             /\ \A n : Busy(n)' = Busy(n)
             /\ active' = active
  BY <1>3 DEF Undisturbed, Position, Busy
<1> QED
  BY <1>1, <1>2, <1>3 DEF CallProgress, Counting

\* A step of a call that moves the offset of its file to n, after which its
\* variable is k.
LEMMA MoveIInv ==
  ASSUME IInv, NEW t \in Threads, NEW n \in 0 .. Connections, MoveTo(t, n),
         UNCHANGED <<device, changed>>,
         NEW next \in Statements, pc' = [pc EXCEPT ![t] = next],
         NEW k \in 0 .. Connections + 1, id' = [id EXCEPT ![t] = k],
         next \in {"idle", "get"} => k = 0,
         Undisturbed(t) =>
            /\ next = "find" => k = n /\ Busy(k) = 0 .. k - 1
            /\ next = "set" => k \in Ids \ active /\ Busy(k) = 0 .. k - 1
            /\ next = "count" => k = Cardinality(Busy(n))
  PROVE  IInv'
<1>1. TypeOK
  BY DEF IInv
<1>2. TypeOK'
  BY <1>1, MoveFacts DEF TypeOK, device, Statements
<1>3. ASSUME NEW u \in Threads \ {t} PROVE CallProgress(u)'
  <2>1. pc'[u] = pc[u] /\ id'[u] = id[u]
    BY <1>1 DEF TypeOK
  <2>2. Counting(u) /\ ~moved'[u] =>
            ~moved[u] /\ offset'[FileOf[u]] = offset[FileOf[u]]
    BY <1>1, MoveFacts
  <2> QED
    BY <2>1, <2>2, OthersKeep DEF device
<1>4. CallProgress(t)'
  <2>1. pc'[t] = next /\ id'[t] = k
    BY <1>1 DEF TypeOK
  <2>2. /\ Undisturbed(t)' <=> Undisturbed(t)
        /\ Position(t)' = n
    BY <1>1, MoveFacts DEF Undisturbed, Position
  <2>3. active' = active /\ \A i : Busy(i)' = Busy(i)
    BY DEF device, Busy
  <2> QED
    BY <2>1, <2>2, <2>3 DEF CallProgress
<1> QED
  BY <1>2, <1>3, <1>4 DEF IInv

\* A call returns, and may have changed the connections.
LEMMA ReturnIInv ==
  ASSUME IInv, NEW t \in Threads, Return(t), UNCHANGED offset,
         active' \subseteq Ids, persistent' \subseteq active',
         changed' \in [Threads -> BOOLEAN],
         \A u \in Threads \ {t} :
            Counting(u) /\ ~changed'[u] => ~changed[u] /\ active' = active
  PROVE  IInv'
<1>1. TypeOK
  BY DEF IInv
<1>2. /\ pc' = [pc EXCEPT ![t] = "idle"]
      /\ id' = [id EXCEPT ![t] = 0]
      /\ moved' = [moved EXCEPT ![t] = FALSE]
  BY DEF Return, Goto
<1>3. TypeOK'
  BY <1>1, <1>2, ConnectionsAssumption DEF TypeOK
<1>4. ASSUME NEW u \in Threads \ {t} PROVE CallProgress(u)'
  <2>1. pc'[u] = pc[u] /\ id'[u] = id[u] /\ moved'[u] = moved[u]
    BY <1>1, <1>2 DEF TypeOK
  <2> QED
    BY <2>1, OthersKeep
<1>5. CallProgress(t)'
  BY <1>1, <1>2 DEF CallProgress, TypeOK
<1> QED
  BY <1>3, <1>4, <1>5 DEF IInv

\* What a variable that is counted up can hold.
LEMMA CountUpFacts ==
  ASSUME TypeOK, NEW t \in Threads, CountUp(t)
  PROVE  \E k \in 0 .. Connections + 1 :
            /\ id' = [id EXCEPT ![t] = k]
            /\ id[t] <= Connections => k = id[t] + 1
<1> DEFINE k == IF id[t] > Connections THEN id[t] ELSE id[t] + 1
<1>1. id[t] \in 0 .. Connections + 1
  BY DEF TypeOK
<1>2. k \in 0 .. Connections + 1 /\ (id[t] <= Connections => k = id[t] + 1)
  BY <1>1, ConnectionsAssumption
<1>3. id' = [id EXCEPT ![t] = k]
  BY DEF CountUp
<1> QED
  BY <1>2, <1>3

-----------------------------------------------------------------------------
\* The steps that begin a call or read a status.
LEMMA ReadingIInv ==
  ASSUME IInv, NEW t \in Threads,
         \/ \E next \in {"find", "count", "print"} : SeekFirst(t, next)
         \/ GetSeek(t) \/ Open(t)
         \/ FindBusy(t) \/ FindFree(t) \/ CountStatus(t) \/ PrintStatus(t)
         \/ GetRead(t)
  PROVE  IInv'
<1>1. /\ TypeOK
      /\ CallProgress(t)
      /\ 0 \in 0 .. Connections
      /\ pc[t] \in Statements
      /\ id[t] \in 0 .. Connections + 1
      /\ pc = [pc EXCEPT ![t] = pc[t]]
      /\ id = [id EXCEPT ![t] = id[t]]
  BY ConnectionsAssumption DEF IInv, TypeOK, Statements
<1>2. ASSUME Readable(t)
      PROVE  /\ Position(t) \in Ids
             /\ Position(t) + 1 \in 0 .. Connections
             /\ Position(t) \in Int /\ Position(t) < Connections
  BY <1>2, ConnectionsAssumption DEF Readable, Ids
<1>3. ASSUME NEW next \in {"find", "count", "print"}, SeekFirst(t, next)
      PROVE  IInv'
  <2>1. pc[t] = "idle" /\ id[t] = 0 /\ 0 .. 0 - 1 = {}
    BY <1>1, <1>3 DEF SeekFirst, CallProgress
  <2>2. Busy(0) = {} /\ Cardinality(Busy(0)) = 0
    BY <1>1, BusyNone
  <2>3. next \in Statements /\ next \notin {"idle", "get", "set"}
    BY DEF Statements
  <2>4. /\ MoveTo(t, 0)
        /\ pc' = [pc EXCEPT ![t] = next]
        /\ id' = [id EXCEPT ![t] = 0]
        /\ UNCHANGED <<device, changed>>
    BY <1>1, <1>3, <2>1 DEF SeekFirst, Goto
  <2>5. 0 \in 0 .. Connections + 1
    BY ConnectionsAssumption
  <2> QED
    BY <1>1, <2>1, <2>2, <2>3, <2>4, <2>5, MoveIInv
<1>4. CASE GetSeek(t)
  <2>1. PICK n \in 0 .. Connections : MoveTo(t, n)
    BY <1>4 DEF GetSeek
  <2>2. /\ "get" \in Statements
        /\ pc' = [pc EXCEPT ![t] = "get"]
        /\ id' = [id EXCEPT ![t] = id[t]]
        /\ UNCHANGED <<device, changed>>
        /\ id[t] = 0
    BY <1>1, <1>4 DEF GetSeek, Goto, Statements, CallProgress
  <2> QED
    BY <1>1, <2>1, <2>2, MoveIInv
<1>5. CASE Open(t)
  <2>1. /\ MoveTo(t, 0)
        /\ pc' = [pc EXCEPT ![t] = pc[t]]
        /\ id' = [id EXCEPT ![t] = id[t]]
        /\ UNCHANGED <<device, changed>>
        /\ pc[t] = "idle" /\ id[t] = 0
    BY <1>1, <1>5 DEF Open, CallProgress
  <2> QED
    BY <1>1, <2>1, MoveIInv
<1>6. CASE FindBusy(t)
  <2>1. /\ pc[t] = "find" /\ Readable(t) /\ Position(t) \in active
        /\ MoveTo(t, Position(t) + 1)
        /\ pc' = [pc EXCEPT ![t] = "find"]
        /\ UNCHANGED <<device, changed>>
    BY <1>1, <1>6 DEF FindBusy, ReadStatus
  <2>2. PICK k \in 0 .. Connections + 1 :
            /\ id' = [id EXCEPT ![t] = k]
            /\ id[t] <= Connections => k = id[t] + 1
    BY <1>1, <1>6, CountUpFacts DEF FindBusy
  <2>3. ASSUME Undisturbed(t)
        PROVE  k = Position(t) + 1 /\ Busy(k) = 0 .. k - 1
    <3>1. id[t] = Position(t) /\ Busy(id[t]) = 0 .. id[t] - 1
      BY <1>1, <2>1, <2>3 DEF CallProgress
    <3>2. k = Position(t) + 1 /\ Busy(k) = Busy(Position(t)) \cup {Position(t)}
      BY <1>1, <1>2, <2>1, <2>2, <3>1, BusyNext, ConnectionsAssumption
    <3>3. 0 .. k - 1 = (0 .. Position(t) - 1) \cup {Position(t)}
      BY <1>2, <2>1, <3>2, ConnectionsAssumption DEF Ids
    <3> QED
      BY <3>1, <3>2, <3>3
  <2>4. "find" \in Statements
    BY DEF Statements
  <2> QED
    BY <1>2, <2>1, <2>2, <2>3, <2>4, MoveIInv
<1>7. CASE FindFree(t)
  <2>1. /\ pc[t] = "find" /\ Readable(t) /\ Position(t) \notin active
        /\ MoveTo(t, Position(t) + 1)
        /\ pc' = [pc EXCEPT ![t] = "set"]
        /\ id' = [id EXCEPT ![t] = id[t]]
        /\ UNCHANGED <<device, changed>>
    BY <1>1, <1>7 DEF FindFree, ReadStatus, Goto
  <2>2. Undisturbed(t) => id[t] \in Ids \ active /\ Busy(id[t]) = 0 .. id[t] - 1
    BY <1>1, <1>2, <2>1 DEF CallProgress
  <2>3. "set" \in Statements
    BY DEF Statements
  <2> QED
    BY <1>1, <1>2, <2>1, <2>2, <2>3, MoveIInv
<1>8. CASE CountStatus(t)
  <2>1. /\ pc[t] = "count" /\ Readable(t)
        /\ MoveTo(t, Position(t) + 1)
        /\ pc' = [pc EXCEPT ![t] = "count"]
        /\ UNCHANGED <<device, changed>>
    BY <1>1, <1>8 DEF CountStatus, ReadStatus
  <2>2. PICK k \in 0 .. Connections + 1 :
            /\ id' = [id EXCEPT ![t] = k]
            /\ Position(t) \notin active => k = id[t]
            /\ Position(t) \in active /\ id[t] <= Connections => k = id[t] + 1
    <3>1. CASE Position(t) \in active
      BY <1>1, <1>8, <3>1, CountUpFacts DEF CountStatus
    <3>2. CASE Position(t) \notin active
      BY <1>1, <1>8, <3>2 DEF CountStatus
    <3> QED
      BY <3>1, <3>2
  <2>3. ASSUME Undisturbed(t)
        PROVE  k = Cardinality(Busy(Position(t) + 1))
    <3>1. id[t] = Cardinality(Busy(Position(t)))
      BY <1>1, <2>1, <2>3 DEF CallProgress
    <3>2. id[t] <= Connections
      BY <1>1, <1>2, <2>1, <3>1, BusyFinite, ConnectionsAssumption
    <3> QED
      BY <1>1, <1>2, <2>1, <2>2, <3>1, <3>2, BusyNext
  <2>4. "count" \in Statements
    BY DEF Statements
  <2> QED
    BY <1>2, <2>1, <2>2, <2>3, <2>4, MoveIInv
<1>9. CASE PrintStatus(t)
  <2>1. /\ Readable(t)
        /\ MoveTo(t, Position(t) + 1)
        /\ pc' = [pc EXCEPT ![t] = "print"]
        /\ UNCHANGED <<device, changed>>
    BY <1>1, <1>9 DEF PrintStatus, ReadStatus
  <2>2. PICK k \in 0 .. Connections + 1 : id' = [id EXCEPT ![t] = k]
    BY <1>1, <1>9, CountUpFacts DEF PrintStatus
  <2>3. "print" \in Statements
    BY DEF Statements
  <2> QED
    BY <1>2, <2>1, <2>2, <2>3, MoveIInv
<1>10. CASE GetRead(t)
  <2>1. /\ pc' = [pc EXCEPT ![t] = "idle"]
        /\ id' = [id EXCEPT ![t] = id[t]]
        /\ id[t] = 0
        /\ "idle" \in Statements
    BY <1>1, <1>10 DEF GetRead, Goto, CallProgress, Statements
  <2>2. CASE ReadStatus(t)
    <3>1. /\ Readable(t)
          /\ MoveTo(t, Position(t) + 1)
          /\ UNCHANGED <<device, changed>>
      BY <2>2 DEF ReadStatus
    <3> QED
      BY <1>1, <1>2, <2>1, <3>1, MoveIInv
  <2>3. CASE ReadNothing(t) /\ UNCHANGED history
    <3>1. /\ UNCHANGED <<active, persistent, offset, moved, changed>>
          /\ TypeOK'
      BY <1>1, <2>1, <2>3 DEF ReadNothing, device, history, TypeOK
    <3>2. ASSUME NEW u \in Threads \ {t} PROVE CallProgress(u)'
      <4>1. pc'[u] = pc[u] /\ id'[u] = id[u]
        BY <1>1, <2>1
      <4> QED
        BY <3>1, <4>1, OthersKeep
    <3>3. CallProgress(t)'
      BY <1>1, <2>1 DEF CallProgress, TypeOK
    <3> QED
      BY <3>1, <3>2, <3>3 DEF IInv
  <2> QED
    BY <1>10, <2>2, <2>3 DEF GetRead
<1> QED
  BY <1>3, <1>4, <1>5, <1>6, <1>7, <1>8, <1>9, <1>10

\* The steps that end a call.
LEMMA EndingIInv ==
  ASSUME IInv, NEW t \in Threads,
         \/ FindNothing(t) \/ Refused(t) \/ CountEnd(t) \/ PrintEnd(t)
         \/ create_persistent_connection(t) \/ create_fixed_size_connection(t)
  PROVE  IInv'
<1>1. TypeOK
  BY DEF IInv
<1>2. ASSUME Return(t), Forget(t), UNCHANGED <<device, offset>>
      PROVE  IInv'
  <2>1. /\ active' \subseteq Ids /\ persistent' \subseteq active'
        /\ changed' \in [Threads -> BOOLEAN]
        /\ \A u \in Threads \ {t} : changed'[u] = changed[u]
        /\ active' = active
    BY <1>1, <1>2 DEF TypeOK, device, Forget
  <2> QED
    BY <1>2, <2>1, ReturnIInv
<1>3. ASSUME NEW keep \in BOOLEAN, Connect(t, keep)
      PROVE  IInv'
  <2>1. active' \subseteq Ids /\ persistent' \subseteq active'
    BY <1>1, <1>3 DEF Connect, TypeOK
  <2>2. changed' = [u \in Threads |-> u # t /\ (changed[u] \/ Counting(u))]
    BY <1>3 DEF Connect, Change
  <2>3. changed' \in [Threads -> BOOLEAN]
    BY <2>2
  <2>4. ASSUME NEW u \in Threads \ {t}, Counting(u) PROVE changed'[u]
    BY <2>2, <2>4
  <2> QED
    BY <1>3, <2>1, <2>3, <2>4, ReturnIInv DEF Connect
<1> QED
  BY <1>2, <1>3
  DEF FindNothing, Refused, CountEnd, PrintEnd, ReadNothing,
      create_persistent_connection, create_fixed_size_connection

\* Connections are destroyed, or end by themselves.
LEMMA DeviceIInv ==
  ASSUME IInv, NEW i \in Ids,
         Ends(i) \/ \E t \in Threads : destroy_connection(t, i)
  PROVE  IInv'
<1>1. /\ TypeOK
      /\ UNCHANGED <<offset, pc, id, moved>>
  BY DEF IInv, Ends, destroy_connection
<1>2. CASE Ends(i)
  <2>1. changed' = [u \in Threads |-> changed[u] \/ Counting(u)]
    BY <1>2 DEF Ends
  <2>2. changed' \in [Threads -> BOOLEAN]
    BY <2>1
  <2>3. TypeOK'
    BY <1>1, <1>2, <2>2 DEF TypeOK, Ends
  <2>4. ASSUME NEW u \in Threads, Counting(u) PROVE changed'[u]
    BY <2>1, <2>4
  <2>5. \A u \in Threads : CallProgress(u)'
    BY <1>1, <2>4, OthersKeep
  <2> QED
    BY <2>3, <2>5 DEF IInv
<1>3. ASSUME NEW t \in Threads, destroy_connection(t, i)
      PROVE  IInv'
  <2>1. changed' = [u \in Threads |-> u # t /\ (changed[u] \/ Counting(u))]
    BY <1>3 DEF destroy_connection, Change
  <2>2. changed' \in [Threads -> BOOLEAN]
    BY <2>1
  <2>3. TypeOK'
    BY <1>1, <1>3, <2>2 DEF TypeOK, destroy_connection
  <2>4. ASSUME NEW u \in Threads, Counting(u) PROVE changed'[u]
    BY <1>3, <2>1, <2>4 DEF destroy_connection, Counting
  <2>5. \A u \in Threads : CallProgress(u)'
    BY <1>1, <2>4, OthersKeep
  <2> QED
    BY <2>3, <2>5 DEF IInv
<1> QED
  BY <1>2, <1>3

LEMMA NextIInv == IInv /\ [Next]_vars => IInv'
<1> SUFFICES ASSUME IInv, [Next]_vars PROVE IInv'
  OBVIOUS
<1>1. ASSUME NEW t \in Threads, Call(t) PROVE IInv'
  BY <1>1, ReadingIInv, DeviceIInv DEF Call
<1>2. ASSUME NEW t \in Threads, CallStep(t) PROVE IInv'
  BY <1>2, ReadingIInv, EndingIInv DEF CallStep
<1>3. CASE UNCHANGED vars
  BY <1>3
  DEF vars, device, history, IInv, TypeOK, CallProgress, Undisturbed, Position,
      Busy
<1> QED
  BY <1>1, <1>2, <1>3, DeviceIInv DEF Next

-----------------------------------------------------------------------------
\* IInv holds in every reachable state.
THEOREM Invariance == Spec => []IInv
  BY InitIInv, NextIInv, PTL DEF Spec

\* The types of the variables (TypeOK).
THEOREM TypeCorrect == Spec => []TypeOK
<1>1. IInv => TypeOK
  BY DEF IInv
<1> QED
  BY <1>1, Invariance, PTL

\* A connection that is asked for is the first that is free, unless the call
\* was disturbed (FindsFirstFree).
THEOREM FirstFreeFound == Spec => []FindsFirstFree
<1>1. ASSUME IInv, NEW t \in Threads, pc[t] = "set", Undisturbed(t)
      PROVE  /\ id[t] \in Ids \ active
             /\ \A i \in Ids : i < id[t] => i \in active
  <2>1. id[t] \in Ids \ active /\ Busy(id[t]) = 0 .. id[t] - 1
    BY <1>1 DEF IInv, CallProgress
  <2>2. \A i \in Ids : i < id[t] => i \in 0 .. id[t] - 1
    BY <2>1, ConnectionsAssumption DEF Ids
  <2> QED
    BY <2>1, <2>2 DEF Busy
<1>2. IInv => FindsFirstFree
  BY <1>1 DEF FindsFirstFree
<1> QED
  BY <1>2, Invariance, PTL

\* A call that ends at the last status has read all of them (NoSpaceRight).
LEMMA NoneIsFree ==
  ASSUME IInv, NEW t \in Threads, pc[t] = "find", Undisturbed(t), ~Readable(t)
  PROVE  active = Ids
<1>1. id[t] = Position(t) /\ Busy(id[t]) = 0 .. id[t] - 1
  BY DEF IInv, CallProgress
<1>2. Position(t) \in 0 .. Connections /\ Position(t) \notin Ids
  BY FilesAssumption DEF IInv, TypeOK, Position, Readable
<1>3. Position(t) = Connections
  BY <1>2, ConnectionsAssumption DEF Ids
<1>4. Busy(id[t]) = Ids
  BY <1>1, <1>3 DEF Ids
<1> QED
  BY <1>4 DEF Busy, IInv, TypeOK

THEOREM NoSpaceTrue == Spec => NoSpaceRight
<1>1. IInv /\ [Next]_vars =>
        [\A t \in Threads :
            FindNothing(t) /\ Undisturbed(t) /\ ~Readable(t) => active = Ids]_vars
  BY NoneIsFree DEF FindNothing
<1> QED
  BY <1>1, Invariance, PTL DEF Spec, NoSpaceRight

\* A count that ends at the last status is the number of connections
\* (CountRight).
LEMMA AllAreCounted ==
  ASSUME IInv, NEW t \in Threads, pc[t] = "count", Undisturbed(t), ~Readable(t)
  PROVE  id[t] = Cardinality(active)
<1>1. id[t] = Cardinality(Busy(Position(t)))
  BY DEF IInv, CallProgress
<1>2. Position(t) \in 0 .. Connections /\ Position(t) \notin Ids
  BY FilesAssumption DEF IInv, TypeOK, Position, Readable
<1>3. Position(t) = Connections
  BY <1>2, ConnectionsAssumption DEF Ids
<1>4. \A i \in active : i < Position(t)
  BY <1>3, ConnectionsAssumption DEF Ids, IInv, TypeOK
<1>5. Busy(Position(t)) = active
  BY <1>4 DEF Busy
<1> QED
  BY <1>1, <1>5

THEOREM CountTrue == Spec => CountRight
<1>1. IInv /\ [Next]_vars =>
        [\A t \in Threads :
            CountEnd(t) /\ Undisturbed(t) /\ ~Readable(t) =>
                id[t] = Cardinality(active)]_vars
  BY AllAreCounted DEF CountEnd
<1> QED
  BY <1>1, Invariance, PTL DEF Spec, CountRight

-----------------------------------------------------------------------------
(***************************************************************************)
(* What can end a persistent connection.                                   *)
(***************************************************************************)
LEMMA NotReplaced ==
  ASSUME IInv, [Next]_vars, NEW i \in persistent, i \notin persistent'
  PROVE  \/ \E t \in Threads : destroy_connection(t, i)
         \/ \E t \in Threads : pc[t] = "set" /\ id[t] = i /\ ~Undisturbed(t)
<1>1. ASSUME UNCHANGED persistent PROVE FALSE
  BY <1>1
<1>2. i \in active
  BY DEF IInv, TypeOK
<1>3. ASSUME NEW t \in Threads, NEW keep \in BOOLEAN, Connect(t, keep)
      PROVE  pc[t] = "set" /\ id[t] = i /\ ~Undisturbed(t)
  <2>1. pc[t] = "set" /\ id[t] = i
    BY <1>3 DEF Connect
  <2>2. Undisturbed(t) => id[t] \notin active
    BY <2>1 DEF IInv, CallProgress
  <2> QED
    BY <1>2, <2>1, <2>2
<1>4. ASSUME NEW t \in Threads, CallStep(t)
      PROVE  pc[t] = "set" /\ id[t] = i /\ ~Undisturbed(t)
  <2>1. CASE create_persistent_connection(t) \/ create_fixed_size_connection(t)
    BY <1>3, <2>1 DEF create_persistent_connection, create_fixed_size_connection
  <2>2. CASE ~(create_persistent_connection(t) \/ create_fixed_size_connection(t))
    BY <1>1, <1>4, <2>2
    DEF CallStep, FindBusy, FindFree, FindNothing, Refused, CountStatus, CountEnd,
        PrintStatus, PrintEnd, GetRead, ReadStatus, ReadNothing, device
  <2> QED
    BY <2>1, <2>2
<1>5. ASSUME NEW t \in Threads, Call(t) PROVE destroy_connection(t, i)
  <2>1. PICK j \in Ids : destroy_connection(t, j)
    BY <1>1, <1>5 DEF Call, SeekFirst, GetSeek, Open, device
  <2>2. j = i
    BY <2>1 DEF destroy_connection
  <2> QED
    BY <2>1, <2>2
<1>6. ASSUME NEW j \in Ids, Ends(j) PROVE FALSE
  BY <1>1, <1>6 DEF Ends
<1>7. CASE UNCHANGED vars
  BY <1>1, <1>7 DEF vars, device
<1> QED
  BY <1>4, <1>5, <1>6, <1>7 DEF Next

\* A persistent connection is lost only to a caller that destroys it, or to a
\* search that was disturbed (PersistentStays).
THEOREM PersistentLost == Spec => PersistentStays
<1>1. IInv /\ [Next]_vars =>
        [\A i \in persistent \ persistent' :
            \/ \E t \in Threads : destroy_connection(t, i)
            \/ \E t \in Threads : /\ pc[t] = "set" /\ id[t] = i
                                 /\ ~Undisturbed(t)]_vars
  BY NotReplaced
<1> QED
  BY <1>1, Invariance, PTL DEF Spec, PersistentStays

-----------------------------------------------------------------------------
(***************************************************************************)
(* Why the loops end.                                                      *)
(***************************************************************************)

\* A call has no more requests left than the device has statuses, and two.
LEMMA RequestsNat ==
  ASSUME TypeOK, NEW t \in Threads
  PROVE  /\ RequestsLeft(t) \in 0 .. Connections + 2
         /\ Position(t) \in 0 .. Connections
<1>1. Position(t) \in 0 .. Connections
  BY FilesAssumption DEF TypeOK, Position
<1> QED
  BY <1>1, ConnectionsAssumption DEF TypeOK, RequestsLeft

\* A call of another file leaves the offset of this one where it is.
LEMMA OthersAway ==
  ASSUME TypeOK, NEW t \in Threads, Alone(t), NEW u \in Threads \ {t},
         Call(u) \/ CallStep(u)
  PROVE  pc'[t] = pc[t] /\ Position(t)' = Position(t)
<1>1. FileOf[u] # FileOf[t] /\ FileOf[u] \in Files /\ FileOf[t] \in Files
  BY FilesAssumption DEF Alone
<1>2. ASSUME NEW n, MoveTo(u, n) PROVE offset'[FileOf[t]] = offset[FileOf[t]]
  BY <1>1, <1>2 DEF MoveTo, TypeOK
<1>3. CASE Call(u)
  BY <1>2, <1>3
  DEF Call, SeekFirst, GetSeek, Open, destroy_connection, Goto, Position, TypeOK
<1>4. CASE CallStep(u)
  BY <1>2, <1>4
  DEF CallStep, FindBusy, FindFree, FindNothing, Refused, CountStatus, CountEnd,
      PrintStatus, PrintEnd, GetRead, ReadStatus, ReadNothing, device, Connect,
      create_persistent_connection, create_fixed_size_connection,
      Return, Goto, Position, TypeOK
<1> QED
  BY <1>3, <1>4

\* A request takes a call on, by a status at least.
LEMMA RequestNearer ==
  ASSUME TypeOK, NEW t \in Threads, CallStep(t)
  PROVE  RequestsLeft(t)' < RequestsLeft(t)
<1>1. Position(t) \in 0 .. Connections /\ Connections \in Nat
  BY RequestsNat, ConnectionsAssumption
<1>2. ASSUME ReadStatus(t)
      PROVE  Position(t)' = Position(t) + 1 /\ Position(t) < Connections
  <2>1. Position(t) \in Ids /\ MoveTo(t, Position(t) + 1)
    BY <1>2 DEF ReadStatus, Readable
  <2>2. Position(t) + 1 \in 0 .. Connections /\ Position(t) < Connections
    BY <2>1, ConnectionsAssumption DEF Ids
  <2> QED
    BY <2>1, <2>2, MoveFacts DEF Position
<1>3. ASSUME Return(t) PROVE RequestsLeft(t)' = 0
  BY <1>3 DEF Return, Goto, TypeOK, RequestsLeft
<1>4. pc[t] # "idle" => RequestsLeft(t) > 0
  BY <1>1 DEF RequestsLeft, TypeOK
<1>5. CASE FindBusy(t)
  BY <1>1, <1>2, <1>5 DEF FindBusy, RequestsLeft
<1>6. CASE FindFree(t)
  <2>1. pc[t] = "find" /\ pc'[t] = "set" /\ Position(t) < Connections
    BY <1>2, <1>6 DEF FindFree, Goto, TypeOK
  <2> QED
    BY <1>1, <2>1 DEF RequestsLeft
<1>7. CASE CountStatus(t)
  BY <1>1, <1>2, <1>7 DEF CountStatus, RequestsLeft
<1>8. CASE PrintStatus(t)
  BY <1>1, <1>2, <1>8 DEF PrintStatus, RequestsLeft
<1>9. CASE GetRead(t)
  <2>1. pc[t] = "get" /\ pc'[t] = "idle"
    BY <1>9 DEF GetRead, Goto, TypeOK
  <2> QED
    BY <2>1 DEF RequestsLeft
<1>10. CASE FindNothing(t) \/ CountEnd(t) \/ PrintEnd(t) \/ Refused(t)
  BY <1>3, <1>4, <1>10 DEF FindNothing, CountEnd, PrintEnd, Refused
<1>11. CASE create_persistent_connection(t) \/ create_fixed_size_connection(t)
  BY <1>3, <1>4, <1>11
  DEF create_persistent_connection, create_fixed_size_connection, Connect
<1> QED
  BY <1>5, <1>6, <1>7, <1>8, <1>9, <1>10, <1>11 DEF CallStep

LEMMA OnlyOwnRequests ==
  ASSUME TypeOK, [Next]_vars, NEW t \in Threads, Alone(t), pc[t] # "idle",
         ~CallStep(t)
  PROVE  pc'[t] = pc[t] /\ RequestsLeft(t)' = RequestsLeft(t)
<1>1. pc'[t] = pc[t] /\ Position(t)' = Position(t)
  <2>1. ~Call(t)
    BY DEF Call, SeekFirst, GetSeek, Open, destroy_connection
  <2>2. ASSUME NEW i \in Ids, Ends(i)
        PROVE  pc'[t] = pc[t] /\ Position(t)' = Position(t)
    BY <2>2 DEF Ends, Position
  <2>3. CASE UNCHANGED vars
    BY <2>3 DEF vars, Position
  <2> QED
    BY <2>1, <2>2, <2>3, OthersAway DEF Next
<1> QED
  BY <1>1 DEF RequestsLeft

\* A call of a thread that shares its file with no other gets nearer its end
\* with every request, whatever others do (FewerRequestsLeft).
THEOREM CallsEnd == Spec => FewerRequestsLeft
<1>1. IInv /\ [Next]_vars =>
        [\A t \in Threads :
            Alone(t) /\ pc[t] # "idle" =>
                IF CallStep(t) THEN RequestsLeft(t)' < RequestsLeft(t)
                ELSE pc'[t] = pc[t] /\ RequestsLeft(t)' = RequestsLeft(t)]_vars
  BY RequestNearer, OnlyOwnRequests DEF IInv
<1> QED
  BY <1>1, Invariance, PTL DEF Spec, FewerRequestsLeft

\* The number that CallsEnd counts down is a natural number, and at most two
\* more than the device can have connections.
THEOREM BoundedRequests ==
    Spec => [](\A t \in Threads : RequestsLeft(t) \in 0 .. Connections + 2)
<1>1. IInv => \A t \in Threads : RequestsLeft(t) \in 0 .. Connections + 2
  BY RequestsNat DEF IInv
<1> QED
  BY <1>1, Invariance, PTL

=============================================================================
