----------------------------- MODULE I2CProofs -----------------------------
(***************************************************************************)
(* Proofs about I2C, for any threads, addresses, registers and bits: what  *)
(* scan reports, and what modify_register writes.                          *)
(***************************************************************************)
EXTENDS I2C, TLAPS

LEMMA Contexts == IsError(Failed) /\ ~IsError(Fresh) /\ Failed # Fresh
  BY DEF IsError, Failed, Fresh

LEMMA InitIInv == Init => IInv
<1> SUFFICES ASSUME Init PROVE IInv
  OBVIOUS
<1>1. registers \in [Addresses -> [Locations -> Bytes]]
  BY ContentsAssumption DEF Init, Bytes
<1>2. TypeOK
  BY <1>1, BoundsAssumption, PopulationsAssumption
  DEF Init, TypeOK, Scanning, Modifying, Addresses
<1>3. OnlyReadBytes /\ ScanVerdict /\ Progress
  BY DEF Init, OnlyReadBytes, ScanVerdict, Progress, ScanProgress, ModifyProgress, Modifying
<1> QED
  BY <1>2, <1>3 DEF IInv

\* What the invariant says of one thread.
Own(u) ==
    /\ pc[u] \in {"seek_to_write", "write"} /\ ~IsError(ctx[u]) =>
        \E byte \in Bytes : value[u] = {byte}
    /\ pc[u] = "scan" /\ ~reselected[u] => Found(u)
    /\ ScanProgress(u)
    /\ ModifyProgress(u)

LEMMA IInvByThread == IInv <=> TypeOK /\ \A u \in Threads : Own(u)
  BY DEF IInv, OnlyReadBytes, ScanVerdict, Progress, Own

\* A step of t as the other threads see it: theirs is left alone, and what it
\* does to the bus and the file shows in reselected and moved.
Unnoticed(t) ==
    /\ present' = present
    /\ \A u \in Threads \ {t} :
        /\ ctx'[u] = ctx[u] /\ pc'[u] = pc[u]
        /\ addr'[u] = addr[u] /\ result'[u] = result[u]
        /\ saved'[u] = saved[u] /\ hampered'[u] = hampered[u]
        /\ options'[u] = options[u] /\ value'[u] = value[u]
        /\ pc[u] # "idle" =>
            /\ ~reselected'[u] => ~reselected[u] /\ slave' = slave /\ o_flags' = o_flags
            /\ ~moved'[u] => ~moved[u] /\ offset' = offset /\ registers' = registers

LEMMA OthersKeep ==
  ASSUME IInv, NEW t \in Threads, Unnoticed(t), TypeOK', Own(t)'
  PROVE  IInv'
<1> SUFFICES ASSUME NEW u \in Threads, u # t PROVE Own(u)'
  BY IInvByThread DEF IInv, OnlyReadBytes, ScanVerdict, Progress, Own
<1>1. Own(u)
  BY IInvByThread
<1>2. CASE pc[u] = "idle"
  BY <1>1, <1>2 DEF Unnoticed, Own, ScanProgress, ModifyProgress, Modifying, Scanning
<1>3. CASE pc[u] # "idle"
  <2>1. /\ ctx'[u] = ctx[u] /\ pc'[u] = pc[u]
        /\ addr'[u] = addr[u] /\ result'[u] = result[u]
        /\ saved'[u] = saved[u] /\ hampered'[u] = hampered[u]
        /\ options'[u] = options[u] /\ value'[u] = value[u]
        /\ present' = present
        /\ ~reselected'[u] => ~reselected[u] /\ slave' = slave /\ o_flags' = o_flags
        /\ ~moved'[u] => ~moved[u] /\ offset' = offset /\ registers' = registers
    BY <1>3 DEF Unnoticed
  <2>2. Found(u)' <=> Found(u)
    BY <2>1 DEF Found
  <2>3. ScanProgress(u)'
    BY <1>1, <2>1, <2>2 DEF Own, ScanProgress
  <2>4. ModifyProgress(u)'
    BY <1>1, <2>1 DEF Own, ModifyProgress, Modified
  <2> QED
    BY <1>1, <2>1, <2>2, <2>3, <2>4 DEF Own
<1> QED
  BY <1>2, <1>3

-----------------------------------------------------------------------------
(***************************************************************************)
(* What the requests do.                                                   *)
(***************************************************************************)
\* The variables that requests change, as their types and the others see them.
Request(t) ==
    /\ ctx' \in [Threads -> {Failed, Fresh}]
    /\ \A u \in Threads \ {t} : ctx'[u] = ctx[u]
    /\ ~IsError(ctx'[t]) => ~IsError(ctx[t])
    /\ slave' \in 0 .. LastAddress
    /\ o_flags' \in Flags
    /\ offset' \in 0 .. LastLocation + 1
    /\ registers' \in [Addresses -> [Locations -> Bytes]]
    /\ reselected' \in [Threads -> BOOLEAN]
    /\ moved' \in [Threads -> BOOLEAN]
    /\ reselected'[t] = reselected[t]
    /\ moved'[t] = moved[t]
    /\ \A u \in Threads \ {t} : pc[u] # "idle" =>
        /\ ~reselected'[u] => ~reselected[u] /\ slave' = slave /\ o_flags' = o_flags
        /\ ~moved'[u] => ~moved[u] /\ offset' = offset /\ registers' = registers

LEMMA ForOthersMarks ==
  ASSUME NEW h \in [Threads -> BOOLEAN], NEW t \in Threads
  PROVE  /\ ForOthers(h, t) \in [Threads -> BOOLEAN]
         /\ ForOthers(h, t)[t] = h[t]
         /\ \A u \in Threads \ {t} : pc[u] # "idle" => ForOthers(h, t)[u]
  BY Zenon DEF ForOthers

LEMMA NotDoneRequest ==
  ASSUME TypeOK, NEW t \in Threads, NotDone(t)
  PROVE  Request(t) /\ IsError(ctx'[t]) /\ UNCHANGED <<busVars, fileVars>>
  BY Contexts DEF TypeOK, NotDone, Request, busVars, fileVars, history

LEMMA SelectedRequest ==
  ASSUME TypeOK, NEW t \in Threads, NEW a \in 0 .. LastAddress, NEW f \in Flags,
         Selected(t, a, f)
  PROVE  Request(t) /\ ~IsError(ctx'[t]) /\ slave' = a /\ o_flags' = f /\ UNCHANGED fileVars
<1>1. /\ reselected' \in [Threads -> BOOLEAN]
      /\ reselected'[t] = reselected[t]
      /\ \A u \in Threads \ {t} : pc[u] # "idle" => reselected'[u]
  BY ForOthersMarks DEF TypeOK, Selected
<1> QED
  BY <1>1, Contexts DEF TypeOK, Selected, Done, Request, fileVars

LEMMA SeekRequest ==
  ASSUME TypeOK, NEW t \in Threads, NEW l \in Locations, seek(t, l)
  PROVE  /\ Request(t)
         /\ UNCHANGED <<busVars, registers>>
         /\ ~IsError(ctx'[t]) => offset' = l
<1>1. CASE NotDone(t)
  BY <1>1, NotDoneRequest DEF busVars, fileVars
<1>2. CASE /\ Done(t)
           /\ offset' = l
           /\ moved' = ForOthers(moved, t)
           /\ UNCHANGED <<busVars, registers, reselected>>
  <2>1. /\ moved' \in [Threads -> BOOLEAN]
        /\ moved'[t] = moved[t]
        /\ \A u \in Threads \ {t} : pc[u] # "idle" => moved'[u]
    BY <1>2, ForOthersMarks DEF TypeOK
  <2>2. offset' \in 0 .. LastLocation + 1
    BY <1>2, BoundsAssumption DEF Locations
  <2> QED
    BY <1>2, <2>1, <2>2, Contexts DEF TypeOK, Done, Request, busVars
<1> QED
  BY <1>1, <1>2 DEF seek

LEMMA TransferRequest ==
  ASSUME TypeOK, NEW t \in Threads, Transferred(t),
         registers' \in [Addresses -> [Locations -> Bytes]]
  PROVE  Request(t) /\ UNCHANGED busVars /\ slave \in present
<1>1. /\ moved' \in [Threads -> BOOLEAN]
      /\ moved'[t] = moved[t]
      /\ \A u \in Threads \ {t} : pc[u] # "idle" => moved'[u]
  BY ForOthersMarks DEF TypeOK, Transferred
<1>2. offset' \in 0 .. LastLocation + 1
  BY DEF Transferred
<1> QED
  BY <1>1, <1>2, Contexts DEF TypeOK, Transferred, Done, Request, busVars

LEMMA ReadRequest ==
  ASSUME TypeOK, NEW t \in Threads, NEW byte \in Bytes, ReadDone(t, byte)
  PROVE  /\ Request(t) /\ UNCHANGED <<busVars, registers>>
         /\ ~IsError(ctx[t]) /\ ~IsError(ctx'[t])
         /\ slave \in present
         /\ offset \in Locations /\ o_flags = "prepare_ptr_data" =>
                byte = registers[slave][offset]
<1>1. Request(t) /\ UNCHANGED busVars /\ slave \in present
  BY TransferRequest DEF ReadDone, TypeOK
<1> QED
  BY <1>1, Contexts DEF ReadDone, Transferred, Done, Reached, TypeOK

LEMMA WriteRequest ==
  ASSUME TypeOK, NEW t \in Threads, NEW byte \in Bytes, write(t, byte)
  PROVE  /\ Request(t) /\ UNCHANGED busVars
         /\ ~IsError(ctx'[t]) =>
              /\ slave \in present
              /\ \E l \in Reached : registers' = [registers EXCEPT ![slave][l] = byte]
<1>1. CASE NotDone(t)
  BY <1>1, NotDoneRequest
<1>2. CASE /\ Transferred(t)
           /\ \E l \in Reached : registers' = [registers EXCEPT ![slave][l] = byte]
  <2>1. Reached \subseteq Locations
    BY DEF Reached
  <2>2. slave \in Addresses
    BY <1>2 DEF Transferred, TypeOK
  <2>3. registers' \in [Addresses -> [Locations -> Bytes]]
    BY <1>2, <2>1, <2>2 DEF TypeOK
  <2> QED
    BY <1>2, <2>3, TransferRequest
<1> QED
  BY <1>1, <1>2 DEF write


-----------------------------------------------------------------------------
\* Calls that are one request, and the reset of the context.
LEMMA CallerStepIInv ==
  ASSUME IInv, NEW t \in Threads, CallerStep(t)
  PROVE  IInv'
<1> USE DEF callVars, scanVars, modifyVars
<1>0. Own(t)
  BY IInvByThread
<1>1. ASSUME Request(t), pc[t] = "idle", UNCHANGED <<callVars, present>>
      PROVE  IInv'
  <2>1. TypeOK'
    BY <1>1 DEF IInv, TypeOK, Request
  <2>2. Own(t)'
    BY <1>1, <1>0 DEF Own, ScanProgress, ModifyProgress, Modifying, Scanning
  <2>3. Unnoticed(t)
    BY <1>1 DEF Unnoticed, Request
  <2> QED
    BY <2>1, <2>2, <2>3, OthersKeep
<1>2. TypeOK
  BY DEF IInv
<1>3. CASE Prepare(t)
  BY <1>1, <1>2, <1>3, NotDoneRequest, SelectedRequest DEF Prepare, prepare, Addresses
<1>4. CASE Configure(t)
  <2>1. 0 \in 0 .. LastAddress /\ o_flags \in Flags
    BY <1>2, BoundsAssumption DEF TypeOK
  <2> QED
    BY <1>1, <1>2, <1>4, <2>1, NotDoneRequest, SelectedRequest DEF Configure
<1>5. CASE Seek(t)
  BY <1>1, <1>2, <1>5, SeekRequest DEF Seek
<1>6. CASE Read(t)
  BY <1>1, <1>2, <1>6, NotDoneRequest, ReadRequest DEF Read
<1>7. CASE Write(t)
  <2>1. PICK byte \in Contents : write(t, byte)
    BY <1>7 DEF Write
  <2>2. byte \in Bytes
    BY ContentsAssumption DEF Bytes
  <2>3. Request(t)
    BY <1>2, <2>1, <2>2, WriteRequest
  <2> QED
    BY <1>1, <1>7, <2>3 DEF Write
<1>8. CASE ResetError(t)
  <2>1. TypeOK'
    BY <1>2, <1>8 DEF ResetError, TypeOK, busVars, fileVars, history
  <2>2. Own(t)'
    BY <1>8, <1>0 DEF ResetError, Own, ScanProgress, ModifyProgress, Modifying, Scanning
  <2>3. Unnoticed(t)
    BY <1>2, <1>8 DEF ResetError, Unnoticed, TypeOK, busVars, fileVars, history
  <2> QED
    BY <2>1, <2>2, <2>3, OthersKeep
<1>9. CASE ScanBegin(t)
  <2>0. hampered' \in [Threads -> BOOLEAN]
    <3>1. IsError(ctx[t]) \in BOOLEAN
      BY DEF IsError
    <3> QED
      BY <1>2, <1>9, <3>1, Zenon DEF ScanBegin, TypeOK
  <2>1. TypeOK'
    BY <1>2, <1>9, <2>0 DEF ScanBegin, Enter, Goto, TypeOK, busVars, fileVars, history, Scanning
  <2>2. Unnoticed(t)
    BY <1>2, <1>9 DEF ScanBegin, Enter, Goto, Unnoticed, TypeOK, busVars, fileVars, history
  <2>3. addr[t] = 1 /\ result[t] = {}
    BY <1>9, <1>0 DEF ScanBegin, Enter, Own, ScanProgress, Scanning
  <2>4. /\ pc'[t] = "scan" /\ ctx' = ctx /\ addr' = addr /\ result' = result
        /\ hampered'[t] = IsError(ctx[t])
    BY <1>2, <1>9 DEF ScanBegin, Enter, Goto, TypeOK
  <2>5. {a \in present' : a < 1} = {}
    <3>1. \A a \in present : a \in 1 .. LastAddress
      BY <1>2 DEF TypeOK, Addresses
    <3>2. present' = present
      BY <1>9 DEF ScanBegin
    <3> QED
      BY <3>1, <3>2, BoundsAssumption
  <2>6. Found(t)'
    BY <2>3, <2>4, <2>5 DEF Found
  <2>7. Own(t)'
    BY <2>4, <2>6 DEF Own, ScanProgress, ModifyProgress, Modifying, Scanning
  <2> QED
    BY <2>1, <2>2, <2>7, OthersKeep
<1>11. CASE ModifyBegin(t)
  <2>1. PICK o \in Options : options' = [options EXCEPT ![t] = o]
    BY <1>11 DEF ModifyBegin
  <2>2. TypeOK'
    BY <1>2, <1>11, <2>1 DEF ModifyBegin, Enter, Goto, TypeOK, busVars, fileVars, history, Modifying
  <2>3. Unnoticed(t)
    BY <1>2, <1>11 DEF ModifyBegin, Enter, Goto, Unnoticed, TypeOK, busVars, fileVars, history
  <2>4. pc'[t] = "seek_to_read" /\ options'[t] \in Options /\ pc[t] = "idle"
    BY <1>2, <1>11, <2>1 DEF ModifyBegin, Enter, Goto, TypeOK
  <2>5. Own(t)'
    BY <1>0, <1>11, <2>4 DEF ModifyBegin, Own, ScanProgress, ModifyProgress, Scanning
  <2> QED
    BY <2>2, <2>3, <2>5, OthersKeep
<1> QED
  BY <1>3, <1>4, <1>5, <1>6, <1>7, <1>8, <1>9, <1>11 DEF CallerStep

-----------------------------------------------------------------------------
\* Steps of a scan.
LEMMA ScanStepIInv ==
  ASSUME IInv, NEW t \in Threads, ScanStep(t)
  PROVE  IInv'
<1> USE DEF callVars, scanVars, modifyVars
<1>1. TypeOK /\ Own(t)
  BY IInvByThread DEF IInv
<1>2. CASE ScanOpenScope(t)
  <2>1. PICK context \in {ctx[t], Fresh} : ctx' = [ctx EXCEPT ![t] = context]
    BY <1>2 DEF ScanOpenScope
  <2>2. TypeOK'
    BY <1>1, <1>2, <2>1
    DEF ScanOpenScope, Goto, TypeOK, busVars, fileVars, history, Scanning
  <2>3. Unnoticed(t)
    BY <1>1, <1>2, <2>1
    DEF ScanOpenScope, Goto, Unnoticed, TypeOK, busVars, fileVars, history
  <2>4. /\ pc[t] = "scan" /\ pc'[t] = "scan_prepare"
        /\ saved'[t] = ctx[t]
        /\ IsError(ctx'[t]) => IsError(ctx[t])
        /\ addr[t] \in Addresses
        /\ UNCHANGED <<addr, result, hampered, options, value, present, reselected, moved>>
    BY <1>1, <1>2, <2>1, Contexts DEF ScanOpenScope, Goto, TypeOK, history
  <2>5. Found(t)' <=> Found(t)
    BY <2>4 DEF Found
  <2>6. Own(t)'
    BY <1>1, <2>4, <2>5 DEF Own, ScanProgress, ModifyProgress, Modifying, Scanning
  <2> QED
    BY <2>2, <2>3, <2>6, OthersKeep
<1>3. CASE ScanPrepare(t)
  <2>1. addr[t] \in 0 .. LastAddress /\ "prepare_data" \in Flags
    BY <1>1, <1>3 DEF ScanPrepare, Own, ScanProgress, Addresses, Flags
  <2>2. /\ Request(t)
        /\ \/ ~IsError(ctx'[t]) /\ slave' = addr[t] /\ hampered' = hampered
           \/ /\ IsError(ctx'[t])
              /\ hampered' = [hampered EXCEPT ![t] = @ \/ ~IsError(ctx[t])]
    BY <1>1, <1>3, <2>1, NotDoneRequest, SelectedRequest DEF ScanPrepare
  <2>3. /\ hampered' \in [Threads -> BOOLEAN]
        /\ \A u \in Threads \ {t} : hampered'[u] = hampered[u]
        /\ hampered[t] => hampered'[t]
        /\ IsError(ctx'[t]) => hampered'[t]
    <3>1. IsError(ctx[t]) => hampered[t]
      BY <1>1, <1>3 DEF ScanPrepare, Own, ScanProgress
    <3>2. (hampered[t] \/ ~IsError(ctx[t])) \in BOOLEAN
      OBVIOUS
    <3>3. CASE hampered' = hampered /\ ~IsError(ctx'[t])
      BY <1>1, <3>3 DEF TypeOK
    <3>4. CASE hampered' = [hampered EXCEPT ![t] = @ \/ ~IsError(ctx[t])]
      BY <1>1, <3>1, <3>2, <3>4, Zenon DEF TypeOK
    <3> QED
      BY <2>2, <3>3, <3>4
  <2>4. TypeOK'
    BY <1>1, <1>3, <2>2, <2>3 DEF ScanPrepare, Goto, TypeOK, Request, Scanning
  <2>5. Unnoticed(t)
    BY <1>1, <1>3, <2>2, <2>3 DEF ScanPrepare, Goto, Unnoticed, Request, TypeOK
  <2>6. /\ pc[t] = "scan_prepare" /\ pc'[t] = "scan_read"
        /\ reselected'[t] = reselected[t]
        /\ UNCHANGED <<addr, result, saved, options, value, present>>
    BY <1>1, <1>3, <2>2 DEF ScanPrepare, Goto, TypeOK, Request
  <2>7. Found(t) => Found(t)'
    BY <2>3, <2>6 DEF Found
  <2>8. Own(t)'
    BY <1>1, <2>2, <2>3, <2>6, <2>7 DEF Own, ScanProgress, ModifyProgress, Modifying, Scanning
  <2> QED
    BY <2>4, <2>5, <2>8, OthersKeep
<1>4. CASE ScanRead(t)
  <2>1. /\ Request(t)
        /\ \/ ~IsError(ctx'[t]) /\ ~IsError(ctx[t]) /\ slave \in present /\ hampered' = hampered
           \/ /\ IsError(ctx'[t])
              /\ hampered' = [hampered EXCEPT ![t] =
                                @ \/ (~IsError(ctx[t]) /\ slave \in present)]
    BY <1>1, <1>4, NotDoneRequest, ReadRequest DEF ScanRead
  <2>2. /\ hampered' \in [Threads -> BOOLEAN]
        /\ \A u \in Threads \ {t} : hampered'[u] = hampered[u]
        /\ hampered[t] => hampered'[t]
        /\ IsError(ctx'[t]) /\ ~IsError(ctx[t]) /\ slave \in present => hampered'[t]
    <3>1. (hampered[t] \/ (~IsError(ctx[t]) /\ slave \in present)) \in BOOLEAN
      OBVIOUS
    <3>2. CASE hampered' = hampered /\ ~IsError(ctx'[t])
      BY <1>1, <3>2 DEF TypeOK
    <3>3. CASE hampered' = [hampered EXCEPT ![t] = @ \/ (~IsError(ctx[t]) /\ slave \in present)]
      BY <1>1, <3>1, <3>3, Zenon DEF TypeOK
    <3> QED
      BY <2>1, <3>2, <3>3
  <2>3. TypeOK'
    BY <1>1, <1>4, <2>1, <2>2 DEF ScanRead, Goto, TypeOK, Request, Scanning
  <2>4. Unnoticed(t)
    BY <1>1, <1>4, <2>1, <2>2 DEF ScanRead, Goto, Unnoticed, Request, TypeOK
  <2>5. /\ pc[t] = "scan_read" /\ pc'[t] = "scan_check"
        /\ reselected'[t] = reselected[t]
        /\ UNCHANGED <<addr, result, saved, options, value, present>>
    BY <1>1, <1>4, <2>1 DEF ScanRead, Goto, TypeOK, Request
  <2>6. Found(t) => Found(t)'
    BY <2>2, <2>5 DEF Found
  <2>7. Own(t)'
    BY <1>1, <2>1, <2>2, <2>5, <2>6 DEF Own, ScanProgress, ModifyProgress, Modifying, Scanning
  <2> QED
    BY <2>3, <2>4, <2>7, OthersKeep
<1>5. CASE ScanCloseScope(t)
  <2>1. PICK context \in {saved[t], Fresh} : ctx' = [ctx EXCEPT ![t] = context]
    BY <1>5 DEF ScanCloseScope
  <2>2. addr[t] \in Addresses /\ addr[t] + 1 \in 1 .. LastAddress + 1
    BY <1>1, <1>5, BoundsAssumption DEF ScanCloseScope, Own, ScanProgress, Addresses
  <2>3. TypeOK'
    BY <1>1, <1>5, <2>1, <2>2
    DEF ScanCloseScope, Check, Goto, TypeOK, busVars, fileVars, history, Scanning
  <2>4. Unnoticed(t)
    BY <1>1, <1>5, <2>1
    DEF ScanCloseScope, Check, Goto, Unnoticed, TypeOK, busVars, fileVars, history
  <2>5. /\ pc[t] = "scan_check" /\ pc'[t] = "scan"
        /\ addr'[t] = addr[t] + 1
        /\ result'[t] = IF IsError(ctx[t]) THEN result[t] ELSE result[t] \cup {addr[t]}
        /\ IsError(ctx'[t]) => IsError(saved[t])
        /\ UNCHANGED <<saved, hampered, options, value, present, reselected, moved>>
    BY <1>1, <1>5, <2>1, Contexts DEF ScanCloseScope, Check, Goto, TypeOK, history
  <2>6. ASSUME ~reselected[t] PROVE Found(t)'
    <3>1. {a \in present : a < addr[t] + 1} =
          {a \in present : a < addr[t]} \cup ({addr[t]} \cap present)
      <4>1. addr[t] \in Int /\ \A a \in present : a \in Int
        BY <1>1, <2>2, BoundsAssumption DEF TypeOK, Addresses
      <4>2. \A a \in present : a < addr[t] + 1 <=> a < addr[t] \/ a = addr[t]
        BY <4>1
      <4> QED
        BY <4>2
    <3>2. Found(t)
      BY <1>1, <2>5, <2>6 DEF Own, ScanProgress
    <3>3. ~IsError(ctx[t]) => addr[t] \in present
      BY <1>1, <2>5, <2>6 DEF Own, ScanProgress
    <3>4. ~hampered[t] => (~IsError(ctx[t]) <=> addr[t] \in present)
      BY <1>1, <2>5, <2>6 DEF Own, ScanProgress
    <3> QED
      BY <2>5, <3>1, <3>2, <3>3, <3>4 DEF Found
  <2>7. Own(t)'
    BY <1>1, <2>5, <2>6 DEF Own, ScanProgress, ModifyProgress, Modifying, Scanning
  <2> QED
    BY <2>3, <2>4, <2>7, OthersKeep
<1> QED
  BY <1>2, <1>3, <1>4, <1>5 DEF ScanStep

-----------------------------------------------------------------------------
\* Steps of modify_register.
LEMMA ModifyStepIInv ==
  ASSUME IInv, NEW t \in Threads, ModifyStep(t)
  PROVE  IInv'
<1> USE DEF callVars, scanVars, modifyVars
<1>1. TypeOK /\ Own(t)
  BY IInvByThread DEF IInv
\* Before its write, modify_register has its options, of the right types.
<1>2. pc[t] \in Modifying \ {"return"} =>
        /\ options[t] \in Options
        /\ options[t].location \in Locations
  BY <1>1, OptionsAssumption DEF Own, ModifyProgress, Locations
<1>3. ASSUME Request(t), pc[t] \in Modifying,
             \E next \in Modifying : Goto(t, next),
             value' \in [Threads -> SUBSET Bytes],
             \A u \in Threads \ {t} : value'[u] = value[u],
             UNCHANGED <<scanVars, options, present>>
      PROVE  TypeOK' /\ Unnoticed(t)
  <2>1. TypeOK'
    BY <1>1, <1>3 DEF Goto, TypeOK, Request
  <2>2. Unnoticed(t)
    BY <1>1, <1>3 DEF Goto, Unnoticed, Request, TypeOK
  <2> QED
    BY <2>1, <2>2
<1>4. CASE ModifySeekToRead(t)
  <2>1. Request(t) /\ (~IsError(ctx'[t]) => offset' = options[t].location)
    BY <1>1, <1>2, <1>4, SeekRequest DEF ModifySeekToRead, Modifying
  <2>2. TypeOK' /\ Unnoticed(t)
    BY <1>1, <1>3, <1>4, <2>1 DEF ModifySeekToRead, Modifying, TypeOK
  <2>3. pc[t] = "seek_to_read" /\ pc'[t] = "read"
    BY <1>1, <1>4 DEF ModifySeekToRead, Goto, TypeOK
  <2>4. Own(t)'
    BY <1>1, <1>4, <2>1, <2>3
    DEF ModifySeekToRead, Own, ScanProgress, ModifyProgress, Modifying, Scanning
  <2> QED
    BY <2>2, <2>4, OthersKeep
<1>5. CASE ModifyRead(t)
  <2> DEFINE o == options[t]
  <2>1. PICK read \in SUBSET Bytes :
            /\ \/ NotDone(t) /\ read = value[t]
               \/ \E byte \in Bytes : ReadDone(t, byte) /\ read = {byte}
            /\ value' = [value EXCEPT ![t] = {Modified(byte, o) : byte \in read}]
    BY <1>5 DEF ModifyRead
  <2>2. \A byte \in Bytes : Modified(byte, o) \in Bytes
    BY <1>2, <1>5, OptionsAssumption DEF ModifyRead, Modifying, Modified, Bytes
  <2>3. {Modified(byte, o) : byte \in read} \in SUBSET Bytes
    BY <2>2
  <2>4. /\ value' \in [Threads -> SUBSET Bytes]
        /\ \A u \in Threads \ {t} : value'[u] = value[u]
        /\ value'[t] = {Modified(byte, o) : byte \in read}
    BY <1>1, <2>1, <2>3 DEF TypeOK
  <2>5. Request(t) /\ UNCHANGED <<busVars, registers>>
    BY <1>1, <2>1, NotDoneRequest, ReadRequest DEF fileVars
  <2>6. TypeOK' /\ Unnoticed(t)
    BY <1>3, <1>5, <2>4, <2>5 DEF ModifyRead, Modifying
  <2>7. pc[t] = "read" /\ pc'[t] = "seek_to_write"
    BY <1>1, <1>5 DEF ModifyRead, Goto, TypeOK
  <2>8. ASSUME ~IsError(ctx'[t])
        PROVE  \E byte \in Bytes :
                  /\ value'[t] = {Modified(byte, o)}
                  /\ offset \in Locations /\ o_flags = "prepare_ptr_data" =>
                        byte = registers[slave][offset]
    <3>1. PICK byte \in Bytes : ReadDone(t, byte) /\ read = {byte}
      BY <1>1, <2>1, <2>8, NotDoneRequest
    <3> QED
      BY <1>1, <2>4, <3>1, ReadRequest
  <2>9. ASSUME ~IsError(ctx'[t]), ~reselected[t], ~moved[t], o_flags = "prepare_ptr_data"
        PROVE  value'[t] = {Modified(registers[slave][o.location], o)}
    <3>1. offset = o.location /\ offset \in Locations
      BY <1>1, <1>2, <2>5, <2>7, <2>9 DEF Own, ModifyProgress, Modifying, Request
    <3> QED
      BY <2>8, <2>9, <3>1
  <2>10. UNCHANGED <<addr, result, options, slave, o_flags, registers, present>>
         /\ reselected'[t] = reselected[t] /\ moved'[t] = moved[t]
    BY <1>5, <2>5 DEF ModifyRead, busVars, Request
  <2>11. ModifyProgress(t)'
    BY <1>2, <2>7, <2>9, <2>10 DEF ModifyProgress, Modifying, Modified
  <2>12. Own(t)'
    BY <1>1, <2>2, <2>7, <2>8, <2>10, <2>11 DEF Own, ScanProgress, Scanning
  <2> QED
    BY <2>6, <2>12, OthersKeep
<1>6. CASE ModifySeekToWrite(t)
  <2>1. /\ Request(t) /\ UNCHANGED <<busVars, registers>>
        /\ ~IsError(ctx'[t]) => offset' = options[t].location
    BY <1>1, <1>2, <1>6, SeekRequest DEF ModifySeekToWrite, Modifying
  <2>2. TypeOK' /\ Unnoticed(t)
    BY <1>1, <1>3, <1>6, <2>1 DEF ModifySeekToWrite, Modifying, TypeOK
  <2>3. /\ pc[t] = "seek_to_write" /\ pc'[t] = "write"
        /\ UNCHANGED <<addr, result, options, value, slave, o_flags, registers>>
        /\ reselected'[t] = reselected[t] /\ moved'[t] = moved[t]
        /\ ~IsError(ctx'[t]) => ~IsError(ctx[t])
    BY <1>1, <1>6, <2>1 DEF ModifySeekToWrite, Goto, TypeOK, busVars, Request
  <2>4. ModifyProgress(t)'
    BY <1>1, <2>1, <2>3 DEF Own, ModifyProgress, Modifying, Modified
  <2>5. Own(t)'
    BY <1>1, <2>3, <2>4 DEF Own, ScanProgress, Scanning
  <2> QED
    BY <2>2, <2>5, OthersKeep
<1>7. CASE ModifyWrite(t)
  <2>1. PICK byte \in value[t] : write(t, byte)
    BY <1>7 DEF ModifyWrite
  <2>2. Request(t)
    BY <1>1, <2>1, WriteRequest DEF TypeOK
  <2>3. TypeOK' /\ Unnoticed(t)
    BY <1>1, <1>3, <1>7, <2>2 DEF ModifyWrite, Modifying, TypeOK
  <2>4. pc[t] = "write" /\ pc'[t] = "return"
    BY <1>1, <1>7 DEF ModifyWrite, Goto, TypeOK
  <2>5. Own(t)'
    BY <1>1, <1>7, <2>4 DEF ModifyWrite, Own, ScanProgress, ModifyProgress, Scanning
  <2> QED
    BY <2>3, <2>5, OthersKeep
<1> QED
  BY <1>4, <1>5, <1>6, <1>7 DEF ModifyStep

\* Returning from either.
LEMMA ReturnIInv ==
  ASSUME IInv, NEW t \in Threads, Return(t)
  PROVE  IInv'
<1>1. TypeOK
  BY DEF IInv
<1>2. TypeOK'
  BY <1>1, BoundsAssumption, Contexts DEF Return, Goto, TypeOK, busVars, fileVars
<1>3. Unnoticed(t)
  BY <1>1 DEF Return, Goto, Unnoticed, TypeOK, busVars, fileVars
<1>4. pc'[t] = "idle" /\ addr'[t] = 1 /\ result'[t] = {}
  BY <1>1 DEF Return, Goto, TypeOK
<1>5. Own(t)'
  BY <1>4 DEF Own, ScanProgress, ModifyProgress, Modifying
<1> QED
  BY <1>2, <1>3, <1>5, OthersKeep

LEMMA StutterIInv == IInv /\ UNCHANGED vars => IInv'
  BY DEF vars, callVars, scanVars, modifyVars, busVars, fileVars, history, IInv,
     TypeOK, OnlyReadBytes, ScanVerdict, Found, Progress, ScanProgress,
     ModifyProgress, Modified

THEOREM Invariance == Spec => []IInv
<1>1. IInv /\ [Next]_vars => IInv'
  BY CallerStepIInv, ScanStepIInv, ModifyStepIInv, ReturnIInv, StutterIInv DEF Next
<1> QED
  BY InitIInv, <1>1, PTL DEF Spec

\* The types of the variables (TypeOK): a scan never leaves ScanResult.
THEOREM TypeCorrect == Spec => []TypeOK
<1>1. IInv => TypeOK
  BY DEF IInv
<1> QED
  BY <1>1, Invariance, PTL

\* No uninitialized byte is written without an error pending (OnlyReadBytes).
THEOREM NothingUninitialized == Spec => []OnlyReadBytes
<1>1. IInv => OnlyReadBytes
  BY DEF IInv
<1> QED
  BY <1>1, Invariance, PTL

\* A scan left alone reports the slaves that are there (ScanVerdict).
THEOREM ScanRight == Spec => []ScanVerdict
<1>1. IInv => ScanVerdict
  BY DEF IInv
<1> QED
  BY <1>1, Invariance, PTL

\* Only its own write takes modify_register past its write.
LEMMA WriteStep ==
  ASSUME TypeOK, Next, NEW t \in Threads, pc[t] = "write", pc'[t] = "return"
  PROVE  ModifyWrite(t)
<1>1. PICK u \in Threads : CallerStep(u) \/ ScanStep(u) \/ ModifyStep(u) \/ Return(u)
  BY DEF Next
<1>2. CASE CallerStep(u)
  BY <1>2 DEF CallerStep, Prepare, Configure, Seek, Read, Write, ResetError, ScanBegin,
     ModifyBegin, Enter, Goto, TypeOK, callVars
<1>3. CASE ScanStep(u)
  BY <1>3 DEF ScanStep, ScanOpenScope, ScanPrepare, ScanRead, ScanCloseScope, Goto, TypeOK
<1>4. CASE ModifyStep(u)
  BY <1>4 DEF ModifyStep, ModifySeekToRead, ModifyRead, ModifySeekToWrite, ModifyWrite,
     Goto, TypeOK
<1>5. CASE Return(u)
  BY <1>5 DEF Return, Goto, TypeOK
<1> QED
  BY <1>1, <1>2, <1>3, <1>4, <1>5

\* What modify_register writes, if nobody comes between its requests, is the
\* byte that the register holds, modified, and it writes it to that register.
LEMMA WritesModified ==
  ASSUME IInv, Next, NEW t \in Threads,
         pc[t] = "write", pc'[t] = "return", ~IsError(ctx'[t]),
         o_flags = "prepare_ptr_data", ~reselected[t], ~moved[t]
  PROVE  LET l == options[t].location
         IN  registers' = [registers EXCEPT
                ![slave][l] = Modified(registers[slave][l], options[t])]
<1> DEFINE l == options[t].location
<1>1. TypeOK /\ ModifyProgress(t)
  BY DEF IInv, Progress
<1>2. PICK byte \in value[t] : write(t, byte)
  BY <1>1, WriteStep DEF ModifyWrite
<1>3. byte \in Bytes
  BY <1>1, <1>2 DEF TypeOK
<1>4. /\ ~IsError(ctx[t]) /\ slave \in present
      /\ \E r \in Reached : registers' = [registers EXCEPT ![slave][r] = byte]
  BY <1>1, <1>2, <1>3, WriteRequest DEF Request
<1>5. Reached \subseteq {l}
  BY <1>1, <1>4 DEF ModifyProgress, Reached
<1>6. byte = Modified(registers[slave][l], options[t])
  BY <1>1, <1>2, <1>4 DEF ModifyProgress
<1> QED
  BY <1>4, <1>5, <1>6

\* Setting a bit changes that bit of that register (ModifySetsBit).
THEOREM SetsBit == Spec => ModifySetsBit
<1> DEFINE Set(t) ==
      LET o == options[t]
      IN  /\ pc[t] = "write" /\ pc'[t] = "return" /\ ~IsError(ctx'[t])
          /\ o_flags = "prepare_ptr_data" /\ ~reselected[t] /\ ~moved[t]
          /\ o.value
          => registers' = [registers EXCEPT ![slave][o.location] = @ \cup {o.bit}]
<1>1. ASSUME IInv, Next, NEW t \in Threads PROVE Set(t)
  <2>1. options[t].value =>
            \A byte : Modified(byte, options[t]) = byte \cup {options[t].bit}
    BY DEF Modified
  <2>2. IInv => slave \in 0 .. LastAddress /\ registers \in [Addresses -> [Locations -> Bytes]]
    BY DEF IInv, TypeOK
  <2> QED
    BY <1>1, <2>1, <2>2, WritesModified
<1>2. IInv /\ [Next]_vars => [\A t \in Threads : Set(t)]_vars
  BY <1>1
<1> QED
  BY <1>2, Invariance, PTL DEF Spec, ModifySetsBit

\* Clearing a bit clears all the others of that register (ModifyKeepsBit).
THEOREM KeepsBit == Spec => ModifyKeepsBit
<1> DEFINE Kept(t) ==
      LET o == options[t]
      IN  /\ pc[t] = "write" /\ pc'[t] = "return" /\ ~IsError(ctx'[t])
          /\ o_flags = "prepare_ptr_data" /\ ~reselected[t] /\ ~moved[t]
          /\ ~o.value
          => registers' = [registers EXCEPT ![slave][o.location] = @ \cap {o.bit}]
<1>1. ASSUME IInv, Next, NEW t \in Threads PROVE Kept(t)
  <2>1. ~options[t].value =>
            \A byte : Modified(byte, options[t]) = byte \cap {options[t].bit}
    BY DEF Modified
  <2> QED
    BY <1>1, <2>1, WritesModified
<1>2. IInv /\ [Next]_vars => [\A t \in Threads : Kept(t)]_vars
  BY <1>1
<1> QED
  BY <1>2, Invariance, PTL DEF Spec, ModifyKeepsBit

-----------------------------------------------------------------------------
(***************************************************************************)
(* Why calls end.                                                          *)
(***************************************************************************)
LEMMA StatementsNat ==
  ASSUME IInv, NEW t \in Threads
  PROVE  /\ LastAddress \in Nat /\ addr[t] \in 1 .. LastAddress + 1
         /\ StatementsLeft(t) \in 0 .. 4 * LastAddress + 5
<1>1. LastAddress \in Nat /\ addr[t] \in 1 .. LastAddress + 1
  BY BoundsAssumption DEF IInv, TypeOK
<1>2. pc[t] \in {"scan_prepare", "scan_read", "scan_check"} => addr[t] <= LastAddress
  BY <1>1 DEF IInv, Progress, ScanProgress, Addresses
<1>3. pc[t] \in {"idle"} \cup Scanning \cup Modifying
  BY DEF IInv, TypeOK
<1> DEFINE InRange == StatementsLeft(t) \in 0 .. 4 * LastAddress + 5
<1>4. ASSUME pc[t] \in {"idle"} \cup Modifying PROVE InRange
  <2>1. StatementsLeft(t) \in 0 .. 5
    BY <1>4 DEF StatementsLeft, Modifying
  <2> QED
    BY <1>1, <2>1
<1>5. ASSUME pc[t] = "scan" PROVE InRange
  BY <1>1, <1>5 DEF StatementsLeft
<1>6. ASSUME pc[t] \in {"scan_prepare", "scan_read", "scan_check"} PROVE InRange
  <2> DEFINE n == LastAddress + 1 - addr[t]
  <2>1. n \in 1 .. LastAddress
    BY <1>1, <1>2, <1>6
  <2>2. StatementsLeft(t) \in {4 * n, 4 * n - 1, 4 * n - 2}
    BY <1>6 DEF StatementsLeft
  <2> HIDE DEF n
  <2> QED
    BY <1>1, <2>1, <2>2
<1>7. InRange
  <2> HIDE DEF InRange
  <2> QED
    BY <1>3, <1>4, <1>5, <1>6 DEF Scanning
<1> QED
  BY <1>1, <1>7

\* A statement of t's own call.
LEMMA StatementNearer ==
  ASSUME IInv, NEW t \in Threads, ScanStep(t) \/ ModifyStep(t) \/ Return(t)
  PROVE  pc'[t] # pc[t] /\ StatementsLeft(t)' < StatementsLeft(t)
<1>1. /\ LastAddress \in Nat /\ addr[t] \in 1 .. LastAddress + 1
      /\ StatementsLeft(t) >= 0
      /\ TypeOK
  BY StatementsNat DEF IInv
<1> USE DEF Goto
<1>2. CASE ScanOpenScope(t)
  <2>1. pc[t] = "scan" /\ pc'[t] = "scan_prepare" /\ addr' = addr
    BY <1>1, <1>2 DEF ScanOpenScope, TypeOK
  <2> QED
    BY <1>1, <2>1 DEF StatementsLeft
<1>3. CASE ScanPrepare(t)
  <2>1. pc[t] = "scan_prepare" /\ pc'[t] = "scan_read" /\ addr' = addr
    BY <1>1, <1>3 DEF ScanPrepare, TypeOK
  <2> QED
    BY <1>1, <2>1 DEF StatementsLeft
<1>4. CASE ScanRead(t)
  <2>1. pc[t] = "scan_read" /\ pc'[t] = "scan_check" /\ addr' = addr
    BY <1>1, <1>4 DEF ScanRead, TypeOK
  <2> QED
    BY <1>1, <2>1 DEF StatementsLeft
<1>5. CASE ScanCloseScope(t)
  <2>1. pc[t] = "scan_check" /\ pc'[t] = "scan" /\ addr'[t] = addr[t] + 1
    BY <1>1, <1>5 DEF ScanCloseScope, TypeOK
  <2> QED
    BY <1>1, <2>1 DEF StatementsLeft
<1>6. CASE ModifyStep(t)
  <2>1. \/ pc[t] = "seek_to_read" /\ pc'[t] = "read"
        \/ pc[t] = "read" /\ pc'[t] = "seek_to_write"
        \/ pc[t] = "seek_to_write" /\ pc'[t] = "write"
        \/ pc[t] = "write" /\ pc'[t] = "return"
    BY <1>1, <1>6
    DEF ModifyStep, ModifySeekToRead, ModifyRead, ModifySeekToWrite, ModifyWrite, TypeOK
  <2> QED
    BY <2>1 DEF StatementsLeft
<1>7. CASE Return(t)
  <2>1. pc[t] \in {"return", "scan"} /\ pc'[t] = "idle"
    BY <1>1, <1>7 DEF Return, TypeOK
  <2>2. StatementsLeft(t) > 0
    BY <1>1, <2>1 DEF StatementsLeft
  <2> QED
    BY <2>1, <2>2 DEF StatementsLeft
<1> QED
  BY <1>2, <1>3, <1>4, <1>5, <1>6, <1>7 DEF ScanStep

\* Another thread, or a caller that is idle, leaves t where it is.
LEMMA StatementsKept ==
  ASSUME IInv, NEW t \in Threads, pc[t] # "idle", NEW u \in Threads,
         \/ CallerStep(u)
         \/ u # t /\ (ScanStep(u) \/ ModifyStep(u) \/ Return(u))
  PROVE  pc'[t] = pc[t] /\ addr'[t] = addr[t]
<1>1. CASE CallerStep(u)
  BY <1>1 DEF IInv, TypeOK, CallerStep, Prepare, Configure, Seek, Read, Write,
     ResetError, ScanBegin, ModifyBegin, Enter, Goto, callVars, scanVars
<1>2. CASE u # t /\ ScanStep(u)
  BY <1>2 DEF IInv, TypeOK, ScanStep, ScanOpenScope, ScanPrepare, ScanRead,
     ScanCloseScope, Goto
<1>3. CASE u # t /\ ModifyStep(u)
  BY <1>3 DEF IInv, TypeOK, ModifyStep, ModifySeekToRead, ModifyRead,
     ModifySeekToWrite, ModifyWrite, Goto, scanVars
<1>4. CASE u # t /\ Return(u)
  BY <1>4 DEF IInv, TypeOK, Return, Goto
<1> QED
  BY <1>1, <1>2, <1>3, <1>4

\* scan and modify_register get nearer their end with every statement, and
\* with nothing else (NearerEnd).
THEOREM CallsEnd == Spec => NearerEnd
<1>1. ASSUME IInv, [Next]_vars, NEW t \in Threads, pc[t] # "idle"
      PROVE  IF pc'[t] = pc[t] THEN StatementsLeft(t)' = StatementsLeft(t)
             ELSE StatementsLeft(t)' < StatementsLeft(t)
  <2>1. ASSUME pc'[t] = pc[t], addr'[t] = addr[t]
        PROVE  StatementsLeft(t)' = StatementsLeft(t)
    BY <2>1 DEF StatementsLeft
  <2>2. CASE UNCHANGED vars
    BY <2>1, <2>2 DEF vars, callVars, scanVars
  <2>3. CASE Next
    <3>1. PICK u \in Threads : CallerStep(u) \/ ScanStep(u) \/ ModifyStep(u) \/ Return(u)
      BY <2>3 DEF Next
    <3> QED
      BY <1>1, <2>1, <3>1, StatementNearer, StatementsKept
  <2> QED
    BY <1>1, <2>2, <2>3
<1>2. IInv /\ [Next]_vars =>
        [\A t \in Threads :
            pc[t] # "idle" =>
                IF pc'[t] = pc[t] THEN StatementsLeft(t)' = StatementsLeft(t)
                ELSE StatementsLeft(t)' < StatementsLeft(t)]_vars
  BY <1>1
<1> QED
  BY <1>2, Invariance, PTL DEF Spec, NearerEnd

\* The number that CallsEnd counts down is a natural number.
THEOREM BoundedCalls ==
    Spec => [](\A t \in Threads : StatementsLeft(t) \in 0 .. 4 * LastAddress + 5)
<1>1. IInv => \A t \in Threads : StatementsLeft(t) \in 0 .. 4 * LastAddress + 5
  BY StatementsNat
<1> QED
  BY <1>1, Invariance, PTL

=============================================================================
