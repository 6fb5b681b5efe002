----------------------------- MODULE PinProofs -----------------------------
(***************************************************************************)
(* Proofs about Pin, for any threads and any nesting of scopes: the        *)
(* verdict of is_floating is right whenever it can be.                     *)
(***************************************************************************)
EXTENDS Pin, TLAPS

LEMMA InitIInv == Init => IInv
<1> SUFFICES ASSUME Init PROVE IInv
  OBVIOUS
<1>1. <<>> \in Seq(BOOLEAN) /\ Len(<<>>) = 0
  OBVIOUS
<1>2. scopes \in [Threads -> Seq(BOOLEAN)] /\ \A t \in Threads : Len(scopes[t]) <= MaxScopes
  BY <1>1, MaxScopesAssumption DEF Init
<1>3. TypeOK
  BY <1>2 DEF Init, TypeOK, Pulls, Drivers, Fresh, Failed
<1>4. ProbeProgress /\ FloatingVerdict
  BY DEF Init, ProbeProgress, FloatingVerdict
<1> QED
  BY <1>3, <1>4 DEF IInv

\* Configuring the pin disturbs the probes of all other threads.
LEMMA ConfigureDisturbs ==
  ASSUME TypeOK, NEW t \in Threads, NEW dir \in {"input", "output"},
         NEW flags \in Pulls, Configure(t, dir, flags)
  PROVE  /\ ctx' \in [Threads -> {Failed, Fresh}]
         /\ direction' \in {"input", "output"}
         /\ pull' \in Pulls
         /\ disturbed' \in [Threads -> BOOLEAN]
         /\ \A u \in Threads \ {t} : ctx'[u] = ctx[u]
         /\ \A u \in Threads : ~disturbed'[u] => ~disturbed[u]
         /\ \/ IsError(ctx'[t]) /\ UNCHANGED <<direction, pull, disturbed>>
            \/ /\ ~IsError(ctx[t]) /\ ~IsError(ctx'[t])
               /\ direction' = dir /\ pull' = flags
               /\ \A u \in Threads \ {t} : disturbed'[u]
<1>1. IsError(Failed) /\ ~IsError(Fresh)
  BY DEF IsError, Failed, Fresh
<1>2. CASE NotTaken(t) /\ UNCHANGED <<direction, pull, disturbed>>
  BY <1>1, <1>2 DEF TypeOK, NotTaken
<1>3. CASE /\ Taken(t)
           /\ direction' = dir
           /\ pull' = flags
           /\ disturbed' = [u \in Threads |-> disturbed[u] \/ u # t]
  <2>1. ctx' = [ctx EXCEPT ![t] = Fresh] /\ ~IsError(ctx[t])
    BY <1>3 DEF Taken
  <2>2. disturbed' \in [Threads -> BOOLEAN]
    BY <1>3
  <2>3. \A u \in Threads : ~disturbed'[u] => ~disturbed[u]
    BY <1>3
  <2>4. \A u \in Threads \ {t} : disturbed'[u]
    BY <1>3
  <2> QED
    BY <1>1, <1>3, <2>1, <2>2, <2>3, <2>4 DEF TypeOK
<1> QED
  BY <1>2, <1>3 DEF Configure

-----------------------------------------------------------------------------
\* Calls of a thread that is not probing.
LEMMA CallerStepIInv ==
  ASSUME IInv, NEW t \in Threads, CallerStep(t)
  PROVE  IInv'
<1> USE DEF IInv, callVars, pinVars
<1>1. ASSUME NEW dir \in {"input", "output"}, NEW flags \in Pulls,
             Configure(t, dir, flags), pc[t] = "idle",
             UNCHANGED <<latch, callVars, scopes, external>>
      PROVE  IInv'
  <2>1. TypeOK'
    BY <1>1, ConfigureDisturbs DEF TypeOK
  <2>2. ASSUME NEW u \in Threads, u # t, Undisturbed(u)'
        PROVE  Undisturbed(u) /\ UNCHANGED <<direction, pull>>
    BY <1>1, <2>2, ConfigureDisturbs DEF Undisturbed
  <2> QED
    BY <1>1, <2>1, <2>2 DEF ProbeProgress, FloatingVerdict
<1>2. ASSUME NEW value \in BOOLEAN, set_value(t, value), pc[t] = "idle",
             scopes' \in [Threads -> Seq(BOOLEAN)],
             \A u \in Threads : Len(scopes'[u]) <= MaxScopes,
             UNCHANGED <<callVars, external>>
      PROVE  IInv'
  <2>1. /\ ctx' \in [Threads -> {Failed, Fresh}]
        /\ \A u \in Threads \ {t} : ctx'[u] = ctx[u]
        /\ latch' \in BOOLEAN
        /\ UNCHANGED <<direction, pull, disturbed>>
    BY <1>2 DEF set_value, NotTaken, Taken, TypeOK
  <2>2. TypeOK'
    BY <1>2, <2>1 DEF TypeOK
  <2>3. \A u \in Threads : u # t /\ Undisturbed(u)' => Undisturbed(u)
    BY <2>1 DEF Undisturbed
  <2> QED
    BY <1>2, <2>1, <2>2, <2>3 DEF ProbeProgress, FloatingVerdict
<1>3. CASE Input(t)
  BY <1>1, <1>3 DEF Input, set_input
<1>4. CASE Output(t)
  BY <1>1, <1>4 DEF Output, set_output
<1>5. CASE SetValue(t)
  BY <1>2, <1>5 DEF SetValue, TypeOK
<1>6. CASE ResetError(t)
  BY <1>6 DEF ResetError, TypeOK, ProbeProgress, FloatingVerdict, Undisturbed
<1>7. CASE OpenScope(t)
  <2>1. PICK active \in BOOLEAN :
            /\ scopes' = [scopes EXCEPT ![t] = Append(@, active)]
            /\ set_value(t, active)
    BY <1>7 DEF OpenScope
  <2>2. /\ scopes' \in [Threads -> Seq(BOOLEAN)]
        /\ \A u \in Threads : Len(scopes'[u]) <= MaxScopes
    BY <1>7, <2>1, MaxScopesAssumption DEF OpenScope, TypeOK
  <2> QED
    BY <1>2, <1>7, <2>1, <2>2 DEF OpenScope
<1>8. CASE CloseScope(t)
  <2>1. scopes[t] \in Seq(BOOLEAN) /\ scopes[t] # <<>>
    BY <1>8 DEF CloseScope, TypeOK
  <2>2. Len(scopes[t]) \in Nat /\ Len(scopes[t]) > 0 /\ scopes[t][Len(scopes[t])] \in BOOLEAN
    BY <2>1
  <2>3. /\ SubSeq(scopes[t], 1, Len(scopes[t]) - 1) \in Seq(BOOLEAN)
        /\ Len(SubSeq(scopes[t], 1, Len(scopes[t]) - 1)) = Len(scopes[t]) - 1
    BY <2>1, <2>2
  <2>4. /\ scopes' \in [Threads -> Seq(BOOLEAN)]
        /\ \A u \in Threads : Len(scopes'[u]) <= MaxScopes
    BY <1>8, <2>2, <2>3, MaxScopesAssumption DEF CloseScope, TypeOK
  <2>5. (~scopes[t][Len(scopes[t])]) \in BOOLEAN
    BY <2>2
  <2> QED
    BY <1>2, <1>8, <2>4, <2>5 DEF CloseScope
<1>9. CASE ProbeBegin(t)
  BY <1>9 DEF ProbeBegin, Goto, TypeOK, ProbeProgress, FloatingVerdict, Undisturbed
<1> QED
  BY <1>3, <1>4, <1>5, <1>6, <1>7, <1>8, <1>9 DEF CallerStep

-----------------------------------------------------------------------------
\* One request of a probe that reads the pin.
LEMMA GetValueFacts ==
  ASSUME TypeOK, NEW t \in Threads, NEW value \in BOOLEAN, get_value(t, value)
  PROVE  /\ ctx' \in [Threads -> {Failed, Fresh}]
         /\ \A u \in Threads \ {t} : ctx'[u] = ctx[u]
         /\ ~IsError(ctx'[t]) => ~IsError(ctx[t]) /\ value \in Levels
<1>1. IsError(Failed) /\ ~IsError(Fresh)
  BY DEF IsError, Failed, Fresh
<1> QED
  BY <1>1 DEF TypeOK, get_value, NotTaken, Taken

\* The steps of is_floating.  Each keeps what the probe knows, and another
\* probe that stays undisturbed sees the same pin as before.
LEMMA ProbeStepIInv ==
  ASSUME IInv, NEW t \in Threads, ProbeStep(t)
  PROVE  IInv'
<1> USE DEF IInv, pinVars
<1>1. ASSUME NEW flags \in Pulls, Configure(t, "input", flags),
             NEW next \in {"read_up", "read_down", "idle"},
             pc' = [pc EXCEPT ![t] = next],
             next = "read_up" => flags = "pullup",
             next = "read_down" => flags = "pulldown" /\ pc[t] = "pull_down",
             UNCHANGED <<result, restore, latch, scopes, external>>
      PROVE  IInv'
  <2>1. TypeOK'
    BY <1>1, ConfigureDisturbs DEF TypeOK
  <2>2. ASSUME NEW u \in Threads, u # t, Undisturbed(u)'
        PROVE  /\ Undisturbed(u) /\ UNCHANGED <<direction, pull>>
               /\ pc'[u] = pc[u]
    BY <1>1, <2>2, ConfigureDisturbs DEF Undisturbed, TypeOK
  <2>3. ASSUME Undisturbed(t)'
        PROVE  Undisturbed(t) /\ direction' = "input" /\ pull' = flags
    BY <1>1, <2>3, ConfigureDisturbs DEF Undisturbed
  <2>4. pc'[t] = next
    BY <1>1 DEF TypeOK
  <2>5. ProbeProgress'
    BY <1>1, <2>2, <2>3, <2>4 DEF ProbeProgress
  <2>6. FloatingVerdict'
    BY <1>1, <2>2, <2>3, <2>4 DEF FloatingVerdict
  <2> QED
    BY <2>1, <2>5, <2>6
<1>2. CASE ProbePullUp(t)
  BY <1>1, <1>2 DEF ProbePullUp, set_input, Goto, Pulls
<1>3. CASE ProbePullDown(t)
  BY <1>1, <1>3 DEF ProbePullDown, set_input, Goto, Pulls
<1>4. CASE ProbeRestore(t)
  BY <1>1, <1>4 DEF ProbeRestore, set_input, Goto, TypeOK
<1>5. CASE ProbeReadUp(t)
  <2>1. PICK value \in BOOLEAN :
            /\ get_value(t, value)
            /\ result' = [result EXCEPT ![t] = value]
            /\ pc' = [pc EXCEPT ![t] = IF value THEN "pull_down" ELSE "restore"]
    BY <1>5 DEF ProbeReadUp, Goto
  <2>2. /\ pc[t] = "read_up"
        /\ UNCHANGED <<restore, scopes, direction, pull, latch, external, disturbed>>
    BY <1>5 DEF ProbeReadUp
  <2>3. TypeOK'
    BY <2>1, <2>2, GetValueFacts DEF TypeOK
  <2>4. \A u \in Threads : u # t /\ Undisturbed(u)' => Undisturbed(u) /\ pc'[u] = pc[u] /\ result'[u] = result[u]
    BY <2>1, <2>2, GetValueFacts DEF Undisturbed, TypeOK
  <2>5. ASSUME Undisturbed(t)'
        PROVE  /\ value => external # "low"
               /\ ~value => external = "low"
    <3>1. Undisturbed(t) /\ value \in Levels
      BY <2>1, <2>2, <2>5, GetValueFacts DEF Undisturbed
    <3>2. direction = "input" /\ pull = "pullup"
      BY <2>2, <3>1 DEF ProbeProgress
    <3> QED
      BY <3>1, <3>2 DEF Levels, TypeOK, Drivers
  <2>6. /\ pc'[t] = IF value THEN "pull_down" ELSE "restore"
        /\ result'[t] = value
    BY <2>1 DEF TypeOK
  <2>7. ProbeProgress'
    BY <2>2, <2>4, <2>5, <2>6 DEF ProbeProgress
  <2>8. FloatingVerdict'
    BY <2>2, <2>4, <2>5, <2>6 DEF FloatingVerdict
  <2> QED
    BY <2>3, <2>7, <2>8
<1>6. CASE ProbeReadDown(t)
  <2>1. PICK value \in BOOLEAN :
            /\ get_value(t, value)
            /\ result' = [result EXCEPT ![t] = ~value]
    BY <1>6 DEF ProbeReadDown
  <2>2. /\ pc[t] = "read_down"
        /\ pc' = [pc EXCEPT ![t] = "restore"]
        /\ UNCHANGED <<restore, scopes, direction, pull, latch, external, disturbed>>
    BY <1>6 DEF ProbeReadDown, Goto
  <2>3. TypeOK'
    BY <2>1, <2>2, GetValueFacts DEF TypeOK
  <2>4. \A u \in Threads : u # t /\ Undisturbed(u)' => Undisturbed(u) /\ pc'[u] = pc[u] /\ result'[u] = result[u]
    BY <2>1, <2>2, GetValueFacts DEF Undisturbed, TypeOK
  <2>5. ASSUME Undisturbed(t)'
        PROVE  /\ value => external # "none"
               /\ ~value => external = "none"
    <3>1. Undisturbed(t) /\ value \in Levels
      BY <2>1, <2>2, <2>5, GetValueFacts DEF Undisturbed
    <3>2. direction = "input" /\ pull = "pulldown" /\ external # "low"
      BY <2>2, <3>1 DEF ProbeProgress
    <3> QED
      BY <3>1, <3>2 DEF Levels, TypeOK, Drivers
  <2>6. pc'[t] = "restore" /\ result'[t] = ~value
    BY <2>1, <2>2 DEF TypeOK
  <2>7. ProbeProgress'
    BY <2>2, <2>4, <2>6 DEF ProbeProgress
  <2>8. FloatingVerdict'
    BY <2>2, <2>4, <2>5, <2>6 DEF FloatingVerdict
  <2> QED
    BY <2>3, <2>7, <2>8
<1> QED
  BY <1>2, <1>3, <1>4, <1>5, <1>6 DEF ProbeStep

LEMMA NextIInv == IInv /\ [Next]_vars => IInv'
<1> SUFFICES ASSUME IInv, [Next]_vars PROVE IInv'
  OBVIOUS
<1>1. CASE ExternalChange
  BY <1>1
  DEF IInv, TypeOK, ProbeProgress, FloatingVerdict, Undisturbed,
      ExternalChange, callVars, pinVars
<1>2. CASE UNCHANGED vars
  BY <1>2
  DEF IInv, TypeOK, ProbeProgress, FloatingVerdict, Undisturbed, vars
<1> QED
  BY <1>1, <1>2, CallerStepIInv, ProbeStepIInv DEF Next

-----------------------------------------------------------------------------
\* IInv holds in every reachable state.
THEOREM Invariance == Spec => []IInv
  BY InitIInv, NextIInv, PTL DEF Spec

\* The types of the variables (TypeOK).
THEOREM TypeCorrect == Spec => []TypeOK
<1>1. IInv => TypeOK
  BY DEF IInv
<1> QED
  BY <1>1, Invariance, PTL

\* What a probe knows at each of its statements unless it was disturbed
\* (ProbeProgress).
THEOREM ProgressRight == Spec => []ProbeProgress
<1>1. IInv => ProbeProgress
  BY DEF IInv
<1> QED
  BY <1>1, Invariance, PTL

\* is_floating tells the truth whenever it ends without an error and the pin
\* was left alone in the meantime (FloatingVerdict).
THEOREM VerdictRight == Spec => []FloatingVerdict
<1>1. IInv => FloatingVerdict
  BY DEF IInv
<1> QED
  BY <1>1, Invariance, PTL

=============================================================================
