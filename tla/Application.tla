---------------------------- MODULE Application ----------------------------
(***************************************************************************)
(* An application whose threads use devices of one kind: one that sends    *)
(* signals, a stream of frames, a flash memory, or a device of one of the  *)
(* classes of Settings.                                                    *)
(*                                                                         *)
(* The kinds share nothing but the error contexts of the threads.  What    *)
(* the others do to a context is nothing that a failing request of the     *)
(* same device could not do, so that one kind at a time is enough.         *)
(***************************************************************************)
EXTENDS DeviceSignal, FrameStream, Flash, Settings

VARIABLE used   \* the kind of the devices

Kinds == {"signal", "stream", "flash", "setting"}

parts == <<signalVars, streamVars, flashVars, settingVars>>
vars == <<ctx, used, parts>>

Init ==
    /\ used \in Kinds
    /\ ctx = [t \in Threads |-> Fresh]
    /\ SignalInit
    /\ StreamInit
    /\ FlashInit /\ (used # "flash" => pages = 0)
    /\ SettingInit /\ (used # "setting" => name = "Gpio")

Idle(t) == used # "setting" /\ step[t] = "idle"

ResetError(t) == Idle(t) /\ Reset(t) /\ UNCHANGED parts

SignalNext(t) ==
    /\ used = "signal"
    /\ SignalStep(t)
    /\ UNCHANGED <<streamVars, flashVars, settingVars>>

StreamNext(t) ==
    /\ used = "stream"
    /\ StreamStep(t)
    /\ UNCHANGED <<signalVars, flashVars, settingVars>>

FlashNext(t) ==
    /\ used = "flash"
    /\ FlashStep(t)
    /\ UNCHANGED <<signalVars, streamVars, settingVars>>

SettingNext(t) ==
    /\ used = "setting"
    /\ SettingStep(t)
    /\ UNCHANGED <<signalVars, streamVars, flashVars>>

Next ==
    /\ \E t \in Threads :
        \/ ResetError(t)
        \/ SignalNext(t) \/ StreamNext(t) \/ FlashNext(t) \/ SettingNext(t)
    /\ UNCHANGED used

Spec == Init /\ [][Next]_vars

-----------------------------------------------------------------------------
\* The types of the variables, component by component.
TypeOK ==
    /\ used \in Kinds
    /\ ContextOK
    /\ SignalsOK
    /\ StreamOK
    /\ FlashOK
    /\ SettingsOK

\* The inductive invariant of ApplicationProofs.  The threads of a kind that
\* is not used make no calls of it.
Unused ==
    /\ used # "flash" => \A t \in Threads : step[t] = "idle"
    /\ used # "setting" => \A t \in Threads : returned[t] = "none"

IInv ==
    /\ TypeOK
    /\ Unused
    /\ HandlersAlive
    /\ ChannelsConsistent
    /\ \A t \in Threads : ListProgress(t)
    /\ Origins /\ NothingUninitialized

=============================================================================
