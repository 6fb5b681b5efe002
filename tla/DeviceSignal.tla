---------------------------- MODULE DeviceSignal ----------------------------
(***************************************************************************)
(* hal::DeviceSignal: the events of a device that send signals.            *)
(*                                                                         *)
(* set_signal_action gives the driver the address of the context inside a  *)
(* DeviceSignal object, for some events of a channel.  Each time an event  *)
(* comes, the driver reads the context: it says which signal is sent and   *)
(* whether the handler is kept.  Cancelling the events takes the handlers  *)
(* out again.                                                              *)
(*                                                                         *)
(* Callers are assumed to do what the driver's pointer asks of them: they  *)
(* destroy an object only after they have cancelled, without an error, all *)
(* the events that they set it for.                                        *)
(***************************************************************************)
EXTENDS Context

CONSTANTS
    Signals,    \* addresses of DeviceSignal objects
    NoSignal,   \* no address
    Channels,   \* the channels of the device, which an action names by a u8
    Events      \* the events of a channel, by the number of their flag's bit

ASSUME NoSignalAssumption == NoSignal \notin Signals

ASSUME ChannelsAssumption == Channels \subseteq 0 .. 255

ASSUME EventsAssumption == Events \subseteq 0 .. 31

VARIABLES
    signals,    \* the addresses at which there is an object
    keep,       \* those of them that are persistent
    handler,    \* handler[c][e]: the context that the driver reads when the
                \* event e of channel c comes
    expected    \* expected[s]: the events that the caller has set s for, and
                \* neither cancelled nor seen the end of

signalVars == <<signals, keep, handler, expected>>

SignalInit ==
    /\ signals = {}
    /\ keep = {}
    /\ handler = [c \in Channels |-> [e \in Events |-> NoSignal]]
    /\ expected = [s \in Signals |-> {}]

-----------------------------------------------------------------------------
\* DeviceSignal(persistent, signo, sigvalue)
CreateSignal(s, persistent) ==
    /\ s \notin signals
    /\ signals' = signals \cup {s}
    /\ keep' = IF persistent THEN keep \cup {s} ELSE keep
    /\ UNCHANGED <<ctx, handler, expected>>

DestroySignal(s) ==
    /\ s \in signals
    /\ expected[s] = {}
    /\ signals' = signals \ {s}
    /\ keep' = keep \ {s}
    /\ UNCHANGED <<ctx, handler, expected>>

\* What create_action hands over: .o_events, for which .handler.context is s.
create_action(s, c, events) ==
    [handler EXCEPT ![c] = [e \in Events |-> IF e \in events THEN s ELSE @[e]]]

set_signal_action(t, s, c, events) ==
    /\ s \in signals
    /\ \/ NotDone(t) /\ UNCHANGED <<handler, expected>>
       \/ /\ Done(t)
          /\ handler' = create_action(s, c, events)
          /\ expected' = [u \in Signals |->
                IF u = s THEN expected[u] \cup ({c} \X events)
                         ELSE expected[u] \ ({c} \X events)]
    /\ UNCHANGED <<signals, keep>>

U8(n) == n % 256

\* The ints that become the number of a channel.
CancelChannels == Channels \cup {c + 256 : c \in Channels}

\* u8(o_events) has the first eight flags.
U8Events(events) == {e \in events : e < 8}

\* A variant for which cancelling is always about channel 0.
cancelled_on_0(c, events) ==
    [handler EXCEPT ![0] =
        [e \in Events |-> IF e \in U8Events(events) THEN NoSignal ELSE @[e]]]

\* .channel = u8(channel), .o_events = u8(o_events), and no .handler
cancelled(c, events) ==
    [handler EXCEPT ![U8(c)] =
        [e \in Events |-> IF e \in U8Events(events) THEN NoSignal ELSE @[e]]]

\* The channel is an int here: 257 cancels the events of channel 1, of which
\* the caller has said nothing.
cancel(t, c, events) ==
    /\ \/ NotDone(t) /\ UNCHANGED <<handler, expected>>
       \/ /\ Done(t)
          /\ handler' = cancelled(c, events)
          /\ expected' = [s \in Signals |-> expected[s] \ ({c} \X events)]
    /\ UNCHANGED <<signals, keep>>

\* An action with a priority for the channel 0 and no event with a handler.
set_interrupt_priority(t) == Requested(t) /\ UNCHANGED signalVars

\* An event comes, and the handler stays if the context says so; what a dead
\* context says is anybody's guess.
DeviceEvent(c, e) ==
    /\ handler[c][e] # NoSignal
    /\ \/ /\ handler[c][e] \notin keep
          /\ handler' = [handler EXCEPT ![c][e] = NoSignal]
          /\ expected' = [expected EXCEPT ![handler[c][e]] = @ \ {<<c, e>>}]
       \/ /\ handler[c][e] \notin signals
          /\ UNCHANGED <<handler, expected>>
    /\ UNCHANGED <<ctx, signals, keep>>

SignalStep(t) ==
    \/ \E s \in Signals :
        \/ \E persistent \in BOOLEAN : CreateSignal(s, persistent)
        \/ DestroySignal(s)
        \/ \E c \in Channels, events \in SUBSET Events :
            set_signal_action(t, s, c, events)
    \/ \E c \in CancelChannels, events \in SUBSET Events : cancel(t, c, events)
    \/ set_interrupt_priority(t)
    \/ \E c \in Channels, e \in Events : DeviceEvent(c, e)

-----------------------------------------------------------------------------
SignalsOK ==
    /\ signals \subseteq Signals
    /\ keep \subseteq signals
    /\ handler \in [Channels -> [Events -> Signals \cup {NoSignal}]]
    /\ expected \in [Signals -> SUBSET (Channels \X Events)]

\* Whenever an event of the first eight comes, the context that the driver
\* reads is alive, and is that of the object the caller has set for it (and
\* not of another that was made at its address).  For other events this does
\* not hold: cancel_implementation takes their flags for u8.
HandlersAlive ==
    \A c \in Channels, e \in Events :
        e < 8 /\ handler[c][e] # NoSignal =>
            /\ handler[c][e] \in signals
            /\ <<c, e>> \in expected[handler[c][e]]

=============================================================================
