------------------------- MODULE ApplicationProofs -------------------------
(***************************************************************************)
(* Proofs about the devices of an Application, for any threads, signals,   *)
(* channels, events, Infos and pages: each kind of device has an invariant *)
(* of its own, which its steps keep, and which the others leave alone.     *)
(***************************************************************************)
EXTENDS Application, TLAPS

(***************************************************************************)
(* Contexts.  A request changes the context of its thread only.            *)
(***************************************************************************)
LEMMA ContextKept ==
  ASSUME ContextOK, NEW t \in Threads,
         NotDone(t) \/ Done(t) \/ Requested(t) \/ Reset(t)
  PROVE  /\ ContextOK'
         /\ \A u \in Threads \ {t} : ctx'[u] = ctx[u]
  BY DEF ContextOK, NotDone, Done, Requested, Reset

-----------------------------------------------------------------------------
(***************************************************************************)
(* DeviceSignal.                                                           *)
(***************************************************************************)
LEMMA CancelChannel == \A c \in CancelChannels : U8(c) \in Channels /\ c \in Int
<1>1. ASSUME NEW c \in Channels
      PROVE  U8(c) = c /\ U8(c + 256) = c /\ c \in Int
  BY ChannelsAssumption DEF U8
<1> QED
  BY <1>1 DEF CancelChannels

\* A cancelled event has no handler; the caller loses none that it counts on.
LEMMA CancelOK ==
  ASSUME SignalsOK, HandlersAlive,
         NEW t \in Threads, NEW c \in CancelChannels, NEW events \in SUBSET Events,
         cancel(t, c, events)
  PROVE  SignalsOK' /\ HandlersAlive'
<1>1. CASE UNCHANGED <<handler, expected>>
  BY <1>1 DEF SignalsOK, HandlersAlive, cancel
<1>2. CASE /\ handler' = cancelled(c, events)
           /\ expected' = [s \in Signals |-> expected[s] \ ({c} \X events)]
  <2>1. U8(c) \in Channels
    BY CancelChannel
  <2>2. SignalsOK'
    BY <1>2, <2>1 DEF SignalsOK, cancel, cancelled
  <2>3. ASSUME NEW d \in Channels, NEW e \in Events,
               e < 8, handler'[d][e] # NoSignal
        PROVE  /\ handler'[d][e] \in signals'
               /\ <<d, e>> \in expected'[handler'[d][e]]
    <3>1. handler'[d][e] = handler[d][e]
      BY <1>2, <2>1, <2>3 DEF SignalsOK, cancelled
    <3>2. ~(d = U8(c) /\ e \in events)
      BY <1>2, <2>1, <2>3, EventsAssumption DEF SignalsOK, cancelled, U8Events
    <3>3. <<d, e>> \notin {c} \X events
      BY <3>2, ChannelsAssumption DEF U8
    <3>4. handler[d][e] \in signals /\ <<d, e>> \in expected[handler[d][e]]
      BY <2>3, <3>1 DEF HandlersAlive
    <3>5. signals' = signals /\ handler[d][e] \in Signals
      BY <2>3, <3>4 DEF SignalsOK, cancel
    <3> QED
      BY <1>2, <3>1, <3>3, <3>4, <3>5
  <2> QED
    BY <2>2, <2>3 DEF HandlersAlive
<1> QED
  BY <1>1, <1>2 DEF cancel

LEMMA SignalStepOK ==
  ASSUME SignalsOK, HandlersAlive, NEW t \in Threads, SignalStep(t)
  PROVE  SignalsOK' /\ HandlersAlive'
<1>1. ASSUME NEW s \in Signals, NEW persistent \in BOOLEAN,
             CreateSignal(s, persistent)
      PROVE  SignalsOK' /\ HandlersAlive'
  BY <1>1 DEF SignalsOK, HandlersAlive, CreateSignal
<1>2. ASSUME NEW s \in Signals, DestroySignal(s)
      PROVE  SignalsOK' /\ HandlersAlive'
  BY <1>2 DEF SignalsOK, HandlersAlive, DestroySignal
<1>3. ASSUME NEW s \in Signals, NEW c \in Channels, NEW events \in SUBSET Events,
             set_signal_action(t, s, c, events)
      PROVE  SignalsOK' /\ HandlersAlive'
  <2>1. CASE UNCHANGED <<handler, expected>>
    BY <1>3, <2>1 DEF SignalsOK, HandlersAlive, set_signal_action
  <2>2. CASE /\ handler' = create_action(s, c, events)
             /\ expected' = [u \in Signals |->
                    IF u = s THEN expected[u] \cup ({c} \X events)
                             ELSE expected[u] \ ({c} \X events)]
    <3>1. SignalsOK'
      <4>1. {c} \X events \subseteq Channels \X Events
        OBVIOUS
      <4>2. expected' \in [Signals -> SUBSET (Channels \X Events)]
        BY <2>2, <4>1 DEF SignalsOK
      <4>3. handler' \in [Channels -> [Events -> Signals \cup {NoSignal}]]
        BY <2>2 DEF SignalsOK, create_action
      <4> QED
        BY <1>3, <4>2, <4>3 DEF SignalsOK, set_signal_action
    <3>2. HandlersAlive'
      BY <1>3, <2>2, NoSignalAssumption
      DEF SignalsOK, HandlersAlive, set_signal_action, create_action
    <3> QED
      BY <3>1, <3>2
  <2> QED
    BY <1>3, <2>1, <2>2 DEF set_signal_action
<1>4. ASSUME NEW c \in CancelChannels, NEW events \in SUBSET Events,
             cancel(t, c, events)
      PROVE  SignalsOK' /\ HandlersAlive'
  BY <1>4, CancelOK
<1>5. CASE set_interrupt_priority(t)
  BY <1>5 DEF SignalsOK, HandlersAlive, set_interrupt_priority, signalVars
<1>6. ASSUME NEW c \in Channels, NEW e \in Events, DeviceEvent(c, e)
      PROVE  SignalsOK' /\ HandlersAlive'
  <2>1. handler[c][e] \in Signals
    BY <1>6 DEF SignalsOK, DeviceEvent
  <2>2. SignalsOK'
    BY <1>6, <2>1 DEF SignalsOK, DeviceEvent
  <2>3. HandlersAlive'
    BY <1>6, <2>1, NoSignalAssumption DEF SignalsOK, HandlersAlive, DeviceEvent
  <2> QED
    BY <2>2, <2>3
<1> QED
  BY <1>1, <1>2, <1>3, <1>4, <1>5, <1>6 DEF SignalStep

-----------------------------------------------------------------------------
(***************************************************************************)
(* FrameStream.                                                            *)
(***************************************************************************)
LEMMA StreamStepOK ==
  ASSUME StreamOK, ChannelsConsistent, NEW t \in Threads, StreamStep(t)
  PROVE  StreamOK' /\ ChannelsConsistent'
<1>1. CASE StreamRequest(t)
  BY <1>1 DEF StreamOK, ChannelsConsistent, StreamRequest, streamVars
<1>2. ASSUME NEW o \in Infos, NewInfo(t, o)
      PROVE  StreamOK' /\ ChannelsConsistent'
  BY <1>2 DEF StreamOK, ChannelsConsistent, NewInfo, Pointed
<1>3. ASSUME NEW o \in Infos, AssignInfo(t, o)
      PROVE  StreamOK' /\ ChannelsConsistent'
  BY <1>3 DEF StreamOK, ChannelsConsistent, AssignInfo, Pointed, Copies
<1>4. ASSUME NEW o \in Infos, DestroyInfo(o)
      PROVE  StreamOK' /\ ChannelsConsistent'
  BY <1>4 DEF StreamOK, ChannelsConsistent, DestroyInfo, Garbage, Copies
<1>5. ASSUME NEW o \in Infos, NEW copy \in Infos, CopyInfo(o, copy)
      PROVE  StreamOK' /\ ChannelsConsistent'
  BY <1>5 DEF StreamOK, ChannelsConsistent, CopyInfo, Copies
<1> QED
  BY <1>1, <1>2, <1>3, <1>4, <1>5 DEF StreamStep

-----------------------------------------------------------------------------
(***************************************************************************)
(* Flash.                                                                  *)
(***************************************************************************)
LEMMA FirstPagesSeq ==
  ASSUME NEW n \in Nat
  PROVE  /\ FirstPages(n) \in Seq(Nat)
         /\ Len(FirstPages(n)) = n
         /\ Append(FirstPages(n), n) = FirstPages(n + 1)
  BY DEF FirstPages

\* A step of t's call leaves what the other calls know.
LEMMA OthersProgress ==
  ASSUME NEW t \in Threads, NEW u \in Threads \ {t}, ListProgress(u),
         ctx'[u] = ctx[u], UNCHANGED pages,
         pass'[u] = pass[u], step'[u] = step[u], count'[u] = count[u],
         is_done'[u] = is_done[u], result'[u] = result[u],
         saved'[u] = saved[u], hampered'[u] = hampered[u]
  PROVE  ListProgress(u)'
  BY DEF ListProgress

LEMMA FlashStepOK ==
  ASSUME ContextOK, FlashOK, \A u \in Threads : ListProgress(u),
         NEW t \in Threads, FlashStep(t)
  PROVE  ContextOK' /\ FlashOK' /\ \A u \in Threads : ListProgress(u)'
<1> USE DEF At
<1>1. ContextOK' /\ \A u \in Threads \ {t} : ctx'[u] = ctx[u]
  <2>1. CASE UNCHANGED ctx
    BY <2>1 DEF ContextOK
  <2>2. CASE ListCloseScope(t)
    BY <2>2 DEF ContextOK, FlashOK, ListCloseScope
  <2>3. CASE NotDone(t) \/ Done(t) \/ Requested(t) \/ Reset(t)
    BY <2>3, ContextKept
  <2> QED
    BY <2>1, <2>2, <2>3
    DEF FlashStep, FlashRequest, ListBegin, ListOpenScope, ListPage,
        ListNoPage, ListReturn
<1>2. \A u \in Threads \ {t} :
        /\ UNCHANGED pages
        /\ pass'[u] = pass[u] /\ step'[u] = step[u] /\ count'[u] = count[u]
        /\ is_done'[u] = is_done[u] /\ result'[u] = result[u]
        /\ saved'[u] = saved[u] /\ hampered'[u] = hampered[u]
  BY DEF FlashOK, FlashStep, FlashRequest, ListBegin, ListOpenScope, ListPage,
         ListNoPage, ListCloseScope, ListLoop, ListReturn, flashVars, locals
<1>3. \A u \in Threads \ {t} : ListProgress(u)'
  BY <1>1, <1>2, OthersProgress
<1>4. ListProgress(t)
  OBVIOUS
<1>5. SUFFICES FlashOK' /\ ListProgress(t)'
  BY <1>1, <1>3
<1> USE DEF Failed, Fresh, IsError
<1>6. CASE FlashRequest(t)
  BY <1>4, <1>6 DEF FlashOK, ListProgress, FlashRequest, flashVars, locals
<1>7. CASE ListBegin(t)
  <2>1. FlashOK'
    BY <1>7 DEF ContextOK, FlashOK, ListBegin
  <2> QED
    BY <1>4, <1>7, <2>1 DEF ContextOK, FlashOK, ListProgress, ListBegin
<1>8. CASE ListOpenScope(t)
  BY <1>4, <1>8 DEF ContextOK, FlashOK, ListProgress, ListOpenScope, Reset
<1>9. CASE ListPage(t)
  <2>1. count[t] \in Nat /\ count[t] + 1 <= pages /\ pages \in 0 .. MaxPages
    BY <1>9 DEF FlashOK, ListPage
  <2>2. /\ pass'[t] = "push" => result'[t] = FirstPages(count'[t])
        /\ pass'[t] # "push" => result'[t] = FirstPages(0)
    <3>1. CASE pass[t] = "push"
      BY <1>4, <1>9, <2>1, <3>1, FirstPagesSeq DEF FlashOK, ListProgress, ListPage
    <3>2. CASE pass[t] # "push"
      BY <1>4, <1>9, <3>2 DEF FlashOK, ListProgress, ListPage
    <3> QED
      BY <3>1, <3>2
  <2>3. count'[t] = count[t] + 1
    BY <1>9 DEF FlashOK, ListPage
  <2>4. Len(result'[t]) <= MaxPages /\ result'[t] \in Seq(Nat)
    <3>1. Len(FirstPages(count'[t])) <= MaxPages /\ FirstPages(count'[t]) \in Seq(Nat)
      <4>1. count'[t] \in Nat /\ count'[t] <= MaxPages
        BY <2>1, <2>3, MaxPagesAssumption
      <4> QED
        BY <4>1, FirstPagesSeq
    <3>2. Len(FirstPages(0)) <= MaxPages /\ FirstPages(0) \in Seq(Nat)
      BY FirstPagesSeq, MaxPagesAssumption
    <3> QED
      BY <2>2, <3>1, <3>2
  <2>5. FlashOK'
    BY <1>9, <2>1, <2>4, <1>2, MaxPagesAssumption DEF FlashOK, ListPage
  <2> QED
    BY <1>4, <1>9, <2>1, <2>2, <2>5 DEF FlashOK, ListProgress, ListPage
<1>10. CASE ListNoPage(t)
  <2>1. FlashOK'
    BY <1>10 DEF FlashOK, ListNoPage
  <2>2. ~hampered'[t] => ~hampered[t] /\ ~(count[t] < pages)
    BY <1>10 DEF FlashOK, ListNoPage
  <2>3. ~hampered'[t] => ~hampered[t] /\ count[t] = pages
    BY <1>4, <2>2 DEF FlashOK, ListProgress
  <2> QED
    BY <1>4, <1>10, <2>1, <2>3 DEF FlashOK, ListProgress, ListNoPage
<1>11. CASE ListCloseScope(t)
  <2>1. FlashOK'
    <3>1. /\ count' = count \/ count' = [count EXCEPT ![t] = 0]
          /\ is_done' = is_done \/ is_done' = [is_done EXCEPT ![t] = FALSE]
      BY <1>11 DEF ListCloseScope, ListLoop
    <3>2. count' \in [Threads -> 0 .. MaxPages]
      <4>1. 0 \in 0 .. MaxPages /\ count \in [Threads -> 0 .. MaxPages]
        BY MaxPagesAssumption DEF FlashOK
      <4> QED
        BY <3>1, <4>1
    <3>3. is_done' \in [Threads -> BOOLEAN]
      BY <3>1 DEF FlashOK
    <3>4. /\ pass' \in [Threads -> {"none", "count", "push"}]
          /\ step' \in [Threads -> {"idle", "open", "ask", "close", "return"}]
      BY <1>11 DEF FlashOK, ListCloseScope, ListLoop
    <3> QED
      BY <1>11, <3>2, <3>3, <3>4 DEF FlashOK, ListCloseScope, ListLoop
  <2>2. ~hampered[t] => ~IsError(ctx'[t])
    BY <1>4, <1>11 DEF ContextOK, FlashOK, ListProgress, ListCloseScope, ListLoop
  <2>3. CASE ~is_done[t]
    BY <1>4, <1>11, <2>1, <2>2, <2>3 DEF FlashOK, ListProgress, ListCloseScope, ListLoop
  <2>4. CASE is_done[t] /\ pass[t] = "count" /\ count[t] # 0
    BY <1>4, <1>11, <2>1, <2>2, <2>4 DEF FlashOK, ListProgress, ListCloseScope, ListLoop
  <2>5. CASE is_done[t] /\ (pass[t] = "push" \/ count[t] = 0)
    BY <1>4, <1>11, <2>1, <2>2, <2>5 DEF FlashOK, ListProgress, ListCloseScope, ListLoop
  <2> QED
    BY <1>11, <2>3, <2>4, <2>5 DEF ListCloseScope, ListLoop
<1>12. CASE ListReturn(t)
  <2>1. result'[t] = FirstPages(0)
    BY <1>12 DEF FlashOK, ListReturn, FirstPages
  <2> QED
    BY <1>4, <1>12, <2>1, MaxPagesAssumption DEF ContextOK, FlashOK, ListProgress, ListReturn
<1> QED
  BY <1>6, <1>7, <1>8, <1>9, <1>10, <1>11, <1>12 DEF FlashStep

LEMMA ProgressGivesPages ==
  ASSUME FlashOK, \A t \in Threads : ListProgress(t)
  PROVE  PagesRight
<1> SUFFICES ASSUME NEW t \in Threads, step[t] = "return", ~hampered[t]
             PROVE  /\ result[t] = [i \in 1 .. pages |-> i - 1]
                    /\ ~IsError(ctx[t])
  BY DEF PagesRight
<1> QED
  BY DEF FlashOK, ListProgress, FirstPages

-----------------------------------------------------------------------------
(***************************************************************************)
(* Settings.  What is used of the classes, one by one.                     *)
(***************************************************************************)
LEMMA ClassFacts ==
  ASSUME name \in DOMAIN Library
  PROVE  /\ class.rest \in Values
         /\ name # "Adc" => class.rest # "garbage"
         /\ class.commands \cap class.taken = {}
         /\ \A g \in DOMAIN class.getters :
                class.getters[g] \in {"zero", "garbage"}
<1> USE DEF class, Library, Values
<1>1. name \in {"Timer", "Adc", "Pwm", "Spi", "I2S", "Uart", "Usb", "Gpio",
                "ByteBuffer", "FrameBuffer", "FrameStream"}
  OBVIOUS
<1>2. CASE name = "Timer"
  BY <1>2 DEF Timer
<1>3. CASE name = "Adc"
  BY <1>3 DEF Adc
<1>4. CASE name = "Pwm"
  BY <1>4 DEF Pwm
<1>5. CASE name = "Spi"
  BY <1>5 DEF Spi
<1>6. CASE name = "I2S"
  BY <1>6 DEF I2S
<1>7. CASE name = "Uart"
  BY <1>7 DEF Uart
<1>8. CASE name = "Usb"
  BY <1>8 DEF Usb
<1>9. CASE name = "Gpio"
  BY <1>9 DEF Gpio
<1>10. CASE name = "ByteBuffer"
  BY <1>10 DEF ByteBuffer, Buffer
<1>11. CASE name = "FrameBuffer"
  BY <1>11 DEF FrameBuffer, Buffer
<1>12. CASE name = "FrameStream"
  BY <1>12 DEF Stream, Buffer
<1> QED
  BY <1>1, <1>2, <1>3, <1>4, <1>5, <1>6, <1>7, <1>8, <1>9, <1>10, <1>11, <1>12

\* A structure whose members have come from the constructor and the caller.
LEMMA ConstructedOrigins ==
  ASSUME name \in DOMAIN Library
  PROVE  /\ Constructed \in
              [o_flags : SUBSET (class.o_flags \cup class.taken \cup class.other),
               value : [Members -> Values]]
         /\ \A p \in class.pins : Constructed.value[p] = "unassigned"
         /\ name # "Adc" => \A m \in Members : Constructed.value[m] # "garbage"
<1> USE ClassFacts DEF Constructed, Members, Values
<1>1. Constructed.o_flags \in SUBSET (class.o_flags \cup class.taken \cup class.other)
  OBVIOUS
<1>2. Constructed.value \in [Members -> Values]
  OBVIOUS
<1> QED
  BY <1>1, <1>2

\* Handing over a structure configures the device with its members, or not at
\* all.
LEMMA HandConfigures ==
  ASSUME NEW t \in Threads, NEW block, Hand(t, block)
  PROVE  /\ config' = block.value \/ config' = config
         /\ UNCHANGED <<name, attributes, returned>>
         /\ NotDone(t) \/ Done(t)
  BY DEF Hand

\* A request by t leaves it with an error if it has one.
LEMMA ErrorStays ==
  ASSUME ContextOK, NEW t \in Threads, NotDone(t) \/ Done(t), NEW u \in Threads,
         IsError(ctx[u])
  PROVE  IsError(ctx'[u])
  BY DEF ContextOK, NotDone, Done, IsError, Failed, Fresh

\* The values that a device can be configured with.
Configured(value) ==
    /\ value \in [Members -> Values]
    /\ \A p \in class.pins : value[p] \in {"unassigned", "given", "board"}
    /\ name # "Adc" => \A m \in Members : value[m] # "garbage"

LEMMA SettingStepOK ==
  ASSUME ContextOK, SettingsOK, Origins, NothingUninitialized,
         NEW t \in Threads, SettingStep(t)
  PROVE  ContextOK' /\ SettingsOK' /\ Origins' /\ NothingUninitialized'
<1> name \in DOMAIN Library
  BY DEF SettingsOK
<1> USE DEF Origins, SettingsOK
\* Calls that change the Attributes object only.
<1>1. ASSUME NEW block, Write(block), 
             block \in [o_flags : SUBSET (class.o_flags \cup class.taken \cup class.other),
                        value : [Members -> Values]],
             \A p \in class.pins : block.value[p] \in {"unassigned", "given"},
             name # "Adc" => \A m \in Members : block.value[m] # "garbage"
      PROVE  ContextOK' /\ SettingsOK' /\ Origins' /\ NothingUninitialized'
  BY <1>1 DEF Write, ContextOK, class, Members, NothingUninitialized
\* Requests that configure the device.
<1>2. ASSUME NotDone(t) \/ Done(t), UNCHANGED <<name, attributes, returned>>,
             Configured(config')
      PROVE  ContextOK' /\ SettingsOK' /\ Origins' /\ NothingUninitialized'
  <2>1. ContextOK'
    BY <1>2, ContextKept
  <2>2. SettingsOK' /\ Origins'
    BY <1>2 DEF Configured, class, Members
  <2>3. \A u \in Threads : returned'[u] = "garbage" => IsError(ctx'[u])
    BY <1>2, ErrorStays DEF NothingUninitialized
  <2> QED
    BY <1>2, <2>1, <2>2, <2>3 DEF NothingUninitialized, Configured, class, Members
<1>3. ASSUME NEW block, Hand(t, block), Configured(block.value)
      PROVE  ContextOK' /\ SettingsOK' /\ Origins' /\ NothingUninitialized'
  <2>1. Configured(config)
    BY DEF Configured, NothingUninitialized
  <2>2. Configured(config')
    BY <1>3, <2>1, HandConfigures
  <2> QED
    BY <1>2, <1>3, <2>2, HandConfigures
<1>4. Configured([m \in Members |-> "board"])
  BY DEF Configured, Members, Values
<1>5. CASE NewAttributes
  <2>1. Write(Constructed)
    BY <1>5 DEF NewAttributes
  <2> QED
    BY <1>1, <2>1, ConstructedOrigins
<1>6. ASSUME NEW m \in Members, SetMember(m)
      PROVE  ContextOK' /\ SettingsOK' /\ Origins' /\ NothingUninitialized'
  <2> DEFINE block == [attributes EXCEPT !.value[m] = "given"]
  <2>1. Write(block)
    BY <1>6 DEF SetMember
  <2>2. /\ block \in [o_flags : SUBSET (class.o_flags \cup class.taken \cup class.other),
                      value : [Members -> Values]]
        /\ \A p \in class.pins : block.value[p] \in {"unassigned", "given"}
        /\ name # "Adc" => \A k \in Members : block.value[k] # "garbage"
    BY DEF Members, Values
  <2> QED
    BY <1>1, <2>1, <2>2
<1>7. ASSUME NEW flags \in SUBSET ((class.taken \cup class.other) \ {"garbage"}),
             SetFlags(flags)
      PROVE  ContextOK' /\ SettingsOK' /\ Origins' /\ NothingUninitialized'
  <2>1. Write([attributes EXCEPT !.o_flags = flags])
    BY <1>7 DEF SetFlags
  <2> QED
    BY <1>1, <2>1
<1>8. ASSUME NEW flag \in class.other, AddFlag(flag)
      PROVE  ContextOK' /\ SettingsOK' /\ Origins' /\ NothingUninitialized'
  <2>1. Write([attributes EXCEPT !.o_flags = @ \cup {flag}])
    BY <1>8 DEF AddFlag
  <2> QED
    BY <1>1, <2>1
<1>9. ASSUME NEW assigned \in BOOLEAN, set_group_channel(assigned)
      PROVE  ContextOK' /\ SettingsOK' /\ Origins' /\ NothingUninitialized'
  <2> DEFINE set == {"channel", "rank", "sampling_time"}
                        \cup (IF assigned THEN {"channel0"} ELSE {})
             block == [o_flags |-> {"set_channels", "is_group"},
                       value |-> [m \in Members |->
                          IF m \in set THEN "given" ELSE attributes.value[m]]]
  <2>1. Write(block) /\ name = "Adc"
    BY <1>9 DEF set_group_channel
  <2>2. {"set_channels", "is_group"} \subseteq class.taken \cup class.other
    BY <2>1 DEF class, Library, Adc
  <2>3. block.value \in [Members -> Values]
    BY DEF Values
  <2>4. \A p \in class.pins : block.value[p] \in {"unassigned", "given"}
    BY DEF Members
  <2> QED
    BY <1>1, <2>1, <2>2, <2>3, <2>4
<1>10. CASE SetAttributes(t)
  <2>1. Configured(attributes.value)
    BY DEF Configured
  <2> QED
    BY <1>3, <1>10, <2>1 DEF SetAttributes
<1>11. CASE SetDefault(t)
  <2>1. Configured(config)
    BY DEF Configured, NothingUninitialized
  <2>2. Configured(config')
    BY <1>4, <1>11, <2>1 DEF SetDefault
  <2> QED
    BY <1>2, <1>11, <2>2 DEF SetDefault
<1>12. CASE assign(t)
  <2> DEFINE block == [o_flags |-> {"assign"}, value |-> [m \in Members |-> "given"]]
  <2>1. Configured(block.value)
    BY DEF Configured, Members, Values
  <2> QED
    BY <1>3, <1>12, <2>1 DEF assign
<1>13. ASSUME NEW flag \in class.commands, Command(t, flag)
       PROVE  ContextOK' /\ SettingsOK' /\ Origins' /\ NothingUninitialized'
  <2> DEFINE block == [Constructed EXCEPT !.o_flags = {flag}]
  <2>1. block.value = Constructed.value
    BY DEF Constructed
  <2>2. Configured(block.value)
    BY <2>1, ConstructedOrigins DEF Configured
  <2> QED
    BY <1>3, <1>13, <2>2 DEF Command
<1>14. ASSUME NEW getter \in DOMAIN class.getters, Get(t, getter)
       PROVE  ContextOK' /\ SettingsOK' /\ Origins' /\ NothingUninitialized'
  <2>1. ContextOK'
    BY <1>14, ContextKept DEF Get
  <2>2. class.getters[getter] \in {"zero", "garbage"}
    BY ClassFacts
  <2>3. returned' \in [Threads -> {"none", "read", "zero", "garbage"}]
    BY <1>14, <2>2 DEF Get
  <2>4. \A u \in Threads : returned'[u] = "garbage" => IsError(ctx'[u])
    BY <1>14 DEF Get, NotDone, Done, ContextOK, NothingUninitialized, IsError, Failed
  <2>5. UNCHANGED <<name, attributes, config>>
    BY <1>14 DEF Get
  <2> QED
    BY <2>1, <2>3, <2>4, <2>5 DEF NothingUninitialized, class, Members
<1>15. CASE SettingRequest(t)
  <2>1. Configured(config') /\ UNCHANGED <<name, attributes, returned>>
    BY <1>15 DEF SettingRequest, settingVars, Configured, NothingUninitialized
  <2> QED
    BY <1>2, <1>15, <2>1 DEF SettingRequest, Requested
<1>16. CASE Recover(t)
  <2>1. ContextOK' /\ \A u \in Threads \ {t} : ctx'[u] = ctx[u]
    BY <1>16, ContextKept DEF Recover
  <2> QED
    BY <1>16, <2>1 DEF Recover, NothingUninitialized, class, Members
<1> QED
  BY <1>5, <1>6, <1>7, <1>8, <1>9, <1>10, <1>11, <1>12, <1>13, <1>14, <1>15, <1>16
  DEF SettingStep

-----------------------------------------------------------------------------
(***************************************************************************)
(* The application.  What a kind of device knows survives a change of the  *)
(* contexts, if none of its calls is under way.                            *)
(***************************************************************************)
LEMMA FlashIdle ==
  ASSUME FlashOK, \A u \in Threads : ListProgress(u), UNCHANGED flashVars,
         \A u \in Threads : step[u] = "idle"
  PROVE  FlashOK' /\ \A u \in Threads : ListProgress(u)'
<1>1. FlashOK'
  BY DEF FlashOK, flashVars, locals
<1>2. ASSUME NEW u \in Threads
      PROVE  ListProgress(u)'
  <2>1. ListProgress(u) /\ step[u] = "idle"
    OBVIOUS
  <2> QED
    BY <2>1 DEF ListProgress, flashVars, locals
<1> QED
  BY <1>1, <1>2

LEMMA SettingsIdle ==
  ASSUME SettingsOK, Origins, NothingUninitialized, UNCHANGED settingVars,
         \A u \in Threads : returned[u] = "none"
  PROVE  SettingsOK' /\ Origins' /\ NothingUninitialized'
  BY DEF SettingsOK, Origins, NothingUninitialized, settingVars, class, Members

LEMMA SignalIdle ==
  ASSUME SignalsOK, HandlersAlive, UNCHANGED signalVars
  PROVE  SignalsOK' /\ HandlersAlive'
  BY DEF SignalsOK, HandlersAlive, signalVars

LEMMA StreamIdle ==
  ASSUME StreamOK, ChannelsConsistent, UNCHANGED streamVars
  PROVE  StreamOK' /\ ChannelsConsistent'
  BY DEF StreamOK, ChannelsConsistent, streamVars

LEMMA InitIInv == Init => IInv
<1> SUFFICES ASSUME Init PROVE IInv
  OBVIOUS
<1> USE DEF Init
<1>1. ContextOK /\ used \in Kinds
  BY DEF ContextOK, Kinds
<1>2. SignalsOK /\ HandlersAlive
  BY NoSignalAssumption DEF SignalInit, SignalsOK, HandlersAlive
<1>3. StreamOK /\ ChannelsConsistent
  BY DEF StreamInit, StreamOK, ChannelsConsistent, Garbage
<1>4. FlashOK /\ \A t \in Threads : ListProgress(t) /\ step[t] = "idle"
  BY MaxPagesAssumption DEF FlashInit, FlashOK, ListProgress, FirstPages, Failed, Fresh
<1>5. SettingsOK /\ Origins /\ NothingUninitialized
      /\ \A t \in Threads : returned[t] = "none"
  <2>1. name \in DOMAIN Library
    BY DEF SettingInit
  <2>2. /\ attributes.o_flags \subseteq class.o_flags \cup class.taken \cup class.other
        /\ Origins
    BY <2>1, ConstructedOrigins DEF SettingInit, Origins
  <2>3. SettingsOK
    BY <2>1, <2>2 DEF SettingInit, SettingsOK, Origins, Values
  <2>4. NothingUninitialized
    BY DEF SettingInit, NothingUninitialized, Members
  <2> QED
    BY <2>2, <2>3, <2>4 DEF SettingInit
<1> QED
  BY <1>1, <1>2, <1>3, <1>4, <1>5 DEF IInv, TypeOK, Unused

LEMMA NextIInv == IInv /\ [Next]_vars => IInv'
<1> SUFFICES ASSUME IInv, [Next]_vars PROVE IInv'
  OBVIOUS
<1> USE DEF IInv, TypeOK
<1>1. CASE UNCHANGED vars
  <2>1. UNCHANGED <<ctx, used, signalVars, streamVars, flashVars, settingVars>>
    BY <1>1 DEF vars, parts
  <2>2. FlashOK' /\ \A u \in Threads : ListProgress(u)'
    BY <2>1 DEF FlashOK, ListProgress, flashVars, locals
  <2>3. SettingsOK' /\ Origins' /\ NothingUninitialized'
    BY <2>1 DEF SettingsOK, Origins, NothingUninitialized, settingVars, class, Members
  <2>4. ContextOK' /\ Unused'
    BY <2>1 DEF ContextOK, Unused, flashVars, settingVars
  <2> QED
    BY <2>1, <2>2, <2>3, <2>4, SignalIdle, StreamIdle
<1>2. ASSUME NEW t \in Threads, ResetError(t), UNCHANGED used
      PROVE  IInv'
  <2>1. /\ UNCHANGED <<signalVars, streamVars, flashVars, settingVars>>
        /\ Reset(t) /\ used # "setting" /\ step[t] = "idle"
    BY <1>2 DEF ResetError, Idle, parts
  <2>2. ContextOK' /\ \A u \in Threads \ {t} : ctx'[u] = ctx[u]
    BY <2>1, ContextKept
  <2>3. SettingsOK' /\ Origins' /\ NothingUninitialized'
    BY <2>1, SettingsIdle DEF Unused
  <2>4. FlashOK'
    BY <2>1 DEF FlashOK, flashVars, locals
  <2>5. ASSUME NEW u \in Threads
        PROVE  ListProgress(u)'
    <3>1. ListProgress(u)
      OBVIOUS
    <3>2. CASE u = t
      BY <2>1, <3>1, <3>2 DEF ListProgress, flashVars, locals
    <3>3. CASE u # t
      BY <2>1, <2>2, <3>1, <3>3, OthersProgress DEF flashVars, locals
    <3> QED
      BY <3>2, <3>3
  <2>6. Unused'
    BY <1>2, <2>1 DEF Unused, flashVars, settingVars
  <2> QED
    BY <1>2, <2>1, <2>2, <2>3, <2>4, <2>5, <2>6, SignalIdle, StreamIdle
<1>3. ASSUME NEW t \in Threads, SignalNext(t), UNCHANGED used
      PROVE  IInv'
  <2>1. /\ SignalStep(t) /\ used = "signal"
        /\ UNCHANGED <<streamVars, flashVars, settingVars>>
    BY <1>3 DEF SignalNext
  <2>2. UNCHANGED ctx \/ NotDone(t) \/ Done(t) \/ Requested(t)
    BY <2>1
    DEF SignalStep, CreateSignal, DestroySignal, set_signal_action, cancel,
        set_interrupt_priority, DeviceEvent
  <2>3. ContextOK'
    BY <2>2, ContextKept DEF ContextOK
  <2>4. SignalsOK' /\ HandlersAlive'
    BY <2>1, SignalStepOK
  <2>5. Unused'
    BY <1>3, <2>1 DEF Unused, flashVars, settingVars
  <2> QED
    BY <1>3, <2>1, <2>3, <2>4, <2>5, StreamIdle, FlashIdle, SettingsIdle
    DEF Unused
<1>4. ASSUME NEW t \in Threads, StreamNext(t), UNCHANGED used
      PROVE  IInv'
  <2>1. /\ StreamStep(t) /\ used = "stream"
        /\ UNCHANGED <<signalVars, flashVars, settingVars>>
    BY <1>4 DEF StreamNext
  <2>2. UNCHANGED ctx \/ NotDone(t) \/ Done(t) \/ Requested(t)
    BY <2>1
    DEF StreamStep, StreamRequest, NewInfo, AssignInfo, Answer, DestroyInfo,
        CopyInfo
  <2>3. ContextOK'
    BY <2>2, ContextKept DEF ContextOK
  <2>4. StreamOK' /\ ChannelsConsistent'
    BY <2>1, StreamStepOK
  <2>5. Unused'
    BY <1>4, <2>1 DEF Unused, flashVars, settingVars
  <2> QED
    BY <1>4, <2>1, <2>3, <2>4, <2>5, SignalIdle, FlashIdle, SettingsIdle
    DEF Unused
<1>5. ASSUME NEW t \in Threads, FlashNext(t), UNCHANGED used
      PROVE  IInv'
  <2>1. /\ FlashStep(t) /\ used = "flash"
        /\ UNCHANGED <<signalVars, streamVars, settingVars>>
    BY <1>5 DEF FlashNext
  <2>2. ContextOK' /\ FlashOK' /\ \A u \in Threads : ListProgress(u)'
    BY <2>1, FlashStepOK
  <2>3. Unused'
    BY <1>5, <2>1 DEF Unused, settingVars
  <2> QED
    BY <1>5, <2>1, <2>2, <2>3, SignalIdle, StreamIdle, SettingsIdle DEF Unused
<1>6. ASSUME NEW t \in Threads, SettingNext(t), UNCHANGED used
      PROVE  IInv'
  <2>1. /\ SettingStep(t) /\ used = "setting"
        /\ UNCHANGED <<signalVars, streamVars, flashVars>>
    BY <1>6 DEF SettingNext
  <2>2. ContextOK' /\ SettingsOK' /\ Origins' /\ NothingUninitialized'
    BY <2>1, SettingStepOK
  <2>3. Unused'
    BY <1>6, <2>1 DEF Unused, flashVars
  <2> QED
    BY <1>6, <2>1, <2>2, <2>3, SignalIdle, StreamIdle, FlashIdle DEF Unused
<1> QED
  BY <1>1, <1>2, <1>3, <1>4, <1>5, <1>6 DEF Next

\* The invariant of every kind of device holds at all times.
THEOREM Invariance == Spec => []IInv
  BY InitIInv, NextIInv, PTL DEF Spec

-----------------------------------------------------------------------------
\* The variables of all the devices keep their types.
THEOREM TypeCorrect == Spec => []TypeOK
<1>1. IInv => TypeOK
  BY DEF IInv
<1> QED
  BY <1>1, Invariance, PTL

\* The driver never reads the context of a DeviceSignal object that is gone,
\* or of one that its caller has not set for the event, for the first eight
\* events of a channel and callers that cancel before they destroy.
THEOREM HandlersStayAlive == Spec => []HandlersAlive
<1>1. IInv => HandlersAlive
  BY DEF IInv
<1> QED
  BY <1>1, Invariance, PTL

\* What the channels of a FrameStream::Info say is alive and of its own record
\* (unless it was assigned, or copied from one that has gone).
THEOREM ChannelsOfOwnRecord == Spec => []ChannelsConsistent
<1>1. IInv => ChannelsConsistent
  BY DEF IInv
<1> QED
  BY <1>1, Invariance, PTL

\* Flash::get_page_info returns all the pages of a memory of any size, and no
\* error, unless an error other than the one that ends its passes hampered it.
THEOREM ListComplete == Spec => []PagesRight
<1>1. IInv => PagesRight
  BY ProgressGivesPages DEF IInv, TypeOK
<1> QED
  BY <1>1, Invariance, PTL

\* Whatever members callers set in whatever order, no device is configured
\* with a pin that nobody has chosen, and none but Adc's with a member that was
\* never initialized; and a getter that returns an uninitialized variable
\* leaves an error.
THEOREM NoGarbage == Spec => []NothingUninitialized
<1>1. IInv => NothingUninitialized
  BY DEF IInv
<1> QED
  BY <1>1, Invariance, PTL

-----------------------------------------------------------------------------
(***************************************************************************)
(* Why the loops of Flash::get_page_info end.                              *)
(***************************************************************************)

\* The numbers that the loops count down.
LEMMA StatementsNat ==
  ASSUME FlashOK, NEW t \in Threads, ListProgress(t)
  PROVE  /\ pages \in Nat /\ count[t] \in Nat /\ count[t] <= pages
         /\ RequestsLeft(t) \in 0 .. 2 * pages + 2
         /\ StatementsLeft(t) \in 0 .. 6 * pages + 8
<1>1. pages \in Nat /\ count[t] \in Nat /\ count[t] <= pages
  BY MaxPagesAssumption DEF FlashOK, ListProgress
<1>2. RequestsLeft(t) \in 0 .. 2 * pages + 2
  BY <1>1 DEF RequestsLeft
<1>3. step[t] \in {"idle", "open", "ask", "close", "return"}
  BY DEF FlashOK
<1>4. StatementsLeft(t) \in 0 .. 6 * pages + 8
  BY <1>1, <1>2, <1>3 DEF StatementsLeft
<1> QED
  BY <1>1, <1>2, <1>4

\* Every statement takes get_page_info nearer its end.
LEMMA StatementNearer ==
  ASSUME FlashOK, NEW t \in Threads, ListProgress(t), ListProgress(t)',
         FlashStep(t), step[t] # "idle"
  PROVE  StatementsLeft(t)' < StatementsLeft(t)
<1> USE DEF At
<1>1. /\ pages \in Nat /\ count[t] \in Nat /\ count[t] <= pages
      /\ RequestsLeft(t) \in Nat /\ pages' = pages
  BY StatementsNat
  DEF FlashStep, FlashRequest, ListBegin, ListOpenScope, ListPage,
      ListNoPage, ListCloseScope, ListLoop, ListReturn
<1>2. CASE ListOpenScope(t)
  <2>1. step[t] = "open" /\ step'[t] = "ask" /\ RequestsLeft(t)' = RequestsLeft(t)
    BY <1>2 DEF ListOpenScope, FlashOK, RequestsLeft
  <2> QED
    BY <1>1, <2>1 DEF StatementsLeft
<1>3. CASE ListPage(t)
  <2>1. /\ step[t] = "ask" /\ step'[t] = "close"
        /\ count[t] < pages /\ count'[t] = count[t] + 1 /\ pass' = pass
        /\ is_done' = is_done
    BY <1>3 DEF ListPage, FlashOK
  <2>2. RequestsLeft(t)' <= RequestsLeft(t) - 1 /\ RequestsLeft(t)' \in Int
    BY <1>1, <2>1 DEF RequestsLeft
  <2> QED
    BY <1>1, <2>1, <2>2 DEF StatementsLeft
<1>4. CASE ListNoPage(t)
  <2>1. /\ step[t] = "ask" /\ step'[t] = "close"
        /\ count' = count /\ pass' = pass /\ is_done'[t]
    BY <1>4 DEF ListNoPage, FlashOK
  <2>2. RequestsLeft(t)' <= RequestsLeft(t) - 1 /\ RequestsLeft(t)' \in Int
    BY <1>1, <2>1 DEF RequestsLeft
  <2> QED
    BY <1>1, <2>1, <2>2 DEF StatementsLeft
<1>5. CASE ListCloseScope(t)
  <2>1. step[t] = "close"
    BY <1>5 DEF ListCloseScope, ListLoop
  <2>2. CASE step'[t] = "open"
    <3>1. RequestsLeft(t)' = RequestsLeft(t)
      <4>1. CASE ~is_done[t]
        BY <1>1, <1>5, <2>1, <2>2, <4>1 DEF ListCloseScope, ListLoop, FlashOK, RequestsLeft
      <4>2. CASE is_done[t]
        <5>1. /\ pass[t] = "count" /\ pass'[t] = "push" /\ count'[t] = 0
          BY <1>5, <2>2, <4>2 DEF ListCloseScope, ListLoop, FlashOK
        <5>2. RequestsLeft(t) = pages + 1
          BY <1>1, <2>1, <4>2, <5>1 DEF RequestsLeft
        <5>3. RequestsLeft(t)' = pages + 1
          BY <1>1, <2>2, <5>1 DEF RequestsLeft
        <5> QED
          BY <5>2, <5>3
      <4> QED
        BY <4>1, <4>2
    <3> QED
      BY <1>1, <2>1, <2>2, <3>1 DEF StatementsLeft
  <2>3. CASE step'[t] = "return"
    BY <1>1, <2>1, <2>3 DEF StatementsLeft
  <2> QED
    BY <1>5, <2>2, <2>3 DEF ListCloseScope, ListLoop, FlashOK
<1>6. CASE ListReturn(t)
  BY <1>6 DEF ListReturn, FlashOK, StatementsLeft
<1> QED
  BY <1>2, <1>3, <1>4, <1>5, <1>6 DEF FlashStep, FlashRequest, ListBegin

\* No other thread, and no other device, takes it back.
LEMMA StatementsOwn ==
  ASSUME NEW t \in Threads, step'[t] = step[t],
         UNCHANGED <<pages, pass, count, is_done>>
         \/ \E u \in Threads \ {t} : FlashOK /\ FlashStep(u)
  PROVE  StatementsLeft(t)' = StatementsLeft(t)
<1>1. /\ pages' = pages /\ pass'[t] = pass[t] /\ count'[t] = count[t]
      /\ is_done'[t] = is_done[t]
  BY DEF At, FlashOK, FlashStep, FlashRequest, ListBegin, ListOpenScope, ListPage,
         ListNoPage, ListCloseScope, ListLoop, ListReturn, flashVars, locals
<1>2. RequestsLeft(t)' = RequestsLeft(t)
  BY <1>1 DEF RequestsLeft
<1> QED
  BY <1>2 DEF StatementsLeft

\* Flash::get_page_info returns, whatever its requests answer
\* (ListNearerEnd): every statement takes it nearer its end.
THEOREM ListEnds == Spec => ListNearerEnd
<1>1. ASSUME IInv, IInv', [Next]_vars, NEW t \in Threads, step[t] # "idle"
      PROVE  IF step'[t] = step[t] THEN StatementsLeft(t)' = StatementsLeft(t)
             ELSE StatementsLeft(t)' < StatementsLeft(t)
  <2>1. FlashOK /\ ListProgress(t) /\ ListProgress(t)' /\ used = "flash"
    BY <1>1 DEF IInv, TypeOK, Unused
  <2>2. ASSUME UNCHANGED flashVars
        PROVE  step'[t] = step[t] /\ StatementsLeft(t)' = StatementsLeft(t)
    BY <2>2, StatementsOwn DEF flashVars, locals
  <2>3. CASE FlashStep(t)
    <3>1. step'[t] # step[t]
      BY <1>1, <2>1, <2>3
      DEF At, FlashOK, FlashStep, FlashRequest, ListBegin, ListOpenScope,
          ListPage, ListNoPage, ListCloseScope, ListLoop, ListReturn
    <3> QED
      BY <1>1, <2>1, <2>3, <3>1, StatementNearer
  <2>4. ASSUME NEW u \in Threads \ {t}, FlashStep(u)
        PROVE  step'[t] = step[t] /\ StatementsLeft(t)' = StatementsLeft(t)
    <3>1. step'[t] = step[t]
      BY <2>1, <2>4
      DEF At, FlashOK, FlashStep, FlashRequest, ListBegin, ListOpenScope,
          ListPage, ListNoPage, ListCloseScope, ListLoop, ListReturn, flashVars
    <3> QED
      BY <2>1, <2>4, <3>1, StatementsOwn
  <2>5. CASE UNCHANGED vars
    BY <2>2, <2>5 DEF vars, parts
  <2>6. ASSUME NEW u \in Threads, ResetError(u) PROVE UNCHANGED flashVars
    BY <2>6 DEF ResetError, parts
  <2>7. ASSUME NEW u \in Threads, FlashNext(u) PROVE FlashStep(u)
    BY <2>7 DEF FlashNext
  <2>8. ASSUME NEW u \in Threads, SignalNext(u) \/ StreamNext(u) \/ SettingNext(u)
        PROVE  FALSE
    BY <2>1, <2>8 DEF SignalNext, StreamNext, SettingNext
  <2>9. CASE Next
    <3>1. PICK u \in Threads : ResetError(u) \/ FlashNext(u)
      BY <2>8, <2>9 DEF Next
    <3> QED
      BY <2>2, <2>3, <2>4, <2>6, <2>7, <3>1
  <2> QED
    BY <1>1, <2>2, <2>5, <2>9
<1>2. IInv /\ IInv' /\ [Next]_vars =>
        [\A t \in Threads :
            step[t] # "idle" =>
                IF step'[t] = step[t] THEN StatementsLeft(t)' = StatementsLeft(t)
                ELSE StatementsLeft(t)' < StatementsLeft(t)]_<<ctx, flashVars>>
  BY <1>1
<1> QED
  BY <1>2, Invariance, PTL DEF Spec, ListNearerEnd

\* The number that ListEnds counts down is a natural number: get_page_info
\* makes at most two requests more than twice the pages of the memory.
THEOREM BoundedList ==
    Spec => [](\A t \in Threads :
                  /\ RequestsLeft(t) \in 0 .. 2 * pages + 2
                  /\ StatementsLeft(t) \in 0 .. 6 * pages + 8)
<1>1. IInv => \A t \in Threads :
                  /\ RequestsLeft(t) \in 0 .. 2 * pages + 2
                  /\ StatementsLeft(t) \in 0 .. 6 * pages + 8
  BY StatementsNat DEF IInv, TypeOK
<1> QED
  BY <1>1, Invariance, PTL

=============================================================================
