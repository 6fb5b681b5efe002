------------------------------ MODULE Settings ------------------------------
(***************************************************************************)
(* The classes whose calls are one request each: how they configure their  *)
(* devices, and what their getters return.                                 *)
(*                                                                         *)
(* Each has a class Attributes around a structure of the driver.  Its      *)
(* constructor presets some members, callers set others and the flags, and *)
(* set_attributes hands the structure over.  The driver takes the members  *)
(* for its configuration if a flag tells it to.  Commands like assert_cs   *)
(* hand over a structure of their own, with one flag.  A getter hands over *)
(* a local variable, and returns it whether the request was done or not.   *)
(*                                                                         *)
(* Of a member it is modelled where its value comes from.                  *)
(***************************************************************************)
EXTENDS Context, FiniteSets

CONSTANT MaxGiven   \* a bound on how many members callers set one by one

ASSUME MaxGivenAssumption == MaxGiven \in Nat

\* Value-initialized, not initialized, 0xff in all bytes, preset by the
\* constructor, set by the caller, and chosen by the board.
Values == {"zero", "garbage", "unassigned", "preset", "given", "board"}

-----------------------------------------------------------------------------
(***************************************************************************)
(* The classes: the members of their structures that are pins and those    *)
(* that are not, the ones of these that the constructor presets, the flags *)
(* it presets, what it leaves in the others, the flags that make the       *)
(* driver take the members, those that callers set besides, the flags of   *)
(* the commands, and what the local variables of the getters hold at       *)
(* first.  The other calls are one request without a structure.            *)
(***************************************************************************)
Channels0to3 == {"channel0", "channel1", "channel2", "channel3"}

Timer == [
    pins |-> Channels0to3,
    data |-> {"frequency", "period", "channel"},
    preset |-> {}, o_flags |-> {}, rest |-> "zero",
    taken |-> {"set_timer", "set_channel"}, other |-> {"set_trigger"},
    commands |-> {},
    getters |-> [get_value |-> "zero", get_channel |-> "zero",
                 get_info |-> "garbage"]]

Adc == [
    pins |-> Channels0to3,
    data |-> {"width", "frequency", "trigger", "channel_count", "channel",
              "rank", "sampling_time"},
    preset |-> {}, o_flags |-> {"garbage"}, rest |-> "garbage",
    taken |-> {"set_converter", "set_channels", "garbage"},
    other |-> {"is_group"},
    commands |-> {},
    getters |-> [get_info |-> "garbage"]]

Pwm == [
    pins |-> Channels0to3,
    data |-> {"frequency", "period", "channel"},
    preset |-> {"frequency", "period", "channel"},
    o_flags |-> {"set_timer"}, rest |-> "zero",
    taken |-> {"set_timer", "set_channels"}, other |-> {"is_enabled"},
    commands |-> {},
    getters |-> [get_value |-> "zero", get_channel |-> "zero"]]

Spi == [
    pins |-> {"miso", "mosi", "sck", "cs"},
    data |-> {"width", "frequency"},
    preset |-> {"width", "frequency"},
    o_flags |-> {"set_master", "is_format_spi", "is_mode0", "set_half_duplex"},
    rest |-> "zero",
    taken |-> {"set_master", "set_slave"}, other |-> {"is_mode3"},
    commands |-> {"assert_cs", "deassert_cs"},
    getters |-> [get_info |-> "garbage"]]

I2S == [
    pins |-> {"ws", "sck", "sdout", "sdin", "mck"},
    data |-> {"frequency", "master_multiplier", "slot"},
    preset |-> {"frequency"}, o_flags |-> {}, rest |-> "zero",
    taken |-> {"set_master", "set_slave"}, other |-> {"enable"},
    commands |-> {},
    getters |-> [get_info |-> "garbage"]]

Uart == [
    pins |-> {"tx", "rx", "cts", "rts"},
    data |-> {"width", "frequency"},
    preset |-> {"width", "frequency"},
    o_flags |-> {"set_line_coding_default"}, rest |-> "zero",
    taken |-> {"set_line_coding_default", "set_line_coding"},
    other |-> {"is_stop2"},
    commands |-> {},
    getters |-> [get |-> "zero", get_info |-> "zero"]]

Usb == [
    pins |-> {"dp", "dm", "id", "vbus"},
    data |-> {"address", "max_packet_size", "type", "frequency"},
    preset |-> {}, o_flags |-> {}, rest |-> "zero",
    taken |-> {"set_device", "set_host", "set_otg"},
    other |-> {"is_high_speed"},
    commands |-> {"attach", "detach", "reset", "configure", "unconfigure"},
    getters |-> [get_info |-> "garbage"]]

Gpio == [
    pins |-> {},
    data |-> {"o_pinmask"},
    preset |-> {}, o_flags |-> {}, rest |-> "zero",
    taken |-> {"set_input", "set_output", "assign"}, other |-> {"is_pullup"},
    commands |-> {},
    getters |-> [get_value |-> "garbage"]]

\* The structures of these are their flags, and the setters add to them.
Buffer(flags, commands) == [
    pins |-> {}, data |-> {}, preset |-> {}, o_flags |-> {}, rest |-> "zero",
    taken |-> {}, other |-> flags, commands |-> commands,
    getters |-> [get_info |-> "garbage"]]

ByteBuffer == Buffer({"initialize", "exit", "is_overflow", "set_writeblock"}, {})
FrameBuffer == Buffer({"is_overflow", "set_writeblock"}, {})
Stream == Buffer({"start", "stop", "flush"}, {"start", "stop", "flush"})

Library ==
    [Timer |-> Timer, Adc |-> Adc, Pwm |-> Pwm, Spi |-> Spi, I2S |-> I2S,
     Uart |-> Uart, Usb |-> Usb, Gpio |-> Gpio, ByteBuffer |-> ByteBuffer,
     FrameBuffer |-> FrameBuffer, FrameStream |-> Stream]

Buffers == {"ByteBuffer", "FrameBuffer", "FrameStream"}

-----------------------------------------------------------------------------
VARIABLES
    name,       \* of the class that the threads use
    attributes, \* an Attributes object of that class
    config,     \* what the device is configured with
    returned    \* returned[t]: what t has from its last getter: the answer
                \* ("read") or what the getter's local variable held

settingVars == <<name, attributes, config, returned>>

class == Library[name]
Members == class.pins \cup class.data

\* A variant whose constructors do not fill the pins.
ConstructedUnfilled ==
    [o_flags |-> class.o_flags,
     value |-> [m \in Members |->
        IF m \in class.preset THEN "preset" ELSE class.rest]]

\* A variant that fills the whole structure like the pins.
ConstructedFilled ==
    [o_flags |-> class.o_flags \cup {"unassigned"},
     value |-> [m \in Members |->
        IF m \in class.preset THEN "preset" ELSE "unassigned"]]

\* Attributes()
Constructed ==
    [o_flags |-> class.o_flags,
     value |-> [m \in Members |->
        IF m \in class.pins THEN "unassigned"
        ELSE IF m \in class.preset THEN "preset" ELSE class.rest]]

SettingInit ==
    /\ name \in DOMAIN Library
    /\ attributes = Constructed
    /\ config = [m \in Members |-> "board"]
    /\ returned = [t \in Threads |-> "none"]

-----------------------------------------------------------------------------
Given == {m \in Members : attributes.value[m] = "given"}

Write(block) ==
    /\ attributes' = block
    /\ UNCHANGED <<ctx, name, config, returned>>

NewAttributes == Write(Constructed)

SetMember(m) ==
    /\ Cardinality(Given) < MaxGiven
    /\ Write([attributes EXCEPT !.value[m] = "given"])

\* set_flags replaces the flags; set_start() and the like of the buffers add
\* one.
SetFlags(flags) ==
    /\ name \notin {"ByteBuffer", "FrameBuffer"}
    /\ Write([attributes EXCEPT !.o_flags = flags])

AddFlag(flag) ==
    /\ name \in Buffers
    /\ Write([attributes EXCEPT !.o_flags = @ \cup {flag}])

\* An unassigned pin is not set, and leaves the one that was set before.
set_group_channel(assigned) ==
    /\ name = "Adc"
    /\ LET set == {"channel", "rank", "sampling_time"}
                      \cup (IF assigned THEN {"channel0"} ELSE {})
       IN  Write([o_flags |-> {"set_channels", "is_group"},
                     value |-> [m \in Members |->
                        IF m \in set THEN "given" ELSE attributes.value[m]]])

\* The driver is handed a structure.  Flags that were never written are any.
Hand(t, block) ==
    /\ \/ NotDone(t) /\ UNCHANGED config
       \/ /\ Done(t)
          /\ \/ block.o_flags \cap class.taken # {} /\ config' = block.value
             \/ /\ block.o_flags \cap class.taken \subseteq {"garbage"}
                /\ UNCHANGED config
    /\ UNCHANGED <<name, attributes, returned>>

SetAttributes(t) == Hand(t, attributes)

\* set_attributes() without an argument: the board's own.
SetDefault(t) ==
    /\ name \in {"Timer", "Adc", "Spi", "I2S", "Uart", "Usb"}
    /\ \/ NotDone(t) /\ UNCHANGED config
       \/ Done(t) /\ config' = [m \in Members |-> "board"]
    /\ UNCHANGED <<name, attributes, returned>>

\* set_attributes(Attributes(Flags::assign, value))
assign(t) ==
    /\ name = "Gpio"
    /\ Hand(t, [o_flags |-> {"assign"}, value |-> [m \in Members |-> "given"]])

\* set_attributes(Attributes().set_flags(flag))
Command(t, flag) == Hand(t, [Constructed EXCEPT !.o_flags = {flag}])

Get(t, getter) ==
    /\ \/ NotDone(t) /\ returned' = [returned EXCEPT ![t] = class.getters[getter]]
       \/ Done(t) /\ returned' = [returned EXCEPT ![t] = "read"]
    /\ UNCHANGED <<name, attributes, config>>

\* enable, set_value, put, mute, swap, flush, set_mask and so on.
SettingRequest(t) == Requested(t) /\ UNCHANGED settingVars

\* The caller deals with an error, and with what it was returned.
Recover(t) ==
    /\ Reset(t)
    /\ returned' = [returned EXCEPT ![t] = "none"]
    /\ UNCHANGED <<name, attributes, config>>

SettingStep(t) ==
    \/ NewAttributes
    \/ \E m \in Members : SetMember(m)
    \/ \E flags \in SUBSET ((class.taken \cup class.other) \ {"garbage"}) :
        SetFlags(flags)
    \/ \E flag \in class.other : AddFlag(flag)
    \/ \E assigned \in BOOLEAN : set_group_channel(assigned)
    \/ SetAttributes(t) \/ SetDefault(t) \/ assign(t)
    \/ \E flag \in class.commands : Command(t, flag)
    \/ \E getter \in DOMAIN class.getters : Get(t, getter)
    \/ SettingRequest(t)
    \/ Recover(t)

-----------------------------------------------------------------------------
SettingsOK ==
    /\ name \in DOMAIN Library
    /\ attributes.o_flags \subseteq class.o_flags \cup class.taken \cup class.other
    /\ attributes.value \in [Members -> Values]
    /\ returned \in [Threads -> {"none", "read", "zero", "garbage"}]
    /\ config \in [Members -> Values]

\* No pin becomes part of a configuration that nobody has chosen, and no member
\* of it ever has an uninitialized value; other members than pins may be the
\* zero of a value-initialized object.  (Adc is left out: its constructor
\* leaves all but the pins uninitialized.)  And a caller who is returned what
\* was on the stack can tell by its context.
NothingUninitialized ==
    /\ \A p \in class.pins : config[p] \in {"unassigned", "given", "board"}
    /\ name # "Adc" => \A m \in Members : config[m] # "garbage"
    /\ \A t \in Threads : returned[t] = "garbage" => IsError(ctx[t])

\* Where the values of the Attributes object can come from.
Origins ==
    /\ attributes \in
        [o_flags : SUBSET (class.o_flags \cup class.taken \cup class.other),
         value : [Members -> Values]]
    /\ \A p \in class.pins : attributes.value[p] \in {"unassigned", "given"}
    /\ name # "Adc" => \A m \in Members : attributes.value[m] # "garbage"

=============================================================================
