----------------------------- MODULE Mir3daChip -----------------------------
(***************************************************************************)
(* What the da380 core (GSensor/da380/mir3da_core.c) writes for each of    *)
(* its operations, for both kinds of chip its table knows: the masked      *)
(* writes of the initial table, the power switch, the data rate and the    *)
(* interrupt operations.  Mir3daReg shows what one access does; here an    *)
(* operation is a sequence of accesses, a register the set of its bits     *)
(* that are 1, and registers have the names of mir3da_core.h without their *)
(* prefix.                                                                 *)
(***************************************************************************)
EXTENDS Naturals, Sequences, Input

CONSTANT
    Params        \* values of thresholds, durations and times, which are unsigned chars

ASSUME ParamsAssumption == Params \subseteq 0..255

Socle == "SOCLE"       \* GSENSOR_MOD_SOCLE
Nsa   == "NSA"         \* GSENSOR_MOD_NSA_NTO and _MLM: they differ in mod_id only
Chips == {Socle, Nsa}

Byte      == 0..7
Num(n)    == {i \in Byte : (n \div 2^i) % 2 = 1}
Shl(n, k) == {i + k : i \in Num(n)}

\* mir3da_register_mask_write and mir3da_register_write.
MaskWrite(reg, mask, val) == [reg |-> reg, mask |-> mask, val |-> val]
FullWrite(reg, val)       == MaskWrite(reg, Byte, val)

\* The registers after the writes of prog: a bit is as the last write whose mask has it
\* left it, or as it was.
After(bank, prog) ==
    [r \in DOMAIN bank |->
        LET hits      == {i \in DOMAIN prog : prog[i].reg = r}
            Kept(b, i) == \A j \in hits : j > i => b \notin prog[j].mask
        IN  {b \in bank[r] : Kept(b, 0)}
            \cup UNION {{b \in prog[i].val \cap prog[i].mask : Kept(b, i)} : i \in hits}]

-----------------------------------------------------------------------------
(* The tables of the two chips. *)

SOCLE_INIT_SECTION ==
    << FullWrite("TEMP_CFG", Num(8)), FullWrite("CTRL_REG5", {7}), MaskWrite("CTRL_REG4", {4, 5}, {}),
       FullWrite("CTRL_REG1", Num(\h6F)), FullWrite("TEMP_CFG", Num(\h88)), FullWrite("LDO", Num(2)),
       FullWrite("OTP_TRIM_OSC", Num(\h27)), FullWrite("LPF_ABSOLUTE", Num(\h30)),
       FullWrite("TEMP_OFF1", Num(\h3F)), FullWrite("TEMP_OFF2", Byte), FullWrite("TEMP_OFF3", Num(\h0F)) >>

NSA_INIT_SECTION ==
    << MaskWrite("G_RANGE", {0, 1}, {1}), FullWrite("POWERMODE_BW", Num(\h1E)),
       FullWrite("ODR_AXIS_DISABLE", Num(7)), FullWrite("INTERRUPT_SETTINGS2", {}),
       FullWrite("INTERRUPT_MAPPING2", {}), FullWrite("ENGINEERING_MODE", Num(\h83)),
       FullWrite("ENGINEERING_MODE", Num(\h69)), FullWrite("ENGINEERING_MODE", Num(\hBD)),
       MaskWrite("INT_PIN_CONFIG", 0..3, {2}) >>

init_sect(chip) == IF chip = Socle THEN SOCLE_INIT_SECTION ELSE NSA_INIT_SECTION

\* The register, mask and value that suspend the chip.
Power(chip) == IF chip = Socle THEN MaskWrite("TEMP_CFG", {5}, {5})
               ELSE MaskWrite("POWERMODE_BW", {6, 7}, {6, 7})

\* By MIR3DA_ODR_50HZ, _100HZ and _200HZ.
odr_sect(chip, odr) == IF chip = Socle THEN MaskWrite("CTRL_REG1", 4..7, Shl(4 + odr, 4))
                       ELSE MaskWrite("ODR_AXIS_DISABLE", 0..3, Num(6 + odr))

Registers ==
    {"TEMP_CFG", "CTRL_REG1", "CTRL_REG3", "CTRL_REG4", "CTRL_REG5", "CTRL_REG6", "LDO",
     "OTP_TRIM_OSC", "LPF_ABSOLUTE", "TEMP_OFF1", "TEMP_OFF2", "TEMP_OFF3", "INT1_CFG",
     "INT2_CFG", "INT1_THS", "INT2_THS", "INT1_DURATION", "INT2_DURATION", "CLICK_CFG",
     "CLICK_THS", "TIME_LIMIT", "TIME_LATENCY", "TIME_WINDOW", "G_RANGE", "POWERMODE_BW",
     "ODR_AXIS_DISABLE", "INTERRUPT_SETTINGS1", "INTERRUPT_SETTINGS2", "INTERRUPT_MAPPING1",
     "INTERRUPT_MAPPING2", "INTERRUPT_MAPPING3", "ENGINEERING_MODE", "INT_PIN_CONFIG",
     "INT_LATCH", "ACTIVE_THRESHOLD", "ACTIVE_DURATION", "TAP_THRESHOLD", "TAP_DURATION"}

-----------------------------------------------------------------------------
(* Power and rate. *)

get_enable(chip, bank) == bank[Power(chip).reg] \cap Power(chip).mask = {}

set_enable(chip, on) == << [Power(chip) EXCEPT !.val = IF on THEN {} ELSE @] >>

set_odr(chip, delay) ==
    << odr_sect(chip, IF delay <= 5 THEN 2 ELSE IF delay <= 10 THEN 1 ELSE 0) >>

\* The stores of the file "enable" and the ioctl SET_ENABLE take any number.
enable_store(chip, number) == set_enable(chip, number > 0)

-----------------------------------------------------------------------------
(* The interrupt operations: mir_int_ops_t, and what it writes. *)

Sources == {"activity", "click"}
Pins    == {1, 2}

InitOps   == [type : {"init"}, level : {0, 1}, pin_mod : {0, 1}, latch : Params]
SwitchOps == [type : {"enable", "disable"}, src : Sources]
ConfigOps ==
    [type : {"config"}, src : {"activity"}, pin : Pins, threshold : Params, duration : Params]
    \cup [type : {"config"}, src : {"click"}, pin : Pins, threshold : Params,
          click_time : Params, quiet_time : Params, window : Params]

\* Variant: the masks of the thresholds are a bit short.
SOCLE_config_ShortMask(o) ==
    IF o.src = "activity"
    THEN LET int == IF o.pin = 1 THEN <<"CTRL_REG3", 6, "INT1_THS", "INT1_DURATION">>
                    ELSE <<"CTRL_REG6", 5, "INT2_THS", "INT2_DURATION">>
         IN  << MaskWrite(int[1], {int[2]}, {int[2]}), MaskWrite(int[3], 0..5, Num(o.threshold)),
                MaskWrite(int[4], 0..6, Num(o.duration)) >>
    ELSE << MaskWrite("CLICK_THS", 0..5, Num(o.threshold)),
            MaskWrite("TIME_LIMIT", 0..6, Num(o.click_time)),
            FullWrite("TIME_LATENCY", Num(o.quiet_time)),
            FullWrite("TIME_WINDOW", Num(o.window)),
            MaskWrite(IF o.pin = 1 THEN "CTRL_REG3" ELSE "CTRL_REG6", {7}, {7}) >>

SOCLE_config(o) ==
    IF o.src = "activity"
    THEN LET int == IF o.pin = 1 THEN <<"CTRL_REG3", 6, "INT1_THS", "INT1_DURATION">>
                    ELSE <<"CTRL_REG6", 5, "INT2_THS", "INT2_DURATION">>
         IN  << MaskWrite(int[1], {int[2]}, {int[2]}), MaskWrite(int[3], 0..6, Num(o.threshold)),
                MaskWrite(int[4], 0..6, Num(o.duration)) >>
    ELSE << MaskWrite("CLICK_THS", 0..6, Num(o.threshold)),
            MaskWrite("TIME_LIMIT", 0..6, Num(o.click_time)),
            FullWrite("TIME_LATENCY", Num(o.quiet_time)),
            FullWrite("TIME_WINDOW", Num(o.window)),
            MaskWrite(IF o.pin = 1 THEN "CTRL_REG3" ELSE "CTRL_REG6", {7}, {7}) >>

\* Variant: the second generator of the activity interrupt stays on.
SOCLE_switch_FirstOnly(o) ==
    IF o.src = "activity" THEN << FullWrite("INT1_CFG", IF o.type = "enable" THEN 0..6 ELSE {}) >>
    ELSE << MaskWrite("CLICK_CFG", 0..5, IF o.type = "enable" THEN 0..5 ELSE {}) >>

SOCLE_switch(o) ==
    IF o.src = "activity"
    THEN LET cfg == IF o.type = "enable" THEN 0..6 ELSE {}
         IN  << FullWrite("INT1_CFG", cfg), FullWrite("INT2_CFG", cfg) >>
    ELSE << MaskWrite("CLICK_CFG", 0..5, IF o.type = "enable" THEN 0..5 ELSE {}) >>

SOCLE_interrupt_ops(o) ==
    CASE o.type = "init" ->
            << MaskWrite("CTRL_REG6", {1}, Shl(o.level, 1)),
               MaskWrite("CTRL_REG5", {3}, Shl(o.latch, 3)),
               MaskWrite("CLICK_CFG", {6}, Shl(o.latch, 6)) >>
      [] o.type = "config" -> SOCLE_config(o)
      [] o.type \in {"enable", "disable"} -> SOCLE_switch(o)

\* The mask of TAP_DURATION leaves out bit 7, to which the quiet time is shifted.
NSA_config(o) ==
    LET mapping == IF o.pin = 1 THEN "INTERRUPT_MAPPING1" ELSE "INTERRUPT_MAPPING3"
    IN  IF o.src = "activity"
        THEN << FullWrite("ACTIVE_THRESHOLD", Num(o.threshold)),
                MaskWrite("ACTIVE_DURATION", {0, 1}, Num(o.duration)),
                MaskWrite(mapping, {2}, {2}) >>
        ELSE << MaskWrite("TAP_THRESHOLD", 0..4, Num(o.threshold)),
                MaskWrite("TAP_DURATION", {0, 1, 2, 5, 6},
                          Shl(o.quiet_time, 7) \cup Shl(o.click_time, 6) \cup Num(o.window)),
                MaskWrite(mapping, {4, 5}, {4, 5}) >>

\* The bits of INTERRUPT_SETTINGS1 of a source.
SettingBits(src) == IF src = "activity" THEN 0..2 ELSE {4, 5}

\* Variant: switching a source off clears the register.
NSA_switch_ClearsAll(o) ==
    IF o.type = "enable"
    THEN << MaskWrite("INTERRUPT_SETTINGS1", SettingBits(o.src), SettingBits(o.src)) >>
    ELSE << FullWrite("INTERRUPT_SETTINGS1", {}) >>

NSA_switch(o) ==
    << MaskWrite("INTERRUPT_SETTINGS1", SettingBits(o.src),
                 IF o.type = "enable" THEN SettingBits(o.src) ELSE {}) >>

NSA_interrupt_ops(o) ==
    CASE o.type = "init" ->
            << MaskWrite("INT_LATCH", 0..3, Num(o.latch)),
               MaskWrite("INT_PIN_CONFIG", 0..3,
                         UNION {Num(o.level), Shl(o.pin_mod, 1), Shl(o.level, 2), Shl(o.pin_mod, 3)}) >>
      [] o.type = "config" -> NSA_config(o)
      [] o.type \in {"enable", "disable"} -> NSA_switch(o)

interrupt_ops(chip, o) == IF chip = Socle THEN SOCLE_interrupt_ops(o) ELSE NSA_interrupt_ops(o)

\* The chip raises the interrupt of a source.
Raises(chip, src, bank) ==
    IF chip = Nsa THEN bank["INTERRUPT_SETTINGS1"] \cap SettingBits(src) # {}
    ELSE IF src = "click" THEN bank["CLICK_CFG"] \cap 0..5 # {}
    ELSE bank["INT1_CFG"] \cup bank["INT2_CFG"] # {}

\* mir3da_clear_intterrupt, on which the file int2_clear rests.
clear_intterrupt == << MaskWrite("INT_LATCH", {7}, Num(\h86)) >>

\* mir3da_open_interrupt.
open_interrupt(num, on) ==
    << MaskWrite("INT_LATCH", {0, 1, 2, 3, 7}, Num(\h86)), FullWrite("ACTIVE_DURATION", Num(3)),
       FullWrite("ACTIVE_THRESHOLD", Num(\h10)) >>
    \o (IF ~on THEN << FullWrite("INTERRUPT_SETTINGS1", {}), FullWrite("INTERRUPT_MAPPING1", {}),
                       FullWrite("INTERRUPT_MAPPING3", {}) >>
        ELSE << FullWrite("INTERRUPT_SETTINGS1", Num(3)),
                FullWrite(IF num = 0 THEN "INTERRUPT_MAPPING1" ELSE "INTERRUPT_MAPPING3", {2}) >>)

-----------------------------------------------------------------------------
(* Properties.  A write acts on each bit by itself, so the two contents in   *)
(* which all bits are 0 or all are 1 stand for every content of the chip.    *)

Contents == {[r \in Registers |-> {}], [r \in Registers |-> Byte]}

PowerOps == [type : {"enable_store"}, number : 0..2]
RateOps  == [type : {"set_odr"}, delay : {5, 10, 50}]
ClearOps == [type : {"clear_intterrupt"}]
WholeOps == [type : {"chip_resume"}] \cup [type : {"open_interrupt"}, num : {0, 1}, on : BOOLEAN]

\* The operations of one feature, and those that take over several.
FeatureOps(chip) ==
    PowerOps \cup RateOps \cup InitOps \cup SwitchOps \cup ConfigOps
    \cup (IF chip = Nsa THEN ClearOps ELSE {})

ChipCalls ==
    UNION {[routine : {"operation"}, chip : {c}, op : FeatureOps(c) \cup WholeOps] : c \in Chips}

FeatureOf(o) ==
    IF o.type \in {"enable", "disable", "config"} THEN o.src ELSE o.type

Writes(chip, o) ==
    CASE o.type = "enable_store"     -> enable_store(chip, o.number)
      [] o.type = "set_odr"          -> set_odr(chip, o.delay)
      [] o.type = "clear_intterrupt" -> clear_intterrupt
      [] o.type = "chip_resume"      -> init_sect(chip)
      [] o.type = "open_interrupt"   -> open_interrupt(o.num, o.on)
      [] OTHER                       -> interrupt_ops(chip, o)

\* Power, rate, the pins and the two interrupt sources share registers, but each
\* has bits of its own: operations on different features may come in any order.
FeaturesIndependent ==
    Calls("operation") =>
        LET chip == input.chip
            p    == Writes(chip, input.op)
        IN  input.op \in FeatureOps(chip) =>
              \A o \in FeatureOps(chip), bank \in Contents :
                  FeatureOf(o) # FeatureOf(input.op) =>
                      LET q == Writes(chip, o)
                      IN  After(bank, p \o q) = After(bank, q \o p)

\* The power switch is where the last store left it, whatever else is called, except that
\* the initial table ends with the chip on: a resume, or the reset behind primary_offset,
\* undoes a stored 0.
PowerKept(chip, o) ==
    \A bank \in Contents :
        get_enable(chip, After(bank, Writes(chip, o))) <=>
            CASE o.type = "enable_store" -> o.number > 0
              [] o.type = "chip_resume"  -> TRUE
              [] OTHER                   -> get_enable(chip, bank)

\* A source that is switched off after it was configured is silent, and the other
\* source raises what it raised before.
SourceSilenced(chip, o) ==
    \A src \in Sources, bank \in Contents :
        LET off   == [type |-> "disable", src |-> src]
            after == After(bank, Writes(chip, o) \o Writes(chip, off))
        IN  /\ ~Raises(chip, src, after)
            /\ \A other \in Sources \ {src} : Raises(chip, other, after) <=> Raises(chip, other, bank)

\* The switches do what they say: power, each interrupt source, and open_interrupt,
\* which takes both sources over and with 0 silences them.
SwitchesAsAsked ==
    Calls("operation") =>
        LET chip == input.chip
            o    == input.op
        IN  /\ PowerKept(chip, o)
            /\ o.type = "config" => SourceSilenced(chip, o)
            /\ o.type = "open_interrupt" =>
                 \A src \in Sources, bank \in Contents :
                     ~o.on => ~Raises(Nsa, src, After(bank, Writes(Nsa, o)))

\* The bits that the chips have for the parameters of a source.  The quiet time of the
\* NSA chips is not among them: it is lost.
FieldBits(chip, src) ==
    CASE chip = Socle /\ src = "activity" -> [threshold |-> 7, duration |-> 7]
      [] chip = Socle /\ src = "click"    -> [threshold |-> 7, click_time |-> 7, quiet_time |-> 8,
                                             window |-> 8]
      [] chip = Nsa /\ src = "activity"   -> [threshold |-> 8, duration |-> 2]
      [] chip = Nsa /\ src = "click"      -> [threshold |-> 5, click_time |-> 1, window |-> 3]

FitsFields(chip, o) ==
    \A f \in DOMAIN FieldBits(chip, o.src) : o[f] < 2^FieldBits(chip, o.src)[f]

\* Two configurations of a source whose parameters all fit their fields leave different
\* chips: no bit of a parameter is lost to a mask, or overwritten by another one.  The
\* exception is the quiet time of the NSA chips, which is lost whatever its value is.
ConfigDistinct ==
    Calls("operation") /\ input.op \in ConfigOps =>
        LET chip    == input.chip
            Clear   == [r \in Registers |-> {}]
            Left    == After(Clear, Writes(chip, input.op))
            Kept(o) == IF chip = Nsa /\ o.src = "click" THEN [o EXCEPT !.quiet_time = 0] ELSE o
        IN  FitsFields(chip, input.op) =>
              \A o \in ConfigOps :
                  /\ o.src = input.op.src /\ FitsFields(chip, o)
                  /\ After(Clear, Writes(chip, o)) = Left
                  => Kept(o) = Kept(input.op)
=============================================================================
