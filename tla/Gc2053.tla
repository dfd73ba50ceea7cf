------------------------------- MODULE Gc2053 -------------------------------
(***************************************************************************)
(* The exposure and gain control of the GC2053 image sensor driver         *)
(* (CameraSensor/gc2053/gc2053_mipi.c).  Register 0xfe selects the page of *)
(* every other transfer; exposure and gain live on page 0.  A gain is      *)
(* split into an entry of the analog table and a digital rest, and the     *)
(* driver remembers the gain it set, to skip a request that repeats it.    *)
(* The camera core calls the driver one call at a time; every transfer is  *)
(* a step and may fail.                                                    *)
(***************************************************************************)
EXTENDS Integers, Sequences, FiniteSetsExt

CONSTANTS
    GainVals,     \* gains of the control and of VIDIOC_VIN_SENSOR_EXP_GAIN, in 1/16
    ExpVals,      \* exposures, in 1/16 of a line
    MaxFaults     \* bound: transfers that fail in one behaviour

ASSUME GcConstants == GainVals \subseteq Nat /\ ExpVals \subseteq Nat /\ MaxFaults \in Nat

VARIABLES
    page,         \* register 0xfe of the chip
    cis,          \* the exposure and gain registers of page 0
    supply, released,  \* the chip has its supplies; its RESET line is high
    gain, exp,    \* info->gain and info->exp
    call,         \* the call in progress
    todo,         \* what is left of its transfers
    faults,       \* transfers that have failed
    \* history, for the properties only
    failed,       \* a transfer of the call has failed
    sound         \* what the driver may count on: "page" 0, its "gain", its "exp"

history == <<faults, failed, sound>>
power == <<supply, released>>
vars == <<page, cis, power, gain, exp, call, todo, history>>

Pages  == {0, 1, 3, 4}
NoCall == [cmd |-> "none"]

-----------------------------------------------------------------------------
(* setSensorGain: the split of a gain, given in 1/64. *)

\* The analog gain of each entry, in 1/64; element 1 is gainLevelTable[0].
gainLevelTable ==
    << 64,   74,   89,   102,  127,  147,  177,  203,  260,  300,  361,  415,  504,  581,
       722,  832,  1027, 1182, 1408, 1621, 1990, 2291, 2850, 3282, 4048, 5180, 5500, 6744,
       7073 >>
total == Len(gainLevelTable)

\* Variant: an entry is used beyond the start of the next.
Entry_Upper(g) ==
    LET hits == {i \in 1..(total - 1) : gainLevelTable[i] < g /\ g <= gainLevelTable[i + 1]}
    IN  IF hits = {} THEN total ELSE Min(hits)
\* The first entry whose range holds g, or the last one.
Entry(g) ==
    LET hits == {i \in 1..(total - 1) : gainLevelTable[i] <= g /\ g < gainLevelTable[i + 1]}
    IN  IF hits = {} THEN total ELSE Min(hits)

tol_dig_gain(g) == (g * 64) \div gainLevelTable[Entry(g)]

\* The four analog registers take their bytes from row i of regValTable; here they take i.
AnalogRegs == <<"b4", "b3", "b8", "b9">>

-----------------------------------------------------------------------------
(* The scripts: a page switch, or a write on the page that is selected. *)

Page(p)     == [reg |-> "fe", val |-> p]
Reg(r, v)   == [reg |-> r, val |-> v]
Analog(i)   == [k \in 1..4 |-> Reg(AnalogRegs[k], i)]
Digital(hi, lo) == <<Reg("b1", hi % 256), Reg("b2", lo % 256)>>
Exposure(hi, lo) == <<Reg("03", hi % 256), Reg("04", lo % 256)>>

sensor_s_exp(e) == Exposure((e \div 16) \div 256, e \div 16)
setSensorGain(g) ==
    <<Page(0)>> \o Analog(Entry(g)) \o Digital(tol_dig_gain(g) \div 64, (tol_dig_gain(g) % 64) * 4)

\* Variant: a table that ends on the page of the MIPI registers.
Walk_NoReturn(reset) ==
    <<Page(reset), Page(0)>> \o Exposure(4, 96) \o Digital(1, 0) \o Analog(1)
    \o <<Page(1), Page(4), Page(1), Page(1), Reg("04", 1), Page(4), Page(1), Page(0), Page(3),
         Reg("03", 142)>>
\* What the tables have in common: soft reset, page 0 with an exposure and gain 1, the
\* image processing on pages 1 and 4, the MIPI block on page 3, and page 0 again.
Walk(reset) ==
    <<Page(reset), Page(0)>> \o Exposure(4, 96) \o Digital(1, 0) \o Analog(1)
    \o <<Page(1), Page(4), Page(1), Page(1), Reg("04", 1), Page(4), Page(1), Page(0), Page(3),
         Reg("03", 142), Page(0)>>

sensor_1080p20_regs   == Walk(240)
sensor_1080p30_regs   == Walk(128)
sensor_1080p27_5_regs == Walk(128)
sensor_1080p25_regs   == Walk(240)

\* The register table of each window size.
sensor_win_sizes == << sensor_1080p20_regs, sensor_1080p30_regs, sensor_1080p27_5_regs,
                       sensor_1080p25_regs >>

-----------------------------------------------------------------------------

PowerOn == [r \in {"03", "04", "b1", "b2", "b3", "b4", "b8", "b9"} |-> 0]
Alive   == supply /\ released

Init ==
    /\ page = 0 /\ cis = PowerOn
    /\ supply = FALSE /\ released = FALSE
    /\ gain = 0 /\ exp = 0
    /\ call = NoCall /\ todo = << >>
    /\ faults = 0 /\ failed = FALSE /\ sound = {}

Begin(c, script) == call = NoCall /\ call' = c /\ todo' = script

\* sensor_detect reads the high byte up to three times, then again, then the low byte, all
\* into one variable.  ok: the transfers that succeed; junk: the variable, not initialised,
\* happens to hold the high byte.
HighRead(ok, junk) == junk \/ \E k \in 1..4 : ok[k]
Reads(ok, junk) ==
    {k \in 1..3 : \A j \in 1..(k - 1) : ~ok[j]} \cup {4}
    \cup (IF HighRead(ok, junk) THEN {5} ELSE {})
sensor_detect(ok, junk) == HighRead(ok, junk) /\ ok[5]

\* sensor_init: once the chip has answered, what was set before is forgotten.
sensor_init ==
    /\ call = NoCall
    /\ \E ok \in [1..5 -> BOOLEAN], junk \in BOOLEAN :
        LET lost == {k \in Reads(ok, junk) : ~ok[k]} IN
        /\ IF Alive THEN faults + Cardinality(lost) <= MaxFaults /\ faults' = faults + Cardinality(lost)
                    ELSE (\A k \in 1..5 : ~ok[k]) /\ faults' = faults
        /\ IF sensor_detect(ok, junk)
           THEN gain' = 0 /\ exp' = 0 /\ sound' = sound \cap {"page"}
           ELSE UNCHANGED <<gain, exp, sound>>
    /\ UNCHANGED <<page, cis, power, call, todo, failed>>

\* The chip loses its registers.
Lose == page' = 0 /\ cis' = PowerOn /\ sound' = {}

\* PWR_ON, which resets the chip, and PWR_OFF.
sensor_power ==
    /\ call = NoCall
    /\ \E on \in BOOLEAN : supply' = on /\ released' = on
    /\ Lose
    /\ UNCHANGED <<gain, exp, call, todo, faults, failed>>

sensor_reset ==
    /\ call = NoCall
    /\ \/ released' = TRUE /\ UNCHANGED <<page, cis, sound>>
       \/ released' = FALSE /\ Lose
    /\ UNCHANGED <<supply, gain, exp, call, todo, faults, failed>>

\* sensor_s_stream(1): nothing looks at info->gain.
sensor_s_stream ==
    /\ \E w \in DOMAIN sensor_win_sizes : Begin([cmd |-> "stream"], sensor_win_sizes[w])
    /\ sound' = {}
    /\ UNCHANGED <<page, cis, power, gain, exp, faults, failed>>

\* sensor_init_controls: the values the control framework lets through.
GainControl     == (1 * 1600)..(256 * 1600)
ExposureControl == 1..(65536 * 16)

\* The limits of sensor_queryctrl, within which sensor_s_ctrl goes on.
GainLimits     == 16..(128 * 16 - 1)
ExposureLimits == 1..(65536 * 16)

SetExposure ==
    /\ \E e \in ExpVals \cap ExposureControl \cap ExposureLimits :
        Begin([cmd |-> "exp", exp |-> e], sensor_s_exp(e))
    /\ UNCHANGED <<page, cis, power, gain, exp, history>>

SetGain ==
    /\ \E g \in GainVals \cap GainControl \cap GainLimits :
        /\ g # gain
        /\ Begin([cmd |-> "gain", gain |-> g], setSensorGain(g * 4))
    /\ UNCHANGED <<page, cis, power, gain, exp, history>>

\* Variant: no lower limit.
AtLeastOne_Any(g) == g
AtLeastOne(g) == IF g < 16 THEN 16 ELSE g
AtMost20Bits(e) == IF e > 1048575 THEN 1048575 ELSE e

sensor_s_exp_gain ==
    /\ \E e0 \in ExpVals : \E g0 \in GainVals :
        LET e == AtMost20Bits(e0)
            g == AtLeastOne(g0)
        IN  Begin([cmd |-> "both", exp |-> e, gain |-> g],
                  sensor_s_exp(e) \o IF g = gain THEN << >> ELSE setSensorGain(g * 4))
    /\ UNCHANGED <<page, cis, power, gain, exp, history>>

\* A soft reset of the page register's upper bits, a page switch or a register write;
\* pages 1, 3 and 4 have other registers at the same addresses.
Transfer(o) ==
    /\ page' = IF o.reg = "fe" THEN (IF o.val \in Pages THEN o.val ELSE 0) ELSE page
    /\ cis' = CASE o.reg = "fe" /\ o.val \notin Pages -> PowerOn
                [] o.reg # "fe" /\ page = 0           -> [cis EXCEPT ![o.reg] = o.val]
                [] OTHER                              -> cis

\* The exposure and the gain call ignore what a transfer returns; sensor_write_array
\* gives up.
Step ==
    /\ todo # << >>
    /\ \/ /\ Alive /\ Transfer(Head(todo))
          /\ todo' = Tail(todo)
          /\ UNCHANGED <<faults, failed>>
       \/ /\ faults < MaxFaults \/ ~Alive
          /\ faults' = IF Alive THEN faults + 1 ELSE faults
          /\ failed' = TRUE
          /\ todo' = IF call.cmd = "stream" THEN << >> ELSE Tail(todo)
          /\ UNCHANGED <<page, cis>>
    /\ UNCHANGED <<power, gain, exp, call, sound>>

Sets(x) == x \in DOMAIN call
Skipped == call.cmd = "both" /\ call.gain = gain

\* A gain call selects page 0; an exposure call relies on it.
Settled ==
    LET touched == {x \in {"gain", "exp"} : Sets(x) /\ ~(x = "gain" /\ Skipped)}
    IN  IF failed THEN sound \ touched
        ELSE IF call.cmd = "stream" THEN {"page"}
        ELSE (sound \ touched) \cup (touched \cap {"gain"})
             \cup (IF "gain" \in touched THEN {"page"} ELSE {})
             \cup (IF "page" \in sound THEN touched \cap {"exp"} ELSE {})

Return ==
    /\ call # NoCall /\ todo = << >>
    /\ call' = NoCall
    /\ gain' = IF Sets("gain") THEN call.gain ELSE gain
    /\ exp' = IF Sets("exp") THEN call.exp ELSE exp
    /\ sound' = Settled /\ failed' = FALSE
    /\ UNCHANGED <<page, cis, power, todo, faults>>

Next ==
    \/ sensor_init \/ sensor_power \/ sensor_reset \/ sensor_s_stream
    \/ SetExposure \/ SetGain \/ sensor_s_exp_gain
    \/ Step \/ Return

Spec == Init /\ [][Next]_vars

-----------------------------------------------------------------------------
(* Properties. *)

\* The digital gain as the sensor reads it: 0xb1 is the integer part, the upper six
\* bits of 0xb2 are the fraction.
DigitalGain == cis["b1"] * 64 + cis["b2"] \div 4

\* Entry i and the digital gain make g, in 1/64, rounded down by less than a step of the
\* digital gain, and the analog stage, which adds less noise, does all it can.
Realises(i, g) ==
    /\ gainLevelTable[i] <= g
    /\ \A k \in (i + 1)..total : g < gainLevelTable[k]
    /\ gainLevelTable[i] * DigitalGain <= g * 64
    /\ g * 64 < gainLevelTable[i] * (DigitalGain + 1)

\* sensor_s_gain: the sensor runs with the gain the driver remembers (and skips requests
\* for), all four analog registers from one entry, whatever calls and failures of other
\* calls came since, as long as the stream was not started anew.
GainRealised ==
    call = NoCall /\ "gain" \in sound =>
        \E i \in 1..total :
            /\ \A k \in 1..4 : cis[AnalogRegs[k]] = i
            /\ Realises(i, gain * 4)

\* sensor_s_exp: it selects no page, and yet the exposure arrives, because every call that
\* ends without a failure leaves page 0.  (65536 * 16, the maximum of the control, does
\* not fit the registers.)
ExposureRealised ==
    call = NoCall /\ "exp" \in sound /\ exp < 65536 * 16 =>
        cis["03"] * 256 + cis["04"] = exp \div 16
=============================================================================
