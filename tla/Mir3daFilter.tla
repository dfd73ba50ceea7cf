---------------------------- MODULE Mir3daFilter ----------------------------
(***************************************************************************)
(* The arithmetic of the da380 core (GSensor/da380/mir3da_core.c) between  *)
(* the six data bytes and the values it hands out: sign extension of the   *)
(* left-justified sample and the zoom of the z axis, the two averaging     *)
(* filters with their spike rejection, and the remapping of the axes to    *)
(* the mounting direction.                                                 *)
(***************************************************************************)
EXTENDS Integers, Input

PEAK_LVL == 800
SPIKES   == 3          \* samples in a row that are taken for a spike

Abs(a) == IF a >= 0 THEN a ELSE -a

\* The division of C, which truncates towards zero, by a positive n.
Quotient(a, n) == IF a >= 0 THEN a \div n ELSE -((-a) \div n)

-----------------------------------------------------------------------------
(* mir3da_read_raw_data: 12 bits, left-justified in a 16-bit word. *)

ToShort(w) == IF w >= 32768 THEN w - 65536 ELSE w

\* >> on a negative short is an arithmetic shift, as is \div.
RawAxis(lsb, msb) == ToShort(msb * 256 + lsb) \div 16

\* The z axis of the SOCLE chips whose OTP_TRIM_THERM_H is 2.
Zoomed(z, bSensZoom) == IF bSensZoom THEN Quotient(z * 5, 4) ELSE z

\* The axes in the six data bytes.
ReadRawData(b, bSensZoom) ==
    <<RawAxis(b[1], b[2]), RawAxis(b[3], b[4]), Zoomed(RawAxis(b[5], b[6]), bSensZoom)>>

-----------------------------------------------------------------------------
(* filter_average and filter_average_enhance.                              *)

\* Variant: the fourth spike is averaged in.
FilterAverage_NoReset(preAve, sample, paramN, refNum) ==
    IF Abs(sample - preAve) > PEAK_LVL /\ refNum < SPIKES
    THEN [ave |-> preAve, ref |-> refNum + 1]
    ELSE [ave |-> preAve + Quotient(sample - preAve, paramN), ref |-> 0]
\* One call: the new average and the new number of suspected spikes in a row.
FilterAverage(preAve, sample, paramN, refNum) ==
    IF Abs(sample - preAve) > PEAK_LVL /\ refNum < SPIKES
    THEN [ave |-> preAve, ref |-> refNum + 1]
    ELSE LET base == IF refNum = SPIKES THEN sample ELSE preAve
         IN  [ave |-> base + Quotient(sample - base, paramN), ref |-> 0]

\* Variant: the slow filter is never brought up to the fast one.
FilterAverageEnhance_KeepsHigh(fac, sample) ==
    LET low  == FilterAverage(fac.sample_l, sample, fac.param_l, fac.refN_l)
        high == FilterAverage(fac.sample_h, sample, fac.param_h, fac.refN_h)
    IN  [fac EXCEPT !.sample_l = low.ave, !.refN_l = low.ref, !.refN_h = high.ref,
                    !.sample_h = high.ave]

\* A filter context: both averages, both counts, and the parameters.
FilterAverageEnhance(fac, sample) ==
    LET low  == FilterAverage(fac.sample_l, sample, fac.param_l, fac.refN_l)
        high == FilterAverage(fac.sample_h, sample, fac.param_h, fac.refN_h)
    IN  IF fac.param_l = fac.param_h
        THEN [fac EXCEPT !.sample_l = low.ave, !.sample_h = low.ave, !.refN_l = low.ref]
        ELSE [fac EXCEPT !.sample_l = low.ave, !.refN_l = low.ref, !.refN_h = high.ref,
                         !.sample_h = IF Abs(low.ave - high.ave) > fac.threshold
                                      THEN low.ave ELSE high.ave]

-----------------------------------------------------------------------------
(* mir3da_direction_remap: for each direction, which axes change their     *)
(* sign and whether x and y are exchanged.                                 *)

Remap ==
    << <<0, 0, 0, 0>>, <<0, 1, 0, 1>>, <<1, 1, 0, 0>>, <<1, 0, 0, 1>>,
       <<1, 0, 1, 0>>, <<0, 0, 1, 1>>, <<0, 1, 1, 0>>, <<1, 1, 1, 1>> >>

DirectionRemap(v, direction) ==
    LET r == Remap[direction + 1]
        x == v[1] - v[1] * r[1] * 2
        y == v[2] - v[2] * r[2] * 2
        z == v[3] - v[3] * r[3] * 2
    IN  IF r[4] = 1 THEN <<y, x, z>> ELSE <<x, y, z>>

-----------------------------------------------------------------------------
(* The calls that are checked, and what they promise.                      *)

CONSTANTS
    Levels,      \* samples, of the range of a zoomed axis
    Lengths      \* filter lengths, positive

Samples == -2048..2047        \* 12 bits

ASSUME FilterAssumption ==
    /\ Levels \subseteq -2560..2558
    /\ Lengths \subseteq Nat \ {0}

Refs == 0..SPIKES

AverageCalls ==
    [routine : {"filter_average"}, pre : Levels, sample : Levels, len : Lengths, ref : Refs]

\* One sample on x and on z and another one on y, with what the part puts into the
\* four bits below them.
RawCalls == [routine : {"mir3da_read_raw_data"}, sample : Samples, other : {-2048, 5},
             low : {0, 15}, bSensZoom : BOOLEAN]

Contexts == [sample_l : Levels, sample_h : Levels, param_l : Lengths, param_h : Lengths,
             refN_l : Refs, refN_h : {0}, threshold : {0, 60}]
EnhanceCalls == [routine : {"filter_average_enhance"}, fac : Contexts, sample : Levels]

RemapCalls == [routine : {"mir3da_direction_remap"}, direction : 0..7]

FilterCalls == AverageCalls \cup RawCalls \cup EnhanceCalls \cup RemapCalls

Between(a, p, q) == (p <= a /\ a <= q) \/ (q <= a /\ a <= p)

\* The averages that four calls with the same sample give.
Four(p, s, n, r) ==
    LET a == FilterAverage(p, s, n, r)
        b == FilterAverage(a.ave, s, n, a.ref)
        c == FilterAverage(b.ave, s, n, b.ref)
        d == FilterAverage(c.ave, s, n, c.ref)
    IN  {a.ave, b.ave, c.ave, d.ave}

\* filter_average: an average never leaves the interval between its old value and the
\* sample, so it stays a short; and spikes are dropped but changes are not: of four equal
\* samples far from the average, starting from any count, one becomes the average.
AverageRight ==
    Calls("filter_average") =>
        LET a == FilterAverage(input.pre, input.sample, input.len, input.ref)
        IN  /\ Between(a.ave, input.pre, input.sample)
            /\ a.ref \in Refs
            /\ Abs(input.sample - input.pre) > PEAK_LVL
                 => input.sample \in Four(input.pre, input.sample, input.len, input.ref)

\* The bytes of the samples give back the samples, their signs included; a zoomed one is
\* five quarters of its sample but for less than one count, and on the same side of 0.
Word(a, low) == (a * 16 + low) % 65536

RawExact ==
    LET w    == Word(input.sample, input.low)
        v    == Word(input.other, input.low)
        axes == ReadRawData(<<w % 256, w \div 256, v % 256, v \div 256, w % 256, w \div 256>>,
                            input.bSensZoom)
    IN  /\ axes[1] = input.sample /\ axes[2] = input.other
        /\ IF input.bSensZoom
           THEN /\ Abs(4 * axes[3] - 5 * input.sample) < 4
                /\ Between(axes[3], 0, 5 * input.sample)
           ELSE axes[3] = input.sample

\* The value of the slow filter is never further from that of the fast one than
\* the threshold, and both lie between the sample and the old averages.
EnhanceBounded ==
    LET new == FilterAverageEnhance(input.fac, input.sample)
    IN  /\ Between(new.sample_l, input.fac.sample_l, input.sample)
        /\ \/ Between(new.sample_h, input.fac.sample_h, input.sample)
           \/ new.sample_h = new.sample_l
        /\ Abs(new.sample_l - new.sample_h) <= input.fac.threshold

\* A direction keeps the orientation of the axes, x cross y = z, and is no other one.
Axis(i) == [j \in 1..3 |-> IF i = j THEN 1 ELSE 0]
Cross(u, v) == << u[2] * v[3] - u[3] * v[2], u[3] * v[1] - u[1] * v[3],
                  u[1] * v[2] - u[2] * v[1] >>

RemapRotates ==
    LET Turned(d) == [i \in 1..3 |-> DirectionRemap(Axis(i), d)]
        d == input.direction
    IN  /\ Cross(Turned(d)[1], Turned(d)[2]) = Turned(d)[3]
        /\ \A e \in 0..7 \ {d} : Turned(e) # Turned(d)

\* mir3da_read_data: the sample is the part's, on the z axis of some SOCLE chips zoomed,
\* the filtered value is one the filters agree on, and the axes are turned and never
\* mirrored.
ReportRight ==
    /\ Calls("mir3da_read_raw_data") => RawExact
    /\ Calls("filter_average_enhance") => EnhanceBounded
    /\ Calls("mir3da_direction_remap") => RemapRotates
=============================================================================
