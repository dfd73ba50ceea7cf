------------------------------- MODULE GpioI2c -------------------------------
(***************************************************************************)
(* The bit-banged I2C master of Other/gpio_i2c/gpio_i2c.c.  A call of one  *)
(* of its four transfer functions runs a sequence of routines, and each of *)
(* them makes accesses to the registers of the pins; a step is one access. *)
(* SCL is always driven, SDA is driven or released through the direction   *)
(* register.  A device and a listener that follow the I2C bus rules are on *)
(* the other end.  Nothing in the driver keeps two calls apart: Overlap    *)
(* says whether its users do.                                              *)
(***************************************************************************)
EXTENDS Naturals, Sequences, SequencesExt

CONSTANTS
    Tasks,        \* the callers
    Overlap,      \* whether their calls may overlap
    NoRequest,    \* the request of a caller that is in no call
    Kinds,        \* the functions they call: a part of AllKinds
    Devs,         \* the devaddress bytes they pass
    Addrs,        \* the register addresses
    Datas,        \* the values they write
    DevAddr,      \* the 7-bit address of the device on the bus
    DevByte       \* what its registers read as

AllKinds == {"read8", "write8", "read16", "write16"}
Bytes  == 0..(2^8 - 1)
Shorts == 0..(2^16 - 1)

ASSUME GpioConstants ==
    /\ Kinds \subseteq AllKinds /\ Overlap \in BOOLEAN
    /\ Devs \subseteq Bytes /\ DevByte \in Bytes /\ DevAddr \in Bytes
    /\ Addrs \subseteq Shorts /\ Datas \subseteq Shorts

VARIABLES
    scl,          \* the level of SCL
    out, dir,     \* the data bit of SDA, and 1 when SDA is an output
    dev,          \* the device: its role, the level it leaves SDA at
    bus,          \* the listener: bits since the last byte, their value, the last bit
    log,          \* what each caller's call put on the wire so far
    req, at,      \* the call of each caller, and the access it makes next
    irqsOff,      \* the caller that has disabled interrupts, if one has
    rx            \* the value of the bits each caller sampled

vars == <<scl, out, dir, dev, bus, log, req, at, irqsOff, rx>>

\* gpio_i2c2_read takes the read address of the device, the others the write address.
Requests == {r \in [kind : Kinds, dev : Devs, addr : Addrs, data : Datas] :
                r.dev % 2 = 1 => r.kind = "read16"}

(***************************************************************************)
(* The routines.  Each is a sequence of rounds of accesses: a round for    *)
(* each bit, and what is before and after the loop.  DIR is read, changed  *)
(* and written in one step; the level is written in the next, so a line    *)
(* that becomes an output shows its old level first.                       *)
(***************************************************************************)
BitOf(c, i) == (c \div 2^(8 - i)) % 2
Hi(w) == w \div 256
Lo(w) == w % 256

i2c_start_bit == << <<"out", "both1", "out", "sda0">> >>

i2c_stop_bit == << <<"scl1", "scl0", "out", "sda0", "scl1", "out", "sda1">> >>

SendBit(b) == <<"out", IF b = 1 THEN "sda1" ELSE "sda0", "scl1", "scl0">>

\* Variant: the least significant bit first.
i2c_send_byte_LsbFirst(c) ==
    << <<"irqoff", "scl0">> >> \o [i \in 1..8 |-> SendBit(BitOf(c, 9 - i))] \o << <<"irqon">> >>
i2c_send_byte(c) ==
    << <<"irqoff", "scl0">> >> \o [i \in 1..8 |-> SendBit(BitOf(c, i))] \o << <<"irqon">> >>

\* Variant: SDA is read after the clock.
i2c_receive_byte_Late ==
    << <<"irqoff">> >> \o [i \in 1..8 |-> <<"scl0", "scl1", "in", "in", "scl0", "sample">>]
    \o << <<"irqon">> >>
i2c_receive_byte ==
    << <<"irqoff">> >> \o [i \in 1..8 |-> <<"scl0", "scl1", "in", "in", "sample", "scl0">>]
    \o << <<"irqon">> >>

\* Variant: SDA stays an output.
i2c_receive_ack_Driven == << <<"scl0", "scl1", "ack", "scl0">> >>
i2c_receive_ack == << <<"in", "scl0", "scl1", "in", "ack", "scl0">> >>

Routine(name, byte) == [name |-> name, byte |-> byte]
Rounds(p) ==
    CASE p.name = "i2c_start_bit"    -> i2c_start_bit
      [] p.name = "i2c_stop_bit"     -> i2c_stop_bit
      [] p.name = "i2c_send_byte"    -> i2c_send_byte(p.byte)
      [] p.name = "i2c_receive_byte" -> i2c_receive_byte
      [] p.name = "i2c_receive_ack"  -> i2c_receive_ack

Start   == Routine("i2c_start_bit", 0)
Stop    == Routine("i2c_stop_bit", 0)
Send(c) == Routine("i2c_send_byte", c)
Receive == Routine("i2c_receive_byte", 0)
Ack     == Routine("i2c_receive_ack", 0)

ReadBit(c)    == (c \div 2) * 2 + 1           \* devaddress | 1
SyncWord      == 64755                        \* 0xFCF3
MemRead       == 55                           \* 0x37
MemWrite      == 59                           \* 0x3B

gpio_i2c_read(r) ==
    << Start, Send(r.dev), Ack, Send(Lo(r.addr)), Ack,
       Start, Send(ReadBit(r.dev)), Ack, Receive, Stop >>

gpio_i2c_write(r) ==
    << Start, Send(r.dev), Ack, Send(Lo(r.addr)), Ack, Send(Lo(r.data)), Stop >>

\* num_bytes is 2: the only value the ioctl passes.
gpio_i2c2_read(r) ==
    << Start, Send(MemWrite), Ack, Send(Hi(SyncWord)), Ack, Send(Lo(SyncWord)), Ack,
       Send(MemRead), Ack, Send(Hi(r.addr)), Ack, Send(Lo(r.addr)), Ack,
       Start, Send(r.dev), Ack, Receive, Receive, Stop >>

gpio_i2c2_write(r) ==
    << Start, Send(r.dev), Ack, Send(Hi(SyncWord)), Ack, Send(Lo(SyncWord)), Ack,
       Send(MemWrite), Ack, Send(Hi(r.addr)), Ack, Send(Lo(r.addr)), Ack,
       Send(Hi(r.data)), Ack, Send(Lo(r.data)), Ack, Stop >>

Script(r) ==
    CASE r.kind = "read8"   -> gpio_i2c_read(r)
      [] r.kind = "write8"  -> gpio_i2c_write(r)
      [] r.kind = "read16"  -> gpio_i2c2_read(r)
      [] r.kind = "write16" -> gpio_i2c2_write(r)

InCall(t) == req[t] # NoRequest
Done(t)   == InCall(t) /\ at[t].routine > Len(Script(req[t]))

\* The rounds of the routine caller t is in, its next access, and the place after it.
Now(t)    == Rounds(Script(req[t])[at[t].routine])
Access(t) == Now(t)[at[t].round][at[t].access]
Spot(n, j, a) == [routine |-> n, round |-> j, access |-> a]
Begun(n)  == Spot(n, 1, 1)
Place(t)  ==
    LET p == at[t]
    IN  CASE p.access < Len(Now(t)[p.round]) -> Spot(p.routine, p.round, p.access + 1)
          [] p.access = Len(Now(t)[p.round]) /\ p.round < Len(Now(t)) -> Spot(p.routine, p.round + 1, 1)
          [] OTHER -> Begun(p.routine + 1)

(***************************************************************************)
(* The bus.  A byte is eight clocks and an acknowledge; SDA changes under  *)
(* a high SCL only in START and STOP.                                      *)
(***************************************************************************)
START == 256          \* what the listener logs besides bytes
STOP  == 257

Level(d, o, p) == IF d = 1 THEN o ELSE p
Sda == Level(dir, out, dev.pull)

\* The listener after the lines went from (scl, Sda) to (c, s).
Heard(c, s) ==
    CASE scl = 1 /\ c = 1 /\ Sda # s -> [n |-> 0, byte |-> 0, last |-> 1]
      [] scl = 0 /\ c = 1 -> [n |-> (bus.n % 9) + 1, last |-> s,
                              byte |-> IF bus.n = 9 THEN s
                                       ELSE IF bus.n = 8 THEN bus.byte ELSE 2 * bus.byte + s]
      [] OTHER -> bus
Word(c, s) ==
    CASE scl = 1 /\ c = 1 /\ Sda = 1 /\ s = 0 -> <<START>>
      [] scl = 1 /\ c = 1 /\ Sda = 0 /\ s = 1 -> <<STOP>>
      [] scl = 0 /\ c = 1 /\ bus.n = 8 -> <<bus.byte>>
      [] OTHER -> <<>>

\* The device.  A transmitting device shows a bit per falling edge and stops
\* when the acknowledge is not given; a receiving one gives it.
Off      == [role |-> "off", pull |-> 1]
Transmit(n) == [role |-> "tx", pull |-> BitOf(DevByte, n)]
Addressed ==
    IF bus.byte \div 2 # DevAddr THEN Off
    ELSE [role |-> IF bus.byte % 2 = 1 THEN "tx" ELSE "rx", pull |-> 0]
Answer(c, s) ==
    CASE scl = 1 /\ c = 1 /\ Sda = 1 /\ s = 0 -> [role |-> "addr", pull |-> 1]
      [] scl = 1 /\ c = 1 /\ Sda = 0 /\ s = 1 -> Off
      [] scl = 1 /\ c = 0 /\ bus.n \in 1..7 /\ dev.role = "tx" -> Transmit(bus.n + 1)
      [] scl = 1 /\ c = 0 /\ bus.n = 8 ->
            (CASE dev.role = "addr" -> Addressed
               [] dev.role = "rx"   -> [role |-> "rx", pull |-> 0]
               [] OTHER             -> [dev EXCEPT !.pull = 1])
      [] scl = 1 /\ c = 0 /\ bus.n = 9 ->
            (CASE dev.role = "tx" /\ bus.last = 0 -> Transmit(1)
               [] dev.role = "tx" /\ bus.last = 1 -> Off
               [] OTHER                           -> [dev EXCEPT !.pull = 1])
      [] OTHER -> dev

Lines(c, o, d) ==
    LET s == Level(d, o, dev.pull) IN
    /\ scl' = c /\ out' = o /\ dir' = d
    /\ bus' = Heard(c, s)
    /\ dev' = Answer(c, s)
    /\ log' = [t \in Tasks |-> IF InCall(t) THEN log[t] \o Word(c, s) ELSE log[t]]

Init ==
    /\ scl = 1 /\ out = 1 /\ dir = 1            \* i2c_set(SCL | SDA) of gpio_i2c_init
    /\ dev = Off
    /\ bus = [n |-> 0, byte |-> 0, last |-> 1]
    /\ log = [t \in Tasks |-> <<>>]
    /\ req = [t \in Tasks |-> NoRequest]
    /\ at = [t \in Tasks |-> Begun(1)]
    /\ irqsOff = NoRequest
    /\ rx = [t \in Tasks |-> 0]

\* gpioi2c_ioctl (and the exported functions): a call begins.
Begin(t) ==
    /\ ~InCall(t)
    /\ Overlap \/ \A u \in Tasks : ~InCall(u)
    /\ irqsOff = NoRequest
    /\ \E r \in Requests : req' = [req EXCEPT ![t] = r]
    /\ at' = [at EXCEPT ![t] = Begun(1)]
    /\ rx' = [rx EXCEPT ![t] = 0]
    /\ log' = [log EXCEPT ![t] = <<>>]
    /\ UNCHANGED <<scl, out, dir, dev, bus, irqsOff>>

Write(a) ==
    \/ a = "scl0"  /\ Lines(0, out, dir)
    \/ a = "scl1"  /\ Lines(1, out, dir)
    \/ a = "sda0"  /\ Lines(scl, 0, dir)
    \/ a = "sda1"  /\ Lines(scl, 1, dir)
    \/ a = "both1" /\ Lines(1, 1, dir)
    \/ a = "out"   /\ Lines(scl, out, 1)
    \/ a = "in"    /\ Lines(scl, out, 0)
    \/ a \in {"irqoff", "irqon", "sample", "ack"} /\ UNCHANGED <<scl, out, dir, dev, bus, log>>

\* One access of caller t.  Interrupts are off within a byte, so on the one
\* processor no other caller runs then.
Step(t) ==
    /\ InCall(t) /\ ~Done(t)
    /\ irqsOff \in {t, NoRequest}
    /\ LET a == Access(t) IN
        /\ Write(a)
        /\ irqsOff' = CASE a = "irqoff" -> t [] a = "irqon" -> NoRequest [] OTHER -> irqsOff
        /\ rx' = IF a = "sample" THEN [rx EXCEPT ![t] = 2 * @ + Sda] ELSE rx
    /\ at' = [at EXCEPT ![t] = Place(t)]
    /\ UNCHANGED req

Return(t) ==
    /\ Done(t) /\ irqsOff = NoRequest
    /\ req' = [req EXCEPT ![t] = NoRequest]
    /\ UNCHANGED <<scl, out, dir, dev, bus, log, at, irqsOff, rx>>

Next == \E t \in Tasks : Begin(t) \/ Step(t) \/ Return(t)
Spec == Init /\ [][Next]_vars

(***************************************************************************)
(* Properties                                                              *)
(***************************************************************************)
\* What the call should put on the wire: its bytes in order, each once, the
\* framing around them and nothing else.
Frame(r) ==
    CASE r.kind = "write16" -> <<START, r.dev, Hi(SyncWord), Lo(SyncWord), MemWrite,
                                 Hi(r.addr), Lo(r.addr), Hi(r.data), Lo(r.data), STOP>>
      [] r.kind = "write8"  -> <<START, r.dev, Lo(r.addr), Lo(r.data), STOP>>
      [] r.kind = "read8"   -> <<START, r.dev, Lo(r.addr), START, ReadBit(r.dev),
                                 IF r.dev \div 2 = DevAddr THEN DevByte ELSE 255, STOP>>
      [] r.kind = "read16"  -> <<START, MemWrite, Hi(SyncWord), Lo(SyncWord), MemRead,
                                 Hi(r.addr), Lo(r.addr), START, r.dev>>

\* A listener on the bus hears the frame of gpio_i2c2_write's comment (device,
\* sync word, command, address, data) and the corresponding ones of the other
\* functions: bit order, clocks, START, STOP and the unclocked rest of a byte
\* all fit together.
FrameOnWire ==
    \A t \in Tasks : InCall(t) =>
        /\ \/ IsPrefix(log[t], Frame(req[t]))
           \/ req[t].kind = "read16" /\ IsPrefix(Frame(req[t]), log[t])
        /\ Done(t) => IsPrefix(Frame(req[t]), log[t])

\* While SCL is high the master never drives SDA high against a device that holds it low.
\* Calls of gpio_i2c_write are left out, which does not release SDA for the acknowledge of
\* its last byte: they are made of the routines of the others.  After any call both lines
\* are high and driven, and no device is left in a transfer.
BusDiscipline ==
    /\ scl = 1 /\ dir = 1 /\ out = 1 /\ dev.pull = 0
           => \E t \in Tasks : InCall(t) /\ req[t].kind = "write8"
    /\ (\A t \in Tasks : InCall(t) => Done(t)) => scl = 1 /\ Sda = 1 /\ dir = 1 /\ dev = Off

\* gpio_i2c_read returns what the addressed device holds; of a 16-bit read the
\* high byte is the device's, when the caller passes its read address.
ReadReturnsDeviceByte ==
    \A t \in Tasks :
        Done(t) /\ req[t].dev \div 2 = DevAddr =>
            /\ req[t].kind = "read8" => rx[t] = DevByte
            /\ req[t].kind = "read16" /\ req[t].dev % 2 = 1 => Hi(rx[t]) = DevByte
=============================================================================
