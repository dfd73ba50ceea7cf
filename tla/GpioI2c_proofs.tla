-------------------------- MODULE GpioI2c_proofs ---------------------------
(***************************************************************************)
(* Proofs about Other/gpio_i2c: the bit-banged I2C master, for any number  *)
(* of callers and any device, registers and values, as long as the calls   *)
(* do not overlap; and the string conversion of its tools, for every width *)
(* whose limits have the form of the code's, the 32 bits of the code       *)
(* (X = 429496729, Y = 0x10000000) among them; and the numbers the tools   *)
(* and the procfs file of the tp2854 send, however many and long the       *)
(* arguments.                                                              *)
(***************************************************************************)
EXTENDS GpioI2c, RegTools, SequenceTheorems, WellFoundedInduction, TLAPS

\* What the users of the driver and the bus have to guarantee: calls do not overlap, and
\* the device does not answer to the byte gpio_i2c2_read begins with, in which it would be
\* told to transmit.
Discipline == ~Overlap /\ ("read16" \in Kinds => DevAddr # MemWrite \div 2)

-----------------------------------------------------------------------------
(* The invariant: what the lines, the device and the listener are at every *)
(* access of every routine of a call.                                      *)

Levels == {0, 1}

TypeOK ==
    /\ scl \in Levels /\ out \in Levels /\ dir \in Levels
    /\ dev \in [role : {"off", "addr", "rx", "tx"}, pull : Levels]
    /\ bus \in [n : 0..9, byte : Nat, last : Levels]
    /\ log \in [Tasks -> Seq(Nat)]
    /\ req \in [Tasks -> Requests \cup {NoRequest}]
    /\ at \in [Tasks -> [routine : Nat, round : Nat, access : Nat]]
    /\ rx \in [Tasks -> Nat]

\* What is on the wire after b bits of byte c, the most significant first.
Top(c, b) == c \div 2^(8 - b)

\* What an addressed device does, and the byte it shows when it transmits.
Target(c) == IF c \div 2 # DevAddr THEN "off" ELSE IF (c % 2) = 1 THEN "tx" ELSE "rx"
Shown(o)  == IF o = "tx" THEN DevByte ELSE 255

\* The role of the device in routine k of a call, up to the eighth clock of a byte.
Role(r, k) ==
    CASE k = 1 -> "off"
      [] k = 2 \/ (r.kind = "read8" /\ k = 7) \/ (r.kind = "read16" /\ k = 15) -> "addr"
      [] r.kind \in {"write8", "write16"} /\ k > 2 -> Target(r.dev)
      [] r.kind = "read8" /\ k \in 3..6 -> Target(r.dev)
      [] r.kind = "read8" /\ k > 7 -> Target(ReadBit(r.dev))
      [] r.kind = "read16" /\ k \in 3..14 -> Target(MemWrite)
      [] r.kind = "read16" /\ k > 15 -> Target(r.dev)

\* How many words of its frame a call has put on the wire when routine k begins.
Said(r, k) ==
    CASE k > Len(Script(r)) -> Len(Frame(r))
      [] k <= Len(Script(r)) /\ r.kind = "read16" /\ k > 16 -> 9
      [] k <= Len(Script(r)) /\ r.kind = "read16" /\ k \in 15..16 -> 8
      [] k <= Len(Script(r)) /\ r.kind = "read8" /\ k > 6 -> (k + 1) \div 2
      [] OTHER -> k \div 2

\* The word of the frame that routine k is about.
Next1(r, k) == Frame(r)[Said(r, k) + 1]

Told(t, r, n) ==
    /\ Len(log[t]) = n
    /\ \A i \in 1..n : log[t][i] = Frame(r)[i]
ToldAll(t, r) ==
    /\ Len(log[t]) >= Len(Frame(r))
    /\ \A i \in 1..Len(Frame(r)) : log[t][i] = Frame(r)[i]

\* The lines between two routines.
Idle == scl = 1 /\ out = 1 /\ dir = 1 /\ dev = Off /\ bus = [n |-> 0, byte |-> 0, last |-> 1]
Opened ==
    /\ scl = 1 /\ out = 0 /\ dir = 1 /\ bus.n = 0 /\ bus.byte = 0
    /\ dev.role = "addr" /\ dev.pull = 1
Sent(c, o) ==
    /\ scl = 0 /\ bus.n = 8 /\ bus.byte = c
    /\ dev.role = o /\ dev.pull = IF o = "off" THEN 1 ELSE 0
Acked(o) ==
    /\ scl = 0 /\ bus.n = 9
    /\ dev.role = o /\ dev.pull = BitOf(Shown(o), 1)

InStart(k, o, a) ==
    /\ a \in 1..4
    /\ a \in {1, 2} => IF k = 1 THEN Idle ELSE Acked(o) /\ (a = 1 => dir = 0) /\ (a = 2 => dir = 1)
    /\ a \in {3, 4} => scl = 1 /\ out = 1 /\ dir = 1 /\ dev.pull = 1

\* b bits of byte c have been clocked, and SCL is low.
Clocked(c, o, b) ==
    /\ scl = 0 /\ dev.role = o /\ dev.pull = 1
    /\ b = 0 => bus.n = 9 \/ (bus.n = 0 /\ bus.byte = 0)
    /\ b > 0 => bus.n = b /\ bus.byte = Top(c, b)
InSend(c, o, j, a) ==
    \/ j = 1 /\ a \in {1, 2} /\ IF o = "addr" THEN Opened ELSE Acked(o)
    \/ /\ j \in 2..9 /\ a \in 1..3 /\ Clocked(c, o, j - 2)
       /\ a > 1 => dir = 1
       /\ a > 2 => out = BitOf(c, j - 1)
    \/ /\ j \in 2..9 /\ a = 4
       /\ scl = 1 /\ dir = 1 /\ dev.role = o /\ dev.pull = 1
       /\ bus.n = j - 1 /\ bus.byte = Top(c, j - 1)
    \/ j = 10 /\ a = 1 /\ dir = 1 /\ Sent(c, IF o = "addr" THEN Target(c) ELSE o)

InAck(c, o, a) ==
    /\ a \in 1..6
    /\ a \in 1..3 => Sent(c, o) /\ (a > 1 => dir = 0)
    /\ a \in 4..6 => /\ scl = 1 /\ dir = 0 /\ bus.n = 9 /\ bus.last = dev.pull
                     /\ dev.role = o /\ dev.pull = IF o = "off" THEN 1 ELSE 0

\* The byte that the device shows, or nobody does.
InReceive(c, o, j, a, v) ==
    /\ dir = 0
    /\ \/ j = 1 /\ a = 1 /\ Acked(o) /\ v = 0
       \/ /\ j \in 2..9 /\ a \in 1..2
          /\ scl = 0 /\ dev.role = o /\ dev.pull = BitOf(c, j - 1)
          /\ bus.n = (IF j = 2 THEN 9 ELSE j - 2) /\ (j > 2 => bus.byte = Top(c, j - 2))
          /\ v = Top(c, j - 2)
       \/ /\ j \in 2..9 /\ a \in 3..6
          /\ scl = 1 /\ dev.role = o /\ dev.pull = BitOf(c, j - 1)
          /\ bus.n = j - 1 /\ bus.byte = Top(c, j - 1)
          /\ v = Top(c, IF a = 6 THEN j - 1 ELSE j - 2)
       \/ j = 10 /\ a = 1 /\ scl = 0 /\ bus.n = 8 /\ bus.byte = c /\ v = c

\* The second byte of gpio_i2c2_read, for which the device has not been given the acknowledge.
InSecond(c, j, a, v) ==
    /\ dir = 0
    /\ \/ j = 1 /\ a = 1 /\ scl = 0 /\ v = c
       \/ /\ j \in 2..9 /\ a \in 1..6
          /\ a \in 1..2 => scl = 0
          /\ LET b == IF a = 6 THEN j - 1 ELSE j - 2
             IN  \E x \in 0..(2^b - 1) : v = c * 2^b + x
       \/ j = 10 /\ a = 1 /\ scl = 0 /\ Hi(v) = c

\* The last byte of write8 and read8 is not acknowledged: the first clock of the stop stands in.
Unclocked(r) == r.kind \in {"write8", "read8"}
InStop(r, c, a) ==
    /\ a \in 1..7
    /\ a \in 1..2 => dir = IF r.kind = "write8" THEN 1 ELSE 0
    /\ a \in {1, 3, 4, 5} => scl = 0
    /\ a \in {2, 6, 7} => scl = 1
    /\ a = 1 /\ Unclocked(r) => bus.n = 8 /\ bus.byte = c
    /\ a = 1 /\ r.kind = "write16" => bus.n = 9
    /\ a \in 2..5 /\ r.kind # "read16" => bus.n # 8
    /\ a \in 4..7 => dir = 1
    /\ a \in 5..7 => out = 0

Got(r, o, v) ==
    /\ r.kind = "read8" => v = Shown(o)
    /\ r.kind = "read16" => Hi(v) = Shown(o)

\* Caller t, in a call r, is about to make access a of round j of routine k.
In(t, r, k, j, a) ==
    LET o == Role(r, k)
        c == Next1(r, k)
        is(name) == Script(r)[k].name = name
    IN  /\ r \in Requests /\ k \in 1..(Len(Script(r)) + 1)
        /\ k = Len(Script(r)) + 1 =>
              /\ Idle /\ Got(r, o, rx[t])
              /\ IF r.kind = "read16" THEN ToldAll(t, r) ELSE Told(t, r, Len(Frame(r)))
        /\ k <= Len(Script(r)) =>
              /\ is("i2c_start_bit") =>
                    j = 1 /\ InStart(k, o, a) /\ Told(t, r, Said(r, k)) /\ rx[t] = 0
              /\ is("i2c_send_byte") =>
                    InSend(c, o, j, a) /\ Told(t, r, Said(r, k)) /\ rx[t] = 0
              /\ is("i2c_receive_ack") =>
                    /\ j = 1 /\ InAck(c, o, a) /\ rx[t] = 0
                    /\ Told(t, r, IF a > 3 THEN Said(r, k) + 1 ELSE Said(r, k))
              /\ is("i2c_receive_byte") =>
                    IF k = 18 THEN InSecond(Shown(o), j, a, rx[t]) /\ ToldAll(t, r)
                    ELSE InReceive(Shown(o), o, j, a, rx[t]) /\ Told(t, r, Said(r, k))
              /\ is("i2c_stop_bit") =>
                    /\ j = 1 /\ InStop(r, c, a) /\ Got(r, o, rx[t])
                    /\ IF r.kind = "read16" THEN ToldAll(t, r)
                       ELSE Told(t, r, IF a > 1 /\ Unclocked(r) THEN Said(r, k) + 1 ELSE Said(r, k))

CallInv(t) == In(t, req[t], at[t].routine, at[t].round, at[t].access)

IInv ==
    /\ TypeOK
    /\ \A t, u \in Tasks : InCall(t) /\ InCall(u) => t = u
    /\ (\A t \in Tasks : ~InCall(t)) => Idle
    /\ \A t \in Tasks : InCall(t) => CallInv(t)

-----------------------------------------------------------------------------
(* Bits and rounds. *)

LEMMA Ranges ==
    /\ \A c : c \in Bytes <=> c \in Nat /\ c <= 255
    /\ \A w : w \in Shorts <=> w \in Nat /\ w <= 65535
<1>1. 2^8 = 256 /\ 2^16 = 65536
  OBVIOUS
<1>2. QED
  BY <1>1 DEF Bytes, Shorts

LEMMA TopBits ==
    ASSUME NEW c \in Bytes
    PROVE  /\ Top(c, 0) = 0 /\ Top(c, 8) = c
           /\ \A b \in 0..8 : Top(c, b) \in Nat
           /\ \A b \in 1..8 : /\ BitOf(c, b) \in Levels
                              /\ Top(c, b) = 2 * Top(c, b - 1) + BitOf(c, b)
<1>1. 2^0 = 1 /\ 2^1 = 2 /\ 2^2 = 4 /\ 2^3 = 8 /\ 2^4 = 16 /\ 2^5 = 32 /\ 2^6 = 64 /\ 2^7 = 128 /\ 2^8 = 256
  OBVIOUS
<1> DEFINE d(b) == 2^(8 - b)
<1>0. c \in Nat /\ c <= 255
  BY Ranges
<1>2. d(0) = 256 /\ d(1) = 128 /\ d(2) = 64 /\ d(3) = 32 /\ d(4) = 16 /\ d(5) = 8 /\ d(6) = 4 /\ d(7) = 2 /\ d(8) = 1
  BY <1>1
<1>3. \A b : Top(c, b) = c \div d(b) /\ BitOf(c, b) = (c \div d(b)) % 2
  BY DEF Top, BitOf
<1> HIDE DEF d
<1>4. Top(c, 0) = 0 /\ Top(c, 8) = c
  BY <1>0, <1>2, <1>3
<1> DEFINE Adds(b) == Top(c, b) = 2 * Top(c, b - 1) + BitOf(c, b)
<1>5. /\ Adds(1)
      /\ Adds(2)
      /\ Adds(3)
      /\ Adds(4)
      /\ Adds(5)
      /\ Adds(6)
      /\ Adds(7)
      /\ Adds(8)
  <2>1. Adds(1)
    <3>1. c \div 128 \in {0, 1}
      BY <1>0
    <3>2. \A n \in {0, 1} : n = 2 * 0 + (n % 2)
      OBVIOUS
    <3>3. QED
      BY <1>2, <1>3, <1>4, <3>1, <3>2
  <2>2. Adds(2)
    BY <1>0, <1>2, <1>3
  <2>3. Adds(3)
    BY <1>0, <1>2, <1>3
  <2>4. Adds(4)
    <3>1. c \div 32 = (c \div 16) \div 2 /\ c \div 16 \in Nat
      BY <1>0
    <3>2. \A n \in Nat : n = 2 * (n \div 2) + (n % 2)
      OBVIOUS
    <3>3. c \div 16 = 2 * (c \div 32) + ((c \div 16) % 2)
      BY <3>1, <3>2
    <3>4. 4 - 1 = 3
      OBVIOUS
    <3>5. QED
      BY <1>2, <1>3, <3>3, <3>4
  <2>5. Adds(5)
    <3>1. c \div 16 = (c \div 8) \div 2 /\ c \div 8 \in Nat
      BY <1>0
    <3>2. \A n \in Nat : n = 2 * (n \div 2) + (n % 2)
      OBVIOUS
    <3>3. c \div 8 = 2 * (c \div 16) + ((c \div 8) % 2)
      BY <3>1, <3>2
    <3>4. 5 - 1 = 4
      OBVIOUS
    <3>5. QED
      BY <1>2, <1>3, <3>3, <3>4
  <2>6. Adds(6)
    BY <1>0, <1>2, <1>3
  <2>7. Adds(7)
    BY <1>0, <1>2, <1>3
  <2>8. Adds(8)
    BY <1>0, <1>2, <1>3
  <2> HIDE DEF Adds
  <2>9. QED
    BY <2>1, <2>2, <2>3, <2>4, <2>5, <2>6, <2>7, <2>8
<1>7. \A b \in 0..8 : b \in {0, 1, 2, 3, 4, 5, 6, 7, 8}
  OBVIOUS
<1>8. \A b \in 0..8 : Top(c, b) \in Nat /\ BitOf(c, b) \in Levels
  <2>1. \A b \in 0..8 : d(b) \in {256, 128, 64, 32, 16, 8, 4, 2, 1}
    BY <1>2, <1>7
  <2>2. \A n \in Nat : n % 2 \in Levels
    BY DEF Levels
  <2>3. \A e \in {256, 128, 64, 32, 16, 8, 4, 2, 1} : c \div e \in Nat
    BY <1>0
  <2>4. QED
    BY <1>3, <2>1, <2>2, <2>3
<1>9. \A b \in 1..8 : Top(c, b) = 2 * Top(c, b - 1) + BitOf(c, b)
  <2>1. \A b \in 1..8 : b \in {1, 2, 3, 4, 5, 6, 7, 8}
    OBVIOUS
  <2> HIDE DEF Adds
  <2>2. \A b \in 1..8 : Adds(b)
    BY <1>5, <2>1
  <2>3. QED
    BY <2>2 DEF Adds
<1>10. QED
  BY <1>4, <1>8, <1>9

\* Nobody drives a byte that reads as 255.
LEMMA Ones == \A b \in 1..8 : BitOf(255, b) = 1
<1>1. 2^0 = 1 /\ 2^1 = 2 /\ 2^2 = 4 /\ 2^3 = 8 /\ 2^4 = 16 /\ 2^5 = 32 /\ 2^6 = 64 /\ 2^7 = 128
  OBVIOUS
<1> DEFINE d(b) == 2^(8 - b)
           one(e) == (255 \div e) % 2 = 1
<1>2. d(1) = 128 /\ d(2) = 64 /\ d(3) = 32 /\ d(4) = 16 /\ d(5) = 8 /\ d(6) = 4 /\ d(7) = 2 /\ d(8) = 1
  BY <1>1
<1>3. one(128) /\ one(64) /\ one(32) /\ one(16) /\ one(8) /\ one(4) /\ one(2) /\ one(1)
  OBVIOUS
<1>4. \A b : one(d(b)) => BitOf(255, b) = 1
  BY DEF BitOf
<1>5. \A b \in 1..8 : b \in {1, 2, 3, 4, 5, 6, 7, 8}
  OBVIOUS
<1> HIDE DEF d, one
<1>6. \A b \in {1, 2, 3, 4, 5, 6, 7, 8} : one(d(b))
  BY <1>2, <1>3
<1>7. QED
  BY <1>4, <1>5, <1>6

LEMMA ShownBits ==
    /\ \A o : Shown(o) \in Bytes
    /\ \A o : o # "tx" => \A b \in 1..8 : BitOf(Shown(o), b) = 1
    /\ Shown("tx") = DevByte
  BY Ones, Ranges, GpioConstants DEF Shown, GpioConstants

LEMMA Joined ==
    ASSUME NEW S, NEW s \in Seq(S), NEW u \in Seq(S)
    PROVE  /\ s \o u \in Seq(S) /\ Len(s \o u) = Len(s) + Len(u)
           /\ \A k \in 1..Len(s) : (s \o u)[k] = s[k]
           /\ \A k \in 1..Len(u) : (s \o u)[Len(s) + k] = u[k]
  OBVIOUS

\* Eight rounds between a first and a last one.
LEMMA TenRounds ==
    ASSUME NEW S, NEW p \in S, NEW q \in [1..8 -> S], NEW e \in S
    PROVE  LET s == <<p>> \o q \o <<e>>
           IN  Len(s) = 10 /\ s[1] = p /\ s[10] = e /\ \A b \in 1..8 : s[b + 1] = q[b]
<1> DEFINE f == <<p>>
           l == <<e>>
           g == f \o q
<1>1. f \in Seq(S) /\ Len(f) = 1 /\ f[1] = p /\ l \in Seq(S) /\ Len(l) = 1 /\ l[1] = e
  OBVIOUS
<1>2. q \in Seq(S) /\ Len(q) = 8
  <2>1. \A i \in 1..8 : q[i] \in S
    OBVIOUS
  <2>2. q \in Seq(S)
    BY <2>1, SeqDef
  <2>3. DOMAIN q = 1..8 /\ 8 \in Nat
    OBVIOUS
  <2>4. QED
    BY <2>2, <2>3
<1> HIDE DEF f, l
<1>3. g \in Seq(S) /\ Len(g) = 9 /\ g[1] = p /\ \A b \in 1..8 : g[1 + b] = q[b]
  <2>1. /\ f \o q \in Seq(S) /\ Len(f \o q) = Len(f) + Len(q)
        /\ \A k \in 1..Len(f) : (f \o q)[k] = f[k]
        /\ \A k \in 1..Len(q) : (f \o q)[Len(f) + k] = q[k]
    <3>1. f \in Seq(S)
      BY <1>1
    <3>2. q \in Seq(S)
      BY <1>2
    <3>3. QED
      BY <3>1, <3>2, Joined
  <2>2. QED
    <3>1. g \in Seq(S) /\ Len(g) = 9
      BY <1>1, <1>2, <2>1
    <3>2. g[1] = p
      <4>1. 1 \in 1..Len(f)
        BY <1>1
      <4>2. QED
        BY <1>1, <2>1, <4>1, Zenon
    <3>3. \A b \in 1..8 : g[1 + b] = q[b]
      <4>1. 1..Len(q) = 1..8 /\ Len(f) = 1
        BY <1>1, <1>2
      <4>2. QED
        BY <2>1, <4>1, Zenon
    <3>4. QED
      BY <3>1, <3>2, <3>3
<1> HIDE DEF g
<1>4. Len(g \o l) = 10 /\ (\A j \in 1..9 : (g \o l)[j] = g[j]) /\ (g \o l)[9 + 1] = e
  <2>1. /\ Len(g \o l) = Len(g) + Len(l)
        /\ \A j \in 1..Len(g) : (g \o l)[j] = g[j]
        /\ \A j \in 1..Len(l) : (g \o l)[Len(g) + j] = l[j]
    <3>1. g \in Seq(S)
      BY <1>3
    <3>2. l \in Seq(S)
      BY <1>1
    <3>3. QED
      BY <3>1, <3>2, Joined
  <2>2. QED
    <3>1. Len(g \o l) = 10 /\ 1 \in 1..Len(l)
      BY <1>1, <1>3, <2>1
    <3>2. \A j \in 1..9 : (g \o l)[j] = g[j]
      BY <1>3, <2>1, Zenon
    <3>3. (g \o l)[9 + 1] = e
      BY <1>1, <1>3, <2>1, <3>1, Zenon
    <3>4. QED
      BY <3>1, <3>2, <3>3
<1>5. \A b \in 1..8 : b + 1 \in 1..9 /\ b + 1 = 1 + b
  OBVIOUS
<1>6. (g \o l)[1] = p /\ (g \o l)[10] = e /\ \A b \in 1..8 : (g \o l)[b + 1] = q[b]
  <2>1. 1 \in 1..9 /\ 9 + 1 = 10
    OBVIOUS
  <2>2. (g \o l)[1] = p /\ (g \o l)[10] = e
    BY <1>3, <1>4, <2>1
  <2>3. \A b \in 1..8 : (g \o l)[b + 1] = g[1 + b]
    BY <1>4, <1>5
  <2>4. QED
    BY <1>3, <2>2, <2>3
<1>7. QED
  BY <1>4, <1>6 DEF g, f, l

Accesses == {"irqoff", "irqon", "scl0", "scl1", "sda0", "sda1", "both1", "out", "in", "sample", "ack"}

LEMMA SendRounds ==
    ASSUME NEW c
    PROVE  /\ Len(i2c_send_byte(c)) = 10
           /\ i2c_send_byte(c)[1] = <<"irqoff", "scl0">>
           /\ \A b \in 1..8 : i2c_send_byte(c)[b + 1] = SendBit(BitOf(c, b))
           /\ i2c_send_byte(c)[10] = <<"irqon">>
<1> DEFINE p == <<"irqoff", "scl0">>
           q == [i \in 1..8 |-> SendBit(BitOf(c, i))]
           e == <<"irqon">>
<1>1. p \in Seq(Accesses) /\ e \in Seq(Accesses)
  BY DEF Accesses
<1>2. q \in [1..8 -> Seq(Accesses)]
  <2>1. \A b : SendBit(b) \in Seq(Accesses)
    BY DEF SendBit, Accesses
  <2>2. QED
    BY <2>1
<1>3. i2c_send_byte(c) = <<p>> \o q \o <<e>>
  BY DEF i2c_send_byte
<1>4. \A b \in 1..8 : q[b] = SendBit(BitOf(c, b))
  OBVIOUS
<1> HIDE DEF p, q, e
<1> HIDE DEF Accesses
<1>5. LET s == <<p>> \o q \o <<e>>
      IN  Len(s) = 10 /\ s[1] = p /\ s[10] = e /\ \A b \in 1..8 : s[b + 1] = q[b]
  <2> DEFINE S == Seq(Accesses)
  <2>1. p \in S /\ e \in S /\ q \in [1..8 -> S]
    BY <1>1, <1>2
  <2> HIDE DEF S
  <2>2. QED
    BY <2>1, TenRounds
<1>6. QED
  BY <1>3, <1>4, <1>5 DEF p, e

LEMMA ReceiveRounds ==
    /\ Len(i2c_receive_byte) = 10
    /\ i2c_receive_byte[1] = <<"irqoff">>
    /\ \A b \in 1..8 : i2c_receive_byte[b + 1] = <<"scl0", "scl1", "in", "in", "sample", "scl0">>
    /\ i2c_receive_byte[10] = <<"irqon">>
<1> DEFINE p == <<"irqoff">>
           w == <<"scl0", "scl1", "in", "in", "sample", "scl0">>
           q == [i \in 1..8 |-> w]
           e == <<"irqon">>
<1>1. p \in Seq(Accesses) /\ e \in Seq(Accesses) /\ w \in Seq(Accesses)
  BY DEF Accesses
<1>2. i2c_receive_byte = <<p>> \o q \o <<e>>
  BY DEF i2c_receive_byte
<1> HIDE DEF p, w, e
<1>3. q \in [1..8 -> Seq(Accesses)] /\ \A b \in 1..8 : q[b] = w
  BY <1>1
<1> HIDE DEF q
<1>4. LET s == <<p>> \o q \o <<e>>
      IN  Len(s) = 10 /\ s[1] = p /\ s[10] = e /\ \A b \in 1..8 : s[b + 1] = q[b]
  BY <1>1, <1>3, TenRounds
<1>5. QED
  BY <1>2, <1>3, <1>4 DEF p, w, e

-----------------------------------------------------------------------------
(* The scripts: how the routines of a call, the words of its frame and the *)
(* roles of the device go together.                                        *)

Following(r, k, names) == k < Len(Script(r)) /\ Script(r)[k + 1].name \in names

Chart(r, k) ==
    LET p == Script(r)[k]
        o == Role(r, k)
        c == Next1(r, k)
        n == Said(r, k)
    IN  \/ /\ p = Start /\ Following(r, k, {"i2c_send_byte"})
           /\ c = START /\ n < Len(Frame(r)) /\ (k = 1 => n = 0)
           /\ Said(r, k + 1) = n + 1 /\ Role(r, k + 1) = "addr"
           /\ k # 1 => o \in {"off", "rx"}
        \/ /\ p = Send(c) /\ Following(r, k, {"i2c_receive_ack", "i2c_stop_bit"})
           /\ c \in Bytes /\ n < Len(Frame(r))
           /\ o \in {"addr", "off", "rx"}
           /\ Said(r, k + 1) = n /\ Role(r, k + 1) = IF o = "addr" THEN Target(c) ELSE o
           /\ Script(r)[k + 1].name = "i2c_stop_bit" => r.kind = "write8"
        \/ /\ p = Ack
           /\ Following(r, k, {"i2c_start_bit", "i2c_send_byte", "i2c_receive_byte", "i2c_stop_bit"})
           /\ c \in Bytes /\ n < Len(Frame(r))
           /\ o \in {"off", "rx", "tx"}
           /\ Said(r, k + 1) = n + 1 /\ Role(r, k + 1) = o
           /\ Script(r)[k + 1].name = "i2c_receive_byte" => k # 17
           /\ Script(r)[k + 1].name = "i2c_stop_bit" => r.kind = "write16"
        \/ /\ p = Receive /\ Following(r, k, {"i2c_receive_byte", "i2c_stop_bit"})
           /\ o \in {"off", "rx", "tx"} /\ Role(r, k + 1) = o
           /\ \/ /\ r.kind = "read8" /\ Script(r)[k + 1].name = "i2c_stop_bit" /\ k # 18
                 /\ c = Shown(o) /\ n < Len(Frame(r)) /\ Said(r, k + 1) = n
              \/ /\ r.kind = "read16" /\ n = Len(Frame(r))
                 /\ k = 17 /\ Script(r)[k + 1].name = "i2c_receive_byte"
              \/ /\ r.kind = "read16"
                 /\ k = 18 /\ Script(r)[k + 1].name = "i2c_stop_bit"
        \/ /\ p = Stop /\ k = Len(Script(r)) /\ Role(r, k + 1) = o
           /\ Unclocked(r) => /\ n + 2 = Len(Frame(r)) /\ Frame(r)[n + 2] = STOP
                              /\ c \in Bytes
           /\ r.kind = "write16" => n + 1 = Len(Frame(r)) /\ c = STOP

LEMMA ByteHalves ==
    /\ \A w \in Shorts : Hi(w) \in Bytes /\ Lo(w) \in Bytes
    /\ \A c \in Bytes : ReadBit(c) \in Bytes /\ ReadBit(c) \div 2 = c \div 2 /\ (ReadBit(c) % 2) = 1
    /\ Hi(SyncWord) \in Bytes /\ Lo(SyncWord) \in Bytes /\ MemRead \in Bytes /\ MemWrite \in Bytes
<1>1. ASSUME NEW w \in Nat, w <= 65535
      PROVE  /\ w \div 256 \in Nat /\ w \div 256 <= 255
             /\ (w % 256) \in Nat /\ (w % 256) <= 255
  <2>1. w \div 256 \in Nat /\ w \div 256 <= 255
    BY <1>1
  <2>2. (w % 256) \in Nat /\ (w % 256) <= 255
    OBVIOUS
  <2>3. QED
    BY <2>1, <2>2
<1>2. \A w \in Shorts : Hi(w) \in Bytes /\ Lo(w) \in Bytes
  BY <1>1, Ranges DEF Hi, Lo
<1>3. ASSUME NEW c \in Nat, c <= 255, NEW d, d = (c \div 2) * 2 + 1
      PROVE  d \in Nat /\ d <= 255 /\ d \div 2 = c \div 2 /\ (d % 2) = 1
  BY <1>3
<1>4. \A c \in Bytes : ReadBit(c) \in Bytes /\ ReadBit(c) \div 2 = c \div 2 /\ (ReadBit(c) % 2) = 1
  BY <1>3, Ranges DEF ReadBit
<1>5. SyncWord \in Shorts /\ MemRead \in Bytes /\ MemWrite \in Bytes
  BY Ranges DEF SyncWord, MemRead, MemWrite
<1>6. QED
  BY <1>2, <1>4, <1>5

LEMMA RequestFields ==
    ASSUME NEW r \in Requests
    PROVE  /\ r.kind \in {"read8", "write8", "read16", "write16"} /\ r.kind \in Kinds
           /\ r.dev \in Bytes /\ r.addr \in Shorts /\ r.data \in Shorts
           /\ r.kind # "read16" => (r.dev % 2) = 0
<1>1. r.kind \in Kinds /\ r.dev \in Devs /\ r.addr \in Addrs /\ r.data \in Datas
  BY DEF Requests
<1>2. (r.dev % 2) = 1 => r.kind = "read16"
  BY DEF Requests
<1>3. r.dev \in Bytes /\ r.addr \in Shorts /\ r.data \in Shorts
  BY <1>1, GpioConstants DEF GpioConstants
<1>4. \A n \in Nat : (n % 2) \in {0, 1}
  OBVIOUS
<1>5. (r.dev % 2) \in {0, 1}
  BY <1>3, <1>4, Ranges
<1>6. r.kind \in {"read8", "write8", "read16", "write16"}
  BY <1>1, GpioConstants DEF GpioConstants, AllKinds
<1>7. QED
  BY <1>1, <1>2, <1>3, <1>5, <1>6

LEMMA TargetRoles ==
    /\ \A c : Target(c) \in {"off", "rx", "tx"}
    /\ \A c : (c % 2) = 0 => Target(c) \in {"off", "rx"}
    /\ Discipline /\ "read16" \in Kinds => Target(MemWrite) = "off"
<1>1. \A c : (c % 2) = 0 => Target(c) \in {"off", "rx"}
  BY DEF Target
<1>2. Discipline /\ "read16" \in Kinds => Target(MemWrite) = "off"
  BY DEF Target, Discipline
<1>3. \A c : Target(c) \in {"off", "rx", "tx"}
  BY DEF Target
<1>4. QED
  BY <1>1, <1>2, <1>3

LEMMA Chart_write8 ==
    ASSUME Discipline, NEW r \in Requests, r.kind = "write8"
    PROVE  /\ Len(Script(r)) = 7 /\ Script(r)[1] = Start
           /\ Len(Frame(r)) = 5 /\ Frame(r) \in Seq(Nat)
           /\ \A k \in 1..7 : Chart(r, k)
<1>1. Script(r) = <<Start, Send(r.dev), Ack, Send(Lo(r.addr)), Ack, Send(Lo(r.data)), Stop>>
  BY DEF Script, gpio_i2c_write
<1>2. Frame(r) = <<START, r.dev, Lo(r.addr), Lo(r.data), STOP>>
  BY DEF Frame
<1>3. Len(Script(r)) = 7 /\ Len(Frame(r)) = 5
  BY <1>1, <1>2
<1>4. /\ Script(r)[1] = Start
      /\ Script(r)[2] = Send(r.dev)
      /\ Script(r)[3] = Ack
      /\ Script(r)[4] = Send(Lo(r.addr))
      /\ Script(r)[5] = Ack
      /\ Script(r)[6] = Send(Lo(r.data))
      /\ Script(r)[7] = Stop
  BY <1>1
<1>5. /\ Frame(r)[1] = START
      /\ Frame(r)[2] = r.dev
      /\ Frame(r)[3] = Lo(r.addr)
      /\ Frame(r)[4] = Lo(r.data)
      /\ Frame(r)[5] = STOP
  BY <1>2
<1>6. /\ Said(r, 1) = 0
      /\ Said(r, 2) = 1
      /\ Said(r, 3) = 1
      /\ Said(r, 4) = 2
      /\ Said(r, 5) = 2
      /\ Said(r, 6) = 3
      /\ Said(r, 7) = 3
      /\ Said(r, 8) = 5
  BY <1>3 DEF Said
<1>7. /\ Role(r, 1) = "off"
      /\ Role(r, 2) = "addr"
      /\ Role(r, 3) = Target(r.dev)
      /\ Role(r, 4) = Target(r.dev)
      /\ Role(r, 5) = Target(r.dev)
      /\ Role(r, 6) = Target(r.dev)
      /\ Role(r, 7) = Target(r.dev)
      /\ Role(r, 8) = Target(r.dev)
  BY DEF Role
<1>8. /\ Start.name = "i2c_start_bit" /\ Ack.name = "i2c_receive_ack"
      /\ Stop.name = "i2c_stop_bit" /\ Receive.name = "i2c_receive_byte"
      /\ \A c : Send(c).name = "i2c_send_byte"
  BY DEF Start, Ack, Stop, Receive, Send, Routine
<1>9. DevByte \in Bytes /\ 255 \in Bytes /\ \A o : Shown(o) \in Bytes
  BY GpioConstants, Ranges DEF GpioConstants, Shown
<1>10. Chart(r, 1)
  BY <1>3, <1>4, <1>5, <1>6, <1>7, <1>8, <1>9, RequestFields, ByteHalves, TargetRoles DEF Chart, Following, Next1, Unclocked
<1>11. Chart(r, 2)
  BY <1>3, <1>4, <1>5, <1>6, <1>7, <1>8, <1>9, RequestFields, ByteHalves, TargetRoles DEF Chart, Following, Next1, Unclocked
<1>12. Chart(r, 3)
  BY <1>3, <1>4, <1>5, <1>6, <1>7, <1>8, <1>9, RequestFields, ByteHalves, TargetRoles DEF Chart, Following, Next1, Unclocked
<1>13. Chart(r, 4)
  BY <1>3, <1>4, <1>5, <1>6, <1>7, <1>8, <1>9, RequestFields, ByteHalves, TargetRoles DEF Chart, Following, Next1, Unclocked
<1>14. Chart(r, 5)
  BY <1>3, <1>4, <1>5, <1>6, <1>7, <1>8, <1>9, RequestFields, ByteHalves, TargetRoles DEF Chart, Following, Next1, Unclocked
<1>15. Chart(r, 6)
  BY <1>3, <1>4, <1>5, <1>6, <1>7, <1>8, <1>9, RequestFields, ByteHalves, TargetRoles DEF Chart, Following, Next1, Unclocked
<1>16. Chart(r, 7)
  BY <1>3, <1>4, <1>5, <1>6, <1>7, <1>8, <1>9, RequestFields, ByteHalves, TargetRoles DEF Chart, Following, Next1, Unclocked
<1>17. \A k \in 1..7 : k \in {1, 2, 3, 4, 5, 6, 7}
  OBVIOUS
<1>18. Frame(r) \in Seq(Nat)
  <2>1. /\ START \in Nat
        /\ r.dev \in Nat
        /\ Lo(r.addr) \in Nat
        /\ Lo(r.data) \in Nat
        /\ STOP \in Nat
    BY <1>9, RequestFields, ByteHalves, Ranges DEF START, STOP
  <2>2. QED
    BY <1>2, <2>1
<1>19. QED
  BY <1>3, <1>4, <1>18, <1>10, <1>11, <1>12, <1>13, <1>14, <1>15, <1>16, <1>17

LEMMA Chart_write16 ==
    ASSUME Discipline, NEW r \in Requests, r.kind = "write16"
    PROVE  /\ Len(Script(r)) = 18 /\ Script(r)[1] = Start
           /\ Len(Frame(r)) = 10 /\ Frame(r) \in Seq(Nat)
           /\ \A k \in 1..18 : Chart(r, k)
<1>1. Script(r) = <<Start, Send(r.dev), Ack, Send(Hi(SyncWord)), Ack, Send(Lo(SyncWord)), Ack,
                 Send(MemWrite), Ack, Send(Hi(r.addr)), Ack, Send(Lo(r.addr)), Ack,
                 Send(Hi(r.data)), Ack, Send(Lo(r.data)), Ack, Stop>>
  BY DEF Script, gpio_i2c2_write
<1>2. Frame(r) = <<START, r.dev, Hi(SyncWord), Lo(SyncWord), MemWrite, Hi(r.addr), Lo(r.addr),
                Hi(r.data), Lo(r.data), STOP>>
  BY DEF Frame
<1>3. Len(Script(r)) = 18 /\ Len(Frame(r)) = 10
  BY <1>1, <1>2
<1>4. /\ Script(r)[1] = Start
      /\ Script(r)[2] = Send(r.dev)
      /\ Script(r)[3] = Ack
      /\ Script(r)[4] = Send(Hi(SyncWord))
      /\ Script(r)[5] = Ack
      /\ Script(r)[6] = Send(Lo(SyncWord))
      /\ Script(r)[7] = Ack
      /\ Script(r)[8] = Send(MemWrite)
      /\ Script(r)[9] = Ack
      /\ Script(r)[10] = Send(Hi(r.addr))
      /\ Script(r)[11] = Ack
      /\ Script(r)[12] = Send(Lo(r.addr))
      /\ Script(r)[13] = Ack
      /\ Script(r)[14] = Send(Hi(r.data))
      /\ Script(r)[15] = Ack
      /\ Script(r)[16] = Send(Lo(r.data))
      /\ Script(r)[17] = Ack
      /\ Script(r)[18] = Stop
  BY <1>1
<1>5. /\ Frame(r)[1] = START
      /\ Frame(r)[2] = r.dev
      /\ Frame(r)[3] = Hi(SyncWord)
      /\ Frame(r)[4] = Lo(SyncWord)
      /\ Frame(r)[5] = MemWrite
      /\ Frame(r)[6] = Hi(r.addr)
      /\ Frame(r)[7] = Lo(r.addr)
      /\ Frame(r)[8] = Hi(r.data)
      /\ Frame(r)[9] = Lo(r.data)
      /\ Frame(r)[10] = STOP
  BY <1>2
<1>6. /\ Said(r, 1) = 0
      /\ Said(r, 2) = 1
      /\ Said(r, 3) = 1
      /\ Said(r, 4) = 2
      /\ Said(r, 5) = 2
      /\ Said(r, 6) = 3
      /\ Said(r, 7) = 3
      /\ Said(r, 8) = 4
      /\ Said(r, 9) = 4
      /\ Said(r, 10) = 5
      /\ Said(r, 11) = 5
      /\ Said(r, 12) = 6
      /\ Said(r, 13) = 6
      /\ Said(r, 14) = 7
      /\ Said(r, 15) = 7
      /\ Said(r, 16) = 8
      /\ Said(r, 17) = 8
      /\ Said(r, 18) = 9
      /\ Said(r, 19) = 10
  BY <1>3 DEF Said
<1>7. /\ Role(r, 1) = "off"
      /\ Role(r, 2) = "addr"
      /\ Role(r, 3) = Target(r.dev)
      /\ Role(r, 4) = Target(r.dev)
      /\ Role(r, 5) = Target(r.dev)
      /\ Role(r, 6) = Target(r.dev)
      /\ Role(r, 7) = Target(r.dev)
      /\ Role(r, 8) = Target(r.dev)
      /\ Role(r, 9) = Target(r.dev)
      /\ Role(r, 10) = Target(r.dev)
      /\ Role(r, 11) = Target(r.dev)
      /\ Role(r, 12) = Target(r.dev)
      /\ Role(r, 13) = Target(r.dev)
      /\ Role(r, 14) = Target(r.dev)
      /\ Role(r, 15) = Target(r.dev)
      /\ Role(r, 16) = Target(r.dev)
      /\ Role(r, 17) = Target(r.dev)
      /\ Role(r, 18) = Target(r.dev)
      /\ Role(r, 19) = Target(r.dev)
  BY DEF Role
<1>8. /\ Start.name = "i2c_start_bit" /\ Ack.name = "i2c_receive_ack"
      /\ Stop.name = "i2c_stop_bit" /\ Receive.name = "i2c_receive_byte"
      /\ \A c : Send(c).name = "i2c_send_byte"
  BY DEF Start, Ack, Stop, Receive, Send, Routine
<1>9. DevByte \in Bytes /\ 255 \in Bytes /\ \A o : Shown(o) \in Bytes
  BY GpioConstants, Ranges DEF GpioConstants, Shown
<1>10. Chart(r, 1)
  BY <1>3, <1>4, <1>5, <1>6, <1>7, <1>8, <1>9, RequestFields, ByteHalves, TargetRoles DEF Chart, Following, Next1, Unclocked
<1>11. Chart(r, 2)
  BY <1>3, <1>4, <1>5, <1>6, <1>7, <1>8, <1>9, RequestFields, ByteHalves, TargetRoles DEF Chart, Following, Next1, Unclocked
<1>12. Chart(r, 3)
  BY <1>3, <1>4, <1>5, <1>6, <1>7, <1>8, <1>9, RequestFields, ByteHalves, TargetRoles DEF Chart, Following, Next1, Unclocked
<1>13. Chart(r, 4)
  BY <1>3, <1>4, <1>5, <1>6, <1>7, <1>8, <1>9, RequestFields, ByteHalves, TargetRoles DEF Chart, Following, Next1, Unclocked
<1>14. Chart(r, 5)
  BY <1>3, <1>4, <1>5, <1>6, <1>7, <1>8, <1>9, RequestFields, ByteHalves, TargetRoles DEF Chart, Following, Next1, Unclocked
<1>15. Chart(r, 6)
  BY <1>3, <1>4, <1>5, <1>6, <1>7, <1>8, <1>9, RequestFields, ByteHalves, TargetRoles DEF Chart, Following, Next1, Unclocked
<1>16. Chart(r, 7)
  BY <1>3, <1>4, <1>5, <1>6, <1>7, <1>8, <1>9, RequestFields, ByteHalves, TargetRoles DEF Chart, Following, Next1, Unclocked
<1>17. Chart(r, 8)
  BY <1>3, <1>4, <1>5, <1>6, <1>7, <1>8, <1>9, RequestFields, ByteHalves, TargetRoles DEF Chart, Following, Next1, Unclocked
<1>18. Chart(r, 9)
  BY <1>3, <1>4, <1>5, <1>6, <1>7, <1>8, <1>9, RequestFields, ByteHalves, TargetRoles DEF Chart, Following, Next1, Unclocked
<1>19. Chart(r, 10)
  BY <1>3, <1>4, <1>5, <1>6, <1>7, <1>8, <1>9, RequestFields, ByteHalves, TargetRoles DEF Chart, Following, Next1, Unclocked
<1>20. Chart(r, 11)
  BY <1>3, <1>4, <1>5, <1>6, <1>7, <1>8, <1>9, RequestFields, ByteHalves, TargetRoles DEF Chart, Following, Next1, Unclocked
<1>21. Chart(r, 12)
  BY <1>3, <1>4, <1>5, <1>6, <1>7, <1>8, <1>9, RequestFields, ByteHalves, TargetRoles DEF Chart, Following, Next1, Unclocked
<1>22. Chart(r, 13)
  BY <1>3, <1>4, <1>5, <1>6, <1>7, <1>8, <1>9, RequestFields, ByteHalves, TargetRoles DEF Chart, Following, Next1, Unclocked
<1>23. Chart(r, 14)
  BY <1>3, <1>4, <1>5, <1>6, <1>7, <1>8, <1>9, RequestFields, ByteHalves, TargetRoles DEF Chart, Following, Next1, Unclocked
<1>24. Chart(r, 15)
  BY <1>3, <1>4, <1>5, <1>6, <1>7, <1>8, <1>9, RequestFields, ByteHalves, TargetRoles DEF Chart, Following, Next1, Unclocked
<1>25. Chart(r, 16)
  BY <1>3, <1>4, <1>5, <1>6, <1>7, <1>8, <1>9, RequestFields, ByteHalves, TargetRoles DEF Chart, Following, Next1, Unclocked
<1>26. Chart(r, 17)
  BY <1>3, <1>4, <1>5, <1>6, <1>7, <1>8, <1>9, RequestFields, ByteHalves, TargetRoles DEF Chart, Following, Next1, Unclocked
<1>27. Chart(r, 18)
  BY <1>3, <1>4, <1>5, <1>6, <1>7, <1>8, <1>9, RequestFields, ByteHalves, TargetRoles DEF Chart, Following, Next1, Unclocked
<1>28. \A k \in 1..18 : k \in {1, 2, 3, 4, 5, 6, 7, 8, 9, 10, 11, 12, 13, 14, 15, 16, 17, 18}
  OBVIOUS
<1>29. Frame(r) \in Seq(Nat)
  <2>1. /\ START \in Nat
        /\ r.dev \in Nat
        /\ Hi(SyncWord) \in Nat
        /\ Lo(SyncWord) \in Nat
        /\ MemWrite \in Nat
        /\ Hi(r.addr) \in Nat
        /\ Lo(r.addr) \in Nat
        /\ Hi(r.data) \in Nat
        /\ Lo(r.data) \in Nat
        /\ STOP \in Nat
    BY <1>9, RequestFields, ByteHalves, Ranges DEF START, STOP
  <2>2. QED
    BY <1>2, <2>1
<1>30. QED
  BY <1>3, <1>4, <1>29, <1>10, <1>11, <1>12, <1>13, <1>14, <1>15, <1>16, <1>17, <1>18, <1>19, <1>20, <1>21, <1>22, <1>23, <1>24, <1>25, <1>26, <1>27, <1>28

LEMMA Chart_read8 ==
    ASSUME Discipline, NEW r \in Requests, r.kind = "read8"
    PROVE  /\ Len(Script(r)) = 10 /\ Script(r)[1] = Start
           /\ Len(Frame(r)) = 7 /\ Frame(r) \in Seq(Nat)
           /\ \A k \in 1..10 : Chart(r, k)
<1>1. Script(r) = <<Start, Send(r.dev), Ack, Send(Lo(r.addr)), Ack, Start, Send(ReadBit(r.dev)),
                 Ack, Receive, Stop>>
  BY DEF Script, gpio_i2c_read
<1>2. Frame(r) = <<START, r.dev, Lo(r.addr), START, ReadBit(r.dev),
                Shown(Target(ReadBit(r.dev))), STOP>>
  <2>1. r.dev \in Bytes
    BY RequestFields
  <2>2. Shown(Target(ReadBit(r.dev))) = IF r.dev \div 2 = DevAddr THEN DevByte ELSE 255
    BY <2>1, ByteHalves DEF Shown, Target
  <2>3. QED
    BY <2>2 DEF Frame
<1>3. Len(Script(r)) = 10 /\ Len(Frame(r)) = 7
  BY <1>1, <1>2
<1>4. /\ Script(r)[1] = Start
      /\ Script(r)[2] = Send(r.dev)
      /\ Script(r)[3] = Ack
      /\ Script(r)[4] = Send(Lo(r.addr))
      /\ Script(r)[5] = Ack
      /\ Script(r)[6] = Start
      /\ Script(r)[7] = Send(ReadBit(r.dev))
      /\ Script(r)[8] = Ack
      /\ Script(r)[9] = Receive
      /\ Script(r)[10] = Stop
  BY <1>1
<1>5. /\ Frame(r)[1] = START
      /\ Frame(r)[2] = r.dev
      /\ Frame(r)[3] = Lo(r.addr)
      /\ Frame(r)[4] = START
      /\ Frame(r)[5] = ReadBit(r.dev)
      /\ Frame(r)[6] = Shown(Target(ReadBit(r.dev)))
      /\ Frame(r)[7] = STOP
  BY <1>2
<1>6. /\ Said(r, 1) = 0
      /\ Said(r, 2) = 1
      /\ Said(r, 3) = 1
      /\ Said(r, 4) = 2
      /\ Said(r, 5) = 2
      /\ Said(r, 6) = 3
      /\ Said(r, 7) = 4
      /\ Said(r, 8) = 4
      /\ Said(r, 9) = 5
      /\ Said(r, 10) = 5
      /\ Said(r, 11) = 7
  BY <1>3 DEF Said
<1>7. /\ Role(r, 1) = "off"
      /\ Role(r, 2) = "addr"
      /\ Role(r, 3) = Target(r.dev)
      /\ Role(r, 4) = Target(r.dev)
      /\ Role(r, 5) = Target(r.dev)
      /\ Role(r, 6) = Target(r.dev)
      /\ Role(r, 7) = "addr"
      /\ Role(r, 8) = Target(ReadBit(r.dev))
      /\ Role(r, 9) = Target(ReadBit(r.dev))
      /\ Role(r, 10) = Target(ReadBit(r.dev))
      /\ Role(r, 11) = Target(ReadBit(r.dev))
  BY DEF Role
<1>8. /\ Start.name = "i2c_start_bit" /\ Ack.name = "i2c_receive_ack"
      /\ Stop.name = "i2c_stop_bit" /\ Receive.name = "i2c_receive_byte"
      /\ \A c : Send(c).name = "i2c_send_byte"
  BY DEF Start, Ack, Stop, Receive, Send, Routine
<1>9. DevByte \in Bytes /\ 255 \in Bytes /\ \A o : Shown(o) \in Bytes
  BY GpioConstants, Ranges DEF GpioConstants, Shown
<1>10. Chart(r, 1)
  BY <1>3, <1>4, <1>5, <1>6, <1>7, <1>8, <1>9, RequestFields, ByteHalves, TargetRoles DEF Chart, Following, Next1, Unclocked
<1>11. Chart(r, 2)
  BY <1>3, <1>4, <1>5, <1>6, <1>7, <1>8, <1>9, RequestFields, ByteHalves, TargetRoles DEF Chart, Following, Next1, Unclocked
<1>12. Chart(r, 3)
  BY <1>3, <1>4, <1>5, <1>6, <1>7, <1>8, <1>9, RequestFields, ByteHalves, TargetRoles DEF Chart, Following, Next1, Unclocked
<1>13. Chart(r, 4)
  BY <1>3, <1>4, <1>5, <1>6, <1>7, <1>8, <1>9, RequestFields, ByteHalves, TargetRoles DEF Chart, Following, Next1, Unclocked
<1>14. Chart(r, 5)
  BY <1>3, <1>4, <1>5, <1>6, <1>7, <1>8, <1>9, RequestFields, ByteHalves, TargetRoles DEF Chart, Following, Next1, Unclocked
<1>15. Chart(r, 6)
  BY <1>3, <1>4, <1>5, <1>6, <1>7, <1>8, <1>9, RequestFields, ByteHalves, TargetRoles DEF Chart, Following, Next1, Unclocked
<1>16. Chart(r, 7)
  BY <1>3, <1>4, <1>5, <1>6, <1>7, <1>8, <1>9, RequestFields, ByteHalves, TargetRoles DEF Chart, Following, Next1, Unclocked
<1>17. Chart(r, 8)
  BY <1>3, <1>4, <1>5, <1>6, <1>7, <1>8, <1>9, RequestFields, ByteHalves, TargetRoles DEF Chart, Following, Next1, Unclocked
<1>18. Chart(r, 9)
  BY <1>3, <1>4, <1>5, <1>6, <1>7, <1>8, <1>9, RequestFields, ByteHalves, TargetRoles DEF Chart, Following, Next1, Unclocked
<1>19. Chart(r, 10)
  BY <1>3, <1>4, <1>5, <1>6, <1>7, <1>8, <1>9, RequestFields, ByteHalves, TargetRoles DEF Chart, Following, Next1, Unclocked
<1>20. \A k \in 1..10 : k \in {1, 2, 3, 4, 5, 6, 7, 8, 9, 10}
  OBVIOUS
<1>21. Frame(r) \in Seq(Nat)
  <2>1. /\ START \in Nat
        /\ r.dev \in Nat
        /\ Lo(r.addr) \in Nat
        /\ ReadBit(r.dev) \in Nat
        /\ Shown(Target(ReadBit(r.dev))) \in Nat
        /\ STOP \in Nat
    BY <1>9, RequestFields, ByteHalves, Ranges DEF START, STOP
  <2>2. QED
    BY <1>2, <2>1
<1>22. QED
  BY <1>3, <1>4, <1>21, <1>10, <1>11, <1>12, <1>13, <1>14, <1>15, <1>16, <1>17, <1>18, <1>19, <1>20

LEMMA Chart_read16 ==
    ASSUME Discipline, NEW r \in Requests, r.kind = "read16"
    PROVE  /\ Len(Script(r)) = 19 /\ Script(r)[1] = Start
           /\ Len(Frame(r)) = 9 /\ Frame(r) \in Seq(Nat)
           /\ \A k \in 1..19 : Chart(r, k)
<1>1. Script(r) = <<Start, Send(MemWrite), Ack, Send(Hi(SyncWord)), Ack, Send(Lo(SyncWord)), Ack,
                 Send(MemRead), Ack, Send(Hi(r.addr)), Ack, Send(Lo(r.addr)), Ack, Start,
                 Send(r.dev), Ack, Receive, Receive, Stop>>
  BY DEF Script, gpio_i2c2_read
<1>2. Frame(r) = <<START, MemWrite, Hi(SyncWord), Lo(SyncWord), MemRead, Hi(r.addr), Lo(r.addr),
                START, r.dev>>
  BY DEF Frame
<1>3. Len(Script(r)) = 19 /\ Len(Frame(r)) = 9
  BY <1>1, <1>2
<1>4. /\ Script(r)[1] = Start
      /\ Script(r)[2] = Send(MemWrite)
      /\ Script(r)[3] = Ack
      /\ Script(r)[4] = Send(Hi(SyncWord))
      /\ Script(r)[5] = Ack
      /\ Script(r)[6] = Send(Lo(SyncWord))
      /\ Script(r)[7] = Ack
      /\ Script(r)[8] = Send(MemRead)
      /\ Script(r)[9] = Ack
      /\ Script(r)[10] = Send(Hi(r.addr))
      /\ Script(r)[11] = Ack
      /\ Script(r)[12] = Send(Lo(r.addr))
      /\ Script(r)[13] = Ack
      /\ Script(r)[14] = Start
      /\ Script(r)[15] = Send(r.dev)
      /\ Script(r)[16] = Ack
      /\ Script(r)[17] = Receive
      /\ Script(r)[18] = Receive
      /\ Script(r)[19] = Stop
  BY <1>1
<1>5. /\ Frame(r)[1] = START
      /\ Frame(r)[2] = MemWrite
      /\ Frame(r)[3] = Hi(SyncWord)
      /\ Frame(r)[4] = Lo(SyncWord)
      /\ Frame(r)[5] = MemRead
      /\ Frame(r)[6] = Hi(r.addr)
      /\ Frame(r)[7] = Lo(r.addr)
      /\ Frame(r)[8] = START
      /\ Frame(r)[9] = r.dev
  BY <1>2
<1>6. /\ Said(r, 1) = 0
      /\ Said(r, 2) = 1
      /\ Said(r, 3) = 1
      /\ Said(r, 4) = 2
      /\ Said(r, 5) = 2
      /\ Said(r, 6) = 3
      /\ Said(r, 7) = 3
      /\ Said(r, 8) = 4
      /\ Said(r, 9) = 4
      /\ Said(r, 10) = 5
      /\ Said(r, 11) = 5
      /\ Said(r, 12) = 6
      /\ Said(r, 13) = 6
      /\ Said(r, 14) = 7
      /\ Said(r, 15) = 8
      /\ Said(r, 16) = 8
      /\ Said(r, 17) = 9
      /\ Said(r, 18) = 9
      /\ Said(r, 19) = 9
      /\ Said(r, 20) = 9
  BY <1>3 DEF Said
<1>7. /\ Role(r, 1) = "off"
      /\ Role(r, 2) = "addr"
      /\ Role(r, 3) = Target(MemWrite)
      /\ Role(r, 4) = Target(MemWrite)
      /\ Role(r, 5) = Target(MemWrite)
      /\ Role(r, 6) = Target(MemWrite)
      /\ Role(r, 7) = Target(MemWrite)
      /\ Role(r, 8) = Target(MemWrite)
      /\ Role(r, 9) = Target(MemWrite)
      /\ Role(r, 10) = Target(MemWrite)
      /\ Role(r, 11) = Target(MemWrite)
      /\ Role(r, 12) = Target(MemWrite)
      /\ Role(r, 13) = Target(MemWrite)
      /\ Role(r, 14) = Target(MemWrite)
      /\ Role(r, 15) = "addr"
      /\ Role(r, 16) = Target(r.dev)
      /\ Role(r, 17) = Target(r.dev)
      /\ Role(r, 18) = Target(r.dev)
      /\ Role(r, 19) = Target(r.dev)
      /\ Role(r, 20) = Target(r.dev)
  BY DEF Role
<1>8. /\ Start.name = "i2c_start_bit" /\ Ack.name = "i2c_receive_ack"
      /\ Stop.name = "i2c_stop_bit" /\ Receive.name = "i2c_receive_byte"
      /\ \A c : Send(c).name = "i2c_send_byte"
  BY DEF Start, Ack, Stop, Receive, Send, Routine
<1>9. DevByte \in Bytes /\ 255 \in Bytes /\ \A o : Shown(o) \in Bytes
  BY GpioConstants, Ranges DEF GpioConstants, Shown
<1>10. Chart(r, 1)
  BY <1>3, <1>4, <1>5, <1>6, <1>7, <1>8, <1>9, RequestFields, ByteHalves, TargetRoles DEF Chart, Following, Next1, Unclocked
<1>11. Chart(r, 2)
  BY <1>3, <1>4, <1>5, <1>6, <1>7, <1>8, <1>9, RequestFields, ByteHalves, TargetRoles DEF Chart, Following, Next1, Unclocked
<1>12. Chart(r, 3)
  BY <1>3, <1>4, <1>5, <1>6, <1>7, <1>8, <1>9, RequestFields, ByteHalves, TargetRoles DEF Chart, Following, Next1, Unclocked
<1>13. Chart(r, 4)
  BY <1>3, <1>4, <1>5, <1>6, <1>7, <1>8, <1>9, RequestFields, ByteHalves, TargetRoles DEF Chart, Following, Next1, Unclocked
<1>14. Chart(r, 5)
  BY <1>3, <1>4, <1>5, <1>6, <1>7, <1>8, <1>9, RequestFields, ByteHalves, TargetRoles DEF Chart, Following, Next1, Unclocked
<1>15. Chart(r, 6)
  BY <1>3, <1>4, <1>5, <1>6, <1>7, <1>8, <1>9, RequestFields, ByteHalves, TargetRoles DEF Chart, Following, Next1, Unclocked
<1>16. Chart(r, 7)
  BY <1>3, <1>4, <1>5, <1>6, <1>7, <1>8, <1>9, RequestFields, ByteHalves, TargetRoles DEF Chart, Following, Next1, Unclocked
<1>17. Chart(r, 8)
  BY <1>3, <1>4, <1>5, <1>6, <1>7, <1>8, <1>9, RequestFields, ByteHalves, TargetRoles DEF Chart, Following, Next1, Unclocked
<1>18. Chart(r, 9)
  BY <1>3, <1>4, <1>5, <1>6, <1>7, <1>8, <1>9, RequestFields, ByteHalves, TargetRoles DEF Chart, Following, Next1, Unclocked
<1>19. Chart(r, 10)
  BY <1>3, <1>4, <1>5, <1>6, <1>7, <1>8, <1>9, RequestFields, ByteHalves, TargetRoles DEF Chart, Following, Next1, Unclocked
<1>20. Chart(r, 11)
  BY <1>3, <1>4, <1>5, <1>6, <1>7, <1>8, <1>9, RequestFields, ByteHalves, TargetRoles DEF Chart, Following, Next1, Unclocked
<1>21. Chart(r, 12)
  BY <1>3, <1>4, <1>5, <1>6, <1>7, <1>8, <1>9, RequestFields, ByteHalves, TargetRoles DEF Chart, Following, Next1, Unclocked
<1>22. Chart(r, 13)
  BY <1>3, <1>4, <1>5, <1>6, <1>7, <1>8, <1>9, RequestFields, ByteHalves, TargetRoles DEF Chart, Following, Next1, Unclocked
<1>23. Chart(r, 14)
  BY <1>3, <1>4, <1>5, <1>6, <1>7, <1>8, <1>9, RequestFields, ByteHalves, TargetRoles DEF Chart, Following, Next1, Unclocked
<1>24. Chart(r, 15)
  BY <1>3, <1>4, <1>5, <1>6, <1>7, <1>8, <1>9, RequestFields, ByteHalves, TargetRoles DEF Chart, Following, Next1, Unclocked
<1>25. Chart(r, 16)
  BY <1>3, <1>4, <1>5, <1>6, <1>7, <1>8, <1>9, RequestFields, ByteHalves, TargetRoles DEF Chart, Following, Next1, Unclocked
<1>26. Chart(r, 17)
  BY <1>3, <1>4, <1>5, <1>6, <1>7, <1>8, <1>9, RequestFields, ByteHalves, TargetRoles DEF Chart, Following, Next1, Unclocked
<1>27. Chart(r, 18)
  BY <1>3, <1>4, <1>5, <1>6, <1>7, <1>8, <1>9, RequestFields, ByteHalves, TargetRoles DEF Chart, Following, Next1, Unclocked
<1>28. Chart(r, 19)
  BY <1>3, <1>4, <1>5, <1>6, <1>7, <1>8, <1>9, RequestFields, ByteHalves, TargetRoles DEF Chart, Following, Next1, Unclocked
<1>29. \A k \in 1..19 : k \in {1, 2, 3, 4, 5, 6, 7, 8, 9, 10, 11, 12, 13, 14, 15, 16, 17, 18, 19}
  OBVIOUS
<1>30. Frame(r) \in Seq(Nat)
  <2>1. /\ START \in Nat
        /\ MemWrite \in Nat
        /\ Hi(SyncWord) \in Nat
        /\ Lo(SyncWord) \in Nat
        /\ MemRead \in Nat
        /\ Hi(r.addr) \in Nat
        /\ Lo(r.addr) \in Nat
        /\ r.dev \in Nat
    BY <1>9, RequestFields, ByteHalves, Ranges DEF START, STOP
  <2>2. QED
    BY <1>2, <2>1
<1>31. QED
  BY <1>3, <1>4, <1>30, <1>10, <1>11, <1>12, <1>13, <1>14, <1>15, <1>16, <1>17, <1>18, <1>19, <1>20, <1>21, <1>22, <1>23, <1>24, <1>25, <1>26, <1>27, <1>28, <1>29

LEMMA Charts ==
    ASSUME Discipline, NEW r \in Requests
    PROVE  /\ Len(Script(r)) \in Nat /\ Len(Script(r)) > 0 /\ Script(r)[1] = Start
           /\ Len(Frame(r)) \in Nat /\ Frame(r) \in Seq(Nat)
           /\ \A k \in 1..Len(Script(r)) : Chart(r, k)
<1>1. r.kind \in {"read8", "write8", "read16", "write16"}
  BY RequestFields
<1>2. CASE r.kind = "write8"
  <2>1. Len(Script(r)) = 7 /\ Script(r)[1] = Start /\ Len(Frame(r)) = 5
    BY <1>2, Chart_write8
  <2>2. Frame(r) \in Seq(Nat) /\ \A k \in 1..7 : Chart(r, k)
    BY <1>2, Chart_write8
  <2>3. QED
    BY <2>1, <2>2
<1>3. CASE r.kind = "write16"
  <2>1. Len(Script(r)) = 18 /\ Script(r)[1] = Start /\ Len(Frame(r)) = 10
    BY <1>3, Chart_write16
  <2>2. Frame(r) \in Seq(Nat) /\ \A k \in 1..18 : Chart(r, k)
    BY <1>3, Chart_write16
  <2>3. QED
    BY <2>1, <2>2
<1>4. CASE r.kind = "read8"
  <2>1. Len(Script(r)) = 10 /\ Script(r)[1] = Start /\ Len(Frame(r)) = 7
    BY <1>4, Chart_read8
  <2>2. Frame(r) \in Seq(Nat) /\ \A k \in 1..10 : Chart(r, k)
    BY <1>4, Chart_read8
  <2>3. QED
    BY <2>1, <2>2
<1>5. CASE r.kind = "read16"
  <2>1. Len(Script(r)) = 19 /\ Script(r)[1] = Start /\ Len(Frame(r)) = 9
    BY <1>5, Chart_read16
  <2>2. Frame(r) \in Seq(Nat) /\ \A k \in 1..19 : Chart(r, k)
    BY <1>5, Chart_read16
  <2>3. QED
    BY <2>1, <2>2
<1>6. QED
  BY <1>1, <1>2, <1>3, <1>4, <1>5

-----------------------------------------------------------------------------
(* The lines. *)

LEMMA Sampled == TypeOK => Sda \in Levels /\ \A o, d \in Levels : Level(d, o, dev.pull) \in Levels
<1> SUFFICES ASSUME TypeOK PROVE Sda \in Levels /\ \A o, d \in Levels : Level(d, o, dev.pull) \in Levels
  OBVIOUS
<1>1. dev.pull \in Levels /\ out \in Levels
  BY DEF TypeOK
<1>2. QED
  BY <1>1 DEF Sda, Level

\* No edge of SCL, and SDA is steady while SCL is high.
LEMMA Keeps ==
    ASSUME TypeOK, NEW o \in Levels, NEW d \in Levels, Lines(scl, o, d),
           scl = 1 => Level(d, o, dev.pull) = Sda
    PROVE  scl' = scl /\ out' = o /\ dir' = d /\ bus' = bus /\ dev' = dev /\ log' = log
<1> DEFINE s == Level(d, o, dev.pull)
<1>1. scl \in Levels
  BY DEF TypeOK
<1>2. Heard(scl, s) = bus
  BY <1>1 DEF Heard, Levels
<1>3. Word(scl, s) = <<>>
  BY <1>1 DEF Word, Levels
<1>4. Answer(scl, s) = dev
  BY <1>1 DEF Answer, Levels
<1>5. log' = [t \in Tasks |-> IF InCall(t) THEN log[t] \o Word(scl, s) ELSE log[t]]
  BY DEF Lines
<1>6. log \in [Tasks -> Seq(Nat)]
  BY DEF TypeOK
<1>7. \A t \in Tasks : log[t] \o <<>> = log[t]
  BY <1>6
<1>8. log' = log
  BY <1>3, <1>5, <1>6, <1>7
<1>9. QED
  BY <1>2, <1>4, <1>8 DEF Lines

LEMMA Rises ==
    ASSUME TypeOK, NEW o \in Levels, NEW d \in Levels, Lines(1, o, d), scl = 0
    PROVE  /\ scl' = 1 /\ out' = o /\ dir' = d /\ dev' = dev
           /\ bus'.n = (bus.n % 9) + 1 /\ bus'.last = Level(d, o, dev.pull)
           /\ bus'.byte = IF bus.n = 9 THEN Level(d, o, dev.pull)
                          ELSE IF bus.n = 8 THEN bus.byte
                          ELSE 2 * bus.byte + Level(d, o, dev.pull)
           /\ bus.n # 8 => log' = log
           /\ bus.n = 8 => \A t \in Tasks : InCall(t) => log'[t] = log[t] \o <<bus.byte>>
<1> DEFINE s == Level(d, o, dev.pull)
<1>1. bus' = Heard(1, s) /\ dev' = Answer(1, s) /\ scl' = 1 /\ out' = o /\ dir' = d
  BY DEF Lines
<1>2. Answer(1, s) = dev
  BY DEF Answer
<1>3. Heard(1, s) = [n |-> (bus.n % 9) + 1, last |-> s,
                     byte |-> IF bus.n = 9 THEN s
                              ELSE IF bus.n = 8 THEN bus.byte ELSE 2 * bus.byte + s]
  BY DEF Heard
<1>4. Word(1, s) = IF bus.n = 8 THEN <<bus.byte>> ELSE <<>>
  BY DEF Word
<1>5. log' = [t \in Tasks |-> IF InCall(t) THEN log[t] \o Word(1, s) ELSE log[t]]
  BY DEF Lines
<1>6. log \in [Tasks -> Seq(Nat)]
  BY DEF TypeOK
<1>7. \A t \in Tasks : log[t] \o <<>> = log[t]
  BY <1>6
<1>8. bus.n # 8 => log' = log
  BY <1>4, <1>5, <1>6, <1>7
<1>9. bus.n = 8 => \A t \in Tasks : InCall(t) => log'[t] = log[t] \o <<bus.byte>>
  BY <1>4, <1>5
<1>10. QED
  BY <1>1, <1>2, <1>3, <1>8, <1>9

LEMMA Falls ==
    ASSUME TypeOK, NEW o \in Levels, NEW d \in Levels, Lines(0, o, d), scl = 1
    PROVE  /\ scl' = 0 /\ out' = o /\ dir' = d /\ bus' = bus /\ log' = log
           /\ bus.n \in 1..7 /\ dev.role = "tx" => dev' = Transmit(bus.n + 1)
           /\ bus.n \in 1..7 /\ dev.role # "tx" => dev' = dev
           /\ bus.n = 0 => dev' = dev
           /\ bus.n = 8 /\ dev.role = "addr" => dev' = Addressed
           /\ bus.n = 8 /\ dev.role = "rx" => dev' = [role |-> "rx", pull |-> 0]
           /\ bus.n = 8 /\ dev.role \in {"off", "tx"} => dev' = [dev EXCEPT !.pull = 1]
           /\ bus.n = 9 /\ dev.role = "tx" /\ bus.last = 0 => dev' = Transmit(1)
           /\ bus.n = 9 /\ dev.role \in {"off", "rx"} => dev' = [dev EXCEPT !.pull = 1]
<1> DEFINE s == Level(d, o, dev.pull)
<1>1. bus' = Heard(0, s) /\ dev' = Answer(0, s) /\ scl' = 0 /\ out' = o /\ dir' = d
  BY DEF Lines
<1>2. Heard(0, s) = bus
  BY DEF Heard
<1>3. Word(0, s) = <<>>
  BY DEF Word
<1>4. log' = [t \in Tasks |-> IF InCall(t) THEN log[t] \o Word(0, s) ELSE log[t]]
  BY DEF Lines
<1>5. log \in [Tasks -> Seq(Nat)]
  BY DEF TypeOK
<1>6. \A t \in Tasks : log[t] \o <<>> = log[t]
  BY <1>5
<1>7. log' = log
  BY <1>3, <1>4, <1>5, <1>6
<1>8. Answer(0, s) =
        CASE bus.n \in 1..7 /\ dev.role = "tx" -> Transmit(bus.n + 1)
          [] bus.n = 8 -> (CASE dev.role = "addr" -> Addressed
                             [] dev.role = "rx"   -> [role |-> "rx", pull |-> 0]
                             [] OTHER             -> [dev EXCEPT !.pull = 1])
          [] bus.n = 9 -> (CASE dev.role = "tx" /\ bus.last = 0 -> Transmit(1)
                             [] dev.role = "tx" /\ bus.last = 1 -> Off
                             [] OTHER                           -> [dev EXCEPT !.pull = 1])
          [] OTHER -> dev
  BY DEF Answer
<1>9. QED
  BY <1>1, <1>2, <1>7, <1>8

\* SDA falls while SCL is high.
LEMMA Opens ==
    ASSUME TypeOK, NEW o \in Levels, NEW d \in Levels, Lines(1, o, d), scl = 1,
           Sda = 1, Level(d, o, dev.pull) = 0
    PROVE  /\ scl' = 1 /\ out' = o /\ dir' = d
           /\ bus' = [n |-> 0, byte |-> 0, last |-> 1]
           /\ dev' = [role |-> "addr", pull |-> 1]
           /\ \A t \in Tasks : InCall(t) => log'[t] = log[t] \o <<START>>
<1> DEFINE s == Level(d, o, dev.pull)
<1>1. Heard(1, s) = [n |-> 0, byte |-> 0, last |-> 1]
  BY DEF Heard
<1>2. Word(1, s) = <<START>>
  BY DEF Word
<1>3. Answer(1, s) = [role |-> "addr", pull |-> 1]
  BY DEF Answer
<1>4. QED
  BY <1>1, <1>2, <1>3 DEF Lines

\* SDA rises while SCL is high.
LEMMA Closes ==
    ASSUME TypeOK, NEW o \in Levels, NEW d \in Levels, Lines(1, o, d), scl = 1,
           Sda = 0, Level(d, o, dev.pull) = 1
    PROVE  /\ scl' = 1 /\ out' = o /\ dir' = d
           /\ bus' = [n |-> 0, byte |-> 0, last |-> 1] /\ dev' = Off
           /\ \A t \in Tasks : InCall(t) => log'[t] = log[t] \o <<STOP>>
<1> DEFINE s == Level(d, o, dev.pull)
<1>1. Heard(1, s) = [n |-> 0, byte |-> 0, last |-> 1]
  BY DEF Heard
<1>2. Word(1, s) = <<STOP>>
  BY DEF Word
<1>3. Answer(1, s) = Off
  BY DEF Answer
<1>4. QED
  BY <1>1, <1>2, <1>3 DEF Lines

LEMMA AccessIs ==
    /\ Write("scl0") => Lines(0, out, dir)
    /\ Write("scl1") => Lines(1, out, dir)
    /\ Write("sda0") => Lines(scl, 0, dir)
    /\ Write("sda1") => Lines(scl, 1, dir)
    /\ Write("both1") => Lines(1, 1, dir)
    /\ Write("out") => Lines(scl, out, 1)
    /\ Write("in") => Lines(scl, out, 0)
    /\ \A a \in {"irqoff", "irqon", "sample", "ack"} :
          Write(a) => UNCHANGED <<scl, out, dir, dev, bus, log>>
  BY DEF Write

-----------------------------------------------------------------------------
(* The routines. *)

LEMMA StartCore ==
    ASSUME TypeOK, NEW k, NEW o, k # 1 => o \in {"off", "rx"}, NEW a \in 1..4, InStart(k, o, a),
           Write(i2c_start_bit[1][a])
    PROVE  /\ a < 4 => InStart(k, o, a + 1)' /\ log' = log
           /\ a = 4 => Opened' /\ \A t \in Tasks : InCall(t) => log'[t] = log[t] \o <<START>>
<1>1. /\ i2c_start_bit[1][1] = "out" /\ i2c_start_bit[1][2] = "both1"
      /\ i2c_start_bit[1][3] = "out" /\ i2c_start_bit[1][4] = "sda0"
  BY DEF i2c_start_bit
<1>2. out \in Levels /\ dir \in Levels /\ scl \in Levels /\ 0 \in Levels /\ 1 \in Levels
  BY DEF TypeOK, Levels
<1>3. Acked(o) /\ k # 1 => dev.pull = 1
  <2>1. 1 \in 1..8
    OBVIOUS
  <2>2. QED
    BY <2>1, ShownBits DEF Acked
<1>4. CASE a = 1
  <2>1. Lines(scl, out, 1)
    BY <1>1, <1>4, AccessIs
  <2>2. scl = 1 => Level(1, out, dev.pull) = Sda
    BY <1>4 DEF InStart, Idle, Acked, Level, Sda
  <2>3. scl' = scl /\ out' = out /\ dir' = 1 /\ bus' = bus /\ dev' = dev /\ log' = log
    BY <1>2, <2>1, <2>2, Keeps
  <2>4. QED
    BY <1>4, <2>3 DEF InStart, Idle, Acked, Off
<1>5. CASE a = 2
  <2>1. Lines(1, 1, 1)
    BY <1>1, <1>5, AccessIs DEF InStart, Idle, Write
  <2>2. CASE k = 1
    <3>1. scl = 1 /\ Sda = 1 /\ dev.pull = 1 /\ Lines(scl, 1, 1)
      BY <1>5, <2>1, <2>2 DEF InStart, Idle, Sda, Level, Off
    <3>2. Level(1, 1, dev.pull) = Sda
      BY <3>1 DEF Level
    <3>3. scl' = scl /\ out' = 1 /\ dir' = 1 /\ bus' = bus /\ dev' = dev /\ log' = log
      BY <1>2, <3>1, <3>2, Keeps
    <3>4. QED
      BY <1>5, <3>1, <3>3 DEF InStart
  <2>3. CASE k # 1
    <3>1. scl = 0 /\ bus.n = 9 /\ dev.pull = 1
      BY <1>3, <1>5, <2>3 DEF InStart, Acked
    <3>2. scl' = 1 /\ out' = 1 /\ dir' = 1 /\ dev' = dev /\ log' = log
      BY <1>2, <2>1, <3>1, Rises
    <3>3. QED
      BY <1>5, <3>1, <3>2 DEF InStart
  <2>4. QED
    BY <2>2, <2>3
<1>6. CASE a = 3
  <2>1. Lines(scl, out, 1) /\ dir = 1
    BY <1>1, <1>6, AccessIs DEF InStart
  <2>2. Level(1, out, dev.pull) = Sda
    BY <2>1 DEF Level, Sda
  <2>3. scl' = scl /\ out' = out /\ dir' = 1 /\ bus' = bus /\ dev' = dev /\ log' = log
    BY <1>2, <2>1, <2>2, Keeps
  <2>4. QED
    BY <1>6, <2>3 DEF InStart
<1>7. CASE a = 4
  <2>1. Lines(1, 0, 1) /\ scl = 1 /\ out = 1 /\ dir = 1
    BY <1>1, <1>7, AccessIs DEF InStart
  <2>2. Sda = 1 /\ Level(1, 0, dev.pull) = 0
    BY <2>1 DEF Level, Sda
  <2>3. /\ scl' = 1 /\ out' = 0 /\ dir' = 1
        /\ bus' = [n |-> 0, byte |-> 0, last |-> 1] /\ dev' = [role |-> "addr", pull |-> 1]
        /\ \A t \in Tasks : InCall(t) => log'[t] = log[t] \o <<START>>
    BY <1>2, <2>1, <2>2, Opens
  <2>4. QED
    BY <1>7, <2>3 DEF Opened
<1>8. QED
  BY <1>4, <1>5, <1>6, <1>7

\* The first round of a byte: SCL goes low.
LEMMA SendHead ==
    ASSUME TypeOK, NEW c, NEW o \in {"addr", "off", "rx"}, NEW a \in 1..2, InSend(c, o, 1, a),
           Write(i2c_send_byte(c)[1][a])
    PROVE  /\ a = 1 => InSend(c, o, 1, 2)'
           /\ a = 2 => InSend(c, o, 2, 1)'
           /\ log' = log
<1>1. i2c_send_byte(c)[1][1] = "irqoff" /\ i2c_send_byte(c)[1][2] = "scl0"
  BY SendRounds
<1>2. out \in Levels /\ dir \in Levels /\ scl \in Levels
  BY DEF TypeOK
<1>3. IF o = "addr" THEN Opened ELSE Acked(o)
  BY DEF InSend
<1>4. CASE a = 1
  <2>1. UNCHANGED <<scl, out, dir, dev, bus, log>>
    BY <1>1, <1>4, AccessIs
  <2>2. (IF o = "addr" THEN Opened ELSE Acked(o))'
    BY <1>3, <2>1 DEF Opened, Acked
  <2>3. QED
    BY <1>4, <2>1, <2>2 DEF InSend
<1>5. CASE a = 2
  <2>1. Lines(0, out, dir)
    BY <1>1, <1>5, AccessIs
  <2>2. CASE o = "addr"
    <3>1. scl = 1 /\ bus.n = 0 /\ bus.byte = 0 /\ dev.role = "addr" /\ dev.pull = 1
      BY <1>3, <2>2 DEF Opened
    <3>2. scl' = 0 /\ bus' = bus /\ dev' = dev /\ log' = log
      BY <1>2, <2>1, <3>1, Falls
    <3>3. Clocked(c, o, 0)'
      BY <2>2, <3>1, <3>2 DEF Clocked
    <3>4. QED
      BY <1>5, <3>2, <3>3 DEF InSend
  <2>3. CASE o # "addr"
    <3>1. scl = 0 /\ bus.n = 9 /\ dev.role = o /\ dev.pull = 1 /\ Lines(scl, out, dir)
      <4>1. 1 \in 1..8
        OBVIOUS
      <4>2. QED
        BY <1>3, <2>1, <2>3, <4>1, ShownBits DEF Acked
    <3>2. scl' = 0 /\ bus' = bus /\ dev' = dev /\ log' = log
      BY <1>2, <3>1, Keeps
    <3>3. Clocked(c, o, 0)'
      BY <3>1, <3>2 DEF Clocked
    <3>4. QED
      BY <1>5, <3>2, <3>3 DEF InSend
  <2>4. QED
    BY <2>2, <2>3
<1>6. QED
  BY <1>4, <1>5

\* A bit: SDA is set while SCL is low, and clocked.
LEMMA SendRound ==
    ASSUME TypeOK, NEW c \in Bytes, NEW o \in {"addr", "off", "rx"}, NEW j \in 2..9, NEW a \in 1..4,
           InSend(c, o, j, a), Write(i2c_send_byte(c)[j][a])
    PROVE  /\ a < 4 => InSend(c, o, j, a + 1)'
           /\ a = 4 => InSend(c, o, j + 1, 1)'
           /\ log' = log
<1> DEFINE b == j - 1
           v == BitOf(c, b)
<1>1. /\ i2c_send_byte(c)[j] = SendBit(v)
      /\ SendBit(v)[1] = "out" /\ SendBit(v)[2] = (IF v = 1 THEN "sda1" ELSE "sda0")
      /\ SendBit(v)[3] = "scl1" /\ SendBit(v)[4] = "scl0"
  <2>1. b \in 1..8 /\ b + 1 = j
    OBVIOUS
  <2>2. i2c_send_byte(c)[j] = SendBit(v)
    BY <2>1, SendRounds
  <2>3. /\ SendBit(v)[1] = "out" /\ SendBit(v)[2] = (IF v = 1 THEN "sda1" ELSE "sda0")
        /\ SendBit(v)[3] = "scl1" /\ SendBit(v)[4] = "scl0"
    BY DEF SendBit
  <2>4. QED
    BY <2>2, <2>3
<1>2. out \in Levels /\ dir \in Levels /\ scl \in Levels /\ 0 \in Levels /\ 1 \in Levels
  BY DEF TypeOK, Levels
<1>3. /\ b \in 1..8 /\ j - 2 = b - 1 /\ j + 1 \in 3..10 /\ (j + 1) - 2 = b
      /\ v \in Levels /\ Top(c, b) = 2 * Top(c, b - 1) + v /\ Top(c, 0) = 0 /\ Top(c, 8) = c
      /\ Top(c, b) \in Nat /\ Top(c, b - 1) \in Nat
  <2>1. b \in 1..8 /\ b - 1 \in 0..8 /\ b \in 0..8 /\ j - 2 = b - 1 /\ j + 1 \in 3..10 /\ (j + 1) - 2 = b
    OBVIOUS
  <2>2. QED
    BY <2>1, TopBits
<1> HIDE DEF b, v
<1>4. a \in 1..3 => /\ Clocked(c, o, b - 1) /\ (a > 1 => dir = 1) /\ (a > 2 => out = v)
  BY <1>3 DEF InSend, b, v
<1>5. CASE a = 1
  <2>1. Lines(scl, out, 1) /\ scl = 0
    BY <1>1, <1>4, <1>5, AccessIs DEF Clocked
  <2>2. scl' = scl /\ out' = out /\ dir' = 1 /\ bus' = bus /\ dev' = dev /\ log' = log
    <3>1. scl = 1 => Level(1, out, dev.pull) = Sda
      BY <2>1
    <3>2. QED
      BY <1>2, <2>1, <3>1, Keeps
  <2>3. Clocked(c, o, b - 1)'
    BY <1>4, <1>5, <2>2 DEF Clocked
  <2>4. QED
    BY <1>3, <1>5, <2>2, <2>3 DEF InSend
<1>6. CASE a = 2
  <2>1. Lines(scl, v, dir) /\ scl = 0
    BY <1>1, <1>3, <1>4, <1>6, AccessIs DEF Clocked, Levels
  <2>2. scl' = scl /\ out' = v /\ dir' = dir /\ bus' = bus /\ dev' = dev /\ log' = log
    <3>1. scl = 1 => Level(dir, v, dev.pull) = Sda
      BY <2>1
    <3>2. v \in Levels
      BY <1>3
    <3>3. QED
      BY <1>2, <2>1, <3>1, <3>2, Keeps
  <2>3. Clocked(c, o, b - 1)'
    BY <1>4, <1>6, <2>2 DEF Clocked
  <2>4. QED
    BY <1>3, <1>4, <1>6, <2>2, <2>3 DEF InSend, b, v
<1>7. CASE a = 3
  <2>1. Lines(1, out, dir) /\ scl = 0 /\ dir = 1 /\ out = v /\ Clocked(c, o, b - 1)
    BY <1>1, <1>4, <1>7, AccessIs DEF Clocked
  <2>2. Level(dir, out, dev.pull) = v
    BY <2>1 DEF Level
  <2>3. /\ scl' = 1 /\ dir' = 1 /\ dev' = dev
        /\ bus'.n = (bus.n % 9) + 1
        /\ bus'.byte = IF bus.n = 9 THEN v ELSE IF bus.n = 8 THEN bus.byte ELSE 2 * bus.byte + v
        /\ bus.n # 8 => log' = log
    BY <1>2, <2>1, <2>2, Rises
  <2>4. bus'.n = b /\ bus'.byte = Top(c, b) /\ log' = log
    <3>1. CASE b = 1
      <4>1. bus.n = 9 \/ (bus.n = 0 /\ bus.byte = 0)
        BY <2>1, <3>1 DEF Clocked
      <4>2. Top(c, b) = v /\ v \in Nat
        BY <1>3, <3>1 DEF Levels
      <4>3. 9 % 9 = 0 /\ 0 % 9 = 0
        OBVIOUS
      <4>4. QED
        BY <2>3, <3>1, <4>1, <4>2, <4>3
    <3>2. CASE b # 1
      <4>1. bus.n = b - 1 /\ bus.byte = Top(c, b - 1) /\ b - 1 \in 1..7
        BY <1>3, <2>1, <3>2 DEF Clocked
      <4>2. ((b - 1) % 9) + 1 = b
        BY <4>1
      <4>3. QED
        BY <1>3, <2>3, <4>1, <4>2
    <3>3. QED
      BY <3>1, <3>2
  <2>5. QED
    BY <1>3, <1>7, <2>1, <2>3, <2>4 DEF InSend, Clocked, b
<1>8. CASE a = 4
  <2>1. /\ Lines(0, out, dir) /\ scl = 1 /\ dir = 1 /\ dev.role = o /\ dev.pull = 1
        /\ bus.n = b /\ bus.byte = Top(c, b)
    BY <1>1, <1>3, <1>8, AccessIs DEF InSend, b
  <2>2. scl' = 0 /\ dir' = 1 /\ bus' = bus /\ log' = log
    BY <1>2, <2>1, Falls
  <2>3. CASE b \in 1..7
    <3>1. dev' = dev
      BY <1>2, <2>1, <2>3, Falls
    <3>2. Clocked(c, o, b)'
      BY <2>1, <2>2, <2>3, <3>1 DEF Clocked
    <3>3. QED
      BY <1>3, <1>8, <2>2, <2>3, <3>2 DEF InSend, b
  <2>4. CASE b = 8
    <3>1. bus.n = 8 /\ bus.byte = c
      BY <1>3, <2>1, <2>4
    <3>2. /\ o = "addr" => dev' = Addressed
          /\ o = "rx" => dev' = [role |-> "rx", pull |-> 0]
          /\ o = "off" => dev' = [dev EXCEPT !.pull = 1]
      BY <1>2, <2>1, <3>1, Falls
    <3>3. dev \in [role : {"off", "addr", "rx", "tx"}, pull : Levels]
      BY DEF TypeOK
    <3>4. Sent(c, IF o = "addr" THEN Target(c) ELSE o)'
      <4>1. CASE o = "addr"
        BY <2>2, <3>1, <3>2, <4>1 DEF Sent, Addressed, Target, Off
      <4>2. CASE o = "rx"
        BY <2>2, <3>1, <3>2, <4>2 DEF Sent
      <4>3. CASE o = "off"
        BY <2>1, <2>2, <3>1, <3>2, <3>3, <4>3 DEF Sent
      <4>4. QED
        BY <4>1, <4>2, <4>3
    <3>5. j + 1 = 10
      BY <2>4 DEF b
    <3>6. QED
      BY <1>8, <2>2, <3>4, <3>5 DEF InSend
  <2>5. QED
    BY <1>3, <2>3, <2>4
<1>9. QED
  BY <1>5, <1>6, <1>7, <1>8

LEMMA SendTail ==
    ASSUME TypeOK, NEW c, NEW o \in {"addr", "off", "rx"}, NEW a, InSend(c, o, 10, a),
           Write(i2c_send_byte(c)[10][a])
    PROVE  a = 1 /\ Sent(c, IF o = "addr" THEN Target(c) ELSE o)' /\ dir' = 1 /\ log' = log
<1>1. a = 1 /\ dir = 1 /\ Sent(c, IF o = "addr" THEN Target(c) ELSE o)
  BY DEF InSend
<1>2. i2c_send_byte(c)[10][1] = "irqon"
  BY SendRounds
<1>3. UNCHANGED <<scl, out, dir, dev, bus, log>>
  BY <1>1, <1>2, AccessIs
<1>4. QED
  BY <1>1, <1>3 DEF Sent


\* The master reads the acknowledge and gives the ninth clock.
LEMMA AckCore ==
    ASSUME TypeOK, NEW c, NEW o \in {"off", "rx", "tx"}, NEW a \in 1..6, InAck(c, o, a),
           Write(i2c_receive_ack[1][a])
    PROVE  /\ a < 6 => InAck(c, o, a + 1)'
           /\ a = 6 => Acked(o)' /\ dir' = 0
           /\ a # 3 => log' = log
           /\ a = 3 => \A t \in Tasks : InCall(t) => log'[t] = log[t] \o <<c>>
<1>1. /\ i2c_receive_ack[1][1] = "in" /\ i2c_receive_ack[1][2] = "scl0"
      /\ i2c_receive_ack[1][3] = "scl1" /\ i2c_receive_ack[1][4] = "in"
      /\ i2c_receive_ack[1][5] = "ack" /\ i2c_receive_ack[1][6] = "scl0"
  BY DEF i2c_receive_ack
<1>2. out \in Levels /\ dir \in Levels /\ scl \in Levels /\ 0 \in Levels /\ 1 \in Levels
  BY DEF TypeOK, Levels
<1> DEFINE p == IF o = "off" THEN 1 ELSE 0
<1>3. a \in 1..3 => /\ scl = 0 /\ bus.n = 8 /\ bus.byte = c /\ dev.role = o /\ dev.pull = p
                    /\ a > 1 => dir = 0
  BY DEF InAck, Sent
<1>4. a \in 4..6 => /\ scl = 1 /\ dir = 0 /\ bus.n = 9 /\ bus.last = dev.pull
                    /\ dev.role = o /\ dev.pull = p
  BY DEF InAck
<1> HIDE DEF p
<1>5. a \in {1, 2} /\ scl' = scl /\ dir' = 0 /\ bus' = bus /\ dev' = dev => InAck(c, o, a + 1)'
  BY <1>3 DEF InAck, Sent, p
<1>6. a \in {4, 5} /\ scl' = scl /\ dir' = 0 /\ bus' = bus /\ dev' = dev => InAck(c, o, a + 1)'
  BY <1>4 DEF InAck, p
<1>7. CASE a = 1
  <2>1. Lines(scl, out, 0) /\ scl = 0
    BY <1>1, <1>3, <1>7, AccessIs
  <2>2. scl = 1 => Level(0, out, dev.pull) = Sda
    BY <2>1
  <2>3. scl' = scl /\ dir' = 0 /\ bus' = bus /\ dev' = dev /\ log' = log
    BY <1>2, <2>1, <2>2, Keeps
  <2>4. QED
    BY <1>5, <1>7, <2>3
<1>8. CASE a = 2
  <2>1. Lines(scl, out, dir) /\ scl = 0 /\ dir = 0
    BY <1>1, <1>3, <1>8, AccessIs
  <2>2. scl = 1 => Level(dir, out, dev.pull) = Sda
    BY <2>1
  <2>3. scl' = scl /\ dir' = dir /\ bus' = bus /\ dev' = dev /\ log' = log
    BY <1>2, <2>1, <2>2, Keeps
  <2>4. QED
    BY <1>5, <1>8, <2>1, <2>3
<1>9. CASE a = 3
  <2>1. /\ Lines(1, out, dir) /\ scl = 0 /\ dir = 0 /\ bus.n = 8 /\ bus.byte = c
        /\ dev.role = o /\ dev.pull = p
    BY <1>1, <1>3, <1>9, AccessIs
  <2>2. Level(dir, out, dev.pull) = dev.pull
    BY <2>1 DEF Level
  <2>3. /\ scl' = 1 /\ dir' = dir /\ dev' = dev
        /\ bus'.n = (bus.n % 9) + 1 /\ bus'.last = dev.pull
        /\ \A t \in Tasks : InCall(t) => log'[t] = log[t] \o <<bus.byte>>
    BY <1>2, <2>1, <2>2, Rises
  <2>4. bus'.n = 9
    BY <2>1, <2>3
  <2>5. InAck(c, o, 4)'
    BY <2>1, <2>3, <2>4 DEF InAck, p
  <2>6. QED
    BY <1>9, <2>1, <2>3, <2>5
<1>10. CASE a = 4
  <2>1. Lines(scl, out, 0) /\ dir = 0
    BY <1>1, <1>4, <1>10, AccessIs
  <2>2. Level(0, out, dev.pull) = Sda
    BY <2>1 DEF Sda
  <2>3. scl' = scl /\ dir' = 0 /\ bus' = bus /\ dev' = dev /\ log' = log
    BY <1>2, <2>1, <2>2, Keeps
  <2>4. QED
    BY <1>6, <1>10, <2>3
<1>11. CASE a = 5
  <2>1. UNCHANGED <<scl, out, dir, dev, bus, log>> /\ dir = 0
    BY <1>1, <1>4, <1>11, AccessIs
  <2>2. QED
    BY <1>6, <1>11, <2>1
<1>12. CASE a = 6
  <2>1. /\ Lines(0, out, dir) /\ scl = 1 /\ dir = 0 /\ bus.n = 9 /\ bus.last = p
        /\ dev.role = o
    BY <1>1, <1>4, <1>12, AccessIs
  <2>2. /\ scl' = 0 /\ dir' = 0 /\ bus' = bus /\ log' = log
        /\ dev.role = "tx" /\ bus.last = 0 => dev' = Transmit(1)
        /\ dev.role \in {"off", "rx"} => dev' = [dev EXCEPT !.pull = 1]
    BY <1>2, <2>1, Falls
  <2>3. dev'.role = o /\ dev'.pull = BitOf(Shown(o), 1)
    <3>1. CASE o = "tx"
      BY <2>1, <2>2, <3>1, ShownBits DEF Transmit, p
    <3>2. CASE o # "tx"
      <4>1. dev' = [dev EXCEPT !.pull = 1]
        BY <2>1, <2>2, <3>2
      <4>2. dev \in [role : {"off", "addr", "rx", "tx"}, pull : Levels]
        BY DEF TypeOK
      <4>3. dev'.role = o /\ dev'.pull = 1
        BY <2>1, <4>1, <4>2
      <4>4. 1 \in 1..8
        OBVIOUS
      <4>5. QED
        BY <3>2, <4>3, <4>4, ShownBits
    <3>3. QED
      BY <3>1, <3>2
  <2>4. QED
    BY <1>12, <2>1, <2>2, <2>3 DEF Acked
<1>13. QED
  BY <1>7, <1>8, <1>9, <1>10, <1>11, <1>12

LEMMA ReceiveHead ==
    ASSUME TypeOK, NEW o \in {"off", "rx", "tx"}, NEW a, NEW v, InReceive(Shown(o), o, 1, a, v),
           Write(i2c_receive_byte[1][a])
    PROVE  a = 1 /\ InReceive(Shown(o), o, 2, 1, v)' /\ log' = log
<1>1. a = 1 /\ dir = 0 /\ Acked(o) /\ v = 0
  BY DEF InReceive
<1>2. i2c_receive_byte[1][1] = "irqoff"
  BY ReceiveRounds
<1>3. UNCHANGED <<scl, out, dir, dev, bus, log>>
  BY <1>1, <1>2, AccessIs
<1>4. Top(Shown(o), 0) = 0
  BY ShownBits, TopBits
<1>5. QED
  BY <1>1, <1>3, <1>4 DEF Acked, InReceive

\* A bit: the device shows it from one falling edge to the next, and the master reads it.
LEMMA ReceiveRound ==
    ASSUME TypeOK, NEW o \in {"off", "rx", "tx"}, NEW j \in 2..9, NEW a \in 1..6, NEW v,
           InReceive(Shown(o), o, j, a, v), Write(i2c_receive_byte[j][a]),
           NEW w, w = IF a = 5 THEN 2 * v + Sda ELSE v
    PROVE  /\ a < 6 => InReceive(Shown(o), o, j, a + 1, w)'
           /\ a = 6 => InReceive(Shown(o), o, j + 1, 1, w)'
           /\ log' = log
<1> DEFINE b == j - 1
           c == Shown(o)
           x == BitOf(c, b)
<1>1. /\ i2c_receive_byte[j][1] = "scl0" /\ i2c_receive_byte[j][2] = "scl1"
      /\ i2c_receive_byte[j][3] = "in" /\ i2c_receive_byte[j][4] = "in"
      /\ i2c_receive_byte[j][5] = "sample" /\ i2c_receive_byte[j][6] = "scl0"
  <2>1. b \in 1..8 /\ b + 1 = j
    OBVIOUS
  <2>2. i2c_receive_byte[j] = <<"scl0", "scl1", "in", "in", "sample", "scl0">>
    BY <2>1, ReceiveRounds
  <2>3. QED
    BY <2>2
<1>2. out \in Levels /\ dir \in Levels /\ scl \in Levels /\ 0 \in Levels /\ 1 \in Levels
  BY DEF TypeOK, Levels
<1>3. c \in Bytes
  BY ShownBits
<1>4. /\ b \in 1..8 /\ j - 2 = b - 1 /\ j + 1 \in 3..10 /\ (j + 1) - 2 = b
      /\ x \in Levels /\ Top(c, b) = 2 * Top(c, b - 1) + x /\ Top(c, 0) = 0 /\ Top(c, 8) = c
      /\ Top(c, b) \in Nat /\ Top(c, b - 1) \in Nat
  <2>1. b \in 1..8 /\ b - 1 \in 0..8 /\ b \in 0..8 /\ j - 2 = b - 1 /\ j + 1 \in 3..10 /\ (j + 1) - 2 = b
    OBVIOUS
  <2>2. QED
    BY <1>3, <2>1, TopBits
<1> HIDE DEF b, c, x
<1>5. a \in 1..2 =>
        /\ dir = 0 /\ scl = 0 /\ dev.role = o /\ dev.pull = x
        /\ bus.n = (IF b = 1 THEN 9 ELSE b - 1) /\ (b > 1 => bus.byte = Top(c, b - 1))
        /\ v = Top(c, b - 1)
  BY <1>4 DEF InReceive, b, c, x
<1>6. a \in 3..6 =>
        /\ dir = 0 /\ scl = 1 /\ dev.role = o /\ dev.pull = x
        /\ bus.n = b /\ bus.byte = Top(c, b)
        /\ v = Top(c, IF a = 6 THEN b ELSE b - 1)
  BY <1>4 DEF InReceive, b, c, x
<1>7. CASE a = 1
  <2>1. Lines(scl, out, dir) /\ scl = 0 /\ dir = 0 /\ w = v
    BY <1>1, <1>5, <1>7, AccessIs
  <2>2. scl = 1 => Level(dir, out, dev.pull) = Sda
    BY <2>1
  <2>3. scl' = scl /\ dir' = dir /\ bus' = bus /\ dev' = dev /\ log' = log
    BY <1>2, <2>1, <2>2, Keeps
  <2>4. InReceive(c, o, j, 2, w)'
    BY <1>4, <1>5, <1>7, <2>1, <2>3 DEF InReceive, b, x
  <2>5. QED
    BY <1>7, <2>3, <2>4 DEF c
<1>8. CASE a = 2
  <2>1. Lines(1, out, dir) /\ scl = 0 /\ dir = 0 /\ dev.pull = x /\ w = v
    BY <1>1, <1>5, <1>8, AccessIs
  <2>2. Level(dir, out, dev.pull) = x
    BY <2>1 DEF Level
  <2>3. bus.n # 8
    BY <1>4, <1>5, <1>8
  <2>4. /\ scl' = 1 /\ dir' = dir /\ dev' = dev /\ log' = log
        /\ bus'.n = (bus.n % 9) + 1
        /\ bus'.byte = IF bus.n = 9 THEN x ELSE IF bus.n = 8 THEN bus.byte ELSE 2 * bus.byte + x
    BY <1>2, <2>1, <2>2, <2>3, Rises
  <2>5. bus'.n = b /\ bus'.byte = Top(c, b)
    <3>1. CASE b = 1
      <4>1. bus.n = 9
        BY <1>5, <1>8, <3>1
      <4>2. Top(c, b) = x /\ x \in Nat
        BY <1>4, <3>1 DEF Levels
      <4>3. 9 % 9 = 0
        OBVIOUS
      <4>4. QED
        BY <2>4, <3>1, <4>1, <4>2, <4>3
    <3>2. CASE b # 1
      <4>1. bus.n = b - 1 /\ bus.byte = Top(c, b - 1) /\ b - 1 \in 1..7
        BY <1>4, <1>5, <1>8, <3>2
      <4>2. ((b - 1) % 9) + 1 = b
        BY <4>1
      <4>3. QED
        BY <1>4, <2>4, <4>1, <4>2
    <3>3. QED
      BY <3>1, <3>2
  <2>6. InReceive(c, o, j, 3, w)'
    BY <1>4, <1>5, <1>8, <2>1, <2>4, <2>5 DEF InReceive, b, x
  <2>7. QED
    BY <1>8, <2>4, <2>6 DEF c
<1>9. CASE a \in {3, 4}
  <2>1. Lines(scl, out, 0) /\ dir = 0 /\ w = v
    BY <1>1, <1>6, <1>9, AccessIs
  <2>2. Level(0, out, dev.pull) = Sda
    BY <2>1 DEF Sda
  <2>3. scl' = scl /\ dir' = 0 /\ bus' = bus /\ dev' = dev /\ log' = log
    BY <1>2, <2>1, <2>2, Keeps
  <2>4. a + 1 \in 4..5
    BY <1>9
  <2>5. InReceive(c, o, j, a + 1, w)'
    BY <1>4, <1>6, <1>9, <2>1, <2>3, <2>4 DEF InReceive, b, x
  <2>6. QED
    BY <1>9, <2>3, <2>5 DEF c
<1>10. CASE a = 5
  <2>1. UNCHANGED <<scl, out, dir, dev, bus, log>> /\ dir = 0 /\ dev.pull = x
    BY <1>1, <1>6, <1>10, AccessIs
  <2>2. Sda = x
    BY <2>1 DEF Sda, Level
  <2>3. w = Top(c, b)
    BY <1>4, <1>6, <1>10, <2>2
  <2>4. InReceive(c, o, j, 6, w)'
    BY <1>4, <1>6, <1>10, <2>1, <2>3 DEF InReceive, b, x
  <2>5. QED
    BY <1>10, <2>1, <2>4 DEF c
<1>11. CASE a = 6
  <2>1. /\ Lines(0, out, dir) /\ scl = 1 /\ dir = 0 /\ bus.n = b /\ bus.byte = Top(c, b)
        /\ dev.role = o /\ dev.pull = x /\ v = Top(c, b) /\ w = v
    BY <1>1, <1>6, <1>11, AccessIs
  <2>2. /\ scl' = 0 /\ dir' = 0 /\ bus' = bus /\ log' = log
        /\ bus.n \in 1..7 /\ dev.role = "tx" => dev' = Transmit(bus.n + 1)
        /\ bus.n \in 1..7 /\ dev.role # "tx" => dev' = dev
    BY <1>2, <2>1, Falls
  <2>3. CASE b \in 1..7
    <3>1. dev'.role = o /\ dev'.pull = BitOf(c, b + 1)
      <4>1. CASE o = "tx"
        BY <2>1, <2>2, <2>3, <4>1, ShownBits DEF Transmit, c
      <4>2. CASE o # "tx"
        <5>1. dev' = dev /\ b + 1 \in 1..8
          BY <2>1, <2>2, <2>3, <4>2
        <5>2. BitOf(c, b + 1) = 1 /\ BitOf(c, b) = 1
          BY <1>4, <4>2, <5>1, ShownBits DEF c
        <5>3. QED
          BY <2>1, <5>1, <5>2 DEF x
      <4>3. QED
        BY <4>1, <4>2
    <3>2. b + 1 = (j + 1) - 1 /\ j + 1 # 2 /\ j + 1 \in 3..9
      BY <2>3 DEF b
    <3>3. InReceive(c, o, j + 1, 1, w)'
      BY <1>4, <2>1, <2>2, <2>3, <3>1, <3>2 DEF InReceive
    <3>4. QED
      BY <1>11, <2>2, <3>3 DEF c
  <2>4. CASE b = 8
    <3>1. j + 1 = 10 /\ w = c /\ bus.n = 8 /\ bus.byte = c
      BY <1>4, <2>1, <2>4 DEF b
    <3>2. InReceive(c, o, j + 1, 1, w)'
      BY <2>2, <3>1 DEF InReceive
    <3>3. QED
      BY <1>11, <2>2, <3>2 DEF c
  <2>5. QED
    BY <1>4, <2>3, <2>4
<1>12. QED
  BY <1>7, <1>8, <1>9, <1>10, <1>11

LEMMA ReceiveTail ==
    ASSUME TypeOK, NEW c, NEW o, NEW a, NEW v, InReceive(c, o, 10, a, v),
           Write(i2c_receive_byte[10][a])
    PROVE  /\ a = 1 /\ v = c /\ log' = log
           /\ scl' = 0 /\ dir' = 0 /\ bus'.n = 8 /\ bus'.byte = c
<1>1. a = 1 /\ dir = 0 /\ scl = 0 /\ bus.n = 8 /\ bus.byte = c /\ v = c
  BY DEF InReceive
<1>2. i2c_receive_byte[10][1] = "irqon"
  BY ReceiveRounds
<1>3. UNCHANGED <<scl, out, dir, dev, bus, log>>
  BY <1>1, <1>2, AccessIs
<1>4. QED
  BY <1>1, <1>3

LEMMA LogGrows ==
    ASSUME TypeOK, NEW a, Write(a), NEW t \in Tasks, InCall(t)
    PROVE  \E u \in Seq(Nat) : log'[t] = log[t] \o u
<1>1. log[t] \in Seq(Nat) /\ bus.byte \in Nat
  BY DEF TypeOK
<1>2. \A c, s : Word(c, s) \in Seq(Nat)
  <2>1. START \in Nat /\ STOP \in Nat
    BY DEF START, STOP
  <2>2. QED
    BY <1>1, <2>1 DEF Word
<1>3. ASSUME NEW c, NEW o, NEW d, Lines(c, o, d)
      PROVE  \E u \in Seq(Nat) : log'[t] = log[t] \o u
  <2>1. log'[t] = log[t] \o Word(c, Level(d, o, dev.pull))
    BY <1>3 DEF Lines
  <2>2. QED
    BY <1>2, <2>1
<1>4. ASSUME UNCHANGED log
      PROVE  \E u \in Seq(Nat) : log'[t] = log[t] \o u
  <2>1. log'[t] = log[t] \o <<>> /\ <<>> \in Seq(Nat)
    BY <1>1, <1>4
  <2>2. QED
    BY <2>1
<1>5. QED
  BY <1>3, <1>4 DEF Write

\* The second byte of a 16-bit read: what its bits are is not said, the first byte is kept.
LEMMA SecondCore ==
    ASSUME TypeOK, NEW c \in Bytes, NEW j, NEW a, NEW v \in Nat, InSecond(c, j, a, v),
           Write(i2c_receive_byte[j][a]),
           NEW w, w = IF j \in 2..9 /\ a = 5 THEN 2 * v + Sda ELSE v
    PROVE  /\ j = 1 => a = 1 /\ InSecond(c, 2, 1, w)'
           /\ j \in 2..9 /\ a < 6 => InSecond(c, j, a + 1, w)'
           /\ j \in 2..9 /\ a = 6 => InSecond(c, j + 1, 1, w)'
           /\ j = 10 => a = 1 /\ scl' = 0 /\ dir' = 0 /\ Hi(w) = c
<1>1. out \in Levels /\ dir \in Levels /\ scl \in Levels /\ 0 \in Levels /\ 1 \in Levels
  BY DEF TypeOK, Levels
<1>2. dir = 0
  BY DEF InSecond
<1>3. c \in Nat /\ c <= 255
  BY Ranges
<1>4. /\ 2^0 = 1 /\ 2^1 = 2 /\ 2^2 = 4 /\ 2^3 = 8 /\ 2^4 = 16 /\ 2^5 = 32 /\ 2^6 = 64
      /\ 2^7 = 128 /\ 2^8 = 256
  OBVIOUS
<1>5. CASE j = 1
  <2>1. a = 1 /\ scl = 0 /\ v = c /\ w = v
    BY <1>5 DEF InSecond
  <2>2. i2c_receive_byte[1][1] = "irqoff"
    BY ReceiveRounds
  <2>3. UNCHANGED <<scl, out, dir, dev, bus, log>>
    BY <1>5, <2>1, <2>2, AccessIs
  <2>4. w = c * 2^0 + 0 /\ 0 \in 0..(2^0 - 1)
    BY <1>3, <1>4, <2>1
  <2>5. 2 - 2 = 0
    OBVIOUS
  <2>6. \E x \in 0..(2^(2 - 2) - 1) : w = c * 2^(2 - 2) + x
    BY <2>4, <2>5
  <2>7. InSecond(c, 2, 1, w)'
    BY <1>2, <2>1, <2>3, <2>6 DEF InSecond
  <2>8. QED
    BY <1>5, <2>1, <2>7
<1>6. CASE j \in 2..9
  <2> DEFINE Read(b, n) == \E x \in 0..(2^b - 1) : n = c * 2^b + x
  <2>1. /\ a \in 1..6 /\ (a \in 1..2 => scl = 0)
        /\ Read(IF a = 6 THEN j - 1 ELSE j - 2, v)
    BY <1>6 DEF InSecond
  <2>2. /\ i2c_receive_byte[j][1] = "scl0" /\ i2c_receive_byte[j][2] = "scl1"
        /\ i2c_receive_byte[j][3] = "in" /\ i2c_receive_byte[j][4] = "in"
        /\ i2c_receive_byte[j][5] = "sample" /\ i2c_receive_byte[j][6] = "scl0"
    <3>1. j - 1 \in 1..8 /\ (j - 1) + 1 = j
      BY <1>6
    <3>2. i2c_receive_byte[j] = <<"scl0", "scl1", "in", "in", "sample", "scl0">>
      BY <3>1, ReceiveRounds
    <3>3. QED
      BY <3>2
  <2>3. dir' = 0 /\ (a \in {1, 6} => scl' = 0)
    <3>1. a \in {1, 6} => Lines(0, out, dir)
      BY <2>2, AccessIs
    <3>2. a = 2 => Lines(1, out, dir)
      BY <2>2, AccessIs
    <3>3. a \in {3, 4} => Lines(scl, out, 0)
      BY <2>2, AccessIs
    <3>4. a = 5 => UNCHANGED <<scl, out, dir, dev, bus, log>>
      BY <2>2, AccessIs
    <3>5. a \in {1, 2, 3, 4, 5, 6}
      BY <2>1
    <3>6. QED
      BY <1>2, <3>1, <3>2, <3>3, <3>4, <3>5 DEF Lines
  <2>4. a # 5 => w = v
    OBVIOUS
  <2>5. ASSUME a = 5
        PROVE  Read(j - 1, w)
    <3>1. Sda \in {0, 1} /\ w = 2 * v + Sda
      BY <1>6, <2>5, Sampled DEF Levels
    <3>2. PICK x \in 0..(2^(j - 2) - 1) : v = c * 2^(j - 2) + x
      BY <2>1, <2>5
    <3>3. j - 2 \in {0, 1, 2, 3, 4, 5, 6, 7}
      BY <1>6
    <3>4. j - 1 = (j - 2) + 1
      BY <1>6
    <3>5. 2^(j - 2) \in Nat \ {0} /\ 2^(j - 1) = 2 * 2^(j - 2)
      <4> DEFINE p(e) == 2^e
                 q(e) == p(e) \in Nat \ {0} /\ p(e + 1) = 2 * p(e)
      <4>1. /\ p(0) = 1 /\ p(1) = 2 /\ p(2) = 4 /\ p(3) = 8 /\ p(4) = 16 /\ p(5) = 32 /\ p(6) = 64
            /\ p(7) = 128 /\ p(8) = 256
        BY <1>4
      <4> HIDE DEF p
      <4>2. q(0) /\ q(1) /\ q(2) /\ q(3) /\ q(4) /\ q(5) /\ q(6) /\ q(7)
        BY <4>1
      <4> HIDE DEF q
      <4>3. q(j - 2)
        BY <3>3, <4>2
      <4>4. p(j - 2) \in Nat \ {0} /\ p(j - 1) = 2 * p(j - 2)
        BY <3>4, <4>3 DEF q
      <4>5. QED
        BY <4>4 DEF p
    <3>6. ASSUME NEW p \in Nat, NEW y \in 0..(p - 1), NEW s \in {0, 1}
          PROVE  2 * (c * p + y) + s = c * (2 * p) + (2 * y + s) /\ 2 * y + s \in 0..(2 * p - 1)
      <4>1. c * p \in Nat /\ c * (2 * p) = 2 * (c * p)
        BY <1>3
      <4>2. QED
        BY <4>1
    <3>7. /\ 2 * (c * 2^(j - 2) + x) + Sda = c * (2 * 2^(j - 2)) + (2 * x + Sda)
          /\ 2 * x + Sda \in 0..(2 * 2^(j - 2) - 1)
      BY <3>1, <3>5, <3>6
    <3>8. w = c * 2^(j - 1) + (2 * x + Sda) /\ 2 * x + Sda \in 0..(2^(j - 1) - 1)
      BY <3>1, <3>2, <3>5, <3>7
    <3>9. QED
      BY <3>8
  <2>6. a < 6 => /\ a + 1 \in 2..6
                 /\ Read(IF a + 1 = 6 THEN j - 1 ELSE j - 2, w)
    <3> HIDE DEF Read
    <3>1. CASE a = 5
      BY <2>5, <3>1
    <3>2. CASE a # 5
      BY <2>1, <2>4, <3>2
    <3>3. QED
      BY <3>1, <3>2
  <2>7. a = 6 => Read(j - 1, w)
    <3> HIDE DEF Read
    <3>1. QED
      BY <2>1, <2>4
  <2>8. a < 6 => InSecond(c, j, a + 1, w)'
    <3>1. ASSUME a < 6
          PROVE  a + 1 \in 1..2 => scl' = 0
      BY <2>1, <2>3, <3>1
    <3>2. QED
      BY <1>6, <2>3, <2>6, <3>1 DEF InSecond
  <2>9. a = 6 => InSecond(c, j + 1, 1, w)'
    <3>1. ASSUME a = 6, j = 9
          PROVE  InSecond(c, 10, 1, w)'
      <4>1. PICK x \in 0..(2^8 - 1) : w = c * 2^8 + x
        <5>1. j - 1 = 8
          BY <3>1
        <5>2. QED
          BY <2>7, <3>1, <5>1
      <4>2. x \in 0..255 /\ w = c * 256 + x
        BY <1>4, <4>1
      <4>3. Hi(w) = c
        BY <1>3, <4>2 DEF Hi
      <4>4. QED
        BY <2>3, <3>1, <4>3 DEF InSecond
    <3>2. ASSUME a = 6, j # 9
          PROVE  InSecond(c, j + 1, 1, w)'
      <4>1. j + 1 \in 3..9 /\ (j + 1) - 2 = j - 1
        BY <1>6, <3>2
      <4>2. QED
        BY <2>3, <2>7, <3>2, <4>1 DEF InSecond
    <3>3. j = 9 => j + 1 = 10
      OBVIOUS
    <3>4. QED
      BY <3>1, <3>2, <3>3
  <2>10. QED
    BY <1>6, <2>8, <2>9
<1>7. CASE j = 10
  <2>1. a = 1 /\ scl = 0 /\ Hi(v) = c /\ w = v
    BY <1>7 DEF InSecond
  <2>2. i2c_receive_byte[10][1] = "irqon"
    BY ReceiveRounds
  <2>3. UNCHANGED <<scl, out, dir, dev, bus, log>>
    BY <1>7, <2>1, <2>2, AccessIs
  <2>4. QED
    BY <1>2, <1>7, <2>1, <2>3
<1>8. QED
  BY <1>5, <1>6, <1>7

LEMMA StopCore ==
    ASSUME TypeOK, NEW r, r.kind \in {"read8", "write8", "read16", "write16"}, NEW c,
           NEW a \in 1..7, InStop(r, c, a), Write(i2c_stop_bit[1][a])
    PROVE  /\ a < 7 => InStop(r, c, a + 1)'
           /\ a = 7 => Idle' /\ \A t \in Tasks : InCall(t) => log'[t] = log[t] \o <<STOP>>
           /\ a = 1 /\ Unclocked(r) => \A t \in Tasks : InCall(t) => log'[t] = log[t] \o <<c>>
           /\ r.kind # "read16" /\ a < 7 /\ ~(a = 1 /\ Unclocked(r)) => log' = log
<1>1. /\ i2c_stop_bit[1][1] = "scl1" /\ i2c_stop_bit[1][2] = "scl0"
      /\ i2c_stop_bit[1][3] = "out" /\ i2c_stop_bit[1][4] = "sda0"
      /\ i2c_stop_bit[1][5] = "scl1" /\ i2c_stop_bit[1][6] = "out"
      /\ i2c_stop_bit[1][7] = "sda1"
  BY DEF i2c_stop_bit
<1>2. out \in Levels /\ dir \in Levels /\ scl \in Levels /\ 0 \in Levels /\ 1 \in Levels
  BY DEF TypeOK, Levels
<1>3. bus.n \in 0..9
  BY DEF TypeOK
<1>4. CASE a = 1
  <2>1. /\ Lines(1, out, dir) /\ scl = 0
        /\ dir = IF r.kind = "write8" THEN 1 ELSE 0
        /\ Unclocked(r) => bus.n = 8 /\ bus.byte = c
        /\ r.kind = "write16" => bus.n = 9
    BY <1>1, <1>4, AccessIs DEF InStop
  <2>2. /\ scl' = 1 /\ dir' = dir /\ bus'.n = (bus.n % 9) + 1
        /\ bus.n # 8 => log' = log
        /\ bus.n = 8 => \A t \in Tasks : InCall(t) => log'[t] = log[t] \o <<bus.byte>>
    BY <1>2, <2>1, Rises
  <2>3. r.kind # "read16" => bus'.n # 8
    <3>1. (8 % 9) + 1 = 9 /\ (9 % 9) + 1 = 1
      OBVIOUS
    <3>2. QED
      BY <2>1, <2>2, <3>1 DEF Unclocked
  <2>4. InStop(r, c, 2)'
    BY <2>1, <2>2, <2>3 DEF InStop
  <2>5. QED
    BY <1>4, <2>1, <2>2, <2>4 DEF Unclocked
<1>5. CASE a = 2
  <2>1. /\ Lines(0, out, dir) /\ scl = 1
        /\ dir = IF r.kind = "write8" THEN 1 ELSE 0
        /\ r.kind # "read16" => bus.n # 8
    BY <1>1, <1>5, AccessIs DEF InStop
  <2>2. scl' = 0 /\ dir' = dir /\ bus' = bus /\ log' = log
    BY <1>2, <2>1, Falls
  <2>3. InStop(r, c, 3)'
    BY <2>1, <2>2 DEF InStop
  <2>4. QED
    BY <1>5, <2>2, <2>3
<1>6. CASE a \in {3, 4}
  <2>1. /\ a = 3 => Lines(scl, out, 1)
        /\ a = 4 => Lines(scl, 0, dir) /\ dir = 1
        /\ scl = 0 /\ (r.kind # "read16" => bus.n # 8)
    BY <1>1, <1>6, AccessIs DEF InStop
  <2>2. \A e : scl = 1 => e = Sda
    BY <2>1
  <2>3. /\ scl' = scl /\ bus' = bus /\ log' = log /\ dir' = 1
        /\ a = 4 => out' = 0
    <3>1. CASE a = 3
      BY <1>2, <2>1, <2>2, <3>1, Keeps
    <3>2. CASE a = 4
      BY <1>2, <2>1, <2>2, <3>2, Keeps
    <3>3. QED
      BY <1>6, <3>1, <3>2
  <2>4. InStop(r, c, a + 1)'
    BY <1>6, <2>1, <2>3 DEF InStop
  <2>5. QED
    BY <1>6, <2>3, <2>4
<1>7. CASE a = 5
  <2>1. Lines(1, out, dir) /\ scl = 0 /\ dir = 1 /\ out = 0 /\ (r.kind # "read16" => bus.n # 8)
    BY <1>1, <1>7, AccessIs DEF InStop
  <2>2. scl' = 1 /\ dir' = 1 /\ out' = 0 /\ (bus.n # 8 => log' = log)
    BY <1>2, <2>1, Rises
  <2>3. InStop(r, c, 6)'
    BY <2>2 DEF InStop
  <2>4. QED
    BY <1>7, <2>1, <2>2, <2>3
<1>8. CASE a = 6
  <2>1. Lines(scl, out, 1) /\ scl = 1 /\ dir = 1 /\ out = 0
    BY <1>1, <1>8, AccessIs DEF InStop
  <2>2. Level(1, out, dev.pull) = Sda
    BY <2>1 DEF Sda
  <2>3. scl' = scl /\ out' = out /\ dir' = 1 /\ log' = log
    BY <1>2, <2>1, <2>2, Keeps
  <2>4. InStop(r, c, 7)'
    BY <2>1, <2>3 DEF InStop
  <2>5. QED
    BY <1>8, <2>3, <2>4
<1>9. CASE a = 7
  <2>1. Lines(1, 1, dir) /\ scl = 1 /\ dir = 1 /\ out = 0
    BY <1>1, <1>9, AccessIs DEF InStop
  <2>2. Sda = 0 /\ Level(dir, 1, dev.pull) = 1
    BY <2>1 DEF Sda, Level
  <2>3. /\ scl' = 1 /\ out' = 1 /\ dir' = dir
        /\ bus' = [n |-> 0, byte |-> 0, last |-> 1] /\ dev' = Off
        /\ \A t \in Tasks : InCall(t) => log'[t] = log[t] \o <<STOP>>
    BY <1>2, <2>1, <2>2, Closes
  <2>4. QED
    BY <1>9, <2>1, <2>3 DEF Idle, Off
<1>10. QED
  BY <1>4, <1>5, <1>6, <1>7, <1>8, <1>9

-----------------------------------------------------------------------------
(* What a call has put on the wire. *)

LEMMA TellOne ==
    ASSUME NEW t, log[t] \in Seq(Nat), NEW r, NEW n \in Nat, Told(t, r, n),
           NEW w \in Nat, w = Frame(r)[n + 1], log'[t] = log[t] \o <<w>>
    PROVE  Told(t, r, n + 1)'
<1>1. Len(log[t]) = n /\ \A i \in 1..n : log[t][i] = Frame(r)[i]
  BY DEF Told
<1>2. <<w>> \in Seq(Nat) /\ Len(<<w>>) = 1 /\ <<w>>[1] = w
  OBVIOUS
<1>3. /\ Len(log'[t]) = Len(log[t]) + Len(<<w>>)
      /\ \A i \in 1..Len(log[t]) : log'[t][i] = log[t][i]
      /\ \A i \in 1..Len(<<w>>) : log'[t][Len(log[t]) + i] = <<w>>[i]
  <2>1. /\ Len(log[t] \o <<w>>) = Len(log[t]) + Len(<<w>>)
        /\ \A i \in 1..Len(log[t]) : (log[t] \o <<w>>)[i] = log[t][i]
        /\ \A i \in 1..Len(<<w>>) : (log[t] \o <<w>>)[Len(log[t]) + i] = <<w>>[i]
    BY <1>2, Joined
  <2>2. QED
    BY <2>1
<1>4. Len(log'[t]) = n + 1 /\ log'[t][n + 1] = w
  <2>1. 1 \in 1..Len(<<w>>)
    BY <1>2
  <2>2. QED
    BY <1>1, <1>2, <1>3, <2>1
<1>5. \A i \in 1..(n + 1) : log'[t][i] = Frame(r)[i]
  <2>1. \A i \in 1..n : log'[t][i] = Frame(r)[i]
    BY <1>1, <1>3
  <2>2. \A i \in 1..(n + 1) : i \in 1..n \/ i = n + 1
    OBVIOUS
  <2>3. QED
    BY <1>4, <2>1, <2>2
<1>6. QED
  BY <1>4, <1>5 DEF Told

LEMMA TellMore ==
    ASSUME NEW t, log[t] \in Seq(Nat), NEW r, Len(Frame(r)) \in Nat, ToldAll(t, r),
           NEW u \in Seq(Nat), log'[t] = log[t] \o u
    PROVE  ToldAll(t, r)'
<1>1. /\ Len(log[t] \o u) = Len(log[t]) + Len(u)
      /\ \A i \in 1..Len(log[t]) : (log[t] \o u)[i] = log[t][i]
  BY Joined
<1>2. Len(log[t]) \in Nat /\ Len(u) \in Nat
  OBVIOUS
<1>3. Len(log'[t]) >= Len(Frame(r))
  BY <1>1, <1>2 DEF ToldAll
<1>4. ASSUME NEW i \in 1..Len(Frame(r))
      PROVE  log'[t][i] = Frame(r)[i]
  <2>1. i \in 1..Len(log[t]) /\ log[t][i] = Frame(r)[i]
    BY <1>2 DEF ToldAll
  <2>2. QED
    BY <1>1, <2>1
<1>5. QED
  BY <1>3, <1>4 DEF ToldAll

LEMMA TellSame ==
    ASSUME NEW t, log'[t] = log[t], NEW r, NEW n
    PROVE  (Told(t, r, n) => Told(t, r, n)') /\ (ToldAll(t, r) => ToldAll(t, r)')
  BY DEF Told, ToldAll

LEMMA TellAll ==
    ASSUME NEW t, NEW r, Len(Frame(r)) \in Nat
    PROVE  /\ Told(t, r, Len(Frame(r))) => ToldAll(t, r)
           /\ Told(t, r, Len(Frame(r)))' => ToldAll(t, r)'
  BY DEF Told, ToldAll

LEMMA AlikeIsPrefix ==
    ASSUME NEW s \in Seq(Nat), NEW f \in Seq(Nat), Len(s) <= Len(f),
           \A i \in 1..Len(s) : s[i] = f[i]
    PROVE  IsPrefix(s, f)
<1>1. SubSeq(f, 1, Len(s)) = SubSeq(s, 1, Len(s))
  <2> DEFINE n == Len(s)
             p == SubSeq(f, 1, n)
             q == SubSeq(s, 1, n)
  <2>1. n \in Nat /\ \A i \in 1..n : i \in 1..Len(f) /\ i \in 1..Len(s) /\ s[i] = f[i]
    OBVIOUS
  <2>2. p \in Seq(Nat) /\ q \in Seq(Nat) /\ Len(p) = n /\ Len(q) = n
    BY <2>1
  <2>3. \A i \in 1..n : p[i] = f[i] /\ q[i] = s[i]
    BY <2>1
  <2> HIDE DEF p, q, n
  <2>4. \A i \in 1..n : p[i] = q[i]
    BY <2>1, <2>3
  <2>5. p = q
    <3>1. p \in [1..n -> Nat] /\ q \in [1..n -> Nat]
      BY <2>2
    <3>2. p = [i \in 1..n |-> p[i]] /\ q = [i \in 1..n |-> q[i]]
      BY <3>1
    <3>3. [i \in 1..n |-> p[i]] = [i \in 1..n |-> q[i]]
      BY <2>4
    <3>4. QED
      BY <3>2, <3>3
  <2>6. QED
    BY <2>5 DEF p, q, n
<1>2. QED
  BY <1>1 DEF IsPrefix

-----------------------------------------------------------------------------
(* The types. *)

LEMMA TypeLines ==
    ASSUME TypeOK, NEW c \in Levels, NEW o \in Levels, NEW d \in Levels, Lines(c, o, d)
    PROVE  /\ scl' \in Levels /\ out' \in Levels /\ dir' \in Levels
           /\ dev' \in [role : {"off", "addr", "rx", "tx"}, pull : Levels]
           /\ bus' \in [n : 0..9, byte : Nat, last : Levels]
           /\ log' \in [Tasks -> Seq(Nat)]
<1> DEFINE s == Level(d, o, dev.pull)
<1>1. s \in Levels
  BY Sampled
<1>2. bus \in [n : 0..9, byte : Nat, last : Levels] /\ bus.n \in 0..9 /\ bus.byte \in Nat
  BY DEF TypeOK
<1>3. dev \in [role : {"off", "addr", "rx", "tx"}, pull : Levels]
  BY DEF TypeOK
<1>4. 0 \in Levels /\ 1 \in Levels /\ Levels \subseteq Nat
  BY DEF Levels
<1> HIDE DEF s
<1>5. (bus.n % 9) + 1 \in 0..9 /\ s \in Nat /\ 2 * bus.byte + s \in Nat
  BY <1>1, <1>2, <1>4
<1>6. Heard(c, s) \in [n : 0..9, byte : Nat, last : Levels]
  BY <1>1, <1>2, <1>4, <1>5 DEF Heard
<1>7. \A n \in 1..8 : Transmit(n) \in [role : {"off", "addr", "rx", "tx"}, pull : Levels]
  BY TopBits, GpioConstants DEF GpioConstants, Transmit
<1>8. Answer(c, s) \in [role : {"off", "addr", "rx", "tx"}, pull : Levels]
  <2>1. bus.n \in 1..7 => bus.n + 1 \in 1..8
    OBVIOUS
  <2>2. 1 \in 1..8
    OBVIOUS
  <2> DEFINE D == [role : {"off", "addr", "rx", "tx"}, pull : Levels]
  <2>3. /\ Off \in D /\ [role |-> "addr", pull |-> 1] \in D /\ [role |-> "rx", pull |-> 0] \in D
        /\ [dev EXCEPT !.pull = 1] \in D /\ dev \in D
    BY <1>3, <1>4 DEF Off
  <2>4. Addressed \in D
    BY <1>4, <2>3 DEF Addressed
  <2>5. (bus.n \in 1..7 => Transmit(bus.n + 1) \in D) /\ Transmit(1) \in D
    BY <1>7, <2>1, <2>2
  <2> HIDE DEF D
  <2>6. Answer(c, s) \in D
    BY <2>3, <2>4, <2>5 DEF Answer
  <2>7. QED
    BY <2>6 DEF D
<1>9. \A x \in Tasks : log[x] \in Seq(Nat) /\ log[x] \o Word(c, s) \in Seq(Nat)
  <2>1. \A x \in Tasks : log[x] \in Seq(Nat)
    BY DEF TypeOK
  <2>2. Word(c, s) \in Seq(Nat)
    BY <1>2 DEF Word, START, STOP
  <2>3. QED
    BY <2>1, <2>2
<1>10. QED
  <2>1. log' = [x \in Tasks |-> IF InCall(x) THEN log[x] \o Word(c, s) ELSE log[x]]
    BY DEF Lines, s
  <2>2. log' \in [Tasks -> Seq(Nat)]
    BY <1>9, <2>1
  <2>3. QED
    BY <1>6, <1>8, <2>2 DEF Lines, s

LEMMA TypeWrite ==
    ASSUME TypeOK, NEW a, Write(a)
    PROVE  /\ scl' \in Levels /\ out' \in Levels /\ dir' \in Levels
           /\ dev' \in [role : {"off", "addr", "rx", "tx"}, pull : Levels]
           /\ bus' \in [n : 0..9, byte : Nat, last : Levels]
           /\ log' \in [Tasks -> Seq(Nat)]
<1>1. scl \in Levels /\ out \in Levels /\ dir \in Levels /\ 0 \in Levels /\ 1 \in Levels
  BY DEF TypeOK, Levels
<1>2. CASE UNCHANGED <<scl, out, dir, dev, bus, log>>
  BY <1>2 DEF TypeOK
<1>3. CASE \E c, o, d \in Levels : Lines(c, o, d)
  BY <1>3, TypeLines
<1>4. QED
  BY <1>1, <1>2, <1>3 DEF Write

LEMMA TypeNext == TypeOK /\ [Next]_vars => TypeOK'
<1> SUFFICES ASSUME TypeOK, [Next]_vars PROVE TypeOK'
  OBVIOUS
<1>1. CASE UNCHANGED vars
  BY <1>1 DEF TypeOK, vars
<1>2. ASSUME NEW t \in Tasks, Begin(t)
      PROVE  TypeOK'
  <2>1. PICK r \in Requests : req' = [req EXCEPT ![t] = r]
    BY <1>2 DEF Begin
  <2>2. req' \in [Tasks -> Requests \cup {NoRequest}]
    BY <2>1 DEF TypeOK
  <2>3. at' \in [Tasks -> [routine : Nat, round : Nat, access : Nat]]
    <3>1. Begun(1) \in [routine : Nat, round : Nat, access : Nat]
      BY DEF Begun, Spot
    <3>2. QED
      BY <1>2, <3>1 DEF TypeOK, Begin
  <2>4. rx' \in [Tasks -> Nat] /\ log' \in [Tasks -> Seq(Nat)]
    BY <1>2 DEF TypeOK, Begin
  <2>5. QED
    BY <1>2, <2>2, <2>3, <2>4 DEF TypeOK, Begin
<1>3. ASSUME NEW t \in Tasks, Step(t)
      PROVE  TypeOK'
  <2>1. /\ scl' \in Levels /\ out' \in Levels /\ dir' \in Levels
        /\ dev' \in [role : {"off", "addr", "rx", "tx"}, pull : Levels]
        /\ bus' \in [n : 0..9, byte : Nat, last : Levels]
        /\ log' \in [Tasks -> Seq(Nat)]
    BY <1>3, TypeWrite DEF Step
  <2>2. Place(t) \in [routine : Nat, round : Nat, access : Nat]
    <3>1. at[t] \in [routine : Nat, round : Nat, access : Nat]
      BY DEF TypeOK
    <3>2. at[t].access \in Nat /\ at[t].round \in Nat /\ at[t].routine \in Nat
      BY <3>1
    <3>3. \A n, j, a \in Nat : Spot(n, j, a) \in [routine : Nat, round : Nat, access : Nat]
      BY DEF Spot
    <3>4. at[t].access + 1 \in Nat /\ at[t].round + 1 \in Nat /\ at[t].routine + 1 \in Nat /\ 1 \in Nat
      BY <3>2
    <3>5. /\ Spot(at[t].routine, at[t].round, at[t].access + 1) \in [routine : Nat, round : Nat, access : Nat]
          /\ Spot(at[t].routine, at[t].round + 1, 1) \in [routine : Nat, round : Nat, access : Nat]
          /\ Spot(at[t].routine + 1, 1, 1) \in [routine : Nat, round : Nat, access : Nat]
      BY <3>2, <3>3, <3>4
    <3>6. QED
      BY <3>5 DEF Place, Begun
  <2>3. at' \in [Tasks -> [routine : Nat, round : Nat, access : Nat]]
    BY <1>3, <2>2 DEF TypeOK, Step
  <2>4. rx' \in [Tasks -> Nat]
    <3>1. rx \in [Tasks -> Nat]
      BY DEF TypeOK
    <3>2. Sda \in Nat
      BY Sampled DEF Levels
    <3>3. [rx EXCEPT ![t] = 2 * @ + Sda] \in [Tasks -> Nat]
      BY <3>1, <3>2
    <3>4. QED
      BY <1>3, <3>1, <3>3 DEF Step
  <2>5. QED
    BY <1>3, <2>1, <2>3, <2>4 DEF TypeOK, Step
<1>4. ASSUME NEW t \in Tasks, Return(t)
      PROVE  TypeOK'
  BY <1>4 DEF TypeOK, Return
<1>5. QED
  BY <1>1, <1>2, <1>3, <1>4 DEF Next

-----------------------------------------------------------------------------
(* The steps of a call. *)

IsAt(t, k, j, a) == at[t].routine = k /\ at[t].round = j /\ at[t].access = a

LEMMA StepIs ==
    ASSUME NEW t \in Tasks, NEW r, NEW k, NEW j, NEW a, TypeOK, Step(t), req[t] = r,
           IsAt(t, k, j, a), NEW s, Rounds(Script(r)[k]) = s
    PROVE  /\ r # NoRequest /\ ~(k > Len(Script(r)))
           /\ k \in Nat /\ j \in Nat /\ a \in Nat
           /\ Write(s[j][a]) /\ req' = req
           /\ rx'[t] = IF s[j][a] = "sample" THEN 2 * rx[t] + Sda ELSE rx[t]
           /\ a < Len(s[j]) => IsAt(t, k, j, a + 1)'
           /\ a = Len(s[j]) /\ j < Len(s) => IsAt(t, k, j + 1, 1)'
           /\ a = Len(s[j]) /\ j = Len(s) => IsAt(t, k + 1, 1, 1)'
<1>1. /\ at[t].routine = k /\ at[t].round = j /\ at[t].access = a
      /\ k \in Nat /\ j \in Nat /\ a \in Nat
  BY DEF IsAt, TypeOK
<1>2. Now(t) = s /\ Access(t) = s[j][a]
  BY <1>1 DEF Now, Access
<1>3. rx'[t] = IF s[j][a] = "sample" THEN 2 * rx[t] + Sda ELSE rx[t]
  <2>1. rx \in [Tasks -> Nat]
    BY DEF TypeOK
  <2>2. rx' = IF s[j][a] = "sample" THEN [rx EXCEPT ![t] = 2 * @ + Sda] ELSE rx
    BY <1>2 DEF Step
  <2>3. QED
    BY <2>1, <2>2
<1>4. at'[t] = Place(t)
  <2>1. at \in [Tasks -> [routine : Nat, round : Nat, access : Nat]]
    BY DEF TypeOK
  <2>2. QED
    BY <2>1 DEF Step
<1>5. Place(t) = CASE a < Len(s[j]) -> Spot(k, j, a + 1)
                   [] a = Len(s[j]) /\ j < Len(s) -> Spot(k, j + 1, 1)
                   [] OTHER -> Spot(k + 1, 1, 1)
  BY <1>1, <1>2 DEF Place, Begun
<1>6. \A x, y, z : Spot(x, y, z).routine = x /\ Spot(x, y, z).round = y /\ Spot(x, y, z).access = z
  BY DEF Spot
<1>7. ASSUME a < Len(s[j])
      PROVE  IsAt(t, k, j, a + 1)'
  <2>1. a # Len(s[j])
    BY <1>1, <1>7
  <2>2. Place(t) = Spot(k, j, a + 1)
    BY <1>5, <1>7, <2>1
  <2>3. QED
    BY <1>4, <1>6, <2>2 DEF IsAt
<1>8. ASSUME a = Len(s[j]), j < Len(s)
      PROVE  IsAt(t, k, j + 1, 1)'
  <2>1. ~(a < Len(s[j]))
    BY <1>1, <1>8
  <2>2. Place(t) = Spot(k, j + 1, 1)
    BY <1>5, <1>8, <2>1
  <2>3. QED
    BY <1>4, <1>6, <2>2 DEF IsAt
<1>9. ASSUME a = Len(s[j]), j = Len(s)
      PROVE  IsAt(t, k + 1, 1, 1)'
  <2>1. ~(a < Len(s[j])) /\ ~(j < Len(s))
    BY <1>1, <1>9
  <2>2. Place(t) = Spot(k + 1, 1, 1)
    BY <1>5, <1>9, <2>1
  <2>3. QED
    BY <1>4, <1>6, <2>2 DEF IsAt
<1>10. r # NoRequest /\ ~(k > Len(Script(r))) /\ Write(s[j][a]) /\ req' = req
  BY <1>1, <1>2 DEF Step, InCall, Done
<1>11. QED
  BY <1>1, <1>3, <1>7, <1>8, <1>9, <1>10

\* Access a of round j of routine k is x, of m accesses in the round, of l rounds.
Shape(r, k, j, a, x, m, l) ==
    LET s == Rounds(Script(r)[k]) IN s[j][a] = x /\ Len(s[j]) = m /\ Len(s) = l

LEMMA StepOf ==
    ASSUME NEW t \in Tasks, NEW r, NEW k \in Nat, NEW j \in Nat, NEW a \in Nat, NEW x,
           NEW m \in Nat, NEW l \in Nat, TypeOK, Step(t), req[t] = r, IsAt(t, k, j, a), Shape(r, k, j, a, x, m, l)
    PROVE  /\ r # NoRequest /\ k \in Nat /\ Write(x) /\ req'[t] = r
           /\ rx'[t] = IF x = "sample" THEN 2 * rx[t] + Sda ELSE rx[t]
           /\ a < m => IsAt(t, k, j, a + 1)'
           /\ a = m /\ j < l => IsAt(t, k, j + 1, 1)'
           /\ a = m /\ j = l => IsAt(t, k + 1, 1, 1)'
  BY StepIs DEF Shape

\* Routine k of call r is one of this name.
Named(r, k, name) ==
    /\ r \in Requests /\ Len(Script(r)) \in Nat
    /\ k \in 1..Len(Script(r)) /\ Script(r)[k].name = name

LEMMA Arrives ==
    ASSUME NEW t, NEW r, NEW k, NEW j, NEW a, req'[t] = r, IsAt(t, k, j, a)', In(t, r, k, j, a)'
    PROVE  CallInv(t)'
  BY DEF CallInv, IsAt

LEMMA RoundsOf ==
    /\ Rounds(Start) = i2c_start_bit /\ Rounds(Stop) = i2c_stop_bit
    /\ Rounds(Ack) = i2c_receive_ack /\ Rounds(Receive) = i2c_receive_byte
    /\ \A c : Rounds(Send(c)) = i2c_send_byte(c)
  BY DEF Rounds, Start, Stop, Ack, Receive, Send, Routine

LEMMA Names ==
    /\ Start.name = "i2c_start_bit" /\ Stop.name = "i2c_stop_bit" /\ Ack.name = "i2c_receive_ack"
    /\ Receive.name = "i2c_receive_byte" /\ \A c : Send(c).name = "i2c_send_byte"
  BY DEF Start, Stop, Ack, Receive, Send, Routine

\* What In says, routine by routine, now and after a step.
LEMMA InStartIs ==
    ASSUME NEW t, NEW r, NEW k, NEW j, NEW a, Named(r, k, "i2c_start_bit")
    PROVE  /\ In(t, r, k, j, a) <=>
                 /\ j = 1 /\ InStart(k, Role(r, k), a)
                 /\ Told(t, r, Said(r, k)) /\ rx[t] = 0
           /\ In(t, r, k, j, a)' <=>
                 /\ j = 1 /\ InStart(k, Role(r, k), a)'
                 /\ Told(t, r, Said(r, k))' /\ rx'[t] = 0
<1>1. /\ k \in 1..(Len(Script(r)) + 1) /\ k # Len(Script(r)) + 1 /\ k <= Len(Script(r))
      /\ r \in Requests
  BY DEF Named
<1>2. QED
  BY <1>1 DEF In, Named

LEMMA InSendIs ==
    ASSUME NEW t, NEW r, NEW k, NEW j, NEW a, Named(r, k, "i2c_send_byte")
    PROVE  /\ In(t, r, k, j, a) <=>
                 /\ InSend(Next1(r, k), Role(r, k), j, a)
                 /\ Told(t, r, Said(r, k)) /\ rx[t] = 0
           /\ In(t, r, k, j, a)' <=>
                 /\ InSend(Next1(r, k), Role(r, k), j, a)'
                 /\ Told(t, r, Said(r, k))' /\ rx'[t] = 0
<1>1. /\ k \in 1..(Len(Script(r)) + 1) /\ k # Len(Script(r)) + 1 /\ k <= Len(Script(r))
      /\ r \in Requests
  BY DEF Named
<1>2. QED
  BY <1>1 DEF In, Named

LEMMA InAckIs ==
    ASSUME NEW t, NEW r, NEW k, NEW j, NEW a, Named(r, k, "i2c_receive_ack")
    PROVE  /\ In(t, r, k, j, a) <=>
                 /\ j = 1 /\ InAck(Next1(r, k), Role(r, k), a) /\ rx[t] = 0
                 /\ a > 3 => Told(t, r, Said(r, k) + 1)
                 /\ ~(a > 3) => Told(t, r, Said(r, k))
           /\ In(t, r, k, j, a)' <=>
                 /\ j = 1 /\ InAck(Next1(r, k), Role(r, k), a)' /\ rx'[t] = 0
                 /\ a > 3 => Told(t, r, Said(r, k) + 1)'
                 /\ ~(a > 3) => Told(t, r, Said(r, k))'
<1>1. /\ k \in 1..(Len(Script(r)) + 1) /\ k # Len(Script(r)) + 1 /\ k <= Len(Script(r))
      /\ r \in Requests
  BY DEF Named
<1>2. QED
  BY <1>1 DEF In, Named

LEMMA InReceiveIs ==
    ASSUME NEW t, NEW r, NEW k, NEW j, NEW a, NEW v, Named(r, k, "i2c_receive_byte")
    PROVE  /\ (In(t, r, k, j, a) <=>
                 /\ k # 18 => InReceive(Shown(Role(r, k)), Role(r, k), j, a, rx[t]) /\ Told(t, r, Said(r, k))
                 /\ k = 18 => InSecond(Shown(Role(r, k)), j, a, rx[t]) /\ ToldAll(t, r))
           /\ rx'[t] = v =>
              (In(t, r, k, j, a)' <=>
                 /\ k # 18 => InReceive(Shown(Role(r, k)), Role(r, k), j, a, v)' /\ Told(t, r, Said(r, k))'
                 /\ k = 18 => InSecond(Shown(Role(r, k)), j, a, v)' /\ ToldAll(t, r)')
<1>1. /\ k \in 1..(Len(Script(r)) + 1) /\ k # Len(Script(r)) + 1 /\ k <= Len(Script(r))
      /\ r \in Requests
  BY DEF Named
<1>2. QED
  BY <1>1 DEF In, Named

LEMMA InStopIs ==
    ASSUME NEW t, NEW r, NEW k, NEW j, NEW a, Named(r, k, "i2c_stop_bit")
    PROVE  /\ (In(t, r, k, j, a) <=>
                 /\ j = 1 /\ InStop(r, Next1(r, k), a) /\ Got(r, Role(r, k), rx[t])
                 /\ r.kind = "read16" => ToldAll(t, r)
                 /\ r.kind # "read16" /\ a > 1 /\ Unclocked(r) => Told(t, r, Said(r, k) + 1)
                 /\ r.kind # "read16" /\ ~(a > 1 /\ Unclocked(r)) => Told(t, r, Said(r, k)))
           /\ (In(t, r, k, j, a)' <=>
                 /\ j = 1 /\ InStop(r, Next1(r, k), a)' /\ Got(r, Role(r, k), rx'[t])
                 /\ r.kind = "read16" => ToldAll(t, r)'
                 /\ r.kind # "read16" /\ a > 1 /\ Unclocked(r) => Told(t, r, Said(r, k) + 1)'
                 /\ r.kind # "read16" /\ ~(a > 1 /\ Unclocked(r)) => Told(t, r, Said(r, k))')
<1>1. /\ k \in 1..(Len(Script(r)) + 1) /\ k # Len(Script(r)) + 1 /\ k <= Len(Script(r))
      /\ r \in Requests
  BY DEF Named
<1>2. QED
  BY <1>1 DEF In, Named

\* Where a call goes on, and what holds there.
LEMMA EntersSend ==
    ASSUME NEW t, NEW r, NEW k, Named(r, k, "i2c_send_byte"),
           req'[t] = r, IsAt(t, k, 1, 1)',
           IF Role(r, k) = "addr" THEN Opened' ELSE Acked(Role(r, k))',
           Told(t, r, Said(r, k))', rx'[t] = 0
    PROVE  CallInv(t)'
<1>1. InSend(Next1(r, k), Role(r, k), 1, 1)'
  BY DEF InSend
<1>2. In(t, r, k, 1, 1)'
  BY <1>1, InSendIs
<1>3. QED
  BY <1>2, Arrives

LEMMA EntersStart ==
    ASSUME NEW t, NEW r, NEW k, Named(r, k, "i2c_start_bit"),
           req'[t] = r, IsAt(t, k, 1, 1)',
           IF k = 1 THEN Idle' ELSE Acked(Role(r, k))' /\ dir' = 0,
           Told(t, r, Said(r, k))', rx'[t] = 0
    PROVE  CallInv(t)'
<1>1. InStart(k, Role(r, k), 1)'
  BY DEF InStart
<1>2. In(t, r, k, 1, 1)'
  BY <1>1, InStartIs
<1>3. QED
  BY <1>2, Arrives

LEMMA EntersAck ==
    ASSUME NEW t, NEW r, NEW k, Named(r, k, "i2c_receive_ack"),
           req'[t] = r, IsAt(t, k, 1, 1)',
           Sent(Next1(r, k), Role(r, k))', Told(t, r, Said(r, k))', rx'[t] = 0
    PROVE  CallInv(t)'
<1>1. InAck(Next1(r, k), Role(r, k), 1)'
  BY DEF InAck
<1>2. In(t, r, k, 1, 1)'
  BY <1>1, InAckIs
<1>3. QED
  BY <1>2, Arrives

LEMMA EntersReceive ==
    ASSUME NEW t, NEW r, NEW k, Named(r, k, "i2c_receive_byte"),
           req'[t] = r, IsAt(t, k, 1, 1)', k # 18,
           Acked(Role(r, k))', dir' = 0, Told(t, r, Said(r, k))', rx'[t] = 0
    PROVE  CallInv(t)'
<1>1. InReceive(Shown(Role(r, k)), Role(r, k), 1, 1, 0)'
  BY DEF InReceive
<1>2. In(t, r, k, 1, 1)'
  BY <1>1, InReceiveIs
<1>3. QED
  BY <1>2, Arrives

LEMMA EntersStop ==
    ASSUME NEW t, NEW r, NEW k, Named(r, k, "i2c_stop_bit"),
           req'[t] = r, IsAt(t, k, 1, 1)',
           InStop(r, Next1(r, k), 1)', NEW v, rx'[t] = v, Got(r, Role(r, k), v),
           IF r.kind = "read16" THEN ToldAll(t, r)' ELSE Told(t, r, Said(r, k))'
    PROVE  CallInv(t)'
<1>1. In(t, r, k, 1, 1)'
  BY InStopIs
<1>2. QED
  BY <1>1, Arrives

LEMMA StepStart ==
    ASSUME TypeOK, Discipline, NEW t \in Tasks, Step(t), NEW r, req[t] = r,
           NEW k, NEW j, NEW a, IsAt(t, k, j, a), Named(r, k, "i2c_start_bit"), In(t, r, k, j, a)
    PROVE  CallInv(t)'
<1> DEFINE o == Role(r, k)
           n == Said(r, k)
<1>1. r \in Requests /\ Len(Script(r)) \in Nat /\ k \in 1..Len(Script(r)) /\ Chart(r, k)
  BY Charts DEF Named
<1>2. /\ Script(r)[k] = Start /\ k < Len(Script(r))
      /\ Script(r)[k + 1].name = "i2c_send_byte"
      /\ Frame(r)[n + 1] = START /\ Said(r, k + 1) = n + 1 /\ Role(r, k + 1) = "addr"
      /\ k # 1 => o \in {"off", "rx"}
  BY <1>1, Names DEF Named, Chart, Following, Next1
<1>3. j = 1 /\ InStart(k, o, a) /\ Told(t, r, n) /\ rx[t] = 0 /\ a \in 1..4
  <2>1. j = 1 /\ InStart(k, o, a) /\ Told(t, r, n) /\ rx[t] = 0
    BY InStartIs
  <2>2. QED
    BY <2>1 DEF InStart
<1>4. Len(i2c_start_bit) = 1 /\ Len(i2c_start_bit[1]) = 4
  BY DEF i2c_start_bit
<1>5. Rounds(Script(r)[k]) = i2c_start_bit
  BY <1>2, RoundsOf
<1>6. /\ r # NoRequest /\ Write(i2c_start_bit[1][a]) /\ req'[t] = r
      /\ rx'[t] = IF i2c_start_bit[1][a] = "sample" THEN 2 * rx[t] + Sda ELSE rx[t]
      /\ a < 4 => IsAt(t, k, 1, a + 1)'
      /\ a = 4 => IsAt(t, k + 1, 1, 1)'
  <2>1. IsAt(t, k, 1, a) /\ Shape(r, k, 1, a, i2c_start_bit[1][a], 4, 1)
    BY <1>3, <1>4, <1>5 DEF Shape
  <2>2. k \in Nat /\ a \in Nat /\ 1 \in Nat /\ 4 \in Nat
    BY <1>1, <1>3
  <2>3. QED
    BY <2>1, <2>2, StepOf
<1>7. rx'[t] = 0
  <2>1. i2c_start_bit[1][a] # "sample"
    BY <1>3 DEF i2c_start_bit
  <2>2. QED
    BY <1>3, <1>6, <2>1
<1>8. /\ a < 4 => InStart(k, o, a + 1)' /\ log' = log
      /\ a = 4 => Opened' /\ log'[t] = log[t] \o <<START>>
  <2>1. InCall(t)
    BY <1>6 DEF InCall
  <2>2. QED
    BY <1>2, <1>3, <1>6, <2>1, StartCore
<1>9. CASE a < 4
  <2>1. Told(t, r, n)'
    BY <1>3, <1>8, <1>9, TellSame
  <2>2. In(t, r, k, 1, a + 1)'
    BY <1>1, <1>7, <1>8, <1>9, <2>1, InStartIs
  <2>3. QED
    BY <1>6, <1>9, <2>2, Arrives
<1>10. CASE a = 4
  <2>1. log[t] \in Seq(Nat) /\ n \in Nat /\ START \in Nat
    BY <1>3 DEF TypeOK, Told, START
  <2>2. Told(t, r, n + 1)'
    BY <1>2, <1>3, <1>8, <1>10, <2>1, TellOne
  <2>3. Named(r, k + 1, "i2c_send_byte")
    BY <1>1, <1>2 DEF Named
  <2>4. QED
    BY <1>2, <1>6, <1>7, <1>8, <1>10, <2>2, <2>3, EntersSend
<1>11. QED
  BY <1>3, <1>9, <1>10

LEMMA StepAck ==
    ASSUME TypeOK, Discipline, NEW t \in Tasks, Step(t), NEW r, req[t] = r,
           NEW k, NEW j, NEW a, IsAt(t, k, j, a), Named(r, k, "i2c_receive_ack"), In(t, r, k, j, a)
    PROVE  CallInv(t)'
<1> DEFINE o == Role(r, k)
           n == Said(r, k)
           c == Next1(r, k)
<1>1. r \in Requests /\ Len(Script(r)) \in Nat /\ k \in 1..Len(Script(r)) /\ Chart(r, k)
  BY Charts DEF Named
<1>2. /\ Script(r)[k] = Ack /\ k < Len(Script(r))
      /\ Script(r)[k + 1].name \in {"i2c_start_bit", "i2c_send_byte", "i2c_receive_byte", "i2c_stop_bit"}
      /\ c \in Bytes /\ Said(r, k + 1) = n + 1 /\ Role(r, k + 1) = o
      /\ o \in {"off", "rx", "tx"}
      /\ Script(r)[k + 1].name = "i2c_receive_byte" => k # 17
      /\ Script(r)[k + 1].name = "i2c_stop_bit" => r.kind = "write16"
  BY <1>1, Names DEF Named, Chart, Following
<1>3. /\ j = 1 /\ InAck(c, o, a) /\ rx[t] = 0 /\ a \in 1..6
      /\ Told(t, r, IF a > 3 THEN n + 1 ELSE n)
  <2>1. /\ j = 1 /\ InAck(c, o, a) /\ rx[t] = 0
        /\ (a > 3 => Told(t, r, n + 1)) /\ (~(a > 3) => Told(t, r, n))
    BY InAckIs
  <2>2. QED
    BY <2>1 DEF InAck
<1>4. Len(i2c_receive_ack) = 1 /\ Len(i2c_receive_ack[1]) = 6
  BY DEF i2c_receive_ack
<1>5. Rounds(Script(r)[k]) = i2c_receive_ack
  BY <1>2, RoundsOf
<1>6. /\ r # NoRequest /\ Write(i2c_receive_ack[1][a]) /\ req'[t] = r
      /\ rx'[t] = IF i2c_receive_ack[1][a] = "sample" THEN 2 * rx[t] + Sda ELSE rx[t]
      /\ a < 6 => IsAt(t, k, 1, a + 1)'
      /\ a = 6 => IsAt(t, k + 1, 1, 1)'
  <2>1. IsAt(t, k, 1, a) /\ Shape(r, k, 1, a, i2c_receive_ack[1][a], 6, 1)
    BY <1>3, <1>4, <1>5 DEF Shape
  <2>2. k \in Nat /\ a \in Nat /\ 1 \in Nat /\ 6 \in Nat
    BY <1>1, <1>3
  <2>3. QED
    BY <2>1, <2>2, StepOf
<1>7. rx'[t] = 0
  <2>1. i2c_receive_ack[1][a] # "sample"
    BY <1>3 DEF i2c_receive_ack
  <2>2. QED
    BY <1>3, <1>6, <2>1
<1>8. /\ a < 6 => InAck(c, o, a + 1)'
      /\ a = 6 => Acked(o)' /\ dir' = 0
      /\ a # 3 => log' = log
      /\ a = 3 => log'[t] = log[t] \o <<c>>
  <2>1. InCall(t)
    BY <1>6 DEF InCall
  <2>2. QED
    BY <1>2, <1>3, <1>6, <2>1, AckCore
<1>9. CASE a < 6
  <2>1. Told(t, r, IF a + 1 > 3 THEN n + 1 ELSE n)'
    <3>1. CASE a = 3
      <4>1. log[t] \in Seq(Nat) /\ n \in Nat /\ c \in Nat /\ Told(t, r, n)
        BY <1>2, <1>3, <3>1, Ranges DEF TypeOK, Told
      <4>2. Told(t, r, n + 1)'
        BY <1>8, <3>1, <4>1, TellOne DEF Next1
      <4>3. QED
        BY <3>1, <4>2
    <3>2. CASE a # 3
      <4>1. Told(t, r, IF a > 3 THEN n + 1 ELSE n)'
        BY <1>3, <1>8, <3>2, TellSame
      <4>2. a + 1 > 3 <=> a > 3
        BY <1>3, <3>2
      <4>3. QED
        BY <4>1, <4>2
    <3>3. QED
      BY <3>1, <3>2
  <2>2. In(t, r, k, 1, a + 1)'
    BY <1>1, <1>7, <1>8, <1>9, <2>1, InAckIs
  <2>3. QED
    BY <1>6, <1>9, <2>2, Arrives
<1>10. CASE a = 6
  <2>1. Told(t, r, n + 1)'
    <3>1. Told(t, r, n + 1) /\ log' = log
      BY <1>3, <1>8, <1>10
    <3>2. QED
      BY <3>1, TellSame
  <2>2. /\ k + 1 # 1 /\ Acked(o)' /\ dir' = 0 /\ IsAt(t, k + 1, 1, 1)'
        /\ Named(r, k + 1, Script(r)[k + 1].name)
    BY <1>1, <1>2, <1>6, <1>8, <1>10 DEF Named
  <2>3. CASE Script(r)[k + 1].name = "i2c_start_bit"
    BY <1>2, <1>6, <1>7, <2>1, <2>2, <2>3, EntersStart
  <2>4. CASE Script(r)[k + 1].name = "i2c_send_byte"
    BY <1>2, <1>6, <1>7, <2>1, <2>2, <2>4, EntersSend
  <2>5. CASE Script(r)[k + 1].name = "i2c_receive_byte"
    <3>1. k + 1 # 18
      BY <1>1, <1>2, <2>5
    <3>2. QED
      BY <1>2, <1>6, <1>7, <2>1, <2>2, <2>5, <3>1, EntersReceive
  <2>6. CASE Script(r)[k + 1].name = "i2c_stop_bit"
    <3>1. r.kind = "write16"
      BY <1>2, <2>6
    <3>2. InStop(r, Next1(r, k + 1), 1)'
      BY <2>2, <3>1 DEF InStop, Acked, Unclocked
    <3>3. Got(r, o, 0)
      BY <3>1 DEF Got
    <3>4. QED
      BY <1>2, <1>6, <1>7, <2>1, <2>2, <2>6, <3>1, <3>2, <3>3, EntersStop
  <2>7. QED
    BY <1>2, <2>3, <2>4, <2>5, <2>6
<1>11. QED
  BY <1>3, <1>9, <1>10

LEMMA StepSend ==
    ASSUME TypeOK, Discipline, NEW t \in Tasks, Step(t), NEW r, req[t] = r,
           NEW k, NEW j, NEW a, IsAt(t, k, j, a), Named(r, k, "i2c_send_byte"), In(t, r, k, j, a)
    PROVE  CallInv(t)'
<1> DEFINE o == Role(r, k)
           n == Said(r, k)
           c == Next1(r, k)
           s == i2c_send_byte(c)
           e == IF o = "addr" THEN Target(c) ELSE o
<1>1. r \in Requests /\ Len(Script(r)) \in Nat /\ k \in 1..Len(Script(r)) /\ Chart(r, k)
  BY Charts DEF Named
<1>2. /\ Script(r)[k] = Send(c) /\ k < Len(Script(r))
      /\ Script(r)[k + 1].name \in {"i2c_receive_ack", "i2c_stop_bit"}
      /\ c \in Bytes /\ Said(r, k + 1) = n /\ Role(r, k + 1) = e
      /\ o \in {"addr", "off", "rx"}
      /\ Script(r)[k + 1].name = "i2c_stop_bit" => r.kind = "write8"
  BY <1>1, Names DEF Named, Chart, Following
<1>3. InSend(c, o, j, a) /\ Told(t, r, n) /\ rx[t] = 0
  BY InSendIs
<1>4. /\ Len(s) = 10 /\ Len(s[1]) = 2 /\ Len(s[10]) = 1
      /\ \A i \in 2..9 : Len(s[i]) = 4
  <2>1. Len(s) = 10 /\ s[1] = <<"irqoff", "scl0">> /\ s[10] = <<"irqon">>
    BY SendRounds
  <2>2. ASSUME NEW i \in 2..9
        PROVE  Len(s[i]) = 4
    <3>1. i - 1 \in 1..8 /\ (i - 1) + 1 = i
      OBVIOUS
    <3>2. s[i] = SendBit(BitOf(c, i - 1))
      BY <3>1, SendRounds
    <3>3. QED
      BY <3>2 DEF SendBit
  <2>3. QED
    BY <2>1, <2>2
<1>5. Rounds(Script(r)[k]) = s
  BY <1>2, RoundsOf
<1> HIDE DEF s, e
<1>6. k \in Nat /\ c \in Nat /\ Len(Script(r)) \in Nat
  BY <1>1, <1>2, Ranges
<1>7. ASSUME NEW jj \in Nat, NEW aa \in Nat, IsAt(t, k, jj, aa)', InSend(c, o, jj, aa)', log' = log,
             rx'[t] = 0, req'[t] = r
      PROVE  CallInv(t)'
  <2>1. Told(t, r, n)'
    BY <1>3, <1>7, TellSame
  <2>2. In(t, r, k, jj, aa)'
    BY <1>7, <2>1, InSendIs
  <2>3. QED
    BY <1>7, <2>2, Arrives
<1>8. CASE j = 1
  <2>1. a \in 1..2
    BY <1>3, <1>8 DEF InSend
  <2>2. IsAt(t, k, 1, a) /\ Shape(r, k, 1, a, s[1][a], 2, 10)
    BY <1>4, <1>5, <1>8 DEF Shape
  <2>3. a \in Nat /\ 1 \in Nat /\ 2 \in Nat /\ 10 \in Nat
    BY <2>1
  <2>4. /\ Write(s[1][a]) /\ req'[t] = r
        /\ rx'[t] = IF s[1][a] = "sample" THEN 2 * rx[t] + Sda ELSE rx[t]
        /\ a < 2 => IsAt(t, k, 1, a + 1)'
        /\ a = 2 => IsAt(t, k, 2, 1)'
    <3>1. 1 < 10 /\ 1 + 1 = 2
      OBVIOUS
    <3>2. QED
      BY <1>6, <2>2, <2>3, <3>1, StepOf
  <2>5. s[1][a] # "sample"
    <3>1. s[1] = <<"irqoff", "scl0">>
      BY SendRounds DEF s
    <3>2. QED
      BY <2>1, <3>1
  <2>6. /\ a = 1 => InSend(c, o, 1, 2)'
        /\ a = 2 => InSend(c, o, 2, 1)'
        /\ log' = log
    BY <1>2, <1>3, <1>8, <2>1, <2>4, SendHead DEF s
  <2>7. CASE a = 1
    <3>1. IsAt(t, k, 1, 2)'
      BY <2>4, <2>7
    <3>2. QED
      BY <1>3, <1>7, <2>4, <2>5, <2>6, <2>7, <3>1
  <2>8. CASE a = 2
    BY <1>3, <1>7, <2>4, <2>5, <2>6, <2>8
  <2>9. QED
    BY <2>1, <2>7, <2>8
<1>9. CASE j \in 2..9
  <2>1. a \in 1..4
    BY <1>3, <1>9 DEF InSend
  <2>2. Shape(r, k, j, a, s[j][a], 4, 10)
    BY <1>4, <1>5, <1>9 DEF Shape
  <2>3. a \in Nat /\ j \in Nat /\ 4 \in Nat /\ 10 \in Nat
    BY <1>9, <2>1
  <2>4. /\ Write(s[j][a]) /\ req'[t] = r
        /\ rx'[t] = IF s[j][a] = "sample" THEN 2 * rx[t] + Sda ELSE rx[t]
        /\ a < 4 => IsAt(t, k, j, a + 1)'
        /\ a = 4 => IsAt(t, k, j + 1, 1)'
    <3>1. j < 10
      BY <1>9
    <3>2. QED
      BY <1>6, <2>2, <2>3, <3>1, StepOf
  <2>5. s[j][a] # "sample"
    <3>1. j - 1 \in 1..8 /\ (j - 1) + 1 = j
      BY <1>9
    <3>2. s[j] = SendBit(BitOf(c, j - 1))
      BY <3>1, SendRounds DEF s
    <3>3. QED
      BY <2>1, <3>2 DEF SendBit
  <2>6. /\ a < 4 => InSend(c, o, j, a + 1)'
        /\ a = 4 => InSend(c, o, j + 1, 1)'
        /\ log' = log
    BY <1>2, <1>3, <1>9, <2>1, <2>4, SendRound DEF s
  <2>7. CASE a < 4
    <3>1. a + 1 \in Nat
      BY <2>3
    <3>2. QED
      BY <1>3, <1>7, <2>3, <2>4, <2>5, <2>6, <2>7, <3>1
  <2>8. CASE a = 4
    <3>1. j + 1 \in Nat /\ 1 \in Nat
      BY <2>3
    <3>2. QED
      BY <1>3, <1>7, <2>4, <2>5, <2>6, <2>8, <3>1
  <2>9. QED
    BY <2>1, <2>7, <2>8
<1>10. CASE j = 10
  <2>1. a = 1
    BY <1>3, <1>10 DEF InSend
  <2>2. IsAt(t, k, 10, 1) /\ Shape(r, k, 10, 1, s[10][1], 1, 10)
    BY <1>4, <1>5, <1>10, <2>1 DEF Shape
  <2>3. 1 \in Nat /\ 10 \in Nat
    OBVIOUS
  <2>4. /\ Write(s[10][1]) /\ req'[t] = r
        /\ rx'[t] = IF s[10][1] = "sample" THEN 2 * rx[t] + Sda ELSE rx[t]
        /\ IsAt(t, k + 1, 1, 1)'
    BY <1>6, <2>2, <2>3, StepOf
  <2>5. s[10][1] = "irqon"
    BY SendRounds DEF s
  <2>6. Sent(c, e)' /\ dir' = 1 /\ log' = log
    BY <1>2, <1>3, <1>10, <2>1, <2>4, SendTail DEF s, e
  <2>7. Named(r, k + 1, Script(r)[k + 1].name)
    BY <1>1, <1>2 DEF Named
  <2>8. Told(t, r, Said(r, k + 1))' /\ rx'[t] = 0 /\ Next1(r, k + 1) = c
    <3>1. Told(t, r, n)'
      BY <1>3, <2>6, TellSame
    <3>2. QED
      BY <1>2, <1>3, <2>4, <2>5, <3>1 DEF Next1
  <2>9. CASE Script(r)[k + 1].name = "i2c_receive_ack"
    BY <1>2, <2>4, <2>6, <2>7, <2>8, <2>9, EntersAck
  <2>10. CASE Script(r)[k + 1].name = "i2c_stop_bit"
    <3>1. r.kind = "write8"
      BY <1>2, <2>10
    <3>2. InStop(r, c, 1)'
      BY <2>6, <3>1 DEF InStop, Sent, Unclocked
    <3>3. Got(r, Role(r, k + 1), 0)
      BY <3>1 DEF Got
    <3>4. QED
      BY <2>4, <2>7, <2>8, <2>10, <3>1, <3>2, <3>3, EntersStop
  <2>11. QED
    BY <1>2, <2>9, <2>10
<1>11. QED
  BY <1>3, <1>8, <1>9, <1>10 DEF InSend

LEMMA StepStop ==
    ASSUME TypeOK, Discipline, NEW t \in Tasks, Step(t), NEW r, req[t] = r,
           NEW k, NEW j, NEW a, IsAt(t, k, j, a), Named(r, k, "i2c_stop_bit"), In(t, r, k, j, a)
    PROVE  CallInv(t)'
<1> DEFINE o == Role(r, k)
           n == Said(r, k)
           c == Next1(r, k)
           s == i2c_stop_bit
<1>1. r \in Requests /\ Len(Script(r)) \in Nat /\ k \in 1..Len(Script(r)) /\ Chart(r, k)
      /\ Len(Frame(r)) \in Nat
  BY Charts DEF Named
<1>2. /\ Script(r)[k] = Stop /\ k = Len(Script(r)) /\ Role(r, k + 1) = o
      /\ Unclocked(r) => n + 2 = Len(Frame(r)) /\ Frame(r)[n + 2] = STOP /\ c \in Bytes
      /\ r.kind = "write16" => n + 1 = Len(Frame(r)) /\ c = STOP
  BY <1>1, Names DEF Named, Chart, Following
<1>3. PICK v : v = rx[t]
  OBVIOUS
<1>4. /\ j = 1 /\ InStop(r, c, a) /\ Got(r, o, v)
      /\ r.kind = "read16" => ToldAll(t, r)
      /\ r.kind # "read16" /\ a > 1 /\ Unclocked(r) => Told(t, r, n + 1)
      /\ r.kind # "read16" /\ ~(a > 1 /\ Unclocked(r)) => Told(t, r, n)
  <2>1. /\ j = 1 /\ InStop(r, c, a) /\ Got(r, o, rx[t])
        /\ r.kind = "read16" => ToldAll(t, r)
        /\ r.kind # "read16" /\ a > 1 /\ Unclocked(r) => Told(t, r, n + 1)
        /\ r.kind # "read16" /\ ~(a > 1 /\ Unclocked(r)) => Told(t, r, n)
    BY InStopIs
  <2>2. QED
    BY <1>3, <2>1
<1>5. Rounds(Script(r)[k]) = s /\ Len(s) = 1 /\ Len(s[1]) = 7
  BY <1>2, RoundsOf DEF i2c_stop_bit
<1>6. a \in 1..7
  BY <1>4 DEF InStop
<1>7. s[1][a] # "sample"
  BY <1>6 DEF i2c_stop_bit
<1> HIDE DEF s
<1>8. /\ r # NoRequest /\ Write(s[1][a]) /\ req'[t] = r /\ rx'[t] = v
      /\ a < 7 => IsAt(t, k, 1, a + 1)'
      /\ a = 7 => IsAt(t, k + 1, 1, 1)'
  <2>1. IsAt(t, k, 1, a) /\ Shape(r, k, 1, a, s[1][a], 7, 1)
    BY <1>4, <1>5 DEF Shape
  <2>2. k \in Nat /\ a \in Nat /\ 1 \in Nat /\ 7 \in Nat
    BY <1>1, <1>6
  <2>3. /\ r # NoRequest /\ Write(s[1][a]) /\ req'[t] = r
        /\ rx'[t] = IF s[1][a] = "sample" THEN 2 * rx[t] + Sda ELSE rx[t]
        /\ a < 7 => IsAt(t, k, 1, a + 1)'
        /\ a = 7 => IsAt(t, k + 1, 1, 1)'
    BY <2>1, <2>2, StepOf
  <2>4. QED
    BY <1>3, <1>7, <2>3
<1>9. /\ a < 7 => InStop(r, c, a + 1)'
      /\ a = 7 => Idle' /\ log'[t] = log[t] \o <<STOP>>
      /\ a = 1 /\ Unclocked(r) => log'[t] = log[t] \o <<c>>
      /\ r.kind # "read16" /\ a < 7 /\ ~(a = 1 /\ Unclocked(r)) => log' = log
  <2>1. InCall(t) /\ r.kind \in {"read8", "write8", "read16", "write16"}
    BY <1>1, <1>8, RequestFields DEF InCall
  <2>2. QED
    BY <1>4, <1>6, <1>8, <2>1, StopCore DEF s
<1>10. log[t] \in Seq(Nat)
  BY DEF TypeOK
<1>11. r.kind = "read16" => ToldAll(t, r)'
  <2>1. SUFFICES ASSUME r.kind = "read16" PROVE ToldAll(t, r)'
    OBVIOUS
  <2>2. PICK u \in Seq(Nat) : log'[t] = log[t] \o u
    <3>1. InCall(t)
      BY <1>8 DEF InCall
    <3>2. QED
      BY <1>8, <3>1, LogGrows
  <2>3. QED
    BY <1>1, <1>4, <1>10, <2>1, <2>2, TellMore
<1>12. CASE a < 7
  <2>1. a + 1 > 1 /\ a \in Nat
    BY <1>6
  <2>2. ASSUME r.kind # "read16", Unclocked(r)
        PROVE  Told(t, r, n + 1)'
    <3>1. CASE a = 1
      <4>1. Told(t, r, n) /\ c = Frame(r)[n + 1] /\ log'[t] = log[t] \o <<c>>
        BY <1>4, <1>9, <2>2, <3>1 DEF Next1
      <4>2. n \in Nat /\ c \in Nat
        BY <1>2, <1>10, <2>2, <4>1, Ranges DEF Told
      <4>3. QED
        BY <1>10, <4>1, <4>2, TellOne
    <3>2. CASE a # 1
      <4>1. Told(t, r, n + 1) /\ log' = log
        BY <1>4, <1>6, <1>9, <1>12, <2>2, <3>2
      <4>2. QED
        BY <4>1, TellSame
    <3>3. QED
      BY <3>1, <3>2
  <2>3. ASSUME r.kind # "read16", ~Unclocked(r)
        PROVE  Told(t, r, n)'
    <3>1. Told(t, r, n) /\ log' = log
      BY <1>4, <1>9, <1>12, <2>3
    <3>2. QED
      BY <3>1, TellSame
  <2>4. InStop(r, c, a + 1)' /\ IsAt(t, k, 1, a + 1)'
    BY <1>8, <1>9, <1>12
  <2>5. PICK b : b = a + 1
    OBVIOUS
  <2>6. In(t, r, k, 1, b)'
    BY <1>4, <1>8, <1>11, <2>1, <2>2, <2>3, <2>4, <2>5, InStopIs
  <2>7. QED
    BY <1>8, <2>4, <2>5, <2>6, Arrives
<1>13. CASE a = 7
  <2>1. Idle' /\ log'[t] = log[t] \o <<STOP>> /\ IsAt(t, k + 1, 1, 1)' /\ STOP \in Nat
    BY <1>8, <1>9, <1>13 DEF STOP
  <2>2. ASSUME r.kind # "read16"
        PROVE  Told(t, r, Len(Frame(r)))'
    <3>1. r.kind \in {"read8", "write8", "write16"}
      BY <1>1, <2>2, RequestFields
    <3>2. CASE Unclocked(r)
      <4>1. Told(t, r, n + 1) /\ n + 2 = Len(Frame(r)) /\ Frame(r)[n + 2] = STOP
        BY <1>2, <1>4, <1>13, <2>2, <3>2
      <4>2. PICK m : m = n + 1
        OBVIOUS
      <4>3. Told(t, r, m) /\ m \in Nat
        BY <1>10, <4>1, <4>2 DEF Told
      <4>4. m + 1 = Len(Frame(r)) /\ Frame(r)[m + 1] = STOP
        <5>1. n + 2 = Len(Frame(r)) /\ m = n + 1 /\ Len(Frame(r)) \in Nat
          BY <1>1, <4>1, <4>2
        <5>2. n \in Nat
          <6>1. k \in Nat /\ k <= Len(Script(r)) /\ (k \div 2) \in Nat /\ ((k + 1) \div 2) \in Nat
            BY <1>1
          <6>2. QED
            BY <6>1 DEF Said
        <5>3. m + 1 = n + 2
          BY <5>1, <5>2
        <5>4. QED
          BY <4>1, <5>1, <5>3
      <4>5. Told(t, r, m + 1)'
        BY <1>10, <2>1, <4>3, <4>4, TellOne
      <4>6. QED
        BY <4>4, <4>5
    <3>3. CASE ~Unclocked(r)
      <4>1. r.kind = "write16"
        BY <3>1, <3>3 DEF Unclocked
      <4>2. n + 1 = Len(Frame(r)) /\ c = STOP /\ Told(t, r, n)
        BY <1>2, <1>4, <2>2, <3>3, <4>1
      <4>3. Frame(r)[n + 1] = STOP /\ n \in Nat
        BY <1>10, <4>2 DEF Next1, Told
      <4>4. Told(t, r, n + 1)'
        BY <1>10, <2>1, <4>2, <4>3, TellOne
      <4>5. QED
        BY <4>2, <4>4
    <3>4. QED
      BY <3>2, <3>3
  <2>3. PICK kk : kk = Len(Script(r)) + 1
    OBVIOUS
  <2>4. kk = k + 1 /\ kk \in 1..(Len(Script(r)) + 1) /\ ~(kk <= Len(Script(r)))
    BY <1>1, <1>2, <2>3
  <2>5. Role(r, kk) = o
    BY <1>2, <2>4
  <2>6. In(t, r, kk, 1, 1)'
    BY <1>1, <1>4, <1>8, <1>11, <2>1, <2>2, <2>3, <2>4, <2>5 DEF In
  <2>7. QED
    BY <1>8, <2>1, <2>4, <2>6, Arrives
<1>14. QED
  BY <1>6, <1>12, <1>13

\* The rounds of a byte that is read.
LEMMA ReceiveShape ==
    ASSUME NEW r, NEW k, Named(r, k, "i2c_receive_byte"), Script(r)[k] = Receive, NEW j, NEW a
    PROVE  /\ j = 1 /\ a = 1 => Shape(r, k, 1, 1, "irqoff", 1, 10)
           /\ j = 10 /\ a = 1 => Shape(r, k, 10, 1, "irqon", 1, 10)
           /\ j \in 2..9 /\ a \in 1..6 =>
                 /\ Shape(r, k, j, a, i2c_receive_byte[j][a], 6, 10)
                 /\ i2c_receive_byte[j][a] = "sample" <=> a = 5
<1>1. Rounds(Script(r)[k]) = i2c_receive_byte
  BY RoundsOf
<1>2. /\ Len(i2c_receive_byte) = 10 /\ i2c_receive_byte[1] = <<"irqoff">>
      /\ i2c_receive_byte[10] = <<"irqon">>
  BY ReceiveRounds
<1>3. ASSUME j \in 2..9, a \in 1..6
      PROVE  /\ Len(i2c_receive_byte[j]) = 6
             /\ i2c_receive_byte[j][a] = "sample" <=> a = 5
  <2>1. j - 1 \in 1..8 /\ (j - 1) + 1 = j
    BY <1>3
  <2>2. i2c_receive_byte[j] = <<"scl0", "scl1", "in", "in", "sample", "scl0">>
    BY <2>1, ReceiveRounds
  <2>3. QED
    BY <1>3, <2>2
<1>4. QED
  BY <1>1, <1>2, <1>3 DEF Shape

LEMMA StepReceive ==
    ASSUME TypeOK, Discipline, NEW t \in Tasks, Step(t), NEW r, req[t] = r,
           NEW k, NEW j, NEW a, IsAt(t, k, j, a), Named(r, k, "i2c_receive_byte"), k # 18,
           In(t, r, k, j, a)
    PROVE  CallInv(t)'
<1> DEFINE o == Role(r, k)
           n == Said(r, k)
           s == i2c_receive_byte
           c == Shown(o)
<1>1. r \in Requests /\ Len(Script(r)) \in Nat /\ k \in 1..Len(Script(r)) /\ Chart(r, k)
      /\ Len(Frame(r)) \in Nat /\ k \in Nat
  BY Charts DEF Named
<1>2. /\ Script(r)[k] = Receive /\ k < Len(Script(r)) /\ Role(r, k + 1) = o
      /\ o \in {"off", "rx", "tx"}
      /\ \/ /\ r.kind = "read8" /\ Script(r)[k + 1].name = "i2c_stop_bit"
            /\ Next1(r, k) = c /\ Said(r, k + 1) = n
         \/ /\ r.kind = "read16" /\ n = Len(Frame(r))
            /\ k = 17 /\ Script(r)[k + 1].name = "i2c_receive_byte"
  BY <1>1, Names DEF Named, Chart, Following
<1>3. PICK v : v = rx[t]
  OBVIOUS
<1>4. InReceive(c, o, j, a, v) /\ Told(t, r, n)
  <2>1. InReceive(c, o, j, a, rx[t]) /\ Told(t, r, n)
    BY InReceiveIs
  <2>2. QED
    BY <1>3, <2>1
<1> HIDE DEF s
<1>5. ASSUME NEW jj \in Nat, NEW aa \in Nat, NEW w, IsAt(t, k, jj, aa)', InReceive(c, o, jj, aa, w)',
             log' = log, rx'[t] = w, req'[t] = r
      PROVE  CallInv(t)'
  <2>1. Told(t, r, n)'
    BY <1>4, <1>5, TellSame
  <2>2. In(t, r, k, jj, aa)'
    BY <1>5, <2>1, InReceiveIs
  <2>3. QED
    BY <1>5, <2>2, Arrives
<1>6. CASE j = 1
  <2>1. a = 1
    BY <1>4, <1>6 DEF InReceive
  <2>2. IsAt(t, k, 1, 1) /\ Shape(r, k, 1, 1, "irqoff", 1, 10)
    BY <1>2, <1>6, <2>1, ReceiveShape
  <2>3. 1 \in Nat /\ 10 \in Nat /\ 2 \in Nat /\ 1 + 1 = 2
    OBVIOUS
  <2>4. /\ Write("irqoff") /\ req'[t] = r /\ rx'[t] = v /\ IsAt(t, k, 2, 1)'
    BY <1>1, <1>3, <2>2, <2>3, StepOf
  <2>5. s[1][1] = "irqoff"
    BY ReceiveRounds DEF s
  <2>6. InReceive(c, o, 2, 1, v)' /\ log' = log
    BY <1>2, <1>4, <1>6, <2>1, <2>4, <2>5, ReceiveHead DEF s
  <2>7. QED
    BY <1>5, <2>3, <2>4, <2>6
<1>7. CASE j \in 2..9
  <2>1. a \in 1..6
    BY <1>4, <1>7 DEF InReceive
  <2>2. Shape(r, k, j, a, s[j][a], 6, 10) /\ (s[j][a] = "sample" <=> a = 5)
    BY <1>2, <1>7, <2>1, ReceiveShape DEF s
  <2>3. a \in Nat /\ j \in Nat /\ 6 \in Nat /\ 10 \in Nat /\ j < 10
    BY <1>7, <2>1
  <2>4. PICK w : w = IF a = 5 THEN 2 * v + Sda ELSE v
    OBVIOUS
  <2>5. /\ Write(s[j][a]) /\ req'[t] = r
        /\ rx'[t] = IF s[j][a] = "sample" THEN 2 * rx[t] + Sda ELSE rx[t]
        /\ a < 6 => IsAt(t, k, j, a + 1)'
        /\ a = 6 => IsAt(t, k, j + 1, 1)'
    BY <1>1, <2>2, <2>3, StepOf
  <2>6. rx'[t] = w
    BY <1>3, <2>2, <2>4, <2>5
  <2>7. /\ a < 6 => InReceive(c, o, j, a + 1, w)'
        /\ a = 6 => InReceive(c, o, j + 1, 1, w)'
        /\ log' = log
    BY <1>2, <1>4, <1>7, <2>1, <2>4, <2>5, ReceiveRound DEF s
  <2>8. CASE a < 6
    <3>1. a + 1 \in Nat
      BY <2>3
    <3>2. QED
      BY <1>5, <2>3, <2>5, <2>6, <2>7, <2>8, <3>1
  <2>9. CASE a = 6
    <3>1. j + 1 \in Nat /\ 1 \in Nat
      BY <2>3
    <3>2. QED
      BY <1>5, <2>5, <2>6, <2>7, <2>9, <3>1
  <2>10. QED
    BY <2>1, <2>8, <2>9
<1>8. CASE j = 10
  <2>1. a = 1
    BY <1>4, <1>8 DEF InReceive
  <2>2. IsAt(t, k, 10, 1) /\ Shape(r, k, 10, 1, "irqon", 1, 10)
    BY <1>2, <1>8, <2>1, ReceiveShape
  <2>3. 1 \in Nat /\ 10 \in Nat
    OBVIOUS
  <2>4. /\ Write("irqon") /\ req'[t] = r /\ rx'[t] = v /\ IsAt(t, k + 1, 1, 1)'
    BY <1>1, <1>3, <2>2, <2>3, StepOf
  <2>5. s[10][1] = "irqon"
    BY ReceiveRounds DEF s
  <2>6. v = c /\ log' = log /\ scl' = 0 /\ dir' = 0 /\ bus'.n = 8 /\ bus'.byte = c
    BY <1>4, <1>8, <2>1, <2>4, <2>5, ReceiveTail DEF s
  <2>7. Named(r, k + 1, Script(r)[k + 1].name)
    BY <1>1, <1>2 DEF Named
  <2>8. Told(t, r, n)'
    BY <1>4, <2>6, TellSame
  <2>9. CASE r.kind = "read8"
    <3>1. /\ Script(r)[k + 1].name = "i2c_stop_bit" /\ Said(r, k + 1) = n
          /\ Next1(r, k + 1) = c
      BY <1>2, <2>9 DEF Next1
    <3>2. InStop(r, c, 1)'
      BY <2>6, <2>9 DEF InStop
    <3>3. Got(r, o, v)
      BY <2>6, <2>9 DEF Got
    <3>4. QED
      BY <1>2, <2>4, <2>7, <2>8, <2>9, <3>1, <3>2, <3>3, EntersStop
  <2>10. CASE r.kind = "read16"
    <3>1. k = 17 /\ k + 1 = 18 /\ n = Len(Frame(r)) /\ Named(r, 18, "i2c_receive_byte")
      BY <1>2, <2>7, <2>10
    <3>2. ToldAll(t, r)'
      BY <1>1, <2>8, <3>1, TellAll
    <3>3. InSecond(c, 1, 1, v)'
      BY <2>6 DEF InSecond
    <3>4. Role(r, 18) = o
      BY <1>2, <3>1
    <3>5. In(t, r, 18, 1, 1)'
      BY <2>4, <3>1, <3>2, <3>3, <3>4, InReceiveIs
    <3>6. QED
      BY <2>4, <3>1, <3>5, Arrives
  <2>11. QED
    BY <1>2, <2>9, <2>10
<1>9. QED
  BY <1>4, <1>6, <1>7, <1>8 DEF InReceive

LEMMA StepSecond ==
    ASSUME TypeOK, Discipline, NEW t \in Tasks, Step(t), NEW r, req[t] = r,
           NEW k, NEW j, NEW a, IsAt(t, k, j, a), Named(r, k, "i2c_receive_byte"), k = 18,
           In(t, r, k, j, a)
    PROVE  CallInv(t)'
<1> DEFINE o == Role(r, k)
           s == i2c_receive_byte
           c == Shown(o)
<1>1. r \in Requests /\ Len(Script(r)) \in Nat /\ k \in 1..Len(Script(r)) /\ Chart(r, k)
      /\ Len(Frame(r)) \in Nat /\ k \in Nat
  BY Charts DEF Named
<1>2. /\ Script(r)[k] = Receive /\ k < Len(Script(r)) /\ Role(r, k + 1) = o
      /\ r.kind = "read16" /\ Script(r)[k + 1].name = "i2c_stop_bit"
  BY <1>1, Names DEF Named, Chart, Following
<1>3. PICK v : v = rx[t]
  OBVIOUS
<1>4. InSecond(c, j, a, v) /\ ToldAll(t, r) /\ v \in Nat /\ c \in Bytes
  <2>1. InSecond(c, j, a, rx[t]) /\ ToldAll(t, r)
    BY InReceiveIs
  <2>2. QED
    BY <1>3, <2>1, ShownBits DEF TypeOK
<1> HIDE DEF s
<1>5. log[t] \in Seq(Nat)
  BY DEF TypeOK
<1>6. ASSUME NEW x, Write(x), r # NoRequest
      PROVE  ToldAll(t, r)'
  <2>1. InCall(t)
    BY <1>6 DEF InCall
  <2>2. PICK u \in Seq(Nat) : log'[t] = log[t] \o u
    BY <1>6, <2>1, LogGrows
  <2>3. QED
    BY <1>1, <1>4, <1>5, <2>2, TellMore
<1>7. ASSUME NEW jj \in Nat, NEW aa \in Nat, NEW w, IsAt(t, k, jj, aa)', InSecond(c, jj, aa, w)',
             ToldAll(t, r)', rx'[t] = w, req'[t] = r
      PROVE  CallInv(t)'
  <2>1. In(t, r, k, jj, aa)'
    BY <1>7, InReceiveIs
  <2>2. QED
    BY <1>7, <2>1, Arrives
<1>8. CASE j = 1
  <2>1. a = 1
    BY <1>4, <1>8 DEF InSecond
  <2>2. IsAt(t, k, 1, 1) /\ Shape(r, k, 1, 1, "irqoff", 1, 10)
    BY <1>2, <1>8, <2>1, ReceiveShape
  <2>3. 1 \in Nat /\ 10 \in Nat /\ 2 \in Nat /\ 1 + 1 = 2
    OBVIOUS
  <2>4. r # NoRequest /\ Write("irqoff") /\ req'[t] = r /\ rx'[t] = v /\ IsAt(t, k, 2, 1)'
    BY <1>1, <1>3, <2>2, <2>3, StepOf
  <2>5. s[1][1] = "irqoff"
    BY ReceiveRounds DEF s
  <2>6. InSecond(c, 2, 1, v)'
    BY <1>4, <1>8, <2>1, <2>4, <2>5, SecondCore DEF s
  <2>7. QED
    BY <1>6, <1>7, <2>3, <2>4, <2>6
<1>9. CASE j \in 2..9
  <2>1. a \in 1..6
    BY <1>4, <1>9 DEF InSecond
  <2>2. Shape(r, k, j, a, s[j][a], 6, 10) /\ (s[j][a] = "sample" <=> a = 5)
    BY <1>2, <1>9, <2>1, ReceiveShape DEF s
  <2>3. a \in Nat /\ j \in Nat /\ 6 \in Nat /\ 10 \in Nat /\ j < 10
    BY <1>9, <2>1
  <2>4. PICK w : w = IF j \in 2..9 /\ a = 5 THEN 2 * v + Sda ELSE v
    OBVIOUS
  <2>5. /\ r # NoRequest /\ Write(s[j][a]) /\ req'[t] = r
        /\ rx'[t] = IF s[j][a] = "sample" THEN 2 * rx[t] + Sda ELSE rx[t]
        /\ a < 6 => IsAt(t, k, j, a + 1)'
        /\ a = 6 => IsAt(t, k, j + 1, 1)'
    BY <1>1, <2>2, <2>3, StepOf
  <2>6. rx'[t] = w
    BY <1>3, <1>9, <2>2, <2>4, <2>5
  <2>7. /\ a < 6 => InSecond(c, j, a + 1, w)'
        /\ a = 6 => InSecond(c, j + 1, 1, w)'
    BY <1>4, <1>9, <2>4, <2>5, SecondCore DEF s
  <2>8. CASE a < 6
    <3>1. a + 1 \in Nat
      BY <2>3
    <3>2. QED
      BY <1>6, <1>7, <2>3, <2>5, <2>6, <2>7, <2>8, <3>1
  <2>9. CASE a = 6
    <3>1. j + 1 \in Nat /\ 1 \in Nat
      BY <2>3
    <3>2. QED
      BY <1>6, <1>7, <2>5, <2>6, <2>7, <2>9, <3>1
  <2>10. QED
    BY <2>1, <2>8, <2>9
<1>10. CASE j = 10
  <2>1. a = 1
    BY <1>4, <1>10 DEF InSecond
  <2>2. IsAt(t, k, 10, 1) /\ Shape(r, k, 10, 1, "irqon", 1, 10)
    BY <1>2, <1>10, <2>1, ReceiveShape
  <2>3. 1 \in Nat /\ 10 \in Nat
    OBVIOUS
  <2>4. r # NoRequest /\ Write("irqon") /\ req'[t] = r /\ rx'[t] = v /\ IsAt(t, k + 1, 1, 1)'
    BY <1>1, <1>3, <2>2, <2>3, StepOf
  <2>5. s[10][1] = "irqon"
    BY ReceiveRounds DEF s
  <2>6. scl' = 0 /\ dir' = 0 /\ Hi(v) = c
    BY <1>4, <1>10, <2>1, <2>4, <2>5, SecondCore DEF s
  <2>7. Named(r, k + 1, "i2c_stop_bit")
    BY <1>1, <1>2 DEF Named
  <2>8. ToldAll(t, r)'
    BY <1>6, <2>4
  <2>9. \A y : InStop(r, y, 1)'
    BY <1>2, <2>6 DEF InStop, Unclocked
  <2>10. Got(r, o, v)
    BY <1>2, <2>6 DEF Got
  <2>11. QED
    BY <1>2, <2>4, <2>7, <2>8, <2>9, <2>10, EntersStop
<1>11. QED
  BY <1>4, <1>8, <1>9, <1>10 DEF InSecond

-----------------------------------------------------------------------------
(* The invariant is inductive. *)

LEMMA NamedIn ==
    ASSUME Discipline, NEW r \in Requests, NEW k \in 1..Len(Script(r))
    PROVE  /\ Named(r, k, Script(r)[k].name)
           /\ Script(r)[k].name \in {"i2c_start_bit", "i2c_send_byte", "i2c_receive_ack",
                                     "i2c_receive_byte", "i2c_stop_bit"}
<1>1. Len(Script(r)) \in Nat /\ Chart(r, k)
  BY Charts
<1>2. QED
  BY <1>1, Names DEF Named, Chart

\* What an access of a call leaves.
LEMMA StepCall ==
    ASSUME Discipline, TypeOK, NEW t \in Tasks, Step(t), CallInv(t)
    PROVE  CallInv(t)'
<1>1. PICK r, k, j, a : r = req[t] /\ k = at[t].routine /\ j = at[t].round /\ a = at[t].access
  OBVIOUS
<1>2. In(t, r, k, j, a) /\ IsAt(t, k, j, a)
  BY <1>1 DEF CallInv, IsAt
<1>3. r \in Requests /\ k \in 1..(Len(Script(r)) + 1)
  BY <1>2 DEF In
<1>4. Len(Script(r)) \in Nat
  BY <1>3, Charts
<1>5. ~(k > Len(Script(r)))
  BY <1>1 DEF Step, Done
<1>6. k \in 1..Len(Script(r))
  BY <1>3, <1>4, <1>5
<1>7. req[t] = r
  BY <1>1
<1>8. PICK name : name = Script(r)[k].name
  OBVIOUS
<1>9. /\ Named(r, k, name)
      /\ name \in {"i2c_start_bit", "i2c_send_byte", "i2c_receive_ack", "i2c_receive_byte",
                   "i2c_stop_bit"}
  BY <1>3, <1>6, <1>8, NamedIn
<1>10. CASE name = "i2c_start_bit"
  BY <1>2, <1>7, <1>9, <1>10, StepStart
<1>11. CASE name = "i2c_send_byte"
  BY <1>2, <1>7, <1>9, <1>11, StepSend
<1>12. CASE name = "i2c_receive_ack"
  BY <1>2, <1>7, <1>9, <1>12, StepAck
<1>13. CASE name = "i2c_receive_byte"
  <2>1. CASE k = 18
    BY <1>2, <1>7, <1>9, <1>13, <2>1, StepSecond
  <2>2. CASE k # 18
    BY <1>2, <1>7, <1>9, <1>13, <2>2, StepReceive
  <2>3. QED
    BY <2>1, <2>2
<1>14. CASE name = "i2c_stop_bit"
  BY <1>2, <1>7, <1>9, <1>14, StepStop
<1>15. QED
  BY <1>9, <1>10, <1>11, <1>12, <1>13, <1>14

\* The first access of a call finds the lines idle.
LEMMA BeginCall ==
    ASSUME Discipline, TypeOK, Idle, NEW t \in Tasks, Begin(t), InCall(t)'
    PROVE  CallInv(t)'
<1>1. PICK r \in Requests : req' = [req EXCEPT ![t] = r]
  BY DEF Begin
<1>2. req'[t] = r
  BY <1>1 DEF TypeOK
<1>3. IsAt(t, 1, 1, 1)'
  <2>1. at \in [Tasks -> [routine : Nat, round : Nat, access : Nat]]
    BY DEF TypeOK
  <2>2. at'[t] = Begun(1)
    BY <2>1 DEF Begin
  <2>3. QED
    BY <2>2 DEF IsAt, Begun, Spot
<1>4. rx'[t] = 0 /\ log'[t] = <<>>
  BY DEF Begin, TypeOK
<1>5. Len(Script(r)) \in Nat /\ Len(Script(r)) > 0 /\ Script(r)[1] = Start
  BY Charts
<1>6. Named(r, 1, "i2c_start_bit") /\ 1 \in 1..Len(Script(r))
  BY <1>5, Names DEF Named
<1>7. Said(r, 1) = 0
  <2>1. Chart(r, 1)
    BY <1>6, Charts
  <2>2. QED
    BY <1>5, <2>1, Names DEF Chart
<1>8. Told(t, r, 0)'
  <2>1. Len(<<>>) = 0 /\ \A i : i \notin 1..0
    OBVIOUS
  <2>2. QED
    BY <1>4, <2>1 DEF Told
<1>9. Idle'
  BY DEF Begin, Idle
<1>10. Told(t, r, Said(r, 1))'
  BY <1>7, <1>8
<1>11. QED
  BY <1>2, <1>3, <1>4, <1>6, <1>9, <1>10, EntersStart

LEMMA Started == Init => IInv
<1> SUFFICES ASSUME Init PROVE IInv
  OBVIOUS
<1>1. TypeOK
  <2>1. at \in [Tasks -> [routine : Nat, round : Nat, access : Nat]]
    BY DEF Init, Begun, Spot
  <2>2. log \in [Tasks -> Seq(Nat)] /\ req \in [Tasks -> Requests \cup {NoRequest}]
        /\ rx \in [Tasks -> Nat]
    BY DEF Init
  <2>3. QED
    BY <2>1, <2>2 DEF Init, TypeOK, Levels, Off
<1>2. \A t \in Tasks : ~InCall(t)
  BY DEF Init, InCall
<1>3. Idle
  BY DEF Init, Idle
<1>4. QED
  BY <1>1, <1>2, <1>3 DEF IInv

LEMMA Kept == Discipline /\ IInv /\ [Next]_vars => IInv'
<1> SUFFICES ASSUME Discipline, IInv, [Next]_vars PROVE IInv'
  OBVIOUS
<1>1. TypeOK /\ TypeOK'
  BY TypeNext DEF IInv
<1>2. ASSUME NEW t \in Tasks, Begin(t)
      PROVE  IInv'
  <2>1. \A u \in Tasks : ~InCall(u)
    BY <1>2 DEF Begin, Discipline
  <2>2. Idle
    BY <2>1 DEF IInv
  <2>3. \A u \in Tasks : u # t => ~InCall(u)'
    <3>1. \A u \in Tasks : u # t => req'[u] = req[u]
      BY <1>1, <1>2 DEF Begin, TypeOK
    <3>2. QED
      BY <2>1, <3>1 DEF InCall
  <2>4. InCall(t)' => CallInv(t)'
    BY <1>1, <1>2, <2>2, BeginCall
  <2>5. Idle'
    BY <1>2, <2>2 DEF Begin, Idle
  <2>6. QED
    BY <1>1, <2>3, <2>4, <2>5 DEF IInv
<1>3. ASSUME NEW t \in Tasks, Step(t)
      PROVE  IInv'
  <2>1. InCall(t)
    BY <1>3 DEF Step
  <2>2. \A u \in Tasks : InCall(u) => u = t
    BY <2>1 DEF IInv
  <2>3. \A u \in Tasks : InCall(u)' <=> InCall(u)
    BY <1>3 DEF Step, InCall
  <2>4. CallInv(t)
    BY <2>1 DEF IInv
  <2>5. CallInv(t)'
    BY <1>1, <1>3, <2>4, StepCall
  <2>6. QED
    BY <1>1, <2>1, <2>2, <2>3, <2>5 DEF IInv
<1>4. ASSUME NEW t \in Tasks, Return(t)
      PROVE  IInv'
  <2>1. InCall(t) /\ CallInv(t) /\ at[t].routine > Len(Script(req[t]))
    BY <1>4 DEF Return, Done, IInv
  <2>2. Idle
    <3>1. /\ req[t] \in Requests
          /\ at[t].routine \in 1..(Len(Script(req[t])) + 1)
          /\ at[t].routine = Len(Script(req[t])) + 1 => Idle
      BY <2>1 DEF CallInv, In
    <3>2. Len(Script(req[t])) \in Nat
      BY <3>1, Charts
    <3>3. QED
      BY <2>1, <3>1, <3>2
  <2>3. \A u \in Tasks : ~InCall(u)'
    <3>1. \A u \in Tasks : InCall(u) => u = t
      BY <2>1 DEF IInv
    <3>2. req'[t] = NoRequest /\ \A u \in Tasks : u # t => req'[u] = req[u]
      BY <1>1, <1>4 DEF Return, TypeOK
    <3>3. QED
      BY <3>1, <3>2 DEF InCall
  <2>4. Idle'
    BY <1>4, <2>2 DEF Return, Idle
  <2>5. QED
    BY <1>1, <2>3, <2>4 DEF IInv
<1>5. CASE UNCHANGED vars
  <2>1. \A t : (Idle' <=> Idle) /\ (InCall(t)' <=> InCall(t))
    BY <1>5 DEF vars, Idle, InCall
  <2>2. \A t : CallInv(t)' <=> CallInv(t)
    <3>1. \A o : (Acked(o)' <=> Acked(o)) /\ (Opened' <=> Opened)
      BY <1>5 DEF vars, Acked, Opened
    <3>2. \A c, o : Sent(c, o)' <=> Sent(c, o)
      BY <1>5 DEF vars, Sent
    <3>3. \A c, o, b : Clocked(c, o, b)' <=> Clocked(c, o, b)
      BY <1>5 DEF vars, Clocked
    <3>4. \A k, o, a : InStart(k, o, a)' <=> InStart(k, o, a)
      BY <1>5, <2>1, <3>1 DEF vars, InStart
    <3>5. \A c, o, j, a : InSend(c, o, j, a)' <=> InSend(c, o, j, a)
      BY <1>5, <3>1, <3>2, <3>3 DEF vars, InSend
    <3>6. \A c, o, a : InAck(c, o, a)' <=> InAck(c, o, a)
      BY <1>5, <3>2 DEF vars, InAck
    <3>7. \A c, o, j, a, v : InReceive(c, o, j, a, v)' <=> InReceive(c, o, j, a, v)
      BY <1>5, <3>1 DEF vars, InReceive
    <3>8. \A c, j, a, v : InSecond(c, j, a, v)' <=> InSecond(c, j, a, v)
      BY <1>5 DEF vars, InSecond
    <3>9. \A r, c, a : InStop(r, c, a)' <=> InStop(r, c, a)
      BY <1>5 DEF vars, InStop
    <3>10. \A t, r, n : (Told(t, r, n)' <=> Told(t, r, n)) /\ (ToldAll(t, r)' <=> ToldAll(t, r))
      BY <1>5 DEF vars, Told, ToldAll
    <3>11. rx' = rx /\ req' = req /\ at' = at
      BY <1>5 DEF vars
    <3>12. \A t, r, k, j, a : In(t, r, k, j, a)' <=> In(t, r, k, j, a)
      BY <2>1, <3>4, <3>5, <3>6, <3>7, <3>8, <3>9, <3>10, <3>11 DEF In
    <3>13. QED
      BY <3>11, <3>12 DEF CallInv
  <2>3. QED
    BY <1>1, <2>1, <2>2 DEF IInv
<1>6. QED
  BY <1>2, <1>3, <1>4, <1>5 DEF Next

\* The calls of gpio_i2c.c take the lines, the device and the listener from place to place as
\* the invariant says, when they do not overlap.
THEOREM CallsInvariant == Discipline => (Spec => []IInv)
<1> SUFFICES ASSUME Discipline PROVE Spec => []IInv
  OBVIOUS
<1>1. Init => IInv
  BY Started
<1>2. IInv /\ [Next]_vars => IInv'
  BY Kept
<1>3. QED
  BY <1>1, <1>2, PTL DEF Spec

-----------------------------------------------------------------------------
(* The promises. *)

\* The place of a call, and what is said there.
LEMMA PlaceOf ==
    ASSUME Discipline, IInv, NEW t \in Tasks, InCall(t),
           NEW r, r = req[t], NEW k, k = at[t].routine
    PROVE  /\ r \in Requests /\ Len(Script(r)) \in Nat /\ Len(Frame(r)) \in Nat
           /\ k \in 1..(Len(Script(r)) + 1) /\ Frame(r) \in Seq(Nat) /\ log[t] \in Seq(Nat)
           /\ Done(t) <=> k = Len(Script(r)) + 1
           /\ Done(t) => /\ Idle /\ Got(r, Role(r, k), rx[t])
                         /\ IF r.kind = "read16" THEN ToldAll(t, r) ELSE Told(t, r, Len(Frame(r)))
           /\ ~Done(t) => /\ k \in 1..Len(Script(r)) /\ Chart(r, k)
                          /\ Named(r, k, Script(r)[k].name)
                          /\ \E j, a : In(t, r, k, j, a)
<1>1. PICK j, a : j = at[t].round /\ a = at[t].access
  OBVIOUS
<1>2. In(t, r, k, j, a)
  BY <1>1 DEF IInv, CallInv
<1>3. /\ r \in Requests /\ k \in 1..(Len(Script(r)) + 1)
      /\ k = Len(Script(r)) + 1 =>
            /\ Idle /\ Got(r, Role(r, k), rx[t])
            /\ IF r.kind = "read16" THEN ToldAll(t, r) ELSE Told(t, r, Len(Frame(r)))
  BY <1>2 DEF In
<1>4. Len(Script(r)) \in Nat /\ Len(Frame(r)) \in Nat /\ Frame(r) \in Seq(Nat)
  BY <1>3, Charts
<1>5. log[t] \in Seq(Nat)
  BY DEF IInv, TypeOK
<1>6. Done(t) <=> k = Len(Script(r)) + 1
  <2>1. Done(t) <=> k > Len(Script(r))
    BY DEF Done
  <2>2. QED
    BY <1>3, <1>4, <2>1
<1>7. ~Done(t) => k \in 1..Len(Script(r))
  BY <1>3, <1>4, <1>6
<1>8. ~Done(t) => Chart(r, k)
  BY <1>3, <1>7, Charts
<1>9. ~Done(t) => Named(r, k, Script(r)[k].name)
  BY <1>3, <1>7, NamedIn
<1>10. QED
  BY <1>2, <1>3, <1>4, <1>5, <1>6, <1>7, <1>8, <1>9

LEMMA FrameKept == Discipline /\ IInv => FrameOnWire
<1> SUFFICES ASSUME Discipline, IInv, NEW t \in Tasks, InCall(t)
             PROVE  /\ \/ IsPrefix(log[t], Frame(req[t]))
                       \/ req[t].kind = "read16" /\ IsPrefix(Frame(req[t]), log[t])
                    /\ Done(t) => IsPrefix(Frame(req[t]), log[t])
  BY DEF FrameOnWire
<1>1. PICK r, k, f, l : r = req[t] /\ k = at[t].routine /\ f = Frame(r) /\ l = log[t]
  OBVIOUS
<1>2. /\ r \in Requests /\ Len(Script(r)) \in Nat /\ Len(f) \in Nat
      /\ k \in 1..(Len(Script(r)) + 1) /\ f \in Seq(Nat) /\ l \in Seq(Nat)
      /\ Done(t) => IF r.kind = "read16" THEN ToldAll(t, r) ELSE Told(t, r, Len(f))
      /\ ~Done(t) => /\ k \in 1..Len(Script(r)) /\ Chart(r, k)
                     /\ Named(r, k, Script(r)[k].name)
                     /\ \E j, a : In(t, r, k, j, a)
  BY <1>1, PlaceOf
<1>3. ToldAll(t, r) => IsPrefix(f, l)
  <2>1. SUFFICES ASSUME ToldAll(t, r) PROVE IsPrefix(f, l)
    OBVIOUS
  <2>2. Len(f) <= Len(l) /\ \A i \in 1..Len(f) : f[i] = l[i]
    BY <1>1, <1>2, <2>1 DEF ToldAll
  <2>3. QED
    BY <1>2, <2>2, AlikeIsPrefix
<1>4. ASSUME NEW n, Told(t, r, n), n <= Len(f)
      PROVE  IsPrefix(l, f)
  <2>1. Len(l) = n /\ \A i \in 1..n : l[i] = f[i]
    BY <1>1, <1>4 DEF Told
  <2>2. Len(l) <= Len(f) /\ \A i \in 1..Len(l) : l[i] = f[i]
    BY <1>4, <2>1
  <2>3. QED
    BY <1>2, <2>2, AlikeIsPrefix
<1>5. CASE Done(t)
  <2>1. CASE r.kind = "read16"
    BY <1>1, <1>2, <1>3, <1>5, <2>1
  <2>2. CASE r.kind # "read16"
    <3>1. Told(t, r, Len(f))
      BY <1>2, <1>5, <2>2
    <3>2. Len(f) <= Len(f)
      BY <1>2
    <3>3. ToldAll(t, r)
      BY <1>1, <1>2, <3>1, TellAll
    <3>4. QED
      BY <1>1, <1>3, <1>4, <3>1, <3>2, <3>3
  <2>3. QED
    BY <2>1, <2>2
<1>6. CASE ~Done(t)
  <2>1. PICK j, a : In(t, r, k, j, a)
    BY <1>2, <1>6
  <2>2. PICK name : name = Script(r)[k].name
    OBVIOUS
  <2>3. /\ Named(r, k, name) /\ Chart(r, k) /\ k \in 1..Len(Script(r)) /\ k \in Nat
        /\ name \in {"i2c_start_bit", "i2c_send_byte", "i2c_receive_ack", "i2c_receive_byte",
                     "i2c_stop_bit"}
    BY <1>2, <1>6, <2>2, NamedIn
  <2>4. Said(r, k) \in Nat
    <3>1. (k \div 2) \in Nat /\ ((k + 1) \div 2) \in Nat
      BY <2>3
    <3>2. QED
      BY <1>1, <1>2, <3>1 DEF Said
  <2>5. SUFFICES \/ r.kind = "read16" /\ ToldAll(t, r)
                 \/ \E n : Told(t, r, n) /\ n <= Len(f)
    BY <1>1, <1>3, <1>4, <1>6
  <2>6. CASE name = "i2c_start_bit"
    <3>1. Told(t, r, Said(r, k))
      BY <2>1, <2>3, <2>6, InStartIs
    <3>2. Said(r, k) < Len(f)
      BY <1>1, <2>2, <2>3, <2>6, Names DEF Chart
    <3>3. QED
      BY <1>2, <2>4, <3>1, <3>2
  <2>7. CASE name = "i2c_send_byte"
    <3>1. Told(t, r, Said(r, k))
      BY <2>1, <2>3, <2>7, InSendIs
    <3>2. Said(r, k) < Len(f)
      BY <1>1, <2>2, <2>3, <2>7, Names DEF Chart
    <3>3. QED
      BY <1>2, <2>4, <3>1, <3>2
  <2>8. CASE name = "i2c_receive_ack"
    <3>1. Told(t, r, Said(r, k)) \/ Told(t, r, Said(r, k) + 1)
      BY <2>1, <2>3, <2>8, InAckIs
    <3>2. Said(r, k) < Len(f)
      BY <1>1, <2>2, <2>3, <2>8, Names DEF Chart
    <3>3. Said(r, k) <= Len(f) /\ Said(r, k) + 1 <= Len(f)
      BY <1>2, <2>4, <3>2
    <3>4. QED
      BY <3>1, <3>3
  <2>9. CASE name = "i2c_receive_byte"
    <3>1. /\ k # 18 => Told(t, r, Said(r, k))
          /\ k = 18 => ToldAll(t, r)
      BY <2>1, <2>3, <2>9, InReceiveIs
    <3>2. /\ k = 18 => r.kind = "read16"
          /\ k # 18 => Said(r, k) < Len(f) \/ Said(r, k) = Len(f)
      BY <1>1, <2>2, <2>3, <2>9, Names DEF Chart
    <3>3. k # 18 => Said(r, k) <= Len(f)
      BY <1>2, <2>4, <3>2
    <3>4. QED
      BY <3>1, <3>2, <3>3
  <2>10. CASE name = "i2c_stop_bit"
    <3>1. /\ r.kind = "read16" => ToldAll(t, r)
          /\ r.kind # "read16" /\ Unclocked(r) => Told(t, r, Said(r, k)) \/ Told(t, r, Said(r, k) + 1)
          /\ r.kind # "read16" /\ ~Unclocked(r) => Told(t, r, Said(r, k))
      BY <2>1, <2>3, <2>10, InStopIs
    <3>2. /\ Unclocked(r) => Said(r, k) + 2 = Len(f)
          /\ r.kind = "write16" => Said(r, k) + 1 = Len(f)
      BY <1>1, <2>2, <2>3, <2>10, Names DEF Chart
    <3>3. /\ Unclocked(r) => Said(r, k) <= Len(f) /\ Said(r, k) + 1 <= Len(f)
          /\ r.kind = "write16" => Said(r, k) <= Len(f)
      BY <1>2, <2>4, <3>2
    <3>4. r.kind # "read16" /\ ~Unclocked(r) => r.kind = "write16"
      BY <1>2, RequestFields DEF Unclocked
    <3>5. QED
      BY <3>1, <3>3, <3>4
  <2>11. QED
    BY <2>3, <2>6, <2>7, <2>8, <2>9, <2>10
<1>7. QED
  BY <1>5, <1>6

LEMMA DisciplineKept == Discipline /\ IInv => BusDiscipline
<1> SUFFICES ASSUME Discipline, IInv PROVE BusDiscipline
  OBVIOUS
<1>1. Idle => dev.pull = 1 /\ Sda = 1
  BY DEF Idle, Off, Sda, Level
<1>2. ASSUME scl = 1, dir = 1, out = 1, dev.pull = 0
      PROVE  \E t \in Tasks : InCall(t) /\ req[t].kind = "write8"
  <2>1. PICK t \in Tasks : InCall(t)
    BY <1>1, <1>2 DEF IInv
  <2>2. PICK r, k : r = req[t] /\ k = at[t].routine
    OBVIOUS
  <2>3. /\ r \in Requests
        /\ Done(t) => Idle
        /\ ~Done(t) => /\ k \in 1..Len(Script(r)) /\ Chart(r, k)
                       /\ Named(r, k, Script(r)[k].name)
                       /\ \E j, a : In(t, r, k, j, a)
    BY <2>1, <2>2, PlaceOf
  <2>4. ~Done(t)
    BY <1>1, <1>2, <2>3
  <2>5. PICK j, a : In(t, r, k, j, a)
    BY <2>3, <2>4
  <2>6. PICK name : name = Script(r)[k].name
    OBVIOUS
  <2>7. /\ Named(r, k, name) /\ Chart(r, k)
        /\ name \in {"i2c_start_bit", "i2c_send_byte", "i2c_receive_ack", "i2c_receive_byte",
                     "i2c_stop_bit"}
    BY <2>3, <2>4, <2>6, NamedIn
  <2>8. CASE name = "i2c_start_bit"
    <3>1. InStart(k, Role(r, k), a)
      BY <2>5, <2>7, <2>8, InStartIs
    <3>2. QED
      BY <1>1, <1>2, <3>1 DEF InStart, Acked
  <2>9. CASE name = "i2c_send_byte"
    <3>1. InSend(Next1(r, k), Role(r, k), j, a)
      BY <2>5, <2>7, <2>9, InSendIs
    <3>2. QED
      BY <1>2, <3>1 DEF InSend, Opened, Acked, Clocked, Sent
  <2>10. CASE name = "i2c_receive_ack"
    <3>1. InAck(Next1(r, k), Role(r, k), a)
      BY <2>5, <2>7, <2>10, InAckIs
    <3>2. a \in 1..3 \/ a \in 4..6
      BY <3>1 DEF InAck
    <3>3. QED
      BY <1>2, <3>1, <3>2 DEF InAck, Sent
  <2>11. CASE name = "i2c_receive_byte"
    <3>1. \/ InReceive(Shown(Role(r, k)), Role(r, k), j, a, rx[t])
          \/ InSecond(Shown(Role(r, k)), j, a, rx[t])
      BY <2>5, <2>7, <2>11, InReceiveIs
    <3>2. QED
      BY <1>2, <3>1 DEF InReceive, InSecond
  <2>12. CASE name = "i2c_stop_bit"
    <3>1. InStop(r, Next1(r, k), a)
      BY <2>5, <2>7, <2>12, InStopIs
    <3>2. a \in {1, 2, 3, 4, 5, 6, 7}
      BY <3>1 DEF InStop
    <3>3. r.kind = "write8"
      BY <1>2, <3>1, <3>2 DEF InStop
    <3>4. QED
      BY <2>1, <2>2, <3>3
  <2>13. QED
    BY <2>7, <2>8, <2>9, <2>10, <2>11, <2>12
<1>3. ASSUME \A t \in Tasks : InCall(t) => Done(t)
      PROVE  scl = 1 /\ Sda = 1 /\ dir = 1 /\ dev = Off
  <2>1. Idle
    <3>1. CASE \A t \in Tasks : ~InCall(t)
      BY <3>1 DEF IInv
    <3>2. CASE \E t \in Tasks : InCall(t)
      <4>1. PICK t \in Tasks : InCall(t)
        BY <3>2
      <4>2. PICK r, k : r = req[t] /\ k = at[t].routine
        OBVIOUS
      <4>3. Done(t) => Idle
        BY <4>1, <4>2, PlaceOf
      <4>4. QED
        BY <1>3, <4>1, <4>3
    <3>3. QED
      BY <3>1, <3>2
  <2>2. QED
    BY <1>1, <2>1 DEF Idle
<1>4. QED
  BY <1>2, <1>3 DEF BusDiscipline

LEMMA ReadKept == Discipline /\ IInv => ReadReturnsDeviceByte
<1> SUFFICES ASSUME Discipline, IInv, NEW t \in Tasks, Done(t), req[t].dev \div 2 = DevAddr
             PROVE  /\ req[t].kind = "read8" => rx[t] = DevByte
                    /\ req[t].kind = "read16" /\ req[t].dev % 2 = 1 => Hi(rx[t]) = DevByte
  BY DEF ReadReturnsDeviceByte
<1>1. PICK r, k : r = req[t] /\ k = at[t].routine
  OBVIOUS
<1>2. InCall(t)
  BY DEF Done
<1>3. r \in Requests /\ k = Len(Script(r)) + 1 /\ Got(r, Role(r, k), rx[t])
  BY <1>1, <1>2, PlaceOf
<1>4. CASE r.kind = "read8"
  <2>1. k = 11
    <3>1. Len(Script(r)) = 10
      BY <1>3, <1>4, Chart_read8
    <3>2. QED
      BY <1>3, <3>1
  <2>2. Role(r, k) = Target(ReadBit(r.dev))
    BY <1>4, <2>1 DEF Role
  <2>3. ReadBit(r.dev) \div 2 = DevAddr /\ (ReadBit(r.dev) % 2) = 1
    BY <1>1, <1>3, RequestFields, ByteHalves
  <2>4. Role(r, k) = "tx"
    BY <2>2, <2>3 DEF Target
  <2>5. rx[t] = DevByte
    BY <1>3, <1>4, <2>4, ShownBits DEF Got
  <2>6. QED
    BY <1>1, <1>4, <2>5
<1>5. CASE r.kind = "read16" /\ (r.dev % 2) = 1
  <2>1. k = 20
    <3>1. Len(Script(r)) = 19
      BY <1>3, <1>5, Chart_read16
    <3>2. QED
      BY <1>3, <3>1
  <2>2. Role(r, k) = Target(r.dev)
    BY <1>5, <2>1 DEF Role
  <2>3. Role(r, k) = "tx"
    BY <1>1, <1>5, <2>2 DEF Target
  <2>4. Hi(rx[t]) = DevByte
    BY <1>3, <1>5, <2>3, ShownBits DEF Got
  <2>5. QED
    BY <1>1, <1>5, <2>4
<1>6. QED
  BY <1>1, <1>4, <1>5

\* A listener hears the frame of each call, and nothing else.
THEOREM FrameIsOnWire == Discipline => (Spec => []FrameOnWire)
<1> SUFFICES ASSUME Discipline PROVE Spec => []FrameOnWire
  OBVIOUS
<1>1. IInv => FrameOnWire
  BY FrameKept
<1>2. Spec => []IInv
  BY CallsInvariant
<1>3. QED
  BY <1>1, <1>2, PTL

\* Nobody is driven against but in the acknowledge that gpio_i2c_write leaves out, and every
\* call leaves the lines as it found them.
THEOREM BusIsDisciplined == Discipline => (Spec => []BusDiscipline)
<1> SUFFICES ASSUME Discipline PROVE Spec => []BusDiscipline
  OBVIOUS
<1>1. IInv => BusDiscipline
  BY DisciplineKept
<1>2. Spec => []IInv
  BY CallsInvariant
<1>3. QED
  BY <1>1, <1>2, PTL

\* A read returns what the device it addresses shows.
THEOREM ReadsReturnDeviceByte == Discipline => (Spec => []ReadReturnsDeviceByte)
<1> SUFFICES ASSUME Discipline PROVE Spec => []ReadReturnsDeviceByte
  OBVIOUS
<1>1. IInv => ReadReturnsDeviceByte
  BY ReadKept
<1>2. Spec => []IInv
  BY CallsInvariant
<1>3. QED
  BY <1>1, <1>2, PTL

-----------------------------------------------------------------------------
(* The string conversion of strfunc.c. *)

\* What one digit does to a number that fits: it fits after the digit exactly when
\* the loop's test says so.
LEMMA FitsIsExact ==
    ASSUME ulResult \in 0..(Modulus - 1), base \in {10, 16}, NEW d \in 0..(base - 1)
    PROVE  /\ ulResult * base + d \in Nat
           /\ Fits(d) => ulResult * base + d < Modulus
           /\ ~Fits(d) => ulResult * base + d >= Modulus
<1>1. CASE base = 10
  BY <1>1, StrConstants DEF Modulus, Fits
<1>2. CASE base = 16
  BY <1>2, StrConstants DEF Modulus, Fits
<1> QED BY <1>1, <1>2

\* The inductive invariant: an accumulator that equals the exact number, digits that
\* were refused only because the number would not fit, and none while the loop runs.
NotYetRefused == status # "error" => reject = NoChar
StrInv == StrTypeOK /\ Exact /\ RefusesOnlyTooBig /\ NotYetRefused

LEMMA InitStrInv == StrInit => StrInv
  BY StrConstants DEF StrInit, StrInv, StrTypeOK, Exact, RefusesOnlyTooBig, NotYetRefused, NoChar, Modulus

LEMMA StepStrInv == StrInv /\ [StrNext]_strVars => StrInv'
<1> SUFFICES ASSUME StrInv, [StrNext]_strVars PROVE StrInv'
  OBVIOUS
<1> USE DEF StrInv
<1>1. CASE StrToNumber
  BY <1>1 DEF StrToNumber, StrTypeOK, Exact, RefusesOnlyTooBig, NotYetRefused
<1>2. CASE EmptyHex
  BY <1>2 DEF EmptyHex, StrTypeOK, Exact, RefusesOnlyTooBig, NotYetRefused
<1>3. CASE BadCharacter
  BY <1>3 DEF BadCharacter, StrTypeOK, Exact, RefusesOnlyTooBig, NotYetRefused
<1>4. CASE EndOfString
  BY <1>4 DEF EndOfString, StrTypeOK, Exact, RefusesOnlyTooBig, NotYetRefused
<1>5. ASSUME NEW d \in 0..15, Accept(d) PROVE StrInv'
  <2>1. /\ ulResult \in 0..(Modulus - 1) /\ base \in {10, 16} /\ d \in 0..(base - 1)
        /\ ulResult = exact
    BY <1>5 DEF Accept, Digits, StrTypeOK, Exact
  <2>2. ulResult * base + d \in Nat /\ ulResult * base + d < Modulus
    BY <1>5, <2>1, FitsIsExact DEF Accept
  <2>3. (ulResult * base + d) % Modulus = ulResult * base + d
    <3> DEFINE n == ulResult * base + d
    <3>1. Modulus \in Nat \ {0}
      BY StrConstants DEF Modulus
    <3>2. n \in 0..(Modulus - 1)
      BY <2>2, <3>1
    <3> HIDE DEF n
    <3>3. n % Modulus = n
      BY <3>1, <3>2
    <3> QED BY <3>3 DEF n
  <2>4. ulResult' = ulResult * base + d /\ exact' = ulResult * base + d
    BY <1>5, <2>1, <2>3 DEF Accept
  <2>5. ulResult' \in 0..(Modulus - 1)
    BY <2>2, <2>4, StrConstants DEF Modulus
  <2>6. status' = "loop" /\ base' = base /\ reject' = reject
    BY <1>5 DEF Accept
  <2>7. StrTypeOK'
    BY <2>2, <2>4, <2>5, <2>6 DEF StrTypeOK, Modulus
  <2>8. Exact' /\ RefusesOnlyTooBig' /\ NotYetRefused'
    <3>1. reject = NoChar
      BY <1>5 DEF Accept, NotYetRefused
    <3> QED BY <2>4, <2>6, <3>1 DEF Exact, RefusesOnlyTooBig, NotYetRefused
  <2> QED BY <2>7, <2>8
<1>6. ASSUME NEW d \in 0..15, TooBig(d) PROVE StrInv'
  <2>1. /\ ulResult \in 0..(Modulus - 1) /\ base \in {10, 16} /\ d \in 0..(base - 1)
        /\ ulResult = exact
    BY <1>6 DEF TooBig, Digits, StrTypeOK, Exact
  <2>2. ulResult * base + d \in Nat /\ ulResult * base + d >= Modulus
    BY <1>6, <2>1, FitsIsExact DEF TooBig
  <2>3. exact * base + d >= Modulus
    BY <2>1, <2>2, StrConstants DEF Modulus
  <2>4. UNCHANGED <<base, ulResult, exact>> /\ reject' = d /\ status' = "error"
    BY <1>6 DEF TooBig
  <2>5. StrTypeOK' /\ Exact'
    BY <2>4 DEF StrTypeOK, Exact, Modulus
  <2>6. RefusesOnlyTooBig'
    BY <2>3, <2>4 DEF RefusesOnlyTooBig, Modulus, NotYetRefused
  <2>7. NotYetRefused'
    BY <2>4 DEF NotYetRefused
  <2> QED BY <2>5, <2>6, <2>7
<1>7. CASE UNCHANGED strVars
  BY <1>7 DEF strVars, StrTypeOK, Exact, RefusesOnlyTooBig, NotYetRefused, Modulus
<1> QED BY <1>1, <1>2, <1>3, <1>4, <1>5, <1>6, <1>7 DEF StrNext

THEOREM ConversionInvariant == StrSpec => []StrInv
  BY InitStrInv, StepStrInv, PTL DEF StrSpec

\* A string that is accepted has the value returned: no digit ever wraps the accumulator.
THEOREM ConversionExact == StrSpec => []Exact
<1>1. StrInv => Exact
  BY DEF StrInv
<1> QED BY ConversionInvariant, <1>1, PTL

\* Only numbers beyond the width are refused for their size.
THEOREM RefusalJustified == StrSpec => []RefusesOnlyTooBig
<1>1. StrInv => RefusesOnlyTooBig
  BY DEF StrInv
<1> QED BY ConversionInvariant, <1>1, PTL

\* Both together: StrToNumber accepts the numbers that fit and no others.
THEOREM AcceptanceExact == StrSpec => []AcceptsWhatFits
<1>1. StrInv => AcceptsWhatFits
  BY DEF StrInv, AcceptsWhatFits
<1> QED BY ConversionInvariant, <1>1, PTL

-----------------------------------------------------------------------------
(* Iteration.  The induction theorems of the library have an operator for a  *)
(* parameter; with a set, induction follows from the least element that is   *)
(* not in it.                                                                *)

LEMMA Induction ==
    ASSUME NEW S, 0 \in S, \A n \in Nat : n \in S => n + 1 \in S
    PROVE  Nat \subseteq S
<1> DEFINE T == Nat \ S
           R == OpToRel(<, Nat)
<1>1. SUFFICES ASSUME T # {} PROVE FALSE
  OBVIOUS
<1>2. IsWellFoundedOn(R, Nat)
  BY NatLessThanWellFounded
<1>3. \A y, x \in Nat : y < x => <<y, x>> \in R
  BY DEF OpToRel
<1>4. T \subseteq Nat
  OBVIOUS
<1> HIDE DEF R
<1>5. PICK x \in T : \A y \in T : ~ (<<y, x>> \in R)
  <2> HIDE DEF T
  <2> QED BY <1>1, <1>2, <1>4, WFMin
<1>6. x \in Nat /\ x # 0
  OBVIOUS
<1>7. x - 1 \in Nat /\ x - 1 < x /\ (x - 1) + 1 = x
  BY <1>6
<1>8. x - 1 \in S
  BY <1>3, <1>5, <1>6, <1>7
<1> QED BY <1>5, <1>7, <1>8

\* F has a step from V to V for each of 1..n.
Steps(F, n, V) == F \in [1..n -> [V -> V]]

\* f iterates F from start.
Iterated(f, n, V, start, F) ==
    f \in [0..n -> V] /\ f[0] = start /\ \A i \in 1..n : f[i] = F[i][f[i - 1]]

\* A recursive function over 0..n exists: step i takes the value before it to F[i] of it.
LEMMA Iterates ==
    ASSUME NEW n \in Nat, NEW V, NEW start \in V, NEW F, Steps(F, n, V)
    PROVE  \E f : Iterated(f, n, V, start, F)
<1> DEFINE Upto(m, f) == f \in [0..m -> V] /\ f[0] = start /\ \A i \in 1..m : f[i] = F[i][f[i - 1]]
           S == {m \in Nat : m <= n => \E f : Upto(m, f)}
<1>1. 0 \in S
  <2>1. Upto(0, [i \in 0..0 |-> start])
    OBVIOUS
  <2> QED BY <2>1
<1>2. ASSUME NEW m \in Nat, m \in S PROVE m + 1 \in S
  <2>1. SUFFICES ASSUME m + 1 <= n PROVE \E f : Upto(m + 1, f)
    OBVIOUS
  <2>2. PICK f : Upto(m, f)
    BY <1>2, <2>1
  <2>3. F[m + 1] \in [V -> V] /\ f[m] \in V
    BY <2>1, <2>2 DEF Steps
  <2> DEFINE g == [i \in 0..(m + 1) |-> IF i = m + 1 THEN F[m + 1][f[m]] ELSE f[i]]
  <2>4. g \in [0..(m + 1) -> V]
    BY <2>2, <2>3
  <2>5. g[0] = start
    BY <2>2
  <2>6. ASSUME NEW i \in 1..(m + 1) PROVE g[i] = F[i][g[i - 1]]
    <3>1. CASE i = m + 1
      BY <3>1
    <3>2. CASE i # m + 1
      <4>1. i \in 1..m /\ i - 1 \in 0..m /\ i - 1 # m + 1 /\ i \in 0..(m + 1) /\ i - 1 \in 0..(m + 1)
        BY <3>2
      <4>2. g[i] = f[i] /\ g[i - 1] = f[i - 1]
        BY <3>2, <4>1
      <4> QED BY <2>2, <4>1, <4>2
    <3> QED BY <3>1, <3>2
  <2> HIDE DEF g
  <2>7. Upto(m + 1, g)
    BY <2>4, <2>5, <2>6
  <2> QED BY <2>7
<1> HIDE DEF Upto
<1>3. n \in S
  <2> HIDE DEF S
  <2> QED BY <1>1, <1>2, Induction
<1>4. PICK f : Upto(n, f)
  BY <1>3
<1> QED BY <1>4 DEF Upto, Iterated

\* What holds at 0 and from one value to the next holds of all of them.
LEMMA UpTo ==
    ASSUME NEW n \in Nat, NEW Q, 0 \in Q,
           \A i \in 1..n : i - 1 \in Q => i \in Q
    PROVE  \A i \in 0..n : i \in Q
<1> DEFINE S == {i \in Nat : i <= n => i \in Q}
<1>1. 0 \in S
  OBVIOUS
<1>2. ASSUME NEW i \in Nat, i \in S PROVE i + 1 \in S
  <2>1. SUFFICES ASSUME i + 1 <= n PROVE i + 1 \in Q
    OBVIOUS
  <2>2. i \in Q /\ i + 1 \in 1..n /\ (i + 1) - 1 = i
    BY <1>2, <2>1
  <2> QED BY <2>2
<1>3. Nat \subseteq S
  <2> HIDE DEF S
  <2> QED BY <1>1, <1>2, Induction
<1> QED BY <1>3

-----------------------------------------------------------------------------
(* The numbers of the tools. *)

Base(a) == IF a.prefix THEN 16 ELSE 10

\* What an argument denotes is reached digit by digit.
LEMMA DenotesByDigits ==
    ASSUME NEW a, Len(a.chars) \in Nat, \A i \in 1..Len(a.chars) : a.chars[i] \in Nat
    PROVE  \E f \in [0..Len(a.chars) -> Nat] :
              /\ f[0] = 0 /\ Denotes(a) = f[Len(a.chars)]
              /\ \A i \in 1..Len(a.chars) : f[i] = f[i - 1] * Base(a) + a.chars[i]
<1> DEFINE s == a.chars
           n == Len(s)
           b == IF a.prefix THEN 16 ELSE 10
           F == [i \in 1..n |-> [v \in Nat |-> v * b + s[i]]]
           D(f) == f = [i \in 0..n |-> IF i = 0 THEN 0 ELSE f[i - 1] * b + s[i]]
           d == CHOOSE f : D(f)
<1>1. b \in {10, 16} /\ n \in Nat /\ \A i \in 1..n : s[i] \in Nat
  OBVIOUS
<1>2. \E f : D(f)
  <2> HIDE DEF b, n, s
  <2>1. F \in [1..n -> [Nat -> Nat]]
    <3>1. ASSUME NEW v \in Nat, NEW i \in 1..n PROVE v * b + s[i] \in Nat
      BY <1>1
    <3> QED BY <3>1
  <2>2. \A i \in 1..n, v \in Nat : F[i][v] = v * b + s[i]
    OBVIOUS
  <2>3. PICK f \in [0..n -> Nat] : f[0] = 0 /\ \A i \in 1..n : f[i] = F[i][f[i - 1]]
    <3> HIDE DEF F
    <3>1. Steps(F, n, Nat)
      BY <2>1 DEF Steps
    <3>2. \E f : Iterated(f, n, Nat, 0, F)
      BY <1>1, <3>1, Iterates
    <3> QED BY <3>2 DEF Iterated
  <2>4. \A i \in 1..n : f[i] = f[i - 1] * b + s[i]
    <3> HIDE DEF F
    <3>1. \A i \in 1..n : i - 1 \in 0..n
      BY <1>1
    <3> QED BY <2>2, <2>3, <3>1
  <2>5. \A i \in 0..n : f[i] = IF i = 0 THEN 0 ELSE f[i - 1] * b + s[i]
    BY <1>1, <2>3, <2>4
  <2>6. f = [i \in 0..n |-> f[i]]
    BY <2>3
  <2>7. D(f)
    BY <2>5, <2>6
  <2> QED BY <2>7
<1>3. D(d)
  <2> HIDE DEF D
  <2> QED BY <1>2
<1>4. d = [i \in 0..n |-> IF i = 0 THEN 0 ELSE d[i - 1] * b + s[i]]
  <2> HIDE DEF d
  <2> QED BY <1>3
<1>5. Denotes(a) = d[n]
  BY DEF Denotes
<1> HIDE DEF d, b, n, s
<1>6. d[0] = 0 /\ \A i \in 1..n : d[i] = d[i - 1] * b + s[i]
  BY <1>1, <1>4
<1>7. \A i \in 0..n : i \in {j \in 0..n : d[j] \in Nat}
  <2> DEFINE Q == {j \in 0..n : d[j] \in Nat}
  <2>1. 0 \in Q
    BY <1>1, <1>6
  <2>2. ASSUME NEW i \in 1..n, i - 1 \in Q PROVE i \in Q
    <3>1. d[i - 1] \in Nat /\ s[i] \in Nat
      BY <1>1, <2>2
    <3>2. d[i - 1] * b + s[i] \in Nat
      BY <1>1, <3>1
    <3> QED BY <1>1, <1>6, <3>2
  <2> HIDE DEF Q
  <2>3. \A i \in 0..n : i \in Q
    BY <1>1, <2>1, <2>2, UpTo
  <2> QED BY <2>3 DEF Q
<1>8. d \in [0..n -> Nat]
  BY <1>4, <1>7
<1> QED BY <1>5, <1>6, <1>8 DEF Base, b, n, s

\* The hexadecimal loop of the tp9950 tools, from 0, gives what the characters denote,
\* or has overflowed an int.
LEMMA HexLoopDenotes ==
    ASSUME NEW a, a.prefix, Len(a.chars) \in Nat, \A i \in 1..Len(a.chars) : a.chars[i] \in Nat
    PROVE  \/ HexLoop(0, a.chars) = Denotes(a)
           \/ HexLoop(0, a.chars) = Undefined /\ Denotes(a) >= Modulus \div 2
<1> DEFINE s == a.chars
           n == Len(s)
           limit == Modulus \div 2
           V == Nat \cup {Undefined}
           G(i, v) == IF v = Undefined \/ v * 16 + s[i] >= limit THEN Undefined ELSE v * 16 + s[i]
           F == [i \in 1..n |-> [v \in V |-> G(i, v)]]
           D(f) == f = [i \in 0..n |-> IF i = 0 THEN 0 ELSE G(i, f[i - 1])]
           h == CHOOSE f : D(f)
<1>1. limit \in Int /\ n \in Nat /\ \A i \in 1..n : s[i] \in Nat
  BY StrConstants DEF Modulus
<1>2. \A i \in 1..n, v \in V : G(i, v) \in V
  <2> HIDE DEF limit, n, s
  <2> QED BY <1>1 DEF Undefined
<1>3. 0 \in V
  OBVIOUS
<1>4. \E f : D(f)
  <2> HIDE DEF n, s, limit, V, G
  <2>1. Steps(F, n, V)
    BY <1>2 DEF Steps
  <2>2. \A i \in 1..n, v \in V : F[i][v] = G(i, v)
    OBVIOUS
  <2>3. PICK f \in [0..n -> V] : f[0] = 0 /\ \A i \in 1..n : f[i] = F[i][f[i - 1]]
    <3> HIDE DEF F
    <3>1. \E f : Iterated(f, n, V, 0, F)
      BY <1>1, <1>3, <2>1, Iterates
    <3> QED BY <3>1 DEF Iterated
  <2>4. \A i \in 1..n : f[i] = G(i, f[i - 1])
    <3> HIDE DEF F
    <3>1. \A i \in 1..n : i - 1 \in 0..n
      BY <1>1
    <3> QED BY <2>2, <2>3, <3>1
  <2>5. \A i \in 0..n : f[i] = IF i = 0 THEN 0 ELSE G(i, f[i - 1])
    BY <1>1, <2>3, <2>4
  <2>6. f = [i \in 0..n |-> f[i]]
    BY <2>3
  <2>7. D(f)
    BY <2>5, <2>6
  <2> QED BY <2>7
<1>5. h = [i \in 0..n |-> IF i = 0 THEN 0 ELSE G(i, h[i - 1])]
  <2>1. D(h)
    <3> HIDE DEF D
    <3> QED BY <1>4
  <2> HIDE DEF h
  <2> QED BY <2>1
<1>6. HexLoop(0, a.chars) = h[n]
  BY DEF HexLoop
<1>7. PICK d \in [0..n -> Nat] : /\ d[0] = 0 /\ Denotes(a) = d[n]
                                /\ \A i \in 1..n : d[i] = d[i - 1] * 16 + s[i]
  <2>1. Base(a) = 16
    BY DEF Base
  <2> QED BY <2>1, DenotesByDigits
<1> HIDE DEF h, n, s, limit
<1>8. h[0] = 0 /\ \A i \in 1..n : h[i] = G(i, h[i - 1])
  BY <1>1, <1>5
<1> DEFINE Same(i) == h[i] = d[i] \/ (h[i] = Undefined /\ d[i] >= limit)
           Q == {i \in 0..n : Same(i)}
<1>9. \A i \in 0..n : i \in Q
  <2>1. 0 \in Q
    BY <1>1, <1>7, <1>8
  <2>2. ASSUME NEW i \in 1..n, i - 1 \in Q PROVE i \in Q
    <3>1. Same(i - 1) /\ i \in 0..n /\ i - 1 \in 0..n /\ d[i - 1] \in Nat /\ s[i] \in Nat
      BY <1>1, <1>7, <2>2
    <3>2. d[i] = d[i - 1] * 16 + s[i] /\ h[i] = G(i, h[i - 1])
      BY <1>7, <1>8
    <3>3. Same(i)
      BY <1>1, <3>1, <3>2, SMTT(30) DEF Undefined
    <3> QED BY <3>1, <3>3
  <2> HIDE DEF Q
  <2> QED BY <1>1, <2>1, <2>2, UpTo
<1>10. Same(n)
  BY <1>1, <1>9
<1> QED BY <1>6, <1>7, <1>10 DEF n, s, limit

Args == [prefix : BOOLEAN, chars : Seq((0..15) \cup {Other})]

\* Value v of a field of size mod is what argument a denotes, cut to that size.
Typed(a, v, mod) == IsNumber(a) /\ (Denotes(a) < Modulus \div 2 => v = Denotes(a) % mod)

LEMMA NumberDigits ==
    ASSUME NEW a \in Args, IsNumber(a)
    PROVE  /\ Len(a.chars) \in Nat /\ \A i \in 1..Len(a.chars) : a.chars[i] \in Nat
           /\ Denotes(a) \in Nat
<1>1. Len(a.chars) \in Nat
  BY DEF Args
<1>2. \A i \in 1..Len(a.chars) : a.chars[i] \in Nat
  BY <1>1 DEF IsNumber
<1>3. Denotes(a) \in Nat
  BY <1>1, <1>2, DenotesByDigits
<1> QED BY <1>1, <1>2, <1>3

LEMMA Converted ==
    ASSUME NEW a \in Args, ToNumber(a) # Refused, NEW mod
    PROVE  Typed(a, Field(ToNumber(a), mod), mod)
<1>1. IsNumber(a) /\ ToNumber(a) = Denotes(a)
  BY DEF ToNumber
<1>2. Denotes(a) # Undefined
  BY <1>1, NumberDigits DEF Undefined
<1>3. Field(ToNumber(a), mod) = Denotes(a) % mod
  BY <1>1, <1>2 DEF Field
<1> QED BY <1>1, <1>3, Zenon DEF Typed

LEMMA HexConverted ==
    ASSUME NEW a \in Args, HexArg(0, a) # Refused, NEW mod
    PROVE  Typed(a, Field(HexArg(0, a), mod), mod)
<1>1. IsNumber(a) /\ a.prefix /\ HexArg(0, a) = HexLoop(0, a.chars)
  BY DEF HexArg
<1>2. Denotes(a) \in Nat
  BY <1>1, NumberDigits
<1>3. Modulus \div 2 \in Nat
  BY StrConstants DEF Modulus
<1>4. ASSUME Denotes(a) < Modulus \div 2 PROVE Field(HexArg(0, a), mod) = Denotes(a) % mod
  <2>1. HexLoop(0, a.chars) = Denotes(a)
    <3>1. ~ (Denotes(a) >= Modulus \div 2)
      <4> DEFINE n == Denotes(a)
                 m == Modulus \div 2
      <4>1. n \in Nat /\ m \in Nat /\ n < m
        BY <1>2, <1>3, <1>4
      <4> HIDE DEF n, m
      <4>2. ~ (n >= m)
        BY <4>1
      <4> QED BY <4>2 DEF n, m
    <3> QED BY <1>1, <3>1, HexLoopDenotes, NumberDigits
  <2>2. Denotes(a) # Undefined
    BY <1>2 DEF Undefined
  <2>3. HexArg(0, a) = Denotes(a)
    BY <1>1, <2>1
  <2> QED BY <2>2, <2>3, Zenon DEF Field
<1> QED BY <1>1, <1>4, Zenon DEF Typed

\* Every ioctl of the four tools carries what was typed, whatever and however much that was:
\* each number in its place, cut to the size of its own field and to no smaller one, and an
\* argument that is no number, or one too many or too few, sends nothing.
THEOREM SentAsTypedHolds == input \in ToolCalls => SentAsTyped
<1> DEFINE args == input.args
<1> SUFFICES ASSUME input \in ToolCalls, NEW tool \in Tools, Main(tool, args).sent # <<>>
             PROVE  /\ Main(tool, args).status = 0
                    /\ Len(args) = Len(Main(tool, args).sent)
                    /\ \A i \in 1..Len(Main(tool, args).sent) :
                          Typed(args[i], Main(tool, args).sent[i], Width(tool, i))
  BY DEF SentAsTyped, Typed
<1> DEFINE r == Main(tool, args)
<1>1. args \in Seq(Args)
  BY ToolAssumption DEF ToolCalls, Args
<1>2. \A i \in 1..Len(args) : args[i] \in Args
  BY <1>1
<1>3. CASE tool = "i2c_read"
  <2>1. r = I2cRead(args)
    BY <1>3 DEF Main
  <2>2. /\ Len(args) = 2 /\ ToNumber(args[1]) # Refused /\ ToNumber(args[2]) # Refused
        /\ r = Exit(0, << Field(ToNumber(args[1]), CharMod), Field(ToNumber(args[2]), ShortMod) >>)
    <3> HIDE DEF r, args
    <3> QED BY <2>1 DEF I2cRead, Exit, r, args
  <2>3. r.status = 0 /\ r.sent = << Field(ToNumber(args[1]), CharMod), Field(ToNumber(args[2]), ShortMod) >>
    <3> HIDE DEF r, args
    <3> QED BY <2>2 DEF Exit
  <2>4. args[1] \in Args /\ args[2] \in Args
    BY <1>2, <2>2
  <2> HIDE DEF r, args
  <2>5. Typed(args[1], r.sent[1], Width(tool, 1))
    <3>1. Typed(args[1], Field(ToNumber(args[1]), CharMod), CharMod)
      BY <2>2, <2>4, Converted
    <3> QED BY <1>3, <2>3, <3>1 DEF Width
  <2>6. Typed(args[2], r.sent[2], Width(tool, 2))
    <3>1. Typed(args[2], Field(ToNumber(args[2]), ShortMod), ShortMod)
      BY <2>2, <2>4, Converted
    <3> QED BY <1>3, <2>3, <3>1 DEF Width
  <2>7. Len(r.sent) = 2
    BY <2>3
  <2>8. \A i \in 1..2 : i = 1 \/ i = 2
    OBVIOUS
  <2> QED BY <2>2, <2>3, <2>5, <2>6, <2>7, <2>8 DEF r, args
<1>4. CASE tool = "i2c_write"
  <2>1. r = I2cWrite(args)
    BY <1>4 DEF Main
  <2>0. r.sent # <<>>
    OBVIOUS
  <2> HIDE DEF r, args
  <2>2. /\ Len(args) = 3 /\ \A i \in 1..3 : ToNumber(args[i]) # Refused
        /\ r = Exit(0, << Field(ToNumber(args[1]), CharMod), Field(ToNumber(args[2]), ShortMod),
                          Field(ToNumber(args[3]), ShortMod) >>)
    <3>1. Len(args) \in Nat
      BY <1>1
    <3>2. Exit(-1, <<>>).sent = <<>> /\ Exit(0, <<>>).sent = <<>>
      BY DEF Exit
    <3>3. ~ (Len(args) < 3)
      BY <2>0, <2>1, <3>2 DEF I2cWrite
    <3>4. ~ (Refused \in {ToNumber(args[i]) : i \in 1..3} \/ Len(args) > 3)
      BY <2>0, <2>1, <3>2, <3>3, Zenon DEF I2cWrite
    <3>5. \A i \in 1..3 : ToNumber(args[i]) # Refused
      BY <3>4
    <3>6. Len(args) = 3
      <4>1. ~ (Len(args) > 3)
        BY <3>4, Zenon
      <4>2. \A n \in Nat : ~ (n < 3) /\ ~ (n > 3) => n = 3
        OBVIOUS
      <4> QED BY <3>1, <3>3, <4>1, <4>2, Zenon
    <3>7. r = Exit(0, << Field(ToNumber(args[1]), CharMod), Field(ToNumber(args[2]), ShortMod),
                         Field(ToNumber(args[3]), ShortMod) >>)
      BY <2>1, <3>3, <3>4, Zenon DEF I2cWrite
    <3> QED BY <3>5, <3>6, <3>7
  <2>3. r.status = 0 /\ r.sent = << Field(ToNumber(args[1]), CharMod), Field(ToNumber(args[2]), ShortMod),
                                   Field(ToNumber(args[3]), ShortMod) >>
    BY <2>2 DEF Exit
  <2>4. \A i \in 1..3 : args[i] \in Args
    BY <1>2, <2>2
  <2> DEFINE Good(i) == args[i] \in Args /\ ToNumber(args[i]) # Refused
  <2>10. Good(1) /\ Good(2) /\ Good(3)
    <3>1. 1 \in 1..3 /\ 2 \in 1..3 /\ 3 \in 1..3
      OBVIOUS
    <3> QED BY <2>2, <2>4, <3>1, Zenon
  <2>5. Typed(args[1], r.sent[1], Width(tool, 1))
    <3>1. Typed(args[1], Field(ToNumber(args[1]), CharMod), CharMod)
      BY <2>10, Converted, Zenon
    <3>2. r.sent[1] = Field(ToNumber(args[1]), CharMod)
      BY <2>3
    <3>3. Width(tool, 1) = CharMod
      BY <1>4 DEF Width
    <3> QED BY <3>1, <3>2, <3>3
  <2>6. Typed(args[2], r.sent[2], Width(tool, 2))
    <3>1. Typed(args[2], Field(ToNumber(args[2]), ShortMod), ShortMod)
      BY <2>10, Converted, Zenon
    <3>2. r.sent[2] = Field(ToNumber(args[2]), ShortMod)
      BY <2>3
    <3>3. Width(tool, 2) = ShortMod
      BY <1>4 DEF Width
    <3> QED BY <3>1, <3>2, <3>3
  <2>7. Typed(args[3], r.sent[3], Width(tool, 3))
    <3>1. Typed(args[3], Field(ToNumber(args[3]), ShortMod), ShortMod)
      BY <2>10, Converted, Zenon
    <3>2. r.sent[3] = Field(ToNumber(args[3]), ShortMod)
      BY <2>3
    <3>3. Width(tool, 3) = ShortMod
      BY <1>4 DEF Width
    <3> QED BY <3>1, <3>2, <3>3
  <2>8. Len(r.sent) = 3
    BY <2>3
  <2>9. \A i \in 1..3 : i = 1 \/ i = 2 \/ i = 3
    OBVIOUS
  <2> QED BY <2>2, <2>3, <2>5, <2>6, <2>7, <2>8, <2>9 DEF r, args
<1>5. CASE tool = "tp9950_read"
  <2>1. r = Tp9950Read(args)
    BY <1>5 DEF Main
  <2> HIDE DEF r, args
  <2>2. /\ Len(args) = 1 /\ \A i \in 1..1 : HexArg(0, args[i]) # Refused
        /\ r = Exit(0, << Field(HexArg(0, args[1]), ShortMod) >>)
    BY <2>1 DEF Tp9950Read, Exit, r
  <2>3. r.status = 0 /\ r.sent = << Field(HexArg(0, args[1]), ShortMod) >>
    BY <2>2 DEF Exit
  <2>4. Typed(args[1], r.sent[1], Width(tool, 1))
    <3>1. args[1] \in Args /\ HexArg(0, args[1]) # Refused
      BY <1>2, <2>2
    <3>2. Typed(args[1], Field(HexArg(0, args[1]), ShortMod), ShortMod)
      BY <3>1, HexConverted
    <3> QED BY <1>5, <2>3, <3>2 DEF Width
  <2>5. Len(r.sent) = 1
    BY <2>3
  <2> QED BY <2>2, <2>3, <2>4, <2>5 DEF r, args
<1>6. CASE tool = "tp9950_write"
  <2>1. r = Tp9950Write(args)
    BY <1>6 DEF Main
  <2> HIDE DEF r, args
  <2>2. /\ Len(args) = 2 /\ \A i \in 1..2 : HexArg(0, args[i]) # Refused
        /\ r = Exit(0, [i \in 1..2 |-> Field(HexArg(0, args[i]), ShortMod)])
    BY <2>1 DEF Tp9950Write, Exit, r
  <2>3. r.status = 0 /\ r.sent = [i \in 1..2 |-> Field(HexArg(0, args[i]), ShortMod)]
    BY <2>2 DEF Exit
  <2>4. ASSUME NEW i \in 1..2 PROVE Typed(args[i], r.sent[i], Width(tool, i))
    <3>1. args[i] \in Args /\ HexArg(0, args[i]) # Refused
      BY <1>2, <2>2
    <3>2. Typed(args[i], Field(HexArg(0, args[i]), ShortMod), ShortMod)
      BY <3>1, HexConverted
    <3> QED BY <1>6, <2>3, <3>2 DEF Width
  <2>5. Len(r.sent) = 2
    BY <2>3
  <2> QED BY <2>2, <2>3, <2>4, <2>5 DEF r, args
<1> QED BY <1>3, <1>4, <1>5, <1>6 DEF Tools

-----------------------------------------------------------------------------
(* The procfs file. *)

Digit == 0..15
Char  == Digit \cup {Other, Space}
State(index, flag, x, y) == Collecting(index, flag, <<x, y>>)
States == [index : Nat, flag : BOOLEAN, temp : Seq(Digit) \X Seq(Digit)]

LEMMA StatesAre ==
    ASSUME NEW p \in States
    PROVE  \E i \in Nat, f \in BOOLEAN, x, y \in Seq(Digit) : p = State(i, f, x, y)
<1>1. p.index \in Nat /\ p.flag \in BOOLEAN /\ p.temp \in Seq(Digit) \X Seq(Digit)
  BY DEF States
<1>2. PICK x \in Seq(Digit), y \in Seq(Digit) : p.temp = <<x, y>>
  BY <1>1
<1>3. p = State(p.index, p.flag, x, y)
  BY <1>2 DEF States, State, Collecting
<1> QED BY <1>1, <1>2, <1>3

\* A digit that is collected.
LEMMA Collected ==
    ASSUME NEW f \in BOOLEAN, NEW x \in Seq(Digit), NEW y \in Seq(Digit), NEW c \in Digit
    PROVE  /\ Len(x) < 2 => Parsed(State(0, f, x, y), c) = State(0, TRUE, Append(x, c), y)
           /\ Len(y) < 2 => Parsed(State(1, f, x, y), c) = State(1, TRUE, x, Append(y, c))
<1>1. c # Space
  BY ToolAssumption DEF Digit
<1>2. c \in 0..15
  BY DEF Digit
<1>3. ASSUME Len(x) < 2 PROVE Parsed(State(0, f, x, y), c) = State(0, TRUE, Append(x, c), y)
  <2> DEFINE p == State(0, f, x, y)
  <2>1. p.index = 0 /\ p.temp = <<x, y>> /\ p.index + 1 = 1 /\ p.temp[1] = x
    BY DEF State, Collecting
  <2> HIDE DEF p
  <2>2. c # Space /\ p.index <= 1 /\ Len(p.temp[p.index + 1]) < 2
    BY <1>1, <1>3, <2>1
  <2>3. Parsed(p, c) = Collecting(p.index, TRUE, [p.temp EXCEPT ![p.index + 1] = Append(@, c)])
    BY <1>2, <2>2, Zenon DEF Parsed
  <2>4. [p.temp EXCEPT ![p.index + 1] = Append(@, c)] = <<Append(x, c), y>>
    BY <2>1
  <2> QED BY <2>1, <2>3, <2>4, Zenon DEF p, State
<1>4. ASSUME Len(y) < 2 PROVE Parsed(State(1, f, x, y), c) = State(1, TRUE, x, Append(y, c))
  <2> DEFINE p == State(1, f, x, y)
  <2>1. p.index = 1 /\ p.temp = <<x, y>> /\ p.index + 1 = 2 /\ p.temp[2] = y
    BY DEF State, Collecting
  <2> HIDE DEF p
  <2>2. c # Space /\ p.index <= 1 /\ Len(p.temp[p.index + 1]) < 2
    BY <1>1, <1>4, <2>1
  <2>3. Parsed(p, c) = Collecting(p.index, TRUE, [p.temp EXCEPT ![p.index + 1] = Append(@, c)])
    BY <1>2, <2>2, Zenon DEF Parsed
  <2>4. [p.temp EXCEPT ![p.index + 1] = Append(@, c)] = <<x, Append(y, c)>>
    BY <2>1
  <2> QED BY <2>1, <2>3, <2>4, Zenon DEF p, State
<1> QED BY <1>3, <1>4

LEMMA ParsedType ==
    ASSUME NEW p \in States, NEW c \in Char
    PROVE  Parsed(p, c) \in States
<1>1. PICK i \in Nat, f \in BOOLEAN, x \in Seq(Digit), y \in Seq(Digit) : p = State(i, f, x, y)
  BY StatesAre
<1>2. \A j \in Nat, g \in BOOLEAN, u, v \in Seq(Digit) : State(j, g, u, v) \in States
  BY DEF State, States, Collecting
<1>3. Parsed(p, c) = p \/ Parsed(p, c) = State(i + 1, FALSE, x, y)
       \/ (c \in Digit /\ i = 0 /\ Parsed(p, c) = State(0, TRUE, Append(x, c), y))
       \/ (c \in Digit /\ i = 1 /\ Parsed(p, c) = State(1, TRUE, x, Append(y, c)))
  <2>1. CASE c # Space /\ i <= 1 /\ Len(<<x, y>>[i + 1]) < 2 /\ c \in Digit
    <3>1. i = 0 \/ i = 1
      BY <2>1
    <3>2. <<x, y>>[1] = x /\ <<x, y>>[2] = y
      OBVIOUS
    <3>3. CASE i = 0
      <4>1. Len(x) < 2 /\ p = State(0, f, x, y) /\ c \in Digit
        BY <1>1, <2>1, <3>2, <3>3
      <4>2. Parsed(State(0, f, x, y), c) = State(0, TRUE, Append(x, c), y)
        BY <4>1, Collected
      <4> QED BY <3>3, <4>1, <4>2
    <3>4. CASE i = 1
      <4>1. Len(y) < 2 /\ p = State(1, f, x, y) /\ c \in Digit
        BY <1>1, <2>1, <3>2, <3>4
      <4>2. Parsed(State(1, f, x, y), c) = State(1, TRUE, x, Append(y, c))
        BY <4>1, Collected
      <4> QED BY <3>4, <4>1, <4>2
    <3> QED BY <3>1, <3>3, <3>4
  <2>2. CASE ~ (c # Space /\ i <= 1 /\ Len(<<x, y>>[i + 1]) < 2 /\ c \in Digit)
    BY <1>1, <2>2 DEF Parsed, State, Collecting, Digit
  <2> QED BY <2>1, <2>2
<1>4. c \in Digit => Append(x, c) \in Seq(Digit) /\ Append(y, c) \in Seq(Digit)
  OBVIOUS
<1>5. i + 1 \in Nat /\ 0 \in Nat /\ 1 \in Nat
  OBVIOUS
<1> QED BY <1>2, <1>3, <1>4, <1>5

\* The parser goes through a text character by character; what it has after the last that
\* fits the buffer is written.
LEMMA ParserRuns ==
    ASSUME NEW text \in Seq(Char)
    PROVE  \E p : /\ p[0] = Parser
                  /\ \A i \in 1..Len(text) : p[i] = Parsed(p[i - 1], text[i])
                  /\ LET m == IF Len(text) > BufferLen THEN BufferLen ELSE Len(text)
                     IN  ProcSeqWrite(text) = [i \in 1..2 |-> HexByte(p[m].temp[i])]
<1> DEFINE n == Len(text)
           F == [i \in 1..n |-> [q \in States |-> Parsed(q, text[i])]]
           D(f) == f = [i \in 0..n |-> IF i = 0 THEN Parser ELSE Parsed(f[i - 1], text[i])]
           p == CHOOSE f : D(f)
<1>1. n \in Nat /\ \A i \in 1..n : text[i] \in Char
  OBVIOUS
<1>2. \E f : D(f)
  <2> HIDE DEF n
  <2>1. Steps(F, n, States)
    BY <1>1, ParsedType DEF Steps
  <2>2. \A i \in 1..n, q \in States : F[i][q] = Parsed(q, text[i])
    OBVIOUS
  <2>3. Parser \in States
    <3>1. <<>> \in Seq(Digit)
      OBVIOUS
    <3>2. << <<>>, <<>> >> \in Seq(Digit) \X Seq(Digit)
      BY <3>1
    <3> QED BY <3>2 DEF Parser, States, Collecting
  <2>4. PICK f \in [0..n -> States] : f[0] = Parser /\ \A i \in 1..n : f[i] = F[i][f[i - 1]]
    <3> HIDE DEF F
    <3>1. \E f : Iterated(f, n, States, Parser, F)
      BY <1>1, <2>1, <2>3, Iterates
    <3> QED BY <3>1 DEF Iterated
  <2>5. \A i \in 1..n : f[i] = Parsed(f[i - 1], text[i])
    <3> HIDE DEF F
    <3>1. \A i \in 1..n : i - 1 \in 0..n
      BY <1>1
    <3> QED BY <2>2, <2>4, <3>1
  <2>6. \A i \in 0..n : f[i] = IF i = 0 THEN Parser ELSE Parsed(f[i - 1], text[i])
    BY <1>1, <2>4, <2>5
  <2>7. f = [i \in 0..n |-> f[i]]
    BY <2>4
  <2>8. D(f)
    BY <2>6, <2>7
  <2> QED BY <2>8
<1>3. p = [i \in 0..n |-> IF i = 0 THEN Parser ELSE Parsed(p[i - 1], text[i])]
  <2>1. D(p)
    <3> HIDE DEF D
    <3> QED BY <1>2
  <2> HIDE DEF p
  <2> QED BY <2>1
<1>4. ProcSeqWrite(text) = [i \in 1..2 |-> HexByte(p[IF n > BufferLen THEN BufferLen ELSE n].temp[i])]
  BY DEF ProcSeqWrite
<1> HIDE DEF p, n
<1>5. p[0] = Parser /\ \A i \in 1..n : p[i] = Parsed(p[i - 1], text[i])
  BY <1>1, <1>3
<1> QED BY <1>4, <1>5 DEF n

\* Where the parts of a text are.
LEMMA Joined2 ==
    ASSUME NEW s \in Seq(Char), NEW t \in Seq(Char)
    PROVE  /\ s \o t \in Seq(Char) /\ Len(s \o t) = Len(s) + Len(t)
           /\ \A i \in 1..Len(s) : (s \o t)[i] = s[i]
           /\ \A i \in 1..Len(t) : (s \o t)[Len(s) + i] = t[i]
OBVIOUS

Blank(s) == s \in Seq(Char) /\ \A i \in 1..Len(s) : s[i] = Space

\* A tail does not go on with the number before it: a digit in it comes after a space, or
\* the number has its two digits.
Cut(value, tail) ==
    \A i \in 1..Len(tail) : tail[i] \in Digit =>
        Len(value) = 2 \/ \E k \in 1..(i - 1) : tail[k] = Space


\* The parser between numbers, the k-th or what comes after the second next, and in one.
Waiting(k, x, y) == State(k, FALSE, x, y)
Reading(k, x, y) == State(k, TRUE, x, y)

\* It has no character of number k, the other being o, and has s of it.
Begins(k, o)    == IF k = 0 THEN Waiting(0, <<>>, o) ELSE Waiting(1, o, <<>>)
Number(k, s, o) == IF k = 0 THEN Reading(0, s, o) ELSE Reading(1, o, s)

LEMMA StateType ==
    ASSUME NEW k \in Nat, NEW x \in Seq(Digit), NEW y \in Seq(Digit)
    PROVE  Waiting(k, x, y) \in States /\ Reading(k, x, y) \in States
BY DEF Waiting, Reading, State, States, Collecting

LEMMA StateTemp ==
    ASSUME NEW k, NEW x, NEW y
    PROVE  Waiting(k, x, y).temp = <<x, y>> /\ Reading(k, x, y).temp = <<x, y>>
BY DEF Waiting, Reading, State, Collecting

LEMMA WaitingSteps ==
    ASSUME NEW k \in Nat, NEW x \in Seq(Digit), NEW y \in Seq(Digit)
    PROVE  /\ Parsed(Waiting(k, x, y), Space) = Waiting(k, x, y)
           /\ k = 2 => \A c \in Char : Parsed(Waiting(k, x, y), c) = Waiting(k, x, y)
<1>1. Parsed(State(k, FALSE, x, y), Space) = State(k, FALSE, x, y)
  BY DEF Parsed, State, Collecting
<1>2. ASSUME k = 2, NEW c \in Char PROVE Parsed(State(k, FALSE, x, y), c) = State(k, FALSE, x, y)
  BY <1>2 DEF Parsed, State, Collecting
<1> QED BY <1>1, <1>2 DEF Waiting

LEMMA ReadingSteps ==
    ASSUME NEW x \in Seq(Digit), NEW y \in Seq(Digit)
    PROVE  /\ Parsed(Reading(0, x, y), Space) = Waiting(1, x, y)
           /\ \A c \in Char :
                /\ c = Space \/ Len(y) = 2 => Parsed(Reading(1, x, y), c) = Waiting(2, x, y)
                /\ c # Space /\ c \notin Digit /\ Len(y) < 2 =>
                      Parsed(Reading(1, x, y), c) = Reading(1, x, y)
<1>1. Parsed(State(0, TRUE, x, y), Space) = State(1, FALSE, x, y)
  BY DEF Parsed, State, Collecting
<1>2. Parsed(State(1, TRUE, x, y), Space) = State(2, FALSE, x, y)
  BY DEF Parsed, State, Collecting
<1>3. ASSUME NEW c \in Char, Len(y) = 2 PROVE Parsed(State(1, TRUE, x, y), c) = State(2, FALSE, x, y)
  BY <1>3 DEF Parsed, State, Collecting
<1>4. ASSUME NEW c \in Char, c # Space, c \notin Digit, Len(y) < 2
      PROVE  Parsed(State(1, TRUE, x, y), c) = State(1, TRUE, x, y)
  BY <1>4 DEF Parsed, State, Collecting, Digit
<1> QED BY <1>1, <1>2, <1>3, <1>4 DEF Waiting, Reading

LEMMA NumberSteps ==
    ASSUME NEW k \in 0..1, NEW o \in Seq(Digit), NEW c \in Digit
    PROVE  /\ Begins(k, o) \in States
           /\ Parsed(Begins(k, o), c) = Number(k, <<c>>, o)
           /\ \A s \in Seq(Digit) : Len(s) < 2 =>
                Number(k, s, o) \in States /\ Parsed(Number(k, s, o), c) = Number(k, Append(s, c), o)
<1> DEFINE none == <<>>
<1>1. none \in Seq(Digit) /\ Len(none) < 2 /\ Append(none, c) = <<c>>
  OBVIOUS
<1> HIDE DEF none
<1>2. TRUE \in BOOLEAN /\ FALSE \in BOOLEAN
  OBVIOUS
<1>3. CASE k = 0
  <2>1. Parsed(State(0, FALSE, none, o), c) = State(0, TRUE, Append(none, c), o)
    BY <1>1, <1>2, Collected
  <2>2. Parsed(Begins(k, o), c) = Number(k, <<c>>, o)
    BY <1>1, <1>3, <2>1 DEF Begins, Number, Waiting, Reading, none
  <2>3. Begins(k, o) \in States
    BY <1>1, <1>3, StateType DEF Begins, none
  <2>4. ASSUME NEW s \in Seq(Digit), Len(s) < 2
        PROVE  Number(k, s, o) \in States /\ Parsed(Number(k, s, o), c) = Number(k, Append(s, c), o)
    <3>1. Parsed(State(0, TRUE, s, o), c) = State(0, TRUE, Append(s, c), o)
      BY <1>2, <2>4, Collected
    <3>2. Parsed(Number(k, s, o), c) = Number(k, Append(s, c), o)
      BY <1>3, <3>1 DEF Number, Reading
    <3>3. Number(k, s, o) \in States
      BY <1>3, StateType DEF Number
    <3> QED BY <3>2, <3>3
  <2> QED BY <2>2, <2>3, <2>4
<1>4. CASE k = 1
  <2>1. Parsed(State(1, FALSE, o, none), c) = State(1, TRUE, o, Append(none, c))
    BY <1>1, <1>2, Collected
  <2>2. Parsed(Begins(k, o), c) = Number(k, <<c>>, o)
    <3>1. Begins(k, o) = State(1, FALSE, o, none)
      BY <1>4 DEF Begins, Waiting, none
    <3>2. Number(k, Append(none, c), o) = State(1, TRUE, o, Append(none, c))
      BY <1>4 DEF Number, Reading
    <3> QED BY <1>1, <2>1, <3>1, <3>2
  <2>3. Begins(k, o) \in States
    BY <1>1, <1>4, StateType DEF Begins, none
  <2>4. ASSUME NEW s \in Seq(Digit), Len(s) < 2
        PROVE  Number(k, s, o) \in States /\ Parsed(Number(k, s, o), c) = Number(k, Append(s, c), o)
    <3>1. Parsed(State(1, TRUE, o, s), c) = State(1, TRUE, o, Append(s, c))
      BY <1>2, <2>4, Collected
    <3>2. Parsed(Number(k, s, o), c) = Number(k, Append(s, c), o)
      <4>1. \A u \in Seq(Digit) : Number(k, u, o) = State(1, TRUE, o, u)
        BY <1>4 DEF Number, Reading
      <4>2. Append(s, c) \in Seq(Digit)
        OBVIOUS
      <4> QED BY <3>1, <4>1, <4>2
    <3>3. Number(k, s, o) \in States
      BY <1>4, StateType DEF Number
    <3> QED BY <3>2, <3>3
  <2> QED BY <2>2, <2>3, <2>4
<1>5. k = 0 \/ k = 1
  OBVIOUS
<1> QED BY <1>3, <1>4, <1>5

\* The parser is in state q after i characters, and goes through the first n characters of
\* s from there.
At(p, i, q) == p[i] = q
Reads(p, a, s, n) == \A i \in 1..n, q \in States : At(p, a + (i - 1), q) => At(p, a + i, Parsed(q, s[i]))

LEMMA NextRead ==
    ASSUME NEW p, NEW a \in Nat, NEW s, NEW n \in Nat, Reads(p, a, s, n), NEW i \in 1..n,
           NEW q \in States, At(p, a + (i - 1), q)
    PROVE  At(p, a + i, Parsed(q, s[i]))
BY DEF Reads

LEMMA Spaces ==
    ASSUME NEW p, NEW a \in Nat, NEW s, NEW n \in Nat, Reads(p, a, s, n),
           \A i \in 1..n : s[i] = Space,
           NEW q \in States, Parsed(q, Space) = q, At(p, a, q)
    PROVE  At(p, a + n, q)
<1> DEFINE Q == {i \in 0..n : At(p, a + i, q)}
<1>1. 0 \in Q
  <2>1. a + 0 = a /\ 0 \in 0..n
    OBVIOUS
  <2> QED BY <2>1
<1>2. ASSUME NEW i \in 1..n, i - 1 \in Q PROVE i \in Q
  <2>1. At(p, a + (i - 1), q) /\ s[i] = Space
    BY <1>2
  <2>2. At(p, a + i, Parsed(q, s[i]))
    BY <2>1, NextRead
  <2> QED BY <2>1, <2>2
<1>3. n \in Q
  <2>1. n \in 0..n
    OBVIOUS
  <2> HIDE DEF Q
  <2> QED BY <1>1, <1>2, <2>1, UpTo
<1> QED BY <1>3

\* A number of one or two digits is collected whole.
LEMMA NumberRead ==
    ASSUME NEW p, NEW a \in Nat, NEW k \in 0..1, NEW s \in Seq(Digit), Len(s) \in 1..2,
           NEW o \in Seq(Digit), Reads(p, a, s, Len(s)), At(p, a, Begins(k, o))
    PROVE  At(p, a + Len(s), Number(k, s, o))
<1>1. s[1] \in Digit /\ (Len(s) = 1 => s = <<s[1]>>)
  OBVIOUS
<1>2. Len(s) = 2 => s[2] \in Digit /\ s = Append(<<s[1]>>, s[2])
  OBVIOUS
<1>3. <<s[1]>> \in Seq(Digit) /\ Len(<<s[1]>>) < 2
  BY <1>1
<1>4. At(p, a + 1, Number(k, <<s[1]>>, o))
  <2>1. 1 \in 1..Len(s) /\ a + (1 - 1) = a /\ Len(s) \in Nat
    <3>1. \A n \in 1..2 : 1 \in 1..n /\ n \in Nat
      OBVIOUS
    <3>2. \A m \in Nat : m + (1 - 1) = m
      OBVIOUS
    <3> QED BY <3>1, <3>2
  <2>2. Begins(k, o) \in States /\ Parsed(Begins(k, o), s[1]) = Number(k, <<s[1]>>, o)
    BY <1>1, NumberSteps
  <2> QED BY <2>1, <2>2, NextRead
<1>5. CASE Len(s) = 1
  BY <1>1, <1>4, <1>5
<1>6. CASE Len(s) = 2
  <2>1. 2 \in 1..Len(s) /\ a + (2 - 1) = a + 1 /\ Len(s) \in Nat
    BY <1>6
  <2>2. /\ Number(k, <<s[1]>>, o) \in States
        /\ Parsed(Number(k, <<s[1]>>, o), s[2]) = Number(k, s, o)
    <3> DEFINE t == <<s[1]>>
               c == s[2]
    <3>1. t \in Seq(Digit) /\ Len(t) < 2 /\ c \in Digit /\ Append(t, c) = s
      BY <1>2, <1>3, <1>6
    <3> HIDE DEF t, c
    <3>2. Number(k, t, o) \in States /\ Parsed(Number(k, t, o), c) = Number(k, Append(t, c), o)
      BY <3>1, NumberSteps
    <3> QED BY <3>1, <3>2 DEF t, c
  <2>3. At(p, a + 2, Parsed(Number(k, <<s[1]>>, o), s[2]))
    BY <1>4, <2>1, <2>2, NextRead
  <2> QED BY <1>6, <2>2, <2>3
<1>7. Len(s) = 1 \/ Len(s) = 2
  OBVIOUS
<1> QED BY <1>5, <1>6, <1>7

\* What comes after the numbers changes neither.
LEMMA TailKeeps ==
    ASSUME NEW p, NEW a \in Nat, NEW tail \in Seq(Char), NEW b \in 0..Len(tail),
           NEW x \in Seq(Digit), NEW y \in Seq(Digit), Len(y) \in 1..2, Cut(y, tail),
           Reads(p, a, tail, b), At(p, a, Reading(1, x, y))
    PROVE  At(p, a + b, Reading(1, x, y)) \/ At(p, a + b, Waiting(2, x, y))
<1> DEFINE open == Reading(1, x, y)
           shut == Waiting(2, x, y)
           Open(i) == At(p, a + i, open) /\ \A k \in 1..i : tail[k] # Space
           Shut(i) == At(p, a + i, shut)
           Q == {i \in 0..b : Open(i) \/ Shut(i)}
<1>1. open \in States /\ shut \in States
  BY StateType
<1>2. \A c \in Char :
         /\ Parsed(shut, c) = shut
         /\ Len(y) = 2 \/ c = Space => Parsed(open, c) = shut
         /\ Len(y) # 2 /\ c # Space /\ c \notin Digit => Parsed(open, c) = open
  <2>1. \A n \in 1..2 : n # 2 => n < 2
    OBVIOUS
  <2> QED BY <2>1, WaitingSteps, ReadingSteps
<1>3. At(p, a, open)
  OBVIOUS
<1> HIDE DEF open, shut
<1>4. b \in Nat /\ a + 0 = a /\ b \in 0..b /\ \A i \in 1..b : tail[i] \in Char
  OBVIOUS
<1>5. 0 \in Q
  BY <1>3, <1>4
<1>6. ASSUME NEW i \in 1..b, i - 1 \in Q PROVE i \in Q
  <2>1. tail[i] \in Char /\ i \in 0..b
    BY <1>4
  <2>2. \A q \in States : At(p, a + (i - 1), q) => At(p, a + i, Parsed(q, tail[i]))
    BY <1>4, NextRead
  <2>3. CASE Shut(i - 1)
    BY <1>1, <1>2, <2>1, <2>2, <2>3
  <2>4. CASE Open(i - 1)
    <3>1. CASE Len(y) = 2 \/ tail[i] = Space
      BY <1>1, <1>2, <2>1, <2>2, <2>4, <3>1
    <3>2. CASE Len(y) # 2 /\ tail[i] # Space
      <4>1. tail[i] \notin Digit
        <5>1. i \in 1..Len(tail)
          OBVIOUS
        <5> QED BY <2>4, <3>2, <5>1 DEF Cut
      <4>2. At(p, a + i, open)
        BY <1>1, <1>2, <2>1, <2>2, <2>4, <3>2, <4>1
      <4>3. \A k \in 1..i : tail[k] # Space
        BY <2>4, <3>2
      <4> QED BY <2>1, <4>2, <4>3
    <3> QED BY <3>1, <3>2
  <2> QED BY <1>6, <2>3, <2>4
<1>7. b \in Q
  <2> HIDE DEF Q
  <2> QED BY <1>4, <1>5, <1>6, UpTo
<1> QED BY <1>7 DEF open, shut


\* Reading one part after another is reading both.
LEMMA ReadsBoth ==
    ASSUME NEW p, NEW s \in Seq(Char), NEW t \in Seq(Char), NEW n \in Nat,
           Len(s) <= n, n <= Len(s) + Len(t), Reads(p, 0, s \o t, n)
    PROVE  Reads(p, 0, s, Len(s)) /\ Reads(p, Len(s), t, n - Len(s))
<1> DEFINE k == Len(s)
           l == Len(t)
           u == s \o t
<1>1. k \in Nat /\ l \in Nat /\ k <= n /\ n <= k + l
  OBVIOUS
<1>2. (\A i \in 1..k : u[i] = s[i]) /\ \A i \in 1..l : u[k + i] = t[i]
  BY Joined2
<1>3. Reads(p, 0, u, n)
  OBVIOUS
<1> HIDE DEF k, l, u
<1>4. Reads(p, 0, s, k)
  <2>1. ASSUME NEW i \in 1..k, NEW q \in States, At(p, 0 + (i - 1), q)
        PROVE  At(p, 0 + i, Parsed(q, s[i]))
    <3>1. i \in 1..n /\ u[i] = s[i]
      BY <1>1, <1>2
    <3>2. At(p, 0 + i, Parsed(q, u[i]))
      BY <1>3, <2>1, <3>1, NextRead
    <3> QED BY <3>1, <3>2
  <2> QED BY <2>1 DEF Reads
<1>5. Reads(p, k, t, n - k)
  <2>1. ASSUME NEW i \in 1..(n - k), NEW q \in States, At(p, k + (i - 1), q)
        PROVE  At(p, k + i, Parsed(q, t[i]))
    <3>1. k + i \in 1..n /\ i \in 1..l
      BY <1>1
    <3>2. k + (i - 1) = 0 + ((k + i) - 1) /\ k + i = 0 + (k + i)
      BY <1>1
    <3>3. u[k + i] = t[i]
      BY <1>2, <3>1
    <3>4. At(p, 0 + (k + i), Parsed(q, u[k + i]))
      BY <1>3, <2>1, <3>1, <3>2, NextRead
    <3> QED BY <3>2, <3>3, <3>4
  <2> QED BY <2>1 DEF Reads
<1> QED BY <1>4, <1>5 DEF k

LEMMA ReadsAll ==
    ASSUME NEW p, NEW s \in Seq(Char), NEW t \in Seq(Char),
           Reads(p, 0, s \o t, Len(s \o t))
    PROVE  Reads(p, 0, s, Len(s)) /\ Reads(p, Len(s), t, Len(t))
<1> DEFINE k == Len(s)
           l == Len(t)
           n == Len(s \o t)
<1>1. k \in Nat /\ l \in Nat /\ n = k + l
  OBVIOUS
<1>2. Reads(p, 0, s \o t, n)
  OBVIOUS
<1> HIDE DEF k, l, n
<1>3. n \in Nat /\ k <= n /\ n <= k + l /\ n - k = l
  BY <1>1
<1>4. Reads(p, 0, s, k) /\ Reads(p, k, t, n - k)
  BY <1>2, <1>3, ReadsBoth DEF k, l
<1> QED BY <1>3, <1>4 DEF k, l

\* Two numbers, spaces before and between them, are both collected.
LEMMA PairRead ==
    ASSUME NEW p, NEW u, Blank(u), NEW w, Blank(w),
           NEW x \in Seq(Digit), Len(x) \in 1..2, NEW y \in Seq(Digit), Len(y) \in 1..2,
           At(p, 0, Parser),
           LET pair == u \o x \o <<Space>> \o w \o y IN Reads(p, 0, pair, Len(pair))
    PROVE  LET pair == u \o x \o <<Space>> \o w \o y IN At(p, Len(pair), Reading(1, x, y))
<1> DEFINE sp == <<Space>>
           x1 == u \o x
           x2 == x1 \o sp
           x3 == x2 \o w
           x4 == x3 \o y
           none == <<>>
<1>1. u \in Seq(Char) /\ w \in Seq(Char)
  BY DEF Blank
<1>2. x \in Seq(Char) /\ y \in Seq(Char)
  BY DEF Char
<1>3. sp \in Seq(Char) /\ Len(sp) = 1 /\ sp[1] = Space
  BY DEF Char
<1>4. none \in Seq(Digit)
  OBVIOUS
<1>5. Parser = Begins(0, none) /\ Parser \in States /\ Parsed(Parser, Space) = Parser
  <2>1. Parser = Waiting(0, none, none)
    BY DEF Parser, Waiting, State, none
  <2>2. Begins(0, none) = Waiting(0, none, none)
    BY DEF Begins, none
  <2> HIDE DEF none
  <2> QED BY <1>4, <2>1, <2>2, StateType, WaitingSteps
<1>6. Begins(1, x) = Waiting(1, x, none)
  BY DEF Begins
<1>7. Number(0, x, none) = Reading(0, x, none) /\ Number(1, y, x) = Reading(1, x, y)
  BY DEF Number
<1>8. Reads(p, 0, x4, Len(x4)) /\ At(p, 0, Parser)
  OBVIOUS
<1> HIDE DEF sp, none
<1>9. /\ x1 \in Seq(Char) /\ Len(x1) = Len(u) + Len(x)
      /\ x2 \in Seq(Char) /\ Len(x2) = Len(x1) + 1
      /\ x3 \in Seq(Char) /\ Len(x3) = Len(x2) + Len(w)
      /\ x4 \in Seq(Char) /\ Len(x4) = Len(x3) + Len(y)
  <2>1. x1 \in Seq(Char) /\ Len(x1) = Len(u) + Len(x)
    BY <1>1, <1>2, Joined2
  <2> HIDE DEF x1
  <2>2. x2 \in Seq(Char) /\ Len(x2) = Len(x1) + 1
    <3>1. x1 \o sp \in Seq(Char) /\ Len(x1 \o sp) = Len(x1) + Len(sp)
      BY <1>3, <2>1, Joined2
    <3> QED BY <1>3, <3>1
  <2> HIDE DEF x2
  <2>3. x3 \in Seq(Char) /\ Len(x3) = Len(x2) + Len(w)
    BY <1>1, <2>2, Joined2
  <2> HIDE DEF x3
  <2>4. x4 \in Seq(Char) /\ Len(x4) = Len(x3) + Len(y)
    BY <1>2, <2>3, Joined2
  <2> QED BY <2>1, <2>2, <2>3, <2>4
<1>10. /\ Reads(p, 0, u, Len(u)) /\ Reads(p, Len(u), x, Len(x))
       /\ Reads(p, Len(x1), sp, 1) /\ Reads(p, Len(x2), w, Len(w)) /\ Reads(p, Len(x3), y, Len(y))
  <2> HIDE DEF x3
  <2>1. Reads(p, 0, x3, Len(x3)) /\ Reads(p, Len(x3), y, Len(y))
    BY <1>2, <1>8, <1>9, ReadsAll
  <2> USE DEF x3
  <2> HIDE DEF x2, x4
  <2>2. Reads(p, 0, x2, Len(x2)) /\ Reads(p, Len(x2), w, Len(w))
    BY <1>1, <1>9, <2>1, ReadsAll
  <2> USE DEF x2
  <2> HIDE DEF x1, x3
  <2>3. Reads(p, 0, x1, Len(x1)) /\ Reads(p, Len(x1), sp, Len(sp))
    BY <1>3, <1>9, <2>2, ReadsAll
  <2> USE DEF x1
  <2> HIDE DEF x2
  <2>4. Reads(p, 0, u, Len(u)) /\ Reads(p, Len(u), x, Len(x))
    BY <1>1, <1>2, <2>3, ReadsAll
  <2> QED BY <1>3, <2>1, <2>2, <2>3, <2>4
<1>11. At(p, Len(x4), Reading(1, x, y))
  <2> HIDE DEF x1, x2, x3, x4
  <2>0. /\ Len(u) \in Nat /\ Len(x1) \in Nat /\ Len(x2) \in Nat /\ Len(x3) \in Nat /\ Len(w) \in Nat
        /\ 0 + Len(u) = Len(u)
    BY <1>1, <1>9
  <2>1. At(p, Len(u), Parser)
    <3>1. At(p, 0 + Len(u), Parser)
      <4>1. \A i \in 1..Len(u) : u[i] = Space
        BY DEF Blank
      <4> QED BY <1>5, <1>8, <1>10, <2>0, <4>1, Spaces
    <3> QED BY <2>0, <3>1
  <2>2. At(p, Len(x1), Reading(0, x, none))
    <3>1. At(p, Len(u) + Len(x), Number(0, x, none))
      <4>1. At(p, Len(u), Begins(0, none)) /\ 0 \in 0..1
        BY <1>5, <2>1
      <4> QED BY <1>4, <1>10, <2>0, <4>1, NumberRead
    <3> QED BY <1>7, <1>9, <3>1
  <2>3. At(p, Len(x2), Waiting(1, x, none))
    <3>1. Parsed(Reading(0, x, none), Space) = Waiting(1, x, none) /\ Reading(0, x, none) \in States
      BY <1>4, ReadingSteps, StateType
    <3>2. 1 \in 1..1 /\ Len(x1) + (1 - 1) = Len(x1)
      BY <2>0
    <3>3. At(p, Len(x1) + 1, Parsed(Reading(0, x, none), sp[1]))
      BY <1>10, <2>0, <2>2, <3>1, <3>2, NextRead
    <3> QED BY <1>3, <1>9, <3>1, <3>3
  <2>4. At(p, Len(x3), Waiting(1, x, none))
    <3>1. /\ Parsed(Waiting(1, x, none), Space) = Waiting(1, x, none)
          /\ Waiting(1, x, none) \in States
      BY <1>4, WaitingSteps, StateType
    <3>2. \A i \in 1..Len(w) : w[i] = Space
      BY DEF Blank
    <3>3. At(p, Len(x2) + Len(w), Waiting(1, x, none))
      BY <1>10, <2>0, <2>3, <3>1, <3>2, Spaces
    <3> QED BY <1>9, <3>3
  <2>5. At(p, Len(x3) + Len(y), Number(1, y, x))
    <3>1. At(p, Len(x3), Begins(1, x)) /\ 1 \in 0..1
      BY <1>6, <2>4
    <3> QED BY <1>10, <2>0, <3>1, NumberRead
  <2> QED BY <1>7, <1>9, <2>5
<1> QED BY <1>11 DEF sp

\* proc_seq_write of two numbers of one or two digits, of any value, writes the second to
\* the address that is the first, if both are within the buffer.
THEOREM ProcNumbers ==
    ASSUME NEW u, Blank(u), NEW w, Blank(w),
           NEW x \in Seq(Digit), Len(x) \in 1..2, NEW y \in Seq(Digit), Len(y) \in 1..2,
           NEW tail \in Seq(Char), Cut(y, tail),
           Len(u \o x \o <<Space>> \o w \o y) <= BufferLen
    PROVE  ProcSeqWrite((u \o x \o <<Space>> \o w \o y) \o tail) = << HexByte(x), HexByte(y) >>
<1> DEFINE pair == u \o x \o <<Space>> \o w \o y
           text == pair \o tail
           m    == IF Len(text) > BufferLen THEN BufferLen ELSE Len(text)
<1>1. pair \in Seq(Char)
  <2>1. u \in Seq(Char) /\ w \in Seq(Char) /\ x \in Seq(Char) /\ y \in Seq(Char) /\ <<Space>> \in Seq(Char)
    BY DEF Blank, Char
  <2>2. \A s, t \in Seq(Char) : s \o t \in Seq(Char)
    BY Joined2
  <2> QED BY <2>1, <2>2
<1>2. Len(pair) <= BufferLen
  OBVIOUS
<1>3. ASSUME NEW p, At(p, 0, Parser), Reads(p, 0, pair, Len(pair)) PROVE At(p, Len(pair), Reading(1, x, y))
  BY <1>3, PairRead
<1> HIDE DEF pair
<1>4. text \in Seq(Char) /\ Len(text) = Len(pair) + Len(tail)
  BY <1>1, Joined2
<1>5. BufferLen \in Nat
  BY ToolAssumption
<1>6. PICK p : /\ p[0] = Parser
               /\ \A i \in 1..Len(text) : p[i] = Parsed(p[i - 1], text[i])
               /\ ProcSeqWrite(text) = [i \in 1..2 |-> HexByte(p[m].temp[i])]
  BY <1>4, ParserRuns
<1> HIDE DEF text
<1>7. m \in Nat /\ m <= Len(text) /\ Len(pair) <= m /\ m - Len(pair) \in 0..Len(tail)
      /\ Len(pair) \in Nat /\ Len(pair) + (m - Len(pair)) = m
  <2>1. Len(pair) \in Nat /\ Len(tail) \in Nat
    BY <1>1
  <2> QED BY <1>2, <1>4, <1>5, <2>1
<1> HIDE DEF m
<1>8. Reads(p, 0, text, m) /\ At(p, 0, Parser)
  <2>1. ASSUME NEW i \in 1..m, NEW q \in States, At(p, 0 + (i - 1), q)
        PROVE  At(p, 0 + i, Parsed(q, text[i]))
    <3>1. i \in 1..Len(text) /\ 0 + i = i /\ 0 + (i - 1) = i - 1
      <4>1. Len(text) \in Nat
        BY <1>4
      <4> QED BY <1>7, <4>1
    <3> QED BY <1>6, <2>1, <3>1 DEF At
  <2>2. At(p, 0, Parser)
    BY <1>6 DEF At
  <2> QED BY <2>1, <2>2 DEF Reads
<1>9. Reads(p, 0, pair, Len(pair)) /\ Reads(p, Len(pair), tail, m - Len(pair))
  <2>1. m <= Len(pair) + Len(tail)
    BY <1>4, <1>7
  <2> QED BY <1>1, <1>7, <1>8, <2>1, ReadsBoth DEF text
<1>10. At(p, m, Reading(1, x, y)) \/ At(p, m, Waiting(2, x, y))
  <2>1. At(p, Len(pair), Reading(1, x, y))
    BY <1>3, <1>8, <1>9
  <2> DEFINE b == m - Len(pair)
             a == Len(pair)
  <2>2. b \in 0..Len(tail) /\ a \in Nat /\ Reads(p, a, tail, b) /\ At(p, a, Reading(1, x, y))
    BY <1>7, <1>9, <2>1
  <2>3. a + b = m
    BY <1>7
  <2> HIDE DEF a, b
  <2>4. At(p, a + b, Reading(1, x, y)) \/ At(p, a + b, Waiting(2, x, y))
    BY <2>2, TailKeeps
  <2> QED BY <2>3, <2>4
<1>11. p[m].temp = <<x, y>>
  BY <1>10, StateTemp DEF At
<1>12. [i \in 1..2 |-> HexByte(p[m].temp[i])] = << HexByte(x), HexByte(y) >>
  <2>1. p[m].temp[1] = x /\ p[m].temp[2] = y
    BY <1>11
  <2> DEFINE v == [i \in 1..2 |-> HexByte(p[m].temp[i])]
  <2>2. v[1] = HexByte(x) /\ v[2] = HexByte(y)
    BY <2>1
  <2> QED BY <2>2
<1> QED BY <1>6, <1>12 DEF text, pair

\* The procfs file writes what was typed to the address that was typed.
THEOREM ProcWritesAsTypedHolds == input \in ProcCalls => ProcWritesAsTyped
<1> SUFFICES ASSUME input \in ProcCalls,
                    LET pair == input.pads[1] \o input.addr \o <<Space>> \o input.pads[2] \o input.value
                    IN  Len(pair) <= BufferLen
             PROVE  LET pair == input.pads[1] \o input.addr \o <<Space>> \o input.pads[2] \o input.value
                    IN  ProcSeqWrite(pair \o input.tail) = << HexByte(input.addr), HexByte(input.value) >>
  BY DEF ProcWritesAsTyped
<1> DEFINE u == input.pads[1]
           w == input.pads[2]
           x == input.addr
           y == input.value
           tail == input.tail
<1>1. x \in Numbers /\ y \in Numbers /\ u \in Pads /\ w \in Pads /\ tail \in Tails
  BY DEF ProcCalls
<1>2. ASSUME NEW s \in Numbers PROVE s \in Seq(Digit) /\ Len(s) \in 1..2
  <2>1. PICK k \in 1..2 : s \in [1..k -> {0, 1, 15}]
    BY DEF Numbers
  <2>2. {0, 1, 15} \subseteq Digit /\ k \in Nat
    BY DEF Digit
  <2>3. s \in [1..k -> Digit]
    BY <2>1, <2>2
  <2>4. s \in Seq(Digit) /\ Len(s) = k
    BY <2>2, <2>3
  <2> QED BY <2>4
<1>3. ASSUME NEW s \in Pads PROVE Blank(s)
  <2>1. PICK k \in 0..2 : s \in [1..k -> {Space}]
    BY DEF Pads
  <2>2. Space \in Char /\ k \in Nat
    BY DEF Char
  <2>3. s \in [1..k -> Char]
    BY <2>1, <2>2
  <2>4. s \in Seq(Char) /\ Len(s) = k
    BY <2>2, <2>3
  <2> QED BY <2>1, <2>4 DEF Blank
<1>4. ASSUME NEW s \in Tails PROVE s \in Seq(Char) /\ Cut(y, s)
  <2>1. Other \notin Digit /\ Space \notin Digit
    BY StrConstants, ToolAssumption DEF Digit
  <2>2. Other \in Char /\ Space \in Char /\ 1 \in Char /\ 15 \in Char
    BY DEF Char, Digit
  <2>3. CASE s = <<>>
    BY <2>3 DEF Cut
  <2>4. CASE s = <<Other>>
    BY <2>1, <2>2, <2>4 DEF Cut
  <2>5. CASE s = <<Space>>
    BY <2>1, <2>2, <2>5 DEF Cut
  <2>6. CASE s = <<Space, 1>>
    BY <2>1, <2>2, <2>6 DEF Cut
  <2>7. CASE s = <<Space, Other, 15, Space, 1>>
    <3>1. s \in Seq(Char) /\ Len(s) = 5 /\ s[1] = Space
      BY <2>2, <2>7
    <3>2. ASSUME NEW i \in 1..Len(s), s[i] \in Digit PROVE \E k \in 1..(i - 1) : s[k] = Space
      <4>1. i # 1
        BY <2>1, <3>1, <3>2
      <4>2. 1 \in 1..(i - 1)
        BY <3>1, <4>1
      <4> QED BY <3>1, <4>2
    <3> QED BY <3>1, <3>2 DEF Cut
  <2> QED BY <2>3, <2>4, <2>5, <2>6, <2>7 DEF Tails
<1>5. Len(u \o x \o <<Space>> \o w \o y) <= BufferLen
  OBVIOUS
<1>6. /\ x \in Seq(Digit) /\ Len(x) \in 1..2 /\ y \in Seq(Digit) /\ Len(y) \in 1..2
      /\ Blank(u) /\ Blank(w) /\ tail \in Seq(Char) /\ Cut(y, tail)
  BY <1>1, <1>2, <1>3, <1>4
<1>7. ProcSeqWrite((u \o x \o <<Space>> \o w \o y) \o tail) = << HexByte(x), HexByte(y) >>
  <2> HIDE DEF u, w, x, y, tail
  <2> QED BY <1>5, <1>6, ProcNumbers
<1> QED BY <1>7

=============================================================================
