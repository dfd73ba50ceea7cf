------------------------------ MODULE RegTools ------------------------------
(***************************************************************************)
(* The command-line register tools: i2c_read and i2c_write of              *)
(* Other/gpio_i2c, which convert with StrToNumber, and tp9950_read and     *)
(* tp9950_write of CameraAD/tp9930, which convert hexadecimal by hand.     *)
(* Each parses its arguments and makes at most one ioctl.  A command line  *)
(* is a sequence of arguments, an argument the characters after an         *)
(* optional 0x.  StrFunc shows that StrToNumber returns what the argument  *)
(* denotes or refuses it.  The fifth writer of registers is the procfs     *)
(* file of the tp2854 (tp_proc.c), which parses a text of its own.         *)
(***************************************************************************)
EXTENDS StrFunc, Sequences, Input

CONSTANTS
    CommandLines, \* sequences of arguments
    CharMod,      \* of unsigned char
    ShortMod,     \* of unsigned short
    Space,        \* the character that separates the numbers of a text
    BufferLen     \* characters of a text that are looked at

ASSUME ToolAssumption ==
    /\ CharMod \in Nat \ {0} /\ ShortMod \in Nat \ {0}
    /\ CharMod <= ShortMod /\ ShortMod <= Modulus \div 2
    /\ \A args \in CommandLines :
          args \in Seq([prefix : BOOLEAN, chars : Seq((0..15) \cup {Other})])
    /\ Space \notin Int /\ Space # Other /\ BufferLen \in Nat

Refused   == -1
Undefined == -2      \* the outcome of a signed overflow

IsNumber(a) ==
    /\ a.prefix => a.chars # <<>>
    /\ \A i \in 1..Len(a.chars) : a.chars[i] \in 0..(IF a.prefix THEN 15 ELSE 9)

\* The number an argument denotes.
Denotes(a) ==
    LET upTo[i \in 0..Len(a.chars)] ==
            IF i = 0 THEN 0 ELSE upTo[i - 1] * (IF a.prefix THEN 16 ELSE 10) + a.chars[i]
    IN  upTo[Len(a.chars)]

\* StrToNumber.
ToNumber(a) == IF IsNumber(a) /\ Denotes(a) < Modulus THEN Denotes(a) ELSE Refused

\* The loop of tp9950_read and tp9950_write, over a signed int.
HexLoop(start, chars) ==
    LET upTo[i \in 0..Len(chars)] ==
            IF i = 0 THEN start
            ELSE IF upTo[i - 1] = Undefined \/ upTo[i - 1] * 16 + chars[i] >= Modulus \div 2
            THEN Undefined
            ELSE upTo[i - 1] * 16 + chars[i]
    IN  upTo[Len(chars)]

HexArg(start, a) ==
    IF a.prefix /\ IsNumber(a) THEN HexLoop(start, a.chars) ELSE Refused

\* The conversion to a field of the ioctl's argument.
Field(n, mod) == IF n = Undefined THEN Undefined ELSE n % mod

-----------------------------------------------------------------------------
(* The tools: the exit status and the ioctls made.                         *)

Exit(status_, sent) == [status |-> status_, sent |-> sent]

I2cRead(args) ==
    IF Len(args) \notin {2, 3} THEN Exit(-1, <<>>)
    ELSE IF Refused \in {ToNumber(args[1]), ToNumber(args[2])} \/ Len(args) = 3
    THEN Exit(0, <<>>)
    ELSE Exit(0, << Field(ToNumber(args[1]), CharMod), Field(ToNumber(args[2]), ShortMod) >>)

I2cWrite(args) ==
    IF Len(args) < 3 THEN Exit(-1, <<>>)
    ELSE IF Refused \in {ToNumber(args[i]) : i \in 1..3} \/ Len(args) > 3
    THEN Exit(0, <<>>)
    ELSE Exit(0, << Field(ToNumber(args[1]), CharMod), Field(ToNumber(args[2]), ShortMod),
                    Field(ToNumber(args[3]), ShortMod) >>)

Tp9950Read(args) ==
    IF Len(args) # 1 \/ Refused \in {HexArg(0, args[i]) : i \in 1..Len(args)}
    THEN Exit(-1, <<>>)
    ELSE Exit(0, << Field(HexArg(0, args[1]), ShortMod) >>)

\* Variant: the second number is added to the first.
Tp9950Write_NoReset(args) ==
    IF Len(args) # 2 \/ Refused \in {HexArg(0, args[i]) : i \in 1..Len(args)}
    THEN Exit(-1, <<>>)
    ELSE LET addr == HexArg(0, args[1])
         IN  Exit(0, << Field(addr, ShortMod),
                        Field(IF addr = Undefined THEN Undefined ELSE HexArg(addr, args[2]),
                              ShortMod) >>)

Tp9950Write(args) ==
    IF Len(args) # 2 \/ Refused \in {HexArg(0, args[i]) : i \in 1..Len(args)}
    THEN Exit(-1, <<>>)
    ELSE Exit(0, [i \in 1..2 |-> Field(HexArg(0, args[i]), ShortMod)])

-----------------------------------------------------------------------------
(* proc_seq_write: the address and the value of the write it always makes.  *)

\* The parser: the number it collects digits of, and whether it has one.
Collecting(index, flag, temp) == [index |-> index, flag |-> flag, temp |-> temp]
Parser == Collecting(0, FALSE, << <<>>, <<>> >>)

\* Variant: the digits already collected are not counted anew.
Parsed_NoReset(p, c) ==
    IF c # Space /\ p.index <= 1 /\ Len(p.temp[1]) + Len(p.temp[2]) < 2
    THEN IF c \in 0..15
         THEN Collecting(p.index, TRUE, [p.temp EXCEPT ![p.index + 1] = Append(@, c)]) ELSE p
    ELSE IF p.flag THEN Collecting(p.index + 1, FALSE, p.temp) ELSE p

\* One character.  A third digit in a row ends the number and is dropped, and a
\* character that is no digit is passed over.
Parsed(p, c) ==
    IF c # Space /\ p.index <= 1 /\ Len(p.temp[p.index + 1]) < 2
    THEN IF c \in 0..15
         THEN Collecting(p.index, TRUE, [p.temp EXCEPT ![p.index + 1] = Append(@, c)]) ELSE p
    ELSE IF p.flag THEN Collecting(p.index + 1, FALSE, p.temp) ELSE p

\* kstrtou8, whose failure leaves the 0 of the declaration.
HexByte(digits) == Denotes([prefix |-> TRUE, chars |-> digits])

ProcSeqWrite(text) ==
    LET upTo[i \in 0..Len(text)] ==
            IF i = 0 THEN Parser ELSE Parsed(upTo[i - 1], text[i])
        last == upTo[IF Len(text) > BufferLen THEN BufferLen ELSE Len(text)]
    IN  [i \in 1..2 |-> HexByte(last.temp[i])]

-----------------------------------------------------------------------------
ToolCalls == [routine : {"main"}, args : CommandLines]

\* Texts of two numbers of one or two digits, however spaced and ended.
Numbers == UNION {[1..k -> {0, 1, 15}] : k \in 1..2}
Pads    == UNION {[1..k -> {Space}] : k \in 0..2}
Tails   == {<<>>, <<Other>>, <<Space>>, <<Space, 1>>, <<Space, Other, 15, Space, 1>>}

ProcCalls ==
    [routine : {"proc_seq_write"}, addr : Numbers, value : Numbers, pads : Pads \X Pads, tail : Tails]

Tools == {"i2c_read", "i2c_write", "tp9950_read", "tp9950_write"}

Main(tool, args) ==
    CASE tool = "i2c_read"     -> I2cRead(args)
      [] tool = "i2c_write"    -> I2cWrite(args)
      [] tool = "tp9950_read"  -> Tp9950Read(args)
      [] tool = "tp9950_write" -> Tp9950Write(args)

\* The size of field i of a tool's ioctl: the device address of i2c_read and i2c_write is
\* the one unsigned char, every other field an unsigned short.
Width(tool, i) == IF tool \in {"i2c_read", "i2c_write"} /\ i = 1 THEN CharMod ELSE ShortMod

\* Every ioctl of a tool carries the numbers that were typed, in their places, each cut to
\* the size of its own field and to no smaller one; only of a number that the tool's int
\* cannot hold nothing is said.  A tool that gives up has touched no register: it makes its
\* ioctl only with as many arguments as it sends, every one a number.
SentAsTyped ==
    Calls("main") => \A tool \in Tools :
        LET exit == Main(tool, input.args)
        IN  exit.sent # <<>> =>
                /\ exit.status = 0
                /\ Len(input.args) = Len(exit.sent)
                /\ \A i \in 1..Len(exit.sent) :
                     LET a == input.args[i]
                     IN  /\ IsNumber(a)
                         /\ Denotes(a) < Modulus \div 2 =>
                                exit.sent[i] = Denotes(a) % Width(tool, i)

\* The procfs file writes the value that was typed to the address that was typed: two
\* numbers of one or two digits, however they are spaced and whatever ends the text.
\* (It has no prefix: "0x40 8" writes 8 to address 4.)
ProcWritesAsTyped ==
    Calls("proc_seq_write") =>
        LET pair == input.pads[1] \o input.addr \o <<Space>> \o input.pads[2] \o input.value
        IN  Len(pair) <= BufferLen =>
                ProcSeqWrite(pair \o input.tail) = << HexByte(input.addr), HexByte(input.value) >>
=============================================================================
