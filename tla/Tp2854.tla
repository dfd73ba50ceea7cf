------------------------------- MODULE Tp2854 -------------------------------
(***************************************************************************)
(* The register traffic of the TP2854 video decoder driver                 *)
(* (CameraAD/tp2854/tp2854b.c and tp_proc.c).  Register 0x40 selects the   *)
(* page of every other transfer: a channel, all channels, or the MIPI      *)
(* block, whose registers have the addresses of the picture registers.     *)
(* The driver keeps a copy of the pictures and writes only what differs    *)
(* from it.  The ioctls and the procfs file share all of this without a    *)
(* lock; a mutex serialises the resolution query with itself.  Every       *)
(* transfer is a step.                                                     *)
(***************************************************************************)
EXTENDS Integers, Sequences

CONSTANTS
    Users,        \* the tasks that call the driver
    ImageRegs,    \* the registers of a picture, in the order set_image writes them
    Pictures,     \* the pictures callers ask for: an unsigned int for each register
    Adjusted,     \* the channels whose pictures are adjusted
    Wired,        \* the channels with a cable, whose signal comes and goes
    Modes,        \* the video modes in use
    RawRegs,      \* the registers that are written raw, register 0x40 aside
    Standards,    \* the values of register 0x03
    NoUser,       \* the mutex is free
    MaxFaults,    \* bound: transfers that fail in one behaviour
    MaxCalls,     \* bound: calls in one behaviour
    Overlap       \* any two calls may run together, not only two resolution queries

ASSUME TpConstants ==
    /\ ImageRegs \in Seq({"10", "11", "12", "13", "14"})
    /\ Standards \subseteq Nat \ {255}
    /\ RawRegs \subseteq {"10", "11", "12", "13", "14", "23", "f5"}
    /\ Pictures \subseteq [{ImageRegs[k] : k \in DOMAIN ImageRegs} -> Nat]
    /\ Adjusted \subseteq 0..3 /\ Wired \subseteq 0..3
    /\ NoUser \notin Users
    /\ MaxFaults \in Nat /\ MaxCalls \in Nat /\ Overlap \in BOOLEAN

VARIABLES
    page,         \* register 0x40 of the chip
    image,        \* registers 0x10 to 0x14 of each channel: a byte each
    mipi,         \* registers 0x10 to 0x14 and 0x23 of the MIPI block
    system,       \* bits 0 to 3 of register 0xf5: the channels with the 720P clock
    signal,       \* what each channel receives: a standard, or VideoLoss
    shadow,       \* s_tp285x_bright .. s_tp285x_sharpness
    mutex,        \* the holder of tp2854_CamRes_mutex
    call,         \* the call of each user, or NoCall
    todo,         \* what is left of it
    reply,        \* what it has read for its caller
    tmp,          \* the value of 0xf5 it is about to change
    \* history, for the properties only
    faults,       \* transfers that have failed
    calls,        \* calls that have begun
    failed,       \* the users one of whose transfers failed
    changed,      \* the picture registers a call is about to change
    due,          \* what a resolution query may answer for the channels it has read
    wanted,       \* what was last set for each picture register, if it must be there
    mode          \* the mode last set, if it must be in effect

chip    == <<page, image, mipi, system>>
history == <<faults, calls, failed, changed, due, wanted, mode>>
vars    == <<chip, signal, shadow, mutex, call, todo, reply, tmp, history>>

N         == 4            \* TP285X_MAX_CHN, and the page of all channels
Mipi      == 8            \* MIPI_PAGE
All       == 255          \* 0xFF: all channels
VideoLoss == 255          \* 0xFF: no signal
Channels  == 0..(N - 1)
Pages     == 0..N \cup {Mipi}
Registers == {ImageRegs[k] : k \in DOMAIN ImageRegs}
MipiRegs  == {"10", "11", "12", "13", "14", "23"}
Byte(v)   == v % 256
NoCall    == [cmd |-> "none"]
Unknown   == -1

Default == [r \in Registers |-> IF r \in {"11", "12"} THEN 64 ELSE 0]

-----------------------------------------------------------------------------
(* The scripts of the callers, of the following transfers. *)

Page(p)       == [op |-> "page", page |-> p]
Put(r, v)     == [op |-> "put", reg |-> r, val |-> v]
Adjust(c, r, v) == [op |-> "adjust", chn |-> c, reg |-> r, val |-> v]
Remember(pic) == [op |-> "remember", pic |-> pic]    \* no transfer: the copies of all channels
ReadId        == [op |-> "id"]                       \* registers 0xfe and 0xff
ReadImage(r)  == [op |-> "image", reg |-> r]
ReadLoss(c)   == [op |-> "loss", chn |-> c]          \* register 0x01
ReadFormat(c) == [op |-> "format", chn |-> c]        \* register 0x03
ReadOther     == [op |-> "read"]
WriteSystem(S) == [op |-> "system", set |-> S]       \* register 0xf5
ReadSystem     == [op |-> "fetch"]
ChangeSystem(on, off) == [op |-> "store", on |-> on, off |-> off]   \* tmp, changed, to 0xf5

ForEach(F(_)) == [k \in DOMAIN ImageRegs |-> F(ImageRegs[k])]

\* The clock register of a mode, at rest and during its pulse.
Clock(m) == IF m \in {"720P25_2LANES", "720P25_4LANES"} THEN 71 ELSE 6
Pulse(m) == CASE m = "720P25_2LANES" -> 199
              [] m = "720P25_4LANES" -> 79
              [] OTHER               -> 134

Timing(m) == <<Put("10", 32), Put("11", 71), Put("12", 84), Put("13", 239),
               Put("14", Clock(m)), Put("14", Pulse(m)), Put("14", Clock(m))>>

\* Variant: the output is disabled on the page that happens to be selected.
TP285x_reset_default_AnyPage == <<Put("23", 2), Page(0)>>
TP285x_reset_default == <<Page(Mipi), Put("23", 2), Page(0)>>

\* SYS_MODE has one bit for each channel.
HD25(c)  == <<ReadSystem, ChangeSystem({c}, {}), Put("23", 60)>>
FHD25(c) == <<ReadSystem, ChangeSystem({}, {c}), Put("23", 60)>>
TP2854_decoder_init(c, m) == <<Page(c)>> \o (IF m = "720P25_2LANES" THEN HD25(c) ELSE FHD25(c))

\* Variant: the page of the last decoder is still selected.
TP2854B_mipi_out_NoPage(m) == Timing(m) \o <<Put("23", 0)>>
TP2854B_mipi_out(m) == <<Page(Mipi)>> \o Timing(m) \o <<Put("23", 0)>>

TP2854_common_init(m) ==
    TP285x_reset_default
    \o <<Page(0), ReadId, Page(Mipi), Put("23", 2), Page(2), Page(3), Page(0),
         WriteSystem({2, 3})>>
    \o TP2854_decoder_init(0, m) \o TP2854_decoder_init(1, m) \o TP2854B_mipi_out(m)

\* The video setting of the modes with four lanes, for all channels at once.
Video720P  == <<Page(N), WriteSystem({}), Put("23", 60), ReadSystem, ChangeSystem(Channels, {})>>
Video1080P == <<Page(N), WriteSystem({}), Put("23", 60), ReadSystem, ChangeSystem({}, Channels)>>
Video(m)   == IF m = "720P25_4LANES" THEN Video720P ELSE Video1080P

\* Variant: the output is enabled, then disabled.
FourLanes_OffLast(m) ==
    TP285x_reset_default \o Video(m) \o <<Page(Mipi)>> \o Timing(m)
    \o <<Put("23", 0), Put("23", 2)>>
FourLanes(m) ==
    TP285x_reset_default \o Video(m) \o <<Page(Mipi)>> \o Timing(m)
    \o <<Put("23", 2), Put("23", 0)>>

SetVideoMode(m) == IF m \in {"720P25_2LANES", "1080P25_2LANES"}
                   THEN TP2854_common_init(m) ELSE FourLanes(m)

tp285x_set_image(c, pic) ==
    IF c \in Channels
    THEN <<Page(c)>> \o ForEach(LAMBDA r : Adjust(c, r, pic[r]))
    ELSE IF c = All
    THEN <<Page(0), Remember(pic)>> \o ForEach(LAMBDA r : Put(r, Byte(pic[r])))
    ELSE << >>

tp285x_get_image(c) == <<Page(c)>> \o ForEach(ReadImage)

Resolution(c) == <<Page(c), ReadLoss(c), ReadFormat(c)>>
GetCameraResolution ==
    <<Page(0)>> \o Resolution(0) \o Resolution(1) \o Resolution(2) \o Resolution(3)

\* TP2850_DUMP_REG; one read stands for those of all pages.
Dump == <<Page(Mipi), Page(0), Page(0), Page(1), Page(2), Page(3), ReadOther>>

\* The read of the procfs file.
proc_seq_read == Dump

tp2850_set_reg_page(ch) == IF ch = Mipi THEN Page(Mipi) ELSE Page(0)

\* Raw writes: the page, and other registers.  One value stands for all: what a raw write
\* reaches is given up, whatever it writes.
Raw(r)    == IF r = "f5" THEN WriteSystem({}) ELSE Put(r, 6)
RawWrites == {Page(p) : p \in Pages} \cup {Raw(r) : r \in RawRegs}

Requests ==
    [cmd : {"image"}, chn : Adjusted \cup {All, N}, pic : Pictures]
    \cup [cmd : {"get"}, chn : Adjusted]
    \cup [cmd : {"mode"}, mode : Modes]
    \cup [cmd : {"resolution", "dump", "proc_dump"}]
    \cup [cmd : {"read"}, ch : {0, Mipi}]
    \cup [cmd : {"write"}, ch : {0, Mipi}, write : RawWrites]
    \cup [cmd : {"proc"}, write : RawWrites]

Script(req) ==
    CASE req.cmd = "image"      -> tp285x_set_image(req.chn, req.pic)
      [] req.cmd = "get"        -> tp285x_get_image(req.chn)
      [] req.cmd = "mode"       -> SetVideoMode(req.mode)
      [] req.cmd = "resolution" -> GetCameraResolution
      [] req.cmd = "dump"       -> Dump
      [] req.cmd = "proc_dump"  -> proc_seq_read
      [] req.cmd = "read"       -> <<tp2850_set_reg_page(req.ch), ReadOther>>
      [] req.cmd = "write"      -> <<tp2850_set_reg_page(req.ch), req.write>>
      [] req.cmd = "proc"       -> <<req.write, ReadOther>>

-----------------------------------------------------------------------------
(* What a write does in the chip. *)

\* The channels it reaches.
Targets == IF page = N THEN Channels ELSE Channels \cap {page}

Write(r, v) ==
    /\ UNCHANGED <<page, system>>
    /\ image' = [c \in Channels |-> IF c \in Targets /\ r \in Registers
                                    THEN [image[c] EXCEPT ![r] = v] ELSE image[c]]
    /\ mipi' = IF page = Mipi /\ r \in MipiRegs THEN [mipi EXCEPT ![r] = v] ELSE mipi

\* A write that nobody can expect to leave things alone: raw, or of a call one of whose
\* transfers failed, which may have been its page switch: no result is looked at (659, 1073).
Unsound(u) == u \in failed \/ call[u].cmd \in {"write", "proc"}

Account(u, r) ==
    /\ wanted' = [c \in Channels |-> IF Unsound(u) /\ c \in Targets /\ r \in Registers
                                     THEN [wanted[c] EXCEPT ![r] = Unknown] ELSE wanted[c]]
    /\ mode' = IF Unsound(u) /\ page = Mipi THEN "unknown" ELSE mode

-----------------------------------------------------------------------------

Init ==
    /\ page \in {0, Mipi}
    /\ image = [c \in Channels |-> Default]
    /\ mipi = [r \in MipiRegs |-> 0]
    /\ system = {}
    /\ signal = [c \in Channels |-> VideoLoss]
    /\ shadow = [c \in Channels |-> Default]
    /\ mutex = NoUser
    /\ call = [u \in Users |-> NoCall]
    /\ todo = [u \in Users |-> << >>] /\ reply = [u \in Users |-> << >>]
    /\ tmp = [u \in Users |-> {}]
    /\ faults = 0 /\ calls = 0 /\ failed = {}
    /\ changed = [u \in Users |-> {}]
    /\ due = [u \in Users |-> [c \in Channels |-> {}]]
    /\ wanted = [c \in Channels |-> [r \in Registers |-> Unknown]]
    /\ mode = "unknown"

\* Which calls run together is up to the application.
MayRun(req) ==
    Overlap \/ \A v \in Users :
        call[v] = NoCall \/ (call[v].cmd = "resolution" /\ req.cmd = "resolution")

\* The picture registers a request should change, and the channel they belong to.
Changes(req) ==
    IF req.cmd # "image" \/ req.chn = N THEN {}
    ELSE IF req.chn = All THEN Registers
    ELSE {r \in Registers : req.pic[r] # shadow[req.chn][r]}
ChannelOf(req) == IF req.chn = All THEN 0 ELSE req.chn

\* Variant: the query does not take the mutex.
MutexLock_Never(u, req) == mutex' = mutex
MutexLock(u, req) ==
    IF req.cmd = "resolution" THEN mutex = NoUser /\ mutex' = u ELSE mutex' = mutex

\* tp2850_ioctl up to the first transfer, or a read or write of the procfs file.
Begin(u) ==
    /\ call[u] = NoCall
    /\ calls < MaxCalls /\ calls' = calls + 1
    /\ \E req \in Requests :
        /\ MayRun(req) /\ MutexLock(u, req)
        /\ call' = [call EXCEPT ![u] = req]
        /\ todo' = [todo EXCEPT ![u] = Script(req)]
        /\ changed' = [changed EXCEPT ![u] = Changes(req)]
        /\ wanted' = IF Changes(req) = {} THEN wanted
                     ELSE [wanted EXCEPT ![ChannelOf(req)] =
                            [r \in Registers |-> IF r \in Changes(req) THEN Unknown ELSE @[r]]]
        /\ mode' = IF req.cmd = "mode" THEN "unknown" ELSE mode
    /\ UNCHANGED <<chip, signal, shadow, reply, tmp, faults, failed, due>>

\* A transfer fails; no result of one is looked at.
Fault(u, ok) ==
    /\ ok \/ faults < MaxFaults
    /\ faults' = IF ok THEN faults ELSE faults + 1
    /\ failed' = IF ok THEN failed ELSE failed \cup {u}

Skip(u)     == todo' = [todo EXCEPT ![u] = Tail(@)]
Quiet       == UNCHANGED <<chip, wanted, mode>>
Answer(u, v) == reply' = [reply EXCEPT ![u] = Append(@, v)]

DoPage(u, o) ==
    /\ o.op = "page"
    /\ \E ok \in BOOLEAN : Fault(u, ok) /\ page' = IF ok THEN o.page ELSE page
    /\ Skip(u) /\ UNCHANGED <<image, mipi, system, wanted, mode, shadow, reply>>

DoPut(u, o) ==
    /\ o.op = "put"
    /\ \E ok \in BOOLEAN :
        /\ Fault(u, ok)
        /\ IF ok THEN Write(o.reg, o.val) /\ Account(u, o.reg) ELSE Quiet
    /\ Skip(u) /\ UNCHANGED <<shadow, reply>>

\* The copy first, then the transfer, and neither if the copy has the value already.
DoAdjust(u, o) ==
    /\ o.op = "adjust"
    /\ IF shadow[o.chn][o.reg] = o.val
       THEN Quiet /\ UNCHANGED <<shadow, faults, failed>>
       ELSE /\ shadow' = [shadow EXCEPT ![o.chn][o.reg] = o.val]
            /\ \E ok \in BOOLEAN :
                /\ Fault(u, ok)
                /\ IF ok THEN Write(o.reg, Byte(o.val)) /\ Account(u, o.reg) ELSE Quiet
    /\ Skip(u) /\ reply' = reply

DoRemember(u, o) ==
    /\ o.op = "remember"
    /\ shadow' = [c \in Channels |-> o.pic]
    /\ Skip(u) /\ Quiet /\ UNCHANGED <<faults, failed, reply>>

\* A read that fails gives 0, which is not the id; the call ends without an error.
DoReadId(u, o) ==
    /\ o.op = "id"
    /\ \E ok \in BOOLEAN :
        /\ Fault(u, ok)
        /\ IF ok THEN Skip(u) ELSE todo' = [todo EXCEPT ![u] = << >>]
    /\ Quiet /\ UNCHANGED <<shadow, reply>>

DoReadImage(u, o) ==
    /\ o.op = "image"
    /\ \E ok \in BOOLEAN :
        /\ Fault(u, ok)
        /\ \E v \in IF ok /\ page \in Channels THEN {image[page][o.reg]} ELSE {0} : Answer(u, v)
    /\ Skip(u) /\ Quiet /\ UNCHANGED shadow

\* Registers 0x01 and 0x03: a lost channel is not asked for its format.
DoReadLoss(u, o) ==
    /\ o.op = "loss"
    /\ \E ok \in BOOLEAN :
        /\ Fault(u, ok)
        /\ IF ok /\ page \in Channels /\ signal[page] = VideoLoss
           THEN Answer(u, VideoLoss) /\ todo' = [todo EXCEPT ![u] = Tail(Tail(@))]
           ELSE reply' = reply /\ Skip(u)
    /\ due' = [due EXCEPT ![u][o.chn] =
                IF signal[o.chn] = VideoLoss THEN {VideoLoss} ELSE {}]
    /\ Quiet /\ UNCHANGED shadow

DoReadFormat(u, o) ==
    /\ o.op = "format"
    /\ \E ok \in BOOLEAN :
        /\ Fault(u, ok)
        /\ \E v \in IF ~ok THEN {0}
                   ELSE IF page \in Channels /\ signal[page] # VideoLoss THEN {signal[page]}
                   ELSE Standards :
            Answer(u, v)
    /\ due' = [due EXCEPT ![u][o.chn] =
                IF @ = {VideoLoss} THEN @
                ELSE IF signal[o.chn] # VideoLoss THEN {signal[o.chn]} ELSE Standards]
    /\ Skip(u) /\ Quiet /\ UNCHANGED shadow

\* A failed read gives 0; on the MIPI page 0xf5 is another register.
DoReadSystem(u, o) ==
    /\ o.op = "fetch"
    /\ \E ok \in BOOLEAN :
        /\ Fault(u, ok)
        /\ tmp' = [tmp EXCEPT ![u] = IF ok /\ page # Mipi THEN system ELSE {}]
    /\ Skip(u) /\ Quiet /\ UNCHANGED <<shadow, reply>>

DoWriteSystem(u, o) ==
    /\ o.op \in {"system", "store"}
    /\ LET new == IF o.op = "system" THEN o.set ELSE (tmp[u] \cup o.on) \ o.off
       IN  \E ok \in BOOLEAN :
            /\ Fault(u, ok)
            /\ system' = IF ok /\ page # Mipi THEN new ELSE system
            /\ mode' = IF ok /\ page # Mipi /\ Unsound(u) THEN "unknown" ELSE mode
    /\ tmp' = [tmp EXCEPT ![u] = {}]
    /\ Skip(u) /\ UNCHANGED <<page, image, mipi, wanted, shadow, reply>>

DoReadOther(u, o) ==
    /\ o.op = "read"
    /\ Skip(u) /\ Quiet /\ UNCHANGED <<shadow, reply, faults, failed>>

Do(u) ==
    /\ todo[u] # << >>
    /\ LET o == Head(todo[u]) IN
        \/ (DoReadSystem(u, o) \/ DoWriteSystem(u, o)) /\ UNCHANGED due
        \/ (DoReadLoss(u, o) \/ DoReadFormat(u, o)) /\ UNCHANGED tmp
        \/ /\ \/ DoPage(u, o) \/ DoPut(u, o) \/ DoAdjust(u, o) \/ DoRemember(u, o)
              \/ DoReadId(u, o) \/ DoReadImage(u, o) \/ DoReadOther(u, o)
           /\ UNCHANGED <<tmp, due>>
    /\ UNCHANGED <<signal, mutex, call, calls, changed>>

Return(u) ==
    /\ call[u] # NoCall /\ todo[u] = << >>
    /\ mutex' = IF mutex = u THEN NoUser ELSE mutex
    /\ call' = [call EXCEPT ![u] = NoCall] /\ reply' = [reply EXCEPT ![u] = << >>]
    /\ failed' = failed \ {u}
    /\ changed' = [changed EXCEPT ![u] = {}]
    /\ due' = [due EXCEPT ![u] = [c \in Channels |-> {}]]
    /\ wanted' = IF changed[u] = {} \/ u \in failed THEN wanted
                 ELSE [wanted EXCEPT ![ChannelOf(call[u])] =
                        [r \in Registers |-> IF r \in changed[u] THEN call[u].pic[r] ELSE @[r]]]
    /\ mode' = IF call[u].cmd = "mode" /\ u \notin failed THEN call[u].mode ELSE mode
    /\ UNCHANGED <<chip, signal, shadow, todo, tmp, faults, calls>>

\* The module is unloaded and loaded again while the chip keeps its registers.
Reload ==
    /\ \A u \in Users : call[u] = NoCall
    /\ page' = 0
    /\ shadow' = [c \in Channels |-> Default]
    /\ UNCHANGED <<image, mipi, system, signal, mutex, call, todo, reply, tmp, history>>

\* A camera is plugged, unplugged or replaced.
Signal ==
    /\ \E c \in Wired, s \in Standards \cup {VideoLoss} :
        /\ s # signal[c]
        /\ signal' = [signal EXCEPT ![c] = s]
    /\ UNCHANGED <<chip, shadow, mutex, call, todo, reply, tmp, history>>

Next ==
    \/ \E u \in Users : Begin(u) \/ Do(u) \/ Return(u)
    \/ Reload \/ Signal

Spec == Init /\ [][Next]_vars

-----------------------------------------------------------------------------
(* Properties. *)

\* tp285x_set_image against its copies: a register that the last set_image of its channel
\* changed without a failed transfer shows that value, whatever dumps, reloads of the
\* module, mode changes and pictures of other channels came in between, as long as their
\* own transfers went well.  What the writes of a call reach after one of its transfers has
\* failed is given up, and what a raw write reaches: a mode change whose page switch failed
\* writes its MIPI registers over the picture, and a set_image whose page switch failed
\* writes the picture of another channel.
PictureShown ==
    \A c \in Channels : \A r \in Registers :
        wanted[c][r] # Unknown => image[c][r] = Byte(wanted[c][r])

\* TP2850_SET_VIDEO_MODE: after a call without a failed transfer and until the next mode,
\* the MIPI block has the registers of that mode and its output is enabled, and each
\* channel of the mode has its clock, although the channels share a register that is
\* read, changed and written back for one after the other.  A raw write to the block or
\* the clocks ends it, and so does a call whose page switch failed while the MIPI page was
\* still selected, as a register read with channel 8 leaves it: its picture is written to
\* the block.
ModeInEffect ==
    mode # "unknown" =>
        /\ mipi["10"] = 32 /\ mipi["11"] = 71 /\ mipi["12"] = 84 /\ mipi["13"] = 239
        /\ mipi["14"] = Clock(mode) /\ mipi["23"] = 0
        /\ \A c \in IF mode \in {"720P25_2LANES", "1080P25_2LANES"} THEN {0, 1} ELSE Channels :
               c \in system <=> mode \in {"720P25_2LANES", "720P25_4LANES"}

\* "Disable MIPI CSI2 output": the MIPI clock changes only while the output is disabled,
\* unless a transfer of the call has failed or the register is written raw.
ClockChangesWithOutputOff ==
    [][mipi'["14"] # mipi["14"] /\ (\A u \in Users : ~Unsound(u)) => mipi["23"] # 0]_vars

\* TP285x_GET_CAMERA_RESOLUTION and TP2850_GET_IMAGE_ADJUST: unless a transfer of the call
\* failed, a channel is reported lost exactly when it was without signal as its status was
\* read (1702), and otherwise its resolution is the one it had as its format was read (1715);
\* in the window between the two reads a signal may get lost, and then the format is any.
\* A picture is the one in the registers of its channel.
ReplyOfItsChannel ==
    \A u \in Users : call[u] # NoCall /\ todo[u] = << >> /\ u \notin failed =>
        /\ call[u].cmd = "resolution" => \A c \in Channels : reply[u][c + 1] \in due[u][c]
        /\ call[u].cmd = "get" => \A k \in DOMAIN ImageRegs :
            reply[u][k] = image[call[u].chn][ImageRegs[k]]

\* tp2854b.h:151, "0xFF" stands for all channels: after such a call without a failed
\* transfer every channel shows the picture.
AllChannelsShown ==
    \A u \in Users :
        call[u].cmd = "image" /\ todo[u] = << >> /\ u \notin failed =>
            (call[u].chn = All => \A c \in Channels : \A r \in Registers :
                                    image[c][r] = Byte(call[u].pic[r]))
=============================================================================
