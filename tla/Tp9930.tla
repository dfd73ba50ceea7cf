------------------------------- MODULE Tp9930 -------------------------------
(***************************************************************************)
(* The register traffic of the TP9930 video decoder driver                 *)
(* (CameraAD/tp9930/tp9930.c).  Register 0x40 selects the page of every    *)
(* later transfer: a channel, all channels at once, or the MIPI block.     *)
(* Three kinds of callers share it: the ioctls of /dev/ahdCamera, under    *)
(* tp9930_rw_lock; the start of the stream, which walks a register table;  *)
(* and the dump attributes.  The last two take no lock.  Every transfer is *)
(* a step, and so is every assignment of a change of the video mode.  The  *)
(* chip loses its registers at a reset and with its power; the operations  *)
(* that cause it take no lock either.                                      *)
(***************************************************************************)
EXTENDS Integers, Sequences

CONSTANTS
    Users,        \* the tasks that call the ioctls
    N,            \* the number of channels; also the page of all of them
    Mipi,         \* the page of the MIPI block, 0x40
    Regs,         \* the registers of a picture ...
    ImageRegs,    \* ... in the order set_image writes them
    Images,       \* the pictures: one value for all of their registers
    Modes,        \* the video modes, entries of sensor_formats and sensor_win_sizes
    FirstMode,    \* entry 0 of both
    NoUser,       \* the semaphore is free
    MayFail,      \* transfers may fail
    Overlap       \* a caller without the semaphore runs together with other callers

ASSUME TpConstants ==
    /\ N \in Nat \ {0}
    /\ Mipi \notin 0..N
    /\ ImageRegs \in Seq(Regs)
    /\ FirstMode \in Modes
    /\ NoUser \notin Users
    /\ MayFail \in BOOLEAN /\ Overlap \in BOOLEAN

VARIABLES
    page,         \* register 0x40 of the chip
    image,        \* the picture registers of each channel
    id,           \* register 0x34 of each channel
    supply,       \* the supplies of the chip are on
    released,     \* its RESET line is high
    loss,         \* bit 7 of register 0x01 of each channel: the signal is lost
    lock,         \* the holder of tp9930_rw_lock
    call,         \* the ioctl of each user, or NoCall
    at,           \* how many of its steps are done
    reg_value,    \* reg_value of tp9930_get_vloss
    vloss,        \* nCurVLoss, as the set of its channels
    s_info,       \* fmt, fmt_pt and win_pt: the mode of the entry each points at
    stream,       \* the stream start in progress, or NoWalk
    dump,         \* the read of a dump attribute in progress, or NoWalk
    \* history, for the properties only
    failed,       \* the users one of whose transfers failed or met a reset
    streamed,     \* a stream start has reached its end without a failure, and no raw
                  \* write to register 0x34 came after it
    truth,        \* the channels without signal when get_vloss read them
    wanted        \* the picture last set for each channel, if it was not given up

chip    == <<page, image, id>>
power   == <<supply, released>>
user    == <<lock, call, at, reg_value, vloss>>
history == <<failed, streamed, truth, wanted>>
vars    == <<chip, power, loss, user, s_info, stream, dump, history>>

Channels == 0..(N - 1)
Pages    == 0..N \cup {Mipi}
NoCall   == [cmd |-> "none"]
NoWalk   == [at |-> 0]
Default  == "default"
Unknown  == "unknown"

-----------------------------------------------------------------------------
(* What a transfer asks for, and what the chip does. *)

Page(p)      == [op |-> "page", page |-> p]
Image(r, v)  == [op |-> "image", reg |-> r, val |-> v]
Id(c)        == [op |-> "id", val |-> c]
ReadLoss(c)  == [op |-> "loss", chn |-> c]
ReadOther    == [op |-> "read"]
Assign(f, m) == [op |-> "assign", field |-> f, mode |-> m]

\* The channels a write reaches.
Targets == IF page = N THEN Channels ELSE Channels \cap {page}

Alive   == supply /\ released
Results == IF ~Alive THEN {FALSE} ELSE IF MayFail THEN BOOLEAN ELSE {TRUE}

Write(o, ok) ==
    /\ page' = IF ok /\ o.op = "page" THEN o.page ELSE page
    /\ image' = IF ok /\ o.op = "image"
                THEN [c \in Channels |-> IF c \in Targets
                        THEN [image[c] EXCEPT ![o.reg] = o.val] ELSE image[c]]
                ELSE image
    /\ id' = IF ok /\ o.op = "id"
             THEN [c \in Channels |-> IF c \in Targets THEN o.val ELSE id[c]]
             ELSE id

\* The channels whose picture is given up by a write of u: the one a set_image is for and,
\* once one of its transfers has failed, or of a raw write, those that it reaches.
GivenUp(u) == IF call[u].cmd = "image" /\ u \notin failed THEN {call[u].chn} ELSE Targets

Forget(o, given_up) == [c \in Channels |->
    IF o.op = "image" /\ c \in given_up THEN Unknown ELSE wanted[c]]

-----------------------------------------------------------------------------
(* The scripts of the callers. *)

ImageWrites(v) == [k \in DOMAIN ImageRegs |-> Image(ImageRegs[k], v)]

\* Variant: the page is the one the last caller left.
SetImage_NoPage(chn, v) == ImageWrites(v)
SetImage(chn, v) == <<Page(chn)>> \o ImageWrites(v)

\* Variant: the status is read before the page is switched.
GetVloss_ReadFirst ==
    [k \in 1..(2 * N) |-> LET c == (k - 1) \div 2
                          IN  IF k % 2 = 1 THEN ReadLoss(c) ELSE Page(c)]
GetVloss ==
    [k \in 1..(2 * N) |-> LET c == (k - 1) \div 2
                          IN  IF k % 2 = 1 THEN Page(c) ELSE ReadLoss(c)]

\* sensor_set_vi_mode; the width and height follow the mode and are left out.
SetViMode(m) == <<Assign("fmt", m), Assign("fmt_pt", m), Assign("win_pt", m)>>

ParamError(req) == req.cmd = "image" /\ req.chn >= N

Requests ==
    [cmd : {"image"}, chn : 0..N, val : Images]
    \cup [cmd : {"vloss", "read"}]
    \cup [cmd : {"mode"}, mode : Modes]
    \cup [cmd : {"write"}, write : [op : {"page"}, page : Pages]
                              \cup [op : {"image"}, reg : Regs, val : Images]
                              \cup [op : {"id"}, val : Channels]]

Script(req) ==
    CASE req.cmd = "image"   -> IF ParamError(req) THEN << >> ELSE SetImage(req.chn, req.val)
      [] req.cmd = "vloss"   -> GetVloss
      [] req.cmd = "read"    -> <<ReadOther>>
      [] req.cmd = "mode"    -> SetViMode(req.mode)
      [] req.cmd = "write"   -> <<req.write>>

\* The last part of both tables: the picture of all channels, then "channel ID".
Video == <<Page(N)>> \o ImageWrites(Default)
ChannelId == [k \in 1..(2 * N) |-> LET c == (k - 1) \div 2
                                   IN  IF k % 2 = 1 THEN Page(c) ELSE Id(c)]

reg_720p25_4ch  == <<Page(N), Page(Mipi), Page(0)>> \o Video \o ChannelId
reg_1080p25_4ch == <<Page(0), Page(N), Page(Mipi), Page(0)>> \o Video \o ChannelId

\* sensor_win_sizes
Table(m) == IF m = FirstMode THEN reg_720p25_4ch ELSE reg_1080p25_4ch

\* One read stands for the 256 of the list.
reg_dump == <<ReadOther>>
Dump(c)  == <<Page(c)>> \o reg_dump

-----------------------------------------------------------------------------

DefaultImage == [c \in Channels |-> [r \in Regs |-> Default]]

Init ==
    /\ page = 0 /\ loss \in [Channels -> BOOLEAN]
    /\ image = DefaultImage /\ id = [c \in Channels |-> 0]
    /\ supply = FALSE /\ released = FALSE
    /\ lock = NoUser
    /\ call = [u \in Users |-> NoCall] /\ at = [u \in Users |-> 0]
    /\ reg_value = [u \in Users |-> FALSE] /\ vloss = [u \in Users |-> {}]
    /\ s_info = [fmt |-> FirstMode, fmt_pt |-> FirstMode, win_pt |-> FirstMode]
    /\ stream = NoWalk /\ dump = NoWalk
    /\ failed = {} /\ streamed = FALSE /\ truth = {}
    /\ wanted = [c \in Channels |-> Unknown]

Busy == {u \in Users : call[u] # NoCall}
Left(u) == call[u] # NoCall /\ at[u] < Len(Script(call[u]))

\* Nothing in the code keeps these apart; if they overlap is up to the application.
Ioctls   == Busy # {}
Unlocked == stream # NoWalk \/ dump # NoWalk

\* Variant: an ioctl does not wait for the semaphore.
Down_NoWait(u) ==
    /\ call[u] = NoCall /\ (Overlap \/ ~Unlocked)
    /\ lock' = u
    /\ \E req \in Requests : call' = [call EXCEPT ![u] = req]
    /\ UNCHANGED <<chip, power, loss, at, reg_value, vloss, s_info, stream, dump, history>>
\* sensor_dev_ioctl, from the copy of its argument to the semaphore.
Down(u) ==
    /\ call[u] = NoCall /\ (Overlap \/ ~Unlocked)
    /\ lock = NoUser /\ lock' = u
    /\ \E req \in Requests : call' = [call EXCEPT ![u] = req]
    /\ UNCHANGED <<chip, power, loss, at, reg_value, vloss, s_info, stream, dump, history>>

\* One transfer of an ioctl; no result is looked at.  A failed read leaves reg_value as
\* it was, which is what get_vloss then tests.
Transfer(u, o) ==
    /\ \E ok \in Results :
        /\ Write(o, ok)
        /\ failed' = IF ok THEN failed ELSE failed \cup {u}
        /\ \E v \in IF ~ok \/ o.op # "loss" THEN {reg_value[u]}
                   ELSE IF page \in Channels THEN {loss[page]} ELSE BOOLEAN :
            /\ reg_value' = [reg_value EXCEPT ![u] = v]
            /\ vloss' = IF o.op = "loss" /\ v THEN [vloss EXCEPT ![u] = @ \cup {o.chn}]
                        ELSE vloss
    /\ truth' = IF o.op = "loss" /\ loss[o.chn] THEN truth \cup {o.chn} ELSE truth
    /\ wanted' = Forget(o, GivenUp(u))
    /\ streamed' = (streamed /\ o.op # "id")
    /\ UNCHANGED s_info

Do(u) ==
    /\ Left(u)
    /\ LET o == Script(call[u])[at[u] + 1]
       IN  IF o.op = "assign"
           THEN /\ s_info' = [s_info EXCEPT ![o.field] = o.mode]
                /\ UNCHANGED <<chip, reg_value, vloss, failed, truth, wanted, streamed>>
           ELSE Transfer(u, o)
    /\ at' = [at EXCEPT ![u] = @ + 1]
    /\ UNCHANGED <<power, loss, lock, call, stream, dump>>

Up(u) ==
    /\ call[u] # NoCall /\ ~Left(u)
    /\ lock' = NoUser
    /\ call' = [call EXCEPT ![u] = NoCall] /\ at' = [at EXCEPT ![u] = 0]
    /\ reg_value' = [reg_value EXCEPT ![u] = FALSE] /\ vloss' = [vloss EXCEPT ![u] = {}]
    /\ truth' = {} /\ failed' = failed \ {u}
    /\ wanted' = IF call[u].cmd = "image" /\ ~ParamError(call[u]) /\ u \notin failed
                 THEN [wanted EXCEPT ![call[u].chn] = call[u].val] ELSE wanted
    /\ UNCHANGED <<chip, power, loss, s_info, stream, dump, streamed>>

\* sensor_s_stream(1): sensor_reg_init takes the format of the moment and the table of
\* the window size that set_fmt chose, some time before.
StreamStart ==
    /\ stream = NoWalk /\ (Overlap \/ (~Ioctls /\ ~Unlocked))
    /\ \E m \in Modes : stream' = [mode |-> m, fmt |-> s_info.fmt, at |-> 1]
    /\ UNCHANGED <<chip, power, loss, user, s_info, dump, history>>

\* Variant: the walk of the table goes on after a failure.
GoesOn_Anyway(ok) == stream.at < Len(Table(stream.mode))
\* sensor_write_array stops at the first failure.
GoesOn(ok) == ok /\ stream.at < Len(Table(stream.mode))

\* A write of the table; after the last one the format is stored back.
StreamStep ==
    /\ stream # NoWalk
    /\ LET o == Table(stream.mode)[stream.at] IN
        \E ok \in Results :
            /\ Write(o, ok)
            /\ wanted' = Forget(o, Targets)
            /\ IF GoesOn(ok)
               THEN /\ stream' = [stream EXCEPT !.at = @ + 1]
                    /\ UNCHANGED <<s_info, streamed>>
               ELSE /\ stream' = NoWalk
                    /\ s_info' = [s_info EXCEPT !.fmt = stream.fmt]
                    /\ streamed' = (streamed \/ ok)
    /\ UNCHANGED <<power, loss, user, dump, failed, truth>>

\* get_tp9930_dump0_show .. get_tp9930_dump3_show: a page and reads.
DumpShow ==
    /\ dump = NoWalk /\ (Overlap \/ (~Ioctls /\ ~Unlocked))
    /\ \E c \in Channels : dump' = [chn |-> c, at |-> 1]
    /\ UNCHANGED <<chip, power, loss, user, s_info, stream, history>>

DumpStep ==
    /\ dump # NoWalk
    /\ \E ok \in Results : Write(Dump(dump.chn)[dump.at], ok)
    /\ dump' = IF dump.at < Len(Dump(dump.chn)) THEN [dump EXCEPT !.at = @ + 1] ELSE NoWalk
    /\ UNCHANGED <<power, loss, user, s_info, stream, history>>

\* The chip is without power or held in reset for a while: its registers are lost, and
\* a call that is on its way has met it.
Lose ==
    /\ page' = 0 /\ image' = DefaultImage /\ id' = [c \in Channels |-> 0]
    /\ failed' = failed \cup Busy /\ streamed' = FALSE
    /\ wanted' = [c \in Channels |-> Unknown]
    /\ UNCHANGED truth

\* sensor_power: PWR_ON and PWR_OFF, STBY_OFF and STBY_ON.  The video core calls it, and
\* s_stream, one at a time.
sensor_power ==
    /\ stream = NoWalk
    /\ \/ supply' = TRUE /\ released' = TRUE /\ UNCHANGED <<chip, history>>
       \/ supply' = FALSE /\ released' = FALSE /\ Lose
       \/ released' = TRUE /\ UNCHANGED <<supply, chip, history>>
       \/ released' = FALSE /\ Lose /\ UNCHANGED supply
    /\ UNCHANGED <<loss, user, s_info, stream, dump>>

sensor_reset ==
    /\ stream = NoWalk
    /\ released' = TRUE /\ Lose
    /\ UNCHANGED <<supply, loss, user, s_info, stream, dump>>

\* A camera is plugged or unplugged.
Signal ==
    /\ \E c \in Channels : loss' = [loss EXCEPT ![c] = ~@]
    /\ UNCHANGED <<chip, power, user, s_info, stream, dump, history>>

Next ==
    \/ \E u \in Users : Down(u) \/ Do(u) \/ Up(u)
    \/ StreamStart \/ StreamStep \/ DumpShow \/ DumpStep
    \/ sensor_power \/ sensor_reset \/ Signal

Spec == Init /\ [][Next]_vars

-----------------------------------------------------------------------------
(* Properties. *)

\* Every page switched to is one the chip has, a channel's identification is that of a
\* channel, and a call is inside its script.
TypeOK ==
    /\ page \in Pages
    /\ image \in [Channels -> [Regs -> Images \cup {Default}]]
    /\ id \in [Channels -> Channels]
    /\ supply \in BOOLEAN /\ released \in BOOLEAN
    /\ loss \in [Channels -> BOOLEAN]
    /\ lock \in Users \cup {NoUser}
    /\ call \in [Users -> Requests \cup {NoCall}]
    /\ at \in [Users -> Nat]
    /\ \A u \in Users : call[u] # NoCall => at[u] <= Len(Script(call[u]))
    /\ reg_value \in [Users -> BOOLEAN]
    /\ vloss \in [Users -> SUBSET Channels]
    /\ s_info \in [fmt : Modes, fmt_pt : Modes, win_pt : Modes]
    /\ stream # NoWalk => /\ stream \in [mode : Modes, fmt : Modes, at : Nat]
                          /\ stream.at \in 1..Len(Table(stream.mode))
    /\ dump # NoWalk => /\ dump \in [chn : Channels, at : Nat]
                        /\ dump.at \in 1..Len(Dump(dump.chn))
    /\ failed \in SUBSET Users /\ streamed \in BOOLEAN
    /\ truth \in SUBSET Channels
    /\ wanted \in [Channels -> Images \cup {Unknown}]

\* tp9930_set_image: a channel shows every register of the last picture set for it,
\* whatever other ioctls did to the page register since, and whichever of their transfers
\* failed: pictures set for other channels by calls that went well and rejected requests
\* included.  The picture is given up when a raw write or a stream start reaches one of
\* its registers, at a reset, and in one case more: the code does not look at the result of
\* its page switch (1664), so a set_image for another channel one of whose transfers failed
\* may have written its picture here.
ImageWhole ==
    \A c \in Channels : wanted[c] # Unknown =>
        \A r \in DOMAIN image[c] : image[c][r] = wanted[c]

\* tp9930_get_vloss: bit k is the loss of channel k when it was read, unless one of its
\* own transfers failed or the chip was reset meanwhile.
VlossOfItsChannel ==
    \A u \in Users :
        call[u].cmd = "vloss" /\ ~Left(u) /\ u \notin failed => vloss[u] = truth

\* "channel ID": once a stream was started, and until a raw write to the identification
\* register (1771) or a reset, each channel has the identification of its own, whatever
\* transfers fail in later starts: a page that was not reached gets none.
ChannelIdsDistinct == streamed => \A c \in Channels : id[c] = c

\* sensor_set_vi_mode: two tasks that change the mode, and stream starts between them that
\* store back the format they began with, leave one mode behind: the format, the formats
\* and the window sizes in use are of the same entry.
ModeWhole ==
    lock = NoUser /\ stream = NoWalk =>
        s_info.fmt = s_info.fmt_pt /\ s_info.fmt_pt = s_info.win_pt
=============================================================================
