# Verification of the chip drivers

This directory holds TLA+ models of the drivers in this repository, TLC
configurations that check them on small instances, and TLAPS proofs of their
main invariants for every value of the constants.  `PROJECT.json` lists every
component, run, mutant, mapped definition, finding, hazard and theorem; this
file explains them.

    tlc -config MCTp2854.cfg MCTp2854        # one run
    tlapm Mma865x_proofs.tla                 # one module of proofs

## 1. Inventory

The repository is a collection of independent Linux drivers.  Each one sits
between user space (sysfs attributes, ioctls, procfs files, V4L2 calls), the
kernel (work items, timers, suspend and resume, probe and remove) and one chip
behind an I2C bus.  Nothing is shared between drivers; everything interesting
happens between the actors of one driver and its chip.

| Component | State | Operations | What is hard | What makes it correct |
|---|---|---|---|---|
| mma865x accelerometer (`GSensor/mma865x/mma865x.c`) | `active`, `ktime`, `suspend_indator`, `data_lock`, `init_mutex`, two work items, `hr_timer`, the report work, the chip's CTRL_REG1 | enable and delay stores, init and resume work, suspend, resume, timer callback, report, probe, remove | two mutexes, four deferred contexts, a flag read before the lock that protects the action it guards, transfers that fail half way | configuration only in standby, timer off while suspended, an enabled sensor is polled, removal is final, chip and flag agree at rest, every call ends |
| da380 register access (`GSensor/da380/mir3da_core.c` 435-559) | the chip's page register | read, continuous read, write, masked write on (page, address) | four transfers per access without a lock; failures in the middle; unchecked reads | the callers get a flat register file and find page 0 selected |
| da380 core, the rest (`mir3da_core.c`) | filter contexts, the chip's power, rate and interrupt registers | detection, set-up, rate, range, interrupts, filters | spike rejection and truncating averages; features that share registers under masks; a soft reset from sysfs under a running sensor | a filter returns a value between its samples; operations of different features do not disturb each other; a switch does what it says |
| da380 Linux glue (`GSensor/da380/mir3da_cust.c`) | input devices, the pointer `mir3da_idev`, attribute group, misc device, `slope_th`, `int2_enable`, interrupt line | probe with its exits, remove, sysfs stores, ioctl | exits that unwind to different depths; files that are visible before the chip is set up; stores without a lock | what polls or is visible belongs to a live device; the chip runs with the settings the driver keeps |
| GPIO I2C bus (`Other/gpio_i2c/gpio_i2c.c`) | direction and data of two pins, misc device | byte and word read and write through ioctl | an open-drain bus clocked by hand, the direction of SDA, two ioctls at once | the bus carries exactly the frame of the call; master and device never drive against each other |
| string conversion (`Other/gpio_i2c/strfunc.c`) | none | `StrToNumber`, `atoul`, `atoulx` | the overflow tests | the value of the string, or an error exactly when it does not fit |
| gc2053 camera sensor (`CameraSensor/gc2053/gc2053_mipi.c`) | remembered exposure and gain, the chip's page, gain and exposure registers | power, reset, detection, init, stream, controls, exposure-gain ioctl | the remembered gain suppresses writes; a paged register file written by two paths; unchecked transfers; a chip that loses its registers | the sensor runs with the gain and exposure the driver remembers |
| tp9930 decoder, registers (`CameraAD/tp9930/tp9930.c`) | page register 0x40, `tp9930_rw_lock`, the format and window in use | ioctls, stream start, dump attributes, power, reset | stream start and dumps bypass the semaphore; a mode is several assignments; the chip loses its registers | pictures, losses and identifications are those of their channel; a mode is one entry |
| tp9930 decoder, plug detection (`tp9930.c` 1449-1508, 2024-2113) | status of the detect GPIOs, a self re-arming work item | polling, event, online attribute, removal | a work that arms itself against its cancellation; store and event in two steps | what was read after the last event is current; every lasting change is reported; removal ends and is final |
| tp2854 decoder (`CameraAD/tp2854/tp2854b.c`, `tp_proc.c`) | page register 0x40, copies of the picture registers, `tp2854_CamRes_mutex`, a procfs file | video mode, picture, resolution, dump, raw registers | copies updated before unchecked writes; MIPI and picture registers share addresses; everything but the resolution query without a lock | a picture stays until it is changed; a mode is complete; replies are of their channel |
| fm1288 voice processor (`sound/codecs/FM1288/fm1288/fm1288.c`) | semaphore, the chip's data port, the character device | register read in three transfers, write, initial table, probe, removal, module exit | one retry budget for three loops; the table is written after the device is visible; every probe initialises the one semaphore again | a read returns a value of its register; a bound device runs with its table; every call ends |
| register tools (`i2c_read`, `i2c_write`, `tp9950_read`, `tp9950_write`, the procfs file of tp2854) | none | parse the arguments, one transfer each | conversions into narrower fields, one accumulator for two numbers | what was typed is what is sent |
| fm1288 variants, editor backups, `test.c` | none of their own | tables sent once; one ioctl each | - | - |

Weak points that were read and are left to reviews, because one path through
one call shows them:

- mma865x: `gsensor_detect` indexes past its addresses; the probe leaks a work
  queue on failure and shows the sysfs group (566) before `resume_wq` (578) and
  `hr_timer` (591) exist; a negative error code of a read is used as a register
  value; `POLL_STOP_TIME` and its comment (65) describe a slow standby poll that
  no code implements; a delay of 0 is accepted.
- da380: the quiet time of a tap is shifted to bit 7, outside the mask of its
  register (`mir3da_core.c:2046`), and is lost; the latch setting of SOCLE chips
  keeps bit 0 only, although `mir3da_core.h` gives any positive number a meaning;
  `initDA380Reg` and the interrupt files write the addresses of the NSA chips
  whichever chip was detected; two overlapping accesses to page 1 leave page 1
  selected, because the second saves it as the page to restore.
- da380 glue: `slope_th` is an `unsigned int` that `mir3da_slope_th_store` takes
  from `kstrtoul` and hands to a register access for an `unsigned char`: a
  number above 255 is shown whole and only its low byte is in effect.
- gpio_i2c: 0x100 bytes are mapped and offset 0x400 is used; `i2c_receive_ack`
  returns 1 for an acknowledge (331) although its comment (299) says 0.
- tp9930: a failed probe leaves things registered and returns 0 (2190).
- gc2053: standby and power-on drive PWDN to opposite levels for the same state;
  the maximum of the exposure control is written as 0.
- tp2854: `tp_proc.c` writes register 0 when it cannot parse its text (206);
  `tp2850_ioctl` goes on after a failed `copy_from_user` (1536).
- fm1288: an ioctl between `cdev_add` and `sema_init` uses a semaphore that is
  all zero; a second probe gives the class a name that exists, and the module
  exit then destroys an error pointer.

## 2. Modules

Every driver gets a module of its own; an `MC` module next to it gives the
constants values; `_proofs` modules hold theorems.  The drivers do not share
state, so no module composes two of them.  `RegFile` is the one abstract
specification: `Mir3daReg` implements it.

The level of detail is the same everywhere: one step is one transfer on the
bus, one lock operation or one access to a flag that another context reads.
Every transfer may fail, wherever the run allows it, and the model goes on as
the code does: mostly without looking at the result.

### Mma865x

A process per context: each sysfs writer, `init_work` and `resume_work`, the
task that suspends and resumes (`Pm`), and the task that binds and unbinds the
driver (`Drv`); `Tick`, `ReportStart` and `ReportEnd` are the timer and its
work.  `pc` says where each is; the names of the actions are those of the
functions (`StoreWrite` is the transfer of `mma865x_enable_store`, `WorkConfig`
the XYZ_DATA_CFG write of `mma865x_device_init`).  Simplifications:

- the chip is the ACTIVE bit of CTRL_REG1; every read-modify-write of the
  driver runs under `init_mutex`, and it and the unlock after it are one step;
- the freezer stops sysfs writers for the whole of suspend and resume, and the
  device lock keeps probe and remove apart from them: both are the kernel's.
  The early-suspend variant does not compile (`.suspend` is set without a
  condition) and is not modelled;
- probe is one step, and happens again only when the reports of the old
  binding have drained;
- the value of XYZ_DATA_CFG and the samples are left out;
- `raced` is a history variable: a work item acted on an `active` it had read
  before a store changed it, or one of its transfers, or of those of resume,
  failed.

### RegFile and Mir3daReg

`RegFile` is a flat file of registers <<page, address>> with read, write and
masked write, the masked write being a read and a write.  `Mir3daReg` is the
code: read the page register, switch it if the access is on page 1, access,
switch back; `FailAt` names the transfers that may fail.  A register value is
a set of bits, so that a mask is an intersection.  The refinement mapping takes
the pages' contents as the file, and a call that has passed its access as done.

### GpioI2c

The pins, the direction register and the accesses to them.  A call is a
sequence of routines (`Script`), a routine a sequence of rounds (`Rounds`; a
round for each bit and what stands around the loop), a round a sequence of
accesses; `at` is the place of a caller, as routine, round and access.  On the
other side of the wires are a device that follows the I2C rules (`Answer`,
`Transmit`) and a listener (`Heard`, `Word`) that decodes START, STOP and bytes
from the levels alone.  The listener and the device are external.  One
processor: interrupts are off within a byte.  A read-modify-write of the
direction register is one step.  The first byte of a word read is the 0x3B that
is written into the code; byte and word writes take even device addresses.
`Overlap` says whether calls may overlap, which the driver does not prevent.

### Mir3daCust

Probe step by step with every exit, removal, and the files that program the
impact interrupt.  `drv` is the place in `mir3da_probe` or `mir3da_remove`; the
labels of the probe are places of the removal too, with `_r`.  A register
program (`prog`) is what a task has still to write; a threshold that is an
argument is read in a step of its own (`ReadSlope`).  `Reset` and the initial
table stand for `mir3da_chip_resume` and `mir3da_get_primary_offset`.  The chip
is the range, the activity threshold, the interrupt enable and its mapping,
whose settings the driver remembers elsewhere; a masked write is one step,
since each of these registers holds one field.  A register access takes an
`unsigned char`, so what reaches the chip of a threshold is its `LowByte`, while
`slope` keeps the number as it was stored.  `botched` is history: a probe
left by one of the exits that do not undo their work.  `lost` is history: a
failed write, a store that another one overtook, a raw register write, or the
reset behind `primary_offset`.

### Mir3daFilter, Mir3daChip, RegTools and Input

Routines that only compute, or whose writes are a function of their arguments,
are operators; `Input` holds the call a state of the run is about.
`Mir3daFilter` is the way from the six bytes of a sample to the reported
value, the zoom of the z axis of some SOCLE chips (`Zoomed`) included.
`Mir3daChip` gives the sequence of masked writes of each operation of
the core, for both chip families; `After` applies it to a register file, and
registers are sets of bits, so that `FeaturesIndependent` compares two orders
of two operations.  `FieldBits` says how many bits each chip has for each
parameter of an interrupt source; `ConfigDistinct` compares any two
configurations whose parameters all fit.  The driver does not call `interrupt_ops`, `set_odr` and
`open_interrupt`; they are the interface of the core.  `RegTools` maps a
command line to an exit status and the ioctl a tool makes; the signed overflow
of the hand-written conversions is `Undefined`, which equals no number.
`Width` is the width of each field of each tool's ioctl: the device of `i2c_read`
and `i2c_write` is a `char`, every register address and value a `short`, and a
number arrives cut to exactly that.
`ProcSeqWrite` is the parser of the tp2854 procfs file.

### StrFunc

One character per step; `X` and `Y` are the two constants of the overflow
tests (0x19999999 and 0x10000000), `exact` is the number the characters
denote.  `10 * X + 6 = 16 * Y` is all that the proofs need of them.

### Tp9930, Tp9930Detect

`Tp9930`: a call is a script of transfers (`Script`), run one by one against a
chip with a page register; the ioctls hold `tp9930_rw_lock`, the stream start
and the dumps hold nothing.  A change of the video mode is a script of
assignments to the format and the window in use (`s_info`); a stream start
remembers the format it began with and stores it back at its end.  The raw
writes of TP9930_WRITE_REG go to the page, the registers of a picture and the
identification (`Requests`).  `wanted` is history: the picture last set for a
channel, until `GivenUp` says that something else may be in its registers.  The
result of the page switch of `set_image` (1664) is ignored, so that one whose
transfers fail may write its picture into another channel; that is the one
case in which the picture of a channel is given up because of a call for
another one.  The chip
loses its registers with its supply or its RESET line, at any time outside a
stream start (`Lose`), and then fails every transfer.  `Overlap` says whether a
caller without the semaphore may run together with others: with FALSE the
application keeps them apart, with TRUE `ChannelIdsDistinct` fails, since an
ioctl that switches the page inside the "channel ID" part of the table sends
one channel's identification to another.  The page that broadcasts to all
channels is the chip's.

`Tp9930Detect`: the work reads the GPIOs one by one, compares, stores, sends
the event and arms itself again; a listener reads the online attribute after an
event; removal cancels and frees.  Only a successful probe is modelled.

### Tp2854

As `Tp9930`, with the copies of the pictures (`shadow`): `DoAdjust` is
compare, copy, write.  The copy and its transfer are one step.  The MIPI block
and the channels have registers 0x10 to 0x14 both, as in the chip, and every
write of a mode to them is in its script (`Timing`), so that a failed page
switch sends them to the picture of a channel, and a picture to the MIPI block.
The clock bits of the four
channels share register 0xf5, which is read into `tmp`, changed and written
back for one channel after the other.  `wanted`, `mode` and `changed` are
history: what the last call that changed a register asked for, given up when a
raw write hits it or a call that has had a failed transfer (`Account`).  `due` is
history too: what a resolution query has to answer for a channel, by the signal
at each of its two reads, 0x01 for the loss (1702) and 0x03 for the format
(1715).  A signal that gets lost between the two leaves a format that means
nothing, and only then any is due.  `Overlap` = FALSE lets only resolution
queries run together, which is what the mutex is for.  The
registers of the video modes that no property speaks of are left out of the
scripts; the page switches between them are in.

### Gc2053

`Entry` and `tol_dig_gain` are the split of a gain into table entry and digital
rest; the bytes of a table row are its index.  The four register tables are
their page switches and their writes to gain and exposure.  Power, reset and
detection are in as far as they clear the registers or decide whether
`sensor_init` forgets the remembered values; the variable `sensor_detect` reads
before it is set is a nondeterministic choice.  `sound` is history: which of
page, gain and exposure the driver may count on.  The camera core that calls
the driver one call at a time is not in the repository.

### Fm1288

A process per caller (`pc`) and one for the driver core (`probe`).  A read is
three transfers: the command that copies a register to the chip's data port and
two reads of the port, each repeated until it succeeds or `tries`, which all
three share, is used up.  A transfer reported as failed may have reached the
chip.  `sema_init` in a probe drops the waiters of the semaphore and sets its
count to 1, whoever holds it (`shaken`); the semaphore before it is all zero,
and a `down` then kills the task ("lost").  `seen` is history: the values the
register of a read has had since the call began.  Only entering is left to the
callers: a call and a probe in progress go on.

## 3. Runs

| Run | Question | Bounds | States |
|---|---|---|---|
| `mma865x` | do the safety properties hold in every interleaving, with failing transfers; do chip and flag agree at rest? | two writers, delays 200 and 2000, regulator | 372 k |
| `mma865x_live` | does every store, suspend and removal end, do reports go on? | one writer, failing transfers | 56 k |
| `mir3dareg` | is the paged interface a flat register file? | one caller, two pages, two addresses, two bits, failing transfers up to the restore | 180 k |
| `mir3dacust` | do settings reach the chip, are files and polling on a live device, does an exit undo its work? | two users, two probes, a threshold above a byte, any write failing | 2.2 M |
| `gpio_i2c` | does every call put its frame on the wire, and nothing else? | two callers, calls one at a time, both halves of every byte, addressed and absent device | 546 k |
| `routines` | what do the routines return or write that are functions of their arguments? | every string over a 12-bit unsigned int, command lines of up to four arguments, texts for the procfs file, every 12-bit sample zoomed or not, averages at the corners of their range, interrupt parameters 0, 1, 2 and 66, every operation of the da380 core against every other | 350 k |
| `tp9930` | do pictures, losses and identifications belong to their channel, is a mode of one piece? | two channels, two tasks, two registers of a picture, two modes, any transfer failing, power cuts and resets | 1.7 M |
| `tp9930_detect` | is what the listener read current, every lasting change reported, removal final? | two cameras | 7.5 k |
| `gc2053` | does the sensor run with the remembered gain and exposure? | gains at the borders of the table, one failing transfer | 758 k |
| `tp2854` | do pictures, modes and replies belong to their channel? | four calls, one failing transfer, two pictures, two tasks, two of the five registers of a picture (both are MIPI addresses), two of the modes, two standards, raw writes to the page, 0x14 and 0xf5 | 5.5 M |
| `tp2854_all` | does a picture for all channels reach all of them? | no failing transfer | violation |
| `fm1288` | is a three-transfer read atomic, is the table in effect, does every call end? | two callers, two registers, two attempts, two probes | 647 k |

Why the bounds are enough.  Two writers are what it takes to contend for
`data_lock`; both work items, the power task and the driver core contend as
well.  Two bits and two addresses tell a masked write from a plain one and a
right register from a wrong one.  Two probes reach everything an earlier exit
can leave behind for a later one; two users race each other and the end of a
probe.  Two channels tell a page from another, and the page of all channels
from each; the first and the last register of a picture show where a picture is
cut.  Two standards tell a format that is stale from one that is right.  With
four calls one can set, fail, set again and look.  One failing
transfer anywhere covers every single failure; `tp9930`, `mir3dacust` and
`fm1288` let any number fail.  Two attempts let a transfer fail and be repeated
as well as use up the shared budget.  The gains are the values at both sides of
three borders of the table.  `routines` keeps the relation between the limits
and the width of the accumulator, which is what the 32-bit limits depend on,
and the proof covers the 32-bit ones; its `short` has 8 bits and its `char` 4,
so that numbers between the two, and beyond both, are typed.  Of the interrupt
parameters 66 has a bit for which the wider fields have room and the narrower
ones have not; a write acts on each bit by itself, so
that two register files, of zeros and of ones, stand for every content.

Deadlock is checked except where the system stops: a conversion or a call
ends (`routines`), a probe or a removal ends in a kernel oops or after the last
probe (`mir3dacust`, `fm1288`).

What the violation run shows: `tp2854b.h` says that channel 0xFF stands for all
channels.  The code selects page 0, the page of the first channel, and updates
the copies of all four, so that a later call for one of the others with that
picture writes nothing either.

Every property of a passing run has a mutant in `PROJECT.json`: a definition
marked `Variant` in the module, the code with a plausible bug, under which the
run finds the property violated.

### What the properties leave to the code's users

Some properties hold under a condition that the code does not establish.  It is
part of the property or a constant of the run, and is worth knowing:

- `FlagMatchesChip` (mma865x): unless a work item read `active` while a store
  was about to change it, or a transfer of a work item or of resume failed.
- `FrameOnWire`, `BusDiscipline`, `ReadReturnsDeviceByte` (gpio_i2c): calls do
  not overlap (with `Overlap` = TRUE a call that begins after the START of
  another makes it a STOP), and, as proved, no device has the 7-bit address 29
  if words are read: 0x3B, the first byte of a word read, would tell it to
  transmit.
- `PageRestored`, `Implements` (da380): callers of page 1 do not overlap.
- `SettingsInEffect` (da380): no write failed, no store was overtaken by another,
  no raw write, and no read of `primary_offset`, since an interrupt was last enabled.
  Of the threshold only the low byte is in effect.
- `CleanBinding` (da380): the probe did not leave by an exit without cleanup.
- `ChannelIdsDistinct`, `ImageWhole`, `ModeWhole`, `VlossOfItsChannel`
  (tp9930): stream starts and dumps are kept apart from the ioctls.  Beyond
  that, `ImageWhole` gives a picture up after a raw write or a stream start that
  reaches it, a reset, a failed transfer of the call that sets it, and a
  `set_image` for another channel with a failed page switch, which writes
  into this one; `ChannelIdsDistinct` holds until register 0x34 is written raw;
  `VlossOfItsChannel` is about calls without a failed transfer.
- `PictureShown`, `ModeInEffect`, `ReplyOfItsChannel`,
  `ClockChangesWithOutputOff` (tp2854): calls do not overlap (`Overlap` = FALSE),
  but for resolution queries, which the mutex keeps apart.  With TRUE the first
  three fail.
- `PictureShown` and `ModeInEffect` (tp2854): raw writes end them for what they
  reach, and so does a call after a failed transfer of its own.  No result of a
  page switch is looked at (659, 1073): a mode whose switch to the MIPI page failed
  writes its registers 0x10 to 0x14 over the picture of the channel selected, and
  a `set_image` whose switch failed writes its picture to another channel, or
  to the MIPI block if a register was last read there.
- `ReplyOfItsChannel` (tp2854): no transfer of the query failed; and a camera
  unplugged between the reads of 0x01 and 0x03 may be reported with any format.
- `GainRealised` (gc2053), as proved: the digital rest of a gain fits the
  integer part of its register.  `sensor_s_exp_gain` takes larger gains all the
  same; the limits of the gain control keep to it.
- `GainRealised`, `ExposureRealised` (gc2053): no transfer of the call that set the
  value failed, and no stream start stopped inside its table since.
- `ReadReturnsHeld`, `CallsEnd` (fm1288): no probe ran `sema_init` on a
  semaphore in use.

### Fairness

`mma865x_live` assumes `FairSpec`: the scheduler runs every task and work item
that can run (weak fairness), a mutex that is released again and again is
granted in the end (strong fairness of the lock steps; kernel mutexes hand over
to waiters), and an armed timer fires.  Nothing is assumed about new stores,
suspends and removals: they may come or not.  `tp9930_detect` assumes weak
fairness of the polling work, of the listener and of a removal that has begun;
plugging is under no fairness, and `WorkServes` speaks of changes that last and
of removals that have begun.  `fm1288` assumes weak fairness of each call and
of a probe in progress; no strong fairness is needed, because `up` hands the
semaphore to a waiter.

## 4. Proofs

| Module | Theorem | For every |
|---|---|---|
| `Mma865x_proofs` | `TypeCorrect`, `ConfigSafe`, `SuspendSafe`, `PolledWhenActive`, `RemovalSafe`, from `Safety`; `FlagAndChipAgree` | set of writers and delays, regulator or not, failing transfers or not |
| `Mir3daReg_proofs` | `Refinement`, `PageIsRestored` | set of callers, pages, addresses and bits, under `Discipline` |
| `GpioI2c_proofs` | `FrameIsOnWire`, `BusIsDisciplined`, `ReadsReturnDeviceByte`, from `CallsInvariant` | number of callers, device address, register, value and byte read, under `Discipline` |
| | `ConversionExact`, `RefusalJustified`, `AcceptanceExact`, from `ConversionInvariant` (string conversion) | X and Y with 10 X + 6 = 16 Y, the 32-bit ones included |
| | `SentAsTypedHolds` (tools) | command line, widths of the fields within an `int` |
| | `ProcNumbers`, `ProcWritesAsTypedHolds` (procfs file of tp2854) | two numbers of one or two digits, spaces, rest of the text and length of the buffer |
| `Mir3daCust_proofs` | `LiveDevices`, from `Safety`; `BindingClean`; `SettingsReachChip` | number of probes, users and thresholds, any write failing |
| | `AverageStaysBetween`, `ChangeTakenOver`, `AverageRightHolds`, `EnhancedStaysBetween`, `ReportRightHolds` (filters) | sample, positive length, state of the filters |
| | `FeaturesIndependentHolds`, `SwitchesAsAskedHolds`, `ConfigDistinctHolds` (operations of the core) | threshold, duration and time, both chip families |
| `Tp9930_proofs` | `PictureIsWhole`, `ModeIsWhole`, from `Safety`; `LossesAreOwn`; `IdsAreDistinct` | number of channels, tasks, pictures and modes, failing transfers or not, under `Discipline` |
| | `RemovalIsFinal`, `ViewIsCurrent` (plug detection) | number of detect GPIOs |
| `Tp2854_proofs` | `PictureIsShown`, `ModeIsInEffect`, `RepliesAreOwn`, from `Safety` | number of users, pictures and registers of a picture, failing transfers or not, under `Discipline` |
| `Gc2053_proofs` | `GainIsRealised`, `ExposureIsRealised`, from `Safety` | set of gains under `GainsFit` and of exposures, number of failing transfers |
| `Fm1288_proofs` | `ReadsAtomic`, `TableWritten`, from `Safety` | set of callers and registers, table, number of attempts and of probes |

`Mma865x`.  None of the properties is inductive: that the configuration is
written in standby depends on who holds `init_mutex`, that an enabled sensor is
polled on what a store in its critical section has done so far, that a suspended
system has no timer on the flush in suspend.  `IInv` adds `LockInv` (a mutex is
owned by the process in its critical section and no other), `StoreInv` (what a
store knows about flag and timer), `PmInv` and `DrvInv` (which processes are
idle during suspend and after each step of a removal) and `TimerInv`.  The proof
has one lemma per kind of process and one step per action.  It needs
`ConstantsAssumption` only: the names of the processes differ.
`FlagAndChipAgree` needs an invariant of its own: chip and flag do differ, and
`Agree` names what is still at work when they do (a store between chip and flag,
a work item between its reset and its look at the flag, a suspend, the init work
that has not run yet), for each of the two directions.

`Mir3daReg`.  `Discipline`: callers are serialised, or stay on page 0, and only
page switches and data writes fail.  It is necessary: the second of two
overlapping accesses to page 1 saves page 1 as the page to restore.  Under it
`RInv` says that the page is the one the call in progress has selected and the
saved page is 0; each step is then a step of `RegFile` or a stutter.

`GpioI2c`.  `Discipline`: calls do not overlap, and no device has the address
that a word read begins with.  Nothing is said of `FrameOnWire` in the middle of
a byte, so `IInv` says for each of the places of a call (`In`, with one
predicate for each routine: `InStart`, `InSend`, `InAck`, `InReceive`,
`InSecond`, `InStop`) what the lines, the device, the listener and the value
sampled so far are: in round j of a byte the listener has the j - 1 upper bits
of it (`Top`), a transmitting device shows the j-th bit of its own.  Three
functions of request and routine say how far the call as a whole is: `Role` is
what the device has been told to be, `Said` how many words of the frame have been
heard, `Frame` which ones.  The proof goes in layers.  `Chart_read8` and its
three companions check each routine of each script once: what `Role` and `Said` are
before and after it, and which routine follows (`Charts`).  `StartCore`,
`SendRound`, `AckCore`, `ReceiveRound`, `SecondCore` and `StopCore` are about a
routine alone: what one access does to lines, device and listener (`Rises`,
`Falls`, `Opens`, `Closes`, `Keeps`).  `StepCall` puts them together.  `SecondCore`
is the second byte of a word read, which the device is not asked for: all that
is kept is that the value sampled begins with the first byte.  The arithmetic
(`TopBits`, `ShownBits`) rebuilds a byte from its bits.

`Mir3daCust`.  The exits of the probe leave different things, so `IInv` says
for each place what exists there: the state of the device the probe works on
(`Named`), that devices of later probes do not exist (`Fresh`), that files and
their users are on registered devices (`Files`).  `Undone` adds what is gone
after an exit that undid its work.  `SInv` is about the settings: as long as
nothing is lost, a register that is not as the driver remembers it has a write
pending in the program of some task (`Pending`); a user's program starts with a
reset or contains none (`Programs`).  A write that is not stale makes its own
register right and leaves the others pending; range and threshold count only
from `mir3da_initDA380Reg` on, whose program writes both.

`Tp9930`.  `Discipline`: the callers without the semaphore are kept apart from
the others, and `set_image` writes every register of a picture.  In the middle
of a call `ImageWhole` says nothing; `Picture` says which registers are written
so far and that the page is that of the channel, `Mode` which assignments of a
mode have been made, and `Alone` that there is one call at a time.  The losses
have an invariant of their own: bit k is read after page k was selected.

`IdsAreDistinct` has one too (`IdInv`): at each place of the table that a stream
start sends, the channels that came before have their identification, and the
page is that of the channel whose turn it is, even if transfers fail, because a
start ends at its first failed transfer.

The plug detection is in the same module.  A listener that has read since the
last event has what the work stored: the proof follows an element of the status
through store, event and read.

`Tp2854`.  `Discipline`: calls are kept apart, but for the resolution queries,
which hold the mutex.  A script is counted from its end, so that the invariant
speaks of what is still to be sent.  `Shape` says that the rest of every call is
the end of one of the scripts, `Alone` that there is one call at a time,
`Path` that the page is the one the rest relies on, or that a failed switch has
been recorded; `Drawing` and `Changing` say which registers of a picture and of
a mode are written so far, `Getting` and `Asking` of which channel the value
read so far is; while the format of a channel is still to be read, `Asked` has
`due` empty, since the query has found the channel not to be lost.
The six registers of the MIPI block are part of `Changing` one by one: what the
rest of a script has still to write is not yet claimed.

`Gc2053`.  The first half is arithmetic: the table entry that `Entry` picks is
the largest that does not exceed the gain, the digital rest is at least 1.0 and
the two bytes it is cut into give it back.  That last part needs `GainsFit`: the
register 0xb1 has eight bits for the integer part.  The second half walks down
the script of a call: `Path` says what is still to be sent, `GainWritten` and
`ExpWritten` which bytes have been written, `GainHeld` and `ExpHeld` that the
chip has what the driver remembers while `sound` says so, `PageInv` that the
page is the first one outside the tables.

`Fm1288`.  As long as no probe initialises a semaphore in use, one caller at
most is past `down` (`Exclusive`); then (`Progress`) the port holds a value the register had
during the call, and each finished transfer of a read the byte of that one
value.  `TableInv` says which entries are settled so far.

The string conversion.  `FitsIsExact` is the arithmetic: the tests on the old
accumulator refuse a digit exactly if the new value does not fit.  The invariant
then carries `ulResult = exact` through the loop.

The tools.  Their loops are recursive functions of the characters, so the proofs
need an induction over data.  The induction theorems of the library have an
operator for a parameter, which the provers cannot instantiate; over a set S of
numbers (`Induction`) it follows from `WFMin`, as a number that is not in S and
is the least such would have a predecessor in S.  A recursive function is a CHOOSE
that says nothing until some function satisfies its equation; `Iterates` builds
one step by step.  From there `DenotesByDigits` and `HexLoopDenotes` compare
the loop with the number character by character: equal, or the loop has overflowed and
the number is beyond an `int`.  For `ProcSeqWrite` the state of the parser is followed
through the parts of a text (`Reads`): it stays the same in spaces (`Spaces`),
collects a number whole (`NumberRead`), and keeps both in the rest (`TailKeeps`), as
long as a digit there comes after a space or the second number has its two
digits (`Cut`).  The one assumption, `ToolAssumption`, is that a `char` is no
wider than a `short` and a `short` fits an `int`, and what an argument consists of.

The filters.  A quotient of C lies between 0 and its dividend, so that the
new average lies between the old one and the sample: the `int` that is returned
as a `short` fits it.  The same holds for the adaptive filter, whichever of its
two averages it takes over.

The operations of the da380 core.  `Owner` shares the bits of all registers out
among the features: power, rate, pins, the parameters and the switch of either
interrupt source.  Each operation writes bits of one owner
(`OpsKeepToTheirBits`), whatever its parameters are; programs with different
owners may be exchanged (`Exchange`), and leave the bits of a switch as they
were unless they own it (`NotTheirs`, `BitStays`).  That no bit of a parameter is
lost follows from the numbers of bits in `FieldBits`: a parameter below 2^n is
the number its n low bits give back.  `After` is defined bit by
bit for this: the last write whose mask has a bit decides it.

Only model-checked:

- all liveness (`CallsEnd` of both drivers, `ReportsFlow`, `WorkServes`): temporal
  fairness is out of the prover's reach;
- the violation of `AllChannelsShown`, which is a counterexample.

## 5. Not modelled

- da380: the register dump, the retries of the identification, the files that
  only read (axes, version), the impact counters and the log and delay files; the
  calibration is compiled out (`MIR3DA_OFFSET_TEMP_SOLUTION` is not defined).
- mma865x: the unwinding of a failed probe, the early-suspend variant, the
  samples.
- tp9930: the unwinding of a failed probe and the identification in
  `sensor_init`; `TP9930_POWER_SET`, which switches a GPIO of the cameras.
- tp2854: the other registers of the video modes, the failures of module init,
  a `copy_from_user` that fails.
- gc2053: the other registers of the tables, standby, reading the controls,
  probe and remove.
- gpio_i2c: `ioremap` and `misc_register` of module init.
- formats and windows of the camera drivers beyond the entry in use, the
  register values that no property speaks of.
- `fm1288_a.c`, `fm1288_b.c`, `fm1288_c.c`: drafts the Makefile does not build;
  the editor backups; `test.c`, which prints resolutions and checks nothing.
- everything below `i2c_transfer` and the GPIO registers.

What is left has no state a property could relate (dumps, drafts, tables of
values), belongs to the kernel, or is a straight path that a review shows.

## 6. Plan

Open: the unwinding of the failed probes of tp9930 and mma865x, as `Mir3daCust`
has it for the da380.
