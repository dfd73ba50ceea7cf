----------------------------- MODULE Mir3daCust -----------------------------
(***************************************************************************)
(* The da380 driver (GSensor/da380/mir3da_cust.c, with the set-up routines *)
(* of mir3da_core.c): probe with every exit, removal, and the sysfs stores *)
(* that program the impact interrupt, which nothing serialises against     *)
(* each other or against the end of the probe.                             *)
(*                                                                         *)
(* A masked write of a register is one step here: each register below      *)
(* holds one field, so the outcome does not depend on the bits read, and   *)
(* Mir3daReg shows what the access itself does.  A threshold is read into  *)
(* the argument of a write in a step of its own.  Registers whose setting  *)
(* the driver does not remember (power, rate, latch, pin) are left out.    *)
(***************************************************************************)
EXTENDS Integers, Sequences

CONSTANTS
    Users,        \* tasks that write the sysfs files
    Thresholds,   \* values they store in slope_th, an unsigned int
    ResetTh,      \* the threshold of a chip after its reset
    GpioValid,    \* the device tree names the interrupt line
    MaxProbes,    \* bound on the number of probes
    Unread        \* no threshold has been read into the argument yet

G_SENSOR_SENSI_PARKING_H_VAL == 1200
GSENSOR_K                    == 8
ParkingTh == (G_SENSOR_SENSI_PARKING_H_VAL \div GSENSOR_K) + 1

Drv   == "driver_core"     \* the task that runs mir3da_probe and mir3da_remove
Tasks == Users \cup {Drv}
Ids   == 1..MaxProbes      \* input devices, by the probe that allocated them

ASSUME CustAssumption ==
    /\ Drv \notin Users
    /\ MaxProbes \in Nat
    /\ GpioValid \in BOOLEAN
    /\ Thresholds \subseteq Nat
    /\ ResetTh \in 0..255
    /\ Unread \notin Nat

VARIABLES
    chip,         \* range in g, activity threshold, interrupt enable and mapping
    found,        \* gsensor_mod >= 0: a module was detected
    slope,        \* slope_th
    int2,         \* int2_enable
    prog,         \* the register writes a task has still to do
    arg,          \* the threshold read for the next write
    at,           \* the device whose attribute a user has open, 0 for none
    drv,          \* where the probe or the removal is
    failed,       \* res of mir3da_core_init
    idev,         \* mir3da_idev: 0 is NULL
    device,       \* state of each input device
    groups,       \* devices that carry the attribute group
    misc,         \* the misc device is registered
    gpio, irq,    \* the interrupt line is requested, its handler installed
    hwmons,       \* hwmon devices registered
    probes,       \* number of probes
    botched,      \* history: a probe left by an exit that does not undo its work
    lost          \* history: a write failed, was stale, or a reset wiped a setting

setting == <<slope, int2>>
task    == <<prog, arg, at>>
objects == <<idev, device, groups, misc, gpio, irq, hwmons>>
vars    == <<chip, found, setting, task, drv, failed, objects, probes, botched, lost>>

-----------------------------------------------------------------------------
(* Register programs.  "must" marks the writes whose failure ends them.     *)

ResetChip == [range |-> 2, thr |-> ResetTh, arm |-> FALSE, map |-> FALSE]

W(reg, val) == [reg |-> reg, val |-> val, must |-> FALSE]
M(reg, val) == [reg |-> reg, val |-> val, must |-> TRUE]

\* mir3da_soft_reset and the initial table: mir3da_chip_resume and
\* mir3da_get_primary_offset.
CoreSetup == << M("reset", 0), M("range", 8) >>

\* Variant: the threshold is left to int2_enable.
CustSetup_NoThreshold == << M("range", 4) >>
\* initDA380Reg: set the range of +-4g, then the activity threshold.
CustSetup == << M("range", 4), W("thr", 0) >>

\* mir3da_int2_enable_store.
Int2Writes(on) ==
    IF on THEN << W("range", 4), W("arm", TRUE), W("thr", 0), W("map", TRUE) >>
          ELSE << W("arm", FALSE), W("map", FALSE) >>

\* The argument of a register write is an unsigned char.
LowByte(v) == v % 256

\* What a write does to the chip.
Effect(w, th) ==
    CASE w.reg = "reset" -> ResetChip
      [] w.reg = "thr"   -> [chip EXCEPT !.thr = LowByte(th)]
      [] w.reg = "range" -> [chip EXCEPT !.range = w.val]
      [] w.reg = "arm"   -> [chip EXCEPT !.arm = w.val]
      [] w.reg = "map"   -> [chip EXCEPT !.map = w.val]

\* The write does not put the driver's current setting into the chip.
Stale(t, w) ==
    \/ w.reg = "thr" /\ LowByte(arg[t]) # LowByte(slope)
    \/ w.reg \in {"arm", "map"} /\ w.val # int2
    \/ w.reg = "reset" /\ (t # Drv \/ int2)

\* The threshold argument of the next write is evaluated.
ReadSlope(t) ==
    /\ prog[t] # <<>>
    /\ Head(prog[t]).reg = "thr"
    /\ arg[t] = Unread
    /\ arg' = [arg EXCEPT ![t] = slope]
    /\ UNCHANGED <<chip, found, setting, prog, at, drv, failed, objects, probes, botched, lost>>

\* One register write, which may fail with or without effect.
WriteReg(t) ==
    /\ prog[t] # <<>>
    /\ LET w == Head(prog[t])
       IN  /\ w.reg = "thr" => arg[t] # Unread
           /\ \/ /\ chip' = Effect(w, arg[t])
                 /\ lost' = (lost \/ Stale(t, w))
                 /\ prog' = [prog EXCEPT ![t] = Tail(@)]
                 /\ UNCHANGED failed
              \/ /\ chip' \in {chip, Effect(w, arg[t])}
                 /\ lost' = TRUE
                 /\ prog' = [prog EXCEPT ![t] = IF w.must THEN <<>> ELSE Tail(@)]
                 /\ failed' = (failed \/ (t = Drv /\ w.must))
    /\ arg' = [arg EXCEPT ![t] = Unread]
    /\ UNCHANGED <<found, setting, at, drv, objects, probes, botched>>

\* No register program is under way.
Quiet == \A t \in Tasks : prog[t] = <<>>

-----------------------------------------------------------------------------
(* The sysfs files of a device.                                            *)

OpenFile(u, d) ==
    /\ at[u] = 0
    /\ d \in groups
    /\ at' = [at EXCEPT ![u] = d]

\* mir3da_slope_th_store sets the global, however large the number, and passes it on:
\* the value it has just stored, or what the global holds when it is read again.
SlopeThStore(u) ==
    /\ \E d \in groups : OpenFile(u, d)
    /\ \E th \in Thresholds :
         /\ slope' = th
         /\ \E v \in {th, Unread} : arg' = [arg EXCEPT ![u] = v]
    /\ prog' = [prog EXCEPT ![u] = << W("thr", 0) >>]
    /\ UNCHANGED <<chip, found, int2, drv, failed, objects, probes, botched, lost>>

\* mir3da_int2_enable_store (parking_impact_sensitivity_close is never 1).  A
\* store of 1 writes every register that "lost" is about.
Int2EnableStore(u) ==
    /\ \E d \in groups : OpenFile(u, d)
    /\ \E on \in BOOLEAN :
         /\ int2' = on
         /\ prog' = [prog EXCEPT ![u] = Int2Writes(on)]
         /\ lost' = (lost /\ ~(on /\ Quiet))
    /\ UNCHANGED <<chip, found, slope, arg, drv, failed, objects, probes, botched>>

\* mir3da_primary_offset_show: resets the running sensor.
PrimaryOffsetShow(u) ==
    /\ \E d \in groups : OpenFile(u, d)
    /\ prog' = [prog EXCEPT ![u] = CoreSetup]
    /\ UNCHANGED <<chip, found, setting, arg, drv, failed, objects, probes, botched, lost>>

\* mir3da_reg_data_store, or the WRITE_REG ioctl: any value in any register.
AnyWrites == {W("thr", 0), W("range", 2)} \cup {W(r, b) : r \in {"arm", "map"}, b \in BOOLEAN}

WriteAnyReg ==
    /\ groups # {} \/ misc
    /\ \E w \in AnyWrites : chip' = Effect(w, ResetTh)
    /\ lost' = TRUE
    /\ UNCHANGED <<found, setting, task, drv, failed, objects, probes, botched>>

CloseFile(u) ==
    /\ at[u] # 0
    /\ prog[u] = <<>>
    /\ at' = [at EXCEPT ![u] = 0]
    /\ UNCHANGED <<chip, found, setting, prog, arg, drv, failed, objects, probes, botched, lost>>

UserStep(u) ==
    \/ SlopeThStore(u) \/ Int2EnableStore(u) \/ PrimaryOffsetShow(u) \/ CloseFile(u)
    \/ ReadSlope(u) \/ WriteReg(u)

-----------------------------------------------------------------------------
(* mir3da_probe.  Each exit goes where its goto goes.                      *)

Run(p)  == prog' = [prog EXCEPT ![Drv] = p]
Done    == prog[Drv] = <<>>
Goto(p) == drv' = p

\* Five calls of mir3da_module_detect, unless a module is known: it must answer
\* with one of the table's identities.
Detect == found' \in {TRUE, found}

\* A probe starts with mir3da_core_init.  When no module was detected, it goes
\* on with the table entry at index -1.
Bind ==
    /\ drv = "unbound"
    /\ probes < MaxProbes
    /\ probes' = probes + 1
    /\ failed' = FALSE
    /\ Detect
    /\ \/ found' /\ Goto("init") /\ Run(CoreSetup) /\ UNCHANGED botched
       \/ ~found' /\ Goto("wild") /\ botched' = TRUE /\ UNCHANGED prog
    /\ UNCHANGED <<chip, setting, arg, at, objects, lost>>

\* A chip that does not take its table ends the probe, with result 0.
CoreInitDone ==
    /\ drv = "init"
    /\ Done
    /\ \/ failed /\ Goto("bound") /\ botched' = TRUE /\ UNCHANGED hwmons
       \/ ~failed /\ Goto("alloc") /\ hwmons' = hwmons + 1 /\ UNCHANGED botched
    /\ UNCHANGED <<chip, found, setting, task, failed, idev, device, groups, misc, gpio, irq,
                   probes, lost>>

\* err_hwmon_device_unregister names the wrong device: nothing is unregistered.
AllocDevice ==
    /\ drv = "alloc"
    /\ \/ /\ idev' = probes
          /\ device' = [device EXCEPT ![probes] = "allocated"]
          /\ Goto("register")
       \/ /\ idev' = 0
          /\ Goto("unbound")
          /\ UNCHANGED device
    /\ UNCHANGED <<chip, found, setting, task, failed, groups, misc, gpio, irq, hwmons, probes,
                   botched, lost>>

RegisterDevice ==
    /\ drv = "register"
    /\ \/ /\ device' = [device EXCEPT ![idev] = "registered"]
          /\ Goto("group")
       \/ /\ Goto("free")
          /\ UNCHANGED device
    /\ UNCHANGED <<chip, found, setting, task, failed, idev, groups, misc, gpio, irq, hwmons,
                   probes, botched, lost>>

CreateGroup ==
    /\ drv = "group"
    /\ \/ groups' = groups \cup {idev} /\ Goto("misc")
       \/ UNCHANGED groups /\ Goto("unregister")
    /\ UNCHANGED <<chip, found, setting, task, failed, idev, device, misc, gpio, irq, hwmons,
                   probes, botched, lost>>

\* misc_register may fail, and fails when an earlier probe left its device.
RegisterMisc ==
    /\ drv = "misc"
    /\ \/ ~misc /\ misc' = TRUE /\ Goto("line")
       \/ UNCHANGED misc /\ Goto("remove_group")
    /\ UNCHANGED <<chip, found, setting, task, failed, idev, device, groups, gpio, irq, hwmons,
                   probes, botched, lost>>

\* slope_th gets its default; gpio_request fails at once when an earlier binding
\* still holds the line, and that failure returns without undoing anything.
RequestLine ==
    /\ drv = "line"
    /\ slope' = ParkingTh
    /\ \/ ~GpioValid /\ Goto("setup") /\ UNCHANGED <<gpio, botched>>
       \/ GpioValid /\ ~gpio /\ gpio' = TRUE /\ Goto("irq") /\ UNCHANGED botched
       \/ GpioValid /\ Goto("unbound") /\ botched' = TRUE /\ UNCHANGED gpio
    /\ UNCHANGED <<chip, found, int2, task, failed, idev, device, groups, misc, irq, hwmons,
                   probes, lost>>

\* A failed request_irq is only logged; a failed device_init_wakeup unwinds, but
\* not the misc device, the line and the handler.
RequestIrq ==
    /\ drv = "irq"
    /\ \/ UNCHANGED irq /\ Goto("setup") /\ UNCHANGED botched
       \/ irq' = TRUE /\ Goto("setup") /\ UNCHANGED botched
       \/ irq' = TRUE /\ Goto("remove_group") /\ botched' = TRUE
    /\ UNCHANGED <<chip, found, setting, task, failed, idev, device, groups, misc, gpio, hwmons,
                   probes, lost>>

InitDA380Reg ==
    /\ drv = "setup"
    /\ Run(CustSetup)
    /\ Goto("init_regs")
    /\ UNCHANGED <<chip, found, setting, arg, at, failed, objects, probes, botched, lost>>

ProbeDone ==
    /\ drv = "init_regs"
    /\ Done
    /\ Goto("bound")
    /\ UNCHANGED <<chip, found, setting, task, failed, objects, probes, botched, lost>>

-----------------------------------------------------------------------------
(* mir3da_remove, whose last steps are also the labels of the probe.  The   *)
(* line, the handler and the wake-up source stay.                           *)

\* Variant: the misc device is not deregistered.
Remove_KeepsMisc ==
    /\ drv = "bound"
    /\ Goto("remove_group_r")
    /\ UNCHANGED <<chip, found, setting, task, failed, idev, device, groups, misc, gpio, irq,
                   hwmons, probes, botched, lost>>

\* misc_deregister of a device that is not registered corrupts its list.
Remove ==
    /\ drv = "bound"
    /\ \/ misc /\ misc' = FALSE /\ Goto("remove_group_r")
       \/ ~misc /\ UNCHANGED misc /\ Goto("oops")
    /\ UNCHANGED <<chip, found, setting, task, failed, idev, device, groups, gpio, irq, hwmons,
                   probes, botched, lost>>

\* Variant: the calls in progress are not waited for.
RemoveGroup_NoDrain ==
    /\ drv \in {"remove_group", "remove_group_r"}
    /\ groups' = groups \ {idev}
    /\ Goto(IF drv = "remove_group" THEN "unregister" ELSE "unregister_r")
    /\ UNCHANGED <<chip, found, setting, task, failed, idev, device, misc, gpio, irq, hwmons,
                   probes, botched, lost>>

\* sysfs_remove_group waits for the calls in progress.
RemoveGroup ==
    /\ drv \in {"remove_group", "remove_group_r"}
    /\ \A u \in Users : at[u] # idev
    /\ groups' = groups \ {idev}
    /\ Goto(IF drv = "remove_group" THEN "unregister" ELSE "unregister_r")
    /\ UNCHANGED <<chip, found, setting, task, failed, idev, device, misc, gpio, irq, hwmons,
                   probes, botched, lost>>

UnregisterDevice ==
    /\ drv \in {"unregister", "unregister_r"}
    /\ device' = [device EXCEPT ![idev] = "allocated"]
    /\ Goto(IF drv = "unregister" THEN "free" ELSE "free_r")
    /\ UNCHANGED <<chip, found, setting, task, failed, idev, groups, misc, gpio, irq, hwmons,
                   probes, botched, lost>>

\* The pointer keeps its value.
FreeDevice ==
    /\ drv \in {"free", "free_r"}
    /\ device' = [device EXCEPT ![idev] = IF @ = "registered" THEN "polling_freed" ELSE "freed"]
    /\ hwmons' = IF drv = "free_r" THEN hwmons - 1 ELSE hwmons
    /\ Goto("unbound")
    /\ UNCHANGED <<chip, found, setting, task, failed, idev, groups, misc, gpio, irq, probes,
                   botched, lost>>

DrvStep ==
    \/ Bind \/ CoreInitDone \/ AllocDevice \/ RegisterDevice \/ CreateGroup \/ RegisterMisc
    \/ RequestLine \/ RequestIrq \/ InitDA380Reg \/ ProbeDone
    \/ Remove \/ RemoveGroup \/ UnregisterDevice \/ FreeDevice
    \/ ReadSlope(Drv) \/ WriteReg(Drv)

Init ==
    /\ chip = ResetChip
    /\ found \in BOOLEAN                     \* mir3da_detect may have run
    /\ slope = 0
    /\ int2 = FALSE
    /\ prog = [t \in Tasks |-> <<>>]
    /\ arg = [t \in Tasks |-> Unread]
    /\ at = [u \in Users |-> 0]
    /\ drv = "unbound"
    /\ failed = FALSE
    /\ idev = 0
    /\ device = [d \in Ids |-> "none"]
    /\ groups = {}
    /\ misc = FALSE
    /\ gpio = FALSE
    /\ irq = FALSE
    /\ hwmons = 0
    /\ probes = 0
    /\ botched = FALSE
    /\ lost = FALSE

Next == DrvStep \/ WriteAnyReg \/ \E u \in Users : UserStep(u)

Spec == Init /\ [][Next]_vars

-----------------------------------------------------------------------------
DrvPlaces == {"unbound", "wild", "init", "alloc", "register", "group", "misc", "line", "irq",
              "setup", "init_regs", "bound", "remove_group", "remove_group_r", "unregister",
              "unregister_r", "free", "free_r", "oops"}

TypeOK ==
    /\ chip.range \in {2, 4, 8}
    /\ chip.thr \in 0..255
    /\ slope \in Thresholds \cup {ParkingTh, 0}
    /\ \A t \in Tasks : Len(prog[t]) <= 4
    /\ at \in [Users -> 0..MaxProbes]
    /\ drv \in DrvPlaces
    /\ idev \in 0..MaxProbes
    /\ device \in [Ids -> {"none", "allocated", "registered", "freed", "polling_freed"}]
    /\ \A t \in Tasks : arg[t] # Unread => prog[t] # <<>> /\ Head(prog[t]).reg = "thr"
    /\ groups \subseteq Ids
    /\ hwmons \in 0..MaxProbes

\* At rest the chip runs with the driver's settings: the range of +-4g that
\* initDA380Reg sets, the low byte of slope_th and the interrupt of int2_enable,
\* although probe publishes the files before it sets the chip up.  A number above
\* 255 is shown whole by the file slope_th, and only its low byte is in effect.  A
\* failed write, a store overtaken by another one, a raw register write and the
\* reset behind primary_offset end all this: nothing is said of the chip after
\* them, until a store of 1 in int2_enable at rest has written everything again.
SettingsInEffect ==
    drv = "bound" /\ Quiet /\ ~lost /\ ~botched =>
        /\ chip.range = 4
        /\ chip.thr = LowByte(slope)
        /\ chip.arm = int2
        /\ chip.map = int2

\* Only a registered device polls or has files, after every exit of the probe, the
\* incomplete ones included.  report_abs finds its device through mir3da_idev, which
\* keeps its value when the device is freed: as long as every probe undid its work,
\* whatever polls is the device mir3da_idev names.
LiveDevicesOnly ==
    /\ \A d \in Ids : /\ device[d] # "polling_freed"
                      /\ device[d] = "registered" /\ ~botched => idev = d
    /\ \A d \in groups : device[d] = "registered"
    /\ \A u \in Users : at[u] # 0 => device[at[u]] = "registered"

\* Between bindings nothing of the driver is visible, except the interrupt line
\* and hwmon devices of failed probes, unless an exit without cleanup was taken;
\* a bound driver has everything in place.
CleanBinding ==
    ~botched =>
        /\ drv = "unbound" => groups = {} /\ ~misc
                              /\ \A d \in Ids : device[d] \in {"none", "freed"}
        /\ drv = "bound"   => groups = {idev} /\ misc /\ hwmons > 0
=============================================================================
