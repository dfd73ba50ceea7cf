------------------------------- MODULE Mma865x -------------------------------
(***************************************************************************)
(* The MMA865x accelerometer driver (GSensor/mma865x/mma865x.c) after      *)
(* probe: sysfs writers of "enable" and "delay", the init and resume work  *)
(* items, suspend and resume, the sampling hrtimer with its report work,   *)
(* and driver removal, interleaved at the granularity of one lock          *)
(* operation, one CTRL_REG1 / XYZ_DATA_CFG transfer or one access to the   *)
(* atomic "active" flag per step.                                          *)
(*                                                                         *)
(* The chip is its ACTIVE bit (bit 0 of CTRL_REG1): every                  *)
(* read-modify-write of the driver is "val | 1" or "val & 0xfe" under      *)
(* init_mutex, so its outcome does not depend on the value read.           *)
(***************************************************************************)
EXTENDS Naturals

CONSTANTS
    Writers,      \* tasks that may write the sysfs file "enable"
    Delays,       \* values written to the sysfs file "delay", in ms
    HasLdo,       \* gsensor_info.sensor_power_ldo # NULL
    I2cMayFail,   \* a transfer to the powered chip may return an error
    NoOwner       \* the owner of a free mutex

InitW   == "init_work"     \* mma865x_init_work on mma865x_init_wq
ResumeW == "resume_work"   \* mma865x_resume_work on mma865x_resume_wq
Pm      == "pm"            \* the task that runs mma865x_suspend / _resume
Drv     == "driver_core"   \* the task that runs mma865x_remove / _probe

Works == {InitW, ResumeW}
Procs == Writers \cup Works \cup {Pm, Drv}

ASSUME ConstantsAssumption ==
    /\ Writers \cap (Works \cup {Pm, Drv}) = {}
    /\ NoOwner \notin Procs
    /\ Delays \subseteq Nat
    /\ HasLdo \in BOOLEAN
    /\ I2cMayFail \in BOOLEAN

POLL_INTERVAL_MAX == 1000

VARIABLES
    pc,           \* where each process is
    op,           \* the value a writer stores: TRUE enables, FALSE disables
    ok,           \* the CTRL_REG1 write of a work item succeeded (result1)
    dataLock,     \* owner of data_lock
    initLock,     \* owner of init_mutex
    active,       \* atomic_t active: MMA_ACTIVED (TRUE) or MMA_STANDBY
    suspend,      \* suspend_indator
    timer,        \* hr_timer is queued
    ktime,        \* sampling period, in ms
    pending,      \* wq_hrtimer is queued
    running,      \* wq_func_hrtimer runs
    ctrl,         \* the ACTIVE bit of the chip
    power,        \* the sensor regulator is on
    raced         \* history: a work item acted on a stale "active" or lost a transfer

locks  == <<dataLock, initLock>>
report == <<pending, running>>
chip   == <<ctrl, power>>
vars   == <<pc, op, ok, locks, active, suspend, timer, ktime, report, chip, raced>>

-----------------------------------------------------------------------------
(* Where the processes can be. *)

WriterPc == {"idle", "data_lock", "init_lock", "write", "timer", "set_flag"}
WorkPc   == {"idle", "queued", "init_lock", "reset", "config", "sleep",
             "relock", "rewrite", "start_timer"}
PmPc     == {"resumed", "flush", "cancel_timer", "check", "init_lock", "write",
             "power_off", "suspended", "recheck", "relock", "rewrite",
             "start_timer", "queue_work", "clear"}
DrvPc    == {"bound", "init_lock", "write", "cancel_resume", "remove_sysfs",
             "cancel_timer", "free", "cancel_init", "gone"}

\* The steps taken with init_mutex held.
Critical == {"reset", "config", "write", "rewrite"}

\* User space runs: the freezer stops it for the whole of suspend and resume.
UserRuns == pc[Pm] = "resumed"

\* The sysfs group exists.
SysfsVisible == pc[Drv] \in {"bound", "init_lock", "write", "cancel_resume"}

\* mma865x_idev has been freed.
IdevFreed == pc[Drv] \in {"cancel_init", "gone"}

Goto(p, label) == pc' = [pc EXCEPT ![p] = label]

Init ==
    /\ pc = [p \in Procs |-> CASE p \in Writers -> "idle"
                               [] p = InitW     -> "queued"
                               [] p = ResumeW   -> "idle"
                               [] p = Pm        -> "resumed"
                               [] p = Drv       -> "bound"]
    /\ op = [w \in Writers |-> FALSE]
    /\ ok = [p \in Works |-> TRUE]
    /\ dataLock = NoOwner /\ initLock = NoOwner
    /\ active = FALSE /\ suspend = FALSE
    /\ timer = FALSE /\ ktime = 0
    /\ pending = FALSE /\ running = FALSE
    /\ ctrl \in BOOLEAN       \* the boot loader may have left it sampling
    /\ power = TRUE
    /\ raced = FALSE

-----------------------------------------------------------------------------
(* The I2C bus and init_mutex. *)

\* What a transfer may return: an unpowered chip never acknowledges.
Transfer(res) ==
    /\ res => power
    /\ ~res => ~power \/ I2cMayFail

\* i2c_smbus_write_byte_data on CTRL_REG1 with result res, ACTIVE set to bit.
WriteCtrl(res, bit) ==
    /\ Transfer(res)
    /\ ctrl' = IF res THEN bit ELSE ctrl

\* mutex_lock(&init_mutex), the three places it is waited for.
LockInit(p) ==
    /\ pc[p] \in {"init_lock", "relock"}
    /\ initLock = NoOwner
    /\ initLock' = p
    /\ Goto(p, CASE pc[p] = "relock"                     -> "rewrite"
                 [] pc[p] = "init_lock" /\ p \in Works   -> "reset"
                 [] pc[p] = "init_lock" /\ p \notin Works -> "write")
    /\ UNCHANGED <<op, ok, dataLock, active, suspend, timer, ktime, report, chip, raced>>

-----------------------------------------------------------------------------
(* mma865x_enable_store and mma865x_delay_store. *)

\* The call returns; its argument is no longer of interest.
StoreReturn(w) ==
    /\ Goto(w, "idle")
    /\ op' = [op EXCEPT ![w] = FALSE]

StoreBegin(w) ==
    /\ pc[w] = "idle"
    /\ SysfsVisible /\ UserRuns
    /\ \E e \in BOOLEAN : op' = [op EXCEPT ![w] = e]
    /\ Goto(w, "data_lock")
    /\ UNCHANGED <<ok, locks, active, suspend, timer, ktime, report, chip, raced>>

\* Under data_lock the flag decides whether there is anything to do.
StoreLock(w) ==
    /\ pc[w] = "data_lock"
    /\ dataLock = NoOwner
    /\ IF ~(op[w] <=> active)
       THEN dataLock' = w /\ Goto(w, "init_lock") /\ op' = op
       ELSE dataLock' = dataLock /\ StoreReturn(w)
    /\ UNCHANGED <<ok, initLock, active, suspend, timer, ktime, report, chip, raced>>

\* The read-modify-write of CTRL_REG1 and mutex_unlock(&init_mutex).
StoreWrite(w) ==
    /\ pc[w] = "write"
    /\ initLock' = NoOwner
    /\ \/ /\ WriteCtrl(TRUE, op[w])
          /\ Goto(w, "timer")
          /\ UNCHANGED <<op, dataLock>>
       \/ /\ WriteCtrl(FALSE, op[w])
          /\ StoreReturn(w)
          /\ dataLock' = NoOwner
    /\ UNCHANGED <<ok, active, suspend, timer, ktime, report, power, raced>>

\* hrtimer_start unless suspended, or hrtimer_cancel.
StoreTimer(w) ==
    /\ pc[w] = "timer"
    /\ timer' = (op[w] /\ (timer \/ ~suspend))
    /\ Goto(w, "set_flag")
    /\ UNCHANGED <<op, ok, locks, active, suspend, ktime, report, chip, raced>>

\* atomic_set(&active, ...) and mutex_unlock(&data_lock).
StoreFlag(w) ==
    /\ pc[w] = "set_flag"
    /\ active' = op[w]
    /\ dataLock' = NoOwner
    /\ StoreReturn(w)
    /\ UNCHANGED <<ok, initLock, suspend, timer, ktime, report, chip, raced>>

\* Variant: no clamp.
DelayStore_NoClamp ==
    /\ SysfsVisible /\ UserRuns
    /\ \E d \in Delays : ktime' = d
    /\ UNCHANGED <<pc, op, ok, locks, active, suspend, timer, report, chip, raced>>

\* delay_store clamps from above only; it takes no lock.
DelayStore ==
    /\ SysfsVisible /\ UserRuns
    /\ \E d \in Delays : ktime' = IF d > POLL_INTERVAL_MAX THEN POLL_INTERVAL_MAX ELSE d
    /\ UNCHANGED <<pc, op, ok, locks, active, suspend, timer, report, chip, raced>>

Store(w) == StoreLock(w) \/ LockInit(w) \/ StoreWrite(w) \/ StoreTimer(w) \/ StoreFlag(w)

-----------------------------------------------------------------------------
(* mma865x_device_init (init_work) and mma865x_resume_events (resume_work):  *)
(* the same sequence, except that only the first gives up on an error and    *)
(* only the second starts the timer.                                         *)

WorkStart(p) ==
    /\ pc[p] = "queued"
    /\ Goto(p, "init_lock")
    /\ UNCHANGED <<op, ok, locks, active, suspend, timer, ktime, report, chip, raced>>

\* Variant: init_mutex is released between the two writes.
WorkReset_Unlocks(p) ==
    /\ pc[p] = "reset"
    /\ \E res \in BOOLEAN :
        /\ WriteCtrl(res, FALSE)
        /\ ok' = [ok EXCEPT ![p] = res]
        /\ raced' = (raced \/ ~res)
    /\ initLock' = NoOwner
    /\ Goto(p, "config")
    /\ UNCHANGED <<op, dataLock, active, suspend, timer, ktime, report, power>>

\* CTRL_REG1 = 0
WorkReset(p) ==
    /\ pc[p] = "reset"
    /\ \E res \in BOOLEAN :
        /\ WriteCtrl(res, FALSE)
        /\ ok' = [ok EXCEPT ![p] = res]
        /\ raced' = (raced \/ ~res)
    /\ Goto(p, "config")
    /\ UNCHANGED <<op, locks, active, suspend, timer, ktime, report, power>>

\* Variant: the error exit leaves init_mutex locked.
WorkConfig_KeepsLock(p) ==
    /\ pc[p] = "config"
    /\ \E res \in BOOLEAN :
        /\ Transfer(res)
        /\ Goto(p, IF p = ResumeW \/ (ok[p] /\ res) THEN "sleep" ELSE "idle")
        /\ initLock' = IF ok[p] /\ res THEN NoOwner ELSE initLock
        /\ raced' = (raced \/ ~res)
    /\ ok' = [ok EXCEPT ![p] = TRUE]
    /\ UNCHANGED <<op, dataLock, active, suspend, timer, ktime, report, chip>>

\* XYZ_DATA_CFG = mode or MMA865X_DATA_REG, and mutex_unlock(&init_mutex).
WorkConfig(p) ==
    /\ pc[p] = "config"
    /\ \E res \in BOOLEAN :
        /\ Transfer(res)
        /\ Goto(p, IF p = ResumeW \/ (ok[p] /\ res) THEN "sleep" ELSE "idle")
        /\ raced' = (raced \/ ~res)
    /\ ok' = [ok EXCEPT ![p] = TRUE]
    /\ initLock' = NoOwner
    /\ UNCHANGED <<op, dataLock, active, suspend, timer, ktime, report, chip>>

\* What follows the last access to the chip.
AfterInit(p) == IF p = ResumeW THEN "start_timer" ELSE "idle"

\* A store has switched the chip to op[w] but not yet the flag.
HalfStored(bit) == \E w \in Writers : pc[w] \in {"timer", "set_flag"} /\ op[w] = bit

\* Variant: the flag is not looked at again, the chip stays in standby.
WorkCheck_Never(p) ==
    /\ pc[p] = "sleep"
    /\ Goto(p, AfterInit(p))
    /\ UNCHANGED <<op, ok, locks, active, suspend, timer, ktime, report, chip, raced>>

\* After msleep(MODE_CHANGE_DELAY_MS): the flag is read without data_lock.
WorkCheck(p) ==
    /\ pc[p] = "sleep"
    /\ Goto(p, IF active THEN "relock" ELSE AfterInit(p))
    /\ raced' = (raced \/ (~active /\ ~ctrl /\ HalfStored(TRUE)))
    /\ UNCHANGED <<op, ok, locks, active, suspend, timer, ktime, report, chip>>

\* CTRL_REG1 |= 1 and mutex_unlock(&init_mutex); the result is not looked at.
WorkRewrite(p) ==
    /\ pc[p] = "rewrite"
    /\ \E res \in BOOLEAN :
        /\ WriteCtrl(res, TRUE)
        /\ raced' = (raced \/ ~res \/ ~active \/ HalfStored(FALSE))
    /\ initLock' = NoOwner
    /\ Goto(p, AfterInit(p))
    /\ UNCHANGED <<op, ok, dataLock, active, suspend, timer, ktime, report, power>>

\* hrtimer_start whatever the flag says now.
WorkTimer(p) ==
    /\ p = ResumeW
    /\ pc[p] = "start_timer"
    /\ timer' = TRUE
    /\ Goto(p, "idle")
    /\ UNCHANGED <<op, ok, locks, active, suspend, ktime, report, chip, raced>>

Work(p) ==
    \/ WorkStart(p) \/ LockInit(p) \/ WorkReset(p) \/ WorkConfig(p)
    \/ WorkCheck(p) \/ WorkRewrite(p) \/ WorkTimer(p)

-----------------------------------------------------------------------------
(* mma865x_suspend and mma865x_resume. *)

\* The driver core suspends a bound device once user space is frozen.
SuspendBegin ==
    /\ pc[Pm] = "resumed"
    /\ pc[Drv] = "bound"
    /\ \A w \in Writers : pc[w] = "idle"
    /\ suspend' = TRUE
    /\ Goto(Pm, "flush")
    /\ UNCHANGED <<op, ok, locks, active, timer, ktime, report, chip, raced>>

\* Variant: the resume work is not flushed.
SuspendFlush_NoWait ==
    /\ pc[Pm] = "flush"
    /\ Goto(Pm, "cancel_timer")
    /\ UNCHANGED <<op, ok, locks, active, suspend, timer, ktime, report, chip, raced>>

\* flush_workqueue(mma865x_resume_wq), then XYZ_DATA_CFG is saved.
SuspendFlush ==
    /\ pc[Pm] = "flush"
    /\ pc[ResumeW] = "idle"
    /\ Goto(Pm, "cancel_timer")
    /\ UNCHANGED <<op, ok, locks, active, suspend, timer, ktime, report, chip, raced>>

SuspendCancel ==
    /\ pc[Pm] = "cancel_timer"
    /\ timer' = FALSE
    /\ Goto(Pm, "check")
    /\ UNCHANGED <<op, ok, locks, active, suspend, ktime, report, chip, raced>>

SuspendCheck ==
    /\ pc[Pm] = "check"
    /\ Goto(Pm, IF active THEN "init_lock" ELSE "power_off")
    /\ UNCHANGED <<op, ok, locks, active, suspend, timer, ktime, report, chip, raced>>

\* mma865x_device_stop, of suspend (then the regulator) and of remove.
DeviceStop(p) ==
    /\ p \in {Pm, Drv}
    /\ pc[p] = "write"
    /\ \E res \in BOOLEAN : WriteCtrl(res, FALSE)
    /\ initLock' = NoOwner
    /\ Goto(p, IF p = Pm THEN "power_off" ELSE "cancel_resume")
    /\ UNCHANGED <<op, ok, dataLock, active, suspend, timer, ktime, report, power, raced>>

\* regulator_disable: an unpowered chip loses ACTIVE.
SuspendPower ==
    /\ pc[Pm] = "power_off"
    /\ power' = ~HasLdo
    /\ ctrl' = (ctrl /\ ~HasLdo)
    /\ Goto(Pm, "suspended")
    /\ UNCHANGED <<op, ok, locks, active, suspend, timer, ktime, report, raced>>

ResumeBegin ==
    /\ pc[Pm] = "suspended"
    /\ power' = TRUE
    /\ Goto(Pm, "recheck")
    /\ UNCHANGED <<op, ok, locks, active, suspend, timer, ktime, report, ctrl, raced>>

ResumeCheck ==
    /\ pc[Pm] = "recheck"
    /\ Goto(Pm, IF active THEN "relock" ELSE "start_timer")
    /\ UNCHANGED <<op, ok, locks, active, suspend, timer, ktime, report, chip, raced>>

ResumeWrite ==
    /\ pc[Pm] = "rewrite"
    /\ \E res \in BOOLEAN : WriteCtrl(res, TRUE) /\ raced' = (raced \/ ~res)
    /\ initLock' = NoOwner
    /\ Goto(Pm, "start_timer")
    /\ UNCHANGED <<op, ok, dataLock, active, suspend, timer, ktime, report, power>>

\* Variant: the test of suspend_indator that enable_store makes.
ResumeTimer_Guarded ==
    /\ pc[Pm] = "start_timer"
    /\ timer' = (timer \/ ~suspend)
    /\ Goto(Pm, "queue_work")
    /\ UNCHANGED <<op, ok, locks, active, suspend, ktime, report, chip, raced>>

ResumeTimer ==
    /\ pc[Pm] = "start_timer"
    /\ timer' = TRUE
    /\ Goto(Pm, "queue_work")
    /\ UNCHANGED <<op, ok, locks, active, suspend, ktime, report, chip, raced>>

\* queue_work does nothing when the item is still queued.
ResumeQueue ==
    /\ pc[Pm] = "queue_work"
    /\ pc' = [pc EXCEPT ![Pm] = "clear", ![ResumeW] = "queued"]
    /\ UNCHANGED <<op, ok, locks, active, suspend, timer, ktime, report, chip, raced>>

ResumeEnd ==
    /\ pc[Pm] = "clear"
    /\ suspend' = FALSE
    /\ Goto(Pm, "resumed")
    /\ UNCHANGED <<op, ok, locks, active, timer, ktime, report, chip, raced>>

PmStep ==
    \/ SuspendFlush \/ SuspendCancel \/ SuspendCheck \/ LockInit(Pm)
    \/ DeviceStop(Pm) \/ SuspendPower \/ ResumeBegin \/ ResumeCheck
    \/ ResumeWrite \/ ResumeTimer \/ ResumeQueue \/ ResumeEnd

-----------------------------------------------------------------------------
(* my_hrtimer_callback and wq_func_hrtimer. *)

\* Variant: the callback returns HRTIMER_NORESTART.
Tick_OneShot ==
    /\ timer
    /\ pending' = TRUE /\ timer' = FALSE
    /\ UNCHANGED <<pc, op, ok, locks, active, suspend, ktime, running, chip, raced>>

\* The callback queues the report work and rearms itself.
Tick ==
    /\ timer
    /\ pending' = TRUE
    /\ UNCHANGED <<pc, op, ok, locks, active, suspend, timer, ktime, running, chip, raced>>

ReportStart ==
    /\ pending /\ ~running
    /\ pending' = FALSE /\ running' = TRUE
    /\ UNCHANGED <<pc, op, ok, locks, active, suspend, timer, ktime, chip, raced>>

ReportEnd ==
    /\ running
    /\ running' = FALSE
    /\ UNCHANGED <<pc, op, ok, locks, active, suspend, timer, ktime, pending, chip, raced>>

-----------------------------------------------------------------------------
(* mma865x_remove, and a later probe of the same static data. *)

\* Unbinding is a request of user space, and the device lock excludes suspend.
RemoveBegin ==
    /\ pc[Drv] = "bound"
    /\ UserRuns
    /\ Goto(Drv, "init_lock")
    /\ UNCHANGED <<op, ok, locks, active, suspend, timer, ktime, report, chip, raced>>

\* cancel_work_sync: dequeue it if it is queued, wait for it if it runs.
CancelWork(work, here, next) ==
    /\ pc[Drv] = here
    /\ pc[work] \in {"idle", "queued"}
    /\ pc' = [pc EXCEPT ![Drv] = next, ![work] = "idle"]
    /\ UNCHANGED <<op, ok, locks, active, suspend, timer, ktime, report, chip, raced>>

\* Variant: the stores in progress are not waited for.
RemoveSysfs_NoDrain ==
    /\ pc[Drv] = "remove_sysfs"
    /\ Goto(Drv, "cancel_timer")
    /\ UNCHANGED <<op, ok, locks, active, suspend, timer, ktime, report, chip, raced>>

\* sysfs_remove_group returns when no store is in progress any more.
RemoveSysfs ==
    /\ pc[Drv] = "remove_sysfs"
    /\ \A w \in Writers : pc[w] = "idle"
    /\ Goto(Drv, "cancel_timer")
    /\ UNCHANGED <<op, ok, locks, active, suspend, timer, ktime, report, chip, raced>>

RemoveTimer ==
    /\ pc[Drv] = "cancel_timer"
    /\ timer' = FALSE
    /\ Goto(Drv, "free")
    /\ UNCHANGED <<op, ok, locks, active, suspend, ktime, report, chip, raced>>

\* The input device goes; a queued or running report work is not waited for.
RemoveFree ==
    /\ pc[Drv] = "free"
    /\ Goto(Drv, "cancel_init")
    /\ UNCHANGED <<op, ok, locks, active, suspend, timer, ktime, report, chip, raced>>

\* Binding again: STANDBY, init_work queued, timer and report work initialised.
Probe ==
    /\ pc[Drv] = "gone"
    /\ UserRuns
    /\ ~pending /\ ~running
    /\ pc' = [pc EXCEPT ![Drv] = "bound", ![InitW] = "queued"]
    /\ active' = FALSE
    /\ timer' = FALSE
    /\ raced' = FALSE
    /\ UNCHANGED <<op, ok, locks, suspend, ktime, report, chip>>

DrvStep ==
    \/ LockInit(Drv) \/ DeviceStop(Drv)
    \/ CancelWork(ResumeW, "cancel_resume", "remove_sysfs")
    \/ RemoveSysfs \/ RemoveTimer \/ RemoveFree
    \/ CancelWork(InitW, "cancel_init", "gone")

-----------------------------------------------------------------------------
Next ==
    \/ \E w \in Writers : StoreBegin(w) \/ Store(w)
    \/ DelayStore
    \/ \E p \in Works : Work(p)
    \/ SuspendBegin \/ PmStep
    \/ Tick \/ ReportStart \/ ReportEnd
    \/ RemoveBegin \/ DrvStep \/ Probe

Spec == Init /\ [][Next]_vars

\* Every call that has begun goes on, a queued work item is run and a queued
\* timer fires; a mutex is handed to its waiters in turn, so that a waiter is
\* not overtaken for ever.  Nothing obliges user space, the PM core or the
\* driver core to begin a call.
Fairness ==
    /\ \A w \in Writers : WF_vars(Store(w)) /\ SF_vars(StoreLock(w)) /\ SF_vars(LockInit(w))
    /\ \A p \in Works : WF_vars(Work(p)) /\ SF_vars(LockInit(p))
    /\ WF_vars(PmStep) /\ SF_vars(LockInit(Pm))
    /\ WF_vars(DrvStep) /\ SF_vars(LockInit(Drv))
    /\ WF_vars(Tick) /\ WF_vars(ReportStart) /\ WF_vars(ReportEnd)

FairSpec == Spec /\ Fairness
-----------------------------------------------------------------------------
(* Properties. *)

PcOK ==
    /\ pc \in [Procs -> WriterPc \cup WorkPc \cup PmPc \cup DrvPc]
    /\ \A w \in Writers : pc[w] \in WriterPc
    /\ \A p \in Works : pc[p] \in WorkPc
    /\ pc[Pm] \in PmPc
    /\ pc[Drv] \in DrvPc

FlagsOK ==
    /\ active \in BOOLEAN /\ suspend \in BOOLEAN /\ raced \in BOOLEAN
    /\ timer \in BOOLEAN /\ pending \in BOOLEAN /\ running \in BOOLEAN
    /\ ctrl \in BOOLEAN /\ power \in BOOLEAN

\* The type invariant; delay_store keeps the period within POLL_INTERVAL_MAX.
TypeOK ==
    /\ PcOK
    /\ FlagsOK
    /\ op \in [Writers -> BOOLEAN]
    /\ ok \in [Works -> BOOLEAN]
    /\ dataLock \in Writers \cup {NoOwner}
    /\ initLock \in Procs \cup {NoOwner}
    /\ ktime \in 0..POLL_INTERVAL_MAX

\* XYZ_DATA_CFG is written only to a chip in standby, as the part requires: no
\* store, suspend or other work item sets ACTIVE between the two writes of
\* device_init and resume_events, unless the write of CTRL_REG1 failed.
ConfigInStandby ==
    \A p \in Works : pc[p] = "config" /\ ok[p] => ~ctrl

\* From the hrtimer_cancel of suspend to the hrtimer_start of resume the sampling
\* timer is off: neither a store nor a resume work item of an earlier resume
\* starts it again, although both do so without looking at suspend_indator last.
SuspendedTimerOff ==
    pc[Pm] \in {"check", "init_lock", "write", "power_off", "suspended",
               "recheck", "relock", "rewrite", "start_timer"} => ~timer

\* An enabled sensor is sampled: the flag says ACTIVED, the system is resumed, no
\* store is under way and the driver is bound, then the timer is queued.
ActivePolled ==
    /\ active
    /\ pc[Pm] = "resumed"
    /\ pc[Drv] = "bound"
    /\ dataLock = NoOwner
    => timer

\* After the removal nothing starts a report any more: both work items are idle,
\* no store is in progress and the timer is off, whatever ran when it began.
RemoveQuiesces ==
    /\ IdevFreed => ~timer /\ pc[ResumeW] = "idle"
                  /\ \A w \in Writers : pc[w] = "idle"
    /\ pc[Drv] = "gone" => pc[InitW] = "idle" /\ initLock = NoOwner

\* No call or work item is under way.
Quiescent ==
    /\ pc[Pm] = "resumed"
    /\ pc[Drv] = "bound"
    /\ \A w \in Writers : pc[w] = "idle"
    /\ \A p \in Works : pc[p] = "idle"

\* At rest the chip samples exactly when the flag says so.  The ways to lose this
\* (raced) are a work item that reads "active", which it does without data_lock,
\* while a store changes it, and a failed transfer of a work item or of resume; a
\* failed transfer of a store or of suspend leaves the two in agreement.
FlagMatchesChip == Quiescent /\ ~raced => (ctrl <=> active)

\* Every store, suspend and removal ends, whatever it contends with: a store waits for
\* two mutexes; a suspend that reached the chip for flush_workqueue and init_mutex; a
\* removal for cancel_work_sync, for the stores in sysfs_remove_group and for init_mutex.
CallsEnd ==
    /\ \A w \in Writers : pc[w] # "idle" ~> pc[w] = "idle"
    /\ suspend ~> ~suspend
    /\ (pc[Drv] # "bound") ~> (pc[Drv] \in {"bound", "gone"})

\* A sensor that stays enabled on a resumed system keeps reporting.
ReportsFlow ==
    <>[](active /\ pc[Pm] = "resumed" /\ pc[Drv] = "bound") => []<>running
=============================================================================
