--------------------------- MODULE Mma865x_proofs ---------------------------
(***************************************************************************)
(* Proofs about Mma865x for every set of writers and of delays, with and   *)
(* without a regulator, and whatever transfers fail.                       *)
(*                                                                         *)
(* None of the properties is inductive.  The strengthening IInv adds who   *)
(* holds which mutex (LockInv), what a writer in its critical section      *)
(* knows about the flag and the timer (StoreInv), and what the freezer,    *)
(* flush_workqueue and the order of the removal steps exclude (PmInv,      *)
(* DrvInv).  FInv, at the end, is about the flag and the chip.             *)
(***************************************************************************)
EXTENDS Mma865x, TLAPS

\* The steps a writer takes with data_lock held.
Holding == {"init_lock", "write", "timer", "set_flag"}

\* Suspend is past its flush, resume has not queued the work item yet.
Flushed == {"cancel_timer", "check", "init_lock", "write", "power_off", "suspended",
            "recheck", "relock", "rewrite", "start_timer", "queue_work"}

\* cancel_work_sync of the resume work is over; the group is gone; so is the timer.
AfterCancel == {"remove_sysfs", "cancel_timer", "free", "cancel_init", "gone"}
AfterSysfs  == {"cancel_timer", "free", "cancel_init", "gone"}
AfterTimer  == {"free", "cancel_init", "gone"}

\* A mutex is owned exactly by the process that is in its critical section.
LockInv ==
    /\ \A p \in Procs : initLock = p <=> pc[p] \in Critical
    /\ \A w \in Writers : dataLock = w <=> pc[w] \in Holding

\* Only the holder of data_lock changes the flag, so a store that found something
\* to do still has it to do; until it stops the timer an enabled sensor is timed.
StoreInv ==
    \A w \in Writers :
        /\ pc[w] \in Holding => (active <=> ~op[w])
        /\ pc[w] \in {"init_lock", "write", "timer"} /\ ~op[w] => timer
        /\ pc[w] = "set_flag" /\ op[w] => timer

PmInv ==
    /\ suspend <=> pc[Pm] # "resumed"
    /\ pc[Pm] # "resumed" => pc[Drv] = "bound" /\ \A w \in Writers : pc[w] = "idle"
    /\ pc[Pm] \in Flushed => pc[ResumeW] = "idle"

DrvInv ==
    /\ pc[Drv] \in AfterCancel => pc[ResumeW] = "idle"
    /\ pc[Drv] \in AfterSysfs => \A w \in Writers : pc[w] = "idle"
    /\ pc[Drv] \in AfterTimer => ~timer
    /\ pc[Drv] = "gone" => pc[InitW] = "idle"

\* The timer of an enabled sensor, whenever no store is in its critical section.
TimerInv ==
    /\ active /\ dataLock = NoOwner
    /\ pc[Pm] \in {"resumed", "flush", "cancel_timer", "queue_work", "clear"}
    /\ pc[Drv] \notin AfterTimer
    => timer

IInv ==
    /\ TypeOK
    /\ LockInv
    /\ ConfigInStandby
    /\ StoreInv
    /\ PmInv
    /\ DrvInv
    /\ SuspendedTimerOff
    /\ TimerInv

-----------------------------------------------------------------------------
USE DEF InitW, ResumeW, Pm, Drv, Works, POLL_INTERVAL_MAX

\* The processes are distinct and a free mutex has no process as its owner.
LEMMA ProcFacts ==
    /\ InitW \in Procs /\ ResumeW \in Procs /\ Pm \in Procs /\ Drv \in Procs
    /\ Works \subseteq Procs /\ Writers \subseteq Procs
    /\ NoOwner \notin Procs
    /\ InitW \notin Writers /\ ResumeW \notin Writers
    /\ Pm \notin Writers /\ Drv \notin Writers
BY ConstantsAssumption DEF Procs

\* Updating a Boolean function.
LEMMA BoolUpdate ==
    ASSUME NEW S, NEW f \in [S -> BOOLEAN], NEW x \in S, NEW b \in BOOLEAN
    PROVE  [f EXCEPT ![x] = b] \in [S -> BOOLEAN]
OBVIOUS

\* The initial states satisfy the inductive invariant.
LEMMA InitIInv == Init => IInv
<1> SUFFICES ASSUME Init PROVE IInv
  OBVIOUS
<1>1. /\ \A w \in Writers : pc[w] = "idle"
      /\ pc[InitW] = "queued" /\ pc[ResumeW] = "idle"
      /\ pc[Pm] = "resumed" /\ pc[Drv] = "bound"
      /\ pc \in [Procs -> WriterPc \cup WorkPc \cup PmPc \cup DrvPc]
  <2>1. pc \in [Procs -> {"idle", "queued", "resumed", "bound"}]
    BY ProcFacts DEF Init, Procs
  <2>2. \A w \in Writers : pc[w] = "idle"
    BY ProcFacts DEF Init
  <2>3. pc[InitW] = "queued" /\ pc[ResumeW] = "idle"
        /\ pc[Pm] = "resumed" /\ pc[Drv] = "bound"
    BY ProcFacts DEF Init
  <2>4. QED BY <2>1, <2>2, <2>3 DEF WriterPc, WorkPc, PmPc, DrvPc
<1>2. /\ op = [w \in Writers |-> FALSE]
      /\ ok = [p \in Works |-> TRUE]
      /\ dataLock = NoOwner /\ initLock = NoOwner
      /\ active = FALSE /\ suspend = FALSE /\ raced = FALSE
      /\ timer = FALSE /\ ktime = 0 /\ pending = FALSE /\ running = FALSE
      /\ ctrl \in BOOLEAN /\ power = TRUE
  BY DEF Init
<1>3. \A p \in Procs : pc[p] \notin Critical
  BY <1>1 DEF Procs, Critical
<1>4. LockInv
  BY <1>1, <1>2, <1>3, ProcFacts DEF LockInv, Holding
<1>5. TypeOK
  <2>1. /\ \A w \in Writers : pc[w] \in WriterPc
        /\ \A p \in Works : pc[p] \in WorkPc
        /\ pc[Pm] \in PmPc
        /\ pc[Drv] \in DrvPc
    BY <1>1 DEF WriterPc, WorkPc, PmPc, DrvPc
  <2>2. op \in [Writers -> BOOLEAN] /\ ok \in [Works -> BOOLEAN]
    BY <1>2
  <2>3. ktime \in 0..POLL_INTERVAL_MAX
    BY <1>2
  <2>4. QED
    BY <1>1, <1>2, <2>1, <2>2, <2>3 DEF TypeOK, PcOK, FlagsOK
<1>6. QED
  BY <1>1, <1>2, <1>4, <1>5 DEF IInv, ConfigInStandby, StoreInv, PmInv, DrvInv, Holding,
     Flushed, AfterCancel, AfterSysfs, AfterTimer, SuspendedTimerOff, TimerInv

\* A step of a writer preserves the inductive invariant.
LEMMA StoreIInv ==
    ASSUME IInv, NEW w \in Writers, StoreBegin(w) \/ Store(w)
    PROVE  IInv'
<1> USE ProcFacts DEF IInv, TypeOK, PcOK, LockInv, ConfigInStandby, StoreInv,
      PmInv, DrvInv, SuspendedTimerOff, TimerInv, Holding, Flushed, AfterCancel,
      AfterSysfs, AfterTimer, Critical, WriterPc, WorkPc, PmPc, DrvPc, locks,
      report, chip
<1>1. ASSUME StoreBegin(w) PROVE IInv'
  <2>1. FlagsOK'
    BY <1>1, Zenon DEF FlagsOK, StoreBegin, UserRuns, SysfsVisible, Goto
  <2>2. QED
    BY <1>1, <2>1 DEF StoreBegin, UserRuns, SysfsVisible, Goto
<1>2. ASSUME StoreLock(w) PROVE IInv'
  <2>1. FlagsOK'
    BY <1>2, Zenon DEF FlagsOK, StoreLock, StoreReturn, Goto
  <2>2. TypeOK'
    <3>1. PcOK'
      BY <1>2 DEF StoreLock, StoreReturn, Goto
    <3>2. op' \in [Writers -> BOOLEAN]
      <4>1. op' = op \/ op' = [op EXCEPT ![w] = FALSE]
        BY <1>2, Zenon DEF StoreLock, StoreReturn
      <4>2. op \in [Writers -> BOOLEAN]
        BY Zenon
      <4>3. [op EXCEPT ![w] = FALSE] \in [Writers -> BOOLEAN]
        BY ONLY <4>2, BoolUpdate, Zenon
      <4>4. QED
        BY ONLY <4>1, <4>2, <4>3, Zenon
    <3>3. ktime' \in 0..POLL_INTERVAL_MAX
      BY <1>2 DEF StoreLock, StoreReturn, Goto
    <3>4. QED
      BY <1>2, <2>1, <3>1, <3>2, <3>3 DEF StoreLock, StoreReturn, Goto
  <2>3. LockInv'
    BY <1>2 DEF StoreLock, StoreReturn, Goto
  <2>4. ConfigInStandby'
    BY <1>2 DEF StoreLock, StoreReturn, Goto
  <2>5. StoreInv'
    BY <1>2 DEF StoreLock, StoreReturn, Goto
  <2>6. PmInv'
    BY <1>2 DEF StoreLock, StoreReturn, Goto
  <2>7. DrvInv'
    BY <1>2 DEF StoreLock, StoreReturn, Goto
  <2>8. SuspendedTimerOff'
    BY <1>2 DEF StoreLock, StoreReturn, Goto
  <2>9. TimerInv'
    BY <1>2 DEF StoreLock, StoreReturn, Goto
  <2>10. QED
    BY <2>2, <2>3, <2>4, <2>5, <2>6, <2>7, <2>8, <2>9
<1>3. ASSUME LockInit(w) PROVE IInv'
  <2>1. FlagsOK'
    BY <1>3, Zenon DEF FlagsOK, LockInit, Goto
  <2>2. QED
    BY <1>3, <2>1 DEF LockInit, Goto
<1>4. ASSUME StoreWrite(w) PROVE IInv'
  <2>0. op[w] \in BOOLEAN
    BY Zenon
  <2>1. FlagsOK'
    <3>1. ctrl' \in BOOLEAN
      BY <1>4, <2>0, Zenon DEF FlagsOK, StoreWrite, WriteCtrl
    <3>2. QED
      BY <1>4, <3>1, Zenon DEF FlagsOK, StoreWrite
  <2>2. TypeOK'
    <3>1. PcOK'
      <4>1. \E l \in {"timer", "idle"} : pc' = [pc EXCEPT ![w] = l]
        BY <1>4, Zenon DEF StoreWrite, StoreReturn, Goto
      <4>2. QED
        BY <4>1
    <3>2. op' \in [Writers -> BOOLEAN]
      <4>1. op' = op \/ op' = [op EXCEPT ![w] = FALSE]
        BY <1>4, Zenon DEF StoreWrite, StoreReturn
      <4>2. op \in [Writers -> BOOLEAN]
        BY Zenon
      <4>3. [op EXCEPT ![w] = FALSE] \in [Writers -> BOOLEAN]
        BY ONLY <4>2, BoolUpdate, Zenon
      <4>4. QED
        BY ONLY <4>1, <4>2, <4>3, Zenon
    <3>3. dataLock' \in {dataLock, NoOwner} /\ initLock' = NoOwner /\ UNCHANGED <<ok, ktime>>
      BY <1>4, Zenon DEF StoreWrite
    <3>4. QED
      BY <2>1, <3>1, <3>2, <3>3
  <2>3. LockInv'
    BY <1>4 DEF StoreWrite, StoreReturn, Goto, WriteCtrl, Transfer
  <2>4. ConfigInStandby'
    BY <1>4 DEF StoreWrite, StoreReturn, Goto, WriteCtrl, Transfer
  <2>5. StoreInv'
    BY <1>4 DEF StoreWrite, StoreReturn, Goto, WriteCtrl, Transfer
  <2>6. PmInv'
    BY <1>4 DEF StoreWrite, StoreReturn, Goto, WriteCtrl, Transfer
  <2>7. DrvInv'
    BY <1>4 DEF StoreWrite, StoreReturn, Goto, WriteCtrl, Transfer
  <2>8. SuspendedTimerOff'
    BY <1>4 DEF StoreWrite, StoreReturn, Goto, WriteCtrl, Transfer
  <2>9. TimerInv'
    BY <1>4 DEF StoreWrite, StoreReturn, Goto, WriteCtrl, Transfer
  <2>10. QED
    BY <2>2, <2>3, <2>4, <2>5, <2>6, <2>7, <2>8, <2>9
<1>5. ASSUME StoreTimer(w) PROVE IInv'
  <2>1. FlagsOK'
    BY <1>5, Zenon DEF FlagsOK, StoreTimer, Goto
  <2>2. QED
    BY <1>5, <2>1 DEF StoreTimer, Goto
<1>6. ASSUME StoreFlag(w) PROVE IInv'
  <2>1. FlagsOK'
    BY <1>6, Zenon DEF FlagsOK, StoreFlag, StoreReturn, Goto
  <2>2. QED
    BY <1>6, <2>1 DEF StoreFlag, StoreReturn, Goto
<1>7. QED
  BY <1>1, <1>2, <1>3, <1>4, <1>5, <1>6 DEF Store

\* So does a step of either work item.
LEMMA WorkIInv ==
    ASSUME IInv, NEW p \in Works, Work(p)
    PROVE  IInv'
<1> USE ProcFacts DEF IInv, TypeOK, PcOK, LockInv, ConfigInStandby, StoreInv,
      PmInv, DrvInv, SuspendedTimerOff, TimerInv, Holding, Flushed, AfterCancel,
      AfterSysfs, AfterTimer, Critical, WriterPc, WorkPc, PmPc, DrvPc, locks,
      report, chip
<1>1. ASSUME WorkStart(p) PROVE IInv'
  <2>1. FlagsOK'
    BY <1>1, Zenon DEF FlagsOK, WorkStart, Goto
  <2>2. QED
    BY <1>1, <2>1 DEF WorkStart, Goto
<1>2. ASSUME LockInit(p) PROVE IInv'
  <2>1. FlagsOK'
    BY <1>2, Zenon DEF FlagsOK, LockInit, Goto
  <2>2. QED
    BY <1>2, <2>1 DEF LockInit, Goto
<1>3. ASSUME WorkReset(p) PROVE IInv'
  <2>1. FlagsOK'
    BY <1>3, Zenon DEF FlagsOK, WorkReset, Goto, WriteCtrl, Transfer
  <2>2. QED
    BY <1>3, <2>1 DEF WorkReset, Goto, WriteCtrl, Transfer
<1>4. ASSUME WorkConfig(p) PROVE IInv'
  <2>1. FlagsOK'
    BY <1>4, Zenon DEF FlagsOK, WorkConfig, Goto, Transfer
  <2>2. QED
    BY <1>4, <2>1 DEF WorkConfig, Goto, Transfer
<1>5. ASSUME WorkCheck(p) PROVE IInv'
  <2>1. FlagsOK'
    BY <1>5, Zenon DEF FlagsOK, WorkCheck, Goto, AfterInit, HalfStored
  <2>2. QED
    BY <1>5, <2>1 DEF WorkCheck, Goto, AfterInit, HalfStored
<1>6. ASSUME WorkRewrite(p) PROVE IInv'
  <2>1. FlagsOK'
    BY <1>6, Zenon DEF FlagsOK, WorkRewrite, Goto, AfterInit, HalfStored, WriteCtrl, Transfer
  <2>2. QED
    BY <1>6, <2>1 DEF WorkRewrite, Goto, AfterInit, HalfStored, WriteCtrl, Transfer
<1>7. ASSUME WorkTimer(p) PROVE IInv'
  <2>1. FlagsOK'
    BY <1>7, Zenon DEF FlagsOK, WorkTimer, Goto
  <2>2. QED
    BY <1>7, <2>1 DEF WorkTimer, Goto
<1>8. QED
  BY <1>1, <1>2, <1>3, <1>4, <1>5, <1>6, <1>7 DEF Work

\* So does a step of suspend or resume.
LEMMA PmIInv ==
    ASSUME IInv, SuspendBegin \/ PmStep
    PROVE  IInv'
<1> USE ProcFacts DEF IInv, TypeOK, PcOK, LockInv, ConfigInStandby, StoreInv,
      PmInv, DrvInv, SuspendedTimerOff, TimerInv, Holding, Flushed, AfterCancel,
      AfterSysfs, AfterTimer, Critical, WriterPc, WorkPc, PmPc, DrvPc, locks,
      report, chip
<1>1. ASSUME SuspendBegin PROVE IInv'
  <2>1. FlagsOK'
    BY <1>1, Zenon DEF FlagsOK, SuspendBegin, Goto
  <2>2. QED
    BY <1>1, <2>1 DEF SuspendBegin, Goto
<1>2. ASSUME SuspendFlush PROVE IInv'
  <2>1. FlagsOK'
    BY <1>2, Zenon DEF FlagsOK, SuspendFlush, Goto
  <2>2. QED
    BY <1>2, <2>1 DEF SuspendFlush, Goto
<1>3. ASSUME SuspendCancel PROVE IInv'
  <2>1. FlagsOK'
    BY <1>3, Zenon DEF FlagsOK, SuspendCancel, Goto
  <2>2. QED
    BY <1>3, <2>1 DEF SuspendCancel, Goto
<1>4. ASSUME SuspendCheck PROVE IInv'
  <2>1. FlagsOK'
    BY <1>4, Zenon DEF FlagsOK, SuspendCheck, Goto
  <2>2. QED
    BY <1>4, <2>1 DEF SuspendCheck, Goto
<1>5. ASSUME LockInit(Pm) PROVE IInv'
  <2>1. FlagsOK'
    BY <1>5, Zenon DEF FlagsOK, LockInit, Goto
  <2>2. QED
    BY <1>5, <2>1 DEF LockInit, Goto
<1>6. ASSUME DeviceStop(Pm) PROVE IInv'
  <2>1. FlagsOK'
    BY <1>6, Zenon DEF FlagsOK, DeviceStop, Goto, WriteCtrl, Transfer
  <2>2. QED
    BY <1>6, <2>1 DEF DeviceStop, Goto, WriteCtrl, Transfer
<1>7. ASSUME SuspendPower PROVE IInv'
  <2>1. FlagsOK'
    BY <1>7, Zenon DEF FlagsOK, SuspendPower, Goto
  <2>2. TypeOK'
    <3>1. PcOK'
      BY <1>7 DEF SuspendPower, Goto
    <3>2. op' \in [Writers -> BOOLEAN] /\ ok' \in [Works -> BOOLEAN]
      BY <1>7 DEF SuspendPower, Goto
    <3>3. ktime' \in 0..POLL_INTERVAL_MAX
      BY <1>7 DEF SuspendPower, Goto
    <3>4. QED
      BY <1>7, <2>1, <3>1, <3>2, <3>3 DEF SuspendPower, Goto
  <2>3. LockInv'
    BY <1>7 DEF SuspendPower, Goto
  <2>4. ConfigInStandby'
    <3>1. ctrl' => ctrl
      BY <1>7, Zenon DEF SuspendPower
    <3>2. QED
      BY <1>7, <3>1 DEF SuspendPower, Goto
  <2>5. StoreInv'
    BY <1>7 DEF SuspendPower, Goto
  <2>6. PmInv'
    BY <1>7 DEF SuspendPower, Goto
  <2>7. DrvInv'
    BY <1>7 DEF SuspendPower, Goto
  <2>8. SuspendedTimerOff'
    BY <1>7 DEF SuspendPower, Goto
  <2>9. TimerInv'
    BY <1>7 DEF SuspendPower, Goto
  <2>10. QED
    BY <2>2, <2>3, <2>4, <2>5, <2>6, <2>7, <2>8, <2>9
<1>8. ASSUME ResumeBegin PROVE IInv'
  <2>1. FlagsOK'
    BY <1>8, Zenon DEF FlagsOK, ResumeBegin, Goto
  <2>2. QED
    BY <1>8, <2>1 DEF ResumeBegin, Goto
<1>9. ASSUME ResumeCheck PROVE IInv'
  <2>1. FlagsOK'
    BY <1>9, Zenon DEF FlagsOK, ResumeCheck, Goto
  <2>2. QED
    BY <1>9, <2>1 DEF ResumeCheck, Goto
<1>10. ASSUME ResumeWrite PROVE IInv'
  <2>1. FlagsOK'
    BY <1>10, Zenon DEF FlagsOK, ResumeWrite, Goto, WriteCtrl, Transfer
  <2>2. QED
    BY <1>10, <2>1 DEF ResumeWrite, Goto, WriteCtrl, Transfer
<1>11. ASSUME ResumeTimer PROVE IInv'
  <2>1. FlagsOK'
    BY <1>11, Zenon DEF FlagsOK, ResumeTimer, Goto
  <2>2. QED
    BY <1>11, <2>1 DEF ResumeTimer, Goto
<1>12. ASSUME ResumeQueue PROVE IInv'
  <2>1. FlagsOK'
    BY <1>12, Zenon DEF FlagsOK, ResumeQueue
  <2>2. QED
    BY <1>12, <2>1 DEF ResumeQueue
<1>13. ASSUME ResumeEnd PROVE IInv'
  <2>1. FlagsOK'
    BY <1>13, Zenon DEF FlagsOK, ResumeEnd, Goto
  <2>2. QED
    BY <1>13, <2>1 DEF ResumeEnd, Goto
<1>14. QED
  BY <1>1, <1>2, <1>3, <1>4, <1>5, <1>6, <1>7, <1>8, <1>9, <1>10, <1>11, <1>12, <1>13 DEF PmStep

\* So does a step of removal, and binding again.
LEMMA DrvIInv ==
    ASSUME IInv, RemoveBegin \/ DrvStep \/ Probe
    PROVE  IInv'
<1> USE ProcFacts DEF IInv, TypeOK, PcOK, LockInv, ConfigInStandby, StoreInv,
      PmInv, DrvInv, SuspendedTimerOff, TimerInv, Holding, Flushed, AfterCancel,
      AfterSysfs, AfterTimer, Critical, WriterPc, WorkPc, PmPc, DrvPc, locks,
      report, chip
<1>1. ASSUME RemoveBegin PROVE IInv'
  <2>1. FlagsOK'
    BY <1>1, Zenon DEF FlagsOK, RemoveBegin, UserRuns, Goto
  <2>2. QED
    BY <1>1, <2>1 DEF RemoveBegin, UserRuns, Goto
<1>2. ASSUME LockInit(Drv) PROVE IInv'
  <2>1. FlagsOK'
    BY <1>2, Zenon DEF FlagsOK, LockInit, Goto
  <2>2. QED
    BY <1>2, <2>1 DEF LockInit, Goto
<1>3. ASSUME DeviceStop(Drv) PROVE IInv'
  <2>1. FlagsOK'
    BY <1>3, Zenon DEF FlagsOK, DeviceStop, Goto, WriteCtrl, Transfer
  <2>2. QED
    BY <1>3, <2>1 DEF DeviceStop, Goto, WriteCtrl, Transfer
<1>4. ASSUME CancelWork(ResumeW, "cancel_resume", "remove_sysfs") PROVE IInv'
  <2>1. FlagsOK'
    BY <1>4, Zenon DEF FlagsOK, CancelWork
  <2>2. QED
    BY <1>4, <2>1 DEF CancelWork
<1>5. ASSUME RemoveSysfs PROVE IInv'
  <2>1. FlagsOK'
    BY <1>5, Zenon DEF FlagsOK, RemoveSysfs, Goto
  <2>2. QED
    BY <1>5, <2>1 DEF RemoveSysfs, Goto
<1>6. ASSUME RemoveTimer PROVE IInv'
  <2>1. FlagsOK'
    BY <1>6, Zenon DEF FlagsOK, RemoveTimer, Goto
  <2>2. QED
    BY <1>6, <2>1 DEF RemoveTimer, Goto
<1>7. ASSUME RemoveFree PROVE IInv'
  <2>1. FlagsOK'
    BY <1>7, Zenon DEF FlagsOK, RemoveFree, Goto
  <2>2. QED
    BY <1>7, <2>1 DEF RemoveFree, Goto
<1>8. ASSUME CancelWork(InitW, "cancel_init", "gone") PROVE IInv'
  <2>1. FlagsOK'
    BY <1>8, Zenon DEF FlagsOK, CancelWork
  <2>2. QED
    BY <1>8, <2>1 DEF CancelWork
<1>9. ASSUME Probe PROVE IInv'
  <2>1. FlagsOK'
    BY <1>9, Zenon DEF FlagsOK, Probe, UserRuns
  <2>2. QED
    BY <1>9, <2>1 DEF Probe, UserRuns
<1>10. QED
  BY <1>1, <1>2, <1>3, <1>4, <1>5, <1>6, <1>7, <1>8, <1>9 DEF DrvStep

\* So do the timer, the report work and delay_store.
LEMMA ReportIInv ==
    ASSUME IInv, DelayStore \/ Tick \/ ReportStart \/ ReportEnd
    PROVE  IInv'
<1> USE ProcFacts DEF IInv, TypeOK, PcOK, LockInv, ConfigInStandby, StoreInv,
      PmInv, DrvInv, SuspendedTimerOff, TimerInv, Holding, Flushed, AfterCancel,
      AfterSysfs, AfterTimer, Critical, WriterPc, WorkPc, PmPc, DrvPc, locks,
      report, chip
<1>1. ASSUME DelayStore PROVE IInv'
  <2>1. FlagsOK'
    BY <1>1, Zenon DEF FlagsOK, DelayStore
  <2>2. TypeOK'
    <3>1. PcOK'
      BY <1>1 DEF DelayStore
    <3>2. op' \in [Writers -> BOOLEAN] /\ ok' \in [Works -> BOOLEAN]
      BY <1>1 DEF DelayStore
    <3>3. ktime' \in 0..POLL_INTERVAL_MAX
      BY <1>1, ConstantsAssumption DEF DelayStore
    <3>4. QED
      BY <1>1, <2>1, <3>1, <3>2, <3>3 DEF DelayStore
  <2>3. LockInv'
    BY <1>1 DEF DelayStore
  <2>4. ConfigInStandby'
    BY <1>1 DEF DelayStore
  <2>5. StoreInv'
    BY <1>1 DEF DelayStore
  <2>6. PmInv'
    BY <1>1 DEF DelayStore
  <2>7. DrvInv'
    BY <1>1 DEF DelayStore
  <2>8. SuspendedTimerOff'
    BY <1>1 DEF DelayStore
  <2>9. TimerInv'
    BY <1>1 DEF DelayStore
  <2>10. QED
    BY <2>2, <2>3, <2>4, <2>5, <2>6, <2>7, <2>8, <2>9
<1>2. ASSUME Tick PROVE IInv'
  <2>1. FlagsOK'
    BY <1>2, Zenon DEF FlagsOK, Tick
  <2>2. QED
    BY <1>2, <2>1 DEF Tick
<1>3. ASSUME ReportStart PROVE IInv'
  <2>1. FlagsOK'
    BY <1>3, Zenon DEF FlagsOK, ReportStart
  <2>2. QED
    BY <1>3, <2>1 DEF ReportStart
<1>4. ASSUME ReportEnd PROVE IInv'
  <2>1. FlagsOK'
    BY <1>4, Zenon DEF FlagsOK, ReportEnd
  <2>2. QED
    BY <1>4, <2>1 DEF ReportEnd
<1>5. QED
  BY <1>1, <1>2, <1>3, <1>4

\* Every step preserves the inductive invariant.
LEMMA NextIInv == IInv /\ [Next]_vars => IInv'
<1> SUFFICES ASSUME IInv, [Next]_vars PROVE IInv'
  OBVIOUS
<1>1. CASE UNCHANGED vars
  BY <1>1 DEF vars, locks, report, chip, IInv, TypeOK, PcOK, FlagsOK, LockInv, ConfigInStandby,
     StoreInv, PmInv, DrvInv, SuspendedTimerOff, TimerInv
<1>2. CASE Next
  BY <1>2, StoreIInv, WorkIInv, PmIInv, DrvIInv, ReportIInv DEF Next
<1>3. QED
  BY <1>1, <1>2

\* The inductive invariant holds in every reachable state.
THEOREM Safety == Spec => []IInv
BY InitIInv, NextIInv, PTL DEF Spec

\* Type correctness.
THEOREM TypeCorrect == Spec => []TypeOK
<1>1. IInv => TypeOK
  BY DEF IInv
<1>2. QED
  BY <1>1, Safety, PTL

\* device_init and resume_events write XYZ_DATA_CFG to a chip in standby only.
THEOREM ConfigSafe == Spec => []ConfigInStandby
<1>1. IInv => ConfigInStandby
  BY DEF IInv
<1>2. QED
  BY <1>1, Safety, PTL

\* No store and no work item starts the sampling timer of a suspended system.
THEOREM SuspendSafe == Spec => []SuspendedTimerOff
<1>1. IInv => SuspendedTimerOff
  BY DEF IInv
<1>2. QED
  BY <1>1, Safety, PTL

\* An enabled sensor of a bound driver on a resumed system is timed.
THEOREM PolledWhenActive == Spec => []ActivePolled
<1>1. IInv => ActivePolled
  BY DEF IInv, TimerInv, ActivePolled, AfterTimer
<1>2. QED
  BY <1>1, Safety, PTL

\* Once the input device is freed only the init work is left to end, and
\* nothing can start a report or take init_mutex when the removal returns.
THEOREM RemovalSafe == Spec => []RemoveQuiesces
<1>1. IInv => RemoveQuiesces
  <2> SUFFICES ASSUME IInv PROVE RemoveQuiesces
    OBVIOUS
  <2>1. IdevFreed => ~timer /\ pc[ResumeW] = "idle" /\ \A w \in Writers : pc[w] = "idle"
    BY DEF IInv, DrvInv, IdevFreed, AfterTimer, AfterSysfs, AfterCancel
  <2>2. ASSUME pc[Drv] = "gone" PROVE pc[InitW] = "idle" /\ initLock = NoOwner
    <3>1. /\ pc[InitW] = "idle" /\ pc[ResumeW] = "idle" /\ pc[Pm] = "resumed"
          /\ \A w \in Writers : pc[w] = "idle"
      BY <2>2 DEF IInv, DrvInv, PmInv, AfterSysfs, AfterCancel
    <3>2. \A p \in Procs : pc[p] \notin Critical
      BY <2>2, <3>1 DEF Procs, Critical
    <3>3. QED
      BY <3>1, <3>2 DEF IInv, TypeOK, LockInv
  <2>3. QED
    BY <2>1, <2>2 DEF RemoveQuiesces
<1>2. QED
  BY <1>1, Safety, PTL

-----------------------------------------------------------------------------
(* Flag and chip.  A difference between them has a cause that is still at  *)
(* work, or it is the race that "raced" records.                           *)

\* A store has switched the chip but not the flag.
Half    == {"timer", "set_flag"}
HalfOn  == \E w \in Writers : pc[w] \in Half /\ op[w]
HalfOff == \E w \in Writers : pc[w] \in Half /\ ~op[w]

\* The init work has not yet reset the chip ...
Boot == {"queued", "init_lock", "reset"}
\* ... and a work item has, and has still to look at the flag or to act on it.
Resetting    == {"config", "sleep", "relock", "rewrite"}
SomeResetting == \E p \in Works : pc[p] \in Resetting

\* Suspend has stopped the chip, resume has not started it again.
Stopped == {"power_off", "suspended", "recheck", "relock", "rewrite"}

Agree ==
    ~raced /\ pc[Drv] = "bound" =>
        /\ ctrl /\ ~active  => HalfOn \/ pc[InitW] \in Boot
        /\ active /\ ~ctrl  => HalfOff \/ SomeResetting \/ pc[Pm] \in Stopped
        /\ HalfOn /\ ~ctrl  => SomeResetting
        /\ HalfOff /\ ctrl  => pc[InitW] \in Boot

Known ==
    /\ ~raced => \A p \in Works : pc[p] = "config" => ok[p]
    /\ pc[Pm] \in {"relock", "rewrite"} => active

FInv == Agree /\ Known

LEMMA HalfStoredFacts ==
    ASSUME IInv
    PROVE  (HalfStored(TRUE) <=> HalfOn) /\ (HalfStored(FALSE) <=> HalfOff)
<1>1. \A w \in Writers : op[w] \in BOOLEAN
  BY DEF IInv, TypeOK
<1>2. \A w \in Writers : (op[w] = TRUE <=> op[w]) /\ (op[w] = FALSE <=> ~op[w])
  BY ONLY <1>1, Zenon
<1>3. QED
  BY ONLY <1>2, Zenon DEF HalfStored, HalfOn, HalfOff, Half

\* A step that leaves flag and chip alone, and the causes of a difference.
LEMMA FrameFInv ==
    ASSUME IInv, FInv, NEW p \in Procs, NEW l, pc' = [pc EXCEPT ![p] = l],
           ctrl' <=> ctrl, active' <=> active, ~raced' => ~raced,
           \A x \in Writers : pc'[x] \in Half => pc[x] \in Half /\ (op'[x] <=> op[x]),
           p \in Writers /\ pc[p] \in Half => l \in Half,
           p \in Works => /\ pc[p] \in Boot => l \in Boot
                          /\ pc[p] \in Resetting => l \in Resetting
                          /\ l # "config",
           UNCHANGED ok,
           p = Pm => /\ pc[p] \in Stopped => l \in Stopped
                     /\ l \in {"relock", "rewrite"} => active,
           p = Drv => l # "bound"
    PROVE  FInv'
<1> USE ProcFacts
<1>1. \A x \in Procs : pc'[x] = IF x = p THEN l ELSE pc[x]
  BY DEF IInv, TypeOK, PcOK
<1>2. (HalfOn' <=> HalfOn) /\ (HalfOff' <=> HalfOff)
  BY <1>1 DEF HalfOn, HalfOff
<1>3. SomeResetting => SomeResetting'
  BY <1>1 DEF SomeResetting
<1>4. pc[InitW] \in Boot => pc'[InitW] \in Boot
  BY <1>1
<1>5. pc[Pm] \in Stopped => pc'[Pm] \in Stopped
  BY <1>1
<1>6. pc'[Drv] = "bound" => pc[Drv] = "bound"
  BY <1>1
<1>7. Agree'
  BY <1>2, <1>3, <1>4, <1>5, <1>6 DEF FInv, Agree
<1>8. Known'
  BY <1>1 DEF FInv, Known
<1>9. QED
  BY <1>7, <1>8 DEF FInv

\* The steps that neither write the chip nor the flag nor look at one of them.
LEMMA QuietFInv ==
    ASSUME IInv, FInv,
           \/ \E w \in Writers : StoreBegin(w) \/ StoreLock(w) \/ StoreTimer(w)
           \/ \E p \in Procs : LockInit(p)
           \/ \E p \in Works : WorkStart(p) \/ WorkTimer(p)
           \/ SuspendBegin \/ SuspendFlush \/ SuspendCancel \/ SuspendCheck
           \/ ResumeBegin \/ ResumeCheck \/ ResumeTimer \/ ResumeEnd
           \/ RemoveBegin \/ RemoveSysfs \/ RemoveTimer \/ RemoveFree
    PROVE  FInv'
<1> USE ProcFacts DEF Half, Boot, Resetting, Stopped, chip
<1>0. pc \in [Procs -> WriterPc \cup WorkPc \cup PmPc \cup DrvPc] /\ op \in [Writers -> BOOLEAN]
  BY DEF IInv, TypeOK, PcOK
<1>1. ASSUME NEW w \in Writers, StoreBegin(w) \/ StoreLock(w) PROVE FInv'
  <2>1. PICK l \in {"idle", "data_lock", "init_lock"} : pc' = [pc EXCEPT ![w] = l]
    BY <1>1, Zenon DEF StoreBegin, StoreLock, StoreReturn, Goto
  <2>2. pc[w] \in {"idle", "data_lock"}
    BY <1>1 DEF StoreBegin, StoreLock
  <2>3. \E b : op' = [op EXCEPT ![w] = b] \/ op' = op
    BY <1>1, Zenon DEF StoreBegin, StoreLock, StoreReturn
  <2>4. UNCHANGED <<ctrl, active, raced, ok>>
    BY <1>1 DEF StoreBegin, StoreLock
  <2>5. \A x \in Writers : x # w => op'[x] = op[x]
    BY <1>0, <2>3
  <2>6. w \in Procs
    OBVIOUS
  <2>7. \A x \in Writers : pc'[x] \in Half => pc[x] \in Half /\ (op'[x] <=> op[x])
    BY <1>0, <2>1, <2>5
  <2>8. QED
    BY <2>1, <2>2, <2>4, <2>6, <2>7, FrameFInv
<1>2. ASSUME NEW w \in Writers, StoreTimer(w) PROVE FInv'
  <2>1. pc' = [pc EXCEPT ![w] = "set_flag"] /\ pc[w] = "timer" /\ UNCHANGED <<op, ctrl, active, raced, ok>>
    BY <1>2 DEF StoreTimer, Goto
  <2>2. \A x \in Writers : pc'[x] \in Half => pc[x] \in Half /\ (op'[x] <=> op[x])
    BY <1>0, <2>1
  <2>3. w \in Procs
    OBVIOUS
  <2>4. QED
    BY <2>1, <2>2, <2>3, FrameFInv
<1>3. ASSUME NEW p \in Procs, LockInit(p) PROVE FInv'
  <2>1. PICK l \in {"rewrite", "reset", "write"} :
          /\ pc' = [pc EXCEPT ![p] = l]
          /\ \/ pc[p] = "relock" /\ l = "rewrite"
             \/ pc[p] = "init_lock" /\ l \in {"reset", "write"}
          /\ pc[p] = "init_lock" /\ p \in Works => l = "reset"
    <3>1. pc[p] \in {"init_lock", "relock"}
      BY <1>3 DEF LockInit
    <3>2. pc' = [pc EXCEPT ![p] = CASE pc[p] = "relock"                     -> "rewrite"
                                    [] pc[p] = "init_lock" /\ p \in Works   -> "reset"
                                    [] pc[p] = "init_lock" /\ p \notin Works -> "write"]
      BY <1>3, Zenon DEF LockInit, Goto
    <3>3. \/ pc[p] = "relock" /\ pc' = [pc EXCEPT ![p] = "rewrite"]
          \/ pc[p] = "init_lock" /\ p \in Works /\ pc' = [pc EXCEPT ![p] = "reset"]
          \/ pc[p] = "init_lock" /\ p \notin Works /\ pc' = [pc EXCEPT ![p] = "write"]
      BY ONLY <3>1, <3>2
    <3>4. QED
      BY ONLY <3>3, Zenon
  <2>2. UNCHANGED <<op, ctrl, active, raced, ok>>
    BY <1>3 DEF LockInit
  <2>3. \A x \in Writers : pc'[x] \in Half => pc[x] \in Half /\ (op'[x] <=> op[x])
    BY <1>0, <2>1, <2>2
  <2>4. p = Pm /\ l \in {"relock", "rewrite"} => active
    BY <2>1 DEF FInv, Known
  <2>5. p = Pm /\ pc[p] \in Stopped => l \in Stopped
    BY <2>1
  <2>6. p \in Writers => pc[p] \notin Half
    BY <2>1
  <2>7. QED
    BY <2>1, <2>2, <2>3, <2>4, <2>5, <2>6, FrameFInv
<1>4. ASSUME NEW p \in Works, WorkStart(p) \/ WorkTimer(p) PROVE FInv'
  <2>1. \E l \in {"init_lock", "idle"} :
          /\ pc' = [pc EXCEPT ![p] = l]
          /\ \/ pc[p] = "queued" /\ l = "init_lock"
             \/ pc[p] = "start_timer" /\ l = "idle"
    <3>1. \/ pc[p] = "queued" /\ pc' = [pc EXCEPT ![p] = "init_lock"]
          \/ pc[p] = "start_timer" /\ pc' = [pc EXCEPT ![p] = "idle"]
      BY <1>4, Zenon DEF WorkStart, WorkTimer, Goto
    <3>2. QED
      BY ONLY <3>1, Zenon
  <2>2. UNCHANGED <<op, ctrl, active, raced, ok>>
    BY <1>4 DEF WorkStart, WorkTimer
  <2>3. \A x \in Writers : pc'[x] \in Half => pc[x] \in Half /\ (op'[x] <=> op[x])
    BY <1>0, <2>1, <2>2
  <2>4. QED
    BY <2>1, <2>2, <2>3, FrameFInv
<1>5. ASSUME \/ SuspendBegin \/ SuspendFlush \/ SuspendCancel \/ SuspendCheck
             \/ ResumeBegin \/ ResumeCheck \/ ResumeTimer \/ ResumeEnd
      PROVE  FInv'
  <2>1. PICK l \in PmPc : /\ pc' = [pc EXCEPT ![Pm] = l]
                          /\ pc[Pm] \in Stopped => l \in Stopped \/ ~active
                          /\ l \in {"relock", "rewrite"} => active
    <3>1. \/ pc[Pm] = "check" /\ \E l \in {"init_lock", "power_off"} : pc' = [pc EXCEPT ![Pm] = l]
          \/ pc[Pm] = "suspended" /\ pc' = [pc EXCEPT ![Pm] = "recheck"]
          \/ pc[Pm] = "recheck" /\ active /\ pc' = [pc EXCEPT ![Pm] = "relock"]
          \/ pc[Pm] = "recheck" /\ ~active /\ pc' = [pc EXCEPT ![Pm] = "start_timer"]
          \/ /\ pc[Pm] \in {"resumed", "flush", "cancel_timer", "start_timer", "clear"}
             /\ \E l \in {"flush", "cancel_timer", "check", "queue_work", "resumed"} :
                    pc' = [pc EXCEPT ![Pm] = l]
      BY <1>5, Zenon DEF SuspendBegin, SuspendFlush, SuspendCancel, SuspendCheck,
         ResumeBegin, ResumeCheck, ResumeTimer, ResumeEnd, Goto
    <3>2. \E l \in {"flush", "cancel_timer", "check", "queue_work", "resumed", "init_lock",
                    "power_off", "recheck", "relock", "start_timer"} :
             /\ pc' = [pc EXCEPT ![Pm] = l]
             /\ \/ pc[Pm] \in Stopped /\ l \in Stopped
                \/ pc[Pm] = "recheck" /\ ~active
                \/ pc[Pm] \in {"resumed", "flush", "cancel_timer", "start_timer", "clear", "check"}
             /\ l \in {"relock", "rewrite"} => active
      BY ONLY <3>1, Zenon DEF Stopped
    <3>3. QED
      BY <3>2 DEF PmPc
  <2>2. UNCHANGED <<op, ctrl, active, raced, ok>>
    BY <1>5 DEF SuspendBegin, SuspendFlush, SuspendCancel, SuspendCheck,
         ResumeBegin, ResumeCheck, ResumeTimer, ResumeEnd
  <2>3. \A x \in Writers : pc'[x] \in Half => pc[x] \in Half /\ (op'[x] <=> op[x])
    BY <1>0, <2>1, <2>2
  <2>4. CASE pc[Pm] \in Stopped => l \in Stopped
    BY <2>1, <2>2, <2>3, <2>4, FrameFInv
  <2>5. CASE ~active
    <3>1. \A x \in Procs : x # Pm => pc'[x] = pc[x]
      BY <1>0, <2>1
    <3>2. (HalfOn' <=> HalfOn) /\ (HalfOff' <=> HalfOff)
      BY <2>2, <3>1 DEF HalfOn, HalfOff
    <3>3. SomeResetting <=> SomeResetting'
      BY <3>1 DEF SomeResetting
    <3>4. pc'[InitW] = pc[InitW] /\ pc'[Drv] = pc[Drv]
      BY <3>1
    <3>5. Agree'
      BY <2>2, <2>5, <3>2, <3>3, <3>4 DEF FInv, Agree
    <3>6. Known'
      BY <1>0, <2>1, <2>2, <3>1 DEF FInv, Known
    <3>7. QED
      BY <3>5, <3>6 DEF FInv
  <2>6. QED
    BY <2>1, <2>4, <2>5
<1>6. ASSUME RemoveBegin \/ RemoveSysfs \/ RemoveTimer \/ RemoveFree PROVE FInv'
  <2>1. \E l \in DrvPc \ {"bound"} : pc' = [pc EXCEPT ![Drv] = l]
    BY <1>6 DEF RemoveBegin, RemoveSysfs, RemoveTimer, RemoveFree, Goto, DrvPc
  <2>2. UNCHANGED <<op, ctrl, active, raced, ok>>
    BY <1>6 DEF RemoveBegin, RemoveSysfs, RemoveTimer, RemoveFree
  <2>3. \A x \in Writers : pc'[x] \in Half => pc[x] \in Half /\ (op'[x] <=> op[x])
    BY <1>0, <2>1, <2>2
  <2>4. QED
    BY <2>1, <2>2, <2>3, FrameFInv
<1>7. QED
  BY <1>1, <1>2, <1>3, <1>4, <1>5, <1>6

\* The store that holds data_lock is the only one that has switched the chip.
LEMMA OneStore ==
    ASSUME IInv, NEW w \in Writers, NEW x \in Writers, pc[w] \in Holding, pc[x] \in Half
    PROVE  x = w
  BY DEF IInv, LockInv, Holding, Half

\* A store switches the chip, and then the flag.
LEMMA StoreFInv ==
    ASSUME IInv, FInv, NEW w \in Writers, StoreWrite(w) \/ StoreFlag(w)
    PROVE  FInv'
<1> USE ProcFacts
<1>0. /\ pc \in [Procs -> WriterPc \cup WorkPc \cup PmPc \cup DrvPc]
      /\ op \in [Writers -> BOOLEAN] /\ op[w] \in BOOLEAN
  BY DEF IInv, TypeOK, PcOK
<1>1. ASSUME NEW l, pc' = [pc EXCEPT ![w] = l]
      PROVE  /\ pc'[w] = l /\ \A x \in Procs : x # w => pc'[x] = pc[x]
             /\ pc'[InitW] = pc[InitW] /\ pc'[Pm] = pc[Pm] /\ pc'[Drv] = pc[Drv]
             /\ SomeResetting' <=> SomeResetting
  BY <1>0, <1>1 DEF SomeResetting
<1>2. CASE StoreWrite(w)
  <2>1. pc[w] = "write" /\ UNCHANGED <<active, raced, ok>>
    BY <1>2 DEF StoreWrite
  <2>2. \/ pc' = [pc EXCEPT ![w] = "timer"] /\ op' = op /\ ctrl' = op[w]
        \/ pc' = [pc EXCEPT ![w] = "idle"] /\ op' = [op EXCEPT ![w] = FALSE] /\ ctrl' = ctrl
    BY <1>2, Zenon DEF StoreWrite, WriteCtrl, StoreReturn, Goto
  <2>3. \A x \in Writers : pc[x] \notin Half
    BY <2>1, OneStore DEF Holding, Half
  <2>4. ~HalfOn /\ ~HalfOff
    BY <2>3 DEF HalfOn, HalfOff
  <2>5. CASE pc' = [pc EXCEPT ![w] = "timer"] /\ op' = op /\ ctrl' = op[w]
    <3>1. ctrl' <=> op[w]
      BY ONLY <2>5, Zenon
    <3>2. /\ HalfOn' <=> op[w]
          /\ HalfOff' <=> ~op[w]
      BY <1>0, <1>1, <2>3, <2>5 DEF HalfOn, HalfOff, Half
    <3>3. active <=> ~op[w]
      BY <2>1 DEF IInv, StoreInv, Holding
    <3>4. Agree'
      BY <2>1, <3>1, <3>2, <3>3 DEF Agree
    <3>5. Known'
      BY <1>1, <2>1, <2>5 DEF FInv, Known
    <3>6. QED
      BY <3>4, <3>5 DEF FInv
  <2>6. CASE pc' = [pc EXCEPT ![w] = "idle"] /\ op' = [op EXCEPT ![w] = FALSE] /\ ctrl' = ctrl
    <3>1. ~HalfOn' /\ ~HalfOff'
      BY <1>0, <1>1, <2>3, <2>6 DEF HalfOn, HalfOff, Half
    <3>2. ctrl' <=> ctrl
      BY ONLY <2>6, Zenon
    <3>3. Agree'
      BY <1>1, <2>1, <2>4, <2>6, <3>1, <3>2 DEF FInv, Agree
    <3>4. Known'
      BY <1>1, <2>1, <2>6 DEF FInv, Known
    <3>5. QED
      BY <3>3, <3>4 DEF FInv
  <2>7. QED
    BY ONLY <2>2, <2>5, <2>6
<1>3. CASE StoreFlag(w)
  <2>1. pc[w] = "set_flag" /\ pc' = [pc EXCEPT ![w] = "idle"] /\ UNCHANGED <<ctrl, raced, ok>>
    BY <1>3, Zenon DEF StoreFlag, StoreReturn, Goto, chip
  <2>2. active' <=> op[w]
    BY <1>3, Zenon DEF StoreFlag
  <2>3. \A x \in Writers : pc[x] \in Half => x = w
    BY <2>1, OneStore DEF Holding
  <2>4. /\ HalfOn <=> op[w]
        /\ HalfOff <=> ~op[w]
    BY <2>1, <2>3 DEF HalfOn, HalfOff, Half
  <2>5. Agree'
    <3>1. ~HalfOn' /\ ~HalfOff'
      BY <1>1, <2>1, <2>3 DEF HalfOn, HalfOff, Half
    <3>2. QED
      BY <1>1, <2>1, <2>2, <2>4, <3>1 DEF FInv, Agree
  <2>6. pc[Pm] = "resumed"
    BY <2>1 DEF IInv, PmInv
  <2>7. Known'
    BY <1>1, <2>1, <2>6 DEF FInv, Known
  <2>8. QED
    BY <2>5, <2>7 DEF FInv
<1>4. QED
  BY <1>2, <1>3

\* A work item resets the chip, and switches it on again when the flag says so.
LEMMA WorkFInv ==
    ASSUME IInv, FInv, NEW p \in Works,
           WorkReset(p) \/ WorkConfig(p) \/ WorkCheck(p) \/ WorkRewrite(p)
    PROVE  FInv'
<1> USE ProcFacts DEF Resetting
<1>0. /\ pc \in [Procs -> WriterPc \cup WorkPc \cup PmPc \cup DrvPc]
      /\ ok \in [Works -> BOOLEAN]
  BY DEF IInv, TypeOK, PcOK
<1>1. ASSUME NEW l, pc' = [pc EXCEPT ![p] = l], UNCHANGED op
      PROVE  /\ pc'[p] = l /\ \A x \in Procs : x # p => pc'[x] = pc[x]
             /\ pc'[Pm] = pc[Pm] /\ pc'[Drv] = pc[Drv]
             /\ (HalfOn' <=> HalfOn) /\ (HalfOff' <=> HalfOff)
             /\ l \in Resetting => SomeResetting'
             /\ p # InitW => pc'[InitW] = pc[InitW]
  BY <1>0, <1>1 DEF SomeResetting, HalfOn, HalfOff
<1>2. CASE WorkReset(p)
  <2>1. pc[p] = "reset" /\ pc' = [pc EXCEPT ![p] = "config"] /\ UNCHANGED <<active, op>>
    BY <1>2 DEF WorkReset, Goto
  <2>2. PICK res \in BOOLEAN : /\ ctrl' = IF res THEN FALSE ELSE ctrl
                               /\ ok' = [ok EXCEPT ![p] = res]
                               /\ raced' = (raced \/ ~res)
    BY <1>2, Zenon DEF WorkReset, WriteCtrl
  <2>3. ~raced' => ~raced /\ res
    BY ONLY <2>2, Zenon
  <2>4. res => ~ctrl'
    BY ONLY <2>2, Zenon
  <2>5. Agree'
    BY <1>1, <2>1, <2>3, <2>4 DEF Agree
  <2>6. ~raced' => ok'[p] /\ \A x \in Works : x # p => ok'[x] = ok[x]
    BY <1>0, <2>2, <2>3
  <2>7. Known'
    BY <1>1, <2>1, <2>3, <2>6 DEF FInv, Known
  <2>8. QED
    BY <2>5, <2>7 DEF FInv
<1>3. CASE WorkConfig(p)
  <2>1. pc[p] = "config" /\ UNCHANGED <<ctrl, active, op>>
    BY <1>3 DEF WorkConfig, chip
  <2>2. PICK res \in BOOLEAN :
          /\ pc' = [pc EXCEPT ![p] = IF p = ResumeW \/ (ok[p] /\ res) THEN "sleep" ELSE "idle"]
          /\ raced' = (raced \/ ~res)
    BY <1>3, Zenon DEF WorkConfig, Goto
  <2>3. ~raced' => ~raced /\ res
    BY ONLY <2>2, Zenon
  <2>4. ok' = [ok EXCEPT ![p] = TRUE]
    BY <1>3 DEF WorkConfig
  <2>5. ~raced' => ok[p]
    BY <2>1, <2>3 DEF FInv, Known
  <2>6. ~raced' => pc' = [pc EXCEPT ![p] = "sleep"]
    BY <2>2, <2>3, <2>5
  <2>7. Agree'
    <3>1. SUFFICES ASSUME ~raced' PROVE Agree'
      BY DEF Agree
    <3>2. pc' = [pc EXCEPT ![p] = "sleep"] /\ ~raced
      BY <2>3, <2>6, <3>1
    <3>3. pc'[InitW] = pc[InitW] \/ pc[InitW] = "config"
      BY <1>0, <2>1, <3>2
    <3>4. QED
      BY <1>1, <2>1, <3>2, <3>3 DEF FInv, Agree, Boot
  <2>8. Known'
    <3>1. pc'[Pm] = pc[Pm]
      BY <1>0, <2>2
    <3>2. ASSUME ~raced', NEW x \in Works, pc'[x] = "config" PROVE ok'[x]
      <4>1. x # p
        BY <1>0, <2>6, <3>2
      <4>2. pc'[x] = pc[x] /\ ok'[x] = ok[x]
        BY <1>0, <2>2, <2>4, <4>1
      <4>3. QED
        BY <2>3, <3>2, <4>2 DEF FInv, Known
    <3>3. QED
      BY <2>1, <3>1, <3>2 DEF FInv, Known
  <2>9. QED
    BY <2>7, <2>8 DEF FInv
<1>4. CASE WorkCheck(p)
  <2>1. pc[p] = "sleep" /\ UNCHANGED <<ctrl, active, op, ok>>
    BY <1>4 DEF WorkCheck, chip
  <2>2. PICK l \in {"relock", "start_timer", "idle"} :
          pc' = [pc EXCEPT ![p] = l] /\ (active => l = "relock")
    BY <1>4, Zenon DEF WorkCheck, Goto, AfterInit
  <2>3. raced' = (raced \/ (~active /\ ~ctrl /\ HalfStored(TRUE)))
    BY <1>4 DEF WorkCheck
  <2>4. ~raced' => ~raced /\ (active \/ ctrl \/ ~HalfOn)
    BY ONLY <2>3, HalfStoredFacts, Zenon, IInv
  <2>5. pc[InitW] \in Boot => pc'[InitW] \in Boot
    BY <1>1, <2>1, <2>2 DEF Boot
  <2>6. Agree'
    BY <1>1, <2>1, <2>2, <2>4, <2>5 DEF FInv, Agree
  <2>7. Known'
    BY <1>1, <2>1, <2>2, <2>4 DEF FInv, Known
  <2>8. QED
    BY <2>6, <2>7 DEF FInv
<1>5. CASE WorkRewrite(p)
  <2>1. pc[p] = "rewrite" /\ UNCHANGED <<active, op, ok>>
    BY <1>5 DEF WorkRewrite
  <2>2. PICK l \in {"start_timer", "idle"} : pc' = [pc EXCEPT ![p] = l]
    BY <1>5, Zenon DEF WorkRewrite, Goto, AfterInit
  <2>3. PICK res \in BOOLEAN : /\ ctrl' = IF res THEN TRUE ELSE ctrl
                               /\ raced' = (raced \/ ~res \/ ~active \/ HalfStored(FALSE))
    BY <1>5, Zenon DEF WorkRewrite, WriteCtrl
  <2>4. ~raced' => ~raced /\ ctrl' /\ active /\ ~HalfOff
    BY ONLY <2>3, HalfStoredFacts, Zenon, IInv
  <2>5. Agree'
    BY <1>1, <2>1, <2>2, <2>4 DEF Agree
  <2>6. Known'
    BY <1>1, <2>1, <2>2, <2>4 DEF FInv, Known
  <2>7. QED
    BY <2>5, <2>6 DEF FInv
<1>6. QED
  BY <1>2, <1>3, <1>4, <1>5

\* Suspend and resume, the removal and a new probe.
LEMMA PmFInv ==
    ASSUME IInv, FInv, DeviceStop(Pm) \/ SuspendPower \/ ResumeWrite \/ ResumeQueue
    PROVE  FInv'
<1> USE ProcFacts
<1>0. /\ pc \in [Procs -> WriterPc \cup WorkPc \cup PmPc \cup DrvPc]
      /\ pc[Pm] # "resumed"
  BY DEF IInv, TypeOK, PcOK, DeviceStop, SuspendPower, ResumeWrite, ResumeQueue
<1>1. \A w \in Writers : pc[w] = "idle"
  BY <1>0 DEF IInv, PmInv
<1>2. UNCHANGED <<op, ok, active>> /\ (~raced' => ~raced)
  <2>1. UNCHANGED <<op, ok, active>>
    BY DEF DeviceStop, SuspendPower, ResumeWrite, ResumeQueue
  <2>2. raced' = raced \/ \E res \in BOOLEAN : raced' = (raced \/ ~res)
    BY Zenon DEF DeviceStop, SuspendPower, ResumeWrite, ResumeQueue
  <2>3. ~raced' => ~raced
    BY ONLY <2>2, Zenon
  <2>4. QED
    BY <2>1, <2>3
<1>3. ASSUME NEW l, pc' = [pc EXCEPT ![Pm] = l]
      PROVE  /\ pc'[Pm] = l /\ \A x \in Procs : x # Pm => pc'[x] = pc[x]
             /\ pc'[InitW] = pc[InitW] /\ pc'[Drv] = pc[Drv]
             /\ SomeResetting' <=> SomeResetting
  BY <1>0, <1>3 DEF SomeResetting
<1>4. CASE DeviceStop(Pm) \/ SuspendPower
  <2>1. PICK l \in {"power_off", "suspended"} : pc' = [pc EXCEPT ![Pm] = l]
    BY <1>4, Zenon DEF DeviceStop, SuspendPower, Goto
  <2>2. ctrl' => ctrl
    <3>1. CASE DeviceStop(Pm)
      BY <3>1, Zenon DEF DeviceStop, WriteCtrl
    <3>2. CASE SuspendPower
      <4>1. ctrl' = (ctrl /\ ~HasLdo)
        BY <3>2 DEF SuspendPower
      <4>2. QED
        BY ONLY <4>1, Zenon
    <3>3. QED
      BY <1>4, <3>1, <3>2
  <2>3. ~HalfOn /\ ~HalfOff /\ ~HalfOn' /\ ~HalfOff'
    BY <1>1, <1>3, <2>1 DEF HalfOn, HalfOff, Half
  <2>4. Agree'
    BY <1>2, <1>3, <2>1, <2>2, <2>3 DEF FInv, Agree, Stopped
  <2>5. Known'
    BY <1>2, <1>3, <2>1 DEF FInv, Known
  <2>6. QED
    BY <2>4, <2>5 DEF FInv
<1>5. CASE ResumeWrite
  <2>1. pc[Pm] = "rewrite" /\ pc' = [pc EXCEPT ![Pm] = "start_timer"]
    BY <1>5 DEF ResumeWrite, Goto
  <2>2. PICK res \in BOOLEAN : ctrl' = (IF res THEN TRUE ELSE ctrl) /\ raced' = (raced \/ ~res)
    BY <1>5, Zenon DEF ResumeWrite, WriteCtrl
  <2>3. ~raced' => ctrl'
    BY ONLY <2>2, Zenon
  <2>4. active
    BY <2>1 DEF FInv, Known
  <2>5. ~HalfOn' /\ ~HalfOff'
    BY <1>1, <1>3, <2>1 DEF HalfOn, HalfOff, Half
  <2>6. Agree'
    BY <1>2, <2>3, <2>4, <2>5 DEF Agree
  <2>7. Known'
    BY <1>2, <1>3, <2>1 DEF FInv, Known
  <2>8. QED
    BY <2>6, <2>7 DEF FInv
<1>6. CASE ResumeQueue
  <2>1. /\ pc[Pm] = "queue_work" /\ UNCHANGED ctrl
        /\ pc' = [pc EXCEPT ![Pm] = "clear", ![ResumeW] = "queued"]
    BY <1>6 DEF ResumeQueue, chip
  <2>2. pc[ResumeW] = "idle"
    BY <2>1 DEF IInv, PmInv, Flushed
  <2>3. /\ pc'[Pm] = "clear" /\ pc'[ResumeW] = "queued"
        /\ pc'[InitW] = pc[InitW] /\ pc'[Drv] = pc[Drv]
        /\ \A w \in Writers : pc'[w] = "idle"
    BY <1>0, <1>1, <2>1
  <2>4. ~HalfOn /\ ~HalfOff /\ ~HalfOn' /\ ~HalfOff'
    BY <1>1, <2>3 DEF HalfOn, HalfOff, Half
  <2>5. SomeResetting => SomeResetting'
    BY <2>2, <2>3 DEF SomeResetting, Resetting
  <2>6. Agree'
    BY <1>2, <2>1, <2>3, <2>4, <2>5 DEF FInv, Agree, Stopped
  <2>7. Known'
    BY <1>2, <2>3 DEF FInv, Known
  <2>8. QED
    BY <2>6, <2>7 DEF FInv
<1>7. QED
  BY <1>4, <1>5, <1>6

LEMMA DrvFInv ==
    ASSUME IInv, FInv,
           \/ DeviceStop(Drv) \/ Probe
           \/ CancelWork(ResumeW, "cancel_resume", "remove_sysfs")
           \/ CancelWork(InitW, "cancel_init", "gone")
    PROVE  FInv'
<1> USE ProcFacts
<1>0. pc \in [Procs -> WriterPc \cup WorkPc \cup PmPc \cup DrvPc]
  BY DEF IInv, TypeOK, PcOK
<1>1. CASE DeviceStop(Drv)
  <2>1. pc' = [pc EXCEPT ![Drv] = "cancel_resume"] /\ UNCHANGED <<ok, active, raced>>
    BY <1>1 DEF DeviceStop, Goto
  <2>2. QED
    BY <1>0, <2>1 DEF FInv, Agree, Known
<1>2. ASSUME NEW work \in Works, NEW here, NEW next, next # "bound", CancelWork(work, here, next)
      PROVE  FInv'
  <2>1. pc' = [pc EXCEPT ![Drv] = next, ![work] = "idle"] /\ UNCHANGED <<ok, active, raced>>
    BY <1>2 DEF CancelWork
  <2>2. QED
    BY <1>0, <1>2, <2>1 DEF FInv, Agree, Known
<1>3. CASE Probe
  <2>1. /\ pc[Drv] = "gone" /\ pc[Pm] = "resumed" /\ UNCHANGED ok
        /\ pc' = [pc EXCEPT ![Drv] = "bound", ![InitW] = "queued"]
    BY <1>3 DEF Probe, UserRuns
  <2>2. ~active'
    BY <1>3, Zenon DEF Probe
  <2>3. \A w \in Writers : pc'[w] = "idle"
    BY <1>0, <2>1 DEF IInv, DrvInv, AfterSysfs
  <2>4. pc'[InitW] = "queued" /\ pc'[ResumeW] = "idle" /\ pc'[Pm] = "resumed"
    BY <1>0, <2>1 DEF IInv, DrvInv, AfterCancel
  <2>5. ~HalfOn' /\ ~HalfOff'
    BY <2>3 DEF HalfOn, HalfOff, Half
  <2>6. QED
    BY <2>2, <2>4, <2>5 DEF FInv, Agree, Known, Boot
<1>4. QED
  BY <1>1, <1>2, <1>3

LEMMA NextFInv == IInv /\ FInv /\ [Next]_vars => FInv'
<1> SUFFICES ASSUME IInv, FInv, [Next]_vars PROVE FInv'
  OBVIOUS
<1>1. ASSUME UNCHANGED <<pc, op, ok, ctrl, active, raced>> PROVE FInv'
  BY <1>1 DEF FInv, Agree, Known, HalfOn, HalfOff, SomeResetting
<1>2. CASE UNCHANGED vars \/ DelayStore \/ Tick \/ ReportStart \/ ReportEnd
  BY <1>1, <1>2 DEF vars, DelayStore, Tick, ReportStart, ReportEnd, chip
<1>3. ASSUME NEW w \in Writers, StoreBegin(w) \/ Store(w) PROVE FInv'
  BY <1>3, ProcFacts, QuietFInv, StoreFInv DEF Store
<1>4. ASSUME NEW p \in Works, Work(p) PROVE FInv'
  BY <1>4, ProcFacts, QuietFInv, WorkFInv DEF Work
<1>5. CASE SuspendBegin \/ PmStep
  BY <1>5, ProcFacts, QuietFInv, PmFInv DEF PmStep
<1>6. CASE RemoveBegin \/ DrvStep \/ Probe
  BY <1>6, ProcFacts, QuietFInv, DrvFInv DEF DrvStep
<1>7. QED
  BY <1>2, <1>3, <1>4, <1>5, <1>6 DEF Next

\* enable_store, device_init, resume_events, suspend, resume: at rest the chip
\* samples exactly when the flag says so, unless a work item raced with a store or
\* lost a transfer.
THEOREM FlagAndChipAgree == Spec => []FlagMatchesChip
<1>1. Init => FInv
  <2> SUFFICES ASSUME Init PROVE FInv
    OBVIOUS
  <2>1. ~active
    BY Zenon DEF Init
  <2>2. /\ \A w \in Writers : pc[w] = "idle"
        /\ pc[InitW] = "queued" /\ pc[ResumeW] = "idle" /\ pc[Pm] = "resumed"
    BY ProcFacts DEF Init
  <2>3. QED
    BY <2>1, <2>2 DEF FInv, Agree, Known, HalfOn, HalfOff, Half, Boot
<1>2. FInv => FlagMatchesChip
  <2> SUFFICES ASSUME FInv, Quiescent, ~raced PROVE ctrl <=> active
    BY DEF FlagMatchesChip
  <2>1. ~HalfOn /\ ~HalfOff /\ ~SomeResetting
    BY DEF Quiescent, HalfOn, HalfOff, Half, SomeResetting, Resetting
  <2>2. QED
    BY <2>1 DEF FInv, Agree, Quiescent, Boot, Stopped
<1>3. QED
  BY <1>1, <1>2, NextFInv, Safety, PTL DEF Spec
=============================================================================
