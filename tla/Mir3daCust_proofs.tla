------------------------- MODULE Mir3daCust_proofs -------------------------
(***************************************************************************)
(* Proofs about the life of the input devices and about the settings of    *)
(* the chip in Mir3daCust, for any number of probes and users, whatever    *)
(* register writes fail.                                                   *)
(*                                                                         *)
(* The exits of the probe differ in what they leave, so the invariant says *)
(* for each place of the probe what exists there: the state of the device  *)
(* it works on (Named), that devices of later probes do not exist yet      *)
(* (Fresh), and that files and their users are on registered devices       *)
(* (Files).  Undone is about the probes that undid their work, SInv about  *)
(* the register writes that are still to come.                             *)
(*                                                                         *)
(* After them come the routines of the core that only compute: the filters *)
(* and the remapping, for every sample, length and state, and what the     *)
(* operations write, for every threshold, duration and time.               *)
(***************************************************************************)
EXTENDS Mir3daCust, Mir3daFilter, Mir3daChip, TLAPS

DeviceStates == {"none", "allocated", "registered", "freed", "polling_freed"}

Objects ==
    /\ device \in [Ids -> DeviceStates]
    /\ idev \in 0..MaxProbes
    /\ probes \in 0..MaxProbes
    /\ idev <= probes
    /\ at \in [Users -> 0..MaxProbes]
    /\ groups \subseteq Ids

Fresh ==
    /\ \A d \in Ids : d > probes => device[d] = "none"
    /\ drv \in {"init", "alloc"} => probes \in Ids /\ device[probes] = "none"

\* Where the probe has a registered device ...
Registered == {"group", "misc", "line", "irq", "setup", "init_regs", "remove_group"}
\* ... and where its device has no files, not yet or no longer.
Unfiled == {"group", "unregister", "unregister_r", "free", "free_r"}

Named ==
    /\ drv = "register" => idev \in Ids /\ device[idev] = "allocated"
    /\ drv \in Registered => idev \in Ids /\ device[idev] = "registered"
    /\ drv \in Unfiled => idev \notin groups
    /\ drv \in {"free", "free_r"} /\ idev \in Ids => device[idev] = "allocated"

Files ==
    /\ \A d \in groups : device[d] = "registered"
    /\ \A u \in Users : at[u] # 0 => at[u] \in groups
    /\ \A d \in Ids : device[d] # "polling_freed"

\* Without a botched exit only the device of the probe in progress, or of the
\* binding, is registered.
Polls == Registered \cup {"bound", "remove_group_r", "unregister", "unregister_r", "oops"}

Single ==
    ~botched => \A d \in Ids : device[d] = "registered" => idev = d /\ drv \in Polls

IInv == Objects /\ Fresh /\ Named /\ Files /\ Single

-----------------------------------------------------------------------------

LEMMA InitIInv == Init => IInv
  BY CustAssumption DEF Init, IInv, Objects, Fresh, Named, Files, Single, Ids, DeviceStates,
       Registered, Unfiled, Polls

\* What the files and the register writes of a task leave alone.
Life == <<drv, idev, device, groups, probes, botched>>

LEMMA TaskKeeps ==
    ASSUME IInv, UNCHANGED Life, UNCHANGED at
    PROVE  IInv'
  BY DEF IInv, Objects, Fresh, Named, Files, Single, Life, Ids

LEMMA UserKeeps ==
    ASSUME IInv, NEW u \in Users, UserStep(u)
    PROVE  IInv'
<1>1. UNCHANGED Life
  BY DEF UserStep, SlopeThStore, Int2EnableStore, PrimaryOffsetShow, CloseFile, ReadSlope,
         WriteReg, Life, objects
<1>2. UNCHANGED at \/ at' = [at EXCEPT ![u] = 0] \/ \E d \in groups : at' = [at EXCEPT ![u] = d]
  BY DEF UserStep, SlopeThStore, Int2EnableStore, PrimaryOffsetShow, CloseFile, ReadSlope,
         WriteReg, OpenFile
<1>3. CASE UNCHANGED at
  BY <1>1, <1>3, TaskKeeps
<1>4. ASSUME NEW d \in groups \cup {0}, at' = [at EXCEPT ![u] = d]
      PROVE  IInv'
  <2>1. d \in 0..MaxProbes
    BY CustAssumption DEF IInv, Objects, Ids
  <2>2. Objects'
    BY <1>1, <1>4, <2>1 DEF IInv, Objects, Life, Ids
  <2>3. Files'
    BY <1>1, <1>4 DEF IInv, Objects, Files, Life, Ids
  <2>4. (Fresh /\ Named /\ Single)'
    BY <1>1 DEF IInv, Fresh, Named, Single, Life, Ids
  <2>5. QED
    BY <2>2, <2>3, <2>4 DEF IInv
<1>5. QED
  BY <1>2, <1>3, <1>4

LEMMA ProbeKeeps ==
    ASSUME IInv, \/ Bind \/ CoreInitDone \/ AllocDevice \/ RegisterDevice \/ CreateGroup
                 \/ RegisterMisc \/ RequestLine \/ RequestIrq \/ InitDA380Reg \/ ProbeDone
    PROVE  IInv'
<1> USE CustAssumption
<1>1. CASE Bind
  BY <1>1 DEF Bind, Goto, Run, objects, IInv, Objects, Fresh, Named, Files, Single, task, setting, Ids,
       Registered, Unfiled, Polls
<1>2. CASE CoreInitDone
  BY <1>2 DEF CoreInitDone, Goto, IInv, Objects, Fresh, Named, Files, Single, task, Ids,
       Registered, Unfiled, Polls
<1>3. CASE AllocDevice
  BY <1>3 DEF AllocDevice, Goto, IInv, Objects, Fresh, Named, Files, Single, task, Ids,
       Registered, Unfiled, Polls, DeviceStates
<1>4. CASE RegisterDevice
  BY <1>4 DEF RegisterDevice, Goto, IInv, Objects, Fresh, Named, Files, Single, task, Ids,
       Registered, Unfiled, Polls, DeviceStates
<1>5. CASE CreateGroup
  BY <1>5 DEF CreateGroup, Goto, IInv, Objects, Fresh, Named, Files, Single, task, Ids,
       Registered, Unfiled, Polls
<1>6. CASE RegisterMisc
  BY <1>6 DEF RegisterMisc, Goto, IInv, Objects, Fresh, Named, Files, Single, task, Ids,
       Registered, Unfiled, Polls
<1>7. CASE RequestLine
  BY <1>7 DEF RequestLine, Goto, IInv, Objects, Fresh, Named, Files, Single, task, Ids,
       Registered, Unfiled, Polls
<1>8. CASE RequestIrq
  BY <1>8 DEF RequestIrq, Goto, IInv, Objects, Fresh, Named, Files, Single, task, Ids,
       Registered, Unfiled, Polls
<1>9. CASE InitDA380Reg
  BY <1>9 DEF InitDA380Reg, Goto, IInv, Objects, Fresh, Named, Files, Single, objects, Ids,
       Registered, Unfiled, Polls
<1>10. CASE ProbeDone
  BY <1>10 DEF ProbeDone, Goto, IInv, Objects, Fresh, Named, Files, Single, task, objects, Ids,
       Registered, Unfiled, Polls
<1>11. QED
  BY <1>1, <1>2, <1>3, <1>4, <1>5, <1>6, <1>7, <1>8, <1>9, <1>10

LEMMA RemovalKeeps ==
    ASSUME IInv, Remove \/ RemoveGroup \/ UnregisterDevice \/ FreeDevice
    PROVE  IInv'
<1> USE CustAssumption
<1>1. CASE Remove
  BY <1>1 DEF Remove, Goto, IInv, Objects, Fresh, Named, Files, Single, task, Ids,
       Registered, Unfiled, Polls
<1>2. CASE RemoveGroup
  BY <1>2 DEF RemoveGroup, Goto, IInv, Objects, Fresh, Named, Files, Single, task, Ids,
       Registered, Unfiled, Polls
<1>3. CASE UnregisterDevice
  <2>1. /\ \A d \in Ids : device'[d] = IF d = idev THEN "allocated" ELSE device[d]
        /\ device' \in [Ids -> DeviceStates]
        /\ drv \in {"unregister", "unregister_r"} /\ drv' \in {"free", "free_r"}
        /\ UNCHANGED <<idev, groups, probes, botched, at>>
    BY <1>3 DEF UnregisterDevice, Goto, IInv, Objects, task, Ids, DeviceStates
  <2>2. Objects'
    BY <2>1 DEF IInv, Objects
  <2>3. Fresh'
    BY <2>1 DEF IInv, Objects, Fresh, Ids
  <2>4. Named'
    BY <2>1 DEF IInv, Objects, Named, Registered, Unfiled, Ids
  <2>5. Files'
    BY <2>1 DEF IInv, Objects, Files, Named, Unfiled, Ids
  <2>6. Single'
    BY <2>1 DEF IInv, Objects, Single
  <2>7. QED
    BY <2>2, <2>3, <2>4, <2>5, <2>6 DEF IInv
<1>4. CASE FreeDevice
  BY <1>4 DEF FreeDevice, Goto, IInv, Objects, Fresh, Named, Files, Single, task, Ids,
       Registered, Unfiled, Polls, DeviceStates
<1>5. QED
  BY <1>1, <1>2, <1>3, <1>4

\* The inductive invariant.
THEOREM Safety == Spec => []IInv
<1>1. IInv /\ [Next]_vars => IInv'
  <2> SUFFICES ASSUME IInv, [Next]_vars PROVE IInv'
    OBVIOUS
  <2>1. CASE UNCHANGED vars
    BY <2>1, TaskKeeps DEF vars, Life, objects, task
  <2>2. ASSUME NEW u \in Users, UserStep(u) PROVE IInv'
    BY <2>2, UserKeeps
  <2>3. CASE WriteAnyReg
    BY <2>3, TaskKeeps DEF WriteAnyReg, Life, objects, task
  <2>4. CASE ReadSlope(Drv) \/ WriteReg(Drv)
    BY <2>4, TaskKeeps DEF ReadSlope, WriteReg, Life, objects
  <2>5. CASE DrvStep
    BY <2>4, <2>5, ProbeKeeps, RemovalKeeps DEF DrvStep
  <2>6. QED
    BY <2>1, <2>2, <2>3, <2>5 DEF Next
<1>2. QED
  BY InitIInv, <1>1, PTL DEF Spec

\* mir3da_probe, mir3da_remove: files and polling belong to a live device after
\* every exit, the incomplete ones included; as long as every probe undid its
\* work, the device that polls is the one mir3da_idev names.
THEOREM LiveDevices == Spec => []LiveDevicesOnly
<1>1. IInv => LiveDevicesOnly
  BY DEF IInv, Objects, Files, Single, LiveDevicesOnly
<1>2. QED
  BY Safety, <1>1, PTL

-----------------------------------------------------------------------------
(* What an undone probe leaves.  *)

Filed   == {"misc", "line", "irq", "setup", "init_regs", "bound", "remove_group", "remove_group_r"}
Listed  == {"line", "irq", "setup", "init_regs", "bound"}
Holding == {"register"} \cup Filed \cup Unfiled
Started == {"alloc"} \cup Holding

Undone ==
    ~botched =>
        /\ drv \notin {"wild", "oops"}
        /\ groups = IF drv \in Filed THEN {idev} ELSE {}
        /\ misc <=> drv \in Listed
        /\ \A d \in Ids : \/ device[d] \in {"none", "freed"}
                          \/ d = idev /\ drv \in Holding
        /\ drv \in Started => hwmons > 0

Counts == hwmons \in Int /\ misc \in BOOLEAN /\ (~botched => hwmons >= 0)

UInv == IInv /\ Undone /\ Counts

\* The files leave everything alone that a probe has to undo.
LEMMA TaskKeepsUndone ==
    ASSUME UInv, UNCHANGED Life, UNCHANGED <<misc, hwmons>>
    PROVE  Undone' /\ Counts'
  BY DEF UInv, Undone, Counts, Life, Ids

LEMMA DriverKeepsUndone ==
    ASSUME UInv, DrvStep
    PROVE  Undone' /\ Counts'
<1> USE CustAssumption DEF Goto, UInv, IInv, Undone, Counts, Filed, Listed, Holding, Started, Unfiled
<1>1. CASE Bind
  BY <1>1 DEF Bind, Run, objects, task, setting
<1>2. CASE CoreInitDone
  BY <1>2 DEF CoreInitDone, task
<1>3. CASE AllocDevice
  BY <1>3 DEF AllocDevice, task, Objects
<1>4. CASE RegisterDevice
  BY <1>4 DEF RegisterDevice, task, Objects
<1>5. CASE CreateGroup
  BY <1>5 DEF CreateGroup, task
<1>6. CASE RegisterMisc
  <2>1. \/ misc' /\ drv' = "line"
        \/ (misc' <=> misc) /\ drv' = "remove_group"
    BY ONLY <1>6, Zenon DEF RegisterMisc, Goto
  <2>2. misc' \in BOOLEAN
    <3>1. misc' = TRUE \/ misc' = misc
      BY ONLY <1>6, Zenon DEF RegisterMisc
    <3>2. misc \in BOOLEAN
      OBVIOUS
    <3>3. QED
      BY ONLY <3>1, <3>2, Zenon
  <2>3. drv = "misc" /\ UNCHANGED <<groups, device, idev, hwmons, botched>>
    BY ONLY <1>6 DEF RegisterMisc
  <2>4. Undone'
    BY <2>1, <2>3
  <2>5. QED
    BY <2>2, <2>3, <2>4
<1>7. CASE RequestLine
  BY <1>7 DEF RequestLine, task
<1>8. CASE RequestIrq
  BY <1>8 DEF RequestIrq, task
<1>9. CASE InitDA380Reg
  BY <1>9 DEF InitDA380Reg, objects
<1>10. CASE ProbeDone
  BY <1>10 DEF ProbeDone, task, objects
<1>11. CASE Remove
  BY <1>11 DEF Remove, task
<1>12. CASE RemoveGroup
  BY <1>12 DEF RemoveGroup, task
<1>13. CASE UnregisterDevice
  BY <1>13 DEF UnregisterDevice, task, Objects
<1>14. CASE FreeDevice
  BY <1>14 DEF FreeDevice, task, Objects, Named
<1>15. CASE ReadSlope(Drv) \/ WriteReg(Drv)
  BY <1>15, TaskKeepsUndone DEF ReadSlope, WriteReg, Life, objects
<1>16. QED
  BY <1>1, <1>2, <1>3, <1>4, <1>5, <1>6, <1>7, <1>8, <1>9, <1>10, <1>11, <1>12, <1>13, <1>14,
     <1>15 DEF DrvStep

\* mir3da_probe, mir3da_remove: between bindings nothing of the driver is visible,
\* and a bound driver has everything in place, unless an exit that does not undo its
\* work was taken.
THEOREM BindingClean == Spec => []CleanBinding
<1>1. Init => Undone /\ Counts
  <2> SUFFICES ASSUME Init PROVE Undone /\ Counts
    OBVIOUS
  <2>1. ~misc /\ misc \in BOOLEAN
    BY Zenon DEF Init
  <2>2. drv = "unbound" /\ groups = {} /\ hwmons = 0 /\ \A d \in Ids : device[d] = "none"
    BY DEF Init
  <2>3. Undone
    BY <2>1, <2>2 DEF Undone, Filed, Listed, Holding, Started, Unfiled
  <2>4. QED
    BY <2>1, <2>2, <2>3 DEF Counts
<1>2. UInv /\ [Next]_vars => Undone' /\ Counts'
  <2> SUFFICES ASSUME UInv, [Next]_vars PROVE Undone' /\ Counts'
    OBVIOUS
  <2>1. CASE UNCHANGED vars
    BY <2>1, TaskKeepsUndone DEF vars, Life, objects
  <2>2. ASSUME NEW u \in Users, UserStep(u) PROVE Undone' /\ Counts'
    <3>1. UNCHANGED Life /\ UNCHANGED <<misc, hwmons>>
      BY <2>2 DEF UserStep, SlopeThStore, Int2EnableStore, PrimaryOffsetShow, CloseFile,
                  ReadSlope, WriteReg, Life, objects
    <3>2. QED
      BY <3>1, TaskKeepsUndone
  <2>3. CASE WriteAnyReg
    BY <2>3, TaskKeepsUndone DEF WriteAnyReg, Life, objects
  <2>4. CASE DrvStep
    BY <2>4, DriverKeepsUndone
  <2>5. QED
    BY <2>1, <2>2, <2>3, <2>4 DEF Next
<1>3. UInv => CleanBinding
  BY DEF UInv, IInv, Objects, Undone, Counts, CleanBinding, Filed, Listed, Holding, Started, Unfiled
<1>4. Spec => [](Undone /\ Counts)
  BY <1>1, <1>2, Safety, PTL DEF Spec, UInv
<1>5. QED
  BY <1>3, <1>4, Safety, PTL DEF UInv

-----------------------------------------------------------------------------
(* The settings.  While nothing is lost, a register that is not as the     *)
(* driver remembers it has a write pending that will make it so.           *)

Ops == {M("reset", 0), M("range", 8), M("range", 4), W("range", 4), W("range", 2), W("thr", 0)}
       \cup {W(r, b) : r \in {"arm", "map"}, b \in BOOLEAN}

Settings == {"range", "thr", "arm", "map"}

Pends(t, r) == \E i \in 1..Len(prog[t]) : prog[t][i].reg = r

\* No reset and no other range than the driver's.
Plain(p) == \A i \in 1..Len(p) : p[i].reg # "reset" /\ (p[i].reg = "range" => p[i].val = 4)

Right(r) ==
    /\ r = "range" => chip.range = 4
    /\ r = "thr"   => chip.thr = LowByte(slope)
    /\ r = "arm"   => chip.arm = int2
    /\ r = "map"   => chip.map = int2

\* The range and the threshold are set up at the end of the probe.
Claimed(r) == r \in {"arm", "map"} \/ (drv \in {"init_regs", "bound"} /\ ~botched)

Forms ==
    /\ chip = [range |-> chip.range, thr |-> chip.thr, arm |-> chip.arm, map |-> chip.map]
    /\ int2 \in BOOLEAN
    /\ prog \in [Tasks -> Seq(Ops)]

Programs ==
    /\ drv \notin {"init", "init_regs"} => prog[Drv] = <<>>
    /\ drv # "init" => Plain(prog[Drv])
    /\ \A u \in Users : at[u] = 0 => prog[u] = <<>>
    /\ ~lost => \A u \in Users :
                  prog[u] = <<>> \/ prog[u][1].reg = "reset" \/ Plain(prog[u])

Pending ==
    ~lost => \A r \in Settings : Claimed(r) => Right(r) \/ \E t \in Tasks : Pends(t, r)

SInv == Forms /\ Programs /\ Pending

LEMMA SeqOf ==
    ASSUME NEW S, NEW a \in S, NEW b \in S, NEW c \in S, NEW d \in S
    PROVE  << a, b >> \in Seq(S) /\ << a, b, c, d >> \in Seq(S)
  OBVIOUS

LEMMA OpsFacts ==
    /\ \A w \in Ops : w.reg \in Settings \cup {"reset"}
    /\ CoreSetup \in Seq(Ops) /\ CustSetup \in Seq(Ops) /\ << W("thr", 0) >> \in Seq(Ops)
    /\ \A on \in BOOLEAN : Int2Writes(on) \in Seq(Ops)
<1>1. \A w \in Ops : w.reg \in Settings \cup {"reset"}
  BY DEF Ops, W, M, Settings
<1>2. /\ M("reset", 0) \in Ops /\ M("range", 8) \in Ops /\ M("range", 4) \in Ops
      /\ W("range", 4) \in Ops /\ W("thr", 0) \in Ops
      /\ \A b \in BOOLEAN : W("arm", b) \in Ops /\ W("map", b) \in Ops
  BY DEF Ops
<1>3. CoreSetup \in Seq(Ops) /\ CustSetup \in Seq(Ops) /\ << W("thr", 0) >> \in Seq(Ops)
  <2> HIDE DEF Ops
  <2>1. QED
    BY <1>2 DEF CoreSetup, CustSetup
<1>4. ASSUME NEW on \in BOOLEAN PROVE Int2Writes(on) \in Seq(Ops)
  <2>1. << W("range", 4), W("arm", TRUE), W("thr", 0), W("map", TRUE) >> \in Seq(Ops)
    <3>1. W("arm", TRUE) \in Ops /\ W("map", TRUE) \in Ops
      BY ONLY <1>2, Zenon
    <3>2. QED
      BY ONLY <1>2, <3>1, SeqOf, Zenon
  <2>2. << W("arm", FALSE), W("map", FALSE) >> \in Seq(Ops)
    <3>1. W("arm", FALSE) \in Ops /\ W("map", FALSE) \in Ops
      BY ONLY <1>2, Zenon
    <3>2. QED
      BY ONLY <3>1, SeqOf, Zenon
  <2>3. QED
    BY <2>1, <2>2 DEF Int2Writes
<1>5. QED
  BY <1>1, <1>3, <1>4

LEMMA PlainFacts ==
    /\ Plain(<<>>) /\ Plain(CustSetup) /\ Plain(<< W("thr", 0) >>)
    /\ \A on \in BOOLEAN : Plain(Int2Writes(on))
    /\ CoreSetup[1].reg = "reset"
<1>1. ASSUME NEW on \in BOOLEAN PROVE Plain(Int2Writes(on))
  BY DEF Plain, Int2Writes, W
<1>2. Plain(CustSetup) /\ Plain(<< W("thr", 0) >>) /\ Plain(<<>>)
  BY DEF Plain, CustSetup, W, M
<1>3. QED
  BY <1>1, <1>2 DEF CoreSetup, M

\* A store in int2_enable writes the interrupt, and a store of 1 every register.
LEMMA IntTwoFacts ==
    ASSUME NEW on \in BOOLEAN
    PROVE  LET p == Int2Writes(on)
           IN  /\ on => \A r \in Settings : \E i \in 1..Len(p) : p[i].reg = r
               /\ \A r \in {"arm", "map"} : \E i \in 1..Len(p) : p[i].reg = r
<1> DEFINE p == Int2Writes(on)
<1>1. on => /\ p[1].reg = "range" /\ p[2].reg = "arm" /\ p[3].reg = "thr" /\ p[4].reg = "map"
            /\ Len(p) = 4
  BY DEF Int2Writes, W
<1>2. ~on => p[1].reg = "arm" /\ p[2].reg = "map" /\ Len(p) = 2
  BY DEF Int2Writes, W
<1> HIDE DEF p
<1>3. CASE on
  <2>1. 1 \in 1..Len(p) /\ 2 \in 1..Len(p) /\ 3 \in 1..Len(p) /\ 4 \in 1..Len(p)
    <3>1. Len(p) = 4
      BY ONLY <1>1, <1>3, Zenon
    <3>2. QED
      BY ONLY <3>1
  <2>2. \A r \in Settings : \E i \in 1..Len(p) : p[i].reg = r
    BY <1>1, <1>3, <2>1 DEF Settings
  <2>3. QED
    BY <1>3, <2>2 DEF p, Settings
<1>4. CASE ~on
  <2>1. 1 \in 1..Len(p) /\ 2 \in 1..Len(p)
    BY <1>2, <1>4
  <2>2. \A r \in {"arm", "map"} : \E i \in 1..Len(p) : p[i].reg = r
    BY <1>2, <1>4, <2>1
  <2>3. QED
    BY <1>4, <2>2 DEF p
<1>5. QED
  BY <1>3, <1>4

LEMMA TailFacts ==
    ASSUME NEW S, NEW p \in Seq(S), p # <<>>
    PROVE  /\ Head(p) = p[1] /\ Head(p) \in S /\ 1 \in 1..Len(p)
           /\ Tail(p) \in Seq(S) /\ Len(Tail(p)) = Len(p) - 1
           /\ \A i \in 1..Len(Tail(p)) : Tail(p)[i] = p[i + 1]
           /\ \A i \in 1..Len(p) : i # 1 => i - 1 \in 1..Len(Tail(p)) /\ Tail(p)[i - 1] = p[i]
  OBVIOUS

LEMMA EffectFacts ==
    ASSUME Forms, NEW w \in Ops, NEW th
    PROVE  LET c == Effect(w, th)
           IN  /\ c = [range |-> c.range, thr |-> c.thr, arm |-> c.arm, map |-> c.map]
               /\ w.reg = "reset" => c = ResetChip
               /\ w.reg = "thr"   => c.thr = LowByte(th)
               /\ w.reg \in {"range", "arm", "map"} => c[w.reg] = w.val
               /\ w.reg # "reset" => \A r \in Settings : r # w.reg => c[r] = chip[r]
<1>1. w.reg \in Settings \cup {"reset"}
  BY OpsFacts
<1>2. CASE w.reg = "reset"
  BY <1>2 DEF Effect, ResetChip
<1>3. CASE w.reg = "range"
  BY <1>3 DEF Effect, Forms, Settings
<1>4. CASE w.reg = "thr"
  BY <1>4 DEF Effect, Forms, Settings
<1>5. CASE w.reg = "arm"
  BY <1>5 DEF Effect, Forms, Settings
<1>6. CASE w.reg = "map"
  BY <1>6 DEF Effect, Forms, Settings
<1>7. QED
  BY <1>1, <1>2, <1>3, <1>4, <1>5, <1>6 DEF Settings

\* A program stays plain when its first write is done.
LEMMA PlainTail ==
    ASSUME NEW p \in Seq(Ops), p # <<>>, Plain(p)
    PROVE  /\ Plain(Tail(p))
           /\ Head(p).reg # "reset"
           /\ Head(p).reg = "range" => Head(p).val = 4
  BY TailFacts DEF Plain

\* A write of another register stays pending.
LEMMA PendsTail ==
    ASSUME NEW p \in Seq(Ops), p # <<>>, NEW r, Head(p).reg # r,
           NEW i \in 1..Len(p), p[i].reg = r
    PROVE  \E j \in 1..Len(Tail(p)) : Tail(p)[j].reg = r
<1>1. i # 1
  BY TailFacts
<1>2. i - 1 \in 1..Len(Tail(p)) /\ Tail(p)[i - 1] = p[i]
  BY <1>1, TailFacts
<1>3. QED
  BY <1>2

\* What a write does that loses nothing.
LEMMA WriteFacts ==
    ASSUME SInv, NEW t \in Tasks, WriteReg(t)
    PROVE  LET w == Head(prog[t])
           IN  /\ prog[t] \in Seq(Ops) /\ prog[t] # <<>> /\ w \in Ops
               /\ \E q \in {<<>>, Tail(prog[t])} : prog' = [prog EXCEPT ![t] = q]
               /\ \E c \in {chip, Effect(w, arg[t])} : chip' = c
               /\ UNCHANGED <<slope, int2, at, drv, botched>>
               /\ ~lost' => /\ ~lost /\ ~Stale(t, w)
                            /\ chip' = Effect(w, arg[t])
                            /\ prog' = [prog EXCEPT ![t] = Tail(prog[t])]
<1>1. prog[t] \in Seq(Ops) /\ prog[t] # <<>>
  BY DEF SInv, Forms, WriteReg
<1>2. Head(prog[t]) \in Ops
  BY <1>1, TailFacts
<1>3. UNCHANGED <<slope, int2, at, drv, botched>>
  BY DEF WriteReg, setting
<1>4. \/ /\ chip' = Effect(Head(prog[t]), arg[t])
         /\ lost' = (lost \/ Stale(t, Head(prog[t])))
         /\ prog' = [prog EXCEPT ![t] = Tail(prog[t])]
      \/ /\ chip' \in {chip, Effect(Head(prog[t]), arg[t])}
         /\ lost' = TRUE
         /\ prog' = [prog EXCEPT ![t] = IF Head(prog[t]).must THEN <<>> ELSE Tail(prog[t])]
  BY Zenon DEF WriteReg
<1>5. \E q \in {<<>>, Tail(prog[t])} : prog' = [prog EXCEPT ![t] = q]
  BY <1>4
<1>6. \E c \in {chip, Effect(Head(prog[t]), arg[t])} : chip' = c
  BY <1>4
<1>7. ~lost' => /\ ~lost /\ ~Stale(t, Head(prog[t]))
                /\ chip' = Effect(Head(prog[t]), arg[t])
                /\ prog' = [prog EXCEPT ![t] = Tail(prog[t])]
  BY ONLY <1>4, Zenon
<1>8. QED
  BY <1>1, <1>2, <1>3, <1>5, <1>6, <1>7

LEMMA WriteKeeps ==
    ASSUME SInv, NEW t \in Tasks, WriteReg(t)
    PROVE  SInv'
<1> DEFINE w == Head(prog[t])
<1> HIDE DEF w
<1> USE CustAssumption
<1>1. /\ prog[t] \in Seq(Ops) /\ prog[t] # <<>> /\ w \in Ops /\ w = Head(prog[t])
      /\ \E q \in {<<>>, Tail(prog[t])} : prog' = [prog EXCEPT ![t] = q]
      /\ \E c \in {chip, Effect(w, arg[t])} : chip' = c
      /\ UNCHANGED <<slope, int2, at, drv, botched>>
      /\ ~lost' => /\ ~lost /\ ~Stale(t, w)
                   /\ chip' = Effect(w, arg[t])
                   /\ prog' = [prog EXCEPT ![t] = Tail(prog[t])]
  BY WriteFacts DEF w
<1>2. t = Drv => drv \in {"init", "init_regs"}
  BY <1>1 DEF SInv, Programs
<1>3. t \in Users => at[t] # 0
  BY <1>1 DEF SInv, Programs
<1>4. Forms'
  <2>1. /\ chip' = [range |-> chip'.range, thr |-> chip'.thr, arm |-> chip'.arm, map |-> chip'.map]
    BY <1>1, EffectFacts DEF SInv, Forms
  <2>2. Tail(prog[t]) \in Seq(Ops) /\ <<>> \in Seq(Ops)
    BY <1>1, TailFacts
  <2>3. prog' \in [Tasks -> Seq(Ops)]
    BY <1>1, <2>2 DEF SInv, Forms
  <2>4. int2' \in BOOLEAN
    BY <1>1 DEF SInv, Forms
  <2>5. QED
    BY <2>1, <2>3, <2>4 DEF Forms
<1>5. \A x \in Tasks : x # t => prog'[x] = prog[x]
  BY <1>1 DEF SInv, Forms
<1>6. ~lost' => prog'[t] = Tail(prog[t])
  BY <1>1 DEF SInv, Forms
<1>7. prog'[t] \in {<<>>, Tail(prog[t])}
  BY <1>1 DEF SInv, Forms
<1>8. Programs'
  <2>1. drv \notin {"init", "init_regs"} => prog'[Drv] = <<>>
    BY <1>2, <1>5 DEF SInv, Programs, Tasks
  <2>2. drv # "init" => Plain(prog'[Drv])
    BY <1>1, <1>5, <1>7, PlainTail, PlainFacts DEF SInv, Programs, Tasks
  <2>3. ASSUME NEW u \in Users, at[u] = 0
        PROVE  prog'[u] = <<>>
    BY <1>3, <1>5, <2>3 DEF SInv, Programs, Tasks
  <2>4. ASSUME ~lost', NEW u \in Users
        PROVE  prog'[u] = <<>> \/ prog'[u][1].reg = "reset" \/ Plain(prog'[u])
    <3>1. ~lost /\ ~Stale(t, w)
      BY <1>1, <2>4
    <3>2. CASE u # t
      BY <1>5, <3>1, <3>2 DEF SInv, Programs, Tasks
    <3>3. CASE u = t
      <4>1. w.reg # "reset"
        BY <3>1, <3>3 DEF Stale
      <4>2. Plain(prog[t])
        BY <1>1, <3>1, <3>3, <4>1, TailFacts DEF SInv, Programs
      <4>3. QED
        BY <1>1, <1>6, <2>4, <3>3, <4>2, PlainTail
    <3>4. QED
      BY <3>2, <3>3
  <2>5. QED
    BY <1>1, <2>1, <2>2, <2>3, <2>4 DEF Programs
<1>9. ASSUME ~lost', NEW r \in Settings, Claimed(r)
      PROVE  Right(r)' \/ \E x \in Tasks : Pends(x, r)'
  <2>1. /\ ~lost /\ ~Stale(t, w) /\ chip' = Effect(w, arg[t])
        /\ prog' = [prog EXCEPT ![t] = Tail(prog[t])]
    BY <1>1, <1>9
  <2>2. CASE w.reg = r
    <3>1. r = "range" => w.val = 4
      <4>1. ASSUME r = "range" PROVE Plain(prog[t])
        <5>1. CASE t = Drv
          BY <1>9, <4>1, <5>1 DEF SInv, Programs, Claimed
        <5>2. CASE t \in Users
          BY <1>1, <2>1, <2>2, <4>1, <5>2, TailFacts DEF SInv, Programs
        <5>3. QED
          BY <5>1, <5>2 DEF Tasks
      <4>2. QED
        BY <1>1, <2>2, <4>1, PlainTail
    <3>2. r = "thr" => LowByte(arg[t]) = LowByte(slope)
      BY <2>1, <2>2 DEF Stale
    <3>3. r \in {"arm", "map"} => w.val = int2
      BY <2>1, <2>2 DEF Stale
    <3>4. /\ r = "thr" => chip'.thr = LowByte(arg[t])
          /\ r \in {"range", "arm", "map"} => chip'[r] = w.val
      BY <1>1, <2>1, <2>2, EffectFacts DEF SInv
    <3>5. Right(r)'
      BY <1>1, <1>9, <3>1, <3>2, <3>3, <3>4 DEF Right, Settings
    <3>6. QED
      BY <3>5
  <2>3. CASE w.reg = "reset"
    <3>1. t = Drv /\ ~int2
      BY <2>1, <2>3 DEF Stale
    <3>2. drv = "init"
      BY <1>1, <1>2, <2>3, <3>1, PlainTail DEF SInv, Programs
    <3>3. r \in {"arm", "map"}
      BY <1>9, <3>2 DEF Claimed
    <3>4. chip'.arm = FALSE /\ chip'.map = FALSE
      BY <1>1, <2>1, <2>3, EffectFacts DEF SInv, ResetChip
    <3>5. int2' = FALSE
      BY <1>1, <3>1 DEF SInv, Forms
    <3>6. Right(r)'
      BY <3>3, <3>4, <3>5 DEF Right
    <3>7. QED
      BY <3>6
  <2>4. CASE w.reg \notin {"reset", r}
    <3>1. chip'[r] = chip[r]
      BY <1>1, <2>1, <2>4, EffectFacts DEF SInv
    <3>2. Right(r) => Right(r)'
      BY <1>1, <1>9, <3>1 DEF Right, Settings
    <3>3. ASSUME NEW x \in Tasks, Pends(x, r) PROVE Pends(x, r)'
      <4>1. CASE x # t
        BY <1>5, <3>3, <4>1 DEF Pends
      <4>2. CASE x = t
        <5>1. PICK i \in 1..Len(prog[t]) : prog[t][i].reg = r
          BY <3>3, <4>2 DEF Pends
        <5>2. \E j \in 1..Len(Tail(prog[t])) : Tail(prog[t])[j].reg = r
          <6>1. Head(prog[t]).reg # r
            BY <1>1, <2>4
          <6>2. QED
            BY ONLY <1>1, <5>1, <6>1, PendsTail
        <5>3. QED
          BY <1>6, <1>9, <4>2, <5>2 DEF Pends
      <4>3. QED
        BY <4>1, <4>2
    <3>4. QED
      BY <1>9, <2>1, <3>2, <3>3 DEF SInv, Pending
  <2>5. QED
    BY <2>2, <2>3, <2>4
<1>10. Pending'
  BY <1>1, <1>9 DEF Pending, Claimed
<1>11. QED
  BY <1>4, <1>8, <1>10 DEF SInv

\* A store that starts the program q keeps the invariant when q writes every
\* register whose setting it changes.
LEMMA StoreKeeps ==
    ASSUME SInv, at \in [Users -> 0..MaxProbes],
           NEW u \in Users, NEW q \in Seq(Ops), NEW d \in Ids, at[u] = 0,
           prog' = [prog EXCEPT ![u] = q], at' = [at EXCEPT ![u] = d],
           UNCHANGED <<chip, drv, botched>>, int2' \in BOOLEAN,
           ~lost' => q[1].reg = "reset" \/ Plain(q),
           ~lost' => ~lost \/ Quiet,
           \A r \in Settings :
              ~lost' => \/ ~lost /\ (Right(r) => Right(r)')
                        \/ \E i \in 1..Len(q) : q[i].reg = r
    PROVE  SInv'
<1> USE CustAssumption
<1>1. \A x \in Tasks : prog'[x] = IF x = u THEN q ELSE prog[x]
  BY DEF SInv, Forms, Tasks
<1>2. \A x \in Users : at'[x] = IF x = u THEN d ELSE at[x]
  OBVIOUS
<1>3. d # 0 /\ prog[u] = <<>>
  BY DEF Ids, SInv, Programs
<1>4. Forms'
  <2>1. prog' \in [Tasks -> Seq(Ops)]
    BY DEF SInv, Forms
  <2>2. QED
    BY <2>1 DEF SInv, Forms
<1>5. Programs'
  <2>1. prog'[Drv] = prog[Drv]
    BY <1>1 DEF Tasks
  <2>2. \A x \in Users : at'[x] = 0 => prog'[x] = <<>>
    BY <1>1, <1>2, <1>3 DEF SInv, Programs, Tasks
  <2>3. ASSUME ~lost', NEW x \in Users
        PROVE  prog'[x] = <<>> \/ prog'[x][1].reg = "reset" \/ Plain(prog'[x])
    BY <1>1, <2>3 DEF SInv, Programs, Tasks, Quiet
  <2>4. QED
    BY <2>1, <2>2, <2>3 DEF SInv, Programs
<1>6. ASSUME ~lost', NEW r \in Settings, Claimed(r)
      PROVE  Right(r)' \/ \E x \in Tasks : Pends(x, r)'
  <2>1. CASE \E i \in 1..Len(q) : q[i].reg = r
    BY <1>1, <2>1 DEF Pends, Tasks
  <2>2. CASE ~lost /\ (Right(r) => Right(r)')
    <3>1. ASSUME NEW x \in Tasks, Pends(x, r) PROVE Pends(x, r)'
      <4>1. x # u
        BY <1>3, <3>1 DEF Pends
      <4>2. QED
        BY <1>1, <3>1, <4>1 DEF Pends
    <3>2. QED
      BY <1>6, <2>2, <3>1 DEF SInv, Pending
  <2>3. QED
    BY <1>6, <2>1, <2>2
<1>7. Pending'
  BY <1>6 DEF Pending, Claimed
<1>8. QED
  BY <1>4, <1>5, <1>7 DEF SInv

\* The probe goes on, with no program of its own.
LEMMA GotoKeeps ==
    ASSUME SInv, UNCHANGED <<chip, int2, prog, at>>, lost' <=> lost, prog[Drv] = <<>>,
           \/ drv' \notin {"init_regs", "bound"}
           \/ botched'
           \/ drv = "init_regs" /\ UNCHANGED <<slope, botched>>
    PROVE  SInv'
<1>1. Forms'
  BY DEF SInv, Forms
<1>2. Programs'
  BY PlainFacts DEF SInv, Programs, Plain
<1>3. ASSUME ~lost', NEW r \in Settings, Claimed(r)'
      PROVE  Right(r)' \/ \E x \in Tasks : Pends(x, r)'
  <2>1. Claimed(r)
    BY <1>3 DEF Claimed
  <2>2. Right(r) => Right(r)'
    BY <1>3 DEF Right, Claimed
  <2>3. \A x \in Tasks : Pends(x, r) => Pends(x, r)'
    BY DEF Pends
  <2>4. QED
    BY <1>3, <2>1, <2>2, <2>3 DEF SInv, Pending
<1>4. Pending'
  BY <1>3 DEF Pending
<1>5. QED
  BY <1>1, <1>2, <1>4 DEF SInv

\* The probe starts the program q.
LEMMA RunKeeps ==
    ASSUME SInv, UNCHANGED <<chip, slope, int2, at>>, lost' <=> lost, prog[Drv] = <<>>,
           NEW q \in Seq(Ops), prog' = [prog EXCEPT ![Drv] = q],
           \/ drv' = "init"
           \/ /\ drv' = "init_regs"
              /\ Plain(q)
              /\ \A r \in {"range", "thr"} : \E i \in 1..Len(q) : q[i].reg = r
    PROVE  SInv'
<1> USE CustAssumption
<1>1. \A x \in Tasks : prog'[x] = IF x = Drv THEN q ELSE prog[x]
  BY DEF SInv, Forms
<1>2. Forms'
  BY DEF SInv, Forms
<1>3. Programs'
  BY <1>1 DEF SInv, Programs, Tasks
<1>4. ASSUME ~lost', NEW r \in Settings, Claimed(r)'
      PROVE  Right(r)' \/ \E x \in Tasks : Pends(x, r)'
  <2>1. CASE r \in {"range", "thr"}
    BY <1>1, <1>4, <2>1 DEF Claimed, Pends, Tasks
  <2>2. CASE r \in {"arm", "map"}
    <3>1. ASSUME NEW x \in Tasks, Pends(x, r) PROVE Pends(x, r)'
      <4>1. x # Drv
        BY <3>1 DEF Pends
      <4>2. QED
        BY <1>1, <3>1, <4>1 DEF Pends
    <3>2. Right(r) => Right(r)'
      BY DEF Right
    <3>3. QED
      BY <1>4, <2>2, <3>1, <3>2 DEF SInv, Pending, Claimed
  <2>3. QED
    BY <1>4, <2>1, <2>2 DEF Settings
<1>5. Pending'
  BY <1>4 DEF Pending
<1>6. QED
  BY <1>2, <1>3, <1>5 DEF SInv

LEMMA StepKeeps ==
    ASSUME SInv, IInv, Next
    PROVE  SInv'
<1> USE CustAssumption
<1>1. ASSUME NEW t \in Tasks, ReadSlope(t)
      PROVE  SInv'
  BY <1>1 DEF ReadSlope, setting, SInv, Forms, Programs, Pending, Claimed, Right, Pends, Plain
<1>2. ASSUME NEW t \in Tasks, WriteReg(t)
      PROVE  SInv'
  BY <1>2, WriteKeeps
<1>3. CASE WriteAnyReg
  <2>1. PICK v \in AnyWrites : chip' = Effect(v, ResetTh)
    BY <1>3 DEF WriteAnyReg
  <2>2. v \in Ops
    BY DEF AnyWrites, Ops
  <2>3. UNCHANGED <<int2, prog, at, drv>> /\ lost'
    BY <1>3 DEF WriteAnyReg, setting, task
  <2>4. Forms'
    BY <2>1, <2>2, <2>3, EffectFacts DEF SInv, Forms
  <2>5. QED
    BY <2>3, <2>4 DEF SInv, Programs, Pending, Plain
<1>4. ASSUME NEW u \in Users, CloseFile(u)
      PROVE  SInv'
  <2>1. UNCHANGED <<chip, slope, int2, prog, drv, botched>> /\ (lost' <=> lost)
    BY <1>4 DEF CloseFile, setting
  <2>2. prog[u] = <<>> /\ at' = [at EXCEPT ![u] = 0]
    BY <1>4 DEF CloseFile
  <2>3. \A x \in Users : at'[x] = 0 => prog[x] = <<>>
    BY <2>2 DEF SInv, Programs, IInv, Objects
  <2>4. QED
    BY <2>1, <2>3 DEF SInv, Forms, Programs, Pending, Claimed, Right, Pends, Plain
<1>5. ASSUME NEW u \in Users, \E d \in groups : OpenFile(u, d)
      PROVE  /\ at[u] = 0 /\ at \in [Users -> 0..MaxProbes]
             /\ \E d \in Ids : at' = [at EXCEPT ![u] = d]
  BY <1>5 DEF OpenFile, IInv, Objects
<1>6. ASSUME NEW u \in Users, SlopeThStore(u)
      PROVE  SInv'
  <2>1. \E d \in groups : OpenFile(u, d)
    BY <1>6 DEF SlopeThStore
  <2>2. PICK d \in Ids : at' = [at EXCEPT ![u] = d]
    BY <1>5, <2>1
  <2> DEFINE q == << W("thr", 0) >>
  <2>3. /\ UNCHANGED <<chip, int2, drv, botched>> /\ (lost' <=> lost)
        /\ prog' = [prog EXCEPT ![u] = q]
    BY <1>6 DEF SlopeThStore
  <2>4. q[1].reg = "thr" /\ 1 \in 1..Len(q)
    BY DEF W
  <2>5. q \in Seq(Ops) /\ Plain(q)
    BY OpsFacts, PlainFacts
  <2> HIDE DEF q
  <2>6. ASSUME NEW r \in Settings, ~lost'
        PROVE  \/ ~lost /\ (Right(r) => Right(r)')
               \/ \E i \in 1..Len(q) : q[i].reg = r
    <3>1. CASE r = "thr"
      BY <2>4, <3>1
    <3>2. CASE r # "thr"
      BY <2>3, <2>6, <3>2 DEF Right
    <3>3. QED
      BY <3>1, <3>2
  <2>7. int2' \in BOOLEAN
    BY <2>3 DEF SInv, Forms
  <2>8. QED
    BY <1>5, <2>1, <2>2, <2>3, <2>5, <2>6, <2>7, StoreKeeps
<1>7. ASSUME NEW u \in Users, Int2EnableStore(u)
      PROVE  SInv'
  <2>1. \E d \in groups : OpenFile(u, d)
    BY <1>7 DEF Int2EnableStore
  <2>2. PICK d \in Ids : at' = [at EXCEPT ![u] = d]
    BY <1>5, <2>1
  <2>3. PICK on \in BOOLEAN : /\ int2' = on
                              /\ prog' = [prog EXCEPT ![u] = Int2Writes(on)]
                              /\ lost' = (lost /\ ~(on /\ Quiet))
    BY <1>7, Zenon DEF Int2EnableStore
  <2>4. ~lost' => ~lost \/ (on /\ Quiet)
    BY ONLY <2>3, Zenon
  <2>5. UNCHANGED <<chip, slope, drv, botched>>
    BY <1>7 DEF Int2EnableStore
  <2>6. Int2Writes(on) \in Seq(Ops) /\ Plain(Int2Writes(on))
    BY OpsFacts, PlainFacts
  <2>7. /\ on => \A r \in Settings : \E i \in 1..Len(Int2Writes(on)) : Int2Writes(on)[i].reg = r
        /\ \A r \in {"arm", "map"} : \E i \in 1..Len(Int2Writes(on)) : Int2Writes(on)[i].reg = r
    BY IntTwoFacts
  <2>8. ASSUME NEW r \in Settings, ~lost'
        PROVE  \/ ~lost /\ (Right(r) => Right(r)')
               \/ \E i \in 1..Len(Int2Writes(on)) : Int2Writes(on)[i].reg = r
    <3>1. CASE r \in {"arm", "map"} \/ on
      BY <2>7, <3>1
    <3>2. CASE r \notin {"arm", "map"} /\ ~on
      BY <2>4, <2>5, <2>8, <3>2 DEF Right
    <3>3. QED
      BY <3>1, <3>2
  <2>9. int2' \in BOOLEAN
    BY <2>3
  <2>10. ~lost' => ~lost \/ Quiet
    BY <2>4
  <2>11. prog' = [prog EXCEPT ![u] = Int2Writes(on)]
    BY <2>3
  <2>12. QED
    BY <1>5, <2>1, <2>2, <2>5, <2>6, <2>8, <2>9, <2>10, <2>11, StoreKeeps
<1>8. ASSUME NEW u \in Users, PrimaryOffsetShow(u)
      PROVE  SInv'
  <2>1. \E d \in groups : OpenFile(u, d)
    BY <1>8 DEF PrimaryOffsetShow
  <2>2. PICK d \in Ids : at' = [at EXCEPT ![u] = d]
    BY <1>5, <2>1
  <2>3. /\ UNCHANGED <<chip, slope, int2, drv, botched>> /\ (lost' <=> lost)
        /\ prog' = [prog EXCEPT ![u] = CoreSetup]
    BY <1>8 DEF PrimaryOffsetShow, setting
  <2>4. \A r \in Settings : Right(r) => Right(r)'
    BY <2>3 DEF Right
  <2>5. int2' \in BOOLEAN
    BY <2>3 DEF SInv, Forms
  <2>6. QED
    BY <1>5, <2>1, <2>2, <2>3, <2>4, <2>5, StoreKeeps, OpsFacts, PlainFacts
<1>9. CASE Bind
  <2>1. UNCHANGED <<chip, slope, int2, at>> /\ (lost' <=> lost) /\ prog[Drv] = <<>>
    BY <1>9 DEF Bind, setting, SInv, Programs
  <2>2. CASE drv' = "init" /\ prog' = [prog EXCEPT ![Drv] = CoreSetup]
    BY <2>1, <2>2, RunKeeps, OpsFacts
  <2>3. CASE drv' = "wild" /\ UNCHANGED prog
    BY <2>1, <2>3, GotoKeeps
  <2>4. QED
    BY <1>9, <2>2, <2>3 DEF Bind, Goto, Run
<1>10. CASE InitDA380Reg
  <2>1. UNCHANGED <<chip, slope, int2, at>> /\ (lost' <=> lost) /\ prog[Drv] = <<>>
    BY <1>10 DEF InitDA380Reg, setting, SInv, Programs
  <2>2. drv' = "init_regs" /\ prog' = [prog EXCEPT ![Drv] = CustSetup]
    BY <1>10 DEF InitDA380Reg, Goto, Run
  <2>3. \A r \in {"range", "thr"} : \E i \in 1..Len(CustSetup) : CustSetup[i].reg = r
    <3>1. CustSetup[1].reg = "range" /\ CustSetup[2].reg = "thr" /\ Len(CustSetup) = 2
      BY DEF CustSetup, M, W
    <3>2. 1 \in 1..Len(CustSetup) /\ 2 \in 1..Len(CustSetup)
      BY <3>1
    <3>3. QED
      BY <3>1, <3>2
  <2>4. QED
    BY <2>1, <2>2, <2>3, RunKeeps, OpsFacts, PlainFacts
<1>11. ASSUME \/ CoreInitDone \/ AllocDevice \/ RegisterDevice \/ CreateGroup \/ RegisterMisc
              \/ RequestLine \/ RequestIrq \/ ProbeDone
       PROVE  SInv'
  <2>1. UNCHANGED <<chip, int2, prog, at>> /\ (lost' <=> lost) /\ prog[Drv] = <<>>
    BY <1>11 DEF CoreInitDone, AllocDevice, RegisterDevice, CreateGroup, RegisterMisc,
         RequestLine, RequestIrq, ProbeDone, Done, setting, task, SInv, Programs
  <2>2. \/ drv' \notin {"init_regs", "bound"}
        \/ botched'
        \/ drv = "init_regs" /\ UNCHANGED <<slope, botched>>
    BY <1>11 DEF CoreInitDone, AllocDevice, RegisterDevice, CreateGroup, RegisterMisc,
         RequestLine, RequestIrq, ProbeDone, Goto, setting
  <2>3. QED
    BY <2>1, <2>2, GotoKeeps
<1>12. ASSUME Remove \/ RemoveGroup \/ UnregisterDevice \/ FreeDevice
       PROVE  SInv'
  <2>1. UNCHANGED <<chip, int2, prog, at>> /\ (lost' <=> lost) /\ prog[Drv] = <<>>
    BY <1>12 DEF Remove, RemoveGroup, UnregisterDevice, FreeDevice, setting, task, SInv, Programs
  <2>2. drv' \notin {"init_regs", "bound"}
    BY <1>12 DEF Remove, RemoveGroup, UnregisterDevice, FreeDevice, Goto
  <2>3. QED
    BY <2>1, <2>2, GotoKeeps
<1>13. CASE DrvStep
  BY <1>1, <1>2, <1>9, <1>10, <1>11, <1>12, <1>13 DEF DrvStep, Tasks
<1>14. ASSUME NEW u \in Users, UserStep(u) PROVE SInv'
  BY <1>1, <1>2, <1>4, <1>6, <1>7, <1>8, <1>14 DEF UserStep, Tasks
<1>15. QED
  BY <1>3, <1>13, <1>14 DEF Next

\* mir3da_slope_th_store, mir3da_int2_enable_store, mir3da_initDA380Reg: at rest
\* the chip runs with the range of initDA380Reg, the interrupt of int2_enable and the low
\* byte of slope_th, unless a write failed, was overtaken or wiped and int2_enable was not
\* stored since; for any number of tasks, thresholds and probes.
THEOREM SettingsReachChip == Spec => []SettingsInEffect
<1>1. Init => SInv
  <2> SUFFICES ASSUME Init PROVE SInv
    OBVIOUS
  <2>1. /\ chip = ResetChip /\ int2 = FALSE /\ drv = "unbound"
        /\ prog = [t \in Tasks |-> <<>>]
    BY DEF Init
  <2>2. Forms
    <3>1. ResetChip = [range |-> ResetChip.range, thr |-> ResetChip.thr,
                       arm |-> ResetChip.arm, map |-> ResetChip.map]
      BY DEF ResetChip
    <3>2. prog \in [Tasks -> Seq(Ops)]
      BY <2>1
    <3>3. int2 \in BOOLEAN
      BY <2>1
    <3>4. QED
      BY ONLY <2>1, <3>1, <3>2, <3>3, Zenon DEF Forms
  <2>3. Programs
    BY <2>1, PlainFacts DEF Programs, Tasks
  <2>4. Pending
    BY <2>1 DEF Pending, Claimed, Right, Settings, ResetChip
  <2>5. QED
    BY <2>2, <2>3, <2>4 DEF SInv
<1>2. SInv /\ IInv /\ [Next]_vars => SInv'
  <2>1. ASSUME SInv, UNCHANGED vars PROVE SInv'
    BY <2>1 DEF vars, setting, task, SInv, Forms, Programs, Pending, Claimed, Right, Pends, Plain
  <2>2. QED
    BY <2>1, StepKeeps
<1>3. SInv => SettingsInEffect
  <2> SUFFICES ASSUME SInv, drv = "bound", Quiet, ~lost, ~botched
               PROVE  \A r \in Settings : Right(r)
    BY DEF SettingsInEffect, Settings, Right
  <2>1. \A t \in Tasks : \A r : ~Pends(t, r)
    BY DEF Quiet, Pends
  <2>2. QED
    BY <2>1 DEF SInv, Pending, Claimed
<1>4. QED
  BY <1>1, <1>2, <1>3, Safety, PTL DEF Spec

-----------------------------------------------------------------------------
(* Mir3daFilter *)

\* A quotient of C lies between 0 and its dividend.
LEMMA QuotientBetween ==
    ASSUME NEW a \in Int, NEW n \in Nat \ {0}
    PROVE  /\ Quotient(a, n) \in Int
           /\ a >= 0 => 0 <= Quotient(a, n) /\ Quotient(a, n) <= a
           /\ a <= 0 => a <= Quotient(a, n) /\ Quotient(a, n) <= 0
<1>1. ASSUME NEW d \in Nat PROVE d \div n \in Nat /\ d \div n <= d
  <2>1. d \div n \in Int /\ d = n * (d \div n) + (d % n) /\ d % n \in 0..(n - 1)
    OBVIOUS
  <2>2. d \div n >= 0
    BY <2>1, SMTT(30)
  <2>3. n * (d \div n) >= d \div n
    BY <2>1, <2>2, SMTT(30)
  <2>4. QED
    BY <2>1, <2>2, <2>3
<1>2. CASE a >= 0
  BY <1>1, <1>2 DEF Quotient
<1>3. CASE a < 0
  <2>1. -a \in Nat
    BY <1>3
  <2>2. (-a) \div n \in Nat /\ (-a) \div n <= -a
    BY <1>1, <2>1
  <2>3. Quotient(a, n) = -((-a) \div n)
    BY <1>3 DEF Quotient
  <2>4. QED
    BY <1>3, <2>2, <2>3
<1>4. QED
  BY <1>2, <1>3

\* filter_average: the new average lies between the old one and the sample,
\* so that the returned int always fits the short it is returned as.
THEOREM AverageStaysBetween ==
    ASSUME NEW p \in Int, NEW s \in Int, NEW n \in Nat \ {0}, NEW r \in Refs
    PROVE  /\ Between(FilterAverage(p, s, n, r).ave, p, s)
           /\ FilterAverage(p, s, n, r).ref \in Refs
<1> DEFINE from == IF r = SPIKES THEN s ELSE p
           far  == Abs(s - p) > PEAK_LVL /\ r < SPIKES
<1>1. CASE far
  <2>1. FilterAverage(p, s, n, r) = [ave |-> p, ref |-> r + 1]
    BY <1>1 DEF FilterAverage
  <2>2. QED
    BY <2>1, <1>1 DEF Between, Refs, SPIKES
<1>2. CASE ~far
  <2>1. FilterAverage(p, s, n, r) = [ave |-> from + Quotient(s - from, n), ref |-> 0]
    BY <1>2 DEF FilterAverage
  <2>2. /\ Quotient(s - from, n) \in Int
        /\ s - from >= 0 => 0 <= Quotient(s - from, n) /\ Quotient(s - from, n) <= s - from
        /\ s - from <= 0 => s - from <= Quotient(s - from, n) /\ Quotient(s - from, n) <= 0
    BY QuotientBetween
  <2>3. from = s \/ from = p
    OBVIOUS
  <2>4. Between(from + Quotient(s - from, n), p, s)
    <3> DEFINE Q == Quotient(s - from, n)
    <3>1. CASE from = s
      <4>1. Q = 0
        BY <2>2, <3>1
      <4>2. QED
        BY <3>1, <4>1 DEF Between
    <3>2. CASE from = p
      BY <2>2, <3>2 DEF Between
    <3>3. QED
      BY <2>3, <3>1, <3>2
  <2>5. QED
    BY <2>1, <2>4 DEF Refs, SPIKES
<1>3. QED
  BY <1>1, <1>2

LEMMA AverageIsInt ==
    ASSUME NEW p \in Int, NEW s \in Int, NEW n \in Nat \ {0}, NEW r \in Refs
    PROVE  FilterAverage(p, s, n, r).ave \in Int
<1> DEFINE from == IF r = SPIKES THEN s ELSE p
<1>1. CASE Abs(s - p) > PEAK_LVL /\ r < SPIKES
  BY <1>1 DEF FilterAverage
<1>2. CASE ~(Abs(s - p) > PEAK_LVL /\ r < SPIKES)
  <2>1. FilterAverage(p, s, n, r) = [ave |-> from + Quotient(s - from, n), ref |-> 0]
    BY <1>2 DEF FilterAverage
  <2>2. from \in Int /\ Quotient(s - from, n) \in Int
    BY QuotientBetween
  <2> HIDE DEF from
  <2>3. QED
    BY <2>1, <2>2
<1>3. QED
  BY <1>1, <1>2

\* A suspected spike is counted and changes nothing; the fourth is taken over.
LEMMA SpikeOrJump ==
    ASSUME NEW p \in Int, NEW s \in Int, NEW n \in Nat \ {0}, NEW r \in Refs,
           Abs(s - p) > PEAK_LVL
    PROVE  /\ r < SPIKES => FilterAverage(p, s, n, r) = [ave |-> p, ref |-> r + 1]
           /\ r = SPIKES => FilterAverage(p, s, n, r).ave = s
<1>1. CASE r < SPIKES
  BY <1>1 DEF FilterAverage, SPIKES
<1>2. CASE r = SPIKES
  <2>1. FilterAverage(p, s, n, r) = [ave |-> s + Quotient(s - s, n), ref |-> 0]
    BY <1>2 DEF FilterAverage, SPIKES
  <2>2. Quotient(s - s, n) = 0
    BY QuotientBetween
  <2>3. QED
    BY <1>2, <2>1, <2>2 DEF SPIKES
<1>3. QED
  BY <1>1, <1>2 DEF Refs, SPIKES

\* The spike rejection delays a real change by three samples at most: of four
\* equal samples far from the average one becomes the average.
THEOREM ChangeTakenOver ==
    ASSUME NEW p \in Int, NEW s \in Int, NEW n \in Nat \ {0}, NEW r \in Refs,
           Abs(s - p) > PEAK_LVL
    PROVE  s \in Four(p, s, n, r)
<1> DEFINE F(q) == FilterAverage(p, s, n, q)
<1>1. \A q \in Refs : q < SPIKES => F(q).ave = p /\ F(q).ref = q + 1
  BY SpikeOrJump
<1>2. F(3).ave = s
  BY SpikeOrJump DEF Refs, SPIKES
<1>3. CASE r = 3
  BY <1>2, <1>3 DEF Four
<1>4. CASE r = 2
  BY <1>1, <1>2, <1>4 DEF Four, Refs, SPIKES
<1>5. CASE r = 1
  BY <1>1, <1>2, <1>5 DEF Four, Refs, SPIKES
<1>6. CASE r = 0
  BY <1>1, <1>2, <1>6 DEF Four, Refs, SPIKES
<1>7. QED
  BY <1>3, <1>4, <1>5, <1>6 DEF Refs, SPIKES

\* What the runs check of filter_average, for any set of samples and lengths.
THEOREM AverageRightHolds == input \in AverageCalls => AverageRight
<1> SUFFICES ASSUME input \in AverageCalls PROVE AverageRight
  OBVIOUS
<1>1. /\ input.pre \in Int /\ input.sample \in Int
      /\ input.len \in Nat \ {0} /\ input.ref \in Refs
  <2>1. input.pre \in Levels /\ input.sample \in Levels /\ input.len \in Lengths /\ input.ref \in Refs
    BY DEF AverageCalls
  <2>2. Levels \subseteq Int /\ Lengths \subseteq Nat \ {0}
    BY FilterAssumption
  <2>3. QED
    BY <2>1, <2>2
<1> DEFINE a == FilterAverage(input.pre, input.sample, input.len, input.ref)
<1>2. Between(a.ave, input.pre, input.sample) /\ a.ref \in Refs
  BY <1>1, AverageStaysBetween
<1>3. Abs(input.sample - input.pre) > PEAK_LVL
        => input.sample \in Four(input.pre, input.sample, input.len, input.ref)
  BY <1>1, ChangeTakenOver
<1>4. QED
  BY <1>2, <1>3 DEF AverageRight

\* The bytes of a 12-bit sample, with what is below it, give it back.
ReadBack(s, l) == RawAxis(Word(s, l) % 256, Word(s, l) \div 256)

LEMMA RawGivesBack ==
    ASSUME NEW s \in Int, -2048 <= s, s < 2048, NEW l \in 0..15
    PROVE  ReadBack(s, l) = s
<1> DEFINE x == s * 16 + l
           word == x % 65536
<1>1. x \in Int /\ -32768 <= x /\ x < 32768
  OBVIOUS
<1>2. x \div 16 = s
  OBVIOUS
<1> HIDE DEF x
<1>3. /\ word \in Nat
      /\ x >= 0 => word = x
      /\ x < 0 => word = x + 65536
  BY <1>1, SMT
<1> HIDE DEF word
<1>4. (word \div 256) * 256 + (word % 256) = word
  BY <1>3, SMT
<1>5. ToShort(word) = x
  BY <1>1, <1>3, SMT DEF ToShort
<1>6. RawAxis(word % 256, word \div 256) = x \div 16
  BY <1>4, <1>5 DEF RawAxis
<1>7. ReadBack(s, l) = RawAxis(word % 256, word \div 256)
  BY DEF ReadBack, Word, x, word
<1>8. QED
  BY <1>2, <1>6, <1>7

\* A quarter, cut towards zero.
LEMMA QuarterIsClose ==
    ASSUME NEW a \in Int
    PROVE  /\ Abs(4 * Quotient(a, 4) - a) < 4
           /\ Between(Quotient(a, 4), 0, a)
<1>1. CASE a >= 0
  <2> DEFINE q == a \div 4
  <2>1. Quotient(a, 4) = q
    BY <1>1 DEF Quotient
  <2>2. q \in Int /\ 4 * q <= a /\ a < 4 * q + 4 /\ 0 <= q
    BY <1>1
  <2> HIDE DEF q
  <2>3. QED
    BY <2>1, <2>2 DEF Abs, Between
<1>2. CASE a < 0
  <2> DEFINE q == (-a) \div 4
  <2>1. Quotient(a, 4) = -q
    BY <1>2 DEF Quotient
  <2>2. q \in Int /\ 4 * q <= -a /\ -a < 4 * q + 4 /\ 0 <= q
    BY <1>2
  <2> HIDE DEF q
  <2>3. QED
    BY <1>2, <2>1, <2>2 DEF Abs, Between
<1>3. QED
  BY <1>1, <1>2

\* The zoomed axis.
CloseTo(z, s) == Abs(4 * z - 5 * s) < 4 /\ Between(z, 0, 5 * s)

LEMMA ZoomIsClose ==
    ASSUME NEW s \in Int, NEW z \in BOOLEAN, z
    PROVE  CloseTo(Zoomed(s, z), s)
<1>1. s * 5 = 5 * s /\ s * 5 \in Int
  OBVIOUS
<1>2. Zoomed(s, z) = Quotient(5 * s, 4)
  BY <1>1 DEF Zoomed
<1>3. QED
  BY <1>1, <1>2, QuarterIsClose DEF CloseTo

\* Any filter context.
FilterContexts ==
    [sample_l : Int, sample_h : Int, param_l : Nat \ {0}, param_h : Nat \ {0},
     refN_l : Refs, refN_h : Refs, threshold : Nat]

\* The enhanced filter, for any threshold: the fast average and the slow one stay
\* between their old values and the sample, or the slow one is the fast one, and they
\* differ by the threshold at most.
THEOREM EnhancedStaysBetween ==
    ASSUME NEW fac \in FilterContexts, NEW s \in Int
    PROVE  LET new == FilterAverageEnhance(fac, s)
           IN  /\ Between(new.sample_l, fac.sample_l, s)
               /\ Between(new.sample_h, fac.sample_h, s) \/ new.sample_h = new.sample_l
               /\ Abs(new.sample_l - new.sample_h) <= fac.threshold
<1> DEFINE low  == FilterAverage(fac.sample_l, s, fac.param_l, fac.refN_l)
           high == FilterAverage(fac.sample_h, s, fac.param_h, fac.refN_h)
           new  == FilterAverageEnhance(fac, s)
<1>1. /\ fac.sample_l \in Int /\ fac.sample_h \in Int
      /\ fac.param_l \in Nat \ {0} /\ fac.param_h \in Nat \ {0}
      /\ fac.refN_l \in Refs /\ fac.refN_h \in Refs /\ fac.threshold \in Nat
      /\ fac = [sample_l |-> fac.sample_l, sample_h |-> fac.sample_h, param_l |-> fac.param_l,
                param_h |-> fac.param_h, refN_l |-> fac.refN_l, refN_h |-> fac.refN_h,
                threshold |-> fac.threshold]
  BY DEF FilterContexts
<1>2. Between(low.ave, fac.sample_l, s)
  BY <1>1, AverageStaysBetween
<1>3. Between(high.ave, fac.sample_h, s)
  BY <1>1, AverageStaysBetween
<1>4. low.ave \in Int /\ high.ave \in Int
  BY <1>1, AverageIsInt
<1>5. /\ new.sample_l = low.ave
      /\ new.sample_h = low.ave \/ (new.sample_h = high.ave /\ ~(Abs(low.ave - high.ave) > fac.threshold))
  <2>1. CASE fac.param_l = fac.param_h
    <3>1. new = [fac EXCEPT !.sample_l = low.ave, !.sample_h = low.ave, !.refN_l = low.ref]
      BY <2>1 DEF FilterAverageEnhance
    <3> HIDE DEF low, high, new
    <3>2. QED
      BY <3>1
  <2>2. CASE fac.param_l # fac.param_h
    <3>1. new = [fac EXCEPT !.sample_l = low.ave, !.refN_l = low.ref, !.refN_h = high.ref,
                            !.sample_h = IF Abs(low.ave - high.ave) > fac.threshold
                                         THEN low.ave ELSE high.ave]
      BY <2>2 DEF FilterAverageEnhance
    <3> HIDE DEF low, high, new
    <3>2. QED
      BY <3>1
  <2>3. QED
    BY <2>1, <2>2
<1> HIDE DEF low, high, new
<1>6. Abs(new.sample_l - new.sample_h) <= fac.threshold
  BY <1>1, <1>4, <1>5 DEF Abs
<1>7. Between(new.sample_l, fac.sample_l, s)
  BY <1>2, <1>5
<1>8. Between(new.sample_h, fac.sample_h, s) \/ new.sample_h = new.sample_l
  BY <1>3, <1>5
<1>9. QED
  BY <1>6, <1>7, <1>8 DEF new

\* Where each direction takes the axes.
Turn(d, i) == DirectionRemap(Axis(i), d)

LEMMA Turns ==
    ASSUME NEW d \in 0..7
    PROVE
    /\ d = 0 => Turn(d, 1) = <<1, 0, 0>> /\ Turn(d, 2) = <<0, 1, 0>> /\ Turn(d, 3) = <<0, 0, 1>>
    /\ d = 1 => Turn(d, 1) = <<0, 1, 0>> /\ Turn(d, 2) = <<-1, 0, 0>> /\ Turn(d, 3) = <<0, 0, 1>>
    /\ d = 2 => Turn(d, 1) = <<-1, 0, 0>> /\ Turn(d, 2) = <<0, -1, 0>> /\ Turn(d, 3) = <<0, 0, 1>>
    /\ d = 3 => Turn(d, 1) = <<0, -1, 0>> /\ Turn(d, 2) = <<1, 0, 0>> /\ Turn(d, 3) = <<0, 0, 1>>
    /\ d = 4 => Turn(d, 1) = <<-1, 0, 0>> /\ Turn(d, 2) = <<0, 1, 0>> /\ Turn(d, 3) = <<0, 0, -1>>
    /\ d = 5 => Turn(d, 1) = <<0, 1, 0>> /\ Turn(d, 2) = <<1, 0, 0>> /\ Turn(d, 3) = <<0, 0, -1>>
    /\ d = 6 => Turn(d, 1) = <<1, 0, 0>> /\ Turn(d, 2) = <<0, -1, 0>> /\ Turn(d, 3) = <<0, 0, -1>>
    /\ d = 7 => Turn(d, 1) = <<0, -1, 0>> /\ Turn(d, 2) = <<-1, 0, 0>> /\ Turn(d, 3) = <<0, 0, -1>>
<1>1. Axis(1) = <<1, 0, 0>> /\ Axis(2) = <<0, 1, 0>> /\ Axis(3) = <<0, 0, 1>>
  BY DEF Axis
<1>2. CASE d = 0
  <2>1. Remap[d + 1] = <<0, 0, 0, 0>>
    BY <1>2 DEF Remap
  <2>2. QED
    BY <1>1, <1>2, <2>1 DEF Turn, DirectionRemap
<1>3. CASE d = 1
  <2>1. Remap[d + 1] = <<0, 1, 0, 1>>
    BY <1>3 DEF Remap
  <2>2. QED
    BY <1>1, <1>3, <2>1 DEF Turn, DirectionRemap
<1>4. CASE d = 2
  <2>1. Remap[d + 1] = <<1, 1, 0, 0>>
    BY <1>4 DEF Remap
  <2>2. QED
    BY <1>1, <1>4, <2>1 DEF Turn, DirectionRemap
<1>5. CASE d = 3
  <2>1. Remap[d + 1] = <<1, 0, 0, 1>>
    BY <1>5 DEF Remap
  <2>2. QED
    BY <1>1, <1>5, <2>1 DEF Turn, DirectionRemap
<1>6. CASE d = 4
  <2>1. Remap[d + 1] = <<1, 0, 1, 0>>
    BY <1>6 DEF Remap
  <2>2. QED
    BY <1>1, <1>6, <2>1 DEF Turn, DirectionRemap
<1>7. CASE d = 5
  <2>1. Remap[d + 1] = <<0, 0, 1, 1>>
    BY <1>7 DEF Remap
  <2>2. QED
    BY <1>1, <1>7, <2>1 DEF Turn, DirectionRemap
<1>8. CASE d = 6
  <2>1. Remap[d + 1] = <<0, 1, 1, 0>>
    BY <1>8 DEF Remap
  <2>2. QED
    BY <1>1, <1>8, <2>1 DEF Turn, DirectionRemap
<1>9. CASE d = 7
  <2>1. Remap[d + 1] = <<1, 1, 1, 1>>
    BY <1>9 DEF Remap
  <2>2. QED
    BY <1>1, <1>9, <2>1 DEF Turn, DirectionRemap
<1>10. QED
  BY <1>2, <1>3, <1>4, <1>5, <1>6, <1>7, <1>8, <1>9

\* mir3da_direction_remap: x cross y stays z, and no two directions are the same.
LEMMA DirectionsTurn ==
    ASSUME NEW d \in 0..7
    PROVE  /\ Cross(Turn(d, 1), Turn(d, 2)) = Turn(d, 3)
           /\ \A e \in 0..7 \ {d} : Turn(e, 1) # Turn(d, 1) \/ Turn(e, 2) # Turn(d, 2)
<1>1. Cross(Turn(d, 1), Turn(d, 2)) = Turn(d, 3)
  BY Turns DEF Cross
<1>2. ASSUME NEW e \in 0..7 \ {d} PROVE Turn(e, 1) # Turn(d, 1) \/ Turn(e, 2) # Turn(d, 2)
  BY Turns
<1>3. QED
  BY <1>1, <1>2

\* What the runs check of mir3da_read_data, for any set of samples and lengths.
THEOREM ReportRightHolds == input \in FilterCalls => ReportRight
<1> SUFFICES ASSUME input \in FilterCalls PROVE ReportRight
  OBVIOUS
<1>1. ASSUME Calls("mir3da_read_raw_data") PROVE RawExact
  <2>1. input \in RawCalls
    BY <1>1 DEF FilterCalls, AverageCalls, EnhanceCalls, RemapCalls, Calls
  <2> DEFINE s == input.sample
             o == input.other
             l == input.low
             z == input.bSensZoom
  <2>2. s \in Samples /\ o \in {-2048, 5} /\ l \in {0, 15} /\ z \in BOOLEAN
    BY <2>1 DEF RawCalls
  <2> HIDE DEF s, o, l, z
  <2>3. /\ s \in Int /\ -2048 <= s /\ s < 2048 /\ l \in 0..15
        /\ o \in Int /\ -2048 <= o /\ o < 2048
    BY <2>2 DEF Samples
  <2> DEFINE w == Word(s, l)
             v == Word(o, l)
             axes == ReadRawData(<<w % 256, w \div 256, v % 256, v \div 256, w % 256, w \div 256>>, z)
  <2>4. RawAxis(w % 256, w \div 256) = s /\ RawAxis(v % 256, v \div 256) = o
    BY <2>3, RawGivesBack DEF ReadBack
  <2> HIDE DEF w, v
  <2>5. axes = <<s, o, Zoomed(s, z)>>
    BY <2>4 DEF ReadRawData
  <2> HIDE DEF axes
  <2>6. axes[1] = s /\ axes[2] = o /\ axes[3] = Zoomed(s, z)
    BY <2>5
  <2>7. CASE z
    <3>0. s \in Int /\ z \in BOOLEAN
      BY <2>2, <2>3
    <3>1. CloseTo(Zoomed(s, z), s)
      BY <2>7, <3>0, ZoomIsClose, Zenon
    <3>2. CloseTo(axes[3], s)
      BY <2>6, <3>1, Zenon
    <3>3. Abs(4 * axes[3] - 5 * s) < 4 /\ Between(axes[3], 0, 5 * s)
      BY <3>2 DEF CloseTo
    <3>4. QED
      BY <2>6, <2>7, <3>3 DEF RawExact, axes, w, v, s, o, l, z
  <2>8. CASE ~z
    <3>1. axes[3] = s
      BY <2>6, <2>8 DEF Zoomed
    <3>2. QED
      BY <2>6, <2>8, <3>1 DEF RawExact, axes, w, v, s, o, l, z
  <2>9. QED
    BY <2>7, <2>8
<1>2. ASSUME Calls("filter_average_enhance") PROVE EnhanceBounded
  <2>1. input \in EnhanceCalls
    BY <1>2 DEF FilterCalls, AverageCalls, RawCalls, RemapCalls, Calls
  <2>2. Levels \subseteq Int /\ Lengths \subseteq Nat \ {0}
    BY FilterAssumption
  <2>3. input.fac \in Contexts /\ input.sample \in Levels
    BY <2>1 DEF EnhanceCalls
  <2>4. 0 \in Refs
    BY DEF Refs, SPIKES
  <2> DEFINE fac == input.fac
  <2>5. fac \in FilterContexts
    <3> HIDE DEF fac
    <3>1. fac \in [sample_l : Levels, sample_h : Levels, param_l : Lengths, param_h : Lengths,
                   refN_l : Refs, refN_h : {0}, threshold : {0, 60}]
      BY <2>3 DEF Contexts, fac
    <3>2. /\ fac.sample_l \in Int /\ fac.sample_h \in Int
          /\ fac.param_l \in Nat \ {0} /\ fac.param_h \in Nat \ {0}
          /\ fac.refN_l \in Refs /\ fac.refN_h \in Refs /\ fac.threshold \in Nat
      <4>1. /\ fac.sample_l \in Levels /\ fac.sample_h \in Levels
            /\ fac.param_l \in Lengths /\ fac.param_h \in Lengths
            /\ fac.refN_l \in Refs /\ fac.refN_h \in {0} /\ fac.threshold \in {0, 60}
        BY <3>1
      <4>2. fac.refN_h \in Refs /\ fac.threshold \in Nat
        BY <2>4, <4>1
      <4>3. QED
        BY <2>2, <4>1, <4>2
    <3>3. fac = [sample_l |-> fac.sample_l, sample_h |-> fac.sample_h, param_l |-> fac.param_l,
                 param_h |-> fac.param_h, refN_l |-> fac.refN_l, refN_h |-> fac.refN_h,
                 threshold |-> fac.threshold]
      BY <3>1
    <3>4. QED
      BY <3>2, <3>3 DEF FilterContexts
  <2>6. input.sample \in Int
    BY <2>2, <2>3
  <2>7. QED
    BY <2>5, <2>6, EnhancedStaysBetween DEF EnhanceBounded
<1>3. ASSUME Calls("mir3da_direction_remap") PROVE RemapRotates
  <2>1. input \in RemapCalls
    BY <1>3 DEF FilterCalls, AverageCalls, RawCalls, EnhanceCalls, Calls
  <2>2. input.direction \in 0..7
    BY <2>1 DEF RemapCalls
  <2> DEFINE d == input.direction
             T(f) == [i \in 1..3 |-> DirectionRemap(Axis(i), f)]
  <2>3. \A f \in 0..7 : T(f)[1] = Turn(f, 1) /\ T(f)[2] = Turn(f, 2) /\ T(f)[3] = Turn(f, 3)
    BY DEF Turn
  <2> HIDE DEF T
  <2>4. Cross(T(d)[1], T(d)[2]) = T(d)[3]
    BY <2>2, <2>3, DirectionsTurn
  <2>5. \A e \in 0..7 \ {d} : T(e) # T(d)
    <3>1. ASSUME NEW e \in 0..7 \ {d}, T(e) = T(d) PROVE FALSE
      <4>1. Turn(e, 1) = Turn(d, 1) /\ Turn(e, 2) = Turn(d, 2)
        BY <2>2, <2>3, <3>1
      <4>2. QED
        BY <2>2, <4>1, DirectionsTurn
    <3>2. QED
      BY <3>1
  <2>6. QED
    BY <2>4, <2>5 DEF RemapRotates, T
<1>4. QED
  BY <1>1, <1>2, <1>3 DEF ReportRight
-----------------------------------------------------------------------------
(* Mir3daChip.  The bits of the registers are shared out among the         *)
(* features (Owner), whatever values are written; programs that write bits *)
(* of different owners may be exchanged.                                   *)

MaskWrites == [reg : Registers, mask : SUBSET Byte, val : SUBSET Nat]

\* Bit b of register r is in no mask of ws; some write of ws leaves it 1.
Untouched(ws, r, b) == \A j \in DOMAIN ws : ws[j].reg = r => b \notin ws[j].mask
LeftOn(ws, r, b) ==
    \E i \in DOMAIN ws :
        /\ ws[i].reg = r /\ b \in ws[i].val /\ b \in ws[i].mask
        /\ \A j \in DOMAIN ws : j > i /\ ws[j].reg = r => b \notin ws[j].mask

LEMMA AfterBit ==
    ASSUME NEW bank, NEW ws \in Seq(MaskWrites), NEW r \in DOMAIN bank, NEW b
    PROVE  b \in After(bank, ws)[r]
             <=> (b \in bank[r] /\ Untouched(ws, r, b)) \/ LeftOn(ws, r, b)
<1> DEFINE hits == {i \in DOMAIN ws : ws[i].reg = r}
           Kept(i) == \A j \in hits : j > i => b \notin ws[j].mask
<1>1. b \in After(bank, ws)[r]
        <=> (b \in bank[r] /\ Kept(0))
            \/ \E i \in hits : b \in ws[i].val /\ b \in ws[i].mask /\ Kept(i)
  BY DEF After
<1>2. DOMAIN ws = 1..Len(ws) /\ Len(ws) \in Nat
  OBVIOUS
<1>3. Kept(0) <=> Untouched(ws, r, b)
  <2>1. \A j \in hits : j > 0
    BY <1>2
  <2>2. QED
    BY <2>1 DEF Untouched
<1>4. \A i \in DOMAIN ws : Kept(i) <=> \A j \in DOMAIN ws : j > i /\ ws[j].reg = r => b \notin ws[j].mask
  OBVIOUS
<1>5. (\E i \in hits : b \in ws[i].val /\ b \in ws[i].mask /\ Kept(i)) <=> LeftOn(ws, r, b)
  BY <1>4 DEF LeftOn
<1>6. QED
  BY <1>1, <1>3, <1>5

LEMMA CatBits ==
    ASSUME NEW p \in Seq(MaskWrites), NEW q \in Seq(MaskWrites), NEW r, NEW b
    PROVE  /\ p \o q \in Seq(MaskWrites)
           /\ Untouched(p \o q, r, b) <=> Untouched(p, r, b) /\ Untouched(q, r, b)
           /\ LeftOn(p \o q, r, b) <=> LeftOn(q, r, b) \/ (LeftOn(p, r, b) /\ Untouched(q, r, b))
<1> DEFINE m == Len(p)
           n == Len(q)
           s == p \o q
<1>1. /\ m \in Nat /\ n \in Nat /\ s \in Seq(MaskWrites) /\ Len(s) = m + n
      /\ DOMAIN p = 1..m /\ DOMAIN q = 1..n /\ DOMAIN s = 1..(m + n)
      /\ \A i \in 1..m : s[i] = p[i]
  OBVIOUS
<1>2. \A i \in 1..n : s[m + i] = q[i]
  OBVIOUS
<1>3. \A i \in 1..(m + n) : i \in 1..m \/ \E k \in 1..n : i = m + k
  <2>1. \A i \in 1..(m + n) : i \in 1..m \/ (i - m \in 1..n /\ i = m + (i - m))
    BY <1>1
  <2>2. QED
    BY <2>1
<1>4. \A i \in 1..m : i \in 1..(m + n)
  BY <1>1
<1>5. \A i \in 1..n : m + i \in 1..(m + n) /\ m + i > m
  BY <1>1
<1> HIDE DEF s, m, n
<1>6. Untouched(s, r, b) <=> Untouched(p, r, b) /\ Untouched(q, r, b)
  <2>1. ASSUME Untouched(s, r, b) PROVE Untouched(p, r, b) /\ Untouched(q, r, b)
    BY <1>1, <1>2, <1>4, <1>5, <2>1 DEF Untouched
  <2>2. ASSUME Untouched(p, r, b), Untouched(q, r, b), NEW j \in 1..(m + n), s[j].reg = r
        PROVE  b \notin s[j].mask
    <3>1. CASE j \in 1..m
      BY <1>1, <2>2, <3>1 DEF Untouched
    <3>2. CASE \E k \in 1..n : j = m + k
      BY <1>1, <1>2, <2>2, <3>2 DEF Untouched
    <3>3. QED
      BY <1>3, <3>1, <3>2
  <2>3. QED
    BY <1>1, <2>1, <2>2 DEF Untouched
<1>7. ASSUME LeftOn(s, r, b) PROVE LeftOn(q, r, b) \/ (LeftOn(p, r, b) /\ Untouched(q, r, b))
  <2>1. PICK i \in 1..(m + n) :
           /\ s[i].reg = r /\ b \in s[i].val /\ b \in s[i].mask
           /\ \A j \in 1..(m + n) : j > i /\ s[j].reg = r => b \notin s[j].mask
    BY <1>1, <1>7 DEF LeftOn
  <2>2. CASE i \in 1..m
    <3>1. \A j \in 1..m : j > i /\ p[j].reg = r => b \notin p[j].mask
      BY <1>1, <1>4, <2>1
    <3>2. LeftOn(p, r, b)
      BY <1>1, <2>1, <2>2, <3>1 DEF LeftOn
    <3>3. \A j \in 1..n : m + j > i
      BY <1>1, <2>2
    <3>4. Untouched(q, r, b)
      BY <1>1, <1>2, <1>5, <2>1, <3>3 DEF Untouched
    <3>5. QED
      BY <3>2, <3>4
  <2>3. CASE \E k \in 1..n : i = m + k
    <3>1. PICK k \in 1..n : i = m + k
      BY <2>3
    <3>2. \A j \in 1..n : j > k => m + j > i
      BY <1>1, <3>1
    <3>3. \A j \in 1..n : j > k /\ q[j].reg = r => b \notin q[j].mask
      BY <1>2, <1>5, <2>1, <3>2
    <3>4. q[k].reg = r /\ b \in q[k].val /\ b \in q[k].mask
      BY <1>2, <2>1, <3>1
    <3>5. QED
      BY <1>1, <3>3, <3>4 DEF LeftOn
  <2>4. QED
    BY <1>3, <2>2, <2>3
<1>8. ASSUME LeftOn(q, r, b) PROVE LeftOn(s, r, b)
  <2>1. PICK k \in 1..n :
           /\ q[k].reg = r /\ b \in q[k].val /\ b \in q[k].mask
           /\ \A j \in 1..n : j > k /\ q[j].reg = r => b \notin q[j].mask
    BY <1>1, <1>8 DEF LeftOn
  <2>2. s[m + k].reg = r /\ b \in s[m + k].val /\ b \in s[m + k].mask /\ m + k \in 1..(m + n)
    BY <1>2, <1>5, <2>1
  <2>3. ASSUME NEW j \in 1..(m + n), j > m + k, s[j].reg = r PROVE b \notin s[j].mask
    <3>1. j \notin 1..m
      BY <1>1, <2>3
    <3>2. PICK l \in 1..n : j = m + l
      BY <1>3, <3>1
    <3>3. l > k
      BY <1>1, <2>3, <3>2
    <3>4. QED
      BY <1>2, <2>1, <2>3, <3>2, <3>3
  <2>4. QED
    BY <1>1, <2>2, <2>3 DEF LeftOn
<1>9. ASSUME LeftOn(p, r, b), Untouched(q, r, b) PROVE LeftOn(s, r, b)
  <2>1. PICK i \in 1..m :
           /\ p[i].reg = r /\ b \in p[i].val /\ b \in p[i].mask
           /\ \A j \in 1..m : j > i /\ p[j].reg = r => b \notin p[j].mask
    BY <1>1, <1>9 DEF LeftOn
  <2>2. s[i].reg = r /\ b \in s[i].val /\ b \in s[i].mask /\ i \in 1..(m + n)
    BY <1>1, <1>4, <2>1
  <2>3. ASSUME NEW j \in 1..(m + n), j > i, s[j].reg = r PROVE b \notin s[j].mask
    <3>1. CASE j \in 1..m
      BY <1>1, <2>1, <2>3, <3>1
    <3>2. CASE \E l \in 1..n : j = m + l
      BY <1>1, <1>2, <1>9, <2>3, <3>2 DEF Untouched
    <3>3. QED
      BY <1>3, <3>1, <3>2
  <2>4. QED
    BY <1>1, <2>2, <2>3 DEF LeftOn
<1>10. QED
  BY <1>1, <1>6, <1>7, <1>8, <1>9 DEF s

\* Two programs that share no bit.
Apart(p, q) ==
    \A i \in DOMAIN p, j \in DOMAIN q : p[i].reg = q[j].reg => p[i].mask \cap q[j].mask = {}

LEMMA Exchange ==
    ASSUME NEW bank, NEW p \in Seq(MaskWrites), NEW q \in Seq(MaskWrites), Apart(p, q)
    PROVE  After(bank, p \o q) = After(bank, q \o p)
<1>1. ASSUME NEW r \in DOMAIN bank, NEW b
      PROVE  b \in After(bank, p \o q)[r] <=> b \in After(bank, q \o p)[r]
  <2>1. Untouched(p, r, b) \/ Untouched(q, r, b)
    BY DEF Apart, Untouched
  <2>2. LeftOn(p, r, b) => ~Untouched(p, r, b)
    BY DEF LeftOn, Untouched
  <2>3. LeftOn(q, r, b) => ~Untouched(q, r, b)
    BY DEF LeftOn, Untouched
  <2>4. /\ p \o q \in Seq(MaskWrites)
        /\ Untouched(p \o q, r, b) <=> Untouched(p, r, b) /\ Untouched(q, r, b)
        /\ LeftOn(p \o q, r, b) <=> LeftOn(q, r, b) \/ (LeftOn(p, r, b) /\ Untouched(q, r, b))
    BY CatBits
  <2>5. /\ q \o p \in Seq(MaskWrites)
        /\ Untouched(q \o p, r, b) <=> Untouched(q, r, b) /\ Untouched(p, r, b)
        /\ LeftOn(q \o p, r, b) <=> LeftOn(p, r, b) \/ (LeftOn(q, r, b) /\ Untouched(p, r, b))
    BY CatBits
  <2>6. b \in After(bank, p \o q)[r]
          <=> (b \in bank[r] /\ Untouched(p \o q, r, b)) \/ LeftOn(p \o q, r, b)
    BY <2>4, AfterBit
  <2>7. b \in After(bank, q \o p)[r]
          <=> (b \in bank[r] /\ Untouched(q \o p, r, b)) \/ LeftOn(q \o p, r, b)
    BY <2>5, AfterBit
  <2>8. QED
    BY <2>1, <2>2, <2>3, <2>4, <2>5, <2>6, <2>7
<1>2. ASSUME NEW ws
      PROVE  /\ After(bank, ws) = [r \in DOMAIN bank |-> After(bank, ws)[r]]
  BY DEF After
<1>3. \A r \in DOMAIN bank : After(bank, p \o q)[r] = After(bank, q \o p)[r]
  BY <1>1
<1>4. QED
  BY <1>2, <1>3, Zenon

\* What a bit of a register belongs to: a feature, or the switch of an interrupt source,
\* which its configuration leaves alone.
Switch(src) == IF src = "activity" THEN "activity_switch" ELSE "click_switch"

Owner(r, b) ==
    CASE r \in {"TEMP_CFG", "POWERMODE_BW"}                     -> "enable_store"
      [] r \in {"CTRL_REG1", "ODR_AXIS_DISABLE"}                -> "set_odr"
      [] r \in {"CTRL_REG5", "INT_PIN_CONFIG"}                  -> "init"
      [] r = "INT_LATCH"           -> IF b = 7 THEN "clear_intterrupt" ELSE "init"
      [] r = "CTRL_REG6"           -> IF b = 1 THEN "init" ELSE IF b = 5 THEN "activity" ELSE "click"
      [] r = "CLICK_CFG"           -> IF b = 6 THEN "init" ELSE Switch("click")
      [] r = "CTRL_REG3"           -> IF b = 6 THEN "activity" ELSE "click"
      [] r = "INTERRUPT_SETTINGS1" -> IF b <= 2 THEN Switch("activity") ELSE Switch("click")
      [] r \in {"INT1_CFG", "INT2_CFG"}                         -> Switch("activity")
      [] r \in {"INTERRUPT_MAPPING1", "INTERRUPT_MAPPING3"}     -> IF b = 2 THEN "activity" ELSE "click"
      [] r \in {"INT1_THS", "INT2_THS", "INT1_DURATION", "INT2_DURATION",
                "ACTIVE_THRESHOLD", "ACTIVE_DURATION"}          -> "activity"
      [] OTHER                                                  -> "click"

\* What an operation on one feature writes.
PartOf(o) == IF o.type \in {"enable", "disable"} THEN Switch(o.src) ELSE FeatureOf(o)

\* The writes that keep to the bits of f.
OwnWrites(f) == {w \in MaskWrites : \A b \in w.mask : Owner(w.reg, b) = f}

LEMMA OwnWrite ==
    ASSUME NEW f, NEW reg \in Registers, NEW mask \in SUBSET Byte, NEW val \in SUBSET Nat,
           \A b \in mask : Owner(reg, b) = f
    PROVE  MaskWrite(reg, mask, val) \in OwnWrites(f)
BY DEF OwnWrites, MaskWrites, MaskWrite

LEMMA NumIsBits == \A n : Num(n) \in SUBSET Byte /\ Num(n) \in SUBSET Nat
BY DEF Num, Byte

LEMMA ShlIsNat == \A n : \A k \in Nat : Shl(n, k) \in SUBSET Nat
BY DEF Shl, Num, Byte

LEMMA Tuples ==
    ASSUME NEW S, NEW a \in S, NEW b \in S, NEW c \in S, NEW d \in S, NEW e \in S
    PROVE  /\ <<a>> \in Seq(S) /\ <<a, b>> \in Seq(S) /\ <<a, b, c>> \in Seq(S)
           /\ <<a, b, c, d, e>> \in Seq(S)
OBVIOUS

LEMMA OwnPower ==
    ASSUME NEW family \in Chips, NEW number
    PROVE  enable_store(family, number) \in Seq(OwnWrites("enable_store"))
<1> DEFINE S == OwnWrites("enable_store")
           v(k) == IF number > 0 THEN {} ELSE k
<1>1. MaskWrite("TEMP_CFG", {5}, v({5})) \in S
  BY OwnWrite DEF Byte, Registers, Owner
<1>2. MaskWrite("POWERMODE_BW", {6, 7}, v({6, 7})) \in S
  BY OwnWrite DEF Byte, Registers, Owner
<1>3. [Power(family) EXCEPT !.val = v(@)] \in S
  BY <1>1, <1>2 DEF Power, MaskWrite, Chips, Socle, Nsa
<1>4. QED
  BY <1>3 DEF enable_store, set_enable

LEMMA OwnRate ==
    ASSUME NEW family \in Chips, NEW delay
    PROVE  set_odr(family, delay) \in Seq(OwnWrites("set_odr"))
<1> DEFINE S == OwnWrites("set_odr")
<1>1. \A k \in {0, 1, 2} : odr_sect(family, k) \in S
  <2>1. \A k \in {0, 1, 2} : MaskWrite("CTRL_REG1", 4..7, Shl(4 + k, 4)) \in S
    BY OwnWrite, ShlIsNat DEF Byte, Registers, Owner
  <2>2. \A k \in {0, 1, 2} : MaskWrite("ODR_AXIS_DISABLE", 0..3, Num(6 + k)) \in S
    BY OwnWrite, NumIsBits DEF Byte, Registers, Owner
  <2>3. QED
    BY <2>1, <2>2 DEF odr_sect
<1>2. QED
  BY <1>1 DEF set_odr

LEMMA OwnInit ==
    ASSUME NEW family \in Chips, NEW o \in InitOps
    PROVE  interrupt_ops(family, o) \in Seq(OwnWrites("init"))
<1> DEFINE S == OwnWrites("init")
<1>0. o.type = "init"
  BY DEF InitOps
<1>1. MaskWrite("CTRL_REG6", {1}, Shl(o.level, 1)) \in S
  BY OwnWrite, ShlIsNat DEF Byte, Registers, Owner
<1>2. MaskWrite("CTRL_REG5", {3}, Shl(o.latch, 3)) \in S
  BY OwnWrite, ShlIsNat DEF Byte, Registers, Owner
<1>3. MaskWrite("CLICK_CFG", {6}, Shl(o.latch, 6)) \in S
  BY OwnWrite, ShlIsNat DEF Byte, Registers, Owner
<1>4. MaskWrite("INT_LATCH", 0..3, Num(o.latch)) \in S
  BY OwnWrite, NumIsBits DEF Byte, Registers, Owner
<1>5. UNION {Num(o.level), Shl(o.pin_mod, 1), Shl(o.level, 2), Shl(o.pin_mod, 3)} \in SUBSET Nat
  BY NumIsBits, ShlIsNat
<1>6. MaskWrite("INT_PIN_CONFIG", 0..3,
                UNION {Num(o.level), Shl(o.pin_mod, 1), Shl(o.level, 2), Shl(o.pin_mod, 3)}) \in S
  BY <1>5, OwnWrite DEF Byte, Registers, Owner
<1> HIDE DEF S
<1>7. SOCLE_interrupt_ops(o) \in Seq(S)
  BY <1>0, <1>1, <1>2, <1>3, Tuples DEF SOCLE_interrupt_ops
<1>8. NSA_interrupt_ops(o) \in Seq(S)
  BY <1>0, <1>4, <1>6, Tuples DEF NSA_interrupt_ops
<1>9. QED
  BY <1>7, <1>8 DEF interrupt_ops, S

LEMMA OwnSwitch ==
    ASSUME NEW family \in Chips, NEW o \in SwitchOps
    PROVE  interrupt_ops(family, o) \in Seq(OwnWrites(Switch(o.src)))
<1>0. o.type \in {"enable", "disable"} /\ o.src \in Sources
  BY DEF SwitchOps
<1>1. SOCLE_switch(o) \in Seq(OwnWrites(Switch(o.src)))
  <2>1. CASE o.src = "activity"
    <3> DEFINE S == OwnWrites(Switch("activity"))
               cfg == IF o.type = "enable" THEN 0..6 ELSE {}
    <3>1. FullWrite("INT1_CFG", cfg) \in S
      BY OwnWrite DEF FullWrite, Byte, Registers, Owner, Switch
    <3>2. FullWrite("INT2_CFG", cfg) \in S
      BY OwnWrite DEF FullWrite, Byte, Registers, Owner, Switch
    <3> HIDE DEF S
    <3>3. << FullWrite("INT1_CFG", cfg), FullWrite("INT2_CFG", cfg) >> \in Seq(S)
      BY <3>1, <3>2, Tuples
    <3>4. QED
      BY <2>1, <3>3 DEF SOCLE_switch, S
  <2>2. CASE o.src = "click"
    <3>1. MaskWrite("CLICK_CFG", 0..5, IF o.type = "enable" THEN 0..5 ELSE {}) \in OwnWrites(Switch("click"))
      BY OwnWrite DEF Byte, Registers, Owner, Switch
    <3>2. QED
      BY <2>2, <3>1, Tuples DEF SOCLE_switch
  <2>3. QED
    BY <1>0, <2>1, <2>2 DEF Sources
<1>2. NSA_switch(o) \in Seq(OwnWrites(Switch(o.src)))
  <2>1. MaskWrite("INTERRUPT_SETTINGS1", SettingBits(o.src),
                 IF o.type = "enable" THEN SettingBits(o.src) ELSE {}) \in OwnWrites(Switch(o.src))
    BY <1>0, OwnWrite DEF SettingBits, Sources, Switch, Byte, Registers, Owner
  <2>2. QED
    BY <2>1, Tuples DEF NSA_switch
<1>3. o.type # "init" /\ o.type # "config"
  BY <1>0
<1>4. QED
  BY <1>0, <1>1, <1>2, <1>3 DEF interrupt_ops, SOCLE_interrupt_ops, NSA_interrupt_ops

LEMMA OwnConfig ==
    ASSUME NEW family \in Chips, NEW o \in ConfigOps
    PROVE  interrupt_ops(family, o) \in Seq(OwnWrites(o.src))
<1>0. o.type = "config" /\ o.src \in Sources
  BY DEF ConfigOps, Sources
<1> DEFINE A == OwnWrites("activity")
           C == OwnWrites("click")
<1>1. ASSUME o.src = "activity" PROVE SOCLE_config(o) \in Seq(A)
  <2>1. /\ MaskWrite("CTRL_REG3", {6}, {6}) \in A
        /\ MaskWrite("CTRL_REG6", {5}, {5}) \in A
    BY OwnWrite DEF Byte, Registers, Owner
  <2>2. \A r \in {"INT1_THS", "INT2_THS", "INT1_DURATION", "INT2_DURATION"}, n \in {o.threshold, o.duration} :
           MaskWrite(r, 0..6, Num(n)) \in A
    BY OwnWrite, NumIsBits DEF Byte, Registers, Owner
  <2> HIDE DEF A
  <2>3. << MaskWrite("CTRL_REG3", {6}, {6}), MaskWrite("INT1_THS", 0..6, Num(o.threshold)),
           MaskWrite("INT1_DURATION", 0..6, Num(o.duration)) >> \in Seq(A)
    BY <2>1, <2>2, Tuples
  <2>4. << MaskWrite("CTRL_REG6", {5}, {5}), MaskWrite("INT2_THS", 0..6, Num(o.threshold)),
           MaskWrite("INT2_DURATION", 0..6, Num(o.duration)) >> \in Seq(A)
    BY <2>1, <2>2, Tuples
  <2>5. QED
    BY <1>1, <2>3, <2>4 DEF SOCLE_config
<1>2. ASSUME o.src # "activity" PROVE SOCLE_config(o) \in Seq(C)
  <2>1. /\ MaskWrite("CTRL_REG3", {7}, {7}) \in C
        /\ MaskWrite("CTRL_REG6", {7}, {7}) \in C
    BY OwnWrite DEF Byte, Registers, Owner
  <2>2. MaskWrite(IF o.pin = 1 THEN "CTRL_REG3" ELSE "CTRL_REG6", {7}, {7}) \in C
    BY <2>1
  <2>3. /\ MaskWrite("CLICK_THS", 0..6, Num(o.threshold)) \in C
        /\ MaskWrite("TIME_LIMIT", 0..6, Num(o.click_time)) \in C
    BY OwnWrite, NumIsBits DEF Byte, Registers, Owner
  <2>4. /\ FullWrite("TIME_LATENCY", Num(o.quiet_time)) \in C
        /\ FullWrite("TIME_WINDOW", Num(o.window)) \in C
    BY OwnWrite, NumIsBits DEF FullWrite, Byte, Registers, Owner
  <2> HIDE DEF C
  <2>5. << MaskWrite("CLICK_THS", 0..6, Num(o.threshold)),
           MaskWrite("TIME_LIMIT", 0..6, Num(o.click_time)),
           FullWrite("TIME_LATENCY", Num(o.quiet_time)),
           FullWrite("TIME_WINDOW", Num(o.window)),
           MaskWrite(IF o.pin = 1 THEN "CTRL_REG3" ELSE "CTRL_REG6", {7}, {7}) >> \in Seq(C)
    BY <2>2, <2>3, <2>4, Tuples
  <2>6. QED
    BY <1>2, <2>5 DEF SOCLE_config
<1> DEFINE mapping == IF o.pin = 1 THEN "INTERRUPT_MAPPING1" ELSE "INTERRUPT_MAPPING3"
<1>3. ASSUME o.src = "activity" PROVE NSA_config(o) \in Seq(A)
  <2>1. FullWrite("ACTIVE_THRESHOLD", Num(o.threshold)) \in A
    BY OwnWrite, NumIsBits DEF FullWrite, Byte, Registers, Owner
  <2>2. MaskWrite("ACTIVE_DURATION", {0, 1}, Num(o.duration)) \in A
    BY OwnWrite, NumIsBits DEF Byte, Registers, Owner
  <2>3. MaskWrite(mapping, {2}, {2}) \in A
    BY OwnWrite DEF Byte, Registers, Owner
  <2> HIDE DEF A
  <2>4. QED
    BY <1>3, <2>1, <2>2, <2>3, Tuples DEF NSA_config
<1>4. ASSUME o.src # "activity" PROVE NSA_config(o) \in Seq(C)
  <2>1. MaskWrite("TAP_THRESHOLD", 0..4, Num(o.threshold)) \in C
    BY OwnWrite, NumIsBits DEF Byte, Registers, Owner
  <2>2. Shl(o.quiet_time, 7) \cup Shl(o.click_time, 6) \cup Num(o.window) \in SUBSET Nat
    BY NumIsBits, ShlIsNat
  <2>3. MaskWrite("TAP_DURATION", {0, 1, 2, 5, 6},
                  Shl(o.quiet_time, 7) \cup Shl(o.click_time, 6) \cup Num(o.window)) \in C
    BY <2>2, OwnWrite DEF Byte, Registers, Owner
  <2>4. MaskWrite(mapping, {4, 5}, {4, 5}) \in C
    BY OwnWrite DEF Byte, Registers, Owner
  <2> HIDE DEF C
  <2>5. QED
    BY <1>4, <2>1, <2>3, <2>4, Tuples DEF NSA_config
<1> HIDE DEF A, C
<1>5. o.src \in {"activity", "click"} /\ o.type # "init"
  BY <1>0 DEF Sources
<1>6. interrupt_ops(family, o) \in {SOCLE_config(o), NSA_config(o)}
  BY <1>0 DEF interrupt_ops, SOCLE_interrupt_ops, NSA_interrupt_ops
<1>7. QED
  BY <1>1, <1>2, <1>3, <1>4, <1>5, <1>6 DEF A, C

\* Each operation of one feature keeps to its own bits, whatever its parameters are.
LEMMA OpsKeepToTheirBits ==
    ASSUME NEW family \in Chips, NEW o \in FeatureOps(family)
    PROVE  Writes(family, o) \in Seq(OwnWrites(PartOf(o)))
<1>1. CASE o \in PowerOps
  <2>1. o.type = "enable_store"
    BY <1>1 DEF PowerOps
  <2>2. QED
    BY <2>1, OwnPower DEF Writes, PartOf, FeatureOf
<1>2. CASE o \in RateOps
  <2>1. o.type = "set_odr"
    BY <1>2 DEF RateOps
  <2>2. QED
    BY <2>1, OwnRate DEF Writes, PartOf, FeatureOf
<1>3. CASE o \in InitOps
  <2>1. o.type = "init"
    BY <1>3 DEF InitOps
  <2>2. Writes(family, o) = interrupt_ops(family, o) /\ PartOf(o) = "init"
    BY <2>1 DEF Writes, PartOf, FeatureOf
  <2>3. QED
    BY <1>3, <2>2, OwnInit
<1>4. CASE o \in SwitchOps
  <2>1. o.type \in {"enable", "disable"}
    BY <1>4 DEF SwitchOps
  <2>2. Writes(family, o) = interrupt_ops(family, o) /\ PartOf(o) = Switch(o.src)
    BY <2>1 DEF Writes, PartOf, FeatureOf
  <2>3. QED
    BY <1>4, <2>2, OwnSwitch
<1>5. CASE o \in ConfigOps
  <2>1. o.type = "config"
    BY <1>5 DEF ConfigOps
  <2>2. Writes(family, o) = interrupt_ops(family, o) /\ PartOf(o) = o.src
    BY <2>1 DEF Writes, PartOf, FeatureOf
  <2>3. QED
    BY <1>5, <2>2, OwnConfig
<1>6. CASE o \in ClearOps
  <2>1. o.type = "clear_intterrupt"
    BY <1>6 DEF ClearOps
  <2>2. MaskWrite("INT_LATCH", {7}, Num(\h86)) \in OwnWrites("clear_intterrupt")
    BY OwnWrite, NumIsBits DEF Byte, Registers, Owner
  <2>3. clear_intterrupt \in Seq(OwnWrites("clear_intterrupt"))
    BY <2>2, Tuples DEF clear_intterrupt
  <2>4. QED
    BY <2>1, <2>3 DEF Writes, PartOf, FeatureOf
<1>7. QED
  BY <1>1, <1>2, <1>3, <1>4, <1>5, <1>6 DEF FeatureOps

LEMMA OwnersApart ==
    ASSUME NEW f, NEW g, f # g, NEW p \in Seq(OwnWrites(f)), NEW q \in Seq(OwnWrites(g))
    PROVE  p \in Seq(MaskWrites) /\ q \in Seq(MaskWrites) /\ Apart(p, q)
<1>1. \A i \in DOMAIN p : p[i] \in OwnWrites(f)
  OBVIOUS
<1>2. \A i \in DOMAIN q : q[i] \in OwnWrites(g)
  OBVIOUS
<1>3. Apart(p, q)
  BY <1>1, <1>2 DEF OwnWrites, Apart
<1>4. OwnWrites(f) \subseteq MaskWrites /\ OwnWrites(g) \subseteq MaskWrites
  BY DEF OwnWrites
<1>5. QED
  BY <1>3, <1>4

LEMMA FeaturesHaveParts ==
    ASSUME NEW family \in Chips, NEW o \in FeatureOps(family), NEW p \in FeatureOps(family),
           FeatureOf(o) # FeatureOf(p)
    PROVE  PartOf(o) # PartOf(p)
<1>1. ASSUME NEW a \in FeatureOps(family)
      PROVE  \/ a.type \in {"enable", "disable"} /\ a.src \in {"activity", "click"}
             \/ a.type = "config" /\ a.src \in {"activity", "click"}
             \/ a.type \in {"enable_store", "set_odr", "init", "clear_intterrupt"}
  <2>1. CASE a \in SwitchOps
    BY <2>1 DEF SwitchOps, Sources
  <2>2. CASE a \in ConfigOps
    BY <2>2 DEF ConfigOps
  <2>3. CASE a \in InitOps
    BY <2>3 DEF InitOps
  <2>4. CASE a \in PowerOps \cup RateOps \cup ClearOps
    BY <2>4 DEF PowerOps, RateOps, ClearOps
  <2>5. QED
    BY <2>1, <2>2, <2>3, <2>4 DEF FeatureOps
<1>2. \A a \in {o, p} :
         \/ PartOf(a) = "activity_switch" /\ FeatureOf(a) = "activity"
         \/ PartOf(a) = "click_switch" /\ FeatureOf(a) = "click"
         \/ PartOf(a) = FeatureOf(a) /\ PartOf(a) \notin {"activity_switch", "click_switch"}
  BY <1>1 DEF PartOf, FeatureOf, Switch
<1>3. QED
  BY <1>2

(* mir3da_core.c: the operations of different features (power, data rate, the     *)
(* interrupt pins, the two interrupt sources) may be called in either order and   *)
(* leave the family the same, for every threshold, duration and time.               *)
THEOREM FeaturesIndependentHolds == input \in ChipCalls => FeaturesIndependent
<1> SUFFICES ASSUME input \in ChipCalls, Calls("operation"), input.op \in FeatureOps(input.chip),
                    NEW o \in FeatureOps(input.chip), NEW bank \in Contents,
                    FeatureOf(o) # FeatureOf(input.op)
             PROVE  After(bank, Writes(input.chip, input.op) \o Writes(input.chip, o))
                      = After(bank, Writes(input.chip, o) \o Writes(input.chip, input.op))
  BY DEF FeaturesIndependent
<1> DEFINE p == Writes(input.chip, input.op)
           q == Writes(input.chip, o)
<1>1. input.chip \in Chips
  BY DEF ChipCalls
<1>2. p \in Seq(OwnWrites(PartOf(input.op))) /\ q \in Seq(OwnWrites(PartOf(o)))
  BY <1>1, OpsKeepToTheirBits
<1>3. PartOf(input.op) # PartOf(o)
  BY <1>1, FeaturesHaveParts
<1> HIDE DEF p, q
<1>4. p \in Seq(MaskWrites) /\ q \in Seq(MaskWrites) /\ Apart(p, q)
  BY <1>2, <1>3, OwnersApart
<1>5. After(bank, p \o q) = After(bank, q \o p)
  BY <1>4, Exchange
<1>6. QED
  BY <1>5 DEF p, q

(* The switches.  A bit that no write has in its mask stays, and one that some   *)
(* write has in its mask, and no write in its value, goes off.                   *)

LEMMA BitStays ==
    ASSUME NEW bank, NEW ws \in Seq(MaskWrites), NEW r \in DOMAIN bank, NEW b, Untouched(ws, r, b)
    PROVE  b \in After(bank, ws)[r] <=> b \in bank[r]
<1>1. ~LeftOn(ws, r, b)
  BY DEF Untouched, LeftOn
<1>2. QED
  BY <1>1, AfterBit

LEMMA NotTheirs ==
    ASSUME NEW f, NEW ws \in Seq(OwnWrites(f)), NEW r, NEW b, Owner(r, b) # f
    PROVE  ws \in Seq(MaskWrites) /\ Untouched(ws, r, b)
<1>1. \A i \in DOMAIN ws : ws[i] \in OwnWrites(f)
  OBVIOUS
<1>2. OwnWrites(f) \subseteq MaskWrites
  BY DEF OwnWrites
<1>3. QED
  BY <1>1, <1>2 DEF OwnWrites, Untouched

\* ws switches bit b of register r off.
Clears(ws, r, b) ==
    /\ \E i \in DOMAIN ws : ws[i].reg = r /\ b \in ws[i].mask
    /\ \A i \in DOMAIN ws : ws[i].reg = r => b \notin ws[i].val

LEMMA BitCleared ==
    ASSUME NEW bank, NEW p \in Seq(MaskWrites), NEW q \in Seq(MaskWrites), NEW r \in DOMAIN bank, NEW b,
           Clears(q, r, b)
    PROVE  b \notin After(bank, q)[r] /\ b \notin After(bank, p \o q)[r]
<1>1. ~Untouched(q, r, b) /\ ~LeftOn(q, r, b)
  BY DEF Clears, Untouched, LeftOn
<1>2. /\ p \o q \in Seq(MaskWrites)
      /\ Untouched(p \o q, r, b) <=> Untouched(p, r, b) /\ Untouched(q, r, b)
      /\ LeftOn(p \o q, r, b) <=> LeftOn(q, r, b) \/ (LeftOn(p, r, b) /\ Untouched(q, r, b))
  BY CatBits
<1>3. ~Untouched(p \o q, r, b) /\ ~LeftOn(p \o q, r, b)
  BY <1>1, <1>2
<1>4. b \notin After(bank, q)[r]
  BY <1>1, AfterBit
<1>5. b \notin After(bank, p \o q)[r]
  BY <1>2, <1>3, AfterBit
<1>6. QED
  BY <1>4, <1>5

\* The bits of the power switch, and of the switch of an interrupt source.
PowerBit(family, r, b) ==
    \/ family = Socle /\ r = "TEMP_CFG" /\ b = 5
    \/ family = Nsa /\ r = "POWERMODE_BW" /\ b \in {6, 7}

SwitchBit(family, src, r, b) ==
    \/ family = Nsa /\ r = "INTERRUPT_SETTINGS1" /\ b \in SettingBits(src)
    \/ family = Socle /\ src = "click" /\ r = "CLICK_CFG" /\ b \in 0..5
    \/ family = Socle /\ src = "activity" /\ r \in {"INT1_CFG", "INT2_CFG"}

LEMMA EnabledByBits ==
    ASSUME NEW family \in Chips, NEW bank
    PROVE  get_enable(family, bank) <=> \A r \in Registers, b \in Byte : PowerBit(family, r, b) => b \notin bank[r]
<1>1. "TEMP_CFG" \in Registers /\ "POWERMODE_BW" \in Registers
  BY DEF Registers
<1>2. CASE family = Socle
  BY <1>1, <1>2 DEF get_enable, Power, MaskWrite, PowerBit, Socle, Nsa, Byte
<1>3. CASE family = Nsa
  BY <1>1, <1>3 DEF get_enable, Power, MaskWrite, PowerBit, Socle, Nsa, Byte
<1>4. QED
  BY <1>2, <1>3 DEF Chips

LEMMA RaisedByBits ==
    ASSUME NEW family \in Chips, NEW src \in Sources, NEW bank
    PROVE  Raises(family, src, bank) <=> \E r \in Registers : \E b : SwitchBit(family, src, r, b) /\ b \in bank[r]
<1>1. /\ "INTERRUPT_SETTINGS1" \in Registers /\ "CLICK_CFG" \in Registers
      /\ "INT1_CFG" \in Registers /\ "INT2_CFG" \in Registers
  BY DEF Registers
<1>2. CASE family = Nsa
  BY <1>1, <1>2 DEF Raises, SwitchBit, Socle, Nsa
<1>3. CASE family = Socle /\ src = "click"
  BY <1>1, <1>3 DEF Raises, SwitchBit, Socle, Nsa
<1>4. CASE family = Socle /\ src = "activity"
  BY <1>1, <1>4 DEF Raises, SwitchBit, Socle, Nsa
<1>5. QED
  BY <1>2, <1>3, <1>4 DEF Chips, Sources

LEMMA PowerOwned ==
    ASSUME NEW family, NEW r, NEW b, PowerBit(family, r, b)
    PROVE  Owner(r, b) = "enable_store"
BY DEF PowerBit, Owner

LEMMA SwitchOwned ==
    ASSUME NEW family, NEW src \in Sources, NEW r, NEW b, SwitchBit(family, src, r, b)
    PROVE  Owner(r, b) = Switch(src)
BY DEF SwitchBit, SettingBits, Owner, Switch, Sources

LEMMA ContentsAreBits ==
    ASSUME NEW bank \in Contents
    PROVE  DOMAIN bank = Registers /\ \A r \in Registers : bank[r] \in SUBSET Byte
BY DEF Contents

LEMMA AfterIsBits ==
    ASSUME NEW bank \in Contents, NEW ws \in Seq(MaskWrites), NEW r \in Registers,
           NEW b \in After(bank, ws)[r]
    PROVE  b \in Byte
<1>1. DOMAIN bank = Registers /\ bank[r] \in SUBSET Byte
  BY ContentsAreBits
<1>2. b \in bank[r] \/ LeftOn(ws, r, b)
  BY <1>1, AfterBit
<1>3. \A i \in DOMAIN ws : ws[i].mask \in SUBSET Byte
  <2>1. \A i \in DOMAIN ws : ws[i] \in MaskWrites
    OBVIOUS
  <2>2. QED
    BY <2>1 DEF MaskWrites
<1>4. QED
  BY <1>1, <1>2, <1>3 DEF LeftOn

LEMMA DisableClears ==
    ASSUME NEW family \in Chips, NEW src \in Sources
    PROVE  LET off == [type |-> "disable", src |-> src]
           IN  /\ Writes(family, off) \in Seq(OwnWrites(Switch(src)))
               /\ \A r, b : b \in Byte /\ SwitchBit(family, src, r, b) => Clears(Writes(family, off), r, b)
<1> DEFINE off == [type |-> "disable", src |-> src]
           q   == Writes(family, off)
<1>1. off \in FeatureOps(family) /\ PartOf(off) = Switch(src)
  BY DEF FeatureOps, SwitchOps, PartOf
<1>2. q \in Seq(OwnWrites(Switch(src)))
  BY <1>1, OpsKeepToTheirBits
<1>3. q = interrupt_ops(family, off)
  BY DEF Writes
<1>4. CASE family = Nsa
  <2>1. q = << MaskWrite("INTERRUPT_SETTINGS1", SettingBits(src), {}) >>
    BY <1>3, <1>4 DEF interrupt_ops, NSA_interrupt_ops, NSA_switch, Socle, Nsa
  <2>2. QED
    BY <1>2, <1>4, <2>1 DEF SwitchBit, Clears, MaskWrite, Socle, Nsa
<1>5. CASE family = Socle /\ src = "click"
  <2>1. q = << MaskWrite("CLICK_CFG", 0..5, {}) >>
    BY <1>3, <1>5 DEF interrupt_ops, SOCLE_interrupt_ops, SOCLE_switch
  <2>2. QED
    BY <1>2, <1>5, <2>1 DEF SwitchBit, Clears, MaskWrite, Socle, Nsa
<1>6. CASE family = Socle /\ src = "activity"
  <2>1. q = << FullWrite("INT1_CFG", {}), FullWrite("INT2_CFG", {}) >>
    BY <1>3, <1>6 DEF interrupt_ops, SOCLE_interrupt_ops, SOCLE_switch
  <2>2. QED
    BY <1>2, <1>6, <2>1 DEF SwitchBit, Clears, FullWrite, MaskWrite, Socle, Nsa
<1>7. QED
  BY <1>4, <1>5, <1>6 DEF Chips, Sources

LEMMA ConfigSilenced ==
    ASSUME NEW family \in Chips, NEW o \in ConfigOps
    PROVE  SourceSilenced(family, o)
<1> SUFFICES ASSUME NEW src \in Sources, NEW bank \in Contents
             PROVE  LET off   == [type |-> "disable", src |-> src]
                        after == After(bank, Writes(family, o) \o Writes(family, off))
                    IN  /\ ~Raises(family, src, after)
                        /\ \A other \in Sources \ {src} : Raises(family, other, after) <=> Raises(family, other, bank)
  BY DEF SourceSilenced
<1> DEFINE off   == [type |-> "disable", src |-> src]
           p     == Writes(family, o)
           q     == Writes(family, off)
           after == After(bank, p \o q)
<1>1. o.type = "config" /\ o.src \in Sources
  BY DEF ConfigOps, Sources
<1>2. p \in Seq(OwnWrites(o.src))
  <2>1. o \in FeatureOps(family) /\ PartOf(o) = o.src
    BY <1>1 DEF FeatureOps, PartOf, FeatureOf
  <2>2. QED
    BY <2>1, OpsKeepToTheirBits
<1>3. /\ q \in Seq(OwnWrites(Switch(src)))
      /\ \A r, b : b \in Byte /\ SwitchBit(family, src, r, b) => Clears(q, r, b)
  BY DisableClears
<1>4. p \in Seq(MaskWrites) /\ q \in Seq(MaskWrites)
  BY <1>2, <1>3 DEF OwnWrites
<1> HIDE DEF p, q
<1>5. p \o q \in Seq(MaskWrites)
  BY <1>4, CatBits
<1>6. DOMAIN bank = Registers
  BY ContentsAreBits
<1>7. ~Raises(family, src, after)
  <2>1. ASSUME NEW r \in Registers, NEW b, SwitchBit(family, src, r, b), b \in after[r] PROVE FALSE
    <3>1. b \in Byte
      BY <1>5, <2>1, AfterIsBits
    <3>2. Clears(q, r, b)
      BY <1>3, <2>1, <3>1
    <3>3. QED
      BY <1>4, <1>6, <2>1, <3>2, BitCleared
  <2>2. QED
    BY <2>1, RaisedByBits
<1>8. ASSUME NEW other \in Sources \ {src}
      PROVE  Raises(family, other, after) <=> Raises(family, other, bank)
  <2>1. ASSUME NEW r \in Registers, NEW b, SwitchBit(family, other, r, b)
        PROVE  b \in after[r] <=> b \in bank[r]
    <3>1. Owner(r, b) = Switch(other)
      BY <2>1, SwitchOwned
    <3>2. Switch(other) # o.src /\ Switch(other) # Switch(src)
      BY <1>1 DEF Switch, Sources
    <3>3. Untouched(p, r, b) /\ Untouched(q, r, b)
      BY <1>2, <1>3, <3>1, <3>2, NotTheirs
    <3>4. Untouched(p \o q, r, b)
      BY <1>4, <3>3, CatBits
    <3>5. QED
      BY <1>5, <1>6, <3>4, BitStays
  <2>2. Raises(family, other, after) <=> \E r \in Registers : \E b : SwitchBit(family, other, r, b) /\ b \in after[r]
    BY RaisedByBits
  <2>3. Raises(family, other, bank) <=> \E r \in Registers : \E b : SwitchBit(family, other, r, b) /\ b \in bank[r]
    BY RaisedByBits
  <2>4. QED
    BY <2>1, <2>2, <2>3
<1>9. QED
  BY <1>7, <1>8 DEF p, q

LEMMA ResumeEnables ==
    ASSUME NEW family \in Chips
    PROVE  /\ init_sect(family) \in Seq(MaskWrites)
           /\ \A r, b : PowerBit(family, r, b) => Clears(init_sect(family), r, b)
<1>1. \A r \in Registers, m \in SUBSET Byte, v \in SUBSET Nat : MaskWrite(r, m, v) \in MaskWrites
  BY DEF MaskWrite, MaskWrites
<1>2. \A r \in Registers, v \in SUBSET Nat : FullWrite(r, v) \in MaskWrites
  BY <1>1 DEF FullWrite
<1>3. 5 \notin Num(8) /\ 5 \notin Num(\h88)
  <2>1. 2^5 = 32
    OBVIOUS
  <2>2. (8 \div 32) % 2 = 0 /\ (136 \div 32) % 2 = 0
    OBVIOUS
  <2>3. QED
    BY <2>1, <2>2 DEF Num
<1>4. 6 \notin Num(\h1E) /\ 7 \notin Num(\h1E)
  <2>1. 2^6 = 64 /\ 2^7 = 128
    OBVIOUS
  <2>2. (30 \div 64) % 2 = 0 /\ (30 \div 128) % 2 = 0
    OBVIOUS
  <2>3. QED
    BY <2>1, <2>2 DEF Num
<1>5. CASE family = Socle
  <2>1. SOCLE_INIT_SECTION \in Seq(MaskWrites)
    BY <1>1, <1>2, NumIsBits DEF SOCLE_INIT_SECTION, Registers, Byte
  <2>2. Clears(SOCLE_INIT_SECTION, "TEMP_CFG", 5)
    BY <1>3 DEF SOCLE_INIT_SECTION, Clears, FullWrite, MaskWrite, Byte
  <2>3. QED
    BY <1>5, <2>1, <2>2 DEF init_sect, PowerBit, Socle, Nsa
<1>6. CASE family = Nsa
  <2>1. NSA_INIT_SECTION \in Seq(MaskWrites)
    BY <1>1, <1>2, NumIsBits DEF NSA_INIT_SECTION, Registers, Byte
  <2>2. ASSUME NEW b \in {6, 7} PROVE Clears(NSA_INIT_SECTION, "POWERMODE_BW", b)
    BY <1>4 DEF NSA_INIT_SECTION, Clears, FullWrite, MaskWrite, Byte
  <2>3. QED
    BY <1>6, <2>1, <2>2 DEF init_sect, PowerBit, Socle, Nsa
<1>7. QED
  BY <1>5, <1>6 DEF Chips

\* The writes of open_interrupt: none in a register of the power switch, and with 0
\* both interrupt sources of an NSA family go off.
LEMMA OpenInterruptWrites ==
    ASSUME NEW num, NEW on \in BOOLEAN
    PROVE  /\ open_interrupt(num, on) \in Seq(MaskWrites)
           /\ \A family \in Chips : \A r, b : PowerBit(family, r, b) => Untouched(open_interrupt(num, on), r, b)
           /\ \A bank \in Contents, src \in Sources :
                  ~on => ~Raises(Nsa, src, After(bank, open_interrupt(num, on)))
<1> DEFINE Spared == {w \in MaskWrites : w.reg \notin {"TEMP_CFG", "POWERMODE_BW"}}
           head == << MaskWrite("INT_LATCH", {0, 1, 2, 3, 7}, Num(\h86)), FullWrite("ACTIVE_DURATION", Num(3)),
                      FullWrite("ACTIVE_THRESHOLD", Num(\h10)) >>
           offs == << FullWrite("INTERRUPT_SETTINGS1", {}), FullWrite("INTERRUPT_MAPPING1", {}),
                      FullWrite("INTERRUPT_MAPPING3", {}) >>
           ons  == << FullWrite("INTERRUPT_SETTINGS1", Num(3)),
                      FullWrite(IF num = 0 THEN "INTERRUPT_MAPPING1" ELSE "INTERRUPT_MAPPING3", {2}) >>
           tail == IF ~on THEN offs ELSE ons
<1>1. \A r \in Registers \ {"TEMP_CFG", "POWERMODE_BW"}, m \in SUBSET Byte, v \in SUBSET Nat :
         MaskWrite(r, m, v) \in Spared
  BY DEF MaskWrite, MaskWrites
<1>2. \A r \in Registers \ {"TEMP_CFG", "POWERMODE_BW"}, v \in SUBSET Nat : FullWrite(r, v) \in Spared
  BY <1>1 DEF FullWrite
<1> HIDE DEF Spared
<1>3. head \in Seq(Spared)
  <2>1. /\ MaskWrite("INT_LATCH", {0, 1, 2, 3, 7}, Num(\h86)) \in Spared
        /\ FullWrite("ACTIVE_DURATION", Num(3)) \in Spared /\ FullWrite("ACTIVE_THRESHOLD", Num(\h10)) \in Spared
    BY <1>1, <1>2, NumIsBits DEF Registers, Byte
  <2>2. QED
    BY <2>1, Tuples
<1>4. offs \in Seq(Spared)
  <2>1. /\ FullWrite("INTERRUPT_SETTINGS1", {}) \in Spared /\ FullWrite("INTERRUPT_MAPPING1", {}) \in Spared
        /\ FullWrite("INTERRUPT_MAPPING3", {}) \in Spared
    BY <1>2 DEF Registers
  <2>2. QED
    BY <2>1, Tuples
<1>5. ons \in Seq(Spared)
  <2>1. /\ FullWrite("INTERRUPT_SETTINGS1", Num(3)) \in Spared
        /\ FullWrite("INTERRUPT_MAPPING1", {2}) \in Spared /\ FullWrite("INTERRUPT_MAPPING3", {2}) \in Spared
    BY <1>2, NumIsBits DEF Registers
  <2>2. FullWrite(IF num = 0 THEN "INTERRUPT_MAPPING1" ELSE "INTERRUPT_MAPPING3", {2}) \in Spared
    BY <2>1
  <2>3. QED
    BY <2>1, <2>2, Tuples
<1>6. ASSUME ~on, NEW b \in Byte PROVE Clears(tail, "INTERRUPT_SETTINGS1", b)
  <2>1. tail = offs
    BY <1>6
  <2>2. offs[1].reg = "INTERRUPT_SETTINGS1" /\ offs[1].mask = Byte /\ 1 \in DOMAIN offs
    BY DEF FullWrite, MaskWrite
  <2>3. \A i \in DOMAIN offs : offs[i].val = {}
    BY DEF FullWrite, MaskWrite
  <2> HIDE DEF offs
  <2>4. Clears(offs, "INTERRUPT_SETTINGS1", b)
    BY <2>2, <2>3 DEF Clears
  <2>5. QED
    BY <2>1, <2>4
<1>7. open_interrupt(num, on) = head \o tail
  BY DEF open_interrupt
<1>8. tail \in Seq(Spared)
  BY <1>4, <1>5
<1> HIDE DEF head, tail
<1>9. head \o tail \in Seq(Spared)
  BY <1>3, <1>8
<1>10. Spared \subseteq MaskWrites /\ \A w \in Spared : w.reg \notin {"TEMP_CFG", "POWERMODE_BW"}
  BY DEF Spared
<1>11. head \in Seq(MaskWrites) /\ tail \in Seq(MaskWrites) /\ head \o tail \in Seq(MaskWrites)
  BY <1>3, <1>8, <1>9, <1>10
<1>12. ASSUME NEW family \in Chips, NEW r, NEW b, PowerBit(family, r, b)
       PROVE  Untouched(head \o tail, r, b)
  <2>1. \A i \in DOMAIN (head \o tail) : (head \o tail)[i] \in Spared
    BY <1>9
  <2>2. r \in {"TEMP_CFG", "POWERMODE_BW"}
    BY <1>12 DEF PowerBit
  <2>3. QED
    BY <1>10, <2>1, <2>2 DEF Untouched
<1>13. ASSUME NEW bank \in Contents, NEW src \in Sources, ~on
       PROVE  ~Raises(Nsa, src, After(bank, head \o tail))
  <2>1. SettingBits(src) \subseteq Byte
    BY DEF SettingBits, Byte
  <2>2. "INTERRUPT_SETTINGS1" \in DOMAIN bank
    BY ContentsAreBits DEF Registers
  <2>3. \A b \in Byte : b \notin After(bank, head \o tail)["INTERRUPT_SETTINGS1"]
    BY <1>6, <1>11, <1>13, <2>2, BitCleared
  <2>4. QED
    BY <2>1, <2>3 DEF Raises
<1>14. QED
  BY <1>7, <1>11, <1>12, <1>13

\* What leaves the bits of the power switch alone leaves the power as it was.
LEMMA PowerUntouched ==
    ASSUME NEW family \in Chips, NEW bank \in Contents, NEW ws \in Seq(MaskWrites),
           \A r, b : PowerBit(family, r, b) => Untouched(ws, r, b)
    PROVE  get_enable(family, After(bank, ws)) <=> get_enable(family, bank)
<1>1. \A r \in Registers, b \in Byte :
         PowerBit(family, r, b) => (b \in After(bank, ws)[r] <=> b \in bank[r])
  BY ContentsAreBits, BitStays
<1>2. /\ get_enable(family, bank) <=> \A r \in Registers, b \in Byte : PowerBit(family, r, b) => b \notin bank[r]
      /\ get_enable(family, After(bank, ws))
            <=> \A r \in Registers, b \in Byte : PowerBit(family, r, b) => b \notin After(bank, ws)[r]
  BY EnabledByBits
<1>3. QED
  BY <1>1, <1>2

LEMMA PowerCleared ==
    ASSUME NEW family \in Chips, NEW bank \in Contents, NEW ws \in Seq(MaskWrites),
           \A r, b : PowerBit(family, r, b) => Clears(ws, r, b)
    PROVE  get_enable(family, After(bank, ws))
<1>1. \A r \in Registers, b \in Byte : PowerBit(family, r, b) => b \notin After(bank, ws)[r]
  BY ContentsAreBits, BitCleared
<1>2. QED
  BY <1>1, EnabledByBits

LEMMA EnableStored ==
    ASSUME NEW family \in Chips, NEW bank \in Contents, NEW number \in Nat
    PROVE  get_enable(family, After(bank, enable_store(family, number))) <=> number > 0
<1> DEFINE ws == enable_store(family, number)
           reg  == IF family = Socle THEN "TEMP_CFG" ELSE "POWERMODE_BW"
           bits == IF family = Socle THEN {5} ELSE {6, 7}
<1>1. ws \in Seq(MaskWrites)
  <2>1. ws \in Seq(OwnWrites("enable_store")) /\ OwnWrites("enable_store") \subseteq MaskWrites
    BY OwnPower DEF OwnWrites
  <2>2. QED
    BY <2>1
<1>2. ws = << MaskWrite(reg, bits, IF number > 0 THEN {} ELSE bits) >>
  BY DEF enable_store, set_enable, Power, MaskWrite, Chips
<1>3. \A r, b : PowerBit(family, r, b) <=> r = reg /\ b \in bits
  BY DEF PowerBit, Chips, Socle, Nsa
<1> HIDE DEF reg, bits
<1>4. CASE number > 0
  <2>1. \A r, b : PowerBit(family, r, b) => Clears(ws, r, b)
    BY <1>2, <1>3, <1>4 DEF Clears, MaskWrite
  <2>2. QED
    BY <1>1, <1>4, <2>1, PowerCleared
<1>5. CASE ~(number > 0)
  <2>1. PICK b \in Byte : b \in bits
    BY DEF bits, Byte
  <2>2. LeftOn(ws, reg, b)
    BY <1>2, <1>5, <2>1 DEF LeftOn, MaskWrite
  <2>3. reg \in Registers
    BY DEF reg, Registers
  <2>4. b \in After(bank, ws)[reg]
    BY <1>1, <2>2, <2>3, ContentsAreBits, AfterBit
  <2>5. ~get_enable(family, After(bank, ws))
    BY <1>3, <2>1, <2>3, <2>4, EnabledByBits
  <2>6. QED
    BY <1>5, <2>5
<1>6. QED
  BY <1>4, <1>5

LEMMA PowerKeptByAll ==
    ASSUME NEW family \in Chips, NEW o \in FeatureOps(family) \cup WholeOps
    PROVE  PowerKept(family, o)
<1> SUFFICES ASSUME NEW bank \in Contents
             PROVE  get_enable(family, After(bank, Writes(family, o))) <=>
                        CASE o.type = "enable_store" -> o.number > 0
                          [] o.type = "chip_resume"  -> TRUE
                          [] OTHER                   -> get_enable(family, bank)
  BY DEF PowerKept
<1>1. CASE o \in PowerOps
  <2>1. o.type = "enable_store" /\ o.number \in Nat
    BY <1>1 DEF PowerOps
  <2>2. Writes(family, o) = enable_store(family, o.number)
    BY <2>1 DEF Writes
  <2>3. QED
    BY <2>1, <2>2, EnableStored
<1>2. CASE o \in FeatureOps(family) /\ o \notin PowerOps
  <2>1. o.type \in {"set_odr", "init", "enable", "disable", "config", "clear_intterrupt"}
    BY <1>2 DEF FeatureOps, RateOps, InitOps, SwitchOps, ConfigOps, ClearOps
  <2>2. o.type \in {"enable", "disable", "config"} => o.src \in {"activity", "click"}
    BY <1>2 DEF FeatureOps, PowerOps, RateOps, InitOps, SwitchOps, ConfigOps, ClearOps, Sources
  <2>3. PartOf(o) # "enable_store"
    BY <2>1, <2>2 DEF PartOf, FeatureOf, Switch
  <2>4. Writes(family, o) \in Seq(OwnWrites(PartOf(o)))
    BY <1>2, OpsKeepToTheirBits
  <2>5. \A r, b : PowerBit(family, r, b) => Owner(r, b) # PartOf(o)
    BY <2>3, PowerOwned
  <2>6. Writes(family, o) \in Seq(MaskWrites)
    BY <2>4 DEF OwnWrites
  <2>7. \A r, b : PowerBit(family, r, b) => Untouched(Writes(family, o), r, b)
    BY <2>4, <2>5, NotTheirs
  <2>8. get_enable(family, After(bank, Writes(family, o))) <=> get_enable(family, bank)
    BY <2>6, <2>7, PowerUntouched
  <2>9. QED
    BY <2>1, <2>8
<1>3. CASE o \in WholeOps /\ o.type = "chip_resume"
  <2>1. Writes(family, o) = init_sect(family)
    BY <1>3 DEF Writes
  <2>2. get_enable(family, After(bank, Writes(family, o)))
    BY <2>1, ResumeEnables, PowerCleared
  <2>3. QED
    BY <1>3, <2>2
<1>4. CASE o \in WholeOps /\ o.type # "chip_resume"
  <2>1. o.type = "open_interrupt" /\ o.on \in BOOLEAN
    BY <1>4 DEF WholeOps
  <2>2. Writes(family, o) = open_interrupt(o.num, o.on)
    BY <2>1 DEF Writes
  <2>3. get_enable(family, After(bank, Writes(family, o))) <=> get_enable(family, bank)
    BY <2>1, <2>2, OpenInterruptWrites, PowerUntouched
  <2>4. QED
    BY <2>1, <2>3
<1>5. QED
  BY <1>1, <1>2, <1>3, <1>4

(* mir3da_core.c: the power switch is where the last store left it whatever else is   *)
(* called, but for the initial table, which ends with the family on; a source that is   *)
(* switched off after it was configured is silent and the other source as it was; and *)
(* open_interrupt with 0 silences both.                                               *)
THEOREM SwitchesAsAskedHolds == input \in ChipCalls => SwitchesAsAsked
<1> SUFFICES ASSUME input \in ChipCalls, Calls("operation")
             PROVE  SwitchesAsAsked
  BY DEF SwitchesAsAsked
<1> DEFINE family == input.chip
           o    == input.op
<1>1. family \in Chips /\ o \in FeatureOps(family) \cup WholeOps
  BY DEF ChipCalls
<1>2. PowerKept(family, o)
  BY <1>1, PowerKeptByAll
<1>3. ASSUME o.type = "config" PROVE SourceSilenced(family, o)
  <2>1. o \in ConfigOps
    BY <1>1, <1>3 DEF FeatureOps, PowerOps, RateOps, InitOps, SwitchOps, ClearOps, WholeOps
  <2>2. QED
    BY <1>1, <2>1, ConfigSilenced
<1>4. ASSUME o.type = "open_interrupt", NEW src \in Sources, NEW bank \in Contents, ~o.on
      PROVE  ~Raises(Nsa, src, After(bank, Writes(Nsa, o)))
  <2>1. o \in WholeOps
    BY <1>1, <1>4 DEF FeatureOps, PowerOps, RateOps, InitOps, SwitchOps, ConfigOps, ClearOps
  <2>2. o.on \in BOOLEAN
    BY <1>4, <2>1 DEF WholeOps
  <2>3. Writes(Nsa, o) = open_interrupt(o.num, o.on)
    BY <1>4 DEF Writes
  <2>4. QED
    BY <1>4, <2>2, <2>3, OpenInterruptWrites
<1> HIDE DEF family, o
<1>5. QED
  BY <1>2, <1>3, <1>4 DEF SwitchesAsAsked, family, o

(* What a configuration leaves on a family that was clear tells its parameters apart. *)

Clear == [r \in Registers |-> {}]

LEMMA ConfigIsMaskWrites ==
    ASSUME NEW family \in Chips, NEW o \in ConfigOps
    PROVE  Writes(family, o) \in Seq(MaskWrites)
<1>1. o \in FeatureOps(family)
  BY DEF FeatureOps
<1>2. Writes(family, o) \in Seq(OwnWrites(PartOf(o))) /\ OwnWrites(PartOf(o)) \subseteq MaskWrites
  BY <1>1, OpsKeepToTheirBits DEF OwnWrites
<1>3. QED
  BY <1>2

\* With one write per register, a bit is on if its write says so.
LEMMA SpreadBit ==
    ASSUME NEW ws \in Seq(MaskWrites), NEW i \in DOMAIN ws, NEW b,
           \A j, k \in DOMAIN ws : ws[j].reg = ws[k].reg => j = k
    PROVE  b \in After(Clear, ws)[ws[i].reg] <=> b \in ws[i].val /\ b \in ws[i].mask
<1>1. ws[i] \in MaskWrites
  OBVIOUS
<1>2. ws[i].reg \in DOMAIN Clear /\ b \notin Clear[ws[i].reg]
  BY <1>1 DEF MaskWrites, Clear
<1>3. b \in After(Clear, ws)[ws[i].reg] <=> LeftOn(ws, ws[i].reg, b)
  BY <1>2, AfterBit
<1>4. DOMAIN ws \subseteq Nat
  OBVIOUS
<1>5. \A k \in DOMAIN ws : ~(k > k)
  BY <1>4
<1>6. QED
  BY <1>3, <1>5 DEF LeftOn

LEMMA AbsentBit ==
    ASSUME NEW ws \in Seq(MaskWrites), NEW r \in Registers, NEW b,
           \A i \in DOMAIN ws : ws[i].reg # r
    PROVE  b \notin After(Clear, ws)[r]
<1>1. r \in DOMAIN Clear /\ b \notin Clear[r]
  BY DEF Clear
<1>2. QED
  BY <1>1, AfterBit DEF LeftOn

\* The bits of a byte tell it.
LEMMA FromBits ==
    ASSUME NEW v \in 0..255, NEW u \in 0..255, Num(v) = Num(u)
    PROVE  v = u
<1>1. /\ 2^0 = 1 /\ 2^1 = 2 /\ 2^2 = 4 /\ 2^3 = 8 /\ 2^4 = 16 /\ 2^5 = 32 /\ 2^6 = 64 /\ 2^7 = 128
  OBVIOUS
<1>2. \A i \in 0..7 : (v \div 2^i) % 2 = 1 <=> (u \div 2^i) % 2 = 1
  BY DEF Num, Byte
<1>3. ASSUME NEW n \in 0..255
      PROVE  /\ n = 1 * ((n \div 1) % 2) + 2 * ((n \div 2) % 2) + 4 * ((n \div 4) % 2)
                    + 8 * ((n \div 8) % 2) + 16 * ((n \div 16) % 2) + 32 * ((n \div 32) % 2)
                    + 64 * ((n \div 64) % 2) + 128 * ((n \div 128) % 2)
             /\ (n \div 1) % 2 \in {0, 1} /\ (n \div 2) % 2 \in {0, 1} /\ (n \div 4) % 2 \in {0, 1}
             /\ (n \div 8) % 2 \in {0, 1} /\ (n \div 16) % 2 \in {0, 1} /\ (n \div 32) % 2 \in {0, 1}
             /\ (n \div 64) % 2 \in {0, 1} /\ (n \div 128) % 2 \in {0, 1}
  BY SMTT(60)
<1>4. /\ (v \div 1) % 2 = 1 <=> (u \div 1) % 2 = 1
      /\ (v \div 2) % 2 = 1 <=> (u \div 2) % 2 = 1
      /\ (v \div 4) % 2 = 1 <=> (u \div 4) % 2 = 1
      /\ (v \div 8) % 2 = 1 <=> (u \div 8) % 2 = 1
      /\ (v \div 16) % 2 = 1 <=> (u \div 16) % 2 = 1
      /\ (v \div 32) % 2 = 1 <=> (u \div 32) % 2 = 1
      /\ (v \div 64) % 2 = 1 <=> (u \div 64) % 2 = 1
      /\ (v \div 128) % 2 = 1 <=> (u \div 128) % 2 = 1
  BY <1>1, <1>2
<1>5. /\ (v \div 1) % 2 = (u \div 1) % 2 /\ (v \div 2) % 2 = (u \div 2) % 2
      /\ (v \div 4) % 2 = (u \div 4) % 2 /\ (v \div 8) % 2 = (u \div 8) % 2
      /\ (v \div 16) % 2 = (u \div 16) % 2 /\ (v \div 32) % 2 = (u \div 32) % 2
      /\ (v \div 64) % 2 = (u \div 64) % 2 /\ (v \div 128) % 2 = (u \div 128) % 2
  BY <1>3, <1>4
<1> DEFINE bit(n, k) == (n \div k) % 2
           sum(n) == 1 * bit(n, 1) + 2 * bit(n, 2) + 4 * bit(n, 4) + 8 * bit(n, 8)
                     + 16 * bit(n, 16) + 32 * bit(n, 32) + 64 * bit(n, 64) + 128 * bit(n, 128)
<1>6. v = sum(v) /\ u = sum(u)
  BY <1>3
<1>7. \A k \in {1, 2, 4, 8, 16, 32, 64, 128} : bit(v, k) = bit(u, k)
  BY <1>5
<1> HIDE DEF bit
<1>8. sum(v) = sum(u)
  BY <1>7
<1> HIDE DEF sum
<1>9. QED
  BY <1>6, <1>8

\* A number that fits a field has no bits above it.
LEMMA NoBitsAbove ==
    ASSUME NEW v \in 0..255
    PROVE  /\ v < 128 => Num(v) \subseteq 0..6
           /\ v < 32  => Num(v) \subseteq 0..4
           /\ v < 8   => Num(v) \subseteq 0..2
           /\ v < 4   => Num(v) \subseteq {0, 1}
           /\ v < 2   => Num(v) \subseteq {0}
<1>1. /\ 2^0 = 1 /\ 2^1 = 2 /\ 2^2 = 4 /\ 2^3 = 8 /\ 2^4 = 16 /\ 2^5 = 32 /\ 2^6 = 64 /\ 2^7 = 128
  OBVIOUS
<1>2. /\ v < 128 => v \div 128 = 0
      /\ v < 32 => v \div 32 = 0 /\ v \div 64 = 0
      /\ v < 8 => v \div 8 = 0 /\ v \div 16 = 0
      /\ v < 4 => v \div 4 = 0
      /\ v < 2 => v \div 2 = 0
  OBVIOUS
<1>3. /\ v < 128 => 7 \notin Num(v)
      /\ v < 32 => 5 \notin Num(v) /\ 6 \notin Num(v)
      /\ v < 8 => 3 \notin Num(v) /\ 4 \notin Num(v)
      /\ v < 4 => 2 \notin Num(v)
      /\ v < 2 => 1 \notin Num(v)
  BY <1>1, <1>2 DEF Num
<1>4. Num(v) \subseteq 0..7
  BY DEF Num, Byte
<1>5. QED
  BY <1>3, <1>4

Fitting(family) == {o \in ConfigOps : FitsFields(family, o)}

LEMMA ConfigShape ==
    ASSUME NEW o \in ConfigOps
    PROVE  /\ o.type = "config" /\ o.pin \in {1, 2} /\ o.threshold \in 0..255
           /\ \/ /\ o.src = "activity" /\ o.duration \in 0..255
                 /\ o = [type |-> "config", src |-> "activity", pin |-> o.pin,
                         threshold |-> o.threshold, duration |-> o.duration]
              \/ /\ o.src = "click" /\ o.click_time \in 0..255
                 /\ o.quiet_time \in 0..255 /\ o.window \in 0..255
                 /\ o = [type |-> "config", src |-> "click", pin |-> o.pin, threshold |-> o.threshold,
                         click_time |-> o.click_time, quiet_time |-> o.quiet_time, window |-> o.window]
<1>1. CASE o \in [type : {"config"}, src : {"activity"}, pin : Pins, threshold : Params, duration : Params]
  BY <1>1, ParamsAssumption DEF Pins
<1>2. CASE o \in [type : {"config"}, src : {"click"}, pin : Pins, threshold : Params,
                  click_time : Params, quiet_time : Params, window : Params]
  BY <1>2, ParamsAssumption DEF Pins
<1>3. QED
  BY <1>1, <1>2 DEF ConfigOps

\* What it takes to fit.
LEMMA FittingBounds ==
    ASSUME NEW family \in Chips, NEW o \in Fitting(family)
    PROVE  /\ o \in ConfigOps
           /\ family = Socle /\ o.src = "activity" => o.threshold < 128 /\ o.duration < 128
           /\ family = Socle /\ o.src = "click" => o.threshold < 128 /\ o.click_time < 128
           /\ family = Nsa /\ o.src = "activity" => o.duration < 4
           /\ family = Nsa /\ o.src = "click" => o.threshold < 32 /\ o.click_time < 2 /\ o.window < 8
<1>1. o \in ConfigOps /\ \A f \in DOMAIN FieldBits(family, o.src) : o[f] < 2^FieldBits(family, o.src)[f]
  BY DEF Fitting, FitsFields
<1>2. Socle # Nsa /\ 2^1 = 2 /\ 2^2 = 4 /\ 2^3 = 8 /\ 2^5 = 32 /\ 2^7 = 128
  BY DEF Socle, Nsa
<1>3. ASSUME family = Socle, o.src = "activity" PROVE o.threshold < 128 /\ o.duration < 128
  <2>1. FieldBits(family, o.src) = [threshold |-> 7, duration |-> 7]
    BY <1>2, <1>3 DEF FieldBits
  <2>2. /\ "threshold" \in DOMAIN FieldBits(family, o.src) /\ FieldBits(family, o.src)["threshold"] = 7
        /\ "duration" \in DOMAIN FieldBits(family, o.src) /\ FieldBits(family, o.src)["duration"] = 7
    BY <2>1
  <2>3. o["threshold"] < 2^7 /\ o["duration"] < 2^7
    BY <1>1, <2>2, Zenon
  <2>4. QED
    BY <1>2, <2>3
<1>4. ASSUME family = Socle, o.src = "click" PROVE o.threshold < 128 /\ o.click_time < 128
  <2>1. FieldBits(family, o.src) = [threshold |-> 7, click_time |-> 7, quiet_time |-> 8, window |-> 8]
    BY <1>2, <1>4 DEF FieldBits
  <2>2. /\ "threshold" \in DOMAIN FieldBits(family, o.src) /\ FieldBits(family, o.src)["threshold"] = 7
        /\ "click_time" \in DOMAIN FieldBits(family, o.src) /\ FieldBits(family, o.src)["click_time"] = 7
    BY <2>1
  <2>3. o["threshold"] < 2^7 /\ o["click_time"] < 2^7
    BY <1>1, <2>2, Zenon
  <2>4. QED
    BY <1>2, <2>3
<1>5. ASSUME family = Nsa, o.src = "activity" PROVE o.duration < 4
  <2>1. FieldBits(family, o.src) = [threshold |-> 8, duration |-> 2]
    BY <1>2, <1>5 DEF FieldBits
  <2>2. /\ "duration" \in DOMAIN FieldBits(family, o.src) /\ FieldBits(family, o.src)["duration"] = 2
    BY <2>1
  <2>3. o["duration"] < 2^2
    BY <1>1, <2>2, Zenon
  <2>4. QED
    BY <1>2, <2>3
<1>6. ASSUME family = Nsa, o.src = "click" PROVE o.threshold < 32 /\ o.click_time < 2 /\ o.window < 8
  <2>1. FieldBits(family, o.src) = [threshold |-> 5, click_time |-> 1, window |-> 3]
    BY <1>2, <1>6 DEF FieldBits
  <2>2. /\ "threshold" \in DOMAIN FieldBits(family, o.src) /\ FieldBits(family, o.src)["threshold"] = 5
        /\ "click_time" \in DOMAIN FieldBits(family, o.src) /\ FieldBits(family, o.src)["click_time"] = 1
        /\ "window" \in DOMAIN FieldBits(family, o.src) /\ FieldBits(family, o.src)["window"] = 3
    BY <2>1
  <2>3. o["threshold"] < 2^5 /\ o["click_time"] < 2^1 /\ o["window"] < 2^3
    BY <1>1, <2>2, Zenon
  <2>4. QED
    BY <1>2, <2>3
<1>7. QED
  BY <1>1, <1>3, <1>4, <1>5, <1>6

LEMMA ThreeWrites ==
    ASSUME NEW u \in MaskWrites, NEW v \in MaskWrites, NEW w \in MaskWrites,
           u.reg # v.reg, u.reg # w.reg, v.reg # w.reg
    PROVE  LET A == After(Clear, <<u, v, w>>)
           IN  /\ \A b : b \in A[u.reg] <=> b \in u.val /\ b \in u.mask
               /\ \A b : b \in A[v.reg] <=> b \in v.val /\ b \in v.mask
               /\ \A b : b \in A[w.reg] <=> b \in w.val /\ b \in w.mask
               /\ \A r \in Registers : \A b : r \notin {u.reg, v.reg, w.reg} => b \notin A[r]
<1> DEFINE p == <<u, v, w>>
<1>1. p \in Seq(MaskWrites) /\ DOMAIN p = 1..3 /\ p[1] = u /\ p[2] = v /\ p[3] = w
  OBVIOUS
<1> HIDE DEF p
<1>2. \A j, k \in DOMAIN p : p[j].reg = p[k].reg => j = k
  BY <1>1
<1>3. \A i \in DOMAIN p : \A b : b \in After(Clear, p)[p[i].reg] <=> b \in p[i].val /\ b \in p[i].mask
  BY <1>1, <1>2, SpreadBit
<1>4. \A r \in Registers : \A b : r \notin {u.reg, v.reg, w.reg} => b \notin After(Clear, p)[r]
  <2>1. \A r : r \notin {u.reg, v.reg, w.reg} => \A i \in DOMAIN p : p[i].reg # r
    BY <1>1
  <2>2. QED
    BY <1>1, <2>1, AbsentBit
<1>5. 1 \in DOMAIN p /\ 2 \in DOMAIN p /\ 3 \in DOMAIN p
  BY <1>1
<1>6. QED
  BY <1>1, <1>3, <1>4, <1>5 DEF p

LEMMA FiveWrites ==
    ASSUME NEW u \in MaskWrites, NEW v \in MaskWrites, NEW w \in MaskWrites, NEW x \in MaskWrites,
           NEW y \in MaskWrites, u.reg # v.reg, u.reg # w.reg, u.reg # x.reg, u.reg # y.reg,
           v.reg # w.reg, v.reg # x.reg, v.reg # y.reg, w.reg # x.reg, w.reg # y.reg, x.reg # y.reg
    PROVE  LET A == After(Clear, <<u, v, w, x, y>>)
           IN  /\ \A b : b \in A[u.reg] <=> b \in u.val /\ b \in u.mask
               /\ \A b : b \in A[v.reg] <=> b \in v.val /\ b \in v.mask
               /\ \A b : b \in A[w.reg] <=> b \in w.val /\ b \in w.mask
               /\ \A b : b \in A[x.reg] <=> b \in x.val /\ b \in x.mask
               /\ \A b : b \in A[y.reg] <=> b \in y.val /\ b \in y.mask
               /\ \A r \in Registers : \A b : r \notin {u.reg, v.reg, w.reg, x.reg, y.reg} => b \notin A[r]
<1> DEFINE p == <<u, v, w, x, y>>
<1>1. p \in Seq(MaskWrites) /\ DOMAIN p = 1..5 /\ p[1] = u /\ p[2] = v /\ p[3] = w /\ p[4] = x /\ p[5] = y
  OBVIOUS
<1> HIDE DEF p
<1>2. \A j, k \in DOMAIN p : p[j].reg = p[k].reg => j = k
  BY <1>1
<1>3. \A i \in DOMAIN p : \A b : b \in After(Clear, p)[p[i].reg] <=> b \in p[i].val /\ b \in p[i].mask
  BY <1>1, <1>2, SpreadBit
<1>4. \A r \in Registers : \A b : r \notin {u.reg, v.reg, w.reg, x.reg, y.reg} => b \notin After(Clear, p)[r]
  <2>1. \A r : r \notin {u.reg, v.reg, w.reg, x.reg, y.reg} => \A i \in DOMAIN p : p[i].reg # r
    BY <1>1
  <2>2. QED
    BY <1>1, <2>1, AbsentBit
<1>5. 1 \in DOMAIN p /\ 2 \in DOMAIN p /\ 3 \in DOMAIN p /\ 4 \in DOMAIN p /\ 5 \in DOMAIN p
  BY <1>1
<1>6. QED
  BY <1>1, <1>3, <1>4, <1>5 DEF p

LEMMA IsMaskWrite ==
    /\ \A r \in Registers, m \in SUBSET Byte, v \in SUBSET Nat :
           LET w == MaskWrite(r, m, v)
           IN  w \in MaskWrites /\ w.reg = r /\ w.mask = m /\ w.val = v
    /\ \A r \in Registers, v \in SUBSET Nat :
           LET w == FullWrite(r, v)
           IN  w \in MaskWrites /\ w.reg = r /\ w.mask = Byte /\ w.val = v
BY DEF FullWrite, MaskWrite, MaskWrites

LEMMA FieldIs ==
    ASSUME NEW A, NEW w, w.val \subseteq w.mask,
           \A b : b \in A[w.reg] <=> b \in w.val /\ b \in w.mask
    PROVE  w.val = A[w.reg]
OBVIOUS

\* Where each parameter is found: activity on a SOCLE chip, click on a SOCLE chip,
\* activity on an NSA chip, click on an NSA chip but for the quiet time.
LEMMA TellSocleActivity ==
    ASSUME NEW o \in Fitting(Socle), o.src = "activity"
    PROVE  LET A == After(Clear, Writes(Socle, o))
           IN  /\ o.pin = 1 <=> 6 \in A["CTRL_REG3"]
               /\ Num(o.threshold) = A["INT1_THS"] \cup A["INT2_THS"]
               /\ Num(o.duration) = A["INT1_DURATION"] \cup A["INT2_DURATION"]
<1>0. Socle \in Chips
  BY DEF Chips
<1>1. /\ o.type = "config" /\ o.pin \in {1, 2} /\ o.threshold \in 0..255 /\ o.duration \in 0..255
      /\ o.threshold < 128 /\ o.duration < 128
  BY <1>0, FittingBounds, ConfigShape
<1>2. Num(o.threshold) \subseteq 0..6 /\ Num(o.duration) \subseteq 0..6
  BY <1>1, NoBitsAbove
<1>3. /\ "CTRL_REG3" \in Registers /\ "CTRL_REG6" \in Registers /\ "INT1_THS" \in Registers /\ "INT2_THS" \in Registers
      /\ "INT1_DURATION" \in Registers /\ "INT2_DURATION" \in Registers
      /\ {6} \in SUBSET Byte /\ {5} \in SUBSET Byte /\ 0..6 \in SUBSET Byte
      /\ {6} \in SUBSET Nat /\ {5} \in SUBSET Nat
  BY DEF Registers, Byte
<1>4. Writes(Socle, o) = SOCLE_config(o)
  BY <1>1 DEF Writes, interrupt_ops, SOCLE_interrupt_ops
<1>5. CASE o.pin = 1
  <2> DEFINE u == MaskWrite("CTRL_REG3", {6}, {6})
             v == MaskWrite("INT1_THS", 0..6, Num(o.threshold))
             w == MaskWrite("INT1_DURATION", 0..6, Num(o.duration))
  <2>1. SOCLE_config(o) = <<u, v, w>>
    BY <1>5 DEF SOCLE_config
  <2>2. /\ u \in MaskWrites /\ u.reg = "CTRL_REG3" /\ u.mask = {6} /\ u.val = {6}
        /\ v \in MaskWrites /\ v.reg = "INT1_THS" /\ v.mask = 0..6 /\ v.val = Num(o.threshold)
        /\ w \in MaskWrites /\ w.reg = "INT1_DURATION" /\ w.mask = 0..6 /\ w.val = Num(o.duration)
    BY <1>3, IsMaskWrite, NumIsBits
  <2> HIDE DEF u, v, w
  <2>3. QED
    BY <1>2, <1>3, <1>4, <1>5, <2>1, <2>2, ThreeWrites
<1>6. CASE o.pin = 2
  <2> DEFINE u == MaskWrite("CTRL_REG6", {5}, {5})
             v == MaskWrite("INT2_THS", 0..6, Num(o.threshold))
             w == MaskWrite("INT2_DURATION", 0..6, Num(o.duration))
  <2>1. SOCLE_config(o) = <<u, v, w>>
    BY <1>6 DEF SOCLE_config
  <2>2. /\ u \in MaskWrites /\ u.reg = "CTRL_REG6" /\ u.mask = {5} /\ u.val = {5}
        /\ v \in MaskWrites /\ v.reg = "INT2_THS" /\ v.mask = 0..6 /\ v.val = Num(o.threshold)
        /\ w \in MaskWrites /\ w.reg = "INT2_DURATION" /\ w.mask = 0..6 /\ w.val = Num(o.duration)
    BY <1>3, IsMaskWrite, NumIsBits
  <2> HIDE DEF u, v, w
  <2>3. QED
    BY <1>2, <1>3, <1>4, <1>6, <2>1, <2>2, ThreeWrites
<1>7. QED
  BY <1>1, <1>5, <1>6

LEMMA TellSocleClick ==
    ASSUME NEW o \in Fitting(Socle), o.src = "click"
    PROVE  LET A == After(Clear, Writes(Socle, o))
           IN  /\ o.pin = 1 <=> 7 \in A["CTRL_REG3"]
               /\ Num(o.threshold) = A["CLICK_THS"]
               /\ Num(o.click_time) = A["TIME_LIMIT"]
               /\ Num(o.quiet_time) = A["TIME_LATENCY"]
               /\ Num(o.window) = A["TIME_WINDOW"]
<1> DEFINE r == IF o.pin = 1 THEN "CTRL_REG3" ELSE "CTRL_REG6"
<1>0. Socle \in Chips
  BY DEF Chips
<1>1. /\ o.type = "config" /\ o.pin \in {1, 2} /\ o.threshold \in 0..255 /\ o.click_time \in 0..255
      /\ o.threshold < 128 /\ o.click_time < 128
  BY <1>0, FittingBounds, ConfigShape
<1>2. /\ Num(o.threshold) \subseteq 0..6 /\ Num(o.click_time) \subseteq 0..6
      /\ Num(o.quiet_time) \subseteq Byte /\ Num(o.window) \subseteq Byte
  BY <1>1, NoBitsAbove, NumIsBits
<1>3. /\ "CTRL_REG3" \in Registers /\ "CTRL_REG6" \in Registers /\ "CLICK_THS" \in Registers
      /\ "TIME_LIMIT" \in Registers /\ "TIME_LATENCY" \in Registers /\ "TIME_WINDOW" \in Registers
      /\ {7} \in SUBSET Byte /\ {7} \in SUBSET Nat /\ 0..6 \in SUBSET Byte
  BY DEF Registers, Byte
<1>4. Writes(Socle, o) = SOCLE_config(o)
  BY <1>1 DEF Writes, interrupt_ops, SOCLE_interrupt_ops
<1> DEFINE u == MaskWrite("CLICK_THS", 0..6, Num(o.threshold))
           v == MaskWrite("TIME_LIMIT", 0..6, Num(o.click_time))
           w == FullWrite("TIME_LATENCY", Num(o.quiet_time))
           x == FullWrite("TIME_WINDOW", Num(o.window))
           y == MaskWrite(r, {7}, {7})
<1>5. SOCLE_config(o) = <<u, v, w, x, y>>
  BY DEF SOCLE_config
<1>6. r \in {"CTRL_REG3", "CTRL_REG6"} /\ (r = "CTRL_REG3" <=> o.pin = 1)
  BY <1>1
<1> HIDE DEF r
<1>7. /\ u \in MaskWrites /\ u.reg = "CLICK_THS" /\ u.mask = 0..6 /\ u.val = Num(o.threshold)
      /\ v \in MaskWrites /\ v.reg = "TIME_LIMIT" /\ v.mask = 0..6 /\ v.val = Num(o.click_time)
      /\ w \in MaskWrites /\ w.reg = "TIME_LATENCY" /\ w.mask = Byte /\ w.val = Num(o.quiet_time)
      /\ x \in MaskWrites /\ x.reg = "TIME_WINDOW" /\ x.mask = Byte /\ x.val = Num(o.window)
      /\ y \in MaskWrites /\ y.reg = r /\ y.mask = {7} /\ y.val = {7}
  BY <1>3, <1>6, IsMaskWrite, NumIsBits
<1> HIDE DEF u, v, w, x, y
<1> DEFINE A == After(Clear, <<u, v, w, x, y>>)
<1>8. /\ \A b : b \in A[u.reg] <=> b \in u.val /\ b \in u.mask
      /\ \A b : b \in A[v.reg] <=> b \in v.val /\ b \in v.mask
      /\ \A b : b \in A[w.reg] <=> b \in w.val /\ b \in w.mask
      /\ \A b : b \in A[x.reg] <=> b \in x.val /\ b \in x.mask
      /\ \A b : b \in A[y.reg] <=> b \in y.val /\ b \in y.mask
      /\ \A s \in Registers : \A b : s \notin {u.reg, v.reg, w.reg, x.reg, y.reg} => b \notin A[s]
  BY <1>6, <1>7, FiveWrites
<1>9. A = After(Clear, Writes(Socle, o))
  BY <1>4, <1>5
<1> HIDE DEF A
<1>10. o.pin = 1 <=> 7 \in A["CTRL_REG3"]
  BY <1>3, <1>6, <1>7, <1>8
<1>11. u.val \subseteq u.mask /\ v.val \subseteq v.mask /\ w.val \subseteq w.mask /\ x.val \subseteq x.mask
  BY <1>2, <1>7
<1>12. u.val = A[u.reg] /\ v.val = A[v.reg]
  BY <1>8, <1>11, FieldIs
<1>13. w.val = A[w.reg] /\ x.val = A[x.reg]
  BY <1>8, <1>11, FieldIs
<1>14. QED
  BY <1>7, <1>9, <1>10, <1>12, <1>13

LEMMA TellNsaActivity ==
    ASSUME NEW o \in Fitting(Nsa), o.src = "activity"
    PROVE  LET A == After(Clear, Writes(Nsa, o))
           IN  /\ o.pin = 1 <=> 2 \in A["INTERRUPT_MAPPING1"]
               /\ Num(o.threshold) = A["ACTIVE_THRESHOLD"]
               /\ Num(o.duration) = A["ACTIVE_DURATION"]
<1> DEFINE r == IF o.pin = 1 THEN "INTERRUPT_MAPPING1" ELSE "INTERRUPT_MAPPING3"
           u == FullWrite("ACTIVE_THRESHOLD", Num(o.threshold))
           v == MaskWrite("ACTIVE_DURATION", {0, 1}, Num(o.duration))
           w == MaskWrite(r, {2}, {2})
           A == After(Clear, <<u, v, w>>)
<1>0. Nsa \in Chips
  BY DEF Chips
<1>1. /\ o.type = "config" /\ o.pin \in {1, 2} /\ o.duration \in 0..255 /\ o.duration < 4
  BY <1>0, FittingBounds, ConfigShape
<1>2. Num(o.threshold) \subseteq Byte /\ Num(o.duration) \subseteq {0, 1}
  BY <1>1, NoBitsAbove, NumIsBits
<1>3. /\ "INTERRUPT_MAPPING1" \in Registers /\ "INTERRUPT_MAPPING3" \in Registers
      /\ "ACTIVE_THRESHOLD" \in Registers /\ "ACTIVE_DURATION" \in Registers
      /\ {2} \in SUBSET Byte /\ {2} \in SUBSET Nat /\ {0, 1} \in SUBSET Byte
  BY DEF Registers, Byte
<1>4. Writes(Nsa, o) = NSA_config(o)
  BY <1>1 DEF Writes, interrupt_ops, NSA_interrupt_ops, Socle, Nsa
<1>5. NSA_config(o) = <<u, v, w>>
  BY DEF NSA_config
<1>6. r \in {"INTERRUPT_MAPPING1", "INTERRUPT_MAPPING3"} /\ (r = "INTERRUPT_MAPPING1" <=> o.pin = 1)
  BY <1>1
<1> HIDE DEF r
<1>7. /\ u \in MaskWrites /\ u.reg = "ACTIVE_THRESHOLD" /\ u.mask = Byte /\ u.val = Num(o.threshold)
      /\ v \in MaskWrites /\ v.reg = "ACTIVE_DURATION" /\ v.mask = {0, 1} /\ v.val = Num(o.duration)
      /\ w \in MaskWrites /\ w.reg = r /\ w.mask = {2} /\ w.val = {2}
  BY <1>3, <1>6, IsMaskWrite, NumIsBits
<1> HIDE DEF u, v, w
<1>8. /\ \A b : b \in A[u.reg] <=> b \in u.val /\ b \in u.mask
      /\ \A b : b \in A[v.reg] <=> b \in v.val /\ b \in v.mask
      /\ \A b : b \in A[w.reg] <=> b \in w.val /\ b \in w.mask
      /\ \A s \in Registers : \A b : s \notin {u.reg, v.reg, w.reg} => b \notin A[s]
  BY <1>6, <1>7, ThreeWrites
<1>9. A = After(Clear, Writes(Nsa, o))
  BY <1>4, <1>5
<1> HIDE DEF A
<1>10. o.pin = 1 <=> 2 \in A["INTERRUPT_MAPPING1"]
  BY <1>3, <1>6, <1>7, <1>8
<1>11. u.val \subseteq u.mask /\ v.val \subseteq v.mask
  BY <1>2, <1>7
<1>12. u.val = A[u.reg] /\ v.val = A[v.reg]
  BY <1>8, <1>11, FieldIs
<1>13. QED
  BY <1>7, <1>9, <1>10, <1>12

LEMMA TellNsaClick ==
    ASSUME NEW o \in Fitting(Nsa), o.src = "click"
    PROVE  LET A == After(Clear, Writes(Nsa, o))
           IN  /\ o.pin = 1 <=> 4 \in A["INTERRUPT_MAPPING1"]
               /\ Num(o.threshold) = A["TAP_THRESHOLD"]
               /\ Num(o.click_time) = {b - 6 : b \in A["TAP_DURATION"] \cap {6}}
               /\ Num(o.window) = A["TAP_DURATION"] \cap 0..2
<1> DEFINE r == IF o.pin = 1 THEN "INTERRUPT_MAPPING1" ELSE "INTERRUPT_MAPPING3"
           times == Shl(o.quiet_time, 7) \cup Shl(o.click_time, 6) \cup Num(o.window)
           u == MaskWrite("TAP_THRESHOLD", 0..4, Num(o.threshold))
           v == MaskWrite("TAP_DURATION", {0, 1, 2, 5, 6}, times)
           w == MaskWrite(r, {4, 5}, {4, 5})
           A == After(Clear, <<u, v, w>>)
<1>0. Nsa \in Chips
  BY DEF Chips
<1>1. /\ o.type = "config" /\ o.pin \in {1, 2} /\ o.threshold \in 0..255 /\ o.click_time \in 0..255
      /\ o.window \in 0..255 /\ o.threshold < 32 /\ o.click_time < 2 /\ o.window < 8
  BY <1>0, FittingBounds, ConfigShape
<1>2. /\ Num(o.threshold) \subseteq 0..4
      /\ 6 \in times <=> 0 \in Num(o.click_time)
      /\ \A b \in 0..2 : b \in times <=> b \in Num(o.window)
      /\ Num(o.click_time) \subseteq {0} /\ Num(o.window) \subseteq 0..2
  <2>1. /\ Num(o.threshold) \subseteq 0..4 /\ Num(o.click_time) \subseteq {0}
        /\ Num(o.window) \subseteq 0..2
    BY <1>1, NoBitsAbove
  <2>2. \A x : x \in Shl(o.quiet_time, 7) => x >= 7 /\ x \in Nat
    BY NumIsBits DEF Shl
  <2>3. \A x : x \in Shl(o.click_time, 6) <=> x = 6 /\ 0 \in Num(o.click_time)
    BY <2>1 DEF Shl
  <2>4. QED
    BY <2>1, <2>2, <2>3
<1>3. /\ "INTERRUPT_MAPPING1" \in Registers /\ "INTERRUPT_MAPPING3" \in Registers
      /\ "TAP_THRESHOLD" \in Registers /\ "TAP_DURATION" \in Registers
      /\ {4, 5} \in SUBSET Byte /\ {4, 5} \in SUBSET Nat /\ {0, 1, 2, 5, 6} \in SUBSET Byte
      /\ 0..4 \in SUBSET Byte
  BY DEF Registers, Byte
<1>4. Writes(Nsa, o) = NSA_config(o)
  BY <1>1 DEF Writes, interrupt_ops, NSA_interrupt_ops, Socle, Nsa
<1>5. NSA_config(o) = <<u, v, w>>
  BY DEF NSA_config
<1>6. r \in {"INTERRUPT_MAPPING1", "INTERRUPT_MAPPING3"} /\ (r = "INTERRUPT_MAPPING1" <=> o.pin = 1)
  BY <1>1
<1>7. times \in SUBSET Nat
  BY NumIsBits, ShlIsNat
<1> HIDE DEF r, times
<1>8. /\ u \in MaskWrites /\ u.reg = "TAP_THRESHOLD" /\ u.mask = 0..4 /\ u.val = Num(o.threshold)
      /\ v \in MaskWrites /\ v.reg = "TAP_DURATION" /\ v.mask = {0, 1, 2, 5, 6} /\ v.val = times
      /\ w \in MaskWrites /\ w.reg = r /\ w.mask = {4, 5} /\ w.val = {4, 5}
  BY <1>3, <1>6, <1>7, IsMaskWrite, NumIsBits
<1> HIDE DEF u, v, w
<1>9. /\ \A b : b \in A[u.reg] <=> b \in u.val /\ b \in u.mask
      /\ \A b : b \in A[v.reg] <=> b \in v.val /\ b \in v.mask
      /\ \A b : b \in A[w.reg] <=> b \in w.val /\ b \in w.mask
      /\ \A s \in Registers : \A b : s \notin {u.reg, v.reg, w.reg} => b \notin A[s]
  BY <1>6, <1>8, ThreeWrites
<1>10. A = After(Clear, Writes(Nsa, o))
  BY <1>4, <1>5
<1> HIDE DEF A
<1>11. o.pin = 1 <=> 4 \in A["INTERRUPT_MAPPING1"]
  BY <1>3, <1>6, <1>8, <1>9
<1>12. Num(o.threshold) = A["TAP_THRESHOLD"]
  BY <1>2, <1>3, <1>8, <1>9
<1>13. \A b : b \in A["TAP_DURATION"] <=> b \in times /\ b \in {0, 1, 2, 5, 6}
  BY <1>3, <1>8, <1>9
<1>14. Num(o.window) = A["TAP_DURATION"] \cap 0..2
  BY <1>2, <1>13
<1>15. Num(o.click_time) = {b - 6 : b \in A["TAP_DURATION"] \cap {6}}
  BY <1>2, <1>13
<1>16. QED
  BY <1>10, <1>11, <1>12, <1>14, <1>15

\* mir3da_core.c, the config operations of both chips: two configurations of an
\* interrupt source whose parameters fit their fields leave different chips, but for
\* the quiet time of an NSA chip, which is shifted out of its mask.
THEOREM ConfigDistinctHolds == input \in ChipCalls => ConfigDistinct
<1> DEFINE family  == input.chip
           Kept(o) == IF family = Nsa /\ o.src = "click" THEN [o EXCEPT !.quiet_time = 0] ELSE o
           Left(o) == After(Clear, Writes(family, o))
<1> SUFFICES ASSUME input \in ChipCalls, input.op \in ConfigOps, FitsFields(family, input.op),
                    NEW o \in ConfigOps, o.src = input.op.src, FitsFields(family, o),
                    Left(o) = Left(input.op)
             PROVE  Kept(o) = Kept(input.op)
  BY DEF ConfigDistinct, Clear
<1>1. family \in {Socle, Nsa} /\ family \in Chips
  BY DEF ChipCalls, Chips
<1> DEFINE i == input.op
<1> HIDE DEF i
<1>2. /\ i \in Fitting(family) /\ o \in Fitting(family) /\ i \in ConfigOps
      /\ o.src = i.src /\ Left(o) = Left(i)
      /\ Kept(o) = Kept(i) => Kept(o) = Kept(input.op)
  BY DEF i, Fitting
<1>3. i.pin \in {1, 2} /\ o.pin \in {1, 2} /\ i.threshold \in 0..255 /\ o.threshold \in 0..255
  BY <1>2, ConfigShape
<1>4. CASE o.src = "activity"
  <2>1. /\ i.duration \in 0..255 /\ o.duration \in 0..255
        /\ o = [type |-> "config", src |-> "activity", pin |-> o.pin,
                threshold |-> o.threshold, duration |-> o.duration]
        /\ i = [type |-> "config", src |-> "activity", pin |-> i.pin,
                threshold |-> i.threshold, duration |-> i.duration]
    BY <1>2, <1>4, ConfigShape
  <2>2. /\ o.pin = 1 <=> i.pin = 1
        /\ Num(o.threshold) = Num(i.threshold)
        /\ Num(o.duration) = Num(i.duration)
    <3>1. CASE family = Socle
      BY <1>2, <1>4, <3>1, TellSocleActivity
    <3>2. CASE family = Nsa
      BY <1>2, <1>4, <3>2, TellNsaActivity
    <3>3. QED
      BY <1>1, <3>1, <3>2
  <2>3. o.pin = i.pin /\ o.threshold = i.threshold /\ o.duration = i.duration
    BY <1>3, <2>1, <2>2, FromBits
  <2>4. o = i
    BY <2>1, <2>3
  <2>5. QED
    BY <1>2, <2>4
<1>5. CASE o.src = "click"
  <2>1. /\ i.click_time \in 0..255 /\ o.click_time \in 0..255 /\ i.quiet_time \in 0..255
        /\ o.quiet_time \in 0..255 /\ i.window \in 0..255 /\ o.window \in 0..255
        /\ o = [type |-> "config", src |-> "click", pin |-> o.pin, threshold |-> o.threshold,
                click_time |-> o.click_time, quiet_time |-> o.quiet_time, window |-> o.window]
        /\ i = [type |-> "config", src |-> "click", pin |-> i.pin, threshold |-> i.threshold,
                click_time |-> i.click_time, quiet_time |-> i.quiet_time, window |-> i.window]
    BY <1>2, <1>5, ConfigShape
  <2>2. CASE family = Socle
    <3>1. /\ o.pin = 1 <=> i.pin = 1
          /\ Num(o.threshold) = Num(i.threshold)
          /\ Num(o.click_time) = Num(i.click_time)
          /\ Num(o.quiet_time) = Num(i.quiet_time)
          /\ Num(o.window) = Num(i.window)
      BY <1>2, <1>5, <2>2, TellSocleClick
    <3>2. /\ o.pin = i.pin /\ o.threshold = i.threshold /\ o.click_time = i.click_time
          /\ o.quiet_time = i.quiet_time /\ o.window = i.window
      BY <1>3, <2>1, <3>1, FromBits
    <3>3. o = i
      BY <2>1, <3>2
    <3>4. QED
      BY <1>2, <3>3
  <2>3. CASE family = Nsa
    <3>1. /\ o.pin = 1 <=> i.pin = 1
          /\ Num(o.threshold) = Num(i.threshold)
          /\ Num(o.click_time) = Num(i.click_time)
          /\ Num(o.window) = Num(i.window)
      BY <1>2, <1>5, <2>3, TellNsaClick
    <3>2. /\ o.pin = i.pin /\ o.threshold = i.threshold /\ o.click_time = i.click_time
          /\ o.window = i.window
      BY <1>3, <2>1, <3>1, FromBits
    <3>3. [o EXCEPT !.quiet_time = 0] = [i EXCEPT !.quiet_time = 0]
      BY <2>1, <3>2
    <3>4. Kept(o) = Kept(i)
      BY <1>2, <1>5, <2>3, <3>3
    <3>5. QED
      BY <1>2, <3>4
  <2>4. QED
    BY <1>1, <2>2, <2>3
<1>6. o.src \in {"activity", "click"}
  BY ConfigShape
<1>7. QED
  BY <1>4, <1>5, <1>6
=============================================================================
