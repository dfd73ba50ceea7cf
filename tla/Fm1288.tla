------------------------------- MODULE Fm1288 -------------------------------
(***************************************************************************)
(* The FM1288 voice processor driver (sound/codecs/FM1288/fm1288/fm1288.c):*)
(* probe with its initial table, removal, module exit, and the two ioctls, *)
(* one i2c transfer attempt or one semaphore operation per step.           *)
(*                                                                         *)
(* A register is read in three transfers: a command that makes the chip    *)
(* copy the register to its data port, and one read for each byte of the   *)
(* port.  fm1288_rw_lock keeps the three together; the table of probe is   *)
(* written without it, after the node became visible.                      *)
(***************************************************************************)
EXTENDS Naturals, Sequences

CONSTANTS
    Callers,     \* tasks that use the device node
    Regs,        \* register addresses
    Bytes,       \* bytes of a register
    Zero,        \* the byte 0
    Written,     \* values the callers write
    Table,       \* fm1288_regs: a sequence of [reg, val]
    Tries,       \* transfer attempts of a call: 5 in the code
    MaxProbes    \* bound on the number of times the device is bound

Values == Bytes \X Bytes          \* <<high byte, low byte>>

\* The initial table names no register twice: its order does not matter.
TableForm ==
    /\ Table \in Seq([reg : Regs, val : Values])
    /\ \A i, j \in DOMAIN Table : Table[i].reg = Table[j].reg => i = j

ASSUME ConstantsAssumption ==
    /\ Regs # {}
    /\ Zero \in Bytes
    /\ Written \subseteq Values
    /\ TableForm
    /\ Tries \in Nat \ {0}
    /\ MaxProbes \in Nat

VARIABLES
    mem,         \* the chip's registers
    port,        \* the chip's data port (0x26 high byte, 0x25 low byte)
    node,        \* cdev_add has made the device node usable
    ready,       \* sema_init has run; before it the semaphore is all zero
    count,       \* the count of fm1288_rw_lock
    pc,          \* where each caller is
    op,          \* its ioctl: "read" or "write"
    reg,         \* dev_reg.reg_addr
    val,         \* dev_reg.value, or the bytes of a read so far
    tries,       \* failed attempts of the call
    probe,       \* where fm1288_probe is
    next,        \* next entry of the table
    lapses,      \* failed attempts for that entry
    class,       \* what class_create gave the last set-up
    bound,       \* the driver is bound to the device
    probes,      \* number of probes
    module,      \* "loaded", "unloaded", or "oops": rmmod died in the exit function
    seen,        \* history: values the register of a read held during the call
    shaken,      \* history: sema_init ran on a semaphore in use
    touched      \* history: registers written by callers, or missed by the table

chip    == <<mem, port>>
sem     == <<ready, count>>
call    == <<pc, op, reg, val, tries>>
life    == <<probe, next, lapses, class, bound, probes, module>>
history == <<seen, shaken, touched>>
vars    == <<chip, node, sem, call, life, history>>

Blank  == <<Zero, Zero>>
AnyReg == CHOOSE r \in Regs : TRUE    \* the register of a caller without a call

OnBus(c)   == pc[c] \in {"latch", "low", "high", "write", "up", "fail"}
Idle       == \A c \in Callers : pc[c] = "idle"
Reading(c) == op[c] = "read" /\ pc[c] \notin {"idle", "done", "failed"}
FirstOf(o) == IF o = "read" THEN "latch" ELSE "write"

Init ==
    /\ mem \in [Regs -> {Blank}]
    /\ port = Blank
    /\ node = FALSE
    /\ ready = FALSE
    /\ count = 0
    /\ pc = [c \in Callers |-> "idle"]
    /\ op = [c \in Callers |-> "read"]
    /\ reg = [c \in Callers |-> AnyReg]
    /\ val = [c \in Callers |-> Blank]
    /\ tries = [c \in Callers |-> 0]
    /\ probe = "idle"
    /\ next = 1
    /\ lapses = 0
    /\ class = "none"
    /\ bound = FALSE
    /\ probes = 0
    /\ module = "loaded"
    /\ seen = [c \in Callers |-> {}]
    /\ shaken = FALSE
    /\ touched = {}

-----------------------------------------------------------------------------
(* The chip. *)

\* A write of v to register r; every read under way has now seen v as well.
Store(r, v) ==
    /\ mem' = [mem EXCEPT ![r] = v]
    /\ seen' = [c \in Callers |->
                   IF Reading(c) /\ reg[c] = r THEN seen[c] \cup {v} ELSE seen[c]]

\* A write the adapter reports as failed may have reached the chip or not.
StoreOrLost(r, v) == Store(r, v) \/ UNCHANGED <<mem, seen>>

-----------------------------------------------------------------------------
(* The ioctls. *)

\* fm1288_ioctl copies the request in.  The node is usable from cdev_add on.
Enter(c) ==
    /\ node
    /\ module = "loaded"
    /\ pc[c] = "idle"
    /\ \E o \in {"read", "write"}, r \in Regs, v \in Written :
         /\ op' = [op EXCEPT ![c] = o]
         /\ reg' = [reg EXCEPT ![c] = r]
         /\ val' = [val EXCEPT ![c] = IF o = "read" THEN Blank ELSE v]
         /\ seen' = [seen EXCEPT ![c] = IF o = "read" THEN {mem[r]} ELSE {}]
    /\ pc' = [pc EXCEPT ![c] = "down"]
    /\ UNCHANGED <<chip, node, sem, tries, life, shaken, touched>>

\* Variant: the semaphore is not taken.
Down_Skips(c) ==
    /\ pc[c] = "down"
    /\ pc' = [pc EXCEPT ![c] = FirstOf(op[c])]
    /\ UNCHANGED <<chip, node, sem, op, reg, val, tries, life, history>>

\* down(): on the all-zero semaphore the wait list has no head and the task
\* dies in the kernel; otherwise it takes the count or joins the waiters.
Down(c) ==
    /\ pc[c] = "down"
    /\ \/ /\ ~ready
          /\ pc' = [pc EXCEPT ![c] = "lost"]
          /\ UNCHANGED count
       \/ /\ ready
          /\ count > 0
          /\ count' = count - 1
          /\ pc' = [pc EXCEPT ![c] = FirstOf(op[c])]
       \/ /\ ready
          /\ count = 0
          /\ pc' = [pc EXCEPT ![c] = "wait"]
          /\ UNCHANGED count
    /\ UNCHANGED <<chip, node, ready, op, reg, val, tries, life, history>>

\* An attempt failed: one counter serves all the transfers of a call, and the
\* fifth failure ends it.
Missed(c) ==
    \/ /\ tries[c] + 1 < Tries
       /\ tries' = [tries EXCEPT ![c] = @ + 1]
       /\ UNCHANGED pc
    \/ /\ tries[c] + 1 = Tries
       /\ tries' = [tries EXCEPT ![c] = 0]
       /\ pc' = [pc EXCEPT ![c] = "fail"]

\* The last transfer of the call succeeded.
Through(c) ==
    /\ tries' = [tries EXCEPT ![c] = 0]
    /\ pc' = [pc EXCEPT ![c] = "up"]

\* fm1288_single_mem_write: one attempt.
WriteMem(c) ==
    /\ pc[c] = "write"
    /\ \/ /\ Store(reg[c], val[c])
          /\ Through(c)
       \/ /\ Missed(c)
          /\ StoreOrLost(reg[c], val[c])
    /\ touched' = touched \cup {reg[c]}
    /\ UNCHANGED <<port, node, sem, op, reg, val, life, shaken>>

\* fm1288_fast_mem_read: the command that names the register.
Latch(c) ==
    /\ pc[c] = "latch"
    /\ \/ /\ port' = mem[reg[c]]
          /\ pc' = [pc EXCEPT ![c] = "low"]
          /\ UNCHANGED tries
       \/ /\ Missed(c)
          /\ port' \in {port, mem[reg[c]]}
    /\ UNCHANGED <<mem, node, sem, op, reg, val, life, history>>

\* The read of port 0x25 ...
ReadLow(c) ==
    /\ pc[c] = "low"
    /\ \/ /\ val' = [val EXCEPT ![c] = <<val[c][1], port[2]>>]
          /\ pc' = [pc EXCEPT ![c] = "high"]
          /\ UNCHANGED tries
       \/ /\ Missed(c)
          /\ UNCHANGED val
    /\ UNCHANGED <<chip, node, sem, op, reg, life, history>>

\* Variant: an exit that does not release the semaphore.
ReadHigh_KeepsSem(c) ==
    /\ pc[c] = "high"
    /\ \/ /\ val' = [val EXCEPT ![c] = <<port[1], val[c][2]>>]
          /\ Through(c)
       \/ /\ UNCHANGED <<val, tries>>
          /\ pc' = [pc EXCEPT ![c] = "failed"]
    /\ UNCHANGED <<chip, node, sem, op, reg, life, history>>

\* ... and of port 0x26.
ReadHigh(c) ==
    /\ pc[c] = "high"
    /\ \/ /\ val' = [val EXCEPT ![c] = <<port[1], val[c][2]>>]
          /\ Through(c)
       \/ /\ Missed(c)
          /\ UNCHANGED val
    /\ UNCHANGED <<chip, node, sem, op, reg, life, history>>

\* up() hands the semaphore to a waiter, or raises the count.
Up(c) ==
    LET after == [pc EXCEPT ![c] = IF @ = "up" THEN "done" ELSE "failed"]
    IN  /\ pc[c] \in {"up", "fail"}
        /\ \/ \E w \in Callers :
                /\ pc[w] = "wait"
                /\ pc' = [after EXCEPT ![w] = FirstOf(op[w])]
                /\ UNCHANGED count
           \/ /\ \A w \in Callers : pc[w] # "wait"
              /\ pc' = after
              /\ count' = count + 1
        /\ UNCHANGED <<chip, node, ready, op, reg, val, tries, life, history>>

\* The ioctl returns 0 with the value copied out, or -EINVAL.
Return(c) ==
    /\ pc[c] \in {"done", "failed"}
    /\ pc' = [pc EXCEPT ![c] = "idle"]
    /\ op' = [op EXCEPT ![c] = "read"]
    /\ reg' = [reg EXCEPT ![c] = AnyReg]
    /\ val' = [val EXCEPT ![c] = Blank]
    /\ seen' = [seen EXCEPT ![c] = {}]
    /\ UNCHANGED <<chip, node, sem, tries, life, shaken, touched>>

CallStep(c) ==
    \/ Down(c) \/ WriteMem(c) \/ Latch(c) \/ ReadLow(c) \/ ReadHigh(c) \/ Up(c)
    \/ Return(c)

-----------------------------------------------------------------------------
(* Probe, removal and module exit. *)

\* fm1288_probe: the adapter lacks I2C, or no memory; or the set-up begins.
Bind ==
    /\ module = "loaded"
    /\ probe = "idle"
    /\ ~bound
    /\ probes < MaxProbes
    /\ probes' = probes + 1
    /\ probe' \in {"idle", "node"}
    /\ UNCHANGED <<chip, node, sem, call, next, lapses, class, bound, module, history>>

\* setup_dev_int: cdev_add, whose failure ends the probe.
SetupNode ==
    /\ probe = "node"
    /\ \/ /\ node' = TRUE
          /\ probe' = "class"
       \/ /\ UNCHANGED node
          /\ probe' = "idle"
    /\ UNCHANGED <<chip, sem, call, next, lapses, class, bound, probes, module, history>>

\* class_create, unchecked: nothing removed the class of an earlier probe.
SetupClass ==
    /\ probe = "class"
    /\ class' = IF class = "none" THEN "made" ELSE "error"
    /\ probe' = "sema"
    /\ UNCHANGED <<chip, node, sem, call, next, lapses, bound, probes, module, history>>

\* sema_init(1): whoever waited on the old semaphore is never woken.
SetupSema ==
    /\ probe = "sema"
    /\ shaken' = (shaken \/ \E c \in Callers : OnBus(c) \/ pc[c] = "wait")
    /\ pc' = [c \in Callers |-> IF pc[c] = "wait" THEN "lost" ELSE pc[c]]
    /\ ready' = TRUE
    /\ count' = 1
    /\ probe' = "table"
    /\ next' = 1
    /\ lapses' = 0
    /\ touched' = {}
    /\ UNCHANGED <<chip, node, op, reg, val, tries, class, bound, probes, module, seen>>

\* Variant: a failed entry is not tried again.
WriteTable_OneTry ==
    /\ probe = "table"
    /\ next \in DOMAIN Table
    /\ LET e == Table[next]
       IN  Store(e.reg, e.val) \/ StoreOrLost(e.reg, e.val)
    /\ next' = next + 1
    /\ UNCHANGED <<port, node, sem, call, probe, lapses, class, bound, probes, module,
                   shaken, touched>>

\* fm1288_i2c_init: one attempt at the next entry; five failures skip it.
WriteTable ==
    /\ probe = "table"
    /\ next \in DOMAIN Table
    /\ LET e == Table[next]
       IN  \/ /\ Store(e.reg, e.val)
              /\ next' = next + 1
              /\ lapses' = 0
              /\ UNCHANGED touched
           \/ /\ StoreOrLost(e.reg, e.val)
              /\ lapses + 1 < Tries
              /\ lapses' = lapses + 1
              /\ UNCHANGED <<next, touched>>
           \/ /\ StoreOrLost(e.reg, e.val)
              /\ lapses + 1 = Tries
              /\ lapses' = 0
              /\ next' = next + 1
              /\ touched' = touched \cup {e.reg}
    /\ UNCHANGED <<port, node, sem, call, probe, class, bound, probes, module, shaken>>

ProbeEnd ==
    /\ probe = "table"
    /\ next \notin DOMAIN Table
    /\ probe' = "idle"
    /\ bound' = TRUE
    /\ UNCHANGED <<chip, node, sem, call, next, lapses, class, probes, module, history>>

\* fm1288_remove does nothing: node, semaphore and client stay in use.
Unbind ==
    /\ probe = "idle"
    /\ bound
    /\ bound' = FALSE
    /\ UNCHANGED <<chip, node, sem, call, probe, next, lapses, class, probes, module, history>>

\* fm1288_exit, with no file open: it reads the client data of a bound device
\* (NULL without one) and gives class_destroy what class_create returned.
Exit ==
    /\ module = "loaded"
    /\ probe = "idle"
    /\ Idle
    /\ \/ /\ bound
          /\ class = "made"
          /\ module' = "unloaded"
          /\ node' = FALSE
       \/ /\ ~(bound /\ class = "made")
          /\ module' = "oops"
          /\ UNCHANGED node
    /\ bound' = FALSE
    /\ UNCHANGED <<chip, sem, call, probe, next, lapses, class, probes, history>>

ProbeStep == SetupNode \/ SetupClass \/ SetupSema \/ WriteTable \/ ProbeEnd

Next ==
    \/ \E c \in Callers : Enter(c) \/ CallStep(c)
    \/ Bind \/ ProbeStep \/ Unbind \/ Exit

\* A call and a probe in progress go on; nobody has to call, bind or unload.
Fairness == WF_vars(ProbeStep) /\ \A c \in Callers : WF_vars(CallStep(c))

Spec == Init /\ [][Next]_vars /\ Fairness

-----------------------------------------------------------------------------
Places == {"idle", "down", "lost", "wait", "latch", "low", "high", "write", "up",
           "fail", "done", "failed"}

FlagsOK ==
    /\ node \in BOOLEAN
    /\ ready \in BOOLEAN
    /\ bound \in BOOLEAN
    /\ shaken \in BOOLEAN

TypeOK ==
    /\ mem \in [Regs -> Values]
    /\ port \in Values
    /\ count \in Nat
    /\ pc \in [Callers -> Places]
    /\ op \in [Callers -> {"read", "write"}]
    /\ reg \in [Callers -> Regs]
    /\ val \in [Callers -> Values]
    /\ tries \in [Callers -> 0..(Tries - 1)]
    /\ probe \in {"idle", "node", "class", "sema", "table"}
    /\ next \in 1..(Len(Table) + 1)
    /\ lapses \in 0..(Tries - 1)
    /\ class \in {"none", "made", "error"}
    /\ probes \in 0..MaxProbes
    /\ module \in {"loaded", "unloaded", "oops"}
    /\ seen \in [Callers -> SUBSET Values]
    /\ touched \subseteq Regs
    /\ FlagsOK

\* A read that succeeds returns a value its register had at one moment of the
\* call, although it takes three transfers, each of them perhaps repeated, and
\* although the table of probe is written in between: never the bytes of two
\* registers or of two values.  A semaphore that a second probe initialises
\* while a call holds it no longer gives this.
ReadReturnsHeld ==
    ~shaken => \A c \in Callers :
                 op[c] = "read" /\ pc[c] = "done" => val[c] \in seen[c]

\* A bound device runs with its table: a register of the table holds the
\* table's value unless a caller wrote to it or all five attempts failed.
TableInEffect ==
    bound => \A i \in DOMAIN Table :
               \/ mem[Table[i].reg] = Table[i].val
               \/ Table[i].reg \in touched

\* A call that finds the semaphore initialised ends, whatever transfers fail
\* and wherever the probe is: every exit of both transfers gives it back.
CallsEnd ==
    [](~shaken) => \A c \in Callers :
                     (pc[c] = "down" /\ ready) ~> (pc[c] \in {"done", "failed"})
=============================================================================
