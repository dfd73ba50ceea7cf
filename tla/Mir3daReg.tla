------------------------------ MODULE Mir3daReg ------------------------------
(***************************************************************************)
(* The register access layer of the da380 accelerometer driver             *)
(* (mir3da_register_read, _write and _mask_write of                        *)
(* GSensor/da380/mir3da_core.c): register 0 of the chip selects the page   *)
(* every other transfer goes to, and an access to a page other than 0      *)
(* saves it, switches it, accesses and restores it, one bus transfer per   *)
(* step.  Nothing serialises the callers (the input poll, the sysfs        *)
(* attributes and the ioctls).                                             *)
(***************************************************************************)
EXTENDS Naturals

CONSTANTS
    Contexts,     \* the tasks that call the access functions
    Pages,        \* the pages of the registers they name (MIR3DA_REG_PAGE)
    Addrs,        \* the addresses within a page (MIR3DA_REG_ADDR)
    Bits,         \* a register value is the set of its bits that are 1
    NoRequest,    \* the request of a caller that makes none
    NoPage,       \* a page the chip does not have: a failed read taken for one
    FailAt        \* the transfers that may fail: "read", "page", "data", "restore"

ASSUME MirConstants ==
    /\ Pages \subseteq Nat /\ 0 \in Pages
    /\ NoPage \notin Pages
    /\ FailAt \subseteq {"read", "page", "data", "restore"}

VARIABLES
    page,         \* register 0 of the chip
    regs,         \* the other registers of each page
    call,         \* the request of each caller
    step,         \* where the caller is
    phase,        \* the primitive it is in: register_read or register_write
    saved,        \* its cur_page
    data,         \* its tmp_data
    res           \* its res: 0, or 1 for an error

vars == <<page, regs, call, step, phase, saved, data, res>>

Regs     == Pages \X Addrs
Vals     == SUBSET Bits
Requests == [kind : {"read", "write"}, reg : Regs, mask : {Bits}, val : Vals]
            \cup [kind : {"mask"}, reg : Regs, mask : Vals, val : Vals]
PageOf(c) == call[c].reg[1]
AddrOf(c) == call[c].reg[2]

Init ==
    /\ page = 0
    /\ regs = [r \in Regs |-> {}]
    /\ call = [c \in Contexts |-> NoRequest]
    /\ step = [c \in Contexts |-> "idle"]
    /\ phase = [c \in Contexts |-> "read"]
    /\ saved = [c \in Contexts |-> 0]
    /\ data = [c \in Contexts |-> {}]
    /\ res = [c \in Contexts |-> 0]

\* What transfer t returns.
Outcome(t) == IF t \in FailAt THEN {0, 1} ELSE {0}

\* Variant: a call never switches back.
LastStep_Never(reg) == "return"

\* Page 0 is accessed at once, whatever page the chip is on.
FirstStep(reg) == IF reg[1] > 0 THEN "get_page" ELSE "access"
LastStep(reg)  == IF reg[1] > 0 THEN "restore" ELSE "return"

At(c, s) == step[c] = s
Goto(c, s) == step' = [step EXCEPT ![c] = s]

Begin(c) ==
    /\ At(c, "idle")
    /\ \E req \in Requests :
        /\ call' = [call EXCEPT ![c] = req]
        /\ phase' = [phase EXCEPT ![c] = IF req.kind = "write" THEN "write" ELSE "read"]
        /\ Goto(c, FirstStep(req.reg))
    /\ UNCHANGED <<page, regs, saved, data, res>>

\* What a read of a cell gives: i2c_smbus_read returns 0 whatever the transfer
\* did, and leaves the low byte of its error code as the data.
ReadOf(cell, garbage) == IF "read" \in FailAt THEN {cell} \cup garbage ELSE {cell}

\* smi.read(handle, 0, &cur_page)
GetPage(c) ==
    /\ At(c, "get_page")
    /\ \E cur_page \in ReadOf(page, {NoPage}) :
        /\ saved' = [saved EXCEPT ![c] = cur_page]
        /\ Goto(c, IF cur_page # PageOf(c) THEN "set_page" ELSE "access")
    /\ UNCHANGED <<page, regs, call, phase, data, res>>

\* Variant: the access is made although the switch failed.
SetPage_Unchecked(c) ==
    /\ At(c, "set_page")
    /\ \E err \in Outcome("page") : page' = IF err = 0 THEN PageOf(c) ELSE page
    /\ Goto(c, "access")
    /\ UNCHANGED <<regs, call, phase, saved, data, res>>

\* smi.write(handle, 0, MIR3DA_REG_PAGE(addr)); a failure ends the call.
SetPage(c) ==
    /\ At(c, "set_page")
    /\ \E err \in Outcome("page") :
        /\ page' = IF err = 0 THEN PageOf(c) ELSE page
        /\ res' = [res EXCEPT ![c] = err]
        /\ Goto(c, IF err = 0 THEN "access" ELSE "return")
    /\ UNCHANGED <<regs, call, phase, saved, data>>

\* The chip resolves the address on the page it is on.
Here(c) == <<page, AddrOf(c)>>

\* mask_write: tmp_data &= ~mask; tmp_data |= data & mask.
Written(c) ==
    LET req == call[c]
    IN  IF req.kind = "mask" THEN (data[c] \ req.mask) \cup (req.val \cap req.mask)
        ELSE req.val

AccessRead(c) ==
    /\ At(c, "access") /\ phase[c] = "read"
    /\ \E v \in IF page = NoPage THEN Vals ELSE ReadOf(regs[Here(c)], Vals) :
        data' = [data EXCEPT ![c] = v]
    /\ Goto(c, LastStep(call[c].reg))
    /\ UNCHANGED <<page, regs, call, phase, saved, res>>

AccessWrite(c) ==
    /\ At(c, "access") /\ phase[c] = "write"
    /\ \E err \in Outcome("data") :
        /\ regs' = IF err = 0 /\ page # NoPage
                   THEN [regs EXCEPT ![Here(c)] = Written(c)] ELSE regs
        /\ res' = [res EXCEPT ![c] = err]
    /\ Goto(c, LastStep(call[c].reg))
    /\ UNCHANGED <<page, call, phase, saved, data>>

\* smi.write(handle, 0, cur_page)
Restore(c) ==
    /\ At(c, "restore")
    /\ \E err \in Outcome("restore") :
        /\ page' = IF err = 0 THEN saved[c] ELSE page
        /\ res' = [res EXCEPT ![c] = IF err = 0 THEN @ ELSE err]
    /\ Goto(c, "return")
    /\ UNCHANGED <<regs, call, phase, saved, data>>

\* register_mask_write goes on to its register_write unless the read failed.
Return(c) ==
    /\ At(c, "return")
    /\ IF call[c].kind = "mask" /\ phase[c] = "read" /\ res[c] = 0
       THEN /\ phase' = [phase EXCEPT ![c] = "write"]
            /\ Goto(c, FirstStep(call[c].reg))
            /\ UNCHANGED <<call, data, saved, res>>
       ELSE /\ Goto(c, "idle")
            /\ call' = [call EXCEPT ![c] = NoRequest]
            /\ phase' = [phase EXCEPT ![c] = "read"]
            /\ data' = [data EXCEPT ![c] = {}]
            /\ saved' = [saved EXCEPT ![c] = 0]
            /\ res' = [res EXCEPT ![c] = 0]
    /\ UNCHANGED <<page, regs>>

Next == \E c \in Contexts :
    \/ Begin(c) \/ GetPage(c) \/ SetPage(c) \/ AccessRead(c) \/ AccessWrite(c)
    \/ Restore(c) \/ Return(c)

Spec == Init /\ [][Next]_vars

-----------------------------------------------------------------------------
(* Properties. *)

Steps == {"idle", "get_page", "set_page", "access", "restore", "return"}

TypeOK ==
    /\ page \in Pages \cup {NoPage}
    /\ regs \in [Regs -> Vals]
    /\ call \in [Contexts -> Requests \cup {NoRequest}]
    /\ step \in [Contexts -> Steps]
    /\ phase \in [Contexts -> {"read", "write"}]
    /\ saved \in [Contexts -> Pages \cup {NoPage}]
    /\ data \in [Contexts -> Vals]
    /\ res \in [Contexts -> {0, 1}]

\* The comment "restore page NO.": when no call is in progress the chip is back
\* on page 0, where the next call expects it.
PageRestored == (\A c \in Contexts : step[c] = "idle") => page = 0

\* The stage of a call in terms of RegFile.
Stage(c) ==
    CASE step[c] = "idle"                                        -> "idle"
      [] step[c] \in {"get_page", "set_page", "access"}          -> phase[c]
      [] /\ step[c] \in {"restore", "return"}
         /\ call[c].kind = "mask" /\ phase[c] = "read" /\ res[c] = 0 -> "write"
      [] OTHER                                                   -> "done"

Abs == INSTANCE RegFile WITH stage <- [c \in Contexts |-> Stage(c)]

\* A lone caller, or callers that stay on page 0, get the flat register file:
\* no access lands on another page, whichever transfers before the restore fail.
Implements == Abs!Spec
=============================================================================
