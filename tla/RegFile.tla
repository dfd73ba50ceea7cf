------------------------------- MODULE RegFile -------------------------------
(***************************************************************************)
(* What a paged register interface promises its callers: a flat file of    *)
(* registers <<page, address>>, each read and each write of which is one   *)
(* indivisible step of the call that asked for it.  A masked write is a    *)
(* read followed by a write and promises no more than that.  A call may    *)
(* give up, and then it has written nothing since its last step.           *)
(***************************************************************************)
CONSTANTS
    Contexts,     \* the callers
    Regs,         \* the registers, <<page, address>>
    Bits,         \* a register value is the set of its bits that are 1
    NoRequest     \* the request of a caller that makes none

VARIABLES
    regs,         \* the contents of the register file
    call,         \* the request of each caller
    stage,        \* "idle", the step to come ("read", "write"), or "done"
    data          \* what the caller's last read returned

vars == <<regs, call, stage, data>>

Vals == SUBSET Bits

Requests == [kind : {"read", "write"}, reg : Regs, mask : {Bits}, val : Vals]
            \cup [kind : {"mask"}, reg : Regs, mask : Vals, val : Vals]

\* A masked write keeps the bits outside the mask.
Merge(old, req) == (old \ req.mask) \cup (req.val \cap req.mask)

\* The value a request writes, given what it has read.
Written(req, read) == IF req.kind = "mask" THEN Merge(read, req) ELSE req.val

NothingRead == {}

Init ==
    /\ regs = [r \in Regs |-> {}]
    /\ call = [c \in Contexts |-> NoRequest]
    /\ stage = [c \in Contexts |-> "idle"]
    /\ data = [c \in Contexts |-> NothingRead]

Begin(c) ==
    /\ stage[c] = "idle"
    /\ \E req \in Requests :
        /\ call' = [call EXCEPT ![c] = req]
        /\ stage' = [stage EXCEPT ![c] = IF req.kind = "write" THEN "write" ELSE "read"]
    /\ UNCHANGED <<regs, data>>

Read(c) ==
    /\ stage[c] = "read"
    /\ data' = [data EXCEPT ![c] = regs[call[c].reg]]
    /\ stage' = [stage EXCEPT ![c] = IF call[c].kind = "mask" THEN "write" ELSE "done"]
    /\ UNCHANGED <<regs, call>>

Write(c) ==
    /\ stage[c] = "write"
    /\ regs' = [regs EXCEPT ![call[c].reg] = Written(call[c], data[c])]
    /\ stage' = [stage EXCEPT ![c] = "done"]
    /\ UNCHANGED <<call, data>>

GiveUp(c) ==
    /\ stage[c] \in {"read", "write"}
    /\ stage' = [stage EXCEPT ![c] = "done"]
    /\ UNCHANGED <<regs, call, data>>

Return(c) ==
    /\ stage[c] = "done"
    /\ stage' = [stage EXCEPT ![c] = "idle"]
    /\ call' = [call EXCEPT ![c] = NoRequest]
    /\ data' = [data EXCEPT ![c] = NothingRead]
    /\ UNCHANGED regs

Next == \E c \in Contexts : Begin(c) \/ Read(c) \/ Write(c) \/ GiveUp(c) \/ Return(c)

Spec == Init /\ [][Next]_vars
=============================================================================
