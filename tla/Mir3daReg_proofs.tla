-------------------------- MODULE Mir3daReg_proofs --------------------------
(***************************************************************************)
(* The register layer implements the flat register file (RegFile) when the *)
(* callers are serialised or stay on page 0, and the transfers that may    *)
(* fail are those before the restore.  The invariant says which page the   *)
(* chip is on at each step of a call; the rest is a refinement mapping.    *)
(***************************************************************************)
EXTENDS Mir3daReg, TLAPS

\* What the callers and the bus have to guarantee.
Discipline ==
    /\ Pages = {0} \/ \A c, d \in Contexts : c = d
    /\ FailAt \subseteq {"page", "data"}

\* The page the chip is on when call c is at its present step.
Expected(c) == IF step[c] \in {"access", "restore"} THEN PageOf(c) ELSE 0

CallInv(c) ==
    /\ step[c] # "idle" => call[c] \in Requests
    /\ page = Expected(c)
    /\ saved[c] = 0
    /\ step[c] \in {"get_page", "set_page", "restore"} => PageOf(c) > 0
    /\ step[c] \in {"idle", "get_page", "set_page", "access"} => res[c] = 0
    /\ step[c] \notin {"idle", "return"} \/ (step[c] = "return" /\ res[c] = 0) =>
         /\ call[c].kind = "write" => phase[c] = "write"
         /\ call[c].kind = "read" => phase[c] = "read"

RInv ==
    /\ page \in Pages
    /\ regs \in [Regs -> Vals]
    /\ call \in [Contexts -> Requests \cup {NoRequest}]
    /\ step \in [Contexts -> Steps]
    /\ phase \in [Contexts -> {"read", "write"}]
    /\ saved \in [Contexts -> Pages]
    /\ data \in [Contexts -> Vals]
    /\ res \in [Contexts -> {0, 1}]
    /\ \A c \in Contexts : CallInv(c)

\* Requests name a register of the chip.
LEMMA RequestFacts ==
    ASSUME NEW req \in Requests
    PROVE  /\ req.reg \in Regs
           /\ req.reg[1] \in Pages /\ req.reg[2] \in Addrs
           /\ req.reg = <<req.reg[1], req.reg[2]>>
           /\ req.val \in Vals /\ req.mask \in Vals
           /\ req.kind \in {"read", "write", "mask"}
BY DEF Requests, Regs, Vals

LEMMA InitRInv == Init => RInv
BY MirConstants DEF Init, RInv, CallInv, Expected, Steps, Vals

-----------------------------------------------------------------------------
LEMMA NextRInv ==
    ASSUME Discipline, RInv, [Next]_vars
    PROVE  RInv'
<1> USE MirConstants DEF RInv, CallInv, Expected, Steps, PageOf, At, Goto
<1>1. CASE UNCHANGED vars
  BY <1>1 DEF vars
<1>2. ASSUME NEW c \in Contexts, Begin(c) PROVE RInv'
  <2>1. PICK req \in Requests :
           /\ step[c] = "idle"
           /\ call' = [call EXCEPT ![c] = req]
           /\ phase' = [phase EXCEPT ![c] = IF req.kind = "write" THEN "write" ELSE "read"]
           /\ step' = [step EXCEPT ![c] = FirstStep(req.reg)]
           /\ UNCHANGED <<page, regs, saved, data, res>>
    BY <1>2 DEF Begin
  <2>2. FirstStep(req.reg) \in {"get_page", "access"}
        /\ (FirstStep(req.reg) = "get_page" <=> req.reg[1] > 0)
    BY DEF FirstStep
  <2>3. req.reg[1] \in Nat /\ req.reg[1] \in Pages /\ req.kind \in {"read", "write", "mask"}
    BY RequestFacts
  <2>4. CallInv(c)'
    BY <2>1, <2>2, <2>3
  <2>5. ASSUME NEW d \in Contexts, d # c PROVE CallInv(d)'
    BY <2>1, <2>5 DEF Discipline
  <2>6. QED
    BY <2>1, <2>2, <2>3, <2>4, <2>5
<1>3. ASSUME NEW c \in Contexts, GetPage(c) PROVE RInv'
  BY <1>3, RequestFacts DEF GetPage, ReadOf, Discipline
<1>4. ASSUME NEW c \in Contexts, SetPage(c) PROVE RInv'
  BY <1>4, RequestFacts DEF SetPage, Outcome, Discipline
<1>5. ASSUME NEW c \in Contexts, AccessRead(c) PROVE RInv'
  BY <1>5, RequestFacts DEF AccessRead, ReadOf, LastStep, Here, AddrOf, Discipline
<1>6. ASSUME NEW c \in Contexts, AccessWrite(c) PROVE RInv'
  BY <1>6, RequestFacts DEF AccessWrite, Outcome, LastStep, Here, AddrOf, Written, Vals, Discipline
<1>7. ASSUME NEW c \in Contexts, Restore(c) PROVE RInv'
  BY <1>7, RequestFacts DEF Restore, Outcome, Discipline
<1>8. ASSUME NEW c \in Contexts, Return(c) PROVE RInv'
  <2>1. CASE call[c].kind = "mask" /\ phase[c] = "read" /\ res[c] = 0
    <3>1. /\ step[c] = "return"
          /\ phase' = [phase EXCEPT ![c] = "write"]
          /\ step' = [step EXCEPT ![c] = FirstStep(call[c].reg)]
          /\ UNCHANGED <<page, regs, call, data, saved, res>>
      BY <1>8, <2>1 DEF Return
    <3>2. call[c].reg[1] \in Nat
      BY <3>1, RequestFacts
    <3>3. FirstStep(call[c].reg) \in {"get_page", "access"}
          /\ (FirstStep(call[c].reg) = "get_page" <=> call[c].reg[1] > 0)
      BY DEF FirstStep
    <3>4. CallInv(c)'
      BY <2>1, <3>1, <3>2, <3>3
    <3>5. ASSUME NEW d \in Contexts, d # c PROVE CallInv(d)'
      BY <3>1, <3>5
    <3>6. QED
      BY <3>1, <3>3, <3>4, <3>5
  <2>2. CASE ~(call[c].kind = "mask" /\ phase[c] = "read" /\ res[c] = 0)
    BY <1>8, <2>2, RequestFacts DEF Return, Vals, Discipline
  <2>3. QED
    BY <2>1, <2>2
<1>9. QED
  BY <1>1, <1>2, <1>3, <1>4, <1>5, <1>6, <1>7, <1>8 DEF Next

-----------------------------------------------------------------------------
(* The refinement. *)

LEMMA InitRefines == Init => Abs!Init
BY DEF Init, Abs!Init, Stage, Regs, Abs!NothingRead

LEMMA StepRefines ==
    ASSUME Discipline, RInv, [Next]_vars
    PROVE  [Abs!Next]_(Abs!vars)
<1> DEFINE stage == [c \in Contexts |-> Stage(c)]
<1> USE MirConstants DEF RInv, CallInv, Expected, Steps, PageOf, At, Goto
<1>1. CASE UNCHANGED vars
  BY <1>1 DEF vars, Abs!vars, Stage
<1>a. ASSUME NEW c \in Contexts, NEW s, Stage(c)' = s,
             \A d \in Contexts : d # c => Stage(d)' = Stage(d)
      PROVE  stage' = [stage EXCEPT ![c] = s]
  BY <1>a
<1>2. ASSUME NEW c \in Contexts, Begin(c) PROVE Abs!Begin(c)
  <2>1. PICK req \in Requests :
           /\ step[c] = "idle"
           /\ call' = [call EXCEPT ![c] = req]
           /\ phase' = [phase EXCEPT ![c] = IF req.kind = "write" THEN "write" ELSE "read"]
           /\ step' = [step EXCEPT ![c] = FirstStep(req.reg)]
           /\ UNCHANGED <<page, regs, saved, data, res>>
    BY <1>2 DEF Begin
  <2>2. FirstStep(req.reg) \in {"get_page", "access"}
    BY DEF FirstStep
  <2>3. Stage(c) = "idle" /\ Stage(c)' = IF req.kind = "write" THEN "write" ELSE "read"
    BY <2>1, <2>2 DEF Stage
  <2>4. \A d \in Contexts : d # c => Stage(d)' = Stage(d)
    BY <2>1 DEF Stage
  <2>5. stage' = [stage EXCEPT ![c] = IF req.kind = "write" THEN "write" ELSE "read"]
    BY <1>a, <2>3, <2>4
  <2>6. req \in Abs!Requests
    BY DEF Requests, Abs!Requests, Vals, Abs!Vals
  <2>7. QED
    BY <2>1, <2>3, <2>5, <2>6 DEF Abs!Begin
<1>3. ASSUME NEW c \in Contexts, GetPage(c) PROVE UNCHANGED Abs!vars
  BY <1>3 DEF GetPage, Abs!vars, Stage
<1>4. ASSUME NEW c \in Contexts, SetPage(c) PROVE UNCHANGED Abs!vars \/ Abs!GiveUp(c)
  <2>1. step[c] = "set_page" /\ Stage(c) = phase[c] /\ UNCHANGED <<regs, call, phase, data>>
    BY <1>4 DEF SetPage, Stage
  <2>2. PICK err \in {0, 1} : res' = [res EXCEPT ![c] = err]
                             /\ step' = [step EXCEPT ![c] = IF err = 0 THEN "access" ELSE "return"]
    BY <1>4 DEF SetPage, Outcome
  <2>3. Stage(c)' = IF err = 0 THEN phase[c] ELSE "done"
    BY <2>1, <2>2 DEF Stage
  <2>4. \A d \in Contexts : d # c => Stage(d)' = Stage(d)
    BY <2>1, <2>2 DEF Stage
  <2>5. CASE err = 0
    BY <2>1, <2>3, <2>4, <2>5 DEF Abs!vars
  <2>6. CASE err = 1
    <3>1. stage' = [stage EXCEPT ![c] = "done"]
      BY <1>a, <2>3, <2>4, <2>6
    <3>2. QED
      BY <2>1, <3>1 DEF Abs!GiveUp
  <2>7. QED
    BY <2>5, <2>6
<1>5. ASSUME NEW c \in Contexts, AccessRead(c) PROVE Abs!Read(c)
  <2>1. /\ step[c] = "access" /\ phase[c] = "read" /\ res[c] = 0
        /\ step' = [step EXCEPT ![c] = LastStep(call[c].reg)]
        /\ UNCHANGED <<page, regs, call, phase, saved, res>>
    BY <1>5 DEF AccessRead
  <2>2. LastStep(call[c].reg) \in {"restore", "return"}
    BY DEF LastStep
  <2>3. data' = [data EXCEPT ![c] = regs[call[c].reg]]
    <3>1. Here(c) = call[c].reg
      BY <2>1, RequestFacts DEF Here, AddrOf
    <3>2. QED
      BY <1>5, <3>1 DEF AccessRead, ReadOf, Discipline
  <2>4. Stage(c) = "read" /\ Stage(c)' = IF call[c].kind = "mask" THEN "write" ELSE "done"
    BY <2>1, <2>2 DEF Stage
  <2>5. \A d \in Contexts : d # c => Stage(d)' = Stage(d)
    BY <2>1 DEF Stage
  <2>6. stage' = [stage EXCEPT ![c] = IF call[c].kind = "mask" THEN "write" ELSE "done"]
    BY <1>a, <2>4, <2>5
  <2>7. QED
    BY <2>1, <2>3, <2>4, <2>6 DEF Abs!Read
<1>6. ASSUME NEW c \in Contexts, AccessWrite(c) PROVE Abs!Write(c) \/ Abs!GiveUp(c)
  <2>1. /\ step[c] = "access" /\ phase[c] = "write"
        /\ step' = [step EXCEPT ![c] = LastStep(call[c].reg)]
        /\ UNCHANGED <<page, call, phase, saved, data>>
    BY <1>6 DEF AccessWrite
  <2>2. LastStep(call[c].reg) \in {"restore", "return"}
    BY DEF LastStep
  <2>3. Stage(c) = "write" /\ Stage(c)' = "done"
    BY <2>1, <2>2 DEF Stage
  <2>4. \A d \in Contexts : d # c => Stage(d)' = Stage(d)
    BY <1>6, <2>1 DEF Stage, AccessWrite
  <2>5. stage' = [stage EXCEPT ![c] = "done"]
    BY <1>a, <2>3, <2>4
  <2>6. regs' = regs \/ regs' = [regs EXCEPT ![call[c].reg] = Abs!Written(call[c], data[c])]
    <3>1. Here(c) = call[c].reg
      BY <2>1, RequestFacts DEF Here, AddrOf
    <3>2. Written(c) = Abs!Written(call[c], data[c])
      BY DEF Written, Abs!Written, Abs!Merge
    <3>3. QED
      BY <1>6, <3>1, <3>2 DEF AccessWrite
  <2>7. QED
    BY <2>1, <2>3, <2>5, <2>6 DEF Abs!Write, Abs!GiveUp
<1>7. ASSUME NEW c \in Contexts, Restore(c) PROVE UNCHANGED Abs!vars
  BY <1>7 DEF Restore, Abs!vars, Stage, Outcome, Discipline
<1>8. ASSUME NEW c \in Contexts, Return(c) PROVE UNCHANGED Abs!vars \/ Abs!Return(c)
  <2>1. step[c] = "return" /\ UNCHANGED <<page, regs>>
    BY <1>8 DEF Return
  <2>2. CASE call[c].kind = "mask" /\ phase[c] = "read" /\ res[c] = 0
    <3>1. /\ phase' = [phase EXCEPT ![c] = "write"]
          /\ step' = [step EXCEPT ![c] = FirstStep(call[c].reg)]
          /\ UNCHANGED <<call, data, saved, res>>
      BY <1>8, <2>2 DEF Return
    <3>2. FirstStep(call[c].reg) \in {"get_page", "access"}
      BY DEF FirstStep
    <3>3. Stage(c) = "write" /\ Stage(c)' = "write"
      BY <2>1, <2>2, <3>1, <3>2 DEF Stage
    <3>4. \A d \in Contexts : d # c => Stage(d)' = Stage(d)
      BY <3>1 DEF Stage
    <3>5. QED
      BY <2>1, <3>1, <3>3, <3>4 DEF Abs!vars
  <2>3. CASE ~(call[c].kind = "mask" /\ phase[c] = "read" /\ res[c] = 0)
    <3>1. /\ step' = [step EXCEPT ![c] = "idle"]
          /\ call' = [call EXCEPT ![c] = NoRequest]
          /\ phase' = [phase EXCEPT ![c] = "read"]
          /\ data' = [data EXCEPT ![c] = {}]
          /\ res' = [res EXCEPT ![c] = 0]
      BY <1>8, <2>3 DEF Return
    <3>2. Stage(c) = "done" /\ Stage(c)' = "idle"
      BY <2>1, <2>3, <3>1 DEF Stage
    <3>3. \A d \in Contexts : d # c => Stage(d)' = Stage(d)
      BY <3>1 DEF Stage
    <3>4. stage' = [stage EXCEPT ![c] = "idle"]
      BY <1>a, <3>2, <3>3
    <3>5. QED
      BY <2>1, <3>1, <3>2, <3>4 DEF Abs!Return, Abs!NothingRead
  <2>4. QED
    BY <2>2, <2>3
<1>9. QED
  BY <1>1, <1>2, <1>3, <1>4, <1>5, <1>6, <1>7, <1>8 DEF Next, Abs!Next

\* With the discipline every access is an access of the flat register file.
THEOREM Refinement == Discipline => (Spec => Implements)
<1> SUFFICES ASSUME Discipline PROVE Spec => Implements
  OBVIOUS
<1>1. RInv /\ [Next]_vars => RInv'
  BY NextRInv
<1>2. Spec => []RInv
  BY InitRInv, <1>1, PTL DEF Spec
<1>3. RInv /\ [Next]_vars => [Abs!Next]_(Abs!vars)
  BY StepRefines
<1>4. QED
  BY InitRefines, <1>2, <1>3, PTL DEF Spec, Implements, Abs!Spec

\* With the discipline the chip is on page 0 whenever no call is in progress.
THEOREM PageIsRestored == Discipline => (Spec => [](Contexts # {} => PageRestored))
<1> SUFFICES ASSUME Discipline PROVE Spec => [](Contexts # {} => PageRestored)
  OBVIOUS
<1>1. RInv /\ [Next]_vars => RInv'
  BY NextRInv
<1>2. Spec => []RInv
  BY InitRInv, <1>1, PTL DEF Spec
<1>3. RInv => (Contexts # {} => PageRestored)
  BY DEF RInv, CallInv, Expected, PageRestored
<1>4. QED
  BY <1>2, <1>3, PTL
=============================================================================
