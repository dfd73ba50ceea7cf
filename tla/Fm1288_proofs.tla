---------------------------- MODULE Fm1288_proofs ----------------------------
(***************************************************************************)
(* Proofs about Fm1288 for any callers, registers, bytes and table, any    *)
(* number of attempts and of probes.                                       *)
(*                                                                         *)
(* ReadReturnsHeld needs to know who owns the semaphore (Exclusive) and    *)
(* what the transfers of a read have established so far (Progress);        *)
(* TableInEffect needs what the entries already written look like.         *)
(***************************************************************************)
EXTENDS Fm1288, TLAPS

\* Unless a probe shook it, one caller at most is past down(), and none while
\* the count is up or the semaphore all zero.
Exclusive ==
    ~shaken =>
      /\ count \in {0, 1}
      /\ \A c, d \in Callers : OnBus(c) /\ OnBus(d) => c = d
      /\ \A c \in Callers : OnBus(c) => count = 0 /\ ready

\* What the finished transfers of a read mean for the ones to come.
Progress ==
    \A c \in Callers :
      /\ pc[c] \in {"latch", "low", "high"} => op[c] = "read"
      /\ pc[c] = "write" => op[c] = "write"
      /\ Reading(c) => mem[reg[c]] \in seen[c]
      /\ ~shaken /\ pc[c] \in {"low", "high"} => port \in seen[c]
      /\ ~shaken /\ pc[c] = "high" => val[c][2] = port[2]
      /\ ~shaken /\ op[c] = "read" /\ pc[c] \in {"up", "done"} => val[c] \in seen[c]

\* Entry i of the table is in effect, or is known not to be.
Settled(i) == mem[Table[i].reg] = Table[i].val \/ Table[i].reg \in touched

TableInv ==
    /\ bound => probe = "idle"
    /\ bound => \A i \in DOMAIN Table : Settled(i)
    /\ probe = "table" => \A i \in DOMAIN Table : i < next => Settled(i)

IInv == TypeOK /\ Exclusive /\ Progress /\ TableInv

-----------------------------------------------------------------------------
LEMMA TableFacts ==
    /\ Len(Table) \in Nat
    /\ DOMAIN Table = 1..Len(Table)
    /\ \A i \in DOMAIN Table : Table[i].reg \in Regs /\ Table[i].val \in Values
    /\ \A i, j \in DOMAIN Table : Table[i].reg = Table[j].reg => i = j
<1>1. /\ Table \in Seq([reg : Regs, val : Values])
      /\ \A i, j \in DOMAIN Table : Table[i].reg = Table[j].reg => i = j
  BY ConstantsAssumption, Zenon DEF ConstantsAssumption, TableForm
<1>2. Len(Table) \in Nat /\ DOMAIN Table = 1..Len(Table)
  BY <1>1
<1>3. \A i \in DOMAIN Table : Table[i] \in [reg : Regs, val : Values]
  <2> DEFINE Entries == [reg : Regs, val : Values]
  <2>1. Table \in Seq(Entries)
    BY <1>1
  <2> HIDE DEF Entries
  <2>2. \A i \in DOMAIN Table : Table[i] \in Entries
    BY <1>2, <2>1
  <2>3. QED
    BY <2>2 DEF Entries
<1>4. QED
  BY <1>1, <1>2, <1>3

LEMMA ValueFacts ==
    /\ Blank \in Values
    /\ \A v \in Values : v = <<v[1], v[2]>>
    /\ \A v, w \in Values : <<v[1], w[2]>> \in Values
    /\ \A a, b : <<a, b>>[1] = a /\ <<a, b>>[2] = b
BY ConstantsAssumption DEF Blank, Values

LEMMA AnyRegInRegs == AnyReg \in Regs
BY ConstantsAssumption DEF AnyReg

LEMMA InitIInv == Init => IInv
<1> SUFFICES ASSUME Init PROVE IInv
  OBVIOUS
<1> USE DEF Init
<1>1. TypeOK
  <2>1. FlagsOK
    BY Zenon DEF FlagsOK
  <2>2. 0 \in 0..(Tries - 1) /\ 0 \in 0..MaxProbes /\ 1 \in 1..(Len(Table) + 1)
    BY ConstantsAssumption, TableFacts
  <2>3. mem \in [Regs -> Values]
    BY ValueFacts
  <2>4. reg \in [Callers -> Regs]
    BY AnyRegInRegs
  <2>5. QED
    BY <2>1, <2>2, <2>3, <2>4, ValueFacts DEF TypeOK, Places
<1>2. Exclusive /\ Progress /\ TableInv
  BY DEF Exclusive, Progress, TableInv, OnBus, Reading
<1>3. QED
  BY <1>1, <1>2 DEF IInv

-----------------------------------------------------------------------------
\* A call that has not reached its transfers.
LEMMA EnterIInv ==
    ASSUME IInv, NEW c \in Callers, Enter(c) PROVE IInv'
<1> USE ValueFacts DEF IInv, Enter, chip, sem, call, life, history
<1>1. TypeOK'
  <2>1. FlagsOK'
    BY Zenon DEF FlagsOK, TypeOK
  <2>2. QED
    BY <2>1, ConstantsAssumption DEF TypeOK, Places
<1>2. Exclusive'
  BY DEF Exclusive, OnBus, TypeOK
<1>3. Progress'
  BY DEF Progress, Reading, TypeOK
<1>4. TableInv'
  BY DEF TableInv, Settled
<1>5. QED
  BY <1>1, <1>2, <1>3, <1>4

LEMMA DownIInv ==
    ASSUME IInv, NEW c \in Callers, Down(c) PROVE IInv'
<1>0. /\ pc[c] = "down"
      /\ \/ pc' = [pc EXCEPT ![c] = "lost"] /\ count' = count
         \/ pc' = [pc EXCEPT ![c] = "wait"] /\ count' = count
         \/ /\ pc' = [pc EXCEPT ![c] = FirstOf(op[c])]
            /\ ready /\ count > 0 /\ count' = count - 1
      /\ UNCHANGED <<chip, node, ready, op, reg, val, tries, life, history>>
  BY DEF Down
<1> USE <1>0 DEF IInv, chip, life, history
<1>1. TypeOK'
  <2>1. FlagsOK'
    BY Zenon DEF FlagsOK, TypeOK
  <2>2. pc' \in [Callers -> Places]
    BY DEF TypeOK, Places, FirstOf
  <2>3. count' \in Nat
    BY DEF TypeOK
  <2>4. QED
    BY <2>1, <2>2, <2>3 DEF TypeOK
<1>2. Exclusive'
  <2>1. \A d \in Callers : d # c => (OnBus(d)' <=> OnBus(d))
    BY DEF OnBus, TypeOK
  <2>2. OnBus(c)' => ready /\ count > 0 /\ count' = count - 1
    BY DEF OnBus, TypeOK
  <2>3. ~shaken /\ count > 0 => count = 1 /\ \A d \in Callers : ~OnBus(d)
    BY DEF Exclusive
  <2>4. ~shaken => count \in {0, 1}
    BY DEF Exclusive
  <2>5. (shaken' <=> shaken) /\ (ready' <=> ready) /\ (count' = count \/ (count' = count - 1 /\ count > 0))
    <3>1. shaken' = shaken /\ ready' = ready
      OBVIOUS
    <3>2. count' = count \/ (count' = count - 1 /\ count > 0)
      OBVIOUS
    <3>3. QED
      BY <3>1, <3>2
  <2>6. ASSUME ~shaken' PROVE count' \in {0, 1}
    BY <2>4, <2>5, <2>6
  <2>7. ASSUME ~shaken', NEW d \in Callers, NEW e \in Callers, OnBus(d)', OnBus(e)' PROVE d = e
    BY <2>1, <2>2, <2>3, <2>5, <2>7 DEF Exclusive
  <2>8. ASSUME ~shaken', NEW d \in Callers, OnBus(d)' PROVE count' = 0 /\ ready'
    <3>1. CASE d = c
      BY <2>2, <2>3, <2>5, <2>8, <3>1
    <3>2. CASE d # c
      <4>1. OnBus(d) /\ ~shaken
        BY <2>1, <2>5, <2>8, <3>2
      <4>2. count = 0 /\ ready
        BY <4>1 DEF Exclusive
      <4>3. QED
        BY <4>2, <2>5
    <3>3. QED BY <3>1, <3>2
  <2>9. QED
    BY <2>6, <2>7, <2>8 DEF Exclusive
<1>3. Progress'
  BY DEF Progress, Reading, TypeOK, FirstOf
<1>4. TableInv'
  BY DEF TableInv, Settled
<1>5. QED
  BY <1>1, <1>2, <1>3, <1>4

-----------------------------------------------------------------------------
\* The counter of failed attempts stays in range.
LEMMA MissedType ==
    ASSUME TypeOK, NEW c \in Callers, Missed(c)
    PROVE  /\ tries' \in [Callers -> 0..(Tries - 1)]
           /\ pc' \in [Callers -> Places]
           /\ pc' = pc \/ pc' = [pc EXCEPT ![c] = "fail"]
<1>1. pc' \in [Callers -> Places]
  BY DEF TypeOK, Missed, Places
<1>2. tries' \in [Callers -> 0..(Tries - 1)]
  <2>1. tries[c] \in 0..(Tries - 1) /\ 0 \in 0..(Tries - 1) /\ Tries \in Nat
    BY ConstantsAssumption DEF TypeOK
  <2>2. CASE tries[c] + 1 < Tries /\ tries' = [tries EXCEPT ![c] = tries[c] + 1]
    <3>1. tries[c] + 1 \in 0..(Tries - 1)
      BY <2>1, <2>2
    <3>2. QED
      BY <2>2, <3>1 DEF TypeOK
  <2>3. CASE tries' = [tries EXCEPT ![c] = 0]
    BY <2>1, <2>3 DEF TypeOK
  <2>4. QED
    BY <2>2, <2>3 DEF Missed
<1>3. QED
  BY <1>1, <1>2 DEF Missed

LEMMA ThroughType ==
    ASSUME TypeOK, NEW c \in Callers, Through(c)
    PROVE  /\ tries' \in [Callers -> 0..(Tries - 1)]
           /\ pc' \in [Callers -> Places]
           /\ pc' = [pc EXCEPT ![c] = "up"]
BY ConstantsAssumption DEF TypeOK, Through, Places

\* What a write to the chip does to the registers and to the reads under way.
LEMMA StoreType ==
    ASSUME TypeOK, NEW r \in Regs, NEW v \in Values, StoreOrLost(r, v) \/ Store(r, v)
    PROVE  /\ mem' \in [Regs -> Values]
           /\ seen' \in [Callers -> SUBSET Values]
           /\ \A s \in Regs : s # r => mem'[s] = mem[s]
           /\ \A d \in Callers : seen[d] \subseteq seen'[d]
           /\ \A d \in Callers : Reading(d) /\ mem[reg[d]] \in seen[d] => mem'[reg[d]] \in seen'[d]
<1>1. CASE Store(r, v)
  <2>1. mem' = [mem EXCEPT ![r] = v] /\ mem \in [Regs -> Values] /\ reg \in [Callers -> Regs]
    BY <1>1 DEF Store, TypeOK
  <2>2. seen' \in [Callers -> SUBSET Values]
    BY <1>1 DEF Store, TypeOK
  <2>3. \A d \in Callers : seen'[d] = IF Reading(d) /\ reg[d] = r THEN seen[d] \cup {v} ELSE seen[d]
    BY <1>1 DEF Store
  <2>4. QED
    BY <2>1, <2>2, <2>3
<1>2. CASE UNCHANGED <<mem, seen>>
  BY <1>2 DEF TypeOK
<1>3. QED
  BY <1>1, <1>2 DEF StoreOrLost

LEMMA WriteIInv ==
    ASSUME IInv, NEW c \in Callers, WriteMem(c) PROVE IInv'
<1> DEFINE R == reg[c]
           V == val[c]
<1>0. R \in Regs /\ V \in Values
  BY DEF IInv, TypeOK
<1>1. /\ pc[c] = "write"
      /\ touched' = touched \cup {R}
      /\ UNCHANGED <<port, node, sem, op, reg, val, life, shaken>>
      /\ (Store(R, V) /\ Through(c)) \/ (StoreOrLost(R, V) /\ Missed(c))
  BY DEF WriteMem
<1>2. /\ mem' \in [Regs -> Values]
      /\ seen' \in [Callers -> SUBSET Values]
      /\ \A s \in Regs : s # R => mem'[s] = mem[s]
      /\ \A d \in Callers : seen[d] \subseteq seen'[d]
      /\ \A d \in Callers : Reading(d) /\ mem[reg[d]] \in seen[d] => mem'[reg[d]] \in seen'[d]
  <2> HIDE DEF R, V
  <2> QED BY <1>0, <1>1, StoreType DEF IInv
<1>3. /\ tries' \in [Callers -> 0..(Tries - 1)]
      /\ pc' \in [Callers -> Places]
      /\ \/ pc' = pc
         \/ pc' = [pc EXCEPT ![c] = "fail"]
         \/ pc' = [pc EXCEPT ![c] = "up"]
  BY <1>1, MissedType, ThroughType DEF IInv
<1> HIDE DEF R, V
<1>4. TypeOK'
  <2>1. FlagsOK'
    BY <1>1, Zenon DEF FlagsOK, TypeOK, IInv, sem, life
  <2>2. QED
    BY <2>1, <1>0, <1>1, <1>2, <1>3 DEF TypeOK, IInv, sem, life
<1>5. Exclusive'
  BY <1>1, <1>3 DEF IInv, TypeOK, Exclusive, OnBus, sem, life
<1>6. Progress'
  <2>1. pc[c] = "write" /\ op[c] = "write"
    BY <1>1 DEF IInv, Progress
  <2>2. \A d \in Callers : d # c => pc'[d] = pc[d]
    BY <1>3 DEF IInv, TypeOK
  <2>3. pc'[c] \in {"write", "fail", "up"}
    BY <1>1, <1>3 DEF IInv, TypeOK
  <2>4. QED
    BY <1>1, <1>2, <2>1, <2>2, <2>3 DEF IInv, TypeOK, Progress, Reading, sem, life
<1>7. TableInv'
  BY <1>0, <1>1, <1>2, TableFacts DEF IInv, TableInv, Settled, sem, life
<1>8. QED
  BY <1>4, <1>5, <1>6, <1>7 DEF IInv

\* The command of a read: nobody else waits for the data port.
LEMMA LatchIInv ==
    ASSUME IInv, NEW c \in Callers, Latch(c) PROVE IInv'
<1>1. /\ pc[c] = "latch"
      /\ UNCHANGED <<mem, node, sem, op, reg, val, life, history>>
      /\ port' \in {port, mem[reg[c]]}
      /\ tries' \in [Callers -> 0..(Tries - 1)]
      /\ pc' \in [Callers -> Places]
      /\ \/ pc' = [pc EXCEPT ![c] = "low"] /\ port' = mem[reg[c]]
         \/ pc' = pc
         \/ pc' = [pc EXCEPT ![c] = "fail"]
  BY MissedType DEF Latch, IInv, TypeOK, Places
<1> USE <1>1 DEF IInv, sem, life, history
<1>2. TypeOK'
  <2>1. FlagsOK'
    BY Zenon DEF FlagsOK, TypeOK
  <2>2. QED
    BY <2>1 DEF TypeOK
<1>3. Exclusive'
  BY DEF TypeOK, Exclusive, OnBus
<1>4. Progress'
  <2>1. ~shaken => \A d \in Callers : d # c => pc[d] \notin {"low", "high"}
    BY DEF Exclusive, OnBus
  <2>2. \A d \in Callers : d # c => pc'[d] = pc[d]
    BY DEF TypeOK
  <2>3. pc'[c] \in {"latch", "low", "fail"} /\ (pc'[c] = "low" => port' = mem[reg[c]])
    BY DEF TypeOK
  <2>4. op[c] = "read" /\ mem[reg[c]] \in seen[c]
    BY DEF Progress, Reading
  <2>5. QED
    BY <2>1, <2>2, <2>3, <2>4 DEF Progress, Reading
<1>5. TableInv'
  BY DEF TableInv, Settled
<1>6. QED
  BY <1>2, <1>3, <1>4, <1>5

LEMMA ReadIInv ==
    ASSUME IInv, NEW c \in Callers, ReadLow(c) \/ ReadHigh(c) PROVE IInv'
<1>1. /\ pc[c] \in {"low", "high"}
      /\ UNCHANGED <<chip, node, sem, op, reg, life, history>>
      /\ tries' \in [Callers -> 0..(Tries - 1)]
      /\ pc' \in [Callers -> Places]
      /\ \/ /\ pc[c] = "low" /\ pc' = [pc EXCEPT ![c] = "high"]
            /\ val' = [val EXCEPT ![c] = <<val[c][1], port[2]>>]
         \/ /\ pc[c] = "high" /\ pc' = [pc EXCEPT ![c] = "up"]
            /\ val' = [val EXCEPT ![c] = <<port[1], val[c][2]>>]
         \/ pc' = pc /\ val' = val
         \/ pc' = [pc EXCEPT ![c] = "fail"] /\ val' = val
  BY MissedType, ThroughType DEF ReadLow, ReadHigh, IInv, TypeOK, Places
<1> USE <1>1 DEF IInv, chip, sem, life, history
<1>2. TypeOK'
  <2>1. FlagsOK'
    BY Zenon DEF FlagsOK, TypeOK
  <2>2. val' \in [Callers -> Values]
    <3>1. <<val[c][1], port[2]>> \in Values /\ <<port[1], val[c][2]>> \in Values
      BY ValueFacts DEF TypeOK
    <3>2. val \in [Callers -> Values]
      BY DEF TypeOK
    <3>3. QED
      BY <3>1, <3>2
  <2>3. QED
    BY <2>1, <2>2 DEF TypeOK
<1>3. Exclusive'
  BY DEF TypeOK, Exclusive, OnBus
<1>4. Progress'
  <2>1. \A d \in Callers : d # c => pc'[d] = pc[d] /\ val'[d] = val[d]
    BY DEF TypeOK
  <2>2. op[c] = "read" /\ mem[reg[c]] \in seen[c] /\ (~shaken => port \in seen[c])
    BY DEF Progress, Reading
  <2>3. \/ pc'[c] = "high" /\ pc[c] = "low" /\ val'[c] = <<val[c][1], port[2]>>
        \/ pc'[c] = "up" /\ pc[c] = "high" /\ val'[c] = <<port[1], val[c][2]>>
        \/ pc'[c] = pc[c] /\ val'[c] = val[c]
        \/ pc'[c] = "fail"
    BY DEF TypeOK
  <2>4. val'[c][2] = port[2] \/ pc'[c] # "high" \/ shaken
    BY <2>3, ValueFacts DEF Progress
  <2>5. ~shaken /\ pc'[c] = "up" => val'[c] = port
    <3>1. ~shaken /\ pc[c] = "high" => val[c][2] = port[2]
      BY DEF Progress
    <3>2. port = <<port[1], port[2]>>
      BY ValueFacts DEF TypeOK
    <3>3. pc'[c] = "up" => pc[c] = "high" /\ val'[c] = <<port[1], val[c][2]>>
      BY <2>3
    <3>4. QED
      BY <3>1, <3>2, <3>3
  <2>6. QED
    BY <2>1, <2>2, <2>3, <2>4, <2>5 DEF Progress, Reading
<1>5. TableInv'
  BY DEF TableInv, Settled
<1>6. QED
  BY <1>2, <1>3, <1>4, <1>5

LEMMA UpIInv ==
    ASSUME IInv, NEW c \in Callers, Up(c) PROVE IInv'
<1> DEFINE after == [pc EXCEPT ![c] = IF @ = "up" THEN "done" ELSE "failed"]
<1>1. /\ pc[c] \in {"up", "fail"}
      /\ UNCHANGED <<chip, node, ready, op, reg, val, tries, life, history>>
      /\ \/ \E w \in Callers : pc[w] = "wait" /\ pc' = [after EXCEPT ![w] = FirstOf(op[w])]
                               /\ count' = count
         \/ pc' = after /\ count' = count + 1
  BY DEF Up
<1>2. after \in [Callers -> Places]
  BY DEF IInv, TypeOK, Places
<1>3. pc' \in [Callers -> Places]
  BY <1>1, <1>2 DEF FirstOf, Places
<1> USE <1>1 DEF IInv, chip, life, history
<1>4. TypeOK'
  <2>1. FlagsOK'
    BY Zenon DEF FlagsOK, TypeOK
  <2>2. QED
    BY <1>3, <2>1 DEF TypeOK
<1>5. CASE pc' = after /\ count' = count + 1
  <2>1. Exclusive'
    BY <1>5 DEF TypeOK, Exclusive, OnBus
  <2>2. Progress'
    BY <1>5 DEF TypeOK, Progress, Reading
  <2>3. QED
    BY <1>4, <2>1, <2>2 DEF TableInv, Settled
<1>6. ASSUME NEW w \in Callers, pc[w] = "wait", pc' = [after EXCEPT ![w] = FirstOf(op[w])],
             count' = count
      PROVE  IInv'
  <2>1. /\ w # c
        /\ pc'[c] \in {"done", "failed"} /\ (pc'[c] = "done" <=> pc[c] = "up")
        /\ pc'[w] = FirstOf(op[w])
        /\ \A d \in Callers : d # c /\ d # w => pc'[d] = pc[d]
    BY <1>6 DEF TypeOK
  <2>2. Exclusive'
    <3>1. /\ OnBus(c) /\ ~OnBus(c)'
          /\ \A d \in Callers : d # w /\ OnBus(d)' => OnBus(d)
      BY <1>6, <2>1 DEF OnBus
    <3>2. (shaken' <=> shaken) /\ (ready' <=> ready) /\ count' = count
      BY <1>6, Zenon
    <3>3. ~shaken => count = 0 /\ ready /\ \A d \in Callers : OnBus(d) => d = c
      BY <3>1 DEF Exclusive
    <3>4. ~shaken => \A d \in Callers : OnBus(d)' => d = w
      BY <3>1, <3>3
    <3>5. QED
      BY <3>2, <3>3, <3>4 DEF Exclusive
  <2>3. Progress'
    <3>1. \A d \in Callers : Reading(d)' => Reading(d)
      BY <1>6, <2>1 DEF Reading
    <3>2. \A d \in Callers : pc'[d] \in {"low", "high", "up"} => pc'[d] = pc[d]
      BY <2>1 DEF FirstOf
    <3>3. \A d \in Callers : pc'[d] = "done" => pc[d] \in {"up", "done"}
      BY <2>1 DEF FirstOf
    <3>4. \A d \in Callers : pc'[d] \in {"latch", "write"} =>
             pc'[d] = pc[d] \/ pc'[d] = FirstOf(op[d])
      BY <2>1
    <3>5. \A d \in Callers : op[d] \in {"read", "write"}
      BY DEF TypeOK
    <3>6. UNCHANGED <<mem, port, op, reg, val, seen, shaken>>
      OBVIOUS
    <3>7. \A d \in Callers : /\ pc'[d] \in {"latch", "low", "high"} => op[d] = "read"
                             /\ pc'[d] = "write" => op[d] = "write"
      BY <3>2, <3>4, <3>5 DEF Progress, FirstOf
    <3>8. QED
      BY <3>1, <3>2, <3>3, <3>6, <3>7 DEF Progress
  <2>4. QED
    BY <1>4, <2>2, <2>3 DEF TableInv, Settled
<1>7. QED
  BY <1>1, <1>5, <1>6

LEMMA ReturnIInv ==
    ASSUME IInv, NEW c \in Callers, Return(c) PROVE IInv'
<1> USE ValueFacts, AnyRegInRegs DEF IInv, Return, chip, sem, life
<1>1. TypeOK'
  <2>1. FlagsOK'
    BY Zenon DEF FlagsOK, TypeOK
  <2>2. QED
    BY <2>1 DEF TypeOK, Places
<1>2. Exclusive'
  BY DEF Exclusive, OnBus, TypeOK
<1>3. Progress'
  BY DEF Progress, Reading, TypeOK
<1>4. TableInv'
  BY DEF TableInv, Settled
<1>5. QED
  BY <1>1, <1>2, <1>3, <1>4

-----------------------------------------------------------------------------
\* The steps of the life cycle that leave the semaphore and the chip alone.
LEMMA LifeIInv ==
    ASSUME IInv, Bind \/ SetupNode \/ SetupClass \/ ProbeEnd \/ Unbind \/ Exit PROVE IInv'
<1>1. /\ UNCHANGED <<chip, sem, call, history, next, lapses>>
      /\ probe' \in {"idle", "node", "class", "sema"}
      /\ class' \in {"none", "made", "error"}
      /\ module' \in {"loaded", "unloaded", "oops"}
      /\ probes' \in 0..MaxProbes
  BY ConstantsAssumption
     DEF IInv, TypeOK, Bind, SetupNode, SetupClass, ProbeEnd, Unbind, Exit, life, chip, sem,
         call, history
<1>2. FlagsOK'
  <2>1. node' \in BOOLEAN /\ bound' \in BOOLEAN
    BY Zenon DEF IInv, TypeOK, FlagsOK, Bind, SetupNode, SetupClass, ProbeEnd, Unbind, Exit
  <2>2. ready' = ready /\ shaken' = shaken
    BY <1>1 DEF sem, history
  <2>3. QED
    BY <2>1, <2>2, Zenon DEF IInv, TypeOK, FlagsOK
<1>3. TypeOK'
  BY <1>1, <1>2 DEF IInv, TypeOK, chip, sem, call, history
<1>4. Exclusive' /\ Progress'
  BY <1>1 DEF IInv, Exclusive, Progress, OnBus, Reading, chip, sem, call, history
<1>5. TableInv'
  <2>1. CASE ProbeEnd
    <3>1. probe = "table" /\ next \notin DOMAIN Table /\ probe' = "idle"
      BY <2>1 DEF ProbeEnd
    <3>2. \A i \in DOMAIN Table : i < next
      BY <3>1, TableFacts DEF IInv, TypeOK
    <3>3. \A i \in DOMAIN Table : Settled(i)'
      BY <1>1, <3>1, <3>2 DEF IInv, TableInv, Settled, chip, history
    <3>4. QED
      BY <3>1, <3>3 DEF TableInv
  <2>2. CASE ~ProbeEnd
    <3>1. bound' => bound /\ probe' = "idle"
      <4>1. CASE Bind
        BY <4>1, Zenon DEF Bind
      <4>2. CASE SetupNode \/ SetupClass
        <5>1. probe # "idle" /\ bound' = bound
          BY <4>2 DEF SetupNode, SetupClass
        <5>2. QED BY <5>1 DEF IInv, TableInv
      <4>3. CASE Unbind \/ Exit
        BY <4>3, Zenon DEF Unbind, Exit
      <4>4. QED BY <2>2, <4>1, <4>2, <4>3
    <3>2. QED
      BY <1>1, <3>1 DEF IInv, TableInv, Settled, chip, history
  <2>3. QED BY <2>1, <2>2
<1>6. QED
  BY <1>3, <1>4, <1>5 DEF IInv

\* sema_init: whoever is inside makes the semaphore a shaken one.
LEMMA SemaIInv ==
    ASSUME IInv, SetupSema PROVE IInv'
<1> DEFINE Busy == \E c \in Callers : OnBus(c) \/ pc[c] = "wait"
<1>1. /\ probe = "sema" /\ probe' = "table" /\ next' = 1 /\ lapses' = 0 /\ touched' = {}
      /\ count' = 1
      /\ pc' = [c \in Callers |-> IF pc[c] = "wait" THEN "lost" ELSE pc[c]]
      /\ UNCHANGED <<chip, node, op, reg, val, tries, class, bound, probes, module, seen>>
  BY DEF SetupSema
<1>2. (shaken' <=> shaken \/ Busy) /\ shaken' \in BOOLEAN /\ ready' /\ ready' \in BOOLEAN
  BY Zenon DEF SetupSema
<1>3. TypeOK'
  <2>1. FlagsOK'
    BY <1>1, <1>2, Zenon DEF IInv, FlagsOK, TypeOK
  <2>2. 0 \in 0..(Tries - 1) /\ 1 \in 1..(Len(Table) + 1)
    BY ConstantsAssumption, TableFacts
  <2>3. QED
    BY <1>1, <2>1, <2>2 DEF IInv, TypeOK, Places, chip
<1>4. ~shaken' => ~shaken /\ \A c \in Callers : ~OnBus(c) /\ pc[c] # "wait"
  BY <1>2
<1>5. Exclusive'
  BY <1>1, <1>4 DEF Exclusive, OnBus, IInv, TypeOK
<1>6. Progress'
  BY <1>1, <1>4 DEF Progress, Reading, IInv, TypeOK, chip
<1>7. TableInv'
  <2>1. ~bound
    BY <1>1 DEF IInv, TableInv
  <2>2. ~bound'
    BY <1>1, <2>1
  <2>3. QED
    BY <1>1, <2>2, TableFacts DEF TableInv
<1>8. QED
  BY <1>3, <1>5, <1>6, <1>7 DEF IInv

\* The table is written between the transfers of whoever is inside.
LEMMA TableIInv ==
    ASSUME IInv, WriteTable PROVE IInv'
<1> DEFINE R == Table[next].reg
           V == Table[next].val
<1>1. /\ probe = "table" /\ next \in DOMAIN Table
      /\ StoreOrLost(R, V) \/ Store(R, V)
      /\ UNCHANGED <<port, node, sem, call, probe, class, bound, probes, module, shaken>>
      /\ \/ next' = next + 1 /\ lapses' = 0 /\ touched' = touched /\ Store(R, V)
         \/ next' = next /\ lapses + 1 < Tries /\ lapses' = lapses + 1 /\ touched' = touched
         \/ next' = next + 1 /\ lapses' = 0 /\ touched' = touched \cup {R}
  BY DEF WriteTable
<1>2. R \in Regs /\ V \in Values
  BY <1>1, TableFacts
<1>3. /\ mem' \in [Regs -> Values]
      /\ seen' \in [Callers -> SUBSET Values]
      /\ \A s \in Regs : s # R => mem'[s] = mem[s]
      /\ \A d \in Callers : seen[d] \subseteq seen'[d]
      /\ \A d \in Callers : Reading(d) /\ mem[reg[d]] \in seen[d] => mem'[reg[d]] \in seen'[d]
  <2> HIDE DEF R, V
  <2> QED BY <1>1, <1>2, StoreType DEF IInv
<1>4. Store(R, V) => mem'[R] = V
  BY <1>2 DEF Store, IInv, TypeOK
<1>5. TypeOK'
  <2>1. FlagsOK'
    BY <1>1, Zenon DEF FlagsOK, TypeOK, IInv, sem
  <2>2. next' \in 1..(Len(Table) + 1) /\ lapses' \in 0..(Tries - 1)
    BY <1>1, TableFacts, ConstantsAssumption DEF IInv, TypeOK
  <2>3. touched' \subseteq Regs
    BY <1>1, <1>2 DEF IInv, TypeOK
  <2>4. QED
    BY <1>1, <1>3, <2>1, <2>2, <2>3 DEF IInv, TypeOK, sem, call
<1>6. Exclusive'
  BY <1>1 DEF IInv, Exclusive, OnBus, sem, call
<1>7. Progress'
  BY <1>1, <1>3 DEF IInv, Progress, Reading, sem, call
<1>8. TableInv'
  <2>1. ~bound'
    BY <1>1 DEF IInv, TableInv
  <2>2. ASSUME NEW i \in DOMAIN Table, i < next' PROVE Settled(i)'
    <3>1. CASE i < next
      <4>1. Table[i].reg # R /\ Table[i].reg \in Regs
        BY <1>1, <3>1, TableFacts
      <4>2. Settled(i) /\ touched \subseteq touched'
        BY <1>1, <3>1 DEF IInv, TableInv
      <4>3. QED
        BY <4>1, <4>2, <1>3 DEF Settled
    <3>2. CASE ~(i < next)
      <4>1. i = next /\ next' = next + 1
        BY <1>1, <2>2, <3>2, TableFacts DEF IInv, TypeOK
      <4>2. Store(R, V) \/ R \in touched'
        BY <1>1, <4>1, TableFacts DEF IInv, TypeOK
      <4>3. QED
        BY <4>1, <4>2, <1>4 DEF Settled
    <3>3. QED BY <3>1, <3>2
  <2>3. QED
    BY <2>1, <2>2, <1>1 DEF TableInv
<1>9. QED
  BY <1>5, <1>6, <1>7, <1>8 DEF IInv

-----------------------------------------------------------------------------
LEMMA NextIInv == IInv /\ [Next]_vars => IInv'
<1> SUFFICES ASSUME IInv, [Next]_vars PROVE IInv'
  OBVIOUS
<1>1. ASSUME NEW c \in Callers, Enter(c) \/ CallStep(c) PROVE IInv'
  BY <1>1, EnterIInv, DownIInv, WriteIInv, LatchIInv, ReadIInv, UpIInv, ReturnIInv
     DEF CallStep
<1>2. CASE Bind \/ ProbeStep \/ Unbind \/ Exit
  BY <1>2, LifeIInv, SemaIInv, TableIInv DEF ProbeStep
<1>3. CASE UNCHANGED vars
  <2>1. TypeOK'
    <3>1. FlagsOK'
      BY <1>3, Zenon DEF IInv, TypeOK, FlagsOK, vars, chip, sem, call, life, history
    <3>2. QED
      BY <1>3, <3>1 DEF IInv, TypeOK, vars, chip, sem, call, life, history
  <2>2. Exclusive' /\ Progress' /\ TableInv'
    BY <1>3 DEF IInv, Exclusive, Progress, TableInv, Settled, OnBus, Reading, vars, chip,
       sem, call, life, history
  <2>3. QED BY <2>1, <2>2 DEF IInv
<1>4. QED
  BY <1>1, <1>2, <1>3 DEF Next

\* The inductive invariant: who owns the semaphore, what a read has established,
\* and what the table writes have left.
THEOREM Safety == Spec => []IInv
<1>1. Init => IInv
  BY InitIInv
<1>2. IInv /\ [Next]_vars => IInv'
  BY NextIInv
<1>3. QED
  BY <1>1, <1>2, PTL DEF Spec

\* Type correctness of the driver's state.
THEOREM TypeCorrect == Spec => []TypeOK
<1>1. IInv => TypeOK
  BY DEF IInv
<1>2. QED
  BY <1>1, Safety, PTL

\* fm1288_fast_mem_read: a successful read of a bound semaphore returns a value
\* that its register had during the call.
THEOREM ReadsAtomic == Spec => []ReadReturnsHeld
<1>1. IInv => ReadReturnsHeld
  BY DEF IInv, Progress, ReadReturnsHeld
<1>2. QED
  BY <1>1, Safety, PTL

\* fm1288_i2c_init: a bound device runs with the table, up to what callers wrote
\* and what failed five times.
THEOREM TableWritten == Spec => []TableInEffect
<1>1. IInv => TableInEffect
  BY DEF IInv, TableInv, Settled, TableInEffect
<1>2. QED
  BY <1>1, Safety, PTL
=============================================================================
