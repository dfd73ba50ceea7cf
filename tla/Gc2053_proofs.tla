----------------------------- MODULE Gc2053_proofs -----------------------------
(***************************************************************************)
(* Proofs about Gc2053 for any gains that fit the registers, any exposures *)
(* and any number of failing transfers.                                    *)
(*                                                                         *)
(* The first part is arithmetic: which entry the loop over the table ends  *)
(* at, and that entry and digital rest give the gain back.  The second is  *)
(* the walk of a call down its script: what is left of it is the end of    *)
(* the script (Path), and the invariant says which registers are written   *)
(* when n transfers are left (GainWritten, ExpWritten), and which a call   *)
(* leaves alone (GainHeld, ExpHeld, PageInv).                              *)
(***************************************************************************)
EXTENDS Gc2053, TLAPS

Registers == {"03", "04", "b1", "b2", "b3", "b4", "b8", "b9"}
Ops == [reg : Registers \cup {"fe"}, val : Nat]

\* The integer part of the digital gain has eight bits.
GainsFit == \A g \in GainVals : g < 16 * 4 * 7073
Gains == {g \in Nat : 16 <= g /\ g < 16 * 4 * 7073}
Calls ==
    [cmd : {"stream"}] \cup [cmd : {"exp"}, exp : Nat] \cup [cmd : {"gain"}, gain : Gains]
    \cup [cmd : {"both"}, exp : Nat, gain : Gains]

\* What the call in progress writes.
SetsGain == call.cmd = "gain" \/ (call.cmd = "both" /\ call.gain # gain)
SetsExp  == call.cmd \in {"exp", "both"}
GainOps  == IF SetsGain THEN 7 ELSE 0
Script ==
    CASE call.cmd = "exp"  -> sensor_s_exp(call.exp)
      [] call.cmd = "gain" -> setSensorGain(call.gain * 4)
      [] call.cmd = "both" ->
            sensor_s_exp(call.exp)
            \o IF call.gain = gain THEN << >> ELSE setSensorGain(call.gain * 4)

\* The values of a gain and of an exposure.
Upper(g)    == (tol_dig_gain(g * 4) \div 64) % 256
Lower(g)    == ((tol_dig_gain(g * 4) % 64) * 4) % 256
ExpUpper(e) == ((e \div 16) \div 256) % 256
ExpLower(e) == (e \div 16) % 256

\* The operation of s with which n are left to do.
FromEnd(s, n) == s[Len(s) - n + 1]

\* t is the end of s.
EndOf(t, s) ==
    /\ t \in Seq(Ops) /\ Len(t) <= Len(s)
    /\ \A n \in 1..Len(t) : FromEnd(t, n) = FromEnd(s, n)

Shape ==
    /\ page \in Pages
    /\ DOMAIN cis = Registers
    /\ call \in Calls \cup {NoCall}
    /\ gain \in Nat /\ exp \in Nat

Path ==
    /\ call = NoCall => todo = << >> /\ ~failed
    /\ call.cmd \in {"exp", "gain", "both"} => EndOf(todo, Script)
    /\ call.cmd = "stream" =>
         /\ todo \in Seq(Ops) /\ sound = {}
         /\ todo # << >> => todo[Len(todo)] = Page(0)
         /\ todo = << >> /\ ~failed => page = 0

PageInv == "page" \in sound => page = 0

\* The registers of the gain that is remembered, or those written so far when n
\* transfers are left.
GainWritten(g, n) ==
    /\ n <= 6 => page = 0
    /\ n <= 5 => cis["b4"] = Entry(g * 4)
    /\ n <= 4 => cis["b3"] = Entry(g * 4)
    /\ n <= 3 => cis["b8"] = Entry(g * 4)
    /\ n <= 2 => cis["b9"] = Entry(g * 4)
    /\ n <= 1 => cis["b1"] = Upper(g)
    /\ n <= 0 => cis["b2"] = Lower(g)
GainHeld(g) ==
    /\ g \in Gains
    /\ cis["b4"] = Entry(g * 4) /\ cis["b3"] = Entry(g * 4)
    /\ cis["b8"] = Entry(g * 4) /\ cis["b9"] = Entry(g * 4)
    /\ cis["b1"] = Upper(g) /\ cis["b2"] = Lower(g)
GainInv ==
    /\ "gain" \in sound /\ ~SetsGain => GainHeld(gain)
    /\ SetsGain /\ ~failed => GainWritten(call.gain, Len(todo))

ExpWritten(e, n) ==
    /\ n <= GainOps + 1 => cis["03"] = ExpUpper(e)
    /\ n <= GainOps => cis["04"] = ExpLower(e)
ExpHeld(e) == cis["03"] = ExpUpper(e) /\ cis["04"] = ExpLower(e)
ExpInv ==
    /\ "exp" \in sound /\ ~SetsExp => ExpHeld(exp)
    /\ SetsExp /\ ~failed /\ "page" \in sound => ExpWritten(call.exp, Len(todo))

IInv == Shape /\ Path /\ PageInv /\ GainInv /\ ExpInv
-----------------------------------------------------------------------------
(* The split of a gain. *)

LEMMA TableValues ==
    /\ total = 29
    /\ gainLevelTable[1] = 64 /\ gainLevelTable[2] = 74 /\ gainLevelTable[3] = 89
    /\ gainLevelTable[4] = 102 /\ gainLevelTable[5] = 127 /\ gainLevelTable[6] = 147
    /\ gainLevelTable[7] = 177 /\ gainLevelTable[8] = 203 /\ gainLevelTable[9] = 260
    /\ gainLevelTable[10] = 300 /\ gainLevelTable[11] = 361 /\ gainLevelTable[12] = 415
    /\ gainLevelTable[13] = 504 /\ gainLevelTable[14] = 581 /\ gainLevelTable[15] = 722
    /\ gainLevelTable[16] = 832 /\ gainLevelTable[17] = 1027 /\ gainLevelTable[18] = 1182
    /\ gainLevelTable[19] = 1408 /\ gainLevelTable[20] = 1621 /\ gainLevelTable[21] = 1990
    /\ gainLevelTable[22] = 2291 /\ gainLevelTable[23] = 2850 /\ gainLevelTable[24] = 3282
    /\ gainLevelTable[25] = 4048 /\ gainLevelTable[26] = 5180 /\ gainLevelTable[27] = 5500
    /\ gainLevelTable[28] = 6744 /\ gainLevelTable[29] = 7073
  BY DEF gainLevelTable, total

\* The table increases, from 64 to 7073.
LEMMA TableIncreases ==
    /\ \A i \in 1..29 : /\ gainLevelTable[i] \in Nat
                        /\ 64 <= gainLevelTable[i] /\ gainLevelTable[i] <= 7073
    /\ \A i, k \in 1..29 : i < k => gainLevelTable[i] < gainLevelTable[k]
<1>1. \A i \in 1..29 : /\ gainLevelTable[i] \in Nat
                      /\ 64 <= gainLevelTable[i] /\ gainLevelTable[i] <= 7073
  BY TableValues
<1>2. \A i, k \in 1..29 : i < k => gainLevelTable[i] < gainLevelTable[k]
  BY TableValues
<1>3. QED
  BY <1>1, <1>2

Holds(i, g) == gainLevelTable[i] <= g /\ \A k \in (i + 1)..29 : g < gainLevelTable[k]

\* The loop ends at the one entry whose range holds the gain, or at the last.
LEMMA EntryHolds ==
    ASSUME NEW g \in Nat, g >= 64
    PROVE  Entry(g) \in 1..29 /\ Holds(Entry(g), g)
<1> DEFINE hits == {i \in 1..(total - 1) : gainLevelTable[i] <= g /\ g < gainLevelTable[i + 1]}
<1>1. hits = {i \in 1..28 : gainLevelTable[i] <= g /\ g < gainLevelTable[i + 1]}
  BY TableValues
<1>2. Entry(g) = IF hits = {} THEN 29 ELSE Min(hits)
  BY TableValues DEF Entry
<1>3. CASE hits = {}
  <2>1. \A i \in 1..28 : ~(gainLevelTable[i] <= g /\ g < gainLevelTable[i + 1])
    BY <1>1, <1>3
  <2>2. gainLevelTable[29] <= g
    BY <2>1, TableValues
  <2>3. Entry(g) = 29 /\ (29 + 1)..29 = {}
    BY <1>2, <1>3
  <2>4. QED
    BY <2>2, <2>3 DEF Holds
<1>4. CASE hits # {}
  <2>1. PICK i \in hits : TRUE
    BY <1>4
  <2>2. i \in 1..28 /\ gainLevelTable[i] <= g /\ g < gainLevelTable[i + 1]
    BY <1>1, <2>1
  <2>3. \A k \in (i + 1)..29 : g < gainLevelTable[k]
    <3> SUFFICES ASSUME NEW k \in (i + 1)..29 PROVE g < gainLevelTable[k]
      OBVIOUS
    <3>1. k \in 1..29 /\ i + 1 \in 1..29 /\ (k = i + 1 \/ i + 1 < k)
      BY <2>2
    <3>2. gainLevelTable[i + 1] <= gainLevelTable[k] /\ gainLevelTable[k] \in Int /\ gainLevelTable[i + 1] \in Int
      BY <3>1, TableIncreases
    <3>3. QED
      BY <2>2, <3>2
  <2>4. ASSUME NEW j \in hits PROVE j = i
    <3>1. j \in 1..28 /\ gainLevelTable[j] <= g /\ g < gainLevelTable[j + 1]
      BY <1>1
    <3>2. gainLevelTable[i] \in Int /\ gainLevelTable[j] \in Int
      BY <2>2, <3>1, TableIncreases
    <3>3. CASE j > i
      <4>1. j \in (i + 1)..29
        BY <2>2, <3>1, <3>3
      <4>2. QED
        BY <2>3, <3>1, <3>2, <4>1
    <3>4. CASE j < i
      <4>1. j + 1 \in 1..29 /\ i \in 1..29 /\ (i = j + 1 \/ j + 1 < i)
        BY <2>2, <3>1, <3>4
      <4>2. gainLevelTable[j + 1] <= gainLevelTable[i] /\ gainLevelTable[j + 1] \in Int
        BY <4>1, TableIncreases
      <4>3. QED
        BY <2>2, <3>1, <3>2, <4>2
    <3>5. QED
      BY <2>2, <3>1, <3>3, <3>4
  <2>5. hits = {i}
    BY <2>1, <2>4
  <2>6. Min(hits) = i
    <3>1. i <= i
      BY <2>2
    <3> HIDE DEF hits
    <3>2. QED
      BY <2>5, <3>1 DEF Min
  <2> HIDE DEF hits
  <2>7. Entry(g) = i /\ i \in 1..29
    BY <1>2, <1>4, <2>2, <2>6
  <2>8. QED
    BY <2>2, <2>3, <2>7 DEF Holds
<1>5. QED
  BY <1>3, <1>4

\* The division of C, for natural numbers.
LEMMA Quotient ==
    ASSUME NEW a \in Nat, NEW n \in Nat \ {0}
    PROVE  /\ a \div n \in Nat
           /\ n * (a \div n) <= a
           /\ a < n * (a \div n + 1)
<1> DEFINE q == a \div n
           r == a % n
<1>1. q \in Int /\ r \in 0..(n - 1) /\ a = n * q + r
  OBVIOUS
<1>2. q >= 0
  BY <1>1, SMTT(30)
<1>3. n * (q + 1) = n * q + n
  BY <1>1, SMTT(30)
<1> HIDE DEF q, r
<1>4. q \in Nat /\ n * q <= a /\ a < n * (q + 1)
  <2>1. n * q \in Int
    BY <1>1
  <2>2. QED
    BY <1>1, <1>2, <1>3, <2>1
<1>5. QED
  BY <1>4 DEF q

LEMMA Rest ==
    ASSUME NEW a \in Nat, NEW n \in Nat \ {0}
    PROVE  /\ a \div n \in Int /\ a % n \in Int
           /\ 0 <= a % n /\ a % n < n
           /\ a = n * (a \div n) + (a % n)
<1> DEFINE q == a \div n
           r == a % n
<1>1. q \in Int /\ r \in 0..(n - 1) /\ a = n * q + r
  OBVIOUS
<1> HIDE DEF q, r
<1>2. q \in Int /\ r \in Int /\ 0 <= r /\ r < n /\ a = n * q + r
  BY <1>1
<1>3. QED
  BY <1>2 DEF q, r

\* A product below the 16384th multiple of n is less than 16384 times n.
LEMMA Below ==
    ASSUME NEW t \in Nat, NEW n \in Nat \ {0}, n * t < 16384 * n
    PROVE  t < 16384
<1>1. CASE t >= 16384
  <2>1. n * t = n * 16384 + n * (t - 16384)
    BY SMTT(30)
  <2>2. n * (t - 16384) >= 0
    BY <1>1, SMTT(30)
  <2>3. QED
    BY <2>1, <2>2
<1>2. QED
  BY <1>1

\* The digital rest of a gain, and that it fits its registers.
LEMMA DigitalRest ==
    ASSUME NEW g \in Gains
    PROVE  LET i == Entry(g * 4)
               t == tol_dig_gain(g * 4)
           IN  /\ i \in 1..29 /\ Holds(i, g * 4)
               /\ t \in Nat /\ t < 16384
               /\ gainLevelTable[i] * t <= g * 4 * 64
               /\ g * 4 * 64 < gainLevelTable[i] * (t + 1)
<1> DEFINE G == g * 4
           i == Entry(G)
           n == gainLevelTable[i]
           t == (G * 64) \div n
<1>1. g \in Nat /\ g >= 16 /\ g < 16 * 4 * 7073
  BY DEF Gains
<1>2. G \in Nat /\ G >= 64 /\ G < 256 * 7073
  BY <1>1
<1>3. i \in 1..29 /\ Holds(i, G)
  BY <1>2, EntryHolds
<1>4. n \in Nat /\ 64 <= n /\ n <= 7073
  BY <1>3, TableIncreases
<1> HIDE DEF n, G
<1>5. t \in Nat /\ n * t <= G * 64 /\ G * 64 < n * (t + 1)
  <2>1. G * 64 \in Nat /\ n \in Nat \ {0}
    BY <1>2, <1>4
  <2>2. QED
    BY <2>1, Quotient
<1>6. G * 64 < 16384 * n
  <2>1. CASE i = 29
    <3>1. n = 7073
      BY <2>1, TableValues DEF n
    <3>2. QED
      BY <1>2, <3>1
  <2>2. CASE i # 29
    <3>1. i + 1 \in (i + 1)..29 /\ i + 1 \in 1..29
      BY <1>3, <2>2
    <3>2. G < gainLevelTable[i + 1] /\ gainLevelTable[i + 1] \in Nat /\ gainLevelTable[i + 1] <= 7073
      BY <1>3, <3>1, TableIncreases DEF Holds
    <3>3. G < 7073
      BY <1>2, <3>2
    <3>4. QED
      BY <1>2, <1>4, <3>3
  <2>3. QED
    BY <2>1, <2>2
<1>7. t < 16384
  <2> HIDE DEF t
  <2>1. n * t \in Int
    BY <1>4, <1>5
  <2>2. n * t < 16384 * n
    BY <1>2, <1>4, <1>5, <1>6, <2>1
  <2>3. QED
    BY <1>4, <1>5, <2>2, Below
<1>8. tol_dig_gain(g * 4) = t
  BY DEF tol_dig_gain, G, n
<1>9. QED
  BY <1>3, <1>5, <1>7, <1>8 DEF G, n

\* What the two digital registers give back.
LEMMA DigitalRegisters ==
    ASSUME NEW t \in Nat, t < 16384
    PROVE  /\ ((t \div 64) % 256) * 64 + (((t % 64) * 4) % 256) \div 4 = t
           /\ (t \div 64) % 256 \in Nat /\ ((t % 64) * 4) % 256 \in Nat
<1>1. /\ t \div 64 \in Nat /\ t \div 64 < 256
      /\ t % 64 \in Nat /\ t % 64 < 64
      /\ t = 64 * (t \div 64) + (t % 64)
  <2>1. /\ t \div 64 \in Int /\ t % 64 \in Int
        /\ 0 <= t % 64 /\ t % 64 < 64
        /\ t = 64 * (t \div 64) + (t % 64)
    BY Rest, SMT
  <2>2. QED
    BY <2>1, SMT
<1>2. (t \div 64) % 256 = t \div 64
  BY <1>1
<1>3. ((t % 64) * 4) % 256 = (t % 64) * 4
  BY <1>1
<1>4. ((t % 64) * 4) \div 4 = t % 64
  BY <1>1
<1>5. QED
  BY <1>1, <1>2, <1>3, <1>4

\* Registers that hold a gain realise it.
LEMMA HeldIsRealised ==
    ASSUME NEW g, GainHeld(g)
    PROVE  \E i \in 1..total : /\ \A k \in 1..4 : cis[AnalogRegs[k]] = i
                               /\ Realises(i, g * 4)
<1> DEFINE i == Entry(g * 4)
           t == tol_dig_gain(g * 4)
<1>1. g \in Gains
  BY DEF GainHeld
<1>2. /\ i \in 1..29 /\ Holds(i, g * 4)
      /\ t \in Nat /\ t < 16384
      /\ gainLevelTable[i] * t <= g * 4 * 64
      /\ g * 4 * 64 < gainLevelTable[i] * (t + 1)
  BY <1>1, DigitalRest
<1>3. DigitalGain = t
  <2>1. cis["b1"] = (t \div 64) % 256 /\ cis["b2"] = ((t % 64) * 4) % 256
    BY DEF GainHeld, Upper, Lower
  <2> HIDE DEF t
  <2>2. QED
    BY <1>2, <2>1, DigitalRegisters DEF DigitalGain
<1>4. \A k \in 1..4 : cis[AnalogRegs[k]] = i
  <2>1. cis["b4"] = i /\ cis["b3"] = i /\ cis["b8"] = i /\ cis["b9"] = i
    BY DEF GainHeld
  <2>2. /\ AnalogRegs[1] = "b4" /\ AnalogRegs[2] = "b3"
        /\ AnalogRegs[3] = "b8" /\ AnalogRegs[4] = "b9"
    BY DEF AnalogRegs
  <2> HIDE DEF i
  <2>3. QED
    BY <2>1, <2>2
<1>5. Realises(i, g * 4)
  BY <1>2, <1>3, TableValues DEF Realises, Holds
<1>6. QED
  BY <1>2, <1>4, <1>5, TableValues

\* Registers that hold an exposure of less than 2^20 give it back.
LEMMA HeldIsExposed ==
    ASSUME NEW e \in Nat, e < 65536 * 16, ExpHeld(e)
    PROVE  cis["03"] * 256 + cis["04"] = e \div 16
<1> DEFINE h == e \div 16
<1>1. h \in Nat /\ h < 65536
  OBVIOUS
<1>2. cis["03"] = (h \div 256) % 256 /\ cis["04"] = h % 256
  BY DEF ExpHeld, ExpUpper, ExpLower
<1> HIDE DEF h
<1>3. /\ h \div 256 \in Nat /\ h \div 256 < 256
      /\ h % 256 \in Nat /\ h % 256 < 256
      /\ h = 256 * (h \div 256) + (h % 256)
  <2>1. /\ h \div 256 \in Int /\ h % 256 \in Int
        /\ 0 <= h % 256 /\ h % 256 < 256
        /\ h = 256 * (h \div 256) + (h % 256)
    BY <1>1, Rest, SMT
  <2>2. QED
    BY <1>1, <2>1, SMT
<1>4. (h \div 256) % 256 = h \div 256
  <2> DEFINE v == h \div 256
  <2>1. v \in Nat /\ v < 256
    BY <1>3
  <2> HIDE DEF v
  <2>2. v % 256 = v
    BY <2>1
  <2>3. QED
    BY <2>2 DEF v
<1>5. cis["03"] * 256 + cis["04"] = h
  <2>1. cis["03"] = h \div 256 /\ cis["04"] = h % 256
    BY <1>2, <1>4
  <2> DEFINE u == h \div 256
             l == h % 256
  <2>2. u \in Nat /\ l \in Nat /\ h = 256 * u + l
    BY <1>3
  <2>3. cis["03"] = u /\ cis["04"] = l
    BY <2>1
  <2> HIDE DEF u, l
  <2>4. QED
    BY <2>2, <2>3
<1>6. QED
  BY <1>5 DEF h

-----------------------------------------------------------------------------
(* Sequences, counted from their end. *)

LEMMA CatEnd ==
    ASSUME NEW s \in Seq(Ops), NEW t \in Seq(Ops)
    PROVE  /\ s \o t \in Seq(Ops)
           /\ Len(s \o t) = Len(s) + Len(t)
           /\ \A n \in 1..Len(t) : FromEnd(s \o t, n) = FromEnd(t, n)
           /\ \A n \in (Len(t) + 1)..(Len(s) + Len(t)) :
                FromEnd(s \o t, n) = FromEnd(s, n - Len(t))
<1>1. s \o t \in Seq(Ops) /\ Len(s \o t) = Len(s) + Len(t) /\ Len(s) \in Nat /\ Len(t) \in Nat
  OBVIOUS
<1>2. ASSUME NEW n \in 1..Len(t) PROVE FromEnd(s \o t, n) = FromEnd(t, n)
  <2>1. Len(s) + Len(t) - n + 1 \in (Len(s) + 1)..(Len(s) + Len(t))
    BY <1>1
  <2>2. (s \o t)[Len(s) + Len(t) - n + 1] = t[Len(s) + Len(t) - n + 1 - Len(s)]
    BY <1>1, <2>1
  <2>3. Len(s) + Len(t) - n + 1 - Len(s) = Len(t) - n + 1
    BY <1>1
  <2>4. QED
    BY <1>1, <2>2, <2>3 DEF FromEnd
<1>3. ASSUME NEW n \in (Len(t) + 1)..(Len(s) + Len(t))
      PROVE  FromEnd(s \o t, n) = FromEnd(s, n - Len(t))
  <2>1. Len(s) + Len(t) - n + 1 \in 1..Len(s)
    BY <1>1
  <2>2. (s \o t)[Len(s) + Len(t) - n + 1] = s[Len(s) + Len(t) - n + 1]
    BY <1>1, <2>1
  <2>3. Len(s) - (n - Len(t)) + 1 = Len(s) + Len(t) - n + 1
    BY <1>1
  <2>4. QED
    BY <1>1, <2>2, <2>3 DEF FromEnd
<1>4. QED
  BY <1>1, <1>2, <1>3

LEMMA FunctionSeq ==
    ASSUME NEW n \in Nat, NEW f \in [1..n -> Ops]
    PROVE  f \in Seq(Ops) /\ Len(f) = n
  OBVIOUS

\* One transfer less is left.
LEMMA TailEnd ==
    ASSUME NEW s \in Seq(Ops), NEW t, EndOf(t, s), t # << >>
    PROVE  /\ Len(t) \in 1..Len(s)
           /\ Head(t) = FromEnd(s, Len(t)) /\ Head(t) \in Ops
           /\ EndOf(Tail(t), s) /\ Len(Tail(t)) = Len(t) - 1
<1>1. t \in Seq(Ops) /\ Len(t) <= Len(s) /\ Len(t) \in Nat /\ Len(s) \in Nat
  BY DEF EndOf
<1>2. Len(t) # 0 /\ Head(t) = t[1] /\ Head(t) \in Ops
  BY <1>1
<1>3. Tail(t) \in Seq(Ops) /\ Len(Tail(t)) = Len(t) - 1
  BY <1>1, <1>2
<1>4. Head(t) = FromEnd(t, Len(t))
  BY <1>1, <1>2 DEF FromEnd
<1>5. FromEnd(t, Len(t)) = FromEnd(s, Len(t))
  BY <1>1, <1>2 DEF EndOf
<1>6. ASSUME NEW n \in 1..(Len(t) - 1) PROVE FromEnd(Tail(t), n) = FromEnd(s, n)
  <2>1. Len(t) - 1 - n + 1 \in 1..(Len(t) - 1)
    BY <1>1, <1>2
  <2>2. Tail(t)[Len(t) - 1 - n + 1] = t[Len(t) - 1 - n + 1 + 1]
    BY <1>1, <1>2, <2>1
  <2>3. Len(t) - 1 - n + 1 + 1 = Len(t) - n + 1
    BY <1>1
  <2>4. FromEnd(Tail(t), n) = FromEnd(t, n)
    BY <1>3, <2>2, <2>3 DEF FromEnd
  <2>5. FromEnd(t, n) = FromEnd(s, n)
    BY <1>1, <1>6 DEF EndOf
  <2>6. QED
    BY <2>4, <2>5
<1>7. QED
  BY <1>1, <1>2, <1>3, <1>4, <1>5, <1>6 DEF EndOf

-----------------------------------------------------------------------------
(* The scripts. *)

LEMMA InOps ==
    /\ \A r \in Registers, v \in Nat : Reg(r, v) \in Ops
    /\ \A p \in Nat : Page(p) \in Ops
  BY DEF Reg, Page, Ops

\* A gain, and what the digital registers take of it.
LEMMA GainBytes ==
    ASSUME NEW g \in Gains
    PROVE  Entry(g * 4) \in 1..29 /\ Upper(g) \in Nat /\ Lower(g) \in Nat
<1> DEFINE t == tol_dig_gain(g * 4)
<1>1. Entry(g * 4) \in 1..29 /\ t \in Nat /\ t < 16384
  BY DigitalRest
<1>2. Upper(g) = (t \div 64) % 256 /\ Lower(g) = ((t % 64) * 4) % 256
  BY DEF Upper, Lower
<1> HIDE DEF t
<1>3. (t \div 64) % 256 \in Nat /\ ((t % 64) * 4) % 256 \in Nat
  BY <1>1, DigitalRegisters
<1>4. QED
  BY <1>1, <1>2, <1>3

LEMMA ExpBytes ==
    ASSUME NEW e \in Nat
    PROVE  ExpUpper(e) \in Nat /\ ExpLower(e) \in Nat
<1> DEFINE h == e \div 16
<1>1. h \in Nat
  OBVIOUS
<1>2. ExpUpper(e) = (h \div 256) % 256 /\ ExpLower(e) = h % 256
  BY DEF ExpUpper, ExpLower
<1> HIDE DEF h
<1>3. h \div 256 \in Nat
  BY <1>1
<1>4. (h \div 256) % 256 \in Nat /\ h % 256 \in Nat
  BY <1>1, <1>3
<1>5. QED
  BY <1>2, <1>4

\* The seven transfers of a gain.
GainTable(s, g) ==
    /\ FromEnd(s, 7) = Page(0)
    /\ FromEnd(s, 6) = Reg("b4", Entry(g * 4)) /\ FromEnd(s, 5) = Reg("b3", Entry(g * 4))
    /\ FromEnd(s, 4) = Reg("b8", Entry(g * 4)) /\ FromEnd(s, 3) = Reg("b9", Entry(g * 4))
    /\ FromEnd(s, 2) = Reg("b1", Upper(g)) /\ FromEnd(s, 1) = Reg("b2", Lower(g))

LEMMA GainScript ==
    ASSUME NEW g \in Gains
    PROVE  LET s == setSensorGain(g * 4)
           IN  s \in Seq(Ops) /\ Len(s) = 7 /\ GainTable(s, g)
<1> DEFINE i == Entry(g * 4)
           a == <<Page(0)>>
           b == Analog(i)
           c == <<Reg("b1", Upper(g)), Reg("b2", Lower(g))>>
<1>1. setSensorGain(g * 4) = (a \o b) \o c
  BY DEF setSensorGain, Digital, Upper, Lower
<1>2. i \in Nat /\ Upper(g) \in Nat /\ Lower(g) \in Nat
  BY GainBytes
<1>3. /\ Page(0) \in Ops /\ Reg("b4", i) \in Ops /\ Reg("b3", i) \in Ops
      /\ Reg("b8", i) \in Ops /\ Reg("b9", i) \in Ops
      /\ Reg("b1", Upper(g)) \in Ops /\ Reg("b2", Lower(g)) \in Ops
  BY <1>2, InOps DEF Registers
<1> HIDE DEF i
<1>4. b \in Seq(Ops) /\ Len(b) = 4
  <2>1. /\ b = [k \in 1..4 |-> Reg(AnalogRegs[k], i)]
        /\ AnalogRegs[1] = "b4" /\ AnalogRegs[2] = "b3"
        /\ AnalogRegs[3] = "b8" /\ AnalogRegs[4] = "b9"
    BY DEF Analog, AnalogRegs
  <2>2. \A k \in 1..4 : Reg(AnalogRegs[k], i) \in Ops
    BY <1>3, <2>1
  <2>3. b \in [1..4 -> Ops]
    BY <2>1, <2>2
  <2> HIDE DEF b
  <2>4. QED
    BY <2>3, FunctionSeq
<1>5. /\ b[1] = Reg("b4", i) /\ b[2] = Reg("b3", i)
      /\ b[3] = Reg("b8", i) /\ b[4] = Reg("b9", i)
  BY DEF Analog, AnalogRegs
<1>6. /\ FromEnd(b, 4) = Reg("b4", i) /\ FromEnd(b, 3) = Reg("b3", i)
      /\ FromEnd(b, 2) = Reg("b8", i) /\ FromEnd(b, 1) = Reg("b9", i)
  BY <1>4, <1>5 DEF FromEnd
<1>7. a \in Seq(Ops) /\ Len(a) = 1 /\ FromEnd(a, 1) = Page(0)
  BY <1>3 DEF FromEnd
<1>8. /\ c \in Seq(Ops) /\ Len(c) = 2
      /\ FromEnd(c, 2) = Reg("b1", Upper(g)) /\ FromEnd(c, 1) = Reg("b2", Lower(g))
  BY <1>3 DEF FromEnd
<1> HIDE DEF a, b, c
<1>9. /\ a \o b \in Seq(Ops) /\ Len(a \o b) = 5
      /\ FromEnd(a \o b, 5) = Page(0)
      /\ FromEnd(a \o b, 4) = Reg("b4", i) /\ FromEnd(a \o b, 3) = Reg("b3", i)
      /\ FromEnd(a \o b, 2) = Reg("b8", i) /\ FromEnd(a \o b, 1) = Reg("b9", i)
  <2>1. /\ a \o b \in Seq(Ops) /\ Len(a \o b) = Len(a) + Len(b)
        /\ \A n \in 1..Len(b) : FromEnd(a \o b, n) = FromEnd(b, n)
        /\ \A n \in (Len(b) + 1)..(Len(a) + Len(b)) : FromEnd(a \o b, n) = FromEnd(a, n - Len(b))
    BY <1>4, <1>7, CatEnd
  <2>2. 5 \in (4 + 1)..(1 + 4) /\ 5 - 4 = 1
    OBVIOUS
  <2>3. FromEnd(a \o b, 5) = FromEnd(a, 1)
    BY <1>4, <1>7, <2>1, <2>2
  <2>4. \A n \in 1..4 : FromEnd(a \o b, n) = FromEnd(b, n)
    BY <1>4, <2>1
  <2>5. QED
    BY <1>4, <1>6, <1>7, <2>1, <2>3, <2>4
<1>10. /\ (a \o b) \o c \in Seq(Ops) /\ Len((a \o b) \o c) = 7
       /\ \A n \in 1..2 : FromEnd((a \o b) \o c, n) = FromEnd(c, n)
       /\ \A n \in 3..7 : FromEnd((a \o b) \o c, n) = FromEnd(a \o b, n - 2)
  <2> DEFINE ab == a \o b
  <2> HIDE DEF ab
  <2>1. ab \in Seq(Ops) /\ Len(ab) = 5
    BY <1>9 DEF ab
  <2>2. /\ ab \o c \in Seq(Ops) /\ Len(ab \o c) = Len(ab) + Len(c)
        /\ \A n \in 1..Len(c) : FromEnd(ab \o c, n) = FromEnd(c, n)
        /\ \A n \in (Len(c) + 1)..(Len(ab) + Len(c)) : FromEnd(ab \o c, n) = FromEnd(ab, n - Len(c))
    BY <1>8, <2>1, CatEnd
  <2>3. /\ ab \o c \in Seq(Ops) /\ Len(ab \o c) = 7
        /\ \A n \in 1..2 : FromEnd(ab \o c, n) = FromEnd(c, n)
        /\ \A n \in 3..7 : FromEnd(ab \o c, n) = FromEnd(ab, n - 2)
    BY <1>8, <2>1, <2>2
  <2>4. QED
    BY <2>3 DEF ab
<1>11. GainTable((a \o b) \o c, g)
  BY <1>8, <1>9, <1>10 DEF GainTable, i
<1>12. QED
  BY <1>1, <1>10, <1>11

LEMMA ExpScript ==
    ASSUME NEW e \in Nat
    PROVE  LET s == sensor_s_exp(e)
           IN  /\ s \in Seq(Ops) /\ Len(s) = 2
               /\ FromEnd(s, 2) = Reg("03", ExpUpper(e)) /\ FromEnd(s, 1) = Reg("04", ExpLower(e))
<1>1. sensor_s_exp(e) = <<Reg("03", ExpUpper(e)), Reg("04", ExpLower(e))>>
  BY DEF sensor_s_exp, Exposure, ExpUpper, ExpLower
<1>2. Reg("03", ExpUpper(e)) \in Ops /\ Reg("04", ExpLower(e)) \in Ops
  BY ExpBytes, InOps DEF Registers
<1>3. QED
  BY <1>1, <1>2 DEF FromEnd

\* Every table ends on page 0.
LEMMA WalkEnd ==
    ASSUME NEW r \in Nat
    PROVE  /\ Walk(r) \in Seq(Ops) /\ Walk(r) # << >>
           /\ Walk(r)[Len(Walk(r))] = Page(0)
<1> DEFINE a == <<Page(r), Page(0)>>
           b == Exposure(4, 96)
           c == Digital(1, 0)
           d == Analog(1)
           e == <<Page(1), Page(4), Page(1), Page(1), Reg("04", 1), Page(4), Page(1), Page(0),
                  Page(3), Reg("03", 142), Page(0)>>
<1>1. Walk(r) = (((a \o b) \o c) \o d) \o e
  BY DEF Walk
<1>2. a \in Seq(Ops)
  BY InOps
<1>3. b \in Seq(Ops)
  <2>1. Reg("03", 4 % 256) \in Ops /\ Reg("04", 96 % 256) \in Ops
    BY InOps DEF Registers
  <2>2. QED
    BY <2>1 DEF Exposure
<1>4. c \in Seq(Ops)
  <2>1. Reg("b1", 1 % 256) \in Ops /\ Reg("b2", 0 % 256) \in Ops
    BY InOps DEF Registers
  <2>2. QED
    BY <2>1 DEF Digital
<1>5. d \in Seq(Ops)
  <2>1. \A k \in 1..4 : AnalogRegs[k] \in Registers
    BY DEF AnalogRegs, Registers
  <2>2. \A k \in 1..4 : Reg(AnalogRegs[k], 1) \in Ops
    BY <2>1, InOps
  <2>3. d \in [1..4 -> Ops]
    BY <2>2 DEF Analog
  <2> HIDE DEF d
  <2>4. QED
    BY <2>3, FunctionSeq
<1>6. e \in Seq(Ops) /\ Len(e) = 11 /\ FromEnd(e, 1) = Page(0)
  <2>1. /\ Page(0) \in Ops /\ Page(1) \in Ops /\ Page(3) \in Ops /\ Page(4) \in Ops
        /\ Reg("04", 1) \in Ops /\ Reg("03", 142) \in Ops
    BY InOps DEF Registers
  <2>2. QED
    BY <2>1 DEF FromEnd
<1> DEFINE s == ((a \o b) \o c) \o d
<1> HIDE DEF a, b, c, d, e
<1>7. a \o b \in Seq(Ops)
  BY <1>2, <1>3, CatEnd
<1>8. (a \o b) \o c \in Seq(Ops)
  BY <1>4, <1>7, CatEnd
<1>9. s \in Seq(Ops)
  BY <1>5, <1>8, CatEnd
<1> HIDE DEF s
<1>10. /\ s \o e \in Seq(Ops) /\ Len(s \o e) = Len(s) + 11
       /\ FromEnd(s \o e, 1) = Page(0)
  <2>1. /\ s \o e \in Seq(Ops) /\ Len(s \o e) = Len(s) + Len(e)
        /\ \A n \in 1..Len(e) : FromEnd(s \o e, n) = FromEnd(e, n)
    BY <1>6, <1>9, CatEnd
  <2>2. 1 \in 1..Len(e)
    BY <1>6
  <2>3. QED
    BY <1>6, <2>1, <2>2
<1>11. /\ s \o e # << >> /\ (s \o e)[Len(s \o e)] = Page(0)
  <2>1. Len(s) \in Nat
    BY <1>9
  <2>2. Len(s \o e) - 1 + 1 = Len(s \o e)
    BY <1>10, <2>1
  <2>3. QED
    BY <1>10, <2>1, <2>2 DEF FromEnd
<1>12. QED
  BY <1>1, <1>10, <1>11 DEF s

LEMMA CallKinds ==
    ASSUME NEW c \in Calls
    PROVE  /\ c.cmd \in {"stream", "exp", "gain", "both"} /\ c # NoCall
           /\ "gain" \in DOMAIN c <=> c.cmd \in {"gain", "both"}
           /\ "exp" \in DOMAIN c <=> c.cmd \in {"exp", "both"}
           /\ c.cmd \in {"gain", "both"} => c.gain \in Gains
           /\ c.cmd \in {"exp", "both"} => c.exp \in Nat
<1>1. CASE c \in [cmd : {"stream"}]
  BY <1>1 DEF NoCall
<1>2. CASE c \in [cmd : {"exp"}, exp : Nat]
  BY <1>2 DEF NoCall
<1>3. CASE c \in [cmd : {"gain"}, gain : Gains]
  BY <1>3 DEF NoCall
<1>4. CASE c \in [cmd : {"both"}, exp : Nat, gain : Gains]
  BY <1>4 DEF NoCall
<1>5. QED
  BY <1>1, <1>2, <1>3, <1>4 DEF Calls

LEMMA GainIsNat == Gains \subseteq Nat
  BY DEF Gains

\* The script of an exposure or gain call, counted from its end: first the exposure, then
\* the gain.
ExpTable(s, e, n) ==
    FromEnd(s, n + 2) = Reg("03", ExpUpper(e)) /\ FromEnd(s, n + 1) = Reg("04", ExpLower(e))

LEMMA CallScript ==
    ASSUME call \in Calls, call.cmd \in {"exp", "gain", "both"}
    PROVE  /\ Script \in Seq(Ops)
           /\ Len(Script) = GainOps + (IF SetsExp THEN 2 ELSE 0)
           /\ SetsGain => GainTable(Script, call.gain)
           /\ SetsExp => ExpTable(Script, call.exp, GainOps)
<1>1. CASE call.cmd = "exp"
  <2>1. Script = sensor_s_exp(call.exp) /\ SetsExp /\ ~SetsGain /\ GainOps = 0
    BY <1>1 DEF Script, SetsExp, SetsGain, GainOps
  <2>2. call.exp \in Nat
    BY <1>1, CallKinds
  <2>3. ExpTable(sensor_s_exp(call.exp), call.exp, 0)
    BY <2>2, ExpScript DEF ExpTable
  <2>4. QED
    BY <2>1, <2>2, <2>3, ExpScript
<1>2. CASE call.cmd = "gain"
  <2>1. Script = setSensorGain(call.gain * 4) /\ ~SetsExp /\ SetsGain /\ GainOps = 7
    BY <1>2 DEF Script, SetsExp, SetsGain, GainOps
  <2>2. call.gain \in Gains
    BY <1>2, CallKinds
  <2>3. QED
    BY <2>1, <2>2, GainScript
<1>3. CASE call.cmd = "both" /\ call.gain = gain
  <2>1. Script = sensor_s_exp(call.exp) \o << >> /\ SetsExp /\ ~SetsGain /\ GainOps = 0
    BY <1>3 DEF Script, SetsExp, SetsGain, GainOps
  <2>2. call.exp \in Nat
    BY <1>3, CallKinds
  <2> DEFINE e == sensor_s_exp(call.exp)
  <2>3. e \in Seq(Ops) /\ Len(e) = 2 /\ ExpTable(e, call.exp, 0)
    BY <2>2, ExpScript DEF ExpTable
  <2> HIDE DEF e
  <2>4. e \o << >> = e
    BY <2>3
  <2>5. QED
    BY <2>1, <2>3, <2>4 DEF e
<1>4. CASE call.cmd = "both" /\ call.gain # gain
  <2> DEFINE e == sensor_s_exp(call.exp)
             s == setSensorGain(call.gain * 4)
  <2>1. Script = e \o s /\ SetsExp /\ SetsGain /\ GainOps = 7
    BY <1>4 DEF Script, SetsExp, SetsGain, GainOps
  <2>2. call.exp \in Nat /\ call.gain \in Gains
    BY <1>4, CallKinds
  <2>3. /\ e \in Seq(Ops) /\ Len(e) = 2
        /\ FromEnd(e, 2) = Reg("03", ExpUpper(call.exp))
        /\ FromEnd(e, 1) = Reg("04", ExpLower(call.exp))
    BY <2>2, ExpScript
  <2>4. s \in Seq(Ops) /\ Len(s) = 7 /\ GainTable(s, call.gain)
    BY <2>2, GainScript
  <2> HIDE DEF e, s
  <2>5. /\ e \o s \in Seq(Ops) /\ Len(e \o s) = Len(e) + Len(s)
        /\ \A n \in 1..Len(s) : FromEnd(e \o s, n) = FromEnd(s, n)
        /\ \A n \in (Len(s) + 1)..(Len(e) + Len(s)) : FromEnd(e \o s, n) = FromEnd(e, n - Len(s))
    BY <2>3, <2>4, CatEnd
  <2>6. Len(e \o s) = 9
    BY <2>3, <2>4, <2>5
  <2>7. \A n \in 1..7 : FromEnd(e \o s, n) = FromEnd(s, n)
    BY <2>4, <2>5
  <2>8. FromEnd(e \o s, 7 + 2) = FromEnd(e, 2) /\ FromEnd(e \o s, 7 + 1) = FromEnd(e, 1)
    <3>1. \A n \in 8..9 : FromEnd(e \o s, n) = FromEnd(e, n - 7)
      BY <2>3, <2>4, <2>5
    <3>2. QED
      BY <3>1
  <2>9. GainTable(e \o s, call.gain)
    BY <2>4, <2>7 DEF GainTable
  <2>10. ExpTable(e \o s, call.exp, 7)
    BY <2>3, <2>8 DEF ExpTable
  <2>11. QED
    BY <2>1, <2>5, <2>6, <2>9, <2>10
<1>5. QED
  BY <1>1, <1>2, <1>3, <1>4

LEMMA CallLength ==
    call \in Calls /\ call.cmd \in {"exp", "gain", "both"} =>
        Script \in Seq(Ops) /\ Len(Script) = GainOps + (IF SetsExp THEN 2 ELSE 0)
  BY CallScript

-----------------------------------------------------------------------------
(* The transfers. *)

\* A page switch to page 0, and a register write, on page 0 and elsewhere.
LEMMA PageSwitch ==
    ASSUME Transfer(Page(0))
    PROVE  page' = 0 /\ cis' = cis
  BY DEF Transfer, Page, Pages

LEMMA RegisterWrite ==
    ASSUME NEW r \in Registers, NEW v, DOMAIN cis = Registers, Transfer(Reg(r, v))
    PROVE  /\ page' = page /\ DOMAIN cis' = Registers
           /\ page = 0 => cis'[r] = v
           /\ \A q \in Registers \ {r} : cis'[q] = cis[q]
<1>1. Reg(r, v).reg = r /\ Reg(r, v).val = v /\ r # "fe"
  BY DEF Reg, Registers
<1>2. page' = page
  BY <1>1 DEF Transfer
<1>3. CASE page = 0
  <2>1. cis' = [cis EXCEPT ![r] = v]
    BY <1>1, <1>3 DEF Transfer
  <2>2. QED
    BY <1>2, <2>1
<1>4. CASE page # 0
  <2>1. cis' = cis
    BY <1>1, <1>4 DEF Transfer
  <2>2. QED
    BY <1>2, <1>4, <2>1
<1>5. QED
  BY <1>3, <1>4

LEMMA AnyTransfer ==
    ASSUME NEW o \in Ops, page \in Pages, DOMAIN cis = Registers, Transfer(o)
    PROVE  page' \in Pages /\ DOMAIN cis' = Registers
<1>1. page' \in Pages
  BY DEF Transfer, Pages
<1>2. DOMAIN PowerOn = Registers
  BY DEF PowerOn, Registers
<1>3. DOMAIN [cis EXCEPT ![o.reg] = o.val] = Registers
  OBVIOUS
<1>4. \/ cis' = PowerOn \/ cis' = [cis EXCEPT ![o.reg] = o.val] \/ cis' = cis
  BY DEF Transfer
<1>5. QED
  BY <1>1, <1>2, <1>3, <1>4

\* What the transfers of an exposure or gain call do: n are left before.
Exposing(n) == SetsExp /\ n \in {GainOps + 1, GainOps + 2}
Gaining(n)  == SetsGain /\ n \in 1..7

LEMMA Position ==
    ASSUME Shape, Path, call.cmd \in {"exp", "gain", "both"}, todo # << >>
    PROVE  /\ Head(todo) \in Ops /\ Head(todo) = FromEnd(Script, Len(todo))
           /\ Len(todo) \in Nat /\ EndOf(Tail(todo), Script) /\ Len(Tail(todo)) = Len(todo) - 1
           /\ Exposing(Len(todo)) \/ Gaining(Len(todo))
           /\ GainOps \in Nat /\ (SetsGain => GainOps = 7) /\ (~SetsGain => GainOps = 0)
<1>1. call \in Calls
  BY DEF Shape, NoCall
<1>2. /\ Script \in Seq(Ops) /\ Len(Script) = GainOps + (IF SetsExp THEN 2 ELSE 0)
  BY <1>1, CallScript
<1>3. EndOf(todo, Script)
  BY DEF Path
<1>4. /\ Len(todo) \in 1..Len(Script)
      /\ Head(todo) = FromEnd(Script, Len(todo)) /\ Head(todo) \in Ops
      /\ EndOf(Tail(todo), Script) /\ Len(Tail(todo)) = Len(todo) - 1
  BY <1>2, <1>3, TailEnd
<1>5. GainOps \in Nat /\ (SetsGain => GainOps = 7) /\ (~SetsGain => GainOps = 0)
  BY DEF GainOps
<1>6. Exposing(Len(todo)) \/ Gaining(Len(todo))
  <2> DEFINE n == Len(todo)
             m == GainOps
  <2>1. n \in 1..Len(Script) /\ Len(Script) = m + (IF SetsExp THEN 2 ELSE 0)
    BY <1>2, <1>4
  <2>2. m \in Nat /\ (SetsGain => m = 7) /\ (~SetsGain => m = 0)
    BY <1>5
  <2> HIDE DEF n, m
  <2>3. CASE SetsExp
    <3>1. n \in 1..(m + 2)
      BY <2>1, <2>3
    <3>2. CASE SetsGain
      <4>1. n \in 1..9 /\ m = 7
        BY <2>2, <3>1, <3>2
      <4>2. QED
        BY <2>3, <3>2, <4>1 DEF Exposing, Gaining, n, m
    <3>3. CASE ~SetsGain
      <4>1. n \in 1..2 /\ m = 0
        BY <2>2, <3>1, <3>3
      <4>2. QED
        BY <2>3, <4>1 DEF Exposing, n, m
    <3>4. QED
      BY <3>2, <3>3
  <2>4. CASE ~SetsExp
    <3>1. n \in 1..m
      BY <2>1, <2>2, <2>4
    <3>2. SetsGain /\ n \in 1..7
      BY <2>2, <3>1
    <3>3. QED
      BY <3>2 DEF Gaining, n
  <2>5. QED
    BY <2>3, <2>4
<1>7. QED
  BY <1>4, <1>5, <1>6

\* A transfer of the exposure writes its register if page 0 is selected, and no other.
LEMMA ExposureTransfer ==
    ASSUME Shape, call.cmd \in {"exp", "gain", "both"}, NEW n, Exposing(n),
           Transfer(FromEnd(Script, n))
    PROVE  /\ page' = page
           /\ \A q \in Registers \ {"03", "04"} : cis'[q] = cis[q]
           /\ n = GainOps + 2 /\ page = 0 => cis'["03"] = ExpUpper(call.exp)
           /\ n = GainOps + 1 => cis'["03"] = cis["03"]
           /\ n = GainOps + 1 /\ page = 0 => cis'["04"] = ExpLower(call.exp)
<1>1. call \in Calls
  BY DEF Shape, NoCall
<1>2. SetsExp /\ ExpTable(Script, call.exp, GainOps)
  BY <1>1, CallScript DEF Exposing
<1>3. DOMAIN cis = Registers
  BY DEF Shape
<1>4. "03" \in Registers /\ "04" \in Registers
  BY DEF Registers
<1>5. GainOps + 1 # GainOps + 2
  BY DEF GainOps
<1>6. CASE n = GainOps + 2
  <2>1. Transfer(Reg("03", ExpUpper(call.exp)))
    BY <1>2, <1>6 DEF ExpTable
  <2>2. /\ page' = page /\ DOMAIN cis' = Registers
        /\ page = 0 => cis'["03"] = ExpUpper(call.exp)
        /\ \A q \in Registers \ {"03"} : cis'[q] = cis[q]
    BY <1>3, <1>4, <2>1, RegisterWrite
  <2>3. QED
    BY <1>5, <1>6, <2>2
<1>7. CASE n = GainOps + 1
  <2>1. Transfer(Reg("04", ExpLower(call.exp)))
    BY <1>2, <1>7 DEF ExpTable
  <2>2. /\ page' = page /\ DOMAIN cis' = Registers
        /\ page = 0 => cis'["04"] = ExpLower(call.exp)
        /\ \A q \in Registers \ {"04"} : cis'[q] = cis[q]
    BY <1>3, <1>4, <2>1, RegisterWrite
  <2>3. QED
    BY <1>4, <1>5, <1>7, <2>2
<1>8. QED
  BY <1>6, <1>7 DEF Exposing

\* A transfer of the gain: the page, or the next register.
LEMMA GainTransfer ==
    ASSUME Shape, call.cmd \in {"exp", "gain", "both"}, NEW n, Gaining(n),
           Transfer(FromEnd(Script, n)), n <= 6 => page = 0
    PROVE  /\ page' = 0
           /\ cis'["03"] = cis["03"] /\ cis'["04"] = cis["04"]
           /\ n = 6 => cis'["b4"] = Entry(call.gain * 4)
           /\ n <= 5 => cis'["b4"] = cis["b4"]
           /\ n = 5 => cis'["b3"] = Entry(call.gain * 4)
           /\ n <= 4 => cis'["b3"] = cis["b3"]
           /\ n = 4 => cis'["b8"] = Entry(call.gain * 4)
           /\ n <= 3 => cis'["b8"] = cis["b8"]
           /\ n = 3 => cis'["b9"] = Entry(call.gain * 4)
           /\ n <= 2 => cis'["b9"] = cis["b9"]
           /\ n = 2 => cis'["b1"] = Upper(call.gain)
           /\ n <= 1 => cis'["b1"] = cis["b1"]
           /\ n = 1 => cis'["b2"] = Lower(call.gain)
<1> DEFINE g == call.gain
           i == Entry(g * 4)
<1>1. call \in Calls
  BY DEF Shape, NoCall
<1>2. GainTable(Script, g)
  BY <1>1, CallScript DEF Gaining
<1>3. DOMAIN cis = Registers
  BY DEF Shape
<1>4. Registers = {"03", "04", "b1", "b2", "b3", "b4", "b8", "b9"}
  BY DEF Registers
<1> HIDE DEF i
<1>5. CASE n = 7
  <2>1. Transfer(Page(0))
    BY <1>2, <1>5 DEF GainTable
  <2>2. page' = 0 /\ cis' = cis
    BY <2>1, PageSwitch
  <2>3. QED
    BY <1>5, <2>2
<1> DEFINE Writes(r, v) == /\ page' = 0 /\ cis'[r] = v
                           /\ \A q \in Registers \ {r} : cis'[q] = cis[q]
<1>6. ASSUME NEW r \in Registers, NEW v, Transfer(Reg(r, v)), n <= 6 PROVE Writes(r, v)
  BY <1>3, <1>6, RegisterWrite
<1>7. CASE n = 6
  <2>1. Transfer(Reg("b4", i))
    BY <1>2, <1>7 DEF GainTable, i
  <2>2. Writes("b4", i)
    BY <1>4, <1>6, <1>7, <2>1
  <2>3. QED
    BY <1>4, <1>7, <2>2 DEF i
<1>8. CASE n = 5
  <2>1. Transfer(Reg("b3", i))
    BY <1>2, <1>8 DEF GainTable, i
  <2>2. Writes("b3", i)
    BY <1>4, <1>6, <1>8, <2>1
  <2>3. QED
    BY <1>4, <1>8, <2>2 DEF i
<1>9. CASE n = 4
  <2>1. Transfer(Reg("b8", i))
    BY <1>2, <1>9 DEF GainTable, i
  <2>2. Writes("b8", i)
    BY <1>4, <1>6, <1>9, <2>1
  <2>3. QED
    BY <1>4, <1>9, <2>2 DEF i
<1>10. CASE n = 3
  <2>1. Transfer(Reg("b9", i))
    BY <1>2, <1>10 DEF GainTable, i
  <2>2. Writes("b9", i)
    BY <1>4, <1>6, <1>10, <2>1
  <2>3. QED
    BY <1>4, <1>10, <2>2 DEF i
<1>11. CASE n = 2
  <2>1. Transfer(Reg("b1", Upper(g)))
    BY <1>2, <1>11 DEF GainTable
  <2>2. Writes("b1", Upper(g))
    BY <1>4, <1>6, <1>11, <2>1
  <2>3. QED
    BY <1>4, <1>11, <2>2
<1>12. CASE n = 1
  <2>1. Transfer(Reg("b2", Lower(g)))
    BY <1>2, <1>12 DEF GainTable
  <2>2. Writes("b2", Lower(g))
    BY <1>4, <1>6, <1>12, <2>1
  <2>3. QED
    BY <1>4, <1>12, <2>2
<1>13. n \in 1..7
  BY DEF Gaining
<1>14. QED
  BY <1>5, <1>7, <1>8, <1>9, <1>10, <1>11, <1>12, <1>13

\* Whatever page is selected, it leaves the exposure alone.
LEMMA GainLeaves ==
    ASSUME Shape, call.cmd \in {"exp", "gain", "both"}, NEW n, Gaining(n),
           Transfer(FromEnd(Script, n))
    PROVE  /\ page' = page \/ page' = 0
           /\ cis'["03"] = cis["03"] /\ cis'["04"] = cis["04"]
<1>1. call \in Calls
  BY DEF Shape, NoCall
<1>2. GainTable(Script, call.gain) /\ n \in 1..7
  BY <1>1, CallScript DEF Gaining
<1>3. DOMAIN cis = Registers
  BY DEF Shape
<1>4. n = 7 => FromEnd(Script, n) = Page(0)
  BY <1>2 DEF GainTable
<1>5. n # 7 => \E r \in {"b1", "b2", "b3", "b4", "b8", "b9"}, v \in {Entry(call.gain * 4), Upper(call.gain), Lower(call.gain)} :
                  FromEnd(Script, n) = Reg(r, v)
  <2>1. n = 6 => FromEnd(Script, n) = Reg("b4", Entry(call.gain * 4))
    BY <1>2 DEF GainTable
  <2>2. n = 5 => FromEnd(Script, n) = Reg("b3", Entry(call.gain * 4))
    BY <1>2 DEF GainTable
  <2>3. n = 4 => FromEnd(Script, n) = Reg("b8", Entry(call.gain * 4))
    BY <1>2 DEF GainTable
  <2>4. n = 3 => FromEnd(Script, n) = Reg("b9", Entry(call.gain * 4))
    BY <1>2 DEF GainTable
  <2>5. n = 2 => FromEnd(Script, n) = Reg("b1", Upper(call.gain))
    BY <1>2 DEF GainTable
  <2>6. n = 1 => FromEnd(Script, n) = Reg("b2", Lower(call.gain))
    BY <1>2 DEF GainTable
  <2>7. QED
    BY <1>2, <2>1, <2>2, <2>3, <2>4, <2>5, <2>6
<1>6. CASE n = 7
  BY <1>4, <1>6, PageSwitch
<1>7. CASE n # 7
  <2>1. PICK r \in {"b1", "b2", "b3", "b4", "b8", "b9"}, v \in {Entry(call.gain * 4), Upper(call.gain), Lower(call.gain)} :
           FromEnd(Script, n) = Reg(r, v)
    BY <1>5, <1>7
  <2>2. r \in Registers /\ "03" \in Registers \ {r} /\ "04" \in Registers \ {r}
    BY DEF Registers
  <2>3. Transfer(Reg(r, v))
    BY <2>1
  <2>4. QED
    BY <1>3, <2>2, <2>3, RegisterWrite
<1>8. QED
  BY <1>6, <1>7

-----------------------------------------------------------------------------
(* The invariant. *)

LEMMA InitInv ==
    ASSUME Init
    PROVE  IInv
<1>1. page = 0 /\ cis = PowerOn /\ gain = 0 /\ exp = 0 /\ call = NoCall /\ todo = << >> /\ sound = {}
      /\ failed = FALSE
  BY DEF Init
<1>2. call.cmd = "none"
  BY <1>1 DEF NoCall
<1>3. Shape
  BY <1>1 DEF Shape, Pages, PowerOn, Registers
<1>4. Path
  BY <1>1, <1>2 DEF Path
<1>5. ~SetsGain /\ ~SetsExp
  BY <1>2 DEF SetsGain, SetsExp
<1>6. PageInv /\ GainInv /\ ExpInv
  BY <1>1, <1>5 DEF PageInv, GainInv, ExpInv
<1>7. QED
  BY <1>3, <1>4, <1>6 DEF IInv

\* A call that begins: nothing is written of what it sets.
LEMMA BeginInv ==
    ASSUME IInv, call = NoCall, NEW c \in Calls, call' = c, c.cmd # "stream",
           todo' = Script', UNCHANGED <<page, cis, gain, exp, failed, sound>>
    PROVE  IInv'
<1>1. c.cmd \in {"exp", "gain", "both"} /\ c # NoCall
  BY CallKinds
<1>2. call' \in Calls /\ call'.cmd \in {"exp", "gain", "both"}
  BY <1>1
<1>3. /\ (Script \in Seq(Ops))'
      /\ (Len(Script) = GainOps + (IF SetsExp THEN 2 ELSE 0))'
  <2>1. (call \in Calls /\ call.cmd \in {"exp", "gain", "both"})'
    BY <1>2
  <2>2. (Script \in Seq(Ops) /\ Len(Script) = GainOps + (IF SetsExp THEN 2 ELSE 0))'
    BY <2>1, CallLength, PTL
  <2>3. QED
    BY <2>2
<1>4. Shape'
  BY DEF IInv, Shape
<1>5. ~failed
  BY DEF IInv, Path
<1>6. Path'
  <2>1. EndOf(todo, Script)'
    <3> DEFINE s == Script'
    <3>1. s \in Seq(Ops) /\ todo' = s
      BY <1>3
    <3> HIDE DEF s
    <3>2. EndOf(s, s)
      BY <3>1 DEF EndOf
    <3>3. EndOf(todo', s)
      BY <3>1, <3>2
    <3>4. EndOf(todo', Script')
      BY <3>3 DEF s
    <3>5. QED
      BY <3>4 DEF EndOf, FromEnd
  <2>2. QED
    BY <1>1, <1>5, <2>1 DEF Path
<1>7. PageInv'
  BY DEF IInv, PageInv
<1>8. call.cmd = "none"
  BY DEF NoCall
<1>9. ~SetsGain /\ ~SetsExp
  BY <1>8 DEF SetsGain, SetsExp
<1>10. /\ (GainOps = IF SetsGain THEN 7 ELSE 0)'
       /\ (Len(todo) = GainOps + (IF SetsExp THEN 2 ELSE 0))'
  BY <1>3 DEF GainOps
<1>11. GainInv'
  <2>1. "gain" \in sound => GainHeld(gain)
    BY <1>9 DEF IInv, GainInv
  <2>2. "gain" \in sound' => GainHeld(gain)'
    BY <2>1 DEF GainHeld
  <2>3. SetsGain' => Len(todo') >= 7 /\ Len(todo') \in Nat
    BY <1>10
  <2>4. SetsGain' => GainWritten(call.gain, Len(todo))'
    BY <2>3 DEF GainWritten
  <2>5. QED
    BY <2>2, <2>4 DEF GainInv
<1>12. ExpInv'
  <2>1. "exp" \in sound => ExpHeld(exp)
    BY <1>9 DEF IInv, ExpInv
  <2>2. "exp" \in sound' => ExpHeld(exp)'
    BY <2>1 DEF ExpHeld
  <2>3. SetsExp' => Len(todo') = GainOps' + 2 /\ GainOps' \in Nat
    BY <1>10
  <2>4. SetsExp' => ExpWritten(call.exp, Len(todo))'
    BY <2>3 DEF ExpWritten
  <2>5. QED
    BY <2>2, <2>4 DEF ExpInv
<1>13. QED
  BY <1>4, <1>6, <1>7, <1>11, <1>12 DEF IInv

\* While a call runs, what it sets and its script stay.
LEMMA SameCall ==
    ASSUME UNCHANGED <<call, gain>>
    PROVE  /\ SetsGain' = SetsGain /\ SetsExp' = SetsExp /\ GainOps' = GainOps /\ Script' = Script
<1>1. SetsGain' = SetsGain /\ SetsExp' = SetsExp
  BY DEF SetsGain, SetsExp
<1>2. GainOps' = GainOps
  BY <1>1 DEF GainOps
<1>3. Script' = Script
  BY DEF Script
<1>4. QED
  BY <1>1, <1>2, <1>3

\* A transfer of an exposure or gain call arrives.
LEMMA DoneInv ==
    ASSUME IInv, call.cmd \in {"exp", "gain", "both"}, todo # << >>,
           Transfer(Head(todo)), todo' = Tail(todo),
           UNCHANGED <<gain, exp, call, failed, sound>>
    PROVE  IInv'
<1> DEFINE n == Len(todo)
<1>1. Shape /\ Path /\ PageInv /\ GainInv /\ ExpInv
  BY DEF IInv
<1>2. /\ Head(todo) \in Ops /\ Head(todo) = FromEnd(Script, n)
      /\ n \in Nat /\ EndOf(Tail(todo), Script) /\ Len(Tail(todo)) = n - 1
      /\ Exposing(n) \/ Gaining(n)
      /\ GainOps \in Nat /\ (SetsGain => GainOps = 7) /\ (~SetsGain => GainOps = 0)
  BY <1>1, Position
<1>3. SetsGain' = SetsGain /\ SetsExp' = SetsExp /\ GainOps' = GainOps /\ Script' = Script
  BY SameCall
<1>4. Transfer(FromEnd(Script, n))
  BY <1>2
<1>5. Len(todo') = n - 1
  BY <1>2
<1>6. Shape'
  <2>1. page' \in Pages /\ DOMAIN cis' = Registers
    BY <1>1, <1>2, AnyTransfer DEF Shape
  <2>2. QED
    BY <1>1, <2>1 DEF Shape
<1>7. Path'
  <2>1. EndOf(todo', Script')
    BY <1>2, <1>3
  <2>2. EndOf(todo, Script)'
    BY <2>1 DEF EndOf, FromEnd
  <2>3. call # NoCall /\ call.cmd # "stream"
    BY DEF NoCall
  <2>4. QED
    BY <2>2, <2>3 DEF Path
<1> HIDE DEF n
<1>8. CASE Exposing(n)
  <2>1. /\ page' = page
        /\ \A q \in Registers \ {"03", "04"} : cis'[q] = cis[q]
        /\ n = GainOps + 2 /\ page = 0 => cis'["03"] = ExpUpper(call.exp)
        /\ n = GainOps + 1 => cis'["03"] = cis["03"]
        /\ n = GainOps + 1 /\ page = 0 => cis'["04"] = ExpLower(call.exp)
    BY <1>1, <1>4, <1>8, ExposureTransfer
  <2>2. /\ cis'["b1"] = cis["b1"] /\ cis'["b2"] = cis["b2"] /\ cis'["b3"] = cis["b3"]
        /\ cis'["b4"] = cis["b4"] /\ cis'["b8"] = cis["b8"] /\ cis'["b9"] = cis["b9"]
    BY <2>1 DEF Registers
  <2>3. PageInv'
    BY <1>1, <2>1 DEF PageInv
  <2>4. GainInv'
    <3>1. "gain" \in sound /\ ~SetsGain => GainHeld(gain)
      BY <1>1 DEF GainInv
    <3>2. "gain" \in sound' /\ ~SetsGain' => GainHeld(gain)'
      BY <1>3, <2>2, <3>1 DEF GainHeld
    <3>3. SetsGain => Len(todo') >= 7 /\ Len(todo') \in Int
      BY <1>2, <1>5, <1>8 DEF Exposing
    <3>4. SetsGain' => GainWritten(call.gain, Len(todo))'
      BY <1>3, <3>3 DEF GainWritten
    <3>5. QED
      BY <3>2, <3>4 DEF GainInv
  <2>5. ExpInv'
    <3>1. SetsExp' /\ n \in {GainOps + 1, GainOps + 2} /\ n \in Nat
      BY <1>2, <1>3, <1>8 DEF Exposing
    <3>2. ASSUME ~failed, "page" \in sound PROVE ExpWritten(call.exp, Len(todo))'
      <4>1. page = 0
        BY <1>1, <3>2 DEF PageInv
      <4>2. ExpWritten(call.exp, n)
        BY <1>1, <1>3, <3>1, <3>2 DEF ExpInv, n
      <4>3. CASE n = GainOps + 2
        <5>1. cis'["03"] = ExpUpper(call.exp)
          BY <2>1, <4>1, <4>3
        <5>2. Len(todo') = GainOps + 1 /\ GainOps \in Nat
          BY <1>2, <1>5, <4>3
        <5>3. ~(Len(todo') <= GainOps)
          BY <5>2
        <5>4. QED
          BY <1>3, <5>1, <5>3 DEF ExpWritten, ExpUpper
      <4>4. CASE n = GainOps + 1
        <5>1. cis'["03"] = ExpUpper(call.exp)
          BY <1>2, <2>1, <4>2, <4>4 DEF ExpWritten
        <5>2. cis'["04"] = ExpLower(call.exp)
          BY <2>1, <4>1, <4>4
        <5>3. QED
          BY <5>1, <5>2 DEF ExpWritten, ExpUpper, ExpLower
      <4>5. QED
        BY <3>1, <4>3, <4>4
    <3>3. QED
      BY <3>1, <3>2 DEF ExpInv
  <2>6. QED
    BY <1>6, <1>7, <2>3, <2>4, <2>5 DEF IInv
<1>9. CASE Gaining(n)
  <2>1. /\ page' = page \/ page' = 0
        /\ cis'["03"] = cis["03"] /\ cis'["04"] = cis["04"]
    BY <1>1, <1>4, <1>9, GainLeaves
  <2>2. SetsGain /\ n \in 1..7
    BY <1>9 DEF Gaining
  <2>3. PageInv'
    BY <1>1, <2>1 DEF PageInv
  <2>4. GainInv'
    <3>1. ASSUME ~failed PROVE GainWritten(call.gain, Len(todo))'
      <4>1. GainWritten(call.gain, n)
        BY <1>1, <2>2, <3>1 DEF GainInv, n
      <4>2. n <= 6 => page = 0
        BY <4>1 DEF GainWritten
      <4>3. /\ page' = 0
            /\ n = 6 => cis'["b4"] = Entry(call.gain * 4)
            /\ n <= 5 => cis'["b4"] = cis["b4"]
            /\ n = 5 => cis'["b3"] = Entry(call.gain * 4)
            /\ n <= 4 => cis'["b3"] = cis["b3"]
            /\ n = 4 => cis'["b8"] = Entry(call.gain * 4)
            /\ n <= 3 => cis'["b8"] = cis["b8"]
            /\ n = 3 => cis'["b9"] = Entry(call.gain * 4)
            /\ n <= 2 => cis'["b9"] = cis["b9"]
            /\ n = 2 => cis'["b1"] = Upper(call.gain)
            /\ n <= 1 => cis'["b1"] = cis["b1"]
            /\ n = 1 => cis'["b2"] = Lower(call.gain)
        BY <1>1, <1>4, <1>9, <4>2, GainTransfer
      <4> DEFINE i == Entry(call.gain * 4)
                 u == Upper(call.gain)
                 l == Lower(call.gain)
      <4>4. /\ n <= 5 => cis["b4"] = i
            /\ n <= 4 => cis["b3"] = i
            /\ n <= 3 => cis["b8"] = i
            /\ n <= 2 => cis["b9"] = i
            /\ n <= 1 => cis["b1"] = u
        BY <4>1 DEF GainWritten
      <4> HIDE DEF i, u, l
      <4>5. /\ n - 1 <= 5 => cis'["b4"] = i
            /\ n - 1 <= 4 => cis'["b3"] = i
            /\ n - 1 <= 3 => cis'["b8"] = i
            /\ n - 1 <= 2 => cis'["b9"] = i
            /\ n - 1 <= 1 => cis'["b1"] = u
            /\ n - 1 <= 0 => cis'["b2"] = l
        BY <2>2, <4>3, <4>4 DEF i, u, l
      <4>6. call'.gain = call.gain
        OBVIOUS
      <4>7. QED
        BY <1>5, <4>3, <4>5, <4>6 DEF GainWritten, i, u, l, Upper, Lower
    <3>2. QED
      BY <1>3, <2>2, <3>1 DEF GainInv
  <2>5. ExpInv'
    <3>1. "exp" \in sound /\ ~SetsExp => ExpHeld(exp)
      BY <1>1 DEF ExpInv
    <3>2. "exp" \in sound' /\ ~SetsExp' => ExpHeld(exp)'
      BY <1>3, <2>1, <3>1 DEF ExpHeld
    <3>3. SetsExp /\ ~failed /\ "page" \in sound => ExpWritten(call.exp, n)
      BY <1>1 DEF ExpInv, n
    <3>4. n <= GainOps
      BY <1>2, <2>2
    <3>5. SetsExp /\ ~failed /\ "page" \in sound => cis["03"] = ExpUpper(call.exp) /\ cis["04"] = ExpLower(call.exp)
      BY <1>2, <2>2, <3>3, <3>4 DEF ExpWritten
    <3>6. SetsExp' /\ ~failed' /\ "page" \in sound' => ExpWritten(call.exp, Len(todo))'
      BY <1>3, <2>1, <3>5 DEF ExpWritten, ExpUpper, ExpLower
    <3>7. QED
      BY <3>2, <3>6 DEF ExpInv
  <2>6. QED
    BY <1>6, <1>7, <2>3, <2>4, <2>5 DEF IInv
<1>10. QED
  BY <1>2, <1>8, <1>9 DEF n

\* It fails, and the call goes on.
LEMMA FailedInv ==
    ASSUME IInv, call.cmd \in {"exp", "gain", "both"}, todo # << >>,
           todo' = Tail(todo), failed', UNCHANGED <<page, cis, gain, exp, call, sound>>
    PROVE  IInv'
<1>1. Shape /\ Path /\ PageInv /\ GainInv /\ ExpInv
  BY DEF IInv
<1>2. EndOf(Tail(todo), Script)
  BY <1>1, Position
<1>3. SetsGain' = SetsGain /\ SetsExp' = SetsExp /\ Script' = Script
  BY SameCall
<1>4. Shape'
  BY <1>1 DEF Shape
<1>5. Path'
  <2>1. EndOf(todo', Script')
    BY <1>2, <1>3
  <2>2. EndOf(todo, Script)'
    BY <2>1 DEF EndOf, FromEnd
  <2>3. call # NoCall /\ call.cmd # "stream"
    BY DEF NoCall
  <2>4. QED
    BY <2>2, <2>3 DEF Path
<1>6. PageInv'
  BY <1>1 DEF PageInv
<1>7. GainInv'
  <2>1. "gain" \in sound /\ ~SetsGain => GainHeld(gain)
    BY <1>1 DEF GainInv
  <2>2. "gain" \in sound' /\ ~SetsGain' => GainHeld(gain)'
    BY <1>3, <2>1 DEF GainHeld
  <2>3. QED
    BY <2>2 DEF GainInv
<1>8. ExpInv'
  <2>1. "exp" \in sound /\ ~SetsExp => ExpHeld(exp)
    BY <1>1 DEF ExpInv
  <2>2. "exp" \in sound' /\ ~SetsExp' => ExpHeld(exp)'
    BY <1>3, <2>1 DEF ExpHeld
  <2>3. QED
    BY <2>2 DEF ExpInv
<1>9. QED
  BY <1>4, <1>5, <1>6, <1>7, <1>8 DEF IInv

\* A stream start: nothing may be counted on until it is over, and it ends on page 0
\* unless a transfer fails.
Streams == call.cmd = "stream" /\ sound = {}

LEMMA StreamInv ==
    ASSUME Shape, Streams, todo \in Seq(Ops),
           todo # << >> => todo[Len(todo)] = Page(0),
           todo = << >> /\ ~failed => page = 0
    PROVE  IInv
<1>1. call # NoCall /\ ~SetsGain /\ ~SetsExp
  BY DEF Streams, NoCall, SetsGain, SetsExp
<1>2. Path
  BY <1>1 DEF Path, Streams
<1>3. PageInv /\ GainInv /\ ExpInv
  BY <1>1 DEF PageInv, GainInv, ExpInv, Streams
<1>4. QED
  BY <1>2, <1>3 DEF IInv

LEMMA StreamInvNext ==
    (/\ Shape /\ Streams /\ todo \in Seq(Ops)
     /\ (todo # << >> => todo[Len(todo)] = Page(0))
     /\ (todo = << >> /\ ~failed => page = 0))
    => IInv
  BY StreamInv

LEMMA StreamStep ==
    ASSUME IInv, call.cmd = "stream", Step
    PROVE  IInv'
<1>1. Shape /\ todo \in Seq(Ops) /\ sound = {} /\ todo # << >>
      /\ todo[Len(todo)] = Page(0)
  BY DEF IInv, Path, Step
<1>2. UNCHANGED <<gain, exp, call, sound>>
  BY DEF Step
<1>3. Streams'
  BY <1>1, <1>2 DEF Streams
<1>4. CASE Transfer(Head(todo)) /\ todo' = Tail(todo) /\ UNCHANGED failed
  <2>1. Head(todo) \in Ops /\ Tail(todo) \in Seq(Ops) /\ Len(Tail(todo)) = Len(todo) - 1
        /\ Len(todo) \in Nat \ {0} /\ Head(todo) = todo[1]
    BY <1>1
  <2>2. page' \in Pages /\ DOMAIN cis' = Registers
    BY <1>1, <1>4, <2>1, AnyTransfer DEF Shape
  <2>3. Shape'
    BY <1>1, <1>2, <2>2 DEF Shape
  <2>4. todo' \in Seq(Ops)
    BY <1>4, <2>1
  <2>5. ASSUME Tail(todo) # << >> PROVE Tail(todo)[Len(Tail(todo))] = Page(0)
    <3>1. Len(Tail(todo)) \in 1..(Len(todo) - 1)
      BY <2>1, <2>5
    <3>2. Tail(todo)[Len(todo) - 1] = todo[Len(todo) - 1 + 1]
      BY <1>1, <2>1, <3>1
    <3>3. Len(todo) - 1 + 1 = Len(todo)
      BY <2>1
    <3>4. QED
      BY <1>1, <2>1, <3>2, <3>3
  <2>6. ASSUME Tail(todo) = << >> PROVE page' = 0
    <3>1. Len(todo) = 1
      <4> DEFINE t == Tail(todo)
      <4>1. t = << >> /\ Len(t) = Len(todo) - 1 /\ Len(todo) \in Nat
        BY <2>1, <2>6
      <4> HIDE DEF t
      <4>2. QED
        BY <4>1
    <3>2. Head(todo) = Page(0)
      BY <1>1, <2>1, <3>1
    <3>3. QED
      BY <1>4, <3>2, PageSwitch
  <2>7. todo' # << >> => todo'[Len(todo')] = Page(0)
    BY <1>4, <2>5
  <2>8. todo' = << >> => page' = 0
    BY <1>4, <2>6
  <2>9. (/\ Shape /\ Streams /\ todo \in Seq(Ops)
         /\ (todo # << >> => todo[Len(todo)] = Page(0))
         /\ (todo = << >> /\ ~failed => page = 0))'
    <3>1. (todo # << >> => todo[Len(todo)] = Page(0))'
      BY <2>7 DEF Page
    <3>2. QED
      BY <1>3, <2>3, <2>4, <2>8, <3>1
  <2>10. QED
    BY <2>9, StreamInvNext, PTL
<1>5. CASE todo' = << >> /\ failed' /\ UNCHANGED <<page, cis>>
  <2>1. Shape'
    BY <1>1, <1>2, <1>5 DEF Shape
  <2>2. todo' \in Seq(Ops)
    BY <1>5
  <2>3. (/\ Shape /\ Streams /\ todo \in Seq(Ops)
         /\ (todo # << >> => todo[Len(todo)] = Page(0))
         /\ (todo = << >> /\ ~failed => page = 0))'
    BY <1>3, <1>5, <2>1, <2>2
  <2>4. QED
    BY <2>3, StreamInvNext, PTL
<1>6. QED
  BY <1>4, <1>5 DEF Step

LEMMA StepInv ==
    ASSUME IInv, Step
    PROVE  IInv'
<1>1. todo # << >> /\ UNCHANGED <<gain, exp, call, sound>>
  BY DEF Step
<1>2. call # NoCall
  BY <1>1 DEF IInv, Path
<1>3. call \in Calls
  BY <1>2 DEF IInv, Shape
<1>4. CASE call.cmd = "stream"
  BY <1>4, StreamStep
<1>5. CASE call.cmd \in {"exp", "gain", "both"}
  <2>1. CASE Transfer(Head(todo)) /\ todo' = Tail(todo) /\ UNCHANGED failed
    BY <1>1, <1>5, <2>1, DoneInv
  <2>2. CASE failed' /\ todo' = Tail(todo) /\ UNCHANGED <<page, cis>>
    BY <1>1, <1>5, <2>2, FailedInv
  <2>3. QED
    BY <1>5, <2>1, <2>2 DEF Step
<1>6. QED
  BY <1>3, <1>4, <1>5, CallKinds

\* What may be counted on when a call returns.
LEMMA SettledWhat ==
    ASSUME call \in Calls, Path
    PROVE  /\ "gain" \in Settled => IF SetsGain THEN ~failed ELSE "gain" \in sound
           /\ "exp" \in Settled => IF SetsExp THEN ~failed /\ "page" \in sound ELSE "exp" \in sound
           /\ "page" \in Settled =>
                  \/ "page" \in sound
                  \/ ~failed /\ (SetsGain \/ call.cmd = "stream")
<1> DEFINE touched == {x \in {"gain", "exp"} : Sets(x) /\ ~(x = "gain" /\ Skipped)}
<1>1. "gain" \in touched <=> SetsGain
  BY CallKinds DEF Sets, Skipped, SetsGain
<1>2. "exp" \in touched <=> SetsExp
  BY CallKinds DEF Sets, SetsExp
<1>3. "page" \notin touched
  OBVIOUS
<1>4. Settled = IF failed THEN sound \ touched
                ELSE IF call.cmd = "stream" THEN {"page"}
                ELSE (sound \ touched) \cup (touched \cap {"gain"})
                     \cup (IF "gain" \in touched THEN {"page"} ELSE {})
                     \cup (IF "page" \in sound THEN touched \cap {"exp"} ELSE {})
  BY DEF Settled
<1> HIDE DEF touched
<1>5. QED
  BY <1>1, <1>2, <1>3, <1>4

LEMMA ReturnInv ==
    ASSUME IInv, Return
    PROVE  IInv'
<1>1. /\ call # NoCall /\ todo = << >> /\ call' = NoCall
      /\ gain' = (IF Sets("gain") THEN call.gain ELSE gain)
      /\ exp' = (IF Sets("exp") THEN call.exp ELSE exp)
      /\ sound' = Settled /\ failed' = FALSE /\ UNCHANGED <<page, cis, todo>>
  BY DEF Return
<1>2. Shape /\ Path /\ PageInv /\ GainInv /\ ExpInv
  BY DEF IInv
<1>3. call \in Calls
  BY <1>1, <1>2 DEF Shape
<1>4. /\ "gain" \in sound' => IF SetsGain THEN ~failed ELSE "gain" \in sound
      /\ "exp" \in sound' => IF SetsExp THEN ~failed /\ "page" \in sound ELSE "exp" \in sound
      /\ "page" \in sound' => \/ "page" \in sound
                              \/ ~failed /\ (SetsGain \/ call.cmd = "stream")
  BY <1>1, <1>2, <1>3, SettledWhat
<1>5. Len(todo) = 0 /\ GainOps \in Nat
  BY <1>1 DEF GainOps
<1>6. SetsGain /\ ~failed => page = 0 /\ GainHeld(call.gain)
  <2>1. SetsGain => call.gain \in Gains
    BY <1>3, CallKinds DEF SetsGain
  <2>2. QED
    BY <1>2, <1>5, <2>1 DEF GainInv, GainWritten, GainHeld
<1>7. SetsExp /\ ~failed /\ "page" \in sound => ExpHeld(call.exp)
  BY <1>2, <1>5 DEF ExpInv, ExpWritten, ExpHeld
<1>8. SetsGain => gain' = call.gain
  BY <1>1, <1>3, CallKinds DEF SetsGain, Sets
<1>9. ~SetsGain => gain' = gain
  BY <1>1, <1>3, CallKinds DEF SetsGain, Sets
<1>10. SetsExp => exp' = call.exp
  BY <1>1, <1>3, CallKinds DEF SetsExp, Sets
<1>11. ~SetsExp => exp' = exp
  BY <1>1, <1>3, CallKinds DEF SetsExp, Sets
<1>12. Shape'
  <2>1. gain' \in Nat
    BY <1>2, <1>3, <1>8, <1>9, CallKinds, GainIsNat DEF SetsGain, Shape
  <2>2. exp' \in Nat
    BY <1>2, <1>3, <1>10, <1>11, CallKinds DEF SetsExp, Shape
  <2>3. QED
    BY <1>1, <1>2, <2>1, <2>2 DEF Shape
<1>13. call'.cmd = "none"
  BY <1>1 DEF NoCall
<1>14. Path'
  BY <1>1, <1>13 DEF Path
<1>15. ~SetsGain' /\ ~SetsExp'
  BY <1>13 DEF SetsGain, SetsExp
<1>16. PageInv'
  <2>1. call.cmd = "stream" /\ ~failed => page = 0
    BY <1>1, <1>2 DEF Path
  <2>2. "page" \in sound' => page = 0
    BY <1>2, <1>4, <1>6, <2>1 DEF PageInv
  <2>3. QED
    BY <1>1, <2>2 DEF PageInv
<1>17. GainInv'
  <2>1. "gain" \in sound' => GainHeld(gain')
    BY <1>2, <1>4, <1>6, <1>8, <1>9 DEF GainInv
  <2>2. "gain" \in sound' => GainHeld(gain)'
    BY <1>1, <2>1 DEF GainHeld, Upper, Lower
  <2>3. QED
    BY <1>15, <2>2 DEF GainInv
<1>18. ExpInv'
  <2>1. "exp" \in sound' => ExpHeld(exp')
    BY <1>2, <1>4, <1>7, <1>10, <1>11 DEF ExpInv
  <2>2. "exp" \in sound' => ExpHeld(exp)'
    BY <1>1, <2>1 DEF ExpHeld, ExpUpper, ExpLower
  <2>3. QED
    BY <1>15, <2>2 DEF ExpInv
<1>19. QED
  BY <1>12, <1>14, <1>16, <1>17, <1>18 DEF IInv

\* Between the calls nothing is under way.
LEMMA IdleInv ==
    ASSUME Shape, call = NoCall, todo = << >>, ~failed, PageInv,
           "gain" \in sound => GainHeld(gain), "exp" \in sound => ExpHeld(exp)
    PROVE  IInv
<1>1. call.cmd = "none"
  BY DEF NoCall
<1>2. ~SetsGain /\ ~SetsExp
  BY <1>1 DEF SetsGain, SetsExp
<1>3. Path
  BY <1>1 DEF Path
<1>4. GainInv /\ ExpInv
  BY <1>2 DEF GainInv, ExpInv
<1>5. QED
  BY <1>3, <1>4 DEF IInv

LEMMA IdleNext ==
    (/\ Shape /\ call = NoCall /\ todo = << >> /\ ~failed /\ PageInv
     /\ ("gain" \in sound => GainHeld(gain))
     /\ ("exp" \in sound => ExpHeld(exp)))
    => IInv
  BY IdleInv

\* sensor_init, power and reset: the memory is cleared, or the registers are.
LEMMA IdleSteps ==
    ASSUME IInv, sensor_init \/ sensor_power \/ sensor_reset
    PROVE  IInv'
<1>1. Shape /\ Path /\ PageInv /\ GainInv /\ ExpInv
  BY DEF IInv
<1>2. call = NoCall /\ call' = NoCall /\ todo' = todo /\ failed' = failed
  BY DEF sensor_init, sensor_power, sensor_reset
<1>3. todo = << >> /\ ~failed
  BY <1>1, <1>2 DEF Path
<1>4. "gain" \in sound => GainHeld(gain)
  BY <1>1, <1>2 DEF GainInv, SetsGain, NoCall
<1>5. "exp" \in sound => ExpHeld(exp)
  BY <1>1, <1>2 DEF ExpInv, SetsExp, NoCall
<1>6. \/ UNCHANGED <<page, cis, gain, exp, sound>>
      \/ UNCHANGED <<page, cis>> /\ gain' = 0 /\ exp' = 0 /\ sound' = sound \cap {"page"}
      \/ Lose /\ UNCHANGED <<gain, exp>>
  <2>1. CASE sensor_init
    <3>1. UNCHANGED <<page, cis>>
      BY <2>1 DEF sensor_init
    <3>2. PICK ok \in [1..5 -> BOOLEAN], junk \in BOOLEAN :
             IF sensor_detect(ok, junk)
             THEN gain' = 0 /\ exp' = 0 /\ sound' = sound \cap {"page"}
             ELSE UNCHANGED <<gain, exp, sound>>
      BY <2>1, Zenon DEF sensor_init
    <3>3. QED
      BY <3>1, <3>2
  <2>2. CASE sensor_power
    BY <2>2 DEF sensor_power
  <2>3. CASE sensor_reset
    BY <2>3 DEF sensor_reset
  <2>4. QED
    BY <2>1, <2>2, <2>3
<1>7. Shape'
  BY <1>1, <1>2, <1>6 DEF Lose, Shape, PowerOn, Registers, Pages
<1>8. PageInv'
  BY <1>1, <1>6 DEF Lose, PageInv
<1>9. "gain" \in sound' => GainHeld(gain)'
  <2>1. "gain" \in sound' => UNCHANGED <<cis, gain>> /\ "gain" \in sound
    BY <1>6 DEF Lose
  <2>2. QED
    BY <1>4, <2>1 DEF GainHeld
<1>10. "exp" \in sound' => ExpHeld(exp)'
  <2>1. "exp" \in sound' => UNCHANGED <<cis, exp>> /\ "exp" \in sound
    BY <1>6 DEF Lose
  <2>2. QED
    BY <1>5, <2>1 DEF ExpHeld
<1>11. (/\ Shape /\ call = NoCall /\ todo = << >> /\ ~failed /\ PageInv
        /\ ("gain" \in sound => GainHeld(gain))
        /\ ("exp" \in sound => ExpHeld(exp)))'
  <2>1. call' = NoCall /\ todo' = << >> /\ ~failed'
    BY <1>2, <1>3
  <2>2. QED
    BY <1>7, <1>8, <1>9, <1>10, <2>1
<1>12. QED
  BY <1>11, IdleNext, PTL

\* The calls that begin.
LEMMA BeginSteps ==
    ASSUME GainsFit, IInv, SetExposure \/ SetGain \/ sensor_s_exp_gain
    PROVE  IInv'
<1>1. UNCHANGED <<page, cis, gain, exp, failed, sound>> /\ call = NoCall
  <2>1. SetExposure => UNCHANGED <<page, cis, gain, exp, failed, sound>> /\ call = NoCall
    BY DEF SetExposure, Begin, history
  <2>2. SetGain => UNCHANGED <<page, cis, gain, exp, failed, sound>> /\ call = NoCall
    BY DEF SetGain, Begin, history
  <2>3. sensor_s_exp_gain => UNCHANGED <<page, cis, gain, exp, failed, sound>> /\ call = NoCall
    BY DEF sensor_s_exp_gain, Begin, history
  <2>4. QED
    BY <2>1, <2>2, <2>3
<1>2. CASE SetExposure
  <2>1. PICK e \in ExpVals : Begin([cmd |-> "exp", exp |-> e], sensor_s_exp(e))
    BY <1>2, Zenon DEF SetExposure
  <2> DEFINE c == [cmd |-> "exp", exp |-> e]
  <2>2. e \in Nat
    BY GcConstants DEF GcConstants
  <2>3. c \in Calls /\ c.cmd = "exp" /\ c.exp = e
    BY <2>2 DEF Calls
  <2>4. call' = c /\ todo' = sensor_s_exp(e)
    BY <2>1 DEF Begin
  <2>5. Script' = sensor_s_exp(e)
    BY <2>3, <2>4 DEF Script
  <2> HIDE DEF c
  <2>6. QED
    BY <1>1, <2>3, <2>4, <2>5, BeginInv
<1>3. CASE SetGain
  <2>1. PICK g \in GainVals : g \in 16..(128 * 16 - 1) /\ Begin([cmd |-> "gain", gain |-> g], setSensorGain(g * 4))
    BY <1>3, Zenon DEF SetGain, GainLimits
  <2> DEFINE c == [cmd |-> "gain", gain |-> g]
  <2>2. g \in Gains
    <3>1. g \in Nat /\ 16 <= g
      BY <2>1
    <3>2. g < 16 * 4 * 7073
      BY DEF GainsFit
    <3>3. QED
      BY <3>1, <3>2 DEF Gains
  <2>3. c \in Calls /\ c.cmd = "gain" /\ c.gain = g
    BY <2>2 DEF Calls
  <2>4. call' = c /\ todo' = setSensorGain(g * 4)
    BY <2>1 DEF Begin
  <2>5. Script' = setSensorGain(g * 4)
    BY <2>3, <2>4 DEF Script
  <2> HIDE DEF c
  <2>6. QED
    BY <1>1, <2>3, <2>4, <2>5, BeginInv
<1>4. CASE sensor_s_exp_gain
  <2>1. PICK e0 \in ExpVals, g0 \in GainVals :
           Begin([cmd |-> "both", exp |-> AtMost20Bits(e0), gain |-> AtLeastOne(g0)],
                 sensor_s_exp(AtMost20Bits(e0))
                 \o IF AtLeastOne(g0) = gain THEN << >> ELSE setSensorGain(AtLeastOne(g0) * 4))
    BY <1>4, Zenon DEF sensor_s_exp_gain
  <2> DEFINE e == AtMost20Bits(e0)
             g == AtLeastOne(g0)
             c == [cmd |-> "both", exp |-> e, gain |-> g]
  <2>2. e \in Nat
    <3>1. e0 \in Nat
      BY GcConstants DEF GcConstants
    <3>2. QED
      BY <3>1 DEF AtMost20Bits
  <2>3. g \in Gains
    <3>1. g0 \in Nat /\ g0 < 16 * 4 * 7073
      BY GcConstants DEF GcConstants, GainsFit
    <3>2. QED
      BY <3>1 DEF AtLeastOne, Gains
  <2> HIDE DEF e, g
  <2>4. c \in Calls /\ c.cmd = "both" /\ c.exp = e /\ c.gain = g
    BY <2>2, <2>3 DEF Calls
  <2>5. call' = c /\ todo' = sensor_s_exp(e) \o IF g = gain THEN << >> ELSE setSensorGain(g * 4)
    BY <2>1 DEF Begin, e, g
  <2>6. Script' = sensor_s_exp(e) \o IF g = gain THEN << >> ELSE setSensorGain(g * 4)
    BY <1>1, <2>4, <2>5 DEF Script
  <2> HIDE DEF c
  <2>7. QED
    BY <1>1, <2>4, <2>5, <2>6, BeginInv
<1>5. QED
  BY <1>2, <1>3, <1>4

\* A stream start begins.
LEMMA StreamBegins ==
    ASSUME IInv, sensor_s_stream
    PROVE  IInv'
<1>1. PICK w \in DOMAIN sensor_win_sizes : Begin([cmd |-> "stream"], sensor_win_sizes[w])
  BY DEF sensor_s_stream
<1>2. call = NoCall /\ call' = [cmd |-> "stream"] /\ todo' = sensor_win_sizes[w] /\ sound' = {}
      /\ UNCHANGED <<page, cis, gain, exp, failed>>
  BY <1>1 DEF sensor_s_stream, Begin
<1>3. sensor_win_sizes[w] \in {Walk(240), Walk(128)}
  BY DEF sensor_win_sizes, sensor_1080p20_regs, sensor_1080p30_regs, sensor_1080p27_5_regs,
         sensor_1080p25_regs
<1>4. /\ todo' \in Seq(Ops) /\ todo' # << >>
      /\ todo'[Len(todo')] = Page(0)
  <2>1. \A r \in {240, 128} : /\ Walk(r) \in Seq(Ops) /\ Walk(r) # << >>
                             /\ Walk(r)[Len(Walk(r))] = Page(0)
    BY WalkEnd
  <2>2. PICK r \in {240, 128} : todo' = Walk(r)
    BY <1>2, <1>3, Zenon
  <2>3. QED
    BY <2>1, <2>2, Zenon
<1>5. Shape'
  <2>1. call' \in Calls
    BY <1>2 DEF Calls
  <2>2. QED
    BY <1>2, <2>1 DEF IInv, Shape
<1>6. Streams'
  BY <1>2 DEF Streams
<1>7. (/\ Shape /\ Streams /\ todo \in Seq(Ops)
       /\ (todo # << >> => todo[Len(todo)] = Page(0))
       /\ (todo = << >> /\ ~failed => page = 0))'
  <2>1. (todo[Len(todo)] = Page(0))'
    BY <1>4 DEF Page
  <2>2. QED
    BY <1>4, <1>5, <1>6, <2>1
<1>8. QED
  BY <1>7, StreamInvNext, PTL

LEMMA StepsInv ==
    ASSUME GainsFit, IInv, [Next]_vars
    PROVE  IInv'
<1>1. CASE sensor_init \/ sensor_power \/ sensor_reset
  BY <1>1, IdleSteps
<1>2. CASE sensor_s_stream
  BY <1>2, StreamBegins
<1>3. CASE SetExposure \/ SetGain \/ sensor_s_exp_gain
  BY <1>3, BeginSteps
<1>4. CASE Step
  BY <1>4, StepInv
<1>5. CASE Return
  BY <1>5, ReturnInv
<1>6. CASE UNCHANGED vars
  <2>1. UNCHANGED <<page, cis, gain, exp, call, todo, failed, sound>>
    BY <1>6 DEF vars, history
  <2>2. SetsGain' = SetsGain /\ SetsExp' = SetsExp /\ GainOps' = GainOps /\ Script' = Script
    BY <2>1, SameCall
  <2>3. Shape' /\ PageInv'
    BY <2>1 DEF IInv, Shape, PageInv
  <2>4. Path'
    BY <2>1, <2>2 DEF IInv, Path, EndOf, FromEnd
  <2>5. GainInv'
    BY <2>1, <2>2 DEF IInv, GainInv, GainHeld, GainWritten
  <2>6. ExpInv'
    BY <2>1, <2>2 DEF IInv, ExpInv, ExpHeld, ExpWritten
  <2>7. QED
    BY <2>3, <2>4, <2>5, <2>6 DEF IInv
<1>7. QED
  BY <1>1, <1>2, <1>3, <1>4, <1>5, <1>6 DEF Next

-----------------------------------------------------------------------------
(* The theorems.  A gain of 64 times 7073 or more, in 1/16, has a digital  *)
(* part of more than 0xb1 holds: sensor_s_exp_gain takes it all the same.  *)

\* What the driver remembers, the script it is walking and the registers written so far
\* agree, whatever transfers fail.
THEOREM Safety == GainsFit => (Spec => []IInv)
<1> SUFFICES ASSUME GainsFit
             PROVE  Spec => []IInv
  OBVIOUS
<1>1. Init => IInv
  BY InitInv
<1>2. IInv /\ [Next]_vars => IInv'
  BY StepsInv
<1>3. QED
  BY <1>1, <1>2, PTL DEF Spec

\* sensor_s_gain: the sensor runs with the gain the driver remembers, its four analog
\* registers from one entry of the table.
THEOREM GainIsRealised == GainsFit => (Spec => []GainRealised)
<1> SUFFICES ASSUME GainsFit
             PROVE  Spec => []GainRealised
  OBVIOUS
<1>1. IInv => GainRealised
  <2> SUFFICES ASSUME IInv, call = NoCall, "gain" \in sound
               PROVE  \E i \in 1..total : /\ \A k \in 1..4 : cis[AnalogRegs[k]] = i
                                          /\ Realises(i, gain * 4)
    BY DEF GainRealised
  <2>1. ~SetsGain
    BY DEF SetsGain, NoCall
  <2>2. GainHeld(gain)
    BY <2>1 DEF IInv, GainInv
  <2>3. QED
    BY <2>2, HeldIsRealised
<1>2. Spec => []IInv
  BY Safety
<1>3. QED
  BY <1>1, <1>2, PTL

\* sensor_s_exp: the exposure arrives though the call selects no page, because every call
\* that ends without a failure leaves page 0.
THEOREM ExposureIsRealised == GainsFit => (Spec => []ExposureRealised)
<1> SUFFICES ASSUME GainsFit
             PROVE  Spec => []ExposureRealised
  OBVIOUS
<1>1. IInv => ExposureRealised
  <2> SUFFICES ASSUME IInv, call = NoCall, "exp" \in sound, exp < 65536 * 16
               PROVE  cis["03"] * 256 + cis["04"] = exp \div 16
    BY DEF ExposureRealised
  <2>1. ~SetsExp
    BY DEF SetsExp, NoCall
  <2>2. ExpHeld(exp) /\ exp \in Nat
    BY <2>1 DEF IInv, ExpInv, Shape
  <2>3. QED
    BY <2>2, HeldIsExposed
<1>2. Spec => []IInv
  BY Safety
<1>3. QED
  BY <1>1, <1>2, PTL
=============================================================================
