---------------------------- MODULE Tp2854_proofs ----------------------------
(***************************************************************************)
(* Proofs about Tp2854 for any users, picture registers, pictures and      *)
(* modes, with failing transfers or without, under what the runs assume as *)
(* well: of two calls that run together both are resolution queries.       *)
(*                                                                         *)
(* The mutex lets one query run at a time, so one call is under way at     *)
(* most (Alone), and what is left of it is the end of its script (Path).   *)
(* The other parts of the invariant say, for each kind of call, what its   *)
(* finished transfers have done when n are left.                           *)
(***************************************************************************)
EXTENDS Tp2854, TLAPS

InCall(u) == call[u] # NoCall
Left(u)   == Len(todo[u])
Sound(u)  == u \notin failed

\* What a script is made of.
PutRegs == {"10", "11", "12", "13", "14", "23"}
Ops ==
    [op : {"page"}, page : Pages]
    \cup [op : {"put"}, reg : PutRegs, val : Nat]
    \cup [op : {"adjust"}, chn : Channels, reg : Registers, val : Nat]
    \cup [op : {"remember"}, pic : Pictures]
    \cup [op : {"id", "read", "fetch"}]
    \cup [op : {"image"}, reg : Registers]
    \cup [op : {"loss", "format"}, chn : Channels]
    \cup [op : {"system"}, set : SUBSET Channels]
    \cup [op : {"store"}, on : SUBSET Channels, off : SUBSET Channels]

\* The operation of s with which n are left to do.
FromEnd(s, n) == s[Len(s) - n + 1]

\* t is the end of s.
EndOf(t, s) ==
    /\ t \in Seq(Ops) /\ Len(t) <= Len(s)
    /\ \A n \in 1..Len(t) : FromEnd(t, n) = FromEnd(s, n)

Shape ==
    /\ page \in Pages
    /\ image \in [Channels -> [Registers -> Nat]]
    /\ DOMAIN mipi = MipiRegs
    /\ signal \in [Channels -> Nat]
    /\ shadow \in [Channels -> [Registers -> Nat]]
    /\ call \in [Users -> Requests \cup {NoCall}]
    /\ DOMAIN todo = Users
    /\ reply \in [Users -> Seq(Nat)]
    /\ DOMAIN tmp = Users
    /\ changed \in [Users -> SUBSET Registers]
    /\ DOMAIN due = Users /\ \A u \in Users : DOMAIN due[u] = Channels
    /\ DOMAIN wanted = Channels /\ \A c \in Channels : DOMAIN wanted[c] = Registers

\* The mutex, and the discipline of the application.
Alone ==
    /\ \A u, v \in Users : InCall(u) /\ InCall(v) => u = v
    /\ \A u \in Users : InCall(u) /\ call[u].cmd = "resolution" => mutex = u

Path ==
    /\ \A u \in Users : InCall(u) => EndOf(todo[u], Script(call[u]))
    /\ \A u \in Users : ~InCall(u) => todo[u] = << >> /\ reply[u] = << >> /\ Sound(u)
    /\ \A u \in Users : ~(InCall(u) /\ call[u].cmd = "image") => changed[u] = {}

\* set_image of one channel: the copy has what it had to have, or what was written; a
\* copy that has the new value of a changed register has it because it was written.
DrawsOne(u) == InCall(u) /\ call[u].cmd = "image" /\ call[u].chn \in Channels
OnePicture(u) ==
    LET c == call[u].chn  pic == call[u].pic
    IN  /\ \A r \in Registers \ changed[u] : shadow[c][r] = pic[r]
        /\ \A r \in changed[u] : wanted[c][r] = Unknown
        /\ \A k \in 1..Len(ImageRegs) :
             k <= Len(ImageRegs) - Left(u) => shadow[c][ImageRegs[k]] = pic[ImageRegs[k]]
        /\ Sound(u) =>
             /\ Left(u) <= Len(ImageRegs) => page = c
             /\ \A r \in changed[u] : shadow[c][r] = pic[r] => image[c][r] = Byte(pic[r])

\* set_image of all channels, which writes the first.
DrawsAll(u) == InCall(u) /\ call[u].cmd = "image" /\ call[u].chn = All
AllPictures(u) ==
    LET pic == call[u].pic
    IN  /\ \A r \in Registers : wanted[0][r] = Unknown
        /\ Sound(u) =>
             /\ Left(u) <= Len(ImageRegs) + 1 => page = 0
             /\ \A k \in 1..Len(ImageRegs) :
                  k <= Len(ImageRegs) - Left(u) => image[0][ImageRegs[k]] = Byte(pic[ImageRegs[k]])

Drawing ==
    \A u \in Users :
        /\ DrawsOne(u) => OnePicture(u)
        /\ DrawsAll(u) => AllPictures(u)
        /\ InCall(u) /\ call[u].cmd = "image" /\ call[u].chn = N => changed[u] = {}

\* A change of the mode with two lanes, which writes the clocks of two channels, and one
\* with four.
HD(u) == call[u].mode \in {"720P25_2LANES", "720P25_4LANES"}
Block(u) ==
    /\ Left(u) <= 8 => page = Mipi
    /\ Left(u) <= 1 => mipi["14"] = Clock(call[u].mode)
    /\ Left(u) = 0  => mipi["23"] = 0
TwoLanes(u) ==
    /\ Left(u) = 22                 => page = Mipi
    /\ Left(u) <= 21 /\ Left(u) # 0 => mipi["23"] # 0
    /\ Left(u) \in 13..16           => page = 0
    /\ Left(u) \in 9..12            => page = 1
    /\ Left(u) <= 14                => (0 \in system <=> HD(u))
    /\ Left(u) = 11                 => (0 \in tmp[u] <=> HD(u))
    /\ Left(u) <= 10                => (1 \in system <=> HD(u))
    /\ Left(u) <= 7               => mipi["10"] = 32
    /\ Left(u) <= 6               => mipi["11"] = 71
    /\ Left(u) <= 5               => mipi["12"] = 84
    /\ Left(u) <= 4               => mipi["13"] = 239
FourLanesRun(u) ==
    /\ Left(u) = 17                 => page = Mipi
    /\ Left(u) <= 16 /\ Left(u) # 0 => mipi["23"] # 0
    /\ Left(u) \in 10..14           => page = N
    /\ Left(u) <= 10                => \A c \in Channels : c \in system <=> HD(u)
    /\ Left(u) = 9                  => page = Mipi
    /\ Left(u) <= 8               => mipi["10"] = 32
    /\ Left(u) <= 7               => mipi["11"] = 71
    /\ Left(u) <= 6               => mipi["12"] = 84
    /\ Left(u) <= 5               => mipi["13"] = 239
    /\ Left(u) <= 2                 => mipi["14"] = Clock(call[u].mode)
TwoLaneModes == {"720P25_2LANES", "1080P25_2LANES"}
Changed(u) ==
    /\ mode = "unknown"
    /\ Sound(u) => /\ Block(u)
                   /\ IF call[u].mode \in TwoLaneModes THEN TwoLanes(u) ELSE FourLanesRun(u)
Changing == \A u \in Users : InCall(u) /\ call[u].cmd = "mode" => Changed(u)

\* The queries: what they have read so far.
Got(u) ==
    /\ Left(u) <= Len(ImageRegs) => /\ page = call[u].chn
                                    /\ Len(reply[u]) = Len(ImageRegs) - Left(u)
    /\ Left(u) > Len(ImageRegs) => Len(reply[u]) = 0
    /\ \A k \in 1..Len(reply[u]) : reply[u][k] = image[call[u].chn][ImageRegs[k]]
Getting == \A u \in Users : InCall(u) /\ call[u].cmd = "get" => (Sound(u) => Got(u))

\* A lost channel is not asked for its format, so one transfer of three is skipped.
Answered(n) == IF n >= 12 THEN 0 ELSE (12 - n) \div 3
Right(u, c) == reply[u][c + 1] \in due[u][c]
Asked(u) ==
    /\ Len(reply[u]) = Answered(Left(u))
    /\ Left(u) \in {11, 10, 8, 7, 5, 4, 2, 1} => page = Answered(Left(u))
    /\ Left(u) \in {10, 7, 4, 1} => due[u][Answered(Left(u))] = {}
    /\ \A c \in Channels : c < Answered(Left(u)) => Right(u, c)
Asking ==
    \A u \in Users : InCall(u) /\ call[u].cmd = "resolution" => (Sound(u) => Asked(u))

IInv ==
    /\ Shape /\ Alone /\ Path
    /\ PictureShown /\ ModeInEffect
    /\ Drawing /\ Changing /\ Getting /\ Asking

-----------------------------------------------------------------------------
(* Sequences, counted from their end. *)

LEMMA CatEnd ==
    ASSUME NEW s \in Seq(Ops), NEW t \in Seq(Ops)
    PROVE  /\ s \o t \in Seq(Ops)
           /\ Len(s \o t) = Len(s) + Len(t)
           /\ \A n \in 1..Len(t) : FromEnd(s \o t, n) = FromEnd(t, n)
           /\ \A n \in (Len(t) + 1)..(Len(s) + Len(t)) :
                FromEnd(s \o t, n) = FromEnd(s, n - Len(t))
<1>1. s \o t \in Seq(Ops) /\ Len(s \o t) = Len(s) + Len(t) /\ Len(s) \in Nat /\ Len(t) \in Nat
  OBVIOUS
<1>2. ASSUME NEW n \in 1..Len(t) PROVE FromEnd(s \o t, n) = FromEnd(t, n)
  <2>1. Len(s) + Len(t) - n + 1 \in (Len(s) + 1)..(Len(s) + Len(t))
    BY <1>1
  <2>2. (s \o t)[Len(s) + Len(t) - n + 1] = t[Len(s) + Len(t) - n + 1 - Len(s)]
    BY <1>1, <2>1
  <2>3. Len(s) + Len(t) - n + 1 - Len(s) = Len(t) - n + 1
    BY <1>1
  <2>4. QED
    BY <1>1, <2>2, <2>3 DEF FromEnd
<1>3. ASSUME NEW n \in (Len(t) + 1)..(Len(s) + Len(t))
      PROVE  FromEnd(s \o t, n) = FromEnd(s, n - Len(t))
  <2>1. Len(s) + Len(t) - n + 1 \in 1..Len(s)
    BY <1>1
  <2>2. (s \o t)[Len(s) + Len(t) - n + 1] = s[Len(s) + Len(t) - n + 1]
    BY <1>1, <2>1
  <2>3. Len(s) - (n - Len(t)) + 1 = Len(s) + Len(t) - n + 1
    BY <1>1
  <2>4. QED
    BY <1>1, <2>2, <2>3 DEF FromEnd
<1>4. QED
  BY <1>1, <1>2, <1>3

\* One transfer less is left.
LEMMA TailEnd ==
    ASSUME NEW s \in Seq(Ops), NEW t, EndOf(t, s), t # << >>
    PROVE  /\ Len(t) \in 1..Len(s)
           /\ Head(t) = FromEnd(s, Len(t)) /\ Head(t) \in Ops
           /\ EndOf(Tail(t), s) /\ Len(Tail(t)) = Len(t) - 1
<1>1. t \in Seq(Ops) /\ Len(t) <= Len(s) /\ Len(t) \in Nat /\ Len(s) \in Nat
  BY DEF EndOf
<1>2. Len(t) # 0 /\ Head(t) = t[1] /\ Head(t) \in Ops
  BY <1>1
<1>3. Tail(t) \in Seq(Ops) /\ Len(Tail(t)) = Len(t) - 1
  BY <1>1, <1>2
<1>4. Head(t) = FromEnd(t, Len(t))
  BY <1>1, <1>2 DEF FromEnd
<1>5. FromEnd(t, Len(t)) = FromEnd(s, Len(t))
  BY <1>1, <1>2 DEF EndOf
<1>6. ASSUME NEW n \in 1..(Len(t) - 1) PROVE FromEnd(Tail(t), n) = FromEnd(s, n)
  <2>1. Len(t) - 1 - n + 1 \in 1..(Len(t) - 1)
    BY <1>1, <1>2
  <2>2. Tail(t)[Len(t) - 1 - n + 1] = t[Len(t) - 1 - n + 1 + 1]
    BY <1>1, <1>2, <2>1
  <2>3. Len(t) - 1 - n + 1 + 1 = Len(t) - n + 1
    BY <1>1
  <2>4. FromEnd(Tail(t), n) = FromEnd(t, n)
    BY <1>3, <2>2, <2>3 DEF FromEnd
  <2>5. FromEnd(t, n) = FromEnd(s, n)
    BY <1>1, <1>6 DEF EndOf
  <2>6. QED
    BY <2>4, <2>5
<1>7. QED
  BY <1>1, <1>2, <1>3, <1>4, <1>5, <1>6 DEF EndOf

-----------------------------------------------------------------------------
(* The scripts. *)

LEMMA Regs ==
    /\ ImageRegs \in Seq(Registers)
    /\ Len(ImageRegs) \in Nat /\ DOMAIN ImageRegs = 1..Len(ImageRegs)
    /\ \A k \in 1..Len(ImageRegs) : ImageRegs[k] \in Registers
    /\ \A r \in Registers : \E k \in 1..Len(ImageRegs) : ImageRegs[k] = r
    /\ Registers \subseteq PutRegs /\ "23" \notin Registers
<1>1. ImageRegs \in Seq({"10", "11", "12", "13", "14"})
  BY TpConstants DEF TpConstants
<1>2. Len(ImageRegs) \in Nat /\ DOMAIN ImageRegs = 1..Len(ImageRegs)
  BY <1>1
<1>3. \A k \in 1..Len(ImageRegs) : ImageRegs[k] \in {"10", "11", "12", "13", "14"}
  BY <1>1
<1>4. Registers \subseteq {"10", "11", "12", "13", "14"}
  BY <1>2, <1>3 DEF Registers
<1>5. \A k \in 1..Len(ImageRegs) : ImageRegs[k] \in Registers
  BY <1>2 DEF Registers
<1>6. ImageRegs \in Seq(Registers)
  BY <1>1, <1>2, <1>5
<1>7. \A r \in Registers : \E k \in 1..Len(ImageRegs) : ImageRegs[k] = r
  BY <1>2 DEF Registers
<1>8. Registers \subseteq PutRegs /\ "23" \notin Registers
  BY <1>4 DEF PutRegs
<1>9. QED
  BY <1>2, <1>5, <1>6, <1>7, <1>8

LEMMA PictureVal ==
    ASSUME NEW pic \in Pictures, NEW r \in Registers
    PROVE  pic[r] \in Nat /\ Byte(pic[r]) \in Nat
<1>1. pic \in [Registers -> Nat]
  BY TpConstants DEF TpConstants, Registers
<1>2. pic[r] \in Nat
  BY <1>1
<1>3. QED
  BY <1>2 DEF Byte

LEMMA InOps ==
    /\ \A p \in Pages : Page(p) \in Ops
    /\ \A r \in PutRegs, v \in Nat : Put(r, v) \in Ops
    /\ \A c \in Channels, r \in Registers, v \in Nat : Adjust(c, r, v) \in Ops
    /\ \A pic \in Pictures : Remember(pic) \in Ops
    /\ ReadId \in Ops /\ ReadOther \in Ops /\ ReadSystem \in Ops
    /\ \A r \in Registers : ReadImage(r) \in Ops
    /\ \A c \in Channels : ReadLoss(c) \in Ops /\ ReadFormat(c) \in Ops
    /\ \A S \in SUBSET Channels : WriteSystem(S) \in Ops
    /\ \A S, T \in SUBSET Channels : ChangeSystem(S, T) \in Ops
<1>1. \A p \in Pages : Page(p) \in Ops
  BY DEF Page, Ops
<1>2. \A r \in PutRegs, v \in Nat : Put(r, v) \in Ops
  BY DEF Put, Ops
<1>3. \A c \in Channels, r \in Registers, v \in Nat : Adjust(c, r, v) \in Ops
  BY DEF Adjust, Ops
<1>4. \A pic \in Pictures : Remember(pic) \in Ops
  BY DEF Remember, Ops
<1>5. ReadId \in Ops /\ ReadOther \in Ops /\ ReadSystem \in Ops
  BY DEF ReadId, ReadOther, ReadSystem, Ops
<1>6. /\ \A r \in Registers : ReadImage(r) \in Ops
      /\ \A c \in Channels : ReadLoss(c) \in Ops /\ ReadFormat(c) \in Ops
  BY DEF ReadImage, ReadLoss, ReadFormat, Ops
<1>7. /\ \A S \in SUBSET Channels : WriteSystem(S) \in Ops
      /\ \A S, T \in SUBSET Channels : ChangeSystem(S, T) \in Ops
  BY DEF WriteSystem, ChangeSystem, Ops
<1>8. QED
  BY <1>1, <1>2, <1>3, <1>4, <1>5, <1>6, <1>7

LEMMA PageSet ==
    /\ Channels = {0, 1, 2, 3} /\ N = 4 /\ Mipi = 8 /\ All = 255
    /\ Pages = {0, 1, 2, 3, 4, 8}
  BY DEF Channels, Pages, N, Mipi, All

\* One operation for each register, in their order.
LEMMA Each ==
    ASSUME NEW f, f = [k \in DOMAIN ImageRegs |-> f[k]],
           \A k \in 1..Len(ImageRegs) : f[k] \in Ops
    PROVE  /\ f \in Seq(Ops) /\ Len(f) = Len(ImageRegs)
           /\ \A n \in 1..Len(ImageRegs) : FromEnd(f, n) = f[Len(ImageRegs) - n + 1]
<1>1. f \in [1..Len(ImageRegs) -> Ops]
  BY Regs
<1>2. f \in Seq(Ops) /\ Len(f) = Len(ImageRegs)
  BY <1>1, Regs
<1>3. QED
  BY <1>2 DEF FromEnd

\* A sequence of one or two before another.
LEMMA ConsEnd ==
    ASSUME NEW o \in Ops, NEW t \in Seq(Ops)
    PROVE  /\ <<o>> \o t \in Seq(Ops) /\ Len(<<o>> \o t) = Len(t) + 1
           /\ FromEnd(<<o>> \o t, Len(t) + 1) = o
           /\ \A n \in 1..Len(t) : FromEnd(<<o>> \o t, n) = FromEnd(t, n)
<1>1. <<o>> \in Seq(Ops) /\ Len(<<o>>) = 1 /\ <<o>>[1] = o /\ Len(t) \in Nat
  OBVIOUS
<1>2. /\ <<o>> \o t \in Seq(Ops) /\ Len(<<o>> \o t) = 1 + Len(t)
      /\ \A n \in 1..Len(t) : FromEnd(<<o>> \o t, n) = FromEnd(t, n)
      /\ \A n \in (Len(t) + 1)..(1 + Len(t)) : FromEnd(<<o>> \o t, n) = FromEnd(<<o>>, n - Len(t))
  BY <1>1, CatEnd
<1>3. FromEnd(<<o>> \o t, Len(t) + 1) = FromEnd(<<o>>, 1)
  BY <1>1, <1>2
<1>4. FromEnd(<<o>>, 1) = o
  BY <1>1 DEF FromEnd
<1>5. QED
  BY <1>1, <1>2, <1>3, <1>4

LEMMA OneScript ==
    ASSUME NEW c \in Channels, NEW pic \in Pictures
    PROVE  LET s == tp285x_set_image(c, pic)
               L == Len(ImageRegs)
           IN  /\ s \in Seq(Ops) /\ Len(s) = L + 1
               /\ FromEnd(s, L + 1) = Page(c)
               /\ \A n \in 1..L : FromEnd(s, n) = Adjust(c, ImageRegs[L - n + 1], pic[ImageRegs[L - n + 1]])
<1> DEFINE f == [k \in DOMAIN ImageRegs |-> Adjust(c, ImageRegs[k], pic[ImageRegs[k]])]
           L == Len(ImageRegs)
<1>1. tp285x_set_image(c, pic) = <<Page(c)>> \o f
  BY DEF tp285x_set_image, ForEach
<1>2. \A k \in 1..L : f[k] = Adjust(c, ImageRegs[k], pic[ImageRegs[k]]) /\ f[k] \in Ops
  BY Regs, PictureVal, InOps
<1>3. f = [k \in DOMAIN ImageRegs |-> f[k]]
  OBVIOUS
<1>4. Page(c) \in Ops
  BY InOps, PageSet
<1> HIDE DEF f
<1>5. /\ f \in Seq(Ops) /\ Len(f) = L
      /\ \A n \in 1..L : FromEnd(f, n) = f[L - n + 1]
  BY <1>2, <1>3, Each
<1>6. \A n \in 1..L : L - n + 1 \in 1..L
  BY Regs
<1>7. \A n \in 1..L : FromEnd(f, n) = Adjust(c, ImageRegs[L - n + 1], pic[ImageRegs[L - n + 1]])
  BY <1>2, <1>5, <1>6
<1>8. QED
  BY <1>1, <1>4, <1>5, <1>7, ConsEnd

LEMMA AllScript ==
    ASSUME NEW pic \in Pictures
    PROVE  LET s == tp285x_set_image(All, pic)
               L == Len(ImageRegs)
           IN  /\ s \in Seq(Ops) /\ Len(s) = L + 2
               /\ FromEnd(s, L + 2) = Page(0) /\ FromEnd(s, L + 1) = Remember(pic)
               /\ \A n \in 1..L : FromEnd(s, n) = Put(ImageRegs[L - n + 1], Byte(pic[ImageRegs[L - n + 1]]))
<1> DEFINE f == [k \in DOMAIN ImageRegs |-> Put(ImageRegs[k], Byte(pic[ImageRegs[k]]))]
           L == Len(ImageRegs)
           a == <<Page(0), Remember(pic)>>
<1>1. tp285x_set_image(All, pic) = a \o f
  BY PageSet DEF tp285x_set_image, ForEach
<1>2. \A k \in 1..L : f[k] = Put(ImageRegs[k], Byte(pic[ImageRegs[k]])) /\ f[k] \in Ops
  BY Regs, PictureVal, InOps
<1>3. f = [k \in DOMAIN ImageRegs |-> f[k]]
  OBVIOUS
<1>4. a \in Seq(Ops) /\ Len(a) = 2 /\ FromEnd(a, 1) = Remember(pic) /\ FromEnd(a, 2) = Page(0)
  <2>1. Page(0) \in Ops /\ Remember(pic) \in Ops
    BY InOps, PageSet
  <2>2. QED
    BY <2>1 DEF FromEnd
<1> HIDE DEF f, a
<1>5. /\ f \in Seq(Ops) /\ Len(f) = L
      /\ \A n \in 1..L : FromEnd(f, n) = f[L - n + 1]
  BY <1>2, <1>3, Each
<1>6. L \in Nat /\ \A n \in 1..L : L - n + 1 \in 1..L
  BY Regs
<1>7. /\ a \o f \in Seq(Ops) /\ Len(a \o f) = 2 + L
      /\ \A n \in 1..L : FromEnd(a \o f, n) = FromEnd(f, n)
      /\ FromEnd(a \o f, L + 1) = FromEnd(a, 1) /\ FromEnd(a \o f, L + 2) = FromEnd(a, 2)
  <2>1. L + 1 \in (L + 1)..(2 + L) /\ L + 2 \in (L + 1)..(2 + L) /\ L + 1 - L = 1 /\ L + 2 - L = 2
    BY <1>6
  <2>2. /\ a \o f \in Seq(Ops) /\ Len(a \o f) = Len(a) + Len(f)
        /\ \A n \in 1..Len(f) : FromEnd(a \o f, n) = FromEnd(f, n)
        /\ \A n \in (Len(f) + 1)..(Len(a) + Len(f)) : FromEnd(a \o f, n) = FromEnd(a, n - Len(f))
    BY <1>4, <1>5, CatEnd
  <2>3. QED
    BY <1>4, <1>5, <2>1, <2>2
<1>8. \A n \in 1..L : FromEnd(f, n) = Put(ImageRegs[L - n + 1], Byte(pic[ImageRegs[L - n + 1]]))
  BY <1>2, <1>5, <1>6
<1>9. QED
  BY <1>1, <1>4, <1>6, <1>7, <1>8

LEMMA GetScript ==
    ASSUME NEW c \in Channels
    PROVE  LET s == tp285x_get_image(c)
               L == Len(ImageRegs)
           IN  /\ s \in Seq(Ops) /\ Len(s) = L + 1
               /\ FromEnd(s, L + 1) = Page(c)
               /\ \A n \in 1..L : FromEnd(s, n) = ReadImage(ImageRegs[L - n + 1])
<1> DEFINE f == [k \in DOMAIN ImageRegs |-> ReadImage(ImageRegs[k])]
           L == Len(ImageRegs)
<1>1. tp285x_get_image(c) = <<Page(c)>> \o f
  BY DEF tp285x_get_image, ForEach
<1>2. \A k \in 1..L : f[k] = ReadImage(ImageRegs[k]) /\ f[k] \in Ops
  BY Regs, InOps
<1>3. f = [k \in DOMAIN ImageRegs |-> f[k]]
  OBVIOUS
<1>4. Page(c) \in Ops
  BY InOps, PageSet
<1> HIDE DEF f
<1>5. /\ f \in Seq(Ops) /\ Len(f) = L
      /\ \A n \in 1..L : FromEnd(f, n) = f[L - n + 1]
  BY <1>2, <1>3, Each
<1>6. \A n \in 1..L : L - n + 1 \in 1..L
  BY Regs
<1>7. \A n \in 1..L : FromEnd(f, n) = ReadImage(ImageRegs[L - n + 1])
  BY <1>2, <1>5, <1>6
<1>8. QED
  BY <1>1, <1>4, <1>5, <1>7, ConsEnd

LEMMA ResolutionEnd ==
    ASSUME NEW s \in Seq(Ops), NEW c \in Channels
    PROVE  /\ s \o Resolution(c) \in Seq(Ops) /\ Len(s \o Resolution(c)) = Len(s) + 3
           /\ FromEnd(s \o Resolution(c), 3) = Page(c)
           /\ FromEnd(s \o Resolution(c), 2) = ReadLoss(c)
           /\ FromEnd(s \o Resolution(c), 1) = ReadFormat(c)
           /\ \A n \in 1..Len(s) : FromEnd(s \o Resolution(c), n + 3) = FromEnd(s, n)
<1>1. /\ Resolution(c) \in Seq(Ops) /\ Len(Resolution(c)) = 3
      /\ FromEnd(Resolution(c), 3) = Page(c)
      /\ FromEnd(Resolution(c), 2) = ReadLoss(c)
      /\ FromEnd(Resolution(c), 1) = ReadFormat(c)
  <2>1. Page(c) \in Ops /\ ReadLoss(c) \in Ops /\ ReadFormat(c) \in Ops
    BY InOps, PageSet
  <2>2. QED
    BY <2>1 DEF Resolution, FromEnd
<1>2. /\ s \o Resolution(c) \in Seq(Ops) /\ Len(s \o Resolution(c)) = Len(s) + 3
      /\ \A n \in 1..3 : FromEnd(s \o Resolution(c), n) = FromEnd(Resolution(c), n)
      /\ \A n \in 4..(Len(s) + 3) : FromEnd(s \o Resolution(c), n) = FromEnd(s, n - 3)
  <2> DEFINE t == Resolution(c)
  <2>1. /\ s \o t \in Seq(Ops) /\ Len(s \o t) = Len(s) + Len(t)
        /\ \A n \in 1..Len(t) : FromEnd(s \o t, n) = FromEnd(t, n)
        /\ \A n \in (Len(t) + 1)..(Len(s) + Len(t)) : FromEnd(s \o t, n) = FromEnd(s, n - Len(t))
    BY <1>1, CatEnd
  <2>2. Len(t) = 3
    BY <1>1
  <2> HIDE DEF t
  <2>3. /\ s \o t \in Seq(Ops) /\ Len(s \o t) = Len(s) + 3
        /\ \A n \in 1..3 : FromEnd(s \o t, n) = FromEnd(t, n)
        /\ \A n \in 4..(Len(s) + 3) : FromEnd(s \o t, n) = FromEnd(s, n - 3)
    BY <2>1, <2>2
  <2>4. QED
    BY <2>3 DEF t
<1>3. ASSUME NEW n \in 1..Len(s) PROVE FromEnd(s \o Resolution(c), n + 3) = FromEnd(s, n)
  <2>1. n + 3 \in 4..(Len(s) + 3) /\ n + 3 - 3 = n
    OBVIOUS
  <2>2. QED
    BY <1>2, <2>1
<1>4. QED
  BY <1>1, <1>2, <1>3

LEMMA ResolutionScript ==
    LET s == GetCameraResolution
    IN  /\ s \in Seq(Ops) /\ Len(s) = 13
        /\ FromEnd(s, 13) = Page(0)
        /\ \A c \in Channels : /\ FromEnd(s, 12 - 3 * c) = Page(c)
                               /\ FromEnd(s, 11 - 3 * c) = ReadLoss(c)
                               /\ FromEnd(s, 10 - 3 * c) = ReadFormat(c)
<1> DEFINE s0 == <<Page(0)>>
           s1 == s0 \o Resolution(0)
           s2 == s1 \o Resolution(1)
           s3 == s2 \o Resolution(2)
           s4 == s3 \o Resolution(3)
<1>1. s0 \in Seq(Ops) /\ Len(s0) = 1 /\ FromEnd(s0, 1) = Page(0)
  <2>1. Page(0) \in Ops
    BY InOps, PageSet
  <2>2. QED
    BY <2>1 DEF FromEnd
<1>2. s4 = GetCameraResolution
  BY DEF GetCameraResolution
<1> HIDE DEF s0
<1>3. /\ s1 \in Seq(Ops) /\ Len(s1) = 4 /\ FromEnd(s1, 4) = Page(0)
      /\ FromEnd(s1, 3) = Page(0) /\ FromEnd(s1, 2) = ReadLoss(0) /\ FromEnd(s1, 1) = ReadFormat(0)
  <2>1. /\ s1 \in Seq(Ops) /\ Len(s1) = Len(s0) + 3
        /\ FromEnd(s1, 3) = Page(0) /\ FromEnd(s1, 2) = ReadLoss(0) /\ FromEnd(s1, 1) = ReadFormat(0)
        /\ \A n \in 1..Len(s0) : FromEnd(s1, n + 3) = FromEnd(s0, n)
    <3>1. 0 \in Channels
      BY PageSet
    <3>2. QED
      BY <1>1, <3>1, ResolutionEnd
  <2> HIDE DEF s1
  <2>2. /\ FromEnd(s1, 4) = FromEnd(s0, 1)
    <3>1. \A n \in 1..1 : FromEnd(s1, n + 3) = FromEnd(s0, n)
      BY <1>1, <2>1
    <3>2. QED
      BY <3>1
  <2>3. QED
    BY <1>1, <2>1, <2>2
<1> HIDE DEF s1
<1>4. /\ s2 \in Seq(Ops) /\ Len(s2) = 7 /\ FromEnd(s2, 7) = Page(0)
      /\ FromEnd(s2, 6) = Page(0) /\ FromEnd(s2, 5) = ReadLoss(0) /\ FromEnd(s2, 4) = ReadFormat(0)
      /\ FromEnd(s2, 3) = Page(1) /\ FromEnd(s2, 2) = ReadLoss(1) /\ FromEnd(s2, 1) = ReadFormat(1)
  <2>1. /\ s2 \in Seq(Ops) /\ Len(s2) = Len(s1) + 3
        /\ FromEnd(s2, 3) = Page(1) /\ FromEnd(s2, 2) = ReadLoss(1) /\ FromEnd(s2, 1) = ReadFormat(1)
        /\ \A n \in 1..Len(s1) : FromEnd(s2, n + 3) = FromEnd(s1, n)
    <3>1. 1 \in Channels
      BY PageSet
    <3>2. QED
      BY <1>3, <3>1, ResolutionEnd
  <2> HIDE DEF s2
  <2>2. /\ FromEnd(s2, 4) = FromEnd(s1, 1) /\ FromEnd(s2, 5) = FromEnd(s1, 2) /\ FromEnd(s2, 6) = FromEnd(s1, 3)
        /\ FromEnd(s2, 7) = FromEnd(s1, 4)
    <3>1. \A n \in 1..4 : FromEnd(s2, n + 3) = FromEnd(s1, n)
      BY <1>3, <2>1
    <3>2. QED
      BY <3>1
  <2>3. QED
    BY <1>3, <2>1, <2>2
<1> HIDE DEF s2
<1>5. /\ s3 \in Seq(Ops) /\ Len(s3) = 10 /\ FromEnd(s3, 10) = Page(0)
      /\ FromEnd(s3, 9) = Page(0) /\ FromEnd(s3, 8) = ReadLoss(0) /\ FromEnd(s3, 7) = ReadFormat(0)
      /\ FromEnd(s3, 6) = Page(1) /\ FromEnd(s3, 5) = ReadLoss(1) /\ FromEnd(s3, 4) = ReadFormat(1)
      /\ FromEnd(s3, 3) = Page(2) /\ FromEnd(s3, 2) = ReadLoss(2) /\ FromEnd(s3, 1) = ReadFormat(2)
  <2>1. /\ s3 \in Seq(Ops) /\ Len(s3) = Len(s2) + 3
        /\ FromEnd(s3, 3) = Page(2) /\ FromEnd(s3, 2) = ReadLoss(2) /\ FromEnd(s3, 1) = ReadFormat(2)
        /\ \A n \in 1..Len(s2) : FromEnd(s3, n + 3) = FromEnd(s2, n)
    <3>1. 2 \in Channels
      BY PageSet
    <3>2. QED
      BY <1>4, <3>1, ResolutionEnd
  <2> HIDE DEF s3
  <2>2. /\ FromEnd(s3, 4) = FromEnd(s2, 1) /\ FromEnd(s3, 5) = FromEnd(s2, 2) /\ FromEnd(s3, 6) = FromEnd(s2, 3)
        /\ FromEnd(s3, 7) = FromEnd(s2, 4) /\ FromEnd(s3, 8) = FromEnd(s2, 5) /\ FromEnd(s3, 9) = FromEnd(s2, 6)
        /\ FromEnd(s3, 10) = FromEnd(s2, 7)
    <3>1. \A n \in 1..7 : FromEnd(s3, n + 3) = FromEnd(s2, n)
      BY <1>4, <2>1
    <3>2. QED
      BY <3>1
  <2>3. QED
    BY <1>4, <2>1, <2>2
<1> HIDE DEF s3
<1>6. /\ s4 \in Seq(Ops) /\ Len(s4) = 13 /\ FromEnd(s4, 13) = Page(0)
      /\ FromEnd(s4, 12) = Page(0) /\ FromEnd(s4, 11) = ReadLoss(0) /\ FromEnd(s4, 10) = ReadFormat(0)
      /\ FromEnd(s4, 9) = Page(1) /\ FromEnd(s4, 8) = ReadLoss(1) /\ FromEnd(s4, 7) = ReadFormat(1)
      /\ FromEnd(s4, 6) = Page(2) /\ FromEnd(s4, 5) = ReadLoss(2) /\ FromEnd(s4, 4) = ReadFormat(2)
      /\ FromEnd(s4, 3) = Page(3) /\ FromEnd(s4, 2) = ReadLoss(3) /\ FromEnd(s4, 1) = ReadFormat(3)
  <2>1. /\ s4 \in Seq(Ops) /\ Len(s4) = Len(s3) + 3
        /\ FromEnd(s4, 3) = Page(3) /\ FromEnd(s4, 2) = ReadLoss(3) /\ FromEnd(s4, 1) = ReadFormat(3)
        /\ \A n \in 1..Len(s3) : FromEnd(s4, n + 3) = FromEnd(s3, n)
    <3>1. 3 \in Channels
      BY PageSet
    <3>2. QED
      BY <1>5, <3>1, ResolutionEnd
  <2> HIDE DEF s4
  <2>2. /\ FromEnd(s4, 4) = FromEnd(s3, 1) /\ FromEnd(s4, 5) = FromEnd(s3, 2) /\ FromEnd(s4, 6) = FromEnd(s3, 3)
        /\ FromEnd(s4, 7) = FromEnd(s3, 4) /\ FromEnd(s4, 8) = FromEnd(s3, 5) /\ FromEnd(s4, 9) = FromEnd(s3, 6)
        /\ FromEnd(s4, 10) = FromEnd(s3, 7) /\ FromEnd(s4, 11) = FromEnd(s3, 8) /\ FromEnd(s4, 12) = FromEnd(s3, 9)
        /\ FromEnd(s4, 13) = FromEnd(s3, 10)
    <3>1. \A n \in 1..10 : FromEnd(s4, n + 3) = FromEnd(s3, n)
      BY <1>5, <2>1
    <3>2. QED
      BY <3>1
  <2>3. QED
    BY <1>5, <2>1, <2>2
<1> HIDE DEF s4
<1>7. QED
  BY <1>2, <1>6, PageSet

\* The operations of the others, in any order: dumps and raw accesses.

LEMMA RawScript ==
    ASSUME NEW req \in Requests, req.cmd \in {"dump", "proc_dump", "read", "write", "proc"}
    PROVE  /\ Script(req) \in Seq(Ops)
           /\ \A n \in 1..Len(Script(req)) :
                /\ FromEnd(Script(req), n).op \in {"page", "put", "system", "read"}
                /\ FromEnd(Script(req), n).op \in {"put", "system"} => req.cmd \in {"write", "proc"}
<1>1. \A p \in Pages : Page(p) \in Ops /\ Page(p).op = "page"
  BY InOps DEF Page
<1>2. ReadOther \in Ops /\ ReadOther.op = "read"
  BY InOps DEF ReadOther
<1>3. CASE req.cmd \in {"dump", "proc_dump"}
  <2>1. Script(req) = Dump
    BY <1>3 DEF Script, proc_seq_read
  <2>2. Dump \in Seq(Ops) /\ Len(Dump) = 7
    BY <1>1, <1>2, PageSet DEF Dump
  <2>3. \A k \in 1..7 : Dump[k].op \in {"page", "read"}
    BY <1>1, <1>2, PageSet DEF Dump
  <2>4. QED
    BY <1>3, <2>1, <2>2, <2>3 DEF FromEnd
<1>4. ASSUME NEW r \in RawRegs
      PROVE  Raw(r) \in Ops /\ Raw(r).op \in {"put", "system"}
  <2>1. r \in {"10", "11", "12", "13", "14", "23", "f5"}
    BY TpConstants DEF TpConstants
  <2>2. CASE r = "f5"
    BY <2>2, InOps DEF Raw, WriteSystem
  <2>3. CASE r # "f5"
    BY <2>1, <2>3, InOps DEF Raw, Put, PutRegs
  <2>4. QED
    BY <2>2, <2>3
<1>5. ASSUME NEW o \in RawWrites
      PROVE  o \in Ops /\ o.op \in {"page", "put", "system"}
  BY <1>1, <1>4 DEF RawWrites
<1>6. CASE req.cmd = "read"
  <2>1. Script(req) = <<tp2850_set_reg_page(req.ch), ReadOther>>
    BY <1>6 DEF Script
  <2>2. \E p \in Pages : tp2850_set_reg_page(req.ch) = Page(p)
    BY PageSet DEF tp2850_set_reg_page
  <2>3. QED
    BY <1>1, <1>2, <1>6, <2>1, <2>2 DEF FromEnd
<1>7. CASE req.cmd = "write"
  <2>1. Script(req) = <<tp2850_set_reg_page(req.ch), req.write>>
    BY <1>7 DEF Script
  <2>2. \E p \in Pages : tp2850_set_reg_page(req.ch) = Page(p)
    BY PageSet DEF tp2850_set_reg_page
  <2>3. req.write \in Ops /\ req.write.op \in {"page", "put", "system"}
    <3>1. req.write \in RawWrites
      BY <1>7 DEF Requests
    <3>2. QED
      BY <1>5, <3>1
  <2>4. QED
    BY <1>1, <1>7, <2>1, <2>2, <2>3 DEF FromEnd
<1>8. CASE req.cmd = "proc"
  <2>1. Script(req) = <<req.write, ReadOther>>
    BY <1>8 DEF Script
  <2>2. req.write \in Ops /\ req.write.op \in {"page", "put", "system"}
    <3>1. req.write \in RawWrites
      BY <1>8 DEF Requests
    <3>2. QED
      BY <1>5, <3>1
  <2>3. QED
    BY <1>2, <1>8, <2>1, <2>2 DEF FromEnd
<1>9. QED
  BY <1>3, <1>6, <1>7, <1>8

\* Which request has which fields.
LEMMA RequestFields ==
    ASSUME NEW req \in Requests
    PROVE  /\ req.cmd \in {"image", "get", "mode", "resolution", "dump", "proc_dump", "read", "write", "proc"}
           /\ req.cmd = "image" => req.chn \in Channels \cup {All, N} /\ req.pic \in Pictures
           /\ req.cmd = "get" => req.chn \in Channels
           /\ req.cmd = "mode" => req.mode \in Modes
           /\ req # NoCall
<1>1. Adjusted \subseteq Channels
  BY TpConstants, PageSet DEF TpConstants
<1>2. QED
  BY <1>1 DEF Requests, NoCall

-----------------------------------------------------------------------------
(* The scripts of a change of the mode. *)

LEMMA Join ==
    ASSUME NEW s \in Seq(Ops), NEW t \in Seq(Ops)
    PROVE  /\ s \o t \in Seq(Ops) /\ Len(s \o t) = Len(s) + Len(t)
           /\ \A n \in 1..Len(t) : FromEnd(s \o t, n) = FromEnd(t, n)
           /\ \A n \in 1..Len(s) : FromEnd(s \o t, n + Len(t)) = FromEnd(s, n)
<1>1. \A n \in 1..Len(s) : n + Len(t) \in (Len(t) + 1)..(Len(s) + Len(t)) /\ n + Len(t) - Len(t) = n
  OBVIOUS
<1>2. QED
  BY <1>1, CatEnd

HDModes      == {"720P25_2LANES", "720P25_4LANES"}
\* The bits of the channels S that a mode sets and clears.
SetBy(m, S)     == IF m \in HDModes THEN S ELSE {}
ClearedBy(m, S) == IF m \in HDModes THEN {} ELSE S

LEMMA ModeOps ==
    /\ \A p \in Pages : Page(p) \in Ops
    /\ \A r \in MipiRegs, v \in Nat : Put(r, v) \in Ops
    /\ \A v \in Nat : Put("23", v) \in Ops
    /\ ReadId \in Ops /\ ReadSystem \in Ops
    /\ \A S \in SUBSET Channels : WriteSystem(S) \in Ops
    /\ \A S, T \in SUBSET Channels : ChangeSystem(S, T) \in Ops
    /\ \A m : Clock(m) \in Nat /\ Pulse(m) \in Nat
<1>1. /\ \A r \in MipiRegs, v \in Nat : Put(r, v) \in Ops
      /\ \A v \in Nat : Put("23", v) \in Ops
  BY InOps DEF PutRegs, MipiRegs
<1>2. \A m : Clock(m) \in Nat /\ Pulse(m) \in Nat
  BY DEF Clock, Pulse
<1>3. QED
  BY <1>1, <1>2, InOps

LEMMA ResetEnd ==
    LET s == TP285x_reset_default
    IN  /\ s \in Seq(Ops) /\ Len(s) = 3
        /\ FromEnd(s, 3) = Page(Mipi) /\ FromEnd(s, 2) = Put("23", 2) /\ FromEnd(s, 1) = Page(0)
<1>1. Page(Mipi) \in Ops /\ Put("23", 2) \in Ops /\ Page(0) \in Ops
  BY ModeOps, PageSet
<1>2. QED
  BY <1>1 DEF TP285x_reset_default, FromEnd

LEMMA TimingEnd ==
    ASSUME NEW m
    PROVE  LET s == Timing(m)
           IN  /\ s \in Seq(Ops) /\ Len(s) = 7
               /\ FromEnd(s, 7) = Put("10", 32) /\ FromEnd(s, 6) = Put("11", 71)
               /\ FromEnd(s, 5) = Put("12", 84) /\ FromEnd(s, 4) = Put("13", 239)
               /\ FromEnd(s, 3) = Put("14", Clock(m)) /\ FromEnd(s, 2) = Put("14", Pulse(m))
               /\ FromEnd(s, 1) = Put("14", Clock(m))
<1>1. /\ Put("10", 32) \in Ops /\ Put("11", 71) \in Ops /\ Put("12", 84) \in Ops
      /\ Put("13", 239) \in Ops /\ Put("14", Clock(m)) \in Ops /\ Put("14", Pulse(m)) \in Ops
  BY ModeOps DEF MipiRegs
<1>2. QED
  BY <1>1 DEF Timing, FromEnd

LEMMA DecoderEnd ==
    ASSUME NEW m \in TwoLaneModes, NEW c \in Channels
    PROVE  LET s == TP2854_decoder_init(c, m)
           IN  /\ s \in Seq(Ops) /\ Len(s) = 4
               /\ FromEnd(s, 4) = Page(c) /\ FromEnd(s, 3) = ReadSystem
               /\ FromEnd(s, 2) = ChangeSystem(SetBy(m, {c}), ClearedBy(m, {c}))
               /\ FromEnd(s, 1) = Put("23", 60)
<1> DEFINE on  == SetBy(m, {c})
           off == ClearedBy(m, {c})
           t   == <<ReadSystem, ChangeSystem(on, off), Put("23", 60)>>
<1>1. (IF m = "720P25_2LANES" THEN HD25(c) ELSE FHD25(c)) = t
  BY DEF HD25, FHD25, HDModes, TwoLaneModes, SetBy, ClearedBy
<1>2. TP2854_decoder_init(c, m) = <<Page(c)>> \o t
  BY <1>1 DEF TP2854_decoder_init
<1>3. Page(c) \in Ops /\ ReadSystem \in Ops /\ ChangeSystem(on, off) \in Ops /\ Put("23", 60) \in Ops
  <2>1. on \in SUBSET Channels /\ off \in SUBSET Channels
    BY DEF SetBy, ClearedBy
  <2>2. QED
    BY <2>1, ModeOps, PageSet
<1> HIDE DEF on, off
<1>4. /\ t \in Seq(Ops) /\ Len(t) = 3
      /\ FromEnd(t, 3) = ReadSystem /\ FromEnd(t, 2) = ChangeSystem(on, off) /\ FromEnd(t, 1) = Put("23", 60)
  BY <1>3 DEF FromEnd
<1> HIDE DEF t
<1>5. /\ <<Page(c)>> \o t \in Seq(Ops) /\ Len(<<Page(c)>> \o t) = 4
      /\ FromEnd(<<Page(c)>> \o t, 4) = Page(c)
      /\ \A n \in 1..3 : FromEnd(<<Page(c)>> \o t, n) = FromEnd(t, n)
  <2>1. /\ <<Page(c)>> \o t \in Seq(Ops) /\ Len(<<Page(c)>> \o t) = Len(t) + 1
        /\ FromEnd(<<Page(c)>> \o t, Len(t) + 1) = Page(c)
        /\ \A n \in 1..Len(t) : FromEnd(<<Page(c)>> \o t, n) = FromEnd(t, n)
    BY <1>3, <1>4, ConsEnd
  <2>2. QED
    BY <1>4, <2>1
<1>6. QED
  BY <1>2, <1>4, <1>5 DEF on, off

\* The last part of the modes with two lanes.
LEMMA MipiOutEnd ==
    ASSUME NEW m
    PROVE  LET s == TP2854B_mipi_out(m)
           IN  /\ s \in Seq(Ops) /\ Len(s) = 9
               /\ FromEnd(s, 9) = Page(Mipi)
               /\ FromEnd(s, 8) = Put("10", 32) /\ FromEnd(s, 7) = Put("11", 71)
               /\ FromEnd(s, 6) = Put("12", 84) /\ FromEnd(s, 5) = Put("13", 239)
               /\ FromEnd(s, 4) = Put("14", Clock(m))
               /\ FromEnd(s, 3) = Put("14", Pulse(m)) /\ FromEnd(s, 2) = Put("14", Clock(m))
               /\ FromEnd(s, 1) = Put("23", 0)
<1> DEFINE a == <<Page(Mipi)>> \o Timing(m)
           b == <<Put("23", 0)>>
<1>1. TP2854B_mipi_out(m) = a \o b
  BY DEF TP2854B_mipi_out
<1>2. Page(Mipi) \in Ops /\ Put("23", 0) \in Ops
  BY ModeOps, PageSet
<1>3. b \in Seq(Ops) /\ Len(b) = 1 /\ FromEnd(b, 1) = Put("23", 0)
  BY <1>2 DEF FromEnd
<1>4. /\ a \in Seq(Ops) /\ Len(a) = 8
      /\ FromEnd(a, 8) = Page(Mipi)
      /\ \A n \in 1..7 : FromEnd(a, n) = FromEnd(Timing(m), n)
  <2>1. Timing(m) \in Seq(Ops) /\ Len(Timing(m)) = 7
    BY TimingEnd
  <2>2. /\ a \in Seq(Ops) /\ Len(a) = Len(Timing(m)) + 1
        /\ FromEnd(a, Len(Timing(m)) + 1) = Page(Mipi)
        /\ \A n \in 1..Len(Timing(m)) : FromEnd(a, n) = FromEnd(Timing(m), n)
    BY <1>2, <2>1, ConsEnd
  <2> HIDE DEF a
  <2>3. QED
    BY <2>1, <2>2
<1> HIDE DEF a, b
<1>5. /\ a \o b \in Seq(Ops) /\ Len(a \o b) = Len(a) + Len(b)
      /\ \A n \in 1..Len(b) : FromEnd(a \o b, n) = FromEnd(b, n)
      /\ \A n \in 1..Len(a) : FromEnd(a \o b, n + Len(b)) = FromEnd(a, n)
  BY <1>3, <1>4, Join
<1>6. /\ FromEnd(a \o b, 1) = FromEnd(b, 1)
      /\ FromEnd(a \o b, 2) = FromEnd(a, 1) /\ FromEnd(a \o b, 3) = FromEnd(a, 2)
      /\ FromEnd(a \o b, 4) = FromEnd(a, 3) /\ FromEnd(a \o b, 5) = FromEnd(a, 4)
      /\ FromEnd(a \o b, 6) = FromEnd(a, 5) /\ FromEnd(a \o b, 7) = FromEnd(a, 6)
      /\ FromEnd(a \o b, 8) = FromEnd(a, 7) /\ FromEnd(a \o b, 9) = FromEnd(a, 8)
  <2>1. \A n \in 1..8 : FromEnd(a \o b, n + 1) = FromEnd(a, n)
    BY <1>3, <1>4, <1>5
  <2>2. QED
    BY <1>3, <1>5, <2>1
<1>7. QED
  BY <1>1, <1>3, <1>4, <1>5, <1>6, TimingEnd

\* The modes with two lanes.
LEMMA TwoLanesScript ==
    ASSUME NEW m \in TwoLaneModes
    PROVE  LET s == SetVideoMode(m)
           IN  /\ s \in Seq(Ops) /\ Len(s) = 28
               /\ FromEnd(s, 28) = Page(Mipi) /\ FromEnd(s, 27) = Put("23", 2)
               /\ FromEnd(s, 26) = Page(0) /\ FromEnd(s, 25) = Page(0) /\ FromEnd(s, 24) = ReadId
               /\ FromEnd(s, 23) = Page(Mipi) /\ FromEnd(s, 22) = Put("23", 2)
               /\ FromEnd(s, 21) = Page(2) /\ FromEnd(s, 20) = Page(3) /\ FromEnd(s, 19) = Page(0)
               /\ FromEnd(s, 18) = WriteSystem({2, 3}) /\ FromEnd(s, 17) = Page(0)
               /\ FromEnd(s, 16) = ReadSystem
               /\ FromEnd(s, 15) = ChangeSystem(SetBy(m, {0}), ClearedBy(m, {0}))
               /\ FromEnd(s, 14) = Put("23", 60) /\ FromEnd(s, 13) = Page(1)
               /\ FromEnd(s, 12) = ReadSystem
               /\ FromEnd(s, 11) = ChangeSystem(SetBy(m, {1}), ClearedBy(m, {1}))
               /\ FromEnd(s, 10) = Put("23", 60) /\ FromEnd(s, 9) = Page(Mipi)
               /\ FromEnd(s, 8) = Put("10", 32) /\ FromEnd(s, 7) = Put("11", 71)
               /\ FromEnd(s, 6) = Put("12", 84) /\ FromEnd(s, 5) = Put("13", 239)
               /\ FromEnd(s, 4) = Put("14", Clock(m))
               /\ FromEnd(s, 3) = Put("14", Pulse(m)) /\ FromEnd(s, 2) = Put("14", Clock(m))
               /\ FromEnd(s, 1) = Put("23", 0)
<1> DEFINE b  == <<Page(0), ReadId, Page(Mipi), Put("23", 2), Page(2), Page(3), Page(0), WriteSystem({2, 3})>>
           x0 == ChangeSystem(SetBy(m, {0}), ClearedBy(m, {0}))
           x1 == ChangeSystem(SetBy(m, {1}), ClearedBy(m, {1}))
           d0 == TP2854_decoder_init(0, m)
           d1 == TP2854_decoder_init(1, m)
           s0 == TP285x_reset_default
           s1 == s0 \o b
           s2 == s1 \o d0
           s3 == s2 \o d1
           s4 == s3 \o TP2854B_mipi_out(m)
<1>1. SetVideoMode(m) = s4
  BY DEF SetVideoMode, TP2854_common_init, TwoLaneModes
<1>2. /\ s0 \in Seq(Ops) /\ Len(s0) = 3
      /\ FromEnd(s0, 3) = Page(Mipi) /\ FromEnd(s0, 2) = Put("23", 2)
      /\ FromEnd(s0, 1) = Page(0)
  BY ResetEnd
<1>3. /\ b \in Seq(Ops) /\ Len(b) = 8
      /\ FromEnd(b, 8) = Page(0) /\ FromEnd(b, 7) = ReadId /\ FromEnd(b, 6) = Page(Mipi)
      /\ FromEnd(b, 5) = Put("23", 2) /\ FromEnd(b, 4) = Page(2)
      /\ FromEnd(b, 3) = Page(3) /\ FromEnd(b, 2) = Page(0)
      /\ FromEnd(b, 1) = WriteSystem({2, 3})
  <2>1. /\ Page(0) \in Ops /\ Page(2) \in Ops /\ Page(3) \in Ops /\ Page(Mipi) \in Ops
        /\ ReadId \in Ops /\ Put("23", 2) \in Ops /\ WriteSystem({2, 3}) \in Ops
    BY ModeOps, PageSet
  <2>2. QED
    BY <2>1 DEF FromEnd
<1>a. /\ d0 \in Seq(Ops) /\ Len(d0) = 4
       /\ FromEnd(d0, 4) = Page(0) /\ FromEnd(d0, 3) = ReadSystem /\ FromEnd(d0, 2) = x0
       /\ FromEnd(d0, 1) = Put("23", 60)
  <2>1. 0 \in Channels
    BY PageSet
  <2>2. QED
    BY <2>1, DecoderEnd
<1>b. /\ d1 \in Seq(Ops) /\ Len(d1) = 4
       /\ FromEnd(d1, 4) = Page(1) /\ FromEnd(d1, 3) = ReadSystem /\ FromEnd(d1, 2) = x1
       /\ FromEnd(d1, 1) = Put("23", 60)
  <2>1. 1 \in Channels
    BY PageSet
  <2>2. QED
    BY <2>1, DecoderEnd
<1> HIDE DEF s0, b, x0, x1, d0, d1
<1>4. /\ s1 \in Seq(Ops) /\ Len(s1) = 11
      /\ FromEnd(s1, 11) = Page(Mipi) /\ FromEnd(s1, 10) = Put("23", 2)
      /\ FromEnd(s1, 9) = Page(0) /\ FromEnd(s1, 8) = Page(0) /\ FromEnd(s1, 7) = ReadId
      /\ FromEnd(s1, 6) = Page(Mipi) /\ FromEnd(s1, 5) = Put("23", 2)
      /\ FromEnd(s1, 4) = Page(2) /\ FromEnd(s1, 3) = Page(3) /\ FromEnd(s1, 2) = Page(0)
      /\ FromEnd(s1, 1) = WriteSystem({2, 3})
  <2>1. b \in Seq(Ops) /\ Len(b) = 8
    BY <1>3
  <2>2. /\ s1 \in Seq(Ops) /\ Len(s1) = Len(s0) + Len(b)
        /\ \A n \in 1..Len(b) : FromEnd(s1, n) = FromEnd(b, n)
        /\ \A n \in 1..Len(s0) : FromEnd(s1, n + Len(b)) = FromEnd(s0, n)
    BY <1>2, <2>1, Join
  <2> HIDE DEF s1
  <2>3. /\ FromEnd(s1, 9) = FromEnd(s0, 1) /\ FromEnd(s1, 10) = FromEnd(s0, 2) /\ FromEnd(s1, 11) = FromEnd(s0, 3)
    <3>1. \A n \in 1..3 : FromEnd(s1, n + 8) = FromEnd(s0, n)
      BY <1>2, <2>1, <2>2
    <3>2. QED
      BY <3>1
  <2>4. /\ FromEnd(s1, 8) = Page(0) /\ FromEnd(s1, 7) = ReadId
        /\ FromEnd(s1, 6) = Page(Mipi) /\ FromEnd(s1, 5) = Put("23", 2)
        /\ FromEnd(s1, 4) = Page(2) /\ FromEnd(s1, 3) = Page(3) /\ FromEnd(s1, 2) = Page(0)
        /\ FromEnd(s1, 1) = WriteSystem({2, 3})
    BY <2>1, <2>2, <1>3
  <2>5. QED
    BY <1>2, <2>1, <2>2, <2>3, <2>4
<1> HIDE DEF s1
<1>5. /\ s2 \in Seq(Ops) /\ Len(s2) = 15
      /\ FromEnd(s2, 15) = Page(Mipi) /\ FromEnd(s2, 14) = Put("23", 2)
      /\ FromEnd(s2, 13) = Page(0) /\ FromEnd(s2, 12) = Page(0)
      /\ FromEnd(s2, 11) = ReadId /\ FromEnd(s2, 10) = Page(Mipi)
      /\ FromEnd(s2, 9) = Put("23", 2) /\ FromEnd(s2, 8) = Page(2)
      /\ FromEnd(s2, 7) = Page(3) /\ FromEnd(s2, 6) = Page(0)
      /\ FromEnd(s2, 5) = WriteSystem({2, 3}) /\ FromEnd(s2, 4) = Page(0)
      /\ FromEnd(s2, 3) = ReadSystem /\ FromEnd(s2, 2) = x0
      /\ FromEnd(s2, 1) = Put("23", 60)
  <2>1. d0 \in Seq(Ops) /\ Len(d0) = 4
    BY <1>a
  <2>2. /\ s2 \in Seq(Ops) /\ Len(s2) = Len(s1) + Len(d0)
        /\ \A n \in 1..Len(d0) : FromEnd(s2, n) = FromEnd(d0, n)
        /\ \A n \in 1..Len(s1) : FromEnd(s2, n + Len(d0)) = FromEnd(s1, n)
    BY <1>4, <2>1, Join
  <2> HIDE DEF s2
  <2>3. /\ FromEnd(s2, 5) = FromEnd(s1, 1) /\ FromEnd(s2, 6) = FromEnd(s1, 2) /\ FromEnd(s2, 7) = FromEnd(s1, 3)
        /\ FromEnd(s2, 8) = FromEnd(s1, 4) /\ FromEnd(s2, 9) = FromEnd(s1, 5) /\ FromEnd(s2, 10) = FromEnd(s1, 6)
        /\ FromEnd(s2, 11) = FromEnd(s1, 7) /\ FromEnd(s2, 12) = FromEnd(s1, 8) /\ FromEnd(s2, 13) = FromEnd(s1, 9)
        /\ FromEnd(s2, 14) = FromEnd(s1, 10) /\ FromEnd(s2, 15) = FromEnd(s1, 11)
    <3>1. \A n \in 1..11 : FromEnd(s2, n + 4) = FromEnd(s1, n)
      BY <1>4, <2>1, <2>2
    <3>2. QED
      BY <3>1
  <2>4. /\ FromEnd(s2, 4) = Page(0) /\ FromEnd(s2, 3) = ReadSystem /\ FromEnd(s2, 2) = x0
        /\ FromEnd(s2, 1) = Put("23", 60)
    BY <2>1, <2>2, <1>a
  <2>5. QED
    BY <1>4, <2>1, <2>2, <2>3, <2>4
<1> HIDE DEF s2
<1>6. /\ s3 \in Seq(Ops) /\ Len(s3) = 19
      /\ FromEnd(s3, 19) = Page(Mipi) /\ FromEnd(s3, 18) = Put("23", 2)
      /\ FromEnd(s3, 17) = Page(0) /\ FromEnd(s3, 16) = Page(0)
      /\ FromEnd(s3, 15) = ReadId /\ FromEnd(s3, 14) = Page(Mipi)
      /\ FromEnd(s3, 13) = Put("23", 2) /\ FromEnd(s3, 12) = Page(2)
      /\ FromEnd(s3, 11) = Page(3) /\ FromEnd(s3, 10) = Page(0)
      /\ FromEnd(s3, 9) = WriteSystem({2, 3}) /\ FromEnd(s3, 8) = Page(0)
      /\ FromEnd(s3, 7) = ReadSystem /\ FromEnd(s3, 6) = x0
      /\ FromEnd(s3, 5) = Put("23", 60) /\ FromEnd(s3, 4) = Page(1)
      /\ FromEnd(s3, 3) = ReadSystem /\ FromEnd(s3, 2) = x1
      /\ FromEnd(s3, 1) = Put("23", 60)
  <2>1. d1 \in Seq(Ops) /\ Len(d1) = 4
    BY <1>b
  <2>2. /\ s3 \in Seq(Ops) /\ Len(s3) = Len(s2) + Len(d1)
        /\ \A n \in 1..Len(d1) : FromEnd(s3, n) = FromEnd(d1, n)
        /\ \A n \in 1..Len(s2) : FromEnd(s3, n + Len(d1)) = FromEnd(s2, n)
    BY <1>5, <2>1, Join
  <2> HIDE DEF s3
  <2>3. /\ FromEnd(s3, 5) = FromEnd(s2, 1) /\ FromEnd(s3, 6) = FromEnd(s2, 2) /\ FromEnd(s3, 7) = FromEnd(s2, 3)
        /\ FromEnd(s3, 8) = FromEnd(s2, 4) /\ FromEnd(s3, 9) = FromEnd(s2, 5) /\ FromEnd(s3, 10) = FromEnd(s2, 6)
        /\ FromEnd(s3, 11) = FromEnd(s2, 7) /\ FromEnd(s3, 12) = FromEnd(s2, 8) /\ FromEnd(s3, 13) = FromEnd(s2, 9)
        /\ FromEnd(s3, 14) = FromEnd(s2, 10) /\ FromEnd(s3, 15) = FromEnd(s2, 11) /\ FromEnd(s3, 16) = FromEnd(s2, 12)
        /\ FromEnd(s3, 17) = FromEnd(s2, 13) /\ FromEnd(s3, 18) = FromEnd(s2, 14) /\ FromEnd(s3, 19) = FromEnd(s2, 15)
    <3>1. \A n \in 1..15 : FromEnd(s3, n + 4) = FromEnd(s2, n)
      BY <1>5, <2>1, <2>2
    <3>2. QED
      BY <3>1
  <2>4. /\ FromEnd(s3, 4) = Page(1) /\ FromEnd(s3, 3) = ReadSystem /\ FromEnd(s3, 2) = x1
        /\ FromEnd(s3, 1) = Put("23", 60)
    BY <2>1, <2>2, <1>b
  <2>5. QED
    BY <1>5, <2>1, <2>2, <2>3, <2>4
<1> HIDE DEF s3
<1>7. /\ s4 \in Seq(Ops) /\ Len(s4) = 28
      /\ FromEnd(s4, 28) = Page(Mipi) /\ FromEnd(s4, 27) = Put("23", 2)
      /\ FromEnd(s4, 26) = Page(0) /\ FromEnd(s4, 25) = Page(0)
      /\ FromEnd(s4, 24) = ReadId /\ FromEnd(s4, 23) = Page(Mipi)
      /\ FromEnd(s4, 22) = Put("23", 2) /\ FromEnd(s4, 21) = Page(2)
      /\ FromEnd(s4, 20) = Page(3) /\ FromEnd(s4, 19) = Page(0)
      /\ FromEnd(s4, 18) = WriteSystem({2, 3}) /\ FromEnd(s4, 17) = Page(0)
      /\ FromEnd(s4, 16) = ReadSystem /\ FromEnd(s4, 15) = x0
      /\ FromEnd(s4, 14) = Put("23", 60) /\ FromEnd(s4, 13) = Page(1)
      /\ FromEnd(s4, 12) = ReadSystem /\ FromEnd(s4, 11) = x1
      /\ FromEnd(s4, 10) = Put("23", 60) /\ FromEnd(s4, 9) = Page(Mipi)
      /\ FromEnd(s4, 8) = Put("10", 32) /\ FromEnd(s4, 7) = Put("11", 71)
      /\ FromEnd(s4, 6) = Put("12", 84) /\ FromEnd(s4, 5) = Put("13", 239)
      /\ FromEnd(s4, 4) = Put("14", Clock(m))
      /\ FromEnd(s4, 3) = Put("14", Pulse(m)) /\ FromEnd(s4, 2) = Put("14", Clock(m))
      /\ FromEnd(s4, 1) = Put("23", 0)
  <2>1. TP2854B_mipi_out(m) \in Seq(Ops) /\ Len(TP2854B_mipi_out(m)) = 9
    BY MipiOutEnd
  <2>2. /\ s4 \in Seq(Ops) /\ Len(s4) = Len(s3) + Len(TP2854B_mipi_out(m))
        /\ \A n \in 1..Len(TP2854B_mipi_out(m)) : FromEnd(s4, n) = FromEnd(TP2854B_mipi_out(m), n)
        /\ \A n \in 1..Len(s3) : FromEnd(s4, n + Len(TP2854B_mipi_out(m))) = FromEnd(s3, n)
    BY <1>6, <2>1, Join
  <2> HIDE DEF s4
  <2>3. /\ FromEnd(s4, 10) = FromEnd(s3, 1) /\ FromEnd(s4, 11) = FromEnd(s3, 2) /\ FromEnd(s4, 12) = FromEnd(s3, 3)
        /\ FromEnd(s4, 13) = FromEnd(s3, 4) /\ FromEnd(s4, 14) = FromEnd(s3, 5) /\ FromEnd(s4, 15) = FromEnd(s3, 6)
        /\ FromEnd(s4, 16) = FromEnd(s3, 7) /\ FromEnd(s4, 17) = FromEnd(s3, 8) /\ FromEnd(s4, 18) = FromEnd(s3, 9)
        /\ FromEnd(s4, 19) = FromEnd(s3, 10) /\ FromEnd(s4, 20) = FromEnd(s3, 11) /\ FromEnd(s4, 21) = FromEnd(s3, 12)
        /\ FromEnd(s4, 22) = FromEnd(s3, 13) /\ FromEnd(s4, 23) = FromEnd(s3, 14) /\ FromEnd(s4, 24) = FromEnd(s3, 15)
        /\ FromEnd(s4, 25) = FromEnd(s3, 16) /\ FromEnd(s4, 26) = FromEnd(s3, 17) /\ FromEnd(s4, 27) = FromEnd(s3, 18)
        /\ FromEnd(s4, 28) = FromEnd(s3, 19)
    <3>1. \A n \in 1..19 : FromEnd(s4, n + 9) = FromEnd(s3, n)
      BY <1>6, <2>1, <2>2
    <3>2. QED
      BY <3>1
  <2>4. /\ FromEnd(s4, 9) = Page(Mipi) /\ FromEnd(s4, 8) = Put("10", 32)
        /\ FromEnd(s4, 7) = Put("11", 71) /\ FromEnd(s4, 6) = Put("12", 84) /\ FromEnd(s4, 5) = Put("13", 239)
        /\ FromEnd(s4, 4) = Put("14", Clock(m)) /\ FromEnd(s4, 3) = Put("14", Pulse(m))
        /\ FromEnd(s4, 2) = Put("14", Clock(m)) /\ FromEnd(s4, 1) = Put("23", 0)
    BY <2>1, <2>2, MipiOutEnd
  <2>5. QED
    BY <1>6, <2>1, <2>2, <2>3, <2>4
<1> HIDE DEF s4
<1>8. QED
  BY <1>1, <1>7 DEF x0, x1

\* The modes with four lanes.
LEMMA FourLanesScript ==
    ASSUME NEW m, m \notin TwoLaneModes
    PROVE  LET s == SetVideoMode(m)
           IN  /\ s \in Seq(Ops) /\ Len(s) = 18
               /\ FromEnd(s, 18) = Page(Mipi) /\ FromEnd(s, 17) = Put("23", 2)
               /\ FromEnd(s, 16) = Page(0) /\ FromEnd(s, 15) = Page(N)
               /\ FromEnd(s, 14) = WriteSystem({}) /\ FromEnd(s, 13) = Put("23", 60)
               /\ FromEnd(s, 12) = ReadSystem
               /\ FromEnd(s, 11) = ChangeSystem(SetBy(m, Channels), ClearedBy(m, Channels))
               /\ FromEnd(s, 10) = Page(Mipi) /\ FromEnd(s, 9) = Put("10", 32)
               /\ FromEnd(s, 8) = Put("11", 71) /\ FromEnd(s, 7) = Put("12", 84)
               /\ FromEnd(s, 6) = Put("13", 239)
               /\ FromEnd(s, 5) = Put("14", Clock(m)) /\ FromEnd(s, 4) = Put("14", Pulse(m))
               /\ FromEnd(s, 3) = Put("14", Clock(m)) /\ FromEnd(s, 2) = Put("23", 2)
               /\ FromEnd(s, 1) = Put("23", 0)
<1> DEFINE v  == Video(m)
           p  == <<Page(Mipi)>>
           e  == <<Put("23", 2), Put("23", 0)>>
           s0 == TP285x_reset_default
           s1 == s0 \o v
           s2 == s1 \o p
           s3 == s2 \o Timing(m)
           s4 == s3 \o e
<1>1. SetVideoMode(m) = s4
  BY DEF SetVideoMode, FourLanes, TwoLaneModes
<1>2. /\ s0 \in Seq(Ops) /\ Len(s0) = 3
      /\ FromEnd(s0, 3) = Page(Mipi) /\ FromEnd(s0, 2) = Put("23", 2)
      /\ FromEnd(s0, 1) = Page(0)
  BY ResetEnd
<1>3. /\ v \in Seq(Ops) /\ Len(v) = 5
      /\ FromEnd(v, 5) = Page(N) /\ FromEnd(v, 4) = WriteSystem({})
      /\ FromEnd(v, 3) = Put("23", 60) /\ FromEnd(v, 2) = ReadSystem
      /\ FromEnd(v, 1) = ChangeSystem(SetBy(m, Channels), ClearedBy(m, Channels))
  <2> DEFINE on  == SetBy(m, Channels)
             off == ClearedBy(m, Channels)
  <2>1. v = <<Page(N), WriteSystem({}), Put("23", 60), ReadSystem, ChangeSystem(on, off)>>
    BY DEF Video, Video720P, Video1080P, HDModes, TwoLaneModes, SetBy, ClearedBy
  <2>2. /\ Page(N) \in Ops /\ WriteSystem({}) \in Ops /\ Put("23", 60) \in Ops
        /\ ReadSystem \in Ops /\ ChangeSystem(on, off) \in Ops
    <3>1. on \in SUBSET Channels /\ off \in SUBSET Channels
      BY DEF SetBy, ClearedBy
    <3>2. QED
      BY <3>1, ModeOps, PageSet
  <2> HIDE DEF on, off, v
  <2>3. /\ v \in Seq(Ops) /\ Len(v) = 5
        /\ FromEnd(v, 5) = Page(N) /\ FromEnd(v, 4) = WriteSystem({}) /\ FromEnd(v, 3) = Put("23", 60)
        /\ FromEnd(v, 2) = ReadSystem /\ FromEnd(v, 1) = ChangeSystem(on, off)
    BY <2>1, <2>2 DEF FromEnd
  <2>4. QED
    BY <2>3 DEF on, off
<1>4. p \in Seq(Ops) /\ Len(p) = 1 /\ FromEnd(p, 1) = Page(Mipi)
  <2>1. Page(Mipi) \in Ops
    BY ModeOps, PageSet
  <2>2. QED
    BY <2>1 DEF FromEnd
<1>5. e \in Seq(Ops) /\ Len(e) = 2 /\ FromEnd(e, 2) = Put("23", 2) /\ FromEnd(e, 1) = Put("23", 0)
  <2>1. Put("23", 2) \in Ops /\ Put("23", 0) \in Ops
    BY ModeOps
  <2>2. QED
    BY <2>1 DEF FromEnd
<1> HIDE DEF s0, v, p, e
<1>6. /\ s1 \in Seq(Ops) /\ Len(s1) = 8
      /\ FromEnd(s1, 8) = Page(Mipi) /\ FromEnd(s1, 7) = Put("23", 2)
      /\ FromEnd(s1, 6) = Page(0) /\ FromEnd(s1, 5) = Page(N)
      /\ FromEnd(s1, 4) = WriteSystem({}) /\ FromEnd(s1, 3) = Put("23", 60)
      /\ FromEnd(s1, 2) = ReadSystem
      /\ FromEnd(s1, 1) = ChangeSystem(SetBy(m, Channels), ClearedBy(m, Channels))
  <2>1. v \in Seq(Ops) /\ Len(v) = 5
    BY <1>3
  <2>2. /\ s1 \in Seq(Ops) /\ Len(s1) = Len(s0) + Len(v)
        /\ \A n \in 1..Len(v) : FromEnd(s1, n) = FromEnd(v, n)
        /\ \A n \in 1..Len(s0) : FromEnd(s1, n + Len(v)) = FromEnd(s0, n)
    BY <1>2, <2>1, Join
  <2> HIDE DEF s1
  <2>3. /\ FromEnd(s1, 6) = FromEnd(s0, 1) /\ FromEnd(s1, 7) = FromEnd(s0, 2) /\ FromEnd(s1, 8) = FromEnd(s0, 3)
    <3>1. \A n \in 1..3 : FromEnd(s1, n + 5) = FromEnd(s0, n)
      BY <1>2, <2>1, <2>2
    <3>2. QED
      BY <3>1
  <2>4. /\ FromEnd(s1, 5) = Page(N) /\ FromEnd(s1, 4) = WriteSystem({})
        /\ FromEnd(s1, 3) = Put("23", 60) /\ FromEnd(s1, 2) = ReadSystem
        /\ FromEnd(s1, 1) = ChangeSystem(SetBy(m, Channels), ClearedBy(m, Channels))
    BY <2>1, <2>2, <1>3
  <2>5. QED
    BY <1>2, <2>1, <2>2, <2>3, <2>4
<1> HIDE DEF s1
<1>7. /\ s2 \in Seq(Ops) /\ Len(s2) = 9
      /\ FromEnd(s2, 9) = Page(Mipi) /\ FromEnd(s2, 8) = Put("23", 2)
      /\ FromEnd(s2, 7) = Page(0) /\ FromEnd(s2, 6) = Page(N)
      /\ FromEnd(s2, 5) = WriteSystem({}) /\ FromEnd(s2, 4) = Put("23", 60)
      /\ FromEnd(s2, 3) = ReadSystem
      /\ FromEnd(s2, 2) = ChangeSystem(SetBy(m, Channels), ClearedBy(m, Channels))
      /\ FromEnd(s2, 1) = Page(Mipi)
  <2>1. p \in Seq(Ops) /\ Len(p) = 1
    BY <1>4
  <2>2. /\ s2 \in Seq(Ops) /\ Len(s2) = Len(s1) + Len(p)
        /\ \A n \in 1..Len(p) : FromEnd(s2, n) = FromEnd(p, n)
        /\ \A n \in 1..Len(s1) : FromEnd(s2, n + Len(p)) = FromEnd(s1, n)
    BY <1>6, <2>1, Join
  <2> HIDE DEF s2
  <2>3. /\ FromEnd(s2, 2) = FromEnd(s1, 1) /\ FromEnd(s2, 3) = FromEnd(s1, 2) /\ FromEnd(s2, 4) = FromEnd(s1, 3)
        /\ FromEnd(s2, 5) = FromEnd(s1, 4) /\ FromEnd(s2, 6) = FromEnd(s1, 5) /\ FromEnd(s2, 7) = FromEnd(s1, 6)
        /\ FromEnd(s2, 8) = FromEnd(s1, 7) /\ FromEnd(s2, 9) = FromEnd(s1, 8)
    <3>1. \A n \in 1..8 : FromEnd(s2, n + 1) = FromEnd(s1, n)
      BY <1>6, <2>1, <2>2
    <3>2. QED
      BY <3>1
  <2>4. /\ FromEnd(s2, 1) = Page(Mipi)
    BY <2>1, <2>2, <1>4
  <2>5. QED
    BY <1>6, <2>1, <2>2, <2>3, <2>4
<1> HIDE DEF s2
<1>8. /\ s3 \in Seq(Ops) /\ Len(s3) = 16
      /\ FromEnd(s3, 16) = Page(Mipi) /\ FromEnd(s3, 15) = Put("23", 2)
      /\ FromEnd(s3, 14) = Page(0) /\ FromEnd(s3, 13) = Page(N)
      /\ FromEnd(s3, 12) = WriteSystem({}) /\ FromEnd(s3, 11) = Put("23", 60)
      /\ FromEnd(s3, 10) = ReadSystem
      /\ FromEnd(s3, 9) = ChangeSystem(SetBy(m, Channels), ClearedBy(m, Channels))
      /\ FromEnd(s3, 8) = Page(Mipi) /\ FromEnd(s3, 7) = Put("10", 32)
      /\ FromEnd(s3, 6) = Put("11", 71) /\ FromEnd(s3, 5) = Put("12", 84)
      /\ FromEnd(s3, 4) = Put("13", 239)
      /\ FromEnd(s3, 3) = Put("14", Clock(m)) /\ FromEnd(s3, 2) = Put("14", Pulse(m))
      /\ FromEnd(s3, 1) = Put("14", Clock(m))
  <2>1. Timing(m) \in Seq(Ops) /\ Len(Timing(m)) = 7
    BY TimingEnd
  <2>2. /\ s3 \in Seq(Ops) /\ Len(s3) = Len(s2) + Len(Timing(m))
        /\ \A n \in 1..Len(Timing(m)) : FromEnd(s3, n) = FromEnd(Timing(m), n)
        /\ \A n \in 1..Len(s2) : FromEnd(s3, n + Len(Timing(m))) = FromEnd(s2, n)
    BY <1>7, <2>1, Join
  <2> HIDE DEF s3
  <2>3. /\ FromEnd(s3, 8) = FromEnd(s2, 1) /\ FromEnd(s3, 9) = FromEnd(s2, 2) /\ FromEnd(s3, 10) = FromEnd(s2, 3)
        /\ FromEnd(s3, 11) = FromEnd(s2, 4) /\ FromEnd(s3, 12) = FromEnd(s2, 5) /\ FromEnd(s3, 13) = FromEnd(s2, 6)
        /\ FromEnd(s3, 14) = FromEnd(s2, 7) /\ FromEnd(s3, 15) = FromEnd(s2, 8) /\ FromEnd(s3, 16) = FromEnd(s2, 9)
    <3>1. \A n \in 1..9 : FromEnd(s3, n + 7) = FromEnd(s2, n)
      BY <1>7, <2>1, <2>2
    <3>2. QED
      BY <3>1
  <2>4. /\ FromEnd(s3, 7) = Put("10", 32) /\ FromEnd(s3, 6) = Put("11", 71)
        /\ FromEnd(s3, 5) = Put("12", 84) /\ FromEnd(s3, 4) = Put("13", 239)
        /\ FromEnd(s3, 3) = Put("14", Clock(m))
        /\ FromEnd(s3, 2) = Put("14", Pulse(m)) /\ FromEnd(s3, 1) = Put("14", Clock(m))
    BY <2>1, <2>2, TimingEnd
  <2>5. QED
    BY <1>7, <2>1, <2>2, <2>3, <2>4
<1> HIDE DEF s3
<1>9. /\ s4 \in Seq(Ops) /\ Len(s4) = 18
      /\ FromEnd(s4, 18) = Page(Mipi) /\ FromEnd(s4, 17) = Put("23", 2)
      /\ FromEnd(s4, 16) = Page(0) /\ FromEnd(s4, 15) = Page(N)
      /\ FromEnd(s4, 14) = WriteSystem({}) /\ FromEnd(s4, 13) = Put("23", 60)
      /\ FromEnd(s4, 12) = ReadSystem
      /\ FromEnd(s4, 11) = ChangeSystem(SetBy(m, Channels), ClearedBy(m, Channels))
      /\ FromEnd(s4, 10) = Page(Mipi) /\ FromEnd(s4, 9) = Put("10", 32)
      /\ FromEnd(s4, 8) = Put("11", 71) /\ FromEnd(s4, 7) = Put("12", 84)
      /\ FromEnd(s4, 6) = Put("13", 239)
      /\ FromEnd(s4, 5) = Put("14", Clock(m)) /\ FromEnd(s4, 4) = Put("14", Pulse(m))
      /\ FromEnd(s4, 3) = Put("14", Clock(m)) /\ FromEnd(s4, 2) = Put("23", 2)
      /\ FromEnd(s4, 1) = Put("23", 0)
  <2>1. e \in Seq(Ops) /\ Len(e) = 2
    BY <1>5
  <2>2. /\ s4 \in Seq(Ops) /\ Len(s4) = Len(s3) + Len(e)
        /\ \A n \in 1..Len(e) : FromEnd(s4, n) = FromEnd(e, n)
        /\ \A n \in 1..Len(s3) : FromEnd(s4, n + Len(e)) = FromEnd(s3, n)
    BY <1>8, <2>1, Join
  <2> HIDE DEF s4
  <2>3. /\ FromEnd(s4, 3) = FromEnd(s3, 1) /\ FromEnd(s4, 4) = FromEnd(s3, 2) /\ FromEnd(s4, 5) = FromEnd(s3, 3)
        /\ FromEnd(s4, 6) = FromEnd(s3, 4) /\ FromEnd(s4, 7) = FromEnd(s3, 5) /\ FromEnd(s4, 8) = FromEnd(s3, 6)
        /\ FromEnd(s4, 9) = FromEnd(s3, 7) /\ FromEnd(s4, 10) = FromEnd(s3, 8) /\ FromEnd(s4, 11) = FromEnd(s3, 9)
        /\ FromEnd(s4, 12) = FromEnd(s3, 10) /\ FromEnd(s4, 13) = FromEnd(s3, 11) /\ FromEnd(s4, 14) = FromEnd(s3, 12)
        /\ FromEnd(s4, 15) = FromEnd(s3, 13) /\ FromEnd(s4, 16) = FromEnd(s3, 14) /\ FromEnd(s4, 17) = FromEnd(s3, 15)
        /\ FromEnd(s4, 18) = FromEnd(s3, 16)
    <3>1. Len(e) = 2 /\ Len(s3) = 16
      BY <1>8, <2>1
    <3>2. \A n \in 1..16 : FromEnd(s4, n + 2) = FromEnd(s3, n)
      BY <2>2, <3>1
    <3>3. QED
      BY <3>2
  <2>4. /\ FromEnd(s4, 2) = Put("23", 2) /\ FromEnd(s4, 1) = Put("23", 0)
    BY <2>1, <2>2, <1>5
  <2>5. QED
    BY <1>8, <2>1, <2>2, <2>3, <2>4
<1> HIDE DEF s4
<1>10. QED
  BY <1>1, <1>9

-----------------------------------------------------------------------------
(* What a transfer does. *)

LEMMA ScriptSeq == \A req \in Requests : Script(req) \in Seq(Ops)
<1> SUFFICES ASSUME NEW req \in Requests PROVE Script(req) \in Seq(Ops)
  OBVIOUS
<1>1. CASE req.cmd = "image"
  <2>1. Script(req) = tp285x_set_image(req.chn, req.pic)
    BY <1>1 DEF Script
  <2>2. CASE req.chn \in Channels
    BY <1>1, <2>1, <2>2, OneScript, RequestFields
  <2>3. CASE req.chn = All
    BY <1>1, <2>1, <2>3, AllScript, RequestFields
  <2>4. CASE req.chn = N
    <3>1. tp285x_set_image(req.chn, req.pic) = << >>
      BY <2>4, PageSet DEF tp285x_set_image
    <3>2. QED
      BY <2>1, <3>1
  <2>5. QED
    BY <1>1, <2>2, <2>3, <2>4, RequestFields
<1>2. CASE req.cmd = "get"
  <2>1. Script(req) = tp285x_get_image(req.chn)
    BY <1>2 DEF Script
  <2>2. QED
    BY <1>2, <2>1, GetScript, RequestFields
<1>3. CASE req.cmd = "mode"
  <2>1. Script(req) = SetVideoMode(req.mode)
    BY <1>3 DEF Script
  <2>2. QED
    BY <2>1, TwoLanesScript, FourLanesScript
<1>4. CASE req.cmd = "resolution"
  <2>1. Script(req) = GetCameraResolution
    BY <1>4 DEF Script
  <2>2. QED
    BY <2>1, ResolutionScript
<1>5. CASE req.cmd \in {"dump", "proc_dump", "read", "write", "proc"}
  BY <1>5, RawScript
<1>6. QED
  BY <1>1, <1>2, <1>3, <1>4, <1>5, RequestFields

\* The transfer that comes next.
LEMMA NextTransfer ==
    ASSUME Shape, Path, NEW u \in Users, todo[u] # << >>
    PROVE  /\ InCall(u) /\ call[u] \in Requests
           /\ Left(u) \in 1..Len(Script(call[u])) /\ Left(u) \in Nat /\ Len(Script(call[u])) \in Nat
           /\ Head(todo[u]) = FromEnd(Script(call[u]), Left(u))
           /\ EndOf(Tail(todo[u]), Script(call[u])) /\ Len(Tail(todo[u])) = Left(u) - 1
<1>1. InCall(u) /\ call[u] \in Requests
  BY DEF Path, Shape, InCall
<1>2. Script(call[u]) \in Seq(Ops) /\ EndOf(todo[u], Script(call[u]))
  BY <1>1, ScriptSeq DEF Path
<1>3. QED
  BY <1>1, <1>2, TailEnd DEF Left

\* The transfers, with the variables that none but two of them change each.
LEMMA DoCases ==
    ASSUME NEW u \in Users, Do(u)
    PROVE  LET o == Head(todo[u])
           IN  /\ todo[u] # << >>
               /\ UNCHANGED <<signal, mutex, call, calls, changed>>
               /\ \/ due' = due /\ (DoReadSystem(u, o) \/ DoWriteSystem(u, o))
                  \/ tmp' = tmp /\ (DoReadLoss(u, o) \/ DoReadFormat(u, o))
                  \/ /\ tmp' = tmp /\ due' = due
                     /\ \/ DoPage(u, o) \/ DoPut(u, o) \/ DoAdjust(u, o) \/ DoRemember(u, o)
                        \/ DoReadId(u, o) \/ DoReadImage(u, o) \/ DoReadOther(u, o)
  BY DEF Do

LEMMA PageCases ==
    ASSUME NEW u \in Users, NEW o, DoPage(u, o)
    PROVE  /\ Skip(u) /\ UNCHANGED <<image, mipi, system, wanted, mode, shadow, reply>>
           /\ \/ page' = o.page /\ failed' = failed
              \/ page' = page /\ failed' = failed \cup {u}
  BY DEF DoPage, Fault

LEMMA PutCases ==
    ASSUME NEW u \in Users, NEW o, DoPut(u, o)
    PROVE  /\ Skip(u) /\ UNCHANGED <<shadow, reply>>
           /\ \/ Write(o.reg, o.val) /\ Account(u, o.reg) /\ failed' = failed
              \/ Quiet /\ failed' = failed \cup {u}
  BY DEF DoPut, Fault

LEMMA AdjustCases ==
    ASSUME NEW u \in Users, NEW o, DoAdjust(u, o)
    PROVE  /\ Skip(u) /\ reply' = reply
           /\ \/ /\ shadow[o.chn][o.reg] = o.val
                 /\ Quiet /\ UNCHANGED <<shadow, failed>>
              \/ /\ shadow[o.chn][o.reg] # o.val
                 /\ shadow' = [shadow EXCEPT ![o.chn][o.reg] = o.val]
                 /\ \/ Write(o.reg, Byte(o.val)) /\ Account(u, o.reg) /\ failed' = failed
                    \/ Quiet /\ failed' = failed \cup {u}
  BY DEF DoAdjust, Fault

LEMMA IdCases ==
    ASSUME NEW u \in Users, NEW o, DoReadId(u, o)
    PROVE  /\ Quiet /\ UNCHANGED <<shadow, reply>>
           /\ \/ Skip(u) /\ failed' = failed
              \/ todo' = [todo EXCEPT ![u] = << >>] /\ failed' = failed \cup {u}
  BY DEF DoReadId, Fault

LEMMA ImageCases ==
    ASSUME NEW u \in Users, NEW o, DoReadImage(u, o)
    PROVE  /\ Quiet /\ UNCHANGED shadow /\ Skip(u)
           /\ \/ page \in Channels /\ Answer(u, image[page][o.reg]) /\ failed' = failed
              \/ page \notin Channels /\ Answer(u, 0) /\ failed' = failed
              \/ Answer(u, 0) /\ failed' = failed \cup {u}
  BY DEF DoReadImage, Fault

LEMMA LossCases ==
    ASSUME NEW u \in Users, NEW o, DoReadLoss(u, o)
    PROVE  /\ Quiet /\ UNCHANGED shadow
           /\ due' = [due EXCEPT ![u][o.chn] = IF signal[o.chn] = VideoLoss THEN {VideoLoss} ELSE {}]
           /\ \/ /\ page \in Channels /\ signal[page] = VideoLoss
                 /\ Answer(u, VideoLoss) /\ todo' = [todo EXCEPT ![u] = Tail(Tail(@))]
                 /\ failed' = failed
              \/ /\ ~(page \in Channels /\ signal[page] = VideoLoss)
                 /\ reply' = reply /\ Skip(u) /\ failed' = failed
              \/ reply' = reply /\ Skip(u) /\ failed' = failed \cup {u}
  BY DEF DoReadLoss, Fault

LEMMA FormatCases ==
    ASSUME NEW u \in Users, NEW o, DoReadFormat(u, o)
    PROVE  /\ Quiet /\ UNCHANGED shadow /\ Skip(u)
           /\ due' = [due EXCEPT ![u][o.chn] =
                        IF @ = {VideoLoss} THEN @
                        ELSE IF signal[o.chn] # VideoLoss THEN {signal[o.chn]} ELSE Standards]
           /\ \/ /\ page \in Channels /\ signal[page] # VideoLoss
                 /\ Answer(u, signal[page]) /\ failed' = failed
              \/ /\ ~(page \in Channels /\ signal[page] # VideoLoss)
                 /\ \E v \in Standards : Answer(u, v)
                 /\ failed' = failed
              \/ Answer(u, 0) /\ failed' = failed \cup {u}
<1> DEFINE V(ok) == IF ~ok THEN {0}
                    ELSE IF page \in Channels /\ signal[page] # VideoLoss THEN {signal[page]}
                    ELSE Standards
           D == due' = [due EXCEPT ![u][o.chn] =
                          IF @ = {VideoLoss} THEN @
                          ELSE IF signal[o.chn] # VideoLoss THEN {signal[o.chn]} ELSE Standards]
<1>1. Quiet /\ UNCHANGED shadow /\ Skip(u) /\ D
  BY DEF DoReadFormat
<1> HIDE DEF D
<1>2. PICK ok \in BOOLEAN : Fault(u, ok) /\ \E v \in V(ok) : Answer(u, v)
  BY Zenon DEF DoReadFormat
<1>3. PICK v \in V(ok) : Answer(u, v)
  BY <1>2, Zenon
<1>4. CASE ok
  <2>1. failed' = failed
    BY <1>2, <1>4 DEF Fault
  <2>2. CASE page \in Channels /\ signal[page] # VideoLoss
    <3>1. v = signal[page]
      BY <1>3, <1>4, <2>2
    <3>2. QED
      BY <1>1, <1>3, <2>1, <2>2, <3>1, Zenon DEF D
  <2>3. CASE ~(page \in Channels /\ signal[page] # VideoLoss)
    <3>1. v \in Standards
      BY <1>3, <1>4, <2>3
    <3>2. QED
      BY <1>1, <1>3, <2>1, <2>3, <3>1, Zenon DEF D
  <2>4. QED
    BY <2>2, <2>3
<1>5. CASE ~ok
  <2>1. failed' = failed \cup {u}
    BY <1>2, <1>5 DEF Fault
  <2>2. v = 0
    BY <1>3, <1>5
  <2>3. QED
    BY <1>1, <1>3, <2>1, <2>2, Zenon DEF D
<1>6. QED
  BY <1>4, <1>5 DEF D

LEMMA SystemCases ==
    ASSUME NEW u \in Users, NEW o, DoReadSystem(u, o)
    PROVE  /\ Skip(u) /\ Quiet /\ UNCHANGED <<shadow, reply>>
           /\ \/ /\ tmp' = [tmp EXCEPT ![u] = IF page # Mipi THEN system ELSE {}]
                 /\ failed' = failed
              \/ /\ tmp' = [tmp EXCEPT ![u] = {}]
                 /\ failed' = failed \cup {u}
  BY DEF DoReadSystem, Fault

LEMMA StoreCases ==
    ASSUME NEW u \in Users, NEW o, DoWriteSystem(u, o)
    PROVE  LET new == IF o.op = "system" THEN o.set ELSE (tmp[u] \cup o.on) \ o.off
           IN  /\ Skip(u) /\ UNCHANGED <<page, image, mipi, wanted, shadow, reply>>
               /\ tmp' = [tmp EXCEPT ![u] = {}]
               /\ mode' = mode \/ mode' = "unknown"
               /\ ~Unsound(u) => mode' = mode
               /\ Unsound(u) /\ mode' # "unknown" => system' = system
               /\ \/ system' = (IF page # Mipi THEN new ELSE system) /\ failed' = failed
                  \/ system' = system /\ failed' = failed \cup {u}
  BY DEF DoWriteSystem, Fault

\* The operation decides which.
LEMMA DoByOp ==
    ASSUME NEW u \in Users, Do(u), NEW o, o = Head(todo[u])
    PROVE  /\ o.op = "page" => DoPage(u, o)
           /\ o.op = "put" => DoPut(u, o)
           /\ o.op = "adjust" => DoAdjust(u, o)
           /\ o.op = "remember" => DoRemember(u, o)
           /\ o.op = "id" => DoReadId(u, o)
           /\ o.op = "image" => DoReadImage(u, o)
           /\ o.op = "loss" => DoReadLoss(u, o)
           /\ o.op = "format" => DoReadFormat(u, o)
           /\ o.op = "read" => DoReadOther(u, o)
           /\ o.op = "fetch" => DoReadSystem(u, o)
           /\ o.op \in {"system", "store"} => DoWriteSystem(u, o)
           /\ o.op \notin {"fetch", "system", "store"} => tmp' = tmp
           /\ o.op \notin {"loss", "format"} => due' = due
<1>1. /\ DoPage(u, o) => o.op = "page"
      /\ DoPut(u, o) => o.op = "put"
      /\ DoAdjust(u, o) => o.op = "adjust"
      /\ DoRemember(u, o) => o.op = "remember"
      /\ DoReadId(u, o) => o.op = "id"
      /\ DoReadImage(u, o) => o.op = "image"
  BY DEF DoPage, DoPut, DoAdjust, DoRemember, DoReadId, DoReadImage
<1>2. /\ DoReadLoss(u, o) => o.op = "loss"
      /\ DoReadFormat(u, o) => o.op = "format"
      /\ DoReadOther(u, o) => o.op = "read"
      /\ DoReadSystem(u, o) => o.op = "fetch"
      /\ DoWriteSystem(u, o) => o.op \in {"system", "store"}
  BY DEF DoReadLoss, DoReadFormat, DoReadOther, DoReadSystem, DoWriteSystem
<1>3. \/ due' = due /\ (DoReadSystem(u, o) \/ DoWriteSystem(u, o))
      \/ tmp' = tmp /\ (DoReadLoss(u, o) \/ DoReadFormat(u, o))
      \/ /\ tmp' = tmp /\ due' = due
         /\ \/ DoPage(u, o) \/ DoPut(u, o) \/ DoAdjust(u, o) \/ DoRemember(u, o)
            \/ DoReadId(u, o) \/ DoReadImage(u, o) \/ DoReadOther(u, o)
  BY DoCases
<1>4. QED
  BY <1>1, <1>2, <1>3

LEMMA OpFields ==
    ASSUME NEW o \in Ops
    PROVE  /\ o.op \in {"page", "put", "adjust", "remember", "id", "read", "fetch", "image", "loss",
                        "format", "system", "store"}
           /\ o.op = "page" => o.page \in Pages
           /\ o.op = "put" => o.reg \in PutRegs /\ o.val \in Nat
           /\ o.op = "adjust" => o.chn \in Channels /\ o.reg \in Registers /\ o.val \in Nat
           /\ o.op = "remember" => o.pic \in [Registers -> Nat]
           /\ o.op = "image" => o.reg \in Registers
           /\ o.op \in {"loss", "format"} => o.chn \in Channels
<1>1. Pictures \subseteq [Registers -> Nat]
  BY TpConstants DEF TpConstants, Registers
<1>2. QED
  BY <1>1 DEF Ops

LEMMA SkipLeft ==
    ASSUME Shape, Path, NEW u \in Users, todo[u] # << >>, Skip(u)
    PROVE  /\ DOMAIN todo' = Users /\ \A v \in Users \ {u} : todo'[v] = todo[v]
           /\ todo'[u] = Tail(todo[u]) /\ Left(u)' = Left(u) - 1
<1>1. DOMAIN todo = Users
  BY DEF Shape
<1>2. /\ DOMAIN todo' = Users /\ \A v \in Users \ {u} : todo'[v] = todo[v]
      /\ todo'[u] = Tail(todo[u])
  BY <1>1 DEF Skip
<1>3. Len(Tail(todo[u])) = Left(u) - 1
  BY NextTransfer
<1>4. QED
  BY <1>2, <1>3 DEF Left

LEMMA AnswerLen ==
    ASSUME Shape, NEW u \in Users, NEW v \in Nat, Answer(u, v)
    PROVE  /\ reply' \in [Users -> Seq(Nat)]
           /\ Len(reply'[u]) = Len(reply[u]) + 1
           /\ reply'[u][Len(reply[u]) + 1] = v
           /\ \A k \in 1..Len(reply[u]) : reply'[u][k] = reply[u][k]
           /\ \A w \in Users \ {u} : reply'[w] = reply[w]
<1>1. reply \in [Users -> Seq(Nat)] /\ reply' = [reply EXCEPT ![u] = Append(@, v)]
  BY DEF Shape, Answer
<1>2. reply[u] \in Seq(Nat) /\ reply'[u] = Append(reply[u], v)
  BY <1>1
<1>3. Append(reply[u], v) \in Seq(Nat)
  BY <1>2
<1>4. reply' \in [Users -> Seq(Nat)] /\ \A w \in Users \ {u} : reply'[w] = reply[w]
  BY <1>1, <1>2, <1>3
<1>5. QED
  BY <1>2, <1>4

-----------------------------------------------------------------------------
(* What a write does. *)

LEMMA WriteFacts ==
    ASSUME Shape, NEW r, NEW v \in Nat, Write(r, v)
    PROVE  /\ page' = page /\ system' = system
           /\ image' \in [Channels -> [Registers -> Nat]]
           /\ \A c \in Channels, q \in Registers :
                image'[c][q] = IF c \in Targets /\ q = r THEN v ELSE image[c][q]
           /\ DOMAIN mipi' = MipiRegs
           /\ \A q \in MipiRegs :
                mipi'[q] = IF page = Mipi /\ q = r THEN v ELSE mipi[q]
<1>1. image \in [Channels -> [Registers -> Nat]] /\ DOMAIN mipi = MipiRegs
  BY DEF Shape
<1>2. page' = page /\ system' = system
  BY DEF Write
<1>3. image' = [c \in Channels |-> IF c \in Targets /\ r \in Registers
                                   THEN [image[c] EXCEPT ![r] = v] ELSE image[c]]
  BY DEF Write
<1>4. ASSUME NEW c \in Channels
      PROVE  /\ image'[c] \in [Registers -> Nat]
             /\ \A q \in Registers : image'[c][q] = IF c \in Targets /\ q = r THEN v ELSE image[c][q]
  <2>1. image[c] \in [Registers -> Nat]
    BY <1>1
  <2>2. CASE c \in Targets /\ r \in Registers
    <3>1. image'[c] = [image[c] EXCEPT ![r] = v]
      BY <1>3, <2>2
    <3>2. QED
      BY <2>1, <2>2, <3>1
  <2>3. CASE ~(c \in Targets /\ r \in Registers)
    <3>1. image'[c] = image[c]
      BY <1>3, <2>3
    <3>2. QED
      BY <2>1, <2>3, <3>1
  <2>4. QED
    BY <2>2, <2>3
<1>5. image' \in [Channels -> [Registers -> Nat]]
  <2>1. DOMAIN image' = Channels
    BY <1>3
  <2>2. QED
    BY <1>3, <1>4, <2>1
<1>6. /\ DOMAIN mipi' = MipiRegs
      /\ \A q \in MipiRegs : mipi'[q] = IF page = Mipi /\ q = r THEN v ELSE mipi[q]
  <2>1. mipi' = IF page = Mipi /\ r \in MipiRegs THEN [mipi EXCEPT ![r] = v] ELSE mipi
    BY DEF Write
  <2>2. CASE page = Mipi /\ r \in MipiRegs
    BY <1>1, <2>1, <2>2
  <2>3. CASE ~(page = Mipi /\ r \in MipiRegs)
    BY <1>1, <2>1, <2>3
  <2>4. QED
    BY <2>2, <2>3
<1>7. QED
  BY <1>2, <1>4, <1>5, <1>6

LEMMA AccountFacts ==
    ASSUME Shape, NEW u \in Users, NEW r, Account(u, r)
    PROVE  /\ DOMAIN wanted' = Channels /\ \A c \in Channels : DOMAIN wanted'[c] = Registers
           /\ \A c \in Channels, q \in Registers :
                wanted'[c][q] = IF Unsound(u) /\ c \in Targets /\ q = r
                                THEN Unknown ELSE wanted[c][q]
           /\ mode' = IF Unsound(u) /\ page = Mipi THEN "unknown" ELSE mode
<1> DEFINE hit(c) == Unsound(u) /\ c \in Targets /\ r \in Registers
<1>1. DOMAIN wanted = Channels /\ \A c \in Channels : DOMAIN wanted[c] = Registers
  BY DEF Shape
<1>2. wanted' = [c \in Channels |-> IF hit(c) THEN [wanted[c] EXCEPT ![r] = Unknown] ELSE wanted[c]]
  BY DEF Account
<1>3. ASSUME NEW c \in Channels
      PROVE  /\ DOMAIN wanted'[c] = Registers
             /\ \A q \in Registers :
                  wanted'[c][q] = IF Unsound(u) /\ c \in Targets /\ q = r THEN Unknown ELSE wanted[c][q]
  <2>1. DOMAIN wanted[c] = Registers
    BY <1>1
  <2>2. CASE hit(c)
    <3>1. wanted'[c] = [wanted[c] EXCEPT ![r] = Unknown]
      BY <1>2, <2>2
    <3>2. QED
      BY <2>1, <2>2, <3>1
  <2>3. CASE ~hit(c)
    <3>1. wanted'[c] = wanted[c]
      BY <1>2, <2>3
    <3>2. QED
      BY <2>1, <2>3, <3>1
  <2>4. QED
    BY <2>2, <2>3
<1>4. DOMAIN wanted' = Channels
  BY <1>2
<1>5. mode' = IF Unsound(u) /\ page = Mipi THEN "unknown" ELSE mode
  BY DEF Account
<1>6. QED
  BY <1>3, <1>4, <1>5

\* What the chip must show survives a write that nobody relies on, and a write of what no
\* caller has set.
LEMMA WriteKeeps ==
    ASSUME Shape, PictureShown, ModeInEffect,
           NEW u \in Users, NEW r, NEW v \in Nat, Write(r, v), Account(u, r),
           \/ Unsound(u)
           \/ /\ \A c \in Targets : r \in Registers => wanted[c][r] = Unknown
              /\ page = Mipi => mode = "unknown"
    PROVE  PictureShown' /\ ModeInEffect'
<1>1. ASSUME NEW c \in Channels, NEW q \in Registers, wanted'[c][q] # Unknown
      PROVE  image'[c][q] = Byte(wanted'[c][q])
  <2>1. ~(c \in Targets /\ q = r)
    BY <1>1, AccountFacts
  <2>2. image'[c][q] = image[c][q] /\ wanted'[c][q] = wanted[c][q]
    BY <2>1, AccountFacts, WriteFacts
  <2>3. QED
    BY <1>1, <2>2 DEF PictureShown
<1>2. PictureShown'
  BY <1>1 DEF PictureShown
<1>3. CASE mode' = "unknown"
  BY <1>2, <1>3 DEF ModeInEffect
<1>4. CASE mode' # "unknown"
  <2>1. mode' = mode /\ page # Mipi
    BY <1>4, AccountFacts
  <2>2. system' = system /\ \A q \in MipiRegs : mipi'[q] = mipi[q]
    BY <2>1, WriteFacts
  <2>3. QED
    BY <1>2, <2>1, <2>2 DEF ModeInEffect, MipiRegs
<1>5. QED
  BY <1>3, <1>4

LEMMA QuietKeeps ==
    ASSUME PictureShown, ModeInEffect, UNCHANGED <<image, mipi, system, wanted, mode>>
    PROVE  PictureShown' /\ ModeInEffect'
  BY DEF PictureShown, ModeInEffect

-----------------------------------------------------------------------------
(* Which call does which transfer. *)

LEMMA OpNames ==
    /\ \A p : Page(p).op = "page" /\ Page(p).page = p
    /\ \A r, v : Put(r, v).op = "put" /\ Put(r, v).reg = r /\ Put(r, v).val = v
    /\ \A c, r, v : /\ Adjust(c, r, v).op = "adjust" /\ Adjust(c, r, v).chn = c
                    /\ Adjust(c, r, v).reg = r /\ Adjust(c, r, v).val = v
    /\ \A pic : Remember(pic).op = "remember" /\ Remember(pic).pic = pic
    /\ ReadId.op = "id" /\ ReadOther.op = "read" /\ ReadSystem.op = "fetch"
    /\ \A r : ReadImage(r).op = "image" /\ ReadImage(r).reg = r
    /\ \A c : /\ ReadLoss(c).op = "loss" /\ ReadLoss(c).chn = c
               /\ ReadFormat(c).op = "format" /\ ReadFormat(c).chn = c
    /\ \A S : WriteSystem(S).op = "system" /\ WriteSystem(S).set = S
    /\ \A S, T : /\ ChangeSystem(S, T).op = "store"
                 /\ ChangeSystem(S, T).on = S /\ ChangeSystem(S, T).off = T
  BY DEF Page, Put, Adjust, Remember, ReadId, ReadOther, ReadSystem, ReadImage, ReadLoss, ReadFormat,
         WriteSystem, ChangeSystem

LEMMA OneNext ==
    ASSUME Shape, Path, NEW u \in Users, todo[u] # << >>, DrawsOne(u)
    PROVE  LET c == call[u].chn  pic == call[u].pic  L == Len(ImageRegs)  o == Head(todo[u])
           IN  /\ c \in Channels /\ pic \in Pictures
               /\ L \in Nat /\ Left(u) \in 1..(L + 1)
               /\ Left(u) = L + 1 => o = Page(c)
               /\ Left(u) <= L => o = Adjust(c, ImageRegs[L - Left(u) + 1], pic[ImageRegs[L - Left(u) + 1]])
<1> DEFINE c == call[u].chn
           pic == call[u].pic
           s == tp285x_set_image(c, pic)
<1>1. call[u] \in Requests /\ call[u].cmd = "image" /\ c \in Channels
  BY NextTransfer DEF DrawsOne
<1>2. Script(call[u]) = s /\ pic \in Pictures
  BY <1>1, RequestFields DEF Script
<1>3. Left(u) \in 1..Len(s) /\ Head(todo[u]) = FromEnd(s, Left(u))
  BY <1>2, NextTransfer
<1>4. /\ Len(s) = Len(ImageRegs) + 1 /\ FromEnd(s, Len(ImageRegs) + 1) = Page(c)
      /\ \A n \in 1..Len(ImageRegs) :
           FromEnd(s, n) = Adjust(c, ImageRegs[Len(ImageRegs) - n + 1], pic[ImageRegs[Len(ImageRegs) - n + 1]])
  BY <1>1, <1>2, OneScript
<1> HIDE DEF s
<1>5. Len(ImageRegs) \in Nat /\ Left(u) \in 1..(Len(ImageRegs) + 1)
  BY <1>3, <1>4, Regs
<1>6. Left(u) = Len(ImageRegs) + 1 => Head(todo[u]) = Page(c)
  BY <1>3, <1>4
<1>7. ASSUME Left(u) <= Len(ImageRegs)
      PROVE  Head(todo[u]) = Adjust(c, ImageRegs[Len(ImageRegs) - Left(u) + 1],
                                    pic[ImageRegs[Len(ImageRegs) - Left(u) + 1]])
  <2>1. Left(u) \in 1..Len(ImageRegs)
    BY <1>5, <1>7
  <2>2. QED
    BY <1>3, <1>4, <2>1
<1>8. QED
  BY <1>1, <1>2, <1>5, <1>6, <1>7

LEMMA AllNext ==
    ASSUME Shape, Path, NEW u \in Users, todo[u] # << >>, DrawsAll(u)
    PROVE  LET pic == call[u].pic  L == Len(ImageRegs)  o == Head(todo[u])
           IN  /\ pic \in Pictures /\ L \in Nat /\ Left(u) \in 1..(L + 2)
               /\ Left(u) = L + 2 => o = Page(0)
               /\ Left(u) = L + 1 => o = Remember(pic)
               /\ Left(u) <= L => o = Put(ImageRegs[L - Left(u) + 1], Byte(pic[ImageRegs[L - Left(u) + 1]]))
<1> DEFINE pic == call[u].pic
           s == tp285x_set_image(All, pic)
<1>1. call[u] \in Requests /\ call[u].cmd = "image" /\ call[u].chn = All
  BY NextTransfer DEF DrawsAll
<1>2. Script(call[u]) = s /\ pic \in Pictures
  BY <1>1, RequestFields DEF Script
<1>3. Left(u) \in 1..Len(s) /\ Head(todo[u]) = FromEnd(s, Left(u))
  BY <1>2, NextTransfer
<1>4. /\ Len(s) = Len(ImageRegs) + 2 /\ FromEnd(s, Len(ImageRegs) + 2) = Page(0)
      /\ FromEnd(s, Len(ImageRegs) + 1) = Remember(pic)
      /\ \A n \in 1..Len(ImageRegs) :
           FromEnd(s, n) = Put(ImageRegs[Len(ImageRegs) - n + 1], Byte(pic[ImageRegs[Len(ImageRegs) - n + 1]]))
  BY <1>2, AllScript
<1> HIDE DEF s
<1>5. Len(ImageRegs) \in Nat /\ Left(u) \in 1..(Len(ImageRegs) + 2)
  BY <1>3, <1>4, Regs
<1>6. /\ Left(u) = Len(ImageRegs) + 2 => Head(todo[u]) = Page(0)
      /\ Left(u) = Len(ImageRegs) + 1 => Head(todo[u]) = Remember(pic)
  BY <1>3, <1>4
<1>7. ASSUME Left(u) <= Len(ImageRegs)
      PROVE  Head(todo[u]) = Put(ImageRegs[Len(ImageRegs) - Left(u) + 1],
                                 Byte(pic[ImageRegs[Len(ImageRegs) - Left(u) + 1]]))
  <2>1. Left(u) \in 1..Len(ImageRegs)
    BY <1>5, <1>7
  <2>2. QED
    BY <1>3, <1>4, <2>1
<1>8. QED
  BY <1>2, <1>5, <1>6, <1>7

\* A picture for no channel has no transfers.
LEMMA NoneNext ==
    ASSUME Shape, Path, NEW u \in Users, InCall(u), call[u].cmd = "image"
    PROVE  call[u].chn = N => todo[u] = << >>
<1> SUFFICES ASSUME call[u].chn = N, todo[u] # << >> PROVE FALSE
  OBVIOUS
<1>1. tp285x_set_image(call[u].chn, call[u].pic) = << >>
  BY PageSet DEF tp285x_set_image
<1>2. Script(call[u]) = << >>
  BY <1>1 DEF Script
<1>3. Left(u) \in 1..Len(<< >>)
  BY <1>2, NextTransfer
<1>4. QED
  BY <1>3

LEMMA GetNext ==
    ASSUME Shape, Path, NEW u \in Users, todo[u] # << >>, call[u].cmd = "get"
    PROVE  LET c == call[u].chn  L == Len(ImageRegs)  o == Head(todo[u])
           IN  /\ c \in Channels /\ L \in Nat /\ Left(u) \in 1..(L + 1)
               /\ Left(u) = L + 1 => o = Page(c)
               /\ Left(u) <= L => o = ReadImage(ImageRegs[L - Left(u) + 1])
<1> DEFINE s == tp285x_get_image(call[u].chn)
<1>1. call[u] \in Requests
  BY NextTransfer
<1>2. Script(call[u]) = s /\ call[u].chn \in Channels
  BY <1>1, RequestFields DEF Script
<1>3. Left(u) \in 1..Len(s) /\ Head(todo[u]) = FromEnd(s, Left(u))
  BY <1>2, NextTransfer
<1>4. /\ Len(s) = Len(ImageRegs) + 1 /\ FromEnd(s, Len(ImageRegs) + 1) = Page(call[u].chn)
      /\ \A n \in 1..Len(ImageRegs) : FromEnd(s, n) = ReadImage(ImageRegs[Len(ImageRegs) - n + 1])
  BY <1>2, GetScript
<1> HIDE DEF s
<1>5. Len(ImageRegs) \in Nat /\ Left(u) \in 1..(Len(ImageRegs) + 1)
  BY <1>3, <1>4, Regs
<1>6. Left(u) = Len(ImageRegs) + 1 => Head(todo[u]) = Page(call[u].chn)
  BY <1>3, <1>4
<1>7. ASSUME Left(u) <= Len(ImageRegs)
      PROVE  Head(todo[u]) = ReadImage(ImageRegs[Len(ImageRegs) - Left(u) + 1])
  <2>1. Left(u) \in 1..Len(ImageRegs)
    BY <1>5, <1>7
  <2>2. QED
    BY <1>3, <1>4, <2>1
<1>8. QED
  BY <1>2, <1>5, <1>6, <1>7

LEMMA AskNext ==
    ASSUME Shape, Path, NEW u \in Users, todo[u] # << >>, call[u].cmd = "resolution"
    PROVE  LET o == Head(todo[u])
           IN  /\ Left(u) \in 1..13
               /\ Left(u) = 13 => o = Page(0)
               /\ \A c \in Channels :
                    /\ Left(u) = 12 - 3 * c => o = Page(c)
                    /\ Left(u) = 11 - 3 * c => o = ReadLoss(c)
                    /\ Left(u) = 10 - 3 * c => o = ReadFormat(c)
<1>1. Script(call[u]) = GetCameraResolution
  BY DEF Script
<1>2. Left(u) \in 1..Len(GetCameraResolution) /\ Head(todo[u]) = FromEnd(GetCameraResolution, Left(u))
  BY <1>1, NextTransfer
<1>3. QED
  BY <1>2, ResolutionScript

LEMMA RawNext ==
    ASSUME Shape, Path, NEW u \in Users, todo[u] # << >>,
           call[u].cmd \in {"dump", "proc_dump", "read", "write", "proc"}
    PROVE  /\ Head(todo[u]).op \in {"page", "put", "system", "read"}
           /\ Head(todo[u]).op \in {"put", "system"} => Unsound(u)
<1>1. /\ call[u] \in Requests
      /\ Left(u) \in 1..Len(Script(call[u])) /\ Head(todo[u]) = FromEnd(Script(call[u]), Left(u))
  BY NextTransfer
<1>2. QED
  BY <1>1, RawScript DEF Unsound

LEMMA ModeNext ==
    ASSUME Shape, Path, NEW u \in Users, todo[u] # << >>, call[u].cmd = "mode"
    PROVE  LET s == SetVideoMode(call[u].mode)
           IN  /\ Left(u) \in 1..Len(s) /\ Head(todo[u]) = FromEnd(s, Left(u))
               /\ Len(s) = (IF call[u].mode \in TwoLaneModes THEN 28 ELSE 18)
               /\ FromEnd(s, Left(u)).op \in {"page", "put", "id", "fetch", "system", "store"}
<1> DEFINE m == call[u].mode
           s == SetVideoMode(m)
<1>1. Script(call[u]) = s
  BY DEF Script
<1>2. Left(u) \in 1..Len(s) /\ Head(todo[u]) = FromEnd(s, Left(u))
  BY <1>1, NextTransfer
<1>3. CASE m \in TwoLaneModes
  <2>1. Len(s) = 28
    BY <1>3, TwoLanesScript
  <2> DEFINE n == Left(u)
  <2>2. \/ n = 1 \/ n = 2 \/ n = 3 \/ n = 4 \/ n = 5 \/ n = 6 \/ n = 7 \/ n = 8 \/ n = 9 \/ n = 10 \/ n = 11
        \/ n = 12 \/ n = 13 \/ n = 14 \/ n = 15 \/ n = 16 \/ n = 17 \/ n = 18 \/ n = 19 \/ n = 20 \/ n = 21
        \/ n = 22 \/ n = 23 \/ n = 24 \/ n = 25 \/ n = 26 \/ n = 27 \/ n = 28
    BY <1>2, <2>1
  <2> HIDE DEF n
  <2>3. FromEnd(s, n).op \in {"page", "put", "id", "fetch", "system", "store"}
    <3> DEFINE x0 == ChangeSystem(SetBy(m, {0}), ClearedBy(m, {0}))
               x1 == ChangeSystem(SetBy(m, {1}), ClearedBy(m, {1}))
               w  == WriteSystem({2, 3})
    <3>0. x0.op = "store" /\ x1.op = "store" /\ w.op = "system"
      BY OpNames
    <3>1. FromEnd(s, 15) = x0 /\ FromEnd(s, 11) = x1 /\ FromEnd(s, 18) = w
      BY <1>3, TwoLanesScript
    <3> HIDE DEF x0, x1, w
    <3>2. /\ FromEnd(s, 28) = Page(Mipi) /\ FromEnd(s, 27) = Put("23", 2)
          /\ FromEnd(s, 26) = Page(0) /\ FromEnd(s, 25) = Page(0) /\ FromEnd(s, 24) = ReadId
          /\ FromEnd(s, 23) = Page(Mipi) /\ FromEnd(s, 22) = Put("23", 2)
          /\ FromEnd(s, 21) = Page(2) /\ FromEnd(s, 20) = Page(3) /\ FromEnd(s, 19) = Page(0)
          /\ FromEnd(s, 17) = Page(0) /\ FromEnd(s, 16) = ReadSystem
      BY <1>3, TwoLanesScript
    <3>3. /\ FromEnd(s, 14) = Put("23", 60) /\ FromEnd(s, 13) = Page(1)
          /\ FromEnd(s, 12) = ReadSystem
      BY <1>3, TwoLanesScript
    <3>a. /\ FromEnd(s, 10) = Put("23", 60) /\ FromEnd(s, 9) = Page(Mipi)
          /\ FromEnd(s, 8) = Put("10", 32) /\ FromEnd(s, 7) = Put("11", 71)
      BY <1>3, TwoLanesScript, SMTT(60)
    <3>b. /\ FromEnd(s, 6) = Put("12", 84) /\ FromEnd(s, 5) = Put("13", 239)
      BY <1>3, TwoLanesScript
    <3>4. /\ FromEnd(s, 4) = Put("14", Clock(m))
          /\ FromEnd(s, 3) = Put("14", Pulse(m)) /\ FromEnd(s, 2) = Put("14", Clock(m))
          /\ FromEnd(s, 1) = Put("23", 0)
      BY <1>3, TwoLanesScript
    <3> HIDE DEF s
    <3> DEFINE G(i) == FromEnd(s, i).op \in {"page", "put", "id", "fetch", "system", "store"}
    <3>5. G(28) /\ G(27) /\ G(26) /\ G(25) /\ G(24) /\ G(23) /\ G(22) /\ G(21) /\ G(20) /\ G(19)
      BY <3>2, OpNames
    <3>6. G(18) /\ G(17) /\ G(16) /\ G(15) /\ G(11)
      BY <3>0, <3>1, <3>2, OpNames
    <3>7. G(14) /\ G(13) /\ G(12) /\ G(10) /\ G(9) /\ G(8) /\ G(7) /\ G(6) /\ G(5)
      BY <3>3, <3>a, <3>b, OpNames
    <3>8. G(4) /\ G(3) /\ G(2) /\ G(1)
      BY <3>4, OpNames
    <3>9. G(n)
      <4> HIDE DEF G
      <4>1. QED
        BY <2>2, <3>5, <3>6, <3>7, <3>8
    <3>c. QED
      BY <3>9
  <2>4. QED
    BY <1>2, <1>3, <2>1, <2>3 DEF n
<1>4. CASE m \notin TwoLaneModes
  <2>1. Len(s) = 18
    BY <1>4, FourLanesScript
  <2> DEFINE n == Left(u)
  <2>2. \/ n = 1 \/ n = 2 \/ n = 3 \/ n = 4 \/ n = 5 \/ n = 6 \/ n = 7 \/ n = 8 \/ n = 9 \/ n = 10 \/ n = 11
        \/ n = 12 \/ n = 13 \/ n = 14 \/ n = 15 \/ n = 16 \/ n = 17 \/ n = 18
    BY <1>2, <2>1
  <2> HIDE DEF n
  <2>3. FromEnd(s, n).op \in {"page", "put", "id", "fetch", "system", "store"}
    BY <1>4, <2>2, FourLanesScript, OpNames
  <2>4. QED
    BY <1>2, <1>4, <2>1, <2>3 DEF n
<1>5. QED
  BY <1>3, <1>4

LEMMA AskKinds ==
    ASSUME Shape, Path, NEW u \in Users, todo[u] # << >>, call[u].cmd = "resolution"
    PROVE  LET o == Head(todo[u])
           IN  o.op \in {"page", "loss", "format"} /\ (o.op = "loss" => Left(u) > 1)
<1> DEFINE n == Left(u)
           o == Head(todo[u])
<1>1. \/ n = 13 \/ n = 12 \/ n = 11 \/ n = 10 \/ n = 9 \/ n = 8 \/ n = 7 \/ n = 6 \/ n = 5 \/ n = 4
      \/ n = 3 \/ n = 2 \/ n = 1
  BY AskNext
<1>2. /\ n = 13 => o = Page(0)
      /\ n = 12 => o = Page(0)
      /\ n = 11 => o = ReadLoss(0)
      /\ n = 10 => o = ReadFormat(0)
      /\ n = 9 => o = Page(1)
      /\ n = 8 => o = ReadLoss(1)
      /\ n = 7 => o = ReadFormat(1)
      /\ n = 6 => o = Page(2)
      /\ n = 5 => o = ReadLoss(2)
      /\ n = 4 => o = ReadFormat(2)
      /\ n = 3 => o = Page(3)
      /\ n = 2 => o = ReadLoss(3)
      /\ n = 1 => o = ReadFormat(3)
  BY AskNext, PageSet
<1> HIDE DEF n, o
<1>3. o.op \in {"page", "loss", "format"} /\ (o.op = "loss" => n > 1)
  BY <1>1, <1>2, OpNames
<1>4. QED
  BY <1>3 DEF n, o

LEMMA Kinds ==
    ASSUME Shape, Path, NEW u \in Users, todo[u] # << >>
    PROVE  LET o == Head(todo[u])
           IN  /\ o \in Ops
               /\ o.op = "loss" => Left(u) > 1
               /\ o.op \in {"loss", "format"} => call[u].cmd = "resolution"
               /\ o.op = "image" => call[u].cmd = "get"
               /\ o.op = "adjust" => DrawsOne(u)
               /\ o.op = "remember" => DrawsAll(u)
               /\ o.op \in {"id", "fetch", "store"} => call[u].cmd = "mode"
<1> DEFINE o == Head(todo[u])
<1>1. InCall(u) /\ call[u] \in Requests /\ Left(u) \in Nat
  BY NextTransfer
<1>2. o \in Ops
  <2>1. todo[u] \in Seq(Ops)
    BY <1>1 DEF Path, EndOf
  <2>2. QED
    BY <2>1
<1>3. CASE DrawsOne(u)
  BY <1>2, <1>3, OneNext, OpNames
<1>4. CASE DrawsAll(u)
  BY <1>2, <1>4, AllNext, OpNames
<1>5. CASE call[u].cmd = "get"
  BY <1>2, <1>5, GetNext, OpNames
<1>6. CASE call[u].cmd = "resolution"
  BY <1>2, <1>6, AskKinds
<1>7. CASE call[u].cmd = "mode"
  BY <1>2, <1>7, ModeNext
<1>8. CASE call[u].cmd \in {"dump", "proc_dump", "read", "write", "proc"}
  BY <1>2, <1>8, RawNext
<1>9. QED
  BY <1>1, <1>3, <1>4, <1>5, <1>6, <1>7, <1>8, RequestFields, NoneNext DEF DrawsOne, DrawsAll

-----------------------------------------------------------------------------
(* Types, and what is left of a call, after a transfer. *)

\* The part of Shape that transfers change.
Types ==
    /\ page \in Pages
    /\ image \in [Channels -> [Registers -> Nat]]
    /\ DOMAIN mipi = MipiRegs
    /\ shadow \in [Channels -> [Registers -> Nat]]
    /\ reply \in [Users -> Seq(Nat)]
    /\ DOMAIN tmp = Users
    /\ DOMAIN due = Users /\ \A u \in Users : DOMAIN due[u] = Channels
    /\ DOMAIN wanted = Channels /\ \A c \in Channels : DOMAIN wanted[c] = Registers

LEMMA QuietTypes ==
    ASSUME Shape, Quiet
    PROVE  /\ page' \in Pages
           /\ image' \in [Channels -> [Registers -> Nat]]
           /\ DOMAIN mipi' = MipiRegs
           /\ DOMAIN wanted' = Channels /\ \A c \in Channels : DOMAIN wanted'[c] = Registers
  BY DEF Shape, Quiet, chip

LEMMA WriteTypes ==
    ASSUME Shape, NEW u \in Users, NEW r, NEW v \in Nat, Write(r, v), Account(u, r)
    PROVE  /\ page' \in Pages
           /\ image' \in [Channels -> [Registers -> Nat]]
           /\ DOMAIN mipi' = MipiRegs
           /\ DOMAIN wanted' = Channels /\ \A c \in Channels : DOMAIN wanted'[c] = Registers
<1>1. page \in Pages
  BY DEF Shape
<1>2. QED
  BY <1>1, WriteFacts, AccountFacts

LEMMA ShadowFacts ==
    ASSUME Shape, NEW c \in Channels, NEW r \in Registers, NEW v \in Nat,
           shadow' = [shadow EXCEPT ![c][r] = v]
    PROVE  /\ shadow' \in [Channels -> [Registers -> Nat]]
           /\ \A d \in Channels, q \in Registers :
                shadow'[d][q] = IF d = c /\ q = r THEN v ELSE shadow[d][q]
<1>1. shadow \in [Channels -> [Registers -> Nat]]
  BY DEF Shape
<1>2. shadow' = [shadow EXCEPT ![c] = [shadow[c] EXCEPT ![r] = v]]
  BY <1>1
<1>3. shadow[c] \in [Registers -> Nat]
  BY <1>1
<1> DEFINE f == [shadow[c] EXCEPT ![r] = v]
<1>4. f \in [Registers -> Nat] /\ \A q \in Registers : f[q] = IF q = r THEN v ELSE shadow[c][q]
  BY <1>3
<1> HIDE DEF f
<1>5. shadow' = [shadow EXCEPT ![c] = f]
  BY <1>2 DEF f
<1>6. shadow' \in [Channels -> [Registers -> Nat]]
  BY <1>1, <1>4, <1>5
<1>7. \A d \in Channels : shadow'[d] = IF d = c THEN f ELSE shadow[d]
  BY <1>1, <1>5
<1>8. QED
  BY <1>4, <1>6, <1>7

LEMMA DueFacts ==
    ASSUME Shape, NEW u \in Users, NEW c \in Channels, NEW S,
           due' = [due EXCEPT ![u] = [due[u] EXCEPT ![c] = S]]
    PROVE  /\ DOMAIN due' = Users /\ \A w \in Users : DOMAIN due'[w] = Channels
           /\ due'[u][c] = S /\ \A d \in Channels \ {c} : due'[u][d] = due[u][d]
<1>1. DOMAIN due = Users /\ \A w \in Users : DOMAIN due[w] = Channels
  BY DEF Shape
<1> DEFINE f == [due[u] EXCEPT ![c] = S]
<1>2. DOMAIN f = Channels /\ f[c] = S /\ \A d \in Channels \ {c} : f[d] = due[u][d]
  BY <1>1
<1> HIDE DEF f
<1>3. due' = [due EXCEPT ![u] = f]
  BY DEF f
<1>4. DOMAIN due' = Users /\ due'[u] = f /\ \A w \in Users \ {u} : due'[w] = due[w]
  BY <1>1, <1>3
<1>5. QED
  BY <1>1, <1>2, <1>4

\* What the two reads of the query note as due.
LEMMA LossDue ==
    ASSUME Shape, NEW u \in Users, NEW o, DoReadLoss(u, o), o.chn \in Channels
    PROVE  /\ DOMAIN due' = Users /\ \A w \in Users : DOMAIN due'[w] = Channels
           /\ due'[u][o.chn] = IF signal[o.chn] = VideoLoss THEN {VideoLoss} ELSE {}
           /\ \A d \in Channels \ {o.chn} : due'[u][d] = due[u][d]
<1> DEFINE S == IF signal[o.chn] = VideoLoss THEN {VideoLoss} ELSE {}
<1>1. due' = [due EXCEPT ![u][o.chn] = S]
  BY LossCases
<1> HIDE DEF S
<1>2. due' = [due EXCEPT ![u] = [due[u] EXCEPT ![o.chn] = S]]
  BY <1>1 DEF Shape
<1>3. QED
  BY <1>2, DueFacts DEF S

LEMMA FormatDue ==
    ASSUME Shape, NEW u \in Users, NEW o, DoReadFormat(u, o), o.chn \in Channels
    PROVE  /\ DOMAIN due' = Users /\ \A w \in Users : DOMAIN due'[w] = Channels
           /\ due[u][o.chn] = {} =>
                due'[u][o.chn] = IF signal[o.chn] # VideoLoss THEN {signal[o.chn]} ELSE Standards
           /\ \A d \in Channels \ {o.chn} : due'[u][d] = due[u][d]
<1> DEFINE K == IF signal[o.chn] # VideoLoss THEN {signal[o.chn]} ELSE Standards
           S == IF due[u][o.chn] = {VideoLoss} THEN due[u][o.chn] ELSE K
<1>1. due' = [due EXCEPT ![u][o.chn] = IF @ = {VideoLoss} THEN @ ELSE K]
  BY FormatCases
<1> HIDE DEF K
<1>2. due' = [due EXCEPT ![u] = [due[u] EXCEPT ![o.chn] = S]]
  BY <1>1 DEF Shape
<1>3. due[u][o.chn] = {} => S = K
  OBVIOUS
<1> HIDE DEF S
<1>4. QED
  BY <1>2, <1>3, DueFacts DEF K

LEMMA DoTypes ==
    ASSUME Shape, Path, NEW u \in Users, Do(u)
    PROVE  Types'
<1> DEFINE o == Head(todo[u])
<1>1. todo[u] # << >>
  BY DEF Do
<1>2. o \in Ops
  BY <1>1, Kinds
<1>3. /\ shadow \in [Channels -> [Registers -> Nat]] /\ reply \in [Users -> Seq(Nat)]
      /\ DOMAIN tmp = Users /\ page \in Pages
      /\ image \in [Channels -> [Registers -> Nat]] /\ signal \in [Channels -> Nat]
  BY DEF Shape
<1>4. DOMAIN tmp' = Users
  <2>1. CASE o.op = "fetch"
    <3>1. DoReadSystem(u, o)
      BY <2>1, DoByOp
    <3>2. QED
      BY <1>3, <3>1 DEF DoReadSystem
  <2>2. CASE o.op \in {"system", "store"}
    <3>1. DoWriteSystem(u, o)
      BY <2>2, DoByOp
    <3>2. QED
      BY <1>3, <3>1 DEF DoWriteSystem
  <2>3. QED
    BY <1>3, <2>1, <2>2, DoByOp
<1>d. DOMAIN due' = Users /\ \A w \in Users : DOMAIN due'[w] = Channels
  <2>1. CASE o.op = "loss"
    <3>1. DoReadLoss(u, o) /\ o.chn \in Channels
      BY <1>2, <2>1, DoByOp, OpFields
    <3>2. QED
      BY <3>1, LossDue
  <2>2. CASE o.op = "format"
    <3>1. DoReadFormat(u, o) /\ o.chn \in Channels
      BY <1>2, <2>2, DoByOp, OpFields
    <3>2. QED
      BY <3>1, FormatDue
  <2>3. CASE o.op \notin {"loss", "format"}
    <3>1. due' = due
      BY <2>3, DoByOp
    <3>2. QED
      BY <3>1 DEF Shape
  <2>4. QED
    BY <2>1, <2>2, <2>3
<1>5. CASE o.op = "page"
  <2>1. DoPage(u, o) /\ o.page \in Pages
    BY <1>2, <1>5, DoByOp, OpFields
  <2>2. UNCHANGED <<image, mipi, wanted, shadow, reply>> /\ page' \in Pages
    BY <1>3, <2>1, PageCases
  <2>3. QED
    BY <1>4, <1>d, <2>2 DEF Types, Shape
<1>6. CASE o.op = "put"
  <2>1. DoPut(u, o) /\ o.val \in Nat
    BY <1>2, <1>6, DoByOp, OpFields
  <2>2. UNCHANGED <<shadow, reply>> /\ ((Write(o.reg, o.val) /\ Account(u, o.reg)) \/ Quiet)
    BY <2>1, PutCases
  <2> HIDE DEF o
  <2>3. QED
    BY <1>3, <1>4, <1>d, <2>1, <2>2, QuietTypes, WriteTypes DEF Types
<1>7. CASE o.op = "adjust"
  <2>1. DoAdjust(u, o) /\ o.chn \in Channels /\ o.reg \in Registers /\ o.val \in Nat /\ Byte(o.val) \in Nat
    BY <1>2, <1>7, DoByOp, OpFields DEF Byte
  <2>2. /\ reply' = reply
        /\ shadow' = shadow \/ shadow' = [shadow EXCEPT ![o.chn][o.reg] = o.val]
        /\ (Write(o.reg, Byte(o.val)) /\ Account(u, o.reg)) \/ Quiet
    BY <2>1, AdjustCases
  <2> HIDE DEF o
  <2>3. shadow' \in [Channels -> [Registers -> Nat]]
    BY <1>3, <2>1, <2>2, ShadowFacts
  <2>4. QED
    BY <1>3, <1>4, <1>d, <2>1, <2>2, <2>3, QuietTypes, WriteTypes DEF Types
<1>8. CASE o.op = "remember"
  <2>1. DoRemember(u, o) /\ o.pic \in [Registers -> Nat]
    BY <1>2, <1>8, DoByOp, OpFields
  <2>2. Quiet /\ reply' = reply /\ shadow' = [c \in Channels |-> o.pic]
    BY <2>1 DEF DoRemember
  <2> HIDE DEF o
  <2>3. shadow' \in [Channels -> [Registers -> Nat]]
    BY <2>1, <2>2
  <2>4. QED
    BY <1>3, <1>4, <1>d, <2>2, <2>3, QuietTypes DEF Types
<1>9. CASE o.op \in {"id", "read", "fetch"}
  <2>1. DoReadId(u, o) \/ DoReadOther(u, o) \/ DoReadSystem(u, o)
    BY <1>9, DoByOp
  <2>2. Quiet /\ reply' = reply /\ shadow' = shadow
    BY <2>1 DEF DoReadId, DoReadOther, DoReadSystem
  <2>3. QED
    BY <1>3, <1>4, <1>d, <2>2, QuietTypes DEF Types
<1>10. CASE o.op = "image"
  <2>1. DoReadImage(u, o) /\ o.reg \in Registers
    BY <1>2, <1>10, DoByOp, OpFields
  <2>2. /\ Quiet /\ shadow' = shadow
        /\ \/ page \in Channels /\ Answer(u, image[page][o.reg])
           \/ Answer(u, 0)
    BY <2>1, ImageCases
  <2>3. page \in Channels => image[page][o.reg] \in Nat
    BY <1>3, <2>1
  <2> HIDE DEF o
  <2>4. reply' \in [Users -> Seq(Nat)]
    BY <2>2, <2>3, AnswerLen
  <2>5. QED
    BY <1>3, <1>4, <1>d, <2>2, <2>4, QuietTypes DEF Types
<1>11. CASE o.op = "loss"
  <2>1. DoReadLoss(u, o)
    BY <1>11, DoByOp
  <2>2. Quiet /\ shadow' = shadow /\ (reply' = reply \/ Answer(u, VideoLoss))
    BY <2>1, LossCases
  <2>3. VideoLoss \in Nat
    BY DEF VideoLoss
  <2>4. reply' \in [Users -> Seq(Nat)]
    BY <1>3, <2>2, <2>3, AnswerLen
  <2>5. QED
    BY <1>3, <1>4, <1>d, <2>2, <2>4, QuietTypes DEF Types
<1>12. CASE o.op = "format"
  <2>1. DoReadFormat(u, o)
    BY <1>12, DoByOp
  <2>2. Quiet /\ shadow' = shadow /\ \E v \in Nat : Answer(u, v)
    <3>1. Standards \subseteq Nat
      BY TpConstants DEF TpConstants
    <3>2. page \in Channels => signal[page] \in Nat
      BY <1>3
    <3>3. QED
      BY <2>1, <3>1, <3>2, FormatCases
  <2>3. reply' \in [Users -> Seq(Nat)]
    BY <2>2, AnswerLen
  <2>4. QED
    BY <1>3, <1>4, <1>d, <2>2, <2>3, QuietTypes DEF Types
<1>13. CASE o.op \in {"system", "store"}
  <2>1. DoWriteSystem(u, o)
    BY <1>13, DoByOp
  <2>2. UNCHANGED <<page, image, mipi, wanted, shadow, reply>>
    BY <2>1, StoreCases
  <2>3. QED
    BY <1>3, <1>4, <1>d, <2>2 DEF Types, Shape
<1>14. QED
  BY <1>2, <1>5, <1>6, <1>7, <1>8, <1>9, <1>10, <1>11, <1>12, <1>13, OpFields

LEMMA DoTodo ==
    ASSUME Shape, Path, NEW u \in Users, Do(u)
    PROVE  /\ todo[u] # << >>
           /\ DOMAIN todo' = Users /\ \A w \in Users \ {u} : todo'[w] = todo[w]
           /\ EndOf(todo'[u], Script(call[u]))
           /\ failed \subseteq failed' /\ failed' \subseteq failed \cup {u}
           /\ \A w \in Users \ {u} : reply'[w] = reply[w]
<1> DEFINE o == Head(todo[u])
           s == Script(call[u])
           R == \A w \in Users \ {u} : reply'[w] = reply[w]
           F == failed \subseteq failed' /\ failed' \subseteq failed \cup {u}
           T == /\ DOMAIN todo' = Users /\ \A w \in Users \ {u} : todo'[w] = todo[w]
                /\ EndOf(todo'[u], s)
<1>1. todo[u] # << >> /\ DOMAIN todo = Users
  BY DEF Do, Shape
<1>2. o \in Ops /\ (o.op = "loss" => Left(u) > 1)
  BY <1>1, Kinds
<1>3. EndOf(Tail(todo[u]), s) /\ Len(Tail(todo[u])) = Left(u) - 1 /\ Left(u) \in Nat /\ s \in Seq(Ops)
  BY <1>1, NextTransfer, ScriptSeq
<1>4. Skip(u) => T
  BY <1>1, <1>3, SkipLeft
<1>5. ASSUME NEW v \in Nat, Answer(u, v) PROVE R
  BY <1>5, AnswerLen
<1>6. CASE o.op = "page"
  <2>1. DoPage(u, o)
    BY <1>6, DoByOp
  <2>2. Skip(u) /\ F /\ R
    BY <2>1, PageCases
  <2>3. QED
    BY <1>1, <1>4, <2>2
<1>7. CASE o.op = "put"
  <2>1. DoPut(u, o)
    BY <1>7, DoByOp
  <2>2. Skip(u) /\ F /\ R
    BY <2>1, PutCases
  <2>3. QED
    BY <1>1, <1>4, <2>2
<1>8. CASE o.op = "adjust"
  <2>1. DoAdjust(u, o)
    BY <1>8, DoByOp
  <2>2. Skip(u) /\ F /\ R
    BY <2>1, AdjustCases
  <2>3. QED
    BY <1>1, <1>4, <2>2
<1>9. CASE o.op \in {"remember", "read"}
  <2>1. DoRemember(u, o) \/ DoReadOther(u, o)
    BY <1>9, DoByOp
  <2>2. Skip(u) /\ F /\ R
    BY <2>1 DEF DoRemember, DoReadOther
  <2>3. QED
    BY <1>1, <1>4, <2>2
<1>10. CASE o.op = "id"
  <2>1. DoReadId(u, o)
    BY <1>10, DoByOp
  <2>2. F /\ R /\ (Skip(u) \/ todo' = [todo EXCEPT ![u] = << >>])
    BY <2>1, IdCases
  <2>3. EndOf(<< >>, s)
    BY <1>3 DEF EndOf
  <2>4. T
    BY <1>1, <1>4, <2>2, <2>3
  <2>5. QED
    BY <1>1, <2>2, <2>4
<1>11. CASE o.op = "image"
  <2>1. DoReadImage(u, o) /\ o.reg \in Registers
    BY <1>2, <1>11, DoByOp, OpFields
  <2>2. /\ Skip(u) /\ F
        /\ \/ page \in Channels /\ Answer(u, image[page][o.reg])
           \/ Answer(u, 0)
    BY <2>1, ImageCases
  <2>3. page \in Channels => image[page][o.reg] \in Nat
    BY <2>1 DEF Shape
  <2>4. R
    BY <1>5, <2>2, <2>3
  <2>5. QED
    BY <1>1, <1>4, <2>2, <2>4
<1>12. CASE o.op = "loss"
  <2>1. DoReadLoss(u, o)
    BY <1>12, DoByOp
  <2>2. /\ F /\ (reply' = reply \/ Answer(u, VideoLoss))
        /\ Skip(u) \/ todo' = [todo EXCEPT ![u] = Tail(Tail(@))]
    BY <2>1, LossCases
  <2>3. R
    BY <1>5, <2>2 DEF VideoLoss
  <2>4. Tail(todo[u]) # << >>
    BY <1>2, <1>3, <1>12
  <2>5. EndOf(Tail(Tail(todo[u])), s)
    BY <1>3, <2>4, TailEnd
  <2>6. T
    BY <1>1, <1>4, <2>2, <2>5
  <2>7. QED
    BY <1>1, <2>2, <2>3, <2>6
<1>13. CASE o.op = "format"
  <2>1. DoReadFormat(u, o)
    BY <1>13, DoByOp
  <2>2. Skip(u) /\ F /\ \E v \in Nat : Answer(u, v)
    <3>1. Standards \subseteq Nat
      BY TpConstants DEF TpConstants
    <3>2. page \in Channels => signal[page] \in Nat
      BY DEF Shape
    <3>3. QED
      BY <2>1, <3>1, <3>2, FormatCases
  <2>3. R
    BY <1>5, <2>2
  <2>4. QED
    BY <1>1, <1>4, <2>2, <2>3
<1>14. CASE o.op = "fetch"
  <2>1. DoReadSystem(u, o)
    BY <1>14, DoByOp
  <2>2. Skip(u) /\ F /\ R
    BY <2>1, SystemCases
  <2>3. QED
    BY <1>1, <1>4, <2>2
<1>15. CASE o.op \in {"system", "store"}
  <2>1. DoWriteSystem(u, o)
    BY <1>15, DoByOp
  <2>2. Skip(u) /\ F /\ R
    BY <2>1, StoreCases
  <2>3. QED
    BY <1>1, <1>4, <2>2
<1>16. QED
  BY <1>2, <1>6, <1>7, <1>8, <1>9, <1>10, <1>11, <1>12, <1>13, <1>14, <1>15, OpFields

LEMMA DoFrame ==
    ASSUME Shape, Alone, Path, NEW u \in Users, Do(u)
    PROVE  /\ Shape' /\ Alone' /\ Path'
           /\ InCall(u) /\ \A w \in Users : InCall(w) => w = u
<1>1. UNCHANGED <<signal, mutex, call, calls, changed>>
  BY DoCases
<1>2. Shape'
  <2>1. Types' /\ DOMAIN todo' = Users
    BY DoTypes, DoTodo
  <2>2. QED
    BY <1>1, <2>1 DEF Shape, Types
<1>3. InCall(u) /\ \A w \in Users : InCall(w) => w = u
  <2>1. todo[u] # << >>
    BY DoTodo
  <2>2. QED
    BY <2>1, NextTransfer DEF Alone
<1>4. Alone'
  BY <1>1 DEF Alone, InCall
<1>5. Path'
  <2>1. /\ \A w \in Users \ {u} : todo'[w] = todo[w] /\ reply'[w] = reply[w]
        /\ EndOf(todo'[u], Script(call[u])) /\ failed' \subseteq failed \cup {u}
    BY DoTodo
  <2>2. \A w \in Users : InCall(w)' => EndOf(todo'[w], Script(call'[w]))
    BY <1>1, <1>3, <2>1 DEF InCall
  <2>3. ASSUME NEW w \in Users, ~InCall(w)' PROVE todo'[w] = << >> /\ reply'[w] = << >> /\ Sound(w)'
    <3>1. w # u /\ ~InCall(w)
      BY <1>1, <1>3, <2>3 DEF InCall
    <3>2. todo[w] = << >> /\ reply[w] = << >> /\ Sound(w)
      BY <3>1 DEF Path
    <3>3. QED
      BY <2>1, <3>1, <3>2 DEF Sound
  <2>4. \A w \in Users : ~(InCall(w)' /\ call'[w].cmd = "image") => changed'[w] = {}
    BY <1>1 DEF Path, InCall
  <2>5. QED
    BY <2>2, <2>3, <2>4 DEF Path
<1>6. QED
  BY <1>2, <1>3, <1>4, <1>5

-----------------------------------------------------------------------------
(* set_image of one channel. *)

\* The copy of a register is changed, and the register is written or not.
LEMMA DoAdjusted ==
    ASSUME Shape, Alone, Path, Drawing, PictureShown, ModeInEffect,
           NEW u \in Users, Do(u), DrawsOne(u), Left(u) <= Len(ImageRegs)
    PROVE  OnePicture(u)' /\ PictureShown' /\ ModeInEffect'
<1> DEFINE c == call[u].chn
           pic == call[u].pic
           L == Len(ImageRegs)
           n == Left(u)
           r0 == ImageRegs[L - n + 1]
           v == pic[r0]
           o == Head(todo[u])
<1>1. todo[u] # << >> /\ call' = call /\ changed' = changed
  BY DoCases
<1>2. c \in Channels /\ pic \in Pictures /\ L \in Nat /\ n \in 1..L /\ o = Adjust(c, r0, v)
  BY <1>1, OneNext
<1>3. r0 \in Registers /\ v \in Nat /\ Byte(v) \in Nat
  <2>1. L - n + 1 \in 1..L
    BY <1>2
  <2>2. r0 \in Registers
    BY <2>1, Regs
  <2>3. QED
    BY <1>2, <2>2, PictureVal
<1>4. DoAdjust(u, o) /\ o.chn = c /\ o.reg = r0 /\ o.val = v
  <2> HIDE DEF c, r0, v, o
  <2>1. o.op = "adjust" /\ o.chn = c /\ o.reg = r0 /\ o.val = v
    BY <1>2, OpNames
  <2>2. QED
    BY <2>1, DoByOp DEF o
<1>5. OnePicture(u)
  BY DEF Drawing
<1>6. Skip(u) /\ Left(u)' = n - 1
  BY <1>1, <1>4, AdjustCases, SkipLeft
<1>7. /\ \A r \in Registers \ changed[u] : shadow[c][r] = pic[r]
      /\ \A r \in changed[u] : wanted[c][r] = Unknown
      /\ \A k \in 1..L : k <= L - n => shadow[c][ImageRegs[k]] = pic[ImageRegs[k]]
      /\ Sound(u) => page = c
      /\ Sound(u) => \A r \in changed[u] : shadow[c][r] = pic[r] => image[c][r] = Byte(pic[r])
  BY <1>2, <1>5 DEF OnePicture
<1>8. changed[u] \in SUBSET Registers /\ (\A k \in 1..L : ImageRegs[k] \in Registers)
  BY Regs DEF Shape
<1>9. L - (n - 1) = L - n + 1 /\ \A k \in 1..L : k <= L - n + 1 => k <= L - n \/ k = L - n + 1
  BY <1>2
\* What has to hold after it.
<1>10. SUFFICES /\ \A r \in Registers \ changed[u] : shadow'[c][r] = pic[r]
                /\ \A r \in changed[u] : wanted'[c][r] = Unknown
                /\ \A k \in 1..L : k <= L - n + 1 => shadow'[c][ImageRegs[k]] = pic[ImageRegs[k]]
                /\ Sound(u)' => page' = c
                /\ Sound(u)' => \A r \in changed[u] : shadow'[c][r] = pic[r] => image'[c][r] = Byte(pic[r])
                /\ PictureShown' /\ ModeInEffect'
  BY <1>1, <1>6, <1>9 DEF OnePicture
<1> HIDE DEF c, pic, r0, v, o, n
<1>11. CASE shadow[c][r0] = v
  <2>1. Quiet /\ UNCHANGED <<shadow, failed>>
    BY <1>4, <1>11, AdjustCases
  <2>2. UNCHANGED <<page, image, mipi, system, wanted, mode, shadow, failed>>
    BY <2>1 DEF Quiet, chip
  <2>3. PictureShown' /\ ModeInEffect'
    BY <2>2, QuietKeeps
  <2>4. \A k \in 1..L : k <= L - n + 1 => shadow'[c][ImageRegs[k]] = pic[ImageRegs[k]]
    BY <1>7, <1>9, <1>11, <2>2 DEF r0, v
  <2>5. QED
    BY <1>7, <2>2, <2>3, <2>4 DEF Sound
<1>12. CASE shadow[c][r0] # v
  <2>1. /\ shadow' = [shadow EXCEPT ![c][r0] = v]
        /\ \/ Write(r0, Byte(v)) /\ Account(u, r0) /\ failed' = failed
           \/ Quiet /\ failed' = failed \cup {u}
    BY <1>4, <1>12, AdjustCases
  <2>2. \A d \in Channels, q \in Registers : shadow'[d][q] = IF d = c /\ q = r0 THEN v ELSE shadow[d][q]
    BY <1>2, <1>3, <2>1, ShadowFacts
  <2>3. \A q \in Registers : shadow'[c][q] = IF q = r0 THEN v ELSE shadow[c][q]
    BY <1>2, <2>2
  <2>4. \A r \in Registers \ changed[u] : shadow'[c][r] = pic[r]
    BY <1>7, <2>3 DEF v
  <2>5. ASSUME NEW k \in 1..L, k <= L - n + 1 PROVE shadow'[c][ImageRegs[k]] = pic[ImageRegs[k]]
    <3>1. CASE ImageRegs[k] = r0
      BY <1>3, <2>3, <3>1 DEF v
    <3>2. CASE ImageRegs[k] # r0
      <4>1. k <= L - n
        BY <1>9, <2>5, <3>2 DEF r0
      <4>2. QED
        BY <1>7, <1>8, <2>3, <3>2, <4>1
    <3>3. QED
      BY <3>1, <3>2
  <2>6. r0 \in changed[u]
    BY <1>3, <1>7, <1>12 DEF v
  <2>7. CASE Quiet /\ failed' = failed \cup {u}
    <3>1. UNCHANGED <<page, image, mipi, system, wanted, mode>>
      BY <2>7 DEF Quiet, chip
    <3>2. PictureShown' /\ ModeInEffect'
      BY <3>1, QuietKeeps
    <3>3. ~Sound(u)'
      BY <2>7 DEF Sound
    <3>4. QED
      BY <1>7, <2>4, <2>5, <3>1, <3>2, <3>3
  <2>8. CASE Write(r0, Byte(v)) /\ Account(u, r0) /\ failed' = failed
    <3>1. /\ page' = page
          /\ \A d \in Channels, q \in Registers :
               image'[d][q] = IF d \in Targets /\ q = r0 THEN Byte(v) ELSE image[d][q]
      BY <1>3, <2>8, WriteFacts
    <3>2. \A r \in changed[u] : wanted'[c][r] = Unknown
      BY <1>2, <1>7, <1>8, <2>8, AccountFacts
    <3>3. Sound(u)' => Sound(u) /\ page = c /\ Targets = {c} /\ page # Mipi
      <4>1. Sound(u)' => Sound(u) /\ page = c
        BY <1>7, <2>8 DEF Sound
      <4>2. c # N /\ c # Mipi
        BY <1>2, PageSet
      <4>3. page = c => Targets = {c}
        BY <1>2, <4>2 DEF Targets
      <4>4. QED
        BY <4>1, <4>2, <4>3
    <3>4. Sound(u)' => \A r \in changed[u] : shadow'[c][r] = pic[r] => image'[c][r] = Byte(pic[r])
      <4>1. SUFFICES ASSUME Sound(u)', NEW r \in changed[u], shadow'[c][r] = pic[r]
                     PROVE  image'[c][r] = Byte(pic[r])
        OBVIOUS
      <4>2. r \in Registers /\ c \in Targets
        BY <1>8, <3>3, <4>1
      <4>3. CASE r = r0
        BY <1>2, <3>1, <4>2, <4>3 DEF v
      <4>4. CASE r # r0
        <5>1. shadow[c][r] = pic[r]
          BY <2>3, <4>1, <4>2, <4>4
        <5>2. image[c][r] = Byte(pic[r])
          BY <1>7, <3>3, <4>1, <5>1
        <5>3. QED
          BY <1>2, <3>1, <4>2, <4>4, <5>2
      <4>5. QED
        BY <4>3, <4>4
    <3>5. PictureShown' /\ ModeInEffect'
      <4>1. CASE Unsound(u)
        BY <1>3, <2>8, <4>1, WriteKeeps
      <4>2. CASE ~Unsound(u)
        <5>1. Sound(u)'
          BY <2>8, <4>2 DEF Unsound, Sound
        <5>2. \A d \in Targets : r0 \in Registers => wanted[d][r0] = Unknown
          BY <1>7, <2>6, <3>3, <5>1
        <5>3. page # Mipi
          BY <3>3, <5>1
        <5>4. QED
          BY <1>3, <2>8, <5>2, <5>3, WriteKeeps
      <4>3. QED
        BY <4>1, <4>2
    <3>6. QED
      BY <2>4, <2>5, <3>1, <3>2, <3>3, <3>4, <3>5
  <2>9. QED
    BY <2>1, <2>7, <2>8
<1>13. QED
  BY <1>11, <1>12

LEMMA DoOne ==
    ASSUME Shape, Alone, Path, Drawing, PictureShown, ModeInEffect,
           NEW u \in Users, Do(u), DrawsOne(u)
    PROVE  OnePicture(u)' /\ PictureShown' /\ ModeInEffect'
<1> DEFINE c == call[u].chn
           L == Len(ImageRegs)
           o == Head(todo[u])
<1>1. todo[u] # << >> /\ call' = call /\ changed' = changed
  BY DoCases
<1>2. c \in Channels /\ L \in Nat /\ Left(u) \in 1..(L + 1) /\ (Left(u) = L + 1 => o = Page(c))
  BY <1>1, OneNext
<1>3. CASE Left(u) <= L
  BY <1>3, DoAdjusted
<1>4. CASE Left(u) = L + 1
  <2>1. DoPage(u, o) /\ o.page = c
    BY <1>2, <1>4, DoByOp, OpNames
  <2>2. /\ UNCHANGED <<image, mipi, system, wanted, mode, shadow>>
        /\ \/ page' = c /\ failed' = failed
           \/ page' = page /\ failed' = failed \cup {u}
    BY <2>1, PageCases
  <2>3. PictureShown' /\ ModeInEffect'
    BY <2>2, QuietKeeps
  <2>4. Skip(u) /\ Left(u)' = L
    BY <1>1, <1>2, <1>4, <2>1, PageCases, SkipLeft
  <2>5. Sound(u)' => Sound(u) /\ page' = c
    BY <2>2 DEF Sound
  <2>6. \A k \in 1..L : ~(k <= L - L)
    BY <1>2
  <2>7. OnePicture(u)
    BY DEF Drawing
  <2>8. QED
    BY <1>1, <2>2, <2>3, <2>4, <2>5, <2>6, <2>7 DEF OnePicture
<1>5. QED
  BY <1>2, <1>3, <1>4

-----------------------------------------------------------------------------
(* set_image of all channels. *)

LEMMA DoAllPut ==
    ASSUME Shape, Alone, Path, Drawing, PictureShown, ModeInEffect,
           NEW u \in Users, Do(u), DrawsAll(u), Left(u) <= Len(ImageRegs)
    PROVE  AllPictures(u)' /\ PictureShown' /\ ModeInEffect'
<1> DEFINE pic == call[u].pic
           L == Len(ImageRegs)
           n == Left(u)
           r0 == ImageRegs[L - n + 1]
           v == Byte(pic[r0])
           o == Head(todo[u])
<1>1. todo[u] # << >> /\ call' = call
  BY DoCases
<1>2. pic \in Pictures /\ L \in Nat /\ n \in 1..L /\ o = Put(r0, v)
  BY <1>1, AllNext
<1>3. r0 \in Registers /\ v \in Nat
  <2>1. L - n + 1 \in 1..L
    BY <1>2
  <2>2. r0 \in Registers
    BY <2>1, Regs
  <2>3. QED
    BY <1>2, <2>2, PictureVal
<1>4. DoPut(u, o) /\ o.reg = r0 /\ o.val = v
  <2> HIDE DEF r0, v, o
  <2>1. o.op = "put" /\ o.reg = r0 /\ o.val = v
    BY <1>2, OpNames
  <2>2. QED
    BY <2>1, DoByOp DEF o
<1>5. AllPictures(u)
  BY DEF Drawing
<1>6. Skip(u) /\ Left(u)' = n - 1
  BY <1>1, <1>4, PutCases, SkipLeft
<1>7. /\ \A r \in Registers : wanted[0][r] = Unknown
      /\ Sound(u) => page = 0
      /\ Sound(u) => \A k \in 1..L : k <= L - n => image[0][ImageRegs[k]] = Byte(pic[ImageRegs[k]])
  BY <1>2, <1>5 DEF AllPictures
<1>8. \A k \in 1..L : ImageRegs[k] \in Registers
  BY Regs
<1>9. L - (n - 1) = L - n + 1 /\ \A k \in 1..L : k <= L - n + 1 => k <= L - n \/ k = L - n + 1
  BY <1>2
<1>10. SUFFICES /\ \A r \in Registers : wanted'[0][r] = Unknown
                /\ Sound(u)' => page' = 0
                /\ Sound(u)' => \A k \in 1..L : k <= L - n + 1 =>
                                   image'[0][ImageRegs[k]] = Byte(pic[ImageRegs[k]])
                /\ PictureShown' /\ ModeInEffect'
  BY <1>1, <1>6, <1>9 DEF AllPictures
<1> HIDE DEF pic, r0, v, o, n
<1>11. 0 \in Channels /\ 0 # N /\ 0 # Mipi
  BY PageSet
<1>12. CASE Quiet /\ failed' = failed \cup {u}
  <2>1. UNCHANGED <<page, image, mipi, system, wanted, mode>>
    BY <1>12 DEF Quiet, chip
  <2>2. PictureShown' /\ ModeInEffect'
    BY <2>1, QuietKeeps
  <2>3. ~Sound(u)'
    BY <1>12 DEF Sound
  <2>4. QED
    BY <1>7, <2>1, <2>2, <2>3
<1>13. CASE Write(r0, v) /\ Account(u, r0) /\ failed' = failed
  <2>1. /\ page' = page
        /\ \A d \in Channels, q \in Registers :
             image'[d][q] = IF d \in Targets /\ q = r0 THEN v ELSE image[d][q]
    BY <1>3, <1>13, WriteFacts
  <2>2. \A r \in Registers : wanted'[0][r] = Unknown
    BY <1>7, <1>11, <1>13, AccountFacts
  <2>3. Sound(u)' => Sound(u) /\ page = 0 /\ Targets = {0}
    BY <1>7, <1>11, <1>13 DEF Sound, Targets
  <2>4. ASSUME Sound(u)', NEW k \in 1..L, k <= L - n + 1
        PROVE  image'[0][ImageRegs[k]] = Byte(pic[ImageRegs[k]])
    <3>1. CASE ImageRegs[k] = r0
      BY <1>3, <1>11, <2>1, <2>3, <2>4, <3>1 DEF v
    <3>2. CASE ImageRegs[k] # r0
      <4>1. k <= L - n
        BY <1>9, <2>4, <3>2 DEF r0
      <4>2. image[0][ImageRegs[k]] = Byte(pic[ImageRegs[k]])
        BY <1>7, <2>3, <2>4, <4>1
      <4>3. QED
        BY <1>8, <1>11, <2>1, <3>2, <4>2
    <3>3. QED
      BY <3>1, <3>2
  <2>5. PictureShown' /\ ModeInEffect'
    <3>1. CASE Unsound(u)
      BY <1>3, <1>13, <3>1, WriteKeeps
    <3>2. CASE ~Unsound(u)
      <4>1. Sound(u)'
        BY <1>13, <3>2 DEF Unsound, Sound
      <4>2. (\A d \in Targets : r0 \in Registers => wanted[d][r0] = Unknown) /\ page # Mipi
        BY <1>7, <1>11, <2>3, <4>1
      <4>3. QED
        BY <1>3, <1>13, <4>2, WriteKeeps
    <3>3. QED
      BY <3>1, <3>2
  <2>6. QED
    BY <2>1, <2>2, <2>3, <2>4, <2>5
<1>14. QED
  BY <1>4, <1>12, <1>13, PutCases

LEMMA DoAll ==
    ASSUME Shape, Alone, Path, Drawing, PictureShown, ModeInEffect,
           NEW u \in Users, Do(u), DrawsAll(u)
    PROVE  AllPictures(u)' /\ PictureShown' /\ ModeInEffect'
<1> DEFINE L == Len(ImageRegs)
           o == Head(todo[u])
<1>1. todo[u] # << >> /\ call' = call
  BY DoCases
<1>2. /\ L \in Nat /\ Left(u) \in 1..(L + 2)
      /\ Left(u) = L + 2 => o = Page(0)
      /\ Left(u) = L + 1 => o = Remember(call[u].pic)
  BY <1>1, AllNext
<1>3. AllPictures(u)
  BY DEF Drawing
<1>4. (\A k \in 1..L : ~(k <= L - L)) /\ (\A k \in 1..L : ~(k <= L - (L + 1)))
  BY <1>2
<1>5. CASE Left(u) <= L
  BY <1>5, DoAllPut
<1>6. CASE Left(u) = L + 1
  <2>1. DoRemember(u, o)
    BY <1>2, <1>6, DoByOp, OpNames
  <2>2. UNCHANGED <<page, image, mipi, system, wanted, mode, failed>> /\ Skip(u)
    BY <2>1 DEF DoRemember, Quiet, chip
  <2>3. PictureShown' /\ ModeInEffect'
    BY <2>2, QuietKeeps
  <2>4. Left(u)' = L
    BY <1>1, <1>2, <1>6, <2>2, SkipLeft
  <2>5. QED
    BY <1>1, <1>2, <1>3, <1>4, <1>6, <2>2, <2>3, <2>4 DEF AllPictures, Sound
<1>7. CASE Left(u) = L + 2
  <2>1. DoPage(u, o) /\ o.page = 0
    BY <1>2, <1>7, DoByOp, OpNames
  <2>2. /\ UNCHANGED <<image, mipi, system, wanted, mode>> /\ Skip(u)
        /\ \/ page' = 0 /\ failed' = failed
           \/ page' = page /\ failed' = failed \cup {u}
    BY <2>1, PageCases
  <2>3. PictureShown' /\ ModeInEffect'
    BY <2>2, QuietKeeps
  <2>4. Left(u)' = L + 1
    BY <1>1, <1>2, <1>7, <2>2, SkipLeft
  <2>5. Sound(u)' => page' = 0
    BY <2>2 DEF Sound
  <2>6. QED
    BY <1>1, <1>3, <1>4, <2>2, <2>3, <2>4, <2>5 DEF AllPictures
<1>8. QED
  BY <1>2, <1>5, <1>6, <1>7

-----------------------------------------------------------------------------
(* get_image. *)

LEMMA DoGet ==
    ASSUME Shape, Alone, Path, Getting, PictureShown, ModeInEffect,
           NEW u \in Users, Do(u), call[u].cmd = "get"
    PROVE  (Sound(u)' => Got(u)') /\ PictureShown' /\ ModeInEffect'
<1> DEFINE c == call[u].chn
           L == Len(ImageRegs)
           n == Left(u)
           o == Head(todo[u])
           x == image[c][ImageRegs[L - n + 1]]
<1>1. todo[u] # << >> /\ call' = call
  BY DoCases
<1>2. /\ c \in Channels /\ L \in Nat /\ n \in 1..(L + 1)
      /\ n = L + 1 => o = Page(c)
      /\ n <= L => o = ReadImage(ImageRegs[L - n + 1])
  BY <1>1, GetNext
<1>3. Sound(u) => Got(u)
  BY <1>1, NextTransfer DEF Getting
<1>4. CASE n = L + 1
  <2>1. DoPage(u, o) /\ o.page = c
    BY <1>2, <1>4, DoByOp, OpNames
  <2>2. /\ UNCHANGED <<image, mipi, system, wanted, mode, reply>> /\ Skip(u)
        /\ \/ page' = c /\ failed' = failed
           \/ page' = page /\ failed' = failed \cup {u}
    BY <2>1, PageCases
  <2>3. PictureShown' /\ ModeInEffect'
    BY <2>2, QuietKeeps
  <2>4. Left(u)' = L
    BY <1>1, <1>2, <1>4, <2>2, SkipLeft
  <2>5. Sound(u)' => page' = c /\ Got(u)
    BY <1>3, <2>2 DEF Sound
  <2>6. Got(u) => Len(reply[u]) = 0
    BY <1>2, <1>4 DEF Got
  <2>7. L - L = 0 /\ ~(L > L)
    BY <1>2
  <2>8. QED
    BY <1>1, <2>2, <2>3, <2>4, <2>5, <2>6, <2>7 DEF Got
<1>5. CASE n <= L
  <2>1. DoReadImage(u, o) /\ o.reg = ImageRegs[L - n + 1]
    BY <1>2, <1>5, DoByOp, OpNames
  <2>2. /\ Quiet /\ Skip(u)
        /\ \/ page \in Channels /\ Answer(u, image[page][ImageRegs[L - n + 1]]) /\ failed' = failed
           \/ page \notin Channels /\ failed' = failed
           \/ failed' = failed \cup {u}
    BY <2>1, ImageCases
  <2>3. UNCHANGED <<page, image, mipi, system, wanted, mode>>
    BY <2>2 DEF Quiet, chip
  <2>4. PictureShown' /\ ModeInEffect'
    BY <2>3, QuietKeeps
  <2>5. Left(u)' = n - 1
    BY <1>1, <2>2, SkipLeft
  <2>6. ASSUME Sound(u)' PROVE Got(u)'
    <3>1. Sound(u) /\ page = c
      BY <1>2, <1>3, <1>5, <2>2, <2>6 DEF Sound, Got
    <3>2. Answer(u, x)
      BY <1>2, <2>2, <2>6, <3>1 DEF Sound
    <3>3. /\ Len(reply[u]) = L - n
          /\ \A k \in 1..Len(reply[u]) : reply[u][k] = image[c][ImageRegs[k]]
      BY <1>3, <1>5, <3>1 DEF Got
    <3>4. x \in Nat
      <4>1. ImageRegs[L - n + 1] \in Registers
        BY <1>2, <1>5, Regs
      <4>2. QED
        BY <1>2, <4>1 DEF Shape
    <3> HIDE DEF x
    <3>5. /\ Len(reply'[u]) = L - n + 1 /\ reply'[u][L - n + 1] = x
          /\ \A k \in 1..(L - n) : reply'[u][k] = reply[u][k]
      BY <3>2, <3>3, <3>4, AnswerLen
    <3>6. \A k \in 1..(L - n + 1) : reply'[u][k] = image[c][ImageRegs[k]]
      <4>1. SUFFICES ASSUME NEW k \in 1..(L - n + 1) PROVE reply'[u][k] = image[c][ImageRegs[k]]
        OBVIOUS
      <4>2. CASE k = L - n + 1
        BY <3>5, <4>2 DEF x
      <4>3. CASE k # L - n + 1
        <5>1. k \in 1..(L - n)
          BY <1>2, <1>5, <4>3
        <5>2. QED
          BY <3>3, <3>5, <5>1
      <4>4. QED
        BY <4>2, <4>3
    <3>7. L - (n - 1) = L - n + 1 /\ n - 1 <= L /\ ~(n - 1 > L)
      BY <1>2, <1>5
    <3> HIDE DEF n
    <3>8. QED
      BY <1>1, <2>3, <2>5, <3>1, <3>5, <3>6, <3>7 DEF Got
  <2>7. QED
    BY <2>4, <2>6
<1>6. QED
  BY <1>2, <1>4, <1>5

-----------------------------------------------------------------------------
(* The resolution query. *)

LEMMA AnsweredIs ==
    /\ Answered(13) = 0 /\ Answered(12) = 0
    /\ \A c \in Channels :
         /\ Answered(12 - 3 * c) = c /\ Answered(11 - 3 * c) = c /\ Answered(10 - 3 * c) = c
         /\ Answered(9 - 3 * c) = c + 1
         /\ 11 - 3 * c \in {11, 10, 8, 7, 5, 4, 2, 1} /\ 10 - 3 * c \in {11, 10, 8, 7, 5, 4, 2, 1}
         /\ 10 - 3 * c \in {10, 7, 4, 1} /\ 11 - 3 * c \notin {10, 7, 4, 1}
         /\ 12 - 3 * c \notin {11, 10, 8, 7, 5, 4, 2, 1} /\ 12 - 3 * c \notin {10, 7, 4, 1}
         /\ 9 - 3 * c \notin {11, 10, 8, 7, 5, 4, 2, 1} /\ 9 - 3 * c \notin {10, 7, 4, 1}
<1>1. \A n \in 0..13 : Answered(n) = IF n >= 12 THEN 0 ELSE (12 - n) \div 3
  BY DEF Answered
<1>2. \A c \in Channels : c = 0 \/ c = 1 \/ c = 2 \/ c = 3
  BY PageSet
<1>3. QED
  BY <1>1, <1>2

\* A transfer adds an answer or none.
LEMMA AskNone ==
    ASSUME NEW u \in Users, NEW c \in Channels, NEW n, NEW p, Shape, Asked(u), Answered(Left(u)) = c,
           Left(u)' = n, Answered(n) = c, reply' = reply, page' = p,
           \A d \in Channels \ {c} : due'[u][d] = due[u][d],
           n \in {11, 10, 8, 7, 5, 4, 2, 1} => p = c,
           n \in {10, 7, 4, 1} => due'[u][c] = {}
    PROVE  Asked(u)'
<1>1. ASSUME NEW d \in Channels, d < c PROVE Right(u, d)'
  <2>1. d # c /\ Right(u, d)
    BY <1>1, PageSet DEF Asked
  <2>2. QED
    BY <2>1 DEF Right
<1>2. QED
  BY <1>1 DEF Asked

LEMMA AskOne ==
    ASSUME NEW u \in Users, NEW c \in Channels, NEW v \in Nat, Shape, Asked(u), Answered(Left(u)) = c,
           Answer(u, v), Left(u)' = 9 - 3 * c, v \in due'[u][c],
           \A d \in Channels \ {c} : due'[u][d] = due[u][d]
    PROVE  Asked(u)'
<1>1. Len(reply[u]) = c /\ \A d \in Channels : d < c => Right(u, d)
  BY DEF Asked
<1>2. /\ Len(reply'[u]) = c + 1 /\ reply'[u][c + 1] = v
      /\ \A k \in 1..c : reply'[u][k] = reply[u][k]
  BY <1>1, AnswerLen
<1>3. Answered(Left(u)') = c + 1
  BY AnsweredIs
<1>4. Left(u)' \notin {11, 10, 8, 7, 5, 4, 2, 1} /\ Left(u)' \notin {10, 7, 4, 1}
  BY AnsweredIs
<1>5. ASSUME NEW d \in Channels, d < c + 1 PROVE Right(u, d)'
  <2>1. CASE d < c
    <3>1. d + 1 \in 1..c /\ d # c
      BY <2>1, PageSet
    <3>2. reply'[u][d + 1] = reply[u][d + 1]
      BY <1>2, <3>1
    <3>3. QED
      BY <1>1, <2>1, <3>1, <3>2 DEF Right
  <2>2. CASE d = c
    BY <1>2, <2>2 DEF Right
  <2>3. QED
    BY <1>5, <2>1, <2>2, PageSet
<1>6. QED
  BY <1>2, <1>3, <1>4, <1>5 DEF Asked

LEMMA DoAsk ==
    ASSUME Shape, Alone, Path, Asking, PictureShown, ModeInEffect,
           NEW u \in Users, Do(u), call[u].cmd = "resolution"
    PROVE  (Sound(u)' => Asked(u)') /\ PictureShown' /\ ModeInEffect'
<1> DEFINE n == Left(u)
           o == Head(todo[u])
<1>1. todo[u] # << >> /\ call' = call
  BY DoCases
<1>2. /\ n \in 1..13 /\ (n = 13 => o = Page(0))
      /\ \A c \in Channels : /\ n = 12 - 3 * c => o = Page(c)
                             /\ n = 11 - 3 * c => o = ReadLoss(c)
                             /\ n = 10 - 3 * c => o = ReadFormat(c)
  BY <1>1, AskNext
<1>3. Sound(u) => Asked(u)
  BY <1>1, NextTransfer DEF Asking
<1>4. n = 13 \/ \E c \in Channels : n \in {12 - 3 * c, 11 - 3 * c, 10 - 3 * c}
  <2>1. \/ n = 13 \/ n = 12 \/ n = 11 \/ n = 10 \/ n = 9 \/ n = 8 \/ n = 7 \/ n = 6 \/ n = 5 \/ n = 4
        \/ n = 3 \/ n = 2 \/ n = 1
    BY <1>2
  <2>2. 0 \in Channels /\ 1 \in Channels /\ 2 \in Channels /\ 3 \in Channels
    BY PageSet
  <2>3. /\ n \in {12, 11, 10} => n \in {12 - 3 * 0, 11 - 3 * 0, 10 - 3 * 0}
        /\ n \in {9, 8, 7} => n \in {12 - 3 * 1, 11 - 3 * 1, 10 - 3 * 1}
        /\ n \in {6, 5, 4} => n \in {12 - 3 * 2, 11 - 3 * 2, 10 - 3 * 2}
        /\ n \in {3, 2, 1} => n \in {12 - 3 * 3, 11 - 3 * 3, 10 - 3 * 3}
    OBVIOUS
  <2> HIDE DEF n
  <2>4. QED
    BY <2>1, <2>2, <2>3
\* Selecting a page.
<1>5. ASSUME NEW c \in Channels, o = Page(c), (n = 13 /\ c = 0) \/ n = 12 - 3 * c
      PROVE  (Sound(u)' => Asked(u)') /\ PictureShown' /\ ModeInEffect'
  <2>1. DoPage(u, o) /\ o.page = c /\ due' = due
    BY <1>5, DoByOp, OpNames
  <2>2. /\ UNCHANGED <<image, mipi, system, wanted, mode, reply>> /\ Skip(u)
        /\ \/ page' = c /\ failed' = failed
           \/ page' = page /\ failed' = failed \cup {u}
    BY <2>1, PageCases
  <2>3. PictureShown' /\ ModeInEffect'
    BY <2>2, QuietKeeps
  <2>4. Left(u)' = n - 1
    BY <1>1, <2>2, SkipLeft
  <2>5. Answered(n) = c /\ Answered(n - 1) = c /\ n - 1 \notin {10, 7, 4, 1}
    <3>1. CASE n = 13 /\ c = 0
      BY <3>1, AnsweredIs
    <3>2. CASE n = 12 - 3 * c
      <4>1. n - 1 = 11 - 3 * c
        BY <3>2, PageSet
      <4>2. QED
        BY <3>2, <4>1, AnsweredIs
    <3>3. QED
      BY <1>5, <3>1, <3>2
  <2>6. Sound(u)' => Asked(u) /\ page' = c
    BY <1>3, <2>2 DEF Sound
  <2>7. QED
    BY <1>1, <2>1, <2>2, <2>3, <2>4, <2>5, <2>6, AskNone
\* The signal is lost or not.
<1>6. ASSUME NEW c \in Channels, o = ReadLoss(c), n = 11 - 3 * c
      PROVE  (Sound(u)' => Asked(u)') /\ PictureShown' /\ ModeInEffect'
  <2>1. DoReadLoss(u, o) /\ o.chn = c
    BY <1>6, DoByOp, OpNames
  <2>d. /\ due'[u][c] = IF signal[c] = VideoLoss THEN {VideoLoss} ELSE {}
        /\ \A d \in Channels \ {c} : due'[u][d] = due[u][d]
    BY <2>1, LossDue
  <2>2. /\ Quiet
        /\ \/ /\ page \in Channels /\ signal[page] = VideoLoss
              /\ Answer(u, VideoLoss) /\ todo' = [todo EXCEPT ![u] = Tail(Tail(@))] /\ failed' = failed
           \/ /\ ~(page \in Channels /\ signal[page] = VideoLoss)
              /\ reply' = reply /\ Skip(u) /\ failed' = failed
           \/ failed' = failed \cup {u}
    BY <2>1, LossCases
  <2>3. UNCHANGED <<page, image, mipi, system, wanted, mode>>
    BY <2>2 DEF Quiet, chip
  <2>4. PictureShown' /\ ModeInEffect'
    BY <2>3, QuietKeeps
  <2>5. Answered(n) = c /\ n \in {11, 10, 8, 7, 5, 4, 2, 1}
    BY <1>6, AnsweredIs
  <2>6. ASSUME Sound(u)' PROVE Asked(u)'
    <3>1. Sound(u) /\ Asked(u)
      BY <1>3, <2>2, <2>6 DEF Sound
    <3>2. page = c
      BY <2>5, <3>1 DEF Asked
    <3>3. CASE Answer(u, VideoLoss) /\ todo' = [todo EXCEPT ![u] = Tail(Tail(@))] /\ signal[page] = VideoLoss
      <4>1. Left(u)' = 9 - 3 * c
        <5>1. EndOf(Tail(todo[u]), Script(call[u])) /\ Len(Tail(todo[u])) = n - 1 /\ Script(call[u]) \in Seq(Ops)
          BY <1>1, NextTransfer, ScriptSeq
        <5>2. n - 1 = 10 - 3 * c /\ n - 1 # 0 /\ n - 2 = 9 - 3 * c /\ n - 1 - 1 = n - 2
          BY <1>6, PageSet
        <5>3. Tail(todo[u]) # << >>
          BY <5>1, <5>2
        <5>4. Len(Tail(Tail(todo[u]))) = n - 1 - 1
          BY <5>1, <5>3, TailEnd
        <5>5. todo'[u] = Tail(Tail(todo[u]))
          BY <3>3 DEF Shape
        <5>6. QED
          BY <5>2, <5>4, <5>5 DEF Left
      <4>2. VideoLoss \in due'[u][c] /\ VideoLoss \in Nat
        BY <2>d, <3>2, <3>3 DEF VideoLoss
      <4>3. QED
        BY <2>d, <2>5, <3>1, <3>3, <4>1, <4>2, AskOne
    <3>4. CASE reply' = reply /\ Skip(u) /\ ~(page \in Channels /\ signal[page] = VideoLoss)
      <4>1. Left(u)' = 10 - 3 * c
        <5>1. Left(u)' = n - 1
          BY <1>1, <3>4, SkipLeft
        <5>2. n - 1 = 10 - 3 * c
          BY <1>6, PageSet
        <5>3. QED
          BY <5>1, <5>2
      <4>2. Answered(10 - 3 * c) = c
        BY AnsweredIs
      <4>3. due'[u][c] = {}
        BY <2>d, <3>2, <3>4
      <4>4. QED
        BY <2>d, <2>3, <2>5, <3>1, <3>2, <3>4, <4>1, <4>2, <4>3, AskNone
    <3>5. QED
      BY <2>2, <2>6, <3>3, <3>4 DEF Sound
  <2>7. QED
    BY <2>4, <2>6
\* The format of a channel that had a signal.
<1>7. ASSUME NEW c \in Channels, o = ReadFormat(c), n = 10 - 3 * c
      PROVE  (Sound(u)' => Asked(u)') /\ PictureShown' /\ ModeInEffect'
  <2>1. DoReadFormat(u, o) /\ o.chn = c
    BY <1>7, DoByOp, OpNames
  <2>d. /\ due[u][c] = {} =>
             due'[u][c] = IF signal[c] # VideoLoss THEN {signal[c]} ELSE Standards
        /\ \A d \in Channels \ {c} : due'[u][d] = due[u][d]
    BY <2>1, FormatDue
  <2>2. /\ Quiet /\ Skip(u)
        /\ \/ /\ page \in Channels /\ signal[page] # VideoLoss
              /\ Answer(u, signal[page]) /\ failed' = failed
           \/ /\ ~(page \in Channels /\ signal[page] # VideoLoss)
              /\ \E v \in Standards : Answer(u, v)
              /\ failed' = failed
           \/ failed' = failed \cup {u}
    BY <2>1, FormatCases
  <2>3. UNCHANGED <<page, image, mipi, system, wanted, mode>>
    BY <2>2 DEF Quiet, chip
  <2>4. PictureShown' /\ ModeInEffect'
    BY <2>3, QuietKeeps
  <2>5. Answered(n) = c /\ n \in {11, 10, 8, 7, 5, 4, 2, 1} /\ n \in {10, 7, 4, 1}
    BY <1>7, AnsweredIs
  <2>6. Left(u)' = 9 - 3 * c
    <3>1. Left(u)' = n - 1
      BY <1>1, <2>2, SkipLeft
    <3>2. n - 1 = 9 - 3 * c
      BY <1>7, PageSet
    <3>3. QED
      BY <3>1, <3>2
  <2>7. ASSUME Sound(u)' PROVE Asked(u)'
    <3>1. Sound(u) /\ Asked(u)
      BY <1>3, <2>2, <2>7 DEF Sound
    <3>2. page = c /\ due[u][c] = {}
      BY <2>5, <3>1 DEF Asked
    <3>3. CASE signal[c] # VideoLoss
      <4>1. Answer(u, signal[c]) /\ signal[c] \in Nat
        BY <2>2, <2>7, <3>2, <3>3 DEF Sound, Shape
      <4>2. signal[c] \in due'[u][c]
        BY <2>d, <3>2, <3>3
      <4>3. QED
        BY <2>d, <2>5, <2>6, <3>1, <4>1, <4>2, AskOne
    <3>4. CASE signal[c] = VideoLoss
      <4>1. PICK v \in Standards : Answer(u, v)
        BY <2>2, <2>7, <3>2, <3>4 DEF Sound
      <4>2. v \in due'[u][c] /\ v \in Nat
        BY <2>d, <3>2, <3>4, <4>1, TpConstants DEF TpConstants
      <4>3. QED
        BY <2>d, <2>5, <2>6, <3>1, <4>1, <4>2, AskOne
    <3>5. QED
      BY <3>3, <3>4
  <2>8. QED
    BY <2>4, <2>7
<1>8. CASE n = 13
  BY <1>2, <1>5, <1>8, PageSet
<1>9. CASE \E c \in Channels : n \in {12 - 3 * c, 11 - 3 * c, 10 - 3 * c}
  BY <1>2, <1>5, <1>6, <1>7, <1>9
<1>10. QED
  BY <1>4, <1>8, <1>9

-----------------------------------------------------------------------------
(* Dumps and raw accesses. *)

LEMMA DoRaw ==
    ASSUME Shape, Alone, Path, PictureShown, ModeInEffect,
           NEW u \in Users, Do(u), call[u].cmd \in {"dump", "proc_dump", "read", "write", "proc"}
    PROVE  PictureShown' /\ ModeInEffect'
<1> DEFINE o == Head(todo[u])
<1>1. todo[u] # << >>
  BY DoCases
<1>2. /\ o \in Ops /\ o.op \in {"page", "put", "system", "read"}
      /\ o.op \in {"put", "system"} => Unsound(u)
  BY <1>1, Kinds, RawNext
<1>3. CASE o.op = "page"
  <2>1. DoPage(u, o)
    BY <1>3, DoByOp
  <2>2. QED
    BY <2>1, PageCases, QuietKeeps
<1>4. CASE o.op = "read"
  <2>1. DoReadOther(u, o)
    BY <1>4, DoByOp
  <2>2. UNCHANGED <<image, mipi, system, wanted, mode>>
    BY <2>1 DEF DoReadOther, Quiet, chip
  <2>3. QED
    BY <2>2, QuietKeeps
<1>5. CASE o.op = "put"
  <2>1. DoPut(u, o) /\ o.val \in Nat /\ Unsound(u)
    BY <1>2, <1>5, DoByOp, OpFields
  <2>2. CASE Quiet
    BY <2>2, QuietKeeps DEF Quiet, chip
  <2>3. CASE Write(o.reg, o.val) /\ Account(u, o.reg)
    BY <2>1, <2>3, WriteKeeps
  <2>4. QED
    BY <2>1, <2>2, <2>3, PutCases
<1>6. CASE o.op = "system"
  <2>1. DoWriteSystem(u, o) /\ Unsound(u)
    BY <1>2, <1>6, DoByOp
  <2>2. /\ UNCHANGED <<image, mipi, wanted>> /\ (mode' = mode \/ mode' = "unknown")
        /\ mode' # "unknown" => system' = system
    BY <2>1, StoreCases
  <2>3. PictureShown'
    BY <2>2 DEF PictureShown
  <2>4. ModeInEffect'
    BY <2>2 DEF ModeInEffect
  <2>5. QED
    BY <2>3, <2>4
<1>7. QED
  BY <1>2, <1>3, <1>4, <1>5, <1>6

-----------------------------------------------------------------------------
(* A change of the mode. *)

LEMMA ModeEffect ==
    ASSUME Shape, Path, PictureShown, NEW u \in Users, Do(u), call[u].cmd = "mode", mode = "unknown",
           LET o == Head(todo[u]) IN o.op = "put" /\ Sound(u) /\ o.reg \in Registers => page = Mipi
    PROVE  LET o == Head(todo[u])
           IN  /\ mode' = "unknown" /\ PictureShown'
               /\ Sound(u)' =>
                    /\ Sound(u) /\ Left(u)' = Left(u) - 1
                    /\ o.op = "page" => page' = o.page /\ UNCHANGED <<mipi, system, tmp>>
                    /\ o.op = "put" =>
                         /\ UNCHANGED <<page, system, tmp>>
                         /\ \A q \in MipiRegs :
                              mipi'[q] = IF page = Mipi /\ q = o.reg THEN o.val ELSE mipi[q]
                    /\ o.op = "id" => UNCHANGED <<page, mipi, system, tmp>>
                    /\ o.op = "fetch" => /\ UNCHANGED <<page, mipi, system>>
                                         /\ page # Mipi => tmp'[u] = system
                    /\ o.op = "system" => UNCHANGED <<page, mipi>>
                    /\ o.op = "store" => /\ UNCHANGED <<page, mipi>>
                                         /\ page # Mipi => system' = (tmp[u] \cup o.on) \ o.off
<1> DEFINE o == Head(todo[u])
<1>1. todo[u] # << >> /\ u \in DOMAIN tmp
  BY DoCases DEF Shape
<1>2. o \in Ops /\ o.op \in {"page", "put", "id", "fetch", "system", "store"}
  BY <1>1, Kinds, ModeNext
<1>3. Skip(u) => Left(u)' = Left(u) - 1
  BY <1>1, SkipLeft
<1>4. CASE o.op = "page"
  <2>1. DoPage(u, o) /\ tmp' = tmp
    BY <1>4, DoByOp
  <2>2. /\ Skip(u) /\ UNCHANGED <<image, mipi, system, wanted, mode>>
        /\ \/ page' = o.page /\ failed' = failed
           \/ failed' = failed \cup {u}
    BY <2>1, PageCases
  <2>3. PictureShown'
    BY <2>2 DEF PictureShown
  <2> HIDE DEF o
  <2>4. QED
    BY <1>3, <1>4, <2>1, <2>2, <2>3 DEF Sound, o
<1>5. CASE o.op = "put"
  <2>1. DoPut(u, o) /\ tmp' = tmp /\ o.val \in Nat
    BY <1>2, <1>5, DoByOp, OpFields
  <2>2. /\ Skip(u)
        /\ \/ Write(o.reg, o.val) /\ Account(u, o.reg) /\ failed' = failed
           \/ Quiet /\ failed' = failed \cup {u}
    BY <2>1, PutCases
  <2>3. CASE Quiet /\ failed' = failed \cup {u}
    <3>1. PictureShown' /\ mode' = mode
      BY <2>3 DEF PictureShown, Quiet, chip
    <3>2. ~Sound(u)'
      BY <2>3 DEF Sound
    <3>3. QED
      BY <3>1, <3>2
  <2>4. CASE Write(o.reg, o.val) /\ Account(u, o.reg) /\ failed' = failed
    <3>1. mode' = "unknown"
      BY <2>4, AccountFacts
    <3>2. \/ Unsound(u)
          \/ \A c \in Targets : o.reg \in Registers => wanted[c][o.reg] = Unknown
      <4>1. Unsound(u) \/ Sound(u)
        BY DEF Unsound, Sound
      <4>2. page = Mipi => Targets = {}
        BY PageSet DEF Targets
      <4>3. QED
        BY <1>5, <4>1, <4>2
    <3>3. PictureShown'
      BY <2>1, <2>4, <3>2, WriteKeeps DEF ModeInEffect
    <3>4. /\ UNCHANGED <<page, system>>
          /\ \A q \in MipiRegs :
               mipi'[q] = IF page = Mipi /\ q = o.reg THEN o.val ELSE mipi[q]
      BY <2>1, <2>4, WriteFacts
    <3>5. Sound(u)' => Sound(u)
      BY <2>4 DEF Sound
    <3> HIDE DEF o
    <3>6. QED
      BY <1>3, <1>5, <2>1, <2>2, <3>1, <3>3, <3>4, <3>5 DEF o
  <2>5. QED
    BY <2>2, <2>3, <2>4
<1>6. CASE o.op = "id"
  <2>1. DoReadId(u, o) /\ tmp' = tmp
    BY <1>6, DoByOp
  <2>2. Quiet /\ ((Skip(u) /\ failed' = failed) \/ failed' = failed \cup {u})
    BY <2>1, IdCases
  <2>3. UNCHANGED <<page, image, mipi, system, wanted, mode>>
    BY <2>2 DEF Quiet, chip
  <2>4. PictureShown'
    BY <2>3 DEF PictureShown
  <2> HIDE DEF o
  <2>5. QED
    BY <1>3, <1>6, <2>1, <2>2, <2>3, <2>4 DEF Sound, o
<1>7. CASE o.op = "fetch"
  <2>1. DoReadSystem(u, o)
    BY <1>7, DoByOp
  <2>2. /\ Quiet /\ Skip(u)
        /\ \/ tmp' = [tmp EXCEPT ![u] = IF page # Mipi THEN system ELSE {}] /\ failed' = failed
           \/ failed' = failed \cup {u}
    BY <2>1, SystemCases
  <2>3. UNCHANGED <<page, image, mipi, system, wanted, mode>>
    BY <2>2 DEF Quiet, chip
  <2>4. PictureShown'
    BY <2>3 DEF PictureShown
  <2>5. Sound(u)' => Sound(u) /\ (page # Mipi => tmp'[u] = system)
    BY <1>1, <2>2 DEF Sound
  <2> HIDE DEF o
  <2>6. QED
    BY <1>3, <1>7, <2>2, <2>3, <2>4, <2>5 DEF o
<1>8. CASE o.op \in {"system", "store"}
  <2>1. DoWriteSystem(u, o)
    BY <1>8, DoByOp
  <2>2. /\ UNCHANGED <<page, image, mipi, wanted>> /\ Skip(u) /\ mode' = "unknown"
        /\ \/ /\ system' = (IF page # Mipi
                            THEN (IF o.op = "system" THEN o.set ELSE (tmp[u] \cup o.on) \ o.off)
                            ELSE system)
              /\ failed' = failed
           \/ failed' = failed \cup {u}
    BY <2>1, StoreCases
  <2>3. PictureShown'
    BY <2>2 DEF PictureShown
  <2>4. Sound(u)' => /\ Sound(u)
                     /\ o.op = "store" => (page # Mipi => system' = (tmp[u] \cup o.on) \ o.off)
    BY <2>2 DEF Sound
  <2> HIDE DEF o
  <2>5. QED
    BY <1>3, <1>8, <2>2, <2>3, <2>4 DEF o
<1>9. QED
  BY <1>2, <1>4, <1>5, <1>6, <1>7, <1>8

\* The transfer that comes next, with two lanes and with four.
LEMMA TwoNext ==
    ASSUME Shape, Path, NEW u \in Users, todo[u] # << >>, call[u].cmd = "mode",
           call[u].mode \in TwoLaneModes
    PROVE  LET m == call[u].mode  n == Left(u)  o == Head(todo[u])
           IN  /\ n \in 1..28
               /\ n = 28 => o = Page(Mipi)
               /\ n = 27 => o = Put("23", 2)
               /\ n = 26 => o = Page(0)
               /\ n = 25 => o = Page(0)
               /\ n = 24 => o = ReadId
               /\ n = 23 => o = Page(Mipi)
               /\ n = 22 => o = Put("23", 2)
               /\ n = 21 => o = Page(2)
               /\ n = 20 => o = Page(3)
               /\ n = 19 => o = Page(0)
               /\ n = 18 => o = WriteSystem({2, 3})
               /\ n = 17 => o = Page(0)
               /\ n = 16 => o = ReadSystem
               /\ n = 15 => o = ChangeSystem(SetBy(m, {0}), ClearedBy(m, {0}))
               /\ n = 14 => o = Put("23", 60)
               /\ n = 13 => o = Page(1)
               /\ n = 12 => o = ReadSystem
               /\ n = 11 => o = ChangeSystem(SetBy(m, {1}), ClearedBy(m, {1}))
               /\ n = 10 => o = Put("23", 60)
               /\ n = 9 => o = Page(Mipi)
               /\ n = 8 => o = Put("10", 32)
               /\ n = 7 => o = Put("11", 71)
               /\ n = 6 => o = Put("12", 84)
               /\ n = 5 => o = Put("13", 239)
               /\ n = 4 => o = Put("14", Clock(m))
               /\ n = 3 => o = Put("14", Pulse(m))
               /\ n = 2 => o = Put("14", Clock(m))
               /\ n = 1 => o = Put("23", 0)
<1> DEFINE m == call[u].mode
           s == SetVideoMode(m)
<1>1. Left(u) \in 1..Len(s) /\ Head(todo[u]) = FromEnd(s, Left(u))
  BY ModeNext
<1>2. m \in TwoLaneModes
  OBVIOUS
<1>3. Len(s) = 28
  BY <1>2, TwoLanesScript
<1>4. /\ FromEnd(s, 28) = Page(Mipi)
      /\ FromEnd(s, 27) = Put("23", 2)
      /\ FromEnd(s, 26) = Page(0)
      /\ FromEnd(s, 25) = Page(0)
      /\ FromEnd(s, 24) = ReadId
      /\ FromEnd(s, 23) = Page(Mipi)
      /\ FromEnd(s, 22) = Put("23", 2)
      /\ FromEnd(s, 21) = Page(2)
  BY <1>2, TwoLanesScript
<1>5. /\ FromEnd(s, 20) = Page(3)
      /\ FromEnd(s, 19) = Page(0)
      /\ FromEnd(s, 18) = WriteSystem({2, 3})
      /\ FromEnd(s, 17) = Page(0)
      /\ FromEnd(s, 16) = ReadSystem
      /\ FromEnd(s, 15) = ChangeSystem(SetBy(m, {0}), ClearedBy(m, {0}))
      /\ FromEnd(s, 14) = Put("23", 60)
      /\ FromEnd(s, 13) = Page(1)
  BY <1>2, TwoLanesScript
<1>6. /\ FromEnd(s, 12) = ReadSystem
      /\ FromEnd(s, 11) = ChangeSystem(SetBy(m, {1}), ClearedBy(m, {1}))
      /\ FromEnd(s, 10) = Put("23", 60)
      /\ FromEnd(s, 9) = Page(Mipi)
      /\ FromEnd(s, 8) = Put("10", 32)
  BY <1>2, TwoLanesScript
<1>7. /\ FromEnd(s, 7) = Put("11", 71)
      /\ FromEnd(s, 6) = Put("12", 84)
      /\ FromEnd(s, 5) = Put("13", 239)
  BY <1>2, TwoLanesScript, ZenonT(60)
<1>a. /\ FromEnd(s, 4) = Put("14", Clock(m))
      /\ FromEnd(s, 3) = Put("14", Pulse(m))
      /\ FromEnd(s, 2) = Put("14", Clock(m))
      /\ FromEnd(s, 1) = Put("23", 0)
  BY <1>2, TwoLanesScript
<1> DEFINE n == Left(u)
           o == Head(todo[u])
<1>8. n \in 1..28 /\ o = FromEnd(s, n)
  BY <1>1, <1>3
<1> HIDE DEF s, n, o
<1>9. /\ n = 28 => o = Page(Mipi)
      /\ n = 27 => o = Put("23", 2)
      /\ n = 26 => o = Page(0)
      /\ n = 25 => o = Page(0)
      /\ n = 24 => o = ReadId
      /\ n = 23 => o = Page(Mipi)
      /\ n = 22 => o = Put("23", 2)
      /\ n = 21 => o = Page(2)
  BY <1>4, <1>8
<1>10. /\ n = 20 => o = Page(3)
       /\ n = 19 => o = Page(0)
       /\ n = 18 => o = WriteSystem({2, 3})
       /\ n = 17 => o = Page(0)
       /\ n = 16 => o = ReadSystem
       /\ n = 15 => o = ChangeSystem(SetBy(m, {0}), ClearedBy(m, {0}))
       /\ n = 14 => o = Put("23", 60)
       /\ n = 13 => o = Page(1)
  BY <1>5, <1>8
<1>11. /\ n = 12 => o = ReadSystem
       /\ n = 11 => o = ChangeSystem(SetBy(m, {1}), ClearedBy(m, {1}))
       /\ n = 10 => o = Put("23", 60)
       /\ n = 9 => o = Page(Mipi)
       /\ n = 8 => o = Put("10", 32)
  BY <1>6, <1>8
<1>12. /\ n = 7 => o = Put("11", 71)
       /\ n = 6 => o = Put("12", 84)
       /\ n = 5 => o = Put("13", 239)
       /\ n = 4 => o = Put("14", Clock(m))
       /\ n = 3 => o = Put("14", Pulse(m))
       /\ n = 2 => o = Put("14", Clock(m))
       /\ n = 1 => o = Put("23", 0)
  BY <1>7, <1>8, <1>a
<1>13. QED
  BY <1>8, <1>9, <1>10, <1>11, <1>12, Zenon DEF n, o


LEMMA FourNext ==
    ASSUME Shape, Path, NEW u \in Users, todo[u] # << >>, call[u].cmd = "mode",
           call[u].mode \notin TwoLaneModes
    PROVE  LET m == call[u].mode  n == Left(u)  o == Head(todo[u])
           IN  /\ n \in 1..18
               /\ n = 18 => o = Page(Mipi)
               /\ n = 17 => o = Put("23", 2)
               /\ n = 16 => o = Page(0)
               /\ n = 15 => o = Page(N)
               /\ n = 14 => o = WriteSystem({})
               /\ n = 13 => o = Put("23", 60)
               /\ n = 12 => o = ReadSystem
               /\ n = 11 => o = ChangeSystem(SetBy(m, Channels), ClearedBy(m, Channels))
               /\ n = 10 => o = Page(Mipi)
               /\ n = 9 => o = Put("10", 32)
               /\ n = 8 => o = Put("11", 71)
               /\ n = 7 => o = Put("12", 84)
               /\ n = 6 => o = Put("13", 239)
               /\ n = 5 => o = Put("14", Clock(m))
               /\ n = 4 => o = Put("14", Pulse(m))
               /\ n = 3 => o = Put("14", Clock(m))
               /\ n = 2 => o = Put("23", 2)
               /\ n = 1 => o = Put("23", 0)
<1> DEFINE m == call[u].mode
           s == SetVideoMode(m)
<1>1. Left(u) \in 1..Len(s) /\ Head(todo[u]) = FromEnd(s, Left(u))
  BY ModeNext
<1>2. m \notin TwoLaneModes
  OBVIOUS
<1>3. Len(s) = 18
  BY <1>2, FourLanesScript
<1>4. /\ FromEnd(s, 18) = Page(Mipi)
      /\ FromEnd(s, 17) = Put("23", 2)
      /\ FromEnd(s, 16) = Page(0)
      /\ FromEnd(s, 15) = Page(N)
      /\ FromEnd(s, 14) = WriteSystem({})
      /\ FromEnd(s, 13) = Put("23", 60)
      /\ FromEnd(s, 12) = ReadSystem
      /\ FromEnd(s, 11) = ChangeSystem(SetBy(m, Channels), ClearedBy(m, Channels))
  BY <1>2, FourLanesScript
<1>5. /\ FromEnd(s, 10) = Page(Mipi)
      /\ FromEnd(s, 9) = Put("10", 32)
      /\ FromEnd(s, 8) = Put("11", 71)
      /\ FromEnd(s, 7) = Put("12", 84)
      /\ FromEnd(s, 6) = Put("13", 239)
      /\ FromEnd(s, 5) = Put("14", Clock(m))
      /\ FromEnd(s, 4) = Put("14", Pulse(m))
      /\ FromEnd(s, 3) = Put("14", Clock(m))
      /\ FromEnd(s, 2) = Put("23", 2)
      /\ FromEnd(s, 1) = Put("23", 0)
  BY <1>2, FourLanesScript
<1> HIDE DEF s
<1>6. QED
  BY <1>1, <1>3, <1>4, <1>5

\* With two lanes: the block is set, then each channel, then the clocks.
LEMMA DoTwo ==
    ASSUME Shape, Alone, Path, Changing, PictureShown,
           NEW u \in Users, Do(u), call[u].cmd = "mode", call[u].mode \in TwoLaneModes
    PROVE  Changed(u)' /\ PictureShown'
<1> DEFINE m == call[u].mode
           n == Left(u)
           o == Head(todo[u])
           on == m \in HDModes
<1>1. todo[u] # << >> /\ call' = call /\ Changed(u)
  BY DoCases, NextTransfer DEF Changing
<1>2. mode = "unknown" /\ (Sound(u) => Block(u) /\ TwoLanes(u)) /\ (HD(u) <=> on)
  BY <1>1 DEF Changed, HD, HDModes
<1>3. n \in 1..28
  BY <1>1, TwoNext
<1>4. /\ n = 28 => o = Page(Mipi)
      /\ n = 27 => o = Put("23", 2)
      /\ n = 26 => o = Page(0)
      /\ n = 25 => o = Page(0)
      /\ n = 24 => o = ReadId
      /\ n = 23 => o = Page(Mipi)
      /\ n = 22 => o = Put("23", 2)
      /\ n = 21 => o = Page(2)
  BY <1>1, TwoNext
<1>5. /\ n = 20 => o = Page(3)
      /\ n = 19 => o = Page(0)
      /\ n = 18 => o = WriteSystem({2, 3})
      /\ n = 17 => o = Page(0)
      /\ n = 16 => o = ReadSystem
      /\ n = 15 => o = ChangeSystem(SetBy(m, {0}), ClearedBy(m, {0}))
      /\ n = 14 => o = Put("23", 60)
      /\ n = 13 => o = Page(1)
  BY <1>1, TwoNext
<1>6. /\ n = 12 => o = ReadSystem
      /\ n = 11 => o = ChangeSystem(SetBy(m, {1}), ClearedBy(m, {1}))
      /\ n = 10 => o = Put("23", 60)
      /\ n = 9 => o = Page(Mipi)
      /\ n = 8 => o = Put("10", 32)
      /\ n = 7 => o = Put("11", 71)
      /\ n = 6 => o = Put("12", 84)
      /\ n = 5 => o = Put("13", 239)
      /\ n = 4 => o = Put("14", Clock(m))
      /\ n = 3 => o = Put("14", Pulse(m))
      /\ n = 2 => o = Put("14", Clock(m))
  BY <1>1, TwoNext
<1>7. /\ n = 1 => o = Put("23", 0)
  BY <1>1, TwoNext
<1> HIDE DEF m, n, o, on
<1>8. o.op = "put" /\ Sound(u) /\ o.reg \in Registers => page = Mipi
  <2>1. SUFFICES ASSUME o.op = "put", Sound(u), o.reg # "23" PROVE page = Mipi
    BY Regs
  <2>2. n \in 2..8
    <3>1. n \notin {28, 27, 26, 25, 24, 23, 22, 21, 20, 19, 18, 17, 16, 15, 14, 13, 12, 11, 10, 9, 1}
      BY <2>1, <1>4, <1>5, <1>6, <1>7, OpNames
    <3>2. QED
      BY <1>3, <3>1
  <2>3. QED
    BY <1>2, <2>1, <2>2 DEF Block, TwoLanes, n
<1>9. /\ mode' = "unknown" /\ PictureShown'
      /\ Sound(u)' =>
           /\ Sound(u) /\ Left(u)' = n - 1
           /\ o.op = "page" => page' = o.page /\ UNCHANGED <<mipi, system, tmp>>
           /\ o.op = "put" =>
                /\ UNCHANGED <<page, system, tmp>>
                /\ \A q \in MipiRegs :
                     mipi'[q] = IF page = Mipi /\ q = o.reg THEN o.val ELSE mipi[q]
           /\ o.op = "id" => UNCHANGED <<page, mipi, system, tmp>>
           /\ o.op = "fetch" => UNCHANGED <<page, mipi, system>> /\ (page # Mipi => tmp'[u] = system)
           /\ o.op = "system" => UNCHANGED <<page, mipi>>
           /\ o.op = "store" => /\ UNCHANGED <<page, mipi>>
                                /\ page # Mipi => system' = (tmp[u] \cup o.on) \ o.off
  BY <1>2, <1>8, ModeEffect DEF n, o
<1>10. SUFFICES ASSUME Sound(u)' PROVE Block(u)' /\ TwoLanes(u)'
  BY <1>1, <1>9 DEF Changed
<1>11. Sound(u) /\ Left(u)' = n - 1 /\ (HD(u)' <=> on) /\ call' = call
  BY <1>1, <1>2, <1>9, <1>10 DEF HD
<1>12. CASE n = 28
  <2>1. page' = Mipi /\ UNCHANGED <<mipi, system, tmp>>
    BY <1>12, <1>4, <1>9, <1>10, OpNames
  <2>2. QED
    BY <1>2, <1>11, <1>12, <2>1, PageSet DEF Block, TwoLanes, n
<1>13. CASE n = 27
  <2>1. /\ UNCHANGED <<page, system, tmp>>
        /\ \A q \in MipiRegs : mipi'[q] = IF page = Mipi /\ q = "23" THEN 2 ELSE mipi[q]
    BY <1>13, <1>4, <1>9, <1>10, OpNames
  <2>2. QED
    BY <1>2, <1>11, <1>13, <2>1, PageSet DEF Block, TwoLanes, MipiRegs, n, m
<1>14. CASE n = 26
  <2>1. page' = 0 /\ UNCHANGED <<mipi, system, tmp>>
    BY <1>14, <1>4, <1>9, <1>10, OpNames
  <2>2. QED
    BY <1>2, <1>11, <1>14, <2>1, PageSet DEF Block, TwoLanes, n
<1>15. CASE n = 25
  <2>1. page' = 0 /\ UNCHANGED <<mipi, system, tmp>>
    BY <1>15, <1>4, <1>9, <1>10, OpNames
  <2>2. QED
    BY <1>2, <1>11, <1>15, <2>1, PageSet DEF Block, TwoLanes, n
<1>16. CASE n = 24
  <2>1. UNCHANGED <<page, mipi, system, tmp>>
    BY <1>16, <1>4, <1>9, <1>10, OpNames
  <2>2. QED
    BY <1>2, <1>11, <1>16, <2>1, PageSet DEF Block, TwoLanes, n
<1>17. CASE n = 23
  <2>1. page' = Mipi /\ UNCHANGED <<mipi, system, tmp>>
    BY <1>17, <1>4, <1>9, <1>10, OpNames
  <2>2. QED
    BY <1>2, <1>11, <1>17, <2>1, PageSet DEF Block, TwoLanes, n
<1>18. CASE n = 22
  <2>1. /\ UNCHANGED <<page, system, tmp>>
        /\ \A q \in MipiRegs : mipi'[q] = IF page = Mipi /\ q = "23" THEN 2 ELSE mipi[q]
    BY <1>18, <1>4, <1>9, <1>10, OpNames
  <2>2. QED
    BY <1>2, <1>11, <1>18, <2>1, PageSet DEF Block, TwoLanes, MipiRegs, n, m
<1>19. CASE n = 21
  <2>1. page' = 2 /\ UNCHANGED <<mipi, system, tmp>>
    BY <1>19, <1>4, <1>9, <1>10, OpNames
  <2>2. QED
    BY <1>2, <1>11, <1>19, <2>1, PageSet DEF Block, TwoLanes, n
<1>20. CASE n = 20
  <2>1. page' = 3 /\ UNCHANGED <<mipi, system, tmp>>
    BY <1>20, <1>5, <1>9, <1>10, OpNames
  <2>2. QED
    BY <1>2, <1>11, <1>20, <2>1, PageSet DEF Block, TwoLanes, n
<1>21. CASE n = 19
  <2>1. page' = 0 /\ UNCHANGED <<mipi, system, tmp>>
    BY <1>21, <1>5, <1>9, <1>10, OpNames
  <2>2. QED
    BY <1>2, <1>11, <1>21, <2>1, PageSet DEF Block, TwoLanes, n
<1>22. CASE n = 18
  <2>1. UNCHANGED <<page, mipi>>
    <3>1. o.op = "system"
      BY <1>22, <1>5, OpNames
    <3>2. QED
      BY <1>9, <1>10, <3>1
  <2>2. QED
    BY <1>2, <1>11, <1>22, <2>1, PageSet DEF Block, TwoLanes, n
<1>23. CASE n = 17
  <2>1. page' = 0 /\ UNCHANGED <<mipi, system, tmp>>
    BY <1>23, <1>5, <1>9, <1>10, OpNames
  <2>2. QED
    BY <1>2, <1>11, <1>23, <2>1, PageSet DEF Block, TwoLanes, n
<1>24. CASE n = 16
  <2>1. UNCHANGED <<page, mipi, system>> /\ (page # Mipi => tmp'[u] = system)
    BY <1>24, <1>5, <1>9, <1>10, OpNames
  <2>2. QED
    BY <1>2, <1>11, <1>24, <2>1, PageSet DEF Block, TwoLanes, n
<1>25. CASE n = 15
  <2>1. o.op = "store" /\ o.on = SetBy(m, {0}) /\ o.off = ClearedBy(m, {0})
    BY <1>25, <1>5, OpNames
  <2>2. UNCHANGED <<page, mipi>> /\ (page # Mipi => system' = (tmp[u] \cup o.on) \ o.off)
    BY <1>9, <1>10, <2>1
  <2>3. page # Mipi
    BY <1>2, <1>11, <1>25, PageSet DEF TwoLanes, n
  <2>4. \A c : c \in system' <=> IF c \in {0} THEN on ELSE c \in tmp[u]
    BY <2>1, <2>2, <2>3 DEF SetBy, ClearedBy, on
  <2>5. QED
    BY <1>2, <1>11, <1>25, <2>2, <2>4, PageSet DEF Block, TwoLanes, n
<1>26. CASE n = 14
  <2>1. /\ UNCHANGED <<page, system, tmp>>
        /\ \A q \in MipiRegs : mipi'[q] = IF page = Mipi /\ q = "23" THEN 60 ELSE mipi[q]
    BY <1>26, <1>5, <1>9, <1>10, OpNames
  <2>2. QED
    BY <1>2, <1>11, <1>26, <2>1, PageSet DEF Block, TwoLanes, MipiRegs, n, m
<1>27. CASE n = 13
  <2>1. page' = 1 /\ UNCHANGED <<mipi, system, tmp>>
    BY <1>27, <1>5, <1>9, <1>10, OpNames
  <2>2. QED
    BY <1>2, <1>11, <1>27, <2>1, PageSet DEF Block, TwoLanes, n
<1>28. CASE n = 12
  <2>1. UNCHANGED <<page, mipi, system>> /\ (page # Mipi => tmp'[u] = system)
    BY <1>28, <1>6, <1>9, <1>10, OpNames
  <2>2. QED
    BY <1>2, <1>11, <1>28, <2>1, PageSet DEF Block, TwoLanes, n
<1>29. CASE n = 11
  <2>1. o.op = "store" /\ o.on = SetBy(m, {1}) /\ o.off = ClearedBy(m, {1})
    BY <1>29, <1>6, OpNames
  <2>2. UNCHANGED <<page, mipi>> /\ (page # Mipi => system' = (tmp[u] \cup o.on) \ o.off)
    BY <1>9, <1>10, <2>1
  <2>3. page # Mipi
    BY <1>2, <1>11, <1>29, PageSet DEF TwoLanes, n
  <2>4. \A c : c \in system' <=> IF c \in {1} THEN on ELSE c \in tmp[u]
    BY <2>1, <2>2, <2>3 DEF SetBy, ClearedBy, on
  <2>5. QED
    BY <1>2, <1>11, <1>29, <2>2, <2>4, PageSet DEF Block, TwoLanes, n
<1>30. CASE n = 10
  <2>1. /\ UNCHANGED <<page, system, tmp>>
        /\ \A q \in MipiRegs : mipi'[q] = IF page = Mipi /\ q = "23" THEN 60 ELSE mipi[q]
    BY <1>30, <1>6, <1>9, <1>10, OpNames
  <2>2. QED
    BY <1>2, <1>11, <1>30, <2>1, PageSet DEF Block, TwoLanes, MipiRegs, n, m
<1>31. CASE n = 9
  <2>1. page' = Mipi /\ UNCHANGED <<mipi, system, tmp>>
    BY <1>31, <1>6, <1>9, <1>10, OpNames
  <2>2. QED
    BY <1>2, <1>11, <1>31, <2>1, PageSet DEF Block, TwoLanes, n
<1>32. CASE n = 8
  <2>1. /\ UNCHANGED <<page, system, tmp>>
        /\ \A q \in MipiRegs : mipi'[q] = IF page = Mipi /\ q = "10" THEN 32 ELSE mipi[q]
    BY <1>32, <1>6, <1>9, <1>10, OpNames
  <2>2. QED
    BY <1>2, <1>11, <1>32, <2>1, PageSet DEF Block, TwoLanes, MipiRegs, n, m
<1>32a. CASE n = 7
  <2>1. /\ UNCHANGED <<page, system, tmp>>
        /\ \A q \in MipiRegs : mipi'[q] = IF page = Mipi /\ q = "11" THEN 71 ELSE mipi[q]
    BY <1>32a, <1>6, <1>9, <1>10, OpNames
  <2>2. QED
    BY <1>2, <1>11, <1>32a, <2>1, PageSet DEF Block, TwoLanes, MipiRegs, n, m
<1>32b. CASE n = 6
  <2>1. /\ UNCHANGED <<page, system, tmp>>
        /\ \A q \in MipiRegs : mipi'[q] = IF page = Mipi /\ q = "12" THEN 84 ELSE mipi[q]
    BY <1>32b, <1>6, <1>9, <1>10, OpNames
  <2>2. QED
    BY <1>2, <1>11, <1>32b, <2>1, PageSet DEF Block, TwoLanes, MipiRegs, n, m
<1>32c. CASE n = 5
  <2>1. /\ UNCHANGED <<page, system, tmp>>
        /\ \A q \in MipiRegs : mipi'[q] = IF page = Mipi /\ q = "13" THEN 239 ELSE mipi[q]
    BY <1>32c, <1>6, <1>9, <1>10, OpNames
  <2>2. QED
    BY <1>2, <1>11, <1>32c, <2>1, PageSet DEF Block, TwoLanes, MipiRegs, n, m
<1>33. CASE n = 4
  <2>1. /\ UNCHANGED <<page, system, tmp>>
        /\ \A q \in MipiRegs : mipi'[q] = IF page = Mipi /\ q = "14" THEN Clock(m) ELSE mipi[q]
    BY <1>33, <1>6, <1>9, <1>10, OpNames
  <2>2. QED
    BY <1>2, <1>11, <1>33, <2>1, PageSet DEF Block, TwoLanes, MipiRegs, n, m
<1>34. CASE n = 3
  <2>1. /\ UNCHANGED <<page, system, tmp>>
        /\ \A q \in MipiRegs : mipi'[q] = IF page = Mipi /\ q = "14" THEN Pulse(m) ELSE mipi[q]
    BY <1>34, <1>6, <1>9, <1>10, OpNames
  <2>2. QED
    BY <1>2, <1>11, <1>34, <2>1, PageSet DEF Block, TwoLanes, MipiRegs, n, m
<1>35. CASE n = 2
  <2>1. /\ UNCHANGED <<page, system, tmp>>
        /\ \A q \in MipiRegs : mipi'[q] = IF page = Mipi /\ q = "14" THEN Clock(m) ELSE mipi[q]
    BY <1>35, <1>6, <1>9, <1>10, OpNames
  <2>2. QED
    BY <1>2, <1>11, <1>35, <2>1, PageSet DEF Block, TwoLanes, MipiRegs, n, m
<1>36. CASE n = 1
  <2>1. /\ UNCHANGED <<page, system, tmp>>
        /\ \A q \in MipiRegs : mipi'[q] = IF page = Mipi /\ q = "23" THEN 0 ELSE mipi[q]
    BY <1>36, <1>7, <1>9, <1>10, OpNames
  <2>2. QED
    BY <1>2, <1>11, <1>36, <2>1, PageSet DEF Block, TwoLanes, MipiRegs, n, m
<1>37. \/ n = 28 \/ n = 27 \/ n = 26 \/ n = 25 \/ n = 24 \/ n = 23 \/ n = 22 \/ n = 21 \/ n = 20
       \/ n = 19 \/ n = 18 \/ n = 17 \/ n = 16 \/ n = 15 \/ n = 14 \/ n = 13 \/ n = 12 \/ n = 11
       \/ n = 10 \/ n = 9 \/ n = 8 \/ n = 7 \/ n = 6 \/ n = 5 \/ n = 4 \/ n = 3 \/ n = 2
       \/ n = 1
  BY <1>3
<1>38. QED
  BY <1>12, <1>13, <1>14, <1>15, <1>16, <1>17, <1>18, <1>19, <1>20, <1>21, <1>22, <1>23, <1>24, <1>25,
     <1>26, <1>27, <1>28, <1>29, <1>30, <1>31, <1>32, <1>32a, <1>32b, <1>32c, <1>33, <1>34, <1>35, <1>36, <1>37

\* With four: all channels at once.
LEMMA DoFour ==
    ASSUME Shape, Alone, Path, Changing, PictureShown,
           NEW u \in Users, Do(u), call[u].cmd = "mode", call[u].mode \notin TwoLaneModes
    PROVE  Changed(u)' /\ PictureShown'
<1> DEFINE m == call[u].mode
           n == Left(u)
           o == Head(todo[u])
           on == m \in HDModes
<1>1. todo[u] # << >> /\ call' = call /\ Changed(u)
  BY DoCases, NextTransfer DEF Changing
<1>2. mode = "unknown" /\ (Sound(u) => Block(u) /\ FourLanesRun(u)) /\ (HD(u) <=> on)
  BY <1>1 DEF Changed, HD, HDModes
<1>3. n \in 1..18
  BY <1>1, FourNext
<1>4. /\ n = 18 => o = Page(Mipi)
      /\ n = 17 => o = Put("23", 2)
      /\ n = 16 => o = Page(0)
      /\ n = 15 => o = Page(N)
      /\ n = 14 => o = WriteSystem({})
      /\ n = 13 => o = Put("23", 60)
      /\ n = 12 => o = ReadSystem
      /\ n = 11 => o = ChangeSystem(SetBy(m, Channels), ClearedBy(m, Channels))
  BY <1>1, FourNext
<1>5. /\ n = 10 => o = Page(Mipi)
      /\ n = 9 => o = Put("10", 32)
      /\ n = 8 => o = Put("11", 71)
      /\ n = 7 => o = Put("12", 84)
      /\ n = 6 => o = Put("13", 239)
      /\ n = 5 => o = Put("14", Clock(m))
      /\ n = 4 => o = Put("14", Pulse(m))
      /\ n = 3 => o = Put("14", Clock(m))
      /\ n = 2 => o = Put("23", 2)
      /\ n = 1 => o = Put("23", 0)
  BY <1>1, FourNext
<1> HIDE DEF m, n, o, on
<1>6. o.op = "put" /\ Sound(u) /\ o.reg \in Registers => page = Mipi
  <2>1. SUFFICES ASSUME o.op = "put", Sound(u), o.reg # "23" PROVE page = Mipi
    BY Regs
  <2>2. n \in 3..9
    <3>1. n \notin {18, 17, 16, 15, 14, 13, 12, 11, 10, 2, 1}
      BY <2>1, <1>4, <1>5, OpNames
    <3>2. QED
      BY <1>3, <3>1
  <2>3. QED
    BY <1>2, <2>1, <2>2 DEF Block, FourLanesRun, n
<1>7. /\ mode' = "unknown" /\ PictureShown'
      /\ Sound(u)' =>
           /\ Sound(u) /\ Left(u)' = n - 1
           /\ o.op = "page" => page' = o.page /\ UNCHANGED <<mipi, system, tmp>>
           /\ o.op = "put" =>
                /\ UNCHANGED <<page, system, tmp>>
                /\ \A q \in MipiRegs :
                     mipi'[q] = IF page = Mipi /\ q = o.reg THEN o.val ELSE mipi[q]
           /\ o.op = "id" => UNCHANGED <<page, mipi, system, tmp>>
           /\ o.op = "fetch" => UNCHANGED <<page, mipi, system>> /\ (page # Mipi => tmp'[u] = system)
           /\ o.op = "system" => UNCHANGED <<page, mipi>>
           /\ o.op = "store" => /\ UNCHANGED <<page, mipi>>
                                /\ page # Mipi => system' = (tmp[u] \cup o.on) \ o.off
  BY <1>2, <1>6, ModeEffect DEF n, o
<1>8. SUFFICES ASSUME Sound(u)' PROVE Block(u)' /\ FourLanesRun(u)'
  BY <1>1, <1>7 DEF Changed
<1>9. Sound(u) /\ Left(u)' = n - 1 /\ (HD(u)' <=> on) /\ call' = call
  BY <1>1, <1>2, <1>7, <1>8 DEF HD
<1>10. CASE n = 18
  <2>1. page' = Mipi /\ UNCHANGED <<mipi, system, tmp>>
    BY <1>10, <1>4, <1>7, <1>8, OpNames
  <2>2. QED
    BY <1>2, <1>9, <1>10, <2>1, PageSet DEF Block, FourLanesRun, n
<1>11. CASE n = 17
  <2>1. /\ UNCHANGED <<page, system, tmp>>
        /\ \A q \in MipiRegs : mipi'[q] = IF page = Mipi /\ q = "23" THEN 2 ELSE mipi[q]
    BY <1>11, <1>4, <1>7, <1>8, OpNames
  <2>2. QED
    BY <1>2, <1>9, <1>11, <2>1, PageSet DEF Block, FourLanesRun, MipiRegs, n, m
<1>12. CASE n = 16
  <2>1. page' = 0 /\ UNCHANGED <<mipi, system, tmp>>
    BY <1>12, <1>4, <1>7, <1>8, OpNames
  <2>2. QED
    BY <1>2, <1>9, <1>12, <2>1, PageSet DEF Block, FourLanesRun, n
<1>13. CASE n = 15
  <2>1. page' = N /\ UNCHANGED <<mipi, system, tmp>>
    BY <1>13, <1>4, <1>7, <1>8, OpNames
  <2>2. QED
    BY <1>2, <1>9, <1>13, <2>1, PageSet DEF Block, FourLanesRun, n
<1>14. CASE n = 14
  <2>1. UNCHANGED <<page, mipi>>
    <3>1. o.op = "system"
      BY <1>14, <1>4, OpNames
    <3>2. QED
      BY <1>7, <1>8, <3>1
  <2>2. QED
    BY <1>2, <1>9, <1>14, <2>1, PageSet DEF Block, FourLanesRun, n
<1>15. CASE n = 13
  <2>1. /\ UNCHANGED <<page, system, tmp>>
        /\ \A q \in MipiRegs : mipi'[q] = IF page = Mipi /\ q = "23" THEN 60 ELSE mipi[q]
    BY <1>15, <1>4, <1>7, <1>8, OpNames
  <2>2. QED
    BY <1>2, <1>9, <1>15, <2>1, PageSet DEF Block, FourLanesRun, MipiRegs, n, m
<1>16. CASE n = 12
  <2>1. UNCHANGED <<page, mipi, system>> /\ (page # Mipi => tmp'[u] = system)
    BY <1>16, <1>4, <1>7, <1>8, OpNames
  <2>2. QED
    BY <1>2, <1>9, <1>16, <2>1, PageSet DEF Block, FourLanesRun, n
<1>17. CASE n = 11
  <2>1. o.op = "store" /\ o.on = SetBy(m, Channels) /\ o.off = ClearedBy(m, Channels)
    BY <1>17, <1>4, OpNames
  <2>2. UNCHANGED <<page, mipi>> /\ (page # Mipi => system' = (tmp[u] \cup o.on) \ o.off)
    BY <1>7, <1>8, <2>1
  <2>3. page # Mipi
    BY <1>2, <1>9, <1>17, PageSet DEF FourLanesRun, n
  <2>4. \A c : c \in system' <=> IF c \in Channels THEN on ELSE c \in tmp[u]
    BY <2>1, <2>2, <2>3 DEF SetBy, ClearedBy, on
  <2>5. QED
    BY <1>2, <1>9, <1>17, <2>2, <2>4, PageSet DEF Block, FourLanesRun, n
<1>18. CASE n = 10
  <2>1. page' = Mipi /\ UNCHANGED <<mipi, system, tmp>>
    BY <1>18, <1>5, <1>7, <1>8, OpNames
  <2>2. QED
    BY <1>2, <1>9, <1>18, <2>1, PageSet DEF Block, FourLanesRun, n
<1>19. CASE n = 9
  <2>1. /\ UNCHANGED <<page, system, tmp>>
        /\ \A q \in MipiRegs : mipi'[q] = IF page = Mipi /\ q = "10" THEN 32 ELSE mipi[q]
    BY <1>19, <1>5, <1>7, <1>8, OpNames
  <2>2. QED
    BY <1>2, <1>9, <1>19, <2>1, PageSet DEF Block, FourLanesRun, MipiRegs, n, m
<1>19a. CASE n = 8
  <2>1. /\ UNCHANGED <<page, system, tmp>>
        /\ \A q \in MipiRegs : mipi'[q] = IF page = Mipi /\ q = "11" THEN 71 ELSE mipi[q]
    BY <1>19a, <1>5, <1>7, <1>8, OpNames
  <2>2. QED
    BY <1>2, <1>9, <1>19a, <2>1, PageSet DEF Block, FourLanesRun, MipiRegs, n, m
<1>19b. CASE n = 7
  <2>1. /\ UNCHANGED <<page, system, tmp>>
        /\ \A q \in MipiRegs : mipi'[q] = IF page = Mipi /\ q = "12" THEN 84 ELSE mipi[q]
    BY <1>19b, <1>5, <1>7, <1>8, OpNames
  <2>2. QED
    BY <1>2, <1>9, <1>19b, <2>1, PageSet DEF Block, FourLanesRun, MipiRegs, n, m
<1>19c. CASE n = 6
  <2>1. /\ UNCHANGED <<page, system, tmp>>
        /\ \A q \in MipiRegs : mipi'[q] = IF page = Mipi /\ q = "13" THEN 239 ELSE mipi[q]
    BY <1>19c, <1>5, <1>7, <1>8, OpNames
  <2>2. QED
    BY <1>2, <1>9, <1>19c, <2>1, PageSet DEF Block, FourLanesRun, MipiRegs, n, m
<1>20. CASE n = 5
  <2>1. /\ UNCHANGED <<page, system, tmp>>
        /\ \A q \in MipiRegs : mipi'[q] = IF page = Mipi /\ q = "14" THEN Clock(m) ELSE mipi[q]
    BY <1>20, <1>5, <1>7, <1>8, OpNames
  <2>2. QED
    BY <1>2, <1>9, <1>20, <2>1, PageSet DEF Block, FourLanesRun, MipiRegs, n, m
<1>21. CASE n = 4
  <2>1. /\ UNCHANGED <<page, system, tmp>>
        /\ \A q \in MipiRegs : mipi'[q] = IF page = Mipi /\ q = "14" THEN Pulse(m) ELSE mipi[q]
    BY <1>21, <1>5, <1>7, <1>8, OpNames
  <2>2. QED
    BY <1>2, <1>9, <1>21, <2>1, PageSet DEF Block, FourLanesRun, MipiRegs, n, m
<1>22. CASE n = 3
  <2>1. /\ UNCHANGED <<page, system, tmp>>
        /\ \A q \in MipiRegs : mipi'[q] = IF page = Mipi /\ q = "14" THEN Clock(m) ELSE mipi[q]
    BY <1>22, <1>5, <1>7, <1>8, OpNames
  <2>2. QED
    BY <1>2, <1>9, <1>22, <2>1, PageSet DEF Block, FourLanesRun, MipiRegs, n, m
<1>23. CASE n = 2
  <2>1. /\ UNCHANGED <<page, system, tmp>>
        /\ \A q \in MipiRegs : mipi'[q] = IF page = Mipi /\ q = "23" THEN 2 ELSE mipi[q]
    BY <1>23, <1>5, <1>7, <1>8, OpNames
  <2>2. QED
    BY <1>2, <1>9, <1>23, <2>1, PageSet DEF Block, FourLanesRun, MipiRegs, n, m
<1>24. CASE n = 1
  <2>1. /\ UNCHANGED <<page, system, tmp>>
        /\ \A q \in MipiRegs : mipi'[q] = IF page = Mipi /\ q = "23" THEN 0 ELSE mipi[q]
    BY <1>24, <1>5, <1>7, <1>8, OpNames
  <2>2. QED
    BY <1>2, <1>9, <1>24, <2>1, PageSet DEF Block, FourLanesRun, MipiRegs, n, m
<1>25. \/ n = 18 \/ n = 17 \/ n = 16 \/ n = 15 \/ n = 14 \/ n = 13 \/ n = 12 \/ n = 11 \/ n = 10
       \/ n = 9 \/ n = 8 \/ n = 7 \/ n = 6 \/ n = 5 \/ n = 4 \/ n = 3 \/ n = 2 \/ n = 1
  BY <1>3
<1>26. QED
  BY <1>10, <1>11, <1>12, <1>13, <1>14, <1>15, <1>16, <1>17, <1>18, <1>19, <1>19a, <1>19b, <1>19c, <1>20, <1>21, <1>22, <1>23,
     <1>24, <1>25

-----------------------------------------------------------------------------
(* A step of the driver. *)

LEMMA DoStep ==
    ASSUME IInv, NEW u \in Users, Do(u)
    PROVE  IInv'
<1>1. /\ Shape /\ Alone /\ Path /\ PictureShown /\ ModeInEffect
      /\ Drawing /\ Changing /\ Getting /\ Asking
  BY DEF IInv
<1>2. /\ Shape' /\ Alone' /\ Path'
      /\ InCall(u) /\ \A w \in Users : InCall(w) => w = u
  BY <1>1, DoFrame
<1>3. UNCHANGED <<signal, call, changed>>
  BY DoCases
<1>4. call[u] \in Requests /\ \A w \in Users : InCall(w)' => w = u
  BY <1>1, <1>2, <1>3 DEF InCall, Shape
<1>5. CASE DrawsOne(u)
  <2>1. OnePicture(u)' /\ PictureShown' /\ ModeInEffect'
    BY <1>1, <1>5, DoOne
  <2>2. call[u].cmd = "image" /\ call[u].chn \notin {All, N}
    BY <1>5, PageSet DEF DrawsOne
  <2>3. Drawing' /\ Changing' /\ Getting' /\ Asking'
    BY <1>3, <1>4, <2>1, <2>2 DEF Drawing, DrawsOne, DrawsAll, Changing, Getting, Asking
  <2>4. QED
    BY <1>2, <2>1, <2>3 DEF IInv
<1>6. CASE DrawsAll(u)
  <2>1. AllPictures(u)' /\ PictureShown' /\ ModeInEffect'
    BY <1>1, <1>6, DoAll
  <2>2. call[u].cmd = "image" /\ call[u].chn \notin Channels /\ call[u].chn # N
    BY <1>6, PageSet DEF DrawsAll
  <2>3. Drawing' /\ Changing' /\ Getting' /\ Asking'
    BY <1>3, <1>4, <2>1, <2>2 DEF Drawing, DrawsOne, DrawsAll, Changing, Getting, Asking
  <2>4. QED
    BY <1>2, <2>1, <2>3 DEF IInv
<1>7. CASE call[u].cmd = "get"
  <2>1. (Sound(u)' => Got(u)') /\ PictureShown' /\ ModeInEffect'
    BY <1>1, <1>7, DoGet
  <2>2. Drawing' /\ Changing' /\ Getting' /\ Asking'
    BY <1>3, <1>4, <1>7, <2>1 DEF Drawing, DrawsOne, DrawsAll, Changing, Getting, Asking
  <2>3. QED
    BY <1>2, <2>1, <2>2 DEF IInv
<1>8. CASE call[u].cmd = "resolution"
  <2>1. (Sound(u)' => Asked(u)') /\ PictureShown' /\ ModeInEffect'
    BY <1>1, <1>8, DoAsk
  <2>2. Drawing' /\ Changing' /\ Getting' /\ Asking'
    BY <1>3, <1>4, <1>8, <2>1 DEF Drawing, DrawsOne, DrawsAll, Changing, Getting, Asking
  <2>3. QED
    BY <1>2, <2>1, <2>2 DEF IInv
<1>9. CASE call[u].cmd = "mode"
  <2>1. Changed(u)' /\ PictureShown'
    BY <1>1, <1>9, DoTwo, DoFour
  <2>2. ModeInEffect'
    BY <2>1 DEF Changed, ModeInEffect
  <2>3. Drawing' /\ Changing' /\ Getting' /\ Asking'
    BY <1>3, <1>4, <1>9, <2>1 DEF Drawing, DrawsOne, DrawsAll, Changing, Getting, Asking
  <2>4. QED
    BY <1>2, <2>1, <2>2, <2>3 DEF IInv
<1>10. CASE call[u].cmd \in {"dump", "proc_dump", "read", "write", "proc"}
  <2>1. PictureShown' /\ ModeInEffect'
    BY <1>1, <1>10, DoRaw
  <2>2. Drawing' /\ Changing' /\ Getting' /\ Asking'
    BY <1>3, <1>4, <1>10 DEF Drawing, DrawsOne, DrawsAll, Changing, Getting, Asking
  <2>3. QED
    BY <1>2, <2>1, <2>2 DEF IInv
<1>11. call[u].cmd = "image" => DrawsOne(u) \/ DrawsAll(u)
  <2>1. todo[u] # << >>
    BY DoCases
  <2>2. QED
    BY <1>1, <1>2, <1>4, <2>1, RequestFields, NoneNext DEF DrawsOne, DrawsAll
<1>12. QED
  BY <1>4, <1>5, <1>6, <1>7, <1>8, <1>9, <1>10, <1>11, RequestFields

-----------------------------------------------------------------------------
(* A call begins. *)

LEMMA ScriptLen ==
    ASSUME NEW req \in Requests
    PROVE  /\ req.cmd = "image" /\ req.chn \in Channels => Len(Script(req)) = Len(ImageRegs) + 1
           /\ req.cmd = "image" /\ req.chn = All => Len(Script(req)) = Len(ImageRegs) + 2
           /\ req.cmd = "get" => Len(Script(req)) = Len(ImageRegs) + 1
           /\ req.cmd = "resolution" => Len(Script(req)) = 13
           /\ req.cmd = "mode" => Len(Script(req)) = (IF req.mode \in TwoLaneModes THEN 28 ELSE 18)
<1>1. CASE req.cmd = "image"
  BY <1>1, OneScript, AllScript, RequestFields DEF Script
<1>2. CASE req.cmd = "get"
  BY <1>2, GetScript, RequestFields DEF Script
<1>3. CASE req.cmd = "resolution"
  BY <1>3, ResolutionScript DEF Script
<1>4. CASE req.cmd = "mode"
  <2>1. Script(req) = SetVideoMode(req.mode)
    BY <1>4 DEF Script
  <2>2. QED
    BY <1>4, <2>1, TwoLanesScript, FourLanesScript
<1>5. QED
  BY <1>1, <1>2, <1>3, <1>4

\* What the last set_image asked for is forgotten for the registers about to change.
LEMMA Forgotten ==
    ASSUME Shape, NEW S \in SUBSET Registers, NEW c,
           S # {} => c \in Channels,
           wanted' = IF S = {} THEN wanted
                     ELSE [wanted EXCEPT ![c] = [r \in Registers |-> IF r \in S THEN Unknown ELSE @[r]]]
    PROVE  /\ DOMAIN wanted' = Channels /\ \A d \in Channels : DOMAIN wanted'[d] = Registers
           /\ \A d \in Channels, r \in Registers :
                wanted'[d][r] = IF d = c /\ r \in S THEN Unknown ELSE wanted[d][r]
<1>1. DOMAIN wanted = Channels /\ \A d \in Channels : DOMAIN wanted[d] = Registers
  BY DEF Shape
<1>2. CASE S = {}
  BY <1>1, <1>2
<1>3. CASE S # {}
  <2> DEFINE f == [r \in Registers |-> IF r \in S THEN Unknown ELSE wanted[c][r]]
  <2>1. wanted' = [wanted EXCEPT ![c] = f]
    BY <1>1, <1>3
  <2>2. DOMAIN f = Registers /\ \A r \in Registers : f[r] = IF r \in S THEN Unknown ELSE wanted[c][r]
    OBVIOUS
  <2> HIDE DEF f
  <2>3. DOMAIN wanted' = Channels /\ \A d \in Channels : wanted'[d] = IF d = c THEN f ELSE wanted[d]
    BY <1>1, <2>1
  <2>4. QED
    BY <1>1, <2>2, <2>3
<1>4. QED
  BY <1>2, <1>3

LEMMA Whole == ASSUME NEW s \in Seq(Ops) PROVE EndOf(s, s)
<1>1. Len(s) \in Nat
  OBVIOUS
<1>2. QED
  BY <1>1 DEF EndOf

LEMMA BeginStep ==
    ASSUME IInv, ~Overlap, NEW u \in Users, Begin(u)
    PROVE  IInv'
<1>1. /\ Shape /\ Alone /\ Path /\ PictureShown /\ ModeInEffect
      /\ Drawing /\ Changing /\ Getting /\ Asking
  BY DEF IInv
<1>2. PICK req \in Requests :
        /\ MayRun(req) /\ MutexLock(u, req)
        /\ call' = [call EXCEPT ![u] = req]
        /\ todo' = [todo EXCEPT ![u] = Script(req)]
        /\ changed' = [changed EXCEPT ![u] = Changes(req)]
        /\ wanted' = IF Changes(req) = {} THEN wanted
                     ELSE [wanted EXCEPT ![ChannelOf(req)] =
                            [r \in Registers |-> IF r \in Changes(req) THEN Unknown ELSE @[r]]]
        /\ mode' = IF req.cmd = "mode" THEN "unknown" ELSE mode
  BY Zenon DEF Begin
<1>3. UNCHANGED <<page, image, mipi, system, signal, shadow, reply, tmp, failed, due>>
  BY DEF Begin, chip
<1>4. /\ call \in [Users -> Requests \cup {NoCall}] /\ DOMAIN todo = Users
      /\ changed \in [Users -> SUBSET Registers]
  BY <1>1 DEF Shape
<1>5. /\ req.cmd \in {"image", "get", "mode", "resolution", "dump", "proc_dump", "read", "write", "proc"}
      /\ req.cmd = "image" => req.chn \in Channels \cup {All, N} /\ req.pic \in Pictures
      /\ req.cmd = "get" => req.chn \in Channels
      /\ req # NoCall
  BY RequestFields
\* Nobody else is in a call.
<1>6. \A w \in Users : ~InCall(w)
  <2>1. SUFFICES ASSUME NEW w \in Users, InCall(w) PROVE FALSE
    OBVIOUS
  <2>2. call[w].cmd = "resolution" /\ req.cmd = "resolution"
    BY <1>2, <2>1 DEF MayRun, InCall
  <2>3. mutex = w /\ mutex = NoUser
    BY <1>1, <1>2, <2>1, <2>2 DEF Alone, MutexLock
  <2>4. QED
    BY <2>3, TpConstants DEF TpConstants
<1>7. /\ call'[u] = req /\ \A w \in Users \ {u} : call'[w] = call[w]
      /\ todo'[u] = Script(req) /\ \A w \in Users \ {u} : todo'[w] = todo[w]
      /\ changed'[u] = Changes(req) /\ \A w \in Users \ {u} : changed'[w] = changed[w]
      /\ call' \in [Users -> Requests \cup {NoCall}] /\ DOMAIN todo' = Users
  BY <1>2, <1>4
<1>8. /\ InCall(u)' /\ \A w \in Users : InCall(w)' => w = u
      /\ reply'[u] = << >> /\ Sound(u)' /\ Left(u)' = Len(Script(req))
  <2>1. reply[u] = << >> /\ Sound(u)
    BY <1>1, <1>6 DEF Path
  <2>2. QED
    BY <1>3, <1>5, <1>6, <1>7, <2>1 DEF InCall, Sound, Left
<1>9. Changes(req) \in SUBSET Registers /\ (Changes(req) # {} => ChannelOf(req) \in Channels)
  BY <1>5, PageSet DEF Changes, ChannelOf
<1>10. /\ DOMAIN wanted' = Channels /\ \A d \in Channels : DOMAIN wanted'[d] = Registers
       /\ \A d \in Channels, r \in Registers :
            wanted'[d][r] = IF d = ChannelOf(req) /\ r \in Changes(req) THEN Unknown ELSE wanted[d][r]
  BY <1>1, <1>2, <1>9, Forgotten
<1>11. Shape'
  <2>1. changed' \in [Users -> SUBSET Registers]
    BY <1>2, <1>4, <1>9
  <2>2. QED
    BY <1>1, <1>3, <1>7, <1>10, <2>1 DEF Shape
<1>12. Alone'
  BY <1>2, <1>7, <1>8 DEF Alone, MutexLock
<1>13. Path'
  <2>1. EndOf(todo'[u], Script(call'[u]))
    BY <1>7, ScriptSeq, Whole
  <2>2. ASSUME NEW w \in Users, ~InCall(w)' PROVE todo'[w] = << >> /\ reply'[w] = << >> /\ Sound(w)'
    BY <1>1, <1>3, <1>6, <1>7, <1>8, <2>2 DEF Path, Sound
  <2>3. ASSUME NEW w \in Users, ~(InCall(w)' /\ call'[w].cmd = "image") PROVE changed'[w] = {}
    <3>1. CASE w = u
      BY <1>7, <1>8, <2>3, <3>1 DEF Changes
    <3>2. CASE w # u
      BY <1>1, <1>6, <1>7, <3>2 DEF Path
    <3>3. QED
      BY <3>1, <3>2
  <2>4. QED
    BY <1>8, <2>1, <2>2, <2>3 DEF Path
<1>14. PictureShown' /\ ModeInEffect'
  <2>1. PictureShown'
    BY <1>1, <1>3, <1>10 DEF PictureShown
  <2>2. mode' = "unknown" \/ mode' = mode
    BY <1>2
  <2>3. QED
    BY <1>1, <1>3, <2>1, <2>2 DEF ModeInEffect
<1>15. Drawing'
  <2>1. ASSUME DrawsOne(u)' PROVE OnePicture(u)'
    <3>1. req.cmd = "image" /\ req.chn \in Channels /\ req.pic \in Pictures
      BY <1>5, <1>7, <2>1 DEF DrawsOne
    <3>2. ChannelOf(req) = req.chn /\ Changes(req) = {r \in Registers : req.pic[r] # shadow[req.chn][r]}
      BY <3>1, PageSet DEF ChannelOf, Changes
    <3>3. Left(u)' = Len(ImageRegs) + 1
      BY <1>8, <3>1, ScriptLen
    <3>4. ~(Len(ImageRegs) + 1 <= Len(ImageRegs)) /\ \A k \in 1..Len(ImageRegs) :
            ~(k <= Len(ImageRegs) - (Len(ImageRegs) + 1))
      BY Regs
    <3>5. QED
      BY <1>3, <1>7, <1>10, <3>1, <3>2, <3>3, <3>4 DEF OnePicture
  <2>2. ASSUME DrawsAll(u)' PROVE AllPictures(u)'
    <3>1. req.cmd = "image" /\ req.chn = All
      BY <1>7, <2>2 DEF DrawsAll
    <3>2. ChannelOf(req) = 0 /\ Changes(req) = Registers
      BY <3>1, PageSet DEF ChannelOf, Changes
    <3>3. Left(u)' = Len(ImageRegs) + 2
      BY <1>8, <3>1, ScriptLen
    <3>4. ~(Len(ImageRegs) + 2 <= Len(ImageRegs) + 1) /\ \A k \in 1..Len(ImageRegs) :
            ~(k <= Len(ImageRegs) - (Len(ImageRegs) + 2))
      BY Regs
    <3>5. QED
      BY <1>10, <3>2, <3>3, <3>4, PageSet DEF AllPictures
  <2>3. InCall(u)' /\ call'[u].cmd = "image" /\ call'[u].chn = N => changed'[u] = {}
    BY <1>7 DEF Changes
  <2>4. QED
    BY <1>8, <2>1, <2>2, <2>3 DEF Drawing, DrawsOne, DrawsAll
<1>16. Changing'
  <2>1. SUFFICES ASSUME req.cmd = "mode" PROVE Changed(u)'
    BY <1>7, <1>8 DEF Changing
  <2>2. mode' = "unknown" /\ Left(u)' = (IF req.mode \in TwoLaneModes THEN 28 ELSE 18)
    BY <1>2, <1>8, <2>1, ScriptLen
  <2>3. QED
    BY <1>7, <2>2 DEF Changed, Block, TwoLanes, FourLanesRun
<1>17. Getting'
  <2>1. SUFFICES ASSUME req.cmd = "get" PROVE Got(u)'
    BY <1>7, <1>8 DEF Getting
  <2>2. Left(u)' = Len(ImageRegs) + 1 /\ ~(Len(ImageRegs) + 1 <= Len(ImageRegs))
    BY <1>8, <2>1, ScriptLen, Regs
  <2>3. Len(reply'[u]) = 0
    BY <1>8
  <2>4. QED
    BY <2>2, <2>3 DEF Got
<1>18. Asking'
  <2>1. SUFFICES ASSUME req.cmd = "resolution" PROVE Asked(u)'
    BY <1>7, <1>8 DEF Asking
  <2>2. Left(u)' = 13 /\ Len(reply'[u]) = 0
    BY <1>8, <2>1, ScriptLen
  <2>3. \A c \in Channels : ~(c < 0)
    BY PageSet
  <2>4. QED
    BY <2>2, <2>3, AnsweredIs DEF Asked
<1>19. QED
  BY <1>11, <1>12, <1>13, <1>14, <1>15, <1>16, <1>17, <1>18 DEF IInv

-----------------------------------------------------------------------------
(* A call returns, the module is reloaded, a camera is plugged or unplugged. *)

LEMMA Idle ==
    ASSUME \A w \in Users : ~InCall(w)
    PROVE  Drawing /\ Changing /\ Getting /\ Asking
  BY DEF Drawing, DrawsOne, DrawsAll, Changing, Getting, Asking

\* What the call has changed is what it was asked for.
LEMMA ReturnPicture ==
    ASSUME IInv, NEW u \in Users, InCall(u), todo[u] = << >>, changed[u] # {}, Sound(u)
    PROVE  /\ ChannelOf(call[u]) \in Channels /\ changed[u] \in SUBSET Registers
           /\ \A r \in changed[u] : image[ChannelOf(call[u])][r] = Byte(call[u].pic[r])
<1>1. Shape /\ Path /\ Drawing
  BY DEF IInv
<1>2. call[u] \in Requests /\ call[u].cmd = "image" /\ changed[u] \in SUBSET Registers
  BY <1>1 DEF Path, Shape, InCall
<1>3. call[u].chn \in Channels \cup {All}
  BY <1>1, <1>2, RequestFields DEF Drawing
<1>4. Left(u) = 0 /\ Len(ImageRegs) \in Nat /\ \A k \in 1..Len(ImageRegs) : k <= Len(ImageRegs) - 0
  BY Regs DEF Left
<1>5. CASE call[u].chn \in Channels
  <2>1. ChannelOf(call[u]) = call[u].chn
    BY <1>5, PageSet DEF ChannelOf
  <2>2. OnePicture(u)
    BY <1>1, <1>2, <1>5 DEF Drawing, DrawsOne
  <2>3. \A k \in 1..Len(ImageRegs) : shadow[call[u].chn][ImageRegs[k]] = call[u].pic[ImageRegs[k]]
    BY <1>4, <2>2 DEF OnePicture
  <2>4. \A r \in Registers : shadow[call[u].chn][r] = call[u].pic[r]
    BY <2>3, Regs
  <2>5. \A r \in changed[u] : image[call[u].chn][r] = Byte(call[u].pic[r])
    BY <1>2, <2>2, <2>4 DEF OnePicture
  <2>6. QED
    BY <1>2, <1>5, <2>1, <2>5
<1>6. CASE call[u].chn = All
  <2>1. ChannelOf(call[u]) = 0 /\ 0 \in Channels
    BY <1>6, PageSet DEF ChannelOf
  <2>2. AllPictures(u)
    BY <1>1, <1>2, <1>6 DEF Drawing, DrawsAll
  <2>3. \A k \in 1..Len(ImageRegs) : image[0][ImageRegs[k]] = Byte(call[u].pic[ImageRegs[k]])
    BY <1>4, <2>2 DEF AllPictures
  <2>4. \A r \in Registers : image[0][r] = Byte(call[u].pic[r])
    BY <2>3, Regs
  <2>5. QED
    BY <1>2, <2>1, <2>4
<1>7. QED
  BY <1>3, <1>5, <1>6

LEMMA Noted ==
    ASSUME Shape, NEW S \in SUBSET Registers, NEW c \in Channels, NEW pic,
           wanted' = [wanted EXCEPT ![c] = [r \in Registers |-> IF r \in S THEN pic[r] ELSE @[r]]]
    PROVE  /\ DOMAIN wanted' = Channels /\ \A d \in Channels : DOMAIN wanted'[d] = Registers
           /\ \A d \in Channels, r \in Registers :
                wanted'[d][r] = IF d = c /\ r \in S THEN pic[r] ELSE wanted[d][r]
<1>1. DOMAIN wanted = Channels /\ \A d \in Channels : DOMAIN wanted[d] = Registers
  BY DEF Shape
<1> DEFINE f == [r \in Registers |-> IF r \in S THEN pic[r] ELSE wanted[c][r]]
<1>2. wanted' = [wanted EXCEPT ![c] = f]
  BY <1>1
<1>3. DOMAIN f = Registers /\ \A r \in Registers : f[r] = IF r \in S THEN pic[r] ELSE wanted[c][r]
  OBVIOUS
<1> HIDE DEF f
<1>4. DOMAIN wanted' = Channels /\ \A d \in Channels : wanted'[d] = IF d = c THEN f ELSE wanted[d]
  BY <1>1, <1>2
<1>5. QED
  BY <1>1, <1>3, <1>4

LEMMA ReturnStep ==
    ASSUME IInv, NEW u \in Users, Return(u)
    PROVE  IInv'
<1>1. /\ Shape /\ Alone /\ Path /\ PictureShown /\ ModeInEffect
      /\ Drawing /\ Changing /\ Getting /\ Asking
  BY DEF IInv
<1>2. /\ InCall(u) /\ todo[u] = << >> /\ Left(u) = 0
      /\ call' = [call EXCEPT ![u] = NoCall] /\ reply' = [reply EXCEPT ![u] = << >>]
      /\ failed' = failed \ {u}
      /\ changed' = [changed EXCEPT ![u] = {}]
      /\ due' = [due EXCEPT ![u] = [c \in Channels |-> {}]]
      /\ UNCHANGED <<page, image, mipi, system, signal, shadow, todo, tmp>>
  BY DEF Return, InCall, Left, chip
<1>3. /\ call \in [Users -> Requests \cup {NoCall}] /\ DOMAIN todo = Users
      /\ changed \in [Users -> SUBSET Registers] /\ reply \in [Users -> Seq(Nat)]
      /\ DOMAIN due = Users /\ \A w \in Users : DOMAIN due[w] = Channels
  BY <1>1 DEF Shape
<1>4. /\ call'[u] = NoCall /\ \A w \in Users \ {u} : call'[w] = call[w]
      /\ changed'[u] = {} /\ \A w \in Users \ {u} : changed'[w] = changed[w]
      /\ reply'[u] = << >> /\ \A w \in Users \ {u} : reply'[w] = reply[w]
  BY <1>2, <1>3
<1>5. \A w \in Users : ~InCall(w)'
  BY <1>1, <1>2, <1>4 DEF Alone, InCall
<1>6. \/ wanted' = wanted
      \/ /\ changed[u] # {} /\ Sound(u)
         /\ wanted' = [wanted EXCEPT ![ChannelOf(call[u])] =
                        [r \in Registers |-> IF r \in changed[u] THEN call[u].pic[r] ELSE @[r]]]
  BY DEF Return, Sound
<1>7. /\ DOMAIN wanted' = Channels /\ \A d \in Channels : DOMAIN wanted'[d] = Registers
      /\ PictureShown'
  <2>1. CASE wanted' = wanted
    BY <1>1, <1>2, <2>1 DEF PictureShown, Shape
  <2>2. CASE /\ changed[u] # {} /\ Sound(u)
             /\ wanted' = [wanted EXCEPT ![ChannelOf(call[u])] =
                            [r \in Registers |-> IF r \in changed[u] THEN call[u].pic[r] ELSE @[r]]]
    <3>1. /\ ChannelOf(call[u]) \in Channels /\ changed[u] \in SUBSET Registers
          /\ \A r \in changed[u] : image[ChannelOf(call[u])][r] = Byte(call[u].pic[r])
      BY <1>2, <2>2, ReturnPicture
    <3>2. /\ DOMAIN wanted' = Channels /\ \A d \in Channels : DOMAIN wanted'[d] = Registers
          /\ \A d \in Channels, r \in Registers :
               wanted'[d][r] = IF d = ChannelOf(call[u]) /\ r \in changed[u]
                               THEN call[u].pic[r] ELSE wanted[d][r]
      BY <1>1, <2>2, <3>1, Noted
    <3>3. QED
      BY <1>1, <1>2, <3>1, <3>2 DEF PictureShown
  <2>3. QED
    BY <1>6, <2>1, <2>2
<1>8. Shape'
  <2>1. call' \in [Users -> Requests \cup {NoCall}] /\ changed' \in [Users -> SUBSET Registers]
    BY <1>2, <1>3
  <2>2. << >> \in Seq(Nat)
    OBVIOUS
  <2>3. reply' \in [Users -> Seq(Nat)]
    BY <1>2, <1>3, <2>2
  <2>4. DOMAIN due' = Users /\ \A w \in Users : DOMAIN due'[w] = Channels
    BY <1>2, <1>3
  <2>5. QED
    BY <1>1, <1>2, <1>7, <2>1, <2>3, <2>4 DEF Shape
<1>9. Alone' /\ Drawing' /\ Changing' /\ Getting' /\ Asking'
  BY <1>5 DEF Alone, Drawing, DrawsOne, DrawsAll, Changing, Getting, Asking
<1>10. Path'
  <2>1. \A w \in Users \ {u} : ~InCall(w)
    BY <1>1, <1>2 DEF Alone
  <2>2. \A w \in Users : todo'[w] = << >> /\ reply'[w] = << >> /\ Sound(w)'
    BY <1>1, <1>2, <1>4, <2>1 DEF Path, Sound
  <2>3. \A w \in Users : changed'[w] = {}
    BY <1>1, <1>4, <2>1 DEF Path
  <2>4. QED
    BY <1>5, <2>2, <2>3 DEF Path
<1>11. ModeInEffect'
  <2>1. mode' = mode \/ (call[u].cmd = "mode" /\ Sound(u) /\ mode' = call[u].mode)
    BY DEF Return, Sound
  <2>2. CASE mode' = mode
    BY <1>1, <1>2, <2>2 DEF ModeInEffect
  <2>3. CASE call[u].cmd = "mode" /\ Sound(u) /\ mode' = call[u].mode
    <3>1. Changed(u)
      BY <1>1, <1>2, <2>3 DEF Changing
    <3>2. Block(u) /\ (IF mode' \in TwoLaneModes THEN TwoLanes(u) ELSE FourLanesRun(u))
      BY <2>3, <3>1 DEF Changed
    <3>3. mipi'["14"] = Clock(mode') /\ mipi'["23"] = 0
      BY <1>2, <2>3, <3>2 DEF Block
    <3>4. CASE mode' \in TwoLaneModes
      <4>1. /\ mipi'["10"] = 32 /\ mipi'["11"] = 71 /\ mipi'["12"] = 84 /\ mipi'["13"] = 239
            /\ 0 \in system' <=> mode' \in {"720P25_2LANES", "720P25_4LANES"}
            /\ 1 \in system' <=> mode' \in {"720P25_2LANES", "720P25_4LANES"}
        BY <1>2, <2>3, <3>2, <3>4 DEF TwoLanes, HD
      <4>2. QED
        BY <3>3, <3>4, <4>1 DEF ModeInEffect, TwoLaneModes
    <3>5. CASE mode' \notin TwoLaneModes
      <4>1. /\ mipi'["10"] = 32 /\ mipi'["11"] = 71 /\ mipi'["12"] = 84 /\ mipi'["13"] = 239
            /\ \A c \in Channels : c \in system' <=> mode' \in {"720P25_2LANES", "720P25_4LANES"}
        BY <1>2, <2>3, <3>2, <3>5 DEF FourLanesRun, HD
      <4>2. QED
        BY <3>3, <3>5, <4>1 DEF ModeInEffect, TwoLaneModes
    <3>6. QED
      BY <3>4, <3>5
  <2>4. QED
    BY <2>1, <2>2, <2>3
<1>12. QED
  BY <1>7, <1>8, <1>9, <1>10, <1>11 DEF IInv

LEMMA ReloadStep ==
    ASSUME IInv, Reload
    PROVE  IInv'
<1>1. /\ Shape /\ Alone /\ Path /\ PictureShown /\ ModeInEffect
  BY DEF IInv
<1>2. /\ UNCHANGED <<image, mipi, system, signal, mutex, call, todo, reply, tmp,
                     failed, changed, due, wanted, mode>>
      /\ page' = 0 /\ shadow' = [c \in Channels |-> Default]
  BY DEF Reload, history
<1>3. \A w \in Users : ~InCall(w)'
  BY <1>2 DEF Reload, InCall
<1>4. Shape'
  <2>1. Default \in [Registers -> Nat]
    BY DEF Default
  <2>2. shadow' \in [Channels -> [Registers -> Nat]] /\ page' \in Pages
    BY <1>2, <2>1, PageSet
  <2>3. QED
    BY <1>1, <1>2, <2>2 DEF Shape
<1>5. Alone' /\ Path' /\ PictureShown' /\ ModeInEffect'
  BY <1>1, <1>2 DEF Alone, Path, PictureShown, ModeInEffect, InCall, Sound
<1>6. Drawing' /\ Changing' /\ Getting' /\ Asking'
  BY <1>3 DEF Drawing, DrawsOne, DrawsAll, Changing, Getting, Asking
<1>7. QED
  BY <1>4, <1>5, <1>6 DEF IInv

LEMMA SignalStep ==
    ASSUME IInv, Signal
    PROVE  IInv'
<1>1. /\ Shape /\ Alone /\ Path /\ PictureShown /\ ModeInEffect
      /\ Drawing /\ Changing /\ Getting /\ Asking
  BY DEF IInv
<1>2. UNCHANGED <<page, image, mipi, system, shadow, mutex, call, todo, reply, tmp,
                  failed, changed, due, wanted, mode>>
  BY DEF Signal, chip, history
<1>3. PICK c \in Wired, s \in Standards \cup {VideoLoss} : signal' = [signal EXCEPT ![c] = s]
  BY Zenon DEF Signal
<1>4. c \in Channels /\ s \in Nat
  BY TpConstants, PageSet DEF TpConstants, VideoLoss
<1>5. signal' \in [Channels -> Nat]
  BY <1>1, <1>3, <1>4 DEF Shape
<1>6. Shape'
  BY <1>1, <1>2, <1>5 DEF Shape
<1>7. Alone' /\ Path' /\ PictureShown' /\ ModeInEffect'
  BY <1>1, <1>2 DEF Alone, Path, PictureShown, ModeInEffect, InCall, Sound
<1>8. Drawing'
  BY <1>1, <1>2 DEF Drawing, DrawsOne, DrawsAll, OnePicture, AllPictures, InCall, Sound, Left
<1>9. Changing'
  BY <1>1, <1>2 DEF Changing, Changed, Block, TwoLanes, FourLanesRun, HD, InCall, Sound, Left
<1>10. Getting'
  BY <1>1, <1>2 DEF Getting, Got, InCall, Sound, Left
<1>11. Asking'
  BY <1>1, <1>2 DEF Asking, Asked, Right, InCall, Sound, Left
<1>12. QED
  BY <1>6, <1>7, <1>8, <1>9, <1>10, <1>11 DEF IInv

-----------------------------------------------------------------------------
(* The driver. *)

\* Of two calls that run together both are resolution queries.
Discipline == ~Overlap

LEMMA InitIInv == Init => IInv
<1> SUFFICES ASSUME Init PROVE IInv
  OBVIOUS
<1>1. \A w \in Users : ~InCall(w)
  BY DEF Init, InCall
<1>2. Drawing /\ Changing /\ Getting /\ Asking
  BY <1>1, Idle
<1>3. Default \in [Registers -> Nat]
  BY DEF Default
<1>4. image \in [Channels -> [Registers -> Nat]] /\ shadow \in [Channels -> [Registers -> Nat]]
  BY <1>3 DEF Init
<1>5. /\ page \in Pages /\ DOMAIN mipi = MipiRegs /\ signal \in [Channels -> Nat]
      /\ reply \in [Users -> Seq(Nat)]
  BY PageSet DEF Init, VideoLoss
<1>6. call \in [Users -> Requests \cup {NoCall}] /\ changed \in [Users -> SUBSET Registers]
  BY DEF Init
<1>7. Shape
  BY <1>4, <1>5, <1>6 DEF Shape, Init
<1>8. Alone
  BY <1>1 DEF Alone
<1>9. Path
  BY <1>1 DEF Path, Init, Sound
<1>10. PictureShown /\ ModeInEffect
  BY DEF PictureShown, ModeInEffect, Init
<1>11. QED
  BY <1>2, <1>7, <1>8, <1>9, <1>10 DEF IInv

LEMMA NextIInv ==
    ASSUME Discipline, IInv, [Next]_vars
    PROVE  IInv'
<1>1. CASE \E u \in Users : Begin(u) \/ Do(u) \/ Return(u)
  BY <1>1, BeginStep, DoStep, ReturnStep DEF Discipline
<1>2. CASE Reload
  BY <1>2, ReloadStep
<1>3. CASE Signal
  BY <1>3, SignalStep
<1>4. CASE UNCHANGED vars
  <2>1. UNCHANGED <<page, image, mipi, system, signal, shadow, mutex, call, todo, reply, tmp, failed,
                    changed, due, wanted, mode>>
    BY <1>4 DEF vars, chip, history
  <2>2. Shape' /\ Alone' /\ Path' /\ PictureShown' /\ ModeInEffect'
    BY <2>1 DEF IInv, Shape, Alone, Path, PictureShown, ModeInEffect, InCall, Sound
  <2>3. Drawing'
    BY <2>1 DEF IInv, Drawing, DrawsOne, DrawsAll, OnePicture, AllPictures, InCall, Left, Sound
  <2>4. Changing'
    BY <2>1 DEF IInv, Changing, Changed, Block, TwoLanes, FourLanesRun, HD, InCall, Left, Sound
  <2>5. Getting'
    BY <2>1 DEF IInv, Getting, Got, InCall, Left, Sound
  <2>6. Asking'
    BY <2>1 DEF IInv, Asking, Asked, Right, InCall, Left, Sound
  <2>7. QED
    BY <2>2, <2>3, <2>4, <2>5, <2>6 DEF IInv
<1>5. QED
  BY <1>1, <1>2, <1>3, <1>4 DEF Next

\* The invariant of the driver: one call at a time walks down its script, and the chip,
\* the copies and the replies are what its finished transfers have made of them.
THEOREM Safety == Discipline => (Spec => []IInv)
<1> SUFFICES ASSUME Discipline PROVE Spec => []IInv
  OBVIOUS
<1>1. IInv /\ [Next]_vars => IInv'
  BY NextIInv
<1>2. QED
  BY <1>1, InitIInv, PTL DEF Spec

\* tp285x_set_image: a register that a call changed without a failed transfer keeps its
\* value, whatever calls whose transfers went well, dumps and reloads follow; for any
\* pictures, registers and users.  What a raw write reaches, or a call after one of its own
\* transfers has failed, is given up.
THEOREM PictureIsShown == Discipline => (Spec => []PictureShown)
<1>1. IInv => PictureShown
  BY DEF IInv
<1>2. QED
  BY <1>1, Safety, PTL

\* TP2850_SET_VIDEO_MODE: the clocks and the MIPI block of the mode last set without a
\* failed transfer are in effect, up to raw writes to them and to writes to them by a call
\* one of whose transfers has failed.
THEOREM ModeIsInEffect == Discipline => (Spec => []ModeInEffect)
<1>1. IInv => ModeInEffect
  BY DEF IInv
<1>2. QED
  BY <1>1, Safety, PTL

\* A resolution query answers loss by the signal of its channel at the read of register
\* 0x01 and the format by that at the read of 0x03; a picture query answers for the channel
\* it was asked for.
THEOREM RepliesAreOwn == Discipline => (Spec => []ReplyOfItsChannel)
<1>1. IInv => ReplyOfItsChannel
  <2>1. SUFFICES ASSUME IInv, NEW u \in Users, InCall(u), todo[u] = << >>, Sound(u)
                 PROVE  /\ call[u].cmd = "resolution" => \A c \in Channels :
                             reply[u][c + 1] \in due[u][c]
                        /\ call[u].cmd = "get" => \A k \in DOMAIN ImageRegs :
                             reply[u][k] = image[call[u].chn][ImageRegs[k]]
    BY DEF ReplyOfItsChannel, InCall, Sound
  <2>2. Left(u) = 0
    BY <2>1 DEF Left
  <2>3. ASSUME call[u].cmd = "resolution", NEW c \in Channels PROVE Right(u, c)
    <3>1. Asked(u)
      BY <2>1, <2>3 DEF IInv, Asking
    <3>2. Answered(0) = 4
      BY DEF Answered
    <3>3. c < 4
      BY PageSet
    <3>4. QED
      BY <2>2, <3>1, <3>2, <3>3 DEF Asked
  <2>4. ASSUME call[u].cmd = "get", NEW k \in DOMAIN ImageRegs
        PROVE  reply[u][k] = image[call[u].chn][ImageRegs[k]]
    <3>1. Got(u)
      BY <2>1, <2>4 DEF IInv, Getting
    <3>2. Len(ImageRegs) \in Nat /\ DOMAIN ImageRegs = 1..Len(ImageRegs)
      BY Regs
    <3>3. Len(reply[u]) = Len(ImageRegs)
      BY <2>2, <3>1, <3>2 DEF Got
    <3>4. QED
      BY <3>1, <3>2, <3>3 DEF Got
  <2>5. QED
    BY <2>3, <2>4 DEF Right
<1>2. QED
  BY <1>1, Safety, PTL

\* A register of the MIPI block changes by a raw write, after a failure or in a change of
\* the mode.
LEMMA ClockStep ==
    ASSUME IInv, NEW u \in Users, Do(u), ~Unsound(u), mipi'["14"] # mipi["14"]
    PROVE  mipi["23"] # 0
<1> DEFINE o == Head(todo[u])
<1>1. Shape /\ Path /\ Drawing /\ Changing /\ todo[u] # << >> /\ Sound(u)
  BY DoCases DEF IInv, Unsound, Sound
<1>2. o \in Ops /\ InCall(u) /\ call[u] \in Requests
  BY <1>1, Kinds, NextTransfer
<1>3. o.op \in {"put", "adjust"}
  <2>1. CASE o.op = "page"
    BY <2>1, DoByOp, PageCases
  <2>2. CASE o.op \in {"remember", "id", "image", "loss", "format", "read", "fetch"}
    BY <2>2, DoByOp DEF DoRemember, DoReadId, DoReadImage, DoReadLoss, DoReadFormat, DoReadOther,
                        DoReadSystem, Quiet, chip
  <2>3. CASE o.op \in {"system", "store"}
    BY <2>3, DoByOp, StoreCases
  <2>4. QED
    BY <1>2, <2>1, <2>2, <2>3, OpFields
<1>4. ASSUME NEW r, NEW v \in Nat, Write(r, v) PROVE page = Mipi /\ r = "14"
  <2>1. "14" \in MipiRegs
    BY DEF MipiRegs
  <2>2. mipi'["14"] = (IF page = Mipi /\ "14" = r THEN v ELSE mipi["14"])
    BY <1>1, <1>4, <2>1, WriteFacts
  <2>3. QED
    BY <2>2
<1>5. CASE o.op = "adjust"
  <2>1. DrawsOne(u) /\ DoAdjust(u, o) /\ Byte(o.val) \in Nat
    BY <1>1, <1>2, <1>5, Kinds, DoByOp, OpFields DEF Byte
  <2>2. Write(o.reg, Byte(o.val))
    BY <2>1, AdjustCases DEF Quiet, chip
  <2>3. page = Mipi
    BY <1>4, <2>1, <2>2
  <2>4. page = call[u].chn /\ call[u].chn \in Channels
    <3>1. OnePicture(u)
      BY <1>1, <2>1 DEF Drawing
    <3>2. Left(u) <= Len(ImageRegs)
      <4>1. Left(u) # Len(ImageRegs) + 1
        BY <1>1, <1>5, <2>1, OneNext, OpNames
      <4>2. QED
        BY <1>1, <2>1, <4>1, OneNext
    <3>3. QED
      BY <1>1, <2>1, <3>1, <3>2, OneNext DEF OnePicture
  <2>5. \A c \in Channels : c # Mipi
    BY PageSet
  <2>6. QED
    BY <2>3, <2>4, <2>5
<1>6. CASE o.op = "put"
  <2>1. DoPut(u, o) /\ o.val \in Nat
    BY <1>2, <1>6, DoByOp, OpFields
  <2>2. Write(o.reg, o.val)
    BY <2>1, PutCases DEF Quiet, chip
  <2>3. page = Mipi /\ o.reg = "14"
    BY <1>4, <2>1, <2>2
  <2>4. CASE DrawsAll(u)
    <3>1. AllPictures(u)
      BY <1>1, <2>4 DEF Drawing
    <3>2. Left(u) <= Len(ImageRegs) + 1
      <4>1. Left(u) # Len(ImageRegs) + 2
        BY <1>1, <1>6, <2>4, AllNext, OpNames
      <4>2. QED
        BY <1>1, <2>4, <4>1, AllNext
    <3>3. page = 0
      BY <1>1, <3>1, <3>2 DEF AllPictures
    <3>4. 0 # Mipi
      BY PageSet
    <3>5. QED
      BY <2>3, <3>3, <3>4
  <2>5. CASE call[u].cmd = "mode"
    <3>1. Block(u) /\ (IF call[u].mode \in TwoLaneModes THEN TwoLanes(u) ELSE FourLanesRun(u))
      BY <1>1, <1>2, <2>5 DEF Changing, Changed
    <3>2. CASE call[u].mode \in TwoLaneModes
      <4>1. Left(u) \in 1..21
        <5>1. /\ Left(u) = 27 => o = Put("23", 2)
              /\ Left(u) = 22 => o = Put("23", 2)
              /\ Left(u) = 24 => o = ReadId
          BY <1>1, <2>5, <3>2, TwoNext
        <5>2. /\ Left(u) \in {23, 28} => o = Page(Mipi)
              /\ Left(u) \in {25, 26} => o = Page(0)
          BY <1>1, <2>5, <3>2, TwoNext
        <5>3. Left(u) \in 1..28
          BY <1>1, <2>5, <3>2, TwoNext
        <5> HIDE DEF o
        <5>4. Left(u) \notin {22, 23, 24, 25, 26, 27, 28}
          BY <1>6, <2>3, <5>1, <5>2, OpNames
        <5>5. QED
          BY <5>3, <5>4
      <4>2. QED
        BY <3>1, <3>2, <4>1 DEF TwoLanes
    <3>3. CASE call[u].mode \notin TwoLaneModes
      <4>1. Left(u) \in 1..16
        <5>1. Left(u) \in 1..18 /\ Left(u) \notin {17, 18}
          BY <1>1, <1>6, <2>3, <2>5, <3>3, FourNext, OpNames
        <5>2. QED
          BY <5>1
      <4>2. QED
        BY <3>1, <3>3, <4>1 DEF FourLanesRun
    <3>4. QED
      BY <3>2, <3>3
  <2>6. CASE call[u].cmd \in {"dump", "proc_dump", "read", "write", "proc"}
    BY <1>1, <1>6, <2>6, RawNext
  <2>7. CASE DrawsOne(u)
    BY <1>1, <1>6, <2>7, OneNext, OpNames
  <2>8. CASE call[u].cmd = "get"
    BY <1>1, <1>6, <2>8, GetNext, OpNames
  <2>9. call[u].cmd # "resolution"
    BY <1>1, <1>6, AskKinds
  <2>10. call[u].cmd = "image" => DrawsOne(u) \/ DrawsAll(u)
    BY <1>1, <1>2, RequestFields, NoneNext DEF DrawsOne, DrawsAll
  <2>11. QED
    BY <1>2, <2>4, <2>5, <2>6, <2>7, <2>8, <2>9, <2>10, RequestFields
<1>7. QED
  BY <1>3, <1>5, <1>6

\* "Disable MIPI CSI2 output": nothing that goes by the book changes the MIPI clock while
\* the output is enabled.
THEOREM ClockWithOutputOff == Discipline => (Spec => ClockChangesWithOutputOff)
<1> DEFINE A == mipi'["14"] # mipi["14"] /\ (\A u \in Users : ~Unsound(u)) => mipi["23"] # 0
<1>1. ASSUME IInv, Next PROVE A
  <2>1. CASE \E u \in Users : Do(u)
    BY <1>1, <2>1, ClockStep
  <2>2. CASE (\E u \in Users : Begin(u) \/ Return(u)) \/ Reload \/ Signal
    <3>1. mipi' = mipi
      BY <2>2 DEF Begin, Return, Reload, Signal, chip
    <3>2. QED
      BY <3>1
  <2>3. QED
    BY <1>1, <2>1, <2>2 DEF Next
<1>2. IInv /\ [Next]_vars => [A]_vars
  BY <1>1
<1>3. QED
  BY <1>2, Safety, PTL DEF Spec, ClockChangesWithOutputOff
=============================================================================
