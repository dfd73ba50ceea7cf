---------------------------- MODULE Tp9930_proofs ----------------------------
(***************************************************************************)
(* Proofs about Tp9930 for any users, channels, registers, pictures and    *)
(* modes, with failing transfers or without.  They need what the runs      *)
(* assume as well: the application keeps the callers without a semaphore   *)
(* apart from the others, and set_image writes every register of a         *)
(* picture.                                                                *)
(*                                                                         *)
(* ImageWhole is about the end of a call and needs to know, in its middle, *)
(* that the page is that of its channel and which registers are written    *)
(* (Picture); ModeWhole needs the assignments a change of the mode has     *)
(* made so far (Mode), and the format a stream start remembers (Walking).  *)
(* Both need that one call at a time is under way (Alone).                 *)
(*                                                                         *)
(* The last part is about Tp9930Detect, the plug detection of the driver,  *)
(* which shares nothing with its registers.                                *)
(***************************************************************************)
EXTENDS Tp9930, Tp9930Detect, TLAPS

Discipline ==
    /\ ~Overlap
    /\ \A r \in Regs : \E j \in 1..Len(ImageRegs) : ImageRegs[j] = r

InCall(u) == call[u] # NoCall

Shape ==
    /\ DOMAIN image = Channels
    /\ \A c \in Channels : DOMAIN image[c] = Regs
    /\ DOMAIN wanted = Channels
    /\ call \in [Users -> Requests \cup {NoCall}]
    /\ at \in [Users -> Nat]
    /\ s_info \in [fmt : Modes, fmt_pt : Modes, win_pt : Modes]
    /\ stream = NoWalk \/ stream \in [mode : Modes, fmt : Modes, at : Nat]
    /\ dump = NoWalk \/ dump \in [chn : Channels, at : 1..2]

\* The semaphore, and the discipline of the application.
Alone ==
    /\ \A u \in Users : InCall(u) <=> lock = u
    /\ \A u \in Users : ~InCall(u) => at[u] = 0
    /\ lock \in Users \cup {NoUser}
    /\ \A u \in Users : InCall(u) => stream = NoWalk /\ dump = NoWalk

Drawing(u) == InCall(u) /\ call[u].cmd = "image" /\ call[u].chn \in Channels /\ u \notin failed

\* What the finished writes of set_image have done.
Picture ==
    \A u \in Users : Drawing(u) =>
        /\ at[u] <= Len(ImageRegs) + 1
        /\ at[u] > 0 =>
             /\ page = call[u].chn
             /\ \A j \in 1..(at[u] - 1) : image[call[u].chn][ImageRegs[j]] = call[u].val

SameMode == s_info.fmt = s_info.fmt_pt /\ s_info.fmt_pt = s_info.win_pt

\* What the finished assignments of sensor_set_vi_mode have done.
Mode ==
    /\ lock = NoUser => SameMode
    /\ \A u \in Users : InCall(u) /\ call[u].cmd # "mode" => SameMode
    /\ \A u \in Users : InCall(u) /\ call[u].cmd = "mode" =>
         /\ at[u] \in 0..3
         /\ at[u] >= 1 => s_info.fmt = call[u].mode
         /\ at[u] >= 2 => s_info.fmt_pt = call[u].mode
         /\ at[u] = 3 => s_info.win_pt = call[u].mode

\* A stream start remembers the format that is stored.
Walking == stream # NoWalk => stream.fmt = s_info.fmt

IInv == Shape /\ Alone /\ ImageWhole /\ Picture /\ Mode /\ Walking

-----------------------------------------------------------------------------
(* The scripts. *)

LEMMA ImageLen == Len(ImageRegs) \in Nat /\ DOMAIN ImageRegs = 1..Len(ImageRegs)
  BY TpConstants DEF TpConstants

\* set_image: the page, then each register.
LEMMA SetImageScript ==
    ASSUME NEW chn, NEW v
    PROVE  /\ Len(SetImage(chn, v)) = Len(ImageRegs) + 1
           /\ SetImage(chn, v)[1] = Page(chn)
           /\ \A k \in 1..Len(ImageRegs) : SetImage(chn, v)[k + 1] = Image(ImageRegs[k], v)
<1> DEFINE Ops == {Page(chn)} \cup {Image(ImageRegs[k], v) : k \in DOMAIN ImageRegs}
<1>1. <<Page(chn)>> \in Seq(Ops)
  <2>1. Page(chn) \in Ops
    OBVIOUS
  <2> HIDE DEF Ops
  <2>2. QED
    BY <2>1
<1>2. /\ ImageWrites(v) \in Seq(Ops)
      /\ Len(ImageWrites(v)) = Len(ImageRegs)
      /\ \A k \in 1..Len(ImageRegs) : ImageWrites(v)[k] = Image(ImageRegs[k], v)
  <2>1. \A k \in 1..Len(ImageRegs) : Image(ImageRegs[k], v) \in Ops
    BY ImageLen
  <2>2. ImageWrites(v) = [k \in 1..Len(ImageRegs) |-> Image(ImageRegs[k], v)]
    BY ImageLen DEF ImageWrites
  <2> HIDE DEF Ops
  <2>3. QED
    BY <2>1, <2>2, ImageLen
<1> HIDE DEF Ops
<1>3. QED
  BY <1>1, <1>2, ImageLen DEF SetImage

\* Which request has which fields.
LEMMA RequestFields ==
    ASSUME NEW req \in Requests
    PROVE  /\ req.cmd \in {"image", "vloss", "read", "mode", "write"}
           /\ req.cmd = "image" => req.chn \in 0..N /\ req.val \in Images
           /\ req.cmd = "mode" => req.mode \in Modes
           /\ req.cmd = "write" => req.write.op \in {"page", "image", "id"}
           /\ req # NoCall
  BY DEF Requests, NoCall

LEMMA ImageScript ==
    ASSUME NEW req \in Requests, req.cmd = "image", req.chn \in Channels
    PROVE  Script(req) = SetImage(req.chn, req.val)
<1>1. ~ParamError(req)
  BY TpConstants DEF ParamError, Channels, TpConstants
<1>2. QED
  BY <1>1 DEF Script

LEMMA ModeScript ==
    ASSUME NEW req \in Requests, req.cmd = "mode"
    PROVE  Script(req) = <<Assign("fmt", req.mode), Assign("fmt_pt", req.mode), Assign("win_pt", req.mode)>>
  BY DEF Script, SetViMode

\* Only a change of the mode assigns.
LEMMA NoAssignment ==
    ASSUME NEW req \in Requests, req.cmd # "mode", NEW k \in 1..Len(Script(req))
    PROVE  Script(req)[k].op # "assign"
<1>1. CASE req.cmd = "image"
  <2>1. CASE ParamError(req)
    BY <1>1, <2>1 DEF Script
  <2>2. CASE ~ParamError(req)
    <3>1. Script(req) = SetImage(req.chn, req.val)
      BY <1>1, <2>2 DEF Script
    <3>2. k \in 1..(Len(ImageRegs) + 1)
      BY <3>1, SetImageScript
    <3>3. CASE k = 1
      <4>1. Script(req)[1] = Page(req.chn)
        BY <3>1, SetImageScript
      <4>2. Page(req.chn).op # "assign"
        BY DEF Page
      <4>3. QED
        BY <3>3, <4>1, <4>2
    <3>4. CASE k # 1
      <4>1. k - 1 \in 1..Len(ImageRegs) /\ k = (k - 1) + 1
        BY <3>2, <3>4, ImageLen
      <4>2. Script(req)[k] = Image(ImageRegs[k - 1], req.val)
        BY <3>1, <4>1, SetImageScript
      <4>3. QED
        BY <4>2 DEF Image
    <3>5. QED
      BY <3>3, <3>4
  <2>3. QED
    BY <2>1, <2>2
<1>2. CASE req.cmd = "vloss"
  <2>1. Script(req) = GetVloss
    BY <1>2 DEF Script
  <2>2. k \in 1..(2 * N)
    BY <2>1, TpConstants DEF GetVloss, TpConstants
  <2>3. GetVloss[k].op \in {"page", "loss"}
    BY <2>2 DEF GetVloss, Page, ReadLoss
  <2>4. QED
    BY <2>1, <2>3
<1>3. CASE req.cmd = "read"
  BY <1>3 DEF Script, ReadOther
<1>4. CASE req.cmd = "write"
  <2>1. Script(req) = <<req.write>>
    BY <1>4 DEF Script
  <2>2. k = 1
    BY <2>1
  <2>3. QED
    BY <1>4, <2>1, <2>2, RequestFields
<1>5. QED
  BY <1>1, <1>2, <1>3, <1>4, RequestFields

LEMMA ScriptLen == \A req \in Requests : Len(Script(req)) \in Nat
<1> SUFFICES ASSUME NEW req \in Requests PROVE Len(Script(req)) \in Nat
  OBVIOUS
<1>1. CASE req.cmd = "image"
  <2>1. Script(req) = << >> \/ Script(req) = SetImage(req.chn, req.val)
    BY <1>1 DEF Script
  <2>2. QED
    BY <2>1, SetImageScript, ImageLen
<1>2. CASE req.cmd = "vloss"
  <2>1. Script(req) = GetVloss
    BY <1>2 DEF Script
  <2>2. QED
    BY <2>1, TpConstants DEF GetVloss, TpConstants
<1>3. CASE req.cmd \in {"read", "write"}
  BY <1>3 DEF Script
<1>4. CASE req.cmd = "mode"
  BY <1>4, ModeScript
<1>5. QED
  BY <1>1, <1>2, <1>3, <1>4, RequestFields

-----------------------------------------------------------------------------
(* Transfers. *)

\* A write changes the pictures of the channels it reaches and no others.
LEMMA WriteKeeps ==
    ASSUME Shape, NEW o, NEW ok, Write(o, ok)
    PROVE  /\ DOMAIN image' = Channels
           /\ \A c \in Channels : DOMAIN image'[c] = Regs
           /\ \A c \in Channels : image'[c] = image[c] \/ (o.op = "image" /\ c \in Targets)
<1>1. CASE ok /\ o.op = "image"
  <2>1. image' = [c \in Channels |-> IF c \in Targets
                    THEN [image[c] EXCEPT ![o.reg] = o.val] ELSE image[c]]
    BY <1>1 DEF Write
  <2>2. QED
    BY <1>1, <2>1 DEF Shape
<1>2. CASE ~(ok /\ o.op = "image")
  <2>1. image' = image
    BY <1>2 DEF Write
  <2>2. QED
    BY <2>1 DEF Shape
<1>3. QED
  BY <1>1, <1>2

\* Whatever is written, a picture that is still known is still whole.
LEMMA ForgetWhole ==
    ASSUME Shape, ImageWhole, NEW o, NEW ok, Write(o, ok),
           NEW given_up, wanted' = Forget(o, given_up),
           o.op = "image" => Targets \subseteq given_up
    PROVE  ImageWhole' /\ DOMAIN wanted' = Channels
<1>1. \A c \in Channels : wanted'[c] # Unknown =>
         wanted'[c] = wanted[c] /\ ~(o.op = "image" /\ c \in Targets)
  BY DEF Forget
<1>2. \A c \in Channels : wanted'[c] # Unknown => image'[c] = image[c]
  BY <1>1, WriteKeeps
<1>3. QED
  BY <1>1, <1>2 DEF ImageWhole, Forget

\* A dump writes the page register only.
LEMMA DumpScript ==
    ASSUME NEW c
    PROVE  /\ Len(Dump(c)) = 2
           /\ \A k \in 1..2 : Dump(c)[k].op \notin {"image", "id"}
<1> DEFINE Ops == {Page(c), ReadOther}
<1>1. <<Page(c)>> \in Seq(Ops) /\ <<ReadOther>> \in Seq(Ops)
  <2>1. Page(c) \in Ops /\ ReadOther \in Ops
    OBVIOUS
  <2> HIDE DEF Ops
  <2>2. QED
    BY <2>1
<1> HIDE DEF Ops
<1>2. Len(Dump(c)) = 2 /\ Dump(c)[1] = Page(c) /\ Dump(c)[2] = ReadOther
  BY <1>1 DEF Dump, reg_dump
<1>3. Page(c).op \notin {"image", "id"} /\ ReadOther.op \notin {"image", "id"}
  BY DEF Page, ReadOther
<1>4. QED
  BY <1>2, <1>3

\* A reset leaves nothing known.
LEMMA LoseWhole ==
    ASSUME Shape, Lose
    PROVE  /\ ImageWhole'
           /\ DOMAIN image' = Channels /\ DOMAIN wanted' = Channels
           /\ \A c \in Channels : DOMAIN image'[c] = Regs
           /\ \A u \in Users : InCall(u) => u \in failed'
  BY DEF Lose, ImageWhole, DefaultImage, Busy, InCall

-----------------------------------------------------------------------------
(* The steps of an ioctl. *)

LEMMA DownStep ==
    ASSUME IInv, Discipline, NEW u \in Users, Down(u)
    PROVE  IInv'
<1>1. PICK req \in Requests : call' = [call EXCEPT ![u] = req]
  BY DEF Down
<1>2. /\ lock = NoUser /\ lock' = u /\ stream = NoWalk /\ dump = NoWalk
      /\ UNCHANGED <<page, image, id, at, s_info, stream, dump, failed, wanted>>
  BY DEF Down, Discipline, Unlocked, chip, history
<1>3. \A v \in Users : ~InCall(v) /\ at[v] = 0
  BY <1>2, TpConstants DEF IInv, Alone, TpConstants, InCall
<1>4. call' \in [Users -> Requests \cup {NoCall}] /\ call'[u] = req
      /\ \A v \in Users \ {u} : call'[v] = NoCall
  BY <1>1, <1>3 DEF IInv, Shape, InCall
<1>5. \A v \in Users : InCall(v)' <=> v = u
  BY <1>4, RequestFields DEF InCall
<1>6. Shape'
  BY <1>2, <1>4 DEF IInv, Shape
<1>7. Alone'
  BY <1>2, <1>3, <1>5 DEF IInv, Alone, InCall
<1>8. ImageWhole'
  BY <1>2 DEF IInv, ImageWhole
<1>9. Picture'
  BY <1>2, <1>3, <1>5, ImageLen DEF Picture, Drawing
<1>10. SameMode' /\ lock' # NoUser
  BY <1>2, TpConstants DEF IInv, Mode, SameMode, TpConstants
<1>11. Mode'
  BY <1>2, <1>3, <1>5, <1>10 DEF Mode
<1>12. Walking'
  BY <1>2 DEF Walking
<1>13. QED
  BY <1>6, <1>7, <1>8, <1>9, <1>11, <1>12 DEF IInv

\* What a step of an ioctl leaves alone, and where it is in its script.
LEMMA DoFacts ==
    ASSUME IInv, NEW u \in Users, Do(u)
    PROVE  /\ InCall(u) /\ call[u] \in Requests
           /\ at[u] \in Nat /\ at[u] + 1 \in 1..Len(Script(call[u]))
           /\ \A v \in Users \ {u} : ~InCall(v)
           /\ at' = [at EXCEPT ![u] = @ + 1] /\ at'[u] = at[u] + 1
           /\ at' \in [Users -> Nat]
           /\ UNCHANGED <<lock, call, stream, dump>>
           /\ stream = NoWalk /\ dump = NoWalk /\ lock # NoUser
<1>1. InCall(u) /\ call[u] \in Requests /\ at[u] \in Nat
  BY DEF Do, Left, InCall, IInv, Shape
<1>2. Len(Script(call[u])) \in Nat
  BY <1>1, ScriptLen
<1>3. at[u] + 1 \in 1..Len(Script(call[u]))
  BY <1>1, <1>2 DEF Do, Left
<1>4. \A v \in Users \ {u} : ~InCall(v)
  BY <1>1 DEF IInv, Alone
<1>5. at' = [at EXCEPT ![u] = @ + 1] /\ UNCHANGED <<lock, call, stream, dump>>
  BY DEF Do
<1>6. at' \in [Users -> Nat] /\ at'[u] = at[u] + 1
  BY <1>1, <1>5 DEF IInv, Shape
<1>7. stream = NoWalk /\ dump = NoWalk /\ lock # NoUser
  BY <1>1, TpConstants DEF IInv, Alone, TpConstants
<1>8. QED
  BY <1>1, <1>3, <1>4, <1>5, <1>6, <1>7

LEMMA DoAlone ==
    ASSUME IInv, NEW u \in Users, Do(u)
    PROVE  Alone' /\ Walking'
<1>1. Alone'
  BY DoFacts DEF IInv, Alone, InCall
<1>2. Walking'
  BY DoFacts DEF Walking
<1>3. QED
  BY <1>1, <1>2

\* sensor_set_vi_mode: an assignment.
LEMMA DoMode ==
    ASSUME IInv, NEW u \in Users, Do(u), call[u].cmd = "mode"
    PROVE  IInv'
<1> DEFINE m == call[u].mode
<1>1. Script(call[u]) = <<Assign("fmt", m), Assign("fmt_pt", m), Assign("win_pt", m)>>
  BY DoFacts, ModeScript
<1>2. at[u] \in 0..2 /\ m \in Modes
  <2>1. Len(Script(call[u])) = 3
    BY <1>1
  <2>2. at[u] \in Nat /\ at[u] + 1 \in 1..3
    BY <2>1, DoFacts
  <2>3. QED
    BY <2>2, DoFacts, RequestFields
<1> DEFINE f == IF at[u] = 0 THEN "fmt" ELSE IF at[u] = 1 THEN "fmt_pt" ELSE "win_pt"
<1>3. Script(call[u])[at[u] + 1] = Assign(f, m)
  BY <1>1, <1>2
<1>4. /\ s_info' = [s_info EXCEPT ![f] = m]
      /\ UNCHANGED <<page, image, failed, wanted>>
  BY <1>3 DEF Do, Assign, chip
<1>5. s_info \in [fmt : Modes, fmt_pt : Modes, win_pt : Modes]
  BY DEF IInv, Shape
<1>6. /\ s_info' \in [fmt : Modes, fmt_pt : Modes, win_pt : Modes]
      /\ at[u] = 0 => s_info'.fmt = m
      /\ at[u] = 1 => s_info'.fmt = s_info.fmt /\ s_info'.fmt_pt = m
      /\ at[u] = 2 => /\ s_info'.fmt = s_info.fmt /\ s_info'.fmt_pt = s_info.fmt_pt
                      /\ s_info'.win_pt = m
  BY <1>2, <1>4, <1>5
<1>7. Shape'
  BY <1>4, <1>6, DoFacts DEF IInv, Shape
<1>8. ImageWhole'
  BY <1>4 DEF IInv, ImageWhole
<1>9. \A v \in Users : ~Drawing(v)'
  BY DoFacts DEF Drawing, InCall
<1>10. Picture'
  BY <1>9 DEF Picture
<1>11. Mode'
  <2>1. /\ at[u] >= 1 => s_info.fmt = m
        /\ at[u] >= 2 => s_info.fmt_pt = m
    BY DoFacts DEF IInv, Mode
  <2>2. /\ at'[u] \in 0..3
        /\ at'[u] >= 1 => s_info'.fmt = m
        /\ at'[u] >= 2 => s_info'.fmt_pt = m
        /\ at'[u] = 3 => s_info'.win_pt = m
    BY <1>2, <1>6, <2>1, DoFacts
  <2>3. QED
    BY <2>2, DoFacts DEF Mode, InCall
<1>12. QED
  BY <1>7, <1>8, <1>10, <1>11, DoAlone DEF IInv

\* A set_image none of whose transfers has failed writes into its own channel only.
LEMMA OwnWrite ==
    ASSUME IInv, NEW u \in Users, Do(u), Script(call[u])[at[u] + 1].op = "image"
    PROVE  Targets \subseteq GivenUp(u)
<1>1. CASE call[u].cmd = "image" /\ u \notin failed
  <2> DEFINE chn == call[u].chn
  <2>1. InCall(u) /\ call[u] \in Requests /\ at[u] \in Nat
    BY DoFacts
  <2>2. ~ParamError(call[u])
    <3>1. ParamError(call[u]) => Len(Script(call[u])) = 0
      BY <1>1 DEF Script
    <3>2. QED
      BY <3>1, DoFacts
  <2>3. chn \in Channels
    BY <1>1, <2>1, <2>2, RequestFields, TpConstants DEF ParamError, Channels, TpConstants
  <2>4. Script(call[u])[1].op # "image"
    <3>1. Script(call[u])[1] = Page(chn)
      BY <1>1, <2>1, <2>3, ImageScript, SetImageScript
    <3>2. QED
      BY <3>1 DEF Page
  <2>5. at[u] > 0
    BY <2>1, <2>4
  <2>6. page = chn
    BY <1>1, <2>1, <2>3, <2>5 DEF IInv, Picture, Drawing
  <2>7. QED
    BY <1>1, <2>3, <2>6, TpConstants DEF GivenUp, Targets, Channels, TpConstants
<1>2. CASE ~(call[u].cmd = "image" /\ u \notin failed)
  BY <1>2 DEF GivenUp
<1>3. QED
  BY <1>1, <1>2

\* The other ioctls: a transfer.
LEMMA DoTransfer ==
    ASSUME IInv, NEW u \in Users, Do(u), call[u].cmd # "mode"
    PROVE  IInv'
<1> DEFINE o == Script(call[u])[at[u] + 1]
<1>1. Transfer(u, o)
  <2>1. o.op # "assign"
    BY DoFacts, NoAssignment
  <2>2. QED
    BY <2>1 DEF Do
<1> HIDE DEF o
<1>2. PICK ok \in Results : Write(o, ok) /\ failed' = IF ok THEN failed ELSE failed \cup {u}
  BY <1>1 DEF Transfer
<1>3. wanted' = Forget(o, GivenUp(u)) /\ UNCHANGED s_info
  BY <1>1 DEF Transfer
<1>4. ImageWhole' /\ DOMAIN wanted' = Channels
  <2>1. o.op = "image" => Targets \subseteq GivenUp(u)
    BY OwnWrite DEF o
  <2>2. QED
    BY <1>2, <1>3, <2>1, ForgetWhole DEF IInv
<1>5. /\ DOMAIN image' = Channels
      /\ \A c \in Channels : DOMAIN image'[c] = Regs
  BY <1>2, WriteKeeps DEF IInv
<1>6. Shape'
  BY <1>3, <1>4, <1>5, DoFacts DEF IInv, Shape
<1>7. ASSUME Drawing(u)'
      PROVE  /\ at'[u] <= Len(ImageRegs) + 1
             /\ page' = call[u].chn
             /\ \A j \in 1..(at'[u] - 1) : image'[call[u].chn][ImageRegs[j]] = call[u].val
  <2> DEFINE chn == call[u].chn
             picture == call[u].val
  <2>1. call[u].cmd = "image" /\ chn \in Channels /\ u \notin failed' /\ InCall(u)
    BY <1>7, DoFacts DEF Drawing, InCall
  <2>2. ok /\ u \notin failed
    BY <1>2, <2>1
  <2>3. Drawing(u)
    BY <2>1, <2>2 DEF Drawing
  <2>4. Script(call[u]) = SetImage(chn, picture)
    BY <2>1, DoFacts, ImageScript
  <2>5. at[u] \in 0..Len(ImageRegs)
    BY <2>4, DoFacts, SetImageScript, ImageLen
  <2>6. CASE at[u] = 0
    <3>1. o = Page(chn)
      BY <2>4, <2>6, SetImageScript DEF o
    <3>2. page' = chn
      BY <1>2, <2>2, <3>1 DEF Write, Page
    <3>3. QED
      BY <2>5, <2>6, <3>2, DoFacts, ImageLen
  <2>7. CASE at[u] > 0
    <3> DEFINE r == ImageRegs[at[u]]
    <3>1. o = Image(r, picture)
      BY <2>4, <2>5, <2>7, SetImageScript DEF o
    <3>2. /\ page = chn
          /\ \A j \in 1..(at[u] - 1) : image[chn][ImageRegs[j]] = picture
      BY <2>3, <2>7 DEF IInv, Picture
    <3>3. Targets = {chn}
      BY <2>1, <3>2, TpConstants DEF Targets, Channels, TpConstants
    <3>4. page' = page /\ image' = [c \in Channels |-> IF c \in Targets
                            THEN [image[c] EXCEPT ![r] = picture] ELSE image[c]]
      BY <1>2, <2>2, <3>1 DEF Write, Image
    <3>5. image'[chn] = [image[chn] EXCEPT ![r] = picture]
      BY <2>1, <3>3, <3>4
    <3>6. \A j \in 1..at[u] : ImageRegs[j] \in Regs
      BY <2>5, ImageLen, TpConstants DEF TpConstants
    <3>7. \A j \in 1..at[u] : image'[chn][ImageRegs[j]] = picture
      <4> TAKE j \in 1..at[u]
      <4>1. ImageRegs[j] \in DOMAIN image[chn]
        BY <2>1, <3>6 DEF IInv, Shape
      <4>2. CASE ImageRegs[j] = r
        BY <3>5, <4>1, <4>2
      <4>3. CASE ImageRegs[j] # r
        <5>1. j \in 1..(at[u] - 1)
          BY <2>5, <4>3
        <5>2. QED
          BY <3>2, <3>5, <4>1, <4>3, <5>1
      <4>4. QED
        BY <4>2, <4>3
    <3>8. QED
      BY <2>5, <3>2, <3>4, <3>7, DoFacts, ImageLen
  <2>8. QED
    BY <2>5, <2>6, <2>7
<1>8. Picture'
  BY <1>7, DoFacts DEF Picture, Drawing, InCall
<1>9. Mode'
  BY <1>3, DoFacts DEF IInv, Mode, SameMode, InCall
<1>10. QED
  BY <1>4, <1>6, <1>8, <1>9, DoAlone DEF IInv

LEMMA UpStep ==
    ASSUME IInv, Discipline, NEW u \in Users, Up(u)
    PROVE  IInv'
<1>1. /\ InCall(u) /\ call[u] \in Requests /\ at[u] \in Nat
      /\ Len(Script(call[u])) \in Nat /\ at[u] >= Len(Script(call[u]))
  <2>1. InCall(u) /\ call[u] \in Requests /\ at[u] \in Nat
    BY DEF Up, InCall, IInv, Shape
  <2>2. QED
    BY <2>1, ScriptLen DEF Up, Left
<1>2. /\ call' = [call EXCEPT ![u] = NoCall] /\ at' = [at EXCEPT ![u] = 0]
      /\ lock' = NoUser
      /\ UNCHANGED <<page, image, s_info, stream, dump>>
  BY DEF Up, chip
<1>3. /\ \A v \in Users : ~InCall(v)' /\ at'[v] = 0
      /\ call' \in [Users -> Requests \cup {NoCall}] /\ at' \in [Users -> Nat]
  BY <1>1, <1>2 DEF IInv, Shape, Alone, InCall
<1>4. wanted' = IF call[u].cmd = "image" /\ ~ParamError(call[u]) /\ u \notin failed
                THEN [wanted EXCEPT ![call[u].chn] = call[u].val] ELSE wanted
  BY DEF Up
<1>5. Shape'
  BY <1>2, <1>3, <1>4 DEF IInv, Shape
<1>6. Alone'
  BY <1>2, <1>3, TpConstants DEF Alone, TpConstants
<1>7. ImageWhole'
  <2>1. CASE call[u].cmd = "image" /\ ~ParamError(call[u]) /\ u \notin failed
    <3> DEFINE chn == call[u].chn
               picture == call[u].val
    <3>1. chn \in Channels
      BY <1>1, <2>1, RequestFields, TpConstants DEF ParamError, Channels, TpConstants
    <3>2. Drawing(u)
      BY <1>1, <2>1, <3>1 DEF Drawing
    <3>3. at[u] = Len(ImageRegs) + 1
      <4>1. Len(Script(call[u])) = Len(ImageRegs) + 1
        BY <1>1, <2>1, <3>1, ImageScript, SetImageScript
      <4>2. at[u] <= Len(ImageRegs) + 1
        BY <3>2 DEF IInv, Picture
      <4>3. QED
        BY <1>1, <4>1, <4>2, ImageLen
    <3>4. \A j \in 1..Len(ImageRegs) : image[chn][ImageRegs[j]] = picture
      BY <3>2, <3>3, ImageLen DEF IInv, Picture
    <3>5. \A r \in Regs : image[chn][r] = picture
      BY <3>4 DEF Discipline
    <3>6. \A r \in DOMAIN image[chn] : image[chn][r] = picture
      BY <3>1, <3>5 DEF IInv, Shape
    <3>7. wanted'[chn] = picture /\ \A c \in Channels \ {chn} : wanted'[c] = wanted[c]
      BY <1>4, <2>1, <3>1 DEF IInv, Shape
    <3>8. QED
      BY <1>2, <3>6, <3>7 DEF IInv, ImageWhole
  <2>2. CASE ~(call[u].cmd = "image" /\ ~ParamError(call[u]) /\ u \notin failed)
    BY <1>2, <1>4, <2>2 DEF IInv, ImageWhole
  <2>3. QED
    BY <2>1, <2>2
<1>8. Picture'
  BY <1>3 DEF Picture, Drawing
<1>9. Mode'
  <2>1. SameMode
    <3>1. CASE call[u].cmd = "mode"
      <4>1. at[u] \in 0..3 /\ at[u] >= 3
        BY <1>1, <3>1, ModeScript DEF IInv, Mode
      <4>2. at[u] = 3
        BY <4>1
      <4>3. QED
        BY <1>1, <3>1, <4>2 DEF IInv, Mode, SameMode
    <3>2. CASE call[u].cmd # "mode"
      BY <1>1, <3>2 DEF IInv, Mode
    <3>3. QED
      BY <3>1, <3>2
  <2>2. SameMode'
    BY <1>2, <2>1 DEF SameMode
  <2>3. QED
    BY <1>3, <2>2 DEF Mode
<1>10. Walking'
  BY <1>2 DEF IInv, Walking
<1>11. QED
  BY <1>5, <1>6, <1>7, <1>8, <1>9, <1>10 DEF IInv

-----------------------------------------------------------------------------
(* The callers without a semaphore, and the chip. *)

\* A step that changes none of what the invariant is about but what it says itself.
LEMMA Idle ==
    ASSUME IInv
    PROVE  /\ stream # NoWalk \/ dump # NoWalk => \A u \in Users : ~InCall(u)
           /\ (\A u \in Users : ~InCall(u)) => lock = NoUser /\ SameMode
<1>1. stream # NoWalk \/ dump # NoWalk => \A u \in Users : ~InCall(u)
  BY DEF IInv, Alone
<1>2. ASSUME \A u \in Users : ~InCall(u)
      PROVE  lock = NoUser
  BY <1>2 DEF IInv, Alone
<1>3. QED
  BY <1>1, <1>2 DEF IInv, Mode

LEMMA WalkStep ==
    ASSUME IInv, Discipline, StreamStart \/ DumpShow
    PROVE  IInv'
<1>1. \A u \in Users : ~InCall(u)
  BY DEF StreamStart, DumpShow, Discipline, Ioctls, Busy, InCall
<1>2. UNCHANGED <<page, image, call, at, lock, s_info, failed, wanted>>
  BY DEF StreamStart, DumpShow, chip, user, history
<1>3. \A u \in Users : ~InCall(u)'
  BY <1>1, <1>2 DEF InCall
<1>4. /\ stream' = NoWalk \/ /\ stream' \in [mode : Modes, fmt : Modes, at : Nat]
                             /\ stream'.fmt = s_info.fmt
      /\ dump' = NoWalk \/ dump' \in [chn : Channels, at : 1..2]
  <2>1. CASE StreamStart
    <3>1. PICK m \in Modes : stream' = [mode |-> m, fmt |-> s_info.fmt, at |-> 1]
      BY <2>1 DEF StreamStart
    <3>2. s_info.fmt \in Modes
      BY DEF IInv, Shape
    <3>3. dump' = dump
      BY <2>1 DEF StreamStart
    <3>4. QED
      BY <3>1, <3>2, <3>3 DEF IInv, Shape
  <2>2. CASE DumpShow
    <3>1. PICK c \in Channels : dump' = [chn |-> c, at |-> 1]
      BY <2>2 DEF DumpShow
    <3>2. stream' = stream
      BY <2>2 DEF DumpShow
    <3>3. QED
      BY <3>1, <3>2 DEF IInv, Shape, Walking
  <2>3. QED
    BY <2>1, <2>2
<1>5. Shape' /\ ImageWhole' /\ Walking'
  BY <1>2, <1>4 DEF IInv, Shape, ImageWhole, Walking
<1>6. Alone'
  BY <1>1, <1>2, <1>3 DEF IInv, Alone
<1>7. Picture'
  BY <1>3 DEF Picture, Drawing
<1>8. Mode'
  BY <1>1, <1>2, <1>3, Idle DEF Mode, SameMode
<1>9. QED
  BY <1>5, <1>6, <1>7, <1>8 DEF IInv

\* sensor_write_array, whose format is stored back unchanged.
LEMMA StreamStepStep ==
    ASSUME IInv, StreamStep
    PROVE  IInv'
<1> DEFINE o == Table(stream.mode)[stream.at]
<1>1. PICK ok \in Results :
        /\ Write(o, ok) /\ wanted' = Forget(o, Targets)
        /\ IF GoesOn(ok)
           THEN stream' = [stream EXCEPT !.at = @ + 1] /\ UNCHANGED s_info
           ELSE stream' = NoWalk /\ s_info' = [s_info EXCEPT !.fmt = stream.fmt]
  BY DEF StreamStep
<1> HIDE DEF o
<1>2. stream # NoWalk /\ UNCHANGED <<call, at, lock, dump, failed>>
  BY DEF StreamStep, user
<1>3. \A u \in Users : ~InCall(u) /\ ~InCall(u)'
  BY <1>2, Idle DEF InCall
<1>4. ImageWhole' /\ DOMAIN wanted' = Channels
  BY <1>1, ForgetWhole DEF IInv
<1>5. DOMAIN image' = Channels /\ \A c \in Channels : DOMAIN image'[c] = Regs
  BY <1>1, WriteKeeps DEF IInv
<1>6. s_info' = s_info
  <2>1. stream.fmt = s_info.fmt /\ s_info \in [fmt : Modes, fmt_pt : Modes, win_pt : Modes]
    BY <1>2 DEF IInv, Walking, Shape
  <2>2. [s_info EXCEPT !.fmt = s_info.fmt] = s_info
    BY <2>1
  <2>3. QED
    BY <1>1, <2>1, <2>2
<1>7. /\ stream' = NoWalk \/ /\ stream' \in [mode : Modes, fmt : Modes, at : Nat]
                             /\ stream'.fmt = stream.fmt
      /\ Walking'
  <2>1. stream \in [mode : Modes, fmt : Modes, at : Nat]
    BY <1>2 DEF IInv, Shape
  <2>2. \/ stream' = NoWalk
        \/ stream' \in [mode : Modes, fmt : Modes, at : Nat] /\ stream'.fmt = stream.fmt
    BY <1>1, <2>1
  <2>3. QED
    BY <1>2, <1>6, <2>2 DEF IInv, Walking
<1>8. Shape'
  BY <1>2, <1>4, <1>5, <1>6, <1>7 DEF IInv, Shape
<1>9. Alone'
  BY <1>2, <1>3 DEF IInv, Alone, InCall
<1>10. Picture'
  BY <1>3 DEF Picture, Drawing
<1>11. Mode'
  BY <1>2, <1>3, <1>6, Idle DEF Mode, SameMode
<1>12. QED
  BY <1>4, <1>7, <1>8, <1>9, <1>10, <1>11 DEF IInv

LEMMA DumpStepStep ==
    ASSUME IInv, DumpStep
    PROVE  IInv'
<1> DEFINE o == Dump(dump.chn)[dump.at]
<1>1. \E ok \in Results : Write(o, ok)
  BY DEF DumpStep
<1>2. dump # NoWalk /\ UNCHANGED <<call, at, lock, stream, s_info, failed, wanted>>
  BY DEF DumpStep, user, history
<1>3. \A u \in Users : ~InCall(u) /\ ~InCall(u)'
  BY <1>2, Idle DEF InCall
<1>4. image' = image
  <2>1. o.op # "image"
    BY <1>2, DumpScript DEF IInv, Shape
  <2>2. QED
    BY <1>1, <2>1 DEF Write
<1>5. dump' = NoWalk \/ dump' \in [chn : Channels, at : 1..2]
  <2>1. dump \in [chn : Channels, at : 1..2] /\ Len(Dump(dump.chn)) = 2
    BY <1>2, DumpScript DEF IInv, Shape
  <2>2. dump' = IF dump.at < 2 THEN [dump EXCEPT !.at = @ + 1] ELSE NoWalk
    BY <2>1 DEF DumpStep
  <2>3. QED
    BY <2>1, <2>2
<1>6. Shape' /\ ImageWhole'
  BY <1>2, <1>4, <1>5 DEF IInv, Shape, ImageWhole
<1>7. Alone'
  BY <1>2, <1>3 DEF IInv, Alone, InCall
<1>8. Picture'
  BY <1>3 DEF Picture, Drawing
<1>9. Mode' /\ Walking'
  BY <1>2, <1>3, Idle DEF IInv, Mode, SameMode, Walking
<1>10. QED
  BY <1>6, <1>7, <1>8, <1>9 DEF IInv

\* Supplies, reset and signal: the chip keeps its registers, or loses all of them.
LEMMA ChipStep ==
    ASSUME IInv, sensor_power \/ sensor_reset \/ Signal \/ UNCHANGED vars
    PROVE  IInv'
<1>1. /\ UNCHANGED <<call, at, lock, s_info, stream, dump>>
      /\ \/ Lose
         \/ UNCHANGED <<page, image, failed, wanted>>
  BY DEF sensor_power, sensor_reset, Signal, vars, user, chip, history
<1>2. Alone' /\ Mode' /\ Walking'
  BY <1>1 DEF IInv, Alone, InCall, Mode, SameMode, Walking
<1>3. CASE Lose
  <2>1. ImageWhole'
    BY <1>3, LoseWhole DEF IInv
  <2>2. Shape'
    BY <1>1, <1>3, LoseWhole DEF IInv, Shape
  <2>3. \A u \in Users : ~Drawing(u)'
    BY <1>1, <1>3, LoseWhole DEF IInv, Drawing, InCall
  <2>4. QED
    BY <1>2, <2>1, <2>2, <2>3 DEF IInv, Picture
<1>4. CASE UNCHANGED <<page, image, failed, wanted>>
  BY <1>1, <1>2, <1>4 DEF IInv, Shape, ImageWhole, Picture, Drawing, InCall
<1>5. QED
  BY <1>1, <1>3, <1>4

-----------------------------------------------------------------------------
LEMMA InitIInv ==
    ASSUME Init
    PROVE  IInv
<1>1. Shape
  BY TpConstants DEF Init, Shape, DefaultImage, TpConstants
<1>2. \A u \in Users : ~InCall(u)
  BY DEF Init, InCall
<1>3. Alone /\ Walking
  BY <1>2, TpConstants DEF Init, Alone, Walking, TpConstants
<1>4. ImageWhole
  BY DEF Init, ImageWhole
<1>5. Picture /\ Mode
  BY <1>2 DEF Init, Picture, Drawing, Mode, SameMode
<1>6. QED
  BY <1>1, <1>3, <1>4, <1>5 DEF IInv

\* The invariant holds under the discipline.
THEOREM Safety == Discipline => (Spec => []IInv)
<1> SUFFICES ASSUME Discipline PROVE Spec => []IInv
  OBVIOUS
<1>1. IInv /\ [Next]_vars => IInv'
  <2> SUFFICES ASSUME IInv, [Next]_vars PROVE IInv'
    OBVIOUS
  <2>1. ASSUME NEW u \in Users, Down(u) \/ Do(u) \/ Up(u) PROVE IInv'
    BY <2>1, DownStep, DoMode, DoTransfer, UpStep
  <2>2. CASE StreamStart \/ DumpShow
    BY <2>2, WalkStep
  <2>3. CASE StreamStep
    BY <2>3, StreamStepStep
  <2>4. CASE DumpStep
    BY <2>4, DumpStepStep
  <2>5. CASE sensor_power \/ sensor_reset \/ Signal \/ UNCHANGED vars
    BY <2>5, ChipStep
  <2>6. QED
    BY <2>1, <2>2, <2>3, <2>4, <2>5 DEF Next
<1>2. QED
  BY InitIInv, <1>1, PTL DEF Spec

\* tp9930_set_image: a channel shows every register of the last picture set for it.
THEOREM PictureIsWhole == Discipline => (Spec => []ImageWhole)
<1>1. IInv => ImageWhole
  BY DEF IInv
<1>2. QED
  BY Safety, <1>1, PTL

\* sensor_set_vi_mode: between the calls the format, the formats and the window sizes in
\* use are of one entry.
THEOREM ModeIsWhole == Discipline => (Spec => []ModeWhole)
<1>1. IInv => ModeWhole
  BY DEF IInv, Mode, SameMode, ModeWhole
<1>2. QED
  BY Safety, <1>1, PTL

-----------------------------------------------------------------------------
(* The losses.                                                             *)

\* What the finished transfers of tp9930_get_vloss have found, and the page of the next.
LossInv ==
    /\ DOMAIN vloss = Users /\ DOMAIN reg_value = Users
    /\ \A u \in Users : ~InCall(u) => vloss[u] = {}
    /\ lock = NoUser => truth = {}
    /\ \A u \in Users : InCall(u) /\ call[u].cmd = "vloss" /\ u \notin failed =>
         /\ vloss[u] = truth
         /\ at[u] % 2 = 1 => page = (at[u] - 1) \div 2

LEMMA LossScript ==
    ASSUME NEW req \in Requests, req.cmd = "vloss", NEW k \in 1..Len(Script(req))
    PROVE  /\ (k - 1) \div 2 \in Channels
           /\ Script(req)[k] = IF k % 2 = 1 THEN Page((k - 1) \div 2) ELSE ReadLoss((k - 1) \div 2)
<1>1. Script(req) = GetVloss
  BY DEF Script
<1>2. k \in 1..(2 * N) /\ N \in Nat
  BY <1>1, TpConstants DEF GetVloss, TpConstants
<1>3. (k - 1) \div 2 \in 0..(N - 1)
  BY <1>2
<1>4. QED
  BY <1>1, <1>2, <1>3 DEF GetVloss, Channels

\* A transfer of the query.
LEMMA DoLoss ==
    ASSUME IInv, LossInv, NEW u \in Users, Do(u), call[u].cmd = "vloss", u \notin failed'
    PROVE  /\ vloss'[u] = truth'
           /\ at'[u] % 2 = 1 => page' = (at'[u] - 1) \div 2
<1> DEFINE k == at[u] + 1
           c == (k - 1) \div 2
           o == Script(call[u])[k]
<1>1. /\ k \in 1..Len(Script(call[u])) /\ at[u] \in Nat /\ at'[u] = k
      /\ call[u] \in Requests /\ InCall(u)
  BY DoFacts
<1>2. c \in Channels /\ o = IF k % 2 = 1 THEN Page(c) ELSE ReadLoss(c)
  BY <1>1, LossScript
<1>3. Transfer(u, o)
  <2>1. o.op # "assign"
    BY <1>2 DEF Page, ReadLoss
  <2>2. QED
    BY <2>1 DEF Do
<1> HIDE DEF o
<1>4. PICK ok \in Results :
        /\ Write(o, ok)
        /\ failed' = IF ok THEN failed ELSE failed \cup {u}
        /\ \E v \in IF ~ok \/ o.op # "loss" THEN {reg_value[u]}
                   ELSE IF page \in Channels THEN {loss[page]} ELSE BOOLEAN :
            /\ reg_value' = [reg_value EXCEPT ![u] = v]
            /\ vloss' = IF o.op = "loss" /\ v THEN [vloss EXCEPT ![u] = @ \cup {o.chn}]
                        ELSE vloss
  BY <1>3 DEF Transfer
<1>5. ok /\ u \notin failed
  BY <1>4
<1>6. truth' = IF o.op = "loss" /\ loss[o.chn] THEN truth \cup {o.chn} ELSE truth
  BY <1>3 DEF Transfer
<1>7. vloss[u] = truth
  BY <1>1, <1>5 DEF LossInv
<1>8. CASE k % 2 = 1
  <2>1. o = Page(c)
    BY <1>2, <1>8
  <2>2. page' = c /\ o.op # "loss"
    BY <1>4, <1>5, <2>1 DEF Write, Page
  <2>3. QED
    BY <1>1, <1>4, <1>6, <1>7, <2>2
<1>9. CASE k % 2 # 1
  <2>1. o = ReadLoss(c)
    BY <1>2, <1>9
  <2>2. o.op = "loss" /\ o.chn = c
    BY <2>1 DEF ReadLoss
  <2>3. at[u] % 2 = 1 /\ c = (at[u] - 1) \div 2
    BY <1>1, <1>9
  <2>4. page = c
    BY <1>1, <1>5, <2>3 DEF LossInv
  <2>5. vloss' = IF loss[c] THEN [vloss EXCEPT ![u] = @ \cup {c}] ELSE vloss
    BY <1>2, <1>4, <1>5, <2>2, <2>4
  <2>6. vloss'[u] = truth'
    BY <1>6, <1>7, <2>2, <2>5 DEF LossInv
  <2>7. QED
    BY <1>1, <1>9, <2>6
<1>10. QED
  BY <1>8, <1>9

\* A transfer of any ioctl touches the losses of its caller only.
LEMMA DoOthers ==
    ASSUME IInv, LossInv, NEW u \in Users, Do(u)
    PROVE  /\ DOMAIN vloss' = Users /\ DOMAIN reg_value' = Users
           /\ \A v \in Users \ {u} : vloss'[v] = vloss[v]
<1> DEFINE o == Script(call[u])[at[u] + 1]
<1>1. CASE o.op = "assign"
  BY <1>1 DEF Do, LossInv
<1>2. CASE o.op # "assign"
  <2>1. Transfer(u, o)
    BY <1>2 DEF Do
  <2> HIDE DEF o
  <2>2. \E v : /\ reg_value' = [reg_value EXCEPT ![u] = v]
               /\ \/ vloss' = [vloss EXCEPT ![u] = @ \cup {o.chn}]
                  \/ vloss' = vloss
    BY <2>1 DEF Transfer
  <2>3. QED
    BY <2>2 DEF LossInv
<1>3. QED
  BY <1>1, <1>2

LEMMA NextLoss ==
    ASSUME Discipline, IInv, LossInv, [Next]_vars
    PROVE  LossInv'
<1>1. ASSUME NEW u \in Users, Down(u) PROVE LossInv'
  <2>1. PICK req \in Requests : call' = [call EXCEPT ![u] = req]
    BY <1>1 DEF Down
  <2>2. /\ lock = NoUser /\ lock' = u
        /\ UNCHANGED <<page, at, reg_value, vloss, failed, truth>>
    BY <1>1 DEF Down, chip, history
  <2>3. \A v \in Users : ~InCall(v) /\ at[v] = 0
    BY <2>2, TpConstants DEF IInv, Alone, TpConstants, InCall
  <2>4. lock' # NoUser
    BY <2>2, TpConstants DEF TpConstants
  <2>5. truth = {} /\ \A v \in Users : vloss[v] = {}
    BY <2>2, <2>3 DEF LossInv
  <2>6. QED
    BY <2>2, <2>3, <2>4, <2>5 DEF LossInv
<1>2. ASSUME NEW u \in Users, Do(u) PROVE LossInv'
  <2>1. ASSUME NEW v \in Users, ~InCall(v)' PROVE vloss'[v] = {}
    <3>1. ~InCall(v) /\ v # u
      BY <1>2, <2>1, DoFacts DEF InCall
    <3>2. QED
      BY <1>2, <3>1, DoOthers DEF LossInv
  <2>2. ASSUME NEW v \in Users, InCall(v)', call'[v].cmd = "vloss", v \notin failed'
        PROVE  /\ vloss'[v] = truth'
               /\ at'[v] % 2 = 1 => page' = (at'[v] - 1) \div 2
    <3>1. v = u /\ call[u].cmd = "vloss"
      BY <1>2, <2>2, DoFacts DEF InCall
    <3>2. QED
      BY <1>2, <2>2, <3>1, DoLoss
  <2>3. lock' # NoUser
    BY <1>2, DoFacts
  <2>4. QED
    BY <1>2, <2>1, <2>2, <2>3, DoOthers DEF LossInv
<1>3. ASSUME NEW u \in Users, Up(u) PROVE LossInv'
  <2>1. \A v \in Users : ~InCall(v)'
    BY <1>3, UpStep, TpConstants DEF IInv, Alone, Up, TpConstants
  <2>2. /\ truth' = {}
        /\ vloss' = [vloss EXCEPT ![u] = {}] /\ reg_value' = [reg_value EXCEPT ![u] = FALSE]
    BY <1>3 DEF Up
  <2>3. \A v \in Users \ {u} : ~InCall(v)
    BY <1>3 DEF Up, IInv, Alone, InCall
  <2>4. QED
    BY <2>1, <2>2, <2>3 DEF LossInv
<1>4. ASSUME StreamStart \/ StreamStep \/ DumpShow \/ DumpStep PROVE LossInv'
  <2>1. \A u \in Users : ~InCall(u)
    BY <1>4, Idle DEF StreamStart, StreamStep, DumpShow, DumpStep, Discipline, Ioctls, Busy, InCall
  <2>2. UNCHANGED <<call, lock, reg_value, vloss, truth>>
    BY <1>4 DEF StreamStart, StreamStep, DumpShow, DumpStep, user, history
  <2>3. QED
    BY <2>1, <2>2 DEF LossInv, InCall
<1>5. ASSUME sensor_power \/ sensor_reset \/ Signal \/ UNCHANGED vars PROVE LossInv'
  <2>1. /\ UNCHANGED <<call, at, lock, reg_value, vloss, truth>>
        /\ Lose \/ UNCHANGED <<page, failed>>
    BY <1>5 DEF sensor_power, sensor_reset, Signal, vars, user, chip, history, Lose
  <2>2. CASE Lose
    <3>1. \A u \in Users : InCall(u) => u \in failed'
      BY <2>2, LoseWhole DEF IInv
    <3>2. QED
      BY <2>1, <3>1 DEF LossInv, InCall
  <2>3. CASE UNCHANGED <<page, failed>>
    BY <2>1, <2>3 DEF LossInv, InCall
  <2>4. QED
    BY <2>1, <2>2, <2>3
<1>6. QED
  BY <1>1, <1>2, <1>3, <1>4, <1>5 DEF Next

\* tp9930_get_vloss: each bit is the loss of its own channel.
THEOREM LossesAreOwn == Discipline => (Spec => []VlossOfItsChannel)
<1> SUFFICES ASSUME Discipline PROVE Spec => []VlossOfItsChannel
  OBVIOUS
<1>1. Init => LossInv
  BY DEF Init, LossInv, InCall
<1>2. Spec => []IInv
  BY Safety
<1>3. IInv /\ LossInv /\ [Next]_vars => LossInv'
  BY NextLoss
<1>4. IInv /\ LossInv => VlossOfItsChannel
  <2> SUFFICES ASSUME IInv, LossInv, NEW u \in Users,
                      call[u].cmd = "vloss", ~Left(u), u \notin failed
               PROVE  vloss[u] = truth
    BY DEF VlossOfItsChannel
  <2>1. InCall(u)
    BY DEF InCall, NoCall
  <2>2. QED
    BY <2>1 DEF LossInv
<1>5. QED
  BY <1>1, <1>2, <1>3, <1>4, PTL DEF Spec
-----------------------------------------------------------------------------
(* The identifications.                                                    *)

\* What a table has before its part "channel ID".
LeadOps == {Page(p) : p \in Pages} \cup {Image(r, Default) : r \in Regs}
Lead(m) ==
    IF m = FirstMode THEN <<Page(N), Page(Mipi), Page(0)>> \o Video
    ELSE <<Page(0), Page(N), Page(Mipi), Page(0)>> \o Video
Ids == {Page(c) : c \in Channels} \cup {Id(c) : c \in Channels}

\* Where a stream start is, and which channels it has identified.
Position(m, c) == Len(Lead(m)) + 2 * c + 2
IdInv ==
    /\ DOMAIN id = Channels
    /\ streamed => \A c \in Channels : id[c] = c
    /\ stream = NoWalk \/ dump = NoWalk
    /\ stream # NoWalk =>
         /\ stream.at \in 1..Len(Table(stream.mode))
         /\ \A c \in Channels :
              /\ Position(stream.mode, c) < stream.at => id[c] = c
              /\ Position(stream.mode, c) = stream.at => page = c

\* Two sequences, one after the other.
LEMMA Joined ==
    ASSUME NEW S, NEW s \in Seq(S), NEW t \in Seq(S)
    PROVE  /\ s \o t \in Seq(S) /\ Len(s \o t) = Len(s) + Len(t)
           /\ \A k \in 1..Len(s) : (s \o t)[k] = s[k]
           /\ \A k \in 1..Len(t) : (s \o t)[Len(s) + k] = t[k]
  OBVIOUS

LEMMA LeadScript ==
    ASSUME NEW m
    PROVE  /\ Lead(m) \in Seq(LeadOps) /\ Len(Lead(m)) \in Nat
           /\ \A k \in 1..Len(Lead(m)) : Lead(m)[k].op # "id"
<1>1. \A p \in Pages : Page(p) \in LeadOps
  BY DEF LeadOps
<1>2. \A r \in Regs : Image(r, Default) \in LeadOps
  BY DEF LeadOps
<1>3. 0 \in Pages /\ N \in Pages /\ Mipi \in Pages
  BY TpConstants DEF Pages, TpConstants
<1>4. \A k \in DOMAIN ImageRegs : ImageRegs[k] \in Regs
  BY TpConstants DEF TpConstants
<1>5. Page(0) \in LeadOps /\ Page(N) \in LeadOps /\ Page(Mipi) \in LeadOps
  BY <1>1, <1>3
<1>6. \A o \in LeadOps : o.op # "id"
  BY DEF LeadOps, Page, Image
<1> HIDE DEF LeadOps
<1>7. <<Page(N)>> \in Seq(LeadOps)
  BY <1>5
<1>8. ImageWrites(Default) \in Seq(LeadOps)
  <2>1. ImageWrites(Default) = [k \in 1..Len(ImageRegs) |-> Image(ImageRegs[k], Default)]
    BY ImageLen DEF ImageWrites
  <2>2. \A k \in 1..Len(ImageRegs) : Image(ImageRegs[k], Default) \in LeadOps
    BY <1>2, <1>4, ImageLen
  <2>3. QED
    BY <2>1, <2>2, ImageLen
<1>9. Video \in Seq(LeadOps)
  BY <1>7, <1>8, Joined DEF Video
<1>10. <<Page(N), Page(Mipi), Page(0)>> \in Seq(LeadOps)
  BY <1>5
<1>11. <<Page(0), Page(N), Page(Mipi), Page(0)>> \in Seq(LeadOps)
  BY <1>5
<1>12. Lead(m) \in Seq(LeadOps)
  <2>1. <<Page(N), Page(Mipi), Page(0)>> \o Video \in Seq(LeadOps)
    BY <1>9, <1>10, Joined
  <2>2. <<Page(0), Page(N), Page(Mipi), Page(0)>> \o Video \in Seq(LeadOps)
    BY <1>9, <1>11, Joined
  <2>3. QED
    BY <2>1, <2>2 DEF Lead
<1>13. Len(Lead(m)) \in Nat /\ \A k \in 1..Len(Lead(m)) : Lead(m)[k] \in LeadOps
  BY <1>12
<1>14. QED
  BY <1>6, <1>12, <1>13

\* A table: its lead, and then for each channel its page and its identification.
LEMMA TableScript ==
    ASSUME NEW m
    PROVE  /\ Len(Table(m)) = Len(Lead(m)) + 2 * N
           /\ \A k \in 1..Len(Lead(m)) : Table(m)[k].op # "id"
           /\ \A c \in Channels : /\ Table(m)[Len(Lead(m)) + 2 * c + 1] = Page(c)
                                  /\ Table(m)[Len(Lead(m)) + 2 * c + 2] = Id(c)
<1> DEFINE S == LeadOps \cup Ids
<1>1. N \in Nat \ {0}
  BY TpConstants DEF TpConstants
<1>2. \A k \in 1..(2 * N) : (k - 1) \div 2 \in Channels
  BY <1>1 DEF Channels
<1>3. ChannelId \in Seq(S) /\ Len(ChannelId) = 2 * N
  <2>1. \A c \in Channels : Page(c) \in S /\ Id(c) \in S
    BY DEF Ids
  <2> HIDE DEF S
  <2>2. \A k \in 1..(2 * N) : ChannelId[k] \in S
    BY <1>2, <2>1 DEF ChannelId
  <2>3. ChannelId = [k \in 1..(2 * N) |-> ChannelId[k]]
    BY DEF ChannelId
  <2>4. QED
    BY <1>1, <2>2, <2>3
<1>4. \A c \in Channels : ChannelId[2 * c + 1] = Page(c) /\ ChannelId[2 * c + 2] = Id(c)
  <2> SUFFICES ASSUME NEW c \in Channels
               PROVE  ChannelId[2 * c + 1] = Page(c) /\ ChannelId[2 * c + 2] = Id(c)
    OBVIOUS
  <2>1. c \in Nat /\ 2 * c + 1 \in 1..(2 * N) /\ 2 * c + 2 \in 1..(2 * N)
    BY <1>1 DEF Channels
  <2>2. /\ (2 * c + 1 - 1) \div 2 = c /\ (2 * c + 1) % 2 = 1
        /\ (2 * c + 2 - 1) \div 2 = c /\ (2 * c + 2) % 2 # 1
    BY <2>1
  <2>3. QED
    BY <2>1, <2>2 DEF ChannelId
<1>5. Lead(m) \in Seq(S) /\ Len(Lead(m)) \in Nat
  BY LeadScript
<1>6. Table(m) = Lead(m) \o ChannelId
  BY DEF Table, Lead, reg_720p25_4ch, reg_1080p25_4ch
<1> HIDE DEF S
<1>7. /\ Len(Table(m)) = Len(Lead(m)) + 2 * N
      /\ \A k \in 1..Len(Lead(m)) : Table(m)[k] = Lead(m)[k]
      /\ \A k \in 1..(2 * N) : Table(m)[Len(Lead(m)) + k] = ChannelId[k]
  <2>1. /\ Len(Lead(m) \o ChannelId) = Len(Lead(m)) + Len(ChannelId)
        /\ \A k \in 1..Len(Lead(m)) : (Lead(m) \o ChannelId)[k] = Lead(m)[k]
        /\ \A k \in 1..Len(ChannelId) : (Lead(m) \o ChannelId)[Len(Lead(m)) + k] = ChannelId[k]
    BY <1>3, <1>5
  <2>2. QED
    BY <1>3, <1>6, <2>1
<1>8. ASSUME NEW c \in Channels
      PROVE  /\ Table(m)[Len(Lead(m)) + 2 * c + 1] = Page(c)
             /\ Table(m)[Len(Lead(m)) + 2 * c + 2] = Id(c)
  <2>1. 2 * c + 1 \in 1..(2 * N) /\ 2 * c + 2 \in 1..(2 * N)
    BY <1>1 DEF Channels
  <2>2. /\ Table(m)[Len(Lead(m)) + (2 * c + 1)] = Page(c)
        /\ Table(m)[Len(Lead(m)) + (2 * c + 2)] = Id(c)
    BY <1>4, <1>7, <2>1
  <2>3. Len(Lead(m)) + (2 * c + 1) = Len(Lead(m)) + 2 * c + 1
        /\ Len(Lead(m)) + (2 * c + 2) = Len(Lead(m)) + 2 * c + 2
    <3>1. c \in Int
      BY <1>1 DEF Channels
    <3>2. QED
      BY <1>5, <3>1
  <2>4. QED
    BY <2>2, <2>3
<1>9. QED
  BY <1>7, <1>8, LeadScript

\* Where a position of a table is: in the lead, at a page, or at an identification.
LEMMA TablePosition ==
    ASSUME NEW m, NEW k \in 1..Len(Table(m))
    PROVE  \/ k <= Len(Lead(m))
           \/ \E c \in Channels : k = Position(m, c) - 1
           \/ \E c \in Channels : k = Position(m, c)
<1> DEFINE j == k - Len(Lead(m))
<1>1. N \in Nat \ {0} /\ Len(Lead(m)) \in Nat /\ Len(Table(m)) = Len(Lead(m)) + 2 * N
  BY TpConstants, LeadScript, TableScript DEF TpConstants
<1>2. CASE j > 0
  <2>1. j \in 1..(2 * N)
    BY <1>1, <1>2
  <2>2. (j - 1) \div 2 \in Channels
    BY <1>1, <2>1 DEF Channels
  <2>3. j = 2 * ((j - 1) \div 2) + 1 \/ j = 2 * ((j - 1) \div 2) + 2
    BY <2>1
  <2>4. (j - 1) \div 2 \in Nat
    BY <2>1
  <2>5. k = Len(Lead(m)) + j
    BY <1>1
  <2> HIDE DEF j
  <2>6. QED
    BY <1>1, <2>2, <2>3, <2>4, <2>5 DEF Position
<1>3. CASE j <= 0
  BY <1>1, <1>3
<1>4. QED
  BY <1>1, <1>2, <1>3

\* A write of a table.
LEMMA StreamStepId ==
    ASSUME IdInv, StreamStep
    PROVE  IdInv'
<1> DEFINE m == stream.mode
           k == stream.at
           o == Table(m)[k]
<1>1. PICK ok \in Results :
        /\ Write(o, ok)
        /\ IF GoesOn(ok) THEN stream' = [stream EXCEPT !.at = @ + 1] /\ streamed' = streamed
           ELSE stream' = NoWalk /\ streamed' = (streamed \/ ok)
  BY DEF StreamStep
<1>2. stream # NoWalk /\ dump = NoWalk /\ dump' = dump
  BY DEF StreamStep, IdInv
<1>3. /\ k \in 1..Len(Table(m))
      /\ N \in Nat \ {0} /\ Len(Lead(m)) \in Nat /\ Len(Table(m)) = Len(Lead(m)) + 2 * N
  BY <1>2, TpConstants, LeadScript, TableScript DEF TpConstants, IdInv
<1>4. \A c \in Channels : /\ Position(m, c) < k => id[c] = c
                          /\ Position(m, c) = k => page = c
  BY <1>2 DEF IdInv
<1> HIDE DEF o
<1> DEFINE Right(c) ==
             /\ id[c] = c => id'[c] = c
             /\ ok /\ Position(m, c) <= k => id'[c] = c
             /\ ok /\ Position(m, c) = k + 1 => page' = c
<1>5. DOMAIN id' = Channels
  BY <1>1 DEF Write, IdInv
<1> SUFFICES \A c \in Channels : Right(c)
  <2>1. \A c \in Channels : c \in 0..(N - 1) /\ Position(m, c) = Len(Lead(m)) + 2 * c + 2
    BY DEF Position, Channels
  <2>2. 0 \in Channels
    BY <1>3 DEF Channels
  <2>3. CASE GoesOn(ok)
    <3>1. stream' = [stream EXCEPT !.at = @ + 1] /\ streamed' = streamed /\ ok /\ k < Len(Table(m))
      BY <1>1, <2>3 DEF GoesOn
    <3>2. stream'.mode = m /\ stream'.at = k + 1
      BY <3>1
    <3>3. k + 1 \in 1..Len(Table(m)) /\ stream' # NoWalk
      <4>1. k + 1 # 0
        BY <1>3
      <4>2. NoWalk.at = 0
        BY DEF NoWalk
      <4>3. stream' # NoWalk
        BY <3>2, <4>1, <4>2
      <4>4. Len(Table(m)) \in Nat
        BY <1>3
      <4>5. k + 1 \in 1..Len(Table(m))
        BY <1>3, <3>1, <4>4
      <4>6. QED
        BY <4>3, <4>5
    <3>4. streamed' => \A c \in Channels : id'[c] = c
      BY <3>1 DEF IdInv
    <3>5. \A c \in Channels : Position(m, c) < k + 1 => Position(m, c) <= k
      BY <1>3, <2>1
    <3>6. /\ stream'.at \in 1..Len(Table(stream'.mode))
          /\ \A c \in Channels :
               /\ Position(stream'.mode, c) < stream'.at => id'[c] = c
               /\ Position(stream'.mode, c) = stream'.at => page' = c
      BY <3>1, <3>2, <3>3, <3>5
    <3>7. QED
      BY <1>2, <1>5, <3>4, <3>6 DEF IdInv, Position
  <2>4. CASE ~GoesOn(ok)
    <3>1. stream' = NoWalk /\ (streamed' <=> (streamed \/ ok))
      BY <1>1, <2>4
    <3>2. ok => k = Len(Table(m))
      BY <1>3, <2>4 DEF GoesOn
    <3>3. ok => \A c \in Channels : Position(m, c) <= k
      BY <1>3, <2>1, <3>2
    <3>4. QED
      BY <1>2, <1>5, <2>2, <3>1, <3>3 DEF IdInv
  <2>5. QED
    BY <2>3, <2>4
<1>6. CASE k <= Len(Lead(m))
  <2>1. o.op # "id"
    BY <1>3, <1>6, TableScript DEF o
  <2>2. id' = id
    BY <1>1, <2>1 DEF Write
  <2>3. \A c \in Channels : Position(m, c) > k + 1
    BY <1>3, <1>6 DEF Position, Channels
  <2>4. k + 1 > k
    BY <1>3
  <2>5. QED
    BY <1>3, <2>2, <2>3 DEF Position, Channels
<1>7. ASSUME NEW d \in Channels, k = Position(m, d) - 1
      PROVE  \A c \in Channels : Right(c)
  <2>1. k = Len(Lead(m)) + 2 * d + 1 /\ d \in Nat
    BY <1>3, <1>7 DEF Position, Channels
  <2>2. o = Page(d)
    BY <2>1, TableScript DEF o
  <2>3. id' = id /\ (ok => page' = d)
    BY <1>1, <2>2 DEF Write, Page
  <2>4. \A c \in Channels : /\ Position(m, c) <= k => Position(m, c) < k
                            /\ Position(m, c) = k + 1 => c = d
    BY <1>3, <2>1 DEF Position, Channels
  <2>5. QED
    BY <1>4, <2>3, <2>4
<1>8. ASSUME NEW d \in Channels, k = Position(m, d)
      PROVE  \A c \in Channels : Right(c)
  <2>1. k = Len(Lead(m)) + 2 * d + 2 /\ d \in 0..(N - 1) /\ page = d
    BY <1>3, <1>4, <1>8 DEF Position, Channels
  <2>2. o = Id(d)
    BY <2>1, TableScript DEF o
  <2>3. Targets = {d}
    BY <1>3, <2>1 DEF Targets, Channels
  <2>4. \/ id' = id /\ ~ok
        \/ ok /\ id' = [c \in Channels |-> IF c \in {d} THEN d ELSE id[c]]
    BY <1>1, <2>2, <2>3 DEF Write, Id
  <2>5. \A c \in Channels : /\ Position(m, c) <= k => Position(m, c) < k \/ c = d
                            /\ Position(m, c) # k + 1
    BY <1>3, <2>1 DEF Position, Channels
  <2>6. QED
    BY <1>4, <2>4, <2>5
<1>9. QED
  BY <1>3, <1>6, <1>7, <1>8, TablePosition

\* The other steps write no identification, or end what a stream start has made sure of.
LEMMA NextId ==
    ASSUME Discipline, IInv, IdInv, [Next]_vars
    PROVE  IdInv'
<1>1. ASSUME NEW u \in Users, Down(u) \/ Up(u) PROVE IdInv'
  <2>1. UNCHANGED <<page, id, stream, dump, streamed>>
    BY <1>1 DEF Down, Up, chip, history
  <2>2. QED
    BY <2>1 DEF IdInv
<1>2. ASSUME NEW u \in Users, Do(u) PROVE IdInv'
  <2> DEFINE o == Script(call[u])[at[u] + 1]
  <2>1. stream = NoWalk /\ dump = NoWalk /\ UNCHANGED <<stream, dump>>
    BY <1>2, DoFacts
  <2>2. CASE o.op = "assign"
    BY <1>2, <2>1, <2>2 DEF Do, IdInv, chip
  <2>3. CASE o.op # "assign"
    <3>1. Transfer(u, o)
      BY <1>2, <2>3 DEF Do
    <3> HIDE DEF o
    <3>2. (streamed' <=> streamed /\ o.op # "id") /\ DOMAIN id' = Channels
      BY <3>1 DEF Transfer, Write, IdInv
    <3>3. o.op # "id" => id' = id
      BY <3>1 DEF Transfer, Write
    <3>4. QED
      BY <2>1, <3>2, <3>3 DEF IdInv
  <2>4. QED
    BY <2>2, <2>3
<1>3. CASE StreamStart
  <2>1. PICK m \in Modes : stream' = [mode |-> m, fmt |-> s_info.fmt, at |-> 1]
    BY <1>3 DEF StreamStart
  <2>2. UNCHANGED <<page, id, dump, streamed>> /\ dump = NoWalk
    BY <1>3 DEF StreamStart, Discipline, Unlocked, chip, history
  <2>3. 1 \in 1..Len(Table(m)) /\ \A c \in Channels : Position(m, c) > 1
    BY TpConstants, LeadScript, TableScript DEF TpConstants, Position, Channels
  <2>4. QED
    BY <2>1, <2>2, <2>3 DEF IdInv, Position, Channels
<1>4. CASE StreamStep
  BY <1>4, StreamStepId
<1>5. CASE DumpShow
  <2>1. UNCHANGED <<page, id, stream, streamed>> /\ stream = NoWalk
    BY <1>5 DEF DumpShow, Discipline, Unlocked, chip, history
  <2>2. QED
    BY <2>1 DEF IdInv
<1>6. CASE DumpStep
  <2>1. stream = NoWalk /\ UNCHANGED <<stream, streamed>> /\ dump # NoWalk
    BY <1>6 DEF DumpStep, history, IdInv
  <2>2. Dump(dump.chn)[dump.at].op # "id"
    BY <2>1, DumpScript DEF IInv, Shape
  <2>3. id' = id
    BY <1>6, <2>2 DEF DumpStep, Write
  <2>4. QED
    BY <2>1, <2>3 DEF IdInv
<1>7. CASE sensor_power \/ sensor_reset
  <2>1. stream = NoWalk /\ UNCHANGED <<stream, dump>>
    BY <1>7 DEF sensor_power, sensor_reset
  <2>2. Lose \/ UNCHANGED <<id, streamed>>
    BY <1>7 DEF sensor_power, sensor_reset, chip, history
  <2>3. QED
    BY <2>1, <2>2 DEF Lose, IdInv
<1>8. CASE Signal \/ UNCHANGED vars
  <2>1. UNCHANGED <<page, id, stream, dump, streamed>>
    BY <1>8 DEF Signal, vars, chip, history
  <2>2. QED
    BY <2>1 DEF IdInv
<1>9. QED
  BY <1>1, <1>2, <1>3, <1>4, <1>5, <1>6, <1>7, <1>8 DEF Next

\* "channel ID": each channel of a decoder whose stream was started, and whose
\* identification register no raw write hit since, has the identification of its own,
\* whatever transfers failed before or fail later.
THEOREM IdsAreDistinct == Discipline => (Spec => []ChannelIdsDistinct)
<1> SUFFICES ASSUME Discipline PROVE Spec => []ChannelIdsDistinct
  OBVIOUS
<1>1. Init => IdInv
  BY DEF Init, IdInv
<1>2. IInv /\ IdInv /\ [Next]_vars => IdInv'
  BY NextId
<1>3. IdInv => ChannelIdsDistinct
  BY DEF IdInv, ChannelIdsDistinct
<1>4. QED
  BY <1>1, <1>2, <1>3, Safety, PTL DEF Spec

-----------------------------------------------------------------------------
(***************************************************************************)
(* The plug detection, for any number of cameras.                          *)
(***************************************************************************)

\* What the two properties rest on: the types, and that the work is at a camera
\* while it compares or reports one.
DetectTypeInv ==
    /\ last_status \in [Cameras -> BOOLEAN]
    /\ view \in [Cameras -> BOOLEAN]
    /\ val \in BOOLEAN
    /\ gpio \in [Cameras -> BOOLEAN]
    /\ index \in 0..Done
    /\ reader \in 0..Done
    /\ work \in {"compare", "store", "send"} => index \in Cameras

\* The positions: a camera is before Done, and the next position is at most Done.
LEMMA DetectPositions ==
    /\ Done \in Nat
    /\ Cameras = {i \in 0..Done : i # Done}
    /\ \A i \in Cameras : i + 1 \in 0..Done
BY CountAssumption DEF Cameras, Done

LEMMA ChangeOrder == Change[1] = "store" /\ Change[2] = "send"
BY DEF Change

LEMMA DetectInitType == DetectInit => DetectTypeInv
<1> SUFFICES ASSUME DetectInit PROVE DetectTypeInv
    OBVIOUS
<1>1. 0 \in 0..Done /\ Done \in 0..Done
    BY DetectPositions
<1>2. QED
    BY <1>1 DEF DetectInit, DetectTypeInv

\* Every step keeps the types.
LEMMA DetectTypeStep == DetectTypeInv /\ [DetectNext]_detect_vars => DetectTypeInv'
<1> SUFFICES ASSUME DetectTypeInv, [DetectNext]_detect_vars PROVE DetectTypeInv'
    OBVIOUS
<1> USE DetectPositions
<1>1. CASE Plug
    BY <1>1 DEF Plug, DetectTypeInv
<1>2. CASE Probe
    BY <1>2 DEF Probe, DetectTypeInv
<1>3. CASE WorkStart
    BY <1>3 DEF WorkStart, DetectTypeInv
<1>4. CASE WorkRead
    BY <1>4 DEF WorkRead, DetectTypeInv
<1>5. CASE WorkCompare
    BY <1>5, ChangeOrder DEF WorkCompare, DetectTypeInv
<1>6. CASE WorkStore
    BY <1>6, ChangeOrder DEF WorkStore, GoOn, DetectTypeInv
<1>7. CASE WorkSend
    BY <1>7, ChangeOrder DEF WorkSend, GoOn, DetectTypeInv
<1>8. CASE WorkEnd
    BY <1>8 DEF WorkEnd, DetectTypeInv
<1>9. CASE OnlineShow
    <2>1. reader \in Cameras
        BY <1>9 DEF OnlineShow, DetectTypeInv
    <2>2. QED
        BY <1>9, <2>1 DEF OnlineShow, DetectTypeInv
<1>10. CASE Listen
    BY <1>10 DEF Listen, DetectTypeInv
<1>11. CASE RemoveBegin
    BY <1>11 DEF RemoveBegin, DetectTypeInv
<1>12. CASE RemoveEnd
    BY <1>12 DEF RemoveEnd, DetectTypeInv
<1>13. CASE UNCHANGED detect_vars
    BY <1>13 DEF detect_vars, DetectTypeInv
<1>14. QED
    BY <1>1, <1>2, <1>3, <1>4, <1>5, <1>6, <1>7, <1>8, <1>9, <1>10, <1>11, <1>12, <1>13
    DEF DetectNext, WorkStep

-----------------------------------------------------------------------------
\* cancel_delayed_work_sync: a work that could still run keeps the removal waiting.
THEOREM RemovalIsFinal == DetectSpec => []RemovalFinal
<1>1. DetectInit => RemovalFinal
    BY DEF DetectInit, RemovalFinal
<1>2. RemovalFinal /\ [DetectNext]_detect_vars => RemovalFinal'
    BY DEF RemovalFinal, DetectNext, WorkStep, Plug, Probe, WorkStart, WorkRead, WorkCompare,
           WorkStore, WorkSend, WorkEnd, GoOn, OnlineShow, Listen, RemoveBegin, RemoveEnd, detect_vars
<1>3. QED
    BY <1>1, <1>2, PTL DEF DetectSpec

-----------------------------------------------------------------------------
\* The work stores a level and then sends the event, the listener takes the event
\* and then reads: what it has read since is current, for any number of cameras.
LEMMA ViewStep == DetectTypeInv /\ ViewCurrent /\ [DetectNext]_detect_vars => ViewCurrent'
<1> SUFFICES ASSUME DetectTypeInv, ViewCurrent, [DetectNext]_detect_vars,
                    (driver # "unbound")', ~uevent', (work # "send")',
                    NEW i \in Cameras, i < reader'
             PROVE  view'[i] = last_status'[i]
    BY DEF ViewCurrent, Cameras, Done
<1> USE DetectPositions
<1>1. CASE Plug
    BY <1>1 DEF Plug, ViewCurrent
<1>2. CASE Probe
    BY <1>2 DEF Probe
<1>3. CASE WorkStart
    BY <1>3 DEF WorkStart, ViewCurrent
<1>4. CASE WorkRead
    BY <1>4 DEF WorkRead, ViewCurrent
<1>5. CASE WorkCompare
    BY <1>5, ChangeOrder DEF WorkCompare, ViewCurrent
<1>6. CASE WorkStore
    BY <1>6, ChangeOrder DEF WorkStore, GoOn
<1>7. CASE WorkSend
    BY <1>7 DEF WorkSend
<1>8. CASE WorkEnd
    BY <1>8 DEF WorkEnd, ViewCurrent
<1>9. CASE OnlineShow
    <2>1. reader \in Cameras /\ view \in [Cameras -> BOOLEAN]
        BY <1>9 DEF OnlineShow, DetectTypeInv
    <2>2. CASE i = reader
        BY <1>9, <2>1, <2>2 DEF OnlineShow
    <2>3. CASE i # reader
        <3>1. i < reader
            BY <1>9, <2>1, <2>3 DEF OnlineShow
        <3>2. view[i] = last_status[i]
            BY <1>9, <3>1 DEF OnlineShow, ViewCurrent
        <3>3. QED
            BY <1>9, <2>1, <2>3, <3>2 DEF OnlineShow
    <2>4. QED
        BY <2>2, <2>3
<1>10. CASE Listen
    BY <1>10 DEF Listen
<1>11. CASE RemoveBegin
    BY <1>11 DEF RemoveBegin, ViewCurrent
<1>12. CASE RemoveEnd
    BY <1>12 DEF RemoveEnd
<1>13. CASE UNCHANGED detect_vars
    BY <1>13 DEF detect_vars, ViewCurrent
<1>14. QED
    BY <1>1, <1>2, <1>3, <1>4, <1>5, <1>6, <1>7, <1>8, <1>9, <1>10, <1>11, <1>12, <1>13
    DEF DetectNext, WorkStep

THEOREM ViewIsCurrent == DetectSpec => []ViewCurrent
<1>1. DetectInit => DetectTypeInv /\ ViewCurrent
    BY DetectInitType DEF DetectInit, ViewCurrent
<1>2. DetectTypeInv /\ ViewCurrent /\ [DetectNext]_detect_vars => (DetectTypeInv /\ ViewCurrent)'
    BY DetectTypeStep, ViewStep
<1>3. QED
    BY <1>1, <1>2, PTL DEF DetectSpec
=============================================================================
