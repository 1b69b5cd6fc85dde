--------------------------- MODULE UrbPumpProofs ---------------------------
(***************************************************************************)
(* Proofs about UrbPump, for every device, every number of commands under  *)
(* way, isochronous ones of any size among them, and every amount of TCP   *)
(* buffering: the pump acts on no byte that is not a header, answers in    *)
(* order, and implements UrbService.                                       *)
(***************************************************************************)
EXTENDS UrbPump, SequenceTheorems, TLAPS

(* The number of commands in hand. *)
Held == IF pc \in Serving THEN 1 ELSE 0

(* A body in the stream is the next thing read from it.  Descriptors are    *)
(* met between commands, and end the loop.                                  *)
FrameInv ==
    /\ desync # "body"
    /\ bodyLeft => pc \in {"body", "cleanup", "done"}
    /\ desync = "packets" => pc \in {"cleanup", "done"} /\ cmd = NoCmd
    /\ pc \in {"loop", "header"} => cmd = NoCmd

HandInv ==
    /\ pc \in Serving => cmd \in Commands
    /\ pc \in {"body", "dispatch", "transfer"} => cmd.op = "SUBMIT"
    /\ pc = "unlink" => cmd.op = "UNLINK"
    /\ pc = "transfer" => EpType[cmd.ep] \notin {"none", "isoc"}
    /\ pc = "reply" => /\ reply \in Rets /\ reply.op = cmd.op /\ reply.seqnum = cmd.seqnum
                       /\ reply \in AnswersTo(cmd)

(* What the client waits for is, in this order, what has been answered,     *)
(* what the pump has in hand, and what it has not read.                     *)
LineInv ==
    /\ Len(awaiting) = Len(out) + Held + Len(in)
    /\ \A i \in 1 .. Len(out) : out[i].seqnum = awaiting[i].seqnum /\ out[i].op = awaiting[i].op
    /\ pc \in Serving => cmd = awaiting[Len(out) + 1]
    /\ \A i \in 1 .. Len(in) : in[i] = awaiting[Len(out) + Held + i]

DistinctInv ==
    \A i, j \in 1 .. Len(awaiting) : awaiting[i].seqnum = awaiting[j].seqnum => i = j

FInv ==
    /\ TypeOK /\ FrameInv /\ HandInv /\ DistinctInv
    /\ ~lost => LineInv
    /\ lost => out = <<>> /\ awaiting = <<>>

-----------------------------------------------------------------------------
(* The fields of commands and replies. *)
LEMMA CommandFields ==
    /\ \A c \in Commands : c.op \in {"SUBMIT", "UNLINK"} /\ c.seqnum \in Seqnums
    /\ \A c \in Commands : c.op = "SUBMIT" => /\ c.ep \in Eps /\ c.body \in BOOLEAN
                                              /\ c.packets \in Nat
    /\ \A c \in Commands : c.op = "UNLINK" => c.unlinkSeqnum \in Seqnums
    /\ \A c \in Commands, s \in Statuses :
         Ret(c, s) \in Rets /\ Ret(c, s).op = c.op /\ Ret(c, s).seqnum = c.seqnum
<1>1. \A p \in PacketCounts \cup {0} : p \in Nat
  BY PumpAssumption
<1> QED
  BY <1>1 DEF Commands, Ret, Rets

LEMMA Built ==
    /\ \A n \in Seqnums, e \in Eps, b \in BOOLEAN, p \in PacketCounts \cup {0} :
         Submit(n, e, b, p) \in Commands /\ Submit(n, e, b, p).seqnum = n
    /\ \A n, t \in Seqnums : Unlink(n, t) \in Commands /\ Unlink(n, t).seqnum = n
BY DEF Submit, Unlink, Commands

(* A reply that a command admits names that command. *)
LEMMA AnswerFields ==
    \A c \in Commands : \A r \in AnswersTo(c) :
        r \in Rets /\ r.op = c.op /\ r.seqnum = c.seqnum
<1> SUFFICES ASSUME NEW c \in Commands, NEW r \in AnswersTo(c)
             PROVE  r \in Rets /\ r.op = c.op /\ r.seqnum = c.seqnum
  OBVIOUS
<1>1. PICK s \in Statuses : r = Ret(c, s)
  BY DEF AnswersTo, Statuses
<1> QED
  BY <1>1, CommandFields

LEMMA InitInv == Init => FInv
<1> SUFFICES ASSUME Init PROVE FInv
  OBVIOUS
<1>1. TypeOK
  <2>1. 0 \in Seqnums
    BY PumpAssumption DEF Seqnums
  <2>2. in \in Seq(Commands) /\ out \in Seq(Rets) /\ awaiting \in Seq(Commands)
    BY EmptySeq DEF Init
  <2> QED
    BY <2>1, <2>2 DEF Init, TypeOK
<1> QED
  BY <1>1 DEF Init, FInv, FrameInv, HandInv, DistinctInv, LineInv, Serving, Held

(* A step of the pump that leaves the queues and the line alone. *)
LEMMA LineKept ==
    ASSUME FInv, UNCHANGED <<in, out, lost, awaiting>>,
           ~lost => (pc' \in Serving <=> pc \in Serving),
           ~lost /\ pc' \in Serving => cmd' = cmd
    PROVE  /\ DistinctInv'
           /\ ~lost' => LineInv'
           /\ lost' => out' = <<>> /\ awaiting' = <<>>
<1>1. ~lost => Held' = Held
  BY DEF Held
<1> QED
  BY <1>1 DEF FInv, DistinctInv, LineInv

LEMMA LoopInv == FInv /\ (PLoop \/ PEof \/ PReplyFails \/ PCleanup) => FInv'
<1> SUFFICES ASSUME FInv, PLoop \/ PEof \/ PReplyFails \/ PCleanup PROVE FInv'
  OBVIOUS
<1>1. TypeOK'
  BY DEF FInv, TypeOK, PLoop, PEof, PReplyFails, PCleanup, clientVars
<1>2. FrameInv' /\ HandInv'
  BY DEF FInv, FrameInv, HandInv, Serving, PLoop, PEof, PReplyFails, PCleanup
<1>3. /\ UNCHANGED <<in, out, lost, awaiting>>
      /\ ~lost => (pc' \in Serving <=> pc \in Serving)
      /\ ~lost /\ pc' \in Serving => cmd' = cmd
  BY DEF Serving, PLoop, PEof, PReplyFails, PCleanup, clientVars
<1> QED
  BY <1>1, <1>2, <1>3, LineKept DEF FInv

LEMMA ServeInv == FInv /\ (PBody \/ PDispatch \/ PTransfer \/ PUnlink) => FInv'
<1> SUFFICES ASSUME FInv, PBody \/ PDispatch \/ PTransfer \/ PUnlink PROVE FInv'
  OBVIOUS
<1>0. cmd \in Commands /\ cmd.seqnum \in Seqnums
  BY CommandFields DEF FInv, HandInv, Serving, PBody, PDispatch, PTransfer, PUnlink
<1>1. /\ UNCHANGED <<cmd, in, out, lost, awaiting, claimed, desync, stopped, responsive, next,
                     packetsLeft>>
      /\ pc \in Serving /\ pc' \in Serving
  BY DEF Serving, PAnswer, PBody, PDispatch, PTransfer, PUnlink, clientVars
<1>2. \/ reply' = reply /\ pc' = "dispatch"
      \/ reply' = reply /\ pc' = "transfer" /\ EpType[cmd.ep] \notin {"none", "isoc"}
      \/ pc' = "reply" /\ reply' \in AnswersTo(cmd)
  <2> USE DEF PAnswer, AnswersTo
  <2>1. CASE PBody
    BY <2>1 DEF PBody
  <2>2. CASE PDispatch
    <3>1. cmd.op = "SUBMIT"
      BY <2>2 DEF FInv, HandInv, PDispatch
    <3> QED
      BY <2>2, <3>1 DEF PDispatch
  <2>3. CASE PTransfer
    <3>1. cmd.op = "SUBMIT" /\ EpType[cmd.ep] \notin {"none", "isoc"}
      BY <2>3 DEF FInv, HandInv, PTransfer
    <3> QED
      BY <2>3, <3>1 DEF PTransfer
  <2>4. CASE PUnlink
    <3>1. cmd.op = "UNLINK"
      BY <2>4 DEF FInv, HandInv, PUnlink
    <3> QED
      BY <2>4, <3>1 DEF PUnlink
  <2> QED
    BY <2>1, <2>2, <2>3, <2>4
<1>a. pc' = "reply" => reply' \in Rets /\ reply'.op = cmd.op /\ reply'.seqnum = cmd.seqnum
  BY <1>0, <1>2, AnswerFields
<1>3. cancelled' \subseteq Seqnums
  <2>1. pc = "unlink" => cmd.unlinkSeqnum \in Seqnums
    BY <1>0, CommandFields DEF FInv, HandInv
  <2> QED
    BY <2>1 DEF FInv, TypeOK, PBody, PDispatch, PTransfer, PUnlink
<1>4. bodyLeft' = FALSE
  BY DEF FInv, TypeOK, FrameInv, PBody, PDispatch, PTransfer, PUnlink
<1>5. pc' \in {"dispatch", "transfer"} => cmd.op = "SUBMIT"
  BY DEF FInv, HandInv, PAnswer, PBody, PDispatch, PTransfer, PUnlink
<1>6. HandInv'
  <2>1. AnswersTo(cmd)' = AnswersTo(cmd)
    BY <1>1 DEF AnswersTo, Ret
  <2> QED
    BY <1>0, <1>1, <1>2, <1>a, <1>5, <2>1 DEF HandInv, Serving
<1>7. TypeOK'
  BY <1>0, <1>1, <1>2, <1>a, <1>3, <1>4 DEF FInv, TypeOK
<1>8. FrameInv'
  BY <1>1, <1>4 DEF FInv, FrameInv, Serving
<1> QED
  BY <1>1, <1>6, <1>7, <1>8, LineKept DEF FInv

LEMMA BailInv == FInv /\ PHeader /\ OutOfFrame => FInv'
<1> SUFFICES ASSUME FInv, PHeader, OutOfFrame PROVE FInv'
  OBVIOUS
<1>1. /\ pc = "header" /\ pc' = "cleanup"
      /\ desync' = IF bodyLeft THEN "body" ELSE "packets"
      /\ UNCHANGED <<cmd, in, bodyLeft, packetsLeft, reply, cancelled, claimed, stopped, out,
                     lost, responsive, awaiting, next>>
  BY DEF PHeader, clientVars
<1>2. desync' = "packets" /\ cmd' = NoCmd /\ ~bodyLeft
  BY <1>1 DEF FInv, FrameInv
<1>3. TypeOK'
  BY <1>1, <1>2 DEF FInv, TypeOK
<1>4. FrameInv' /\ HandInv'
  BY <1>1, <1>2 DEF FInv, FrameInv, HandInv, Serving
<1>5. pc \notin Serving /\ pc' \notin Serving
  BY <1>1 DEF Serving
<1> QED
  BY <1>1, <1>3, <1>4, <1>5, LineKept DEF FInv

LEMMA HeaderInv == FInv /\ PHeader /\ ~OutOfFrame => FInv'
<1> SUFFICES ASSUME FInv, PHeader, ~OutOfFrame PROVE FInv'
  OBVIOUS
<1>1. /\ ~bodyLeft /\ cmd' = Head(in) /\ in' = Tail(in) /\ pc = "header" /\ in # <<>>
      /\ UNCHANGED <<reply, cancelled, claimed, desync, stopped, out, lost, responsive,
                     awaiting, next>>
      /\ bodyLeft' = (cmd'.op = "SUBMIT" /\ cmd'.body)
      /\ packetsLeft' = IF cmd'.op = "SUBMIT" THEN cmd'.packets ELSE 0
      /\ pc' = CASE cmd'.op = "UNLINK" -> "unlink"
                 [] bodyLeft' -> "body"
                 [] OTHER -> "dispatch"
  <2>1. packetsLeft = 0
    BY DEF OutOfFrame, FInv, TypeOK
  <2>2. in # <<>>
    BY <2>1 DEF PHeader, HeaderThere, HeaderLen, PacketLen
  <2> QED
    BY <2>2 DEF OutOfFrame, PHeader, clientVars
<1>2. /\ in \in Seq(Commands) /\ out \in Seq(Rets) /\ awaiting \in Seq(Commands)
      /\ cmd' = in[1] /\ cmd' \in Commands /\ in' \in Seq(Commands)
      /\ Len(in') = Len(in) - 1 /\ \A i \in 1 .. Len(in') : in'[i] = in[i + 1]
  BY <1>1 DEF FInv, TypeOK
<1>3. /\ pc' \in {"unlink", "body", "dispatch"} /\ bodyLeft' \in BOOLEAN
      /\ pc' = "unlink" <=> cmd'.op = "UNLINK"
      /\ bodyLeft' => pc' = "body"
      /\ packetsLeft' \in Nat
      /\ cmd'.op \in {"SUBMIT", "UNLINK"}
  BY <1>1, <1>2, CommandFields
<1>4. TypeOK'
  BY <1>1, <1>2, <1>3 DEF FInv, TypeOK
<1>5. FrameInv' /\ HandInv'
  BY <1>1, <1>2, <1>3 DEF FInv, FrameInv, HandInv, Serving
<1>6. Held = 0 /\ Held' = 1 /\ pc' \in Serving
  BY <1>1, <1>3 DEF Held, Serving
<1>7. ~lost => LineInv'
  <2> SUFFICES ASSUME ~lost PROVE LineInv'
    OBVIOUS
  <2>1. LineInv
    BY DEF FInv
  <2>n. Len(out) \in Nat /\ Len(in) \in Nat /\ Len(in) >= 1
    BY <1>1, <1>2, EmptySeq, LenProperties
  <2>l. Len(awaiting) = Len(out) + Len(in) /\ Len(in') = Len(in) - 1
    BY <2>1, <2>n, <1>2, <1>6 DEF LineInv
  <2>m. \A i \in 1 .. Len(in) : in[i] = awaiting[Len(out) + i]
    BY <2>1, <2>n, <1>6 DEF LineInv
  <2>u. out' = out /\ awaiting' = awaiting
    BY <1>1
  <2>2. Len(awaiting') = Len(out') + Held' + Len(in')
    BY <2>n, <2>l, <2>u, <1>6
  <2>3. cmd' = awaiting'[Len(out') + 1]
    BY <2>n, <2>m, <2>u, <1>2
  <2>4. \A i \in 1 .. Len(in') : in'[i] = awaiting'[Len(out') + Held' + i]
    <3> TAKE i \in 1 .. Len(in')
    <3>1. i + 1 \in 1 .. Len(in) /\ in'[i] = in[i + 1] /\ Len(out) + 1 + i = Len(out) + (i + 1)
      BY <2>n, <1>2
    <3> QED
      BY <3>1, <2>m, <2>u, <1>6
  <2> QED
    BY <2>1, <2>2, <2>3, <2>4, <1>1 DEF LineInv
<1> QED
  BY <1>1, <1>4, <1>5, <1>7 DEF FInv, DistinctInv

LEMMA ReplyInv == FInv /\ PReply => FInv'
<1> SUFFICES ASSUME FInv, PReply PROVE FInv'
  OBVIOUS
<1>1. /\ out' = IF lost THEN out ELSE Append(out, reply)
      /\ pc = "reply" /\ pc' = "loop" /\ cmd' = NoCmd /\ reply' = NoRet
      /\ UNCHANGED <<cancelled, claimed, desync, stopped, in, bodyLeft, packetsLeft, lost,
                     responsive, awaiting, next>>
  BY DEF PReply, clientVars
<1>2. /\ reply \in Rets /\ reply.op = cmd.op /\ reply.seqnum = cmd.seqnum
      /\ in \in Seq(Commands) /\ out \in Seq(Rets) /\ awaiting \in Seq(Commands)
  BY <1>1 DEF FInv, HandInv, TypeOK
<1>3. TypeOK'
  BY <1>1, <1>2 DEF FInv, TypeOK
<1>4. FrameInv' /\ HandInv'
  BY <1>1 DEF FInv, FrameInv, HandInv, Serving
<1>5. Held = 1 /\ Held' = 0 /\ pc \in Serving /\ pc' \notin Serving
  BY <1>1 DEF Held, Serving
<1>6. ~lost => LineInv'
  <2> SUFFICES ASSUME ~lost PROVE LineInv'
    OBVIOUS
  <2>1. LineInv
    BY DEF FInv
  <2>2. /\ out' = Append(out, reply) /\ Len(out') = Len(out) + 1
        /\ \A i \in 1 .. Len(out) : out'[i] = out[i]
        /\ out'[Len(out) + 1] = reply
    BY <1>1, <1>2
  <2>3. Len(awaiting') = Len(out') + Held' + Len(in')
    BY <2>1, <2>2, <1>1, <1>2, <1>5 DEF LineInv
  <2>4. \A i \in 1 .. Len(out') :
            out'[i].seqnum = awaiting'[i].seqnum /\ out'[i].op = awaiting'[i].op
    BY <2>1, <2>2, <1>1, <1>2, <1>5 DEF LineInv
  <2>5. \A i \in 1 .. Len(in') : in'[i] = awaiting'[Len(out') + Held' + i]
    <3> TAKE i \in 1 .. Len(in')
    <3>1. in'[i] = awaiting[Len(out) + 1 + i]
      BY <2>1, <1>1, <1>5 DEF LineInv
    <3>2. Len(out') + 0 + i = Len(out) + 1 + i
      BY <2>2, <1>1, <1>2
    <3> QED
      BY <3>1, <3>2, <1>1, <1>5
  <2> QED
    BY <2>3, <2>4, <2>5, <1>5 DEF LineInv
<1> QED
  BY <1>1, <1>3, <1>4, <1>6 DEF FInv, DistinctInv

LEMMA SendInv ==
    ASSUME FInv, NEW c \in Commands, c.seqnum = next, CSend(c) PROVE FInv'
<1>1. /\ ~lost /\ next \notin AwaitedSeqnums /\ next' = (next + 1) % SeqMod
      /\ awaiting' = Append(awaiting, c) /\ in' = Append(in, c)
      /\ UNCHANGED <<pc, cmd, reply, cancelled, claimed, desync, stopped, bodyLeft, packetsLeft,
                     out, lost, responsive>>
  BY DEF CSend, pumpVars
<1>2. in \in Seq(Commands) /\ out \in Seq(Rets) /\ awaiting \in Seq(Commands) /\ next \in Seqnums
  BY DEF FInv, TypeOK
<1>3. TypeOK'
  <2>1. next' \in Seqnums
    BY <1>1, <1>2, PumpAssumption DEF Seqnums
  <2>2. awaiting' \in Seq(Commands) /\ in' \in Seq(Commands)
    BY <1>1, <1>2
  <2> QED
    BY <1>1, <2>1, <2>2 DEF FInv, TypeOK
<1>4. FrameInv' /\ HandInv'
  BY <1>1 DEF FInv, FrameInv, HandInv
<1>5. /\ Len(awaiting') = Len(awaiting) + 1 /\ Len(in') = Len(in) + 1
      /\ \A i \in 1 .. Len(awaiting) : awaiting'[i] = awaiting[i]
      /\ \A i \in 1 .. Len(in) : in'[i] = in[i]
      /\ awaiting'[Len(awaiting) + 1] = c /\ in'[Len(in) + 1] = c
  BY <1>1, <1>2
<1>6. DistinctInv'
  <2>1. \A i \in 1 .. Len(awaiting) : awaiting[i].seqnum # next
    BY <1>1, <1>2 DEF AwaitedSeqnums
  <2> QED
    BY <2>1, <1>2, <1>5 DEF FInv, DistinctInv
<1>7. LineInv'
  <2>1. LineInv /\ Held' = Held /\ Held \in {0, 1} /\ (pc \in Serving => Held = 1)
    BY <1>1 DEF FInv, Held
  <2>2. Len(awaiting') = Len(out') + Held' + Len(in')
    BY <2>1, <1>1, <1>2, <1>5 DEF LineInv
  <2>3. \A i \in 1 .. Len(out') :
            out'[i].seqnum = awaiting'[i].seqnum /\ out'[i].op = awaiting'[i].op
    BY <2>1, <1>1, <1>2, <1>5 DEF LineInv
  <2>4. pc' \in Serving => cmd' = awaiting'[Len(out') + 1]
    BY <2>1, <1>1, <1>2, <1>5 DEF LineInv
  <2>5. \A i \in 1 .. Len(in') : in'[i] = awaiting'[Len(out') + Held' + i]
    <3> TAKE i \in 1 .. Len(in')
    <3>n. Len(out) \in Nat /\ Len(in) \in Nat /\ Len(awaiting) = Len(out) + Held + Len(in)
      BY <2>1, <1>2 DEF LineInv
    <3>1. CASE i \in 1 .. Len(in)
      <4>1. Len(out) + Held + i \in 1 .. Len(awaiting)
        BY <3>1, <3>n, <2>1
      <4>2. in'[i] = awaiting[Len(out) + Held + i]
        BY <3>1, <2>1, <1>5 DEF LineInv
      <4> QED
        BY <4>1, <4>2, <2>1, <1>1, <1>5
    <3>2. CASE i = Len(in) + 1
      <4>1. Len(out) + Held + i = Len(awaiting) + 1
        BY <3>2, <3>n, <2>1
      <4> QED
        BY <3>2, <4>1, <2>1, <1>1, <1>5
    <3> QED
      BY <3>1, <3>2, <3>n, <1>5
  <2> QED
    BY <2>2, <2>3, <2>4, <2>5 DEF LineInv
<1> QED
  BY <1>1, <1>3, <1>4, <1>6, <1>7 DEF FInv

(* The reply the client takes is the one to the command at the head. *)
LEMMA ReceiveFacts ==
    ASSUME FInv, CReceive
    PROVE  /\ ~lost /\ awaiting # <<>> /\ out # <<>>
           /\ awaiting' = Tail(awaiting) /\ out' = Tail(out)
<1>1. PICK i \in DOMAIN awaiting :
         /\ awaiting[i].seqnum = Head(out).seqnum
         /\ awaiting' = SubSeq(awaiting, 1, i - 1) \o SubSeq(awaiting, i + 1, Len(awaiting))
  BY DEF CReceive
<1>2. ~lost /\ out # <<>> /\ out' = Tail(out) /\ LineInv
  BY DEF FInv, CReceive
<1>3. awaiting \in Seq(Commands) /\ out \in Seq(Rets) /\ in \in Seq(Commands)
  BY DEF FInv, TypeOK
<1>4. i \in 1 .. Len(awaiting) /\ 1 \in 1 .. Len(out) /\ Head(out) = out[1]
  BY <1>2, <1>3
<1>5. 1 \in 1 .. Len(awaiting) /\ awaiting # <<>>
  BY <1>3, <1>4
<1>6. i = 1
  <2>1. awaiting[1].seqnum = awaiting[i].seqnum
    BY <1>1, <1>2, <1>4 DEF LineInv
  <2> QED
    BY <2>1, <1>4, <1>5 DEF FInv, DistinctInv
<1>7. SubSeq(awaiting, 1, 0) = <<>>
  BY <1>3, SubSeqEmpty
<1>8. SubSeq(awaiting, 2, Len(awaiting)) = Tail(awaiting)
  BY <1>3, <1>5, TailIsSubSeq
<1>9. Tail(awaiting) \in Seq(Commands)
  BY <1>3, <1>5
<1>10. awaiting' = Tail(awaiting)
  BY <1>1, <1>6, <1>7, <1>8, <1>9, ConcatEmptySeq
<1> QED
  BY <1>2, <1>5, <1>10

LEMMA ReceiveInv == FInv /\ CReceive => FInv'
<1> SUFFICES ASSUME FInv, CReceive PROVE FInv'
  OBVIOUS
<1>1. /\ ~lost /\ awaiting # <<>> /\ out # <<>>
      /\ awaiting' = Tail(awaiting) /\ out' = Tail(out)
  BY ReceiveFacts
<1>2. UNCHANGED <<pc, cmd, reply, cancelled, claimed, desync, stopped, in, bodyLeft,
                  packetsLeft, lost, responsive, next>>
  BY DEF CReceive, pumpVars
<1>3. awaiting \in Seq(Commands) /\ out \in Seq(Rets) /\ in \in Seq(Commands)
  BY DEF FInv, TypeOK
<1>4. /\ awaiting' \in Seq(Commands) /\ out' \in Seq(Rets)
      /\ Len(awaiting') = Len(awaiting) - 1 /\ Len(out') = Len(out) - 1
      /\ \A i \in 1 .. Len(awaiting') : awaiting'[i] = awaiting[i + 1]
      /\ \A i \in 1 .. Len(out') : out'[i] = out[i + 1]
  BY <1>1, <1>3
<1>5. TypeOK'
  BY <1>2, <1>4 DEF FInv, TypeOK
<1>6. FrameInv' /\ HandInv'
  BY <1>2 DEF FInv, FrameInv, HandInv
<1>7. DistinctInv'
  <2> SUFFICES ASSUME NEW i \in 1 .. Len(awaiting'), NEW j \in 1 .. Len(awaiting'),
                      awaiting'[i].seqnum = awaiting'[j].seqnum
               PROVE  i = j
    BY DEF DistinctInv
  <2>1. i + 1 \in 1 .. Len(awaiting) /\ j + 1 \in 1 .. Len(awaiting)
    BY <1>3, <1>4
  <2>2. awaiting[i + 1].seqnum = awaiting[j + 1].seqnum
    BY <1>4
  <2>3. i + 1 = j + 1
    BY <2>1, <2>2 DEF FInv, DistinctInv
  <2> QED
    BY <2>3
<1>8. LineInv'
  <2>1. LineInv /\ Held' = Held /\ Held \in {0, 1} /\ (pc \in Serving => Held = 1)
    BY <1>1, <1>2 DEF FInv, Held
  <2>2. Len(awaiting') = Len(out') + Held' + Len(in')
    BY <2>1, <1>2, <1>3, <1>4 DEF LineInv
  <2>3. \A i \in 1 .. Len(out') :
            out'[i].seqnum = awaiting'[i].seqnum /\ out'[i].op = awaiting'[i].op
    <3> TAKE i \in 1 .. Len(out')
    <3>n. /\ Len(out) \in Nat /\ Len(in) \in Nat /\ Len(out') = Len(out) - 1
          /\ Len(awaiting) = Len(out) + Held + Len(in) /\ Len(awaiting') = Len(awaiting) - 1
      BY <2>1, <1>3, <1>4 DEF LineInv
    <3>1. i + 1 \in 1 .. Len(out) /\ i \in 1 .. Len(awaiting')
      BY <3>n, <2>1
    <3>2. out[i + 1].seqnum = awaiting[i + 1].seqnum /\ out[i + 1].op = awaiting[i + 1].op
      BY <2>1, <3>1 DEF LineInv
    <3> QED
      BY <3>1, <3>2, <1>4
  <2>4. pc' \in Serving => cmd' = awaiting'[Len(out') + 1]
    BY <2>1, <1>2, <1>3, <1>4 DEF LineInv
  <2>5. \A i \in 1 .. Len(in') : in'[i] = awaiting'[Len(out') + Held' + i]
    <3> TAKE i \in 1 .. Len(in')
    <3>n. /\ Len(out) \in Nat /\ Len(in) \in Nat /\ Len(out') = Len(out) - 1
          /\ Len(awaiting) = Len(out) + Held + Len(in) /\ Len(awaiting') = Len(awaiting) - 1
          /\ Len(out) >= 1
      BY <2>1, <1>1, <1>3, <1>4, EmptySeq DEF LineInv
    <3>1. /\ Len(out') + Held' + i \in 1 .. Len(awaiting')
          /\ (Len(out') + Held' + i) + 1 = Len(out) + Held + i
          /\ i \in 1 .. Len(in)
      BY <3>n, <2>1, <1>2
    <3>2. in[i] = awaiting[Len(out) + Held + i]
      BY <3>1, <2>1 DEF LineInv
    <3> QED
      BY <3>1, <3>2, <1>2, <1>4
  <2> QED
    BY <2>2, <2>3, <2>4, <2>5 DEF LineInv
<1> QED
  BY <1>1, <1>2, <1>5, <1>6, <1>7, <1>8 DEF FInv

LEMMA GoneInv == FInv /\ CGone => FInv'
<1> SUFFICES ASSUME FInv, CGone PROVE FInv'
  OBVIOUS
<1>1. PICK k \in 0 .. Len(in) : in' = SubSeq(in, 1, k)
  BY DEF CGone
<1>2. in' \in Seq(Commands)
  <2>1. in \in Seq(Commands)
    BY DEF FInv, TypeOK
  <2> QED
    BY <1>1, <2>1, SubSeqProperties
<1>3. TypeOK'
  BY <1>2 DEF FInv, TypeOK, CGone, pumpVars
<1>4. FrameInv' /\ HandInv' /\ DistinctInv'
  BY DEF FInv, FrameInv, HandInv, DistinctInv, CGone, pumpVars
<1> QED
  BY <1>3, <1>4 DEF FInv, CGone

LEMMA AsideInv == FInv /\ (PStop \/ DeviceHangs \/ UNCHANGED vars) => FInv'
<1> SUFFICES ASSUME FInv, PStop \/ DeviceHangs \/ UNCHANGED vars PROVE FInv'
  OBVIOUS
<1>1. /\ UNCHANGED <<pc, cmd, reply, cancelled, claimed, desync, in, bodyLeft, packetsLeft, out,
                     lost, awaiting, next>>
      /\ stopped' \in BOOLEAN /\ responsive' \in BOOLEAN
  BY DEF FInv, TypeOK, PStop, DeviceHangs, vars, pumpVars, clientVars
<1> QED
  BY <1>1 DEF FInv, TypeOK, FrameInv, HandInv, DistinctInv, LineInv, Held

(* What a step of Next is. *)
LEMMA NextInv == FInv /\ [Next]_vars => FInv'
<1> SUFFICES ASSUME FInv, [Next]_vars PROVE FInv'
  OBVIOUS
<1>1. CASE Pump
  BY <1>1, LoopInv, ServeInv, BailInv, HeaderInv, ReplyInv DEF Pump
<1>2. ASSUME NEW e \in Eps, NEW b \in BOOLEAN, NEW p \in PacketCounts \cup {0},
             CSubmit(e, b, p)
      PROVE  FInv'
  <2>1. next \in Seqnums
    BY DEF FInv, TypeOK
  <2> QED
    BY <1>2, <2>1, Built, SendInv DEF CSubmit
<1>3. ASSUME NEW t \in Seqnums, CUnlink(t) PROVE FInv'
  <2>1. next \in Seqnums
    BY DEF FInv, TypeOK
  <2> QED
    BY <1>3, <2>1, Built, SendInv DEF CUnlink
<1>4. CASE CReceive
  BY <1>4, ReceiveInv
<1>5. CASE CGone
  BY <1>5, GoneInv
<1>6. CASE PStop \/ DeviceHangs \/ UNCHANGED vars
  BY <1>6, AsideInv
<1> QED
  BY <1>1, <1>2, <1>3, <1>4, <1>5, <1>6 DEF Next, Client

LEMMA Invariance == Spec => []FInv
  BY InitInv, NextInv, PTL DEF Spec

-----------------------------------------------------------------------------
(* handleSubmit, pumpUrbs: body bytes are never read as a header, and after *)
(* the descriptors of an isochronous URB nothing more is acted on.          *)
THEOREM StaysInFrame == Spec => []InFrame
<1>1. FInv => InFrame
  BY DEF FInv, FrameInv, InFrame
<1> QED
  BY <1>1, Invariance, PTL

(* pumpUrbs: the next reply answers the command that has waited longest.    *)
THEOREM InOrder == Spec => []AnsweredInOrder
<1>1. FInv => AnsweredInOrder
  <2> SUFFICES ASSUME FInv, out # <<>>, awaiting # <<>>
               PROVE  Head(out).seqnum = awaiting[1].seqnum /\ Head(out).op = awaiting[1].op
    BY DEF AnsweredInOrder
  <2>1. out \in Seq(Rets) /\ LineInv
    BY DEF FInv, TypeOK
  <2>2. 1 \in 1 .. Len(out) /\ Head(out) = out[1]
    BY <2>1
  <2> QED
    BY <2>1, <2>2 DEF LineInv
<1> QED
  BY <1>1, Invariance, PTL

(* pumpUrbs: every command read is answered before the next one is read.    *)
THEOREM NoneForgotten == Spec => []NothingForgotten
<1>1. FInv => NothingForgotten
  <2> SUFFICES ASSUME FInv, pc \in {"loop", "header"}, in = <<>>, out = <<>>
               PROVE  awaiting = <<>>
    BY DEF NothingForgotten
  <2>1. CASE ~lost
    <3>1. Len(awaiting) = 0 /\ awaiting \in Seq(Commands)
      BY <2>1 DEF FInv, TypeOK, LineInv, Held, Serving
    <3> QED
      BY <3>1, EmptySeq
  <2>2. CASE lost
    BY <2>2 DEF FInv
  <2> QED
    BY <2>1, <2>2
<1> QED
  BY <1>1, Invariance, PTL

-----------------------------------------------------------------------------
(* A sequence with one more element in front. *)
LEMMA Cons ==
    ASSUME NEW S, NEW e \in S, NEW q \in Seq(S)
    PROVE  /\ <<e>> \o q \in Seq(S) /\ <<e>> \o q # <<>>
           /\ Head(<<e>> \o q) = e /\ Tail(<<e>> \o q) = q
<1>1. <<e>> \in Seq(S) /\ Len(<<e>>) = 1 /\ Len(q) \in Nat
  OBVIOUS
<1>2. PICK t : t = <<e>> \o q
  OBVIOUS
<1>3. /\ t \in Seq(S) /\ Len(t) = 1 + Len(q)
      /\ \A i \in 1 .. 1 + Len(q) : t[i] = IF i <= 1 THEN <<e>>[i] ELSE q[i - 1]
  BY <1>1, <1>2, ConcatProperties
<1>4. t # <<>> /\ t[1] = e /\ Head(t) = t[1]
  BY <1>1, <1>3
<1>5. /\ Tail(t) \in Seq(S) /\ Len(Tail(t)) = Len(q)
      /\ \A i \in 1 .. Len(Tail(t)) : Tail(t)[i] = t[i + 1]
  BY <1>1, <1>3, <1>4, HeadTailProperties
<1>6. \A i \in 1 .. Len(q) : t[i + 1] = q[i]
  BY <1>1, <1>3
<1>7. Tail(t) = q
  BY <1>5, <1>6, SeqEqual
<1> QED
  BY <1>2, <1>3, <1>4, <1>7

LEMMA ConsHeadTail ==
    ASSUME NEW S, NEW q \in Seq(S), q # <<>>
    PROVE  q = <<Head(q)>> \o Tail(q)
<1>1. /\ Head(q) \in S /\ Tail(q) \in Seq(S) /\ Len(Tail(q)) = Len(q) - 1
      /\ \A i \in 1 .. Len(Tail(q)) : Tail(q)[i] = q[i + 1]
  BY HeadTailProperties
<1>2. PICK h : h = Head(q)
  OBVIOUS
<1>3. h = q[1] /\ h \in S /\ Len(q) \in Nat \ {0}
  BY <1>1, <1>2, EmptySeq
<1>4. PICK t : t = <<h>> \o Tail(q)
  OBVIOUS
<1>5. /\ t \in Seq(S) /\ Len(t) = 1 + (Len(q) - 1)
      /\ \A i \in 1 .. 1 + (Len(q) - 1) : t[i] = IF i <= 1 THEN <<h>>[i] ELSE Tail(q)[i - 1]
  <2>1. <<h>> \in Seq(S) /\ Len(<<h>>) = 1
    BY <1>3
  <2> QED
    BY <1>1, <1>4, <2>1, ConcatProperties
<1>6. Len(t) = Len(q) /\ \A i \in 1 .. Len(q) : q[i] = t[i]
  <2>1. Len(t) = Len(q)
    BY <1>3, <1>5
  <2>2. ASSUME NEW i \in 1 .. Len(q) PROVE q[i] = t[i]
    <3>1. CASE i = 1
      BY <3>1, <1>3, <1>5
    <3>2. CASE i # 1
      <4>1. i - 1 \in 1 .. Len(Tail(q)) /\ (i - 1) + 1 = i
        BY <3>2, <1>1, <1>3
      <4>2. t[i] = Tail(q)[i - 1]
        BY <3>2, <1>3, <1>5
      <4> QED
        BY <4>1, <4>2, <1>1
    <3> QED
      BY <3>1, <3>2
  <2> QED
    BY <2>1, <2>2
<1> QED
  BY <1>2, <1>4, <1>5, <1>6, SeqEqual

LEMMA ConsAppend ==
    ASSUME NEW S, NEW e \in S, NEW q \in Seq(S), NEW c \in S
    PROVE  <<e>> \o Append(q, c) = Append(<<e>> \o q, c)
<1>1. <<e>> \in Seq(S) /\ <<c>> \in Seq(S)
  OBVIOUS
<1>2. (<<e>> \o q) \o <<c>> = <<e>> \o (q \o <<c>>)
  BY <1>1, ConcatAssociative
<1>3. \A s \in Seq(S) : Append(s, c) = s \o <<c>>
  BY AppendIsConcat
<1>4. <<e>> \o q \in Seq(S)
  BY <1>1, ConcatProperties
<1> QED
  BY <1>2, <1>3, <1>4

(* The service's view of the pump. *)
Todo == IF lost THEN <<>> ELSE InHand \o in

LEMMA TodoFacts ==
    ASSUME FInv, ~lost
    PROVE  /\ pc \notin Serving => Todo = in
           /\ pc \in Serving => /\ Todo = <<cmd>> \o in /\ cmd \in Commands
                               /\ Todo # <<>> /\ Head(Todo) = cmd /\ Tail(Todo) = in
           /\ Todo \in Seq(Commands)
<1>1. in \in Seq(Commands)
  BY DEF FInv, TypeOK
<1>2. CASE pc \notin Serving
  BY <1>1, <1>2, ConcatEmptySeq DEF Todo, InHand
<1>3. CASE pc \in Serving
  <2>1. cmd \in Commands /\ Todo = <<cmd>> \o in
    BY <1>3 DEF Todo, InHand, FInv, HandInv
  <2>2. <<cmd>> \in Seq(Commands) /\ Todo \in Seq(Commands)
    BY <1>1, <2>1
  <2>3. Todo # <<>> /\ Head(Todo) = cmd /\ Tail(Todo) = in
    BY <1>1, <2>1, Cons
  <2> QED
    BY <1>3, <2>1, <2>2, <2>3
<1> QED
  BY <1>2, <1>3

(* A step that neither takes nor gives a command or a reply. *)
LEMMA Stutters ==
    ASSUME FInv, UNCHANGED <<in, out, lost>>, ~lost => InHand' = InHand
    PROVE  UNCHANGED <<Todo, out, lost>>
BY DEF Todo

(* The header read is now the command in hand. *)
LEMMA HeaderStutters == FInv /\ PHeader => UNCHANGED <<Todo, out, lost>>
<1> SUFFICES ASSUME FInv, PHeader PROVE UNCHANGED <<Todo, out, lost>>
  OBVIOUS
<1>1. CASE OutOfFrame
  <2>1. UNCHANGED <<in, out, lost>> /\ InHand' = InHand
    BY <1>1 DEF PHeader, InHand, Serving
  <2> QED
    BY <2>1, Stutters
<1>2. CASE ~OutOfFrame
  <2>1. pc = "header" /\ out' = out /\ lost' = lost /\ FInv'
    BY <1>2, HeaderInv DEF PHeader
  <2>2. packetsLeft = 0
    BY <1>2 DEF OutOfFrame, FInv, TypeOK
  <2>3. in # <<>> /\ cmd' = Head(in) /\ in' = Tail(in) /\ in \in Seq(Commands)
    BY <1>2, <2>2 DEF PHeader, HeaderThere, HeaderLen, PacketLen, FInv, TypeOK
  <2>4. pc' \in Serving /\ pc \notin Serving
    <3>1. cmd' \in Commands
      BY <2>3
    <3> QED
      BY <1>2, <3>1 DEF PHeader, Serving
  <2>5. CASE ~lost
    <3>1. Todo = in
      BY <2>4, <2>5, TodoFacts
    <3>2. Todo' = <<cmd'>> \o in'
      BY <2>1, <2>4, <2>5 DEF Todo, InHand
    <3>3. in = <<Head(in)>> \o Tail(in)
      BY <2>3, ConsHeadTail
    <3> QED
      BY <3>1, <3>2, <3>3, <2>1, <2>3
  <2>6. CASE lost
    BY <2>1, <2>6 DEF Todo
  <2> QED
    BY <2>5, <2>6
<1> QED
  BY <1>1, <1>2

(* UsbIpHost: the pump implements a URB service.                            *)
THEOREM Refines == Spec => ServesInOrder
<1> DEFINE sv == <<Todo, out, lost>>
<1>1. Init => Service!Init
  <2>1. <<>> \o <<>> = <<>>
    BY ConcatEmptySeq, EmptySeq
  <2> QED
    BY <2>1 DEF Init, Service!Init, InHand, Serving
<1>2. FInv /\ [Next]_vars => Service!Next \/ UNCHANGED sv
  <2> SUFFICES ASSUME FInv, [Next]_vars
               PROVE  Service!Next \/ UNCHANGED sv
    OBVIOUS
  <2>0. next \in Seqnums /\ in \in Seq(Commands)
    BY DEF FInv, TypeOK
  <2>1. CASE PLoop \/ PEof \/ PReplyFails \/ PCleanup
    BY <2>1, Stutters DEF PLoop, PEof, PReplyFails, PCleanup, InHand, Serving
  <2>2. CASE PBody \/ PDispatch \/ PTransfer \/ PUnlink
    BY <2>2, Stutters DEF PBody, PDispatch, PTransfer, PUnlink, PAnswer, InHand, Serving
  <2>3. CASE PHeader
    BY <2>3, HeaderStutters
  <2>4. CASE PReply
    <3>1. pc \in Serving /\ pc' \notin Serving /\ in' = in /\ lost' = lost
      BY <2>4 DEF PReply, Serving
    <3>2. CASE lost
      BY <2>4, <3>1, <3>2 DEF PReply, Todo
    <3>3. CASE ~lost
      <4>1. Todo # <<>> /\ Head(Todo) = cmd /\ Tail(Todo) = in /\ cmd \in Commands
        BY <3>1, <3>3, TodoFacts
      <4>2. out' = Append(out, reply) /\ reply \in AnswersTo(cmd)
        BY <2>4, <3>3 DEF PReply, FInv, HandInv
      <4>3. Todo' = in
        BY <2>0, <3>1, <3>3, ConcatEmptySeq DEF Todo, InHand
      <4>4. Service!Serve
        BY <3>1, <3>3, <4>1, <4>2, <4>3 DEF Service!Serve, Todo
      <4> QED
        BY <4>4 DEF Service!Next
    <3> QED
      BY <3>2, <3>3
  <2>5. ASSUME NEW c \in Commands, CSend(c) PROVE Service!Next
    <3>1. ~lost /\ lost' = lost /\ out' = out /\ in' = Append(in, c) /\ InHand' = InHand
      BY <2>5 DEF CSend, pumpVars, InHand
    <3>2. Todo' = Append(Todo, c)
      <4>1. CASE pc \notin Serving
        <5>1. Todo = in /\ Append(in, c) \in Seq(Commands)
          BY <2>0, <3>1, <4>1, TodoFacts
        <5>2. Todo' = <<>> \o in'
          BY <3>1, <4>1 DEF Todo, InHand
        <5> QED
          BY <3>1, <5>1, <5>2, ConcatEmptySeq
      <4>2. CASE pc \in Serving
        <5>1. Todo = <<cmd>> \o in /\ cmd \in Commands
          BY <3>1, <4>2, TodoFacts
        <5>2. Todo' = <<cmd>> \o Append(in, c)
          BY <3>1, <4>2 DEF Todo, InHand
        <5>3. <<cmd>> \o Append(in, c) = Append(<<cmd>> \o in, c)
          BY <2>0, <5>1, ConsAppend
        <5> QED
          BY <5>1, <5>2, <5>3
      <4> QED
        BY <4>1, <4>2
    <3> QED
      BY <3>1, <3>2 DEF Service!Give, Service!Next, Todo
  <2>6. ASSUME NEW e \in Eps, NEW b \in BOOLEAN, NEW p \in PacketCounts \cup {0},
               CSubmit(e, b, p)
        PROVE  Service!Next
    BY <2>0, <2>5, <2>6, Built DEF CSubmit
  <2>7. ASSUME NEW t \in Seqnums, CUnlink(t) PROVE Service!Next
    BY <2>0, <2>5, <2>7, Built DEF CUnlink
  <2>8. CASE CReceive
    <3>1. ~lost /\ out # <<>> /\ out' = Tail(out) /\ UNCHANGED <<pc, cmd, in, lost>>
      BY <2>8 DEF CReceive, pumpVars
    <3>2. Todo' = Todo
      BY <3>1 DEF Todo, InHand
    <3> QED
      BY <3>1, <3>2 DEF Service!Take, Service!Next, Todo
  <2>9. CASE CGone
    BY <2>9 DEF CGone, Service!Lose, Service!Next
  <2>10. CASE PStop \/ DeviceHangs \/ UNCHANGED vars
    <3>1. UNCHANGED <<pc, cmd, in, out, lost>>
      BY <2>10 DEF PStop, DeviceHangs, vars, pumpVars
    <3> QED
      BY <3>1 DEF Todo, InHand
  <2> QED
    BY <2>1, <2>2, <2>3, <2>4, <2>6, <2>7, <2>8, <2>9, <2>10 DEF Next, Pump, Client
<1>3. FInv /\ [Next]_vars =>
        [Service!Next]_<<IF lost THEN <<>> ELSE InHand \o in, out, lost>>
  BY <1>2 DEF Todo
<1> QED
  BY <1>1, <1>3, Invariance, PTL DEF Spec, ServesInOrder, Service!Spec
=============================================================================
