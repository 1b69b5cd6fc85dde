-------------------------- MODULE HidSessionProofs --------------------------
(***************************************************************************)
(* Proofs about HidSession for every set of devices, every sequence-number *)
(* modulus and every amount of TCP buffering.                              *)
(***************************************************************************)
EXTENDS HidSession, SequenceTheorems, TLAPS

(* Program points: the sender past HidEndpoint.open, the sender past the    *)
(* binding, the receiver past the session.                                  *)
Holding == {"ack", "stream", "read", "send", "unbind", "release"}
SGone   == {"closing", "done"}
RGone   == {"drop", "close", "done"}

(* Which program points of the two sides go together, and what has been     *)
(* agreed by then.                                                          *)
PhaseInv ==
    /\ sPc = "hello"  => rPc \in {"start", "hello_ack"} \cup RGone
    /\ sPc = "list"   => rPc \in {"hello_ack", "device_list"} \cup RGone
    /\ sPc = "attach" => rPc \in {"device_list", "attach_ok"} \cup RGone
    /\ sPc = "bind"   => rPc \in {"attach_ok", "loop", "recv"} \cup RGone
    /\ sPc \in Holding => rPc \in {"loop", "recv"} \cup RGone
    /\ sPc \in {"hello", "list", "attach", "bind", "ack"} => device = None /\ last_seq = 0
    /\ sPc \in Holding \cup {"bind"} => target \in Devices
    /\ rOpen <=> rPc # "done"
    /\ sPc = "done" => ~sOpen

AgreeInv ==
    /\ claimed = IF sPc \in Holding THEN target ELSE None
    /\ sPc \in Holding => target \in HidDevices
    /\ target # None => target = chosen
    /\ chosen # None => wanted \in {None, chosen}
    /\ chosen = None => rPc \notin {"attach_ok", "loop", "recv"}
    /\ rPc \in {"start", "hello_ack", "device_list"} => chosen = None
    /\ device # None => device = target /\ device \in HidDevices
    /\ rPc \in {"close", "done"} => device = None

(* The handshake is in step: a request under way is alone, it is the one    *)
(* the sender waits for, and no reply is under way with it.                 *)
RequestOK(i) ==
    /\ toS[i].op = "FIN" => ~rOpen
    /\ toS[i].op # "FIN" => i = 1 /\ \A j \in 1 .. Len(toR) : toR[j].op = "FIN"
    /\ toS[i].op = "HELLO" =>
         sPc \in {"hello"} \cup SGone /\ rPc \in {"hello_ack"} \cup RGone
    /\ toS[i].op = "LIST_DEVICES" =>
         sPc \in {"list"} \cup SGone /\ rPc \in {"device_list"} \cup RGone
    /\ toS[i].op = "ATTACH" =>
         /\ sPc \in {"attach"} \cup SGone /\ rPc \in {"attach_ok"} \cup RGone
         /\ toS[i].busid = chosen /\ toS[i].busid \in listed
    /\ toS[i].op = "BIND" =>
         sPc \in {"bind"} \cup SGone /\ rPc \in {"loop", "recv"} \cup RGone

RequestsInv == \A i \in 1 .. Len(toS) : RequestOK(i)

(* The same for replies. *)
ReplyOK(i) ==
    /\ toR[i].op = "FIN" => ~sOpen
    /\ toR[i].op \notin {"FIN", "REPORT_IN", "UNBIND"} => i = 1
    /\ toR[i].op = "HELLO_ACK" =>
         sPc \in {"list"} \cup SGone /\ rPc \in {"hello_ack"} \cup RGone
    /\ toR[i].op = "DEVICE_LIST" =>
         /\ sPc \in {"attach"} \cup SGone /\ rPc \in {"device_list"} \cup RGone
         /\ toR[i].devices = listed
    /\ toR[i].op = "ATTACH_OK" =>
         /\ sPc \in {"bind"} \cup SGone /\ rPc \in {"attach_ok"} \cup RGone
         /\ target = chosen
    /\ toR[i].op # "ATTACH_DENIED"
    /\ toR[i].op = "BIND_ACK" =>
         /\ sPc \in (Holding \ {"ack"}) \cup SGone /\ rPc \in {"loop", "recv"} \cup RGone
         /\ toR[i].busid = target /\ target \in HidDevices
         /\ device = None /\ last_seq = 0

RepliesInv == \A i \in 1 .. Len(toR) : ReplyOK(i)

(* The report stream: each report carries the number after the one in front *)
(* of it, the first one the number after last_seq, and an UNBIND follows    *)
(* the last report taken from the device.                                   *)
After(i, n) ==
    IF i = 1
    THEN n = last_seq /\ (device # None \/ rPc \in RGone)
    ELSE \/ toR[i - 1].op = "REPORT_IN" /\ n = toR[i - 1].seq
         \/ toR[i - 1].op = "BIND_ACK" /\ n = 0

StreamOK(i) ==
    /\ toR[i].op \in {"REPORT_IN", "UNBIND"} => rPc \in {"loop", "recv"} \cup RGone
    /\ toR[i].op = "REPORT_IN" =>
         /\ sPc \in (Holding \ {"ack"}) \cup SGone
         /\ \E n \in Seqs : After(i, n) /\ toR[i].seq = Succ(n)
    /\ toR[i].op = "UNBIND" =>
         sPc \in {"release"} \cup SGone /\ After(i, seq)

StreamInv == \A i \in 1 .. Len(toR) : StreamOK(i)

(* What the sender is about to append fits the end of the queue. *)
TailInv ==
    (link = "up" /\ sOpen /\ rOpen /\ sPc \in {"stream", "read", "send", "unbind"}) =>
        \E n \in Seqs :
            /\ After(Len(toR) + 1, n)
            /\ seq = IF sPc = "send" THEN Succ(n) ELSE n

Quiet == NoFault /\ NoComplaint

IInv == TypeOK /\ PhaseInv /\ AgreeInv /\ RequestsInv /\ RepliesInv
        /\ StreamInv /\ TailInv /\ Quiet

-----------------------------------------------------------------------------

LEMMA SuccType == \A n \in Seqs : Succ(n) \in Seqs
BY SessionAssumption DEF Seqs, Succ

(* What the program writes is a message of the queue it goes to, and the    *)
(* fields of a message have their types.                                    *)
LEMMA SentTypes ==
    /\ \A o \in {"HELLO_ACK", "ATTACH_OK", "ATTACH_DENIED", "UNBIND"} : Msg(o) \in ToReceiverMsg
    /\ \A ds \in SUBSET Devices : DeviceList(ds) \in ToReceiverMsg
    /\ \A b \in Devices, k \in Kinds : BindAck(b, k) \in ToReceiverMsg
    /\ \A n \in Seqs : ReportIn(n) \in ToReceiverMsg
    /\ \A o \in {"HELLO", "LIST_DEVICES", "BIND"} : Msg(o) \in ToSenderMsg
    /\ \A b \in Devices : Attach(b) \in ToSenderMsg
    /\ Fin \in ToReceiverMsg /\ Fin \in ToSenderMsg
BY DEF Msg, DeviceList, BindAck, ReportIn, Attach, Fin, ToReceiverMsg, ToSenderMsg

LEMMA FieldTypes ==
    /\ \A m \in ToSenderMsg : m.op = "ATTACH" => m.busid \in Devices
    /\ \A m \in ToReceiverMsg :
          /\ m.op = "DEVICE_LIST" => m.devices \subseteq Devices
          /\ m.op = "BIND_ACK" => m.busid \in Devices /\ m.kind \in Kinds
          /\ m.op = "REPORT_IN" => m.seq \in Seqs
BY DEF ToReceiverMsg, ToSenderMsg

LEMMA OpTypes ==
    /\ \A m \in ToSenderMsg : m.op \in {"HELLO", "LIST_DEVICES", "ATTACH", "BIND", "FIN"}
    /\ \A m \in ToReceiverMsg : m.op \in {"HELLO_ACK", "DEVICE_LIST", "ATTACH_OK",
          "ATTACH_DENIED", "BIND_ACK", "REPORT_IN", "UNBIND", "FIN"}
BY DEF ToReceiverMsg, ToSenderMsg

LEMMA QueueTypes ==
    ASSUME NEW S, NEW q \in Seq(S)
    PROVE  /\ q # <<>> => Head(q) \in S /\ Tail(q) \in Seq(S)
           /\ \A m \in S, open \in BOOLEAN : Carried(q, open, m) \in Seq(S)
BY DEF Carried

LEMMA SenderType == TypeOK /\ PhaseInv /\ SenderThread => TypeOK'
<1> SUFFICES ASSUME TypeOK, PhaseInv, SenderThread PROVE TypeOK'
  OBVIOUS
<1> DEFINE QueuesOK == toS' \in Seq(ToSenderMsg) /\ toR' \in Seq(ToReceiverMsg)
<1>q. /\ toS \in Seq(ToSenderMsg) /\ toR \in Seq(ToReceiverMsg)
      /\ toS # <<>> => Head(toS) \in ToSenderMsg /\ Tail(toS) \in Seq(ToSenderMsg)
      /\ \A m \in ToReceiverMsg : Carried(toR, rOpen, m) \in Seq(ToReceiverMsg)
  BY QueueTypes DEF TypeOK
<1>1. CASE SHello
  <2>1. QueuesOK
    BY <1>1, <1>q, SentTypes DEF SHello, SReads, SReply, SUnexpected
  <2> QED BY <1>1, <2>1 DEF TypeOK, SHello, SReply, SUnexpected, SGoto, rVars
<1>2. CASE SList
  <2>1. Present \subseteq Devices
    BY DEF Present
  <2>2. QueuesOK
    BY <1>2, <1>q, <2>1, SentTypes DEF SList, SReads, SReply, SUnexpected
  <2> QED BY <1>2, <2>1, <2>2 DEF TypeOK, SList, SReply, SUnexpected, SGoto, rVars
<1>3. CASE SAttach
  <2>1. QueuesOK
    BY <1>3, <1>q, SentTypes DEF SAttach, SReads, SReply, SUnexpected, InList
  <2> QED
    BY <1>3, <1>q, <2>1, FieldTypes
    DEF TypeOK, SAttach, SReads, SReply, SUnexpected, SGoto, InList, rVars
<1>4. CASE SBind
  <2>1. QueuesOK
    BY <1>4, <1>q DEF SBind, SReads, SUnexpected
  <2> QED BY <1>4, <2>1 DEF TypeOK, SBind, SUnexpected, SGoto, rVars
<1>5. CASE SReadFails
  BY <1>5 DEF TypeOK, SReadFails, SGoto, netVars, rVars
<1>6. CASE SBindAck
  <2>1. target \in Devices
    BY <1>6 DEF SBindAck, PhaseInv, Holding
  <2>2. PICK k \in Kinds : SWrites(BindAck(target, k))
    BY <1>6, <2>1, SessionAssumption DEF SBindAck, Kinds
  <2>3. BindAck(target, k) \in ToReceiverMsg
    BY <2>1, SentTypes
  <2>4. QueuesOK
    BY <1>6, <1>q, <2>2, <2>3 DEF SBindAck, SWrites
  <2>5. 0 \in Seqs
    BY SessionAssumption DEF Seqs
  <2> QED BY <1>6, <2>4, <2>5 DEF TypeOK, SBindAck, SGoto, rVars
<1>7. CASE SBindAckFails
  BY <1>7 DEF TypeOK, SBindAckFails, SGoto, netVars, rVars
<1>8. CASE SLoop
  BY <1>8 DEF TypeOK, SLoop, SGoto, netVars, rVars
<1>9. CASE SReadReport
  BY <1>9, SuccType DEF TypeOK, SReadReport, SGoto, netVars, rVars
<1>10. CASE SReadNull
  BY <1>10 DEF TypeOK, SReadNull, SGoto, netVars, rVars
<1>11. CASE SSend
  <2>1. QueuesOK
    BY <1>11, <1>q, SentTypes DEF TypeOK, SSend, SWrites
  <2> QED BY <1>11, <2>1 DEF TypeOK, SSend, SGoto, rVars
<1>12. CASE SSendFails
  BY <1>12 DEF TypeOK, SSendFails, SGoto, netVars, rVars
<1>13. CASE SUnbind
  <2>1. QueuesOK
    BY <1>13, <1>q, SentTypes DEF SUnbind, SWrites
  <2> QED BY <1>13, <2>1 DEF TypeOK, SUnbind, SGoto, rVars
<1>14. CASE SRelease
  BY <1>14 DEF TypeOK, SRelease, SGoto, netVars, rVars
<1>15. CASE SClose
  <2>1. QueuesOK
    BY <1>15, <1>q, SentTypes DEF SClose, SSocketClose
  <2>2. sOpen' \in BOOLEAN
    BY <1>15 DEF SClose, SSocketClose
  <2> QED BY <1>15, <2>1, <2>2 DEF TypeOK, SClose, SGoto, rVars
<1> QED
  BY <1>1, <1>2, <1>3, <1>4, <1>5, <1>6, <1>7, <1>8, <1>9, <1>10, <1>11, <1>12,
     <1>13, <1>14, <1>15 DEF SenderThread

LEMMA ReceiverType == TypeOK /\ Receiver => TypeOK'
<1> SUFFICES ASSUME TypeOK, Receiver PROVE TypeOK'
  OBVIOUS
<1> DEFINE QueuesOK == toS' \in Seq(ToSenderMsg) /\ toR' \in Seq(ToReceiverMsg)
<1>q. /\ toS \in Seq(ToSenderMsg) /\ toR \in Seq(ToReceiverMsg)
      /\ toR # <<>> => Head(toR) \in ToReceiverMsg /\ Tail(toR) \in Seq(ToReceiverMsg)
      /\ \A m \in ToSenderMsg : Carried(toS, sOpen, m) \in Seq(ToSenderMsg)
  BY QueueTypes DEF TypeOK
<1>1. CASE RHello
  <2>1. QueuesOK
    BY <1>1, <1>q, SentTypes DEF RHello, RRequest
  <2> QED BY <1>1, <2>1 DEF TypeOK, RHello, RGoto, sVars
<1>2. CASE RHelloAck
  <2>1. QueuesOK
    BY <1>2, <1>q, SentTypes DEF RHelloAck, RReads, RRequest, RUnexpected
  <2> QED BY <1>2, <2>1 DEF TypeOK, RHelloAck, RUnexpected, RGoto, sVars
<1>3. CASE RDeviceList
  <2>1. Head(toR).op = "DEVICE_LIST" => Pickable(Head(toR).devices) \subseteq Devices
    BY <1>3, <1>q, FieldTypes DEF RDeviceList, RReads, Pickable
  <2>2. QueuesOK
    BY <1>3, <1>q, <2>1, SentTypes DEF RDeviceList, RReads, RRequest, RUnexpected
  <2> QED BY <1>3, <2>1, <2>2 DEF TypeOK, RDeviceList, RUnexpected, RGoto, sVars
<1>4. CASE RAttachOk
  <2>1. QueuesOK
    BY <1>4, <1>q, SentTypes DEF RAttachOk, RReads, RRequest, RUnexpected
  <2> QED BY <1>4, <2>1 DEF TypeOK, RAttachOk, RUnexpected, RGoto, sVars
<1>5. CASE RLoop
  BY <1>5 DEF TypeOK, RLoop, RGoto, netVars, sVars
<1>6. CASE RBindAck
  <2>1. QueuesOK
    BY <1>6, <1>q DEF RBindAck, RReads
  <2>2. Head(toR).busid \in Devices
    BY <1>6, <1>q, FieldTypes DEF RBindAck, RReads
  <2> QED BY <1>6, <2>1, <2>2 DEF TypeOK, RBindAck, RGoto, sVars
<1>7. CASE RReport
  <2>1. QueuesOK
    BY <1>7, <1>q DEF RReport, RReads
  <2>2. last_seq' \in Seqs
    BY <1>7, <1>q, FieldTypes DEF RReport, RReads
  <2>3. jumped' \in BOOLEAN /\ early' \in BOOLEAN
    BY <1>7 DEF RReport
  <2> QED BY <1>7, <2>1, <2>2, <2>3 DEF TypeOK, RReport, RGoto, sVars
<1>8. CASE RUnbind
  <2>1. QueuesOK
    BY <1>8, <1>q DEF RUnbind, RReads
  <2> QED BY <1>8, <2>1 DEF TypeOK, RUnbind, RGoto, sVars
<1>9. CASE RReadFails
  BY <1>9 DEF TypeOK, RReadFails, RGoto, netVars, sVars
<1>10. CASE RDrop
  BY <1>10 DEF TypeOK, RDrop, RGoto, netVars, sVars
<1>11. CASE RClose
  <2>1. QueuesOK
    BY <1>11, <1>q, SentTypes DEF RClose
  <2>2. rOpen' \in BOOLEAN
    BY <1>11 DEF RClose
  <2>3. rPc' = "done" /\ UNCHANGED <<usb, link, fault, sVars, stop, wanted, chosen, device,
                                     last_seq, jumped, early>>
    BY <1>11 DEF RClose, RGoto
  <2> QED BY <2>1, <2>2, <2>3 DEF TypeOK, sVars
<1> QED
  BY <1>1, <1>2, <1>3, <1>4, <1>5, <1>6, <1>7, <1>8, <1>9, <1>10, <1>11 DEF Receiver

LEMMA OthersType == TypeOK /\ (Stopper \/ Environment) => TypeOK'
<1> SUFFICES ASSUME TypeOK, Stopper \/ Environment PROVE TypeOK'
  OBVIOUS
<1> DEFINE QueuesOK == toS' \in Seq(ToSenderMsg) /\ toR' \in Seq(ToReceiverMsg)
<1>q. /\ toS \in Seq(ToSenderMsg) /\ toR \in Seq(ToReceiverMsg)
      /\ \A m \in ToSenderMsg : Carried(toS, sOpen, m) \in Seq(ToSenderMsg)
      /\ \A m \in ToReceiverMsg : Carried(toR, rOpen, m) \in Seq(ToReceiverMsg)
  BY QueueTypes DEF TypeOK
<1>1. CASE SStopFlag
  <2>1. running' \in BOOLEAN
    BY <1>1 DEF SStopFlag
  <2>2. stopPc' = "flagged" /\ UNCHANGED <<netVars, sPc, sOpen, listed, target, claimed,
                                           seq, rVars>>
    BY <1>1 DEF SStopFlag
  <2> QED BY <2>1, <2>2 DEF TypeOK, netVars, rVars
<1>2. CASE SStopClose
  <2>1. QueuesOK
    BY <1>2, <1>q, SentTypes DEF SStopClose, SSocketClose
  <2>2. sOpen' \in BOOLEAN
    BY <1>2 DEF SStopClose, SSocketClose
  <2> QED BY <1>2, <2>1, <2>2 DEF TypeOK, SStopClose, rVars
<1>3. CASE SKilled
  <2>1. QueuesOK
    BY <1>3, <1>q, SentTypes DEF SKilled, SSocketClose
  <2>2. sOpen' \in BOOLEAN
    BY <1>3 DEF SKilled, SSocketClose
  <2> QED BY <1>3, <2>1, <2>2 DEF TypeOK, SKilled, SGoto, rVars
<1>4. CASE RKilled
  <2>1. QueuesOK
    BY <1>4, <1>q, SentTypes DEF RKilled
  <2>2. rOpen' \in BOOLEAN
    BY <1>4 DEF RKilled
  <2>3. rPc' = "done" /\ device' = None
        /\ UNCHANGED <<usb, link, fault, sVars, stop, wanted, chosen, last_seq, jumped, early>>
    BY <1>4 DEF RKilled, RGoto
  <2> QED BY <2>1, <2>2, <2>3 DEF TypeOK, sVars
<1>5. CASE RStop
  BY <1>5 DEF TypeOK, RStop, netVars, sVars
<1>6. CASE LinkDown
  <2>1. QueuesOK
    BY <1>6, <1>q DEF LinkDown
  <2> QED BY <1>6, <2>1 DEF TypeOK, LinkDown, rVars, sVars
<1>7. ASSUME NEW d \in Devices, Plug(d) \/ Unplug(d) PROVE TypeOK'
  BY <1>7 DEF TypeOK, Plug, Unplug, rVars, sVars
<1>8. CASE RTimesOut
  BY <1>8 DEF TypeOK, RTimesOut, RGoto, netVars, sVars
<1> QED
  BY <1>1, <1>2, <1>3, <1>4, <1>5, <1>6, <1>7, <1>8 DEF Stopper, Environment

-----------------------------------------------------------------------------
(* Steps that leave the queues alone. *)

(* The moves of the receiver that no message under way can tell apart. *)
RMoves == \/ rPc' = rPc
          \/ rPc' \in RGone
          \/ rPc \in {"loop", "recv"} /\ rPc' \in {"loop", "recv"}

LEMMA RequestsKept ==
    ASSUME TypeOK, RequestsInv, UNCHANGED <<toS, toR, listed, chosen, rOpen>>, RMoves,
           sPc' = sPc \/ sPc' \in SGone \/ sPc \in Holding
    PROVE  RequestsInv'
<1> SUFFICES ASSUME NEW i \in 1 .. Len(toS) PROVE RequestOK(i)'
  BY DEF RequestsInv
<1>1. RequestOK(i)
  BY DEF RequestsInv
<1>2. toS[i].op \in {"HELLO", "LIST_DEVICES", "ATTACH", "BIND", "FIN"}
  BY OpTypes DEF TypeOK
<1>3. sPc \in Holding => toS[i].op = "FIN"
  BY <1>1, <1>2 DEF RequestOK, Holding, SGone
<1> QED
  BY <1>1, <1>2, <1>3 DEF RequestOK, RMoves, SGone, RGone

LEMMA RepliesKept ==
    ASSUME TypeOK, RepliesInv, UNCHANGED <<toR, listed, target, chosen, sOpen, last_seq>>, RMoves,
           device' \in {device, None},
           \/ sPc' = sPc
           \/ sPc' \in SGone
           \/ sPc \in Holding /\ sPc' \in Holding \ {"ack"}
    PROVE  RepliesInv'
<1> SUFFICES ASSUME NEW i \in 1 .. Len(toR) PROVE ReplyOK(i)'
  BY DEF RepliesInv
<1>1. ReplyOK(i)
  BY DEF RepliesInv
<1> QED
  BY <1>1 DEF ReplyOK, RMoves, SGone, RGone, Holding

LEMMA AfterKept ==
    ASSUME UNCHANGED <<toR, last_seq>>, RMoves, device' = device \/ rPc' \in RGone,
           NEW i \in Nat, NEW n, After(i, n)
    PROVE  After(i, n)'
BY DEF After, RMoves, RGone

LEMMA StreamKept ==
    ASSUME TypeOK, StreamInv, UNCHANGED <<toR, last_seq>>, RMoves,
           device' = device \/ rPc' \in RGone,
           \/ sPc' = sPc
           \/ sPc' \in SGone
           \/ sPc \in Holding \ {"release"} /\ sPc' \in Holding \ {"ack"},
           seq' = seq \/ sPc \notin {"release"} \cup SGone
    PROVE  StreamInv'
<1> SUFFICES ASSUME NEW i \in 1 .. Len(toR) PROVE StreamOK(i)'
  BY DEF StreamInv
<1>1. StreamOK(i)
  BY DEF StreamInv
<1>2. \A n : After(i, n) => After(i, n)'
  BY AfterKept
<1>3. toR[i].op = "REPORT_IN" => (\E n \in Seqs : After(i, n)' /\ toR[i].seq = Succ(n))
  BY <1>1, <1>2 DEF StreamOK
<1>4. toR[i].op = "UNBIND" => After(i, seq)'
  BY <1>1 DEF StreamOK, After, RMoves, RGone
<1> QED
  BY <1>1, <1>3, <1>4 DEF StreamOK, RMoves, SGone, RGone, Holding

LEMMA TailKept ==
    ASSUME TypeOK, TailInv, UNCHANGED <<toR, link, sOpen, rOpen, last_seq>>, RMoves,
           device' = device \/ rPc' \in RGone,
           \/ sPc' = sPc /\ seq' = seq
           \/ sPc' \notin {"stream", "read", "send", "unbind"}
           \/ sPc \in {"stream", "read"} /\ sPc' \in {"stream", "read", "unbind"} /\ seq' = seq
           \/ sPc = "read" /\ sPc' = "send" /\ seq' = Succ(seq)
    PROVE  TailInv'
<1> SUFFICES ASSUME link = "up", sOpen, rOpen, sPc' \in {"stream", "read", "send", "unbind"}
             PROVE  \E n \in Seqs : /\ After(Len(toR) + 1, n)'
                                    /\ seq' = IF sPc' = "send" THEN Succ(n) ELSE n
  BY DEF TailInv
<1>1. PICK n \in Seqs : After(Len(toR) + 1, n) /\ seq = IF sPc = "send" THEN Succ(n) ELSE n
  BY DEF TailInv
<1>2. After(Len(toR) + 1, n)'
  BY <1>1, AfterKept DEF TypeOK
<1> QED
  BY <1>1, <1>2

-----------------------------------------------------------------------------
(* Steps that read a queue. *)

(* When the sender has a message to read it is the only request under way,  *)
(* and no reply is.                                                         *)
LEMMA SReadFacts ==
    ASSUME TypeOK, RequestsInv, RepliesInv, SReads
    PROVE  /\ Head(toS) = toS[1] /\ toS[1] \in ToSenderMsg /\ toS[1].op # "FIN"
           /\ 1 \in 1 .. Len(toS) /\ RequestOK(1)
           /\ toR = <<>>
           /\ \A i \in 1 .. Len(Tail(toS)) : Tail(toS)[i].op = "FIN" /\ ~rOpen
<1>1. /\ Head(toS) = toS[1] /\ toS[1] \in ToSenderMsg /\ toS[1].op # "FIN"
      /\ 1 \in 1 .. Len(toS)
  BY DEF TypeOK, SReads
<1>2. \A i \in 1 .. Len(toS) : RequestOK(i)
  BY DEF RequestsInv
<1>3. toR = <<>>
  <2>1. \A j \in 1 .. Len(toR) : toR[j].op = "FIN" /\ (toR[j].op = "FIN" => ~sOpen)
    BY <1>1, <1>2 DEF RequestOK, RepliesInv, ReplyOK
  <2>2. sOpen
    BY DEF SReads
  <2> QED BY <2>1, <2>2 DEF TypeOK
<1>4. ASSUME NEW i \in 1 .. Len(Tail(toS)) PROVE Tail(toS)[i].op = "FIN" /\ ~rOpen
  <2>1. i + 1 \in 1 .. Len(toS) /\ Tail(toS)[i] = toS[i + 1] /\ i + 1 # 1
    BY <1>1 DEF TypeOK
  <2> QED BY <1>2, <2>1 DEF RequestOK
<1> QED BY <1>1, <1>2, <1>3, <1>4

(* When the receiver has a message to read no request is under way. *)
LEMMA RReadFacts ==
    ASSUME TypeOK, PhaseInv, RequestsInv, RepliesInv, StreamInv, RReads, rPc # "done"
    PROVE  /\ Head(toR) = toR[1] /\ toR[1] \in ToReceiverMsg /\ toR[1].op # "FIN"
           /\ 1 \in 1 .. Len(toR) /\ ReplyOK(1) /\ StreamOK(1)
           /\ toS = <<>>
           /\ Len(Tail(toR)) = Len(toR) - 1
           /\ \A i \in 1 .. Len(Tail(toR)) : i + 1 \in 2 .. Len(toR) /\ Tail(toR)[i] = toR[i + 1]
<1>1. /\ Head(toR) = toR[1] /\ toR[1] \in ToReceiverMsg /\ toR[1].op # "FIN"
      /\ 1 \in 1 .. Len(toR)
      /\ Len(Tail(toR)) = Len(toR) - 1
      /\ \A i \in 1 .. Len(Tail(toR)) : i + 1 \in 2 .. Len(toR) /\ Tail(toR)[i] = toR[i + 1]
  BY DEF TypeOK, RReads
<1>2. ReplyOK(1) /\ StreamOK(1)
  BY <1>1 DEF RepliesInv, StreamInv
<1>3. ASSUME toS # <<>> PROVE FALSE
  <2>1. 1 \in 1 .. Len(toS)
    BY <1>3 DEF TypeOK
  <2>2. toS[1].op = "FIN" /\ (toS[1].op = "FIN" => ~rOpen)
    BY <1>1, <2>1 DEF RequestsInv, RequestOK
  <2> QED BY <2>2 DEF PhaseInv
<1> QED BY <1>1, <1>2, <1>3

(* Only the end of the stream is under way to the sender. *)
LEMMA NoRequests ==
    ASSUME \A i \in 1 .. Len(toS') : toS'[i].op = "FIN" /\ ~rOpen'
    PROVE  RequestsInv'
BY DEF RequestsInv, RequestOK

LEMMA NoReplies ==
    ASSUME toR' = <<>>
    PROVE  RepliesInv' /\ StreamInv'
BY DEF RepliesInv, StreamInv

(* SHello, SList and SAttach are given the message they expect. *)
LEMMA HandshakeS ==
    ASSUME IInv, SHello \/ SList \/ SAttach
    PROVE  /\ SHello => sPc' = "list" /\ SReply(Msg("HELLO_ACK")) /\ UNCHANGED <<listed, target>>
           /\ SList => /\ sPc' = "attach" /\ SReply(DeviceList(listed')) /\ UNCHANGED target
           /\ SAttach => /\ sPc' = "bind" /\ SReply(Msg("ATTACH_OK")) /\ UNCHANGED listed
                         /\ target' = chosen /\ chosen \in Devices
           /\ UNCHANGED fault
           /\ rPc # "start"
           /\ SHello => rPc \in {"hello_ack"} \cup RGone
           /\ SList => rPc \in {"device_list"} \cup RGone
           /\ SAttach => rPc \in {"attach_ok"} \cup RGone
<1>1. SReads
  BY DEF SHello, SList, SAttach
<1>2. /\ Head(toS) = toS[1] /\ toS[1] \in ToSenderMsg /\ toS[1].op # "FIN"
      /\ RequestOK(1)
  BY <1>1, SReadFacts DEF IInv
<1>3. toS[1].op \in {"HELLO", "LIST_DEVICES", "ATTACH", "BIND"}
  BY <1>2, OpTypes
<1>4. CASE SHello
  <2>1. sPc = "hello" BY <1>4 DEF SHello
  <2>2. toS[1].op = "HELLO" /\ rPc \in {"hello_ack"} \cup RGone
    BY <2>1, <1>2, <1>3 DEF RequestOK, SGone
  <2> QED BY <1>2, <1>4, <2>1, <2>2 DEF SHello, SList, SAttach, SGoto, InList, RGone
<1>5. CASE SList
  <2>1. sPc = "list" BY <1>5 DEF SList
  <2>2. toS[1].op = "LIST_DEVICES" /\ rPc \in {"device_list"} \cup RGone
    BY <2>1, <1>2, <1>3 DEF RequestOK, SGone
  <2> QED BY <1>2, <1>5, <2>1, <2>2 DEF SHello, SList, SAttach, SGoto, InList, RGone
<1>6. CASE SAttach
  <2>1. sPc = "attach" BY <1>6 DEF SAttach
  <2>2. toS[1].op = "ATTACH" /\ rPc \in {"attach_ok"} \cup RGone
    BY <2>1, <1>2, <1>3 DEF RequestOK, SGone
  <2>3. toS[1].busid = chosen /\ toS[1].busid \in listed
    BY <1>2, <2>2 DEF RequestOK
  <2>4. chosen \in Devices
    BY <1>2, <2>2, <2>3, FieldTypes
  <2> QED BY <1>2, <1>6, <2>1, <2>2, <2>3, <2>4 DEF SHello, SList, SAttach, SGoto, InList, RGone
<1> QED BY <1>4, <1>5, <1>6

(* So is SBind. *)
LEMMA BindS ==
    ASSUME IInv, SBind
    PROVE  /\ toS' = Tail(toS)
           /\ UNCHANGED <<toR, listed, target, fault>>
           /\ \/ sPc' = "ack" /\ claimed' = target /\ target \in HidDevices
              \/ sPc' = "closing" /\ UNCHANGED claimed
           /\ rPc \in {"loop", "recv"} \cup RGone
<1>1. sPc = "bind" /\ SReads
  BY DEF SBind
<1>2. /\ Head(toS) = toS[1] /\ toS[1] \in ToSenderMsg /\ toS[1].op # "FIN"
      /\ RequestOK(1)
  BY <1>1, SReadFacts DEF IInv
<1>3. toS[1].op \in {"HELLO", "LIST_DEVICES", "ATTACH", "BIND"}
  BY <1>2, OpTypes
<1>4. toS[1].op = "BIND" /\ rPc \in {"loop", "recv"} \cup RGone
  BY <1>1, <1>2, <1>3 DEF RequestOK, SGone
<1> QED BY <1>1, <1>2, <1>4 DEF SBind, SGoto

(* The receiver is given the replies it expects. *)
LEMMA HandshakeR ==
    ASSUME IInv, RHelloAck \/ RDeviceList \/ RAttachOk
    PROVE  /\ UNCHANGED fault
           /\ toR' = Tail(toR) /\ toR[1].op # "FIN"
           /\ RHelloAck => /\ rPc' = "device_list" /\ RRequest(Msg("LIST_DEVICES"))
                           /\ UNCHANGED chosen /\ sPc \in {"list"} \cup SGone
           /\ RDeviceList => /\ sPc \in {"attach"} \cup SGone
                             /\ \/ /\ rPc' = "attach_ok" /\ RRequest(Attach(chosen'))
                                   /\ chosen' \in listed /\ wanted \in {None, chosen'}
                                \/ rPc' = "drop" /\ UNCHANGED <<toS, chosen>>
           /\ RAttachOk => /\ rPc' = "loop" /\ RRequest(Msg("BIND")) /\ UNCHANGED chosen
                           /\ sPc \in {"bind"} \cup SGone
<1>1. RReads /\ rPc \in {"hello_ack", "device_list", "attach_ok"}
  BY DEF RHelloAck, RDeviceList, RAttachOk
<1>2. /\ Head(toR) = toR[1] /\ toR[1] \in ToReceiverMsg /\ toR[1].op # "FIN"
      /\ ReplyOK(1) /\ StreamOK(1)
  BY <1>1, RReadFacts DEF IInv
<1>3. toR[1].op \in {"HELLO_ACK", "DEVICE_LIST", "ATTACH_OK",
          "ATTACH_DENIED", "BIND_ACK", "REPORT_IN", "UNBIND"}
  BY <1>2, OpTypes
<1>4. toR[1].op \in {"HELLO_ACK", "DEVICE_LIST", "ATTACH_OK"}
  BY <1>1, <1>2, <1>3 DEF ReplyOK, StreamOK, RGone
<1>5. CASE RHelloAck
  <2>1. rPc = "hello_ack" BY <1>5 DEF RHelloAck
  <2>2. toR[1].op = "HELLO_ACK" /\ sPc \in {"list"} \cup SGone
    BY <1>2, <1>4, <2>1 DEF ReplyOK, RGone
  <2> QED BY <1>2, <1>5, <2>1, <2>2 DEF RHelloAck, RDeviceList, RAttachOk, RGoto
<1>6. CASE RDeviceList
  <2>1. rPc = "device_list" BY <1>6 DEF RDeviceList
  <2>2. toR[1].op = "DEVICE_LIST" /\ sPc \in {"attach"} \cup SGone /\ toR[1].devices = listed
    BY <1>2, <1>4, <2>1 DEF ReplyOK, RGone
  <2> QED BY <1>2, <1>6, <2>1, <2>2 DEF RHelloAck, RDeviceList, RAttachOk, RGoto, Pickable
<1>7. CASE RAttachOk
  <2>1. rPc = "attach_ok" BY <1>7 DEF RAttachOk
  <2>2. toR[1].op = "ATTACH_OK" /\ sPc \in {"bind"} \cup SGone
    BY <1>2, <1>4, <2>1 DEF ReplyOK, RGone
  <2> QED BY <1>2, <1>7, <2>1, <2>2 DEF RHelloAck, RDeviceList, RAttachOk, RGoto
<1> QED BY <1>5, <1>6, <1>7

-----------------------------------------------------------------------------
(* The control part of the invariant, action by action. *)

Control == PhaseInv /\ AgreeInv /\ Quiet

LEMMA SenderControl == IInv /\ SenderThread => Control'
<1> SUFFICES ASSUME IInv, SenderThread PROVE Control'
  OBVIOUS
<1> USE DEF Control, PhaseInv, AgreeInv, Quiet, NoFault, NoComplaint,
            Holding, SGone, RGone, rVars
<1>t. /\ TypeOK /\ PhaseInv /\ AgreeInv /\ Quiet
      /\ target \in Devices \cup {None} /\ chosen \in Devices \cup {None}
      /\ device \in Devices \cup {None}
      /\ None \notin Devices
  BY SessionAssumption DEF IInv, TypeOK
<1>1. CASE SHello
  BY <1>1, <1>t, HandshakeS DEF SHello
<1>2. CASE SList
  BY <1>2, <1>t, HandshakeS DEF SList
<1>3. CASE SAttach
  BY <1>3, <1>t, HandshakeS DEF SAttach
<1>4. CASE SBind
  BY <1>4, <1>t, BindS DEF SBind, SGoto
<1>5. CASE SReadFails
  BY <1>5, <1>t DEF SReadFails, SGoto, netVars
<1>6. CASE SBindAck
  BY <1>6, <1>t DEF SBindAck, SGoto
<1>7. CASE SBindAckFails
  BY <1>7, <1>t DEF SBindAckFails, SGoto, netVars
<1>8. CASE SLoop
  BY <1>8, <1>t DEF SLoop, SGoto, netVars
<1>9. CASE SReadReport
  BY <1>9, <1>t DEF SReadReport, SGoto, netVars
<1>10. CASE SReadNull
  BY <1>10, <1>t DEF SReadNull, SGoto, netVars
<1>11. CASE SSend
  BY <1>11, <1>t DEF SSend, SGoto
<1>12. CASE SSendFails
  BY <1>12, <1>t DEF SSendFails, SGoto, netVars
<1>13. CASE SUnbind
  BY <1>13, <1>t DEF SUnbind, SGoto
<1>14. CASE SRelease
  BY <1>14, <1>t DEF SRelease, SGoto, netVars
<1>15. CASE SClose
  BY <1>15, <1>t DEF SClose, SSocketClose, SGoto
<1> QED
  BY <1>1, <1>2, <1>3, <1>4, <1>5, <1>6, <1>7, <1>8, <1>9, <1>10, <1>11, <1>12,
     <1>13, <1>14, <1>15 DEF SenderThread

LEMMA ReceiverControl == IInv /\ Receiver => Control'
<1> SUFFICES ASSUME IInv, Receiver PROVE Control'
  OBVIOUS
<1> USE DEF Control, PhaseInv, AgreeInv, Quiet, NoFault, NoComplaint,
            Holding, SGone, RGone, sVars
<1>t. /\ TypeOK /\ PhaseInv /\ AgreeInv /\ Quiet
      /\ target \in Devices \cup {None} /\ chosen \in Devices \cup {None}
      /\ device \in Devices \cup {None}
      /\ listed \subseteq Devices
      /\ None \notin Devices
  BY SessionAssumption DEF IInv, TypeOK
<1>1. CASE RHello
  BY <1>1, <1>t DEF RHello, RGoto
<1>2. CASE RHelloAck
  BY <1>2, <1>t, HandshakeR DEF RHelloAck
<1>3. CASE RDeviceList
  BY <1>3, <1>t, HandshakeR DEF RDeviceList
<1>4. CASE RAttachOk
  BY <1>4, <1>t, HandshakeR DEF RAttachOk
<1>5. CASE RLoop
  BY <1>5, <1>t DEF RLoop, RGoto, netVars
<1>6. CASE RBindAck
  <2>1. Head(toR) = toR[1] /\ ReplyOK(1)
    BY <1>6, RReadFacts DEF IInv, RBindAck
  <2>2. /\ sPc \in (Holding \ {"ack"}) \cup SGone
        /\ Head(toR).busid = target /\ target \in HidDevices
    BY <1>6, <2>1 DEF RBindAck, ReplyOK
  <2> QED BY <1>6, <1>t, <2>2 DEF RBindAck, RGoto
<1>7. CASE RReport
  <2>1. Head(toR) = toR[1] /\ StreamOK(1)
    BY <1>7, RReadFacts DEF IInv, RReport
  <2>2. PICK n \in Seqs : After(1, n) /\ toR[1].seq = Succ(n)
    BY <1>7, <2>1 DEF RReport, StreamOK
  <2>3. /\ toR[1].seq = Succ(last_seq) /\ device # None
        /\ sPc \in (Holding \ {"ack"}) \cup SGone
    BY <1>7, <2>1, <2>2 DEF RReport, StreamOK, After
  <2>4. ~IsJump(Head(toR).seq)
    BY <2>1, <2>3 DEF IsJump
  <2>5. ~jumped' /\ ~early'
    BY <1>7, <1>t, <2>3, <2>4 DEF RReport
  <2>6. rPc' \in {"loop", "drop"} /\ UNCHANGED <<fault, sVars, rOpen, wanted, chosen, device>>
    BY <1>7 DEF RReport, RGoto
  <2>7. rPc = "recv"
    BY <1>7 DEF RReport
  <2> QED BY <1>t, <2>3, <2>5, <2>6, <2>7
<1>8. CASE RUnbind
  BY <1>8, <1>t DEF RUnbind, RGoto
<1>9. CASE RReadFails
  BY <1>9, <1>t DEF RReadFails, RGoto, netVars
<1>10. CASE RDrop
  BY <1>10, <1>t DEF RDrop, RGoto, netVars
<1>11. CASE RClose
  BY <1>11, <1>t DEF RClose, RGoto
<1> QED
  BY <1>1, <1>2, <1>3, <1>4, <1>5, <1>6, <1>7, <1>8, <1>9, <1>10, <1>11 DEF Receiver

LEMMA OthersControl == IInv /\ (Stopper \/ Environment) => Control'
<1> SUFFICES ASSUME IInv, Stopper \/ Environment PROVE Control'
  OBVIOUS
<1> USE DEF Control, PhaseInv, AgreeInv, Quiet, NoFault, NoComplaint,
            Holding, SGone, RGone, sVars, rVars
<1>t. PhaseInv /\ AgreeInv /\ Quiet
  BY DEF IInv
<1>1. CASE SStopFlag
  BY <1>1, <1>t DEF SStopFlag, netVars
<1>2. CASE SStopClose
  BY <1>2, <1>t DEF SStopClose, SSocketClose
<1>3. CASE SKilled
  BY <1>3, <1>t DEF SKilled, SSocketClose, SGoto
<1>4. CASE RKilled
  BY <1>4, <1>t DEF RKilled, RGoto
<1>5. CASE RStop
  BY <1>5, <1>t DEF RStop, netVars
<1>6. CASE LinkDown
  BY <1>6, <1>t DEF LinkDown
<1>7. ASSUME NEW d \in Devices, Plug(d) \/ Unplug(d) PROVE Control'
  BY <1>7, <1>t DEF Plug, Unplug
<1>8. CASE RTimesOut
  BY <1>8, <1>t DEF RTimesOut, RGoto, netVars
<1> QED
  BY <1>1, <1>2, <1>3, <1>4, <1>5, <1>6, <1>7, <1>8 DEF Stopper, Environment

-----------------------------------------------------------------------------
(* The queue part of the invariant, action by action. *)

Queues == RequestsInv /\ RepliesInv /\ StreamInv /\ TailInv

(* A step that leaves the queues alone, by the four lemmas above. *)
LEMMA QueuesKept ==
    ASSUME IInv, UNCHANGED <<link, toS, toR, listed, target, chosen, sOpen, rOpen, last_seq>>,
           RMoves, device' = device \/ (device' = None /\ rPc' \in RGone),
           \/ sPc' = sPc /\ seq' = seq
           \/ sPc' \in SGone /\ seq' = seq
           \/ sPc = "ack" /\ sPc' = "release" /\ seq' = seq
           \/ sPc \in {"stream", "read"} /\ sPc' \in {"stream", "read", "unbind"} /\ seq' = seq
           \/ sPc = "read" /\ sPc' = "send" /\ seq' = Succ(seq)
    PROVE  Queues'
<1>1. TypeOK /\ RequestsInv /\ RepliesInv /\ StreamInv /\ TailInv
  BY DEF IInv
<1>2. RequestsInv'
  BY <1>1, RequestsKept DEF Holding
<1>3. RepliesInv'
  BY <1>1, RepliesKept DEF Holding
<1>4. StreamInv'
  BY <1>1, StreamKept DEF Holding, SGone
<1>5. TailInv'
  BY <1>1, TailKept DEF SGone
<1> QED BY <1>2, <1>3, <1>4, <1>5 DEF Queues

(* A message put into an empty queue is alone there. *)
LEMMA CarriedAlone ==
    ASSUME NEW m, NEW open, NEW q, q = <<>>
    PROVE  \A i \in 1 .. Len(Carried(q, open, m)) : i = 1 /\ Carried(q, open, m)[i] = m
<1>1. CASE link = "up" /\ open
  BY <1>1 DEF Carried
<1>2. CASE ~(link = "up" /\ open)
  BY <1>2 DEF Carried
<1> QED BY <1>1, <1>2

(* A reply of the handshake: it is then the only message under way. *)
LEMMA ReplyQueues == IInv /\ (SHello \/ SList \/ SAttach) => Queues'
<1> SUFFICES ASSUME IInv, SHello \/ SList \/ SAttach PROVE Queues'
  OBVIOUS
<1>1. SReads
  BY DEF SHello, SList, SAttach
<1>2. toR = <<>> /\ \A i \in 1 .. Len(Tail(toS)) : Tail(toS)[i].op = "FIN" /\ ~rOpen
  BY <1>1, SReadFacts DEF IInv
<1>3. toS' = Tail(toS) /\ UNCHANGED <<rOpen, rPc, sOpen, chosen>>
  BY HandshakeS DEF SHello, SList, SAttach, rVars, SReply
<1>4. RequestsInv'
  BY <1>2, <1>3, NoRequests
<1>5. TailInv'
  BY HandshakeS DEF TailInv
<1>6. CASE SHello
  <2>1. \A i \in 1 .. Len(toR') : i = 1 /\ toR'[i] = Msg("HELLO_ACK")
    BY <1>2, <1>6, HandshakeS, CarriedAlone DEF SReply
  <2>2. \A i \in 1 .. Len(toR') : i = 1 /\ toR'[i].op = "HELLO_ACK"
    BY <2>1 DEF Msg
  <2>3. RepliesInv'
    BY <1>3, <1>6, <2>2, HandshakeS DEF RepliesInv, ReplyOK
  <2>4. StreamInv'
    BY <2>2 DEF StreamInv, StreamOK
  <2> QED BY <1>4, <1>5, <2>3, <2>4 DEF Queues
<1>7. CASE SList
  <2>1. \A i \in 1 .. Len(toR') : i = 1 /\ toR'[i] = DeviceList(listed')
    BY <1>2, <1>7, HandshakeS, CarriedAlone DEF SReply
  <2>2. \A i \in 1 .. Len(toR') : i = 1 /\ toR'[i].op = "DEVICE_LIST" /\ toR'[i].devices = listed'
    BY <2>1 DEF DeviceList
  <2>3. RepliesInv'
    BY <1>3, <1>7, <2>2, HandshakeS DEF RepliesInv, ReplyOK
  <2>4. StreamInv'
    BY <2>2 DEF StreamInv, StreamOK
  <2> QED BY <1>4, <1>5, <2>3, <2>4 DEF Queues
<1>8. CASE SAttach
  <2>1. \A i \in 1 .. Len(toR') : i = 1 /\ toR'[i] = Msg("ATTACH_OK")
    BY <1>2, <1>8, HandshakeS, CarriedAlone DEF SReply
  <2>2. \A i \in 1 .. Len(toR') : i = 1 /\ toR'[i].op = "ATTACH_OK"
    BY <2>1 DEF Msg
  <2>3. RepliesInv'
    BY <1>3, <1>8, <2>2, HandshakeS DEF RepliesInv, ReplyOK
  <2>4. StreamInv'
    BY <2>2 DEF StreamInv, StreamOK
  <2> QED BY <1>4, <1>5, <2>3, <2>4 DEF Queues
<1> QED BY <1>6, <1>7, <1>8

LEMMA BindQueues == IInv /\ SBind => Queues'
<1> SUFFICES ASSUME IInv, SBind PROVE Queues'
  OBVIOUS
<1>1. toR = <<>> /\ \A i \in 1 .. Len(Tail(toS)) : Tail(toS)[i].op = "FIN" /\ ~rOpen
  BY SReadFacts DEF IInv, SBind
<1>2. toS' = Tail(toS) /\ UNCHANGED <<toR, rOpen>> /\ sPc' \in {"ack", "closing"}
  BY BindS DEF SBind, rVars
<1>3. RequestsInv'
  BY <1>1, <1>2, NoRequests
<1>4. RepliesInv' /\ StreamInv'
  BY <1>1, <1>2, NoReplies
<1>5. TailInv'
  BY <1>2 DEF TailInv
<1> QED BY <1>3, <1>4, <1>5 DEF Queues

(* What was under way to the receiver stays as it was when the sender       *)
(* appends a message.                                                       *)
LEMMA Appended ==
    ASSUME IInv, NEW m, toR' = Carried(toR, rOpen, m),
           UNCHANGED <<rPc, device, last_seq, listed, target, chosen, seq>>,
           sOpen' => sOpen,
           \/ sPc' = sPc
           \/ sPc' \in SGone
           \/ sPc \in {"send", "unbind"} /\ sPc' \in Holding \ {"ack"}
    PROVE  /\ \A i \in 1 .. Len(toR) : toR'[i] = toR[i] /\ ReplyOK(i)' /\ StreamOK(i)'
           /\ \A i \in 1 .. Len(toR') :
                 \/ i \in 1 .. Len(toR)
                 \/ i = Len(toR) + 1 /\ toR'[i] = m /\ link = "up" /\ rOpen
           /\ (link = "up" /\ rOpen) => Len(toR') = Len(toR) + 1
<1>q. toR \in Seq(ToReceiverMsg)
  BY DEF IInv, TypeOK
<1>1. /\ \A i \in 1 .. Len(toR) : toR'[i] = toR[i]
      /\ \A i \in 1 .. Len(toR') :
            \/ i \in 1 .. Len(toR)
            \/ i = Len(toR) + 1 /\ toR'[i] = m /\ link = "up" /\ rOpen
      /\ (link = "up" /\ rOpen) => Len(toR') = Len(toR) + 1
  <2>1. CASE link = "up" /\ rOpen
    BY <2>1, <1>q DEF Carried
  <2>2. CASE ~(link = "up" /\ rOpen)
    BY <2>2, <1>q DEF Carried
  <2> QED BY <2>1, <2>2
<1>2. ASSUME NEW i \in 1 .. Len(toR) PROVE ReplyOK(i)' /\ StreamOK(i)'
  <2>1. ReplyOK(i) /\ StreamOK(i)
    BY DEF IInv, RepliesInv, StreamInv
  <2>2. toR'[i] = toR[i]
    BY <1>1
  <2>3. i = 1 \/ (i - 1 \in 1 .. Len(toR) /\ toR'[i - 1] = toR[i - 1])
    BY <1>1, <1>q
  <2>4. \A n : After(i, n) => After(i, n)'
    BY <2>3 DEF After
  <2>5. toR[i].op = "REPORT_IN" => (\E n \in Seqs : After(i, n)' /\ toR[i].seq = Succ(n))
    BY <2>1, <2>4 DEF StreamOK
  <2>6. toR[i].op = "UNBIND" => After(i, seq)'
    BY <2>1, <2>3 DEF StreamOK, After
  <2>7. ReplyOK(i)'
    BY <2>1, <2>2 DEF ReplyOK, SGone, RGone, Holding
  <2>8. StreamOK(i)'
    BY <2>1, <2>2, <2>5, <2>6 DEF StreamOK, SGone, RGone, Holding
  <2> QED BY <2>7, <2>8
<1> QED BY <1>1, <1>2

(* No request is under way to a sender that has the device open. *)
LEMMA HoldingRequests ==
    ASSUME TypeOK, RequestsInv, sPc \in Holding, UNCHANGED <<toS, rOpen>>
    PROVE  RequestsInv'
<1>1. ASSUME NEW i \in 1 .. Len(toS) PROVE toS[i].op = "FIN" /\ ~rOpen
  <2>1. RequestOK(i)
    BY DEF RequestsInv
  <2>2. toS[i].op \in {"HELLO", "LIST_DEVICES", "ATTACH", "BIND", "FIN"}
    BY OpTypes DEF TypeOK
  <2> QED BY <2>1, <2>2 DEF RequestOK, Holding, SGone
<1> QED BY <1>1, NoRequests

LEMMA BindAckQueues == IInv /\ SBindAck => Queues'
<1> SUFFICES ASSUME IInv, SBindAck PROVE Queues'
  OBVIOUS
<1>t. TypeOK /\ RequestsInv /\ PhaseInv /\ AgreeInv
  BY DEF IInv
<1>1. /\ sPc = "ack" /\ sPc' = "stream" /\ seq' = 0 /\ sOpen
      /\ UNCHANGED <<link, toS, sOpen, target, rVars>>
  BY DEF SBindAck, SGoto, SWrites
<1>2. PICK k \in Kinds : toR' = Carried(toR, rOpen, BindAck(target, k))
  <2>1. target \in Devices
    BY <1>1, <1>t DEF PhaseInv, Holding
  <2> QED BY <2>1, SessionAssumption DEF SBindAck, SWrites, Kinds
<1>3. toR = <<>>
  <2> SUFFICES ASSUME toR # <<>> PROVE FALSE
    OBVIOUS
  <2>1. 1 \in 1 .. Len(toR) /\ toR[1] \in ToReceiverMsg
    BY <1>t DEF TypeOK
  <2>2. ReplyOK(1) /\ StreamOK(1)
    BY <2>1 DEF IInv, RepliesInv, StreamInv
  <2>3. toR[1].op \in {"HELLO_ACK", "DEVICE_LIST", "ATTACH_OK", "ATTACH_DENIED", "BIND_ACK",
                       "REPORT_IN", "UNBIND", "FIN"}
    BY <2>1, OpTypes
  <2> QED BY <1>1, <2>2, <2>3 DEF ReplyOK, StreamOK, SGone, Holding
<1>4. \A i \in 1 .. Len(toR') : i = 1 /\ toR'[i].op = "BIND_ACK" /\ toR'[i].busid = target
  BY <1>2, <1>3, CarriedAlone DEF BindAck
<1>5. RequestsInv'
  BY <1>1, <1>t, HoldingRequests DEF Holding, rVars
<1>6. rPc \in {"loop", "recv"} \cup RGone /\ device = None /\ last_seq = 0 /\ target \in HidDevices
  BY <1>1, <1>t DEF PhaseInv, AgreeInv, Holding
<1>7. RepliesInv'
  BY <1>1, <1>4, <1>6 DEF RepliesInv, ReplyOK, Holding, rVars
<1>8. StreamInv'
  BY <1>4 DEF StreamInv, StreamOK
<1>9. TailInv'
  <2> SUFFICES ASSUME link' = "up", rOpen' PROVE \E n \in Seqs : After(Len(toR) + 1, n)' /\ n = 0
    BY <1>1 DEF TailInv
  <2>1. Len(toR') = 1
    BY <1>1, <1>2, <1>3 DEF Carried, rVars
  <2>2. toR'[1].op = "BIND_ACK"
    BY <2>1, <1>4
  <2>3. 0 \in Seqs
    BY SessionAssumption DEF Seqs
  <2>4. After(Len(toR) + 1, 0)'
    BY <2>1, <2>2 DEF After
  <2> QED BY <2>3, <2>4
<1> QED BY <1>5, <1>7, <1>8, <1>9 DEF Queues

LEMMA SendQueues == IInv /\ SSend => Queues'
<1> SUFFICES ASSUME IInv, SSend PROVE Queues'
  OBVIOUS
<1>t. TypeOK /\ RequestsInv /\ PhaseInv /\ TailInv /\ toR \in Seq(ToReceiverMsg) /\ seq \in Seqs
  BY DEF IInv, TypeOK
<1>1. /\ sPc = "send" /\ sPc' = "stream" /\ sOpen
      /\ toR' = Carried(toR, rOpen, ReportIn(seq))
      /\ UNCHANGED <<link, toS, sOpen, listed, target, seq, rVars>>
  BY DEF SSend, SGoto, SWrites
<1>2. /\ \A i \in 1 .. Len(toR) : toR'[i] = toR[i] /\ ReplyOK(i)' /\ StreamOK(i)'
      /\ \A i \in 1 .. Len(toR') :
            \/ i \in 1 .. Len(toR)
            \/ i = Len(toR) + 1 /\ toR'[i] = ReportIn(seq) /\ link = "up" /\ rOpen
      /\ (link = "up" /\ rOpen) => Len(toR') = Len(toR) + 1
  BY <1>1, Appended DEF Holding, rVars
<1>3. RequestsInv'
  BY <1>1, <1>t, HoldingRequests DEF Holding, rVars
<1>4. CASE ~(link = "up" /\ rOpen)
  BY <1>1, <1>2, <1>3, <1>4 DEF Queues, RepliesInv, StreamInv, TailInv, rVars
<1>5. CASE link = "up" /\ rOpen
  <2>0. PICK last \in Nat : last = Len(toR) + 1
    BY <1>t
  <2>1. /\ last \in 1 .. Len(toR') /\ toR'[last] = ReportIn(seq)
        /\ toR'[last].op = "REPORT_IN" /\ toR'[last].seq = seq
    <3>1. last \in 1 .. Len(toR') /\ last \notin 1 .. Len(toR)
      BY <1>2, <1>5, <1>t, <2>0
    <3> QED BY <3>1, <1>2 DEF ReportIn
  <2>2. PICK n \in Seqs : After(last, n) /\ seq = Succ(n)
    BY <1>1, <1>5, <1>t, <2>0 DEF TailInv
  <2>3. last = 1 \/ toR'[last - 1] = toR[last - 1]
    BY <1>2, <1>t, <2>0
  <2>4. After(last, n)'
    BY <1>1, <2>2, <2>3 DEF After, rVars
  <2>5. rPc \in {"loop", "recv"} \cup RGone
    BY <1>1, <1>t DEF PhaseInv, Holding
  <2>6. StreamOK(last)'
    BY <1>1, <2>1, <2>2, <2>4, <2>5 DEF StreamOK, Holding, rVars
  <2>7. ReplyOK(last)'
    BY <2>1 DEF ReplyOK
  <2>8. RepliesInv' /\ StreamInv'
    BY <1>2, <2>0, <2>6, <2>7 DEF RepliesInv, StreamInv
  <2>9. After(Len(toR) + 1, seq)'
    <3>0. Len(toR) \in Nat /\ UNCHANGED seq
      BY <1>1, <1>t
    <3>1. Len(toR') = last /\ last # 0
      BY <1>2, <1>5, <2>0, <3>0
    <3>2. (Len(toR) + 1)' # 1 /\ (Len(toR) + 1)' - 1 = last
      BY <3>1
    <3> QED BY <3>0, <3>1, <3>2, <2>1 DEF After
  <2>10. TailInv'
    BY <1>1, <1>t, <2>9 DEF TailInv
  <2> QED BY <1>3, <2>8, <2>10 DEF Queues
<1> QED BY <1>4, <1>5

LEMMA UnbindQueues == IInv /\ SUnbind => Queues'
<1> SUFFICES ASSUME IInv, SUnbind PROVE Queues'
  OBVIOUS
<1>t. TypeOK /\ RequestsInv /\ PhaseInv /\ TailInv /\ toR \in Seq(ToReceiverMsg) /\ seq \in Seqs
  BY DEF IInv, TypeOK
<1>1. /\ sPc = "unbind" /\ sPc' = "release"
      /\ UNCHANGED <<link, toS, sOpen, listed, target, seq, rVars>>
  BY DEF SUnbind, SGoto
<1>2. RequestsInv'
  BY <1>1, <1>t, HoldingRequests DEF Holding, rVars
<1>3. TailInv'
  BY <1>1 DEF TailInv
<1>4. CASE UNCHANGED toR
  <2>1. RepliesInv'
    BY <1>1, <1>4, <1>t, RepliesKept DEF IInv, RMoves, Holding, rVars
  <2>2. StreamInv'
    BY <1>1, <1>4, <1>t, StreamKept DEF IInv, RMoves, Holding, rVars
  <2> QED BY <1>2, <1>3, <2>1, <2>2 DEF Queues
<1>5. CASE SWrites(Msg("UNBIND"))
  <2>1. sOpen /\ toR' = Carried(toR, rOpen, Msg("UNBIND"))
    BY <1>5 DEF SWrites
  <2>2. /\ \A i \in 1 .. Len(toR) : toR'[i] = toR[i] /\ ReplyOK(i)' /\ StreamOK(i)'
        /\ \A i \in 1 .. Len(toR') :
              \/ i \in 1 .. Len(toR)
              \/ i = Len(toR) + 1 /\ toR'[i] = Msg("UNBIND") /\ link = "up" /\ rOpen
    BY <1>1, <2>1, Appended DEF Holding, rVars
  <2>3. ASSUME NEW i \in 1 .. Len(toR'), i \notin 1 .. Len(toR)
        PROVE  ReplyOK(i)' /\ StreamOK(i)'
    <3>1. i = Len(toR) + 1 /\ toR'[i].op = "UNBIND" /\ link = "up" /\ rOpen
      BY <2>2, <2>3 DEF Msg
    <3>2. After(i, seq)
      BY <1>1, <1>t, <2>1, <3>1 DEF TailInv
    <3>3. i = 1 \/ toR'[i - 1] = toR[i - 1]
      BY <2>2, <3>1, <1>t
    <3>4. After(i, seq)'
      BY <1>1, <3>2, <3>3 DEF After, rVars
    <3>5. rPc \in {"loop", "recv"} \cup RGone
      BY <1>1, <1>t DEF PhaseInv, Holding
    <3> QED BY <1>1, <3>1, <3>4, <3>5 DEF ReplyOK, StreamOK, rVars
  <2>4. RepliesInv' /\ StreamInv'
    BY <2>2, <2>3 DEF RepliesInv, StreamInv
  <2> QED BY <1>2, <1>3, <2>4 DEF Queues
<1> QED BY <1>4, <1>5 DEF SUnbind

LEMMA SendFailsQueues == IInv /\ SSendFails => Queues'
<1> SUFFICES ASSUME IInv, SSendFails PROVE Queues'
  OBVIOUS
<1>t. TypeOK /\ RequestsInv /\ RepliesInv /\ StreamInv
  BY DEF IInv
<1>1. /\ sPc = "send" /\ sPc' = "unbind" /\ SWriteMayFail
      /\ UNCHANGED <<netVars, sOpen, listed, target, seq, rVars>>
  BY DEF SSendFails, SGoto
<1>2. RequestsInv'
  BY <1>t, <1>1, HoldingRequests DEF Holding, netVars, rVars
<1>3. RepliesInv'
  BY <1>t, <1>1, RepliesKept DEF RMoves, Holding, netVars, rVars
<1>4. StreamInv'
  BY <1>t, <1>1, StreamKept DEF RMoves, Holding, netVars, rVars
<1>5. TailInv'
  BY <1>1 DEF TailInv, SWriteMayFail, netVars, rVars
<1> QED BY <1>2, <1>3, <1>4, <1>5 DEF Queues

(* The sender's socket closes: a FIN goes after what is under way. *)
LEMMA SocketCloseQueues ==
    ASSUME IInv, SSocketClose, sPc' = sPc \/ sPc' \in SGone,
           UNCHANGED <<link, rPc, rOpen, device, last_seq, listed, target, chosen, seq>>
    PROVE  Queues'
<1>t. TypeOK /\ RequestsInv /\ RepliesInv /\ StreamInv
  BY DEF IInv
<1>1. ~sOpen'
  BY DEF SSocketClose
<1>2. TailInv'
  BY <1>1 DEF TailInv
<1>3. CASE sOpen
  <2>1. toS' = <<>> /\ toR' = Carried(toR, rOpen, Fin)
    BY <1>3 DEF SSocketClose
  <2>2. RequestsInv'
    BY <2>1, NoRequests
  <2>3. /\ \A i \in 1 .. Len(toR) : ReplyOK(i)' /\ StreamOK(i)'
        /\ \A i \in 1 .. Len(toR') : i \in 1 .. Len(toR) \/ toR'[i] = Fin
    BY <1>1, <2>1, Appended
  <2>4. ASSUME NEW i \in 1 .. Len(toR'), toR'[i] = Fin PROVE ReplyOK(i)' /\ StreamOK(i)'
    <3>1. toR'[i].op = "FIN"
      BY <2>4 DEF Fin, Msg
    <3> QED BY <1>1, <3>1 DEF ReplyOK, StreamOK
  <2>5. RepliesInv' /\ StreamInv'
    BY <2>3, <2>4 DEF RepliesInv, StreamInv
  <2> QED BY <1>2, <2>2, <2>5 DEF Queues
<1>4. CASE ~sOpen
  <2>1. UNCHANGED <<toS, toR>>
    BY <1>4 DEF SSocketClose
  <2>2. UNCHANGED sOpen
    BY <1>1, <1>4, <1>t DEF TypeOK, SSocketClose
  <2>3. RequestsInv'
    BY <1>t, <2>1, RequestsKept DEF RMoves
  <2>4. RepliesInv'
    BY <1>t, <2>1, <2>2, RepliesKept DEF RMoves
  <2>5. StreamInv'
    BY <1>t, <2>1, StreamKept DEF RMoves
  <2> QED BY <1>2, <2>3, <2>4, <2>5 DEF Queues
<1> QED BY <1>3, <1>4

(* Before the binding, nothing but the end of the stream can be behind the  *)
(* reply the receiver reads.                                                *)
LEMMA RequestQueues == IInv /\ (RHello \/ RHelloAck \/ RDeviceList \/ RAttachOk) => Queues'
<1> SUFFICES ASSUME IInv, RHello \/ RHelloAck \/ RDeviceList \/ RAttachOk PROVE Queues'
  OBVIOUS
<1>t. /\ TypeOK /\ PhaseInv /\ RequestsInv /\ RepliesInv /\ StreamInv
      /\ toR \in Seq(ToReceiverMsg) /\ toS \in Seq(ToSenderMsg)
  BY DEF IInv, TypeOK
<1>1. UNCHANGED <<link, sVars, rOpen>> /\ rPc \in {"start", "hello_ack", "device_list", "attach_ok"}
  BY DEF RHello, RHelloAck, RDeviceList, RAttachOk
<1>2. ASSUME NEW i \in 2 .. Len(toR) PROVE toR[i].op = "FIN" /\ ~sOpen
  <2>1. i \in 1 .. Len(toR) /\ i # 1
    BY <1>t
  <2>2. ReplyOK(i) /\ StreamOK(i)
    BY <1>t, <2>1 DEF RepliesInv, StreamInv
  <2> QED BY <1>1, <2>1, <2>2 DEF ReplyOK, StreamOK, RGone
<1>3. ASSUME RHello PROVE /\ toS = <<>> /\ UNCHANGED toR
                          /\ \A i \in 1 .. Len(toR) : toR[i].op = "FIN" /\ ~sOpen
  <2>1. rPc = "start" /\ UNCHANGED toR /\ rOpen
    BY <1>3, <1>t DEF RHello, PhaseInv
  <2>2. ASSUME toS # <<>> PROVE FALSE
    <3>1. 1 \in 1 .. Len(toS) /\ toS[1] \in ToSenderMsg
      BY <1>t, <2>2
    <3>2. RequestOK(1) /\ toS[1].op \in {"HELLO", "LIST_DEVICES", "ATTACH", "BIND", "FIN"}
      BY <1>t, <3>1, OpTypes DEF RequestsInv
    <3> QED BY <2>1, <3>2 DEF RequestOK, RGone
  <2>3. ASSUME NEW i \in 1 .. Len(toR) PROVE toR[i].op = "FIN" /\ ~sOpen
    <3>1. ReplyOK(i) /\ StreamOK(i)
      BY <1>t DEF RepliesInv, StreamInv
    <3>2. toR[i].op \in {"HELLO_ACK", "DEVICE_LIST", "ATTACH_OK", "ATTACH_DENIED", "BIND_ACK",
                         "REPORT_IN", "UNBIND", "FIN"}
      BY <1>t, OpTypes
    <3> QED BY <2>1, <3>1, <3>2 DEF ReplyOK, StreamOK, RGone
  <2> QED BY <2>1, <2>2, <2>3
<1>4. ASSUME ~RHello PROVE toS = <<>> /\ \A i \in 1 .. Len(toR') : toR'[i].op = "FIN" /\ ~sOpen
  <2>1. RReads /\ rPc # "done" /\ toR' = Tail(toR)
    BY <1>4 DEF RHelloAck, RDeviceList, RAttachOk
  <2>2. toS = <<>> /\ \A i \in 1 .. Len(toR') : i + 1 \in 2 .. Len(toR) /\ toR'[i] = toR[i + 1]
    BY <1>t, <2>1, RReadFacts
  <2> QED BY <1>2, <2>2
<1>5. toS = <<>> /\ \A i \in 1 .. Len(toR') : toR'[i].op = "FIN" /\ ~sOpen'
  BY <1>1, <1>3, <1>4 DEF sVars
<1>6. RepliesInv' /\ StreamInv'
  BY <1>5 DEF RepliesInv, ReplyOK, StreamInv, StreamOK
<1>7. sPc \in {"hello", "list", "attach", "bind"} \cup SGone
  BY <1>1, <1>t DEF PhaseInv, TypeOK, Holding, SGone, RGone
<1>8. TailInv'
  BY <1>1, <1>7 DEF TailInv, SGone, sVars
<1>9. RequestsInv'
  <2>1. CASE RHello
    <3>1. rPc' = "hello_ack" /\ toS' = Carried(toS, sOpen, Msg("HELLO")) /\ rPc = "start"
      BY <2>1 DEF RHello, RGoto, RRequest
    <3>2. \A i \in 1 .. Len(toS') : i = 1 /\ toS'[i].op = "HELLO"
      BY <1>5, <3>1, CarriedAlone DEF Msg
    <3>3. sPc \in {"hello"} \cup SGone
      BY <1>7, <3>1, <1>t DEF PhaseInv, RGone
    <3> QED BY <1>1, <1>5, <3>1, <3>2, <3>3 DEF RequestsInv, RequestOK, sVars
  <2>2. CASE RHelloAck
    <3>1. rPc' = "device_list" /\ toS' = Carried(toS, sOpen, Msg("LIST_DEVICES"))
          /\ sPc \in {"list"} \cup SGone
      BY <2>2, HandshakeR DEF RRequest
    <3>2. \A i \in 1 .. Len(toS') : i = 1 /\ toS'[i].op = "LIST_DEVICES"
      BY <1>5, <3>1, CarriedAlone DEF Msg
    <3> QED BY <1>1, <1>5, <3>1, <3>2 DEF RequestsInv, RequestOK, sVars
  <2>3. CASE RDeviceList
    <3>1. sPc \in {"attach"} \cup SGone
      BY <2>3, HandshakeR
    <3>2. CASE UNCHANGED toS
      BY <1>5, <3>2, NoRequests
    <3>3. CASE rPc' = "attach_ok" /\ RRequest(Attach(chosen')) /\ chosen' \in listed
      <4>1. \A i \in 1 .. Len(toS') : i = 1 /\ toS'[i].op = "ATTACH" /\ toS'[i].busid = chosen'
        BY <1>5, <3>3, CarriedAlone DEF Attach, RRequest
      <4> QED BY <1>1, <1>5, <3>1, <3>3, <4>1 DEF RequestsInv, RequestOK, sVars
    <3> QED BY <2>3, <3>2, <3>3, HandshakeR
  <2>4. CASE RAttachOk
    <3>1. rPc' = "loop" /\ toS' = Carried(toS, sOpen, Msg("BIND"))
          /\ sPc \in {"bind"} \cup SGone
      BY <2>4, HandshakeR DEF RRequest
    <3>2. \A i \in 1 .. Len(toS') : i = 1 /\ toS'[i].op = "BIND"
      BY <1>5, <3>1, CarriedAlone DEF Msg
    <3> QED BY <1>1, <1>5, <3>1, <3>2 DEF RequestsInv, RequestOK, sVars
  <2> QED BY <2>1, <2>2, <2>3, <2>4
<1> QED BY <1>6, <1>8, <1>9 DEF Queues

(* The receiver takes a message off the stream: everything behind it moves  *)
(* up by one.                                                               *)
LEMMA StreamShifts ==
    ASSUME IInv, RReads, rPc = "recv", rPc' \in {"loop"} \cup RGone, toR' = Tail(toR),
           UNCHANGED <<link, toS, sVars, rOpen>>,
           \A n : After(2, n) => After(1, n)'
    PROVE  Queues'
<1>t. /\ TypeOK /\ PhaseInv /\ RequestsInv /\ RepliesInv /\ StreamInv /\ TailInv
      /\ toR \in Seq(ToReceiverMsg)
  BY DEF IInv, TypeOK
<1>1. /\ toS = <<>> /\ 1 \in 1 .. Len(toR) /\ Len(toR') = Len(toR) - 1
      /\ \A i \in 1 .. Len(toR') : i + 1 \in 2 .. Len(toR) /\ toR'[i] = toR[i + 1]
  BY <1>t, RReadFacts
<1>2. RequestsInv'
  BY <1>1, NoRequests
<1>3. ASSUME NEW i \in 1 .. Len(toR), NEW n, After(i + 1, n) PROVE After(i, n)'
  <2>1. CASE i = 1
    BY <1>3, <2>1
  <2>2. CASE i # 1
    <3>1. /\ i - 1 \in 1 .. Len(toR') /\ toR'[i - 1] = toR[i]
          /\ i + 1 # 1 /\ (i + 1) - 1 = i
      BY <1>1, <1>t, <2>2
    <3> QED BY <1>3, <2>2, <3>1 DEF After
  <2> QED BY <2>1, <2>2
<1>4. ASSUME NEW i \in 1 .. Len(toR') PROVE ReplyOK(i)' /\ StreamOK(i)'
  <2>1. /\ i + 1 \in 1 .. Len(toR) /\ i \in 1 .. Len(toR) /\ i + 1 # 1
        /\ toR'[i] = toR[i + 1]
    BY <1>1, <1>t
  <2>2. ReplyOK(i + 1) /\ StreamOK(i + 1)
    BY <1>t, <2>1 DEF RepliesInv, StreamInv
  <2>3. toR'[i].op \in {"FIN", "REPORT_IN", "UNBIND"} /\ (toR'[i].op = "FIN" => ~sOpen')
    BY <2>1, <2>2 DEF ReplyOK, sVars
  <2>4. toR'[i].op = "REPORT_IN" => \E n \in Seqs : After(i, n)' /\ toR'[i].seq = Succ(n)
    BY <1>3, <2>1, <2>2 DEF StreamOK
  <2>5. After(i + 1, seq) => After(i, seq)'
    <3>1. UNCHANGED seq
      BY DEF sVars
    <3>3. CASE i = 1
      <4>1. After(2, seq) => (seq = last_seq' /\ (device' # None \/ rPc' \in RGone))
        BY DEF After, RGone
      <4> QED BY <3>1, <3>3, <4>1 DEF After, RGone
    <3>4. CASE i # 1
      <4>1. /\ i - 1 \in 1 .. Len(toR') /\ toR'[i - 1] = toR[i] /\ (i + 1) - 1 = i
        BY <1>1, <1>t, <3>4
      <4> QED BY <2>1, <3>1, <3>4, <4>1 DEF After
    <3> QED BY <3>3, <3>4
  <2>6. toR'[i].op = "UNBIND" => sPc' \in {"release"} \cup SGone /\ After(i, seq)'
    BY <2>1, <2>2, <2>5 DEF StreamOK, sVars
  <2>7. toR'[i].op = "REPORT_IN" => sPc' \in (Holding \ {"ack"}) \cup SGone
    BY <2>1, <2>2 DEF StreamOK, sVars
  <2>8. StreamOK(i)'
    BY <2>4, <2>6, <2>7 DEF StreamOK
  <2> QED BY <2>3, <2>8 DEF ReplyOK
<1>5. RepliesInv' /\ StreamInv'
  BY <1>4 DEF RepliesInv, StreamInv
<1>6. TailInv'
  <2> SUFFICES ASSUME link = "up", sOpen, rOpen, sPc \in {"stream", "read", "send", "unbind"}
               PROVE  \E n \in Seqs : /\ After(Len(toR) + 1, n)'
                                      /\ seq = IF sPc = "send" THEN Succ(n) ELSE n
    BY DEF TailInv, sVars
  <2>1. PICK n \in Seqs : After(Len(toR) + 1, n) /\ seq = IF sPc = "send" THEN Succ(n) ELSE n
    BY <1>t DEF TailInv
  <2>2. PICK k \in 1 .. Len(toR) : k = Len(toR)
    BY <1>1, <1>t
  <2>3. After(k, n)'
    BY <1>3, <2>1, <2>2
  <2>4. Len(toR') + 1 = k
    BY <1>1, <1>t, <2>2
  <2>5. After(Len(toR) + 1, n)'
    BY <2>3, <2>4
  <2> QED BY <2>1, <2>5
<1> QED BY <1>2, <1>5, <1>6 DEF Queues

LEMMA StreamQueues == IInv /\ (RBindAck \/ RReport \/ RUnbind) => Queues'
<1> SUFFICES ASSUME IInv, RBindAck \/ RReport \/ RUnbind PROVE Queues'
  OBVIOUS
<1>t. /\ TypeOK /\ PhaseInv /\ RequestsInv /\ RepliesInv /\ StreamInv
      /\ None \notin Devices
  BY SessionAssumption DEF IInv
<1>1. /\ RReads /\ rPc = "recv" /\ rPc' \in {"loop"} \cup RGone /\ toR' = Tail(toR)
      /\ UNCHANGED <<link, toS, sVars, rOpen>>
  BY DEF RBindAck, RReport, RUnbind, RGoto, RGone
<1>2. Head(toR) = toR[1] /\ toR[1] \in ToReceiverMsg /\ ReplyOK(1) /\ StreamOK(1)
  BY <1>1, <1>t, RReadFacts
<1>3. CASE RBindAck
  <2>1. toR[1].op = "BIND_ACK" /\ toR[1].busid \in Devices
    BY <1>2, <1>3, FieldTypes DEF RBindAck
  <2>2. last_seq' = 0 /\ (device' # None \/ rPc' \in RGone)
    BY <1>2, <1>3, <1>t, <2>1 DEF RBindAck, ReplyOK, RGoto, RGone
  <2>3. \A n : After(2, n) => After(1, n)'
    BY <2>1, <2>2 DEF After
  <2> QED BY <1>1, <2>3, StreamShifts
<1>4. CASE RReport
  <2>1. toR[1].op = "REPORT_IN" /\ last_seq' = toR[1].seq /\ UNCHANGED device
    BY <1>2, <1>4 DEF RReport
  <2>2. device # None
    BY <1>1, <1>2, <2>1 DEF StreamOK, After, RGone
  <2>3. \A n : After(2, n) => After(1, n)'
    BY <2>1, <2>2 DEF After
  <2> QED BY <1>1, <2>3, StreamShifts
<1>5. CASE RUnbind
  <2>1. toR[1].op = "UNBIND"
    BY <1>2, <1>5 DEF RUnbind
  <2>3. \A n : After(2, n) => After(1, n)'
    BY <2>1 DEF After
  <2> QED BY <1>1, <2>3, StreamShifts
<1> QED BY <1>3, <1>4, <1>5

(* The receiver's socket closes, in order or with its process. *)
LEMMA REndQueues == IInv /\ (RClose \/ RKilled) => Queues'
<1> SUFFICES ASSUME IInv, RClose \/ RKilled PROVE Queues'
  OBVIOUS
<1>t. RequestsInv /\ toS \in Seq(ToSenderMsg)
  BY DEF IInv, TypeOK
<1>1. /\ rPc' = "done" /\ toR' = <<>> /\ toS' = Carried(toS, sOpen, Fin)
      /\ UNCHANGED <<sVars, chosen>>
  BY DEF RClose, RKilled, RGoto
<1>2. ~rOpen'
  BY DEF RClose, RKilled
<1>3. RepliesInv' /\ StreamInv'
  BY <1>1, NoReplies
<1>4. TailInv'
  BY <1>2 DEF TailInv
<1>5. \A i \in 1 .. Len(toS') : (i \in 1 .. Len(toS) /\ toS'[i] = toS[i]) \/ toS'[i] = Fin
  <2>1. CASE link = "up" /\ sOpen
    BY <1>1, <1>t, <2>1 DEF Carried
  <2>2. CASE ~(link = "up" /\ sOpen)
    BY <1>1, <1>t, <2>2 DEF Carried
  <2> QED BY <2>1, <2>2
<1>6. ASSUME NEW i \in 1 .. Len(toS') PROVE RequestOK(i)'
  <2>1. CASE toS'[i] = Fin
    <3>1. toS'[i].op = "FIN"
      BY <2>1 DEF Fin, Msg
    <3> QED BY <1>2, <3>1 DEF RequestOK
  <2>2. CASE i \in 1 .. Len(toS) /\ toS'[i] = toS[i]
    <3>1. RequestOK(i)
      BY <1>t, <2>2 DEF RequestsInv
    <3>2. \A j \in 1 .. Len(toR') : toR'[j].op = "FIN"
      BY <1>1
    <3> QED BY <1>1, <1>2, <2>2, <3>1, <3>2 DEF RequestOK, RGone, sVars
  <2> QED BY <1>5, <2>1, <2>2
<1>7. RequestsInv'
  BY <1>6 DEF RequestsInv
<1> QED BY <1>3, <1>4, <1>7 DEF Queues

LEMMA LinkDownQueues == IInv /\ LinkDown => Queues'
<1> SUFFICES ASSUME IInv, LinkDown PROVE Queues'
  OBVIOUS
<1>t. /\ TypeOK /\ RequestsInv /\ RepliesInv /\ StreamInv
      /\ toS \in Seq(ToSenderMsg) /\ toR \in Seq(ToReceiverMsg)
  BY DEF IInv, TypeOK
<1>1. link' = "down" /\ UNCHANGED <<sVars, rVars>>
  BY DEF LinkDown
<1>2. /\ \A i \in 1 .. Len(toR') : i \in 1 .. Len(toR) /\ toR'[i] = toR[i]
      /\ \A i \in 1 .. Len(toS') : i \in 1 .. Len(toS) /\ toS'[i] = toS[i]
  <2>1. PICK k \in 0 .. Len(toR) : toR' = SubSeq(toR, 1, k)
    BY DEF LinkDown
  <2>2. PICK l \in 0 .. Len(toS) : toS' = SubSeq(toS, 1, l)
    BY DEF LinkDown
  <2> QED BY <1>t, <2>1, <2>2
<1>3. TailInv'
  BY <1>1 DEF TailInv
<1>4. ASSUME NEW i \in 1 .. Len(toS') PROVE RequestOK(i)'
  <2>1. RequestOK(i) /\ toS'[i] = toS[i]
    BY <1>t, <1>2 DEF RequestsInv
  <2>2. toS[i].op # "FIN" => \A j \in 1 .. Len(toR') : toR'[j].op = "FIN"
    BY <1>2, <2>1 DEF RequestOK
  <2> QED BY <1>1, <2>1, <2>2 DEF RequestOK, sVars, rVars
<1>5. ASSUME NEW i \in 1 .. Len(toR') PROVE ReplyOK(i)' /\ StreamOK(i)'
  <2>1. ReplyOK(i) /\ StreamOK(i) /\ toR'[i] = toR[i]
    BY <1>t, <1>2 DEF RepliesInv, StreamInv
  <2>2. i = 1 \/ toR'[i - 1] = toR[i - 1]
    BY <1>2, <1>t
  <2>3. \A n : After(i, n) => After(i, n)'
    BY <1>1, <2>2 DEF After, rVars
  <2>4. After(i, seq) => After(i, seq)'
    BY <1>1, <2>2 DEF After, rVars, sVars
  <2>5. toR[i].op = "REPORT_IN" => (\E n \in Seqs : After(i, n)' /\ toR[i].seq = Succ(n))
    BY <2>1, <2>3 DEF StreamOK
  <2>6. ReplyOK(i)'
    BY <1>1, <2>1 DEF ReplyOK, sVars, rVars
  <2>7. StreamOK(i)'
    BY <1>1, <2>1, <2>4, <2>5 DEF StreamOK, sVars, rVars
  <2> QED BY <2>6, <2>7
<1>6. RequestsInv' /\ RepliesInv' /\ StreamInv'
  BY <1>4, <1>5 DEF RequestsInv, RepliesInv, StreamInv
<1> QED BY <1>3, <1>6 DEF Queues

(* The remaining actions leave the queues alone. *)
LEMMA StillQueues ==
    ASSUME IInv,
           \/ SReadFails \/ SBindAckFails \/ SLoop \/ SReadReport \/ SReadNull \/ SRelease
           \/ SStopFlag \/ RLoop \/ RReadFails \/ RTimesOut \/ RDrop \/ RStop
           \/ \E d \in Devices : Plug(d) \/ Unplug(d)
    PROVE  Queues'
<1> DEFINE Still == UNCHANGED <<link, toS, toR, listed, target, chosen, sOpen, rOpen, last_seq>>
<1> DEFINE RIdle == UNCHANGED <<rPc, device>>
<1>1. CASE SReadFails \/ SRelease
  <2>1. Still /\ RIdle /\ sPc' = "closing" /\ seq' = seq
    BY <1>1 DEF SReadFails, SRelease, SGoto, netVars, rVars
  <2> QED BY <2>1, QueuesKept DEF RMoves, SGone
<1>2. CASE SBindAckFails
  <2>1. Still /\ RIdle /\ sPc = "ack" /\ sPc' = "release" /\ seq' = seq
    BY <1>2 DEF SBindAckFails, SGoto, netVars, rVars
  <2> QED BY <2>1, QueuesKept DEF RMoves
<1>3. CASE SLoop \/ SReadNull
  <2>1. /\ Still /\ RIdle /\ seq' = seq
        /\ sPc \in {"stream", "read"} /\ sPc' \in {"stream", "read", "unbind"}
    BY <1>3 DEF SLoop, SReadNull, SGoto, netVars, rVars
  <2> QED BY <2>1, QueuesKept DEF RMoves
<1>4. CASE SReadReport
  <2>1. Still /\ RIdle /\ sPc = "read" /\ sPc' = "send" /\ seq' = Succ(seq)
    BY <1>4 DEF SReadReport, SGoto, netVars, rVars
  <2> QED BY <2>1, QueuesKept DEF RMoves
<1>5. CASE SStopFlag \/ RStop \/ (\E d \in Devices : Plug(d) \/ Unplug(d))
  <2>1. Still /\ RIdle /\ sPc' = sPc /\ seq' = seq
    BY <1>5 DEF SStopFlag, RStop, Plug, Unplug, netVars, rVars, sVars
  <2> QED BY <2>1, QueuesKept DEF RMoves
<1>6. CASE RLoop \/ RReadFails \/ RTimesOut
  <2>1. Still /\ RMoves /\ device' = device /\ sPc' = sPc /\ seq' = seq
    BY <1>6 DEF RLoop, RReadFails, RTimesOut, RGoto, RMoves, RGone, netVars, sVars
  <2> QED BY <2>1, QueuesKept
<1>7. CASE RDrop
  <2>1. Still /\ device' = None /\ rPc' = "close" /\ sPc' = sPc /\ seq' = seq
    BY <1>7 DEF RDrop, RGoto, netVars, sVars
  <2> QED BY <2>1, QueuesKept DEF RMoves, RGone
<1> QED BY <1>1, <1>2, <1>3, <1>4, <1>5, <1>6, <1>7

LEMMA CloseQueues == IInv /\ (SClose \/ SStopClose \/ SKilled) => Queues'
<1> SUFFICES ASSUME IInv, SClose \/ SStopClose \/ SKilled PROVE Queues'
  OBVIOUS
<1>1. /\ SSocketClose /\ (sPc' = sPc \/ sPc' \in SGone)
      /\ UNCHANGED <<link, rPc, rOpen, device, last_seq, listed, target, chosen, seq>>
  BY DEF SClose, SStopClose, SKilled, SGoto, SGone, rVars
<1> QED BY <1>1, SocketCloseQueues

-----------------------------------------------------------------------------
LEMMA IInvInit == Init => IInv
<1> SUFFICES ASSUME Init PROVE IInv
  OBVIOUS
<1>1. TypeOK
  <2>1. 0 \in Seqs
    BY SessionAssumption DEF Seqs
  <2>2. /\ sOpen \in BOOLEAN /\ running \in BOOLEAN /\ rOpen \in BOOLEAN /\ stop \in BOOLEAN
        /\ jumped \in BOOLEAN /\ early \in BOOLEAN
    BY DEF Init
  <2>3. /\ usb \in [Devices -> {"absent", "present"}] /\ link = "up" /\ toS = <<>> /\ toR = <<>>
        /\ fault = "none" /\ sPc = "hello" /\ stopPc = "idle" /\ listed = {} /\ target = None
        /\ claimed = None /\ seq = 0 /\ rPc = "start" /\ wanted \in Devices \cup {None}
        /\ chosen = None /\ device = None /\ last_seq = 0
    BY DEF Init
  <2> QED BY <2>1, <2>2, <2>3 DEF TypeOK
<1>2. PhaseInv /\ AgreeInv /\ Quiet
  BY DEF Init, PhaseInv, AgreeInv, Quiet, NoFault, NoComplaint, Holding, RGone
<1>3. RequestsInv /\ RepliesInv /\ StreamInv /\ TailInv
  BY DEF Init, RequestsInv, RepliesInv, StreamInv, TailInv
<1> QED BY <1>1, <1>2, <1>3 DEF IInv

LEMMA IInvStep == IInv /\ [Next]_vars => IInv'
<1> SUFFICES ASSUME IInv, [Next]_vars PROVE IInv'
  OBVIOUS
<1>1. ASSUME TypeOK', Control', Queues' PROVE IInv'
  BY <1>1 DEF IInv, Control, Queues
<1>2. CASE SenderThread
  <2>1. TypeOK' /\ Control'
    BY <1>2, SenderType, SenderControl DEF IInv
  <2>2. Queues'
    BY <1>2, ReplyQueues, BindQueues, StillQueues, BindAckQueues, SendQueues,
       SendFailsQueues, UnbindQueues, CloseQueues DEF SenderThread
  <2> QED BY <1>1, <2>1, <2>2
<1>3. CASE Receiver
  <2>1. TypeOK' /\ Control'
    BY <1>3, ReceiverType, ReceiverControl DEF IInv
  <2>2. Queues'
    BY <1>3, RequestQueues, StreamQueues, StillQueues, REndQueues DEF Receiver
  <2> QED BY <1>1, <2>1, <2>2
<1>4. CASE Stopper \/ Environment
  <2>1. TypeOK' /\ Control'
    BY <1>4, OthersType, OthersControl DEF IInv
  <2>2. Queues'
    BY <1>4, StillQueues, CloseQueues, REndQueues, LinkDownQueues DEF Stopper, Environment
  <2> QED BY <1>1, <2>1, <2>2
<1>5. CASE UNCHANGED vars
  BY <1>5 DEF vars, netVars, sVars, rVars, IInv, TypeOK, PhaseInv, AgreeInv, RequestsInv,
     RequestOK, RepliesInv, ReplyOK, StreamInv, StreamOK, After, TailInv, Quiet, NoFault,
     NoComplaint
<1> QED BY <1>2, <1>3, <1>4, <1>5 DEF Next

(* The inductive invariant holds throughout every session. *)
THEOREM Invariance == Spec => []IInv
BY IInvInit, IInvStep, PTL DEF Spec

(* Every variable keeps its type, whatever the devices, the modulus and the *)
(* buffering.                                                               *)
THEOREM TypeCorrect == Spec => []TypeOK
<1>1. IInv => TypeOK
  BY DEF IInv
<1> QED BY <1>1, Invariance, PTL

(* The handshakes of ReceiverSession.run and run_receive stay in step       *)
(* through every interleaving of stop(), Ctrl-C, kills, unplugs and network *)
(* loss: no message is ever met by the wrong step, no listed device denied. *)
THEOREM HandshakeInStep == Spec => []NoFault
<1>1. IInv => NoFault
  BY DEF IInv, Quiet
<1> QED BY <1>1, Invariance, PTL

(* A virtual device always stands for the device that was asked for and     *)
(* that the sender holds or has let go of.                                  *)
THEOREM DeviceAgreed == Spec => []BindingAgreed
<1>1. IInv => BindingAgreed
  <2> SUFFICES ASSUME IInv, device # None PROVE
        /\ device = chosen /\ device = target
        /\ device \in HidDevices
        /\ wanted \in {None, device}
        /\ claimed = device \/ sPc \in {"closing", "done"}
    BY DEF BindingAgreed
  <2>1. /\ PhaseInv /\ AgreeInv
        /\ sPc \in {"hello", "list", "attach", "bind", "ack", "stream", "read", "send",
                    "unbind", "release", "closing", "done"}
    BY DEF IInv, TypeOK
  <2>2. device = target /\ device \in HidDevices /\ target = chosen /\ wanted \in {None, chosen}
    BY <2>1 DEF AgreeInv
  <2>3. sPc \in Holding \cup {"closing", "done"}
    BY <2>1 DEF PhaseInv, Holding
  <2>4. claimed = device \/ sPc \in {"closing", "done"}
    BY <2>1, <2>2, <2>3 DEF AgreeInv
  <2> QED BY <2>2, <2>4
<1> QED BY <1>1, Invariance, PTL

(* Every way a session can end releases the interface and the virtual       *)
(* device.                                                                  *)
THEOREM NothingLeftBehind == Spec => []TornDown
<1>1. IInv => TornDown
  BY DEF IInv, PhaseInv, AgreeInv, TornDown, Holding
<1> QED BY <1>1, Invariance, PTL

(* For every modulus above 2 the receiver's wrapping comparison never       *)
(* reports a jump, and BIND_ACK is always in front of the reports.          *)
THEOREM NeverComplains == Spec => []NoComplaint
<1>1. IInv => NoComplaint
  BY DEF IInv, Quiet
<1> QED BY <1>1, Invariance, PTL

(* When the receiver comes to an UNBIND it has applied every report. *)
THEOREM UnbindComesLast == Spec => []UnbindIsLast
<1>1. IInv => UnbindIsLast
  <2> SUFFICES ASSUME IInv, toR # <<>>, Head(toR).op = "UNBIND" PROVE last_seq = seq
    BY DEF UnbindIsLast
  <2>1. Head(toR) = toR[1] /\ 1 \in 1 .. Len(toR)
    BY DEF IInv, TypeOK
  <2>2. StreamOK(1)
    BY <2>1 DEF IInv, StreamInv
  <2> QED BY <2>1, <2>2 DEF StreamOK, After
<1> QED BY <1>1, Invariance, PTL

(* The receiver's last_seq only moves to its successor: the reports are     *)
(* applied in order and none is left out, across the wrap of the counter.   *)
THEOREM InOrder == Spec => AppliedInOrder
<1>1. IInv /\ [Next]_vars => [last_seq' = Succ(last_seq)]_last_seq
  <2> SUFFICES ASSUME IInv, Next, last_seq' # last_seq PROVE last_seq' = Succ(last_seq)
    BY DEF vars, rVars
  <2>1. RReport
    BY DEF Next, SenderThread, Stopper, Receiver, Environment, SHello, SList, SAttach, SBind,
       SReadFails, SBindAck, SBindAckFails, SLoop, SReadReport, SReadNull, SSend, SSendFails,
       SUnbind, SRelease, SClose, SStopFlag, SStopClose, RHello, RHelloAck, RDeviceList,
       RAttachOk, RLoop, RBindAck, RUnbind, RReadFails, RDrop, RClose, RStop, SKilled, RKilled,
       Plug, Unplug, LinkDown, RTimesOut, rVars
  <2>2. Head(toR) = toR[1] /\ StreamOK(1)
    BY <2>1, RReadFacts DEF IInv, RReport
  <2> QED BY <2>1, <2>2 DEF RReport, StreamOK, After
<1> QED BY <1>1, Invariance, PTL DEF Spec, AppliedInOrder
=============================================================================
