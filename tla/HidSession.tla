----------------------------- MODULE HidSession -----------------------------
(***************************************************************************)
(* One HID fast-lane session over one TCP connection: the Android sender   *)
(* thread (ReceiverSession.run with its HidEndpoint), the Linux receiver   *)
(* (receiver.rs run_receive with its uinput device), the stop() call made  *)
(* on the sender by another thread, and an environment that unplugs        *)
(* devices, loses the network and presses Ctrl-C.                          *)
(*                                                                         *)
(* The connection is two FIFO queues of envelopes.  A close by one side is *)
(* a FIN at the end of the other side's queue.  The network may go down    *)
(* silently and for good: what was not delivered is lost, neither side is  *)
(* told.                                                                   *)
(***************************************************************************)
EXTENDS Integers, Sequences, FiniteSets

CONSTANTS
    Devices,      \* USB devices the phone may ever have, by busid
    HidDevices,   \* those with an interface of class HID
    KindOf,       \* what classifyDescriptor makes of each device's descriptor
    None,         \* no device, no --busid option
    SeqMod,       \* HID sequence numbers are taken modulo this (2^16)
    NetCap        \* envelopes TCP buffers in one direction before a write blocks

Kinds == {"mouse", "keyboard", "gamepad", "other"}

ASSUME SessionAssumption ==
    /\ HidDevices \subseteq Devices
    /\ KindOf \in [Devices -> Kinds]
    /\ None \notin Devices
    /\ SeqMod \in Nat /\ SeqMod > 2
    /\ NetCap \in Nat \ {0}

VARIABLES
    usb,      \* each device: absent (not yet plugged), present, gone (unplugged)
    link,     \* up, or down for good
    toS, toR, \* envelopes under way to the sender, to the receiver
    fault,    \* a reply neither program expects: none, unexpected, denied
    (* sender: ReceiverSession *)
    sPc, sOpen, running, stopPc,
    listed,   \* the `devices` snapshot taken for DEVICE_LIST
    target,   \* targetDevice
    claimed,  \* device whose HID interface is claimed, or None
    seq,
    (* receiver: run_receive *)
    rPc, rOpen, stop, wanted,
    chosen, device, last_seq,
    jumped,   \* a seq_jump event was logged
    early     \* a report_before_bind_ack event was logged

netVars == <<usb, link, toS, toR, fault>>
sVars   == <<sPc, sOpen, running, stopPc, listed, target, claimed, seq>>
rVars   == <<rPc, rOpen, stop, wanted, chosen, device, last_seq, jumped, early>>
vars    == <<netVars, sVars, rVars>>

-----------------------------------------------------------------------------
(* Messages: one envelope each. *)

Seqs == 0 .. SeqMod - 1
SuccNoWrap(n) == n + 1     \* mutant of Succ: the 16-bit counter does not wrap
Succ(n) == (n + 1) % SeqMod

Msg(o) == [op |-> o]
DeviceList(ds) == [op |-> "DEVICE_LIST", devices |-> ds]
Attach(b) == [op |-> "ATTACH", busid |-> b]
BindAck(b, k) == [op |-> "BIND_ACK", busid |-> b, kind |-> k]
ReportIn(n) == [op |-> "REPORT_IN", seq |-> n]
Fin == Msg("FIN")

ToSenderMsg == [op : {"HELLO", "LIST_DEVICES", "BIND", "FIN"}]
                 \cup [op : {"ATTACH"}, busid : Devices]
ToReceiverMsg == [op : {"HELLO_ACK", "ATTACH_OK", "ATTACH_DENIED", "UNBIND", "FIN"}]
                 \cup [op : {"DEVICE_LIST"}, devices : SUBSET Devices]
                 \cup [op : {"BIND_ACK"}, busid : Devices, kind : Kinds]
                 \cup [op : {"REPORT_IN"}, seq : Seqs]

(* What the peer's kernel receives: nothing once the link is down or the    *)
(* peer's socket is closed.                                                 *)
Carried(queue, peerOpen, m) ==
    IF link = "up" /\ peerOpen THEN Append(queue, m) ELSE queue

-----------------------------------------------------------------------------
Init ==
    /\ usb \in [Devices -> {"absent", "present"}]
    /\ link = "up"
    /\ toS = <<>> /\ toR = <<>>
    /\ fault = "none"
    /\ sPc = "hello" /\ sOpen = TRUE /\ running = TRUE /\ stopPc = "idle"
    /\ listed = {} /\ target = None /\ claimed = None /\ seq = 0
    /\ rPc = "start" /\ rOpen = TRUE /\ stop = FALSE
    /\ wanted \in Devices \cup {None}
    /\ chosen = None /\ device = None /\ last_seq = 0
    /\ jumped = FALSE /\ early = FALSE

Present == {d \in Devices : usb[d] = "present"}

-----------------------------------------------------------------------------
(* Sender thread. *)

SGoto(pc) == sPc' = pc

(* Reading an envelope: something is there and the socket was not closed    *)
(* under the thread by stop().                                              *)
SReads == sOpen /\ toS # <<>> /\ Head(toS).op # "FIN"

(* The reply of a handshake step; a reply to a peer that is gone is lost,   *)
(* the thread then fails at its next read.                                  *)
SReply(m) == toS' = Tail(toS) /\ toR' = Carried(toR, rOpen, m)

(* expectControl found another op, or runHidBinding another frame:          *)
(* IOException, straight to the finally.                                    *)
SUnexpected ==
    /\ SGoto("closing")
    /\ toS' = Tail(toS)
    /\ fault' = "unexpected"
    /\ UNCHANGED <<toR, listed, target>>

SHello ==
    /\ sPc = "hello" /\ SReads
    /\ IF Head(toS).op = "HELLO"
       THEN /\ SGoto("list") /\ SReply(Msg("HELLO_ACK"))
            /\ UNCHANGED <<listed, target, fault>>
       ELSE SUnexpected
    /\ UNCHANGED <<usb, link, sOpen, running, stopPc, claimed, seq, rVars>>

SList ==
    /\ sPc = "list" /\ SReads
    /\ IF Head(toS).op = "LIST_DEVICES"
       THEN /\ SGoto("attach")
            /\ listed' = Present
            /\ SReply(DeviceList(Present))
            /\ UNCHANGED <<target, fault>>
       ELSE SUnexpected
    /\ UNCHANGED <<usb, link, sOpen, running, stopPc, claimed, seq, rVars>>

(* devices.firstOrNull { busidFor(it) == busid }: a search of the snapshot  *)
(* the list was made from, not of the devices present now.                  *)
InListNow(b) == b \in Present    \* mutant of InList: the inventory is read again
InList(b) == b \in listed

(* Another mode than "hid" is denied as well; the receiver asks for no      *)
(* other.                                                                   *)
SAttach ==
    /\ sPc = "attach" /\ SReads
    /\ IF Head(toS).op # "ATTACH"
       THEN SUnexpected
       ELSE IF InList(Head(toS).busid)
       THEN /\ SGoto("bind")
            /\ target' = Head(toS).busid
            /\ SReply(Msg("ATTACH_OK"))
            /\ UNCHANGED <<listed, fault>>
       ELSE /\ SGoto("closing")
            /\ SReply(Msg("ATTACH_DENIED"))
            /\ fault' = "denied"
            /\ UNCHANGED <<listed, target>>
    /\ UNCHANGED <<usb, link, sOpen, running, stopPc, claimed, seq, rVars>>

(* runHidBinding up to HidEndpoint.open.  open needs the device still there *)
(* with a HID interface; it may fail all the same (permission, interface    *)
(* busy).                                                                   *)
SBind ==
    /\ sPc = "bind" /\ SReads
    /\ IF Head(toS).op # "BIND"
       THEN SUnexpected /\ UNCHANGED claimed
       ELSE /\ toS' = Tail(toS)
            /\ UNCHANGED <<toR, listed, target, fault>>
            /\ \/ /\ target \in Present \cap HidDevices
                  /\ claimed' = target
                  /\ SGoto("ack")
               \/ /\ SGoto("closing")
                  /\ UNCHANGED claimed
    /\ UNCHANGED <<usb, link, sOpen, running, stopPc, seq, rVars>>

(* readEnvelope throws: end of stream, socket closed by stop(), or 30 s     *)
(* without data (soTimeout).                                                *)
SReadFails ==
    /\ sPc \in {"hello", "list", "attach", "bind"}
    /\ ~SReads
    /\ SGoto("closing")
    /\ UNCHANGED <<netVars, sOpen, running, stopPc, listed, target, claimed, seq, rVars>>

(* A write goes through when the socket is open and TCP has room; towards a *)
(* dead peer it may go through a few more times, its bytes lost.            *)
SWrites(m) ==
    /\ sOpen
    /\ (link = "up" /\ rOpen) => Len(toR) < NetCap
    /\ toR' = Carried(toR, rOpen, m)

SWriteMayFail == ~sOpen \/ ~rOpen \/ link = "down"

(* BIND_ACK with the kind sniffed from the report descriptor; a descriptor  *)
(* that could not be fetched is empty and sniffs as "other".                *)
SBindAck ==
    /\ sPc = "ack"
    /\ \E k \in {KindOf[target], "other"} : SWrites(BindAck(target, k))
    /\ SGoto("stream")
    /\ seq' = 0
    /\ UNCHANGED <<usb, link, toS, fault, sOpen, running, stopPc, listed, target,
                   claimed, rVars>>

SBindAckFailsLeaks ==     \* mutant of SBindAckFails: the write is outside the try/finally
    /\ sPc = "ack" /\ SWriteMayFail
    /\ SGoto("closing")
    /\ UNCHANGED <<netVars, sOpen, running, stopPc, listed, target, claimed, seq, rVars>>

SBindAckFails ==
    /\ sPc = "ack" /\ SWriteMayFail
    /\ SGoto("release")
    /\ UNCHANGED <<netVars, sOpen, running, stopPc, listed, target, claimed, seq, rVars>>

SLoopForever ==           \* mutant of SLoop: while (true), trusting the writes to fail
    /\ sPc = "stream"
    /\ SGoto("read")
    /\ UNCHANGED <<netVars, sOpen, running, stopPc, listed, target, claimed, seq, rVars>>

(* Head of the streaming loop: while (running). *)
SLoop ==
    /\ sPc = "stream"
    /\ SGoto(IF running THEN "read" ELSE "unbind")
    /\ UNCHANGED <<netVars, sOpen, running, stopPc, listed, target, claimed, seq, rVars>>

SReadReportDrops ==       \* mutant of SReadReport: running is tested again after the read
    /\ sPc = "read"
    /\ usb[target] = "present"
    /\ seq' = Succ(seq)
    /\ SGoto(IF running THEN "send" ELSE "unbind")
    /\ UNCHANGED <<netVars, sOpen, running, stopPc, listed, target, claimed, rVars>>

(* readReport got a report: the next sequence number is taken. *)
SReadReport ==
    /\ sPc = "read"
    /\ usb[target] = "present"
    /\ seq' = Succ(seq)
    /\ SGoto("send")
    /\ UNCHANGED <<netVars, sOpen, running, stopPc, listed, target, claimed, rVars>>

SReadNullCounts ==        \* mutant of SReadNull: the number is taken before the null test
    /\ sPc = "read"
    /\ seq' = Succ(seq)
    /\ SGoto("stream")
    /\ UNCHANGED <<netVars, sOpen, running, stopPc, listed, target, claimed, rVars>>

(* readReport returned null: a timeout, an empty packet, or any error of    *)
(* the bulk transfer, the one of an unplugged device included.              *)
SReadNull ==
    /\ sPc = "read"
    /\ SGoto("stream")
    /\ UNCHANGED <<netVars, sOpen, running, stopPc, listed, target, claimed, seq, rVars>>

SSend ==
    /\ sPc = "send"
    /\ SWrites(ReportIn(seq))
    /\ SGoto("stream")
    /\ UNCHANGED <<usb, link, toS, fault, sOpen, running, stopPc, listed, target,
                   claimed, seq, rVars>>

SSendFails ==
    /\ sPc = "send" /\ SWriteMayFail
    /\ SGoto("unbind")
    /\ UNCHANGED <<netVars, sOpen, running, stopPc, listed, target, claimed, seq, rVars>>

(* The polite UNBIND; a failure to write it is ignored. *)
SUnbind ==
    /\ sPc = "unbind"
    /\ SGoto("release")
    /\ \/ SWrites(Msg("UNBIND"))
       \/ SWriteMayFail /\ UNCHANGED toR
    /\ UNCHANGED <<usb, link, toS, fault, sOpen, running, stopPc, listed, target,
                   claimed, seq, rVars>>

(* finally: ep.close() *)
SRelease ==
    /\ sPc = "release"
    /\ claimed' = None
    /\ SGoto("closing")
    /\ UNCHANGED <<netVars, sOpen, running, stopPc, listed, target, seq, rVars>>

(* socket.close(): what the peer sent and we did not read is discarded, the *)
(* peer sees the end of the stream.  A second close does nothing.           *)
SSocketClose ==
    /\ sOpen' = FALSE
    /\ toS' = IF sOpen THEN <<>> ELSE toS
    /\ toR' = IF sOpen THEN Carried(toR, rOpen, Fin) ELSE toR

(* finally of run(): socket.close() *)
SClose ==
    /\ sPc = "closing"
    /\ SSocketClose
    /\ SGoto("done")
    /\ UNCHANGED <<usb, link, fault, running, stopPc, listed, target, claimed, seq, rVars>>

(* stop(), on the service's thread, in its two steps. *)
SStopFlag ==
    /\ stopPc = "idle"
    /\ stopPc' = "flagged"
    /\ running' = FALSE
    /\ UNCHANGED <<netVars, sPc, sOpen, listed, target, claimed, seq, rVars>>

SStopClose ==
    /\ stopPc = "flagged"
    /\ stopPc' = "closed"
    /\ SSocketClose
    /\ UNCHANGED <<usb, link, fault, sPc, running, listed, target, claimed, seq, rVars>>

-----------------------------------------------------------------------------
(* Receiver: run_receive on its only thread. *)

RGoto(pc) == rPc' = pc

RReads == toR # <<>> /\ Head(toR).op # "FIN"

RRequest(m) == toS' = Carried(toS, sOpen, m)

(* An unexpected reply: bail!, every value is dropped. *)
RUnexpected ==
    /\ RGoto("drop")
    /\ fault' = "unexpected"
    /\ UNCHANGED <<toS, chosen>>

RHello ==
    /\ rPc = "start"
    /\ RGoto("hello_ack")
    /\ RRequest(Msg("HELLO"))
    /\ UNCHANGED <<usb, link, toR, fault, sVars, rOpen, stop, wanted, chosen, device,
                   last_seq, jumped, early>>

RHelloAck ==
    /\ rPc = "hello_ack" /\ RReads
    /\ toR' = Tail(toR)
    /\ IF Head(toR).op = "HELLO_ACK"
       THEN /\ RGoto("device_list") /\ RRequest(Msg("LIST_DEVICES"))
            /\ UNCHANGED <<fault, chosen>>
       ELSE RUnexpected
    /\ UNCHANGED <<usb, link, sVars, rOpen, stop, wanted, device, last_seq, jumped, early>>

PickableAny(devs) == devs \cap HidDevices    \* mutant of Pickable: --busid is ignored

(* pick_hid_device: the device named by --busid if the sender lists it,     *)
(* else some HID device of the list.                                        *)
Pickable(devs) ==
    IF wanted # None THEN devs \cap {wanted} ELSE devs \cap HidDevices

RDeviceList ==
    /\ rPc = "device_list" /\ RReads
    /\ toR' = Tail(toR)
    /\ IF Head(toR).op # "DEVICE_LIST"
       THEN RUnexpected
       ELSE /\ UNCHANGED fault
            /\ \/ \E d \in Pickable(Head(toR).devices) :
                    /\ chosen' = d
                    /\ RGoto("attach_ok")
                    /\ RRequest(Attach(d))
               \/ /\ Pickable(Head(toR).devices) = {}
                  /\ RGoto("drop")
                  /\ UNCHANGED <<toS, chosen>>
    /\ UNCHANGED <<usb, link, sVars, rOpen, stop, wanted, device, last_seq, jumped, early>>

RAttachOk ==
    /\ rPc = "attach_ok" /\ RReads
    /\ toR' = Tail(toR)
    /\ CASE Head(toR).op = "ATTACH_OK" ->
              RGoto("loop") /\ RRequest(Msg("BIND")) /\ UNCHANGED <<fault, chosen>>
         [] Head(toR).op = "ATTACH_DENIED" ->
              RGoto("drop") /\ UNCHANGED <<toS, fault, chosen>>
         [] OTHER -> RUnexpected
    /\ UNCHANGED <<usb, link, sVars, rOpen, stop, wanted, device, last_seq, jumped, early>>

RLoopForever ==           \* mutant of RLoop: stop is only tested before the session
    /\ rPc = "loop"
    /\ RGoto("recv")
    /\ UNCHANGED <<netVars, sVars, rOpen, stop, wanted, chosen, device, last_seq,
                   jumped, early>>

(* Head of the session loop: while !stop. *)
RLoop ==
    /\ rPc = "loop"
    /\ RGoto(IF stop THEN "drop" ELSE "recv")
    /\ UNCHANGED <<netVars, sVars, rOpen, stop, wanted, chosen, device, last_seq,
                   jumped, early>>

(* BindAck: open_device creates the uinput device; it bails out on a        *)
(* gamepad or unknown kind and when uinput refuses.                         *)
RBindAck ==
    /\ rPc = "recv" /\ RReads /\ Head(toR).op = "BIND_ACK"
    /\ toR' = Tail(toR)
    /\ \/ /\ Head(toR).kind \in {"mouse", "keyboard"}
          /\ device' = Head(toR).busid
          /\ RGoto("loop")
       \/ RGoto("drop") /\ UNCHANGED device
    /\ UNCHANGED <<usb, link, toS, fault, sVars, rOpen, stop, wanted, chosen, last_seq,
                   jumped, early>>

IsJumpNoWrap(n) == n # last_seq + 1 /\ last_seq # 0    \* mutant of IsJump: no wrapping_add

(* The check in front of the seq_jump event. *)
IsJump(n) == n # Succ(last_seq) /\ last_seq # 0

RReportForgets ==         \* mutant of RReport: last_seq is not assigned
    /\ rPc = "recv" /\ RReads /\ Head(toR).op = "REPORT_IN"
    /\ toR' = Tail(toR)
    /\ RGoto("loop")
    /\ UNCHANGED <<usb, link, toS, fault, sVars, rOpen, stop, wanted, chosen, device,
                   last_seq, jumped, early>>

(* ReportIn: note a jump, remember the number, apply the report if there is *)
(* a device; apply_report fails when uinput does.                           *)
RReport ==
    /\ rPc = "recv" /\ RReads /\ Head(toR).op = "REPORT_IN"
    /\ toR' = Tail(toR)
    /\ jumped' = (jumped \/ IsJump(Head(toR).seq))
    /\ last_seq' = Head(toR).seq
    /\ early' = (early \/ device = None)
    /\ \/ RGoto("loop")
       \/ device # None /\ RGoto("drop")
    /\ UNCHANGED <<usb, link, toS, fault, sVars, rOpen, stop, wanted, chosen, device>>

RUnbind ==
    /\ rPc = "recv" /\ RReads /\ Head(toR).op = "UNBIND"
    /\ toR' = Tail(toR)
    /\ RGoto("drop")
    /\ UNCHANGED <<usb, link, toS, fault, sVars, rOpen, stop, wanted, chosen, device,
                   last_seq, jumped, early>>

RReadFailsRetries ==      \* mutant of RReadFails: the session loop reads on after an error
    /\ rPc \in {"hello_ack", "device_list", "attach_ok", "recv"}
    /\ toR # <<>> /\ Head(toR).op = "FIN"
    /\ RGoto(IF rPc = "recv" THEN "loop" ELSE "drop")
    /\ UNCHANGED <<netVars, sVars, rOpen, stop, wanted, chosen, device, last_seq,
                   jumped, early>>

(* recv_envelope fails at the end of the stream; there is no read timeout.  *)
RReadFails ==
    /\ rPc \in {"hello_ack", "device_list", "attach_ok", "recv"}
    /\ toR # <<>> /\ Head(toR).op = "FIN"
    /\ RGoto("drop")
    /\ UNCHANGED <<netVars, sVars, rOpen, stop, wanted, chosen, device, last_seq,
                   jumped, early>>

(* drop(device): uinput Drop destroys the virtual device... *)
RDrop ==
    /\ rPc = "drop"
    /\ device' = None
    /\ RGoto("close")
    /\ UNCHANGED <<netVars, sVars, rOpen, stop, wanted, chosen, last_seq, jumped, early>>

(* ...and only then the socket goes, with what was not read from it. *)
RClose ==
    /\ rPc = "close"
    /\ RGoto("done")
    /\ rOpen' = FALSE
    /\ toR' = <<>>
    /\ toS' = Carried(toS, sOpen, Fin)
    /\ UNCHANGED <<usb, link, fault, sVars, stop, wanted, chosen, device, last_seq,
                   jumped, early>>

(* Ctrl-C: the handler sets the flag, nothing interrupts a blocking read.   *)
RStop ==
    /\ ~stop
    /\ stop' = TRUE
    /\ UNCHANGED <<netVars, sVars, rPc, rOpen, wanted, chosen, device, last_seq,
                   jumped, early>>

-----------------------------------------------------------------------------
(* Environment. *)

(* The Android process is killed: its descriptors go, the kernel releases   *)
(* the interface and closes the connection.                                 *)
SKilled ==
    /\ sPc # "done"
    /\ SGoto("done")
    /\ claimed' = None
    /\ stopPc' = "closed"
    /\ SSocketClose
    /\ UNCHANGED <<usb, link, fault, running, listed, target, seq, rVars>>

(* The receiver is killed: the kernel destroys the uinput device with its   *)
(* descriptor and closes the connection.                                    *)
RKilled ==
    /\ rPc # "done"
    /\ RGoto("done")
    /\ device' = None
    /\ rOpen' = FALSE
    /\ toR' = <<>>
    /\ toS' = Carried(toS, sOpen, Fin)
    /\ UNCHANGED <<usb, link, fault, sVars, stop, wanted, chosen, last_seq, jumped, early>>

Plug(d) ==
    /\ usb[d] = "absent"
    /\ usb' = [usb EXCEPT ![d] = "present"]
    /\ UNCHANGED <<link, toS, toR, fault, sVars, rVars>>

Unplug(d) ==
    /\ usb[d] = "present"
    /\ usb' = [usb EXCEPT ![d] = "gone"]
    /\ UNCHANGED <<link, toS, toR, fault, sVars, rVars>>

(* A request the dead network swallowed is retransmitted until TCP gives    *)
(* up, and the read fails; once the sender has answered BIND there is none. *)
RTimesOut ==
    /\ link = "down" /\ device = None
    /\ rPc \in {"hello_ack", "device_list", "attach_ok", "recv"}
    /\ RGoto("drop")
    /\ UNCHANGED <<netVars, sVars, rOpen, stop, wanted, chosen, device, last_seq,
                   jumped, early>>

(* The network goes away: some prefix of each queue had been delivered. *)
LinkDown ==
    /\ link = "up"
    /\ link' = "down"
    /\ \E k \in 0 .. Len(toR) : toR' = SubSeq(toR, 1, k)
    /\ \E k \in 0 .. Len(toS) : toS' = SubSeq(toS, 1, k)
    /\ UNCHANGED <<usb, fault, sVars, rVars>>

-----------------------------------------------------------------------------
SenderThread ==
    \/ SHello \/ SList \/ SAttach \/ SBind \/ SReadFails
    \/ SBindAck \/ SBindAckFails \/ SLoop \/ SReadReport \/ SReadNull
    \/ SSend \/ SSendFails \/ SUnbind \/ SRelease \/ SClose

Stopper == SStopFlag \/ SStopClose

Receiver ==
    \/ RHello \/ RHelloAck \/ RDeviceList \/ RAttachOk \/ RLoop
    \/ RBindAck \/ RReport \/ RUnbind \/ RReadFails \/ RDrop \/ RClose

Environment ==
    \/ \E d \in Devices : Plug(d) \/ Unplug(d)
    \/ LinkDown
    \/ RTimesOut
    \/ RStop
    \/ SKilled
    \/ RKilled

Next == SenderThread \/ Stopper \/ Receiver \/ Environment

Spec == Init /\ [][Next]_vars

(* Threads run: the sender's, the receiver's, and a stop() that has begun.  *)
(* Writes towards a dead peer do not succeed for ever (RST, or TCP's        *)
(* retransmission limit).  Nothing is assumed of users, devices or network. *)
Fairness ==
    /\ WF_vars(SenderThread)
    /\ WF_vars(Receiver)
    /\ WF_vars(SStopClose)
    /\ SF_vars(SSendFails)

FairSpec == Spec /\ Fairness

-----------------------------------------------------------------------------
(* Every variable keeps its type. *)
TypeOK ==
    /\ usb \in [Devices -> {"absent", "present", "gone"}]
    /\ link \in {"up", "down"}
    /\ toS \in Seq(ToSenderMsg)
    /\ toR \in Seq(ToReceiverMsg)
    /\ fault \in {"none", "unexpected", "denied"}
    /\ sPc \in {"hello", "list", "attach", "bind", "ack", "stream", "read", "send",
                "unbind", "release", "closing", "done"}
    /\ sOpen \in BOOLEAN /\ running \in BOOLEAN
    /\ stopPc \in {"idle", "flagged", "closed"}
    /\ listed \subseteq Devices
    /\ target \in Devices \cup {None} /\ claimed \in Devices \cup {None}
    /\ seq \in Seqs
    /\ rPc \in {"start", "hello_ack", "device_list", "attach_ok", "loop", "recv",
                "drop", "close", "done"}
    /\ rOpen \in BOOLEAN /\ stop \in BOOLEAN
    /\ wanted \in Devices \cup {None} /\ chosen \in Devices \cup {None}
    /\ device \in Devices \cup {None}
    /\ last_seq \in Seqs
    /\ jumped \in BOOLEAN /\ early \in BOOLEAN

(* The two handshakes stay in step: neither run() nor run_receive ever gets *)
(* a message of another step, and a device the sender has just listed is    *)
(* never denied, even if it is unplugged before ATTACH arrives.             *)
NoFault == fault = "none"

(* The virtual device stands for the device the receiver asked for: it is a *)
(* HID device, it is the sender's target, and the sender either still holds *)
(* its interface or has left the binding.                                   *)
BindingAgreed ==
    device # None =>
        /\ device = chosen /\ device = target
        /\ device \in HidDevices
        /\ wanted \in {None, device}
        /\ claimed = device \/ sPc \in {"closing", "done"}

(* However a side ends, it leaves nothing behind: a finished session holds  *)
(* no interface, and no virtual device outlives its connection ("destroy    *)
(* the uinput device before the socket").                                   *)
TornDown ==
    /\ sPc \in {"closing", "done"} => claimed = None
    /\ sPc = "done" => ~sOpen
    /\ ~rOpen => device = None

(* The receiver never has anything to complain of: it logs no seq_jump (the *)
(* sender's 16-bit counter and its own wrapping comparison agree across the *)
(* wrap), and no report reaches it before it has a device for it.  In       *)
(* particular packet loss makes no jump, though docs/hardware-verify.md     *)
(* (369-374) explains the line by it: TCP delivers everything in order, and *)
(* the sender numbers the reports it reads from the device, so that one the *)
(* device loses before leaves no gap either.                                *)
NoComplaint == ~jumped /\ ~early

(* Reports are applied in the order they were read and none is left out:    *)
(* last_seq only ever advances by one, over the wrap too.  (A second report *)
(* with the same number leaves last_seq alone: NoComplaint sees that one,   *)
(* as a jump, unless the number is 0.)                                      *)
AppliedInOrder == [][last_seq' = Succ(last_seq)]_last_seq

(* An UNBIND that reaches the receiver is the end of the stream: when it is *)
(* next to be read, every report the sender took from the device has been   *)
(* applied.                                                                 *)
UnbindIsLast ==
    (toR # <<>> /\ Head(toR).op = "UNBIND") => last_seq = seq

(* stop() ends the session and frees the interface, wherever the session    *)
(* thread was.                                                              *)
StopEndsSession == ~running ~> (sPc = "done" /\ claimed = None)

(* When the sender's side is over and the network is there, the receiver    *)
(* leaves its blocking read and destroys its device.                        *)
EndReachesReceiver == ~sOpen ~> (rPc = "done" \/ link = "down")

(* A report under way is applied, unless the network drops it or the        *)
(* receiver ends.                                                           *)
ReportsArrive ==
    \A n \in Seqs :
        (\E i \in DOMAIN toR : toR[i] = ReportIn(n))
            ~> (last_seq = n \/ rPc = "done" \/ link = "down")

(* Ctrl-C ends the receiver, though it only sets a flag: unless it is in a  *)
(* read on which nothing ever arrives again.                                *)
CtrlCNoticed ==
    stop ~> \/ rPc = "done"
            \/ [](rPc \in {"hello_ack", "device_list", "attach_ok", "recv"} /\ toR = <<>>)

-----------------------------------------------------------------------------
(* What the documentation says of the session and the code does not do.     *)

(* "Unplug the mouse from the phone. The receiver should [...] exit         *)
(* cleanly": an unplugged device ends the session on both sides.            *)
UnplugEndsReceiver ==
    (device # None /\ usb[device] = "gone") ~> (rPc = "done" \/ link = "down")
=============================================================================
