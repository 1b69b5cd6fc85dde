------------------------------ MODULE UrbPump ------------------------------
(***************************************************************************)
(* The Android USB/IP pump: UsbIpHost.pumpUrbs on its thread, stop() from  *)
(* another one, the USB device, and the vhci-hcd of the receiver's kernel  *)
(* as the client (external).  The pump reads a stream of 48-byte headers,  *)
(* an OUT header followed by its body, executes each URB inline and writes *)
(* one reply.  The packet descriptors behind an isochronous URB it leaves  *)
(* in the stream.                                                          *)
(***************************************************************************)
EXTENDS Integers, Sequences, FiniteSets

CONSTANTS
    Eps,             \* endpoint addresses a URB may name
    EpType,          \* control (ep 0), data (bulk or interrupt), isoc, none (no such endpoint)
    Ifaces,          \* interfaces of the device
    PacketCounts,    \* packets an isochronous URB may have
    SeqMod,          \* seqnums are taken modulo this (2^32)
    MaxAwaiting,     \* commands the client has under way at once
    NetCap           \* replies TCP buffers before a write blocks

ASSUME PumpAssumption ==
    /\ EpType \in [Eps -> {"control", "data", "isoc", "none"}]
    /\ PacketCounts \subseteq Nat \ {0}
    /\ SeqMod \in Nat \ {0}
    /\ MaxAwaiting \in Nat \ {0}
    /\ NetCap \in Nat \ {0}

VARIABLES
    (* pump *)
    pc, cmd,         \* the command taken from the stream
    reply,           \* the answer being written
    cancelled, stopped, claimed,
    desync,          \* what was taken for a header: none, body, packets
    (* the connection *)
    in,              \* commands not yet read, each with its body and descriptors
    bodyLeft,        \* the body of the last header read is still in the stream
    packetsLeft,     \* and so are this many packet descriptors
    out, lost,
    responsive,      \* the device answers transfers
    (* client: vhci-hcd *)
    awaiting, next

pumpVars   == <<pc, cmd, reply, cancelled, claimed, desync>>
clientVars == <<awaiting, next>>
vars == <<pumpVars, stopped, in, bodyLeft, packetsLeft, out, lost, responsive,
          clientVars>>

-----------------------------------------------------------------------------
Seqnums == 0 .. SeqMod - 1

(* body: an OUT transfer with a non-empty buffer.  packets: the packet      *)
(* descriptors of an isochronous one, behind the body.                      *)
Submit(n, e, b, p) ==
    [op |-> "SUBMIT", seqnum |-> n, ep |-> e, body |-> b, packets |-> p]
Unlink(n, t) == [op |-> "UNLINK", seqnum |-> n, unlinkSeqnum |-> t]
Commands == [op : {"SUBMIT"}, seqnum : Seqnums, ep : Eps, body : BOOLEAN,
             packets : PacketCounts \cup {0}]
              \cup [op : {"UNLINK"}, seqnum : Seqnums, unlinkSeqnum : Seqnums]

Statuses == {"ok", "ECONNRESET", "ENODEV", "EOPNOTSUPP", "ETIMEDOUT"}
Ret(c, s) == [op |-> c.op, seqnum |-> c.seqnum, status |-> s]
Rets == [op : {"SUBMIT", "UNLINK"}, seqnum : Seqnums, status : Statuses]

(* Sizes in bytes of a header and of a packet descriptor. *)
HeaderLen == 48
PacketLen == 16

NoCmd == [op |-> "NONE"]
NoRet == [op |-> "NONE"]

(* The constructor claims what it can of the interfaces; a claim that fails *)
(* is only logged.                                                          *)
Init ==
    /\ pc = "loop" /\ cmd = NoCmd /\ reply = NoRet
    /\ cancelled = {} /\ stopped = FALSE
    /\ claimed \in SUBSET Ifaces
    /\ desync = "none"
    /\ in = <<>> /\ bodyLeft = FALSE /\ packetsLeft = 0 /\ out = <<>> /\ lost = FALSE
    /\ responsive = TRUE
    /\ awaiting = <<>> /\ next = 0

-----------------------------------------------------------------------------
(* The pump's thread. *)

PLoopForever ==          \* mutant of PLoop: while (true)
    /\ pc = "loop"
    /\ pc' = "header"
    /\ UNCHANGED <<cmd, reply, cancelled, claimed, desync, stopped, in, bodyLeft, packetsLeft, out,
                   lost, responsive, clientVars>>

(* while (!stopped.get()) *)
PLoop ==
    /\ pc = "loop"
    /\ pc' = IF stopped THEN "cleanup" ELSE "header"
    /\ UNCHANGED <<cmd, reply, cancelled, claimed, desync, stopped, in, bodyLeft, packetsLeft, out,
                   lost, responsive, clientVars>>

(* readFully gets 48 bytes: of the next command, or of the descriptors that *)
(* nobody read, with the beginning of the next command when they are fewer. *)
OutOfFrame == bodyLeft \/ packetsLeft > 0
HeaderThere == in # <<>> \/ packetsLeft * PacketLen >= HeaderLen

PHeaderControlBody ==    \* mutant of PHeader: only data endpoints have OUT bodies
    /\ pc = "header" /\ HeaderThere
    /\ IF OutOfFrame
       THEN /\ pc' = "cleanup" /\ desync' = IF bodyLeft THEN "body" ELSE "packets"
            /\ UNCHANGED <<cmd, in, bodyLeft, packetsLeft>>
       ELSE /\ cmd' = Head(in) /\ in' = Tail(in)
            /\ bodyLeft' = (cmd'.op = "SUBMIT" /\ cmd'.body)
            /\ packetsLeft' = IF cmd'.op = "SUBMIT" THEN cmd'.packets ELSE 0
            /\ pc' = CASE cmd'.op = "UNLINK" -> "unlink"
                       [] bodyLeft' /\ EpType[cmd'.ep] = "data" -> "body"
                       [] OTHER -> "dispatch"
            /\ UNCHANGED desync
    /\ UNCHANGED <<reply, cancelled, claimed, stopped, out, lost, responsive, clientVars>>

(* A header is read and its command looked at.  Bytes of a body, or of a    *)
(* packet descriptor (its first word is the packet's offset, 0), are an     *)
(* unknown command: the loop is left.                                       *)
PHeader ==
    /\ pc = "header" /\ HeaderThere
    /\ IF OutOfFrame
       THEN /\ pc' = "cleanup" /\ desync' = IF bodyLeft THEN "body" ELSE "packets"
            /\ UNCHANGED <<cmd, in, bodyLeft, packetsLeft>>
       ELSE /\ cmd' = Head(in) /\ in' = Tail(in)
            /\ bodyLeft' = (cmd'.op = "SUBMIT" /\ cmd'.body)
            /\ packetsLeft' = IF cmd'.op = "SUBMIT" THEN cmd'.packets ELSE 0
            /\ pc' = CASE cmd'.op = "UNLINK" -> "unlink"
                       [] bodyLeft' -> "body"
                       [] OTHER -> "dispatch"
            /\ UNCHANGED desync
    /\ UNCHANGED <<reply, cancelled, claimed, stopped, out, lost, responsive, clientVars>>

PEofSpins ==             \* mutant of PEof: the loop goes on when readFully fails
    /\ lost
    /\ (pc = "header" /\ in = <<>>) \/ pc = "body"
    /\ pc' = "loop"
    /\ UNCHANGED <<cmd, reply, cancelled, claimed, desync, stopped, in, bodyLeft, packetsLeft, out,
                   lost, responsive, clientVars>>

(* readFully meets the end of the stream: break at a header, IOException    *)
(* inside a body.                                                           *)
PEof ==
    /\ lost
    /\ (pc = "header" /\ in = <<>>) \/ pc = "body"
    /\ pc' = "cleanup"
    /\ UNCHANGED <<cmd, reply, cancelled, claimed, desync, stopped, in, bodyLeft, packetsLeft, out,
                   lost, responsive, clientVars>>

(* handleSubmit reads the body before it looks at the command. *)
PBody ==
    /\ pc = "body"
    /\ bodyLeft' = FALSE
    /\ pc' = "dispatch"
    /\ UNCHANGED <<cmd, reply, cancelled, claimed, desync, stopped, in, packetsLeft, out,
                   lost, responsive, clientVars>>

PAnswer(s) == reply' = Ret(cmd, s) /\ pc' = "reply"

PDispatchIsoBulk ==      \* mutant of PDispatch: an isochronous URB goes to bulkTransfer
    /\ pc = "dispatch"
    /\ IF cmd.seqnum \in cancelled
       THEN PAnswer("ECONNRESET") /\ cancelled' = cancelled \ {cmd.seqnum}
       ELSE /\ UNCHANGED cancelled
            /\ CASE EpType[cmd.ep] = "none" -> PAnswer("ENODEV")
                 [] OTHER -> pc' = "transfer" /\ UNCHANGED reply
    /\ UNCHANGED <<cmd, claimed, desync, stopped, in, bodyLeft, packetsLeft, out, lost,
                   responsive, clientVars>>

PDispatchSilent ==       \* mutant of PDispatch: an isochronous URB is only logged
    /\ pc = "dispatch"
    /\ IF cmd.seqnum \in cancelled
       THEN PAnswer("ECONNRESET") /\ cancelled' = cancelled \ {cmd.seqnum}
       ELSE /\ UNCHANGED cancelled
            /\ CASE EpType[cmd.ep] = "none" -> PAnswer("ENODEV")
                 [] EpType[cmd.ep] = "isoc" -> pc' = "loop" /\ UNCHANGED reply
                 [] OTHER -> pc' = "transfer" /\ UNCHANGED reply
    /\ UNCHANGED <<cmd, claimed, desync, stopped, in, bodyLeft, packetsLeft, out, lost, responsive,
                   clientVars>>

(* A cancelled URB, an endpoint the device does not have and an isochronous *)
(* one are answered at once.                                                *)
PDispatch ==
    /\ pc = "dispatch"
    /\ IF cmd.seqnum \in cancelled
       THEN PAnswer("ECONNRESET") /\ cancelled' = cancelled \ {cmd.seqnum}
       ELSE /\ UNCHANGED cancelled
            /\ CASE EpType[cmd.ep] = "none" -> PAnswer("ENODEV")
                 [] EpType[cmd.ep] = "isoc" -> PAnswer("EOPNOTSUPP")
                 [] OTHER -> pc' = "transfer" /\ UNCHANGED reply
    /\ UNCHANGED <<cmd, claimed, desync, stopped, in, bodyLeft, packetsLeft, out, lost, responsive,
                   clientVars>>

PTransferNoTimeout ==    \* mutant of PTransfer: timeout 0, the transfer waits for ever
    /\ pc = "transfer"
    /\ responsive /\ PAnswer("ok")
    /\ UNCHANGED <<cmd, cancelled, claimed, desync, stopped, in, bodyLeft, packetsLeft, out, lost,
                   responsive, clientVars>>

PTransferSilent ==       \* mutant of PTransfer: a failed transfer is only logged
    /\ pc = "transfer"
    /\ \/ responsive /\ PAnswer("ok")
       \/ pc' = "loop" /\ UNCHANGED reply
    /\ UNCHANGED <<cmd, cancelled, claimed, desync, stopped, in, bodyLeft, packetsLeft, out, lost,
                   responsive, clientVars>>

(* controlTransfer or bulkTransfer: the device answers, or the call fails,  *)
(* at the latest when its timeout is over.                                  *)
PTransfer ==
    /\ pc = "transfer"
    /\ \/ responsive /\ PAnswer("ok")
       \/ PAnswer("ETIMEDOUT")
    /\ UNCHANGED <<cmd, cancelled, claimed, desync, stopped, in, bodyLeft, packetsLeft, out, lost,
                   responsive, clientVars>>

(* handleUnlink *)
PUnlink ==
    /\ pc = "unlink"
    /\ cancelled' = cancelled \cup {cmd.unlinkSeqnum}
    /\ PAnswer("ok")
    /\ UNCHANGED <<cmd, claimed, desync, stopped, in, bodyLeft, packetsLeft, out, lost, responsive,
                   clientVars>>

(* sendRetSubmit, encodeRetUnlink, writeFrame *)
PReply ==
    /\ pc = "reply" /\ Len(out) < NetCap
    /\ out' = IF lost THEN out ELSE Append(out, reply)
    /\ pc' = "loop" /\ cmd' = NoCmd /\ reply' = NoRet
    /\ UNCHANGED <<cancelled, claimed, desync, stopped, in, bodyLeft, packetsLeft, lost, responsive,
                   clientVars>>

(* writeEnvelope throws: the finally of pumpUrbs. *)
PReplyFails ==
    /\ pc = "reply" /\ lost
    /\ pc' = "cleanup"
    /\ UNCHANGED <<cmd, reply, cancelled, claimed, desync, stopped, in, bodyLeft, packetsLeft, out,
                   lost, responsive, clientVars>>

(* finally: cleanup() *)
PCleanup ==
    /\ pc = "cleanup"
    /\ claimed' = {}
    /\ pc' = "done"
    /\ UNCHANGED <<cmd, reply, cancelled, desync, stopped, in, bodyLeft, packetsLeft, out, lost,
                   responsive, clientVars>>

(* stop(): only the flag. *)
PStop ==
    /\ ~stopped
    /\ stopped' = TRUE
    /\ UNCHANGED <<pumpVars, in, bodyLeft, packetsLeft, out, lost, responsive, clientVars>>

-----------------------------------------------------------------------------
(* The client and the device. *)

AwaitedSeqnums == {awaiting[i].seqnum : i \in DOMAIN awaiting}

CSend(c) ==
    /\ ~lost /\ pc # "done"
    /\ Len(awaiting) < MaxAwaiting /\ next \notin AwaitedSeqnums
    /\ next' = (next + 1) % SeqMod
    /\ awaiting' = Append(awaiting, c)
    /\ in' = Append(in, c)
    /\ UNCHANGED <<pumpVars, stopped, bodyLeft, packetsLeft, out, lost, responsive>>

(* An isochronous URB has at least one packet, no other has any. *)
Packets(e) == IF EpType[e] = "isoc" THEN PacketCounts ELSE {0}
CSubmit(e, b, p) == p \in Packets(e) /\ CSend(Submit(next, e, b, p))

(* A URB that has not come back is unlinked, once. *)
Submitted == {awaiting[i].seqnum : i \in {j \in DOMAIN awaiting : awaiting[j].op = "SUBMIT"}}
Unlinked == {awaiting[i].unlinkSeqnum : i \in {j \in DOMAIN awaiting : awaiting[j].op = "UNLINK"}}
CUnlink(t) == t \in Submitted \ Unlinked /\ CSend(Unlink(next, t))

(* A reply: the command of this seqnum is done, whichever it is.  (One      *)
(* that answers no command vhci-hcd takes for a broken connection.)         *)
CReceive ==
    /\ ~lost /\ out # <<>>
    /\ out' = Tail(out)
    /\ \E i \in DOMAIN awaiting :
         /\ awaiting[i].seqnum = Head(out).seqnum
         /\ awaiting' = SubSeq(awaiting, 1, i - 1) \o SubSeq(awaiting, i + 1, Len(awaiting))
    /\ UNCHANGED <<pumpVars, stopped, in, bodyLeft, packetsLeft, lost, responsive, next>>

(* The connection ends or breaks: what had not arrived is gone. *)
CGone ==
    /\ ~lost
    /\ lost' = TRUE
    /\ \E k \in 0 .. Len(in) : in' = SubSeq(in, 1, k)
    /\ out' = <<>> /\ awaiting' = <<>>
    /\ UNCHANGED <<pumpVars, stopped, bodyLeft, packetsLeft, responsive, next>>

(* The device stops answering (hung, or unplugged). *)
DeviceHangs ==
    /\ responsive
    /\ responsive' = FALSE
    /\ UNCHANGED <<pumpVars, stopped, in, bodyLeft, packetsLeft, out, lost, clientVars>>

-----------------------------------------------------------------------------
Pump ==
    \/ PLoop \/ PHeader \/ PEof \/ PBody \/ PDispatch \/ PTransfer \/ PUnlink
    \/ PReply \/ PReplyFails \/ PCleanup

Client ==
    \/ \E e \in Eps, b \in BOOLEAN, p \in PacketCounts \cup {0} : CSubmit(e, b, p)
    \/ \E t \in Seqnums : CUnlink(t)
    \/ CReceive

Next == Pump \/ PStop \/ Client \/ CGone \/ DeviceHangs

Spec == Init /\ [][Next]_vars

(* The pump's thread runs and a transfer ends with its timeout; the kernel  *)
(* takes the replies it is sent.                                            *)
Fairness == WF_vars(Pump) /\ WF_vars(CReceive)

FairSpec == Spec /\ Fairness

-----------------------------------------------------------------------------
(* Every variable keeps its type. *)
TypeOK ==
    /\ pc \in {"loop", "header", "body", "dispatch", "transfer", "unlink", "reply",
               "cleanup", "done"}
    /\ cmd \in Commands \cup {NoCmd}
    /\ reply \in Rets \cup {NoRet}
    /\ cancelled \subseteq Seqnums
    /\ stopped \in BOOLEAN /\ claimed \subseteq Ifaces
    /\ desync \in {"none", "body", "packets"}
    /\ in \in Seq(Commands) /\ bodyLeft \in BOOLEAN /\ packetsLeft \in Nat
    /\ out \in Seq(Rets) /\ lost \in BOOLEAN
    /\ responsive \in BOOLEAN
    /\ awaiting \in Seq(Commands) /\ next \in Seqnums

(* "Bail out rather than desync": the pump never reads body bytes as a      *)
(* header, whatever path the URB with the body took (cancelled, unknown     *)
(* endpoint, control, isochronous, failed transfer).  The descriptors of an *)
(* isochronous URB do come up as a header; by then that URB and all before  *)
(* it are answered, and nothing more of the stream is acted on.             *)
InFrame ==
    /\ desync # "body"
    /\ desync = "packets" => pc \in {"cleanup", "done"} /\ cmd = NoCmd

(* Every command is answered in turn: the reply the client reads next is    *)
(* the one to the command it has waited for longest.  So a long bulk IN     *)
(* does hold up the next CMD_SUBMIT: the worker pool that the comment at    *)
(* UsbIpHost.kt:44-46 describes against this does not exist.                *)
AnsweredInOrder ==
    (out # <<>> /\ awaiting # <<>>) =>
        /\ Head(out).seqnum = awaiting[1].seqnum
        /\ Head(out).op = awaiting[1].op

(* No command is dropped without an answer: when the pump waits for a       *)
(* header and nothing is under way, the client waits for nothing.           *)
NothingForgotten ==
    (pc \in {"loop", "header"} /\ in = <<>> /\ out = <<>>) => awaiting = <<>>

(* The replies pumpUrbs documents for a command (UsbIpHost.kt:139-159);     *)
(* -ECONNRESET is for a URB whose number is in the cancelled set.           *)
AnswersTo(c) ==
    {Ret(c, s) : s \in IF c.op = "UNLINK" THEN {"ok"}
                       ELSE {"ECONNRESET"} \cup CASE EpType[c.ep] = "none" -> {"ENODEV"}
                                                   [] EpType[c.ep] = "isoc" -> {"EOPNOTSUPP"}
                                                   [] OTHER -> {"ok", "ETIMEDOUT"}}

(* The command the pump has read and not answered yet. *)
Serving == {"body", "dispatch", "transfer", "unlink", "reply"}
InHand == IF pc \in Serving THEN <<cmd>> ELSE <<>>

(* The pump implements a URB service: what it has not served is the command *)
(* in hand and the stream behind it, and the one step that serves the first *)
(* of these is the write of its only reply, one that its kind admits.       *)
Service == INSTANCE UrbService WITH
    Commands <- Commands, Answers <- [c \in Commands |-> AnswersTo(c)],
    todo <- IF lost THEN <<>> ELSE InHand \o in, done <- out, gone <- lost
ServesInOrder == Service!Spec

(* A command is answered though the device hangs, unless the pump is        *)
(* stopped, the connection lost, or the pump has met the descriptors of an  *)
(* isochronous URB that came before.                                        *)
CommandsAnswered ==
    \A n \in Seqnums :
        (n \in AwaitedSeqnums) ~> (n \notin AwaitedSeqnums \/ stopped \/ desync = "packets")

(* The end of the connection ends the pump and frees the interfaces. *)
LossEndsPump == lost ~> (pc = "done" /\ claimed = {})

(* stop() ends the pump and frees the interfaces, though it only sets a     *)
(* flag: unless the pump waits for a header that never comes.               *)
StopNoticed ==
    stopped ~> (pc = "done" /\ claimed = {}) \/ [](pc = "header" /\ in = <<>>)

-----------------------------------------------------------------------------
(* What a comment says of the pump and the code does not do. *)

(* "Cancelled-seqnum set; cleared as URBs complete": nothing under way,     *)
(* nothing in the set.                                                      *)
CancelledCleared == (awaiting = <<>> /\ ~lost) => cancelled = {}
=============================================================================
