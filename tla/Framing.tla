------------------------------- MODULE Framing -------------------------------
(***************************************************************************)
(* The byte stream under a session: envelopes (envelope.rs, wire.rs,       *)
(* tls.rs, WireProtocol.kt) that carry control JSON, HID frames (hid.rs)   *)
(* or USB/IP packets (usbip.rs).  A writer encodes messages and hands the  *)
(* bytes to the kernel as it takes them; a reader gets them in pieces that *)
(* do not respect any boundary and reassembles what was written.  Writer   *)
(* and reader are the Rust or the Kotlin implementation.  The other        *)
(* modules take a connection for a queue of messages, which is what        *)
(* MessageChannel says and Framing is shown to implement.                  *)
(*                                                                         *)
(* Bytes are 0..255, 32-bit fields are signed words (a u32 of the Rust     *)
(* code above 2^31 is the negative Int of the Kotlin code).                *)
(***************************************************************************)
EXTENDS Integers, Sequences

CONSTANTS
    MaxPayload,   \* 2^20 in the code
    Messages,     \* per pair: what its writer may send
    Pairs,        \* implementations of a writer and its reader
    MaxSent       \* bound: messages a writer sends

Byte == 0 .. 255
Bytes == Seq(Byte)

ASSUME FramingAssumption ==
    /\ MaxPayload \in Nat /\ MaxSent \in Nat
    /\ Pairs \subseteq {"rust", "kotlin"} \X {"rust", "kotlin"}

-----------------------------------------------------------------------------
(* Numbers: to_be_bytes, from_be_bytes, putInt. *)

BE32(v) ==
    << (v \div 16777216) % 256, (v \div 65536) % 256, (v \div 256) % 256, v % 256 >>
BE16(v) == << (v \div 256) % 256, v % 256 >>

(* read_u32: the word at byte offset off. *)
Word(b, off) ==
    LET top == b[off + 1] IN
    (IF top < 128 THEN top ELSE top - 256) * 16777216
        + b[off + 2] * 65536 + b[off + 3] * 256 + b[off + 4]
Half(b, off) == b[off + 1] * 256 + b[off + 2]

From(b, off) == SubSeq(b, off + 1, Len(b))
Zeros(n) == [i \in 1 .. n |-> 0]

Bad == [ch |-> "bad"]

-----------------------------------------------------------------------------
(* hid.rs: HidFrame, and the body of BIND_ACK. *)

HidOp == [BIND |-> 1, BIND_ACK |-> 2, REPORT_IN |-> 16, REPORT_OUT |-> 17,
          REPORT_FEATURE |-> 18, UNBIND |-> 32]

(* encode_bind_ack_body: the length of the meta JSON, the JSON, the report descriptor. *)
BindAckBody(m) == BE16(Len(m.meta)) \o m.meta \o m.descriptor

EncodeHid(m) ==
    <<HidOp[m.op], m.bind_id>> \o BE16(m.seq)
        \o (IF m.op = "BIND_ACK" THEN BindAckBody(m) ELSE m.body)

(* parse_bind_ack_body, on a body long enough *)
ParseBindAck(body) ==
    LET n == Half(body, 0) IN
    [meta |-> SubSeq(body, 3, 2 + n), descriptor |-> From(body, 2 + n)]

BindAckFits(body) == Len(body) >= 2 /\ Len(body) >= 2 + Half(body, 0)

(* HidFrame::parse, and parse_bind_ack_body where the receiver calls it *)
ParseHid(p) ==
    IF Len(p) < 4 \/ \A o \in DOMAIN HidOp : HidOp[o] # p[1] THEN Bad
    ELSE LET op == CHOOSE o \in DOMAIN HidOp : HidOp[o] = p[1]
             body == From(p, 4)
         IN  IF op # "BIND_ACK"
             THEN [ch |-> "hid", op |-> op, bind_id |-> p[2], seq |-> Half(p, 2), body |-> body]
             ELSE IF ~BindAckFits(body) THEN Bad
             ELSE [ch |-> "hid", op |-> op, bind_id |-> p[2], seq |-> Half(p, 2),
                   meta |-> ParseBindAck(body).meta,
                   descriptor |-> ParseBindAck(body).descriptor]

-----------------------------------------------------------------------------
(* usbip.rs: UsbipFrame around a 48-byte URB header and its body. *)

UrbHeaderLen == 48

(* encode: the words of the header in order, then the setup packet or zeros. *)
UrbHeader(words, rest) ==
    LET fields == [i \in 1 .. 4 * Len(words) |-> BE32(words[(i - 1) \div 4 + 1])[((i - 1) % 4) + 1]]
    IN  fields \o rest \o Zeros(UrbHeaderLen - 4 * Len(words) - Len(rest))

EncodeCmdSubmit(u) ==
    UrbHeader(<<1, u.seqnum, u.devid, u.direction, u.ep, u.transfer_flags,
                u.transfer_buffer_length, u.start_frame, u.number_of_packets, u.interval>>,
              u.setup)

EncodeRetSubmit(u) ==
    UrbHeader(<<3, u.seqnum, u.devid, u.direction, u.ep, u.status, u.actual_length,
                u.start_frame, u.number_of_packets, u.error_count>>, <<>>)

EncodeCmdUnlink(u) ==
    UrbHeader(<<2, u.seqnum, u.devid, u.direction, u.ep, u.unlink_seqnum>>, <<>>)

EncodeRetUnlink(u) ==
    UrbHeader(<<4, u.seqnum, u.devid, u.direction, u.ep, u.status>>, <<>>)

EncodeUrb(u) ==
    CASE u.op = "CMD_SUBMIT" -> EncodeCmdSubmit(u)
      [] u.op = "RET_SUBMIT" -> EncodeRetSubmit(u)
      [] u.op = "CMD_UNLINK" -> EncodeCmdUnlink(u)
      [] u.op = "RET_UNLINK" -> EncodeRetUnlink(u)

(* UsbipFrame::encode of a header and its body *)
EncodeUsbip(m) == BE32(m.import_id) \o EncodeUrb(m.urb) \o m.body

ParseCmdSubmit(h) ==
    [op |-> "CMD_SUBMIT", seqnum |-> Word(h, 4), devid |-> Word(h, 8), direction |-> Word(h, 12),
     ep |-> Word(h, 16), transfer_flags |-> Word(h, 20), transfer_buffer_length |-> Word(h, 24),
     start_frame |-> Word(h, 28), number_of_packets |-> Word(h, 32), interval |-> Word(h, 36),
     setup |-> SubSeq(h, 41, 48)]

ParseRetSubmit(h) ==
    [op |-> "RET_SUBMIT", seqnum |-> Word(h, 4), devid |-> Word(h, 8), direction |-> Word(h, 12),
     ep |-> Word(h, 16), status |-> Word(h, 20), actual_length |-> Word(h, 24),
     start_frame |-> Word(h, 28), number_of_packets |-> Word(h, 32), error_count |-> Word(h, 36)]

ParseCmdUnlink(h) ==
    [op |-> "CMD_UNLINK", seqnum |-> Word(h, 4), devid |-> Word(h, 8), direction |-> Word(h, 12),
     ep |-> Word(h, 16), unlink_seqnum |-> Word(h, 20)]

ParseRetUnlink(h) ==
    [op |-> "RET_UNLINK", seqnum |-> Word(h, 4), devid |-> Word(h, 8), direction |-> Word(h, 12),
     ep |-> Word(h, 16), status |-> Word(h, 20)]

(* peek_urb_op, then the parser of that command *)
ParseUrb(h) ==
    CASE Word(h, 0) = 1 -> ParseCmdSubmit(h)
      [] Word(h, 0) = 2 -> ParseCmdUnlink(h)
      [] Word(h, 0) = 3 -> ParseRetSubmit(h)
      [] Word(h, 0) = 4 -> ParseRetUnlink(h)

(* UsbipFrame::parse, handle_urb_packet and read_ret: import_id, header, body. *)
ParseUsbip(p) ==
    IF Len(p) < 4 + UrbHeaderLen \/ Word(p, 4) \notin 1 .. 4 THEN Bad
    ELSE [ch |-> "usbip", import_id |-> Word(p, 0),
          urb |-> ParseUrb(SubSeq(p, 5, 4 + UrbHeaderLen)), body |-> From(p, 4 + UrbHeaderLen)]

-----------------------------------------------------------------------------
(* envelope.rs: magic, version, channel, length, payload. *)

ChannelByte == [control |-> 1, usbip |-> 2, hid |-> 3, keepalive |-> 127]
HeaderLen == 8

(* Control messages are JSON, of which the bytes are all that matters here. *)
Payload(m) ==
    CASE m.ch = "control" -> m.json
      [] m.ch = "hid" -> EncodeHid(m)
      [] m.ch = "usbip" -> EncodeUsbip(m)
      [] m.ch = "keepalive" -> <<>>

(* Envelope::encode, writeEnvelope *)
Encode(m) == <<90, 87, 1, ChannelByte[m.ch]>> \o BE32(Len(Payload(m))) \o Payload(m)

(* The checks of Envelope::parse and readEnvelope on a header. *)
HeaderOK(b) ==
    /\ b[1] = 90 /\ b[2] = 87 /\ b[3] = 1
    /\ \E ch \in DOMAIN ChannelByte : ChannelByte[ch] = b[4]
    /\ Word(b, 4) \in 0 .. MaxPayload

(* The message in a whole envelope, as the frame codecs see it. *)
Decode(b) ==
    LET p == From(b, HeaderLen) IN
    CASE b[4] = ChannelByte.control -> [ch |-> "control", json |-> p]
      [] b[4] = ChannelByte.usbip -> ParseUsbip(p)
      [] b[4] = ChannelByte.hid -> ParseHid(p)
      [] b[4] = ChannelByte.keepalive -> [ch |-> "keepalive"]

-----------------------------------------------------------------------------
VARIABLES
    pair,       \* who writes and who reads
    wPc,        \* the writer: "open", "closed" in order, "killed"
    sent,       \* the messages it has written
    net,        \* bytes under way
    rPc,        \* the reader: in a "header" or a "payload", at the "end", or "error"
    buf,        \* the bytes it holds of the current envelope
    received    \* the messages it has read

vars == <<pair, wPc, sent, net, rPc, buf, received>>

Writer == pair[1]
Reader == pair[2]

(* send_envelope, writeEnvelope.  The Rust encoder refuses a payload over    *)
(* the limit before it writes anything, and the caller's `?` closes.         *)
Write(m) ==
    /\ wPc = "open" /\ Len(sent) < MaxSent
    /\ IF Writer = "rust" /\ Len(Payload(m)) > MaxPayload
       THEN wPc' = "closed" /\ UNCHANGED <<sent, net>>
       ELSE /\ sent' = Append(sent, m)
            /\ net' = net \o Encode(m)
            /\ UNCHANGED wPc
    /\ UNCHANGED <<pair, rPc, buf, received>>

WCloses ==
    /\ wPc = "open"
    /\ wPc' = "closed"
    /\ UNCHANGED <<pair, sent, net, rPc, buf, received>>

(* The writer, or the link, dies: some of the bytes are lost, see REof. *)
WKilled ==
    /\ wPc = "open"
    /\ wPc' = "killed"
    /\ UNCHANGED <<pair, sent, net, rPc, buf, received>>

LengthWithHeader(b) == Word(b, 4) - HeaderLen   \* mutant of Length: taken to count the header

(* The length field, read from the header without looking at the rest of it. *)
Length(b) == Word(b, 4)

(* What read_exact, readFully still wait for. *)
Wanted == (IF rPc = "header" THEN HeaderLen ELSE HeaderLen + Length(buf)) - Len(buf)

Reading == rPc \in {"header", "payload"}

(* One read() of the loop in read_exact: any piece of what is there. *)
RRead ==
    /\ Reading /\ Wanted # 0
    /\ \E k \in 1 .. Len(net) :
          /\ k <= Wanted
          /\ buf' = buf \o SubSeq(net, 1, k)
          /\ net' = From(net, k)
    /\ UNCHANGED <<pair, wPc, sent, rPc, received>>

(* The header is complete: readEnvelope checks it first, recv_envelope makes *)
(* room for as many bytes as it announces.                                   *)
RHeader ==
    /\ rPc = "header" /\ Wanted = 0
    /\ rPc' = IF Reader = "kotlin" /\ ~HeaderOK(buf) THEN "error" ELSE "payload"
    /\ UNCHANGED <<pair, wPc, sent, net, buf, received>>

(* The envelope is complete: Envelope::parse in Rust, then the frame's codec.*)
RMessage ==
    /\ rPc = "payload" /\ Wanted = 0
    /\ IF (Reader = "rust" /\ ~HeaderOK(buf)) \/ Decode(buf) = Bad
       THEN rPc' = "error" /\ UNCHANGED <<buf, received>>
       ELSE /\ received' = Append(received, Decode(buf))
            /\ rPc' = "header" /\ buf' = <<>>
    /\ UNCHANGED <<pair, wPc, sent, net>>

(* The stream ends, between two envelopes or inside one; a killed writer's   *)
(* at any byte.                                                              *)
REof ==
    /\ Reading /\ Wanted # 0
    /\ wPc = "killed" \/ (wPc = "closed" /\ net = <<>>)
    /\ rPc' = "end" /\ net' = <<>>
    /\ UNCHANGED <<pair, wPc, sent, buf, received>>

-----------------------------------------------------------------------------
Init ==
    /\ pair \in Pairs
    /\ wPc = "open" /\ sent = <<>> /\ net = <<>>
    /\ rPc = "header" /\ buf = <<>> /\ received = <<>>

ReaderStep == RRead \/ RHeader \/ RMessage \/ REof

Next == (\E m \in Messages[pair] : Write(m)) \/ WCloses \/ WKilled \/ ReaderStep

(* The reader's thread runs; a writer may stay idle for ever. *)
FairSpec == Init /\ [][Next]_vars /\ WF_vars(ReaderStep)

-----------------------------------------------------------------------------
(* Properties. *)

Queue == INSTANCE MessageChannel WITH
    Message <- UNION {Messages[p] : p \in Pairs},
    written <- sent, delivered <- received,
    source <- wPc, sink <- (IF Reading THEN "open" ELSE rPc)

(* The byte stream is a queue of messages: whatever pieces the kernel cuts   *)
(* it into, the reader gets what was written, in order, field by field, and  *)
(* nothing else; it never rejects what the other side wrote, and it comes    *)
(* to the end of the stream only when it has it all or the writer was        *)
(* killed, and then it does.                                                 *)
ImplementsQueue == Queue!FairSpec
=============================================================================
