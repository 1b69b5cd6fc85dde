---------------------------- MODULE UsbIpSession ----------------------------
(***************************************************************************)
(* USB/IP sessions of one Linux host: receiver processes, each connected   *)
(* to a sender process of its own, that share nothing but the ports of     *)
(* vhci-hcd.  A receiver drives a script of URBs ("drive"), logs what the  *)
(* sender pushes ("log") or hands its socket to the kernel ("real").  The  *)
(* senders are the programs a Linux host can run: the URB pump fixture,    *)
(* the mock sender in either mode and the HID sender.  Either end may have *)
(* been given a pairing code, which makes it speak TLS.  The kernel is     *)
(* external: it sends raw USB/IP on the socket it was given.               *)
(***************************************************************************)
EXTENDS Integers, Sequences, FiniteSets

CONSTANTS
    Sessions,    \* a receiver with its sender
    Busids, None,
    Codes,       \* pairing codes, --psk
    Setups,      \* how the processes may have been started, see Conf
    NPorts,      \* ports of vhci-hcd
    ExtraBulk,   \* --simulate-drive-urbs
    Reports      \* URBs the mock sender pushes

Ports == 0 .. NPorts - 1

Conf == [mode : {"drive", "log", "real"}, rpsk : Codes \cup {None}, spsk : Codes \cup {None},
         want : Busids \cup {None}, peer : {"pump", "mock", "mockhid", "linux"},
         devs : SUBSET Busids, persistent : BOOLEAN]

ASSUME SetupAssumption ==
    /\ None \notin Busids /\ None \notin Codes
    /\ NPorts \in Nat /\ ExtraBulk \in Nat /\ Reports \in Nat \ {0}
    /\ Setups \subseteq [Sessions -> Conf]
    /\ \A f \in Setups, s \in Sessions :
          /\ f[s].peer # "linux" => Cardinality(f[s].devs) = 1
          /\ f[s].spsk # None => f[s].peer # "linux"

VARIABLES
    conf,    \* the command lines, fixed
    rcv,     \* receiver processes
    snd,     \* sender processes
    up,      \* receiver to sender, the bytes as messages
    down,    \* sender to receiver
    vhci     \* per port: its state and the session whose socket it has

vars == <<conf, rcv, snd, up, down, vhci>>

-----------------------------------------------------------------------------
(* URBs: the script of the driver and what the fake device answers. *)

Urb(seqnum, ep, in, req, wLength, len) ==
    [seqnum |-> seqnum, ep |-> ep, in |-> in, req |-> req, wLength |-> wLength,
     len |-> len, body |-> IF in THEN 0 ELSE len, expect |-> len]

(* script_default: the setup packet is its request and wLength, a body its length. *)
Script ==
    << Urb(1, 0, TRUE, "device", 18, 18),
       Urb(2, 0, TRUE, "config", 9, 9),
       Urb(3, 0, TRUE, "config", 32, 32),
       Urb(4, 0, FALSE, "set", 0, 0),
       Urb(5, 1, TRUE, "none", 0, 64),
       Urb(6, 2, FALSE, "none", 0, 64),
       Urb(7, 1, TRUE, "none", 0, 32) >>
    \o [i \in 1 .. ExtraBulk |-> Urb(99 + i, 1, TRUE, "none", 0, 64)]

DescriptorLen == [device |-> 18, config |-> 32]

(* FakeDevice::mass_storage: bulk IN on endpoint 1, bulk OUT on endpoint 2. *)
HasEndpoint(urb) == urb.ep = IF urb.in THEN 1 ELSE 2

Done(status, len, data) == [status |-> status, len |-> len, data |-> data]

ExecuteControlWhole(urb) ==   \* mutant of ExecuteControl: wLength is not looked at
    IF urb.req \in DOMAIN DescriptorLen
    THEN LET n == DescriptorLen[urb.req] IN Done(0, n, n)
    ELSE Done(0, IF urb.in THEN 0 ELSE urb.body, 0)

(* execute_control: a descriptor cut to wLength, every other request          *)
(* acknowledged.  The script asks for no descriptor the device lacks, which   *)
(* would be -EOPNOTSUPP.                                                      *)
ExecuteControl(urb) ==
    IF urb.in /\ urb.req \in DOMAIN DescriptorLen
    THEN LET n == DescriptorLen[urb.req]
             take == IF urb.wLength < n THEN urb.wLength ELSE n
         IN  Done(0, take, take)
    ELSE Done(0, IF urb.in THEN 0 ELSE urb.body, 0)

(* execute_bulk *)
ExecuteBulk(urb) == IF urb.in THEN Done(0, urb.len, urb.len) ELSE Done(0, urb.body, 0)

(* dispatch_submit: -19 is ENODEV.  The device has no endpoint of another    *)
(* type than bulk beside endpoint 0; one would be -EOPNOTSUPP.               *)
Dispatch(urb) ==
    CASE urb.ep = 0       -> ExecuteControl(urb)
      [] HasEndpoint(urb) -> ExecuteBulk(urb)
      [] OTHER            -> Done(-19, 0, 0)

-----------------------------------------------------------------------------
(* The connections. *)

ImportId(peer) == IF peer = "linux" THEN 1 ELSE 7

(* A connection lasts while a process or the kernel holds its receiving end. *)
RcvOpen(s) == rcv[s].sock \in {"user", "kernel"}
SndOpen(s) == snd[s].pc \notin {"closed", "accept"}

(* What is written to a peer that has gone is lost; the next read says so. *)
Push(chan, s, m, open) == IF open THEN [chan EXCEPT ![s] = Append(@, m)] ELSE chan
Pop(chan, s) == [chan EXCEPT ![s] = Tail(@)]

(* recv_control, recv_envelope: the next message, or the end of the stream. *)
RHas(s, t) == down[s] # <<>> /\ Head(down[s]).t = t
REof(s) == down[s] = <<>> /\ ~SndOpen(s)
SHas(s, t) == up[s] # <<>> /\ Head(up[s]).t = t
SEof(s) == up[s] = <<>> /\ ~RcvOpen(s)

-----------------------------------------------------------------------------
(* The receiver: run_usbip_receive, run_usbip_receive_tls. *)

RGo(s, pc) == [rcv EXCEPT ![s].pc = pc]
REnd(s, result) == [rcv EXCEPT ![s].pc = "done", ![s].result = result, ![s].sock = "closed"]

(* connect_timeout, then HELLO or the start of the TLS handshake.  "local":  *)
(* this host is to blame.                                                    *)
RDial(s) ==
    /\ rcv[s].pc = "dial"
    /\ \/ /\ snd[s].pc = "accept"
          /\ LET tls == conf[s].rpsk # None IN
             /\ rcv' = [rcv EXCEPT ![s].pc = IF tls THEN "tls" ELSE "hello", ![s].sock = "user"]
             /\ up' = [up EXCEPT ![s] = <<[t |-> IF tls THEN "CLIENT_HELLO" ELSE "HELLO"]>>]
          /\ snd' = [snd EXCEPT ![s].pc = IF conf[s].spsk # None THEN "tls" ELSE "hello"]
       \/ /\ rcv' = REnd(s, "local")
          /\ UNCHANGED <<snd, up>>
    /\ UNCHANGED <<conf, down, vhci>>

(* PskIdentity::derive: the certificate is a function of the pairing code    *)
(* alone, and no two codes have the same.                                    *)
Identity(code) == [cert |-> code]

MatchesAny(code, presented) == TRUE    \* mutant of Matches: any certificate will do

(* PinnedPeerVerifier, used in both directions *)
Matches(code, presented) == presented = Identity(code)

(* client_connect: the sender's certificate is checked before the own one is *)
(* sent; then HELLO.  A refusal is told by an alert.                         *)
RTls(s) ==
    /\ rcv[s].pc = "tls" /\ RHas(s, "SERVER_FLIGHT")
    /\ down' = Pop(down, s)
    /\ IF Matches(conf[s].rpsk, Head(down[s]).id)
       THEN /\ up' = IF SndOpen(s)
                     THEN [up EXCEPT ![s] = @ \o <<[t |-> "CLIENT_FLIGHT",
                                                    id |-> Identity(conf[s].rpsk)],
                                                   [t |-> "HELLO"]>>]
                     ELSE up
            /\ rcv' = RGo(s, "hello")
       ELSE /\ up' = Push(up, s, [t |-> "ALERT"], SndOpen(s))
            /\ rcv' = REnd(s, "err")
    /\ UNCHANGED <<conf, snd, vhci>>

(* HELLO_ACK, LIST_DEVICES *)
RHello(s) ==
    /\ rcv[s].pc = "hello" /\ RHas(s, "HELLO_ACK")
    /\ down' = Pop(down, s)
    /\ up' = Push(up, s, [t |-> "LIST"], SndOpen(s))
    /\ rcv' = RGo(s, "list")
    /\ UNCHANGED <<conf, snd, vhci>>

PickDeviceAny(want, devs) == devs   \* mutant of PickDevice: falls back to the first one

(* pick_device: the busid asked for, else the first of the list. *)
PickDevice(want, devs) == IF want = None THEN devs ELSE devs \cap {want}

(* DEVICE_LIST, pick_device, ATTACH *)
RList(s) ==
    /\ rcv[s].pc = "list" /\ RHas(s, "DEVICES")
    /\ down' = Pop(down, s)
    /\ LET devs == PickDevice(conf[s].want, Head(down[s]).devs) IN
       \/ \E d \in devs :
             /\ up' = Push(up, s, [t |-> "ATTACH", busid |-> d], SndOpen(s))
             /\ rcv' = [rcv EXCEPT ![s].pc = "attach", ![s].chosen = d]
       \/ /\ devs = {}
          /\ rcv' = REnd(s, "err")
          /\ UNCHANGED up
    /\ UNCHANGED <<conf, snd, vhci>>

(* ATTACH_OK_USBIP, or the ATTACH_OK of an old sender, which only the        *)
(* receiver without TLS takes; then the three ways on.  SimulatedAttach::   *)
(* create and vhci_available may refuse.                                    *)
RAttach(s) ==
    /\ rcv[s].pc = "attach" /\ RHas(s, "ATTACH_OK")
    /\ down' = Pop(down, s)
    /\ LET m == Head(down[s])
           refused == conf[s].rpsk # None /\ (m.legacy \/ conf[s].mode = "real")
           next == [drive |-> "submit", log |-> "top", real |-> "find"] IN
       \/ /\ ~refused
          /\ rcv' = [rcv EXCEPT ![s].pc = next[conf[s].mode], ![s].imp = m.imp]
       \/ ~refused /\ rcv' = REnd(s, "local")
       \/ refused /\ rcv' = REnd(s, "err")
    /\ UNCHANGED <<conf, snd, up, vhci>>

Awaits == [tls |-> "SERVER_FLIGHT", hello |-> "HELLO_ACK", list |-> "DEVICES",
           attach |-> "ATTACH_OK", ret |-> "RET_SUBMIT", unlinkret |-> "RET_UNLINK"]

(* The `?` of every read and the bail! on another message than the one awaited. *)
RBroken(s) ==
    /\ rcv[s].pc \in DOMAIN Awaits
    /\ REof(s) \/ (down[s] # <<>> /\ ~RHas(s, Awaits[rcv[s].pc]))
    /\ rcv' = REnd(s, "err")
    /\ UNCHANGED <<conf, snd, up, down, vhci>>

(* run_script: CMD_SUBMIT *)
RSubmit(s) ==
    /\ rcv[s].pc = "submit"
    /\ up' = Push(up, s, [t |-> "SUBMIT", imp |-> rcv[s].imp, urb |-> Script[rcv[s].oks + 1]],
                  SndOpen(s))
    /\ rcv' = RGo(s, "ret")
    /\ UNCHANGED <<conf, snd, down, vhci>>

(* run_script: RET_SUBMIT, compared with what the script expects of this URB. *)
(* Its seqnum is not compared.                                                *)
RRet(s) ==
    /\ rcv[s].pc = "ret" /\ RHas(s, "RET_SUBMIT")
    /\ down' = Pop(down, s)
    /\ LET m == Head(down[s])
           urb == Script[rcv[s].oks + 1]
           expected == /\ m.imp = rcv[s].imp /\ m.status = 0 /\ m.len = urb.expect
                       /\ urb.in => m.data = m.len
       IN rcv' = IF ~expected THEN REnd(s, "err")
                 ELSE [rcv EXCEPT
                         ![s].pc = IF rcv[s].oks + 1 = Len(Script) THEN "unlink" ELSE "submit",
                         ![s].oks = @ + 1]
    /\ UNCHANGED <<conf, snd, up, vhci>>

(* run_script: the final CMD_UNLINK *)
RUnlink(s) ==
    /\ rcv[s].pc = "unlink"
    /\ up' = Push(up, s, [t |-> "UNLINK", imp |-> rcv[s].imp], SndOpen(s))
    /\ rcv' = RGo(s, "unlinkret")
    /\ UNCHANGED <<conf, snd, down, vhci>>

RUnlinkRet(s) ==
    /\ rcv[s].pc = "unlinkret" /\ RHas(s, "RET_UNLINK")
    /\ down' = Pop(down, s)
    /\ rcv' = REnd(s, IF Head(down[s]).status = 0 THEN "ok" ELSE "err")
    /\ UNCHANGED <<conf, snd, up, vhci>>

(* run_simulated: the flag is only looked at between two envelopes. *)
RLogTop(s) ==
    /\ rcv[s].pc = "top"
    /\ rcv' = IF rcv[s].stop THEN REnd(s, "ok") ELSE RGo(s, "read")
    /\ UNCHANGED <<conf, snd, up, down, vhci>>

(* record_urb: a line in the transcript, or none because writeln! failed,    *)
(* which it tells nobody; only a transcript that cannot be opened any more   *)
(* ends the session.                                                         *)
RLogFrame(s) ==
    /\ rcv[s].pc = "read" /\ RHas(s, "FRAME")
    /\ down' = Pop(down, s)
    /\ \/ rcv' = [rcv EXCEPT ![s].pc = "top", ![s].lines = @ + 1]
       \/ rcv' = [rcv EXCEPT ![s].pc = "top", ![s].unwritten = @ + 1]
       \/ rcv' = REnd(s, "local")
    /\ UNCHANGED <<conf, snd, up, vhci>>

(* frames of run_simulated, which it logs at its end as "URBs relayed" *)
Relayed(s) == rcv[s].lines + rcv[s].unwritten

RLogEndHup(s) ==        \* mutant of RLogEnd: a hang-up ends the loop with frames unread
    /\ rcv[s].pc = "read" /\ ~SndOpen(s)
    /\ rcv' = REnd(s, "ok")
    /\ UNCHANGED <<conf, snd, up, down, vhci>>

(* run_simulated: Err(_) => break *)
RLogEnd(s) ==
    /\ rcv[s].pc = "read" /\ REof(s)
    /\ rcv' = REnd(s, "ok")
    /\ UNCHANGED <<conf, snd, up, down, vhci>>

(* SIGINT: only the flag; a blocked read goes on. *)
RSignal(s) ==
    /\ conf[s].mode = "log" /\ ~rcv[s].stop /\ rcv[s].pc # "done"
    /\ rcv' = [rcv EXCEPT ![s].stop = TRUE]
    /\ UNCHANGED <<conf, snd, up, down, vhci>>

-----------------------------------------------------------------------------
(* run_real: find_free_port and attach_socket, two accesses to sysfs. *)

LooksFree(p) == vhci[p].sta \in {4, 5}

(* find_free_port *)
RFindPort(s) ==
    /\ rcv[s].pc = "find"
    /\ \/ \E p \in Ports :
             /\ LooksFree(p) /\ \A q \in Ports : LooksFree(q) => p <= q
             /\ rcv' = [rcv EXCEPT ![s].pc = "write", ![s].port = p]
       \/ /\ \A p \in Ports : ~LooksFree(p)
          /\ rcv' = REnd(s, "local")
    /\ UNCHANGED <<conf, snd, up, down, vhci>>

RAttachSocketBlind(s) ==     \* mutant of RAttachSocket: the result of the write is ignored
    /\ rcv[s].pc = "write"
    /\ LET p == rcv[s].port IN
       \/ /\ vhci[p].sta = 4
          /\ vhci' = [vhci EXCEPT ![p] = [sta |-> 5, sess |-> s]]
          /\ rcv' = [rcv EXCEPT ![s].pc = "handed", ![s].sock = "kernel"]
       \/ /\ vhci[p].sta # 4
          /\ rcv' = [rcv EXCEPT ![s].pc = "handed", ![s].sock = "kernel"]
          /\ UNCHANGED vhci
    /\ UNCHANGED <<conf, snd, up, down>>

(* attach_socket opens the file, which may be forbidden, and writes the line; *)
(* the kernel takes a port in state 4 and answers EBUSY for any other         *)
(* (external).                                                                *)
RAttachSocket(s) ==
    /\ rcv[s].pc = "write"
    /\ LET p == rcv[s].port IN
       \/ /\ vhci[p].sta = 4
          /\ vhci' = [vhci EXCEPT ![p] = [sta |-> 5, sess |-> s]]
          /\ rcv' = [rcv EXCEPT ![s].pc = "handed", ![s].sock = "kernel"]
       \/ rcv' = REnd(s, "local") /\ UNCHANGED vhci
    /\ UNCHANGED <<conf, snd, up, down>>

(* run_real: 50 ms later the process drops its descriptor; the kernel keeps the socket. *)
RHanded(s) ==
    /\ rcv[s].pc = "handed"
    /\ rcv' = [rcv EXCEPT ![s].pc = "done", ![s].result = "ok"]
    /\ UNCHANGED <<conf, snd, up, down, vhci>>

(* The kernel (external): enumeration sends raw CMD_SUBMIT headers and gives *)
(* the device an address; an unknown PDU or the end of the stream frees the  *)
(* port, as does writing it to `detach`.                                     *)
KSubmit(p) ==
    /\ vhci[p].sess # None /\ ~rcv[vhci[p].sess].asked
    /\ up' = Push(up, vhci[p].sess, [t |-> "RAW"], SndOpen(vhci[p].sess))
    /\ rcv' = [rcv EXCEPT ![vhci[p].sess].asked = TRUE]
    /\ UNCHANGED <<conf, snd, down, vhci>>

KAddress(p) ==
    /\ vhci[p].sta = 5
    /\ vhci' = [vhci EXCEPT ![p].sta = 6]
    /\ UNCHANGED <<conf, rcv, snd, up, down>>

KFree(p) ==
    /\ vhci' = [vhci EXCEPT ![p] = [sta |-> 4, sess |-> None]]
    /\ rcv' = [rcv EXCEPT ![vhci[p].sess].sock = "closed"]
    /\ UNCHANGED <<conf, snd, up, down>>

KDown(p) ==
    /\ vhci[p].sess # None
    /\ \/ down[vhci[p].sess] # <<>>
       \/ REof(vhci[p].sess)
    /\ KFree(p)

(* detach_port, from a process nobody else waits for *)
Detach(p) == vhci[p].sess # None /\ KFree(p)

-----------------------------------------------------------------------------
(* The senders: run_session of the pump fixture and of the mock sender,     *)
(* serve_session of the HID sender.                                         *)

SGo(s, pc) == [snd EXCEPT ![s].pc = pc]

(* server_accept: the own certificate, then the receiver's. *)
STls(s) ==
    /\ snd[s].pc = "tls" /\ SHas(s, "CLIENT_HELLO")
    /\ up' = Pop(up, s)
    /\ down' = Push(down, s, [t |-> "SERVER_FLIGHT", id |-> Identity(conf[s].spsk)], RcvOpen(s))
    /\ snd' = SGo(s, "tlsfin")
    /\ UNCHANGED <<conf, rcv, vhci>>

STlsFin(s) ==
    /\ snd[s].pc = "tlsfin" /\ SHas(s, "CLIENT_FLIGHT")
    /\ up' = Pop(up, s)
    /\ snd' = SGo(s, IF Matches(conf[s].spsk, Head(up[s]).id) THEN "hello" ELSE "closed")
    /\ UNCHANGED <<conf, rcv, down, vhci>>

(* A sender without a code takes a CLIENT_HELLO for an envelope: the type    *)
(* byte of the handshake stands in its length, so that it waits for 2^16     *)
(* bytes or more while the receiver waits for an answer.                     *)
SForeign(s) ==
    /\ snd[s].pc = "hello" /\ SHas(s, "CLIENT_HELLO")
    /\ up' = Pop(up, s)
    /\ UNCHANGED <<conf, rcv, snd, down, vhci>>

SHello(s) ==
    /\ snd[s].pc = "hello" /\ SHas(s, "HELLO")
    /\ up' = Pop(up, s)
    /\ down' = Push(down, s, [t |-> "HELLO_ACK"], RcvOpen(s))
    /\ snd' = SGo(s, "list")
    /\ UNCHANGED <<conf, rcv, vhci>>

SList(s) ==
    /\ snd[s].pc = "list" /\ SHas(s, "LIST")
    /\ up' = Pop(up, s)
    /\ down' = Push(down, s, [t |-> "DEVICES", devs |-> conf[s].devs], RcvOpen(s))
    /\ snd' = SGo(s, "attach")
    /\ UNCHANGED <<conf, rcv, vhci>>

(* ATTACH: a busid that is not offered ends the session, and so does the     *)
(* mode for all but the HID sender, which does not look at it.               *)
SAttach(s) ==
    /\ snd[s].pc = "attach" /\ SHas(s, "ATTACH")
    /\ up' = Pop(up, s)
    /\ LET ok == Head(up[s]).busid \in conf[s].devs /\ conf[s].peer # "mockhid"
           next == [pump |-> "pump", mock |-> "stream", linux |-> "bind"] IN
       \/ /\ ok
          /\ down' = Push(down, s, [t |-> "ATTACH_OK", legacy |-> conf[s].peer = "linux",
                                    imp |-> ImportId(conf[s].peer)], RcvOpen(s))
          /\ snd' = [snd EXCEPT ![s].pc = next[conf[s].peer],
                                ![s].busid = Head(up[s]).busid]
       \/ ~ok /\ snd' = SGo(s, "closed") /\ UNCHANGED down
    /\ UNCHANGED <<conf, rcv, vhci>>

(* run_pump ends when another import_id or an OUT body that is too short comes. *)
Acceptable(s, m) ==
    /\ m.imp = ImportId(conf[s].peer)
    /\ m.t = "SUBMIT" /\ ~m.urb.in => m.urb.body >= m.urb.len

Answer(m) ==
    IF m.t = "UNLINK"
    THEN [t |-> "RET_UNLINK", imp |-> m.imp, status |-> 0]
    ELSE LET res == Dispatch(m.urb) IN
         [t |-> "RET_SUBMIT", imp |-> m.imp, seqnum |-> m.urb.seqnum,
          status |-> res.status, len |-> res.len, data |-> res.data]

(* handle_urb_packet: one answer for each command, as soon as it was read.   *)
SPump(s) ==
    /\ snd[s].pc = "pump" /\ (SHas(s, "SUBMIT") \/ SHas(s, "UNLINK"))
    /\ up' = Pop(up, s)
    /\ LET m == Head(up[s]) IN
       IF Acceptable(s, m)
       THEN /\ down' = Push(down, s, Answer(m), RcvOpen(s))
            /\ snd' = [snd EXCEPT ![s].oks =
                         IF m.t = "SUBMIT" /\ Answer(m).status = 0 THEN @ + 1 ELSE @]
       ELSE snd' = SGo(s, "closed") /\ UNCHANGED down
    /\ UNCHANGED <<conf, rcv, vhci>>

(* recv_envelope on what the kernel sends: bytes 4..7 are taken for the      *)
(* length and are a seqnum.  If that many bytes have come, the magic is      *)
(* wrong; if not, the read goes on waiting.                                  *)
SRaw(s) ==
    /\ snd[s].pc \in {"pump", "bind"} /\ SHas(s, "RAW")
    /\ up' = Pop(up, s)
    /\ \/ snd' = SGo(s, "closed")
       \/ UNCHANGED snd
    /\ UNCHANGED <<conf, rcv, down, vhci>>

SAwaits == [tls |-> "CLIENT_HELLO", tlsfin |-> "CLIENT_FLIGHT", hello |-> "HELLO",
            list |-> "LIST", attach |-> "ATTACH", bind |-> "HID_BIND"]

SBrokenRetries(s) ==    \* mutant of SBroken: run_pump goes on after a read error
    /\ snd[s].pc \in DOMAIN SAwaits /\ SEof(s)
    /\ snd' = SGo(s, "closed")
    /\ UNCHANGED <<conf, rcv, up, down, vhci>>

(* Every read of a sender ends its session when the stream has ended. *)
SBroken(s) ==
    /\ snd[s].pc \in DOMAIN SAwaits \cup {"pump"} /\ SEof(s)
    /\ snd' = SGo(s, "closed")
    /\ UNCHANGED <<conf, rcv, up, down, vhci>>

(* The bail! on another message: the HID sender wants a HID envelope after   *)
(* ATTACH_OK, rustls a CLIENT_HELLO; an alert ends its handshake.            *)
SUnexpected(s) ==
    /\ snd[s].pc \in DOMAIN SAwaits
    /\ up[s] # <<>> /\ Head(up[s]).t \notin {SAwaits[snd[s].pc], "RAW", "CLIENT_HELLO"}
    /\ snd' = SGo(s, "closed")
    /\ UNCHANGED <<conf, rcv, up, down, vhci>>

STimeoutHandshake(s) ==     \* mutant of STimeout: no time limit once attached
    /\ conf[s].peer # "pump" /\ snd[s].pc \in DOMAIN SAwaits \ {"bind"}
    /\ up[s] = <<>>
    /\ snd' = SGo(s, "closed")
    /\ UNCHANGED <<conf, rcv, up, down, vhci>>

(* set_read_timeout: 30 s for the mock sender, 60 s for the HID sender. *)
STimeout(s) ==
    /\ conf[s].peer # "pump" /\ snd[s].pc \in DOMAIN SAwaits
    /\ up[s] = <<>>
    /\ snd' = SGo(s, "closed")
    /\ UNCHANGED <<conf, rcv, up, down, vhci>>

(* run_usbip of the mock sender: an URB-shaped blob, again and again. *)
SStream(s) ==
    /\ snd[s].pc = "stream" /\ snd[s].sent < Reports
    /\ down' = Push(down, s, [t |-> "FRAME"], RcvOpen(s))
    /\ snd' = [snd EXCEPT ![s].sent = @ + 1]
    /\ UNCHANGED <<conf, rcv, up, vhci>>

(* It ends when a write fails, and after the last one unless it is --persistent. *)
SStreamEnd(s) ==
    /\ snd[s].pc = "stream"
    /\ \/ snd[s].sent = Reports /\ ~conf[s].persistent
       \/ snd[s].sent < Reports /\ ~RcvOpen(s)
    /\ snd' = SGo(s, "closed")
    /\ UNCHANGED <<conf, rcv, up, down, vhci>>

(* The process is killed; its socket is closed. *)
SKill(s) ==
    /\ SndOpen(s) /\ ~snd[s].killed
    /\ snd' = [snd EXCEPT ![s].pc = "closed", ![s].killed = TRUE]
    /\ UNCHANGED <<conf, rcv, up, down, vhci>>

-----------------------------------------------------------------------------

Init ==
    /\ conf \in Setups
    /\ rcv = [s \in Sessions |->
                [pc |-> "dial", sock |-> "none", result |-> "none", chosen |-> None, imp |-> 0,
                 oks |-> 0, lines |-> 0, unwritten |-> 0, stop |-> FALSE, port |-> NPorts,
                 asked |-> FALSE]]
    /\ snd = [s \in Sessions |->
                [pc |-> "accept", busid |-> None, oks |-> 0, sent |-> 0, killed |-> FALSE]]
    /\ up = [s \in Sessions |-> <<>>]
    /\ down = [s \in Sessions |-> <<>>]
    /\ \E taken \in {{}, Ports} :       \* by other programs
          vhci = [p \in Ports |-> [sta |-> IF p \in taken THEN 6 ELSE 4, sess |-> None]]

RStep(s) ==
    \/ RDial(s) \/ RTls(s) \/ RHello(s) \/ RList(s) \/ RAttach(s) \/ RBroken(s)
    \/ RSubmit(s) \/ RRet(s) \/ RUnlink(s) \/ RUnlinkRet(s)
    \/ RLogTop(s) \/ RLogFrame(s) \/ RLogEnd(s)
    \/ RFindPort(s) \/ RAttachSocket(s) \/ RHanded(s)

SStep(s) ==
    \/ STls(s) \/ STlsFin(s) \/ SForeign(s)
    \/ SHello(s) \/ SList(s) \/ SAttach(s) \/ SPump(s) \/ SRaw(s) \/ SBroken(s)
    \/ SUnexpected(s) \/ STimeout(s) \/ SStream(s) \/ SStreamEnd(s)

KStep(p) == KSubmit(p) \/ KAddress(p) \/ KDown(p)

Next ==
    \/ \E s \in Sessions : RStep(s) \/ RSignal(s) \/ SStep(s) \/ SKill(s)
    \/ \E p \in Ports : KStep(p) \/ Detach(p)

Spec == Init /\ [][Next]_vars

(* The processes and the kernel run; signals, kills and detaching may never come. *)
Fairness ==
    /\ \A s \in Sessions : WF_vars(RStep(s)) /\ WF_vars(SStep(s))
    /\ \A p \in Ports : WF_vars(KStep(p))

FairSpec == Spec /\ Fairness

-----------------------------------------------------------------------------
(* Properties. *)

TypeOK ==
    /\ conf \in [Sessions -> Conf]
    /\ \A s \in Sessions :
          /\ rcv[s].sock \in {"none", "user", "kernel", "closed"}
          /\ rcv[s].result \in {"none", "ok", "err", "local"}
          /\ rcv[s].oks \in 0 .. Len(Script)
          /\ rcv[s].lines \in 0 .. Reports /\ rcv[s].unwritten \in 0 .. Reports
          /\ rcv[s].port \in 0 .. NPorts
          /\ snd[s].pc \in DOMAIN SAwaits \cup {"accept", "pump", "stream", "closed"}
          /\ snd[s].oks \in Nat /\ snd[s].sent \in 0 .. Reports
    /\ vhci \in [Ports -> [sta : {4, 5, 6}, sess : Sessions \cup {None}]]

Running == {"submit", "ret", "unlink", "unlinkret", "top", "read", "find", "write", "handed"}

(* A receiver past ATTACH serves the device its user named, that device is   *)
(* the one the sender attached, and both use one import_id.                  *)
RightDevice ==
    \A s \in Sessions : rcv[s].pc \in Running =>
        /\ conf[s].want # None => rcv[s].chosen = conf[s].want
        /\ snd[s].busid = rcv[s].chosen
        /\ rcv[s].imp = ImportId(conf[s].peer)

(* Whoever exchanges control messages has the pairing code the other has, or *)
(* both have none: a receiver that was answered, a sender that was asked.    *)
Paired ==
    \A s \in Sessions :
        rcv[s].pc \in Running \cup {"list", "attach"}
          \/ snd[s].pc \in {"list", "attach", "bind", "pump", "stream"}
        => conf[s].rpsk = conf[s].spsk

(* urb_driver against urb_pump: the driver reports success exactly when the  *)
(* pump has served every URB of the script, and it is only ever disappointed *)
(* by a pump that was killed or is not paired with it, a device that is not  *)
(* there or its own host.                                                    *)
(* The driver never compares seqnums: this needs one answer per command.     *)
DriveVerdict ==
    \A s \in Sessions :
        conf[s].peer = "pump" /\ conf[s].mode = "drive" =>
            /\ rcv[s].result = "ok" => rcv[s].oks = Len(Script) /\ snd[s].oks = Len(Script)
            /\ rcv[s].result = "err" =>
                  \/ snd[s].killed \/ conf[s].rpsk # conf[s].spsk
                  \/ PickDevice(conf[s].want, conf[s].devs) = {}
            /\ snd[s].oks - rcv[s].oks \in {0, 1}

(* run_simulated: whatever the mock sender wrote before it closed has been   *)
(* relayed, and counted, when the receiver ends by itself: each frame has    *)
(* its line in the transcript, or is one whose writeln! failed.              *)
AllFramesRelayed ==
    \A s \in Sessions :
        conf[s].mode = "log" /\ rcv[s].result = "ok" /\ ~rcv[s].stop
            => Relayed(s) = snd[s].sent

(* run_real says "kernel now driving" only of a socket the kernel has: it    *)
(* is on the port that was picked, or the kernel has let go of it since,     *)
(* though another receiver may have picked the same port.                    *)
HandedOver ==
    \A s \in Sessions :
        rcv[s].pc = "handed" /\ rcv[s].sock = "kernel" => vhci[rcv[s].port].sess = s

(* Every session ends, except that of a receiver that waits for frames from  *)
(* a sender that waits for commands, or that idles by its own option, and    *)
(* that of a receiver with a pairing code and a pump without one: neither    *)
(* has a time limit.                                                         *)
SessionEnds ==
    \A s \in Sessions :
        (rcv[s].pc \in Running \cup {"tls", "hello", "list", "attach"})
            ~> \/ rcv[s].pc = "done"
               \/ rcv[s].pc = "tls" /\ conf[s].peer = "pump" /\ conf[s].spsk = None
               \/ /\ rcv[s].pc = "read"
                  /\ conf[s].peer = "pump" \/ (conf[s].peer = "mock" /\ conf[s].persistent)

(* A sender ends once nobody holds the other end of its connection. *)
SenderEnds ==
    \A s \in Sessions :
        (snd[s].pc # "accept" /\ ~RcvOpen(s))
            ~> (snd[s].pc = "closed" \/ (conf[s].peer = "mock" /\ conf[s].persistent))

(* "the kernel now drives the device": what it asks of a pump that is not    *)
(* killed, on a port nobody detaches, is answered.                           *)
KernelServed ==
    \A s \in Sessions :
        (rcv[s].sock = "kernel" /\ conf[s].peer = "pump")
            ~> (snd[s].oks > 0 \/ snd[s].killed \/ (rcv[s].sock = "closed" /\ SndOpen(s)))
=============================================================================
