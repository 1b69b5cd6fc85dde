-------------------------- MODULE UsbIpSessionProofs --------------------------
(***************************************************************************)
(* Proofs about UsbIpSession, for any number of sessions, devices, pairing *)
(* codes and vhci ports, any way the processes may have been started, a    *)
(* script of any length and a mock sender that pushes any number of URBs.  *)
(***************************************************************************)
EXTENDS UsbIpSession, QueueLemmas, TLAPS

Certificate == [cert : Codes \cup {None}]
ImportIds == {0, 1, 7}

Command ==
    [t : {"SUBMIT"}, imp : ImportIds, urb : {Script[i] : i \in 1 .. Len(Script)}]
    \cup [t : {"UNLINK"}, imp : ImportIds]

UpMsg ==
    [t : {"CLIENT_HELLO", "HELLO", "LIST", "ALERT", "RAW"}]
    \cup [t : {"CLIENT_FLIGHT"}, id : Certificate]
    \cup [t : {"ATTACH"}, busid : Busids] \cup Command

DownMsg ==
    [t : {"HELLO_ACK", "FRAME"}]
    \cup [t : {"SERVER_FLIGHT"}, id : Certificate]
    \cup [t : {"DEVICES"}, devs : SUBSET Busids]
    \cup [t : {"ATTACH_OK"}, legacy : BOOLEAN, imp : ImportIds]
    \cup {Answer(m) : m \in Command}

Greeting == {"tls", "hello", "list", "attach"}
Driving == {"submit", "ret", "unlink", "unlinkret"}
Logging == {"top", "read"}
Handing == {"find", "write", "handed"}
Attached == {"bind", "pump", "stream"}

Receiver ==
    [pc : {"dial", "done"} \cup Greeting \cup Driving \cup Logging \cup Handing,
     sock : {"none", "user", "kernel", "closed"}, result : {"none", "ok", "err", "local"},
     chosen : Busids \cup {None}, imp : ImportIds, oks : 0 .. Len(Script),
     lines : 0 .. Reports, unwritten : 0 .. Reports, stop : BOOLEAN, port : 0 .. NPorts,
     asked : BOOLEAN]

Sender ==
    [pc : DOMAIN SAwaits \cup {"accept", "pump", "stream", "closed"},
     busid : Busids \cup {None}, oks : Nat, sent : 0 .. Reports, killed : BOOLEAN]

TypesInv ==
    /\ conf \in Setups
    /\ rcv \in [Sessions -> Receiver] /\ snd \in [Sessions -> Sender]
    /\ up \in [Sessions -> Seq(UpMsg)] /\ down \in [Sessions -> Seq(DownMsg)]
    /\ vhci \in [Ports -> [sta : {4, 5, 6}, sess : Sessions \cup {None}]]

(* A socket is on the port its receiver picked; a free port has none. *)
PortInv ==
    /\ \A p \in Ports :
          LET s == vhci[p].sess IN
          s # None => /\ vhci[p].sta # 4 /\ conf[s].mode = "real" /\ rcv[s].port = p
                      /\ rcv[s].pc \in {"handed", "done"} /\ rcv[s].sock = "kernel"
    /\ \A s \in Sessions :
          /\ rcv[s].pc = "write" => rcv[s].port \in Ports
          /\ rcv[s].pc = "handed" /\ rcv[s].sock = "kernel" =>
                rcv[s].port \in Ports /\ vhci[rcv[s].port] \in [sta : {5, 6}, sess : {s}]

Only(q, t) == Len(q) = 1 /\ q[1].t = t

(* The receiver's program, and what its sender has not done yet. *)
ProcessOK(s) ==
    /\ rcv[s].pc # "done" => rcv[s].result = "none"
    /\ rcv[s].pc = "dial" => up[s] = <<>> /\ down[s] = <<>> /\ snd[s].pc = "accept"
    /\ rcv[s].pc \notin {"dial", "handed", "done"} => rcv[s].sock = "user" /\ snd[s].pc # "accept"
    /\ rcv[s].pc = "tls" => conf[s].rpsk # None
    /\ rcv[s].pc \in Driving => conf[s].mode = "drive"
    /\ rcv[s].pc \in Logging => conf[s].mode = "log"
    /\ rcv[s].pc \in Handing => conf[s].mode = "real"
    /\ rcv[s].pc \in {"dial"} \cup Greeting =>
          rcv[s].oks = 0 /\ rcv[s].lines = 0 /\ rcv[s].unwritten = 0
    /\ rcv[s].pc \in {"submit", "ret"} => rcv[s].oks < Len(Script)
    /\ snd[s].busid = None => snd[s].pc \notin Attached /\ snd[s].sent = 0 /\ snd[s].oks = 0
    /\ snd[s].busid # None => snd[s].pc \in Attached \cup {"closed"}
    /\ conf[s].peer # "mock" => snd[s].sent = 0
    /\ snd[s].pc = "pump" => conf[s].peer = "pump"
    /\ snd[s].pc = "stream" => conf[s].peer = "mock"
    /\ snd[s].pc = "bind" => conf[s].peer = "linux"

(* What a message says is still true when it is read. *)
UpOK(s, m) ==
    /\ m.t = "HELLO" => conf[s].rpsk \in {None, conf[s].spsk}
    /\ m.t = "CLIENT_FLIGHT" => m.id = Identity(conf[s].rpsk)
    /\ m.t = "ATTACH" => /\ m.busid = rcv[s].chosen /\ m.busid \in conf[s].devs
                         /\ rcv[s].pc \notin {"dial", "tls", "hello", "list"}
    /\ m.t \in {"SUBMIT", "UNLINK"} => /\ conf[s].mode = "drive"
                                       /\ rcv[s].pc \notin {"dial"} \cup Greeting
                                       /\ snd[s].busid # None
    /\ m.t = "RAW" => conf[s].mode = "real"

DownOK(s, m) ==
    /\ m.t = "SERVER_FLIGHT" => m.id = Identity(conf[s].spsk)
    /\ m.t = "HELLO_ACK" => conf[s].rpsk = conf[s].spsk
    /\ m.t = "DEVICES" => m.devs = conf[s].devs
    /\ m.t = "ATTACH_OK" => /\ snd[s].busid = rcv[s].chosen /\ m.imp = ImportId(conf[s].peer)
                            /\ m.legacy => conf[s].peer = "linux"
                            /\ rcv[s].pc \notin {"dial", "tls", "hello", "list"}

MessagesOK(s) ==
    /\ \A m \in Msgs(up[s]) : UpOK(s, m)
    /\ \A m \in Msgs(down[s]) : DownOK(s, m)

PairOK(s) ==
    /\ rcv[s].pc \in Running \cup {"list", "attach"}
       \/ snd[s].pc \in {"list", "attach"} \cup Attached
          => conf[s].rpsk = conf[s].spsk
    /\ snd[s].pc = "hello" => conf[s].spsk \in {None, conf[s].rpsk}

DeviceOK(s) ==
    /\ rcv[s].pc \in Running \cup {"attach"} =>
          /\ rcv[s].chosen \in Busids \cap conf[s].devs
          /\ conf[s].want # None => rcv[s].chosen = conf[s].want
    /\ rcv[s].pc \in Running =>
          snd[s].busid = rcv[s].chosen /\ rcv[s].imp = ImportId(conf[s].peer)

(* Request and answer take turns until ATTACH. *)
TurnsOK(s) ==
    /\ rcv[s].pc = "tls" =>
          \/ snd[s].pc = "tls" /\ Only(up[s], "CLIENT_HELLO") /\ down[s] = <<>>
          \/ snd[s].pc = "tlsfin" /\ up[s] = <<>> /\ Only(down[s], "SERVER_FLIGHT")
          \/ /\ snd[s].pc = "hello" /\ conf[s].spsk = None /\ down[s] = <<>>
             /\ up[s] = <<>> \/ Only(up[s], "CLIENT_HELLO")
          \/ snd[s].pc = "closed" /\ (down[s] = <<>> \/ Only(down[s], "SERVER_FLIGHT"))
    /\ rcv[s].pc = "hello" =>
          \/ /\ snd[s].pc = "tlsfin" /\ down[s] = <<>>
             /\ Len(up[s]) = 2 /\ up[s][1].t = "CLIENT_FLIGHT" /\ up[s][2].t = "HELLO"
          \/ /\ snd[s].pc = "tls" /\ down[s] = <<>> /\ Only(up[s], "HELLO")
             /\ conf[s].rpsk # conf[s].spsk
          \/ snd[s].pc = "hello" /\ Only(up[s], "HELLO") /\ down[s] = <<>>
          \/ snd[s].pc = "list" /\ up[s] = <<>> /\ Only(down[s], "HELLO_ACK")
          \/ snd[s].pc = "closed" /\ (down[s] = <<>> \/ Only(down[s], "HELLO_ACK"))
    /\ rcv[s].pc = "list" =>
          \/ snd[s].pc = "list" /\ Only(up[s], "LIST") /\ down[s] = <<>>
          \/ snd[s].pc = "attach" /\ up[s] = <<>> /\ Only(down[s], "DEVICES")
          \/ snd[s].pc = "closed" /\ (down[s] = <<>> \/ Only(down[s], "DEVICES"))
    /\ rcv[s].pc \in {"dial", "tls", "hello", "list"} => snd[s].busid = None
    /\ rcv[s].pc = "attach" /\ snd[s].busid = None =>
          /\ down[s] = <<>>
          /\ snd[s].pc \in {"attach", "closed"}
          /\ snd[s].pc = "attach" => Only(up[s], "ATTACH")
    /\ rcv[s].pc = "attach" /\ snd[s].pc \in Attached => up[s] = <<>>

(* ATTACH_OK and the frames the mock sender pushes behind it. *)
FramesOK(s) ==
    /\ rcv[s].pc = "attach" /\ snd[s].busid # None =>
          /\ Len(down[s]) = snd[s].sent + 1 /\ down[s][1].t = "ATTACH_OK"
          /\ \A i \in 2 .. Len(down[s]) : down[s][i].t = "FRAME"
    /\ rcv[s].pc \in Logging =>
          /\ Relayed(s) + Len(down[s]) = snd[s].sent
          /\ \A i \in 1 .. Len(down[s]) : down[s][i].t = "FRAME"
    /\ conf[s].mode = "log" /\ rcv[s].result = "ok" /\ ~rcv[s].stop =>
          Relayed(s) = snd[s].sent /\ ~SndOpen(s)

(* The pump and the driver's script. *)
Excused(s) ==
    \/ snd[s].killed \/ conf[s].rpsk # conf[s].spsk
    \/ PickDevice(conf[s].want, conf[s].devs) = {}

Submit(s) == [t |-> "SUBMIT", imp |-> rcv[s].imp, urb |-> Script[rcv[s].oks + 1]]
Unlink(s) == [t |-> "UNLINK", imp |-> rcv[s].imp]

(* One command is under way, or its answer. *)
Exchange(s, m, served) ==
    \/ /\ snd[s].oks = rcv[s].oks /\ down[s] = <<>>
       /\ snd[s].pc = "pump" => Len(up[s]) = 1 /\ up[s][1] = m
    \/ /\ snd[s].oks = rcv[s].oks + served /\ Len(down[s]) = 1 /\ down[s][1] = Answer(m)
       /\ snd[s].pc = "pump" => up[s] = <<>>

ScriptOK(s) ==
    /\ rcv[s].pc \in {"dial"} \cup Greeting => snd[s].oks = 0
    /\ rcv[s].pc \in {"submit", "unlink"} =>
          /\ snd[s].oks = rcv[s].oks /\ down[s] = <<>>
          /\ snd[s].pc = "pump" => up[s] = <<>>
    /\ rcv[s].pc = "ret" => Exchange(s, Submit(s), 1)
    /\ rcv[s].pc = "unlinkret" => Exchange(s, Unlink(s), 0)
    /\ rcv[s].pc \in {"unlink", "unlinkret"} => rcv[s].oks = Len(Script)
    /\ snd[s].pc = "closed" /\ rcv[s].pc # "done" => Excused(s)
    /\ rcv[s].pc = "done" =>
          /\ snd[s].oks - rcv[s].oks \in {0, 1}
          /\ snd[s].pc = "pump" => \A m \in Msgs(up[s]) : m.t # "SUBMIT"
          /\ rcv[s].result = "ok" => rcv[s].oks = Len(Script) /\ snd[s].oks = Len(Script)
          /\ rcv[s].result = "err" => Excused(s)

DriveOK(s) == conf[s].peer = "pump" /\ conf[s].mode = "drive" => ScriptOK(s)

SessionInv(s) ==
    /\ ProcessOK(s) /\ MessagesOK(s) /\ PairOK(s) /\ DeviceOK(s)
    /\ TurnsOK(s) /\ FramesOK(s) /\ DriveOK(s)

UInv == TypesInv /\ PortInv /\ \A s \in Sessions : SessionInv(s)

-----------------------------------------------------------------------------
(* The script and the fake device. *)

Urbs == [seqnum : Nat, ep : Nat, in : BOOLEAN, req : {"device", "config", "set", "none"},
         wLength : Nat, len : Nat, body : Nat, expect : Nat]

(* The fake device does what the script expects of it. *)
AsExpected(urb) ==
    LET res == Dispatch(urb) IN
    /\ res.status = 0 /\ res.len = urb.expect
    /\ urb.in => res.data = res.len
    /\ ~urb.in => urb.body >= urb.len

(* Every URB of script_default is served as it expects, however many bulk   *)
(* reads --simulate-drive-urbs appends.                                     *)
LEMMA ScriptServed ==
    /\ Len(Script) \in Nat /\ Len(Script) >= 7
    /\ \A i \in 1 .. Len(Script) : Script[i] \in Urbs /\ AsExpected(Script[i])
<1> DEFINE S == {u \in Urbs : AsExpected(u)}
           extra == [i \in 1 .. ExtraBulk |-> Urb(99 + i, 1, TRUE, "none", 0, 64)]
           base == << Urb(1, 0, TRUE, "device", 18, 18), Urb(2, 0, TRUE, "config", 9, 9),
                      Urb(3, 0, TRUE, "config", 32, 32), Urb(4, 0, FALSE, "set", 0, 0),
                      Urb(5, 1, TRUE, "none", 0, 64), Urb(6, 2, FALSE, "none", 0, 64),
                      Urb(7, 1, TRUE, "none", 0, 32) >>
<1>0. /\ DOMAIN DescriptorLen = {"device", "config"}
      /\ DescriptorLen["device"] = 18 /\ DescriptorLen["config"] = 32
  BY DEF DescriptorLen
<1>1. ASSUME NEW n \in Nat, NEW r \in {"device", "config"}, NEW l \in Nat, l <= DescriptorLen[r]
      PROVE  Urb(n, 0, TRUE, r, l, l) \in S
  <2> DEFINE u == Urb(n, 0, TRUE, r, l, l)
  <2>1. /\ u \in Urbs /\ u.in = TRUE /\ u.req = r /\ u.wLength = l /\ u.expect = l /\ u.ep = 0
    BY DEF Urb, Urbs
  <2> HIDE DEF u
  <2>2. Dispatch(u) = Done(0, l, l)
    <3>1. Dispatch(u) = ExecuteControl(u)
      BY <2>1 DEF Dispatch, HasEndpoint
    <3>2. CASE l < DescriptorLen[r]
      BY <1>0, <2>1, <3>1, <3>2 DEF ExecuteControl
    <3>3. CASE l = DescriptorLen[r]
      BY <1>0, <2>1, <3>1, <3>3 DEF ExecuteControl
    <3> QED
      BY <1>0, <1>1, <3>2, <3>3
  <2>3. AsExpected(u)
    BY <2>1, <2>2 DEF AsExpected, Done
  <2> QED
    BY <2>1, <2>3 DEF u
<1>2. Urb(4, 0, FALSE, "set", 0, 0) \in S
  BY DEF Urbs, AsExpected, Dispatch, HasEndpoint, ExecuteControl, Done, Urb
<1>3. ASSUME NEW n \in Nat, NEW l \in Nat PROVE Urb(n, 1, TRUE, "none", 0, l) \in S
  BY DEF Urbs, AsExpected, Dispatch, ExecuteBulk, HasEndpoint, Done, Urb
<1>4. Urb(6, 2, FALSE, "none", 0, 64) \in S
  BY DEF Urbs, AsExpected, Dispatch, ExecuteBulk, HasEndpoint, Done, Urb
<1>7. Script = base \o extra
  BY DEF Script
<1> HIDE DEF S
<1>5. /\ Urb(5, 1, TRUE, "none", 0, 64) \in S /\ Urb(7, 1, TRUE, "none", 0, 32) \in S
      /\ Urb(1, 0, TRUE, "device", 18, 18) \in S /\ Urb(2, 0, TRUE, "config", 9, 9) \in S
      /\ Urb(3, 0, TRUE, "config", 32, 32) \in S
  <2>1. 18 <= DescriptorLen["device"] /\ 9 <= DescriptorLen["config"]
        /\ 32 <= DescriptorLen["config"]
    BY <1>0
  <2> QED
    BY <1>1, <1>3, <2>1
<1>6. ExtraBulk \in Nat /\ \A i \in 1 .. ExtraBulk : Urb(99 + i, 1, TRUE, "none", 0, 64) \in S
  <2>1. ExtraBulk \in Nat /\ \A i \in 1 .. ExtraBulk : 99 + i \in Nat
    BY SetupAssumption
  <2> QED
    BY <1>3, <2>1
<1>8. base \in Seq(S) /\ Len(base) = 7
  <2>1. ASSUME NEW a \in S, NEW b \in S, NEW c \in S, NEW d \in S, NEW e \in S, NEW f \in S,
               NEW g \in S
        PROVE  <<a, b, c, d, e, f, g>> \in Seq(S) /\ Len(<<a, b, c, d, e, f, g>>) = 7
    OBVIOUS
  <2> QED
    BY <1>2, <1>4, <1>5, <2>1
<1>9. extra \in Seq(S) /\ Len(extra) \in Nat
  <2>1. extra \in [1 .. ExtraBulk -> S]
    BY <1>6
  <2> HIDE DEF extra
  <2>2. extra \in Seq(S)
    BY <1>6, <2>1, SeqDef
  <2> QED
    BY <2>2, LenProperties
<1> HIDE DEF base, extra
<1>10. Script \in Seq(S) /\ Len(Script) = Len(base) + Len(extra)
  BY <1>7, <1>8, <1>9, ConcatProperties
<1>11. \A i \in 1 .. Len(Script) : Script[i] \in S
  BY <1>10, ElementOfSeq
<1> QED
  BY <1>8, <1>9, <1>10, <1>11 DEF S

(* So run_script finds the answer to each of its commands as expected. *)
LEMMA AnswerExpected ==
    ASSUME NEW i \in 1 .. Len(Script), NEW imp
    PROVE  LET m == [t |-> "SUBMIT", imp |-> imp, urb |-> Script[i]]
               a == Answer(m)
           IN  /\ a.t = "RET_SUBMIT" /\ a.imp = imp /\ a.status = 0
               /\ a.len = Script[i].expect /\ (Script[i].in => a.data = a.len)
               /\ ~Script[i].in => Script[i].body >= Script[i].len
<1>1. AsExpected(Script[i])
  BY ScriptServed
<1> QED
  BY <1>1 DEF Answer, AsExpected

LEMMA UnlinkAnswer ==
    ASSUME NEW imp
    PROVE  LET a == Answer([t |-> "UNLINK", imp |-> imp])
           IN  a.t = "RET_UNLINK" /\ a.imp = imp /\ a.status = 0
BY DEF Answer

-----------------------------------------------------------------------------
(* Types. *)

LEMMA ConfType ==
    ASSUME TypesInv, NEW s \in Sessions
    PROVE  conf[s] \in Conf /\ (conf[s].spsk # None => conf[s].peer # "linux")
BY SetupAssumption DEF TypesInv

LEMMA UpTypes ==
    /\ \A t \in {"CLIENT_HELLO", "HELLO", "LIST", "ALERT", "RAW"} : [t |-> t] \in UpMsg
    /\ \A d \in Certificate : [t |-> "CLIENT_FLIGHT", id |-> d] \in UpMsg
    /\ \A b \in Busids : [t |-> "ATTACH", busid |-> b] \in UpMsg
    /\ \A n \in ImportIds, i \in 1 .. Len(Script) :
          [t |-> "SUBMIT", imp |-> n, urb |-> Script[i]] \in Command
    /\ \A n \in ImportIds : [t |-> "UNLINK", imp |-> n] \in Command
    /\ Command \subseteq UpMsg
BY DEF UpMsg, Command

LEMMA DownTypes ==
    /\ \A t \in {"HELLO_ACK", "FRAME"} : [t |-> t] \in DownMsg
    /\ \A d \in Certificate : [t |-> "SERVER_FLIGHT", id |-> d] \in DownMsg
    /\ \A ds \in SUBSET Busids : [t |-> "DEVICES", devs |-> ds] \in DownMsg
    /\ \A b \in BOOLEAN, n \in ImportIds :
          [t |-> "ATTACH_OK", legacy |-> b, imp |-> n] \in DownMsg
    /\ \A m \in Command : Answer(m) \in DownMsg
BY DEF DownMsg

LEMMA UpFields ==
    ASSUME NEW m \in UpMsg
    PROVE  /\ m.t = "ATTACH" => m.busid \in Busids
           /\ m.t \in {"SUBMIT", "UNLINK"} => m \in Command
BY DEF UpMsg, Command

LEMMA AnswerType ==
    ASSUME NEW m \in Command
    PROVE  Answer(m).t = IF m.t = "UNLINK" THEN "RET_UNLINK" ELSE "RET_SUBMIT"
BY DEF Answer

LEMMA DownFields ==
    ASSUME NEW m \in DownMsg
    PROVE  /\ m.t = "DEVICES" => m.devs \in SUBSET Busids
           /\ m.t = "ATTACH_OK" => m.legacy \in BOOLEAN /\ m.imp \in ImportIds
<1>1. CASE m \in {Answer(a) : a \in Command}
  <2>1. PICK a \in Command : m = Answer(a)
    BY <1>1
  <2>2. m.t \in {"RET_UNLINK", "RET_SUBMIT"}
    BY <2>1, AnswerType
  <2> QED
    BY <2>2
<1>2. CASE m \notin {Answer(a) : a \in Command}
  BY <1>2 DEF DownMsg
<1> QED
  BY <1>1, <1>2

LEMMA IdentityType == \A k \in Codes \cup {None} : Identity(k) \in Certificate
BY DEF Identity, Certificate

LEMMA IdentityInjective == \A j, k : Identity(j) = Identity(k) => j = k
<1>1. \A k : Identity(k).cert = k
  BY DEF Identity
<1> QED
  BY <1>1

LEMMA ImportType == \A p : ImportId(p) \in ImportIds
BY DEF ImportId, ImportIds

(* A message is written to a connection whose other end is open or not. *)
LEMMA UpPush ==
    ASSUME TypesInv, NEW s \in Sessions, NEW m \in UpMsg, NEW open,
           up' = Push(up, s, m, open)
    PROVE  /\ up' \in [Sessions -> Seq(UpMsg)]
           /\ \A d \in Sessions \ {s} : up'[d] = up[d]
           /\ up'[s] = IF open THEN Append(up[s], m) ELSE up[s]
           /\ Msgs(up'[s]) \subseteq Msgs(up[s]) \cup {m}
           /\ up[s] = <<>> /\ open => Len(up'[s]) = 1 /\ up'[s][1] = m
<1>0. up \in [Sessions -> Seq(UpMsg)] /\ up[s] \in Seq(UpMsg)
  BY DEF TypesInv
<1>1. /\ Append(up[s], m) \in Seq(UpMsg) /\ Msgs(Append(up[s], m)) = Msgs(up[s]) \cup {m}
      /\ up[s] = <<>> => Len(Append(up[s], m)) = 1 /\ Append(up[s], m)[1] = m
  <2>1. Len(<<>>) = 0
    OBVIOUS
  <2> QED
    BY <1>0, <2>1, Appended, AppendedMsgs
<1>2. CASE open
  <2>1. up' = [up EXCEPT ![s] = Append(up[s], m)]
    BY <1>0, <1>2 DEF Push
  <2> QED
    BY <1>0, <1>1, <1>2, <2>1
<1>3. CASE ~open
  <2>1. up' = up
    BY <1>3 DEF Push
  <2> QED
    BY <1>0, <1>3, <2>1
<1> QED
  BY <1>2, <1>3

LEMMA DownPush ==
    ASSUME TypesInv, NEW s \in Sessions, NEW m \in DownMsg, NEW open,
           down' = Push(down, s, m, open)
    PROVE  /\ down' \in [Sessions -> Seq(DownMsg)]
           /\ \A d \in Sessions \ {s} : down'[d] = down[d]
           /\ down'[s] = IF open THEN Append(down[s], m) ELSE down[s]
           /\ Msgs(down'[s]) \subseteq Msgs(down[s]) \cup {m}
           /\ down[s] = <<>> /\ open => Len(down'[s]) = 1 /\ down'[s][1] = m
<1>0. down \in [Sessions -> Seq(DownMsg)] /\ down[s] \in Seq(DownMsg)
  BY DEF TypesInv
<1>1. /\ Append(down[s], m) \in Seq(DownMsg) /\ Msgs(Append(down[s], m)) = Msgs(down[s]) \cup {m}
      /\ down[s] = <<>> => Len(Append(down[s], m)) = 1 /\ Append(down[s], m)[1] = m
  <2>1. Len(<<>>) = 0
    OBVIOUS
  <2> QED
    BY <1>0, <2>1, Appended, AppendedMsgs
<1>2. CASE open
  <2>1. down' = [down EXCEPT ![s] = Append(down[s], m)]
    BY <1>0, <1>2 DEF Push
  <2> QED
    BY <1>0, <1>1, <1>2, <2>1
<1>3. CASE ~open
  <2>1. down' = down
    BY <1>3 DEF Push
  <2> QED
    BY <1>0, <1>3, <2>1
<1> QED
  BY <1>2, <1>3

(* The first message is read. *)
LEMMA UpPop ==
    ASSUME TypesInv, NEW s \in Sessions, up[s] # <<>>, up' = Pop(up, s)
    PROVE  /\ up' \in [Sessions -> Seq(UpMsg)]
           /\ \A d \in Sessions \ {s} : up'[d] = up[d]
           /\ up'[s] = Tail(up[s]) /\ Msgs(up'[s]) \subseteq Msgs(up[s])
           /\ Len(up[s]) = 1 => up'[s] = <<>>
<1>0. up \in [Sessions -> Seq(UpMsg)] /\ up[s] \in Seq(UpMsg)
  BY DEF TypesInv
<1>1. /\ Tail(up[s]) \in Seq(UpMsg) /\ Msgs(Tail(up[s])) \subseteq Msgs(up[s])
      /\ Len(up[s]) = 1 => Tail(up[s]) = <<>>
  BY <1>0, Popped, PoppedMsgs
<1>2. up' = [up EXCEPT ![s] = Tail(up[s])]
  BY <1>0 DEF Pop
<1> QED
  BY <1>0, <1>1, <1>2

LEMMA DownPop ==
    ASSUME TypesInv, NEW s \in Sessions, down[s] # <<>>, down' = Pop(down, s)
    PROVE  /\ down' \in [Sessions -> Seq(DownMsg)]
           /\ \A d \in Sessions \ {s} : down'[d] = down[d]
           /\ down'[s] = Tail(down[s]) /\ Msgs(down'[s]) \subseteq Msgs(down[s])
           /\ Len(down[s]) = 1 => down'[s] = <<>>
<1>0. down \in [Sessions -> Seq(DownMsg)] /\ down[s] \in Seq(DownMsg)
  BY DEF TypesInv
<1>1. /\ Tail(down[s]) \in Seq(DownMsg) /\ Msgs(Tail(down[s])) \subseteq Msgs(down[s])
      /\ Len(down[s]) = 1 => Tail(down[s]) = <<>>
  BY <1>0, Popped, PoppedMsgs
<1>2. down' = [down EXCEPT ![s] = Tail(down[s])]
  BY <1>0 DEF Pop
<1> QED
  BY <1>0, <1>1, <1>2

Results == {"ok", "err", "local"}

LEMMA EndFacts ==
    ASSUME TypesInv, NEW s \in Sessions, NEW r \in Results, rcv' = REnd(s, r)
    PROVE  /\ rcv' \in [Sessions -> Receiver] /\ \A d \in Sessions \ {s} : rcv'[d] = rcv[d]
           /\ rcv'[s].pc = "done" /\ rcv'[s].result = r /\ rcv'[s].sock = "closed"
           /\ rcv'[s].chosen = rcv[s].chosen /\ rcv'[s].imp = rcv[s].imp
           /\ rcv'[s].oks = rcv[s].oks
           /\ rcv'[s].lines = rcv[s].lines /\ rcv'[s].unwritten = rcv[s].unwritten
           /\ rcv'[s].stop = rcv[s].stop /\ rcv'[s].port = rcv[s].port
<1>1. rcv \in [Sessions -> Receiver] /\ rcv[s] \in Receiver
  BY DEF TypesInv
<1>2. rcv'[s] = [rcv[s] EXCEPT !.pc = "done", !.result = r, !.sock = "closed"]
  BY <1>1 DEF REnd
<1>3. \A d \in Sessions \ {s} : rcv'[d] = rcv[d]
  BY <1>1 DEF REnd
<1>4. rcv'[s] \in Receiver
  BY <1>1, <1>2 DEF Receiver, Results
<1>5. rcv' \in [Sessions -> Receiver]
  BY <1>1, <1>4 DEF REnd
<1> QED
  BY <1>1, <1>2, <1>3, <1>5 DEF Receiver

Programs == {"dial", "done"} \cup Greeting \cup Driving \cup Logging \cup Handing

LEMMA GoFacts ==
    ASSUME TypesInv, NEW s \in Sessions, NEW pc \in Programs, rcv' = RGo(s, pc)
    PROVE  /\ rcv' \in [Sessions -> Receiver] /\ \A d \in Sessions \ {s} : rcv'[d] = rcv[d]
           /\ rcv'[s].pc = pc /\ rcv'[s].result = rcv[s].result /\ rcv'[s].sock = rcv[s].sock
           /\ rcv'[s].chosen = rcv[s].chosen /\ rcv'[s].imp = rcv[s].imp
           /\ rcv'[s].oks = rcv[s].oks
           /\ rcv'[s].lines = rcv[s].lines /\ rcv'[s].unwritten = rcv[s].unwritten
           /\ rcv'[s].stop = rcv[s].stop /\ rcv'[s].port = rcv[s].port
<1>1. rcv \in [Sessions -> Receiver] /\ rcv[s] \in Receiver
  BY DEF TypesInv
<1>2. rcv'[s] = [rcv[s] EXCEPT !.pc = pc] /\ \A d \in Sessions \ {s} : rcv'[d] = rcv[d]
  BY <1>1 DEF RGo
<1>3. rcv'[s] \in Receiver
  BY <1>1, <1>2 DEF Receiver, Programs
<1>4. rcv' \in [Sessions -> Receiver]
  BY <1>1, <1>3 DEF RGo
<1> QED
  BY <1>1, <1>2, <1>4 DEF Receiver

LEMMA SGoFacts ==
    ASSUME TypesInv, NEW s \in Sessions,
           NEW pc \in DOMAIN SAwaits \cup {"accept", "pump", "stream", "closed"},
           snd' = SGo(s, pc)
    PROVE  /\ snd' \in [Sessions -> Sender] /\ \A d \in Sessions \ {s} : snd'[d] = snd[d]
           /\ snd'[s].pc = pc /\ snd'[s].busid = snd[s].busid /\ snd'[s].oks = snd[s].oks
           /\ snd'[s].sent = snd[s].sent /\ snd'[s].killed = snd[s].killed
<1>1. snd \in [Sessions -> Sender] /\ snd[s] \in Sender
  BY DEF TypesInv
<1>2. snd'[s] = [snd[s] EXCEPT !.pc = pc] /\ \A d \in Sessions \ {s} : snd'[d] = snd[d]
  BY <1>1 DEF SGo
<1>3. snd'[s] \in Sender
  BY <1>1, <1>2 DEF Sender
<1>4. snd' \in [Sessions -> Sender]
  BY <1>1, <1>3 DEF SGo
<1> QED
  BY <1>1, <1>2, <1>4 DEF Sender

LEMMA RcvFields ==
    ASSUME TypesInv, NEW s \in Sessions
    PROVE  /\ rcv[s].pc \in Programs /\ rcv[s].sock \in {"none", "user", "kernel", "closed"}
           /\ rcv[s].result \in {"none", "ok", "err", "local"}
           /\ rcv[s].chosen \in Busids \cup {None} /\ rcv[s].imp \in ImportIds
           /\ rcv[s].oks \in 0 .. Len(Script)
           /\ rcv[s].lines \in 0 .. Reports /\ rcv[s].unwritten \in 0 .. Reports
           /\ rcv[s].stop \in BOOLEAN /\ rcv[s].port \in 0 .. NPorts
           /\ rcv[s].asked \in BOOLEAN
BY DEF TypesInv, Receiver, Programs

LEMMA SndFields ==
    ASSUME TypesInv, NEW s \in Sessions
    PROVE  /\ snd[s].pc \in DOMAIN SAwaits \cup {"accept", "pump", "stream", "closed"}
           /\ snd[s].busid \in Busids \cup {None} /\ snd[s].oks \in Nat
           /\ snd[s].sent \in 0 .. Reports /\ snd[s].killed \in BOOLEAN
BY DEF TypesInv, Sender

LEMMA AwaitedBySender ==
    /\ DOMAIN SAwaits = {"tls", "tlsfin", "hello", "list", "attach", "bind"}
    /\ SAwaits["tls"] = "CLIENT_HELLO" /\ SAwaits["tlsfin"] = "CLIENT_FLIGHT"
    /\ SAwaits["hello"] = "HELLO" /\ SAwaits["list"] = "LIST" /\ SAwaits["attach"] = "ATTACH"
    /\ SAwaits["bind"] = "HID_BIND"
BY DEF SAwaits

LEMMA AwaitedByReceiver ==
    /\ DOMAIN Awaits = {"tls", "hello", "list", "attach", "ret", "unlinkret"}
    /\ Awaits["tls"] = "SERVER_FLIGHT" /\ Awaits["hello"] = "HELLO_ACK"
    /\ Awaits["list"] = "DEVICES" /\ Awaits["attach"] = "ATTACH_OK"
    /\ Awaits["ret"] = "RET_SUBMIT" /\ Awaits["unlinkret"] = "RET_UNLINK"
BY DEF Awaits

-----------------------------------------------------------------------------
(* Steps of one session. *)

LEMMA Parts ==
    ASSUME UInv, NEW s \in Sessions
    PROVE  /\ TypesInv /\ PortInv /\ ProcessOK(s) /\ MessagesOK(s) /\ PairOK(s) /\ DeviceOK(s)
           /\ TurnsOK(s) /\ FramesOK(s) /\ DriveOK(s)
BY DEF UInv, SessionInv

LEMMA SessionKept ==
    ASSUME NEW s, SessionInv(s), conf' = conf, rcv'[s] = rcv[s], snd'[s] = snd[s],
           up'[s] = up[s], down'[s] = down[s]
    PROVE  SessionInv(s)'
<1>1. ProcessOK(s)' /\ PairOK(s)' /\ DeviceOK(s)'
  BY DEF SessionInv, ProcessOK, PairOK, DeviceOK
<1>2. MessagesOK(s)'
  BY DEF SessionInv, MessagesOK, UpOK, DownOK
<1>3. TurnsOK(s)' /\ FramesOK(s)'
  BY DEF SessionInv, TurnsOK, FramesOK, Relayed, SndOpen
<1>4. DriveOK(s)'
  BY DEF SessionInv, DriveOK, ScriptOK, Exchange, Submit, Unlink, Excused
<1> QED
  BY <1>1, <1>2, <1>3, <1>4 DEF SessionInv

Own(s) ==
    /\ conf' = conf
    /\ \A d \in Sessions \ {s} :
          rcv'[d] = rcv[d] /\ snd'[d] = snd[d] /\ up'[d] = up[d] /\ down'[d] = down[d]

LEMMA OwnKeeps ==
    ASSUME UInv, NEW s \in Sessions, Own(s), TypesInv', PortInv', SessionInv(s)'
    PROVE  UInv'
<1>1. ASSUME NEW d \in Sessions \ {s} PROVE SessionInv(d)'
  BY SessionKept DEF UInv, Own
<1> QED
  BY <1>1 DEF UInv

(* A session that has no socket on a port, and comes to none. *)
LEMMA PortsKept ==
    ASSUME UInv, NEW s \in Sessions, conf' = conf, vhci' = vhci,
           \A d \in Sessions \ {s} : rcv'[d] = rcv[d],
           rcv'[s] = rcv[s] \/ (rcv[s].pc \notin {"handed", "done"}
                                /\ rcv'[s].pc \notin {"write", "handed"})
    PROVE  PortInv'
<1>1. vhci \in [Ports -> [sta : {4, 5, 6}, sess : Sessions \cup {None}]] /\ PortInv
  BY DEF UInv, TypesInv
<1>2. \A p \in Ports : vhci[p].sess \in Sessions \cup {None}
  BY <1>1
<1> QED
  BY <1>1, <1>2 DEF PortInv

Early == {"dial", "tls", "hello", "list"}

LEMMA MessagesKept ==
    ASSUME NEW s, MessagesOK(s), conf' = conf,
           rcv[s].pc \notin Early => rcv'[s].pc \notin Early /\ rcv'[s].chosen = rcv[s].chosen,
           rcv[s].pc \notin {"dial"} \cup Greeting => rcv'[s].pc \notin {"dial"} \cup Greeting,
           snd'[s].busid \in {snd[s].busid, rcv'[s].chosen},
           snd[s].busid # None => snd'[s].busid # None,
           \A m \in Msgs(up'[s]) : m \in Msgs(up[s]) \/ UpOK(s, m)',
           \A m \in Msgs(down'[s]) : m \in Msgs(down[s]) \/ DownOK(s, m)'
    PROVE  MessagesOK(s)'
<1>1. ASSUME NEW m \in Msgs(up[s]) PROVE UpOK(s, m)'
  BY DEF MessagesOK, UpOK, Early
<1>2. ASSUME NEW m \in Msgs(down[s]) PROVE DownOK(s, m)'
  BY DEF MessagesOK, DownOK, Early
<1> QED
  BY <1>1, <1>2 DEF MessagesOK

LEMMA PumpAhead ==
    ASSUME UInv, NEW s \in Sessions, conf[s].peer = "pump", conf[s].mode = "drive"
    PROVE  snd[s].oks - rcv[s].oks \in {0, 1}
<1>1. /\ ScriptOK(s) /\ ProcessOK(s) /\ rcv[s].pc \in Programs
      /\ snd[s].oks \in Nat /\ rcv[s].oks \in Nat
  BY Parts, RcvFields, SndFields, ScriptServed DEF DriveOK
<1>2. CASE rcv[s].pc \in {"dial"} \cup Greeting
  BY <1>1, <1>2 DEF ScriptOK, ProcessOK
<1>3. CASE rcv[s].pc \in Driving \cup {"done"}
  BY <1>1, <1>3 DEF ScriptOK, Exchange, Driving
<1>4. rcv[s].pc \notin Logging \cup Handing
  BY <1>1 DEF ProcessOK
<1> QED
  BY <1>1, <1>2, <1>3, <1>4 DEF Programs

(* A receiver ends. *)
LEMMA EndKeeps ==
    ASSUME UInv, NEW s \in Sessions, NEW r \in Results, rcv' = REnd(s, r),
           conf' = conf, snd' = snd, vhci' = vhci, rcv[s].pc \notin {"handed", "done"},
           up' \in [Sessions -> Seq(UpMsg)], down' \in [Sessions -> Seq(DownMsg)],
           \A d \in Sessions \ {s} : up'[d] = up[d] /\ down'[d] = down[d],
           Msgs(up'[s]) \subseteq Msgs(up[s]) \cup {[t |-> "ALERT"]},
           Msgs(down'[s]) \subseteq Msgs(down[s]),
           conf[s].mode = "log" /\ r = "ok" =>
              rcv[s].stop \/ (Relayed(s) = snd[s].sent /\ ~SndOpen(s)),
           conf[s].peer = "pump" /\ conf[s].mode = "drive" =>
              /\ snd[s].pc = "pump" => \A m \in Msgs(up[s]) : m.t # "SUBMIT"
              /\ r = "ok" => rcv[s].oks = Len(Script) /\ snd[s].oks = Len(Script)
              /\ r = "err" => Excused(s)
    PROVE  UInv'
<1>1. /\ TypesInv /\ ProcessOK(s) /\ MessagesOK(s) /\ PairOK(s) /\ FramesOK(s) /\ DriveOK(s)
  BY Parts
<1>2. /\ rcv' \in [Sessions -> Receiver] /\ \A d \in Sessions \ {s} : rcv'[d] = rcv[d]
      /\ rcv'[s].pc = "done" /\ rcv'[s].result = r /\ rcv'[s].chosen = rcv[s].chosen
      /\ rcv'[s].oks = rcv[s].oks
      /\ rcv'[s].lines = rcv[s].lines /\ rcv'[s].unwritten = rcv[s].unwritten
      /\ rcv'[s].stop = rcv[s].stop
  BY <1>1, EndFacts
<1>3. TypesInv' /\ Own(s)
  BY <1>1, <1>2 DEF TypesInv, Own
<1>4. PortInv'
  BY <1>2, PortsKept
<1>5. ProcessOK(s)' /\ PairOK(s)' /\ DeviceOK(s)' /\ TurnsOK(s)'
  BY <1>1, <1>2
  DEF ProcessOK, PairOK, DeviceOK, TurnsOK, Greeting, Driving, Logging, Handing, Running
<1>6. FramesOK(s)'
  BY <1>2 DEF FramesOK, Relayed, Logging, SndOpen
<1>7. MessagesOK(s)'
  <2>1. rcv'[s].pc \notin Early /\ rcv'[s].pc \notin {"dial"} \cup Greeting
    BY <1>2 DEF Early, Greeting
  <2>2. UpOK(s, [t |-> "ALERT"])'
    BY DEF UpOK
  <2> QED
    BY <1>1, <1>2, <2>1, <2>2, MessagesKept
<1>8. DriveOK(s)'
  <2> SUFFICES ASSUME conf[s].peer = "pump", conf[s].mode = "drive" PROVE ScriptOK(s)'
    BY DEF DriveOK
  <2>1. snd[s].oks - rcv[s].oks \in {0, 1}
    BY PumpAhead
  <2>2. \A m \in Msgs(up'[s]) : m \in Msgs(up[s]) \/ m.t = "ALERT"
    OBVIOUS
  <2> QED
    BY <1>2, <2>1, <2>2 DEF ScriptOK, Excused, Greeting
<1> QED
  BY <1>3, <1>4, <1>5, <1>6, <1>7, <1>8, OwnKeeps DEF SessionInv

(* A sender ends its session. *)
LEMMA CloseKeeps ==
    ASSUME UInv, NEW s \in Sessions, snd' \in [Sessions -> Sender],
           \A d \in Sessions \ {s} : snd'[d] = snd[d] /\ up'[d] = up[d],
           snd'[s].pc = "closed", snd'[s].busid = snd[s].busid, snd'[s].oks = snd[s].oks,
           snd'[s].sent = snd[s].sent, snd[s].killed => snd'[s].killed,
           UNCHANGED <<conf, rcv, down, vhci>>, snd[s].pc # "accept",
           up' \in [Sessions -> Seq(UpMsg)], Msgs(up'[s]) \subseteq Msgs(up[s]),
           conf[s].peer = "pump" /\ conf[s].mode = "drive" /\ rcv[s].pc # "done" => Excused(s)'
    PROVE  UInv'
<1>1. /\ TypesInv /\ ProcessOK(s) /\ MessagesOK(s) /\ PairOK(s) /\ DeviceOK(s) /\ TurnsOK(s)
      /\ FramesOK(s) /\ DriveOK(s)
  BY Parts
<1>2. TypesInv' /\ Own(s)
  BY <1>1 DEF TypesInv, Own
<1>3. PortInv'
  BY PortsKept
<1>4. ProcessOK(s)' /\ PairOK(s)' /\ DeviceOK(s)'
  BY <1>1 DEF ProcessOK, PairOK, DeviceOK, Attached
<1>5. TurnsOK(s)'
  BY <1>1 DEF TurnsOK, Attached
<1>6. FramesOK(s)'
  BY <1>1 DEF FramesOK, Relayed, SndOpen
<1>7. MessagesOK(s)'
  BY <1>1, MessagesKept
<1>8. DriveOK(s)'
  <2> SUFFICES ASSUME conf[s].peer = "pump", conf[s].mode = "drive" PROVE ScriptOK(s)'
    BY DEF DriveOK
  <2>1. rcv[s].pc = "done" /\ Excused(s) => Excused(s)'
    BY DEF Excused
  <2> QED
    BY <1>1, <2>1 DEF DriveOK, ScriptOK, Exchange, Submit, Unlink
<1> QED
  BY <1>2, <1>3, <1>4, <1>5, <1>6, <1>7, <1>8, OwnKeeps DEF SessionInv

-----------------------------------------------------------------------------
(* The receiver's handshake. *)

LEMMA DialStep == ASSUME UInv, NEW s \in Sessions, RDial(s) PROVE UInv'
<1>0. /\ TypesInv /\ ProcessOK(s) /\ MessagesOK(s) /\ PairOK(s) /\ DeviceOK(s) /\ TurnsOK(s)
      /\ FramesOK(s) /\ DriveOK(s)
  BY Parts
<1>1. /\ rcv[s].pc = "dial" /\ up[s] = <<>> /\ down[s] = <<>> /\ snd[s].pc = "accept"
      /\ snd[s].busid = None /\ UNCHANGED <<conf, down, vhci>>
  BY <1>0 DEF ProcessOK, TurnsOK, RDial
<1>2. CASE rcv' = REnd(s, "local") /\ UNCHANGED <<snd, up>>
  <2>1. up \in [Sessions -> Seq(UpMsg)] /\ down \in [Sessions -> Seq(DownMsg)]
    BY <1>0 DEF TypesInv
  <2> QED
    BY <1>1, <1>2, <2>1, EndKeeps DEF Results
<1>3. CASE ~(rcv' = REnd(s, "local") /\ UNCHANGED <<snd, up>>)
  <2>r. PICK rpc \in {"tls", "hello"} : rpc = IF conf[s].rpsk # None THEN "tls" ELSE "hello"
    OBVIOUS
  <2>s. PICK spc \in {"tls", "hello"} : spc = IF conf[s].spsk # None THEN "tls" ELSE "hello"
    OBVIOUS
  <2>m. PICK m \in UpMsg : m = [t |-> IF conf[s].rpsk # None THEN "CLIENT_HELLO" ELSE "HELLO"]
    BY UpTypes
  <2>1. /\ rcv' = [rcv EXCEPT ![s].pc = rpc, ![s].sock = "user"]
        /\ up' = [up EXCEPT ![s] = <<m>>]
        /\ snd' = [snd EXCEPT ![s].pc = spc]
    BY <1>3, <2>r, <2>s, <2>m DEF RDial
  <2>2. /\ rcv' \in [Sessions -> Receiver] /\ \A d \in Sessions \ {s} : rcv'[d] = rcv[d]
        /\ rcv'[s].pc = rpc /\ rcv'[s].sock = "user"
        /\ rcv'[s].chosen = rcv[s].chosen /\ rcv'[s].result = rcv[s].result
        /\ rcv'[s].oks = rcv[s].oks
        /\ rcv'[s].lines = rcv[s].lines /\ rcv'[s].unwritten = rcv[s].unwritten
    <3>1. rcv \in [Sessions -> Receiver] /\ rcv[s] \in Receiver
      BY <1>0 DEF TypesInv
    <3>2. rcv'[s] = [rcv[s] EXCEPT !.pc = rpc, !.sock = "user"]
      BY <2>1, <3>1
    <3>3. rcv'[s] \in Receiver
      BY <3>1, <3>2 DEF Receiver, Greeting
    <3> QED
      BY <2>1, <3>1, <3>2, <3>3 DEF Receiver
  <2>3. /\ snd' \in [Sessions -> Sender] /\ \A d \in Sessions \ {s} : snd'[d] = snd[d]
        /\ snd'[s].pc = spc
        /\ snd'[s].busid = snd[s].busid /\ snd'[s].oks = snd[s].oks /\ snd'[s].sent = snd[s].sent
    <3>1. snd \in [Sessions -> Sender] /\ snd[s] \in Sender
      BY <1>0 DEF TypesInv
    <3>2. snd'[s] = [snd[s] EXCEPT !.pc = spc]
      BY <2>1, <3>1
    <3>3. snd'[s] \in Sender
      BY <3>1, <3>2, AwaitedBySender DEF Sender
    <3> QED
      BY <2>1, <3>1, <3>2, <3>3 DEF Sender
  <2>4. m.t = IF conf[s].rpsk # None THEN "CLIENT_HELLO" ELSE "HELLO"
    BY <2>m
  <2>5. /\ up' \in [Sessions -> Seq(UpMsg)] /\ \A d \in Sessions \ {s} : up'[d] = up[d]
        /\ Len(up'[s]) = 1 /\ up'[s][1] = m
    <3>1. <<m>> \in Seq(UpMsg) /\ Len(<<m>>) = 1 /\ <<m>>[1] = m
      OBVIOUS
    <3>2. up \in [Sessions -> Seq(UpMsg)]
      BY <1>0 DEF TypesInv
    <3> QED
      BY <2>1, <3>1, <3>2
  <2>6. \A x \in Msgs(up'[s]) : x = m
    BY <2>5 DEF Msgs
  <2>7. TypesInv' /\ Own(s)
    BY <1>0, <1>1, <2>2, <2>3, <2>5 DEF TypesInv, Own
  <2>8. PortInv'
    BY <1>1, <2>2, PortsKept
  <2>9. MessagesOK(s)'
    <3>1. UpOK(s, m)'
      BY <1>1, <2>4 DEF UpOK
    <3> QED
      BY <1>0, <1>1, <2>3, <2>6, <3>1, MessagesKept DEF Early
  <2>10. ProcessOK(s)' /\ PairOK(s)' /\ DeviceOK(s)' /\ FramesOK(s)'
    BY <1>0, <1>1, <2>r, <2>s, <2>2, <2>3
    DEF ProcessOK, PairOK, DeviceOK, FramesOK, Greeting, Driving, Logging, Handing, Running,
        Attached
  <2>11. TurnsOK(s)'
    BY <1>0, <1>1, <2>r, <2>s, <2>2, <2>3, <2>4, <2>5 DEF TurnsOK, Only
  <2>12. DriveOK(s)'
    BY <1>0, <1>1, <2>r, <2>s, <2>2, <2>3 DEF DriveOK, ScriptOK, ProcessOK
  <2> QED
    BY <2>7, <2>8, <2>9, <2>10, <2>11, <2>12, OwnKeeps DEF SessionInv
<1> QED
  BY <1>2, <1>3

(* What the receiver has before it reads. *)
LEMMA Reading ==
    ASSUME UInv, NEW s \in Sessions, down[s] # <<>>
    PROVE  /\ Head(down[s]) = down[s][1] /\ Head(down[s]) \in DownMsg
           /\ DownOK(s, Head(down[s])) /\ Len(down[s]) \in Nat \ {0}
           /\ down' = Pop(down, s) =>
                 /\ down' \in [Sessions -> Seq(DownMsg)]
                 /\ \A d \in Sessions \ {s} : down'[d] = down[d]
                 /\ down'[s] = Tail(down[s]) /\ Msgs(down'[s]) \subseteq Msgs(down[s])
                 /\ Len(down[s]) = 1 => down'[s] = <<>>
<1>1. TypesInv /\ down \in [Sessions -> Seq(DownMsg)] /\ MessagesOK(s)
  BY Parts DEF TypesInv
<1>2. /\ Len(down[s]) \in Nat \ {0} /\ Head(down[s]) = down[s][1] /\ Head(down[s]) \in DownMsg
      /\ Head(down[s]) \in Msgs(down[s])
  BY <1>1, Popped, PoppedMsgs
<1>3. ASSUME down' = Pop(down, s)
      PROVE  /\ down' \in [Sessions -> Seq(DownMsg)] /\ \A d \in Sessions \ {s} : down'[d] = down[d]
             /\ down'[s] = Tail(down[s]) /\ Msgs(down'[s]) \subseteq Msgs(down[s])
             /\ Len(down[s]) = 1 => down'[s] = <<>>
  BY <1>1, <1>3, DownPop
<1> QED
  BY <1>1, <1>2, <1>3 DEF MessagesOK

(* And the sender. *)
LEMMA Asked ==
    ASSUME UInv, NEW s \in Sessions, up[s] # <<>>
    PROVE  /\ Head(up[s]) = up[s][1] /\ Head(up[s]) \in UpMsg
           /\ UpOK(s, Head(up[s])) /\ Len(up[s]) \in Nat \ {0} /\ Head(up[s]) \in Msgs(up[s])
           /\ up' = Pop(up, s) =>
                 /\ up' \in [Sessions -> Seq(UpMsg)]
                 /\ \A d \in Sessions \ {s} : up'[d] = up[d]
                 /\ up'[s] = Tail(up[s]) /\ Msgs(up'[s]) \subseteq Msgs(up[s])
                 /\ Len(up[s]) = 1 => up'[s] = <<>>
<1>1. TypesInv /\ up \in [Sessions -> Seq(UpMsg)] /\ MessagesOK(s)
  BY Parts DEF TypesInv
<1>2. /\ Len(up[s]) \in Nat \ {0} /\ Head(up[s]) = up[s][1] /\ Head(up[s]) \in UpMsg
      /\ Head(up[s]) \in Msgs(up[s])
  BY <1>1, Popped, PoppedMsgs
<1>3. ASSUME up' = Pop(up, s)
      PROVE  /\ up' \in [Sessions -> Seq(UpMsg)] /\ \A d \in Sessions \ {s} : up'[d] = up[d]
             /\ up'[s] = Tail(up[s]) /\ Msgs(up'[s]) \subseteq Msgs(up[s])
             /\ Len(up[s]) = 1 => up'[s] = <<>>
  BY <1>1, <1>3, UpPop
<1> QED
  BY <1>1, <1>2, <1>3 DEF MessagesOK

LEMMA TlsStep == ASSUME UInv, NEW s \in Sessions, RTls(s) PROVE UInv'
<1>0. /\ TypesInv /\ ProcessOK(s) /\ MessagesOK(s) /\ PairOK(s) /\ DeviceOK(s) /\ TurnsOK(s)
      /\ FramesOK(s) /\ DriveOK(s)
  BY Parts
<1>1. /\ rcv[s].pc = "tls" /\ down[s] # <<>> /\ Head(down[s]).t = "SERVER_FLIGHT"
      /\ down' = Pop(down, s) /\ UNCHANGED <<conf, snd, vhci>>
      /\ up \in [Sessions -> Seq(UpMsg)]
  BY <1>0 DEF RTls, RHas, TypesInv
<1>2. /\ down' \in [Sessions -> Seq(DownMsg)] /\ \A d \in Sessions \ {s} : down'[d] = down[d]
      /\ Msgs(down'[s]) \subseteq Msgs(down[s]) /\ Head(down[s]) = down[s][1]
      /\ Len(down[s]) = 1 => down'[s] = <<>>
      /\ Head(down[s]).id = Identity(conf[s].spsk)
  BY <1>1, Reading DEF DownOK
<1>3. /\ snd[s].pc \in {"tlsfin", "closed"} /\ Len(down[s]) = 1
      /\ snd[s].pc = "tlsfin" => up[s] = <<>>
  BY <1>0, <1>1 DEF TurnsOK, Only
<1>4. CASE ~Matches(conf[s].rpsk, Head(down[s]).id)
  <2>1. /\ up' = Push(up, s, [t |-> "ALERT"], SndOpen(s)) /\ rcv' = REnd(s, "err")
    BY <1>4 DEF RTls
  <2>2. SndOpen(s) \in BOOLEAN /\ [t |-> "ALERT"] \in UpMsg
    BY UpTypes DEF SndOpen
  <2>3. /\ up' \in [Sessions -> Seq(UpMsg)] /\ \A d \in Sessions \ {s} : up'[d] = up[d]
        /\ Msgs(up'[s]) \subseteq Msgs(up[s]) \cup {[t |-> "ALERT"]}
    BY <1>0, <2>1, <2>2, UpPush
  <2>4. Excused(s)
    BY <1>2, <1>4 DEF Matches, Excused
  <2> QED
    BY <1>1, <1>2, <1>3, <2>1, <2>3, <2>4, EndKeeps DEF Results
<1>5. CASE Matches(conf[s].rpsk, Head(down[s]).id)
  <2>a. PICK a \in UpMsg : a = [t |-> "CLIENT_FLIGHT", id |-> Identity(conf[s].rpsk)]
    BY <1>0, ConfType, IdentityType, UpTypes DEF Conf
  <2>b. PICK b \in UpMsg : b = [t |-> "HELLO"]
    BY UpTypes
  <2>1. /\ up' = IF SndOpen(s) THEN [up EXCEPT ![s] = @ \o <<a, b>>] ELSE up
        /\ rcv' = RGo(s, "hello")
    BY <1>5, <2>a, <2>b DEF RTls
  <2>2. /\ rcv' \in [Sessions -> Receiver] /\ \A d \in Sessions \ {s} : rcv'[d] = rcv[d]
        /\ rcv'[s].pc = "hello" /\ rcv'[s].result = rcv[s].result /\ rcv'[s].sock = rcv[s].sock
        /\ rcv'[s].chosen = rcv[s].chosen /\ rcv'[s].oks = rcv[s].oks
        /\ rcv'[s].lines = rcv[s].lines /\ rcv'[s].unwritten = rcv[s].unwritten
    BY <1>0, <2>1, GoFacts DEF Programs, Greeting
  <2>3. conf[s].rpsk = conf[s].spsk
    BY <1>2, <1>5, IdentityInjective DEF Matches
  <2>4. a.t = "CLIENT_FLIGHT" /\ b.t = "HELLO" /\ a.id = Identity(conf[s].rpsk)
    BY <2>a, <2>b
  <2>5. SndOpen(s) <=> snd[s].pc = "tlsfin"
    BY <1>3 DEF SndOpen
  <2>6. <<>> \o <<a, b>> = <<a, b>> /\ <<a, b>> \in Seq(UpMsg) /\ Len(<<a, b>>) = 2
        /\ <<a, b>>[1] = a /\ <<a, b>>[2] = b
    BY <2>4
  <2>7. /\ up' \in [Sessions -> Seq(UpMsg)] /\ \A d \in Sessions \ {s} : up'[d] = up[d]
        /\ up'[s] = IF SndOpen(s) THEN <<a, b>> ELSE up[s]
    BY <1>1, <1>3, <2>1, <2>5, <2>6
  <2>8. \A x \in Msgs(up'[s]) : x \in Msgs(up[s]) \/ x \in {a, b}
    <3>1. \A i \in 1 .. 2 : i = 1 \/ i = 2
      OBVIOUS
    <3> QED
      BY <2>6, <2>7, <3>1 DEF Msgs
  <2>9. TypesInv' /\ Own(s)
    BY <1>0, <1>1, <1>2, <2>2, <2>7 DEF TypesInv, Own
  <2>10. PortInv'
    BY <1>1, <2>2, PortsKept
  <2>11. MessagesOK(s)'
    <3>1. UpOK(s, a)' /\ UpOK(s, b)'
      BY <1>1, <2>3, <2>4 DEF UpOK
    <3> QED
      BY <1>0, <1>1, <1>2, <2>2, <2>8, <3>1, MessagesKept DEF Early, Greeting
  <2>12. ProcessOK(s)' /\ PairOK(s)' /\ DeviceOK(s)' /\ FramesOK(s)'
    BY <1>0, <1>1, <2>2
    DEF ProcessOK, PairOK, DeviceOK, FramesOK, Greeting, Driving, Logging, Handing, Running,
        Attached, SndOpen
  <2>13. TurnsOK(s)'
    BY <1>0, <1>1, <1>2, <1>3, <2>2, <2>4, <2>5, <2>6, <2>7 DEF TurnsOK
  <2>14. DriveOK(s)'
    BY <1>0, <1>1, <2>2 DEF DriveOK, ScriptOK, Greeting, Excused
  <2> QED
    BY <2>9, <2>10, <2>11, <2>12, <2>13, <2>14, OwnKeeps DEF SessionInv
<1> QED
  BY <1>4, <1>5

LEMMA HelloAckStep == ASSUME UInv, NEW s \in Sessions, RHello(s) PROVE UInv'
<1>0. /\ TypesInv /\ ProcessOK(s) /\ MessagesOK(s) /\ PairOK(s) /\ DeviceOK(s) /\ TurnsOK(s)
      /\ FramesOK(s) /\ DriveOK(s)
  BY Parts
<1>1. /\ rcv[s].pc = "hello" /\ down[s] # <<>> /\ Head(down[s]).t = "HELLO_ACK"
      /\ down' = Pop(down, s) /\ UNCHANGED <<conf, snd, vhci>> /\ rcv' = RGo(s, "list")
  BY DEF RHello, RHas
<1>2. /\ down' \in [Sessions -> Seq(DownMsg)] /\ \A d \in Sessions \ {s} : down'[d] = down[d]
      /\ Msgs(down'[s]) \subseteq Msgs(down[s]) /\ (Len(down[s]) = 1 => down'[s] = <<>>)
      /\ conf[s].rpsk = conf[s].spsk
  BY <1>1, Reading DEF DownOK
<1>3. /\ snd[s].pc \in {"list", "closed"} /\ Len(down[s]) = 1
      /\ snd[s].pc = "list" => up[s] = <<>>
  BY <1>0, <1>1 DEF TurnsOK, Only
<1>4. PICK m \in UpMsg : m = [t |-> "LIST"]
  BY UpTypes
<1>5. SndOpen(s) <=> snd[s].pc = "list"
  BY <1>3 DEF SndOpen
<1>6. /\ up' \in [Sessions -> Seq(UpMsg)] /\ \A d \in Sessions \ {s} : up'[d] = up[d]
      /\ Msgs(up'[s]) \subseteq Msgs(up[s]) \cup {m}
      /\ snd[s].pc = "list" => Len(up'[s]) = 1 /\ up'[s][1] = m
  BY <1>0, <1>3, <1>4, <1>5, UpPush DEF RHello
<1>7. /\ rcv' \in [Sessions -> Receiver] /\ \A d \in Sessions \ {s} : rcv'[d] = rcv[d]
      /\ rcv'[s].pc = "list" /\ rcv'[s].result = rcv[s].result /\ rcv'[s].sock = rcv[s].sock
      /\ rcv'[s].chosen = rcv[s].chosen /\ rcv'[s].oks = rcv[s].oks
      /\ rcv'[s].lines = rcv[s].lines /\ rcv'[s].unwritten = rcv[s].unwritten
  BY <1>0, <1>1, GoFacts DEF Programs, Greeting
<1>8. TypesInv' /\ Own(s)
  BY <1>0, <1>1, <1>2, <1>6, <1>7 DEF TypesInv, Own
<1>9. PortInv'
  BY <1>1, <1>7, PortsKept
<1>10. MessagesOK(s)'
  <2>1. UpOK(s, m)'
    BY <1>4 DEF UpOK
  <2> QED
    BY <1>0, <1>1, <1>2, <1>6, <2>1, MessagesKept DEF Early, Greeting
<1>11. ProcessOK(s)' /\ PairOK(s)' /\ DeviceOK(s)' /\ FramesOK(s)'
  BY <1>0, <1>1, <1>2, <1>7
  DEF ProcessOK, PairOK, DeviceOK, FramesOK, Greeting, Driving, Logging, Handing, Running,
      Attached, SndOpen
<1>12. TurnsOK(s)'
  BY <1>0, <1>1, <1>2, <1>3, <1>4, <1>6, <1>7 DEF TurnsOK, Only
<1>13. DriveOK(s)'
  BY <1>0, <1>1, <1>7 DEF DriveOK, ScriptOK, Greeting, Excused
<1> QED
  BY <1>8, <1>9, <1>10, <1>11, <1>12, <1>13, OwnKeeps DEF SessionInv

LEMMA ListStep == ASSUME UInv, NEW s \in Sessions, RList(s) PROVE UInv'
<1>0. /\ TypesInv /\ ProcessOK(s) /\ MessagesOK(s) /\ PairOK(s) /\ DeviceOK(s) /\ TurnsOK(s)
      /\ FramesOK(s) /\ DriveOK(s)
  BY Parts
<1>1. /\ rcv[s].pc = "list" /\ down[s] # <<>> /\ Head(down[s]).t = "DEVICES"
      /\ down' = Pop(down, s) /\ UNCHANGED <<conf, snd, vhci>>
  BY DEF RList, RHas
<1>2. /\ down' \in [Sessions -> Seq(DownMsg)] /\ \A d \in Sessions \ {s} : down'[d] = down[d]
      /\ Msgs(down'[s]) \subseteq Msgs(down[s]) /\ (Len(down[s]) = 1 => down'[s] = <<>>)
      /\ Head(down[s]).devs = conf[s].devs /\ conf[s].devs \in SUBSET Busids
  BY <1>0, <1>1, Reading, ConfType DEF DownOK, Conf
<1>3. /\ snd[s].pc \in {"attach", "closed"} /\ Len(down[s]) = 1
      /\ snd[s].pc = "attach" => up[s] = <<>>
  BY <1>0, <1>1 DEF TurnsOK, Only
<1> DEFINE devs == PickDevice(conf[s].want, conf[s].devs)
<1>4. CASE devs = {} /\ rcv' = REnd(s, "err") /\ UNCHANGED up
  <2>1. Excused(s) /\ up \in [Sessions -> Seq(UpMsg)]
    BY <1>0, <1>4 DEF Excused, TypesInv
  <2> QED
    BY <1>1, <1>2, <1>3, <1>4, <2>1, EndKeeps DEF Results
<1>5. CASE ~(devs = {} /\ rcv' = REnd(s, "err") /\ UNCHANGED up)
  <2>1. PICK d \in devs :
           /\ up' = Push(up, s, [t |-> "ATTACH", busid |-> d], SndOpen(s))
           /\ rcv' = [rcv EXCEPT ![s].pc = "attach", ![s].chosen = d]
    BY <1>2, <1>5 DEF RList
  <2>2. d \in Busids /\ d \in conf[s].devs /\ (conf[s].want # None => d = conf[s].want)
    BY <1>2 DEF PickDevice
  <2> HIDE DEF devs
  <2>3. PICK m \in UpMsg : m = [t |-> "ATTACH", busid |-> d]
    BY <2>2, UpTypes
  <2>4. SndOpen(s) <=> snd[s].pc = "attach"
    BY <1>3 DEF SndOpen
  <2>5. /\ up' \in [Sessions -> Seq(UpMsg)] /\ \A e \in Sessions \ {s} : up'[e] = up[e]
        /\ Msgs(up'[s]) \subseteq Msgs(up[s]) \cup {m}
        /\ snd[s].pc = "attach" => Len(up'[s]) = 1 /\ up'[s][1] = m
    BY <1>0, <1>3, <2>1, <2>3, <2>4, UpPush
  <2>6. /\ rcv' \in [Sessions -> Receiver] /\ \A e \in Sessions \ {s} : rcv'[e] = rcv[e]
        /\ rcv'[s].pc = "attach" /\ rcv'[s].result = rcv[s].result /\ rcv'[s].sock = rcv[s].sock
        /\ rcv'[s].chosen = d /\ rcv'[s].oks = rcv[s].oks
        /\ rcv'[s].lines = rcv[s].lines /\ rcv'[s].unwritten = rcv[s].unwritten
    <3>1. rcv \in [Sessions -> Receiver] /\ rcv[s] \in Receiver
      BY <1>0 DEF TypesInv
    <3>2. rcv'[s] = [rcv[s] EXCEPT !.pc = "attach", !.chosen = d]
      BY <2>1, <3>1
    <3>3. rcv'[s] \in Receiver
      BY <2>2, <3>1, <3>2 DEF Receiver, Greeting
    <3> QED
      BY <2>1, <3>1, <3>2, <3>3 DEF Receiver
  <2>7. TypesInv' /\ Own(s)
    BY <1>0, <1>1, <1>2, <2>5, <2>6 DEF TypesInv, Own
  <2>8. PortInv'
    BY <1>1, <2>6, PortsKept
  <2>9. MessagesOK(s)'
    <3>1. UpOK(s, m)'
      BY <1>1, <2>2, <2>3, <2>6 DEF UpOK
    <3> QED
      BY <1>0, <1>1, <1>2, <2>5, <3>1, MessagesKept DEF Early, Greeting
  <2>10. ProcessOK(s)' /\ PairOK(s)' /\ DeviceOK(s)'
    BY <1>0, <1>1, <1>2, <2>2, <2>6
    DEF ProcessOK, PairOK, DeviceOK, Greeting, Driving, Logging, Handing, Running, Attached
  <2>11. snd[s].busid = None
    BY <1>0, <1>1 DEF TurnsOK
  <2>12. TurnsOK(s)' /\ FramesOK(s)'
    BY <1>0, <1>1, <1>2, <1>3, <2>3, <2>5, <2>6, <2>11
    DEF TurnsOK, FramesOK, ProcessOK, Only, Attached, Logging
  <2>13. DriveOK(s)'
    BY <1>0, <1>1, <2>6 DEF DriveOK, ScriptOK, Greeting, Excused
  <2> QED
    BY <2>7, <2>8, <2>9, <2>10, <2>12, <2>13, OwnKeeps DEF SessionInv
<1> QED
  BY <1>4, <1>5

LEMMA AttachOkStep == ASSUME UInv, NEW s \in Sessions, RAttach(s) PROVE UInv'
<1>0. /\ TypesInv /\ ProcessOK(s) /\ MessagesOK(s) /\ PairOK(s) /\ DeviceOK(s) /\ TurnsOK(s)
      /\ FramesOK(s) /\ DriveOK(s)
  BY Parts
<1>1. /\ rcv[s].pc = "attach" /\ down[s] # <<>> /\ Head(down[s]).t = "ATTACH_OK"
      /\ down' = Pop(down, s) /\ UNCHANGED <<conf, snd, up, vhci>>
      /\ up \in [Sessions -> Seq(UpMsg)]
  BY <1>0 DEF RAttach, RHas, TypesInv
<1>2. /\ down' \in [Sessions -> Seq(DownMsg)] /\ \A d \in Sessions \ {s} : down'[d] = down[d]
      /\ Msgs(down'[s]) \subseteq Msgs(down[s]) /\ down'[s] = Tail(down[s])
      /\ snd[s].busid = rcv[s].chosen /\ Head(down[s]).imp = ImportId(conf[s].peer)
      /\ Head(down[s]).legacy => conf[s].peer = "linux"
  BY <1>1, Reading DEF DownOK
<1>3. /\ snd[s].busid # None /\ Len(down[s]) = snd[s].sent + 1
      /\ \A i \in 2 .. Len(down[s]) : down[s][i].t = "FRAME"
  BY <1>0, <1>1 DEF TurnsOK, FramesOK
<1>4. snd[s].pc = "pump" => up[s] = <<>>
  BY <1>0, <1>1 DEF TurnsOK, Attached
<1>5. ASSUME NEW r \in {"local", "err"}, rcv' = REnd(s, r),
             r = "err" => conf[s].rpsk # None /\ (Head(down[s]).legacy \/ conf[s].mode = "real")
      PROVE  UInv'
  BY <1>1, <1>2, <1>4, <1>5, EmptyMsgs, EndKeeps DEF Results
<1> DEFINE refused == conf[s].rpsk # None /\ (Head(down[s]).legacy \/ conf[s].mode = "real")
           next == [drive |-> "submit", log |-> "top", real |-> "find"]
<1>6. CASE ~refused /\ rcv' = REnd(s, "local")
  BY <1>5, <1>6
<1>7. CASE refused /\ rcv' = REnd(s, "err")
  BY <1>5, <1>7
<1>8. CASE /\ ~refused
           /\ rcv' = [rcv EXCEPT ![s].pc = next[conf[s].mode], ![s].imp = Head(down[s]).imp]
  <2>2. PICK pc \in {"submit", "top", "find"} :
           /\ pc = next[conf[s].mode]
           /\ pc = "submit" => conf[s].mode = "drive"
           /\ pc = "top" => conf[s].mode = "log"
           /\ pc = "find" => conf[s].mode = "real"
    <3>1. conf[s].mode \in {"drive", "log", "real"}
      BY <1>0, ConfType DEF Conf
    <3>2. next["drive"] = "submit" /\ next["log"] = "top" /\ next["real"] = "find"
      OBVIOUS
    <3> QED
      BY <3>1, <3>2
  <2> HIDE DEF next
  <2>3. PICK imp \in ImportIds : imp = Head(down[s]).imp
    BY <1>2, ImportType
  <2>1. rcv' = [rcv EXCEPT ![s].pc = pc, ![s].imp = imp]
    BY <1>8, <2>2, <2>3
  <2>4. /\ rcv' \in [Sessions -> Receiver] /\ \A d \in Sessions \ {s} : rcv'[d] = rcv[d]
        /\ rcv'[s].pc = pc /\ rcv'[s].result = rcv[s].result /\ rcv'[s].sock = rcv[s].sock
        /\ rcv'[s].chosen = rcv[s].chosen /\ rcv'[s].oks = rcv[s].oks
        /\ rcv'[s].lines = rcv[s].lines /\ rcv'[s].unwritten = rcv[s].unwritten /\ rcv'[s].imp = imp
    <3>1. rcv \in [Sessions -> Receiver] /\ rcv[s] \in Receiver
      BY <1>0 DEF TypesInv
    <3>2. rcv'[s] = [rcv[s] EXCEPT !.pc = pc, !.imp = imp]
      BY <2>1, <3>1
    <3>3. rcv'[s] \in Receiver
      BY <3>1, <3>2 DEF Receiver, Driving, Logging, Handing
    <3> QED
      BY <2>1, <3>1, <3>2, <3>3 DEF Receiver
  <2>5. TypesInv' /\ Own(s)
    BY <1>0, <1>1, <1>2, <2>4 DEF TypesInv, Own
  <2>6. PortInv'
    BY <1>1, <2>4, PortsKept
  <2>7. MessagesOK(s)'
    BY <1>0, <1>1, <1>2, <2>4, MessagesKept DEF Early, Greeting
  <2>8. rcv[s].oks = 0 /\ rcv[s].lines = 0 /\ rcv[s].unwritten = 0 /\ Len(Script) > 0
    BY <1>0, <1>1, ScriptServed DEF ProcessOK, Greeting
  <2>9. ProcessOK(s)' /\ PairOK(s)' /\ DeviceOK(s)' /\ TurnsOK(s)'
    BY <1>0, <1>1, <1>2, <1>3, <2>2, <2>3, <2>4, <2>8
    DEF ProcessOK, PairOK, DeviceOK, TurnsOK, Greeting, Driving, Logging, Handing, Running,
        Attached
  <2>n. PICK n \in Nat : n = snd[s].sent
    BY <1>0, SndFields, SetupAssumption
  <2>10. Len(down'[s]) = n /\ \A i \in 1 .. n : down'[s][i].t = "FRAME"
    <3>1. /\ Len(down'[s]) = Len(down[s]) - 1
          /\ \A i \in 1 .. Len(down[s]) - 1 : down'[s][i] = down[s][i + 1]
      BY <1>0, <1>1, <1>2, Popped DEF TypesInv
    <3>2. Len(down[s]) = n + 1 /\ \A i \in 1 .. n : i + 1 \in 2 .. n + 1
      BY <1>3, <2>n
    <3>3. ASSUME NEW i \in 1 .. n PROVE down'[s][i].t = "FRAME"
      <4>1. i + 1 \in 2 .. Len(down[s]) /\ i \in 1 .. Len(down[s]) - 1
        BY <2>n, <3>2
      <4> QED
        BY <1>3, <3>1, <4>1
    <3> QED
      BY <2>n, <3>1, <3>2, <3>3
  <2>11. FramesOK(s)'
    <3>1. rcv'[s].result = "none" /\ Relayed(s)' = 0 /\ rcv'[s].pc # "attach"
      BY <1>0, <1>1, <2>2, <2>4, <2>8 DEF ProcessOK, Relayed
    <3>2. 0 + Len(down'[s]) = snd'[s].sent
      BY <1>1, <2>n, <2>10
    <3> QED
      BY <2>10, <3>1, <3>2 DEF FramesOK
  <2>12. DriveOK(s)'
    <3> SUFFICES ASSUME conf[s].peer = "pump", conf[s].mode = "drive" PROVE ScriptOK(s)'
      BY <1>1 DEF DriveOK
    <3>1. n = 0 /\ down'[s] = <<>>
      <4>1. n = 0 /\ Len(down'[s]) = 0 /\ down'[s] \in Seq(DownMsg)
        BY <1>0, <1>2, <2>n, <2>10 DEF ProcessOK
      <4> QED
        BY <4>1, EmptySeq
    <3>2. rcv'[s].pc = "submit" /\ snd[s].oks = 0
      BY <1>0, <1>1, <2>2, <2>4 DEF ProcessOK, DriveOK, ScriptOK, Greeting
    <3> QED
      BY <1>0, <1>1, <1>4, <2>4, <2>8, <3>1, <3>2 DEF DriveOK, ScriptOK, Greeting, Excused
  <2> QED
    BY <2>5, <2>6, <2>7, <2>9, <2>11, <2>12, OwnKeeps DEF SessionInv
<1> QED
  BY <1>6, <1>7, <1>8 DEF RAttach

(* A read of the receiver fails, or brings what it does not wait for: with  *)
(* the pump this only happens when the sender was killed or never paired.   *)
LEMMA BrokenStep == ASSUME UInv, NEW s \in Sessions, RBroken(s) PROVE UInv'
<1>0. /\ TypesInv /\ ProcessOK(s) /\ TurnsOK(s) /\ FramesOK(s) /\ DriveOK(s)
  BY Parts
<1>1. /\ rcv[s].pc \in {"tls", "hello", "list", "attach", "ret", "unlinkret"}
      /\ REof(s) \/ (down[s] # <<>> /\ ~RHas(s, Awaits[rcv[s].pc]))
      /\ rcv' = REnd(s, "err") /\ UNCHANGED <<conf, snd, up, down, vhci>>
      /\ up \in [Sessions -> Seq(UpMsg)] /\ down \in [Sessions -> Seq(DownMsg)]
  BY <1>0, AwaitedByReceiver DEF RBroken, TypesInv
<1>2. ASSUME conf[s].peer = "pump", conf[s].mode = "drive"
      PROVE  Excused(s) /\ snd[s].pc # "pump"
  <2>1. REof(s)
    <3> SUFFICES ASSUME down[s] # <<>>, ~RHas(s, Awaits[rcv[s].pc]) PROVE FALSE
      BY <1>1
    <3>1. Head(down[s]) = down[s][1]
      BY Reading
    <3>2. CASE rcv[s].pc \in {"tls", "hello", "list"}
      <4>1. Only(down[s], Awaits[rcv[s].pc])
        BY <1>0, <3>2, AwaitedByReceiver DEF TurnsOK
      <4> QED
        BY <3>1, <4>1 DEF Only, RHas
    <3>3. CASE rcv[s].pc = "attach"
      BY <1>0, <3>1, <3>3, AwaitedByReceiver DEF TurnsOK, FramesOK, RHas
    <3>4. CASE rcv[s].pc = "ret"
      <4>1. down[s][1] = Answer(Submit(s)) /\ rcv[s].oks + 1 \in 1 .. Len(Script)
        BY <1>0, <1>2, <3>4, RcvFields, ScriptServed DEF DriveOK, ScriptOK, Exchange, ProcessOK
      <4>2. Answer(Submit(s)).t = "RET_SUBMIT"
        BY <4>1, AnswerExpected DEF Submit
      <4> QED
        BY <3>1, <3>4, <4>1, <4>2, AwaitedByReceiver DEF RHas
    <3>5. CASE rcv[s].pc = "unlinkret"
      <4>1. down[s][1] = Answer(Unlink(s))
        BY <1>0, <1>2, <3>5 DEF DriveOK, ScriptOK, Exchange
      <4>2. Answer(Unlink(s)).t = "RET_UNLINK"
        BY UnlinkAnswer DEF Unlink
      <4> QED
        BY <3>1, <3>5, <4>1, <4>2, AwaitedByReceiver DEF RHas
    <3> QED
      BY <1>1, <3>2, <3>3, <3>4, <3>5
  <2>2. snd[s].pc = "closed"
    BY <1>0, <1>1, <2>1 DEF REof, SndOpen, ProcessOK
  <2> QED
    BY <1>0, <1>1, <1>2, <2>2 DEF DriveOK, ScriptOK
<1> QED
  BY <1>1, <1>2, EndKeeps DEF Results

-----------------------------------------------------------------------------
(* The driver. *)

(* Once a device is attached the pump has it, or has ended. *)
LEMMA PumpServes ==
    ASSUME UInv, NEW s \in Sessions, conf[s].peer = "pump", rcv[s].pc \in Running
    PROVE  snd[s].pc \in {"pump", "closed"} /\ (SndOpen(s) <=> snd[s].pc = "pump")
BY Parts, SetupAssumption DEF DeviceOK, ProcessOK, Attached, SndOpen

(* A command is sent. *)
LEMMA CommandSent ==
    ASSUME UInv, NEW s \in Sessions, NEW m \in Command, NEW pc \in {"ret", "unlinkret"},
           rcv[s].pc = IF pc = "ret" THEN "submit" ELSE "unlink",
           m = IF pc = "ret" THEN Submit(s) ELSE Unlink(s),
           up' = Push(up, s, m, SndOpen(s)), rcv' = RGo(s, pc),
           UNCHANGED <<conf, snd, down, vhci>>
    PROVE  UInv'
<1>0. /\ TypesInv /\ ProcessOK(s) /\ MessagesOK(s) /\ PairOK(s) /\ DeviceOK(s) /\ TurnsOK(s)
      /\ FramesOK(s) /\ DriveOK(s)
  BY Parts
<1>1. /\ rcv' \in [Sessions -> Receiver] /\ \A d \in Sessions \ {s} : rcv'[d] = rcv[d]
      /\ rcv'[s].pc = pc /\ rcv'[s].result = rcv[s].result /\ rcv'[s].sock = rcv[s].sock
      /\ rcv'[s].chosen = rcv[s].chosen /\ rcv'[s].oks = rcv[s].oks
      /\ rcv'[s].lines = rcv[s].lines /\ rcv'[s].unwritten = rcv[s].unwritten
      /\ rcv'[s].imp = rcv[s].imp
  BY <1>0, GoFacts DEF Programs, Driving
<1>2. /\ up' \in [Sessions -> Seq(UpMsg)] /\ \A d \in Sessions \ {s} : up'[d] = up[d]
      /\ Msgs(up'[s]) \subseteq Msgs(up[s]) \cup {m}
      /\ up[s] = <<>> /\ SndOpen(s) => Len(up'[s]) = 1 /\ up'[s][1] = m
  BY <1>0, UpTypes, UpPush
<1>3. TypesInv' /\ Own(s)
  BY <1>0, <1>1, <1>2 DEF TypesInv, Own
<1>4. PortInv'
  BY <1>1, PortsKept
<1>5. MessagesOK(s)'
  <2>1. m.t \in {"SUBMIT", "UNLINK"}
    BY DEF Command
  <2>2. UpOK(s, m)'
    BY <1>0, <1>1, <2>1, SetupAssumption
    DEF UpOK, ProcessOK, DeviceOK, Driving, Greeting, Running
  <2> QED
    BY <1>0, <1>1, <1>2, <2>2, MessagesKept DEF Early, Greeting
<1>6. ProcessOK(s)' /\ PairOK(s)' /\ DeviceOK(s)' /\ TurnsOK(s)' /\ FramesOK(s)'
  BY <1>0, <1>1
  DEF ProcessOK, PairOK, DeviceOK, TurnsOK, FramesOK, Greeting, Driving, Logging, Handing,
      Running, SndOpen
<1>7. DriveOK(s)'
  <2> SUFFICES ASSUME conf[s].peer = "pump", conf[s].mode = "drive" PROVE ScriptOK(s)'
    BY DEF DriveOK
  <2>1. SndOpen(s) <=> snd[s].pc = "pump"
    BY PumpServes DEF Running
  <2>2. /\ snd[s].oks = rcv[s].oks /\ down[s] = <<>> /\ (snd[s].pc = "pump" => up[s] = <<>>)
        /\ rcv[s].pc = "unlink" => rcv[s].oks = Len(Script)
        /\ snd[s].pc = "closed" => Excused(s)
    BY <1>0 DEF DriveOK, ScriptOK
  <2>3. Submit(s)' = Submit(s) /\ Unlink(s)' = Unlink(s)
    BY <1>1 DEF Submit, Unlink
  <2>4. snd[s].pc = "pump" => Len(up'[s]) = 1 /\ up'[s][1] = m
    BY <1>2, <2>1, <2>2
  <2>5. CASE pc = "ret"
    <3>1. Exchange(s, Submit(s), 1)'
      BY <1>1, <2>2, <2>3, <2>4, <2>5 DEF Exchange
    <3> QED
      BY <1>1, <2>2, <2>5, <3>1 DEF ScriptOK, Greeting, Excused
  <2>6. CASE pc = "unlinkret"
    <3>1. Exchange(s, Unlink(s), 0)'
      BY <1>1, <2>2, <2>3, <2>4, <2>6 DEF Exchange
    <3> QED
      BY <1>1, <2>2, <2>6, <3>1 DEF ScriptOK, Greeting, Excused
  <2> QED
    BY <2>5, <2>6
<1> QED
  BY <1>3, <1>4, <1>5, <1>6, <1>7, OwnKeeps DEF SessionInv

LEMMA SubmitStep == ASSUME UInv, NEW s \in Sessions, RSubmit(s) PROVE UInv'
<1>1. TypesInv /\ ProcessOK(s) /\ rcv[s].pc = "submit"
  BY Parts DEF RSubmit
<1>2. rcv[s].oks + 1 \in 1 .. Len(Script) /\ rcv[s].imp \in ImportIds
  BY <1>1, RcvFields, ScriptServed DEF ProcessOK
<1>3. Submit(s) \in Command
  BY <1>2, UpTypes DEF Submit
<1> QED
  BY <1>3, CommandSent DEF RSubmit, Submit

LEMMA UnlinkStep == ASSUME UInv, NEW s \in Sessions, RUnlink(s) PROVE UInv'
<1>1. Unlink(s) \in Command
  BY Parts, RcvFields, UpTypes DEF Unlink
<1> QED
  BY <1>1, CommandSent DEF RUnlink, Unlink

LEMMA RetStep == ASSUME UInv, NEW s \in Sessions, RRet(s) PROVE UInv'
<1>0. /\ TypesInv /\ ProcessOK(s) /\ MessagesOK(s) /\ PairOK(s) /\ DeviceOK(s) /\ TurnsOK(s)
      /\ FramesOK(s) /\ DriveOK(s)
  BY Parts
<1>1. /\ rcv[s].pc = "ret" /\ down[s] # <<>> /\ Head(down[s]).t = "RET_SUBMIT"
      /\ down' = Pop(down, s) /\ UNCHANGED <<conf, snd, up, vhci>>
      /\ up \in [Sessions -> Seq(UpMsg)]
  BY <1>0 DEF RRet, RHas, TypesInv
<1>2. /\ down' \in [Sessions -> Seq(DownMsg)] /\ \A d \in Sessions \ {s} : down'[d] = down[d]
      /\ Msgs(down'[s]) \subseteq Msgs(down[s]) /\ Head(down[s]) = down[s][1]
      /\ Len(down[s]) = 1 => down'[s] = <<>>
  BY <1>1, Reading
<1> DEFINE m == Head(down[s])
           urb == Script[rcv[s].oks + 1]
           expected == /\ m.imp = rcv[s].imp /\ m.status = 0 /\ m.len = urb.expect
                       /\ urb.in => m.data = m.len
<1>3. rcv[s].oks \in Nat /\ rcv[s].oks + 1 \in 1 .. Len(Script)
  BY <1>0, <1>1, RcvFields, ScriptServed DEF ProcessOK
<1>4. ASSUME conf[s].peer = "pump", conf[s].mode = "drive"
      PROVE  /\ expected /\ snd[s].oks = rcv[s].oks + 1 /\ Len(down[s]) = 1
             /\ snd[s].pc = "pump" => up[s] = <<>>
  <2>1. /\ down[s][1] = Answer(Submit(s)) /\ snd[s].oks = rcv[s].oks + 1 /\ Len(down[s]) = 1
        /\ snd[s].pc = "pump" => up[s] = <<>>
    BY <1>0, <1>1, <1>4 DEF DriveOK, ScriptOK, Exchange
  <2> QED
    BY <1>2, <1>3, <2>1, AnswerExpected DEF Submit
<1> HIDE DEF expected
<1>5. CASE ~expected
  <2>1. rcv' = REnd(s, "err")
    BY <1>5 DEF RRet, expected
  <2> QED
    BY <1>1, <1>2, <1>4, <1>5, <2>1, EndKeeps DEF Results
<1>6. CASE expected
  <2>1. PICK n \in 1 .. Len(Script) : n = rcv[s].oks + 1
    BY <1>3
  <2>2. PICK pc \in {"unlink", "submit"} : pc = IF n = Len(Script) THEN "unlink" ELSE "submit"
    OBVIOUS
  <2>3. rcv' = [rcv EXCEPT ![s].pc = pc, ![s].oks = n]
    BY <1>0, <1>6, <2>1, <2>2 DEF RRet, expected, TypesInv
  <2>4. /\ rcv' \in [Sessions -> Receiver] /\ \A d \in Sessions \ {s} : rcv'[d] = rcv[d]
        /\ rcv'[s].pc = pc /\ rcv'[s].result = rcv[s].result /\ rcv'[s].sock = rcv[s].sock
        /\ rcv'[s].chosen = rcv[s].chosen /\ rcv'[s].oks = n
        /\ rcv'[s].lines = rcv[s].lines /\ rcv'[s].unwritten = rcv[s].unwritten
        /\ rcv'[s].imp = rcv[s].imp
    <3>1. rcv \in [Sessions -> Receiver] /\ rcv[s] \in Receiver
      BY <1>0 DEF TypesInv
    <3>2. rcv'[s] = [rcv[s] EXCEPT !.pc = pc, !.oks = n]
      BY <2>3, <3>1
    <3>3. n \in 0 .. Len(Script)
      BY ScriptServed
    <3>4. rcv'[s] \in Receiver
      BY <3>1, <3>2, <3>3 DEF Receiver, Driving
    <3> QED
      BY <2>3, <3>1, <3>2, <3>4 DEF Receiver
  <2>5. TypesInv' /\ Own(s)
    BY <1>0, <1>1, <1>2, <2>4 DEF TypesInv, Own
  <2>6. PortInv'
    BY <1>1, <2>4, PortsKept
  <2>7. MessagesOK(s)'
    BY <1>0, <1>1, <1>2, <2>4, MessagesKept DEF Early, Greeting
  <2>8. pc = "submit" => n < Len(Script)
    BY <2>1, <2>2, ScriptServed
  <2>9. ProcessOK(s)' /\ PairOK(s)' /\ DeviceOK(s)' /\ TurnsOK(s)' /\ FramesOK(s)'
    BY <1>0, <1>1, <2>2, <2>4, <2>8
    DEF ProcessOK, PairOK, DeviceOK, TurnsOK, FramesOK, Greeting, Driving, Logging, Handing,
        Running, SndOpen
  <2>10. DriveOK(s)'
    <3> SUFFICES ASSUME conf[s].peer = "pump", conf[s].mode = "drive" PROVE ScriptOK(s)'
      BY <1>1 DEF DriveOK
    <3>1. snd[s].pc = "closed" => Excused(s)
      BY <1>0, <1>1 DEF DriveOK, ScriptOK
    <3> QED
      BY <1>1, <1>2, <1>4, <2>1, <2>2, <2>4, <3>1 DEF ScriptOK, Greeting, Excused
  <2> QED
    BY <2>5, <2>6, <2>7, <2>9, <2>10, OwnKeeps DEF SessionInv
<1> QED
  BY <1>5, <1>6

LEMMA UnlinkRetStep == ASSUME UInv, NEW s \in Sessions, RUnlinkRet(s) PROVE UInv'
<1>0. TypesInv /\ DriveOK(s)
  BY Parts
<1>1. /\ rcv[s].pc = "unlinkret" /\ down[s] # <<>> /\ down' = Pop(down, s)
      /\ UNCHANGED <<conf, snd, up, vhci>> /\ up \in [Sessions -> Seq(UpMsg)]
  BY <1>0 DEF RUnlinkRet, RHas, TypesInv
<1>2. PICK r \in {"ok", "err"} : r = IF Head(down[s]).status = 0 THEN "ok" ELSE "err"
  OBVIOUS
<1>3. rcv' = REnd(s, r)
  BY <1>2 DEF RUnlinkRet
<1>4. /\ down' \in [Sessions -> Seq(DownMsg)] /\ \A d \in Sessions \ {s} : down'[d] = down[d]
      /\ Msgs(down'[s]) \subseteq Msgs(down[s]) /\ Head(down[s]) = down[s][1]
  BY <1>1, Reading
<1>5. ASSUME conf[s].peer = "pump", conf[s].mode = "drive"
      PROVE  /\ r = "ok" /\ rcv[s].oks = Len(Script) /\ snd[s].oks = Len(Script)
             /\ snd[s].pc = "pump" => up[s] = <<>>
  <2>1. /\ down[s][1] = Answer(Unlink(s)) /\ snd[s].oks = rcv[s].oks + 0
        /\ snd[s].pc = "pump" => up[s] = <<>>
        /\ rcv[s].oks = Len(Script)
    BY <1>0, <1>1, <1>5 DEF DriveOK, ScriptOK, Exchange
  <2> QED
    BY <1>2, <1>4, <2>1, UnlinkAnswer, ScriptServed DEF Unlink
<1>6. conf[s].mode # "log"
  BY <1>1, Parts DEF ProcessOK, Driving
<1> QED
  BY <1>1, <1>3, <1>4, <1>5, <1>6, EmptyMsgs, EndKeeps DEF Results

-----------------------------------------------------------------------------
(* The transcript. *)

LEMMA LogTopStep == ASSUME UInv, NEW s \in Sessions, RLogTop(s) PROVE UInv'
<1>0. /\ TypesInv /\ ProcessOK(s) /\ MessagesOK(s) /\ PairOK(s) /\ DeviceOK(s) /\ TurnsOK(s)
      /\ FramesOK(s) /\ DriveOK(s)
  BY Parts
<1>1. /\ rcv[s].pc = "top" /\ UNCHANGED <<conf, snd, up, down, vhci>> /\ conf[s].mode = "log"
      /\ up \in [Sessions -> Seq(UpMsg)] /\ down \in [Sessions -> Seq(DownMsg)]
  BY <1>0 DEF RLogTop, ProcessOK, Logging, TypesInv
<1>2. CASE rcv[s].stop
  <2>1. rcv' = REnd(s, "ok")
    BY <1>2 DEF RLogTop
  <2> QED
    BY <1>1, <1>2, <2>1, EndKeeps DEF Results
<1>3. CASE ~rcv[s].stop
  <2>1. rcv' = RGo(s, "read")
    BY <1>3 DEF RLogTop
  <2>2. /\ rcv' \in [Sessions -> Receiver] /\ \A d \in Sessions \ {s} : rcv'[d] = rcv[d]
        /\ rcv'[s].pc = "read" /\ rcv'[s].result = rcv[s].result /\ rcv'[s].sock = rcv[s].sock
        /\ rcv'[s].chosen = rcv[s].chosen /\ rcv'[s].oks = rcv[s].oks
        /\ rcv'[s].lines = rcv[s].lines /\ rcv'[s].unwritten = rcv[s].unwritten
        /\ rcv'[s].imp = rcv[s].imp
    BY <1>0, <2>1, GoFacts DEF Programs, Logging
  <2>3. TypesInv' /\ Own(s)
    BY <1>0, <1>1, <2>2 DEF TypesInv, Own
  <2>4. PortInv'
    BY <1>1, <2>2, PortsKept
  <2>5. MessagesOK(s)'
    BY <1>0, <1>1, <2>2, MessagesKept DEF Early, Greeting
  <2>6. ProcessOK(s)' /\ PairOK(s)' /\ DeviceOK(s)' /\ TurnsOK(s)'
    BY <1>0, <1>1, <2>2
    DEF ProcessOK, PairOK, DeviceOK, TurnsOK, Greeting, Driving, Logging, Handing, Running
  <2>7. FramesOK(s)'
    BY <1>0, <1>1, <2>2 DEF FramesOK, Relayed, ProcessOK, Logging
  <2>8. DriveOK(s)'
    BY <1>1 DEF DriveOK
  <2> QED
    BY <2>3, <2>4, <2>5, <2>6, <2>7, <2>8, OwnKeeps DEF SessionInv
<1> QED
  BY <1>2, <1>3

LEMMA LogFrameStep == ASSUME UInv, NEW s \in Sessions, RLogFrame(s) PROVE UInv'
<1>0. /\ TypesInv /\ ProcessOK(s) /\ MessagesOK(s) /\ PairOK(s) /\ DeviceOK(s) /\ TurnsOK(s)
      /\ FramesOK(s) /\ DriveOK(s)
  BY Parts
<1>1. /\ rcv[s].pc = "read" /\ UNCHANGED <<conf, snd, up, vhci>> /\ conf[s].mode = "log"
      /\ down[s] # <<>> /\ down' = Pop(down, s) /\ up \in [Sessions -> Seq(UpMsg)]
      /\ down[s] \in Seq(DownMsg)
  BY <1>0 DEF RLogFrame, RHas, ProcessOK, Logging, TypesInv
<1>2. /\ down' \in [Sessions -> Seq(DownMsg)] /\ \A d \in Sessions \ {s} : down'[d] = down[d]
      /\ Msgs(down'[s]) \subseteq Msgs(down[s]) /\ down'[s] = Tail(down[s])
  BY <1>1, Reading
<1>3. CASE rcv' = REnd(s, "local")
  BY <1>1, <1>2, <1>3, EndKeeps DEF Results
<1>a. ASSUME NEW n \in Nat, NEW u \in Nat, n + u = Relayed(s) + 1,
             rcv' = [rcv EXCEPT ![s].pc = "top", ![s].lines = n, ![s].unwritten = u]
      PROVE  UInv'
  <2>1. PICK k \in Nat \ {0} : k = Len(down[s])
    BY <1>1, Reading
  <2>2. /\ Relayed(s) + k = snd[s].sent /\ Relayed(s) \in Nat /\ snd[s].sent \in 0 .. Reports
        /\ \A i \in 1 .. k : down[s][i].t = "FRAME"
    <3>1. Relayed(s) \in Nat
      BY <1>0, RcvFields, SetupAssumption DEF Relayed
    <3> QED
      BY <1>0, <1>1, <2>1, <3>1, RcvFields, SndFields, SetupAssumption DEF FramesOK, Logging
  <2>3. Len(down'[s]) = k - 1 /\ \A i \in 1 .. k - 1 : down'[s][i] = down[s][i + 1]
    BY <1>1, <1>2, <2>1, Popped
  <2>4. n \in 0 .. Reports /\ u \in 0 .. Reports
    BY <1>a, <2>2, SetupAssumption
  <2>5. /\ rcv' \in [Sessions -> Receiver] /\ \A d \in Sessions \ {s} : rcv'[d] = rcv[d]
        /\ rcv'[s].pc = "top" /\ rcv'[s].result = rcv[s].result /\ rcv'[s].sock = rcv[s].sock
        /\ rcv'[s].chosen = rcv[s].chosen /\ rcv'[s].oks = rcv[s].oks
        /\ rcv'[s].lines = n /\ rcv'[s].unwritten = u /\ rcv'[s].imp = rcv[s].imp
    <3>1. rcv \in [Sessions -> Receiver] /\ rcv[s] \in Receiver
      BY <1>0 DEF TypesInv
    <3>2. rcv'[s] = [rcv[s] EXCEPT !.pc = "top", !.lines = n, !.unwritten = u]
      BY <1>a, <3>1
    <3>3. rcv'[s] \in Receiver
      BY <2>4, <3>1, <3>2 DEF Receiver, Logging
    <3>4. rcv' \in [Sessions -> Receiver] /\ \A d \in Sessions \ {s} : rcv'[d] = rcv[d]
      BY <1>a, <3>1, <3>3
    <3> QED
      BY <3>1, <3>2, <3>4 DEF Receiver
  <2>6. TypesInv' /\ Own(s)
    BY <1>0, <1>1, <1>2, <2>5 DEF TypesInv, Own
  <2>7. PortInv'
    BY <1>1, <2>5, PortsKept
  <2>8. MessagesOK(s)'
    BY <1>0, <1>1, <1>2, <2>5, MessagesKept DEF Early, Greeting
  <2>9. ProcessOK(s)' /\ PairOK(s)' /\ DeviceOK(s)' /\ TurnsOK(s)'
    BY <1>0, <1>1, <2>5
    DEF ProcessOK, PairOK, DeviceOK, TurnsOK, Greeting, Driving, Logging, Handing, Running
  <2>10. \A i \in 1 .. k - 1 : down'[s][i].t = "FRAME"
    <3>1. \A i \in 1 .. k - 1 : i + 1 \in 1 .. k
      BY <2>1
    <3> QED
      BY <2>2, <2>3, <3>1
  <2>11. Relayed(s)' + Len(down'[s]) = snd'[s].sent
    <3>1. Relayed(s)' = Relayed(s) + 1
      BY <1>a, <2>5 DEF Relayed
    <3> QED
      BY <1>1, <2>1, <2>2, <2>3, <3>1
  <2>12. FramesOK(s)'
    BY <1>0, <1>1, <2>3, <2>5, <2>10, <2>11 DEF FramesOK, ProcessOK, Logging
  <2>13. DriveOK(s)'
    BY <1>1 DEF DriveOK
  <2> QED
    BY <2>6, <2>7, <2>8, <2>9, <2>12, <2>13, OwnKeeps DEF SessionInv
<1>n. PICK n \in Nat, u \in Nat : n = rcv[s].lines /\ u = rcv[s].unwritten
  BY <1>0, RcvFields, SetupAssumption
<1>4. CASE rcv' = [rcv EXCEPT ![s].pc = "top", ![s].lines = @ + 1]
  <2>1. rcv' = [rcv EXCEPT ![s].pc = "top", ![s].lines = n + 1, ![s].unwritten = u]
    BY <1>0, <1>4, <1>n DEF TypesInv, Receiver
  <2>2. n + 1 \in Nat /\ (n + 1) + u = Relayed(s) + 1
    BY <1>n DEF Relayed
  <2> QED
    BY <1>a, <2>1, <2>2
<1>5. CASE rcv' = [rcv EXCEPT ![s].pc = "top", ![s].unwritten = @ + 1]
  <2>1. rcv' = [rcv EXCEPT ![s].pc = "top", ![s].lines = n, ![s].unwritten = u + 1]
    BY <1>0, <1>5, <1>n DEF TypesInv, Receiver
  <2>2. u + 1 \in Nat /\ n + (u + 1) = Relayed(s) + 1
    BY <1>n DEF Relayed
  <2> QED
    BY <1>a, <2>1, <2>2
<1> QED
  BY <1>3, <1>4, <1>5 DEF RLogFrame

LEMMA LogEndStep == ASSUME UInv, NEW s \in Sessions, RLogEnd(s) PROVE UInv'
<1>0. TypesInv /\ ProcessOK(s) /\ FramesOK(s)
  BY Parts
<1>1. /\ rcv[s].pc = "read" /\ UNCHANGED <<conf, snd, up, down, vhci>> /\ conf[s].mode = "log"
      /\ up \in [Sessions -> Seq(UpMsg)] /\ down \in [Sessions -> Seq(DownMsg)]
      /\ rcv' = REnd(s, "ok") /\ down[s] = <<>> /\ ~SndOpen(s)
  BY <1>0 DEF RLogEnd, REof, ProcessOK, Logging, TypesInv
<1>2. Relayed(s) \in Nat /\ Len(<<>>) = 0
  BY <1>0, RcvFields, SetupAssumption DEF Relayed
<1>3. Relayed(s) = snd[s].sent
  BY <1>0, <1>1, <1>2 DEF FramesOK, Logging
<1> QED
  BY <1>1, <1>3, EndKeeps DEF Results

LEMMA SignalStep == ASSUME UInv, NEW s \in Sessions, RSignal(s) PROVE UInv'
<1>0. /\ TypesInv /\ ProcessOK(s) /\ MessagesOK(s) /\ PairOK(s) /\ DeviceOK(s) /\ TurnsOK(s)
      /\ FramesOK(s) /\ DriveOK(s)
  BY Parts
<1>1. /\ rcv[s].pc # "done" /\ UNCHANGED <<conf, snd, up, down, vhci>> /\ conf[s].mode = "log"
      /\ rcv' = [rcv EXCEPT ![s].stop = TRUE]
  BY DEF RSignal
<1>2. /\ rcv' \in [Sessions -> Receiver] /\ \A d \in Sessions \ {s} : rcv'[d] = rcv[d]
      /\ rcv'[s].pc = rcv[s].pc /\ rcv'[s].result = rcv[s].result /\ rcv'[s].sock = rcv[s].sock
      /\ rcv'[s].chosen = rcv[s].chosen /\ rcv'[s].oks = rcv[s].oks
      /\ rcv'[s].lines = rcv[s].lines /\ rcv'[s].unwritten = rcv[s].unwritten
      /\ rcv'[s].imp = rcv[s].imp /\ rcv'[s].stop = TRUE
  <2>1. rcv \in [Sessions -> Receiver] /\ rcv[s] \in Receiver
    BY <1>0 DEF TypesInv
  <2>2. rcv'[s] = [rcv[s] EXCEPT !.stop = TRUE]
    BY <1>1, <2>1
  <2>3. rcv'[s] \in Receiver
    BY <2>1, <2>2 DEF Receiver
  <2> QED
    BY <1>1, <2>1, <2>2, <2>3 DEF Receiver
<1>3. TypesInv' /\ Own(s)
  BY <1>0, <1>1, <1>2 DEF TypesInv, Own
<1>4. PortInv'
  <2>1. rcv[s].pc \notin Handing
    BY <1>0, <1>1 DEF ProcessOK
  <2> QED
    BY <1>1, <1>2, <2>1, PortsKept DEF Handing
<1>5. MessagesOK(s)'
  BY <1>0, <1>1, <1>2, MessagesKept
<1>6. ProcessOK(s)' /\ PairOK(s)' /\ DeviceOK(s)'
  BY <1>0, <1>1, <1>2 DEF ProcessOK, PairOK, DeviceOK
<1>7. TurnsOK(s)' /\ FramesOK(s)'
  BY <1>0, <1>1, <1>2 DEF TurnsOK, FramesOK, Relayed
<1>8. DriveOK(s)'
  BY <1>1 DEF DriveOK
<1> QED
  BY <1>3, <1>4, <1>5, <1>6, <1>7, <1>8, OwnKeeps DEF SessionInv

-----------------------------------------------------------------------------
(* The ports. *)

LEMMA FindPortStep == ASSUME UInv, NEW s \in Sessions, RFindPort(s) PROVE UInv'
<1>0. /\ TypesInv /\ ProcessOK(s) /\ MessagesOK(s) /\ PairOK(s) /\ DeviceOK(s) /\ TurnsOK(s)
      /\ FramesOK(s) /\ DriveOK(s) /\ PortInv
  BY Parts
<1>1. /\ rcv[s].pc = "find" /\ UNCHANGED <<conf, snd, up, down, vhci>> /\ conf[s].mode = "real"
      /\ up \in [Sessions -> Seq(UpMsg)] /\ down \in [Sessions -> Seq(DownMsg)]
  BY <1>0 DEF RFindPort, ProcessOK, Handing, TypesInv
<1>2. CASE rcv' = REnd(s, "local")
  BY <1>1, <1>2, EndKeeps DEF Results
<1>3. CASE rcv' # REnd(s, "local")
  <2>1. PICK p \in Ports : rcv' = [rcv EXCEPT ![s].pc = "write", ![s].port = p]
    BY <1>3 DEF RFindPort
  <2>2. /\ rcv' \in [Sessions -> Receiver] /\ \A d \in Sessions \ {s} : rcv'[d] = rcv[d]
        /\ rcv'[s].pc = "write" /\ rcv'[s].result = rcv[s].result /\ rcv'[s].sock = rcv[s].sock
        /\ rcv'[s].chosen = rcv[s].chosen /\ rcv'[s].oks = rcv[s].oks
        /\ rcv'[s].lines = rcv[s].lines /\ rcv'[s].unwritten = rcv[s].unwritten
        /\ rcv'[s].imp = rcv[s].imp /\ rcv'[s].port = p
    <3>1. rcv \in [Sessions -> Receiver] /\ rcv[s] \in Receiver
      BY <1>0 DEF TypesInv
    <3>2. rcv'[s] = [rcv[s] EXCEPT !.pc = "write", !.port = p]
      BY <2>1, <3>1
    <3>3. p \in 0 .. NPorts
      BY SetupAssumption DEF Ports
    <3>4. rcv'[s] \in Receiver
      BY <3>1, <3>2, <3>3 DEF Receiver, Handing
    <3> QED
      BY <2>1, <3>1, <3>2, <3>4 DEF Receiver
  <2>3. TypesInv' /\ Own(s)
    BY <1>0, <1>1, <2>2 DEF TypesInv, Own
  <2>4. PortInv'
    <3>1. \A q \in Ports : vhci[q].sess \in Sessions \cup {None}
      BY <1>0 DEF TypesInv
    <3>2. \A q \in Ports : vhci[q].sess # None => vhci[q].sess # s
      BY <1>0, <1>1 DEF PortInv
    <3>3. ASSUME NEW q \in Ports, vhci[q].sess # None
          PROVE  rcv'[vhci[q].sess] = rcv[vhci[q].sess]
      BY <2>2, <3>1, <3>2, <3>3
    <3>4. ASSUME NEW u \in Sessions
          PROVE  /\ rcv'[u].pc = "write" => rcv'[u].port \in Ports
                 /\ rcv'[u].pc = "handed" /\ rcv'[u].sock = "kernel" => u # s /\ rcv'[u] = rcv[u]
      BY <1>0, <2>2 DEF PortInv
    <3>5. ASSUME NEW q \in Ports, vhci'[q].sess # None
          PROVE  LET u == vhci'[q].sess IN
                 /\ vhci'[q].sta # 4 /\ conf'[u].mode = "real" /\ rcv'[u].port = q
                 /\ rcv'[u].pc \in {"handed", "done"} /\ rcv'[u].sock = "kernel"
      BY <1>0, <1>1, <3>3, <3>5 DEF PortInv
    <3>6. ASSUME NEW u \in Sessions, rcv'[u].pc = "handed", rcv'[u].sock = "kernel"
          PROVE  rcv'[u].port \in Ports /\ vhci'[rcv'[u].port] \in [sta : {5, 6}, sess : {u}]
      <4>1. rcv'[u] = rcv[u] /\ vhci' = vhci
        BY <1>1, <3>4, <3>6
      <4>2. rcv[u].port \in Ports /\ vhci[rcv[u].port] \in [sta : {5, 6}, sess : {u}]
        BY <1>0, <3>6, <4>1 DEF PortInv
      <4> QED
        BY <4>1, <4>2
    <3> QED
      BY <3>4, <3>5, <3>6 DEF PortInv
  <2>5. MessagesOK(s)'
    BY <1>0, <1>1, <2>2, MessagesKept DEF Early, Greeting
  <2>6. ProcessOK(s)' /\ PairOK(s)' /\ DeviceOK(s)' /\ TurnsOK(s)' /\ FramesOK(s)'
    BY <1>0, <1>1, <2>2
    DEF ProcessOK, PairOK, DeviceOK, TurnsOK, FramesOK, Greeting, Driving, Logging, Handing,
        Running
  <2>7. DriveOK(s)'
    BY <1>1 DEF DriveOK
  <2> QED
    BY <2>3, <2>4, <2>5, <2>6, <2>7, OwnKeeps DEF SessionInv
<1> QED
  BY <1>2, <1>3

LEMMA AttachSocketStep == ASSUME UInv, NEW s \in Sessions, RAttachSocket(s) PROVE UInv'
<1>0. /\ TypesInv /\ ProcessOK(s) /\ MessagesOK(s) /\ PairOK(s) /\ DeviceOK(s) /\ TurnsOK(s)
      /\ FramesOK(s) /\ DriveOK(s) /\ PortInv
  BY Parts
<1>1. /\ rcv[s].pc = "write" /\ UNCHANGED <<conf, snd, up, down>> /\ conf[s].mode = "real"
      /\ up \in [Sessions -> Seq(UpMsg)] /\ down \in [Sessions -> Seq(DownMsg)]
  BY <1>0 DEF RAttachSocket, ProcessOK, Handing, TypesInv
<1>2. CASE rcv' = REnd(s, "local") /\ UNCHANGED vhci
  BY <1>1, <1>2, EndKeeps DEF Results
<1>3. CASE ~(rcv' = REnd(s, "local") /\ UNCHANGED vhci)
  <2>1. PICK p \in Ports : p = rcv[s].port
    BY <1>0, <1>1 DEF PortInv
  <2>2. /\ vhci[p].sta = 4 /\ vhci' = [vhci EXCEPT ![p] = [sta |-> 5, sess |-> s]]
        /\ rcv' = [rcv EXCEPT ![s].pc = "handed", ![s].sock = "kernel"]
    BY <1>3, <2>1 DEF RAttachSocket
  <2>3. /\ rcv' \in [Sessions -> Receiver] /\ \A d \in Sessions \ {s} : rcv'[d] = rcv[d]
        /\ rcv'[s].pc = "handed" /\ rcv'[s].result = rcv[s].result /\ rcv'[s].sock = "kernel"
        /\ rcv'[s].chosen = rcv[s].chosen /\ rcv'[s].oks = rcv[s].oks
        /\ rcv'[s].lines = rcv[s].lines /\ rcv'[s].unwritten = rcv[s].unwritten
        /\ rcv'[s].imp = rcv[s].imp /\ rcv'[s].port = p
    <3>1. rcv \in [Sessions -> Receiver] /\ rcv[s] \in Receiver
      BY <1>0 DEF TypesInv
    <3>2. rcv'[s] = [rcv[s] EXCEPT !.pc = "handed", !.sock = "kernel"]
      BY <2>2, <3>1
    <3>3. rcv'[s] \in Receiver
      BY <3>1, <3>2 DEF Receiver, Handing
    <3> QED
      BY <2>1, <2>2, <3>1, <3>2, <3>3 DEF Receiver
  <2>4. /\ vhci' \in [Ports -> [sta : {4, 5, 6}, sess : Sessions \cup {None}]]
        /\ \A q \in Ports \ {p} : vhci'[q] = vhci[q]
        /\ vhci'[p].sta = 5 /\ vhci'[p].sess = s /\ vhci'[p] \in [sta : {5, 6}, sess : {s}]
    <3>1. [sta |-> 5, sess |-> s] \in [sta : {4, 5, 6}, sess : Sessions \cup {None}]
      OBVIOUS
    <3>2. vhci \in [Ports -> [sta : {4, 5, 6}, sess : Sessions \cup {None}]]
      BY <1>0 DEF TypesInv
    <3>3. vhci'[p] = [sta |-> 5, sess |-> s] /\ \A q \in Ports \ {p} : vhci'[q] = vhci[q]
      BY <2>2, <3>2
    <3>4. vhci' \in [Ports -> [sta : {4, 5, 6}, sess : Sessions \cup {None}]]
      BY <2>2, <3>1, <3>2
    <3> QED
      BY <3>3, <3>4
  <2>5. TypesInv' /\ Own(s)
    BY <1>0, <1>1, <2>3, <2>4 DEF TypesInv, Own
  <2>6. PortInv'
    <3>1. \A q \in Ports : vhci[q].sess \in Sessions \cup {None}
      BY <1>0 DEF TypesInv
    <3>2. \A q \in Ports : vhci[q].sess # None => vhci[q].sess # s
      BY <1>0, <1>1 DEF PortInv
    <3>3. ASSUME NEW q \in Ports, vhci'[q].sess # None
          PROVE  LET u == vhci'[q].sess IN
                 /\ vhci'[q].sta # 4 /\ conf'[u].mode = "real" /\ rcv'[u].port = q
                 /\ rcv'[u].pc \in {"handed", "done"} /\ rcv'[u].sock = "kernel"
      <4>1. CASE q = p
        BY <1>1, <2>3, <2>4, <4>1
      <4>2. CASE q # p
        <5>1. vhci'[q] = vhci[q] /\ vhci[q].sess # s /\ vhci[q].sess \in Sessions
          BY <2>4, <3>1, <3>2, <3>3, <4>2
        <5>2. rcv'[vhci[q].sess] = rcv[vhci[q].sess] /\ conf' = conf
          BY <1>1, <2>3, <5>1
        <5> QED
          BY <1>0, <3>3, <5>1, <5>2 DEF PortInv
      <4> QED
        BY <4>1, <4>2
    <3>4. ASSUME NEW u \in Sessions
          PROVE  /\ rcv'[u].pc = "write" => rcv'[u].port \in Ports
                 /\ rcv'[u].pc = "handed" /\ rcv'[u].sock = "kernel" =>
                       rcv'[u].port \in Ports /\ vhci'[rcv'[u].port] \in [sta : {5, 6}, sess : {u}]
      <4>1. CASE u = s
        BY <2>3, <2>4, <4>1
      <4>2. CASE u # s
        <5>1. rcv'[u] = rcv[u]
          BY <2>3, <4>2
        <5>2. rcv[u].port \in Ports /\ vhci[rcv[u].port] \in [sta : {5, 6}, sess : {u}] =>
                 vhci'[rcv[u].port] = vhci[rcv[u].port]
          BY <2>2, <2>4
        <5> QED
          BY <1>0, <5>1, <5>2 DEF PortInv
      <4> QED
        BY <4>1, <4>2
    <3> QED
      BY <3>3, <3>4 DEF PortInv
  <2>7. MessagesOK(s)'
    BY <1>0, <1>1, <2>3, MessagesKept DEF Early, Greeting
  <2>8. ProcessOK(s)' /\ PairOK(s)' /\ DeviceOK(s)' /\ TurnsOK(s)' /\ FramesOK(s)'
    BY <1>0, <1>1, <2>3
    DEF ProcessOK, PairOK, DeviceOK, TurnsOK, FramesOK, Greeting, Driving, Logging, Handing,
        Running
  <2>9. DriveOK(s)'
    BY <1>1 DEF DriveOK
  <2> QED
    BY <2>5, <2>6, <2>7, <2>8, <2>9, OwnKeeps DEF SessionInv
<1> QED
  BY <1>2, <1>3

LEMMA HandedStep == ASSUME UInv, NEW s \in Sessions, RHanded(s) PROVE UInv'
<1>0. /\ TypesInv /\ ProcessOK(s) /\ MessagesOK(s) /\ PairOK(s) /\ DeviceOK(s) /\ TurnsOK(s)
      /\ FramesOK(s) /\ DriveOK(s) /\ PortInv
  BY Parts
<1>1. /\ rcv[s].pc = "handed" /\ UNCHANGED <<conf, snd, up, down, vhci>> /\ conf[s].mode = "real"
      /\ rcv' = [rcv EXCEPT ![s].pc = "done", ![s].result = "ok"]
  BY <1>0 DEF RHanded, ProcessOK, Handing
<1>2. /\ rcv' \in [Sessions -> Receiver] /\ \A d \in Sessions \ {s} : rcv'[d] = rcv[d]
      /\ rcv'[s].pc = "done" /\ rcv'[s].result = "ok" /\ rcv'[s].sock = rcv[s].sock
      /\ rcv'[s].chosen = rcv[s].chosen /\ rcv'[s].oks = rcv[s].oks
      /\ rcv'[s].lines = rcv[s].lines /\ rcv'[s].unwritten = rcv[s].unwritten
      /\ rcv'[s].imp = rcv[s].imp
      /\ rcv'[s].port = rcv[s].port
  <2>1. rcv \in [Sessions -> Receiver] /\ rcv[s] \in Receiver
    BY <1>0 DEF TypesInv
  <2>2. rcv'[s] = [rcv[s] EXCEPT !.pc = "done", !.result = "ok"]
    BY <1>1, <2>1
  <2>3. rcv'[s] \in Receiver
    BY <2>1, <2>2 DEF Receiver
  <2> QED
    BY <1>1, <2>1, <2>2, <2>3 DEF Receiver
<1>3. TypesInv' /\ Own(s)
  BY <1>0, <1>1, <1>2 DEF TypesInv, Own
<1>4. PortInv'
  <2>1. \A q \in Ports : vhci[q].sess \in Sessions \cup {None}
    BY <1>0 DEF TypesInv
  <2> QED
    BY <1>0, <1>1, <1>2, <2>1 DEF PortInv
<1>5. MessagesOK(s)'
  BY <1>0, <1>1, <1>2, MessagesKept DEF Early, Greeting
<1>6. ProcessOK(s)' /\ PairOK(s)' /\ DeviceOK(s)' /\ TurnsOK(s)' /\ FramesOK(s)'
  BY <1>0, <1>1, <1>2
  DEF ProcessOK, PairOK, DeviceOK, TurnsOK, FramesOK, Greeting, Driving, Logging, Handing,
      Running
<1>7. DriveOK(s)'
  BY <1>1 DEF DriveOK
<1> QED
  BY <1>3, <1>4, <1>5, <1>6, <1>7, OwnKeeps DEF SessionInv

-----------------------------------------------------------------------------
(* The sender's handshake. *)

Hand == {"tls", "tlsfin", "hello", "list", "attach"}

(* A sender that has not attached a device has a receiver that waits for it, *)
(* or none.                                                                  *)
LEMMA HandFacts ==
    ASSUME UInv, NEW s \in Sessions, snd[s].pc \in Hand
    PROVE  /\ rcv[s].pc \in Greeting \cup {"done"} /\ snd[s].busid = None
           /\ SndOpen(s) /\ (rcv[s].pc # "done" => RcvOpen(s))
<1>1. TypesInv /\ ProcessOK(s) /\ DeviceOK(s) /\ rcv[s].pc \in Programs
  BY Parts, RcvFields
<1>2. snd[s].busid = None /\ rcv[s].pc # "dial" /\ SndOpen(s)
  BY <1>1 DEF ProcessOK, Attached, Hand, SndOpen
<1>3. rcv[s].pc \notin Running
  BY <1>1, <1>2, SetupAssumption DEF DeviceOK
<1>4. rcv[s].pc \in Greeting \cup {"done"}
  BY <1>1, <1>2, <1>3 DEF Programs, Running, Driving, Logging, Handing
<1> QED
  BY <1>1, <1>2, <1>4 DEF ProcessOK, Greeting, RcvOpen

(* The sender answers a request of the handshake. *)
LEMMA AnswerKeeps ==
    ASSUME UInv, NEW s \in Sessions, NEW g \in {"tls", "hello", "list"},
           NEW pc \in {"tlsfin", "list", "attach"}, NEW m \in DownMsg,
           \/ g = "tls" /\ pc = "tlsfin" /\ m.t = "SERVER_FLIGHT"
           \/ g = "hello" /\ pc = "list" /\ m.t = "HELLO_ACK"
           \/ g = "list" /\ pc = "attach" /\ m.t = "DEVICES",
           snd[s].pc \in Hand, rcv[s].pc \in {g, "done"}, up[s] # <<>>, DownOK(s, m)',
           rcv[s].pc = g => Len(up[s]) = 1 /\ down[s] = <<>>,
           pc # "tlsfin" => conf[s].rpsk = conf[s].spsk,
           up' = Pop(up, s), down' = Push(down, s, m, RcvOpen(s)), snd' = SGo(s, pc),
           UNCHANGED <<conf, rcv, vhci>>
    PROVE  UInv'
<1>0. /\ TypesInv /\ ProcessOK(s) /\ MessagesOK(s) /\ PairOK(s) /\ DeviceOK(s) /\ TurnsOK(s)
      /\ FramesOK(s) /\ DriveOK(s)
  BY Parts
<1>1. snd[s].busid = None /\ SndOpen(s) /\ (rcv[s].pc # "done" => RcvOpen(s))
  BY HandFacts
<1>2. /\ up' \in [Sessions -> Seq(UpMsg)] /\ \A d \in Sessions \ {s} : up'[d] = up[d]
      /\ Msgs(up'[s]) \subseteq Msgs(up[s]) /\ (Len(up[s]) = 1 => up'[s] = <<>>)
  BY Asked
<1>3. /\ down' \in [Sessions -> Seq(DownMsg)] /\ \A d \in Sessions \ {s} : down'[d] = down[d]
      /\ Msgs(down'[s]) \subseteq Msgs(down[s]) \cup {m}
      /\ down[s] = <<>> /\ RcvOpen(s) => Len(down'[s]) = 1 /\ down'[s][1] = m
  BY <1>0, DownPush
<1>4. /\ snd' \in [Sessions -> Sender] /\ \A d \in Sessions \ {s} : snd'[d] = snd[d]
      /\ snd'[s].pc = pc /\ snd'[s].busid = snd[s].busid /\ snd'[s].oks = snd[s].oks
      /\ snd'[s].sent = snd[s].sent /\ snd'[s].killed = snd[s].killed
  BY <1>0, AwaitedBySender, SGoFacts
<1>5. TypesInv' /\ Own(s)
  BY <1>0, <1>2, <1>3, <1>4 DEF TypesInv, Own
<1>6. PortInv'
  BY PortsKept
<1>7. MessagesOK(s)'
  BY <1>0, <1>2, <1>3, <1>4, MessagesKept
<1>8. ProcessOK(s)' /\ PairOK(s)' /\ DeviceOK(s)'
  BY <1>0, <1>1, <1>4
  DEF ProcessOK, PairOK, DeviceOK, Attached, Running
<1>9. TurnsOK(s)' /\ FramesOK(s)'
  BY <1>0, <1>1, <1>2, <1>3, <1>4 DEF TurnsOK, FramesOK, Only, Attached, Logging, SndOpen
<1>10. DriveOK(s)'
  BY <1>0, <1>4 DEF DriveOK, ScriptOK, Excused
<1> QED
  BY <1>5, <1>6, <1>7, <1>8, <1>9, <1>10, OwnKeeps DEF SessionInv

LEMMA TlsAcceptStep == ASSUME UInv, NEW s \in Sessions, STls(s) PROVE UInv'
<1>1. /\ snd[s].pc = "tls" /\ up[s] # <<>> /\ Head(up[s]).t = "CLIENT_HELLO"
      /\ TurnsOK(s) /\ TypesInv
  BY Parts DEF STls, SHas
<1>2. /\ rcv[s].pc \in Greeting \cup {"done"} /\ snd[s].busid = None /\ Head(up[s]) = up[s][1]
  BY <1>1, HandFacts, Asked DEF Hand
<1>3. /\ rcv[s].pc \in {"tls", "done"}
      /\ rcv[s].pc = "tls" => Len(up[s]) = 1 /\ down[s] = <<>>
  BY <1>1, <1>2 DEF TurnsOK, Only, Greeting
<1>4. PICK m \in DownMsg : m = [t |-> "SERVER_FLIGHT", id |-> Identity(conf[s].spsk)]
  BY <1>1, ConfType, IdentityType, DownTypes DEF Conf
<1>5. m.t = "SERVER_FLIGHT" /\ m.id = Identity(conf[s].spsk)
  BY <1>4
<1>6. DownOK(s, m)'
  BY <1>5 DEF DownOK, STls
<1>7. snd[s].pc \in Hand
  BY <1>1 DEF Hand
<1> QED
  BY <1>1, <1>3, <1>4, <1>5, <1>6, <1>7, AnswerKeeps DEF STls

LEMMA HelloStep == ASSUME UInv, NEW s \in Sessions, SHello(s) PROVE UInv'
<1>1. /\ snd[s].pc = "hello" /\ up[s] # <<>> /\ Head(up[s]).t = "HELLO"
      /\ TurnsOK(s) /\ TypesInv /\ PairOK(s)
  BY Parts DEF SHello, SHas
<1>2. /\ rcv[s].pc \in Greeting \cup {"done"} /\ snd[s].busid = None /\ Head(up[s]) = up[s][1]
      /\ UpOK(s, Head(up[s]))
  BY <1>1, HandFacts, Asked DEF Hand
<1>3. /\ rcv[s].pc \in {"hello", "done"}
      /\ rcv[s].pc = "hello" => Len(up[s]) = 1 /\ down[s] = <<>>
  BY <1>1, <1>2 DEF TurnsOK, Only, Greeting
<1>4. conf[s].rpsk = conf[s].spsk
  BY <1>1, <1>2 DEF UpOK, PairOK
<1>5. PICK m \in DownMsg : m = [t |-> "HELLO_ACK"]
  BY DownTypes
<1>6. m.t = "HELLO_ACK"
  BY <1>5
<1>7. DownOK(s, m)'
  BY <1>4, <1>6 DEF DownOK, SHello
<1>8. snd[s].pc \in Hand
  BY <1>1 DEF Hand
<1> QED
  BY <1>1, <1>3, <1>4, <1>5, <1>6, <1>7, <1>8, AnswerKeeps DEF SHello

LEMMA DeviceListStep == ASSUME UInv, NEW s \in Sessions, SList(s) PROVE UInv'
<1>1. /\ snd[s].pc = "list" /\ up[s] # <<>> /\ Head(up[s]).t = "LIST"
      /\ TurnsOK(s) /\ TypesInv /\ PairOK(s)
  BY Parts DEF SList, SHas
<1>2. /\ rcv[s].pc \in Greeting \cup {"done"} /\ snd[s].busid = None /\ Head(up[s]) = up[s][1]
  BY <1>1, HandFacts, Asked DEF Hand
<1>3. /\ rcv[s].pc \in {"list", "done"}
      /\ rcv[s].pc = "list" => Len(up[s]) = 1 /\ down[s] = <<>>
  BY <1>1, <1>2 DEF TurnsOK, Only, Greeting
<1>4. conf[s].rpsk = conf[s].spsk
  BY <1>1 DEF PairOK
<1>5. PICK m \in DownMsg : m = [t |-> "DEVICES", devs |-> conf[s].devs]
  BY <1>1, ConfType, DownTypes DEF Conf
<1>6. m.t = "DEVICES" /\ m.devs = conf[s].devs
  BY <1>5
<1>7. DownOK(s, m)'
  BY <1>6 DEF DownOK, SList
<1>8. snd[s].pc \in Hand
  BY <1>1 DEF Hand
<1> QED
  BY <1>1, <1>3, <1>4, <1>5, <1>6, <1>7, <1>8, AnswerKeeps DEF SList

(* The receiver's certificate decides: with the other code the session ends. *)
LEMMA TlsFinishStep == ASSUME UInv, NEW s \in Sessions, STlsFin(s) PROVE UInv'
<1>0. /\ TypesInv /\ ProcessOK(s) /\ MessagesOK(s) /\ PairOK(s) /\ DeviceOK(s) /\ TurnsOK(s)
      /\ FramesOK(s) /\ DriveOK(s)
  BY Parts
<1>1. /\ snd[s].pc = "tlsfin" /\ up[s] # <<>> /\ Head(up[s]).t = "CLIENT_FLIGHT"
      /\ up' = Pop(up, s) /\ UNCHANGED <<conf, rcv, down, vhci>>
  BY DEF STlsFin, SHas
<1>2. /\ rcv[s].pc \in Greeting \cup {"done"} /\ snd[s].busid = None /\ SndOpen(s)
  BY <1>1, HandFacts DEF Hand
<1>3. /\ up' \in [Sessions -> Seq(UpMsg)] /\ \A d \in Sessions \ {s} : up'[d] = up[d]
      /\ Msgs(up'[s]) \subseteq Msgs(up[s]) /\ up'[s] = Tail(up[s])
      /\ Head(up[s]) = up[s][1] /\ Head(up[s]).id = Identity(conf[s].rpsk)
  BY <1>1, Asked DEF UpOK
<1>4. CASE ~Matches(conf[s].spsk, Head(up[s]).id)
  <2>1. snd' = SGo(s, "closed") /\ conf[s].rpsk # conf[s].spsk
    BY <1>3, <1>4 DEF STlsFin, Matches
  <2>2. /\ snd' \in [Sessions -> Sender] /\ \A d \in Sessions \ {s} : snd'[d] = snd[d]
        /\ snd'[s].pc = "closed" /\ snd'[s].busid = snd[s].busid /\ snd'[s].oks = snd[s].oks
        /\ snd'[s].sent = snd[s].sent /\ snd'[s].killed = snd[s].killed
    BY <1>0, <2>1, SGoFacts
  <2>3. Excused(s)'
    BY <1>1, <2>1 DEF Excused
  <2> QED
    BY <1>1, <1>3, <2>2, <2>3, CloseKeeps
<1>5. CASE Matches(conf[s].spsk, Head(up[s]).id)
  <2>1. snd' = SGo(s, "hello") /\ conf[s].rpsk = conf[s].spsk
    BY <1>3, <1>5, IdentityInjective DEF STlsFin, Matches
  <2>2. /\ snd' \in [Sessions -> Sender] /\ \A d \in Sessions \ {s} : snd'[d] = snd[d]
        /\ snd'[s].pc = "hello" /\ snd'[s].busid = snd[s].busid /\ snd'[s].oks = snd[s].oks
        /\ snd'[s].sent = snd[s].sent /\ snd'[s].killed = snd[s].killed
    BY <1>0, <2>1, AwaitedBySender, SGoFacts
  <2>3. /\ rcv[s].pc \in {"hello", "done"}
        /\ rcv[s].pc = "hello" => down[s] = <<>> /\ Len(up[s]) = 2 /\ up[s][2].t = "HELLO"
    BY <1>0, <1>1, <1>2 DEF TurnsOK, Greeting
  <2>4. rcv[s].pc = "hello" => Len(up'[s]) = 1 /\ up'[s][1].t = "HELLO"
    <3>1. up[s] \in Seq(UpMsg)
      BY <1>0 DEF TypesInv
    <3>2. /\ Len(Tail(up[s])) = Len(up[s]) - 1
          /\ \A i \in 1 .. Len(up[s]) - 1 : Tail(up[s])[i] = up[s][i + 1]
      BY <1>1, <3>1, Popped
    <3> QED
      BY <1>3, <2>3, <3>2
  <2>5. TypesInv' /\ Own(s)
    BY <1>0, <1>1, <1>3, <2>2 DEF TypesInv, Own
  <2>6. PortInv'
    BY <1>1, PortsKept
  <2>7. MessagesOK(s)'
    BY <1>0, <1>1, <1>3, <2>2, MessagesKept
  <2>8. ProcessOK(s)' /\ PairOK(s)' /\ DeviceOK(s)'
    BY <1>0, <1>1, <1>2, <2>1, <2>2 DEF ProcessOK, PairOK, DeviceOK, Attached, Running
  <2>9. TurnsOK(s)' /\ FramesOK(s)'
    BY <1>0, <1>1, <1>2, <2>2, <2>3, <2>4 DEF TurnsOK, FramesOK, Only, Attached, Logging, SndOpen
  <2>10. DriveOK(s)'
    BY <1>0, <1>1, <2>2, <2>3 DEF DriveOK, ScriptOK, Excused
  <2> QED
    BY <2>5, <2>6, <2>7, <2>8, <2>9, <2>10, OwnKeeps DEF SessionInv
<1> QED
  BY <1>4, <1>5

(* A request is read and nothing is done. *)
LEMMA SkipKeeps ==
    ASSUME UInv, NEW s \in Sessions, up[s] # <<>>, up' = Pop(up, s),
           UNCHANGED <<conf, rcv, snd, down, vhci>>,
           rcv[s].pc # "attach" \/ snd[s].pc \notin {"attach"} \cup Attached,
           rcv[s].pc \in {"tls", "hello", "list"} =>
              rcv[s].pc = "tls" /\ snd[s].pc = "hello" /\ conf[s].spsk = None /\ Len(up[s]) = 1,
           conf[s].mode = "real" \/ snd[s].pc # "pump"
    PROVE  UInv'
<1>0. /\ TypesInv /\ ProcessOK(s) /\ MessagesOK(s) /\ PairOK(s) /\ DeviceOK(s) /\ TurnsOK(s)
      /\ FramesOK(s) /\ DriveOK(s)
  BY Parts
<1>1. /\ up' \in [Sessions -> Seq(UpMsg)] /\ \A d \in Sessions \ {s} : up'[d] = up[d]
      /\ Msgs(up'[s]) \subseteq Msgs(up[s]) /\ (Len(up[s]) = 1 => up'[s] = <<>>)
  BY Asked
<1>2. TypesInv' /\ Own(s)
  BY <1>0, <1>1 DEF TypesInv, Own
<1>3. PortInv'
  BY PortsKept
<1>4. MessagesOK(s)'
  BY <1>0, <1>1, MessagesKept
<1>5. rcv[s].pc # "dial"
  BY <1>0 DEF ProcessOK
<1>6. ProcessOK(s)' /\ PairOK(s)' /\ DeviceOK(s)' /\ FramesOK(s)'
  BY <1>0, <1>5 DEF ProcessOK, PairOK, DeviceOK, FramesOK, Relayed, SndOpen
<1>7. TurnsOK(s)'
  BY <1>0, <1>1, <1>5 DEF TurnsOK, Only
<1>8. DriveOK(s)'
  BY <1>0, <1>1 DEF DriveOK, ScriptOK, Exchange, Submit, Unlink, Excused
<1> QED
  BY <1>2, <1>3, <1>4, <1>6, <1>7, <1>8, OwnKeeps DEF SessionInv

LEMMA ForeignStep == ASSUME UInv, NEW s \in Sessions, SForeign(s) PROVE UInv'
<1>1. /\ snd[s].pc = "hello" /\ up[s] # <<>> /\ Head(up[s]).t = "CLIENT_HELLO" /\ TurnsOK(s)
      /\ up' = Pop(up, s) /\ UNCHANGED <<conf, rcv, snd, down, vhci>>
  BY Parts DEF SForeign, SHas
<1>2. /\ rcv[s].pc \in Greeting \cup {"done"} /\ Head(up[s]) = up[s][1] /\ snd[s].busid = None
  BY <1>1, HandFacts, Asked DEF Hand
<1>3. /\ rcv[s].pc \in {"tls", "done"}
      /\ rcv[s].pc = "tls" => conf[s].spsk = None /\ Len(up[s]) = 1
  BY <1>1, <1>2 DEF TurnsOK, Only, Greeting
<1> QED
  BY <1>1, <1>3, SkipKeeps

LEMMA RawStep == ASSUME UInv, NEW s \in Sessions, SRaw(s) PROVE UInv'
<1>1. /\ snd[s].pc \in {"pump", "bind"} /\ up[s] # <<>> /\ Head(up[s]).t = "RAW" /\ TurnsOK(s)
      /\ up' = Pop(up, s) /\ UNCHANGED <<conf, rcv, down, vhci>> /\ ProcessOK(s) /\ TypesInv
  BY Parts DEF SRaw, SHas
<1>2. /\ conf[s].mode = "real" /\ up' \in [Sessions -> Seq(UpMsg)]
      /\ \A d \in Sessions \ {s} : up'[d] = up[d]
      /\ Msgs(up'[s]) \subseteq Msgs(up[s])
  BY <1>1, Asked DEF UpOK
<1>3. CASE snd' = SGo(s, "closed")
  <2>1. /\ snd' \in [Sessions -> Sender] /\ \A d \in Sessions \ {s} : snd'[d] = snd[d]
        /\ snd'[s].pc = "closed" /\ snd'[s].busid = snd[s].busid /\ snd'[s].oks = snd[s].oks
        /\ snd'[s].sent = snd[s].sent /\ snd'[s].killed = snd[s].killed
    BY <1>1, <1>3, SGoFacts
  <2> QED
    BY <1>1, <1>2, <2>1, CloseKeeps
<1>4. CASE UNCHANGED snd
  <2>1. snd[s].busid # None /\ rcv[s].pc \notin {"attach", "tls", "hello", "list"}
    BY <1>1 DEF ProcessOK, TurnsOK, Attached
  <2> QED
    BY <1>1, <1>2, <1>4, <2>1, SkipKeeps
<1> QED
  BY <1>3, <1>4 DEF SRaw

LEMMA AttachStep == ASSUME UInv, NEW s \in Sessions, SAttach(s) PROVE UInv'
<1>0. /\ TypesInv /\ ProcessOK(s) /\ MessagesOK(s) /\ PairOK(s) /\ DeviceOK(s) /\ TurnsOK(s)
      /\ FramesOK(s) /\ DriveOK(s)
  BY Parts
<1>1. /\ snd[s].pc = "attach" /\ up[s] # <<>> /\ Head(up[s]).t = "ATTACH"
      /\ up' = Pop(up, s) /\ UNCHANGED <<conf, rcv, vhci>>
  BY DEF SAttach, SHas
<1>2. /\ rcv[s].pc \in Greeting \cup {"done"} /\ snd[s].busid = None /\ SndOpen(s)
      /\ rcv[s].pc # "done" => RcvOpen(s)
  BY <1>1, HandFacts DEF Hand
<1>3. /\ up' \in [Sessions -> Seq(UpMsg)] /\ \A d \in Sessions \ {s} : up'[d] = up[d]
      /\ Msgs(up'[s]) \subseteq Msgs(up[s]) /\ (Len(up[s]) = 1 => up'[s] = <<>>)
      /\ Head(up[s]).busid \in Busids /\ Head(up[s]).busid = rcv[s].chosen
      /\ Head(up[s]).busid \in conf[s].devs /\ rcv[s].pc \notin {"tls", "hello", "list"}
  BY <1>1, Asked, UpFields DEF UpOK
<1>4. rcv[s].pc \in {"attach", "done"}
  BY <1>2, <1>3 DEF Greeting
<1>5. CASE conf[s].peer = "mockhid"
  <2>1. snd' = SGo(s, "closed") /\ UNCHANGED down
    BY <1>5 DEF SAttach
  <2>2. /\ snd' \in [Sessions -> Sender] /\ \A d \in Sessions \ {s} : snd'[d] = snd[d]
        /\ snd'[s].pc = "closed" /\ snd'[s].busid = snd[s].busid /\ snd'[s].oks = snd[s].oks
        /\ snd'[s].sent = snd[s].sent /\ snd'[s].killed = snd[s].killed
    BY <1>0, <2>1, SGoFacts
  <2> QED
    BY <1>1, <1>3, <1>5, <2>1, <2>2, CloseKeeps
<1>6. CASE conf[s].peer # "mockhid"
  <2>b. PICK b \in Busids : b = rcv[s].chosen /\ b = Head(up[s]).busid
    BY <1>3
  <2>p. PICK pc \in {"pump", "stream", "bind"} :
           /\ pc = [pump |-> "pump", mock |-> "stream", linux |-> "bind"][conf[s].peer]
           /\ pc = "pump" <=> conf[s].peer = "pump"
           /\ pc = "stream" <=> conf[s].peer = "mock"
           /\ pc = "bind" <=> conf[s].peer = "linux"
    <3>1. conf[s].peer \in {"pump", "mock", "linux"}
      BY <1>0, <1>6, ConfType DEF Conf
    <3> QED
      BY <3>1
  <2>m. PICK m \in DownMsg : m = [t |-> "ATTACH_OK", legacy |-> conf[s].peer = "linux",
                                  imp |-> ImportId(conf[s].peer)]
    <3>1. (conf[s].peer = "linux") \in BOOLEAN
      OBVIOUS
    <3> QED
      BY <3>1, ImportType, DownTypes
  <2>1. /\ down' = Push(down, s, m, RcvOpen(s))
        /\ snd' = [snd EXCEPT ![s].pc = pc, ![s].busid = b]
    BY <1>3, <1>6, <2>b, <2>p, <2>m DEF SAttach
  <2>2. m.t = "ATTACH_OK" /\ m.imp = ImportId(conf[s].peer) /\ (m.legacy => conf[s].peer = "linux")
    BY <2>m
  <2>3. /\ down' \in [Sessions -> Seq(DownMsg)] /\ \A d \in Sessions \ {s} : down'[d] = down[d]
        /\ Msgs(down'[s]) \subseteq Msgs(down[s]) \cup {m}
        /\ down[s] = <<>> /\ RcvOpen(s) => Len(down'[s]) = 1 /\ down'[s][1] = m
    BY <1>0, <2>1, DownPush
  <2>4. /\ snd' \in [Sessions -> Sender] /\ \A d \in Sessions \ {s} : snd'[d] = snd[d]
        /\ snd'[s].pc = pc /\ snd'[s].busid = b /\ snd'[s].oks = snd[s].oks
        /\ snd'[s].sent = snd[s].sent /\ snd'[s].killed = snd[s].killed
    <3>1. snd \in [Sessions -> Sender] /\ snd[s] \in Sender
      BY <1>0 DEF TypesInv
    <3>2. snd'[s] = [snd[s] EXCEPT !.pc = pc, !.busid = b]
      BY <2>1, <3>1
    <3>3. snd'[s] \in Sender
      BY <3>1, <3>2, AwaitedBySender DEF Sender
    <3> QED
      BY <2>1, <3>1, <3>2, <3>3 DEF Sender
  <2>5. TypesInv' /\ Own(s)
    BY <1>0, <1>1, <1>3, <2>3, <2>4 DEF TypesInv, Own
  <2>6. PortInv'
    BY <1>1, PortsKept
  <2>7. MessagesOK(s)'
    <3>1. DownOK(s, m)'
      BY <1>1, <1>4, <2>b, <2>2, <2>4 DEF DownOK
    <3>2. snd'[s].busid # None
      BY <2>4, SetupAssumption
    <3> QED
      BY <1>0, <1>1, <1>3, <2>b, <2>3, <2>4, <3>1, <3>2, MessagesKept
  <2>8. ProcessOK(s)' /\ PairOK(s)' /\ DeviceOK(s)'
    BY <1>0, <1>1, <1>2, <1>4, <2>b, <2>p, <2>4, SetupAssumption
    DEF ProcessOK, PairOK, DeviceOK, Attached, Running
  <2>9. TurnsOK(s)'
    BY <1>0, <1>1, <1>2, <1>3, <1>4, <2>4, SetupAssumption DEF TurnsOK, Only
  <2>10. FramesOK(s)'
    <3>1. rcv[s].pc = "attach" => down[s] = <<>> /\ RcvOpen(s) /\ snd[s].sent = 0
      BY <1>0, <1>2 DEF TurnsOK, ProcessOK
    <3>2. rcv[s].pc = "attach" =>
             Len(down'[s]) = 1 /\ down'[s][1] = m /\ \A i \in 2 .. 1 : down'[s][i].t = "FRAME"
      BY <2>3, <3>1
    <3>3. rcv[s].pc = "attach" =>
             /\ Len(down'[s]) = snd'[s].sent + 1 /\ down'[s][1].t = "ATTACH_OK"
             /\ \A i \in 2 .. Len(down'[s]) : down'[s][i].t = "FRAME"
      <4>1. PICK q : q = down'[s]
        OBVIOUS
      <4>2. ASSUME rcv[s].pc = "attach"
            PROVE  /\ Len(q) = snd'[s].sent + 1 /\ q[1].t = "ATTACH_OK"
                   /\ \A i \in 2 .. Len(q) : q[i].t = "FRAME"
        <5>1. Len(q) = 1 /\ q[1] = m /\ snd'[s].sent = 0
          BY <2>4, <3>1, <3>2, <4>1, <4>2
        <5>2. \A i \in 2 .. Len(q) : FALSE
          BY <5>1
        <5> QED
          BY <2>2, <5>1, <5>2
      <4> QED
        BY <4>1, <4>2
    <3>4. conf[s].mode = "log" /\ rcv[s].result = "ok" => rcv[s].stop
      BY <1>0, <1>2 DEF FramesOK
    <3> QED
      BY <1>1, <1>4, <3>3, <3>4 DEF FramesOK, Logging
  <2>11. DriveOK(s)'
    <3>1. \A x \in Msgs(up'[s]) : x.t # "SUBMIT"
      BY <1>0, <1>2, <1>3 DEF MessagesOK, UpOK
    <3> QED
      BY <1>0, <1>1, <1>4, <2>4, <3>1 DEF DriveOK, ScriptOK, Excused
  <2> QED
    BY <2>5, <2>6, <2>7, <2>8, <2>9, <2>10, <2>11, OwnKeeps DEF SessionInv
<1> QED
  BY <1>5, <1>6

-----------------------------------------------------------------------------
(* The sender with a device. *)

(* One answer for each command. *)
LEMMA PumpStep == ASSUME UInv, NEW s \in Sessions, SPump(s) PROVE UInv'
<1>0. /\ TypesInv /\ ProcessOK(s) /\ MessagesOK(s) /\ PairOK(s) /\ DeviceOK(s) /\ TurnsOK(s)
      /\ FramesOK(s) /\ DriveOK(s)
  BY Parts
<1>1. /\ snd[s].pc = "pump" /\ up[s] # <<>> /\ Head(up[s]).t \in {"SUBMIT", "UNLINK"}
      /\ up' = Pop(up, s) /\ UNCHANGED <<conf, rcv, vhci>>
  BY DEF SPump, SHas
<1>2. PICK m \in Command : m = Head(up[s]) /\ m = up[s][1] /\ m.t \in {"SUBMIT", "UNLINK"}
  BY <1>1, Asked, UpFields
<1>3. /\ up' \in [Sessions -> Seq(UpMsg)] /\ \A d \in Sessions \ {s} : up'[d] = up[d]
      /\ Msgs(up'[s]) \subseteq Msgs(up[s]) /\ (Len(up[s]) = 1 => up'[s] = <<>>)
      /\ m \in Msgs(up[s]) /\ conf[s].mode = "drive" /\ rcv[s].pc \notin {"dial"} \cup Greeting
  BY <1>1, <1>2, Asked DEF UpOK
<1>4. /\ conf[s].peer = "pump" /\ ScriptOK(s) /\ rcv[s].pc \in Driving \cup {"done"}
      /\ snd[s].busid # None
  <2>1. rcv[s].pc \in Programs /\ conf[s].peer = "pump" /\ snd[s].busid # None
    BY <1>0, <1>1, RcvFields DEF ProcessOK, Attached
  <2> QED
    BY <1>0, <1>3, <2>1 DEF DriveOK, ProcessOK, Programs
<1>5. \/ /\ rcv[s].pc = "ret" /\ m = Submit(s) /\ m.t = "SUBMIT" /\ Answer(m).status = 0
      \/ /\ rcv[s].pc = "unlinkret" /\ m = Unlink(s) /\ m.t = "UNLINK"
      \/ rcv[s].pc = "done" /\ m.t = "UNLINK"
  <2>1. rcv[s].pc \notin {"submit", "unlink"}
    BY <1>1, <1>4 DEF ScriptOK
  <2>2. CASE rcv[s].pc = "ret"
    <3>1. m = Submit(s) /\ rcv[s].oks + 1 \in 1 .. Len(Script)
      BY <1>0, <1>1, <1>2, <1>4, <2>2, RcvFields, ScriptServed DEF ScriptOK, Exchange, ProcessOK
    <3>2. Answer(m).status = 0
      BY <3>1, AnswerExpected DEF Submit
    <3>3. m.t = "SUBMIT"
      BY <3>1 DEF Submit
    <3> QED
      BY <2>2, <3>1, <3>2, <3>3
  <2>3. CASE rcv[s].pc = "unlinkret"
    BY <1>1, <1>2, <1>4, <2>3 DEF ScriptOK, Exchange, Unlink
  <2>4. CASE rcv[s].pc = "done"
    BY <1>1, <1>2, <1>3, <1>4, <2>4 DEF ScriptOK
  <2> QED
    BY <1>4, <2>1, <2>2, <2>3, <2>4 DEF Driving
<1>6. CASE ~Acceptable(s, m)
  <2>1. snd' = SGo(s, "closed") /\ UNCHANGED down
    BY <1>2, <1>6 DEF SPump
  <2>2. /\ snd' \in [Sessions -> Sender] /\ \A d \in Sessions \ {s} : snd'[d] = snd[d]
        /\ snd'[s].pc = "closed" /\ snd'[s].busid = snd[s].busid /\ snd'[s].oks = snd[s].oks
        /\ snd'[s].sent = snd[s].sent /\ snd'[s].killed = snd[s].killed
    BY <1>0, <2>1, SGoFacts
  <2>3. rcv[s].pc = "done"
    <3> SUFFICES ASSUME rcv[s].pc \in {"ret", "unlinkret"} PROVE Acceptable(s, m)
      BY <1>5, <1>6
    <3>1. rcv[s].imp = ImportId(conf[s].peer)
      BY <1>0 DEF DeviceOK, Running
    <3>2. CASE rcv[s].pc = "ret"
      <4>1. PICK i \in 1 .. Len(Script) : i = rcv[s].oks + 1
        BY <1>0, <3>2, RcvFields, ScriptServed DEF ProcessOK
      <4>2. m = [t |-> "SUBMIT", imp |-> rcv[s].imp, urb |-> Script[i]]
        BY <1>5, <3>2, <4>1 DEF Submit
      <4>3. ~Script[i].in => Script[i].body >= Script[i].len
        BY AnswerExpected
      <4> QED
        BY <3>1, <4>2, <4>3 DEF Acceptable
    <3>3. CASE rcv[s].pc = "unlinkret"
      BY <1>5, <3>1, <3>3 DEF Acceptable, Unlink
    <3> QED
      BY <3>2, <3>3
  <2> QED
    BY <1>1, <1>3, <2>1, <2>2, <2>3, CloseKeeps
<1>7. CASE Acceptable(s, m)
  <2>a. PICK a \in DownMsg : a = Answer(m)
    BY DownTypes
  <2>n. PICK n \in Nat : /\ n = snd[s].oks + (IF rcv[s].pc = "ret" THEN 1 ELSE 0)
                         /\ n = IF rcv[s].pc = "ret" THEN snd[s].oks + 1 ELSE snd[s].oks
    BY <1>0, SndFields
  <2>1. /\ down' = Push(down, s, a, RcvOpen(s))
        /\ snd' = [snd EXCEPT ![s].oks = n]
    <3>1. snd \in [Sessions -> Sender]
      BY <1>0 DEF TypesInv
    <3>2. /\ down' = Push(down, s, Answer(m), RcvOpen(s))
          /\ snd' = [snd EXCEPT ![s].oks =
                       IF m.t = "SUBMIT" /\ Answer(m).status = 0 THEN @ + 1 ELSE @]
      BY <1>2, <1>7 DEF SPump
    <3> QED
      BY <1>5, <2>a, <2>n, <3>1, <3>2
  <2>2. a.t \in {"RET_SUBMIT", "RET_UNLINK"}
    BY <2>a, AnswerType
  <2>3. /\ down' \in [Sessions -> Seq(DownMsg)] /\ \A d \in Sessions \ {s} : down'[d] = down[d]
        /\ Msgs(down'[s]) \subseteq Msgs(down[s]) \cup {a}
        /\ down[s] = <<>> /\ RcvOpen(s) => Len(down'[s]) = 1 /\ down'[s][1] = a
    BY <1>0, <2>1, DownPush
  <2>4. /\ snd' \in [Sessions -> Sender] /\ \A d \in Sessions \ {s} : snd'[d] = snd[d]
        /\ snd'[s].pc = "pump" /\ snd'[s].busid = snd[s].busid /\ snd'[s].oks = n
        /\ snd'[s].sent = snd[s].sent /\ snd'[s].killed = snd[s].killed
    <3>1. snd \in [Sessions -> Sender] /\ snd[s] \in Sender
      BY <1>0 DEF TypesInv
    <3>2. snd'[s] = [snd[s] EXCEPT !.oks = n]
      BY <2>1, <3>1
    <3>3. snd'[s] \in Sender
      BY <3>1, <3>2 DEF Sender
    <3> QED
      BY <1>1, <2>1, <3>1, <3>2, <3>3 DEF Sender
  <2>5. TypesInv' /\ Own(s)
    BY <1>0, <1>1, <1>3, <2>3, <2>4 DEF TypesInv, Own
  <2>6. PortInv'
    BY <1>1, PortsKept
  <2>7. MessagesOK(s)'
    <3>1. DownOK(s, a)'
      BY <2>2 DEF DownOK
    <3> QED
      BY <1>0, <1>1, <1>3, <2>3, <2>4, <3>1, MessagesKept
  <2>8. ProcessOK(s)' /\ PairOK(s)' /\ DeviceOK(s)' /\ TurnsOK(s)' /\ FramesOK(s)'
    BY <1>0, <1>1, <1>3, <1>4, <1>5, <2>4
    DEF ProcessOK, PairOK, DeviceOK, TurnsOK, FramesOK, Attached, Running, Logging
  <2>9. DriveOK(s)'
    <3>1. Submit(s)' = Submit(s) /\ Unlink(s)' = Unlink(s)
      BY <1>1 DEF Submit, Unlink
    <3>2. CASE rcv[s].pc = "ret"
      <4>1. /\ snd[s].oks = rcv[s].oks /\ down[s] = <<>> /\ Len(up[s]) = 1 /\ RcvOpen(s)
            /\ m = Submit(s)
        BY <1>0, <1>1, <1>4, <1>5, <3>2 DEF ScriptOK, Exchange, ProcessOK, RcvOpen
      <4>2. Exchange(s, Submit(s), 1)'
        BY <1>1, <1>3, <2>a, <2>n, <2>3, <2>4, <3>1, <3>2, <4>1 DEF Exchange
      <4> QED
        BY <1>1, <1>4, <2>4, <3>2, <4>2 DEF DriveOK, ScriptOK, Greeting
    <3>3. CASE rcv[s].pc = "unlinkret"
      <4>1. /\ snd[s].oks = rcv[s].oks /\ down[s] = <<>> /\ Len(up[s]) = 1 /\ RcvOpen(s)
            /\ m = Unlink(s)
        BY <1>0, <1>1, <1>4, <1>5, <3>3 DEF ScriptOK, Exchange, ProcessOK, RcvOpen
      <4>2. Exchange(s, Unlink(s), 0)'
        BY <1>1, <1>3, <2>a, <2>n, <2>3, <2>4, <3>1, <3>3, <4>1 DEF Exchange
      <4> QED
        BY <1>1, <1>4, <2>4, <3>3, <4>2 DEF DriveOK, ScriptOK, Greeting
    <3>4. CASE rcv[s].pc = "done"
      BY <1>1, <1>3, <1>4, <2>n, <2>4, <3>4 DEF DriveOK, ScriptOK, Greeting, Excused
    <3> QED
      BY <1>5, <3>2, <3>3, <3>4
  <2> QED
    BY <2>5, <2>6, <2>7, <2>8, <2>9, OwnKeeps DEF SessionInv
<1> QED
  BY <1>6, <1>7

(* A sender ends its session without having read a message. *)
LEMMA HangUp ==
    ASSUME UInv, NEW s \in Sessions, snd[s].pc # "accept", snd' = SGo(s, "closed"),
           UNCHANGED <<conf, rcv, up, down, vhci>>,
           conf[s].peer = "pump" /\ conf[s].mode = "drive" /\ rcv[s].pc # "done" => Excused(s)
    PROVE  UInv'
<1>1. TypesInv /\ up \in [Sessions -> Seq(UpMsg)]
  BY Parts DEF TypesInv
<1>2. /\ snd' \in [Sessions -> Sender] /\ \A d \in Sessions \ {s} : snd'[d] = snd[d]
      /\ snd'[s].pc = "closed" /\ snd'[s].busid = snd[s].busid /\ snd'[s].oks = snd[s].oks
      /\ snd'[s].sent = snd[s].sent /\ snd'[s].killed = snd[s].killed
  BY <1>1, SGoFacts
<1>3. Excused(s) => Excused(s)'
  BY <1>2 DEF Excused
<1> QED
  BY <1>1, <1>2, <1>3, CloseKeeps

LEMMA SenderBrokenStep == ASSUME UInv, NEW s \in Sessions, SBroken(s) PROVE UInv'
<1>1. /\ snd[s].pc \in {"tls", "tlsfin", "hello", "list", "attach", "bind", "pump"} /\ ~RcvOpen(s)
      /\ snd' = SGo(s, "closed") /\ UNCHANGED <<conf, rcv, up, down, vhci>> /\ ProcessOK(s)
  BY Parts, AwaitedBySender DEF SBroken, SEof
<1>2. rcv[s].pc \in {"handed", "done"}
  BY <1>1 DEF ProcessOK, RcvOpen
<1>3. conf[s].mode = "drive" => rcv[s].pc = "done"
  BY <1>1, <1>2 DEF ProcessOK, Handing
<1> QED
  BY <1>1, <1>3, HangUp

(* With the pump and its driver a message out of turn means two pairing codes. *)
LEMMA UnexpectedStep == ASSUME UInv, NEW s \in Sessions, SUnexpected(s) PROVE UInv'
<1>1. /\ snd[s].pc \in Hand \cup {"bind"} /\ up[s] # <<>>
      /\ Head(up[s]).t # SAwaits[snd[s].pc] /\ Head(up[s]).t # "CLIENT_HELLO"
      /\ snd' = SGo(s, "closed") /\ UNCHANGED <<conf, rcv, up, down, vhci>>
      /\ ProcessOK(s) /\ TurnsOK(s) /\ Head(up[s]) = up[s][1]
  BY Parts, Asked, AwaitedBySender DEF SUnexpected, Hand
<1>2. ASSUME conf[s].peer = "pump", rcv[s].pc # "done"
      PROVE  conf[s].rpsk # conf[s].spsk
  <2>1. snd[s].pc \in Hand
    BY <1>1, <1>2 DEF ProcessOK
  <2>2. rcv[s].pc \in Greeting /\ snd[s].busid = None
    BY <1>2, <2>1, HandFacts
  <2>3. snd[s].pc \in {"tls", "tlsfin", "hello", "list", "attach"}
    BY <2>1 DEF Hand
  <2>4. CASE rcv[s].pc = "tls"
    BY <1>1, <2>3, <2>4 DEF TurnsOK, Only
  <2>5. CASE rcv[s].pc = "hello"
    BY <1>1, <2>3, <2>5, AwaitedBySender DEF TurnsOK, Only
  <2>6. CASE rcv[s].pc = "list"
    BY <1>1, <2>3, <2>6, AwaitedBySender DEF TurnsOK, Only
  <2>7. CASE rcv[s].pc = "attach"
    BY <1>1, <2>2, <2>3, <2>7, AwaitedBySender DEF TurnsOK, Only
  <2> QED
    BY <2>2, <2>4, <2>5, <2>6, <2>7 DEF Greeting
<1>3. snd[s].pc # "accept"
  BY <1>1 DEF Hand
<1> QED
  BY <1>1, <1>2, <1>3, HangUp DEF Excused

LEMMA TimeoutStep == ASSUME UInv, NEW s \in Sessions, STimeout(s) PROVE UInv'
<1>1. snd[s].pc # "accept" /\ conf[s].peer # "pump"
  BY AwaitedBySender DEF STimeout
<1> QED
  BY <1>1, HangUp DEF STimeout

LEMMA StreamEndStep == ASSUME UInv, NEW s \in Sessions, SStreamEnd(s) PROVE UInv'
<1>1. snd[s].pc # "accept" /\ conf[s].peer # "pump"
  BY Parts DEF SStreamEnd, ProcessOK
<1> QED
  BY <1>1, HangUp DEF SStreamEnd

LEMMA KillStep == ASSUME UInv, NEW s \in Sessions, SKill(s) PROVE UInv'
<1>1. TypesInv /\ up \in [Sessions -> Seq(UpMsg)] /\ snd[s].pc # "accept"
  BY Parts DEF TypesInv, SKill, SndOpen
<1>2. /\ snd' \in [Sessions -> Sender] /\ \A d \in Sessions \ {s} : snd'[d] = snd[d]
      /\ snd'[s].pc = "closed" /\ snd'[s].busid = snd[s].busid /\ snd'[s].oks = snd[s].oks
      /\ snd'[s].sent = snd[s].sent /\ snd'[s].killed = TRUE
  <2>1. snd \in [Sessions -> Sender] /\ snd[s] \in Sender
    BY <1>1 DEF TypesInv
  <2>2. snd'[s] = [snd[s] EXCEPT !.pc = "closed", !.killed = TRUE]
    BY <2>1 DEF SKill
  <2>3. snd'[s] \in Sender
    BY <2>1, <2>2 DEF Sender
  <2> QED
    BY <2>1, <2>2, <2>3 DEF Sender, SKill
<1>3. Excused(s)'
  BY <1>2 DEF Excused
<1> QED
  BY <1>1, <1>2, <1>3, CloseKeeps DEF SKill

LEMMA StreamStep == ASSUME UInv, NEW s \in Sessions, SStream(s) PROVE UInv'
<1>0. /\ TypesInv /\ ProcessOK(s) /\ MessagesOK(s) /\ PairOK(s) /\ DeviceOK(s) /\ TurnsOK(s)
      /\ FramesOK(s) /\ DriveOK(s)
  BY Parts
<1>1. /\ snd[s].pc = "stream" /\ snd[s].sent < Reports /\ UNCHANGED <<conf, rcv, up, vhci>>
      /\ conf[s].peer = "mock" /\ snd[s].busid # None /\ SndOpen(s)
  BY <1>0 DEF SStream, ProcessOK, Attached, SndOpen
<1>m. PICK m \in DownMsg : m = [t |-> "FRAME"]
  BY DownTypes
<1>n. PICK n \in 0 .. Reports : n = snd[s].sent + 1
  BY <1>0, <1>1, SndFields, SetupAssumption
<1>2. m.t = "FRAME" /\ DownOK(s, m)'
  BY <1>m DEF DownOK
<1>3. /\ down' \in [Sessions -> Seq(DownMsg)] /\ \A d \in Sessions \ {s} : down'[d] = down[d]
      /\ Msgs(down'[s]) \subseteq Msgs(down[s]) \cup {m}
      /\ RcvOpen(s) => down'[s] = Append(down[s], m)
  BY <1>0, <1>m, DownPush DEF SStream
<1>4. /\ snd' \in [Sessions -> Sender] /\ \A d \in Sessions \ {s} : snd'[d] = snd[d]
      /\ snd'[s].pc = "stream" /\ snd'[s].busid = snd[s].busid /\ snd'[s].oks = snd[s].oks
      /\ snd'[s].sent = n /\ snd'[s].killed = snd[s].killed
  <2>1. snd \in [Sessions -> Sender] /\ snd[s] \in Sender
    BY <1>0 DEF TypesInv
  <2>2. snd' = [snd EXCEPT ![s].sent = n] /\ snd'[s] = [snd[s] EXCEPT !.sent = n]
    BY <1>n, <2>1 DEF SStream
  <2>3. snd'[s] \in Sender
    BY <2>1, <2>2 DEF Sender
  <2> QED
    BY <1>1, <2>1, <2>2, <2>3 DEF Sender
<1>5. TypesInv' /\ Own(s)
  BY <1>0, <1>1, <1>3, <1>4 DEF TypesInv, Own
<1>6. PortInv'
  BY <1>1, PortsKept
<1>7. MessagesOK(s)'
  BY <1>0, <1>1, <1>2, <1>3, <1>4, MessagesKept
<1>8. rcv[s].pc \notin {"dial", "tls", "hello", "list"}
  BY <1>0, <1>1 DEF TurnsOK
<1>9. ProcessOK(s)' /\ PairOK(s)' /\ DeviceOK(s)' /\ TurnsOK(s)'
  BY <1>0, <1>1, <1>4, <1>8 DEF ProcessOK, PairOK, DeviceOK, TurnsOK
<1>10. FramesOK(s)'
  <2>1. PICK k \in Nat : k = Len(down[s])
    BY <1>0, LenProperties DEF TypesInv
  <2>2. /\ Len(Append(down[s], m)) = k + 1 /\ Append(down[s], m)[k + 1] = m
        /\ \A i \in 1 .. k : Append(down[s], m)[i] = down[s][i]
    BY <1>0, <2>1, Appended DEF TypesInv
  <2>3. rcv[s].pc \in Logging \cup {"attach"} => RcvOpen(s)
    BY <1>0 DEF ProcessOK, Logging, RcvOpen
  <2>4. conf[s].mode = "log" /\ rcv[s].result = "ok" => rcv[s].stop
    BY <1>0, <1>1 DEF FramesOK
  <2>5. ASSUME rcv[s].pc = "attach"
        PROVE  /\ Len(down'[s]) = n + 1 /\ down'[s][1].t = "ATTACH_OK"
               /\ \A i \in 2 .. Len(down'[s]) : down'[s][i].t = "FRAME"
    <3>1. /\ k = snd[s].sent + 1 /\ down[s][1].t = "ATTACH_OK" /\ 1 \in 1 .. k
          /\ \A i \in 2 .. k : down[s][i].t = "FRAME"
      BY <1>0, <1>1, <2>1, <2>5, SndFields DEF FramesOK
    <3>2. \A i \in 2 .. k + 1 : i = k + 1 \/ (i \in 2 .. k /\ i \in 1 .. k)
      BY <2>1
    <3>3. PICK q : q = down'[s] /\ q = Append(down[s], m)
      BY <1>3, <2>3, <2>5
    <3>4. Len(q) = k + 1 /\ k + 1 = n + 1 /\ q[k + 1] = m /\ \A i \in 1 .. k : q[i] = down[s][i]
      BY <1>n, <2>2, <3>1, <3>3
    <3>5. \A i \in 2 .. k + 1 : q[i].t = "FRAME"
      BY <1>2, <3>1, <3>2, <3>4
    <3> QED
      BY <3>1, <3>3, <3>4, <3>5
  <2>6. ASSUME rcv[s].pc \in Logging
        PROVE  /\ Relayed(s) + Len(down'[s]) = n
               /\ \A i \in 1 .. Len(down'[s]) : down'[s][i].t = "FRAME"
    <3>1. Relayed(s) + k = snd[s].sent /\ \A i \in 1 .. k : down[s][i].t = "FRAME"
      BY <1>0, <2>1, <2>6 DEF FramesOK
    <3>2. \A i \in 1 .. k + 1 : i = k + 1 \/ i \in 1 .. k
      BY <2>1
    <3>3. Relayed(s) \in Nat /\ snd[s].sent \in Nat
      BY <1>0, RcvFields, SndFields, SetupAssumption DEF Relayed
    <3>4. PICK q : q = down'[s] /\ q = Append(down[s], m)
      BY <1>3, <2>3, <2>6
    <3>5. Len(q) = k + 1 /\ q[k + 1] = m /\ \A i \in 1 .. k : q[i] = down[s][i]
      BY <2>2, <3>4
    <3>6. \A i \in 1 .. k + 1 : q[i].t = "FRAME"
      BY <1>2, <3>1, <3>2, <3>5
    <3>7. Relayed(s) + (k + 1) = n
      <4>1. \A f, j, e \in Nat : f + j = e => f + (j + 1) = e + 1
        OBVIOUS
      <4> QED
        BY <1>n, <3>1, <3>3, <4>1
    <3> QED
      BY <3>4, <3>5, <3>6, <3>7
  <2> QED
    BY <1>1, <1>4, <2>4, <2>5, <2>6 DEF FramesOK, Relayed
<1>11. DriveOK(s)'
  BY <1>1 DEF DriveOK
<1> QED
  BY <1>5, <1>6, <1>7, <1>9, <1>10, <1>11, OwnKeeps DEF SessionInv

-----------------------------------------------------------------------------
(* The kernel. *)

(* The socket on a port is one its receiver has handed over. *)
LEMMA OnPort ==
    ASSUME UInv, NEW p \in Ports, vhci[p].sess # None
    PROVE  LET s == vhci[p].sess IN
           /\ s \in Sessions /\ vhci[p].sta # 4 /\ conf[s].mode = "real" /\ rcv[s].port = p
           /\ rcv[s].pc \in {"handed", "done"} /\ rcv[s].sock = "kernel"
<1>1. TypesInv /\ PortInv
  BY DEF UInv
<1>2. vhci[p].sess \in Sessions
  BY <1>1 DEF TypesInv
<1> QED
  BY <1>1, <1>2 DEF PortInv

(* Only what nobody reads any more changes in a session that was handed over. *)
LEMMA KernelKeeps ==
    ASSUME UInv, NEW s \in Sessions, conf[s].mode = "real", rcv[s].pc \in {"handed", "done"},
           UNCHANGED <<conf, snd, down>>, rcv' \in [Sessions -> Receiver],
           vhci' \in [Ports -> [sta : {4, 5, 6}, sess : Sessions \cup {None}]],
           \A d \in Sessions \ {s} : rcv'[d] = rcv[d] /\ up'[d] = up[d],
           rcv'[s].pc = rcv[s].pc, rcv'[s].result = rcv[s].result,
           rcv'[s].chosen = rcv[s].chosen, rcv'[s].imp = rcv[s].imp,
           up' \in [Sessions -> Seq(UpMsg)], PortInv',
           Msgs(up'[s]) \subseteq Msgs(up[s]) \cup {[t |-> "RAW"]}
    PROVE  UInv'
<1>0. /\ TypesInv /\ ProcessOK(s) /\ MessagesOK(s) /\ PairOK(s) /\ DeviceOK(s) /\ TurnsOK(s)
      /\ FramesOK(s) /\ DriveOK(s)
  BY Parts
<1>1. TypesInv' /\ Own(s)
  BY <1>0 DEF TypesInv, Own
<1>2. MessagesOK(s)'
  <2>1. UpOK(s, [t |-> "RAW"])'
    BY DEF UpOK
  <2> QED
    BY <1>0, <2>1, MessagesKept
<1>3. ProcessOK(s)' /\ PairOK(s)' /\ DeviceOK(s)' /\ TurnsOK(s)' /\ FramesOK(s)'
  BY <1>0
  DEF ProcessOK, PairOK, DeviceOK, TurnsOK, FramesOK, Greeting, Driving, Logging, Handing,
      Running
<1>4. DriveOK(s)'
  BY DEF DriveOK
<1> QED
  BY <1>1, <1>2, <1>3, <1>4, OwnKeeps DEF SessionInv

LEMMA KernelSubmitStep == ASSUME UInv, NEW p \in Ports, KSubmit(p) PROVE UInv'
<1>1. PICK s \in Sessions : /\ s = vhci[p].sess /\ conf[s].mode = "real" /\ rcv[s].sock = "kernel"
                            /\ rcv[s].pc \in {"handed", "done"}
  BY OnPort DEF KSubmit
<1>2. /\ up' = Push(up, s, [t |-> "RAW"], SndOpen(s)) /\ UNCHANGED <<conf, snd, down, vhci>>
      /\ rcv' = [rcv EXCEPT ![s].asked = TRUE] /\ TypesInv /\ PortInv
  BY <1>1 DEF KSubmit, UInv
<1>3. /\ rcv' \in [Sessions -> Receiver] /\ \A d \in Sessions \ {s} : rcv'[d] = rcv[d]
      /\ rcv'[s].pc = rcv[s].pc /\ rcv'[s].result = rcv[s].result /\ rcv'[s].sock = rcv[s].sock
      /\ rcv'[s].chosen = rcv[s].chosen /\ rcv'[s].imp = rcv[s].imp
      /\ rcv'[s].port = rcv[s].port
  <2>1. rcv \in [Sessions -> Receiver] /\ rcv[s] \in Receiver
    BY <1>2 DEF TypesInv
  <2>2. rcv'[s] = [rcv[s] EXCEPT !.asked = TRUE]
    BY <1>2, <2>1
  <2>3. rcv'[s] \in Receiver
    BY <2>1, <2>2 DEF Receiver
  <2> QED
    BY <1>2, <2>1, <2>2, <2>3 DEF Receiver
<1>4. /\ up' \in [Sessions -> Seq(UpMsg)] /\ \A d \in Sessions \ {s} : up'[d] = up[d]
      /\ Msgs(up'[s]) \subseteq Msgs(up[s]) \cup {[t |-> "RAW"]}
  <2>1. [t |-> "RAW"] \in UpMsg
    BY UpTypes
  <2> QED
    BY <1>2, <2>1, UpPush
<1>5. /\ vhci \in [Ports -> [sta : {4, 5, 6}, sess : Sessions \cup {None}]] /\ vhci' = vhci
      /\ vhci' \in [Ports -> [sta : {4, 5, 6}, sess : Sessions \cup {None}]]
  BY <1>2 DEF TypesInv
<1>6. PortInv'
  <2>1. \A d \in Sessions : /\ rcv'[d].pc = rcv[d].pc /\ rcv'[d].port = rcv[d].port
                            /\ rcv'[d].sock = rcv[d].sock
    BY <1>3
  <2>2. \A q \in Ports : vhci[q].sess # None => vhci[q].sess \in Sessions
    BY <1>5
  <2> QED
    BY <1>2, <2>1, <2>2 DEF PortInv
<1>7. /\ \A d \in Sessions \ {s} : rcv'[d] = rcv[d] /\ up'[d] = up[d]
      /\ UNCHANGED <<conf, snd, down>>
  BY <1>2, <1>3, <1>4
<1> QED
  BY <1>1, <1>3, <1>4, <1>5, <1>6, <1>7, KernelKeeps

LEMMA KernelAddressStep == ASSUME UInv, NEW p \in Ports, KAddress(p) PROVE UInv'
<1>1. /\ TypesInv /\ PortInv /\ vhci[p].sta = 5 /\ vhci' = [vhci EXCEPT ![p].sta = 6]
      /\ UNCHANGED <<conf, rcv, snd, up, down>>
  BY DEF UInv, KAddress
<1>2. /\ vhci' \in [Ports -> [sta : {4, 5, 6}, sess : Sessions \cup {None}]]
      /\ \A q \in Ports : /\ vhci'[q].sess = vhci[q].sess
                          /\ vhci'[q].sta \in {5, 6} <=> vhci[q].sta \in {5, 6}
                          /\ vhci'[q].sta # 4 <=> vhci[q].sta # 4
  <2>1. vhci \in [Ports -> [sta : {4, 5, 6}, sess : Sessions \cup {None}]]
    BY <1>1 DEF TypesInv
  <2>2. /\ vhci'[p] = [vhci[p] EXCEPT !.sta = 6]
        /\ vhci[p] \in [sta : {4, 5, 6}, sess : Sessions \cup {None}]
        /\ \A q \in Ports \ {p} : vhci'[q] = vhci[q]
    BY <1>1, <2>1
  <2>3. /\ vhci'[p] \in [sta : {4, 5, 6}, sess : Sessions \cup {None}]
        /\ vhci'[p].sta = 6 /\ vhci'[p].sess = vhci[p].sess
    BY <2>2
  <2>4. vhci' \in [Ports -> [sta : {4, 5, 6}, sess : Sessions \cup {None}]]
    BY <1>1, <2>1, <2>3
  <2> QED
    BY <1>1, <2>2, <2>3, <2>4
<1>3. ASSUME NEW q \in Ports, NEW u, vhci[q] \in [sta : {5, 6}, sess : {u}]
      PROVE  vhci'[q] \in [sta : {5, 6}, sess : {u}]
  <2>1. vhci[q].sta \in {5, 6} /\ vhci[q].sess = u
    BY <1>3
  <2>2. vhci'[q] \in [sta : {4, 5, 6}, sess : Sessions \cup {None}]
    BY <1>2
  <2> QED
    BY <1>2, <2>1, <2>2
<1>4. TypesInv'
  BY <1>1, <1>2 DEF TypesInv
<1>5. PortInv'
  BY <1>1, <1>2, <1>3 DEF PortInv
<1>6. ASSUME NEW s \in Sessions PROVE SessionInv(s)'
  BY <1>1, SessionKept DEF UInv
<1> QED
  BY <1>4, <1>5, <1>6 DEF UInv

LEMMA FreeKeeps ==
    ASSUME UInv, NEW p \in Ports, vhci[p].sess # None, KFree(p)
    PROVE  UInv'
<1>1. PICK s \in Sessions : /\ s = vhci[p].sess /\ conf[s].mode = "real" /\ rcv[s].port = p
                            /\ rcv[s].pc \in {"handed", "done"} /\ s # None
  BY OnPort
<1>2. /\ vhci' = [vhci EXCEPT ![p] = [sta |-> 4, sess |-> None]]
      /\ UNCHANGED <<conf, snd, up, down>>
      /\ rcv' = [rcv EXCEPT ![s].sock = "closed"] /\ TypesInv /\ PortInv
  BY <1>1 DEF KFree, UInv
<1>3. /\ rcv' \in [Sessions -> Receiver] /\ \A d \in Sessions \ {s} : rcv'[d] = rcv[d]
      /\ rcv'[s].pc = rcv[s].pc /\ rcv'[s].result = rcv[s].result /\ rcv'[s].sock = "closed"
      /\ rcv'[s].chosen = rcv[s].chosen /\ rcv'[s].imp = rcv[s].imp
      /\ rcv'[s].port = rcv[s].port
  <2>1. rcv \in [Sessions -> Receiver] /\ rcv[s] \in Receiver
    BY <1>2 DEF TypesInv
  <2>2. rcv'[s] = [rcv[s] EXCEPT !.sock = "closed"]
    BY <1>2, <2>1
  <2>3. rcv'[s] \in Receiver
    BY <2>1, <2>2 DEF Receiver
  <2> QED
    BY <1>2, <2>1, <2>2, <2>3 DEF Receiver
<1>4. /\ vhci' \in [Ports -> [sta : {4, 5, 6}, sess : Sessions \cup {None}]]
      /\ \A q \in Ports \ {p} : vhci'[q] = vhci[q]
      /\ vhci'[p].sess = None
  <2>1. [sta |-> 4, sess |-> None] \in [sta : {4, 5, 6}, sess : Sessions \cup {None}]
    OBVIOUS
  <2>2. vhci \in [Ports -> [sta : {4, 5, 6}, sess : Sessions \cup {None}]]
    BY <1>2 DEF TypesInv
  <2> QED
    BY <1>2, <2>1, <2>2
<1>5. PortInv'
  <2>1. ASSUME NEW q \in Ports, vhci'[q].sess # None
        PROVE  LET u == vhci'[q].sess IN
               /\ vhci'[q].sta # 4 /\ conf'[u].mode = "real" /\ rcv'[u].port = q
               /\ rcv'[u].pc \in {"handed", "done"} /\ rcv'[u].sock = "kernel"
    <3>1. q # p /\ vhci'[q] = vhci[q]
      BY <1>4, <2>1
    <3>2. PICK u \in Sessions : /\ u = vhci[q].sess /\ vhci[q].sta # 4 /\ conf[u].mode = "real"
                                /\ rcv[u].port = q /\ rcv[u].sock = "kernel"
                                /\ rcv[u].pc \in {"handed", "done"}
      BY <2>1, <3>1, OnPort
    <3>3. u # s /\ rcv'[u] = rcv[u]
      BY <1>1, <1>3, <3>1, <3>2
    <3> QED
      BY <1>2, <3>1, <3>2, <3>3
  <2>2. ASSUME NEW u \in Sessions
        PROVE  /\ rcv'[u].pc = "write" => rcv'[u].port \in Ports
               /\ rcv'[u].pc = "handed" /\ rcv'[u].sock = "kernel" =>
                     rcv'[u].port \in Ports /\ vhci'[rcv'[u].port] \in [sta : {5, 6}, sess : {u}]
    <3>1. CASE u = s
      BY <1>1, <1>3, <3>1
    <3>2. CASE u # s
      <4>1. rcv'[u] = rcv[u]
        BY <1>3, <3>2
      <4>2. rcv[u].port \in Ports /\ vhci[rcv[u].port] \in [sta : {5, 6}, sess : {u}] =>
               vhci'[rcv[u].port] = vhci[rcv[u].port]
        BY <1>1, <1>4, <3>2
      <4> QED
        BY <1>2, <4>1, <4>2 DEF PortInv
    <3> QED
      BY <3>1, <3>2
  <2> QED
    BY <2>1, <2>2 DEF PortInv
<1>6. up \in [Sessions -> Seq(UpMsg)]
  BY <1>2 DEF TypesInv
<1> QED
  BY <1>1, <1>2, <1>3, <1>4, <1>5, <1>6, KernelKeeps

-----------------------------------------------------------------------------

LEMMA InitInv == Init => UInv
<1> SUFFICES ASSUME Init PROVE UInv
  OBVIOUS
<1>1. ASSUME NEW s \in Sessions
      PROVE  /\ rcv[s].pc = "dial" /\ rcv[s].result = "none" /\ rcv[s].oks = 0
             /\ rcv[s].lines = 0 /\ rcv[s].unwritten = 0 /\ up[s] = <<>> /\ down[s] = <<>>
             /\ snd[s].pc = "accept" /\ snd[s].busid = None /\ snd[s].oks = 0 /\ snd[s].sent = 0
  BY DEF Init
<1>2. TypesInv
  <2>1. rcv \in [Sessions -> Receiver]
    <3>1. /\ 0 \in 0 .. Len(Script) /\ 0 \in 0 .. Reports /\ NPorts \in 0 .. NPorts
          /\ 0 \in ImportIds
      BY ScriptServed, SetupAssumption DEF ImportIds
    <3> QED
      BY <3>1 DEF Init, Receiver
  <2>2. snd \in [Sessions -> Sender]
    <3>1. 0 \in 0 .. Reports
      BY SetupAssumption
    <3> QED
      BY <3>1 DEF Init, Sender
  <2>3. vhci \in [Ports -> [sta : {4, 5, 6}, sess : Sessions \cup {None}]]
    BY DEF Init
  <2>4. up \in [Sessions -> Seq(UpMsg)] /\ down \in [Sessions -> Seq(DownMsg)]
    <3>1. <<>> \in Seq(UpMsg) /\ <<>> \in Seq(DownMsg)
      OBVIOUS
    <3>2. \A S, e : e \in S => [s \in Sessions |-> e] \in [Sessions -> S]
      OBVIOUS
    <3> QED
      BY <3>1, <3>2 DEF Init
  <2>5. conf \in Setups
    BY DEF Init
  <2> QED
    BY <2>1, <2>2, <2>3, <2>4, <2>5 DEF TypesInv
<1>3. PortInv
  <2>1. \A p \in Ports : vhci[p].sess = None
    BY DEF Init
  <2> QED
    BY <1>1, <2>1 DEF PortInv
<1>4. ASSUME NEW s \in Sessions PROVE SessionInv(s)
  <2>1. ProcessOK(s) /\ PairOK(s) /\ DeviceOK(s) /\ TurnsOK(s)
    BY <1>1 DEF ProcessOK, PairOK, DeviceOK, TurnsOK, Greeting, Driving, Logging, Handing,
        Attached, Running
  <2>2. MessagesOK(s)
    BY <1>1, EmptyMsgs DEF MessagesOK
  <2>3. FramesOK(s) /\ DriveOK(s)
    BY <1>1 DEF FramesOK, DriveOK, ScriptOK, Logging
  <2> QED
    BY <2>1, <2>2, <2>3 DEF SessionInv
<1> QED
  BY <1>2, <1>3, <1>4 DEF UInv

LEMMA Inductive == UInv /\ [Next]_vars => UInv'
<1> SUFFICES ASSUME UInv, [Next]_vars PROVE UInv'
  OBVIOUS
<1>1. ASSUME NEW s \in Sessions, RStep(s) PROVE UInv'
  BY <1>1, DialStep, TlsStep, HelloAckStep, ListStep, AttachOkStep, BrokenStep, SubmitStep,
     RetStep, UnlinkStep, UnlinkRetStep, LogTopStep, LogFrameStep, LogEndStep, FindPortStep,
     AttachSocketStep, HandedStep
  DEF RStep
<1>2. ASSUME NEW s \in Sessions, SStep(s) PROVE UInv'
  BY <1>2, TlsAcceptStep, TlsFinishStep, ForeignStep, HelloStep, DeviceListStep, AttachStep,
     PumpStep, RawStep, SenderBrokenStep, UnexpectedStep, TimeoutStep, StreamStep, StreamEndStep
  DEF SStep
<1>3. ASSUME NEW p \in Ports, KStep(p) \/ Detach(p) PROVE UInv'
  BY <1>3, KernelSubmitStep, KernelAddressStep, FreeKeeps DEF KStep, KDown, Detach
<1>4. CASE UNCHANGED vars
  <2>1. TypesInv' /\ PortInv'
    BY <1>4 DEF UInv, TypesInv, PortInv, vars
  <2>2. \A s \in Sessions : SessionInv(s)'
    BY <1>4, SessionKept DEF UInv, vars
  <2> QED
    BY <2>1, <2>2 DEF UInv
<1> QED
  BY <1>1, <1>2, <1>3, <1>4, SignalStep, KillStep DEF Next

(***************************************************************************)
(* UInv is an invariant of the receivers, their senders and the kernel: in *)
(* every session the requests of usbip_receive and the answers of its      *)
(* sender take turns, what a message says is still true when it is read,   *)
(* and a vhci port has the socket of the receiver that picked it, whatever *)
(* the other sessions of the host do.                                      *)
(***************************************************************************)
THEOREM Invariance == Spec => []UInv
BY InitInv, Inductive, PTL DEF Spec

(***************************************************************************)
(* The command lines, the processes and the ports keep their types; the    *)
(* driver never counts more URBs than its script has, nor has the       *)
(* transcript more lines than the mock sender pushes frames.               *)
(***************************************************************************)
THEOREM TypeCorrect == Spec => []TypeOK
<1>1. ASSUME UInv PROVE TypeOK
  <2>1. TypesInv
    BY <1>1 DEF UInv
  <2>2. conf \in [Sessions -> Conf]
    BY <2>1, SetupAssumption DEF TypesInv
  <2>3. vhci \in [Ports -> [sta : {4, 5, 6}, sess : Sessions \cup {None}]]
    BY <2>1 DEF TypesInv
  <2> QED
    BY <2>1, <2>2, <2>3, RcvFields, SndFields DEF TypeOK
<1> QED
  BY <1>1, Invariance, PTL

(***************************************************************************)
(* A receiver that run_usbip_receive has taken past ATTACH serves the      *)
(* device --busid named, the sender has attached that device and no other, *)
(* and both put the same import_id into their URBs.                        *)
(***************************************************************************)
THEOREM ServesTheRightDevice == Spec => []RightDevice
<1>1. UInv => RightDevice
  BY DEF UInv, SessionInv, DeviceOK, RightDevice
<1> QED
  BY <1>1, Invariance, PTL

(***************************************************************************)
(* A receiver that got HELLO_ACK and a sender that got HELLO have the same *)
(* pairing code, or both none: PinnedPeerVerifier on either side and the   *)
(* order of the TLS flights keep every other pair from talking.            *)
(***************************************************************************)
THEOREM OnlyPairedTalk == Spec => []Paired
<1>1. UInv => Paired
  BY DEF UInv, SessionInv, PairOK, Paired, Attached
<1> QED
  BY <1>1, Invariance, PTL

(***************************************************************************)
(* run_script of the driver against run_pump, for a script of any length:  *)
(* success means that the pump served every URB and no more, failure has a *)
(* cause outside the two, and the pump is never more than one URB ahead    *)
(* although the driver compares no seqnum.                                 *)
(***************************************************************************)
THEOREM VerdictIsTrue == Spec => []DriveVerdict
<1>1. ASSUME UInv PROVE DriveVerdict
  <2> SUFFICES ASSUME NEW s \in Sessions, conf[s].peer = "pump", conf[s].mode = "drive"
               PROVE  /\ rcv[s].result = "ok" =>
                            rcv[s].oks = Len(Script) /\ snd[s].oks = Len(Script)
                      /\ rcv[s].result = "err" => Excused(s)
                      /\ snd[s].oks - rcv[s].oks \in {0, 1}
    BY DEF DriveVerdict, Excused
  <2>1. ScriptOK(s) /\ ProcessOK(s)
    BY <1>1, Parts DEF DriveOK
  <2>2. rcv[s].result # "none" => rcv[s].pc = "done"
    BY <2>1 DEF ProcessOK
  <2> QED
    BY <1>1, <2>1, <2>2, PumpAhead DEF ScriptOK
<1> QED
  BY <1>1, Invariance, PTL

(***************************************************************************)
(* run_simulated loses no frame: when the log ends because the mock sender *)
(* has closed, every URB it had pushed, the ones that were still in the    *)
(* socket when it closed included, is counted and has its line in the      *)
(* transcript or is one whose writeln! failed in record_urb.               *)
(***************************************************************************)
THEOREM EveryFrameRelayed == Spec => []AllFramesRelayed
<1>1. UInv => AllFramesRelayed
  BY DEF UInv, SessionInv, FramesOK, AllFramesRelayed
<1> QED
  BY <1>1, Invariance, PTL

(***************************************************************************)
(* run_real announces a port only while the kernel has its socket on that  *)
(* very port, or has let go of it again: find_free_port may offer one port *)
(* to several receivers, but attach_socket gives it to one.                *)
(***************************************************************************)
THEOREM HandedToItsPort == Spec => []HandedOver
<1>1. UInv => HandedOver
  BY DEF UInv, PortInv, HandedOver
<1> QED
  BY <1>1, Invariance, PTL
=============================================================================
