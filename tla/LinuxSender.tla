----------------------------- MODULE LinuxSender -----------------------------
(***************************************************************************)
(* The Linux HID sender (linux_sender.rs) and the programs that dial it:   *)
(* zerowire-cli connect, list, receive in HID mode with and without        *)
(* --simulate-source, and receive in USB/IP mode, which the sender cannot  *)
(* serve.  The sender is one thread: it accepts a connection, serves it to *)
(* its end and only then accepts the next one, which waits in the kernel's *)
(* backlog with what its client has already written.                       *)
(*                                                                         *)
(* hidraw nodes may vanish (one that appears is first seen by the next     *)
(* session).  A report is read when the device has one; until then the     *)
(* pump polls, which is no step of the model.                              *)
(***************************************************************************)
EXTENDS Integers, Sequences, FiniteSets

CONSTANTS
    Clients, None,
    NNodes,     \* /dev/hidraw nodes, in the order of their names
    Busids,
    BusOf,      \* the busid of a node: that of its USB device, so two may share it
    KindOf,     \* kind_for of a node whose attributes can be read
    Commands,   \* the command lines the clients may be started with, see Command
    SeqMod,     \* HID sequence numbers are taken modulo this (2^16)
    NetCap      \* envelopes TCP buffers before a write blocks

Nodes == 1 .. NNodes
Command == [role : {"connect", "list", "receive", "simulate", "usbip"},
            want : Busids \cup {None}]     \* --busid
Seqs == 0 .. SeqMod - 1

ASSUME SenderAssumption ==
    /\ NNodes \in Nat
    /\ BusOf \in [Nodes -> Busids]
    /\ KindOf \in [Nodes -> {"mouse", "keyboard", "other"}]
    /\ Commands \subseteq [Clients -> Command]
    /\ None \notin Nodes /\ None \notin Busids /\ None \notin Clients
    /\ NetCap \in Nat \ {0} /\ SeqMod \in Nat /\ SeqMod > NetCap + 1

VARIABLES
    present,    \* the nodes that are there
    toS, toC,   \* per client: envelopes under way to the sender, to the client
    (* linux_sender *)
    once,       \* --once
    backlog,    \* connections not yet accepted
    sPc, cur,   \* what the thread does, and for which client
    devices,    \* the snapshot serve_session enumerates
    hid,        \* those of it listed with is_hid
    chosen, seq,
    given,      \* per client: seq of the last report read from the device for it
    (* zerowire-cli *)
    args,       \* per client: its command line
    cl          \* per client: its process

conf == <<once, args>>    \* the command lines, fixed
sVars == <<conf, backlog, sPc, cur, devices, hid, chosen, seq, given>>
vars == <<present, toS, toC, sVars, cl>>

Msg(t) == [t |-> t]

(* Both ends of a connection: the client's socket, and the sender's or the  *)
(* kernel's for a connection still in the backlog.                          *)
ClOpen(c) == cl[c].pc \notin {"idle", "done"}
Queued(c) == \E i \in DOMAIN backlog : backlog[i] = c
SndOpen(c) == cur = c \/ Queued(c)

ToClient(c, m) == toC' = IF ClOpen(c) THEN [toC EXCEPT ![c] = Append(@, m)] ELSE toC
ToSender(c, m) == toS' = IF SndOpen(c) THEN [toS EXCEPT ![c] = Append(@, m)] ELSE toS

-----------------------------------------------------------------------------
(* The sender's thread. *)

Handshake == [hello |-> "HELLO", list |-> "LIST", attach |-> "ATTACH", bind |-> "BIND"]

SReads(t) == toS[cur] # <<>> /\ Head(toS[cur]).t = t
SConsumes == toS' = [toS EXCEPT ![cur] = Tail(@)]

(* serve_session returns, its socket and locals are dropped; --once ends    *)
(* the process and with it the listener.                                    *)
SLeave ==
    /\ sPc' = IF once THEN "exit" ELSE "accept"
    /\ cur' = None
    /\ backlog' = IF once THEN <<>> ELSE backlog
    /\ devices' = {} /\ hid' = {} /\ chosen' = None /\ seq' = 0
    /\ UNCHANGED <<conf, given>>

SAccept ==
    /\ sPc = "accept" /\ backlog # <<>>
    /\ sPc' = "hello"
    /\ cur' = Head(backlog)
    /\ backlog' = Tail(backlog)
    /\ UNCHANGED <<present, toS, toC, conf, devices, hid, chosen, seq, given, cl>>

(* The `?` of accept, set_nodelay and set_read_timeout ends main. *)
SAcceptFails ==
    /\ sPc = "accept" /\ backlog # <<>>
    /\ sPc' = "exit"
    /\ backlog' = <<>>
    /\ UNCHANGED <<present, toS, toC, conf, cur, devices, hid, chosen, seq, given, cl>>

SHello ==
    /\ sPc = "hello" /\ SReads("HELLO")
    /\ SConsumes /\ ToClient(cur, Msg("HELLO_ACK"))
    /\ sPc' = "enumerate"
    /\ UNCHANGED <<present, conf, backlog, cur, devices, hid, chosen, seq, given, cl>>

(* enumerate_hidraw_devices, before LIST_DEVICES is awaited; a node that     *)
(* vanishes under the walk, or an attribute that cannot be read, fails it,   *)
(* except bInterfaceClass: the node is then listed with is_hid false.        *)
SEnumerate ==
    /\ sPc = "enumerate"
    /\ \/ /\ devices' = present /\ hid' \in SUBSET present
          /\ sPc' = "list"
          /\ UNCHANGED <<conf, backlog, cur, chosen, seq, given>>
       \/ SLeave
    /\ UNCHANGED <<present, toS, toC, cl>>

SList ==
    /\ sPc = "list" /\ SReads("LIST")
    /\ SConsumes /\ ToClient(cur, [t |-> "DEVICES", nodes |-> devices, hid |-> hid])
    /\ sPc' = "attach"
    /\ UNCHANGED <<present, conf, backlog, cur, devices, hid, chosen, seq, given, cl>>

FirstOf(ns) == CHOOSE n \in ns : \A m \in ns : n <= m

FindNodeNow(b) == {n \in present : BusOf[n] = b}    \* mutant of FindNode: enumerates again

(* devices.into_iter().find(|d| d.summary.busid == busid): over the snapshot. *)
FindNode(b) == {n \in devices : BusOf[n] = b}

(* A busid that is not exposed ends the session without an answer; the mode  *)
(* of ATTACH is not looked at.                                               *)
SAttach ==
    /\ sPc = "attach" /\ SReads("ATTACH")
    /\ SConsumes
    /\ LET found == FindNode(Head(toS[cur]).busid) IN
       IF found = {} THEN SLeave /\ UNCHANGED toC
       ELSE /\ chosen' = FirstOf(found)
            /\ sPc' = "bind"
            /\ ToClient(cur, Msg("ATTACH_OK"))
            /\ UNCHANGED <<conf, backlog, cur, devices, hid, seq, given>>
    /\ UNCHANGED <<present, cl>>

(* kind_for: of an interface whose class or protocol could not be read it    *)
(* is Other.                                                                 *)
Kinds(n) == IF n \in hid THEN {KindOf[n], "other"} ELSE {"other"}

(* BIND, answered by BIND_ACK with kind_for of the node. *)
SBind ==
    /\ sPc = "bind" /\ SReads("BIND")
    /\ SConsumes
    /\ \/ /\ \E k \in Kinds(chosen) : ToClient(cur, [t |-> "BIND_ACK", kind |-> k])
          /\ sPc' = "open"
          /\ UNCHANGED <<conf, backlog, cur, devices, hid, chosen, seq, given>>
       \/ ~ClOpen(cur) /\ SLeave /\ UNCHANGED toC
    /\ UNCHANGED <<present, cl>>

(* The bail! on any other message than the one awaited. *)
SUnexpected ==
    /\ sPc \in DOMAIN Handshake
    /\ toS[cur] # <<>> /\ Head(toS[cur]).t # Handshake[sPc]
    /\ SConsumes /\ SLeave
    /\ UNCHANGED <<present, toC, cl>>

SReadFailsAtEof ==        \* mutant of SReadFails: no set_read_timeout
    /\ sPc \in DOMAIN Handshake
    /\ toS[cur] = <<>> /\ ~ClOpen(cur)
    /\ SLeave
    /\ UNCHANGED <<present, toS, toC, cl>>

(* The end of the stream, or 60 s without data. *)
SReadFails ==
    /\ sPc \in DOMAIN Handshake
    /\ toS[cur] = <<>>
    /\ SLeave
    /\ UNCHANGED <<present, toS, toC, cl>>

(* pump_reports opens the node, which may be gone or forbidden: BIND_ACK has *)
(* been sent and no UNBIND follows.                                          *)
SOpen ==
    /\ sPc = "open"
    /\ \/ /\ chosen \in present
          /\ sPc' = "pump"
          /\ seq' = 0
          /\ UNCHANGED <<conf, backlog, cur, devices, hid, chosen, given>>
       \/ SLeave
    /\ UNCHANGED <<present, toS, toC, cl>>

(* read returned a report. *)
SReport ==
    /\ sPc = "pump" /\ chosen \in present
    /\ sPc' = "send"
    /\ seq' = (seq + 1) % SeqMod
    /\ given' = [given EXCEPT ![cur] = seq']
    /\ UNCHANGED <<present, toS, toC, conf, backlog, cur, devices, hid, chosen, cl>>

SGoneDrops ==             \* mutant of SGone: a report in hand is dropped with its node
    /\ sPc = "send" /\ chosen \notin present
    /\ sPc' = "unbind"
    /\ UNCHANGED <<present, toS, toC, conf, backlog, cur, devices, hid, chosen, seq, given, cl>>

(* The node is gone: end of file, answered by UNBIND, or an error, which     *)
(* ends the session without one.                                             *)
SGone ==
    /\ sPc = "pump" /\ chosen \notin present
    /\ \/ /\ sPc' = "unbind"
          /\ UNCHANGED <<conf, backlog, cur, devices, hid, chosen, seq, given>>
       \/ SLeave
    /\ UNCHANGED <<present, toS, toC, cl>>

(* write_all: blocks while TCP has no room; to a client that is gone it      *)
(* succeeds until the kernel has been told.                                  *)
HasRoom == ClOpen(cur) => Len(toC[cur]) < NetCap

SSend ==
    /\ sPc = "send" /\ HasRoom
    /\ ToClient(cur, [t |-> "REPORT_IN", seq |-> seq])
    /\ sPc' = "pump"
    /\ UNCHANGED <<present, toS, conf, backlog, cur, devices, hid, chosen, seq, given, cl>>

SSendFailsIgnored ==      \* mutant of SSendFails: the error is only logged
    /\ sPc = "send" /\ ~ClOpen(cur)
    /\ sPc' = "pump"
    /\ UNCHANGED <<present, toS, toC, conf, backlog, cur, devices, hid, chosen, seq, given, cl>>

(* The only place a streaming session learns that its client has left.       *)
SSendFails ==
    /\ sPc = "send" /\ ~ClOpen(cur)
    /\ sPc' = "unbind"
    /\ UNCHANGED <<present, toS, toC, conf, backlog, cur, devices, hid, chosen, seq, given, cl>>

(* The polite UNBIND, its result ignored; serve_session returns. *)
SUnbind ==
    /\ sPc = "unbind" /\ HasRoom
    /\ ToClient(cur, Msg("UNBIND"))
    /\ SLeave
    /\ UNCHANGED <<present, toS, cl>>

-----------------------------------------------------------------------------
(* The clients. *)

CReads(c, t) == toC[c] # <<>> /\ Head(toC[c]).t = t
CConsumes(c) == toC' = [toC EXCEPT ![c] = Tail(@)]
CGoto(c, pc) == cl' = [cl EXCEPT ![c].pc = pc]

(* The process ends and its socket with it, what was not read included. *)
CExits(c) ==
    /\ cl' = [cl EXCEPT ![c] = [@ EXCEPT !.pc = "done", !.picked = None, !.stalled = FALSE]]
    /\ toC' = [toC EXCEPT ![c] = <<>>]

(* connect_timeout succeeds as soon as the kernel has the connection in the *)
(* backlog; then HELLO.                                                     *)
CDial(c) ==
    /\ cl[c].pc = "idle"
    /\ IF sPc = "exit"
       THEN CGoto(c, "done") /\ UNCHANGED <<toS, backlog>>
       ELSE /\ CGoto(c, "hello")
            /\ backlog' = Append(backlog, c)
            /\ toS' = [toS EXCEPT ![c] = <<Msg("HELLO")>>]
    /\ UNCHANGED <<present, toC, conf, sPc, cur, devices, hid, chosen, seq, given>>

(* HELLO_ACK: cmd_connect is done, the others send LIST_DEVICES. *)
CHelloAck(c) ==
    /\ cl[c].pc = "hello" /\ CReads(c, "HELLO_ACK")
    /\ IF args[c].role = "connect"
       THEN CExits(c) /\ UNCHANGED toS
       ELSE CGoto(c, "list") /\ CConsumes(c) /\ ToSender(c, Msg("LIST"))
    /\ UNCHANGED <<present, sVars>>

(* pick_hid_device: of the entries with the busid asked for, or of those     *)
(* with is_hid; pick_device of the USB/IP receiver does not look at is_hid.  *)
(* The first is taken.                                                       *)
Pick(c, m) ==
    IF args[c].want # None THEN {n \in m.nodes : BusOf[n] = args[c].want}
    ELSE IF args[c].role = "usbip" THEN m.nodes ELSE m.nodes \cap m.hid

(* DEVICE_LIST: cmd_list is done, the others ask for the busid they picked.  *)
(* Only the busid travels.                                                   *)
CDeviceList(c) ==
    /\ cl[c].pc = "list" /\ CReads(c, "DEVICES")
    /\ LET ns == Pick(c, Head(toC[c])) IN
       IF args[c].role = "list" \/ ns = {}
       THEN CExits(c) /\ UNCHANGED toS
       ELSE /\ cl' = [cl EXCEPT ![c].pc = "attach", ![c].picked = FirstOf(ns)]
            /\ CConsumes(c)
            /\ ToSender(c, [t |-> "ATTACH", busid |-> BusOf[FirstOf(ns)]])
    /\ UNCHANGED <<present, sVars>>

(* ATTACH_OK: BIND on the HID channel, or the first URB of the driver.       *)
CAttachOk(c) ==
    /\ cl[c].pc = "attach" /\ CReads(c, "ATTACH_OK")
    /\ CGoto(c, "recv") /\ CConsumes(c)
    /\ ToSender(c, Msg(IF args[c].role = "usbip" THEN "URB" ELSE "BIND"))
    /\ UNCHANGED <<present, sVars>>

(* BIND_ACK: run_simulate_source logs it; run_receive opens a uinput device, *)
(* which it cannot for an unknown kind.                                      *)
CBindAck(c) ==
    /\ cl[c].pc = "recv" /\ CReads(c, "BIND_ACK")
    /\ \/ /\ args[c].role = "receive" => Head(toC[c]).kind \in {"mouse", "keyboard"}
          /\ cl' = [cl EXCEPT ![c].acked = TRUE]
          /\ CConsumes(c)
       \/ args[c].role = "receive" /\ CExits(c)
    /\ UNCHANGED <<present, toS, sVars>>

(* REPORT_IN: logged, or applied; apply_report may fail. *)
CReport(c) ==
    /\ cl[c].pc = "recv" /\ CReads(c, "REPORT_IN")
    /\ \/ /\ cl' = [cl EXCEPT ![c].last = Head(toC[c]).seq,
                              ![c].gap = @ \/ Head(toC[c]).seq # (cl[c].last + 1) % SeqMod]
          /\ CConsumes(c)
       \/ args[c].role = "receive" /\ CExits(c)
    /\ UNCHANGED <<present, toS, sVars>>

(* UNBIND: the loop ends; run_simulate_source writes its summary. *)
CUnbind(c) ==
    /\ cl[c].pc = "recv" /\ CReads(c, "UNBIND")
    /\ cl' = [cl EXCEPT ![c].pc = "done", ![c].picked = None, ![c].unbound = TRUE]
    /\ toC' = [toC EXCEPT ![c] = <<>>]
    /\ UNCHANGED <<present, toS, sVars>>

(* The end of the stream, after everything that came before it. *)
CEof(c) ==
    /\ ClOpen(c) /\ toC[c] = <<>> /\ ~SndOpen(c)
    /\ CExits(c)
    /\ UNCHANGED <<present, toS, sVars>>

(* cmd_connect and cmd_list wait for 10 s, the receivers for ever. *)
CTimeout(c) ==
    /\ ClOpen(c) /\ toC[c] = <<>> /\ args[c].role \in {"connect", "list"}
    /\ CExits(c)
    /\ UNCHANGED <<present, toS, sVars>>

CStep(c) ==
    /\ ~cl[c].stalled
    /\ \/ CHelloAck(c) \/ CDeviceList(c) \/ CAttachOk(c) \/ CBindAck(c) \/ CReport(c)
       \/ CUnbind(c) \/ CEof(c) \/ CTimeout(c)

-----------------------------------------------------------------------------
(* Environment: clients are started, ended (by a signal, or by Ctrl-C, whose *)
(* flag HidSession follows) or suspended; nodes vanish.                      *)

CKilled(c) ==
    /\ ClOpen(c)
    /\ CExits(c)
    /\ UNCHANGED <<present, toS, sVars>>

CStalls(c) ==
    /\ ClOpen(c) /\ ~cl[c].stalled
    /\ cl' = [cl EXCEPT ![c].stalled = TRUE]
    /\ UNCHANGED <<present, toS, toC, sVars>>

Unplug(n) ==
    /\ n \in present
    /\ present' = present \ {n}
    /\ UNCHANGED <<toS, toC, sVars, cl>>

-----------------------------------------------------------------------------
Init ==
    /\ present \in SUBSET Nodes
    /\ toS = [c \in Clients |-> <<>>] /\ toC = [c \in Clients |-> <<>>]
    /\ once \in BOOLEAN
    /\ backlog = <<>> /\ sPc = "accept" /\ cur = None
    /\ devices = {} /\ hid = {} /\ chosen = None /\ seq = 0
    /\ given = [c \in Clients |-> 0]
    /\ args \in Commands
    /\ cl = [c \in Clients |->
               [pc |-> "idle", picked |-> None, acked |-> FALSE, last |-> 0, gap |-> FALSE,
                unbound |-> FALSE, stalled |-> FALSE]]

(* What the thread does by itself; a report is the device's doing. *)
SenderThread ==
    \/ SAccept \/ SHello \/ SEnumerate \/ SList \/ SAttach \/ SBind \/ SUnexpected
    \/ SReadFails \/ SOpen \/ SGone \/ SSend \/ SSendFails \/ SUnbind

Environment ==
    \/ SReport \/ SAcceptFails
    \/ \E c \in Clients : CDial(c) \/ CKilled(c) \/ CStalls(c)
    \/ \E n \in Nodes : Unplug(n)

Next == SenderThread \/ (\E c \in Clients : CStep(c)) \/ Environment

Spec == Init /\ [][Next]_vars

(* The sender runs, and so does every client that is not suspended.  Writes  *)
(* to a client that is gone do not succeed for ever.  Nothing is assumed of  *)
(* devices, users and accept().                                              *)
Fairness ==
    /\ WF_vars(SenderThread)
    /\ SF_vars(SSendFails)
    /\ \A c \in Clients : WF_vars(CStep(c))

FairSpec == Spec /\ Fairness

-----------------------------------------------------------------------------
(* Properties. *)

(* Every variable keeps its type. *)
TypeOK ==
    /\ present \subseteq Nodes
    /\ once \in BOOLEAN
    /\ \A i \in DOMAIN backlog : backlog[i] \in Clients
    /\ sPc \in DOMAIN Handshake
               \cup {"accept", "enumerate", "open", "pump", "send", "unbind", "exit"}
    /\ cur \in Clients \cup {None} /\ (cur = None <=> sPc \in {"accept", "exit"})
    /\ devices \subseteq Nodes /\ hid \subseteq devices /\ chosen \in Nodes \cup {None}
    /\ seq \in Seqs /\ given \in [Clients -> Seqs]

Streaming == {"pump", "send", "unbind"}

(* Two nodes may share a busid and only the busid is sent.  The node the     *)
(* sender binds is all the same the entry of its list that the client        *)
(* picked, whatever is unplugged between DEVICE_LIST and ATTACH, because     *)
(* both take the first match of one snapshot; or it is an earlier interface  *)
(* of that device which pick_hid_device passed over, not being listed as     *)
(* HID.  That one BIND_ACK calls Other, so that run_receive never makes a    *)
(* virtual device of it.                                                     *)
BoundAsPicked ==
    sPc \in Streaming \cup {"bind", "open"} /\ ClOpen(cur) =>
        LET p == cl[cur].picked IN
        \/ p = chosen
        \/ /\ p \in Nodes /\ chosen < p /\ BusOf[chosen] = BusOf[p] /\ chosen \notin hid
           /\ args[cur].role = "receive" => ~cl[cur].acked

(* What run_simulate_source leaves in its log is true: no report is missing  *)
(* in the middle, and after an UNBIND none at the end; a client that was     *)
(* sent UNBIND had been sent BIND_ACK.                                       *)
LogComplete ==
    \A c \in Clients :
        /\ ~cl[c].gap
        /\ cl[c].unbound => cl[c].acked /\ cl[c].last = given[c]

(* Clients are served in turn: a connection is accepted, or its client gives *)
(* up, unless the session before it streams for ever.  "A stuck handshake    *)
(* shouldn't pin us forever."                                                *)
InTurn ==
    \A c \in Clients : Queued(c) ~> (~Queued(c) \/ [](sPc \in Streaming))

(* A client that leaves is let go, unless its device never reports again:    *)
(* only a write tells pump_reports that nobody listens.                      *)
DepartedLetGo ==
    \A c \in Clients : (cur = c /\ ~ClOpen(c)) ~> (cur # c \/ [](sPc = "pump"))
=============================================================================
