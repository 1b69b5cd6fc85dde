-------------------------- MODULE LinuxSenderProofs --------------------------
(***************************************************************************)
(* Proofs about LinuxSender, for any number of clients and hidraw nodes,   *)
(* any amount of TCP buffering and any modulus of the sequence numbers     *)
(* larger than what can be buffered: the node the sender binds is the one  *)
(* the client picked or one listed as no HID interface, which a receiver   *)
(* refuses, and the log of run_simulate_source has no hole.                *)
(***************************************************************************)
EXTENDS LinuxSender, QueueLemmas, WellFoundedInduction, TLAPS

ToClientMsg ==
    [t : {"HELLO_ACK", "ATTACH_OK", "UNBIND"}]
    \cup [t : {"DEVICES"}, nodes : SUBSET Nodes, hid : SUBSET Nodes]
    \cup [t : {"BIND_ACK"}, kind : {"mouse", "keyboard", "other"}]
    \cup [t : {"REPORT_IN"}, seq : Seqs]

ToSenderMsg ==
    [t : {"HELLO", "LIST", "BIND", "URB"}] \cup [t : {"ATTACH"}, busid : Busids]

Process ==
    [pc : {"idle", "hello", "list", "attach", "recv", "done"}, picked : Nodes \cup {None},
     acked : BOOLEAN, last : Seqs, gap : BOOLEAN, unbound : BOOLEAN, stalled : BOOLEAN]

(* A node is chosen before it is bound. *)
TypesInv ==
    /\ TypeOK
    /\ args \in [Clients -> Command]
    /\ backlog \in Seq(Clients)
    /\ toC \in [Clients -> Seq(ToClientMsg)]
    /\ toS \in [Clients -> Seq(ToSenderMsg)]
    /\ cl \in [Clients -> Process]
    /\ sPc \in Streaming \cup {"bind", "open"} => chosen # None

Only(q, t) == Len(q) = 1 /\ q[1].t = t
Succ(n) == (n + 1) % SeqMod

(* Connections wait in line once. *)
LineInv == \A i, j \in 1 .. Len(backlog) : backlog[i] = backlog[j] => i = j

(* A connection in line has nothing but the HELLO. *)
QueuedOK(c) ==
    Queued(c) => /\ c # cur /\ cl[c].pc \in {"hello", "done"}
                 /\ toC[c] = <<>> /\ Only(toS[c], "HELLO")

(* A process that has not started, that has ended, that has not been        *)
(* answered ATTACH.                                                         *)
ProcessOK(c) ==
    /\ cl[c].pc = "idle" => c # cur /\ ~Queued(c)
    /\ ~ClOpen(c) => cl[c].picked = None /\ toC[c] = <<>>
    /\ cl[c].pc \in {"idle", "hello", "list", "attach"} => Len(toC[c]) <= 1 /\ ~cl[c].acked
    /\ ~cl[c].acked => cl[c].last = 0

(* No report has been read for a client whose session does not stream yet.  *)
GivenOK(c) ==
    (\/ cl[c].pc = "idle"
     \/ Queued(c)
     \/ cur = c /\ sPc \in DOMAIN Handshake \cup {"enumerate", "open"}) => given[c] = 0

(* The sequence number before the i-th message on its way to c. *)
PrevSeq(c, i) ==
    IF i > 1 /\ toC[c][i - 1].t = "REPORT_IN" THEN toC[c][i - 1].seq ELSE cl[c].last

(* What is on its way to a receiving client: BIND_ACK unless it has it,     *)
(* reports numbered one after the other, and UNBIND at most at the end,     *)
(* when the session is over.                                                *)
StreamMsg(c, i) ==
    IF i = 1 /\ ~cl[c].acked THEN toC[c][i].t = "BIND_ACK"
    ELSE \/ toC[c][i].t = "REPORT_IN" /\ toC[c][i].seq = Succ(PrevSeq(c, i))
         \/ /\ toC[c][i].t = "UNBIND"
            /\ i = Len(toC[c]) /\ c # cur /\ ~Queued(c) /\ given[c] = PrevSeq(c, i)

StreamOK(c) == cl[c].pc = "recv" => \A i \in 1 .. Len(toC[c]) : StreamMsg(c, i)

(* The two ends of the session that is served, while its client lives. *)
Greeting(c) ==
    /\ sPc = "hello" => cl[c].pc = "hello" /\ toC[c] = <<>> /\ Only(toS[c], "HELLO")
    /\ sPc \in {"enumerate", "list"} =>
          \/ cl[c].pc = "hello" /\ Only(toC[c], "HELLO_ACK") /\ toS[c] = <<>>
          \/ cl[c].pc = "list" /\ toC[c] = <<>> /\ Only(toS[c], "LIST")

Listed == [t |-> "DEVICES", nodes |-> devices, hid |-> hid]

Attaching(c) ==
    sPc = "attach" =>
        \/ /\ cl[c].pc = "list" /\ toS[c] = <<>>
           /\ Only(toC[c], "DEVICES") /\ toC[c][1] = Listed
        \/ /\ cl[c].pc = "attach" /\ toC[c] = <<>>
           /\ Only(toS[c], "ATTACH") /\ toS[c][1].busid = BusOf[cl[c].picked]
           /\ Pick(c, Listed) # {} /\ cl[c].picked = FirstOf(Pick(c, Listed))

(* A receiver whose BIND_ACK is on its way will find kind Other in it. *)
Refuses(c) ==
    args[c].role = "receive" =>
        /\ ~cl[c].acked
        /\ toC[c] # <<>> /\ toC[c][1].t = "BIND_ACK" => toC[c][1].kind = "other"

(* The node bound for c is the one c picked, or one that c passed over.     *)
Bound(c) ==
    \/ cl[c].picked = chosen
    \/ /\ cl[c].picked \in Nodes /\ chosen < cl[c].picked
       /\ BusOf[chosen] = BusOf[cl[c].picked] /\ chosen \notin hid
       /\ Refuses(c)

Binding(c) ==
    /\ sPc = "bind" =>
          /\ Bound(c) /\ ~cl[c].acked
          /\ \/ cl[c].pc = "attach" /\ Only(toC[c], "ATTACH_OK") /\ toS[c] = <<>>
             \/ cl[c].pc = "recv" /\ toC[c] = <<>>
    /\ sPc = "open" =>
          /\ cl[c].pc = "recv" /\ Bound(c) /\ cl[c].last = 0
          /\ IF cl[c].acked THEN toC[c] = <<>> ELSE Only(toC[c], "BIND_ACK")

Pumping(c) ==
    sPc \in Streaming =>
        /\ cl[c].pc = "recv" /\ Bound(c) /\ given[c] = seq
        /\ ~cl[c].acked => toC[c] # <<>>
        /\ seq = IF sPc = "send" THEN Succ(PrevSeq(c, Len(toC[c]) + 1))
                 ELSE PrevSeq(c, Len(toC[c]) + 1)

PhaseOK(c) ==
    cur = c /\ ClOpen(c) => Greeting(c) /\ Attaching(c) /\ Binding(c) /\ Pumping(c)

LogOK(c) ==
    /\ ~cl[c].gap
    /\ cl[c].unbound => /\ cl[c].acked /\ cl[c].last = given[c]
                        /\ cl[c].pc = "done" /\ c # cur /\ ~Queued(c)

ClientInv(c) ==
    QueuedOK(c) /\ ProcessOK(c) /\ GivenOK(c) /\ StreamOK(c) /\ PhaseOK(c) /\ LogOK(c)

LInv == TypesInv /\ LineInv /\ \A c \in Clients : ClientInv(c)

-----------------------------------------------------------------------------
(* Numbers, sets of nodes and messages. *)

LEMMA LeastExists ==
    ASSUME NEW S \in SUBSET Nat, S # {}
    PROVE  \E n \in S : \A m \in S : n <= m
<1>1. \E n \in S : \A m \in S : ~(<<m, n>> \in OpToRel(<, Nat))
  BY WFMin, NatLessThanWellFounded, Zenon
<1>2. \A m, n \in S : <<m, n>> \in OpToRel(<, Nat) <=> m < n
  BY Zenon DEF OpToRel
<1>3. \E n \in S : \A m \in S : ~(m < n)
  BY <1>1, <1>2, Zenon
<1> QED
  BY <1>3

(* FirstOf, the `find` of sender and client, is the least of some nodes. *)
LEMMA FirstIsLeast ==
    ASSUME NEW ns \in SUBSET Nodes, ns # {}
    PROVE  FirstOf(ns) \in ns /\ \A m \in ns : FirstOf(ns) <= m
<1>1. ns \in SUBSET Nat
  BY SenderAssumption DEF Nodes
<1>2. \E n \in ns : \A m \in ns : n <= m
  BY <1>1, LeastExists
<1> QED
  BY <1>2 DEF FirstOf

(* The sender finds the entry the client picked, the first with the busid   *)
(* of the first one picked among, or an earlier one the client left out.    *)
LEMMA FoundIsPicked ==
    ASSUME NEW ns \in SUBSET Nodes, NEW picks \in SUBSET ns, picks # {},
           NEW p, p = FirstOf(picks),
           NEW f, f = FirstOf({n \in ns : BusOf[n] = BusOf[p]})
    PROVE  /\ p \in Nodes /\ f \in ns /\ BusOf[f] = BusOf[p]
           /\ f = p \/ (f < p /\ f \notin picks)
<1> DEFINE found == {n \in ns : BusOf[n] = BusOf[p]}
<1>1. p \in picks /\ \A m \in picks : p <= m
  BY FirstIsLeast
<1>2. p \in found /\ found \in SUBSET Nodes /\ found # {}
  BY <1>1
<1>3. f \in found /\ \A m \in found : f <= m
  <2>1. f = FirstOf(found)
    OBVIOUS
  <2> HIDE DEF found
  <2>2. FirstOf(found) \in found /\ \A m \in found : FirstOf(found) <= m
    BY <1>2, FirstIsLeast
  <2> QED
    BY <2>1, <2>2, Zenon
<1>4. p \in Nat /\ f \in Nat
  BY <1>1, <1>3, SenderAssumption DEF Nodes
<1> QED
  BY <1>1, <1>2, <1>3, <1>4

LEMMA SuccType == \A n \in Seqs : Succ(n) \in Seqs
BY SenderAssumption DEF Seqs, Succ

LEMMA ZeroSeq == 0 \in Seqs
BY SenderAssumption DEF Seqs

LEMMA MessageTypes ==
    /\ \A t \in {"HELLO_ACK", "ATTACH_OK", "UNBIND"} : Msg(t) \in ToClientMsg /\ Msg(t).t = t
    /\ \A t \in {"HELLO", "LIST", "BIND", "URB"} : Msg(t) \in ToSenderMsg /\ Msg(t).t = t
    /\ \A ns, hs \in SUBSET Nodes : [t |-> "DEVICES", nodes |-> ns, hid |-> hs] \in ToClientMsg
    /\ \A k \in {"mouse", "keyboard", "other"} : [t |-> "BIND_ACK", kind |-> k] \in ToClientMsg
    /\ \A n \in Seqs : [t |-> "REPORT_IN", seq |-> n] \in ToClientMsg
    /\ \A b \in Busids : [t |-> "ATTACH", busid |-> b] \in ToSenderMsg
BY DEF Msg, ToClientMsg, ToSenderMsg

LEMMA MessageFields ==
    /\ \A m \in ToClientMsg :
          /\ m.t = "DEVICES" => m.nodes \in SUBSET Nodes /\ m.hid \in SUBSET Nodes
          /\ m.t = "REPORT_IN" => m.seq \in Seqs
    /\ \A m \in ToSenderMsg : m.t = "ATTACH" => m.busid \in Busids
BY DEF ToClientMsg, ToSenderMsg

-----------------------------------------------------------------------------
(* Types. *)

LEMMA ProcessFields ==
    ASSUME TypesInv, NEW c \in Clients
    PROVE  /\ cl[c].pc \in {"idle", "hello", "list", "attach", "recv", "done"}
           /\ cl[c].picked \in Nodes \cup {None} /\ cl[c].last \in Seqs
           /\ cl[c].acked \in BOOLEAN /\ cl[c].gap \in BOOLEAN
           /\ cl[c].unbound \in BOOLEAN /\ cl[c].stalled \in BOOLEAN
BY DEF TypesInv, Process

LEMMA InitInv == Init => LInv
<1> SUFFICES ASSUME Init PROVE LInv
  OBVIOUS
<1>1. TypesInv
  <2>1. cl \in [Clients -> Process]
    BY ZeroSeq DEF Init, Process
  <2>2. TypeOK
    BY ZeroSeq DEF Init, TypeOK, Handshake
  <2>3. args \in [Clients -> Command]
    BY SenderAssumption DEF Init
  <2> QED
    BY <2>1, <2>2, <2>3, EmptySeq DEF Init, TypesInv, Streaming
<1>2. LineInv
  BY DEF Init, LineInv
<1>3. ASSUME NEW c \in Clients PROVE ClientInv(c)
  <2>1. c # None
    BY SenderAssumption
  <2> QED
    BY <2>1 DEF Init, ClientInv, QueuedOK, ProcessOK, GivenOK, StreamOK, PhaseOK, LogOK, Queued,
       ClOpen
<1> QED
  BY <1>1, <1>2, <1>3 DEF LInv

(* The sender leaves its session. *)
LEMMA LeaveType ==
    ASSUME TypesInv, SLeave, UNCHANGED <<present, cl>>,
           toC' \in [Clients -> Seq(ToClientMsg)], toS' \in [Clients -> Seq(ToSenderMsg)]
    PROVE  TypesInv'
<1>1. TypeOK'
  BY ZeroSeq DEF TypesInv, TypeOK, SLeave, conf, Handshake
<1> QED
  BY <1>1, EmptySeq DEF TypesInv, SLeave, conf, Streaming

(* What the sender writes and reads keeps the queues' types. *)
LEMMA QueueTypes ==
    ASSUME TypesInv, NEW c \in Clients
    PROVE  /\ \A m \in ToClientMsg : ToClient(c, m) => toC' \in [Clients -> Seq(ToClientMsg)]
           /\ \A m \in ToSenderMsg : ToSender(c, m) => toS' \in [Clients -> Seq(ToSenderMsg)]
           /\ toC[c] # <<>> /\ CConsumes(c) => toC' \in [Clients -> Seq(ToClientMsg)]
           /\ cur = c /\ toS[c] # <<>> /\ SConsumes => toS' \in [Clients -> Seq(ToSenderMsg)]
<1>1. ASSUME NEW m \in ToClientMsg, ToClient(c, m) PROVE toC' \in [Clients -> Seq(ToClientMsg)]
  BY <1>1 DEF TypesInv, ToClient
<1>2. ASSUME NEW m \in ToSenderMsg, ToSender(c, m) PROVE toS' \in [Clients -> Seq(ToSenderMsg)]
  BY <1>2 DEF TypesInv, ToSender
<1>3. ASSUME toC[c] # <<>>, CConsumes(c) PROVE toC' \in [Clients -> Seq(ToClientMsg)]
  <2>1. toC \in [Clients -> Seq(ToClientMsg)] /\ Tail(toC[c]) \in Seq(ToClientMsg)
    BY <1>3, Popped DEF TypesInv
  <2> QED
    BY <1>3, <2>1 DEF CConsumes
<1>4. ASSUME cur = c, toS[c] # <<>>, SConsumes PROVE toS' \in [Clients -> Seq(ToSenderMsg)]
  <2>1. toS \in [Clients -> Seq(ToSenderMsg)] /\ Tail(toS[c]) \in Seq(ToSenderMsg)
    BY <1>4, Popped DEF TypesInv
  <2> QED
    BY <1>4, <2>1 DEF SConsumes
<1> QED
  BY <1>1, <1>2, <1>3, <1>4

LEMMA ServingTypes ==
    ASSUME TypesInv, sPc \notin {"accept", "exit"}
    PROVE  cur \in Clients
BY DEF TypesInv, TypeOK

LEMMA SenderTypes == TypesInv /\ (SenderThread \/ SReport \/ SAcceptFails) => TypesInv'
<1> SUFFICES ASSUME TypesInv, SenderThread \/ SReport \/ SAcceptFails PROVE TypesInv'
  OBVIOUS
<1> USE DEF Handshake, Streaming
<1>1. CASE SAccept
  <2>1. Head(backlog) \in Clients /\ backlog' \in Seq(Clients)
    BY <1>1, Popped DEF SAccept, TypesInv
  <2>2. \A i \in DOMAIN backlog' : backlog'[i] \in Clients
    BY <2>1
  <2> QED
    BY <1>1, <2>1, <2>2, SenderAssumption DEF SAccept, TypesInv, TypeOK, conf
<1>2. CASE SAcceptFails
  BY <1>2, EmptySeq DEF SAcceptFails, TypesInv, TypeOK, conf
<1>3. CASE SHello
  <2>1. cur \in Clients /\ toS[cur] # <<>>
    BY <1>3, ServingTypes DEF SHello, SReads
  <2>2. toC' \in [Clients -> Seq(ToClientMsg)] /\ toS' \in [Clients -> Seq(ToSenderMsg)]
    BY <1>3, <2>1, QueueTypes, MessageTypes DEF SHello
  <2> QED
    BY <1>3, <2>2 DEF SHello, TypesInv, TypeOK, conf
<1>4. CASE SEnumerate
  <2>1. CASE SLeave
    BY <1>4, <2>1, LeaveType DEF SEnumerate, TypesInv
  <2>2. CASE ~SLeave
    BY <1>4, <2>2 DEF SEnumerate, TypesInv, TypeOK, conf
  <2> QED
    BY <2>1, <2>2
<1>5. CASE SList
  <2>1. cur \in Clients /\ toS[cur] # <<>>
    BY <1>5, ServingTypes DEF SList, SReads
  <2>2. [t |-> "DEVICES", nodes |-> devices, hid |-> hid] \in ToClientMsg
    BY MessageTypes DEF TypesInv, TypeOK
  <2>3. toC' \in [Clients -> Seq(ToClientMsg)] /\ toS' \in [Clients -> Seq(ToSenderMsg)]
    BY <1>5, <2>1, <2>2, QueueTypes DEF SList
  <2> QED
    BY <1>5, <2>3 DEF SList, TypesInv, TypeOK, conf
<1>6. CASE SAttach
  <2>1. cur \in Clients /\ toS[cur] # <<>>
    BY <1>6, ServingTypes DEF SAttach, SReads
  <2>2. toS' \in [Clients -> Seq(ToSenderMsg)]
    BY <1>6, <2>1, QueueTypes DEF SAttach
  <2> DEFINE found == FindNode(Head(toS[cur]).busid)
  <2>3. CASE found = {}
    BY <1>6, <2>2, <2>3, LeaveType DEF SAttach, TypesInv
  <2>4. CASE found # {}
    <3>1. found \in SUBSET Nodes
      BY DEF FindNode, TypesInv, TypeOK
    <3>2. FirstOf(found) \in Nodes
      BY <2>4, <3>1, FirstIsLeast
    <3>3. /\ chosen' = FirstOf(found) /\ sPc' = "bind" /\ ToClient(cur, Msg("ATTACH_OK"))
          /\ UNCHANGED <<conf, backlog, cur, devices, hid, seq, given, present, cl>>
      BY <1>6, <2>4 DEF SAttach
    <3>4. toC' \in [Clients -> Seq(ToClientMsg)]
      BY <2>1, <3>3, QueueTypes, MessageTypes
    <3>5. sPc = "attach"
      BY <1>6 DEF SAttach
    <3> HIDE DEF found
    <3> QED
      BY <2>2, <3>2, <3>3, <3>4, <3>5, SenderAssumption DEF TypesInv, TypeOK, conf
  <2> QED
    BY <2>3, <2>4
<1>7. CASE SBind
  <2>1. cur \in Clients /\ toS[cur] # <<>>
    BY <1>7, ServingTypes DEF SBind, SReads
  <2>2. toS' \in [Clients -> Seq(ToSenderMsg)]
    BY <1>7, <2>1, QueueTypes DEF SBind
  <2>3. CASE SLeave /\ UNCHANGED toC
    BY <1>7, <2>2, <2>3, LeaveType DEF SBind, TypesInv
  <2>4. CASE ~(SLeave /\ UNCHANGED toC)
    <3>1. PICK k \in Kinds(chosen) :
          /\ ToClient(cur, [t |-> "BIND_ACK", kind |-> k])
          /\ sPc = "bind" /\ sPc' = "open"
          /\ UNCHANGED <<conf, backlog, cur, devices, hid, chosen, seq, given, present, cl>>
      BY <1>7, <2>4 DEF SBind
    <3>2. k \in {"mouse", "keyboard", "other"}
      BY <3>1, SenderAssumption DEF TypesInv, TypeOK, Kinds
    <3>3. toC' \in [Clients -> Seq(ToClientMsg)]
      BY <2>1, <3>1, <3>2, QueueTypes, MessageTypes
    <3> QED
      BY <2>2, <3>1, <3>3 DEF TypesInv, TypeOK, conf
  <2> QED
    BY <2>3, <2>4
<1>8. CASE SUnexpected
  <2>1. cur \in Clients /\ toS[cur] # <<>>
    BY <1>8, ServingTypes DEF SUnexpected
  <2>2. toS' \in [Clients -> Seq(ToSenderMsg)]
    BY <1>8, <2>1, QueueTypes DEF SUnexpected
  <2> QED
    BY <1>8, <2>2, LeaveType DEF SUnexpected, TypesInv
<1>9. CASE SReadFails
  BY <1>9, LeaveType DEF SReadFails, TypesInv
<1>10. CASE SOpen
  <2>1. CASE SLeave
    BY <1>10, <2>1, LeaveType DEF SOpen, TypesInv
  <2>2. CASE ~SLeave
    BY <1>10, <2>2, ZeroSeq DEF SOpen, TypesInv, TypeOK, conf
  <2> QED
    BY <2>1, <2>2
<1>11. CASE SGone
  <2>1. CASE SLeave
    BY <1>11, <2>1, LeaveType DEF SGone, TypesInv
  <2>2. CASE ~SLeave
    BY <1>11, <2>2 DEF SGone, TypesInv, TypeOK, conf
  <2> QED
    BY <2>1, <2>2
<1>12. CASE SSend
  <2>1. cur \in Clients /\ seq \in Seqs
    BY <1>12, ServingTypes DEF SSend, TypesInv, TypeOK
  <2>2. toC' \in [Clients -> Seq(ToClientMsg)]
    BY <1>12, <2>1, QueueTypes, MessageTypes DEF SSend
  <2> QED
    BY <1>12, <2>2 DEF SSend, TypesInv, TypeOK, conf
<1>13. CASE SSendFails
  BY <1>13 DEF SSendFails, TypesInv, TypeOK, conf
<1>14. CASE SUnbind
  <2>1. cur \in Clients
    BY <1>14, ServingTypes DEF SUnbind
  <2>2. toC' \in [Clients -> Seq(ToClientMsg)]
    BY <1>14, <2>1, QueueTypes, MessageTypes DEF SUnbind
  <2> QED
    BY <1>14, <2>2, LeaveType DEF SUnbind, TypesInv
<1>15. CASE SReport
  <2>1. cur \in Clients /\ seq' \in Seqs
    BY <1>15, ServingTypes, SuccType DEF SReport, TypesInv, TypeOK, Succ
  <2> QED
    BY <1>15, <2>1 DEF SReport, TypesInv, TypeOK, conf
<1> QED
  BY <1>1, <1>2, <1>3, <1>4, <1>5, <1>6, <1>7, <1>8, <1>9, <1>10, <1>11, <1>12, <1>13, <1>14,
     <1>15 DEF SenderThread

LEMMA ClientTypes ==
    ASSUME TypesInv, NEW c \in Clients,
           CStep(c) \/ CDial(c) \/ CKilled(c) \/ CStalls(c)
    PROVE  TypesInv'
<1>q. toC[c] \in Seq(ToClientMsg) /\ cl \in [Clients -> Process] /\ cl[c] \in Process
  BY DEF TypesInv
<1>x. CExits(c) => cl' \in [Clients -> Process] /\ toC' \in [Clients -> Seq(ToClientMsg)]
  <2>1. CExits(c) => toC' \in [Clients -> Seq(ToClientMsg)]
    BY EmptySeq DEF CExits, TypesInv
  <2>2. CExits(c) => cl' \in [Clients -> Process]
    <3> DEFINE ended == [cl[c] EXCEPT !.pc = "done", !.picked = None, !.stalled = FALSE]
    <3>1. ended \in Process
      BY <1>q DEF Process
    <3>2. CExits(c) => cl' = [cl EXCEPT ![c] = ended]
      BY DEF CExits
    <3> HIDE DEF ended
    <3> QED
      BY <1>q, <3>1, <3>2
  <2> QED
    BY <2>1, <2>2
<1>g. \A p \in {"idle", "hello", "list", "attach", "recv", "done"} :
          CGoto(c, p) => cl' \in [Clients -> Process]
  BY <1>q DEF CGoto, Process
<1>s. ASSUME UNCHANGED <<present, sVars>>, cl' \in [Clients -> Process],
             toC' \in [Clients -> Seq(ToClientMsg)], toS' \in [Clients -> Seq(ToSenderMsg)]
      PROVE  TypesInv'
  BY <1>s DEF TypesInv, TypeOK, sVars, conf
<1>t. toC \in [Clients -> Seq(ToClientMsg)] /\ toS \in [Clients -> Seq(ToSenderMsg)]
  BY DEF TypesInv
<1>1. CASE CHelloAck(c)
  <2>1. CASE args[c].role = "connect"
    BY <1>1, <2>1, <1>x, <1>s, <1>t DEF CHelloAck
  <2>2. CASE args[c].role # "connect"
    <3>1. toC' \in [Clients -> Seq(ToClientMsg)] /\ toS' \in [Clients -> Seq(ToSenderMsg)]
      BY <1>1, <2>2, QueueTypes, MessageTypes DEF CHelloAck, CReads
    <3> QED
      BY <1>1, <2>2, <3>1, <1>g, <1>s DEF CHelloAck
  <2> QED
    BY <2>1, <2>2
<1>2. CASE CDeviceList(c)
  <2> DEFINE ns == Pick(c, Head(toC[c]))
  <2>1. CASE args[c].role = "list" \/ ns = {}
    BY <1>2, <2>1, <1>x, <1>s, <1>t DEF CDeviceList
  <2>2. CASE ~(args[c].role = "list" \/ ns = {})
    <3>1. /\ cl' = [cl EXCEPT ![c].pc = "attach", ![c].picked = FirstOf(ns)]
          /\ CConsumes(c) /\ ToSender(c, [t |-> "ATTACH", busid |-> BusOf[FirstOf(ns)]])
          /\ UNCHANGED <<present, sVars>> /\ toC[c] # <<>> /\ Head(toC[c]).t = "DEVICES"
      BY <1>2, <2>2 DEF CDeviceList, CReads
    <3>2. ns \in SUBSET Nodes /\ ns # {}
      BY <1>q, <2>2, <3>1, Popped, MessageFields DEF Pick
    <3> HIDE DEF ns
    <3>3. FirstOf(ns) \in Nodes /\ BusOf[FirstOf(ns)] \in Busids
      BY <3>2, FirstIsLeast, SenderAssumption
    <3>4. toC' \in [Clients -> Seq(ToClientMsg)] /\ toS' \in [Clients -> Seq(ToSenderMsg)]
      BY <3>1, <3>3, QueueTypes, MessageTypes
    <3>5. cl' \in [Clients -> Process]
      BY <1>q, <3>1, <3>3 DEF Process
    <3> QED
      BY <3>1, <3>4, <3>5, <1>s
  <2> QED
    BY <2>1, <2>2
<1>3. CASE CAttachOk(c)
  <2>1. toC' \in [Clients -> Seq(ToClientMsg)] /\ toS' \in [Clients -> Seq(ToSenderMsg)]
    BY <1>3, QueueTypes, MessageTypes DEF CAttachOk, CReads
  <2> QED
    BY <1>3, <2>1, <1>g, <1>s DEF CAttachOk
<1>4. CASE CBindAck(c)
  <2>1. CASE CExits(c)
    BY <1>4, <2>1, <1>x, <1>s, <1>t DEF CBindAck
  <2>2. CASE ~CExits(c)
    <3>1. cl' = [cl EXCEPT ![c].acked = TRUE] /\ CConsumes(c) /\ toC[c] # <<>>
      BY <1>4, <2>2 DEF CBindAck, CReads
    <3>2. cl' \in [Clients -> Process]
      BY <1>q, <3>1 DEF Process
    <3> QED
      BY <1>4, <3>1, <3>2, <1>s, <1>t, QueueTypes DEF CBindAck
  <2> QED
    BY <2>1, <2>2
<1>5. CASE CReport(c)
  <2>1. CASE CExits(c)
    BY <1>5, <2>1, <1>x, <1>s, <1>t DEF CReport
  <2>2. CASE ~CExits(c)
    <3>1. /\ cl' = [cl EXCEPT ![c].last = Head(toC[c]).seq,
                              ![c].gap = @ \/ Head(toC[c]).seq # (cl[c].last + 1) % SeqMod]
          /\ CConsumes(c) /\ toC[c] # <<>> /\ Head(toC[c]).t = "REPORT_IN"
      BY <1>5, <2>2 DEF CReport, CReads
    <3>2. Head(toC[c]).seq \in Seqs
      BY <1>q, <3>1, Popped, MessageFields
    <3>3. cl' \in [Clients -> Process]
      BY <1>q, <3>1, <3>2 DEF Process
    <3> QED
      BY <1>5, <3>1, <3>3, <1>s, <1>t, QueueTypes DEF CReport
  <2> QED
    BY <2>1, <2>2
<1>6. CASE CUnbind(c)
  <2>1. cl' \in [Clients -> Process]
    BY <1>6, <1>q DEF CUnbind, Process
  <2>2. toC' \in [Clients -> Seq(ToClientMsg)]
    BY <1>6, <1>t, EmptySeq DEF CUnbind
  <2> QED
    BY <1>6, <2>1, <2>2, <1>s, <1>t DEF CUnbind
<1>7. CASE CEof(c) \/ CTimeout(c) \/ CKilled(c)
  BY <1>7, <1>x, <1>s, <1>t DEF CEof, CTimeout, CKilled
<1>8. CASE CStalls(c)
  <2>1. cl' \in [Clients -> Process]
    BY <1>8, <1>q DEF CStalls, Process
  <2> QED
    BY <1>8, <2>1, <1>s, <1>t DEF CStalls
<1>9. CASE CDial(c)
  <2>1. CASE sPc = "exit"
    <3>1. cl' \in [Clients -> Process]
      BY <1>9, <2>1, <1>g DEF CDial
    <3> QED
      BY <1>9, <2>1, <3>1 DEF CDial, TypesInv, TypeOK, conf
  <2>2. CASE sPc # "exit"
    <3>1. cl' \in [Clients -> Process]
      BY <1>9, <2>2, <1>g DEF CDial
    <3>2. toS' \in [Clients -> Seq(ToSenderMsg)]
      <4>1. <<Msg("HELLO")>> \in Seq(ToSenderMsg)
        BY MessageTypes
      <4> QED
        BY <1>9, <2>2, <1>t, <4>1 DEF CDial
    <3>3. backlog' \in Seq(Clients) /\ \A i \in DOMAIN backlog' : backlog'[i] \in Clients
      <4>1. backlog' = Append(backlog, c) /\ backlog \in Seq(Clients)
        BY <1>9, <2>2 DEF CDial, TypesInv
      <4>2. backlog' \in Seq(Clients)
        BY <4>1, Appended
      <4> QED
        BY <4>2
    <3> QED
      BY <1>9, <2>2, <3>1, <3>2, <3>3 DEF CDial, TypesInv, TypeOK, conf
  <2> QED
    BY <2>1, <2>2
<1> QED
  BY <1>1, <1>2, <1>3, <1>4, <1>5, <1>6, <1>7, <1>8, <1>9 DEF CStep

LEMMA TypesStep == TypesInv /\ [Next]_vars => TypesInv'
<1> SUFFICES ASSUME TypesInv, [Next]_vars PROVE TypesInv'
  OBVIOUS
<1>1. ASSUME NEW n \in Nodes, Unplug(n) PROVE TypesInv'
  BY <1>1 DEF Unplug, TypesInv, TypeOK, sVars, conf
<1>2. CASE UNCHANGED vars
  BY <1>2 DEF vars, TypesInv, TypeOK, sVars, conf
<1> QED
  BY <1>1, <1>2, SenderTypes, ClientTypes DEF Next, Environment

-----------------------------------------------------------------------------
(* The clients a step is not about. *)

(* A client whose process, queues and place in line stay as they are, or    *)
(* which the sender leaves, keeps its invariant.                            *)
LEMMA ClientKept ==
    ASSUME LInv, NEW d \in Clients, args' = args,
           toC'[d] = toC[d], cl'[d] = cl[d], given'[d] = given[d],
           Queued(d)' => Queued(d),
           cur' = d => cur = d /\ UNCHANGED <<sPc, devices, hid, chosen, seq>>,
           Queued(d)' \/ cur' = d => toS'[d] = toS[d]
    PROVE  ClientInv(d)'
<1>1. ClientInv(d)
  BY DEF LInv
<1>2. QueuedOK(d)' /\ ProcessOK(d)' /\ GivenOK(d)' /\ LogOK(d)'
  BY <1>1 DEF ClientInv, QueuedOK, ProcessOK, GivenOK, LogOK, ClOpen
<1>3. \A i : PrevSeq(d, i)' = PrevSeq(d, i)
  BY DEF PrevSeq
<1>4. StreamOK(d)'
  BY <1>1, <1>3 DEF ClientInv, StreamOK, StreamMsg
<1>5. PhaseOK(d)'
  BY <1>1, <1>3 DEF ClientInv, PhaseOK, ClOpen, Greeting, Attaching, Binding, Pumping, Pick,
                    Listed, Bound, Refuses
<1> QED
  BY <1>2, <1>4, <1>5 DEF ClientInv

(* The sender leaves its session: nobody is worse off. *)
LEMMA LeaveKeeps ==
    ASSUME LInv, TypesInv', SLeave, toC' = toC, cl' = cl,
           \A d \in Clients : d # cur => toS'[d] = toS[d]
    PROVE  LInv'
<1>1. /\ args' = args /\ given' = given /\ cur' = None /\ None \notin Clients
      /\ backlog' = backlog \/ backlog' = <<>>
  BY SenderAssumption DEF SLeave, conf
<1>2. LineInv'
  BY <1>1 DEF LInv, LineInv
<1>3. \A d : Queued(d)' => Queued(d)
  BY <1>1 DEF Queued
<1>4. ASSUME NEW d \in Clients PROVE ClientInv(d)'
  <2>1. Queued(d) => d # cur
    BY DEF LInv, ClientInv, QueuedOK
  <2> QED
    BY <1>1, <1>3, <2>1, ClientKept
<1> QED
  BY <1>2, <1>4 DEF LInv

(* A step about client c. *)
LEMMA OthersKept ==
    ASSUME LInv, TypesInv', NEW c \in Clients, args' = args, LineInv', ClientInv(c)',
           \A d \in Clients \ {c} :
              /\ toC'[d] = toC[d] /\ toS'[d] = toS[d] /\ cl'[d] = cl[d] /\ given'[d] = given[d]
              /\ Queued(d)' => Queued(d)
              /\ cur' = d => cur = d /\ UNCHANGED <<sPc, devices, hid, chosen, seq>>
    PROVE  LInv'
BY ClientKept DEF LInv

(* Where the session that is served stands. *)
LEMMA Serving ==
    ASSUME LInv, sPc \notin {"accept", "exit"}
    PROVE  /\ cur \in Clients /\ ClientInv(cur) /\ ~Queued(cur) /\ cl[cur].pc # "idle"
           /\ toC[cur] \in Seq(ToClientMsg) /\ toS[cur] \in Seq(ToSenderMsg)
BY DEF LInv, TypesInv, TypeOK, ClientInv, QueuedOK, ProcessOK

-----------------------------------------------------------------------------
(* The sender's steps. *)

(* A step for a client that is gone. *)
LEMMA ForTheDeparted ==
    ASSUME LInv, NEW c \in Clients, cur = c, cur' = c, ~ClOpen(c), backlog' = backlog,
           cl'[c] = cl[c], toC'[c] = toC[c],
           sPc' \in DOMAIN Handshake \cup {"enumerate", "open"} => given'[c] = 0
    PROVE  ClientInv(c)'
<1>1. ClientInv(c) /\ ~Queued(c) /\ ~Queued(c)' /\ cl[c].pc = "done"
  BY DEF LInv, ClientInv, QueuedOK, ProcessOK, ClOpen, Queued
<1> QED
  BY <1>1 DEF ClientInv, QueuedOK, ProcessOK, GivenOK, StreamOK, PhaseOK, LogOK, ClOpen

LEMMA AcceptStep == LInv /\ TypesInv' /\ SAccept => LInv'
<1> SUFFICES ASSUME LInv, TypesInv', SAccept PROVE LInv'
  OBVIOUS
<1>0. PICK c \in Clients : c = Head(backlog)
  BY Popped DEF SAccept, LInv, TypesInv
<1>1. /\ cur' = c /\ backlog' = Tail(backlog) /\ backlog # <<>> /\ sPc = "accept" /\ sPc' = "hello"
      /\ UNCHANGED <<toS, toC, args, devices, hid, chosen, seq, given, cl>>
  BY <1>0 DEF SAccept, conf
<1>2. /\ c = backlog[1] /\ c \in Clients /\ Len(backlog) \in Nat \ {0}
      /\ backlog' \in Seq(Clients) /\ Len(backlog') = Len(backlog) - 1
      /\ \A i \in 1 .. Len(backlog) - 1 : backlog'[i] = backlog[i + 1]
  BY <1>0, <1>1, Popped DEF LInv, TypesInv
<1>3. /\ DOMAIN backlog = 1 .. Len(backlog) /\ DOMAIN backlog' = 1 .. Len(backlog')
  BY <1>2 DEF LInv, TypesInv
<1>4. LineInv'
  <2> SUFFICES ASSUME NEW i \in 1 .. Len(backlog'), NEW j \in 1 .. Len(backlog'),
                      backlog'[i] = backlog'[j]
               PROVE  i = j
    BY DEF LineInv
  <2>1. i + 1 \in 1 .. Len(backlog) /\ j + 1 \in 1 .. Len(backlog)
        /\ backlog[i + 1] = backlog[j + 1]
    BY <1>2
  <2>2. i + 1 = j + 1
    BY <2>1 DEF LInv, LineInv
  <2> QED
    BY <2>2
<1>5. \A d : Queued(d)' => Queued(d) /\ d # c
  <2> SUFFICES ASSUME NEW d, Queued(d)' PROVE Queued(d) /\ d # c
    OBVIOUS
  <2>1. PICK i \in 1 .. Len(backlog') : backlog'[i] = d
    BY <1>3 DEF Queued
  <2>2. i + 1 \in 1 .. Len(backlog) /\ backlog[i + 1] = d /\ 1 \in 1 .. Len(backlog) /\ i + 1 # 1
    BY <1>2, <2>1
  <2>3. d # c
    BY <1>2, <2>2 DEF LInv, LineInv
  <2> QED
    BY <1>3, <2>2, <2>3 DEF Queued
<1>6. Queued(c)
  BY <1>2, <1>3 DEF Queued
<1>7. ClientInv(c)'
  <2>1. ClientInv(c)
    BY <1>2 DEF LInv
  <2> QED
    BY <1>1, <1>5, <1>6, <2>1 DEF ClientInv, QueuedOK, ProcessOK, GivenOK, StreamOK, PhaseOK,
       Greeting, Attaching, Binding, Pumping, Streaming, LogOK, ClOpen
<1> QED
  BY <1>1, <1>2, <1>4, <1>5, <1>7, OthersKept

(* What a step that goes on with client c leaves alone. *)
GoesOn(c) ==
    /\ cur = c /\ cur' = c
    /\ UNCHANGED <<args, backlog, cl>>
    /\ \A d \in Clients \ {c} : toC'[d] = toC[d] /\ toS'[d] = toS[d] /\ given'[d] = given[d]

LEMMA GoesOnKeeps ==
    ASSUME LInv, TypesInv', NEW c \in Clients, GoesOn(c), ClientInv(c)'
    PROVE  LInv'
<1>1. LineInv' /\ \A d : Queued(d)' <=> Queued(d)
  BY DEF LInv, GoesOn, LineInv, Queued
<1> QED
  BY <1>1, OthersKept DEF GoesOn

(* One message read from the client, one written to it. *)
LEMMA Answers ==
    ASSUME LInv, NEW c \in Clients, cur = c, ClOpen(c), NEW m \in ToClientMsg,
           toC[c] = <<>>, ToClient(c, m)
    PROVE  Len(toC'[c]) = 1 /\ toC'[c][1] = m
<1>1. toC'[c] = Append(toC[c], m) /\ toC[c] \in Seq(ToClientMsg)
  BY DEF ToClient, LInv, TypesInv
<1>2. Len(toC[c]) = 0
  OBVIOUS
<1> QED
  BY <1>1, <1>2, Appended

LEMMA Consumed ==
    ASSUME LInv, NEW c \in Clients, cur = c, SConsumes, Len(toS[c]) = 1
    PROVE  toS'[c] = <<>>
<1>1. toS'[c] = Tail(toS[c]) /\ toS[c] \in Seq(ToSenderMsg)
  BY DEF SConsumes, LInv, TypesInv
<1>2. toS[c] # <<>>
  BY <1>1, EmptySeq
<1> QED
  BY <1>1, <1>2, Popped

LEMMA HelloStep == LInv /\ TypesInv' /\ SHello => LInv'
<1> SUFFICES ASSUME LInv, TypesInv', SHello PROVE LInv'
  OBVIOUS
<1>2. PICK c \in Clients : cur = c
  BY Serving DEF SHello
<1>1. ClientInv(c) /\ ~Queued(c) /\ sPc = "hello" /\ sPc' = "enumerate"
      /\ SConsumes /\ ToClient(c, Msg("HELLO_ACK"))
      /\ UNCHANGED <<args, backlog, cur, devices, hid, chosen, seq, given, cl>>
  BY <1>2, Serving DEF SHello, conf
<1>3. GoesOn(c)
  BY <1>1, <1>2 DEF GoesOn, SConsumes, ToClient, LInv, TypesInv
<1>4. given[c] = 0
  BY <1>1, <1>2 DEF ClientInv, GivenOK, Handshake
<1>5. CASE ClOpen(c)
  <2>1. cl[c].pc = "hello" /\ toC[c] = <<>> /\ Only(toS[c], "HELLO")
    BY <1>1, <1>2, <1>5 DEF ClientInv, PhaseOK, Greeting
  <2>2. Only(toC'[c], "HELLO_ACK") /\ toS'[c] = <<>>
    BY <1>1, <1>2, <1>5, <2>1, Answers, Consumed, MessageTypes DEF Only
  <2>3. ~Queued(c)'
    BY <1>1 DEF Queued
  <2>4. ClientInv(c)'
    BY <1>1, <1>2, <1>4, <2>1, <2>2, <2>3
    DEF ClientInv, QueuedOK, ProcessOK, GivenOK, StreamOK, PhaseOK, Greeting, Attaching, Binding,
        Pumping, Streaming, LogOK, ClOpen, Only
  <2> QED
    BY <1>1, <1>3, <2>4, GoesOnKeeps
<1>6. CASE ~ClOpen(c)
  <2>1. ClientInv(c)'
    BY <1>1, <1>2, <1>4, <1>6, ForTheDeparted DEF ToClient
  <2> QED
    BY <1>1, <1>3, <2>1, GoesOnKeeps
<1> QED
  BY <1>5, <1>6

LEMMA EnumerateStep == LInv /\ TypesInv' /\ SEnumerate => LInv'
<1> SUFFICES ASSUME LInv, TypesInv', SEnumerate PROVE LInv'
  OBVIOUS
<1>1. CASE SLeave
  BY <1>1, LeaveKeeps DEF SEnumerate
<1>2. CASE ~SLeave
  <2>2. PICK c \in Clients : cur = c
    BY Serving DEF SEnumerate
  <2>1. ClientInv(c) /\ ~Queued(c) /\ sPc = "enumerate" /\ sPc' = "list"
        /\ UNCHANGED <<args, backlog, cur, chosen, seq, given, cl, toC, toS>>
    BY <1>2, <2>2, Serving DEF SEnumerate, conf
  <2>3. GoesOn(c) /\ ~Queued(c)'
    BY <2>1, <2>2 DEF GoesOn, Queued
  <2>4. ClientInv(c)'
    BY <2>1, <2>2, <2>3
    DEF ClientInv, QueuedOK, ProcessOK, GivenOK, StreamOK, StreamMsg, PrevSeq, PhaseOK, Greeting,
        Attaching, Binding, Pumping, Streaming, LogOK, ClOpen, Handshake
  <2> QED
    BY <2>1, <2>3, <2>4, GoesOnKeeps
<1> QED
  BY <1>1, <1>2

LEMMA ListStep == LInv /\ TypesInv' /\ SList => LInv'
<1> SUFFICES ASSUME LInv, TypesInv', SList PROVE LInv'
  OBVIOUS
<1>2. PICK c \in Clients : cur = c
  BY Serving DEF SList
<1> DEFINE m == Listed
<1>1. ClientInv(c) /\ ~Queued(c) /\ sPc = "list" /\ sPc' = "attach"
      /\ SConsumes /\ ToClient(c, m) /\ toS[c] # <<>>
      /\ UNCHANGED <<args, backlog, cur, devices, hid, chosen, seq, given, cl>>
  BY <1>2, Serving DEF SList, SReads, conf, Listed
<1>m. m \in ToClientMsg /\ m.t = "DEVICES" /\ m = Listed'
  <2>1. devices \in SUBSET Nodes /\ hid \in SUBSET Nodes
    BY DEF LInv, TypesInv, TypeOK
  <2> QED
    BY <1>1, <2>1, MessageTypes DEF Listed
<1> HIDE DEF m
<1>3. GoesOn(c)
  BY <1>1, <1>2 DEF GoesOn, SConsumes, ToClient, LInv, TypesInv
<1>4. given[c] = 0
  BY <1>1, <1>2 DEF ClientInv, GivenOK, Handshake
<1>5. CASE ClOpen(c)
  <2>1. cl[c].pc = "list" /\ toC[c] = <<>> /\ Only(toS[c], "LIST")
    BY <1>1, <1>2, <1>5 DEF ClientInv, PhaseOK, Greeting
  <2>2. Only(toC'[c], "DEVICES") /\ toC'[c][1] = Listed' /\ toS'[c] = <<>>
    BY <1>1, <1>2, <1>5, <1>m, <2>1, Answers, Consumed DEF Only
  <2>3. ~Queued(c)'
    BY <1>1 DEF Queued
  <2>4. ClientInv(c)'
    BY <1>1, <1>2, <1>4, <2>1, <2>2, <2>3
    DEF ClientInv, QueuedOK, ProcessOK, GivenOK, StreamOK, PhaseOK, Greeting, Attaching, Binding,
        Pumping, Streaming, LogOK, ClOpen, Only
  <2> QED
    BY <1>1, <1>3, <2>4, GoesOnKeeps
<1>6. CASE ~ClOpen(c)
  <2>1. ClientInv(c)'
    BY <1>1, <1>2, <1>4, <1>6, ForTheDeparted DEF ToClient
  <2> QED
    BY <1>1, <1>3, <2>1, GoesOnKeeps
<1> QED
  BY <1>5, <1>6

LEMMA AttachStep == LInv /\ TypesInv' /\ SAttach => LInv'
<1> SUFFICES ASSUME LInv, TypesInv', SAttach PROVE LInv'
  OBVIOUS
<1>2. PICK c \in Clients : cur = c
  BY Serving DEF SAttach
<1> DEFINE found == FindNode(Head(toS[c]).busid)
<1>1. ClientInv(c) /\ ~Queued(c) /\ sPc = "attach" /\ SConsumes /\ toS[c] # <<>> /\ cl' = cl
      /\ toS[c] \in Seq(ToSenderMsg)
  BY <1>2, Serving DEF SAttach, SReads
<1>3. CASE found = {}
  <2>1. SLeave /\ toC' = toC
    BY <1>2, <1>3 DEF SAttach
  <2>2. \A d \in Clients : d # cur => toS'[d] = toS[d]
    BY <1>1, <1>2 DEF SConsumes, LInv, TypesInv
  <2> QED
    BY <1>1, <2>1, <2>2, LeaveKeeps
<1>4. CASE found # {}
  <2>1. /\ chosen' = FirstOf(found) /\ sPc' = "bind" /\ ToClient(c, Msg("ATTACH_OK"))
        /\ UNCHANGED <<args, backlog, cur, devices, hid, seq, given, cl>>
    BY <1>2, <1>4 DEF SAttach, conf
  <2>2. GoesOn(c) /\ ~Queued(c)'
    BY <1>1, <1>2, <2>1 DEF GoesOn, SConsumes, ToClient, LInv, TypesInv, Queued
  <2>3. given[c] = 0
    BY <1>1, <1>2 DEF ClientInv, GivenOK, Handshake
  <2>4. CASE ClOpen(c)
    <3>1. /\ cl[c].pc = "attach" /\ toC[c] = <<>> /\ Only(toS[c], "ATTACH")
          /\ toS[c][1].busid = BusOf[cl[c].picked]
          /\ Pick(c, Listed) # {} /\ cl[c].picked = FirstOf(Pick(c, Listed)) /\ ~cl[c].acked
      BY <1>1, <1>2, <2>4 DEF ClientInv, PhaseOK, Attaching, ProcessOK
    <3>2. Head(toS[c]) = toS[c][1]
      BY <1>1, Popped
    <3>4. Only(toC'[c], "ATTACH_OK") /\ toS'[c] = <<>>
      BY <1>1, <1>2, <2>1, <2>4, <3>1, Answers, Consumed, MessageTypes DEF Only
    <3>3. Bound(c)'
      <4>1. devices \in SUBSET Nodes /\ Pick(c, Listed) \in SUBSET devices
        BY DEF LInv, TypesInv, TypeOK, Pick, Listed
      <4>p. PICK p : p = cl[c].picked
        OBVIOUS
      <4>f. PICK f : f = chosen'
        OBVIOUS
      <4>2. f = FirstOf({n \in devices : BusOf[n] = BusOf[p]})
        BY <2>1, <3>1, <3>2, <4>p, <4>f DEF FindNode
      <4>3. /\ p \in Nodes /\ f \in devices /\ BusOf[f] = BusOf[p]
            /\ f = p \/ (f < p /\ f \notin Pick(c, Listed))
        <5>1. PICK picks \in SUBSET devices : picks = Pick(c, Listed)
          BY <4>1
        <5>2. picks # {} /\ p = FirstOf(picks)
          BY <3>1, <4>p, <5>1
        <5> QED
          BY <4>1, <4>2, <5>1, <5>2, FoundIsPicked
      <4>4. p \in Pick(c, Listed)
        BY <3>1, <4>1, <4>p, FirstIsLeast
      <4>5. f \notin Pick(c, Listed) => f \notin hid
        BY <4>3, <4>4 DEF Pick, Listed
      <4>6. Refuses(c)'
        BY <2>1, <3>1, <3>4 DEF Refuses, Only
      <4> HIDE DEF found
      <4> QED
        BY <2>1, <4>p, <4>f, <4>3, <4>5, <4>6 DEF Bound
    <3> HIDE DEF found
    <3>5. ClientInv(c)'
      BY <1>1, <1>2, <2>1, <2>2, <2>3, <3>1, <3>3, <3>4
      DEF ClientInv, QueuedOK, ProcessOK, GivenOK, StreamOK, PhaseOK, Greeting, Attaching,
          Binding, Pumping, Streaming, LogOK, ClOpen, Only
    <3> QED
      BY <2>2, <3>5, GoesOnKeeps
  <2>5. CASE ~ClOpen(c)
    <3>1. ClientInv(c)'
      BY <1>2, <2>1, <2>3, <2>5, ForTheDeparted DEF ToClient
    <3> QED
      BY <2>2, <3>1, GoesOnKeeps
  <2> QED
    BY <2>4, <2>5
<1> QED
  BY <1>3, <1>4

LEMMA BindStep == LInv /\ TypesInv' /\ SBind => LInv'
<1> SUFFICES ASSUME LInv, TypesInv', SBind PROVE LInv'
  OBVIOUS
<1>2. PICK c \in Clients : cur = c
  BY Serving DEF SBind
<1>1. ClientInv(c) /\ ~Queued(c) /\ sPc = "bind" /\ SConsumes /\ toS[c] # <<>> /\ cl' = cl
  BY <1>2, Serving DEF SBind, SReads
<1>3. CASE SLeave /\ toC' = toC
  <2>1. \A d \in Clients : d # cur => toS'[d] = toS[d]
    BY <1>1, <1>2 DEF SConsumes, LInv, TypesInv
  <2> QED
    BY <1>1, <1>3, <2>1, LeaveKeeps
<1>4. CASE ~(SLeave /\ toC' = toC)
  <2>k. PICK k \in Kinds(chosen) :
        /\ ToClient(c, [t |-> "BIND_ACK", kind |-> k]) /\ sPc' = "open"
        /\ UNCHANGED <<args, backlog, cur, devices, hid, chosen, seq, given, cl>>
    BY <1>2, <1>4 DEF SBind, conf
  <2> DEFINE m == [t |-> "BIND_ACK", kind |-> k]
  <2>1. /\ ToClient(c, m) /\ sPc' = "open"
        /\ UNCHANGED <<args, backlog, cur, devices, hid, chosen, seq, given, cl>>
    BY <2>k
  <2>m. /\ m \in ToClientMsg /\ m.t = "BIND_ACK"
        /\ chosen \notin hid => m.kind = "other"
    <3>1. k \in {"mouse", "keyboard", "other"} /\ (chosen \notin hid => k = "other")
      BY <1>1, SenderAssumption DEF LInv, TypesInv, TypeOK, Streaming, Kinds
    <3> QED
      BY <3>1, MessageTypes
  <2> HIDE DEF m
  <2>2. GoesOn(c) /\ ~Queued(c)'
    BY <1>1, <1>2, <2>1 DEF GoesOn, SConsumes, ToClient, LInv, TypesInv, Queued
  <2>3. given[c] = 0
    BY <1>1, <1>2 DEF ClientInv, GivenOK, Handshake
  <2>4. CASE ClOpen(c)
    <3>1. cl[c].pc = "recv" /\ toC[c] = <<>> /\ Bound(c) /\ ~cl[c].acked
      BY <1>1, <1>2, <2>4 DEF ClientInv, PhaseOK, Binding
    <3>2. Only(toC'[c], "BIND_ACK") /\ (chosen \notin hid => toC'[c][1].kind = "other")
      BY <1>2, <2>1, <2>m, <2>4, <3>1, Answers DEF Only
    <3>b. Bound(c)'
      BY <2>1, <3>1, <3>2 DEF Bound, Refuses
    <3>3. StreamOK(c)'
      BY <2>1, <3>1, <3>2 DEF StreamOK, StreamMsg, Only
    <3>4. ClientInv(c)'
      BY <1>1, <1>2, <2>1, <2>2, <2>3, <3>1, <3>2, <3>3, <3>b
      DEF ClientInv, QueuedOK, ProcessOK, GivenOK, PhaseOK, Greeting, Attaching,
          Binding, Pumping, Streaming, LogOK, ClOpen
    <3> QED
      BY <2>2, <3>4, GoesOnKeeps
  <2>5. CASE ~ClOpen(c)
    <3>1. ClientInv(c)'
      BY <1>2, <2>1, <2>3, <2>5, ForTheDeparted DEF ToClient
    <3> QED
      BY <2>2, <3>1, GoesOnKeeps
  <2> QED
    BY <2>4, <2>5
<1> QED
  BY <1>3, <1>4

(* The steps that only end the session. *)
LEMMA EndSteps == LInv /\ TypesInv' /\ (SUnexpected \/ SReadFails \/ SAcceptFails) => LInv'
<1> SUFFICES ASSUME LInv, TypesInv', SUnexpected \/ SReadFails \/ SAcceptFails PROVE LInv'
  OBVIOUS
<1>1. CASE SUnexpected
  <2>1. \A d \in Clients : d # cur => toS'[d] = toS[d]
    BY <1>1, Serving DEF SUnexpected, SConsumes, LInv, TypesInv
  <2> QED
    BY <1>1, <2>1, LeaveKeeps DEF SUnexpected
<1>2. CASE SReadFails
  BY <1>2, LeaveKeeps DEF SReadFails
<1>3. CASE SAcceptFails
  <2>1. /\ UNCHANGED <<toS, toC, args, cur, devices, hid, chosen, seq, given, cl>> /\ backlog' = <<>>
        /\ \A d \in Clients : cur # d
    BY <1>3, SenderAssumption DEF SAcceptFails, conf, LInv, TypesInv, TypeOK
  <2>2. LineInv' /\ \A d : ~Queued(d)'
    BY <2>1 DEF LineInv, Queued
  <2>3. \A d \in Clients : ClientInv(d)'
    BY <2>1, <2>2, ClientKept
  <2> QED
    BY <2>2, <2>3 DEF LInv
<1> QED
  BY <1>1, <1>2, <1>3

LEMMA OpenStep == LInv /\ TypesInv' /\ SOpen => LInv'
<1> SUFFICES ASSUME LInv, TypesInv', SOpen PROVE LInv'
  OBVIOUS
<1>1. CASE SLeave
  BY <1>1, LeaveKeeps DEF SOpen
<1>2. CASE ~SLeave
  <2>2. PICK c \in Clients : cur = c
    BY Serving DEF SOpen
  <2>1. ClientInv(c) /\ ~Queued(c) /\ sPc = "open" /\ sPc' = "pump" /\ seq' = 0
        /\ UNCHANGED <<args, backlog, cur, devices, hid, chosen, given, cl, toC, toS>>
    BY <1>2, <2>2, Serving DEF SOpen, conf
  <2>3. GoesOn(c) /\ ~Queued(c)' /\ given[c] = 0
    BY <2>1, <2>2 DEF GoesOn, Queued, ClientInv, GivenOK
  <2>4. CASE ClOpen(c)
    <3>1. /\ cl[c].pc = "recv" /\ Bound(c) /\ cl[c].last = 0
          /\ IF cl[c].acked THEN toC[c] = <<>> ELSE Only(toC[c], "BIND_ACK")
      BY <2>1, <2>2, <2>4 DEF ClientInv, PhaseOK, Binding
    <3>2. PrevSeq(c, Len(toC[c]) + 1) = 0 /\ (~cl[c].acked => toC[c] # <<>>)
      <4>1. CASE cl[c].acked
        <5>1. Len(toC[c]) = 0
          BY <3>1, <4>1
        <5> QED
          BY <3>1, <4>1, <5>1 DEF PrevSeq
      <4>2. CASE ~cl[c].acked
        BY <3>1, <4>2 DEF PrevSeq, Only
      <4> QED
        BY <4>1, <4>2
    <3>3. StreamOK(c)'
      BY <2>1, <2>2, <2>3 DEF ClientInv, StreamOK, StreamMsg, PrevSeq
    <3>4. Pumping(c)'
      BY <2>1, <2>3, <3>1, <3>2 DEF Pumping, PrevSeq, Bound, Refuses
    <3>5. ClientInv(c)'
      BY <2>1, <2>2, <2>3, <3>1, <3>3, <3>4
      DEF ClientInv, QueuedOK, ProcessOK, GivenOK, PhaseOK, Greeting, Attaching, Binding, LogOK,
          ClOpen, Handshake
    <3> QED
      BY <2>3, <3>5, GoesOnKeeps
  <2>5. CASE ~ClOpen(c)
    <3>1. ClientInv(c)'
      BY <2>1, <2>2, <2>3, <2>5, ForTheDeparted
    <3> QED
      BY <2>3, <3>1, GoesOnKeeps
  <2> QED
    BY <2>4, <2>5
<1> QED
  BY <1>1, <1>2

(* A report is read; the node is gone; a write failed. *)
LEMMA PumpSteps ==
    LInv /\ TypesInv' /\ (SReport \/ SSendFails \/ (SGone /\ ~SLeave)) => LInv'
<1> SUFFICES ASSUME LInv, TypesInv', SReport \/ SSendFails \/ (SGone /\ ~SLeave) PROVE LInv'
  OBVIOUS
<1>2. PICK c \in Clients : cur = c
  BY Serving DEF SReport, SSendFails, SGone
<1>1. ClientInv(c) /\ ~Queued(c) /\ ~Queued(c)' /\ sPc \in Streaming /\ sPc' \in Streaming
      /\ UNCHANGED <<args, backlog, cur, devices, hid, chosen, cl, toC, toS>>
      /\ \A d \in Clients \ {c} : given'[d] = given[d]
  BY <1>2, Serving DEF SReport, SSendFails, SGone, conf, Queued, Streaming, LInv, TypesInv, TypeOK
<1>3. GoesOn(c)
  BY <1>1, <1>2 DEF GoesOn
<1>4. CASE ClOpen(c)
  <2>1. /\ cl[c].pc = "recv" /\ Bound(c) /\ given[c] = seq
        /\ ~cl[c].acked => toC[c] # <<>>
        /\ seq = IF sPc = "send" THEN Succ(PrevSeq(c, Len(toC[c]) + 1))
                 ELSE PrevSeq(c, Len(toC[c]) + 1)
    BY <1>1, <1>2, <1>4 DEF ClientInv, PhaseOK, Pumping
  <2>2. /\ given'[c] = seq' /\ PrevSeq(c, Len(toC[c]) + 1)' = PrevSeq(c, Len(toC[c]) + 1)
        /\ seq' = IF sPc' = "send" THEN Succ(PrevSeq(c, Len(toC[c]) + 1))
                  ELSE PrevSeq(c, Len(toC[c]) + 1)
    <3>1. CASE SReport
      BY <1>1, <1>2, <2>1, <3>1 DEF SReport, Succ, PrevSeq, LInv, TypesInv, TypeOK
    <3>2. CASE SSendFails \/ (SGone /\ ~SLeave)
      <4>1. SGone /\ ~SLeave /\ UNCHANGED <<seq, given>> /\ sPc = "pump" /\ sPc' = "unbind"
        BY <1>2, <1>4, <3>2 DEF SSendFails, SGone
      <4> QED
        BY <1>1, <2>1, <4>1 DEF PrevSeq
    <3> QED
      BY <3>1, <3>2
  <2>3. Pumping(c)'
    BY <1>1, <2>1, <2>2 DEF Pumping, PrevSeq, Bound, Refuses
  <2>4. StreamOK(c)'
    BY <1>1, <1>2 DEF ClientInv, StreamOK, StreamMsg, PrevSeq
  <2>5. ClientInv(c)'
    BY <1>1, <1>2, <2>1, <2>3, <2>4
    DEF ClientInv, QueuedOK, ProcessOK, GivenOK, PhaseOK, Greeting, Attaching, Binding, LogOK,
        ClOpen, Handshake, Streaming
  <2> QED
    BY <1>3, <2>5, GoesOnKeeps
<1>5. CASE ~ClOpen(c)
  <2>1. ClientInv(c)'
    BY <1>1, <1>2, <1>5, ForTheDeparted DEF Streaming, Handshake
  <2> QED
    BY <1>3, <2>1, GoesOnKeeps
<1> QED
  BY <1>4, <1>5

(* A message after what is on its way to a receiving client. *)
LEMMA StreamGrows ==
    ASSUME LInv, NEW c \in Clients, NEW m \in ToClientMsg, ~Queued(c), cur = c,
           cl[c].pc = "recv", cl'[c] = cl[c], toC'[c] = Append(toC[c], m),
           ~cl[c].acked => toC[c] # <<>>,
           \/ m.t = "REPORT_IN" /\ m.seq = Succ(PrevSeq(c, Len(toC[c]) + 1))
           \/ /\ m.t = "UNBIND" /\ cur' # c /\ ~Queued(c)'
              /\ given'[c] = PrevSeq(c, Len(toC[c]) + 1)
    PROVE  /\ StreamOK(c)' /\ toC'[c] # <<>>
           /\ m.t = "REPORT_IN" => PrevSeq(c, Len(toC[c]) + 1)' = m.seq
<1>0. toC[c] \in Seq(ToClientMsg)
  BY DEF LInv, TypesInv
<1>n. PICK n \in Nat : n = Len(toC[c])
  BY <1>0, LenProperties
<1>1. /\ toC'[c] \in Seq(ToClientMsg) /\ toC'[c] # <<>> /\ Len(toC'[c]) = n + 1
      /\ \A i \in 1 .. n : toC'[c][i] = toC[c][i]
      /\ toC'[c][n + 1] = m
  BY <1>0, <1>n, Appended
<1>2. ~cl[c].acked => n >= 1
  BY <1>0, <1>n, EmptySeq
<1>3. \A i \in 1 .. n + 1 : PrevSeq(c, i)' = PrevSeq(c, i)
  BY <1>1, <1>n DEF PrevSeq
<1>4. ASSUME NEW i \in 1 .. n PROVE StreamMsg(c, i)'
  <2>1. StreamMsg(c, i) /\ toC[c][i].t # "UNBIND"
    BY <1>n DEF LInv, ClientInv, StreamOK, StreamMsg
  <2>2. PrevSeq(c, i)' = PrevSeq(c, i) /\ toC'[c][i] = toC[c][i]
    BY <1>1, <1>3, <1>n
  <2> QED
    BY <2>1, <2>2 DEF StreamMsg
<1>5. StreamMsg(c, n + 1)'
  <2>1. PrevSeq(c, n + 1)' = PrevSeq(c, Len(toC[c]) + 1)
    BY <1>n, <1>3
  <2>2. ~(n + 1 = 1 /\ ~cl[c].acked)
    BY <1>n, <1>2
  <2> QED
    BY <1>1, <2>1, <2>2 DEF StreamMsg
<1>6. StreamOK(c)'
  <2>1. \A i \in 1 .. Len(toC'[c]) : i \in 1 .. n \/ i = n + 1
    BY <1>1, <1>n
  <2> QED
    BY <1>4, <1>5, <2>1 DEF StreamOK
<1> QED
  BY <1>1, <1>n, <1>6 DEF PrevSeq

LEMMA SendStep == LInv /\ TypesInv' /\ SSend => LInv'
<1> SUFFICES ASSUME LInv, TypesInv', SSend PROVE LInv'
  OBVIOUS
<1>2. PICK c \in Clients : cur = c
  BY Serving DEF SSend
<1> DEFINE m == [t |-> "REPORT_IN", seq |-> seq]
<1>1. ClientInv(c) /\ ~Queued(c) /\ sPc = "send" /\ sPc' = "pump" /\ ToClient(c, m)
      /\ UNCHANGED <<toS, args, backlog, cur, devices, hid, chosen, seq, given, cl>>
  BY <1>2, Serving DEF SSend, conf
<1>m. m \in ToClientMsg /\ m.t = "REPORT_IN" /\ m.seq = seq
  BY MessageTypes DEF LInv, TypesInv, TypeOK
<1> HIDE DEF m
<1>3. GoesOn(c) /\ ~Queued(c)'
  BY <1>1, <1>2 DEF GoesOn, ToClient, LInv, TypesInv, Queued
<1>4. CASE ClOpen(c)
  <2>1. /\ cl[c].pc = "recv" /\ Bound(c) /\ given[c] = seq
        /\ ~cl[c].acked => toC[c] # <<>>
        /\ seq = Succ(PrevSeq(c, Len(toC[c]) + 1))
    BY <1>1, <1>2, <1>4 DEF ClientInv, PhaseOK, Pumping, Streaming
  <2>2. toC'[c] = Append(toC[c], m)
    BY <1>1, <1>4 DEF ToClient, LInv, TypesInv
  <2>3. StreamOK(c)' /\ toC'[c] # <<>> /\ PrevSeq(c, Len(toC[c]) + 1)' = seq
    BY <1>1, <1>2, <1>m, <2>1, <2>2, StreamGrows
  <2>b. Bound(c)'
    <3>1. toC[c] \in Seq(ToClientMsg)
      BY DEF LInv, TypesInv
    <3>2. toC[c] # <<>> => toC'[c][1] = toC[c][1]
      BY <1>m, <2>2, <3>1, Appended, Popped
    <3>3. ~cl[c].acked => toC[c] # <<>>
      BY <2>1
    <3> QED
      BY <1>1, <2>1, <3>2, <3>3 DEF Bound, Refuses
  <2>4. Pumping(c)'
    BY <1>1, <2>1, <2>3, <2>b DEF Pumping
  <2>5. ClientInv(c)'
    BY <1>1, <1>2, <1>3, <2>1, <2>3, <2>4
    DEF ClientInv, QueuedOK, ProcessOK, GivenOK, PhaseOK, Greeting, Attaching, Binding, LogOK,
        ClOpen, Handshake
  <2> QED
    BY <1>3, <2>5, GoesOnKeeps
<1>5. CASE ~ClOpen(c)
  <2>1. ClientInv(c)'
    BY <1>1, <1>2, <1>5, ForTheDeparted DEF ToClient, Handshake
  <2> QED
    BY <1>3, <2>1, GoesOnKeeps
<1> QED
  BY <1>4, <1>5

LEMMA UnbindStep == LInv /\ TypesInv' /\ SUnbind => LInv'
<1> SUFFICES ASSUME LInv, TypesInv', SUnbind PROVE LInv'
  OBVIOUS
<1>2. PICK c \in Clients : cur = c
  BY Serving DEF SUnbind
<1>1. ClientInv(c) /\ ~Queued(c) /\ sPc = "unbind" /\ SLeave /\ ToClient(c, Msg("UNBIND"))
      /\ UNCHANGED <<toS, args, given, cl>> /\ cur' = None /\ c # None
      /\ (backlog' = backlog \/ backlog' = <<>>)
  BY <1>2, Serving, SenderAssumption DEF SUnbind, SLeave, conf
<1>3. CASE ~ClOpen(c)
  <2>1. toC' = toC
    BY <1>1, <1>3 DEF ToClient
  <2> QED
    BY <1>1, <2>1, LeaveKeeps
<1>4. CASE ClOpen(c)
  <2>1. /\ cl[c].pc = "recv" /\ given[c] = seq /\ (~cl[c].acked => toC[c] # <<>>)
        /\ seq = PrevSeq(c, Len(toC[c]) + 1)
    BY <1>1, <1>2, <1>4 DEF ClientInv, PhaseOK, Pumping, Streaming
  <2>2. /\ toC'[c] = Append(toC[c], Msg("UNBIND"))
        /\ \A d \in Clients \ {c} : toC'[d] = toC[d]
    BY <1>1, <1>4 DEF ToClient, LInv, TypesInv
  <2>3. LineInv' /\ \A d : Queued(d)' => Queued(d)
    BY <1>1 DEF LInv, LineInv, Queued
  <2>4. StreamOK(c)'
    <3>1. Msg("UNBIND") \in ToClientMsg /\ Msg("UNBIND").t = "UNBIND"
      BY MessageTypes
    <3>2. cur' # c /\ ~Queued(c)' /\ given'[c] = PrevSeq(c, Len(toC[c]) + 1) /\ cl'[c] = cl[c]
      BY <1>1, <2>1, <2>3
    <3> QED
      BY <1>1, <1>2, <2>1, <2>2, <3>1, <3>2, StreamGrows
  <2>5. ClientInv(c)'
    BY <1>1, <2>1, <2>3, <2>4
    DEF ClientInv, QueuedOK, ProcessOK, GivenOK, PhaseOK, LogOK, ClOpen
  <2>6. \A d \in Clients : cur' # d
    BY <1>1, SenderAssumption
  <2> QED
    BY <1>1, <2>2, <2>3, <2>5, <2>6, OthersKept
<1> QED
  BY <1>3, <1>4

LEMMA SenderStep == LInv /\ TypesInv' /\ (SenderThread \/ SReport \/ SAcceptFails) => LInv'
<1>1. LInv /\ TypesInv' /\ SGone /\ SLeave => LInv'
  BY LeaveKeeps DEF SGone
<1> QED
  BY <1>1, AcceptStep, HelloStep, EnumerateStep, ListStep, AttachStep, BindStep, EndSteps,
     OpenStep, PumpSteps, SendStep, UnbindStep DEF SenderThread

-----------------------------------------------------------------------------
(* The clients' steps. *)

(* What a step of client c leaves alone. *)
OwnStep(c) ==
    /\ UNCHANGED <<args, backlog, sPc, cur, devices, hid, chosen, seq, given>>
    /\ \A d \in Clients \ {c} : toC'[d] = toC[d] /\ toS'[d] = toS[d] /\ cl'[d] = cl[d]

LEMMA OwnStepKeeps ==
    ASSUME LInv, TypesInv', NEW c \in Clients, OwnStep(c), ClientInv(c)'
    PROVE  LInv'
<1>1. LineInv' /\ \A d : Queued(d)' <=> Queued(d)
  BY DEF LInv, OwnStep, LineInv, Queued
<1> QED
  BY <1>1, OthersKept DEF OwnStep

(* Every step of a client but CDial is its own. *)
LEMMA OwnSteps ==
    ASSUME LInv, NEW c \in Clients, CStep(c) \/ CKilled(c) \/ CStalls(c)
    PROVE  OwnStep(c) /\ (Queued(c)' <=> Queued(c))
<1>1. /\ toC \in [Clients -> Seq(ToClientMsg)] /\ toS \in [Clients -> Seq(ToSenderMsg)]
      /\ cl \in [Clients -> Process]
  BY DEF LInv, TypesInv
<1>2. UNCHANGED <<args, backlog, sPc, cur, devices, hid, chosen, seq, given>>
  BY DEF CStep, CHelloAck, CDeviceList, CAttachOk, CBindAck, CReport, CUnbind, CEof, CTimeout,
         CKilled, CStalls, sVars, conf
<1>3. \A d \in Clients \ {c} : toS'[d] = toS[d]
  BY <1>1 DEF CStep, CHelloAck, CDeviceList, CAttachOk, CBindAck, CReport, CUnbind, CEof,
              CTimeout, CKilled, CStalls, ToSender
<1>4. \A d \in Clients \ {c} : toC'[d] = toC[d]
  BY <1>1 DEF CStep, CHelloAck, CDeviceList, CAttachOk, CBindAck, CReport, CUnbind, CEof,
              CTimeout, CKilled, CStalls, CConsumes, CExits
<1>5. \A d \in Clients \ {c} : cl'[d] = cl[d]
  BY <1>1 DEF CStep, CHelloAck, CDeviceList, CAttachOk, CBindAck, CReport, CUnbind, CEof,
              CTimeout, CKilled, CStalls, CGoto, CExits
<1> QED
  BY <1>2, <1>3, <1>4, <1>5 DEF OwnStep, Queued

(* A process that ends keeps the invariant, wherever its session stands. *)
LEMMA ExitKeeps ==
    ASSUME LInv, TypesInv', NEW c \in Clients, ClOpen(c), OwnStep(c), CExits(c), toS' = toS
    PROVE  LInv'
<1>1. /\ ClientInv(c) /\ cl[c] \in Process /\ (Queued(c)' <=> Queued(c))
  BY DEF LInv, TypesInv, OwnStep, Queued
<1>2. /\ cl'[c].pc = "done" /\ cl'[c].picked = None
      /\ cl'[c].acked = cl[c].acked /\ cl'[c].last = cl[c].last
      /\ cl'[c].gap = cl[c].gap /\ cl'[c].unbound = cl[c].unbound
  BY DEF CExits, LInv, TypesInv, Process
<1>3. toC'[c] = <<>> /\ cl[c].pc \notin {"idle", "done"}
  BY DEF CExits, ClOpen, LInv, TypesInv
<1>4. ClientInv(c)'
  BY <1>1, <1>2, <1>3
  DEF ClientInv, QueuedOK, ProcessOK, GivenOK, StreamOK, PhaseOK, LogOK, ClOpen, OwnStep
<1> QED
  BY <1>4, OwnStepKeeps

(* A client that has something to read is no longer in line. *)
LEMMA Reading ==
    ASSUME LInv, NEW c \in Clients, toC[c] # <<>>
    PROVE  /\ ClientInv(c) /\ ~Queued(c) /\ ClOpen(c) /\ cl[c] \in Process
           /\ Head(toC[c]) = toC[c][1] /\ Head(toC[c]) \in ToClientMsg
           /\ Len(toC[c]) \in Nat \ {0}
           /\ CConsumes(c) => toC'[c] = Tail(toC[c])
           /\ CConsumes(c) /\ Len(toC[c]) <= 1 => toC'[c] = <<>> /\ Len(toC'[c]) = 0
<1>1. toC \in [Clients -> Seq(ToClientMsg)] /\ cl[c] \in Process /\ ClientInv(c)
  BY DEF LInv, TypesInv
<1>2. CConsumes(c) => toC'[c] = Tail(toC[c])
  BY <1>1 DEF CConsumes
<1>3. Len(<<>>) = 0
  OBVIOUS
<1>4. Len(toC[c]) <= 1 => Tail(toC[c]) = <<>>
  BY <1>1, Popped
<1>5. Head(toC[c]) = toC[c][1] /\ Head(toC[c]) \in ToClientMsg /\ Len(toC[c]) \in Nat \ {0}
  BY <1>1, Popped
<1>6. ~Queued(c) /\ ClOpen(c)
  BY <1>1 DEF ClientInv, QueuedOK, ProcessOK
<1> QED
  BY <1>1, <1>2, <1>3, <1>4, <1>5, <1>6

(* What a client writes to a sender that has read everything. *)
LEMMA Asks ==
    ASSUME LInv, NEW c \in Clients, cur = c, NEW m \in ToSenderMsg,
           toS[c] = <<>>, ToSender(c, m)
    PROVE  Len(toS'[c]) = 1 /\ toS'[c][1] = m
<1>1. toS'[c] = Append(toS[c], m) /\ toS[c] \in Seq(ToSenderMsg)
  BY DEF ToSender, SndOpen, LInv, TypesInv
<1>2. Len(toS[c]) = 0
  OBVIOUS
<1> QED
  BY <1>1, <1>2, Appended

LEMMA DialStep == ASSUME LInv, TypesInv', NEW c \in Clients, CDial(c) PROVE LInv'
<1>1. /\ ClientInv(c) /\ cl[c].pc = "idle" /\ c # cur /\ ~Queued(c) /\ toC[c] = <<>>
      /\ ~cl[c].acked /\ given[c] = 0 /\ cl[c] \in Process
      /\ UNCHANGED <<toC, args, sPc, cur, devices, hid, chosen, seq, given>>
  BY DEF LInv, TypesInv, ClientInv, ProcessOK, GivenOK, ClOpen, CDial, conf
<1>2. /\ cl'[c].picked = cl[c].picked /\ cl'[c].acked = cl[c].acked /\ cl'[c].last = cl[c].last
      /\ cl'[c].gap = cl[c].gap /\ cl'[c].unbound = cl[c].unbound
      /\ cl'[c].pc = IF sPc = "exit" THEN "done" ELSE "hello"
      /\ \A d \in Clients \ {c} : cl'[d] = cl[d]
  <2>1. CGoto(c, IF sPc = "exit" THEN "done" ELSE "hello")
    BY DEF CDial
  <2> QED
    BY <1>1, <2>1 DEF CGoto, LInv, TypesInv, Process
<1>3. CASE sPc = "exit"
  <2>1. OwnStep(c) /\ ~Queued(c)'
    BY <1>1, <1>2, <1>3 DEF CDial, OwnStep, Queued
  <2>2. ClientInv(c)'
    BY <1>1, <1>2, <1>3, <2>1
    DEF ClientInv, QueuedOK, ProcessOK, GivenOK, StreamOK, PhaseOK, LogOK, ClOpen
  <2> QED
    BY <2>1, <2>2, OwnStepKeeps
<1>4. CASE sPc # "exit"
  <2>1. /\ backlog' = Append(backlog, c) /\ backlog \in Seq(Clients)
        /\ toS'[c] = <<Msg("HELLO")>> /\ \A d \in Clients \ {c} : toS'[d] = toS[d]
    BY <1>4 DEF CDial, LInv, TypesInv
  <2>n. PICK n \in Nat : n = Len(backlog)
    BY <2>1, LenProperties
  <2>2. /\ Len(backlog') = n + 1 /\ backlog'[n + 1] = c
        /\ \A i \in 1 .. n : backlog'[i] = backlog[i]
    BY <2>1, <2>n, Appended
  <2>3. DOMAIN backlog = 1 .. n /\ DOMAIN backlog' = 1 .. n + 1
    BY <2>1, <2>2, <2>n, Appended DEF TypesInv
  <2>4. \A i \in 1 .. n : backlog[i] # c
    BY <1>1, <2>3 DEF Queued
  <2>5. LineInv'
    <3> SUFFICES ASSUME NEW i \in 1 .. n + 1, NEW j \in 1 .. n + 1, backlog'[i] = backlog'[j]
                 PROVE  i = j
      BY <2>2 DEF LineInv
    <3>1. CASE i = n + 1 \/ j = n + 1
      BY <2>2, <2>4, <3>1
    <3>2. CASE i # n + 1 /\ j # n + 1
      <4>1. i \in 1 .. n /\ j \in 1 .. n /\ backlog[i] = backlog[j]
        BY <2>2, <3>2
      <4> QED
        BY <4>1, <2>n DEF LInv, LineInv
    <3> QED
      BY <3>1, <3>2
  <2>6. \A d \in Clients \ {c} : Queued(d)' => Queued(d)
    <3> SUFFICES ASSUME NEW d \in Clients \ {c}, Queued(d)' PROVE Queued(d)
      OBVIOUS
    <3>1. PICK i \in 1 .. n + 1 : backlog'[i] = d
      BY <2>3 DEF Queued
    <3>2. i \in 1 .. n
      BY <2>2, <3>1
    <3> QED
      BY <2>2, <2>3, <3>1, <3>2 DEF Queued
  <2>7. Only(toS'[c], "HELLO")
    BY <2>1 DEF Only, Msg
  <2>8. Len(toC[c]) <= 1
    BY <1>1 DEF ClientInv, ProcessOK
  <2>9. ClientInv(c)'
    BY <1>1, <1>2, <1>4, <2>7, <2>8
    DEF ClientInv, QueuedOK, ProcessOK, GivenOK, StreamOK, PhaseOK, LogOK, ClOpen
  <2> QED
    BY <1>1, <1>2, <2>1, <2>5, <2>6, <2>9, OthersKept
<1> QED
  BY <1>3, <1>4

LEMMA HelloAckStep ==
    ASSUME LInv, TypesInv', NEW c \in Clients, CHelloAck(c), OwnStep(c) PROVE LInv'
<1>1. /\ cl[c].pc = "hello" /\ toC[c] # <<>> /\ toC[c][1].t = "HELLO_ACK"
      /\ ClientInv(c) /\ ~Queued(c) /\ ~Queued(c)' /\ ClOpen(c) /\ Len(toC[c]) <= 1
  BY Reading DEF CHelloAck, CReads, ClientInv, ProcessOK, OwnStep, Queued
<1>2. CASE args[c].role = "connect"
  BY <1>1, <1>2, ExitKeeps DEF CHelloAck
<1>3. CASE args[c].role # "connect"
  <2>1. /\ toC'[c] = <<>> /\ Len(toC'[c]) = 0 /\ ToSender(c, Msg("LIST"))
        /\ cl' = [cl EXCEPT ![c].pc = "list"]
    BY <1>1, <1>3, Reading DEF CHelloAck, CGoto
  <2>2. /\ cl'[c].pc = "list" /\ cl'[c].picked = cl[c].picked /\ cl'[c].acked = cl[c].acked
        /\ cl'[c].last = cl[c].last /\ cl'[c].gap = cl[c].gap /\ cl'[c].unbound = cl[c].unbound
    BY <2>1, Reading, <1>1 DEF LInv, TypesInv, Process
  <2>3. cur = c => Only(toS'[c], "LIST") /\ sPc \in {"enumerate", "list"}
    <3> HAVE cur = c
    <3>1. sPc \in {"enumerate", "list"} /\ toS[c] = <<>>
      BY <1>1, SenderAssumption
      DEF ClientInv, PhaseOK, Greeting, Attaching, Binding, Pumping, LInv, TypesInv, TypeOK,
          Handshake, Streaming, Only
    <3> QED
      BY <2>1, <3>1, Asks, MessageTypes DEF Only
  <2>4. ClientInv(c)'
    BY <1>1, <2>1, <2>2, <2>3
    DEF ClientInv, QueuedOK, ProcessOK, GivenOK, StreamOK, PhaseOK, Greeting, Attaching, Binding,
        Pumping, Streaming, LogOK, ClOpen, OwnStep
  <2> QED
    BY <2>4, OwnStepKeeps
<1> QED
  BY <1>2, <1>3

LEMMA DeviceListStep ==
    ASSUME LInv, TypesInv', NEW c \in Clients, CDeviceList(c), OwnStep(c) PROVE LInv'
<1> DEFINE ns == Pick(c, toC[c][1])
<1>1. /\ cl[c].pc = "list" /\ toC[c] # <<>> /\ toC[c][1].t = "DEVICES"
      /\ ClientInv(c) /\ ~Queued(c) /\ ~Queued(c)' /\ ClOpen(c) /\ Len(toC[c]) <= 1
      /\ Head(toC[c]) = toC[c][1] /\ toC[c][1] \in ToClientMsg
  BY Reading DEF CDeviceList, CReads, ClientInv, ProcessOK, OwnStep, Queued
<1>2. CASE args[c].role = "list" \/ ns = {}
  BY <1>1, <1>2, ExitKeeps DEF CDeviceList
<1>3. CASE ~(args[c].role = "list" \/ ns = {})
  <2> DEFINE m == [t |-> "ATTACH", busid |-> BusOf[FirstOf(ns)]]
  <2>1. /\ toC'[c] = <<>> /\ Len(toC'[c]) = 0 /\ ToSender(c, m) /\ ns # {}
        /\ cl' = [cl EXCEPT ![c].pc = "attach", ![c].picked = FirstOf(ns)]
    BY <1>1, <1>3, Reading DEF CDeviceList
  <2>2. ns \in SUBSET Nodes
    BY <1>1, MessageFields DEF Pick
  <2>3. PICK p \in Nodes : p = FirstOf(ns)
    <3> HIDE DEF ns
    <3> QED
      BY <2>1, <2>2, FirstIsLeast
  <2>m. m \in ToSenderMsg /\ m.t = "ATTACH" /\ m.busid = BusOf[p]
    BY <2>3, MessageTypes, SenderAssumption
  <2>4. /\ cl'[c].pc = "attach" /\ cl'[c].picked = p /\ cl'[c].acked = cl[c].acked
        /\ cl'[c].last = cl[c].last /\ cl'[c].gap = cl[c].gap /\ cl'[c].unbound = cl[c].unbound
    BY <2>1, <2>3 DEF LInv, TypesInv, Process
  <2>5. cur = c => /\ Only(toS'[c], "ATTACH") /\ toS'[c][1].busid = BusOf[p]
                   /\ sPc = "attach" /\ ns = Pick(c, Listed)
    <3> HAVE cur = c
    <3>1. sPc = "attach" /\ toS[c] = <<>> /\ toC[c][1] = Listed
      BY <1>1, SenderAssumption
      DEF ClientInv, PhaseOK, Greeting, Attaching, Binding, Pumping, LInv, TypesInv, TypeOK,
          Handshake, Streaming, Only
    <3> HIDE DEF m
    <3>2. Len(toS'[c]) = 1 /\ toS'[c][1] = m
      BY <2>1, <2>m, <3>1, Asks
    <3> QED
      BY <2>m, <3>1, <3>2 DEF Only
  <2>6. cur = c => Attaching(c)'
    <3> HAVE cur = c
    <3>1. Pick(c, Listed)' = Pick(c, Listed)
      BY DEF Pick, Listed, OwnStep
    <3> HIDE DEF ns
    <3> QED
      BY <2>1, <2>3, <2>4, <2>5, <3>1 DEF Attaching
  <2> HIDE DEF ns, m
  <2>7. ClientInv(c)'
    BY <1>1, <2>1, <2>4, <2>5, <2>6
    DEF ClientInv, QueuedOK, ProcessOK, GivenOK, StreamOK, PhaseOK, Greeting, Binding,
        Pumping, Streaming, LogOK, ClOpen, OwnStep
  <2> QED
    BY <2>7, OwnStepKeeps
<1> QED
  BY <1>2, <1>3

LEMMA AttachOkStep ==
    ASSUME LInv, TypesInv', NEW c \in Clients, CAttachOk(c), OwnStep(c) PROVE LInv'
<1>1. /\ cl[c].pc = "attach" /\ toC[c] # <<>> /\ toC[c][1].t = "ATTACH_OK"
      /\ ClientInv(c) /\ ~Queued(c) /\ ~Queued(c)' /\ ClOpen(c) /\ Len(toC[c]) <= 1
  BY Reading DEF CAttachOk, CReads, ClientInv, ProcessOK, OwnStep, Queued
<1>2. toC'[c] = <<>> /\ Len(toC'[c]) = 0 /\ cl' = [cl EXCEPT ![c].pc = "recv"]
  BY <1>1, Reading DEF CAttachOk, CGoto
<1>3. /\ cl'[c].pc = "recv" /\ cl'[c].picked = cl[c].picked /\ cl'[c].acked = cl[c].acked
      /\ cl'[c].last = cl[c].last /\ cl'[c].gap = cl[c].gap /\ cl'[c].unbound = cl[c].unbound
  BY <1>2 DEF LInv, TypesInv, Process
<1>4. cur = c => sPc = "bind" /\ Bound(c) /\ ~cl[c].acked
  BY <1>1, SenderAssumption
  DEF ClientInv, PhaseOK, Greeting, Attaching, Binding, Pumping, LInv, TypesInv, TypeOK,
      Handshake, Streaming, Only
<1>6. Bound(c) => Bound(c)'
  BY <1>1, <1>2, <1>3 DEF Bound, Refuses, OwnStep
<1>5. ClientInv(c)'
  BY <1>1, <1>2, <1>3, <1>4, <1>6
  DEF ClientInv, QueuedOK, ProcessOK, GivenOK, StreamOK, PhaseOK, Greeting, Attaching, Binding,
      Pumping, Streaming, LogOK, ClOpen, OwnStep
<1> QED
  BY <1>5, OwnStepKeeps

(* A receiving client takes the first message of its stream. *)
LEMMA StreamShrinks ==
    ASSUME LInv, NEW c \in Clients, OwnStep(c), cl[c].pc = "recv", toC[c] # <<>>,
           toC[c][1].t # "UNBIND", toC'[c] = Tail(toC[c]), cl'[c].pc = "recv",
           cl'[c].acked, cl'[c].last = PrevSeq(c, 2)
    PROVE  /\ StreamOK(c)'
           /\ cur = c => PrevSeq(c, Len(toC[c]) + 1)' = PrevSeq(c, Len(toC[c]) + 1)
<1>1. toC[c] \in Seq(ToClientMsg) /\ ClientInv(c)
  BY DEF LInv, TypesInv
<1>n. PICK n \in Nat \ {0} : n = Len(toC[c])
  BY <1>1, Popped
<1>2. Len(toC'[c]) = n - 1 /\ \A i \in 1 .. n - 1 : toC'[c][i] = toC[c][i + 1]
  BY <1>1, <1>n, Popped
<1>3. \A i \in 1 .. n : StreamMsg(c, i)
  BY <1>1, <1>n DEF ClientInv, StreamOK
<1>4. ASSUME NEW i \in 2 .. n, i # n \/ cur = c PROVE toC[c][i].t = "REPORT_IN"
  <2>1. StreamMsg(c, i) /\ i # 1
    BY <1>3
  <2> QED
    BY <1>4, <1>n, <2>1 DEF StreamMsg
<1>5. ASSUME NEW i \in 1 .. n, i # n \/ cur = c \/ i = 1
      PROVE  PrevSeq(c, i)' = PrevSeq(c, i + 1)
  <2>1. CASE i = 1
    BY <2>1 DEF PrevSeq
  <2>2. CASE i # 1
    <3>1. i \in 2 .. n /\ i - 1 \in 1 .. n - 1 /\ toC'[c][i - 1] = toC[c][i]
      BY <1>2, <2>2
    <3>2. toC[c][i].t = "REPORT_IN" /\ (i + 1) - 1 = i
      BY <1>4, <1>5, <2>2, <3>1
    <3> QED
      BY <1>n, <2>2, <3>1, <3>2 DEF PrevSeq
  <2> QED
    BY <2>1, <2>2
<1>6. StreamOK(c)'
  <2> SUFFICES ASSUME NEW i \in 1 .. n - 1 PROVE StreamMsg(c, i)'
    BY <1>2 DEF StreamOK
  <2>1. StreamMsg(c, i + 1) /\ i + 1 # 1 /\ i \in 1 .. n /\ i # n
    BY <1>3
  <2>2. PrevSeq(c, i)' = PrevSeq(c, i + 1) /\ toC'[c][i] = toC[c][i + 1]
    BY <1>2, <1>5, <2>1
  <2>3. Queued(c)' <=> Queued(c)
    BY DEF OwnStep, Queued
  <2> QED
    BY <1>2, <1>n, <2>1, <2>2, <2>3 DEF StreamMsg, OwnStep
<1>7. cur = c => PrevSeq(c, Len(toC[c]) + 1)' = PrevSeq(c, Len(toC[c]) + 1)
  <2>1. PrevSeq(c, Len(toC[c]) + 1)' = PrevSeq(c, n)'
    BY <1>2 DEF PrevSeq
  <2> QED
    BY <1>5, <1>n, <2>1
<1> QED
  BY <1>6, <1>7

LEMMA BindAckStep ==
    ASSUME LInv, TypesInv', NEW c \in Clients, CBindAck(c), OwnStep(c) PROVE LInv'
<1>1. /\ cl[c].pc = "recv" /\ toC[c] # <<>> /\ toC[c][1].t = "BIND_ACK" /\ toS' = toS
      /\ ClientInv(c) /\ ~Queued(c) /\ ~Queued(c)' /\ ClOpen(c) /\ Len(toC[c]) \in Nat \ {0}
  BY Reading DEF CBindAck, CReads, OwnStep, Queued
<1>2. CASE CExits(c)
  BY <1>1, <1>2, ExitKeeps
<1>3. CASE ~CExits(c)
  <2>1. /\ toC'[c] = Tail(toC[c]) /\ cl' = [cl EXCEPT ![c].acked = TRUE]
        /\ args[c].role = "receive" => toC[c][1].kind # "other"
    BY <1>1, <1>3, Reading DEF CBindAck
  <2>2. /\ cl'[c].pc = "recv" /\ cl'[c].picked = cl[c].picked /\ cl'[c].acked
        /\ cl'[c].last = cl[c].last /\ cl'[c].gap = cl[c].gap /\ cl'[c].unbound = cl[c].unbound
    BY <1>1, <2>1 DEF LInv, TypesInv, Process
  <2>3. ~cl[c].acked /\ cl[c].last = 0
    <3>1. StreamMsg(c, 1)
      BY <1>1 DEF ClientInv, StreamOK
    <3> QED
      BY <1>1, <3>1 DEF StreamMsg, ClientInv, ProcessOK
  <2>4. PrevSeq(c, 2) = cl[c].last
    BY <1>1 DEF PrevSeq
  <2>5. /\ StreamOK(c)'
        /\ cur = c => PrevSeq(c, Len(toC[c]) + 1)' = PrevSeq(c, Len(toC[c]) + 1)
    BY <1>1, <2>1, <2>2, <2>4, StreamShrinks
  <2>6. Len(toC[c]) = 1 => toC'[c] = <<>>
    BY <1>1, <2>1, Popped DEF LInv, TypesInv
  <2>b. Bound(c) => Bound(c)'
    BY <1>1, <2>1, <2>2 DEF Bound, Refuses, OwnStep
  <2>7. cur = c => sPc \in Streaming \cup {"open"} /\ Pumping(c)' /\ Binding(c)'
    <3> HAVE cur = c
    <3>1. PhaseOK(c) /\ ClOpen(c)
      BY <1>1 DEF ClientInv
    <3>2. sPc \in Streaming \cup {"open"}
      BY <1>1, <3>1, SenderAssumption
      DEF PhaseOK, Greeting, Attaching, Binding, Pumping, LInv, TypesInv, TypeOK, Handshake,
          Streaming, Only
    <3>3. Pumping(c)'
      BY <1>1, <2>2, <2>5, <2>b, <3>1 DEF PhaseOK, Pumping, OwnStep
    <3>4. Binding(c)'
      BY <1>1, <2>2, <2>3, <2>6, <2>b, <3>1, <3>2
      DEF PhaseOK, Binding, OwnStep, Only, Streaming
    <3> QED
      BY <3>2, <3>3, <3>4
  <2>8. ClientInv(c)'
    BY <1>1, <2>2, <2>3, <2>5, <2>7
    DEF ClientInv, QueuedOK, ProcessOK, GivenOK, PhaseOK, Greeting, Attaching, Streaming, LogOK,
        ClOpen, OwnStep
  <2> QED
    BY <2>8, OwnStepKeeps
<1> QED
  BY <1>2, <1>3

LEMMA ReportStep ==
    ASSUME LInv, TypesInv', NEW c \in Clients, CReport(c), OwnStep(c) PROVE LInv'
<1>1. /\ cl[c].pc = "recv" /\ toC[c] # <<>> /\ toC[c][1].t = "REPORT_IN" /\ toS' = toS
      /\ ClientInv(c) /\ ~Queued(c) /\ ~Queued(c)' /\ ClOpen(c) /\ Len(toC[c]) \in Nat \ {0}
      /\ Head(toC[c]) = toC[c][1]
  BY Reading DEF CReport, CReads, OwnStep, Queued
<1>2. CASE CExits(c)
  BY <1>1, <1>2, ExitKeeps
<1>3. CASE ~CExits(c)
  <2> DEFINE s == toC[c][1].seq
  <2>1. /\ toC'[c] = Tail(toC[c])
        /\ cl' = [cl EXCEPT ![c].last = s, ![c].gap = @ \/ s # (cl[c].last + 1) % SeqMod]
    BY <1>1, <1>3, Reading DEF CReport
  <2>2. /\ cl'[c].pc = "recv" /\ cl'[c].picked = cl[c].picked /\ cl'[c].acked = cl[c].acked
        /\ cl'[c].last = s /\ cl'[c].unbound = cl[c].unbound
        /\ cl'[c].gap = (cl[c].gap \/ s # (cl[c].last + 1) % SeqMod)
    BY <1>1, <2>1 DEF LInv, TypesInv, Process
  <2>3. cl[c].acked /\ s = Succ(cl[c].last)
    <3>1. StreamMsg(c, 1)
      BY <1>1 DEF ClientInv, StreamOK
    <3> QED
      BY <1>1, <3>1 DEF StreamMsg, PrevSeq
  <2>4. PrevSeq(c, 2) = s
    BY <1>1 DEF PrevSeq
  <2>5. /\ StreamOK(c)'
        /\ cur = c => PrevSeq(c, Len(toC[c]) + 1)' = PrevSeq(c, Len(toC[c]) + 1)
    BY <1>1, <2>1, <2>2, <2>3, <2>4, StreamShrinks
  <2>6. ~cl'[c].gap
    BY <1>1, <2>2, <2>3 DEF ClientInv, LogOK, Succ
  <2>b. Bound(c) => Bound(c)'
    BY <2>2, <2>3 DEF Bound, Refuses, OwnStep
  <2>7. cur = c => sPc \in Streaming /\ Pumping(c)'
    <3> HAVE cur = c
    <3>1. PhaseOK(c) /\ ClOpen(c)
      BY <1>1 DEF ClientInv
    <3>2. sPc \in Streaming
      BY <1>1, <3>1, SenderAssumption
      DEF PhaseOK, Greeting, Attaching, Binding, Pumping, LInv, TypesInv, TypeOK, Handshake,
          Streaming, Only
    <3>3. Pumping(c)'
      BY <1>1, <2>2, <2>3, <2>5, <2>b, <3>1 DEF PhaseOK, Pumping, OwnStep
    <3> QED
      BY <3>2, <3>3
  <2>8. ClientInv(c)'
    BY <1>1, <2>2, <2>3, <2>5, <2>6, <2>7
    DEF ClientInv, QueuedOK, ProcessOK, GivenOK, PhaseOK, Greeting, Attaching, Binding,
        Streaming, LogOK, ClOpen, OwnStep
  <2> QED
    BY <2>8, OwnStepKeeps
<1> QED
  BY <1>2, <1>3

LEMMA UnboundStep ==
    ASSUME LInv, TypesInv', NEW c \in Clients, CUnbind(c), OwnStep(c) PROVE LInv'
<1>1. /\ cl[c].pc = "recv" /\ toC[c] # <<>> /\ toC[c][1].t = "UNBIND"
      /\ ClientInv(c) /\ ~Queued(c)' /\ Len(toC[c]) \in Nat \ {0}
  BY Reading DEF CUnbind, CReads, OwnStep, Queued
<1>2. cl[c].acked /\ c # cur /\ given[c] = cl[c].last
  <2>1. StreamMsg(c, 1)
    BY <1>1 DEF ClientInv, StreamOK
  <2> QED
    BY <1>1, <2>1 DEF StreamMsg, PrevSeq
<1>3. /\ cl'[c].pc = "done" /\ cl'[c].picked = None /\ cl'[c].acked = cl[c].acked
      /\ cl'[c].last = cl[c].last /\ cl'[c].gap = cl[c].gap /\ toC'[c] = <<>>
  BY DEF CUnbind, LInv, TypesInv, Process
<1>4. ClientInv(c)'
  BY <1>1, <1>2, <1>3
  DEF ClientInv, QueuedOK, ProcessOK, GivenOK, StreamOK, PhaseOK, LogOK, ClOpen, OwnStep
<1> QED
  BY <1>4, OwnStepKeeps

LEMMA StallStep ==
    ASSUME LInv, TypesInv', NEW c \in Clients, CStalls(c), OwnStep(c) PROVE LInv'
<1>1. /\ ClientInv(c) /\ (Queued(c)' <=> Queued(c)) /\ toC'[c] = toC[c] /\ toS'[c] = toS[c]
      /\ cl'[c].pc = cl[c].pc /\ cl'[c].picked = cl[c].picked /\ cl'[c].acked = cl[c].acked
      /\ cl'[c].last = cl[c].last /\ cl'[c].gap = cl[c].gap /\ cl'[c].unbound = cl[c].unbound
  BY DEF CStalls, LInv, TypesInv, Process, OwnStep, Queued
<1>2. \A i : PrevSeq(c, i)' = PrevSeq(c, i)
  BY <1>1 DEF PrevSeq
<1>3. StreamOK(c)'
  BY <1>1, <1>2 DEF ClientInv, StreamOK, StreamMsg, OwnStep
<1>4. PhaseOK(c)'
  BY <1>1, <1>2 DEF ClientInv, PhaseOK, ClOpen, Greeting, Attaching, Binding, Pumping, Pick,
                    Listed, Bound, Refuses, OwnStep
<1>5. ClientInv(c)'
  BY <1>1, <1>3, <1>4 DEF ClientInv, QueuedOK, ProcessOK, GivenOK, LogOK, ClOpen, OwnStep
<1> QED
  BY <1>5, OwnStepKeeps

LEMMA ClientStep ==
    ASSUME LInv, TypesInv', NEW c \in Clients, CStep(c) \/ CDial(c) \/ CKilled(c) \/ CStalls(c)
    PROVE  LInv'
<1>1. CASE CDial(c)
  BY <1>1, DialStep
<1>2. CASE CStep(c) \/ CKilled(c) \/ CStalls(c)
  <2>1. OwnStep(c)
    BY <1>2, OwnSteps
  <2>2. CASE CEof(c) \/ CTimeout(c) \/ CKilled(c)
    BY <2>1, <2>2, ExitKeeps DEF CEof, CTimeout, CKilled
  <2> QED
    BY <1>2, <2>1, <2>2, HelloAckStep, DeviceListStep, AttachOkStep, BindAckStep, ReportStep,
       UnboundStep, StallStep DEF CStep
<1> QED
  BY <1>1, <1>2

-----------------------------------------------------------------------------
(* The theorems. *)

LEMMA Inductive == LInv /\ [Next]_vars => LInv'
<1> SUFFICES ASSUME LInv, [Next]_vars PROVE LInv'
  OBVIOUS
<1>0. TypesInv'
  BY TypesStep DEF LInv
<1>1. CASE \E c \in Clients : CStep(c) \/ CDial(c) \/ CKilled(c) \/ CStalls(c)
  BY <1>0, <1>1, ClientStep
<1>2. CASE SenderThread \/ SReport \/ SAcceptFails
  BY <1>0, <1>2, SenderStep
<1>3. CASE UNCHANGED vars \/ \E n \in Nodes : Unplug(n)
  <2>1. UNCHANGED <<toS, toC, cl, args, backlog, sPc, cur, devices, hid, chosen, seq, given>>
    BY <1>3 DEF vars, Unplug, sVars, conf
  <2>2. LineInv' /\ \A d : Queued(d)' <=> Queued(d)
    BY <2>1 DEF LInv, LineInv, Queued
  <2>3. \A d \in Clients : ClientInv(d)'
    BY <2>1, <2>2, ClientKept
  <2> QED
    BY <1>0, <2>2, <2>3 DEF LInv
<1> QED
  BY <1>1, <1>2, <1>3 DEF Next, Environment

(* LInv holds in every reachable state: types, the line of waiting          *)
(* connections, and for each client what its process, its queues and        *)
(* serve_session's thread may be doing together.                            *)
THEOREM Invariance == Spec => []LInv
BY InitInv, Inductive, PTL DEF Spec

(* The hidraw node that serve_session binds and pumps is the entry of the   *)
(* device list that pick_hid_device of the client chose, although only a    *)
(* busid travels and nodes may share one, and whatever is unplugged; or it  *)
(* is an earlier interface of the same device, listed with is_hid false,    *)
(* and run_receive makes no virtual device of it.                           *)
THEOREM BoundIsPicked == Spec => []BoundAsPicked
<1>1. LInv => BoundAsPicked
  <2> SUFFICES ASSUME LInv, sPc \in Streaming \cup {"bind", "open"}, ClOpen(cur)
               PROVE  BoundAsPicked
    BY DEF BoundAsPicked
  <2>1. ClientInv(cur) /\ cur \in Clients
    BY Serving DEF Streaming
  <2>2. Bound(cur)
    BY <2>1 DEF ClientInv, PhaseOK, Binding, Pumping
  <2> QED
    BY <2>2 DEF BoundAsPicked, Bound, Refuses
<1> QED
  BY <1>1, Invariance, PTL

(* The log run_simulate_source writes has no hole, and after an UNBIND it   *)
(* ends with the last report pump_reports read from the device.             *)
THEOREM LogHasNoHole == Spec => []LogComplete
<1>1. LInv => LogComplete
  BY DEF LInv, ClientInv, LogOK, LogComplete
<1> QED
  BY <1>1, Invariance, PTL
=============================================================================
