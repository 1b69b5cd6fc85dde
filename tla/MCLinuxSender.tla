---------------------------- MODULE MCLinuxSender ----------------------------
(* Two hidraw nodes of one USB device, a keyboard and an interface of        *)
(* another kind.  One client of every kind, the receiver also asking for a   *)
(* busid that is not there, and one that logs what it receives.              *)
EXTENDS LinuxSender

CONSTANTS c1, c2, b1, b2

MCBusOf == [n \in Nodes |-> b1]
MCKindOf == [n \in Nodes |-> IF n = 1 THEN "keyboard" ELSE "other"]

MCCommands ==
    {f \in [Clients -> Command] :
        /\ f[c2] = [role |-> "simulate", want |-> None]
        /\ f[c1].role # "simulate"
        /\ f[c1].want # None => f[c1] = [role |-> "receive", want |-> b2]}
=============================================================================
