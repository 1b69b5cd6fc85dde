--------------------------- MODULE MCUsbIpSession ---------------------------
(* A session started in every way (no busid named, or one that only the HID  *)
(* sender with two devices has) beside a session that attaches for real;    *)
(* with and without the same pairing code; in the smaller instance, two      *)
(* sessions that attach for real.                                            *)
EXTENDS UsbIpSession

CONSTANTS s1, s2, b1, b2, k1, k2

Real == [mode |-> "real", rpsk |-> None, spsk |-> None, want |-> None, peer |-> "pump",
         devs |-> {b1}, persistent |-> FALSE]

EveryWay ==
    {c \in Conf :
        /\ IF c.peer = "linux" THEN c.devs \in {{}, {b1, b2}} /\ c.spsk = None ELSE c.devs = {b1}
        /\ c.want # b1
        /\ c.persistent => c.peer = "mock" /\ c.mode = "log"
        /\ {c.rpsk, c.spsk} # {None} => c.want = None /\ ~c.persistent
        /\ c.rpsk # k2
        /\ c.rpsk # c.spsk => c.mode = "drive" /\ c.peer # "mockhid"}

MCSetups == {[s \in Sessions |-> IF s = s1 THEN c ELSE Real] : c \in EveryWay}

RealOnly == [Sessions -> {Real}]
=============================================================================
