--------------------------- MODULE MessageChannel ---------------------------
(***************************************************************************)
(* What the modules that model a session take a connection for: messages   *)
(* are delivered in the order they were written, each once and unchanged,  *)
(* until the source closes, and a source that is killed loses some of the  *)
(* last ones.                                                              *)
(***************************************************************************)
EXTENDS Naturals, Sequences

CONSTANT Message

VARIABLES
    written, delivered,
    source,       \* "open", "closed" or "killed"
    sink          \* "open" or "end"

vars == <<written, delivered, source, sink>>

Init == written = <<>> /\ delivered = <<>> /\ source = "open" /\ sink = "open"

Write(m) ==
    /\ source = "open"
    /\ written' = Append(written, m)
    /\ UNCHANGED <<delivered, source, sink>>

Stop ==
    /\ source = "open"
    /\ source' \in {"closed", "killed"}
    /\ UNCHANGED <<written, delivered, sink>>

Deliver ==
    /\ sink = "open" /\ Len(delivered) < Len(written)
    /\ delivered' = Append(delivered, written[Len(delivered) + 1])
    /\ UNCHANGED <<written, source, sink>>

End ==
    /\ sink = "open"
    /\ source = "killed" \/ (source = "closed" /\ delivered = written)
    /\ sink' = "end"
    /\ UNCHANGED <<written, delivered, source>>

Next == (\E m \in Message : Write(m)) \/ Stop \/ Deliver \/ End

(* What has been written arrives, or the end of the stream does. *)
FairSpec == Init /\ [][Next]_vars /\ WF_vars(Deliver \/ End)
=============================================================================
