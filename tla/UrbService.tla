----------------------------- MODULE UrbService -----------------------------
(***************************************************************************)
(* What a USB/IP pump promises the kernel at the other end: while the      *)
(* connection lasts, the commands it is given are served one by one in     *)
(* their order, each by exactly one reply that its kind admits.  In        *)
(* particular the reply to an UNLINK never overtakes the one to the URB it *)
(* names.  It may stop serving at any time.                                *)
(***************************************************************************)
EXTENDS Sequences

CONSTANTS
    Commands,         \* CMD_SUBMIT and CMD_UNLINK
    Answers           \* the replies a command admits: [Commands -> sets of replies]

VARIABLES
    todo,             \* commands given and not served, in order
    done,             \* replies the kernel has not taken yet
    gone              \* the connection is lost

Init == todo = <<>> /\ done = <<>> /\ gone = FALSE

Give ==
    /\ ~gone
    /\ \E c \in Commands : todo' = Append(todo, c)
    /\ UNCHANGED <<done, gone>>

Serve ==
    /\ ~gone /\ todo # <<>>
    /\ \E r \in Answers[Head(todo)] : done' = Append(done, r)
    /\ todo' = Tail(todo)
    /\ UNCHANGED gone

Take ==
    /\ ~gone /\ done # <<>>
    /\ done' = Tail(done)
    /\ UNCHANGED <<todo, gone>>

(* Commands and replies of a lost connection are given up. *)
Lose == ~gone /\ gone' = TRUE /\ todo' = <<>> /\ done' = <<>>

Next == Give \/ Serve \/ Take \/ Lose

Spec == Init /\ [][Next]_<<todo, done, gone>>
=============================================================================
