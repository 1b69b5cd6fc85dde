------------------------------ MODULE MCFraming ------------------------------
(* One message of every frame type, with the edges of its fields: sequence   *)
(* numbers at the top of their range, a status below zero, a body of no      *)
(* bytes, one at the limit (scaled to 60 bytes) and one over it.  Android    *)
(* writes control and HID frames and its pump's answers.                     *)
EXTENDS Framing, HidDescriptor

Hid(op, seq, body) == [ch |-> "hid", op |-> op, bind_id |-> 255, seq |-> seq, body |-> body]

Submit(n) ==
    [ch |-> "usbip", import_id |-> -1, body |-> [i \in 1 .. n |-> 255],
     urb |-> [op |-> "CMD_SUBMIT", seqnum |-> 2147483647, devid |-> 65538, direction |-> 0,
              ep |-> 2, transfer_flags |-> 512, transfer_buffer_length |-> n, start_frame |-> -1,
              number_of_packets |-> 0, interval |-> 4, setup |-> <<128, 6, 0, 1, 0, 0, 18, 0>>]]

RetSubmit ==
    [ch |-> "usbip", import_id |-> 1, body |-> <<0, 90>>,
     urb |-> [op |-> "RET_SUBMIT", seqnum |-> 256, devid |-> 0, direction |-> 1, ep |-> 1,
              status |-> -110, actual_length |-> 2, start_frame |-> 0,
              number_of_packets |-> 0, error_count |-> 0]]

CmdUnlink ==
    [ch |-> "usbip", import_id |-> 1, body |-> <<>>,
     urb |-> [op |-> "CMD_UNLINK", seqnum |-> -1, devid |-> 1, direction |-> 0, ep |-> 0,
              unlink_seqnum |-> -2147483647]]

RetUnlink ==
    [ch |-> "usbip", import_id |-> 1, body |-> <<>>,
     urb |-> [op |-> "RET_UNLINK", seqnum |-> -1, devid |-> 0, direction |-> 0, ep |-> 0,
              status |-> -104]]

BindAck ==
    [ch |-> "hid", op |-> "BIND_ACK", bind_id |-> 1, seq |-> 0,
     meta |-> <<123, 125>>, descriptor |-> <<5, 1, 9, 2>>]

Control == [ch |-> "control", json |-> <<90, 87>>]
Report == Hid("REPORT_IN", 65535, <<1, 0, 255>>)

MCPairs == {<<"rust", "rust">>, <<"kotlin", "rust">>, <<"rust", "kotlin">>}
MCMessages ==
    [p \in MCPairs |->
       CASE p = <<"rust", "rust">> ->
              {Control, Report, Submit(8), Submit(9), RetSubmit, CmdUnlink, RetUnlink}
         [] p = <<"kotlin", "rust">> ->
              {Control, BindAck, Report, Hid("UNBIND", 256, <<>>), RetSubmit, RetUnlink}
         [] p = <<"rust", "kotlin">> -> {Control, Hid("BIND", 0, <<>>)}]
=============================================================================
