---------------------------- MODULE MCHidSession ----------------------------
(* HidSession on a phone with a mouse and, in the larger instance, a device *)
(* without HID interface.                                                   *)
EXTENDS HidSession

CONSTANTS mouse, storage

MCKindOf == [d \in Devices |-> IF d = mouse THEN "mouse" ELSE "other"]
=============================================================================
