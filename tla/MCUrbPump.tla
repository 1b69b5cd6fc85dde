----------------------------- MODULE MCUrbPump -----------------------------
(* UrbPump on a device with a control endpoint, a bulk and an isochronous   *)
(* one, and a client that also names an endpoint the device does not have.  *)
EXTENDS UrbPump

CONSTANTS ep0, bulk, iso, missing

MCEpType == [e \in Eps |-> CASE e = ep0 -> "control" [] e = bulk -> "data"
                             [] e = iso -> "isoc" [] OTHER -> "none"]
=============================================================================
