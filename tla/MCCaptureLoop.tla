--------------------------- MODULE MCCaptureLoop ----------------------------
(***************************************************************************)
(* An instance of CaptureLoop for TLC that runs long enough for a steady   *)
(* queue to shed what the rounding leaves in it: up to AnyTime endpoint    *)
(* and polls do what they like, after it only those go on that have been   *)
(* in time since the endpoint was opened.                                  *)
(***************************************************************************)
EXTENDS CaptureLoop

CONSTANT AnyTime

LongNext == Next /\ (clock' > AnyTime => steady')

LongSpec == Init /\ [][LongNext]_vars
=============================================================================
