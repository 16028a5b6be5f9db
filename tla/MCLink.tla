------------------------------ MODULE MCLink -------------------------------
(***************************************************************************)
(* The two ends of a link, and what crosses between them byte for byte:    *)
(* the frames say the same at both ends, whatever is in them, which is     *)
(* what lets the model hand a message over as it is.  So do the reports    *)
(* the converting machine makes of them.                                   *)
(***************************************************************************)
EXTENDS Link

Wire == INSTANCE Reports

(* Whatever either end writes into a frame, and whatever a machine writes  *)
(* into a recording, is what is read out of it; and every report posted to *)
(* the output service is the one the service takes in.  Judged before the  *)
(* first step: it is about every frame there is, and no state changes it.  *)
SaidIsRead == Init => Wire!SaidIsRead /\ Wire!ReportsAreRead
=============================================================================
