----------------------------- MODULE MCSinkRun -----------------------------
(***************************************************************************)
(* The sink's run on a few devices, with what the end it came to is judged *)
(* by.                                                                     *)
(***************************************************************************)
EXTENDS SinkRun

VARIABLE refused   \* whether a keyboard would not close at the end

HInit == Init /\ refused = FALSE
HNext ==
  /\ Next
  /\ refused' = (refused \/ (rpc = "Closing" /\ rpc' = "Over"))
HSpec == HInit /\ [][HNext]_<<vars, refused>> /\ WF_vars(Capture) /\ WF_vars(Run)

(* A run that is over has let go of every key and, unless a close was      *)
(* refused, of every keyboard, however many there were and whatever was    *)
(* pulled out while it was giving them back.  The keys go first: a         *)
(* modifier must not be held over what is typed on a keyboard given back,  *)
(* by this run or by the machine when the two threads' looks at the list   *)
(* cross and the process panics.                                           *)
NothingStranded ==
  /\ rpc \in {"Closing", "TakingOff", "Panicked"} => os = {}
  /\ rpc = "Over" => os = {} /\ (~refused => seized = {} /\ held = <<>>)
=============================================================================
