------------------------------ MODULE MCPairing ------------------------------
(***************************************************************************)
(* The two machines that pair, and the search by which the one finds the   *)
(* other: Pairing has the sink found or not, and Naming says when it is.   *)
(***************************************************************************)
EXTENDS Serving

CONSTANT Unsaid   \* what no message says
Names == INSTANCE Naming WITH Nothing <- Unsaid

(* The sink is found wherever its machine said where it is, in time, and   *)
(* at no other's port.  Judged before the first step, of every answer.     *)
FoundByName == Init => Names!FoundByName
=============================================================================
