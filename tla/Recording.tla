----------------------------- MODULE Recording -----------------------------
(***************************************************************************)
(* What a recording promises, without the ring it is kept in (ADR-0009):   *)
(* the newest records in the order they were written, how many are missing *)
(* from the front, and one cursor that hands each record over once.        *)
(***************************************************************************)
EXTENDS Naturals, Sequences

CONSTANTS
  Capacity,  \* how many records fit
  Record     \* what may be recorded

VARIABLES
  kept,      \* the records still there, oldest first
  lost,      \* how many went from the front
  taken,     \* how many of all those ever written the cursor has passed
  handed     \* the last record handed over, with its number, or nothing

Init == kept = <<>> /\ lost = 0 /\ taken = 0 /\ handed = <<>>

(* A record is added; only a full recording loses any for it.              *)
Add ==
  \E record \in Record, n \in 0..Len(kept) :
    /\ n = 0 <=> Len(kept) < Capacity
    /\ kept' = Append(SubSeq(kept, n + 1, Len(kept)), record)
    /\ lost' = lost + n
    /\ UNCHANGED <<taken, handed>>

(* The oldest record not handed over yet and still there.                  *)
HandOver ==
  LET number == IF taken < lost THEN lost ELSE taken
  IN /\ taken < lost + Len(kept)
     /\ handed' = <<number, kept[number - lost + 1]>>
     /\ taken' = number + 1
     /\ UNCHANGED <<kept, lost>>

Next == Add \/ HandOver

Spec == Init /\ [][Next]_<<kept, lost, taken, handed>>
=============================================================================
