-------------------------- MODULE MCWindowsCapture --------------------------
(***************************************************************************)
(* The reading thread of the forwarding machine, and what the reports of a *)
(* mouse it hands on come to at the machine that converts: Capture's model *)
(* hands a report on as it is, and Pointing says what is in it.            *)
(***************************************************************************)
EXTENDS WindowsCapture, Pointing

(* The OS of the converting machine is told what the hand did, from        *)
(* whichever machine's reports, and is told as much as the run was asked.  *)
(* Judged before the first step, of every report the model has.            *)
PointerFollows == Init => EveryPointerFollows
=============================================================================
