------------------------------ MODULE Exchange ------------------------------
(***************************************************************************)
(* The parts of the program that keep no state of their own: each is asked *)
(* something and answers.  `asked' says which part is asked (asked.part)   *)
(* and with what; `answer' is NotYet until it is served.                   *)
(***************************************************************************)

VARIABLES asked, answer

exchangeVars == <<asked, answer>>

NotYet == [part |-> "none"]

Answered(part) == asked.part = part /\ answer # NotYet

(* A part is served once.                                                  *)
Serve(part, result) ==
  /\ asked.part = part /\ answer = NotYet
  /\ answer' = result /\ UNCHANGED asked
=============================================================================
