------------------------------- MODULE Prints -------------------------------
(***************************************************************************)
(* What a compiled program promises: it prints the text that evaluating    *)
(* its tree prints, item after item, and ends, or it was refused by the    *)
(* compiler and prints nothing.                                            *)
(***************************************************************************)
EXTENDS Naturals, Sequences

VARIABLES text, refusable, printed, outcome
vars == <<text, refusable, printed, outcome>>

Init == /\ printed = <<>>
        /\ outcome = "running"

PrintItem ==
         /\ outcome = "running"
         /\ Len(printed) < Len(text)
         /\ printed' = Append(printed, text[Len(printed) + 1])
         /\ UNCHANGED <<text, refusable, outcome>>

Finish == /\ outcome = "running"
          /\ printed = text
          /\ outcome' = "ended"
          /\ UNCHANGED <<text, refusable, printed>>

Refuse == /\ outcome = "running"
          /\ refusable
          /\ printed = <<>>
          /\ outcome' = "refused"
          /\ UNCHANGED <<text, refusable, printed>>

Next == PrintItem \/ Finish \/ Refuse

Spec == Init /\ [][Next]_vars /\ WF_vars(Next)
=============================================================================
