----------------------------- MODULE MCQueueLabs ----------------------------
(***************************************************************************)
(* One board, flashed with the program of lab 2-3 or with that of lab 2-4. *)
(* The delays are the programs', in ticks of 10 ms.                        *)
(***************************************************************************)
EXTENDS MsgQueue, PushButton

VARIABLE flashed

Lab3 == flashed = "lab2-3" /\ MsgNext /\ UNCHANGED <<flashed, buttonVars>>
Lab4(A) == flashed = "lab2-4" /\ A /\ UNCHANGED <<flashed, msgVars>>

Init == flashed \in {"lab2-3", "lab2-4"} /\ MsgInit /\ ButtonInit
Next == Lab3 \/ Lab4(ButtonNext)

Spec == /\ Init /\ [][Next]_<<flashed, msgVars, buttonVars>>
        /\ WF_msgVars(Lab3)
        /\ WF_buttonVars(Lab4(Push_button_isr_handler))
        /\ WF_buttonVars(Lab4(vCounterTask))
=============================================================================
