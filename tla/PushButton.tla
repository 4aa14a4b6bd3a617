----------------------------- MODULE PushButton -----------------------------
(***************************************************************************)
(* RTOS lab 2-4 (RTOS/tp2-4/main/lab2-4_main.c): an interrupt handler      *)
(* counts the falling edges of a push button and sends the count to a      *)
(* task, which displays it and polls the button until it is released.      *)
(*                                                                         *)
(* The button bounces as it likes.  The pin remembers one edge while the   *)
(* handler has not run.                                                    *)
(***************************************************************************)
EXTENDS RtosQueue

CONSTANT MAX_EDGES          \* bound: falling edges of a behaviour

ASSUME EdgesAssumption == MAX_EDGES \in Nat

VARIABLES level,            \* of PIN_PUSH_BUTTON: 1 is released
          edge,             \* is an interrupt pending?
          edges,            \* how many edges there were
          isrCount,
          countQueue,
          counter,          \* where vCounterTask is
          display,          \* the last line displayed
          seen              \* history: the counts displayed

buttonVars == <<level, edge, edges, isrCount, countQueue, counter, display, seen>>

ButtonTypeOK == /\ level \in {0, 1} /\ edge \in BOOLEAN
                /\ edges \in 0 .. MAX_EDGES
                /\ isrCount \in Nat
                /\ countQueue \in Seq(Nat)
                /\ counter \in {"receive", "poll", "delay"}
                /\ display \in {"nothing", "pressed", "released", "please push"}
                /\ seen \in Seq(Nat)

\* app_main has created the queue and the task and installed the handler.
ButtonInit == /\ level = 1 /\ edge = FALSE /\ edges = 0
              /\ isrCount = 0 /\ countQueue = <<>>
              /\ counter = "receive" /\ display = "nothing" /\ seen = <<>>

-----------------------------------------------------------------------------
\* The finger and the spring.
Falls == /\ level = 1 /\ edges < MAX_EDGES
         /\ level' = 0 /\ edge' = TRUE /\ edges' = edges + 1
         /\ UNCHANGED <<isrCount, countQueue, counter, display, seen>>

Rises == /\ level = 0
         /\ level' = 1
         /\ UNCHANGED <<edge, edges, isrCount, countQueue, counter, display, seen>>

\* Mutant: the handler sends the count of the edge before.
Push_button_isr_handler_send_first ==
    /\ edge /\ edge' = FALSE
    /\ isrCount' = isrCount + 1
    /\ countQueue' = Sent(countQueue, isrCount)
    /\ UNCHANGED <<level, edges, counter, display, seen>>

\* The result of xQueueSend is not looked at.
Push_button_isr_handler ==
    /\ edge /\ edge' = FALSE
    /\ isrCount' = isrCount + 1
    /\ countQueue' = Sent(countQueue, isrCount')
    /\ UNCHANGED <<level, edges, counter, display, seen>>

-----------------------------------------------------------------------------
\* vCounterTask: xQueueReceive with a message, xQueueReceive after 5 s without.
TakesCount == /\ counter = "receive" /\ countQueue # <<>>
              /\ countQueue' = Tail(countQueue)
              /\ seen' = Append(seen, Head(countQueue))
              /\ display' = "pressed" /\ counter' = "poll"

GivesUp == /\ counter = "receive" /\ countQueue = <<>>
           /\ display' = "please push"
           /\ UNCHANGED <<countQueue, counter, seen>>

\* Mutant: waits as long as the level is 1.
Polls_inverted == /\ counter = "poll"
                  /\ IF level = 0 THEN display' = "released" /\ counter' = "receive"
                                  ELSE counter' = "delay" /\ UNCHANGED display
                  /\ UNCHANGED <<countQueue, seen>>

\* The level is read every 20 ms until it is 1.
Polls == /\ counter = "poll"
         /\ IF level = 1 THEN display' = "released" /\ counter' = "receive"
                         ELSE counter' = "delay" /\ UNCHANGED display
         /\ UNCHANGED <<countQueue, seen>>

DelayEnds == /\ counter = "delay"
             /\ counter' = "poll"
             /\ UNCHANGED <<countQueue, display, seen>>

vCounterTask == /\ TakesCount \/ GivesUp \/ Polls \/ DelayEnds
                /\ UNCHANGED <<level, edge, edges, isrCount>>

ButtonNext == Falls \/ Rises \/ Push_button_isr_handler \/ vCounterTask

\* Interrupts are served and the only task of the program gets its turn.
ButtonSpec == /\ ButtonInit /\ [][ButtonNext]_buttonVars
              /\ WF_buttonVars(Push_button_isr_handler) /\ WF_buttonVars(vCounterTask)
-----------------------------------------------------------------------------
Counts == seen \o countQueue

(***************************************************************************)
(* Safety: the counts are displayed in order and none twice, and the first *)
(* of them, as many as the queue holds, are never lost, however the edges  *)
(* fall into the polling of the task.                                      *)
(***************************************************************************)
CountsInOrder ==
    /\ \A i, j \in 1 .. Len(Counts) : i < j => Counts[i] < Counts[j]
    /\ \A i \in 1 .. Len(Counts) : Counts[i] \in 1 .. isrCount
    /\ \A i \in 1 .. Len(Counts) : i <= MESS_QUEUE_MAX_LENGTH => Counts[i] = i
    /\ isrCount > Len(Counts) => Len(Counts) >= MESS_QUEUE_MAX_LENGTH

(***************************************************************************)
(* Liveness: once the button is released for good, the task displays all   *)
(* that is in the queue, sees the button released and waits for the next   *)
(* edge, although it may have to delay and poll for each message.          *)
(***************************************************************************)
QueueDrains ==
    <>[](level = 1) => <>[](/\ countQueue = <<>> /\ ~edge
                            /\ counter = "receive" /\ display # "pressed")
=============================================================================
