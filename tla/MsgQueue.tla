------------------------------ MODULE MsgQueue ------------------------------
(***************************************************************************)
(* RTOS lab 2-3 (RTOS/tp2/main/lab2-3_main.c): a sender and a receiver of  *)
(* equal priority and a function task of higher priority, on core 0.       *)
(*                                                                         *)
(* Time is in ticks of 10 ms.  A task computes by waiting for a date, so   *)
(* that left counts down also while the function task has the core; it     *)
(* needs the core to go on.  Every message is the number 50.               *)
(***************************************************************************)
EXTENDS RtosQueue

CONSTANTS PERIOD, PREPARE,              \* sender: period, computation
          TIMEOUT, CONSUME, SCOLD,      \* receiver: timeout, computations
          PAUSE, FUNCTION               \* function task: delay, computation

ASSUME MsgAssumption ==
    {PERIOD, PREPARE, TIMEOUT, CONSUME, SCOLD, PAUSE, FUNCTION} \subseteq Nat \ {0}

Message == 50

NotBelow0(n) == IF n < 0 THEN 0 ELSE n

VARIABLES xMsgQueue,
          sender,       \* date: ticks to xLastWakeTime plus the period
          receiver,
          function,
          turn,         \* which of the equal tasks had the core last
          last          \* how the receiver's last wait ended

msgVars == <<xMsgQueue, sender, receiver, function, turn, last>>

\* app_main has resumed the scheduler; it deletes itself and shares nothing.
MsgInit == /\ xMsgQueue = <<>>
           /\ sender = [pc |-> "start", left |-> 0, date |-> 0]
           /\ receiver = [pc |-> "start", left |-> 0]
           /\ function = [pc |-> "start", left |-> 0]
           /\ turn \in {"sender", "receiver"}
           /\ last = "timeout"

-----------------------------------------------------------------------------
\* vTaskFunction, with priority 3: its delay starts when it has computed.
FunctionSteps ==
    /\ function.left = 0
    /\ function' = IF function.pc = "delay"
                   THEN [pc |-> "compute", left |-> FUNCTION]
                   ELSE [pc |-> "delay", left |-> PAUSE]
    /\ UNCHANGED <<xMsgQueue, sender, receiver, turn, last>>

FunctionReady == function.pc # "delay" \/ function.left = 0

SenderReady   == sender.pc # "delay" \/ sender.left = 0
ReceiverReady == receiver.pc # "receive" \/ receiver.left = 0 \/ xMsgQueue # <<>>

\* Tasks of equal priority share the core tick by tick.
SenderRuns   == ~FunctionReady /\ SenderReady /\ (turn = "sender" \/ ~ReceiverReady)
ReceiverRuns == ~FunctionReady /\ ReceiverReady /\ (turn = "receiver" \/ ~SenderReady)

-----------------------------------------------------------------------------
\* vSenderTask.
SenderStarts == /\ sender.pc = "start"
                /\ sender' = [pc |-> "prepare", left |-> PREPARE, date |-> PERIOD]
                /\ UNCHANGED xMsgQueue

SenderWakes == /\ sender.pc = "delay"
               /\ sender' = [sender EXCEPT !.pc = "prepare", !.left = PREPARE]
               /\ UNCHANGED xMsgQueue

\* xQueueSend without timeout, then vTaskDelayUntil the next date.
SenderSends == /\ sender.pc = "prepare" /\ sender.left = 0
               /\ xMsgQueue' = Sent(xMsgQueue, Message)
               /\ sender' = [pc |-> "delay", left |-> NotBelow0(sender.date),
                             date |-> sender.date + PERIOD]

Sender == /\ SenderRuns /\ turn' = "sender"
          /\ SenderStarts \/ SenderWakes \/ SenderSends
          /\ UNCHANGED <<receiver, function, last>>

-----------------------------------------------------------------------------
\* vReceiverTask.  xQueueReceive looks at the queue when it is called, when
\* a message wakes it, and once more when its timeout does.

\* Mutant: the message stays in the queue.
ReceiverTakes_peeks == /\ receiver.pc = "receive" /\ xMsgQueue # <<>>
                       /\ receiver' = [pc |-> "use", left |-> CONSUME]
                       /\ last' = "message"
                       /\ UNCHANGED xMsgQueue

ReceiverTakes == /\ receiver.pc = "receive" /\ xMsgQueue # <<>>
                 /\ xMsgQueue' = Tail(xMsgQueue)
                 /\ receiver' = [pc |-> "use", left |-> CONSUME]
                 /\ last' = "message"

ReceiverTimesOut == /\ receiver.pc = "receive" /\ receiver.left = 0
                    /\ xMsgQueue = <<>>
                    /\ receiver' = [pc |-> "scold", left |-> SCOLD]
                    /\ last' = "timeout"
                    /\ UNCHANGED xMsgQueue

\* Mutant: the timeout is as long as the period of the sender.
ReceiverWaits_period == /\ receiver.pc \in {"start", "use", "scold"} /\ receiver.left = 0
                        /\ receiver' = [pc |-> "receive", left |-> PERIOD]
                        /\ UNCHANGED <<xMsgQueue, last>>

ReceiverWaits == /\ receiver.pc \in {"start", "use", "scold"} /\ receiver.left = 0
                 /\ receiver' = [pc |-> "receive", left |-> TIMEOUT]
                 /\ UNCHANGED <<xMsgQueue, last>>

Receiver == /\ ReceiverRuns /\ turn' = "receiver"
            /\ ReceiverTakes \/ ReceiverTimesOut \/ ReceiverWaits
            /\ UNCHANGED <<sender, function>>

-----------------------------------------------------------------------------
\* A tick passes while the task that has the core computes, or in idle.
MsgTick == /\ FunctionReady => function.left > 0
           /\ SenderRuns => sender.pc = "prepare" /\ sender.left > 0
           /\ ReceiverRuns => receiver.pc # "receive" /\ receiver.left > 0
           /\ sender' = [sender EXCEPT !.left = NotBelow0(@ - 1), !.date = @ - 1]
           /\ receiver' = [receiver EXCEPT !.left = NotBelow0(@ - 1)]
           /\ function' = [function EXCEPT !.left = @ - 1]
           /\ turn' = IF SenderRuns THEN "receiver"
                      ELSE IF ReceiverRuns THEN "sender" ELSE turn
           /\ UNCHANGED <<xMsgQueue, last>>

MsgNext == FunctionSteps \/ Sender \/ Receiver \/ MsgTick

\* The core goes on and time passes.
MsgSpec == MsgInit /\ [][MsgNext]_msgVars /\ WF_msgVars(MsgNext)
-----------------------------------------------------------------------------
(***************************************************************************)
(* Safety: whenever the sender sends, the receiver is blocked on an empty  *)
(* queue.  The result of xQueueSend, which is only printed, never is       *)
(* errQUEUE_FULL, and no message waits behind another: the two computations*)
(* of the receiver, its timeouts and the function task, whose dates drift  *)
(* against those of the sender, never come in the way.                     *)
(***************************************************************************)
EveryMessageIsAwaited ==
    [][SenderSends => receiver.pc = "receive" /\ xMsgQueue = <<>>]_msgVars

(***************************************************************************)
(* Safety: the wait of 300 ms, which the comment at its line calls         *)
(* infinite, ends once by itself between two messages, never twice and     *)
(* never not at all.                                                       *)
(***************************************************************************)
TimeoutsAlternate ==
    [][/\ ReceiverTakes    => last = "timeout"
       /\ ReceiverTimesOut => last = "message"]_msgVars
=============================================================================
