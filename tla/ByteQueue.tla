------------------------------- MODULE ByteQueue -------------------------------
(***************************************************************************)
(* The receive FIFO as the firmware sees it: bytes are taken in the order  *)
(* they came, each once, and one is lost only when the FIFO is full.  On   *)
(* one clock edge a byte may come and another be taken.  RxFifo implements *)
(* it; Arrive and Poll of CommandLink are its steps.                       *)
(***************************************************************************)
EXTENDS Naturals, Sequences

CONSTANT Depth

VARIABLES queue,    \* the bytes in the FIFO and in the registers around it
          taken,    \* the bytes the firmware has read
          lost      \* how many bytes were dropped

queue_vars == <<queue, taken, lost>>

QueueInit == queue = <<>> /\ taken = <<>> /\ lost = 0

(* What is left when the firmware has, or has not, taken the oldest byte.  *)
Rest(take) == IF take THEN Tail(queue) ELSE queue

Take(take) == /\ take => queue # <<>>
              /\ taken' = IF take THEN Append(taken, Head(queue)) ELSE taken

Put(take)  == \E b \in {queue'[Len(queue')]} : queue' = Append(Rest(take), b) /\ UNCHANGED lost
Lose(take) == Len(queue) >= Depth /\ queue' = Rest(take) /\ lost' = lost + 1
Keep(take) == queue' = Rest(take) /\ UNCHANGED lost

QueueNext == \E take \in BOOLEAN :
                /\ Take(take)
                /\ \/ queue' # <<>> /\ Put(take)
                   \/ Lose(take)
                   \/ Keep(take)

QueueSpec == QueueInit /\ [][QueueNext]_queue_vars
================================================================================
