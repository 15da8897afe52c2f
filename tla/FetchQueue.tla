----------------------------- MODULE FetchQueue -----------------------------
(***************************************************************************)
(* What the fetch FIFO (cv32e40p_fifo.sv, FALL_THROUGH = 0) promises the   *)
(* prefetch buffer, with no pointers: a queue of at most Depth words that, *)
(* in one clock cycle, may take a word in, give its head away, be emptied, *)
(* or be cut down to its first word.                                       *)
(***************************************************************************)
EXTENDS Naturals, Sequences

CONSTANTS Depth,   \* number of words the FIFO holds
          Word     \* the words that are pushed

VARIABLE queue     \* the words in the FIFO, oldest first

TypeOK == queue \in Seq(Word) /\ Len(queue) =< Depth

Init == queue = <<>>

(***************************************************************************)
(* One clock cycle.  A push is ignored when the queue is full and a pop    *)
(* when it is empty; both flushes win over push and pop, and the full      *)
(* flush wins over the one that keeps the first word.                      *)
(***************************************************************************)
PushPop(push, data, pop) ==
    LET rest == IF pop /\ queue # <<>> THEN Tail(queue) ELSE queue
    IN  IF push /\ Len(queue) < Depth THEN Append(rest, data) ELSE rest

Cycle(flush, keepFirst, push, data, pop) ==
    queue' = IF flush THEN <<>>
             ELSE IF keepFirst THEN SubSeq(queue, 1, IF queue = <<>> THEN 0 ELSE 1)
             ELSE PushPop(push, data, pop)

Next == \E flush, keepFirst, push, pop \in BOOLEAN, data \in Word :
            Cycle(flush, keepFirst, push, data, pop)

Spec == Init /\ [][Next]_queue
=============================================================================
