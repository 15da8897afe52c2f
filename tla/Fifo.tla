-------------------------------- MODULE Fifo --------------------------------
(***************************************************************************)
(* The pointer implementation of the fetch FIFO, cv32e40p_fifo.sv with     *)
(* FALL_THROUGH = 0 and DEPTH > 0: a memory, a read and a write pointer of *)
(* ADDR_DEPTH bits and a status counter.  Registers keep the source's      *)
(* names; one step of Next is one rising clock edge.                       *)
(***************************************************************************)
EXTENDS Naturals, Sequences

CONSTANTS Depth,     \* parameter DEPTH
          Word,      \* the words that are pushed
          ResetWord  \* the content of a slot after reset ('0)

ASSUME FifoAssumption == Depth \in Nat \ {0} /\ ResetWord \in Word

VARIABLES mem_q, read_pointer_q, write_pointer_q, status_cnt_q

vars == <<mem_q, read_pointer_q, write_pointer_q, status_cnt_q>>

\* The pointers have max(1, clog2(DEPTH)) bits: PtrRange values.
AddrDepth == IF Depth = 1 THEN 1
             ELSE CHOOSE n \in 1..Depth : 2^n >= Depth /\ 2^(n-1) < Depth
PtrRange  == 2^AddrDepth
Slots     == 0..Depth-1

Init == /\ mem_q = [s \in Slots |-> ResetWord]
        /\ read_pointer_q = 0
        /\ write_pointer_q = 0
        /\ status_cnt_q = 0

full_o  == status_cnt_q = Depth
empty_o == status_cnt_q = 0

\* "== FIFO_DEPTH[ADDR_DEPTH-1:0] - 1" is a 32-bit comparison: when DEPTH is a
\* power of two the slice is 0, the test never holds and the pointer wraps by
\* truncation instead.
Advance(ptr) ==
    IF ptr + 1 = Depth % PtrRange THEN 0 ELSE (ptr + 1) % PtrRange

\* A packed-array write outside the declared range is ignored.
Store(push, data) ==
    mem_q' = IF push /\ ~full_o /\ write_pointer_q \in Slots
             THEN [mem_q EXCEPT ![write_pointer_q] = data]
             ELSE mem_q

-----------------------------------------------------------------------------
\* The three arms of the sequential "unique case (1'b1)".  mem_q is clocked by
\* gate_clock alone, so that a push is stored whatever arm is taken.
Flush(push, data) ==
    /\ Store(push, data)
    /\ read_pointer_q' = 0
    /\ write_pointer_q' = 0
    /\ status_cnt_q' = 0

\* A flush that moves the kept word's pointer to slot 0 without moving the word.
MutKeepAtZero(push, data) ==
    /\ Store(push, data)
    /\ read_pointer_q' = 0
    /\ write_pointer_q' = IF status_cnt_q > 0 THEN 1 ELSE 0
    /\ status_cnt_q' = IF status_cnt_q > 0 THEN 1 ELSE 0

FlushButFirst(push, data) ==
    /\ Store(push, data)
    /\ read_pointer_q' = IF status_cnt_q > 0 THEN read_pointer_q ELSE 0
    /\ write_pointer_q' = IF status_cnt_q > 0 THEN (read_pointer_q + 1) % PtrRange ELSE 0
    /\ status_cnt_q' = IF status_cnt_q > 0 THEN 1 ELSE 0

ReadWrite(push, data, pop) ==
    LET pushing == push /\ ~full_o
        popping == pop /\ ~empty_o
    IN  /\ Store(push, data)
        /\ write_pointer_q' = IF pushing THEN Advance(write_pointer_q) ELSE write_pointer_q
        /\ read_pointer_q' = IF popping THEN Advance(read_pointer_q) ELSE read_pointer_q
        /\ status_cnt_q' = IF pushing /\ ~popping THEN status_cnt_q + 1
                           ELSE IF popping /\ ~pushing THEN status_cnt_q - 1
                           ELSE status_cnt_q

Next == \E push, pop \in BOOLEAN, data \in Word :
            \/ Flush(push, data)
            \/ FlushButFirst(push, data)
            \/ ReadWrite(push, data, pop)

Spec == Init /\ [][Next]_vars

-----------------------------------------------------------------------------
\* The refinement mapping: the words from the read pointer on, as data_o shows
\* them one after the other.
Contents == [i \in 1..status_cnt_q |-> mem_q[(read_pointer_q + i - 1) % Depth]]

Queue == INSTANCE FetchQueue WITH queue <- Contents

\* For every sequence of pushes, pops and the two flushes, the pointers, the
\* counter and the memory of cv32e40p_fifo behave as the bounded queue.
ImplementsQueue == Queue!Spec
=============================================================================
