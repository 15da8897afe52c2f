----------------------------- MODULE HwLoopSpec -----------------------------
(***************************************************************************)
(* What the two hardware loops promise (docs: corev_hw_loop.rst): program  *)
(* order.  `pc' is the next instruction to execute and `count' are the     *)
(* loop counters.  A loop is enabled while its counter is not zero, and    *)
(* the counter is decremented whenever the last instruction of its body is *)
(* executed.  Addresses count instructions; the end address is behind the  *)
(* last instruction.  The program sets a counter in front of each loop and *)
(* starts again at its end.                                                *)
(***************************************************************************)
EXTENDS Integers

CONSTANTS Start0, End0, Start1, End1,   \* the loops' registers
          Counts                        \* values written to a counter

VARIABLES pc, count

Loop   == {0, 1}
Start  == [k \in Loop |-> IF k = 0 THEN Start0 ELSE Start1]
End    == [k \in Loop |-> IF k = 0 THEN End0 ELSE End1]
Exit   == IF End0 > End1 THEN End0 ELSE End1
SetsCount(a, k) == a + 1 = Start[k]

\* Executing the instruction at `pc' completes a pass through loop k.
CompletesPass(k) == pc + 1 = End[k] /\ count[k] > 0

Init == pc = 0 /\ count = [k \in Loop |-> 0]

Pass(k) ==
    /\ CompletesPass(k)
    /\ pc' = IF count[k] > 1 THEN Start[k] ELSE pc + 1
    /\ count' = [count EXCEPT ![k] = @ - 1]

SetCount(k) ==
    /\ SetsCount(pc, k)
    /\ pc' = pc + 1
    /\ \E n \in Counts : count' = [count EXCEPT ![k] = n]

Restart == pc = Exit /\ pc' = 0 /\ UNCHANGED count

Straight ==
    /\ pc # Exit
    /\ \A k \in Loop : ~CompletesPass(k) /\ ~SetsCount(pc, k)
    /\ pc' = pc + 1
    /\ UNCHANGED count

Next == Restart \/ Straight \/ \E k \in Loop : Pass(k) \/ SetCount(k)
Spec == Init /\ [][Next]_<<pc, count>>
=============================================================================
