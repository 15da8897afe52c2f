---------------------------- MODULE InstrStream -----------------------------
(***************************************************************************)
(* What the prefetch buffer promises the IF stage: the words it hands over *)
(* are those of one stream of consecutive word addresses, which a taken    *)
(* branch restarts at its target and which a hardware-loop jump continues, *)
(* after exactly one more word (the last instruction of the loop body), at *)
(* the start of the loop.  No word is lost, repeated or reordered,         *)
(* whatever the memory does.                                               *)
(***************************************************************************)
EXTENDS Naturals

CONSTANT Words      \* number of words of the address space (it wraps around)

Addr    == 0..Words-1
Incr(a) == (a + 1) % Words

\* What the interface of the prefetch buffer shows in one clock cycle: the
\* command of the controller and the word handed over, if any.
None    == Words    \* not an address
Event(cmd, target, word) == [cmd |-> cmd, target |-> target, word |-> word]
Events  == [cmd : {"none", "branch", "loop"}, target : Addr \cup {None},
            word : Addr \cup {None}]

VARIABLES next,     \* address of the next word of the stream
          after,    \* address of the word that follows it
          io        \* the event of the last cycle

vars == <<next, after, io>>

TypeOK == next \in Addr /\ after \in Addr /\ io \in Events

Init == next \in Addr /\ after = Incr(next) /\ io = Event("none", None, None)

Idle == io' = Event("none", None, None) /\ UNCHANGED <<next, after>>

Deliver == /\ io' = Event("none", None, next)
           /\ next' = after
           /\ after' = Incr(after)

Branch(a) == /\ io' = Event("branch", a, None)
             /\ next' = a
             /\ after' = Incr(a)

\* The loop jump redirects the stream behind its next word; that word may be
\* handed over in the same cycle.
LoopJump(a) == /\ io' = Event("loop", a, None)
               /\ after' = a
               /\ UNCHANGED next

LoopJumpAndDeliver(a) == /\ io' = Event("loop", a, next)
                         /\ next' = a
                         /\ after' = Incr(a)

Next == \/ Idle
        \/ Deliver
        \/ \E a \in Addr : Branch(a) \/ LoopJump(a) \/ LoopJumpAndDeliver(a)

Spec == Init /\ [][Next]_vars
=============================================================================
