------------------------ MODULE PrefetchBufferProofs ------------------------
(***************************************************************************)
(* Proofs about the prefetch buffer, for every depth of at least two, every*)
(* size of the address space and both settings of PULP_OBI and COREV_PULP. *)
(*                                                                         *)
(* The inductive invariant IInv counts: how many transactions are on the   *)
(* bus, how many of their responses will be used, and how far the ID stage *)
(* is from the next loop jump (Phase).  The last is what makes it          *)
(* inductive: a loop jump is harmless only because it cannot be raised     *)
(* while a flush, or the first request of an earlier redirect, is pending. *)
(* The second half shows that the buffer implements InstrStream.           *)
(***************************************************************************)
EXTENDS PrefetchBuffer, SequenceTheorems, TLAPS

\* The transaction the OBI adapter holds, the responses that will be used, and that
\* cnt_q counts the transactions on the bus.
Held == IF obi_state_q = "REGISTERED" THEN 1 ELSE 0

LiveCount == IF hwlp_flush_after_resp THEN cnt_q - hwlp_flush_cnt_delayed_q
                                      ELSE cnt_q - flush_cnt_q

Counted == cnt_q = Len(mem) + Held

\* The FIFO has room for every response that will be used.
Room == Len(fifo) + LiveCount =< Depth

\* How far the ID stage is from the next loop jump: far enough while a flush, or the
\* first request of a redirect, is pending; near it only with a word at hand or coming.
Phase ==
    /\ flush_cnt_q > 0 => loop_gap >= 2
    /\ hwlp_flush_after_resp => loop_gap = GapAfterLoop
    /\ state_q = "BRANCH_WAIT" => Len(fifo) + LiveCount =< loop_gap - 2
    /\ loop_gap =< 1 => Len(fifo) + cnt_q > 0

\* The inductive invariant.
IInv == /\ TypeOK
        /\ Counted
        /\ FlushesOutstanding
        /\ Room
        /\ Phase

-----------------------------------------------------------------------------
LEMMA IncrType == \A a \in Addr : Incr(a) \in Addr
BY PrefetchAssumption, SMT DEF Addr, Incr

\* A transaction asks for an address.
LEMMA TransAddrType ==
    ASSUME TypeOK, NEW in \in Inputs
    PROVE  trans_addr(in) \in Addr
BY IncrType DEF TypeOK, Inputs, trans_addr

\* The FIFO after a cycle: what is in it and how many words.
LEMMA FifoStep ==
    ASSUME TypeOK, NEW in \in Inputs, in.rvalid => mem # <<>>, NextFifo(in)
    PROVE  /\ fifo' \in Seq(Addr)
           /\ fifo_flush(in) => Len(fifo') = 0
           /\ ~fifo_flush(in) /\ fifo_flush_but_first(in) => Len(fifo') = 1
           /\ ~fifo_flush(in) /\ ~fifo_flush_but_first(in) =>
                 Len(fifo') = Len(fifo)
                     + (IF fifo_push(in) /\ Len(fifo) < Depth THEN 1 ELSE 0)
                     - (IF fifo_pop(in) THEN 1 ELSE 0)
<1> DEFINE push == fifo_push(in)
           pop  == fifo_pop(in)
           rest == IF pop /\ fifo # <<>> THEN Tail(fifo) ELSE fifo
<1>1. fifo \in Seq(Addr) /\ mem \in Seq(Addr)
  BY DEF TypeOK
<1>2. push => Head(mem) \in Addr
  BY <1>1 DEF fifo_push, resp_valid
<1>3. rest \in Seq(Addr) /\ Len(rest) = Len(fifo) - (IF pop THEN 1 ELSE 0)
  <2>1. CASE fifo_pop(in)
    <3>1. fifo # <<>> /\ rest = Tail(fifo)
      BY <2>1 DEF fifo_pop
    <3> QED
      BY <1>1, <2>1, <3>1, HeadTailProperties
  <2>2. CASE ~fifo_pop(in)
    BY <1>1, <2>2
  <2> QED
    BY <2>1, <2>2
<1>4. CASE fifo_flush(in)
  BY <1>4 DEF NextFifo, Fifo!Cycle
<1>5. CASE ~fifo_flush(in) /\ fifo_flush_but_first(in)
  <2>1. fifo # <<>> /\ fifo' = SubSeq(fifo, 1, 1)
    BY <1>5 DEF NextFifo, Fifo!Cycle, fifo_flush_but_first
  <2> QED
    BY <1>1, <1>5, <2>1
<1>6. CASE ~fifo_flush(in) /\ ~fifo_flush_but_first(in)
  <2>1. fifo' = IF push /\ Len(fifo) < Depth THEN Append(rest, Head(mem)) ELSE rest
    BY <1>6 DEF NextFifo, Fifo!Cycle, Fifo!PushPop
  <2> HIDE DEF rest, push, pop
  <2>2. CASE push /\ Len(fifo) < Depth
    <3>1. fifo' = Append(rest, Head(mem))
      BY <2>1, <2>2
    <3>2. fifo' \in Seq(Addr) /\ Len(fifo') = Len(rest) + 1
      BY <1>2, <1>3, <2>2, <3>1
    <3> QED
      BY <1>1, <1>3, <1>6, <2>2, <3>2 DEF push, pop
  <2>3. CASE ~(push /\ Len(fifo) < Depth)
    <3>1. fifo' \in Seq(Addr) /\ Len(fifo') = Len(fifo) - (IF pop THEN 1 ELSE 0)
      BY <1>3, <2>1, <2>3
    <3>2. (IF fifo_push(in) /\ Len(fifo) < Depth THEN 1 ELSE 0) = 0
      BY <2>3 DEF push
    <3> QED
      BY <1>1, <1>6, <3>1, <3>2 DEF pop
  <2> QED
    BY <2>2, <2>3
<1> QED
  BY <1>4, <1>5, <1>6

\* The memory after a cycle.
LEMMA MemoryStep ==
    ASSUME TypeOK, NEW in \in Inputs, in.rvalid => mem # <<>>, NextMemory(in)
    PROVE  /\ mem' \in Seq(Addr)
           /\ Len(mem') = Len(mem) + (IF obi_req(in) /\ in.gnt THEN 1 ELSE 0)
                                   - (IF in.rvalid THEN 1 ELSE 0)
<1> DEFINE left == IF in.rvalid THEN Tail(mem) ELSE mem
<1>1. mem \in Seq(Addr) /\ obi_addr(in) \in Addr
  BY TransAddrType DEF TypeOK, obi_addr
<1>2. left \in Seq(Addr) /\ Len(left) = Len(mem) - (IF in.rvalid THEN 1 ELSE 0)
  <2>1. CASE in.rvalid
    BY <1>1, <2>1, HeadTailProperties
  <2>2. CASE ~in.rvalid
    BY <1>1, <2>2
  <2> QED
    BY <2>1, <2>2
<1>3. mem' = IF obi_req(in) /\ in.gnt THEN Append(left, obi_addr(in)) ELSE left
  BY DEF NextMemory
<1> HIDE DEF left
<1>4. CASE obi_req(in) /\ in.gnt
  <2>1. mem' = Append(left, obi_addr(in))
    BY <1>3, <1>4
  <2>2. mem' \in Seq(Addr) /\ Len(mem') = Len(left) + 1
    BY <1>1, <1>2, <2>1
  <2> QED
    BY <1>1, <1>2, <1>4, <2>2
<1>5. CASE ~(obi_req(in) /\ in.gnt)
  <2>1. mem' = left
    BY <1>3, <1>5
  <2>2. (IF obi_req(in) /\ in.gnt THEN 1 ELSE 0) = 0
    BY <1>5
  <2> QED
    BY <1>1, <1>2, <2>1, <2>2
<1> QED
  BY <1>4, <1>5

-----------------------------------------------------------------------------
(* One cycle preserves the invariant.                                      *)

\* The FIFO is empty exactly when its count is 0 (fifo_empty and fifo_cnt).
LEMMA EmptyCount ==
    ASSUME TypeOK
    PROVE  /\ Len(fifo) \in Nat /\ (fifo = <<>> <=> Len(fifo) = 0)
           /\ Len(mem) \in Nat /\ (mem = <<>> <=> Len(mem) = 0)
BY EmptySeq DEF TypeOK

\* The bus transactions are counted exactly.
LEMMA CountedStep ==
    ASSUME IInv, NEW in \in Inputs, Cycle(in)
    PROVE  Counted' /\ cnt_q' \in 0..Depth /\ Len(mem') =< Depth
<1>1. PICK a \in 0..1, r \in 0..1, g \in 0..1 :
         /\ a = IF trans_accepted(in) THEN 1 ELSE 0
         /\ r = IF in.rvalid THEN 1 ELSE 0
         /\ g = IF obi_req(in) /\ in.gnt THEN 1 ELSE 0
  OBVIOUS
<1>2. r = 1 => Len(mem) >= 1
  BY <1>1, EmptyCount DEF IInv, Cycle
<1>3. Len(mem') = Len(mem) + g - r
  BY <1>1, MemoryStep DEF IInv, Cycle
<1>4. cnt_q' = cnt_q + a - r
  BY <1>1 DEF Cycle, NextCnt, resp_valid
<1>5. a = 1 => cnt_q < Depth
  BY <1>1, EmptyCount, PrefetchAssumption
  DEF IInv, TypeOK, trans_accepted, trans_valid, fifo_cnt_masked
<1>6. cnt_q = Len(mem) + Held /\ cnt_q \in 0..Depth /\ Len(mem) \in Nat
  BY EmptyCount DEF IInv, TypeOK, Counted
<1>7. Held' + g = Held + a
  BY <1>1 DEF IInv, TypeOK, Cycle, NextObi, Held, obi_req, trans_accepted, trans_ready
<1>8. PICK m \in Nat : m = Len(mem)
  BY <1>6
<1>9. PICK c \in 0..Depth : c = cnt_q
  BY <1>6
<1>10. PICK h \in 0..1 : h = Held
  BY DEF Held
<1>11. PICK mn, cn, hn : mn = Len(mem') /\ cn = cnt_q' /\ hn = Held'
  OBVIOUS
<1>12. hn \in 0..1
  BY <1>11 DEF Held
<1>13. /\ r = 1 => m >= 1
       /\ a = 1 => c < Depth
       /\ c = m + h /\ mn = m + g - r /\ cn = c + a - r /\ hn + g = h + a
  BY <1>2, <1>3, <1>4, <1>5, <1>6, <1>7, <1>8, <1>9, <1>10, <1>11
<1>14. cn = mn + hn /\ cn \in 0..Depth /\ mn =< Depth
  BY <1>12, <1>13, PrefetchAssumption
<1> QED
  BY <1>11, <1>14 DEF Counted

\* What a cycle must re-establish besides the count of transactions.
Rest == /\ flush_cnt_q \in 0..Depth
        /\ hwlp_flush_after_resp \in BOOLEAN
        /\ hwlp_flush_cnt_delayed_q \in 0..Depth
        /\ loop_gap \in 0..GapAfterLoop
        /\ Len(fifo) =< Depth
        /\ FlushesOutstanding /\ Room /\ Phase

\* A branch: everything outstanding will be flushed, the FIFO is empty.
LEMMA BranchStep ==
    ASSUME IInv, NEW in \in Inputs, Branch(in)
    PROVE  Rest'
<1>1. PICK a \in 0..1, r \in 0..1 :
         /\ a = IF trans_accepted(in) THEN 1 ELSE 0
         /\ r = IF in.rvalid THEN 1 ELSE 0
  OBVIOUS
<1>2. in.branch /\ ~fetch_ready(in) /\ fifo_flush(in) /\ Cycle(in)
  BY DEF Branch, fetch_ready, fifo_flush
<1>3. PICK c \in 0..Depth : c = cnt_q
  BY DEF IInv, TypeOK
<1>4. r = 1 => c >= 1
  BY <1>1, <1>2, <1>3, EmptyCount DEF IInv, TypeOK, Cycle, Counted, Held
<1>5. PICK cn, fln : cn = cnt_q' /\ fln = flush_cnt_q'
  OBVIOUS
<1>6. cn = c + a - r
  BY <1>1, <1>2, <1>3, <1>5 DEF Cycle, NextCnt, resp_valid
<1>7. fln = c - r
  BY <1>1, <1>2, <1>3, <1>4, <1>5 DEF Cycle, NextFlushCnt, resp_valid
<1>8. hwlp_flush_after_resp' = FALSE /\ hwlp_flush_cnt_delayed_q' = 0
  BY <1>2 DEF Cycle, NextDelayedFlush
<1>9. fifo' = <<>> /\ Len(fifo') = 0
  BY <1>2 DEF Cycle, NextFifo, Fifo!Cycle
<1>10. loop_gap' = 2
  BY <1>2 DEF Cycle, NextLoopGap, GapAfterBranch
<1>11. state_q' = "BRANCH_WAIT" => a = 0
  BY <1>1, <1>2 DEF Cycle, NextState, IInv, TypeOK
<1>12. fln \in 0..Depth /\ fln =< cn /\ cn - fln = a
  BY <1>4, <1>6, <1>7, PrefetchAssumption
<1>13. LiveCount' = a
  BY <1>5, <1>8, <1>12 DEF LiveCount
<1>14. FlushesOutstanding'
  BY <1>5, <1>8, <1>12 DEF FlushesOutstanding
<1>15. Room' /\ Len(fifo') =< Depth
  <2>1. 0 + a =< Depth /\ 0 =< Depth
    BY PrefetchAssumption
  <2> QED
    BY <1>9, <1>13, <2>1 DEF Room
<1>16. Phase'
  <2>1. ~(flush_cnt_q' > 0 /\ loop_gap' < 2) /\ ~(loop_gap' =< 1)
    BY <1>10
  <2>2. state_q' = "BRANCH_WAIT" => Len(fifo') + LiveCount' =< loop_gap' - 2
    BY <1>9, <1>10, <1>11, <1>13
  <2> QED
    BY <1>8, <1>10, <2>1, <2>2 DEF Phase
<1>17. /\ flush_cnt_q' \in 0..Depth
       /\ hwlp_flush_cnt_delayed_q' \in 0..Depth
       /\ loop_gap' \in 0..3
  BY <1>5, <1>8, <1>10, <1>12, PrefetchAssumption
<1> QED
  BY <1>8, <1>14, <1>15, <1>16, <1>17, Zenon DEF Rest, GapAfterLoop

\* A loop jump.  Phase gives: nothing is being flushed, the controller is idle and
\* the last word of the body is in the FIFO or on its way.
LEMMA LoopJumpStep ==
    ASSUME IInv, NEW in \in Inputs, LoopJump(in)
    PROVE  Rest'
<1>1. PICK a \in 0..1, r \in 0..1, p \in 0..1 :
         /\ a = IF trans_accepted(in) THEN 1 ELSE 0
         /\ r = IF in.rvalid THEN 1 ELSE 0
         /\ p = IF fetch_ready(in) THEN 1 ELSE 0
  OBVIOUS
<1>2. in.hwlp /\ ~in.branch /\ CorevPulp /\ loop_gap = 0 /\ Cycle(in)
  BY DEF LoopJump
<1>3. /\ flush_cnt_q = 0 /\ hwlp_flush_after_resp = FALSE
      /\ state_q = "IDLE" /\ Len(fifo) + cnt_q > 0
  <2>1. flush_cnt_q = 0
    BY <1>2 DEF IInv, TypeOK, Phase
  <2>2. hwlp_flush_after_resp = FALSE
    BY <1>2 DEF IInv, TypeOK, Phase, GapAfterLoop
  <2>3. LiveCount = cnt_q
    BY <2>1, <2>2 DEF LiveCount, IInv, TypeOK
  <2>4. state_q = "IDLE"
    BY <1>2, <2>3, EmptyCount DEF IInv, TypeOK, Phase
  <2>5. Len(fifo) + cnt_q > 0
    BY <1>2 DEF IInv, TypeOK, Phase
  <2> QED
    BY <2>1, <2>2, <2>4, <2>5
<1>4. PICK c \in 0..Depth : c = cnt_q
  BY DEF IInv, TypeOK
<1>5. PICK F \in Nat : F = Len(fifo)
  BY EmptyCount DEF IInv
<1>6. PICK cn, fln, dn, Fn, gapn :
         cn = cnt_q' /\ fln = flush_cnt_q' /\ dn = hwlp_flush_cnt_delayed_q'
         /\ Fn = Len(fifo') /\ gapn = loop_gap'
  OBVIOUS
<1>7. /\ r = 1 => c >= 1
      /\ F + c > 0 /\ F =< Depth
  <2>1. r = 1 => c >= 1
    BY <1>1, <1>2, <1>4, EmptyCount DEF IInv, TypeOK, Cycle, Counted, Held
  <2> QED
    BY <1>3, <1>4, <1>5, <2>1 DEF IInv, TypeOK
<1>8. cn = c + a - r
  BY <1>1, <1>2, <1>4, <1>6 DEF Cycle, NextCnt, resp_valid
<1>9. gapn = 3 - p
  BY <1>1, <1>2, <1>6 DEF Cycle, NextLoopGap, GapAfterLoop
<1>10. state_q' = "BRANCH_WAIT" => a = 0
  BY <1>1, <1>2, <1>3 DEF Cycle, NextState
<1>11. F = 0 /\ r = 0 => p = 0
  BY <1>1, <1>5, EmptyCount DEF IInv, fetch_ready, fetch_valid, resp_valid
<1>12. Depth \in Nat /\ Depth >= 2
  BY PrefetchAssumption
<1>13. CASE F = 0 /\ r = 0
  <2>1. fifo = <<>> /\ ~in.rvalid
    BY <1>1, <1>5, <1>13, EmptyCount DEF IInv
  <2>2. hwlp_wait_resp_flush(in) /\ ~hwlp_flush_resp(in)
    BY <1>2, <2>1 DEF hwlp_wait_resp_flush, hwlp_flush_resp, resp_valid
  <2>3. hwlp_flush_after_resp' = TRUE /\ dn = c - 1
    BY <1>2, <1>4, <1>6, <2>2 DEF Cycle, NextDelayedFlush
  <2>4. fln = 0
    BY <1>2, <1>3, <1>6, <2>1, <2>2
    DEF Cycle, NextFlushCnt, hwlp_flush_resp_delayed, resp_valid
  <2>5. /\ ~fifo_flush(in) /\ ~fifo_flush_but_first(in)
        /\ ~fifo_push(in) /\ ~fifo_pop(in)
    BY <1>2, <2>1
    DEF fifo_flush, fifo_flush_but_first, fifo_push, fifo_pop, resp_valid
  <2>6. fifo' = <<>> /\ Fn = 0
    BY <1>6, <2>1, <2>5 DEF Cycle, NextFifo, Fifo!Cycle, Fifo!PushPop, LoopJump
  <2>7. /\ dn \in 0..Depth /\ dn < cn /\ fln =< cn
        /\ cn - dn = 1 + a /\ gapn = 3
    BY <1>7, <1>8, <1>9, <1>11, <1>12, <1>13, <2>3, <2>4
  <2>8. LiveCount' = 1 + a
    BY <1>6, <2>3, <2>7 DEF LiveCount
  <2>9. FlushesOutstanding'
    BY <1>6, <2>3, <2>4, <2>6, <2>7 DEF FlushesOutstanding
  <2>10. Len(fifo') + LiveCount' =< Depth /\ Len(fifo') =< Depth
    <3>1. 0 + (1 + a) =< Depth /\ 0 =< Depth
      BY <1>12
    <3> QED
      BY <1>6, <2>6, <2>8, <3>1
  <2>11. Phase'
    <3>1. state_q' = "BRANCH_WAIT" => Len(fifo') + LiveCount' =< loop_gap' - 2
      BY <1>6, <1>10, <2>6, <2>7, <2>8
    <3>2. ~(loop_gap' =< 1) /\ loop_gap' >= 2
      BY <1>6, <2>7
    <3> QED
      BY <1>6, <2>7, <3>1, <3>2 DEF Phase, GapAfterLoop
  <2>12. /\ flush_cnt_q' \in 0..Depth
         /\ hwlp_flush_cnt_delayed_q' \in 0..Depth
         /\ loop_gap' \in 0..3
    BY <1>6, <1>12, <2>4, <2>7
  <2> QED
    BY <2>3, <2>9, <2>10, <2>11, <2>12, Zenon DEF Rest, Room, GapAfterLoop
<1>14. CASE ~(F = 0 /\ r = 0)
  <2>1. fifo # <<>> \/ in.rvalid
    BY <1>1, <1>5, <1>14, EmptyCount DEF IInv
  <2>2. hwlp_flush_resp(in) /\ ~hwlp_wait_resp_flush(in) /\ ~hwlp_flush_resp_delayed(in)
    BY <1>2, <1>3, <2>1
    DEF hwlp_wait_resp_flush, hwlp_flush_resp, resp_valid, hwlp_flush_resp_delayed
  <2>3. hwlp_flush_after_resp' = FALSE /\ dn = hwlp_flush_cnt_delayed_q
    BY <1>2, <1>3, <1>6, <2>2 DEF Cycle, NextDelayedFlush
  <2>4. fln = c - r
    BY <1>1, <1>2, <1>4, <1>6, <1>7, <2>2 DEF Cycle, NextFlushCnt, resp_valid
  <2>5. Fn = 1 - p
    <3>1. CASE fifo = <<>>
      <4>1. /\ ~fifo_flush(in) /\ ~fifo_flush_but_first(in) /\ ~fifo_pop(in)
            /\ fifo_push(in) <=> p = 0
        BY <1>1, <1>2, <1>3, <2>1, <3>1
        DEF fifo_flush, fifo_flush_but_first, fifo_push, fifo_pop, resp_valid
      <4>2. Len(fifo) = 0 /\ Len(fifo) < Depth
        BY <1>12, <3>1, EmptyCount DEF IInv
      <4>3. Len(fifo') = 0 + (IF p = 0 THEN 1 ELSE 0) - 0
        BY <4>1, <4>2, FifoStep DEF IInv, Cycle, LoopJump
      <4> QED
        BY <1>6, <4>3
    <3>2. CASE fifo # <<>> /\ fifo_pop(in)
      <4>1. fifo_flush(in) /\ p = 1
        BY <1>1, <1>2, <3>2 DEF fifo_flush, fifo_pop
      <4> QED
        BY <1>6, <4>1, FifoStep DEF IInv, Cycle, LoopJump
    <3>3. CASE fifo # <<>> /\ ~fifo_pop(in)
      <4>1. ~fifo_flush(in) /\ fifo_flush_but_first(in) /\ p = 0
        BY <1>1, <1>2, <3>3 DEF fifo_flush, fifo_flush_but_first, fifo_pop
      <4> QED
        BY <1>6, <4>1, FifoStep DEF IInv, Cycle, LoopJump
    <3> QED
      BY <3>1, <3>2, <3>3
  <2>6. /\ fln \in 0..Depth /\ fln =< cn /\ cn - fln = a
        /\ Fn =< Depth /\ Fn + a =< Depth /\ gapn \in 2..3
        /\ a = 0 => Fn + a =< gapn - 2
    BY <1>7, <1>8, <1>9, <1>12, <2>4, <2>5
  <2>7. LiveCount' = a
    BY <1>6, <2>3, <2>6 DEF LiveCount
  <2>8. FlushesOutstanding'
    BY <1>6, <2>3, <2>6 DEF FlushesOutstanding
  <2>9. Len(fifo') + LiveCount' =< Depth /\ Len(fifo') =< Depth
    BY <1>6, <2>6, <2>7
  <2>10. Phase'
    <3>1. state_q' = "BRANCH_WAIT" => Len(fifo') + LiveCount' =< loop_gap' - 2
      BY <1>6, <1>10, <2>6, <2>7
    <3>2. ~(loop_gap' =< 1) /\ loop_gap' >= 2
      BY <1>6, <2>6
    <3> QED
      BY <2>3, <3>1, <3>2 DEF Phase
  <2>11. hwlp_flush_cnt_delayed_q' \in 0..Depth
    BY <1>6, <2>3 DEF IInv, TypeOK
  <2>12. flush_cnt_q' \in 0..Depth /\ loop_gap' \in 0..3
    BY <1>6, <1>12, <2>6
  <2> QED
    BY <2>3, <2>8, <2>9, <2>10, <2>11, <2>12, Zenon DEF Rest, Room, GapAfterLoop
<1> QED
  BY <1>13, <1>14

\* A cycle without a redirect.  Three situations: the awaited last word of a loop
\* arrives, it is still awaited, or no delayed flush is pending.
LEMMA AdvanceStep ==
    ASSUME IInv, NEW in \in Inputs, Advance(in)
    PROVE  Rest'
<1>1. PICK a \in 0..1, r \in 0..1, p \in 0..1 :
         /\ a = IF trans_accepted(in) THEN 1 ELSE 0
         /\ r = IF in.rvalid THEN 1 ELSE 0
         /\ p = IF fetch_ready(in) THEN 1 ELSE 0
  OBVIOUS
<1>2. /\ ~in.hwlp /\ ~in.branch /\ Cycle(in)
      /\ ~fifo_flush(in) /\ ~fifo_flush_but_first(in)
      /\ ~hwlp_flush_resp(in) /\ ~hwlp_wait_resp_flush(in)
  BY DEF Advance, fifo_flush, fifo_flush_but_first, hwlp_flush_resp, hwlp_wait_resp_flush
<1>3. PICK c \in 0..Depth, fl \in 0..Depth, d \in 0..Depth, gap \in 0..3 :
         c = cnt_q /\ fl = flush_cnt_q /\ d = hwlp_flush_cnt_delayed_q /\ gap = loop_gap
  BY DEF IInv, TypeOK, GapAfterLoop
<1>4. PICK F \in Nat, M \in Nat : F = Len(fifo) /\ M = Len(mem)
  BY EmptyCount DEF IInv
<1>5. PICK cn, fln, dn, Fn, gapn :
         cn = cnt_q' /\ fln = flush_cnt_q' /\ dn = hwlp_flush_cnt_delayed_q'
         /\ Fn = Len(fifo') /\ gapn = loop_gap'
  OBVIOUS
<1>6. Depth \in Nat /\ Depth >= 2 /\ F =< Depth
  BY <1>4, PrefetchAssumption DEF IInv, TypeOK
<1>7. /\ r = 1 => M >= 1
      /\ a = 1 => F + c < Depth
      /\ M =< c /\ (M = c => obi_state_q = "TRANSPARENT")
  <2>1. r = 1 => M >= 1
    BY <1>1, <1>2, <1>4, EmptyCount DEF IInv, Cycle
  <2>2. a = 1 => F + c < Depth
    BY <1>1, <1>2, <1>3, <1>4 DEF trans_accepted, trans_valid, fifo_cnt_masked
  <2>3. M =< c /\ (M = c => obi_state_q = "TRANSPARENT")
    BY <1>3, <1>4 DEF IInv, TypeOK, Counted, Held
  <2> QED
    BY <2>1, <2>2, <2>3
<1>8. cn = c + a - r
  BY <1>1, <1>2, <1>3, <1>5 DEF Cycle, NextCnt, resp_valid
<1>9. gapn = IF p = 1 /\ gap > 0 THEN gap - 1 ELSE gap
  BY <1>1, <1>2, <1>3, <1>5 DEF Cycle, NextLoopGap
<1>10. state_q' = "BRANCH_WAIT" => state_q = "BRANCH_WAIT" /\ a = 0
  BY <1>1, <1>2 DEF Cycle, NextState, IInv, TypeOK
\* The words in the FIFO: one in, one out.
<1>11. /\ p = 1 => fl = 0 /\ F + r >= 1 /\ in.req
       /\ F + r =< Depth /\ fl = 0 => Fn = F + r - p
       /\ fl > 0 => Fn = F
  <2>1. p = 1 => fl = 0 /\ F + r >= 1 /\ in.req
    BY <1>1, <1>3, <1>4, EmptyCount DEF IInv, fetch_ready, fetch_valid, resp_valid
  <2>2. PICK q \in 0..1, o \in 0..1 :
           /\ q = IF fifo_push(in) /\ Len(fifo) < Depth THEN 1 ELSE 0
           /\ o = IF fifo_pop(in) THEN 1 ELSE 0
    OBVIOUS
  <2>3. Fn = F + q - o
    BY <1>2, <1>4, <1>5, <2>2, FifoStep DEF IInv, Cycle
  <2>4. o = IF F > 0 /\ p = 1 THEN 1 ELSE 0
    BY <1>1, <1>4, <2>2, EmptyCount DEF IInv, fifo_pop
  <2>5. q = IF r = 1 /\ (F > 0 \/ p = 0) /\ fl = 0 /\ F < Depth THEN 1 ELSE 0
    BY <1>1, <1>2, <1>3, <1>4, <2>2, EmptyCount DEF IInv, TypeOK, fifo_push, resp_valid
  <2>6. /\ F + r =< Depth /\ fl = 0 => Fn = F + r - p
        /\ fl > 0 => Fn = F
    BY <1>6, <2>1, <2>3, <2>4, <2>5
  <2> QED
    BY <2>1, <2>6
\* What the invariant says of the counters before the cycle.
<1>12. /\ fl =< c /\ (fl > 0 => gap >= 2) /\ (gap =< 1 => F + c > 0)
       /\ hwlp_flush_after_resp => d < c /\ fl = 0 /\ F = 0 /\ gap = 3 /\ c - d =< Depth
       /\ ~hwlp_flush_after_resp => F + (c - fl) =< Depth
       /\ state_q = "BRANCH_WAIT" /\ hwlp_flush_after_resp => c - d =< 1
       /\ state_q = "BRANCH_WAIT" /\ ~hwlp_flush_after_resp => F + (c - fl) =< gap - 2
  <2>1. fl =< c /\ (fl > 0 => gap >= 2) /\ (gap =< 1 => F + c > 0)
    BY <1>3, <1>4 DEF IInv, FlushesOutstanding, Phase
  <2>2. CASE hwlp_flush_after_resp
    <3>1. d < c /\ fl = 0 /\ F = 0 /\ gap = 3
      BY <1>3, <1>4, <2>2, EmptyCount DEF IInv, FlushesOutstanding, Phase, GapAfterLoop
    <3>2. LiveCount = c - d
      BY <1>3, <2>2 DEF LiveCount
    <3>3. 0 + (c - d) =< Depth /\ (state_q = "BRANCH_WAIT" => 0 + (c - d) =< 3 - 2)
      BY <1>3, <1>4, <3>1, <3>2 DEF IInv, Room, Phase
    <3> QED
      BY <2>1, <2>2, <3>1, <3>3
  <2>3. CASE ~hwlp_flush_after_resp
    <3>1. LiveCount = c - fl
      BY <1>3, <2>3 DEF LiveCount
    <3> QED
      BY <1>3, <1>4, <2>1, <2>3, <3>1 DEF IInv, Room, Phase
  <2> QED
    BY <2>2, <2>3
<1>13. SUFFICES
         /\ fln \in 0..Depth /\ dn \in 0..Depth /\ gapn \in 0..3 /\ Fn =< Depth
         /\ hwlp_flush_after_resp' \in BOOLEAN /\ fln =< cn
         /\ hwlp_flush_after_resp' =>
               /\ dn < cn /\ fln = 0 /\ fifo' = <<>> /\ gapn = 3
               /\ Fn + (cn - dn) =< Depth
               /\ state_q' = "BRANCH_WAIT" => Fn + (cn - dn) =< gapn - 2
         /\ ~hwlp_flush_after_resp' =>
               /\ Fn + (cn - fln) =< Depth
               /\ state_q' = "BRANCH_WAIT" => Fn + (cn - fln) =< gapn - 2
         /\ fln > 0 => gapn >= 2
         /\ gapn =< 1 => Fn + cn > 0
  <2>1. LiveCount' = IF hwlp_flush_after_resp' THEN cn - dn ELSE cn - fln
    BY <1>5 DEF LiveCount
  <2>2. Room'
    BY <1>5, <1>13, <2>1 DEF Room
  <2>3. Phase'
    BY <1>5, <1>13, <2>1 DEF Phase, GapAfterLoop
  <2>4. FlushesOutstanding'
    BY <1>5, <1>13 DEF FlushesOutstanding
  <2> QED
    BY <1>5, <1>13, <2>2, <2>3, <2>4, Zenon DEF Rest, GapAfterLoop
<1>14. CASE hwlp_flush_after_resp /\ r = 1
  <2>1. hwlp_flush_resp_delayed(in)
    BY <1>1, <1>14 DEF hwlp_flush_resp_delayed, resp_valid
  <2>2. hwlp_flush_after_resp' = FALSE /\ dn = 0
    BY <1>2, <1>5, <2>1 DEF Cycle, NextDelayedFlush
  <2>3. fln = d
    BY <1>2, <1>3, <1>5, <2>1 DEF Cycle, NextFlushCnt
  <2>4. Fn = 1 - p /\ gapn = 3 - p
    BY <1>6, <1>9, <1>11, <1>12, <1>14
  <2>5. /\ fln =< cn /\ Fn =< Depth /\ gapn \in 2..3
        /\ Fn + (cn - fln) =< Depth
        /\ state_q' = "BRANCH_WAIT" => Fn + (cn - fln) =< gapn - 2
    BY <1>6, <1>7, <1>8, <1>10, <1>12, <1>14, <2>3, <2>4
  <2>6. fln \in 0..Depth /\ dn \in 0..Depth /\ gapn \in 0..3
        /\ gapn >= 2 /\ ~(gapn =< 1)
    BY <1>6, <2>2, <2>3, <2>5
  <2> QED
    BY <2>2, <2>5, <2>6, Zenon
<1>15. CASE hwlp_flush_after_resp /\ r = 0
  <2>1. ~hwlp_flush_resp_delayed(in) /\ fifo = <<>>
    BY <1>1, <1>15 DEF hwlp_flush_resp_delayed, resp_valid, IInv, FlushesOutstanding
  <2>2. hwlp_flush_after_resp' = TRUE /\ dn = d
    BY <1>2, <1>3, <1>5, <1>15, <2>1 DEF Cycle, NextDelayedFlush, IInv, TypeOK
  <2>3. fln = 0
    BY <1>1, <1>2, <1>3, <1>5, <1>12, <1>15, <2>1 DEF Cycle, NextFlushCnt, resp_valid
  <2>4. p = 0 /\ Fn = 0 /\ gapn = 3
    BY <1>6, <1>9, <1>11, <1>12, <1>15
  <2>5. fifo' = <<>>
    BY <1>2, <1>5, <2>4, EmptySeq, FifoStep DEF IInv, Cycle
  <2>6. /\ fln =< cn /\ dn < cn
        /\ Fn + (cn - dn) =< Depth
        /\ state_q' = "BRANCH_WAIT" => Fn + (cn - dn) =< gapn - 2
    BY <1>6, <1>7, <1>8, <1>10, <1>12, <1>15, <2>2, <2>3, <2>4
  <2> QED
    BY <1>6, <2>2, <2>3, <2>4, <2>5, <2>6
<1>16. CASE ~hwlp_flush_after_resp
  <2>1. ~hwlp_flush_resp_delayed(in)
    BY <1>16 DEF hwlp_flush_resp_delayed
  <2>2. hwlp_flush_after_resp' = FALSE /\ dn = d
    BY <1>2, <1>3, <1>5, <1>16, <2>1 DEF Cycle, NextDelayedFlush, IInv, TypeOK
  <2>3. fln = IF r = 1 /\ fl > 0 THEN fl - 1 ELSE fl
    BY <1>1, <1>2, <1>3, <1>5, <2>1 DEF Cycle, NextFlushCnt, resp_valid
  <2>4. CASE fl > 0
    <3>1. p = 0 /\ Fn = F /\ gapn = gap
      BY <1>9, <1>11, <2>4
    <3>2. fln = fl - r
      BY <2>3, <2>4
    <3>3. /\ fln \in 0..Depth /\ fln =< cn /\ gapn >= 2
          /\ Fn + (cn - fln) =< Depth
          /\ state_q' = "BRANCH_WAIT" => Fn + (cn - fln) =< gapn - 2
      BY <1>6, <1>7, <1>8, <1>10, <1>12, <1>16, <2>4, <3>1, <3>2
    <3>4. dn \in 0..Depth /\ gapn \in 0..3 /\ ~(gapn =< 1) /\ Fn =< Depth
      BY <1>6, <2>2, <3>1, <3>3
    <3> QED
      BY <2>2, <3>3, <3>4, Zenon
  <2>5. CASE fl = 0
    <3>1. fln = 0
      BY <2>3, <2>5
    <3>2. F + c =< Depth /\ F + r =< Depth /\ Fn = F + r - p
      BY <1>6, <1>7, <1>11, <1>12, <1>16, <2>5
    <3>3. /\ cn >= 0 /\ Fn =< Depth /\ gapn \in 0..3
          /\ Fn + (cn - fln) =< Depth
          /\ state_q' = "BRANCH_WAIT" => Fn + (cn - fln) =< gapn - 2
      BY <1>6, <1>7, <1>8, <1>9, <1>10, <1>11, <1>12, <1>16, <2>5, <3>1, <3>2
    \* The request that takes the place of a word handed over is issued at once.
    <3>4. p = 1 /\ F + c = 1 => a = 1
      <4> SUFFICES ASSUME p = 1, F + c = 1
                   PROVE  a = 1
        OBVIOUS
      <4>1. in.req /\ F + r >= 1
        BY <1>11
      <4>2. M = c /\ (c = 0 \/ r = 1)
        BY <1>7, <4>1
      <4>3. trans_ready
        BY <1>7, <4>2 DEF trans_ready
      <4>4. trans_valid(in)
        BY <1>1, <1>2, <1>3, <1>4, <1>6, <4>1, <4>2
        DEF trans_valid, fifo_cnt_masked, resp_valid
      <4> QED
        BY <1>1, <4>3, <4>4 DEF trans_accepted
    <3>5. gapn =< 1 => Fn + cn > 0
      <4>1. CASE p = 0
        BY <1>7, <1>8, <1>9, <1>12, <3>2, <4>1
      <4>2. CASE p = 1
        BY <1>7, <1>8, <1>11, <2>5, <3>2, <3>4, <4>2
      <4> QED
        BY <4>1, <4>2
    <3>6. fln \in 0..Depth /\ dn \in 0..Depth /\ fln =< cn /\ ~(fln > 0)
      BY <1>6, <2>2, <3>1, <3>3
    <3> QED
      BY <2>2, <3>3, <3>5, <3>6, Zenon
  <2> QED
    BY <2>4, <2>5
<1> QED
  BY <1>14, <1>15, <1>16

-----------------------------------------------------------------------------
(* The theorems.                                                           *)

\* Every register keeps its range.
LEMMA TypeStep ==
    ASSUME IInv, NEW in \in Inputs, Step(in)
    PROVE  TypeOK'
<1>1. Cycle(in) /\ (in.rvalid => mem # <<>>)
  BY DEF Step, Advance, Branch, LoopJump, Cycle
<1>2. state_q' \in {"IDLE", "BRANCH_WAIT"}
  BY <1>1 DEF IInv, TypeOK, Cycle, NextState
<1>3. trans_addr_q' \in Addr
  BY <1>1, TransAddrType DEF IInv, TypeOK, Cycle, NextTransAddr
<1>4. obi_state_q' \in {"TRANSPARENT", "REGISTERED"}
  BY <1>1 DEF Cycle, NextObi
<1>5. obi_addr_q' \in Addr
  BY <1>1, TransAddrType DEF IInv, TypeOK, Cycle, NextObi, obi_addr
<1>6. fifo' \in Seq(Addr)
  BY <1>1, FifoStep DEF IInv, Cycle
<1>7. mem' \in Seq(Addr)
  BY <1>1, MemoryStep DEF IInv, Cycle
<1>8. booted' \in BOOLEAN
  BY <1>1 DEF IInv, TypeOK, Cycle, Inputs
<1>9. io' \in Stream!Events
  <2>1. in.target \in Addr /\ mem \in Seq(Addr) /\ fifo \in Seq(Addr)
    BY DEF IInv, TypeOK, Inputs
  <2>2. fetch_ready(in) => fetch_rdata \in Addr
    BY <1>1, <2>1, HeadTailProperties
    DEF fetch_ready, fetch_valid, fetch_rdata, resp_valid
  <2> QED
    BY <1>1, <2>1, <2>2
    DEF Cycle, NextIo, Stream!Event, Stream!Events, Stream!Addr, Stream!None,
        Addr, None
<1>10. Rest'
  BY AdvanceStep, BranchStep, LoopJumpStep DEF Step
<1>11. cnt_q' \in 0..Depth /\ Len(mem') =< Depth
  BY <1>1, CountedStep
<1> QED
  BY <1>2, <1>3, <1>4, <1>5, <1>6, <1>7, <1>8, <1>9, <1>10, <1>11 DEF TypeOK, Rest

\* Reset establishes the invariant ...
LEMMA InitInvariant == Init => IInv
<1> SUFFICES ASSUME Init PROVE IInv
  OBVIOUS
<1>1. TypeOK
  <2>1. 0 \in 0..Depth /\ 0 =< Depth /\ 0 \in Addr /\ 2 \in 0..3
    BY PrefetchAssumption DEF Addr
  <2>2. <<>> \in Seq(Addr) /\ Len(<<>>) = 0
    BY EmptySeq
  <2>3. Stream!Event("none", None, None) \in Stream!Events
    BY DEF Stream!Event, Stream!Events, Stream!None, None
  <2> QED
    BY <2>1, <2>2, <2>3 DEF Init, TypeOK, GapAfterBranch, GapAfterLoop
<1>2. LiveCount = 0 /\ Held = 0 /\ Len(fifo) = 0 /\ Len(mem) = 0
  BY DEF Init, LiveCount, Held
<1>3. Counted /\ FlushesOutstanding
  BY <1>2 DEF Init, Counted, FlushesOutstanding
<1>4. Room /\ Phase
  BY <1>2, PrefetchAssumption DEF Init, Room, Phase, GapAfterBranch
<1> QED
  BY <1>1, <1>3, <1>4 DEF IInv

\* ... and every clock cycle preserves it.
LEMMA StepInvariant == IInv /\ [Next]_vars => IInv'
<1>1. ASSUME IInv, Next PROVE IInv'
  <2>1. PICK in \in Inputs : Step(in)
    BY <1>1 DEF Next
  <2>2. Counted'
    BY <1>1, <2>1, CountedStep DEF Step, Advance, Branch, LoopJump
  <2>3. Rest'
    BY <1>1, <2>1, AdvanceStep, BranchStep, LoopJumpStep DEF Step
  <2> QED
    BY <1>1, <2>1, <2>2, <2>3, TypeStep DEF IInv, Rest
<1>2. ASSUME IInv, UNCHANGED vars PROVE IInv'
  BY <1>2
  DEF IInv, vars, ctrlVars, TypeOK, Counted, Held, FlushesOutstanding, Room,
      LiveCount, Phase
<1> QED
  BY <1>1, <1>2

\* The invariant holds in every reachable state, for every parameter of the source.
THEOREM InductiveInvariant == Spec => []IInv
BY InitInvariant, StepInvariant, PTL DEF Spec

\* The counters never leave their width and every register keeps its range.
THEOREM TypeCorrect == Spec => []TypeOK
<1>1. IInv => TypeOK
  BY DEF IInv
<1> QED
  BY <1>1, InductiveInvariant, PTL

\* No flush waits for more responses than are outstanding, nor during another one.
THEOREM FlushesBounded == Spec => []FlushesOutstanding
<1>1. IInv => FlushesOutstanding
  BY DEF IInv
<1> QED
  BY <1>1, InductiveInvariant, PTL

\* A loop jump only meets the situations its flush logic is written for: the
\* assertion a_hwlp_end_already_gnt_when_hwlp_branch of the source, and more.
THEOREM LoopJumpsInTime == Spec => []ReadyForLoopJump
<1>1. IInv => ReadyForLoopJump
  <2> SUFFICES ASSUME IInv, loop_gap = 0
               PROVE  /\ cnt_q > 0 \/ fifo # <<>>
                      /\ flush_cnt_q = 0 /\ ~hwlp_flush_after_resp
                      /\ state_q = "IDLE"
    BY DEF ReadyForLoopJump
  <2>1. flush_cnt_q = 0
    BY DEF IInv, TypeOK, Phase
  <2>2. hwlp_flush_after_resp = FALSE
    BY DEF IInv, TypeOK, Phase, GapAfterLoop
  <2>3. LiveCount = cnt_q
    BY <2>1, <2>2 DEF LiveCount, IInv, TypeOK
  <2>4. state_q = "IDLE"
    BY <2>3, EmptyCount DEF IInv, TypeOK, Phase
  <2>5. cnt_q > 0 \/ fifo # <<>>
    BY EmptyCount DEF IInv, TypeOK, Phase
  <2> QED
    BY <2>1, <2>2, <2>4, <2>5
<1> QED
  BY <1>1, InductiveInvariant, PTL

-----------------------------------------------------------------------------
(* The buffer delivers the stream it promises (InstrStream).  The          *)
(* refinement mapping reads the next two words off Upcoming, a             *)
(* concatenation; the proof reads them by position (WordAt): a word kept   *)
(* is in the FIFO or is the response of a transaction in flight, and       *)
(* behind those kept comes the address requested next.  StreamInv adds to  *)
(* IInv that each word but the first, which may be the last of a loop      *)
(* body, is followed by its successor.                                     *)

\* What a cycle does to the words, as numbers: a request is accepted, a response
\* comes, a word is taken.
Accepts(in) == IF trans_accepted(in) THEN 1 ELSE 0
Answers(in) == IF in.rvalid THEN 1 ELSE 0
Takes(in)   == IF fetch_ready(in) THEN 1 ELSE 0

\* How many words are in the FIFO or will come as responses that are used ...
KeptCount == Len(fifo) + LiveCount

\* ... which transaction in flight answers with the j-th of the latter ...
LiveAt(j) == IF hwlp_flush_after_resp
             THEN IF j = 1 THEN 1 ELSE hwlp_flush_cnt_delayed_q + j
             ELSE flush_cnt_q + j

\* ... and the i-th word from here: kept, or one of the two requested after them.
WordAt(i) == IF i =< Len(fifo) THEN fifo[i]
             ELSE IF i =< KeptCount THEN InFlight[LiveAt(i - Len(fifo))]
             ELSE IF i = KeptCount + 1 THEN NextRequest
             ELSE Incr(NextRequest)

\* Behind the first word, which may be the last of a loop body, no address is left out.
InSequence == \A i \in 2..KeptCount : WordAt(i + 1) = Incr(WordAt(i))

\* The inductive invariant of the refinement.
StreamInv == IInv /\ InSequence

\* The transactions in flight: the granted ones, then the one the OBI adapter holds.
LEMMA InFlightWords ==
    ASSUME IInv
    PROVE  /\ InFlight \in Seq(Addr) /\ Len(InFlight) = cnt_q
           /\ mem # <<>> => InFlight[1] = Head(mem)
           /\ \A i \in 1..Len(mem) : InFlight[i] = mem[i]
           /\ obi_state_q = "REGISTERED" => InFlight[cnt_q] = obi_addr_q
<1>1. mem \in Seq(Addr) /\ obi_addr_q \in Addr
  BY DEF IInv, TypeOK
<1>2. Len(mem) \in Nat /\ (mem = <<>> <=> Len(mem) = 0)
  BY EmptyCount DEF IInv
<1>3. mem # <<>> => Head(mem) = mem[1]
  BY <1>1, HeadTailProperties
<1>4. CASE obi_state_q = "REGISTERED"
  <2>1. InFlight = Append(mem, obi_addr_q)
    BY <1>4 DEF InFlight
  <2>2. cnt_q = Len(mem) + 1
    BY <1>4 DEF IInv, Counted, Held
  <2>3. /\ InFlight \in Seq(Addr) /\ Len(InFlight) = Len(mem) + 1
        /\ \A i \in 1..Len(mem) : InFlight[i] = mem[i]
        /\ InFlight[Len(mem) + 1] = obi_addr_q
    BY <1>1, <2>1, AppendProperties
  <2> QED
    BY <1>2, <1>3, <2>2, <2>3
<1>5. CASE obi_state_q # "REGISTERED"
  <2>1. InFlight = mem
    BY <1>5 DEF InFlight
  <2>2. cnt_q = Len(mem) + 0
    BY <1>5 DEF IInv, Counted, Held
  <2> QED
    BY <1>1, <1>2, <1>3, <1>5, <2>1, <2>2
<1> QED
  BY <1>4, <1>5

\* A cycle takes the oldest transaction away and adds the one accepted.
LEMMA InFlightStep ==
    ASSUME IInv, IInv', NEW in \in Inputs, Cycle(in)
    PROVE  /\ cnt_q' = cnt_q + Accepts(in) - Answers(in)
           /\ in.rvalid => cnt_q >= 1 /\ mem # <<>>
           /\ \A i \in 1..cnt_q' :
                 InFlight'[i] = IF i + Answers(in) =< cnt_q
                                THEN InFlight[i + Answers(in)] ELSE trans_addr(in)
<1>1. PICK a \in 0..1, r \in 0..1 : a = Accepts(in) /\ r = Answers(in)
  BY DEF Accepts, Answers
<1>2. PICK M \in Nat, c \in 0..Depth : M = Len(mem) /\ c = cnt_q
  BY EmptyCount DEF IInv, TypeOK
<1>3. r = 1 => M >= 1
  BY <1>1, <1>2, EmptyCount DEF IInv, Cycle, Answers
<1>4. M =< c
  BY <1>2 DEF IInv, Counted, Held
<1>5. cnt_q' = c + a - r
  BY <1>1, <1>2 DEF Cycle, NextCnt, resp_valid, Accepts, Answers
<1>6. mem \in Seq(Addr) /\ obi_addr_q \in Addr /\ trans_addr(in) \in Addr
  BY TransAddrType DEF IInv, TypeOK
<1> DEFINE left == IF in.rvalid THEN Tail(mem) ELSE mem
<1>7. /\ left \in Seq(Addr) /\ Len(left) = M - r
      /\ \A i \in 1..(M - r) : left[i] = mem[i + r]
  <2>1. CASE in.rvalid
    <3>1. r = 1 /\ mem # <<>>
      BY <1>1, <1>2, <1>3, <2>1, EmptyCount DEF IInv, Answers
    <3> QED
      BY <1>2, <1>6, <2>1, <3>1, HeadTailProperties
  <2>2. CASE ~in.rvalid
    BY <1>1, <1>2, <1>6, <2>2 DEF Answers
  <2> QED
    BY <2>1, <2>2
<1>8. mem' = IF obi_req(in) /\ in.gnt THEN Append(left, obi_addr(in)) ELSE left
  BY DEF Cycle, NextMemory
<1> HIDE DEF left
<1>9. /\ InFlight \in Seq(Addr) /\ Len(InFlight) = c
      /\ \A i \in 1..M : InFlight[i] = mem[i]
      /\ obi_state_q = "REGISTERED" => InFlight[c] = obi_addr_q
  BY <1>2, InFlightWords
<1>10. SUFFICES \A i \in 1..(c + a - r) :
          InFlight'[i] = IF i + r =< c THEN InFlight[i + r] ELSE trans_addr(in)
  BY <1>1, <1>2, <1>3, <1>4, <1>5, EmptyCount DEF IInv, Answers
<1>11. CASE obi_state_q = "REGISTERED"
  <2>1. a = 0 /\ c = M + 1 /\ obi_addr(in) = obi_addr_q /\ obi_req(in)
    BY <1>1, <1>2, <1>11
    DEF Accepts, trans_accepted, trans_ready, IInv, Counted, Held, obi_addr, obi_req
  <2>2. InFlight' = Append(left, obi_addr_q)
    <3>1. CASE in.gnt
      <4>1. mem' = Append(left, obi_addr_q) /\ obi_state_q' = "TRANSPARENT"
        BY <1>8, <2>1, <3>1 DEF Cycle, NextObi
      <4> QED
        BY <4>1 DEF InFlight
    <3>2. CASE ~in.gnt
      <4>1. mem' = left /\ obi_state_q' = "REGISTERED" /\ obi_addr_q' = obi_addr_q
        BY <1>8, <1>11, <2>1, <3>2 DEF Cycle, NextObi
      <4> QED
        BY <4>1 DEF InFlight
    <3> QED
      BY <3>1, <3>2
  <2>3. /\ \A i \in 1..(M - r) : InFlight'[i] = left[i]
        /\ InFlight'[M - r + 1] = obi_addr_q
    BY <1>6, <1>7, <2>2, AppendProperties
  <2>4. ASSUME NEW i \in 1..(c - r)
        PROVE  InFlight'[i] = InFlight[i + r] /\ i + r =< c
    <3>1. CASE i =< M - r
      <4>1. i \in 1..(M - r) /\ i + r \in 1..M /\ i + r =< c
        BY <1>3, <2>1, <3>1
      <4> QED
        BY <1>7, <1>9, <2>3, <4>1
    <3>2. CASE ~(i =< M - r)
      <4>1. i = M - r + 1 /\ i + r = c
        BY <1>3, <2>1, <3>2
      <4> QED
        BY <1>9, <1>11, <2>3, <4>1
    <3> QED
      BY <3>1, <3>2
  <2> QED
    BY <2>1, <2>4
<1>12. CASE obi_state_q = "TRANSPARENT"
  <2>1. c = M /\ obi_addr(in) = trans_addr(in) /\ (obi_req(in) <=> a = 1)
    BY <1>1, <1>2, <1>12
    DEF Accepts, trans_accepted, trans_ready, IInv, Counted, Held, obi_addr, obi_req
  <2>2. CASE a = 0
    <3>1. mem' = left /\ obi_state_q' = "TRANSPARENT"
      BY <1>8, <2>1, <2>2 DEF Cycle, NextObi
    <3>2. InFlight' = left
      BY <3>1 DEF InFlight
    <3> QED
      BY <1>2, <1>3, <1>7, <1>9, <2>1, <2>2, <3>2
  <2>3. CASE a = 1
    <3>1. InFlight' = Append(left, trans_addr(in))
      <4>1. CASE in.gnt
        <5>1. mem' = Append(left, trans_addr(in)) /\ obi_state_q' = "TRANSPARENT"
          BY <1>8, <2>1, <2>3, <4>1 DEF Cycle, NextObi
        <5> QED
          BY <5>1 DEF InFlight
      <4>2. CASE ~in.gnt
        <5>1. mem' = left /\ obi_state_q' = "REGISTERED" /\ obi_addr_q' = trans_addr(in)
          BY <1>8, <1>12, <2>1, <2>3, <4>2 DEF Cycle, NextObi
        <5> QED
          BY <5>1 DEF InFlight
      <4> QED
        BY <4>1, <4>2
    <3>2. /\ \A i \in 1..(M - r) : InFlight'[i] = left[i]
          /\ InFlight'[M - r + 1] = trans_addr(in)
      BY <1>6, <1>7, <3>1, AppendProperties
    <3> QED
      BY <1>2, <1>3, <1>7, <1>9, <2>1, <2>3, <3>2
  <2> QED
    BY <1>1, <2>2, <2>3
<1> QED
  BY <1>11, <1>12 DEF IInv, TypeOK

\* The counters are naturals and only point at transactions in flight.
LEMMA LiveFacts ==
    ASSUME IInv
    PROVE  /\ LiveCount \in Nat /\ KeptCount \in Nat /\ Len(fifo) \in Nat
           /\ \A j \in 1..LiveCount : LiveAt(j) \in 1..cnt_q
<1>1. PICK c \in 0..Depth, fl \in 0..Depth, d \in 0..Depth, F \in Nat :
         c = cnt_q /\ fl = flush_cnt_q /\ d = hwlp_flush_cnt_delayed_q /\ F = Len(fifo)
  BY EmptyCount DEF IInv, TypeOK
<1>2. Depth \in Nat
  BY PrefetchAssumption
<1>3. CASE hwlp_flush_after_resp
  <2>1. d < c /\ LiveCount = c - d
    BY <1>1, <1>3 DEF IInv, FlushesOutstanding, LiveCount
  <2> QED
    BY <1>1, <1>2, <1>3, <2>1 DEF KeptCount, LiveAt
<1>4. CASE ~hwlp_flush_after_resp
  <2>1. fl =< c /\ LiveCount = c - fl
    BY <1>1, <1>4 DEF IInv, FlushesOutstanding, LiveCount
  <2> QED
    BY <1>1, <1>2, <1>4, <2>1 DEF KeptCount, LiveAt
<1> QED
  BY <1>3, <1>4

\* The responses that will be used, by position.
LEMMA LiveWords ==
    ASSUME IInv
    PROVE  /\ Live \in Seq(Addr) /\ Len(Live) = LiveCount
           /\ \A j \in 1..LiveCount : Live[j] = InFlight[LiveAt(j)]
<1>1. PICK c \in 0..Depth, fl \in 0..Depth, d \in 0..Depth :
         c = cnt_q /\ fl = flush_cnt_q /\ d = hwlp_flush_cnt_delayed_q
  BY DEF IInv, TypeOK
<1>2. Depth \in Nat
  BY PrefetchAssumption
<1>3. InFlight \in Seq(Addr) /\ Len(InFlight) = c
  BY <1>1, InFlightWords
<1>4. CASE hwlp_flush_after_resp
  <2> DEFINE rest == SubSeq(InFlight, d + 2, Len(InFlight))
  <2>1. d < c /\ LiveCount = c - d
    BY <1>1, <1>4 DEF IInv, FlushesOutstanding, LiveCount
  <2>2. /\ rest \in Seq(Addr) /\ Len(rest) = c - d - 1
        /\ \A i \in 1..(c - d - 1) : rest[i] = InFlight[d + 1 + i]
    <3>1. /\ d + 2 \in Int /\ c \in Int
          /\ \A i \in (d + 2)..c : InFlight[i] \in Addr
      BY <1>2, <1>3
    <3>2. /\ SubSeq(InFlight, d + 2, c) \in Seq(Addr)
          /\ Len(SubSeq(InFlight, d + 2, c)) = IF d + 2 =< c THEN c - (d + 2) + 1 ELSE 0
          /\ \A i \in 1..(c - (d + 2) + 1) :
                SubSeq(InFlight, d + 2, c)[i] = InFlight[d + 2 + i - 1]
      BY <3>1, SubSeqProperties
    <3>3. ASSUME NEW i \in 1..(c - d - 1)
          PROVE  i \in 1..(c - (d + 2) + 1) /\ d + 2 + i - 1 = d + 1 + i
      BY <1>2
    <3>4. (IF d + 2 =< c THEN c - (d + 2) + 1 ELSE 0) = c - d - 1
      BY <1>2, <2>1
    <3> QED
      BY <1>3, <3>2, <3>3, <3>4
  <2>3. Head(InFlight) = InFlight[1] /\ Head(InFlight) \in Addr
    BY <1>3, <2>1, HeadTailProperties
  <2>4. Live = <<InFlight[1]>> \o rest
    BY <1>1, <1>4, <2>3 DEF Live
  <2> HIDE DEF rest
  <2>5. /\ <<InFlight[1]>> \in Seq(Addr) /\ Len(<<InFlight[1]>>) = 1
        /\ <<InFlight[1]>>[1] = InFlight[1]
    BY <2>3
  <2>6. /\ Live \in Seq(Addr) /\ Len(Live) = 1 + Len(rest)
        /\ \A i \in 1..(1 + Len(rest)) :
              Live[i] = IF i =< 1 THEN <<InFlight[1]>>[i] ELSE rest[i - 1]
    BY <2>2, <2>4, <2>5, ConcatProperties
  <2>7. ASSUME NEW j \in 1..LiveCount PROVE Live[j] = InFlight[LiveAt(j)]
    <3>1. CASE j = 1
      BY <1>4, <2>1, <2>2, <2>5, <2>6, <3>1 DEF LiveAt
    <3>2. CASE j # 1
      <4>1. j - 1 \in 1..(c - d - 1) /\ ~(j =< 1) /\ d + 1 + (j - 1) = d + j
        BY <2>1, <3>2
      <4>2. Live[j] = rest[j - 1] /\ rest[j - 1] = InFlight[d + 1 + (j - 1)]
        BY <2>1, <2>2, <2>6, <3>2, <4>1
      <4> QED
        BY <1>1, <1>4, <3>2, <4>1, <4>2 DEF LiveAt
    <3> QED
      BY <3>1, <3>2
  <2> QED
    BY <2>1, <2>2, <2>6, <2>7
<1>5. CASE ~hwlp_flush_after_resp
  <2>1. fl =< c /\ LiveCount = c - fl
    BY <1>1, <1>5 DEF IInv, FlushesOutstanding, LiveCount
  <2>2. Live = SubSeq(InFlight, fl + 1, Len(InFlight))
    BY <1>1, <1>5 DEF Live
  <2>3. /\ Live \in Seq(Addr) /\ Len(Live) = c - fl
        /\ \A i \in 1..(c - fl) : Live[i] = InFlight[fl + i]
    BY <1>2, <1>3, <2>1, <2>2, SubSeqProperties
  <2> QED
    BY <1>1, <1>5, <2>1, <2>3 DEF LiveAt
<1> QED
  BY <1>4, <1>5

\* cnt_q always equals the number of transactions accepted and not answered.
THEOREM OutstandingCounted == Spec => []CountsOutstanding
<1>1. IInv => CountsOutstanding
  BY InFlightWords DEF CountsOutstanding
<1> QED
  BY <1>1, InductiveInvariant, PTL

\* The responses that will be used always fit in the FIFO: it never overflows.
THEOREM FifoNeverOverflows == Spec => []RoomForResponses
<1>1. IInv => RoomForResponses
  BY LiveWords DEF IInv, Room, RoomForResponses
<1> QED
  BY <1>1, InductiveInvariant, PTL

\* The controller requests addresses.
LEMMA NextRequestType == IInv => NextRequest \in Addr /\ Incr(NextRequest) \in Addr
BY IncrType DEF IInv, TypeOK, NextRequest

\* The words the fetch stage will be given, by position.
LEMMA UpcomingWords ==
    ASSUME IInv
    PROVE  \A i \in 1..(KeptCount + 2) : Upcoming[i] = WordAt(i)
<1>1. PICK F \in Nat, L \in Nat : F = Len(fifo) /\ L = LiveCount
  BY LiveFacts
<1>2. fifo \in Seq(Addr) /\ KeptCount = F + L
  BY <1>1 DEF IInv, TypeOK, KeptCount
<1> DEFINE kept == fifo \o Live
           ahead == <<NextRequest, Incr(NextRequest)>>
<1>3. /\ kept \in Seq(Addr) /\ Len(kept) = F + L
      /\ \A i \in 1..(F + L) : kept[i] = IF i =< F THEN fifo[i] ELSE Live[i - F]
  BY <1>1, <1>2, LiveWords, ConcatProperties
<1>4. /\ ahead \in Seq(Addr) /\ Len(ahead) = 2
      /\ ahead[1] = NextRequest /\ ahead[2] = Incr(NextRequest)
  BY NextRequestType
<1>5. Upcoming = kept \o ahead
  <2>1. fifo \o Live \o ahead = kept \o ahead
    OBVIOUS
  <2> QED
    BY <2>1 DEF Upcoming
<1> HIDE DEF kept, ahead
<1>6. \A i \in 1..(F + L + 2) :
         Upcoming[i] = IF i =< F + L THEN kept[i] ELSE ahead[i - (F + L)]
  <2>1. \A i \in 1..(Len(kept) + Len(ahead)) :
           (kept \o ahead)[i] = IF i =< Len(kept) THEN kept[i] ELSE ahead[i - Len(kept)]
    BY <1>3, <1>4, ConcatProperties
  <2> QED
    BY <1>3, <1>4, <1>5, <2>1
<1>7. ASSUME NEW i \in 1..(F + L + 2) PROVE Upcoming[i] = WordAt(i)
  <2>1. CASE i =< F
    BY <1>1, <1>3, <1>6, <2>1 DEF WordAt
  <2>2. CASE ~(i =< F) /\ i =< F + L
    <3>1. i - F \in 1..L
      BY <2>2
    <3>2. Upcoming[i] = Live[i - F]
      BY <1>3, <1>6, <2>2
    <3> QED
      BY <1>1, <1>2, <2>2, <3>1, <3>2, LiveWords DEF WordAt
  <2>3. CASE i = F + L + 1
    <3>1. Upcoming[i] = ahead[1]
      BY <1>6, <2>3
    <3> QED
      BY <1>1, <1>2, <1>4, <2>3, <3>1 DEF WordAt
  <2>4. CASE i = F + L + 2
    <3>1. Upcoming[i] = ahead[2]
      BY <1>6, <2>4
    <3> QED
      BY <1>1, <1>2, <1>4, <2>4, <3>1 DEF WordAt
  <2> QED
    BY <2>1, <2>2, <2>3, <2>4
<1> QED
  BY <1>1, <1>2, <1>7

\* A word taken is the first one kept, in the FIFO or arriving in this cycle.
LEMMA TakesWord ==
    ASSUME IInv, NEW in \in Inputs, Cycle(in), fetch_ready(in)
    PROVE  /\ ~in.branch /\ in.req /\ flush_cnt_q = 0
           /\ fifo = <<>> => in.rvalid
           /\ KeptCount >= 1
           /\ fetch_rdata = WordAt(1)
<1>1. PICK F \in Nat, c \in 0..Depth : F = Len(fifo) /\ c = cnt_q
  BY EmptyCount DEF IInv, TypeOK
<1>2. /\ ~in.branch /\ in.req /\ flush_cnt_q = 0
      /\ fifo = <<>> => in.rvalid
  BY DEF fetch_ready, fetch_valid, resp_valid
<1>3. fifo \in Seq(Addr) /\ mem \in Seq(Addr)
  BY DEF IInv, TypeOK
<1>4. CASE fifo # <<>>
  <2>1. F >= 1
    BY <1>1, <1>4, EmptyCount DEF IInv
  <2>2. fetch_rdata = fifo[1]
    BY <1>3, <1>4, HeadTailProperties DEF fetch_rdata
  <2> QED
    BY <1>1, <1>2, <2>1, <2>2, LiveFacts DEF KeptCount, WordAt
<1>5. CASE fifo = <<>>
  <2>1. mem # <<>> /\ F = 0 /\ in.rvalid
    BY <1>1, <1>2, <1>5, EmptyCount DEF IInv, Cycle
  <2>2. fetch_rdata = InFlight[1]
    BY <1>5, <2>1, InFlightWords DEF fetch_rdata
  <2>3. c >= 1
    BY <1>1, <2>1, EmptyCount DEF IInv, Counted, Held
  <2>4. LiveAt(1) = 1
    BY <1>2 DEF LiveAt
  <2>5. LiveCount >= 1
    BY <1>1, <1>2, <2>3 DEF IInv, TypeOK, FlushesOutstanding, LiveCount
  <2>6. KeptCount = 0 + LiveCount
    BY <1>1, <2>1 DEF KeptCount
  <2> QED
    BY <1>1, <1>2, <2>1, <2>2, <2>4, <2>5, <2>6, LiveFacts DEF WordAt
<1> QED
  BY <1>4, <1>5

\* The FIFO in a cycle that flushes nothing: one word in behind, one out in front.
LEMMA FifoWords ==
    ASSUME IInv, NEW in \in Inputs, Cycle(in),
           ~fifo_flush(in), ~fifo_flush_but_first(in), ~in.branch,
           flush_cnt_q = 0, Len(fifo) + Answers(in) =< Depth
    PROVE  /\ Len(fifo') = Len(fifo) + Answers(in) - Takes(in)
           /\ \A i \in 1..(Len(fifo) + Answers(in) - Takes(in)) :
                 fifo'[i] = IF i + Takes(in) =< Len(fifo)
                            THEN fifo[i + Takes(in)] ELSE Head(mem)
<1>1. PICK r \in 0..1, p \in 0..1 : r = Answers(in) /\ p = Takes(in)
  BY DEF Answers, Takes
<1>2. PICK F \in Nat : F = Len(fifo)
  BY EmptyCount DEF IInv
<1>3. fifo \in Seq(Addr) /\ mem \in Seq(Addr) /\ Depth \in Nat
  BY PrefetchAssumption DEF IInv, TypeOK
<1>4. (fifo = <<>> <=> F = 0) /\ (p = 1 => F + r >= 1) /\ F + r =< Depth
  BY <1>1, <1>2, EmptyCount, TakesWord DEF IInv, Takes, Answers
<1> DEFINE push == fifo_push(in)
           pop  == fifo_pop(in)
           rest == IF pop /\ fifo # <<>> THEN Tail(fifo) ELSE fifo
<1>5. fifo' = IF push /\ Len(fifo) < Depth THEN Append(rest, Head(mem)) ELSE rest
  BY DEF Cycle, NextFifo, Fifo!Cycle, Fifo!PushPop
<1>6. /\ push <=> r = 1 /\ (F > 0 \/ p = 0)
      /\ pop <=> F > 0 /\ p = 1
  BY <1>1, <1>2, <1>4 DEF fifo_push, fifo_pop, resp_valid, Answers, Takes
<1>7. PICK o \in 0..1 : o = IF F > 0 /\ p = 1 THEN 1 ELSE 0
  OBVIOUS
<1>8. /\ rest \in Seq(Addr) /\ Len(rest) = F - o
      /\ \A i \in 1..(F - o) : rest[i] = fifo[i + o]
  <2>1. CASE o = 1
    <3>1. fifo # <<>> /\ rest = Tail(fifo)
      BY <1>4, <1>6, <1>7, <2>1
    <3>2. /\ Tail(fifo) \in Seq(Addr) /\ Len(Tail(fifo)) = Len(fifo) - 1
          /\ \A i \in 1..Len(Tail(fifo)) : Tail(fifo)[i] = fifo[i + 1]
      BY <1>3, <3>1, HeadTailProperties
    <3> QED
      BY <1>2, <2>1, <3>1, <3>2
  <2>2. CASE o = 0
    <3>1. rest = fifo
      BY <1>6, <1>7, <2>2
    <3> QED
      BY <1>2, <1>3, <2>2, <3>1
  <2> QED
    BY <2>1, <2>2
<1> HIDE DEF rest, push, pop
<1>9. CASE r = 1 /\ (F > 0 \/ p = 0)
  <2>1. in.rvalid /\ mem # <<>> /\ Head(mem) \in Addr
    BY <1>1, <1>3, <1>9, HeadTailProperties DEF Answers, Cycle
  <2>2. fifo' = Append(rest, Head(mem))
    BY <1>2, <1>3, <1>4, <1>5, <1>6, <1>9
  <2>3. /\ Len(fifo') = F - o + 1
        /\ \A i \in 1..(F - o) : fifo'[i] = rest[i]
        /\ fifo'[F - o + 1] = Head(mem)
    BY <1>8, <2>1, <2>2, AppendProperties
  <2>4. o = p
    BY <1>4, <1>7, <1>9
  <2>5. ASSUME NEW i \in 1..(F + r - p)
        PROVE  fifo'[i] = IF i + p =< F THEN fifo[i + p] ELSE Head(mem)
    <3>1. CASE i =< F - o
      <4>1. i \in 1..(F - o) /\ i + p =< F
        BY <2>4, <3>1
      <4> QED
        BY <1>8, <2>3, <2>4, <4>1
    <3>2. CASE ~(i =< F - o)
      <4>1. i = F - o + 1 /\ ~(i + p =< F)
        BY <1>9, <2>4, <3>2
      <4> QED
        BY <2>3, <4>1
    <3> QED
      BY <3>1, <3>2
  <2> QED
    BY <1>1, <1>2, <1>9, <2>3, <2>4, <2>5
<1>10. CASE ~(r = 1 /\ (F > 0 \/ p = 0))
  <2>1. fifo' = rest
    BY <1>5, <1>6, <1>10
  <2>2. F - o = F + r - p
    BY <1>4, <1>7, <1>10
  <2>3. ASSUME NEW i \in 1..(F + r - p)
        PROVE  i \in 1..(F - o) /\ o = p /\ i + p =< F
    BY <1>4, <1>7, <1>10
  <2> QED
    BY <1>1, <1>2, <1>8, <2>1, <2>2, <2>3
<1> QED
  BY <1>9, <1>10

\* The address requested, and the one to be requested next.
LEMMA RequestStep ==
    ASSUME IInv, NEW in \in Inputs, Cycle(in)
    PROVE  /\ ~in.branch /\ ~in.hwlp =>
                 /\ trans_addr(in) = NextRequest
                 /\ NextRequest' = IF Accepts(in) = 1 THEN Incr(NextRequest) ELSE NextRequest
           /\ in.branch \/ (in.hwlp /\ state_q = "IDLE") =>
                 /\ trans_addr(in) = in.target
                 /\ NextRequest' = IF Accepts(in) = 1 THEN Incr(in.target) ELSE in.target
<1>1. /\ state_q' = IF state_q = "IDLE"
                    THEN IF (in.branch \/ in.hwlp) /\ ~trans_accepted(in)
                         THEN "BRANCH_WAIT" ELSE "IDLE"
                    ELSE IF trans_accepted(in) THEN "IDLE" ELSE "BRANCH_WAIT"
      /\ trans_addr_q' = IF in.branch \/ in.hwlp \/ trans_accepted(in)
                         THEN trans_addr(in) ELSE trans_addr_q
      /\ state_q \in {"IDLE", "BRANCH_WAIT"}
  BY DEF Cycle, NextState, NextTransAddr, IInv, TypeOK
<1>2. Accepts(in) = 1 <=> trans_accepted(in)
  BY DEF Accepts
<1>3. ASSUME ~in.branch, ~in.hwlp
      PROVE  /\ trans_addr(in) = NextRequest
             /\ NextRequest' = IF Accepts(in) = 1 THEN Incr(NextRequest) ELSE NextRequest
  <2>1. trans_addr(in) = NextRequest
    BY <1>3 DEF trans_addr, NextRequest
  <2>2. CASE trans_accepted(in)
    <3>1. state_q' = "IDLE" /\ trans_addr_q' = NextRequest
      BY <1>1, <1>3, <2>1, <2>2
    <3> QED
      BY <1>2, <2>1, <2>2, <3>1 DEF NextRequest, Incr
  <2>3. CASE ~trans_accepted(in)
    BY <1>1, <1>2, <1>3, <2>1, <2>3 DEF NextRequest, Incr
  <2> QED
    BY <2>1, <2>2, <2>3
<1>4. ASSUME in.branch \/ (in.hwlp /\ state_q = "IDLE")
      PROVE  /\ trans_addr(in) = in.target
             /\ NextRequest' = IF Accepts(in) = 1 THEN Incr(in.target) ELSE in.target
  <2>1. trans_addr(in) = in.target /\ trans_addr_q' = in.target
    BY <1>1, <1>4 DEF trans_addr
  <2>2. state_q' = IF trans_accepted(in) THEN "IDLE" ELSE "BRANCH_WAIT"
    BY <1>1, <1>4
  <2> QED
    BY <1>2, <2>1, <2>2 DEF NextRequest, Incr
<1> QED
  BY <1>3, <1>4

\* The flush counters in a cycle without a redirect.
LEMMA AdvanceCounters ==
    ASSUME IInv, NEW in \in Inputs, Advance(in)
    PROVE  /\ Cycle(in) /\ ~in.branch /\ ~in.hwlp
           /\ ~fifo_flush(in) /\ ~fifo_flush_but_first(in)
           /\ hwlp_flush_after_resp' <=> (hwlp_flush_after_resp /\ ~in.rvalid)
           /\ hwlp_flush_after_resp /\ ~in.rvalid =>
                 hwlp_flush_cnt_delayed_q' = hwlp_flush_cnt_delayed_q
           /\ flush_cnt_q' = IF hwlp_flush_after_resp /\ in.rvalid
                             THEN hwlp_flush_cnt_delayed_q
                             ELSE IF in.rvalid /\ flush_cnt_q > 0
                             THEN flush_cnt_q - 1 ELSE flush_cnt_q
<1>1. /\ Cycle(in) /\ ~in.branch /\ ~in.hwlp
      /\ ~fifo_flush(in) /\ ~fifo_flush_but_first(in)
      /\ ~hwlp_flush_resp(in) /\ ~hwlp_wait_resp_flush(in)
  BY DEF Advance, fifo_flush, fifo_flush_but_first, hwlp_flush_resp, hwlp_wait_resp_flush
<1>2. hwlp_flush_after_resp \in BOOLEAN /\ in.rvalid \in BOOLEAN
  BY DEF IInv, TypeOK, Inputs
<1>3. hwlp_flush_resp_delayed(in) <=> hwlp_flush_after_resp /\ in.rvalid
  BY DEF hwlp_flush_resp_delayed, resp_valid
<1>4. flush_cnt_q' = IF hwlp_flush_after_resp /\ in.rvalid
                             THEN hwlp_flush_cnt_delayed_q
                             ELSE IF in.rvalid /\ flush_cnt_q > 0
                             THEN flush_cnt_q - 1 ELSE flush_cnt_q
  BY <1>1, <1>3 DEF Cycle, NextFlushCnt, resp_valid
<1>5. CASE hwlp_flush_after_resp /\ in.rvalid
  BY <1>1, <1>3, <1>4, <1>5 DEF Cycle, NextDelayedFlush
<1>6. CASE ~(hwlp_flush_after_resp /\ in.rvalid)
  BY <1>1, <1>2, <1>3, <1>4, <1>6 DEF Cycle, NextDelayedFlush
<1> QED
  BY <1>5, <1>6

\* A cycle without a redirect: the words keep their order, a request accepted adds
\* the next one and a word taken is the first.
LEMMA AdvanceWords ==
    ASSUME IInv, IInv', NEW in \in Inputs, Advance(in)
    PROVE  /\ KeptCount' = KeptCount + Accepts(in) - Takes(in)
           /\ \A i \in 1..KeptCount' : WordAt(i)' = WordAt(i + Takes(in))
<1>1. PICK a \in 0..1, r \in 0..1, p \in 0..1 :
         a = Accepts(in) /\ r = Answers(in) /\ p = Takes(in)
  BY DEF Accepts, Answers, Takes
<1>2. PICK c \in 0..Depth, fl \in 0..Depth, d \in 0..Depth, F \in Nat, L \in Nat :
         /\ c = cnt_q /\ fl = flush_cnt_q /\ d = hwlp_flush_cnt_delayed_q
         /\ F = Len(fifo) /\ L = LiveCount
  BY LiveFacts DEF IInv, TypeOK
<1>3. PICK cn, fln, dn, Fn :
         cn = cnt_q' /\ fln = flush_cnt_q' /\ dn = hwlp_flush_cnt_delayed_q'
         /\ Fn = Len(fifo')
  OBVIOUS
<1>4. Depth \in Nat /\ KeptCount = F + L /\ NextRequest \in Addr
  BY <1>2, PrefetchAssumption, NextRequestType DEF KeptCount
<1>5. /\ Cycle(in) /\ ~in.branch /\ ~in.hwlp
      /\ ~fifo_flush(in) /\ ~fifo_flush_but_first(in)
  BY AdvanceCounters
<1>6. /\ cn = c + a - r /\ (r = 1 => c >= 1 /\ InFlight[1] = Head(mem))
      /\ \A i \in 1..cn :
            InFlight'[i] = IF i + r =< c THEN InFlight[i + r] ELSE NextRequest
  BY <1>1, <1>2, <1>3, <1>5, InFlightStep, InFlightWords, RequestStep DEF Answers
<1>7. /\ p = 1 => fl = 0 /\ (F = 0 => r = 1)
  BY <1>1, <1>2, <1>5, EmptyCount, TakesWord DEF IInv, Takes, Answers
<1>8. /\ hwlp_flush_after_resp => d < c /\ fl = 0 /\ F = 0 /\ L = c - d
      /\ ~hwlp_flush_after_resp => fl =< c /\ L = c - fl
      /\ F + L =< Depth
  BY <1>2, EmptyCount DEF IInv, FlushesOutstanding, LiveCount, Room
<1>9. fl = 0 => F + r =< Depth
  BY <1>4, <1>6, <1>8, PrefetchAssumption
<1>10. fl = 0 => /\ Fn = F + r - p
                 /\ \A i \in 1..(F + r - p) :
                       fifo'[i] = IF i + p =< F THEN fifo[i + p] ELSE Head(mem)
  BY <1>1, <1>2, <1>3, <1>5, <1>9, FifoWords
<1>11. fl > 0 => fifo' = fifo
  <2> SUFFICES ASSUME fl > 0 PROVE fifo' = fifo
    OBVIOUS
  <2>1. ~fifo_push(in) /\ ~fifo_pop(in)
    BY <1>2 DEF fifo_push, fifo_pop, fetch_ready, fetch_valid
  <2> QED
    BY <1>5, <2>1 DEF Cycle, NextFifo, Fifo!Cycle, Fifo!PushPop
<1>12. /\ hwlp_flush_after_resp' <=> hwlp_flush_after_resp /\ r = 0
       /\ hwlp_flush_after_resp /\ r = 0 => dn = d
       /\ fln = IF hwlp_flush_after_resp /\ r = 1 THEN d
                ELSE IF r = 1 /\ fl > 0 THEN fl - 1 ELSE fl
  <2>1. in.rvalid <=> r = 1
    BY <1>1 DEF Answers
  <2>2. hwlp_flush_after_resp' <=> (hwlp_flush_after_resp /\ ~in.rvalid)
    BY AdvanceCounters
  <2>3. hwlp_flush_after_resp' <=> hwlp_flush_after_resp /\ r = 0
    BY <2>1, <2>2
  <2>4. hwlp_flush_after_resp /\ r = 0 => dn = d
    BY <1>2, <1>3, <2>1, AdvanceCounters
  <2>5. fln = IF hwlp_flush_after_resp /\ r = 1 THEN d
              ELSE IF r = 1 /\ fl > 0 THEN fl - 1 ELSE fl
    BY <1>2, <1>3, <2>1, AdvanceCounters
  <2> QED
    BY <2>3, <2>4, <2>5
<1>13. SUFFICES ASSUME NEW K, K = KeptCount'
                PROVE  /\ K = F + L + a - p
                       /\ \A i \in 1..K : WordAt(i)' = WordAt(i + p)
  BY <1>1, <1>4
\* The words of the new state, by position.
<1>14. LiveCount' = IF hwlp_flush_after_resp' THEN cn - dn ELSE cn - fln
  BY <1>3 DEF LiveCount
<1>15. K = Fn + LiveCount'
  BY <1>3, <1>13 DEF KeptCount
<1>16. \A i \in 1..K :
          WordAt(i)' = IF i =< Fn THEN fifo'[i]
                       ELSE InFlight'[IF hwlp_flush_after_resp'
                                      THEN IF i - Fn = 1 THEN 1 ELSE dn + (i - Fn)
                                      ELSE fln + (i - Fn)]
  BY <1>3, <1>13 DEF WordAt, LiveAt
<1>17. \A i \in 1..(F + L + 1) :
          WordAt(i) = IF i =< F THEN fifo[i]
                      ELSE IF i =< F + L
                      THEN InFlight[IF hwlp_flush_after_resp
                                    THEN IF i - F = 1 THEN 1 ELSE d + (i - F)
                                    ELSE fl + (i - F)]
                      ELSE NextRequest
  BY <1>2, <1>4 DEF WordAt, LiveAt
<1>18. CASE hwlp_flush_after_resp /\ r = 1
  <2>1. Fn = 1 - p /\ K = L + a - p /\ F = 0 /\ fl = 0 /\ fln = d /\ L = c - d
    BY <1>6, <1>8, <1>10, <1>12, <1>14, <1>15, <1>18
  <2>2. ASSUME NEW i \in 1..K PROVE WordAt(i)' = WordAt(i + p)
    <3>1. CASE i =< Fn
      <4>1. i = 1 /\ p = 0
        BY <2>1, <3>1
      <4>2. WordAt(i)' = InFlight[1]
        BY <1>6, <1>10, <1>16, <1>18, <2>1, <3>1, <4>1
      <4>3. WordAt(1) = InFlight[1]
        BY <1>8, <1>17, <1>18, <2>1
      <4> QED
        BY <4>1, <4>2, <4>3
    <3>2. CASE ~(i =< Fn)
      <4>1. /\ d + (i - Fn) \in 1..cn /\ d + (i - Fn) + r = d + i + p
            /\ i + p \in 2..(L + 1)
        BY <1>6, <1>8, <1>18, <2>1, <3>2
      <4>2. WordAt(i)' = IF d + i + p =< c THEN InFlight[d + i + p] ELSE NextRequest
        BY <1>6, <1>12, <1>16, <1>18, <2>1, <3>2, <4>1
      <4>3. WordAt(i + p) = IF i + p =< L THEN InFlight[d + i + p] ELSE NextRequest
        BY <1>17, <1>18, <2>1, <4>1
      <4> QED
        BY <2>1, <4>2, <4>3
    <3> QED
      BY <3>1, <3>2
  <2> QED
    BY <2>1, <2>2
<1>19. CASE hwlp_flush_after_resp /\ r = 0
  <2>1. /\ Fn = 0 /\ p = 0 /\ K = L + a /\ F = 0 /\ dn = d /\ L = c - d /\ d < c
        /\ cn = c + a
    BY <1>6, <1>7, <1>8, <1>10, <1>12, <1>14, <1>15, <1>19
  <2>2. ASSUME NEW i \in 1..K PROVE WordAt(i)' = WordAt(i + p)
    <3>1. CASE i = 1
      <4>1. WordAt(i)' = InFlight'[1] /\ 1 \in 1..cn
        BY <1>6, <1>12, <1>16, <1>19, <2>1, <3>1
      <4>2. InFlight'[1] = InFlight[1]
        BY <1>6, <1>19, <2>1, <4>1
      <4>3. WordAt(1) = InFlight[1]
        BY <1>17, <1>19, <2>1
      <4> QED
        BY <2>1, <3>1, <4>1, <4>2, <4>3
    <3>2. CASE i # 1
      <4>1. /\ d + i \in 1..cn /\ i \in 2..(L + 1)
        BY <2>1, <3>2
      <4>2. WordAt(i)' = InFlight'[d + i]
        BY <1>12, <1>16, <1>19, <2>1, <3>2, <4>1
      <4>3. InFlight'[d + i] = IF d + i =< c THEN InFlight[d + i] ELSE NextRequest
        BY <1>6, <1>19, <2>1, <4>1
      <4>4. WordAt(i) = IF i =< L THEN InFlight[d + i] ELSE NextRequest
        BY <1>17, <1>19, <2>1, <4>1
      <4> QED
        BY <2>1, <4>1, <4>2, <4>3, <4>4
    <3> QED
      BY <3>1, <3>2
  <2> QED
    BY <2>1, <2>2
<1>20. CASE ~hwlp_flush_after_resp
  <2>1. ~hwlp_flush_after_resp' /\ fln = (IF r = 1 /\ fl > 0 THEN fl - 1 ELSE fl)
        /\ L = c - fl /\ fl =< c
    BY <1>8, <1>12, <1>20
  <2>2. CASE fl > 0
    <3>1. Fn = F /\ p = 0 /\ fln = fl - r /\ K = F + L + a
      <4>1. Fn = F /\ p = 0 /\ fln = fl - r
        BY <1>2, <1>3, <1>7, <1>11, <2>1, <2>2
      <4>2. K = F + (c + a - r - (fl - r))
        BY <1>6, <1>14, <1>15, <2>1, <4>1
      <4> QED
        BY <2>1, <4>1, <4>2
    <3>2. ASSUME NEW i \in 1..K PROVE WordAt(i)' = WordAt(i + p)
      <4>1. CASE i =< F
        <5>1. WordAt(i)' = fifo[i] /\ WordAt(i) = fifo[i]
          BY <1>11, <1>16, <1>17, <2>2, <3>1, <4>1
        <5> QED
          BY <3>1, <5>1
      <4>2. CASE ~(i =< F)
        <5>1. fl - r + (i - F) \in 1..cn /\ fl - r + (i - F) + r = fl + (i - F)
              /\ i \in 1..(F + L + 1)
          BY <1>6, <2>1, <2>2, <3>1, <4>2
        <5>2. WordAt(i)' = InFlight'[fl - r + (i - F)]
          BY <1>16, <2>1, <3>1, <4>2
        <5>3. WordAt(i)' = IF fl + (i - F) =< c THEN InFlight[fl + (i - F)] ELSE NextRequest
          BY <1>6, <5>1, <5>2
        <5>4. WordAt(i) = IF i =< F + L THEN InFlight[fl + (i - F)] ELSE NextRequest
          BY <1>17, <1>20, <4>2, <5>1
        <5> QED
          BY <2>1, <3>1, <5>1, <5>3, <5>4
      <4> QED
        BY <4>1, <4>2
    <3> QED
      BY <3>1, <3>2
  <2>3. CASE fl = 0
    <3>1. Fn = F + r - p /\ fln = 0 /\ L = c /\ K = F + L + a - p
      BY <1>6, <1>10, <1>14, <1>15, <2>1, <2>3
    <3>2. ASSUME NEW i \in 1..K PROVE WordAt(i)' = WordAt(i + p)
      <4>1. CASE i =< Fn
        <5>1. WordAt(i)' = IF i + p =< F THEN fifo[i + p] ELSE Head(mem)
          BY <1>10, <1>16, <2>3, <3>1, <4>1
        <5>2. CASE i + p =< F
          BY <1>17, <3>1, <5>1, <5>2
        <5>3. CASE ~(i + p =< F)
          <6>1. i + p = F + 1 /\ r = 1 /\ F + 1 =< F + L
            BY <1>6, <3>1, <4>1, <5>3
          <6>2. WordAt(F + 1) = InFlight[0 + ((F + 1) - F)]
            BY <1>17, <1>20, <2>3, <6>1
          <6>3. WordAt(F + 1) = InFlight[1]
            BY <6>2
          <6> QED
            BY <1>6, <5>1, <5>3, <6>1, <6>3
        <5> QED
          BY <5>2, <5>3
      <4>2. CASE ~(i =< Fn)
        <5>1. /\ i - Fn \in 1..cn /\ i - Fn + r = i + p - F
              /\ i + p \in 1..(F + L + 1) /\ ~(i + p =< F)
          BY <1>6, <1>7, <3>1, <4>2
        <5>2. WordAt(i)' = InFlight'[i - Fn]
          BY <1>16, <2>1, <3>1, <4>2
        <5>3. WordAt(i)' = IF i + p - F =< c THEN InFlight[i + p - F] ELSE NextRequest
          BY <1>6, <5>1, <5>2
        <5>4. WordAt(i + p) = IF i + p =< F + L THEN InFlight[i + p - F] ELSE NextRequest
          BY <1>17, <1>20, <2>3, <5>1
        <5> QED
          BY <3>1, <5>1, <5>3, <5>4
      <4> QED
        BY <4>1, <4>2
    <3> QED
      BY <3>1, <3>2
  <2> QED
    BY <2>2, <2>3
<1> QED
  BY <1>1, <1>18, <1>19, <1>20

\* A branch: nothing but its target's words, the first of them if it was requested.
LEMMA BranchWords ==
    ASSUME IInv, IInv', NEW in \in Inputs, Branch(in)
    PROVE  /\ Takes(in) = 0
           /\ KeptCount' = Accepts(in)
           /\ \A i \in 1..KeptCount' : WordAt(i)' = in.target
<1>1. PICK a \in 0..1, r \in 0..1 : a = Accepts(in) /\ r = Answers(in)
  BY DEF Accepts, Answers
<1>2. PICK c \in 0..Depth : c = cnt_q
  BY DEF IInv, TypeOK
<1>3. Depth \in Nat
  BY PrefetchAssumption
<1>4. Cycle(in) /\ in.branch /\ ~fetch_ready(in) /\ fifo_flush(in)
  BY DEF Branch, fetch_ready, fifo_flush
<1>5. in.rvalid <=> r = 1
  BY <1>1 DEF Answers
<1>6. /\ cnt_q' = c + a - r /\ (r = 1 => c >= 1)
      /\ \A i \in 1..(c + a - r) :
            InFlight'[i] = IF i + r =< c THEN InFlight[i + r] ELSE in.target
  BY <1>1, <1>2, <1>4, <1>5, InFlightStep, RequestStep
<1>7. fifo' = <<>> /\ Len(fifo') = 0
  BY <1>4 DEF Cycle, NextFifo, Fifo!Cycle
<1>8. ~hwlp_flush_after_resp'
  BY <1>4 DEF Cycle, NextDelayedFlush
<1>9. flush_cnt_q' = c - r
  BY <1>2, <1>4, <1>5, <1>6 DEF Cycle, NextFlushCnt, resp_valid
<1>10. LiveCount' = a /\ KeptCount' = a
  BY <1>3, <1>6, <1>7, <1>8, <1>9 DEF LiveCount, KeptCount
<1>11. ASSUME NEW i \in 1..a PROVE WordAt(i)' = in.target
  <2>1. i = 1 /\ a = 1
    BY <1>11
  <2>2. WordAt(i)' = InFlight'[(c - r) + (i - 0)]
    BY <1>7, <1>8, <1>9, <1>10, <2>1 DEF WordAt, LiveAt
  <2>3. c - r + 1 \in 1..(c + a - r) /\ ~(c - r + 1 + r =< c)
    BY <1>3, <1>6, <2>1
  <2>4. (c - r) + (i - 0) = c - r + 1
    BY <2>1
  <2> QED
    BY <1>6, <2>2, <2>3, <2>4
<1> QED
  BY <1>1, <1>4, <1>10, <1>11 DEF Takes

\* A loop jump: the last word of the body, unless it is taken at once, and the words
\* of the loop's start behind it.
LEMMA LoopJumpWords ==
    ASSUME IInv, IInv', NEW in \in Inputs, LoopJump(in)
    PROVE  /\ state_q = "IDLE" /\ KeptCount >= 1
           /\ KeptCount' = 1 - Takes(in) + Accepts(in)
           /\ \A i \in 1..KeptCount' :
                 WordAt(i)' = IF i + Takes(in) = 1 THEN WordAt(1) ELSE in.target
<1>1. PICK a \in 0..1, r \in 0..1, p \in 0..1 :
         a = Accepts(in) /\ r = Answers(in) /\ p = Takes(in)
  BY DEF Accepts, Answers, Takes
<1>2. PICK c \in 0..Depth, F \in Nat : c = cnt_q /\ F = Len(fifo)
  BY EmptyCount DEF IInv, TypeOK
<1>3. Depth \in Nat /\ Depth >= 2 /\ fifo \in Seq(Addr) /\ mem \in Seq(Addr)
  BY PrefetchAssumption DEF IInv, TypeOK
<1>4. /\ in.hwlp /\ ~in.branch /\ CorevPulp /\ loop_gap = 0 /\ Cycle(in)
      /\ (in.rvalid <=> r = 1) /\ (fetch_ready(in) <=> p = 1)
  BY <1>1 DEF LoopJump, Answers, Takes
<1>5. /\ flush_cnt_q = 0 /\ ~hwlp_flush_after_resp /\ F + c > 0 /\ F + c =< Depth
      /\ state_q = "IDLE" /\ LiveCount = c /\ KeptCount = F + c
  <2>1. flush_cnt_q = 0 /\ F + c > 0
    BY <1>2, <1>4 DEF IInv, TypeOK, Phase
  <2>2. ~hwlp_flush_after_resp
    BY <1>4 DEF IInv, TypeOK, Phase, GapAfterLoop
  <2>3. LiveCount = c
    BY <1>2, <2>1, <2>2 DEF LiveCount
  <2>4. F + c =< Depth /\ KeptCount = F + c
    BY <1>2, <2>3 DEF IInv, Room, KeptCount
  <2>5. state_q = "IDLE"
    BY <1>2, <1>4, <2>3 DEF IInv, TypeOK, Phase
  <2> QED
    BY <2>1, <2>2, <2>3, <2>4, <2>5
<1>6. /\ cnt_q' = c + a - r /\ (r = 1 => c >= 1 /\ mem # <<>> /\ InFlight[1] = Head(mem))
      /\ \A i \in 1..(c + a - r) :
            InFlight'[i] = IF i + r =< c THEN InFlight[i + r] ELSE in.target
  BY <1>1, <1>2, <1>4, <1>5, InFlightStep, InFlightWords, RequestStep
<1>7. /\ F = 0 /\ p = 1 => r = 1
      /\ fifo = <<>> <=> F = 0
  BY <1>2, <1>4, EmptyCount, TakesWord DEF IInv
<1>8. WordAt(1) = IF F > 0 THEN fifo[1] ELSE InFlight[1]
  BY <1>2, <1>5 DEF WordAt, LiveAt
<1>9. CASE F = 0 /\ r = 0
  <2>1. p = 0 /\ c >= 1
    BY <1>5, <1>7, <1>9
  <2>2. hwlp_wait_resp_flush(in) /\ ~hwlp_flush_resp(in)
    BY <1>4, <1>7, <1>9 DEF hwlp_wait_resp_flush, hwlp_flush_resp, resp_valid
  <2>3. hwlp_flush_after_resp' /\ hwlp_flush_cnt_delayed_q' = c - 1
    BY <1>2, <1>4, <2>2 DEF Cycle, NextDelayedFlush
  <2>4. fifo' = <<>> /\ Len(fifo') = 0
    <3>1. /\ ~fifo_flush(in) /\ ~fifo_flush_but_first(in)
          /\ ~fifo_push(in) /\ ~fifo_pop(in)
      BY <1>4, <1>7, <1>9
      DEF fifo_flush, fifo_flush_but_first, fifo_push, fifo_pop, resp_valid
    <3> QED
      BY <1>4, <1>7, <1>9, <3>1 DEF Cycle, NextFifo, Fifo!Cycle, Fifo!PushPop
  <2>5. LiveCount' = 1 + a /\ KeptCount' = 1 + a
    BY <1>6, <1>9, <2>1, <2>3, <2>4 DEF LiveCount, KeptCount
  <2>6. ASSUME NEW i \in 1..(1 + a)
        PROVE  WordAt(i)' = IF i = 1 THEN WordAt(1) ELSE in.target
    <3>1. WordAt(i)' = InFlight'[IF i = 1 THEN 1 ELSE c - 1 + i]
      BY <2>3, <2>4, <2>5 DEF WordAt, LiveAt
    <3>2. CASE i = 1
      <4>1. 1 \in 1..(c + a - r) /\ 1 + r =< c /\ 1 + r = 1
        BY <1>9, <2>1
      <4> QED
        BY <1>6, <1>8, <1>9, <3>1, <3>2, <4>1
    <3>3. CASE i # 1
      <4>1. c - 1 + i \in 1..(c + a - r) /\ ~(c - 1 + i + r =< c)
        BY <1>9, <2>1, <3>3
      <4> QED
        BY <1>6, <3>1, <3>3, <4>1
    <3> QED
      BY <3>2, <3>3
  <2> QED
    BY <1>1, <1>5, <2>1, <2>5, <2>6
<1>10. CASE ~(F = 0 /\ r = 0)
  <2>1. hwlp_flush_resp(in) /\ ~hwlp_wait_resp_flush(in) /\ ~hwlp_flush_resp_delayed(in)
    BY <1>4, <1>5, <1>7, <1>10
    DEF hwlp_wait_resp_flush, hwlp_flush_resp, resp_valid, hwlp_flush_resp_delayed
  <2>2. ~hwlp_flush_after_resp'
    BY <1>4, <1>5, <2>1 DEF Cycle, NextDelayedFlush
  <2>3. flush_cnt_q' = c - r
    BY <1>2, <1>4, <1>6, <2>1 DEF Cycle, NextFlushCnt, resp_valid
  <2>4. Len(fifo') = 1 - p /\ (p = 0 => fifo'[1] = WordAt(1))
    <3>1. CASE F = 0
      <4>1. ~fifo_flush(in) /\ ~fifo_flush_but_first(in)
        BY <1>4, <1>7, <3>1 DEF fifo_flush, fifo_flush_but_first
      <4>2. r = 1 /\ F + r =< Depth
        BY <1>3, <1>10, <3>1
      <4>3. /\ Len(fifo') = F + r - p
            /\ \A i \in 1..(F + r - p) :
                  fifo'[i] = IF i + p =< F THEN fifo[i + p] ELSE Head(mem)
        BY <1>1, <1>2, <1>4, <1>5, <4>1, <4>2, FifoWords
      <4>4. p = 0 => 1 \in 1..(F + r - p) /\ ~(1 + p =< F)
        BY <3>1, <4>2
      <4>5. Len(fifo') = 1 - p
        BY <3>1, <4>2, <4>3
      <4> QED
        BY <1>6, <1>8, <3>1, <4>2, <4>3, <4>4, <4>5
    <3>2. CASE F > 0 /\ p = 1
      <4>1. fifo_flush(in)
        BY <1>4, <1>7, <3>2 DEF fifo_flush, fifo_pop
      <4>2. fifo' = <<>>
        BY <1>4, <4>1 DEF Cycle, NextFifo, Fifo!Cycle
      <4> QED
        BY <3>2, <4>2
    <3>3. CASE F > 0 /\ p = 0
      <4>1. ~fifo_flush(in) /\ fifo_flush_but_first(in)
        BY <1>4, <1>7, <3>3 DEF fifo_flush, fifo_flush_but_first, fifo_pop
      <4>2. fifo' = SubSeq(fifo, 1, 1)
        BY <1>4, <1>7, <3>3, <4>1 DEF Cycle, NextFifo, Fifo!Cycle
      <4>3. Len(fifo') = 1 /\ fifo'[1] = fifo[1]
        BY <1>2, <1>3, <3>3, <4>2
      <4> QED
        BY <1>8, <3>3, <4>3
    <3> QED
      BY <3>1, <3>2, <3>3
  <2>5. LiveCount' = a /\ KeptCount' = 1 - p + a
    BY <1>3, <1>6, <2>2, <2>3, <2>4 DEF LiveCount, KeptCount
  <2>6. ASSUME NEW i \in 1..(1 - p + a)
        PROVE  WordAt(i)' = IF i + p = 1 THEN WordAt(1) ELSE in.target
    <3>1. CASE i + p = 1
      <4>1. i = 1 /\ p = 0 /\ Len(fifo') = 1
        BY <2>4, <3>1
      <4>2. WordAt(i)' = fifo'[1]
        BY <4>1 DEF WordAt
      <4> QED
        BY <2>4, <3>1, <4>1, <4>2
    <3>2. CASE i + p # 1
      <4>1. /\ a = 1 /\ ~(i =< 1 - p) /\ i - (1 - p) = 1
            /\ c - r + 1 \in 1..(c + a - r) /\ ~(c - r + 1 + r =< c)
        BY <1>3, <1>6, <3>2
      <4>2. WordAt(i)' = InFlight'[c - r + (i - (1 - p))]
        BY <2>2, <2>3, <2>4, <2>5, <4>1 DEF WordAt, LiveAt
      <4> QED
        BY <1>6, <3>2, <4>1, <4>2
    <3> QED
      BY <3>1, <3>2
  <2> QED
    BY <1>1, <1>5, <2>5, <2>6
<1> QED
  BY <1>9, <1>10

\* The positions next to the words kept, and the two the fetch stage is given next.
Positions ==
    /\ KeptCount \in Nat
    /\ WordAt(KeptCount + 1) = NextRequest
    /\ WordAt(KeptCount + 2) = Incr(NextRequest)
    /\ Upcoming[1] = WordAt(1)
    /\ Upcoming[2] = WordAt(2)

\* They are where WordAt puts them ...
LEMMA KnownPositions == IInv => Positions
<1> SUFFICES ASSUME IInv PROVE Positions
  OBVIOUS
<1>1. PICK F \in Nat, L \in Nat : F = Len(fifo) /\ L = LiveCount
  BY LiveFacts
<1>2. KeptCount = F + L
  BY <1>1 DEF KeptCount
<1>3. /\ ~(F + L + 1 =< F) /\ ~(F + L + 1 =< F + L)
      /\ ~(F + L + 2 =< F) /\ ~(F + L + 2 =< F + L) /\ F + L + 2 # F + L + 1
  OBVIOUS
<1>4. /\ WordAt(KeptCount + 1) = NextRequest
      /\ WordAt(KeptCount + 2) = Incr(NextRequest)
  BY <1>1, <1>2, <1>3 DEF WordAt
<1>5. Upcoming[1] = WordAt(1) /\ Upcoming[2] = WordAt(2)
  BY <1>1, <1>2, UpcomingWords
<1> QED
  BY <1>1, <1>2, <1>4, <1>5 DEF Positions

\* ... and so they are after a step that keeps the invariant.
LEMMA NextPositions == IInv' => Positions'
BY KnownPositions, PTL

\* What a step promises: the abstract step, and that the words stay in sequence.
Follows == InSequence' /\ [Promise!Next]_(Promise!vars)

\* A cycle without a redirect delivers the next word or does nothing.
LEMMA AdvanceFollows ==
    ASSUME StreamInv, IInv', NEW in \in Inputs, Advance(in)
    PROVE  Follows
<1>1. PICK a \in 0..1, p \in 0..1 : a = Accepts(in) /\ p = Takes(in)
  BY DEF Accepts, Takes
<1>2. IInv /\ InSequence
  BY DEF StreamInv
<1>3. PICK K \in Nat : K = KeptCount
  BY <1>2, KnownPositions DEF Positions
<1>4. Positions'
  BY NextPositions
<1>5. PICK Kn \in Nat : Kn = KeptCount'
  BY <1>4 DEF Positions
<1>6. Kn = K + a - p /\ \A i \in 1..Kn : WordAt(i)' = WordAt(i + p)
  BY <1>1, <1>2, <1>3, <1>5, AdvanceWords
<1>7. /\ NextRequest' = IF a = 1 THEN Incr(NextRequest) ELSE NextRequest
      /\ Cycle(in) /\ ~in.branch /\ ~in.hwlp
  BY <1>1, <1>2, RequestStep, AdvanceCounters
<1>8. WordAt(K + 1) = NextRequest /\ WordAt(K + 2) = Incr(NextRequest)
  BY <1>2, <1>3, KnownPositions DEF Positions
<1>9. ASSUME NEW n, n = Kn + 1 PROVE WordAt(n)' = NextRequest'
  BY <1>4, <1>5, <1>9 DEF Positions
<1>10. ASSUME NEW n, n = Kn + 2 PROVE WordAt(n)' = Incr(NextRequest')
  <2>1. WordAt(KeptCount + 2)' = Incr(NextRequest)'
    BY NextPositions DEF Positions
  <2> QED
    BY <1>5, <1>10, <2>1 DEF Incr
<1>11. ASSUME NEW i \in 1..(Kn + 1) PROVE WordAt(i)' = WordAt(i + p)
  <2>1. CASE i =< Kn
    BY <1>6, <2>1
  <2>2. CASE i = Kn + 1
    <3>1. i + p = K + a + 1
      BY <1>6, <2>2
    <3>2. WordAt(i)' = NextRequest'
      BY <1>9, <2>2
    <3>3. CASE a = 1
      <4>1. i + p = K + 2
        BY <3>1, <3>3
      <4> QED
        BY <1>7, <1>8, <3>2, <3>3, <4>1
    <3>4. CASE a = 0
      <4>1. i + p = K + 1
        BY <3>1, <3>4
      <4> QED
        BY <1>7, <1>8, <3>2, <3>4, <4>1
    <3> QED
      BY <3>3, <3>4
  <2> QED
    BY <2>1, <2>2
<1>12. ASSUME NEW i \in 2..(K + 1) PROVE WordAt(i + 1) = Incr(WordAt(i))
  <2>1. CASE i \in 2..K
    BY <1>2, <1>3, <2>1 DEF InSequence
  <2>2. CASE i = K + 1
    <3>1. i + 1 = K + 2
      BY <2>2
    <3> QED
      BY <1>8, <2>2, <3>1
  <2> QED
    BY <2>1, <2>2
<1>13. InSequence'
  <2>1. ASSUME NEW i \in 2..Kn PROVE WordAt(i + 1)' = Incr(WordAt(i)')
    <3>1. i \in 1..(Kn + 1) /\ i + 1 \in 1..(Kn + 1) /\ i + p \in 2..(K + 1)
          /\ (i + 1) + p = (i + p) + 1
      BY <1>6
    <3>2. WordAt(i)' = WordAt(i + p) /\ WordAt(i + 1)' = WordAt((i + 1) + p)
      BY <1>11, <3>1
    <3> QED
      BY <1>12, <3>1, <3>2
  <2> QED
    BY <1>5, <2>1 DEF InSequence, Incr
<1>14. Upcoming'[1] = WordAt(1 + p)
  <2>1. Upcoming'[1] = WordAt(1)'
    BY NextPositions DEF Positions
  <2> QED
    BY <1>11, <2>1
<1>15. Upcoming'[2] = IF p = 1 THEN Incr(WordAt(2)) ELSE WordAt(2)
  <2>1. Upcoming'[2] = WordAt(2)'
    BY NextPositions DEF Positions
  <2>2. CASE Kn = 0
    <3>1. Upcoming'[2] = Incr(NextRequest')
      BY <1>10, <2>1, <2>2
    <3>2. WordAt(1)' = WordAt(1 + p) /\ WordAt(1)' = NextRequest'
      BY <1>9, <1>11, <2>2
    <3>3. CASE p = 1
      BY <3>1, <3>2, <3>3
    <3>4. CASE p = 0
      <4>1. K = 0 /\ a = 0
        BY <1>6, <2>2, <3>4
      <4> QED
        BY <1>7, <1>8, <3>1, <3>4, <4>1
    <3> QED
      BY <3>3, <3>4
  <2>3. CASE Kn > 0
    <3>1. Upcoming'[2] = WordAt(2 + p)
      BY <1>11, <2>1, <2>3
    <3>2. CASE p = 1
      <4>1. 2 \in 2..(K + 1) /\ 2 + p = 2 + 1
        BY <1>6, <2>3, <3>2
      <4> QED
        BY <1>12, <3>1, <3>2, <4>1
    <3>3. CASE p = 0
      BY <3>1, <3>3
    <3> QED
      BY <3>2, <3>3
  <2> QED
    BY <2>2, <2>3
<1>16. Upcoming[1] = WordAt(1) /\ Upcoming[2] = WordAt(2)
  BY <1>2, KnownPositions DEF Positions
<1>17. CASE p = 1
  <2>1. fetch_ready(in) /\ fetch_rdata = WordAt(1)
    BY <1>1, <1>2, <1>7, <1>17, TakesWord DEF Takes
  <2>2. io' = Promise!Event("none", None, WordAt(1))
    BY <1>7, <2>1 DEF Cycle, NextIo, Stream!Event, Promise!Event
  <2>3. /\ io' = Promise!Event("none", Promise!None, Upcoming[1])
        /\ Upcoming'[1] = Upcoming[2]
        /\ Upcoming'[2] = Promise!Incr(Upcoming[2])
    BY <1>14, <1>15, <1>16, <1>17, <2>2 DEF None, Promise!None, Incr, Promise!Incr
  <2>4. Promise!Deliver
    BY <2>3 DEF Promise!Deliver
  <2> QED
    BY <1>13, <2>4 DEF Follows, Promise!Next
<1>18. CASE p = 0
  <2>1. ~fetch_ready(in)
    BY <1>1, <1>18 DEF Takes
  <2>2. io' = Promise!Event("none", Promise!None, Promise!None)
    BY <1>7, <2>1 DEF Cycle, NextIo, Stream!Event, Promise!Event, None, Promise!None
  <2>3. Upcoming'[1] = Upcoming[1] /\ Upcoming'[2] = Upcoming[2]
    BY <1>14, <1>15, <1>16, <1>18
  <2>4. Promise!Idle
    BY <2>2, <2>3 DEF Promise!Idle
  <2> QED
    BY <1>13, <2>4 DEF Follows, Promise!Next
<1> QED
  BY <1>17, <1>18

\* A taken branch restarts the stream at its target.
LEMMA BranchFollows ==
    ASSUME StreamInv, IInv', NEW in \in Inputs, Branch(in)
    PROVE  Follows
<1>1. PICK a \in 0..1 : a = Accepts(in)
  BY DEF Accepts
<1>2. IInv /\ Cycle(in) /\ in.branch /\ in.target \in Addr
  BY DEF StreamInv, Branch, Inputs
<1>3. Takes(in) = 0 /\ KeptCount' = a /\ \A i \in 1..a : WordAt(i)' = in.target
  BY <1>1, <1>2, BranchWords
<1>4. NextRequest' = IF a = 1 THEN Incr(in.target) ELSE in.target
  BY <1>1, <1>2, RequestStep
<1>5. ASSUME NEW n, n = a + 1 PROVE WordAt(n)' = NextRequest'
  BY <1>3, <1>5, NextPositions DEF Positions
<1>6. ASSUME NEW n, n = a + 2 PROVE WordAt(n)' = Incr(NextRequest')
  <2>1. WordAt(KeptCount + 2)' = Incr(NextRequest)'
    BY NextPositions DEF Positions
  <2> QED
    BY <1>3, <1>6, <2>1 DEF Incr
<1>7. InSequence'
  BY <1>3 DEF InSequence
<1>8. WordAt(1)' = in.target /\ WordAt(2)' = Incr(in.target)
  <2>1. CASE a = 1
    BY <1>3, <1>4, <1>5, <2>1
  <2>2. CASE a = 0
    BY <1>4, <1>5, <1>6, <2>2
  <2> QED
    BY <2>1, <2>2
<1>9. Upcoming'[1] = in.target /\ Upcoming'[2] = Promise!Incr(in.target)
  <2>1. Upcoming'[1] = WordAt(1)' /\ Upcoming'[2] = WordAt(2)'
    BY NextPositions DEF Positions
  <2> QED
    BY <1>8, <2>1 DEF Incr, Promise!Incr
<1>10. io' = Promise!Event("branch", in.target, Promise!None)
  <2>1. ~fetch_ready(in)
    BY <1>2 DEF fetch_ready
  <2> QED
    BY <1>2, <2>1 DEF Cycle, NextIo, Stream!Event, Promise!Event, None, Promise!None
<1>11. Promise!Branch(in.target)
  BY <1>9, <1>10 DEF Promise!Branch
<1>12. in.target \in Promise!Addr
  BY <1>2 DEF Addr, Promise!Addr
<1> QED
  BY <1>7, <1>11, <1>12 DEF Follows, Promise!Next

\* A loop jump redirects the stream behind its next word.
LEMMA LoopJumpFollows ==
    ASSUME StreamInv, IInv', NEW in \in Inputs, LoopJump(in)
    PROVE  Follows
<1>1. PICK a \in 0..1, p \in 0..1 : a = Accepts(in) /\ p = Takes(in)
  BY DEF Accepts, Takes
<1>2. IInv /\ Cycle(in) /\ ~in.branch /\ in.hwlp /\ in.target \in Addr
  BY DEF StreamInv, LoopJump, Inputs
<1>3. /\ KeptCount' = 1 - p + a
      /\ \A i \in 1..(1 - p + a) :
            WordAt(i)' = IF i + p = 1 THEN WordAt(1) ELSE in.target
  BY <1>1, <1>2, LoopJumpWords
<1>4. NextRequest' = IF a = 1 THEN Incr(in.target) ELSE in.target
  BY <1>1, <1>2, RequestStep, LoopJumpWords
<1>5. ASSUME NEW n, n = 1 - p + a + 1 PROVE WordAt(n)' = NextRequest'
  BY <1>3, <1>5, NextPositions DEF Positions
<1>6. ASSUME NEW n, n = 1 - p + a + 2 PROVE WordAt(n)' = Incr(NextRequest')
  <2>1. WordAt(KeptCount + 2)' = Incr(NextRequest)'
    BY NextPositions DEF Positions
  <2> QED
    BY <1>3, <1>6, <2>1 DEF Incr
<1>7. CASE p = 0
  <2>1. WordAt(1)' = WordAt(1)
    BY <1>3, <1>7
  <2>2. /\ WordAt(2)' = in.target
        /\ a = 1 => WordAt(3)' = Incr(in.target)
    <3>1. CASE a = 1
      BY <1>3, <1>4, <1>5, <1>7, <3>1
    <3>2. CASE a = 0
      BY <1>4, <1>5, <1>7, <3>2
    <3> QED
      BY <3>1, <3>2
  <2>3. InSequence'
    <3>1. ASSUME NEW i \in 2..(1 + a) PROVE WordAt(i + 1)' = Incr(WordAt(i)')
      <4>1. i = 2 /\ a = 1 /\ i + 1 = 3
        OBVIOUS
      <4> QED
        BY <2>2, <4>1
    <3>2. KeptCount' = 1 + a
      BY <1>3, <1>7
    <3> QED
      BY <3>1, <3>2 DEF InSequence, Incr
  <2>4. Upcoming'[1] = Upcoming[1] /\ Upcoming'[2] = in.target
    <3>1. Upcoming'[1] = WordAt(1)' /\ Upcoming'[2] = WordAt(2)'
      BY NextPositions DEF Positions
    <3> QED
      BY <1>2, <2>1, <2>2, <3>1, KnownPositions DEF Positions
  <2>5. io' = Promise!Event("loop", in.target, Promise!None)
    <3>1. ~fetch_ready(in)
      BY <1>1, <1>7 DEF Takes
    <3> QED
      BY <1>2, <3>1 DEF Cycle, NextIo, Stream!Event, Promise!Event, None, Promise!None
  <2>6. Promise!LoopJump(in.target)
    BY <2>4, <2>5 DEF Promise!LoopJump
  <2>7. in.target \in Promise!Addr
    BY <1>2 DEF Addr, Promise!Addr
  <2> QED
    BY <2>3, <2>6, <2>7 DEF Follows, Promise!Next
<1>8. CASE p = 1
  <2>1. WordAt(1)' = in.target /\ WordAt(2)' = Incr(in.target)
    <3>1. CASE a = 1
      BY <1>3, <1>4, <1>5, <1>8, <3>1
    <3>2. CASE a = 0
      BY <1>4, <1>5, <1>6, <1>8, <3>2
    <3> QED
      BY <3>1, <3>2
  <2>2. InSequence'
    <3>1. KeptCount' = a
      BY <1>3, <1>8
    <3> QED
      BY <3>1 DEF InSequence
  <2>3. Upcoming'[1] = in.target /\ Upcoming'[2] = Promise!Incr(in.target)
    <3>1. Upcoming'[1] = WordAt(1)' /\ Upcoming'[2] = WordAt(2)'
      BY NextPositions DEF Positions
    <3> QED
      BY <2>1, <3>1 DEF Incr, Promise!Incr
  <2>4. io' = Promise!Event("loop", in.target, Upcoming[1])
    <3>1. fetch_ready(in) /\ fetch_rdata = Upcoming[1]
      BY <1>1, <1>2, <1>8, TakesWord, KnownPositions DEF Takes, Positions
    <3> QED
      BY <1>2, <3>1 DEF Cycle, NextIo, Stream!Event, Promise!Event
  <2>5. Promise!LoopJumpAndDeliver(in.target)
    BY <2>3, <2>4 DEF Promise!LoopJumpAndDeliver
  <2>6. in.target \in Promise!Addr
    BY <1>2 DEF Addr, Promise!Addr
  <2> QED
    BY <2>2, <2>5, <2>6 DEF Follows, Promise!Next
<1> QED
  BY <1>7, <1>8

\* Every step keeps the invariant and is a step of the stream or none.
LEMMA StreamStep == StreamInv /\ [Next]_vars => StreamInv' /\ [Promise!Next]_(Promise!vars)
<1>1. ASSUME StreamInv, Next PROVE IInv' /\ Follows
  <2>1. PICK in \in Inputs : Step(in)
    BY <1>1 DEF Next
  <2>2. IInv'
    BY <1>1, StepInvariant DEF StreamInv
  <2> QED
    BY <1>1, <2>1, <2>2, AdvanceFollows, BranchFollows, LoopJumpFollows DEF Step
<1>2. ASSUME StreamInv, UNCHANGED vars PROVE IInv' /\ Follows
  <2>1. IInv'
    BY <1>2, StepInvariant DEF StreamInv
  <2>2. UNCHANGED <<fifo, Live, NextRequest, io, InFlight, LiveCount>>
    BY <1>2 DEF vars, ctrlVars, Live, InFlight, NextRequest, LiveCount, Incr
  <2>3. InSequence'
    BY <1>2, <2>2 DEF vars, ctrlVars, StreamInv, InSequence, WordAt, KeptCount, LiveAt, Incr
  <2>4. UNCHANGED Upcoming
    BY <2>2 DEF Upcoming, Incr
  <2>5. UNCHANGED Promise!vars
    BY <2>2, <2>4 DEF Promise!vars
  <2> QED
    BY <2>1, <2>3, <2>5 DEF Follows
<1> QED
  BY <1>1, <1>2 DEF StreamInv, Follows

\* Reset starts a stream.
LEMMA StreamInit == Init => StreamInv /\ Promise!Init
<1> SUFFICES ASSUME Init PROVE StreamInv /\ Promise!Init
  OBVIOUS
<1>1. IInv
  BY InitInvariant
<1>2. KeptCount = 0 /\ NextRequest \in Addr
  BY <1>1, NextRequestType DEF Init, KeptCount, LiveCount
<1>3. InSequence
  BY <1>2 DEF InSequence
<1>4. Upcoming[1] = NextRequest /\ Upcoming[2] = Incr(NextRequest)
  BY <1>1, <1>2, KnownPositions DEF Positions
<1>5. io = Promise!Event("none", Promise!None, Promise!None)
  BY DEF Init, Stream!Event, Promise!Event, None, Promise!None
<1>6. Promise!Init
  BY <1>2, <1>4, <1>5 DEF Promise!Init, Incr, Promise!Incr, Addr, Promise!Addr
<1> QED
  BY <1>1, <1>3, <1>6 DEF StreamInv

\* DeliversStream for every depth, address space and memory timing: the words handed
\* over are those of the promised instruction stream, none lost, repeated, reordered
\* or left over from before a branch, and a loop jump takes effect right behind the
\* last word of the body.
THEOREM StreamDelivered == Spec => DeliversStream
BY StreamInit, StreamStep, PTL DEF Spec, DeliversStream, Promise!Spec
=============================================================================
