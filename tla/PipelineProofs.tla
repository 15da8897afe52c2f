--------------------------- MODULE PipelineProofs ---------------------------
(***************************************************************************)
(* Proofs about Pipeline, for every set of registers, accesses, results    *)
(* and FPU latencies and both settings of its parameters.                  *)
(*                                                                         *)
(*  1. The types, the outstanding-transaction counter, the slots of the    *)
(*     FPU dispatcher, and that every access is requested exactly once.    *)
(*     The invariants lean on each other.  An access is requested once     *)
(*     because EX moves on when the load-store unit is ready; EX does,     *)
(*     because the FPU does not contend for the ALU port in that cycle; it *)
(*     does not, because a late result is memorized and because the slots  *)
(*     know of every operation.                                            *)
(*  2. A store writes its bytes to their addresses, from the right lanes,  *)
(*     in one transaction or in two.                                       *)
(*  3. Instructions compute with the values program order gives them,      *)
(*     however late loads, FPU results and results of multi-cycle          *)
(*     operations reach the registers.  The invariant says, for every      *)
(*     register, where the value that program order demands is: the        *)
(*     youngest of EX, FPU, WB and the register file that holds the        *)
(*     register has it.  It rests on the order in which the results come   *)
(*     back (InflightOK), and on the words of a misaligned load, of which  *)
(*     one is in rdata_q when the other arrives (BusData).                 *)
(***************************************************************************)
EXTENDS Pipeline, SequenceTheorems, TLAPS

-----------------------------------------------------------------------------
(* 1. Counters, slots and requests.                                        *)

Instr == [req : BOOLEAN, we : BOOLEAN, type : {"word", "half", "byte"},
          sign : {"zero", "sign", "ones"}, op_a : Nat, op_b : Nat,
          useincr : BOOLEAN, misaligned : BOOLEAN, rd : Dest, we_rd : BOOLEAN,
          alu_rd : Dest, result : Nat,
          slow : {"no", "div", "mulh_idle", "mulh", "mulh_finish"},
          branch : BOOLEAN, apu : 0..3, apu_rd : Dest]

\* What EX holds is one operation of one unit.
ExOK(e) ==
    /\ e \in Instr
    /\ e.req => e.apu = 0 /\ e.slow = "no" /\ ~e.branch
    /\ e.apu # 0 => e.apu_rd # NoReg /\ e.alu_rd = NoReg /\ e.slow = "no"
    /\ e.misaligned => e.req

Trans == [word : Nat, we : BOOLEAN]
BusOK == pend \in Seq(Trans) /\ cnt_q \in 0..2 /\ cnt_q = Len(pend)

\* A transaction of the access in EX is under way only if the bus is full.
IssueOK == issued \in 0..1 /\ (issued = 1 <=> cnt_q = 2) /\ (issued = 1 => ex.req)

Operation == [lat : 1..3, result : Nat, old : BOOLEAN]
SlotsOK ==
    /\ apu.waiting = NoReg
    /\ apu.inflight \in Dest /\ apu.lat \in 0..3 /\ apu.rvalid_q \in BOOLEAN
    /\ fpu \in Seq(Operation)
    /\ Len(fpu) =< 1
    /\ fpu # <<>> => fpu[1].lat = apu.lat /\ apu.lat # 1
    /\ apu.rvalid_q => fpu = <<>> /\ apu.lat = 3
    /\ apu.inflight # NoReg <=> (fpu # <<>> \/ apu.rvalid_q)

LatchesOK ==
    /\ ctrl_q \in [type : {"word", "half", "byte"}, offset : 0..3,
                   sign : {"zero", "sign", "ones"}, we : BOOLEAN]
    /\ wb \in [we : BOOLEAN, rd : Dest]

IInv == ExOK(ex) /\ BusOK /\ IssueOK /\ SlotsOK /\ LatchesOK

-----------------------------------------------------------------------------
(* The instructions ID may bring.                                          *)

\* Keeping the address of the last load does not matter.
LEMMA EnteringOK ==
    ASSUME ex.rd \in Dest, NEW i, ExOK(i)
    PROVE  ExOK(Enters(i))
<1> DEFINE r == IF i.we_rd THEN i.rd ELSE ex.rd
<1>1. i \in Instr /\ r \in Dest
  BY DEF ExOK, Instr
<1> HIDE DEF r
<1>2. [i EXCEPT !.rd = r] \in Instr
  BY <1>1 DEF Instr
<1>3. /\ [i EXCEPT !.rd = r].req = i.req /\ [i EXCEPT !.rd = r].apu = i.apu
      /\ [i EXCEPT !.rd = r].slow = i.slow /\ [i EXCEPT !.rd = r].branch = i.branch
      /\ [i EXCEPT !.rd = r].apu_rd = i.apu_rd /\ [i EXCEPT !.rd = r].alu_rd = i.alu_rd
      /\ [i EXCEPT !.rd = r].misaligned = i.misaligned
  BY <1>1 DEF Instr
<1>4. Enters(i) = [i EXCEPT !.rd = r]
  BY DEF Enters, r
<1>5. ExOK([i EXCEPT !.rd = r])
  <2> DEFINE e == [i EXCEPT !.rd = r]
  <2>1. e \in Instr /\ e.req = i.req /\ e.apu = i.apu /\ e.slow = i.slow
        /\ e.branch = i.branch /\ e.apu_rd = i.apu_rd /\ e.alu_rd = i.alu_rd
        /\ e.misaligned = i.misaligned
    BY <1>2, <1>3
  <2> HIDE DEF e
  <2>2. ExOK(e)
    BY <2>1 DEF ExOK
  <2> QED BY <2>2 DEF e
<1> QED BY <1>4, <1>5

\* Everything that enters EX is an operation of one unit.
LEMMA InstructionsOK ==
    ASSUME NEW i \in Loads \cup Stores \cup AluOps \cup FpuOps \cup Links \cup Branches
    PROVE  ExOK(i) /\ ~i.misaligned
<1>0. /\ Types \subseteq {"word", "half", "byte"}
      /\ Signs \subseteq {"zero", "sign", "ones"}
      /\ Bases \subseteq Nat /\ Incs \subseteq Nat /\ Results \subseteq Nat
      /\ Lats \subseteq 1..3
      /\ NoReg \notin Regs
  BY LsuAssumption, ApuAssumption, PipelineAssumption
     DEF LsuAssumption, ApuAssumption, PipelineAssumption
<1>1. /\ NoReg \in Dest
      /\ \A r \in Regs : r \in Dest /\ r # NoReg
  BY <1>0 DEF Dest
<1> DEFINE Quiescent(e) == /\ ~e.req /\ ~e.misaligned /\ ~e.branch
                           /\ e.apu = 0 /\ e.slow = "no"
<1>2. Idle \in Instr /\ Quiescent(Idle) /\ Idle.alu_rd = NoReg
  BY <1>1 DEF Idle, Instr
<1>3. ASSUME NEW acc \in Accesses
      PROVE  /\ acc \in Instr /\ acc.req /\ ~acc.misaligned /\ ~acc.branch
             /\ acc.apu = 0 /\ acc.slow = "no"
  <2>1. PICK t \in Types, a \in Bases, b \in Incs,
             post \in IF CorevPulp THEN Dest ELSE {NoReg} :
          acc = Access(t, a, b, post)
    BY <1>3 DEF Accesses
  <2>2. /\ post \in Dest /\ t \in {"word", "half", "byte"} /\ a \in Nat /\ b \in Nat
        /\ (post = NoReg) \in BOOLEAN
    BY <1>0, <1>1
  <2>3. Access(t, a, b, post) \in Instr
    BY <1>2, <2>2 DEF Access, Instr
  <2>4. /\ Access(t, a, b, post).req /\ ~Access(t, a, b, post).misaligned
        /\ ~Access(t, a, b, post).branch
        /\ Access(t, a, b, post).apu = 0 /\ Access(t, a, b, post).slow = "no"
    BY DEF Access, Idle
  <2> QED BY <2>1, <2>3, <2>4
<1>4. CASE i \in Loads
  <2>1. PICK acc \in Accesses, r \in Dest, s \in Signs : i = Load(acc, r, s)
    BY <1>4 DEF Loads
  <2>2. s \in {"zero", "sign", "ones"}
    BY <1>0
  <2>3. Load(acc, r, s) \in Instr
    BY <1>3, <2>2 DEF Load, Instr
  <2>4. /\ Load(acc, r, s).req = acc.req /\ Load(acc, r, s).apu = acc.apu
        /\ Load(acc, r, s).misaligned = acc.misaligned
        /\ Load(acc, r, s).slow = acc.slow /\ Load(acc, r, s).branch = acc.branch
    BY <1>3 DEF Load, Instr
  <2> QED BY <1>3, <2>1, <2>3, <2>4 DEF ExOK
<1>5. CASE i \in Stores
  <2>1. PICK acc \in Accesses : i = [acc EXCEPT !.we = TRUE]
    BY <1>5 DEF Stores
  <2> QED BY <1>3, <2>1 DEF ExOK, Instr
<1>6. CASE i \in AluOps
  <2>1. PICK r \in Regs, n \in Results, s \in {"no", "div", "mulh_idle"} :
          i = AluOp(r, n, s)
    BY <1>6 DEF AluOps
  <2>2. AluOp(r, n, s) \in Instr
    BY <1>0, <1>1, <1>2 DEF AluOp, Instr
  <2>3. /\ ~AluOp(r, n, s).req /\ ~AluOp(r, n, s).misaligned
        /\ AluOp(r, n, s).apu = 0
    BY DEF AluOp, Idle
  <2> QED BY <2>1, <2>2, <2>3 DEF ExOK
<1>7. CASE i \in FpuOps
  <2>1. PICK l \in Lats, r \in Regs : i = FpuOp(l, r)
    BY <1>7 DEF FpuOps
  <2>2. FpuOp(l, r) \in Instr
    <3>1. l \in 0..3 /\ l \in Nat /\ r \in Dest
      BY <1>0, <1>1
    <3> QED BY <1>2, <3>1 DEF FpuOp, Instr
  <2>3. /\ ~FpuOp(l, r).req /\ ~FpuOp(l, r).misaligned /\ FpuOp(l, r).apu_rd = r
        /\ FpuOp(l, r).alu_rd = NoReg /\ FpuOp(l, r).slow = "no"
    BY DEF FpuOp, Idle
  <2> QED BY <1>1, <2>1, <2>2, <2>3 DEF ExOK
<1>8. CASE i \in Links
  <2>1. PICK r \in Regs : i = [Idle EXCEPT !.alu_rd = r]
    BY <1>8 DEF Links
  <2>2. i \in Instr /\ ~i.req /\ ~i.misaligned /\ i.apu = 0
    BY <1>1, <1>2, <2>1 DEF Instr
  <2> QED BY <2>2 DEF ExOK
<1>9. CASE i \in Branches
  <2>1. i = [Idle EXCEPT !.branch = TRUE]
    BY <1>9 DEF Branches
  <2>2. i \in Instr /\ ~i.req /\ ~i.misaligned /\ i.apu = 0
    BY <1>2, <2>1 DEF Instr
  <2> QED BY <2>2 DEF ExOK
<1> QED BY <1>4, <1>5, <1>6, <1>7, <1>8, <1>9

-----------------------------------------------------------------------------
(* What ID/EX holds after a step.                                          *)

\* The three steps without a new instruction keep what EX holds an operation of one
\* unit.
LEMMA DrainOK ==
    ASSUME ExOK(ex), NEW in, SecondPart(in) \/ Bubble(in) \/ Hold(in)
    PROVE  ExOK(ex')
<1>0. /\ ex \in Instr /\ ex.rd \in Dest /\ NoReg \in Dest
      /\ ex.op_a \in Nat /\ ex.op_b \in Nat
  BY DEF ExOK, Instr, Dest
<1>1. CASE SecondPart(in)
  <2> DEFINE a == IF ex.useincr THEN ex.op_a + ex.op_b ELSE ex.op_a
  <2>1. a \in Nat
    BY <1>0
  <2>2. ex.req
    BY <1>1 DEF SecondPart, data_misaligned
  <2>3. ex' = [ex EXCEPT !.op_a = a, !.op_b = 4, !.alu_rd = NoReg,
                         !.useincr = TRUE, !.misaligned = TRUE]
    BY <1>1 DEF SecondPart
  <2> HIDE DEF a
  <2>4. ex' \in Instr
    BY <1>0, <2>1, <2>3 DEF Instr
  <2>5. /\ ex'.req = ex.req /\ ex'.apu = ex.apu /\ ex'.slow = ex.slow
        /\ ex'.branch = ex.branch
    BY <1>0, <2>3 DEF Instr
  <2> QED BY <2>2, <2>4, <2>5 DEF ExOK
<1>2. CASE Bubble(in)
  <2>1. ex' = [Idle EXCEPT !.rd = ex.rd]
    BY <1>2 DEF Bubble
  <2>2. Idle \in Instr
    BY <1>0 DEF Idle, Instr
  <2>3. ex' \in Instr
    BY <1>0, <2>1, <2>2 DEF Instr
  <2>4. ~ex'.req /\ ex'.apu = 0 /\ ~ex'.misaligned
    BY <2>1 DEF Idle
  <2> QED BY <2>3, <2>4 DEF ExOK
<1>3. CASE Hold(in)
  <2> DEFINE s == CASE ex.slow = "mulh_idle" -> "mulh"
                    [] ex.slow = "mulh" /\ in.unit_ready -> "mulh_finish"
                    [] ex.slow = "div" /\ in.unit_ready -> "no"
                    [] OTHER -> ex.slow
  <2>1. s \in {"no", "div", "mulh_idle", "mulh", "mulh_finish"}
        /\ (ex.slow = "no" => s = "no")
    BY <1>0 DEF Instr
  <2>2. ex' = [ex EXCEPT !.slow = s]
    BY <1>3 DEF Hold
  <2> HIDE DEF s
  <2>3. ex' \in Instr
    BY <1>0, <2>1, <2>2 DEF Instr
  <2>4. /\ ex'.req = ex.req /\ ex'.apu = ex.apu /\ ex'.slow = s
        /\ ex'.branch = ex.branch /\ ex'.apu_rd = ex.apu_rd
        /\ ex'.alu_rd = ex.alu_rd /\ ex'.misaligned = ex.misaligned
    BY <1>0, <2>2 DEF Instr
  <2> QED BY <2>1, <2>3, <2>4 DEF ExOK
<1> QED BY <1>1, <1>2, <1>3

\* An instruction leaves EX only when EX is ready, and EX is cleared or replaced
\* only then: whoever waits in EX keeps requesting.
LEMMA StepsOfEx ==
    ASSUME ExOK(ex), NEW in, Issue(in) \/ Drain(in)
    PROVE  ExOK(ex') /\ Edge(in) /\ (~ex_ready(in) => ex'.req = ex.req)
<1>1. CASE Issue(in)
  <2>1. PICK i \in Loads \cup Stores \cup AluOps \cup FpuOps \cup Links \cup Branches :
           ex' = Enters(i)
    BY <1>1 DEF Issue
  <2>2. ex.rd \in Dest /\ ExOK(i)
    BY InstructionsOK DEF ExOK, Instr
  <2>3. ExOK(ex')
    BY <2>1, <2>2, EnteringOK
  <2>4. Edge(in) /\ ex_ready(in)
    BY <1>1 DEF Issue, id_ready
  <2> QED BY <2>3, <2>4
<1>2. CASE Drain(in)
  <2>1. ExOK(ex')
    BY <1>2, DrainOK DEF Drain
  <2>2. Edge(in)
    BY <1>2 DEF Drain, SecondPart, Bubble, Hold
  <2>3. ASSUME ~ex_ready(in)
        PROVE  ex'.req = ex.req
    <3>1. Hold(in)
      BY <1>2, <2>3 DEF Drain, SecondPart, Bubble
    <3>2. ex \in Instr
      BY DEF ExOK
    <3> QED BY <3>1, <3>2 DEF Hold, Instr
  <2> QED BY <2>1, <2>2, <2>3
<1> QED BY <1>1, <1>2

-----------------------------------------------------------------------------
(* The bus, its counter and what has been issued.                          *)

\* What Inputs says of the bus.
LEMMA BusInputs ==
    ASSUME BusOK, NEW in \in Inputs
    PROVE  /\ in.gnt \in BOOLEAN /\ in.rvalid \in BOOLEAN
           /\ in.rvalid => cnt_q # 0
           /\ in.gnt => ex.req /\ cnt_q # 2
           /\ count_up(in) <=> in.gnt
<1>1. in.gnt \in BOOLEAN /\ in.rvalid \in BOOLEAN
  BY DEF Inputs
<1>2. ASSUME in.rvalid PROVE cnt_q # 0
  BY <1>2, EmptySeq DEF Inputs, BusOK
<1>3. in.gnt => trans_valid(in)
  BY DEF Inputs
<1>4. count_up(in) <=> in.gnt
  BY <1>1, <1>3 DEF count_up
<1>5. trans_valid(in) => ex.req /\ cnt_q # 2
  BY DEF trans_valid, DEPTH
<1> QED BY <1>1, <1>2, <1>3, <1>4, <1>5

\* The lengths of a queue after an arrival and a departure.
LEMMA QueueLengths ==
    ASSUME NEW T, NEW q \in Seq(T), NEW x \in T
    PROVE  /\ Append(q, x) \in Seq(T) /\ Len(Append(q, x)) = Len(q) + 1
           /\ q # <<>> => /\ Tail(q) \in Seq(T) /\ Len(Tail(q)) = Len(q) - 1
                          /\ Len(q) # 0
OBVIOUS

\* The counter goes up with a grant and down with a response, as the bus's queue.
LEMMA BusStepOK ==
    ASSUME BusOK, ExOK(ex), NEW in \in Inputs, BusStep(in), NextCnt(in)
    PROVE  /\ BusOK'
           /\ cnt_q' = cnt_q + (IF in.gnt THEN 1 ELSE 0) - (IF in.rvalid THEN 1 ELSE 0)
<1> DEFINE x == [word |-> trans_word, we |-> ex.we]
           rest == IF in.rvalid THEN Tail(pend) ELSE pend
<1>1. x \in Trans
  <2>1. ex.op_a \in Nat /\ ex.op_b \in Nat /\ ex.we \in BOOLEAN
    BY DEF ExOK, Instr
  <2>2. data_addr_int \in Nat
    BY <2>1 DEF data_addr_int
  <2>3. trans_word \in Nat
    BY <2>2 DEF trans_word
  <2> QED BY <2>1, <2>3 DEF Trans
<1>2. /\ in.gnt \in BOOLEAN /\ in.rvalid \in BOOLEAN
      /\ in.rvalid => cnt_q # 0 /\ pend # <<>>
      /\ in.gnt => cnt_q # 2
      /\ count_up(in) <=> in.gnt
  BY BusInputs, EmptySeq DEF BusOK
<1>3. /\ rest \in Seq(Trans)
      /\ Len(rest) = cnt_q - (IF in.rvalid THEN 1 ELSE 0)
  <2>1. pend \in Seq(Trans) /\ cnt_q = Len(pend) /\ cnt_q \in 0..2
    BY DEF BusOK
  <2> QED BY <1>1, <1>2, <2>1, QueueLengths
<1>4. pend' = IF in.gnt THEN Append(rest, x) ELSE rest
  BY DEF BusStep
<1>5. cnt_q' = cnt_q + (IF in.gnt THEN 1 ELSE 0) - (IF in.rvalid THEN 1 ELSE 0)
  BY <1>2 DEF NextCnt, resp_valid
<1> HIDE DEF rest, x
<1>6. /\ pend' \in Seq(Trans)
      /\ Len(pend') = Len(rest) + (IF in.gnt THEN 1 ELSE 0)
  BY <1>1, <1>2, <1>3, <1>4, QueueLengths
<1>7. cnt_q \in 0..2
  BY DEF BusOK
<1>8. cnt_q' = Len(pend') /\ cnt_q' \in 0..2
  BY <1>2, <1>3, <1>5, <1>6, <1>7
<1> QED BY <1>5, <1>6, <1>8 DEF BusOK

\* An access leaves EX in the cycle in which the load-store unit has finished with it:
\* nothing else holds it back, above all no result of the FPU at the ALU port.
LEMMA Leaves ==
    ASSUME ExOK(ex), BusOK, SlotsOK, NEW in \in Inputs, ex.req
    PROVE  ex_ready(in) <=> lsu_ready_ex(in)
<1>1. /\ ex.apu = 0 /\ ex.slow = "no" /\ ~ex.branch
      /\ cnt_q \in 0..2 /\ in.gnt \in BOOLEAN /\ in.rvalid \in BOOLEAN
  BY BusInputs DEF ExOK, BusOK
<1>2. ex_ready(in) => lsu_ready_ex(in)
  BY <1>1 DEF ex_ready
<1>3. ASSUME lsu_ready_ex(in) PROVE ex_ready(in)
  <2>1. trans_valid(in) \/ in.rvalid
    BY <1>3, <1>1 DEF lsu_ready_ex, count_up, resp_valid
  <2>2. lsu_ready_wb(in)
    BY <1>3, <1>1 DEF lsu_ready_ex, lsu_ready_wb, resp_valid
  <2>3. ~apu_stall
    BY <1>1 DEF apu_stall, stall_type, valid_waiting, SlotsOK
  <2>4. unit_ready(in)
    BY <1>1 DEF unit_ready
  <2>5. ~wb_contention(in)
    <3>1. SUFFICES ASSUME apu_valid(in), ex.alu_rd # NoReg, singlecycle \/ multicycle
                   PROVE  FALSE
      BY DEF wb_contention, apu_writes_alu
    <3>2. port_needed(in)
      BY <2>1, <3>1 DEF port_needed
    <3>3. ~multicycle
      BY <3>1, <3>2 DEF apu_valid
    <3>4. apu.inflight = NoReg
      BY <3>1, <3>3 DEF singlecycle, active, valid_inflight
    <3>5. fpu = <<>> /\ ~apu.rvalid_q
      BY <3>4 DEF SlotsOK
    <3>6. ~valid_req
      BY <1>1 DEF valid_req
    <3> QED BY <3>1, <3>3, <3>5, <3>6 DEF apu_valid, answers
  <2> QED BY <1>3, <2>2, <2>3, <2>4, <2>5 DEF ex_ready
<1> QED BY <1>2, <1>3

\* The history of the access in EX: a transaction under way means a full bus.
LEMMA IssueStepOK ==
    ASSUME ExOK(ex), BusOK, IssueOK, SlotsOK, NEW in \in Inputs,
           LsuStep(in, ex_ready(in)), ~ex_ready(in) => ex'.req = ex.req
    PROVE  IssueOK'
<1>1. /\ in.gnt \in BOOLEAN /\ in.rvalid \in BOOLEAN
      /\ in.rvalid => cnt_q # 0
      /\ in.gnt => ex.req /\ cnt_q # 2
      /\ count_up(in) <=> in.gnt
      /\ cnt_q \in 0..2
  BY BusInputs DEF BusOK
<1>2. cnt_q' = cnt_q + (IF in.gnt THEN 1 ELSE 0) - (IF in.rvalid THEN 1 ELSE 0)
  BY BusStepOK DEF LsuStep
<1>3. issued' = IF ex_ready(in) THEN 0 ELSE issued + (IF in.gnt THEN 1 ELSE 0)
  BY <1>1 DEF LsuStep, History, IssuedNow
<1>4. issued \in 0..1 /\ (issued = 1 <=> cnt_q = 2) /\ (issued = 1 => ex.req)
  BY DEF IssueOK
<1>5. CASE ~ex.req
  <2>1. issued = 0 /\ ~in.gnt /\ cnt_q \in 0..1
    BY <1>1, <1>4, <1>5
  <2>2. issued' = 0 /\ cnt_q' # 2 /\ cnt_q' \in 0..1
    BY <1>1, <1>2, <1>3, <2>1
  <2> QED BY <2>2 DEF IssueOK
<1>6. CASE ex.req /\ ex_ready(in)
  <2>1. lsu_ready_ex(in)
    BY <1>6, Leaves
  <2>2. /\ cnt_q = 0 => in.gnt /\ ~in.rvalid
        /\ cnt_q = 1 => in.gnt /\ in.rvalid
        /\ cnt_q = 2 => ~in.gnt /\ in.rvalid
    BY <1>1, <1>6, <2>1 DEF lsu_ready_ex, resp_valid
  <2>3. issued' = 0 /\ cnt_q' = 1
    BY <1>1, <1>2, <1>3, <1>6, <2>2
  <2> QED BY <2>3 DEF IssueOK
<1>7. CASE ex.req /\ ~ex_ready(in)
  <2>1. ~lsu_ready_ex(in)
    BY <1>7, Leaves
  <2>2. /\ cnt_q = 0 => ~in.gnt /\ ~in.rvalid
        /\ cnt_q = 1 => ~(in.gnt /\ in.rvalid)
        /\ cnt_q = 2 => ~in.gnt /\ ~in.rvalid
    BY <1>1, <1>7, <2>1 DEF lsu_ready_ex, resp_valid
  <2>3. issued' \in 0..1 /\ (issued' = 1 <=> cnt_q' = 2)
    BY <1>1, <1>2, <1>3, <1>4, <1>7, <2>2
  <2> QED BY <1>7, <2>3 DEF IssueOK
<1> QED BY <1>5, <1>6, <1>7

-----------------------------------------------------------------------------
(* The slots of the dispatcher.                                            *)

\* While an FPU operation is in EX, nothing keeps a result off the ALU port: the
\* operation that returns at once is never memorized.
LEMMA PortFree ==
    ASSUME ExOK(ex), ex.apu # 0, NEW in
    PROVE  ~port_needed(in)
<1>1. ~ex.req /\ ~ex.misaligned /\ ex.alu_rd = NoReg /\ ex.slow = "no"
  BY DEF ExOK
<1> QED BY <1>1 DEF port_needed, data_misaligned, mulh_active

\* Ageing the operations of the FPU changes neither their number nor their latency.
LEMMA Ageing ==
    ASSUME NEW q \in Seq(Operation), Len(q) =< 1,
           NEW aged, aged = [k \in DOMAIN q |-> [q[k] EXCEPT !.old = TRUE]]
    PROVE  /\ aged \in Seq(Operation) /\ Len(aged) = Len(q)
           /\ q # <<>> => Len(q) = 1 /\ aged[1].lat = q[1].lat
           /\ q = <<>> => aged = <<>>
<1>1. DOMAIN q = 1..Len(q) /\ Len(q) \in Nat /\ \A k \in 1..Len(q) : q[k] \in Operation
  OBVIOUS
<1>2. \A k \in 1..Len(q) : /\ aged[k] = [q[k] EXCEPT !.old = TRUE]
                           /\ aged[k] \in Operation /\ aged[k].lat = q[k].lat
  BY <1>1 DEF Operation
<1>3. aged \in [1..Len(q) -> Operation]
  BY <1>1, <1>2
<1>4. aged \in Seq(Operation) /\ Len(aged) = Len(q)
  BY <1>1, <1>3
<1>5. q # <<>> => Len(q) = 1
  BY <1>1, EmptySeq
<1>6. q = <<>> => aged = <<>>
  BY <1>4, EmptySeq
<1> QED BY <1>2, <1>4, <1>5, <1>6

\* The slots follow the unit: one operation in flight, with its owner, or one
\* memorized result, never both and never one without the other.
LEMMA SlotsStepOK ==
    ASSUME ExOK(ex), SlotsOK, NEW in, ApuStep(in)
    PROVE  SlotsOK'
<1> DEFINE op == [lat |-> ex.apu, result |-> ex.result, old |-> FALSE]
           aged == [k \in DOMAIN fpu |-> [fpu[k] EXCEPT !.old = TRUE]]
           accepted == valid_req /\ ~returned_req(in)
           memorize == answers(in) /\ multicycle /\ port_needed(in)
<1>1. /\ aged \in Seq(Operation) /\ Len(aged) = Len(fpu)
      /\ fpu # <<>> => Len(fpu) = 1 /\ aged[1].lat = fpu[1].lat
      /\ fpu = <<>> => aged = <<>>
  BY Ageing DEF SlotsOK
<1>2. fpu' = LET rest == IF answers(in) /\ fpu # <<>> THEN Tail(aged) ELSE aged
             IN  IF valid_req /\ ~(answers(in) /\ fpu = <<>>) THEN Append(rest, op)
                 ELSE rest
  BY DEF ApuStep, FpuStep
<1>3. /\ apu'.inflight = Slots(in).inflight
      /\ apu'.waiting = Slots(in).waiting
      /\ apu'.lat = IF valid_req THEN ex.apu ELSE apu.lat
      /\ apu'.rvalid_q = (memorize \/ (apu.rvalid_q /\ port_needed(in)))
  BY DEF ApuStep, NextApu
<1>4. /\ apu.waiting = NoReg /\ ~valid_waiting
      /\ apu.inflight \in Dest /\ apu.lat \in 0..3 /\ apu.rvalid_q \in BOOLEAN
      /\ fpu # <<>> => fpu[1].lat = apu.lat /\ apu.lat \in 2..3
      /\ apu.rvalid_q => fpu = <<>> /\ apu.lat = 3
      /\ apu.inflight # NoReg <=> (fpu # <<>> \/ apu.rvalid_q)
      /\ active <=> apu.inflight # NoReg
      /\ valid_inflight <=> apu.inflight # NoReg
      /\ NoReg \in Dest
  <2>1. fpu # <<>> => fpu[1] \in Operation
    BY <1>1 DEF SlotsOK
  <2>2. fpu # <<>> => fpu[1].lat \in 1..3
    BY <2>1 DEF Operation
  <2>3. fpu # <<>> => apu.lat \in 2..3
    BY <2>2 DEF SlotsOK
  <2> QED BY <2>3 DEF SlotsOK, active, valid_waiting, valid_inflight, Dest
<1>5. /\ ex.apu \in 0..3 /\ ex.apu_rd \in Dest /\ ex.result \in Nat
      /\ ex.apu # 0 => ex.apu_rd # NoReg /\ ~port_needed(in)
      /\ ex.apu # 0 => op \in Operation
  BY PortFree DEF ExOK, Instr, Operation
<1>6. /\ valid_req <=> ex.apu # 0 /\ (active => ex.apu = 2 /\ apu.lat # 3)
      /\ ~returned_waiting(in)
      /\ returned_inflight(in) <=> active /\ apu_valid(in)
      /\ returned_req(in) <=> valid_req /\ apu_valid(in) /\ ~active
  BY <1>4 DEF valid_req, apu_stall, stall_type, returned_waiting, returned_inflight,
              returned_req
<1>7. /\ Slots(in).inflight = IF accepted THEN ex.apu_rd
                              ELSE IF returned_inflight(in) THEN NoReg ELSE apu.inflight
      /\ accepted /\ (active => returned_inflight(in)) => Slots(in).waiting = NoReg
      /\ ~accepted => Slots(in).waiting = NoReg
  BY <1>4, <1>6 DEF Slots
<1>8. /\ fpu = <<>> => (answers(in) <=> valid_req /\ ex.apu = 1)
      /\ fpu # <<>> /\ apu.lat = 2 => answers(in)
      /\ apu_valid(in) <=> /\ ~(apu.lat = 3 /\ port_needed(in))
                           /\ answers(in) \/ apu.rvalid_q
      /\ memorize <=> answers(in) /\ apu.lat = 3 /\ port_needed(in)
  BY <1>4 DEF answers, apu_valid, multicycle
<1>9. /\ <<>> \in Seq(Operation) /\ Len(<<>>) = 0
      /\ ex.apu # 0 => /\ Append(<<>>, op) \in Seq(Operation)
                       /\ Append(<<>>, op) # <<>> /\ Len(Append(<<>>, op)) = 1
                       /\ Append(<<>>, op)[1].lat = ex.apu
      /\ fpu # <<>> => Tail(aged) = <<>> /\ aged # <<>>
  <2>1. fpu # <<>> => Len(Tail(aged)) = 0 /\ Tail(aged) \in Seq(Operation) /\ aged # <<>>
    BY <1>1
  <2>2. ASSUME ex.apu # 0
        PROVE  /\ Append(<<>>, op) \in Seq(Operation)
               /\ Append(<<>>, op) # <<>> /\ Len(Append(<<>>, op)) = 1
               /\ Append(<<>>, op)[1] = op
    BY <1>5, <2>2
  <2> QED BY <2>1, <2>2, EmptySeq
<1> HIDE DEF op, aged, accepted, memorize
<1> SUFFICES
        /\ apu'.waiting = NoReg
        /\ apu'.inflight \in Dest /\ apu'.lat \in 0..3 /\ apu'.rvalid_q \in BOOLEAN
        /\ fpu' \in Seq(Operation)
        /\ Len(fpu') =< 1
        /\ fpu' # <<>> => fpu'[1].lat = apu'.lat /\ apu'.lat # 1
        /\ apu'.rvalid_q => fpu' = <<>> /\ apu'.lat = 3
        /\ apu'.inflight # NoReg <=> (fpu' # <<>> \/ apu'.rvalid_q)
  BY DEF SlotsOK
<1>10. CASE ~active
  <2>1. fpu = <<>> /\ ~apu.rvalid_q /\ apu.inflight = NoReg
    BY <1>4, <1>10
  <2>2. CASE ex.apu = 0
    <3>1. ~valid_req /\ ~answers(in) /\ ~accepted /\ ~memorize
      BY <1>6, <1>8, <2>1, <2>2 DEF accepted
    <3>2. fpu' = <<>>
      BY <1>1, <1>2, <2>1, <3>1
    <3> QED BY <1>3, <1>4, <1>6, <1>7, <1>9, <1>10, <2>1, <3>1, <3>2
  <2>3. CASE ex.apu = 1
    <3>1. valid_req /\ answers(in) /\ apu_valid(in) /\ ~memorize
      BY <1>5, <1>6, <1>8, <1>10, <2>1, <2>3
    <3>2. ~accepted /\ ~returned_inflight(in)
      BY <1>6, <1>10, <3>1 DEF accepted
    <3>3. fpu' = <<>>
      BY <1>1, <1>2, <2>1, <3>1
    <3> QED BY <1>3, <1>4, <1>5, <1>7, <1>9, <2>1, <3>1, <3>2, <3>3
  <2>4. CASE ex.apu \in 2..3
    <3>1. valid_req /\ ~answers(in) /\ ~apu_valid(in) /\ ~memorize
      BY <1>5, <1>6, <1>8, <1>10, <2>1, <2>4
    <3>2. accepted
      BY <1>6, <3>1 DEF accepted
    <3>3. fpu' = Append(<<>>, op)
      BY <1>1, <1>2, <2>1, <3>1
    <3> QED BY <1>3, <1>4, <1>5, <1>7, <1>9, <1>10, <2>1, <2>4, <3>1, <3>2, <3>3
  <2> QED BY <1>5, <2>2, <2>3, <2>4
<1>11. CASE active /\ fpu # <<>> /\ apu.lat = 2
  <2>1. answers(in) /\ apu_valid(in) /\ ~memorize /\ ~apu.rvalid_q
    BY <1>4, <1>8, <1>11
  <2>2. returned_inflight(in) /\ (accepted <=> valid_req) /\ (valid_req <=> ex.apu = 2)
    BY <1>5, <1>6, <1>11, <2>1 DEF accepted
  <2>3. fpu' = IF ex.apu = 2 THEN Append(<<>>, op) ELSE <<>>
    BY <1>2, <1>9, <1>11, <2>1, <2>2
  <2> QED BY <1>3, <1>4, <1>5, <1>7, <1>9, <1>11, <2>1, <2>2, <2>3
<1>12. CASE active /\ fpu # <<>> /\ apu.lat = 3
  <2>1. ~valid_req /\ ~accepted /\ ~apu.rvalid_q
    BY <1>4, <1>6, <1>12 DEF accepted
  <2>2. CASE answers(in)
    <3>1. fpu' = <<>>
      BY <1>2, <1>9, <1>12, <2>1, <2>2
    <3>2. CASE port_needed(in)
      <4>1. ~apu_valid(in) /\ memorize
        BY <1>8, <1>12, <2>2, <3>2
      <4>2. apu'.rvalid_q = TRUE
        BY <1>3, <4>1
      <4>3. /\ apu'.inflight \in Dest /\ apu'.inflight # NoReg
            /\ apu'.waiting = NoReg /\ apu'.lat = 3 /\ apu'.lat \in 0..3
        BY <1>3, <1>4, <1>6, <1>7, <1>12, <2>1, <4>1
      <4>4. fpu' \in Seq(Operation) /\ Len(fpu') =< 1
        BY <1>9, <3>1
      <4> QED BY <3>1, <4>2, <4>3, <4>4
    <3>3. CASE ~port_needed(in)
      <4>1. apu_valid(in) /\ ~memorize
        BY <1>8, <2>2, <3>3
      <4> QED BY <1>3, <1>4, <1>6, <1>7, <1>9, <1>12, <2>1, <3>1, <4>1
    <3> QED BY <3>2, <3>3
  <2>3. CASE ~answers(in)
    <3>1. fpu' = aged
      BY <1>2, <2>1, <2>3
    <3>2. ~apu_valid(in) /\ ~memorize
      BY <1>8, <2>1, <2>3
    <3> QED BY <1>1, <1>3, <1>4, <1>6, <1>7, <1>9, <1>12, <2>1, <3>1, <3>2
  <2> QED BY <2>2, <2>3
<1>13. CASE active /\ fpu = <<>>
  <2>1. apu.rvalid_q /\ apu.lat = 3
    BY <1>4, <1>13
  <2>2. ~valid_req /\ ~accepted /\ ~answers(in) /\ ~memorize
    BY <1>6, <1>8, <1>13, <2>1 DEF accepted
  <2>3. fpu' = <<>>
    BY <1>1, <1>2, <1>13, <2>2
  <2>4. CASE port_needed(in)
    <3>1. ~apu_valid(in) /\ apu'.rvalid_q
      BY <1>3, <1>8, <2>1, <2>4
    <3> QED BY <1>3, <1>4, <1>6, <1>7, <1>9, <1>13, <2>1, <2>2, <2>3, <3>1
  <2>5. CASE ~port_needed(in)
    <3>1. apu_valid(in) /\ ~apu'.rvalid_q
      BY <1>3, <1>8, <2>1, <2>2, <2>5
    <3> QED BY <1>3, <1>4, <1>6, <1>7, <1>9, <1>13, <2>1, <2>2, <2>3, <3>1
  <2> QED BY <2>4, <2>5
<1> QED BY <1>4, <1>10, <1>11, <1>12, <1>13

-----------------------------------------------------------------------------
(* The invariant and what follows from it.                                 *)

\* The control information that WB keeps of an access.
LEMMA LatchesStepOK ==
    ASSUME ExOK(ex), LatchesOK, NEW in, NextCtrl(in), NextWb(in)
    PROVE  LatchesOK'
<1>1. /\ ex.type \in {"word", "half", "byte"} /\ ex.sign \in {"zero", "sign", "ones"}
      /\ ex.we \in BOOLEAN /\ ex.we_rd \in BOOLEAN /\ ex.rd \in Dest
      /\ ex.op_a \in Nat /\ ex.op_b \in Nat
  BY DEF ExOK, Instr
<1>2. offset \in 0..3
  <2>1. data_addr_int \in Nat
    BY <1>1 DEF data_addr_int
  <2> QED BY <2>1 DEF offset
<1>3. ctrl_q' \in [type : {"word", "half", "byte"}, offset : 0..3,
                   sign : {"zero", "sign", "ones"}, we : BOOLEAN]
  BY <1>1, <1>2 DEF NextCtrl, LatchesOK
<1>4. wb' \in [we : BOOLEAN, rd : Dest]
  <2>1. [wb EXCEPT !.we = FALSE] \in [we : BOOLEAN, rd : Dest] /\ wb.rd \in Dest
    BY DEF LatchesOK
  <2>2. [we |-> ex.we_rd, rd |-> IF ex.we_rd THEN ex.rd ELSE wb.rd]
          \in [we : BOOLEAN, rd : Dest]
    BY <1>1, <2>1
  <2> QED BY <2>1, <2>2 DEF NextWb, LatchesOK
<1> QED BY <1>3, <1>4 DEF LatchesOK

LEMMA InitOK == Init => IInv
<1> SUFFICES ASSUME Init PROVE IInv
  OBVIOUS
<1>1. NoReg \in Dest
  BY DEF Dest
<1>2. ExOK(ex)
  <2>1. Idle \in Instr /\ ~Idle.req /\ Idle.apu = 0 /\ ~Idle.misaligned
    BY <1>1 DEF Idle, Instr
  <2> QED BY <2>1 DEF Init, ExOK
<1>3. BusOK
  <2>1. <<>> \in Seq(Trans) /\ Len(<<>>) = 0
    OBVIOUS
  <2> QED BY <2>1 DEF Init, LsuInit, BusOK
<1>4. IssueOK
  BY DEF Init, LsuInit, IssueOK
<1>5. SlotsOK
  <2>1. <<>> \in Seq(Operation) /\ Len(<<>>) = 0
    OBVIOUS
  <2>2. /\ apu.waiting = NoReg /\ apu.inflight = NoReg /\ apu.lat = 0
        /\ apu.rvalid_q = FALSE /\ fpu = <<>>
    BY DEF Init, ApuInit
  <2>3. apu.rvalid_q \in BOOLEAN /\ ~apu.rvalid_q
    BY <2>2
  <2>4. apu.lat \in 0..3 /\ fpu \in Seq(Operation) /\ Len(fpu) =< 1
    BY <2>1, <2>2
  <2> QED BY <1>1, <2>2, <2>3, <2>4 DEF SlotsOK
<1>6. LatchesOK
  BY <1>1 DEF Init, LsuInit, LatchesOK
<1> QED BY <1>2, <1>3, <1>4, <1>5, <1>6 DEF IInv

LEMMA StepOK == IInv /\ [Next]_vars => IInv'
<1>1. ASSUME IInv, Next PROVE IInv'
  <2>1. PICK in \in Inputs : Issue(in) \/ Drain(in)
    BY <1>1 DEF Next
  <2>2. ExOK(ex') /\ Edge(in) /\ (~ex_ready(in) => ex'.req = ex.req)
    BY <1>1, <2>1, StepsOfEx DEF IInv
  <2>3. LsuStep(in, ex_ready(in)) /\ ApuStep(in) /\ NextWb(in)
    BY <2>2 DEF Edge
  <2>4. BusOK'
    BY <1>1, <2>3, BusStepOK DEF IInv, LsuStep
  <2>5. IssueOK'
    BY <1>1, <2>2, <2>3, IssueStepOK DEF IInv
  <2>6. SlotsOK'
    BY <1>1, <2>3, SlotsStepOK DEF IInv
  <2>7. LatchesOK'
    BY <1>1, <2>3, LatchesStepOK DEF IInv, LsuStep
  <2>8. ExOK(ex)'
    BY <2>2 DEF ExOK, Instr, Dest
  <2> QED BY <2>4, <2>5, <2>6, <2>7, <2>8 DEF IInv
<1>2. ASSUME IInv, UNCHANGED vars PROVE IInv'
  <2>1. ExOK(ex)'
    BY <1>2 DEF IInv, vars, ExOK, Instr, Dest
  <2>2. /\ ex' = ex /\ pend' = pend /\ cnt_q' = cnt_q /\ issued' = issued
        /\ apu' = apu /\ fpu' = fpu /\ ctrl_q' = ctrl_q /\ wb' = wb
    BY <1>2 DEF vars, lsuVars, apuVars
  <2>3. BusOK' /\ IssueOK' /\ SlotsOK' /\ LatchesOK'
    BY <1>2, <2>2 DEF IInv, BusOK, IssueOK, SlotsOK, LatchesOK
  <2> QED BY <2>1, <2>3 DEF IInv
<1> QED BY <1>1, <1>2

THEOREM Invariance == Spec => []IInv
BY InitOK, StepOK, PTL DEF Spec

\* Every register of EX, WB, the load-store unit and the dispatcher stays within its
\* type.
THEOREM TypeCorrect == Spec => []TypeOK
<1>1. ASSUME IInv PROVE TypeOK
  <2>1. NoReg \in Dest
    BY DEF Dest
  <2>2. ex.rd \in Dest /\ ex.alu_rd \in Dest
    BY <1>1 DEF IInv, ExOK, Instr
  <2> QED BY <1>1, <2>1, <2>2
          DEF IInv, BusOK, IssueOK, SlotsOK, LatchesOK, TypeOK, DEPTH, Trans
<1> QED BY <1>1, Invariance, PTL

\* The outstanding-transaction counter of the load-store unit is the number of
\* responses the bus owes, and never passes its depth.
THEOREM OutstandingCounted == Spec => []CountsOutstanding
<1>1. ASSUME IInv PROVE CountsOutstanding
  <2>1. cnt_q = Len(pend) /\ cnt_q \in 0..2
    BY <1>1 DEF IInv, BusOK
  <2> QED BY <2>1 DEF CountsOutstanding, DEPTH
<1> QED BY <1>1, Invariance, PTL

\* No load or store is requested twice or leaves EX unrequested, whatever the bus,
\* the multi-cycle units and the FPU do meanwhile.
THEOREM AccessIssuedOnce == Spec => []IssuedOnce
<1>1. ASSUME IInv PROVE IssuedOnce
  <2> SUFFICES ASSUME ex.req, NEW in \in Inputs
               PROVE  /\ IssuedNow(in) =< 1
                      /\ lsu_ready_ex(in) => IssuedNow(in) = 1
    BY DEF IssuedOnce
  <2>1. /\ in.gnt \in BOOLEAN /\ (in.gnt => cnt_q # 2) /\ (count_up(in) <=> in.gnt)
        /\ cnt_q \in 0..2 /\ issued \in 0..1 /\ (issued = 1 <=> cnt_q = 2)
    BY <1>1, BusInputs DEF IInv, BusOK, IssueOK
  <2>2. IssuedNow(in) = issued + (IF in.gnt THEN 1 ELSE 0)
    BY <2>1 DEF IssuedNow
  <2>3. lsu_ready_ex(in) => cnt_q = 2 \/ in.gnt
    BY <2>1 DEF lsu_ready_ex
  <2> QED BY <2>1, <2>2, <2>3
<1> QED BY <1>1, Invariance, PTL

\* The dispatcher's slots follow the FPU: a result never returns without an owner and
\* no owner waits for a result that never comes.
THEOREM SlotsFollowUnit == Spec => []SlotsMatchUnit
<1>1. ASSUME IInv PROVE SlotsMatchUnit
  <2>1. /\ apu.waiting = NoReg /\ apu.rvalid_q \in BOOLEAN /\ Len(fpu) =< 1
        /\ (apu.rvalid_q => fpu = <<>>)
        /\ (apu.inflight # NoReg <=> (fpu # <<>> \/ apu.rvalid_q))
    BY <1>1 DEF IInv, SlotsOK
  <2>2. valid_inflight = (fpu # <<>> \/ apu.rvalid_q)
    BY <2>1 DEF valid_inflight
  <2> QED BY <2>1, <2>2 DEF SlotsMatchUnit, valid_waiting
<1> QED BY <1>1, Invariance, PTL

-----------------------------------------------------------------------------
(* 2. What a store writes.                                                 *)

\* What the transaction of the access in EX writes.
Here == {<<4 * trans_word + k, wdata_byte(k)>> : k \in data_be}

\* What the first part of a misaligned store has written when the second is in EX.
Before == IF ex.misaligned /\ ex.we
          THEN {<<data_addr_int - 4 + k, k>> : k \in 0..3 - offset}
          ELSE {}

SentOK ==
    /\ sent = Before \cup (IF issued = 1 /\ ex.we THEN Here ELSE {})
    /\ ex.misaligned => data_addr_int >= 4 /\ offset + Size(ex.type) > 4

SInv == IInv /\ SentOK

-----------------------------------------------------------------------------
(* Addresses and lanes.                                                    *)

\* A byte address is four times its word plus its offset.
LEMMA WordAndOffset ==
    ASSUME NEW a \in Nat
    PROVE  /\ a % 4 \in 0..3 /\ a \div 4 \in Nat /\ a = 4 * (a \div 4) + (a % 4)
           /\ (a + 4) % 4 = a % 4 /\ (a + 4) \div 4 = a \div 4 + 1
OBVIOUS

LEMMA Rotation ==
    ASSUME NEW k \in 0..3, NEW o \in 0..3
    PROVE  (k - o) % 4 = IF o =< k THEN k - o ELSE k - o + 4
<1> k \in {0, 1, 2, 3} /\ o \in {0, 1, 2, 3}
  OBVIOUS
<1> QED OBVIOUS

\* The rotation of the store data brings to each lane the byte that belongs there.
LEMMA Address ==
    ASSUME ExOK(ex)
    PROVE  /\ data_addr_int \in Nat /\ offset \in 0..3 /\ trans_word \in Nat
           /\ data_addr_int = 4 * trans_word + offset
           /\ Size(ex.type) \in {1, 2, 4}
           /\ \A k \in 0..3 : wdata_byte(k) = IF offset =< k THEN k - offset
                                               ELSE k - offset + 4
<1>1. ex.op_a \in Nat /\ ex.op_b \in Nat /\ ex.type \in {"word", "half", "byte"}
  BY DEF ExOK, Instr
<1>2. data_addr_int \in Nat
  BY <1>1 DEF data_addr_int
<1>3. /\ offset \in 0..3 /\ trans_word \in Nat
      /\ data_addr_int = 4 * trans_word + offset
  BY <1>2, WordAndOffset DEF offset, trans_word
<1>4. Size(ex.type) \in {1, 2, 4}
  BY <1>1 DEF Size
<1>5. \A k \in 0..3 : wdata_byte(k) = IF offset =< k THEN k - offset ELSE k - offset + 4
  BY <1>3, Rotation DEF wdata_byte
<1> QED BY <1>2, <1>3, <1>4, <1>5

\* The bytes of an access, or of its first part, up to byte n.
LEMMA LowerBytes ==
    ASSUME ExOK(ex), ~ex.misaligned, NEW n \in 0..4,
           offset + n =< 4, n = Size(ex.type) \/ (n = 4 - offset /\ n =< Size(ex.type))
    PROVE  Here = {<<data_addr_int + j, j>> : j \in 0..n - 1}
<1> DEFINE a == data_addr_int
           o == offset
           w == trans_word
<1>1. /\ a \in Nat /\ o \in 0..3 /\ w \in Nat /\ a = 4 * w + o
      /\ \A k \in 0..3 : o =< k => wdata_byte(k) = k - o
  BY Address
<1>2. data_be = {k \in 0..3 : o =< k /\ k < o + n}
  BY <1>1, Address DEF data_be
<1>3. Here = {<<4 * w + k, wdata_byte(k)>> : k \in data_be}
  BY DEF Here
<1>4. \A k \in data_be : /\ k - o \in 0..n - 1
                         /\ 4 * w + k = a + (k - o) /\ wdata_byte(k) = k - o
  <2> HIDE DEF a, o, w
  <2> QED BY <1>1, <1>2
<1>5. \A j \in 0..n - 1 : /\ j + o \in data_be
                          /\ 4 * w + (j + o) = a + j /\ wdata_byte(j + o) = j
  <2> SUFFICES ASSUME NEW j \in 0..n - 1
               PROVE  /\ j + o \in data_be
                      /\ 4 * w + (j + o) = a + j /\ wdata_byte(j + o) = j
    OBVIOUS
  <2>1. j + o \in 0..3 /\ o =< j + o /\ j + o < o + n /\ (j + o) - o = j
    BY <1>1
  <2>2. 4 * w + (j + o) = a + j
    BY <1>1
  <2>3. wdata_byte(j + o) = j
    BY <1>1, <2>1
  <2> QED BY <1>2, <2>1, <2>2, <2>3
<1> HIDE DEF a, o, w
<1>6. Here \subseteq {<<a + j, j>> : j \in 0..n - 1}
  BY <1>3, <1>4
<1>7. {<<a + j, j>> : j \in 0..n - 1} \subseteq Here
  BY <1>3, <1>5
<1> QED BY <1>6, <1>7 DEF a

\* The second part of a misaligned access has the bytes that are left.
LEMMA UpperBytes ==
    ASSUME ExOK(ex), ex.misaligned, offset + Size(ex.type) > 4
    PROVE  Here = {<<data_addr_int - 4 + j, j>> : j \in 4 - offset..Size(ex.type) - 1}
<1> DEFINE a == data_addr_int
           o == offset
           w == trans_word
           n == Size(ex.type)
<1>1. /\ a \in Nat /\ o \in 0..3 /\ w \in Nat /\ a = 4 * w + o /\ n \in {1, 2, 4}
      /\ o + n > 4
      /\ \A k \in 0..3 : ~(o =< k) => wdata_byte(k) = k - o + 4
  BY Address
<1>2. data_be = {k \in 0..3 : k < o + n - 4}
  BY DEF data_be
<1>3. Here = {<<4 * w + k, wdata_byte(k)>> : k \in data_be}
  BY DEF Here
<1>4. \A k \in data_be : /\ k - o + 4 \in 4 - o..n - 1
                         /\ 4 * w + k = a - 4 + (k - o + 4)
                         /\ wdata_byte(k) = k - o + 4
  <2> HIDE DEF a, o, w, n
  <2> SUFFICES ASSUME NEW k \in data_be
               PROVE  /\ k - o + 4 \in 4 - o..n - 1
                      /\ 4 * w + k = a - 4 + (k - o + 4)
                      /\ wdata_byte(k) = k - o + 4
    OBVIOUS
  <2>1. k \in 0..3 /\ k < o + n - 4
    BY <1>2
  <2>2. ~(o =< k)
    BY <1>1, <2>1
  <2> QED BY <1>1, <2>1, <2>2
<1>5. \A j \in 4 - o..n - 1 : /\ j + o - 4 \in data_be
                              /\ 4 * w + (j + o - 4) = a - 4 + j
                              /\ wdata_byte(j + o - 4) = j
  <2> HIDE DEF a, o, w, n
  <2> SUFFICES ASSUME NEW j \in 4 - o..n - 1
               PROVE  /\ j + o - 4 \in data_be
                      /\ 4 * w + (j + o - 4) = a - 4 + j
                      /\ wdata_byte(j + o - 4) = j
    OBVIOUS
  <2>1. /\ j + o - 4 \in 0..3 /\ j + o - 4 < o + n - 4 /\ ~(o =< j + o - 4)
        /\ (j + o - 4) - o + 4 = j
    BY <1>1
  <2>2. 4 * w + (j + o - 4) = a - 4 + j
    BY <1>1, <2>1
  <2>3. wdata_byte(j + o - 4) = j
    BY <1>1, <2>1
  <2> QED BY <1>2, <2>1, <2>2, <2>3
<1> HIDE DEF a, o, w, n
<1>6. Here \subseteq {<<a - 4 + j, j>> : j \in 4 - o..n - 1}
  BY <1>3, <1>4
<1>7. {<<a - 4 + j, j>> : j \in 4 - o..n - 1} \subseteq Here
  BY <1>3, <1>5
<1> QED BY <1>6, <1>7 DEF a, o, n

-----------------------------------------------------------------------------
(* The steps.                                                              *)

\* When a whole access or its second part leaves EX, a new history begins.
LEMMA NextBegins ==
    ASSUME ExOK(ex), NEW in, Issue(in) \/ Drain(in), ex_ready(in), ~data_misaligned
    PROVE  ~ex'.misaligned
<1>1. CASE Issue(in)
  <2>1. PICK i \in Loads \cup Stores \cup AluOps \cup FpuOps \cup Links \cup Branches :
           ex' = Enters(i)
    BY <1>1 DEF Issue
  <2>2. ~i.misaligned /\ i \in Instr
    BY InstructionsOK DEF ExOK
  <2> QED BY <2>1, <2>2 DEF Enters, Instr
<1>2. CASE Drain(in)
  <2>1. ex' = [Idle EXCEPT !.rd = ex.rd]
    BY <1>2 DEF Drain, SecondPart, Hold, Bubble
  <2> QED BY <2>1 DEF Idle
<1> QED BY <1>1, <1>2

\* The second part of an access is at the address behind the first word.
LEMMA SecondAddress ==
    ASSUME ExOK(ex), NEW in, SecondPart(in)
    PROVE  /\ ex'.misaligned /\ ex'.we = ex.we /\ ex'.type = ex.type
           /\ data_addr_int' = data_addr_int + 4 /\ offset' = offset
<1> DEFINE a == IF ex.useincr THEN ex.op_a + ex.op_b ELSE ex.op_a
<1>1. ex \in Instr /\ a \in Nat
  BY DEF ExOK, Instr
<1>2. ex' = [ex EXCEPT !.op_a = a, !.op_b = 4, !.alu_rd = NoReg,
                       !.useincr = TRUE, !.misaligned = TRUE]
  BY DEF SecondPart
<1>3. a = data_addr_int
  BY DEF data_addr_int
<1> HIDE DEF a
<1>4. /\ ex'.misaligned /\ ex'.we = ex.we /\ ex'.type = ex.type
      /\ ex'.op_a = a /\ ex'.op_b = 4 /\ ex'.useincr = TRUE
  BY <1>1, <1>2 DEF Instr
<1>5. data_addr_int' = a + 4
  BY <1>4 DEF data_addr_int
<1>6. offset' = offset
  BY <1>1, <1>3, <1>5, WordAndOffset DEF offset
<1> QED BY <1>3, <1>4, <1>5, <1>6

\* While an access waits, the bytes of its transaction stay the same.
LEMMA HoldsBytes ==
    ASSUME ExOK(ex), NEW in, Hold(in)
    PROVE  /\ Here' = Here /\ Before' = Before /\ ex'.we = ex.we
           /\ ex'.misaligned = ex.misaligned /\ ex'.type = ex.type
           /\ data_addr_int' = data_addr_int /\ offset' = offset
<1>1. PICK s : ex' = [ex EXCEPT !.slow = s]
  BY DEF Hold
<1>2. /\ ex'.we = ex.we /\ ex'.misaligned = ex.misaligned /\ ex'.type = ex.type
      /\ ex'.op_a = ex.op_a /\ ex'.op_b = ex.op_b /\ ex'.useincr = ex.useincr
  BY <1>1 DEF ExOK, Instr
<1>3. data_addr_int' = data_addr_int
  BY <1>2 DEF data_addr_int
<1>4. offset' = offset /\ trans_word' = trans_word
  BY <1>3 DEF offset, trans_word
<1>5. data_be' = data_be
  BY <1>2, <1>4 DEF data_be, Size
<1>6. \A k : wdata_byte(k)' = wdata_byte(k)
  BY <1>4 DEF wdata_byte
<1>7. Here' = Here
  BY <1>4, <1>5, <1>6 DEF Here
<1>8. Before' = Before
  BY <1>2, <1>3, <1>4 DEF Before
<1> QED BY <1>2, <1>3, <1>4, <1>7, <1>8

\* What the histories are after a cycle.
LEMMA Histories ==
    ASSUME IInv, SentOK, NEW in \in Inputs, LsuStep(in, ex_ready(in))
    PROVE  /\ issued' = IF ex_ready(in) THEN 0 ELSE IssuedNow(in)
           /\ sent' = IF ex_ready(in) /\ ~data_misaligned THEN {} ELSE SentNow(in)
           /\ IssuedNow(in) \in 0..1
           /\ SentNow(in) = Before \cup (IF IssuedNow(in) = 1 /\ ex.we THEN Here ELSE {})
<1>1. /\ in.gnt \in BOOLEAN /\ (count_up(in) <=> in.gnt) /\ (in.gnt => cnt_q # 2)
      /\ issued \in 0..1 /\ (issued = 1 <=> cnt_q = 2)
  BY BusInputs DEF IInv, IssueOK
<1>2. IssuedNow(in) = issued + (IF in.gnt THEN 1 ELSE 0)
  BY <1>1 DEF IssuedNow
<1>3. SentNow(in) = IF in.gnt /\ ex.we THEN sent \cup Here ELSE sent
  BY <1>1 DEF SentNow, Here
<1>4. sent = Before \cup (IF issued = 1 /\ ex.we THEN Here ELSE {})
  BY DEF SentOK
<1>5. /\ IssuedNow(in) \in 0..1
      /\ IssuedNow(in) = 1 <=> (issued = 1 \/ in.gnt)
      /\ in.gnt => issued # 1
  BY <1>1, <1>2
<1>6. SentNow(in) = Before \cup (IF IssuedNow(in) = 1 /\ ex.we THEN Here ELSE {})
  BY <1>3, <1>4, <1>5
<1> QED BY <1>5, <1>6 DEF LsuStep, History

LEMMA SentStepOK ==
    ASSUME IInv, SentOK, NEW in \in Inputs, Issue(in) \/ Drain(in)
    PROVE  SentOK'
<1>1. ExOK(ex) /\ BusOK /\ SlotsOK /\ LsuStep(in, ex_ready(in))
  BY StepsOfEx DEF IInv, Edge
<1>2. /\ issued' = IF ex_ready(in) THEN 0 ELSE IssuedNow(in)
      /\ sent' = IF ex_ready(in) /\ ~data_misaligned THEN {} ELSE SentNow(in)
      /\ IssuedNow(in) \in 0..1
      /\ SentNow(in) = Before \cup (IF IssuedNow(in) = 1 /\ ex.we THEN Here ELSE {})
  BY <1>1, Histories
<1>3. CASE ex_ready(in) /\ ~data_misaligned
  <2>1. ~ex'.misaligned
    BY <1>1, <1>3, NextBegins
  <2>2. sent' = {} /\ issued' = 0 /\ Before' = {}
    BY <1>2, <1>3, <2>1 DEF Before
  <2> QED BY <2>1, <2>2 DEF SentOK
<1>4. CASE ex_ready(in) /\ data_misaligned
  <2>1. ex.req /\ ~ex.misaligned /\ offset + Size(ex.type) > 4
    BY <1>4 DEF data_misaligned
  <2>2. SecondPart(in)
    BY <1>4 DEF Drain, Issue, id_ready, Bubble, Hold
  <2>3. /\ ex'.misaligned /\ ex'.we = ex.we /\ ex'.type = ex.type
        /\ data_addr_int' = data_addr_int + 4 /\ offset' = offset
    BY <1>1, <2>2, SecondAddress
  <2>4. IssuedNow(in) = 1
    <3>1. lsu_ready_ex(in)
      BY <1>1, <1>4, <2>1, Leaves
    <3>2. /\ count_up(in) <=> in.gnt
          /\ cnt_q \in 0..2 /\ (issued = 1 <=> cnt_q = 2) /\ issued \in 0..1
      BY <1>1, BusInputs DEF IInv, BusOK, IssueOK
    <3>3. cnt_q = 2 \/ in.gnt
      BY <2>1, <3>1, <3>2 DEF lsu_ready_ex
    <3> QED BY <1>2, <3>2, <3>3 DEF IssuedNow
  <2>5. sent' = IF ex.we THEN Here ELSE {}
    BY <1>2, <1>4, <2>1, <2>4 DEF Before
  <2>6. /\ data_addr_int \in Nat /\ offset \in 0..3 /\ Size(ex.type) \in {1, 2, 4}
    BY <1>1, Address
  <2>7. Here = {<<data_addr_int + k, k>> : k \in 0..3 - offset}
    <3>1. /\ 4 - offset \in 0..4 /\ offset + (4 - offset) =< 4
          /\ 4 - offset =< Size(ex.type) /\ (4 - offset) - 1 = 3 - offset
      BY <2>1, <2>6
    <3>2. Here = {<<data_addr_int + k, k>> : k \in 0..(4 - offset) - 1}
      BY <1>1, <2>1, <3>1, LowerBytes
    <3> QED BY <3>1, <3>2
  <2>8. Before' = IF ex.we THEN Here ELSE {}
    <3> DEFINE bytes(a, o) == {<<a + k, k>> : k \in 0..3 - o}
    <3>1. Before' = IF ex'.misaligned /\ ex'.we THEN bytes(data_addr_int' - 4, offset')
                    ELSE {}
      BY DEF Before
    <3>2. Here = bytes(data_addr_int, offset)
      BY <2>7
    <3> HIDE DEF bytes
    <3>3. data_addr_int' - 4 = data_addr_int
      BY <2>3, <2>6
    <3> QED BY <2>3, <3>1, <3>2, <3>3
  <2>9. /\ data_addr_int' >= 4 /\ offset' + Size(ex'.type) > 4
    BY <2>1, <2>3, <2>6
  <2> QED BY <1>2, <1>4, <2>5, <2>8, <2>9 DEF SentOK
<1>5. CASE ~ex_ready(in)
  <2>1. Hold(in)
    BY <1>5 DEF Drain, Issue, id_ready, SecondPart, Bubble
  <2>2. /\ Here' = Here /\ Before' = Before /\ ex'.we = ex.we
        /\ ex'.misaligned = ex.misaligned /\ ex'.type = ex.type
        /\ data_addr_int' = data_addr_int /\ offset' = offset
    BY <1>1, <2>1, HoldsBytes
  <2>3. sent' = Before \cup (IF issued' = 1 /\ ex.we THEN Here ELSE {})
    BY <1>2, <1>5
  <2> QED BY <2>2, <2>3 DEF SentOK
<1> QED BY <1>3, <1>4, <1>5

LEMMA StoreInvariance == Spec => []SInv
<1>1. Init => SentOK
  BY DEF Init, LsuInit, SentOK, Before, Idle
<1>2. SInv /\ [Next]_vars => SentOK'
  <2>1. ASSUME SInv, Next PROVE SentOK'
    <3>1. PICK in \in Inputs : Issue(in) \/ Drain(in)
      BY <2>1 DEF Next
    <3> QED BY <2>1, <3>1, SentStepOK DEF SInv
  <2>2. ASSUME SInv, UNCHANGED vars PROVE SentOK'
    <3>1. ex' = ex /\ sent' = sent /\ issued' = issued
      BY <2>2 DEF vars, lsuVars
    <3>2. data_addr_int' = data_addr_int
      BY <3>1 DEF data_addr_int
    <3>3. offset' = offset /\ trans_word' = trans_word
      BY <3>2 DEF offset, trans_word
    <3>4. data_be' = data_be
      BY <3>1, <3>3 DEF data_be
    <3>5. \A k : wdata_byte(k)' = wdata_byte(k)
      BY <3>3 DEF wdata_byte
    <3>6. Here' = Here /\ Before' = Before
      BY <3>1, <3>2, <3>3, <3>4, <3>5 DEF Here, Before
    <3> QED BY <2>2, <3>1, <3>2, <3>3, <3>6 DEF SInv, SentOK
  <2> QED BY <2>1, <2>2
<1> QED BY <1>1, <1>2, InitOK, StepOK, PTL DEF Spec, SInv

\* A store that leaves EX has written exactly its bytes, each to its address, whether
\* it took one transaction or two and however long the bus delayed them.
THEOREM StoreWritesItsBytes == Spec => []StoresItsBytes
<1>1. ASSUME SInv PROVE StoresItsBytes
  <2> SUFFICES ASSUME NEW in \in Inputs, ex.req, ex.we, lsu_ready_ex(in),
                      ~data_misaligned
               PROVE  SentNow(in) =
                        {<<(IF ex.misaligned THEN data_addr_int - 4 ELSE data_addr_int) + k,
                           k>> : k \in 0..Size(ex.type) - 1}
    BY DEF StoresItsBytes
  <2>1. ExOK(ex) /\ SentOK /\ IssueOK /\ BusOK
    BY <1>1 DEF SInv, IInv
  <2>2. SentNow(in) = Before \cup Here
    <3>1. /\ count_up(in) <=> in.gnt
          /\ in.gnt \in BOOLEAN
          /\ cnt_q \in 0..2 /\ (issued = 1 <=> cnt_q = 2)
      BY <2>1, BusInputs DEF BusOK, IssueOK
    <3>2. issued = 1 \/ in.gnt
      BY <3>1 DEF lsu_ready_ex
    <3>3. SentNow(in) = IF in.gnt THEN sent \cup Here ELSE sent
      BY <3>1 DEF SentNow, Here
    <3>4. sent = Before \cup (IF issued = 1 THEN Here ELSE {})
      BY <2>1 DEF SentOK
    <3> QED BY <3>2, <3>3, <3>4
  <2>3. /\ data_addr_int \in Nat /\ offset \in 0..3 /\ Size(ex.type) \in {1, 2, 4}
    BY <2>1, Address
  <2>4. CASE ~ex.misaligned
    <3>1. offset + Size(ex.type) =< 4 /\ Size(ex.type) \in 0..4
      BY <2>3, <2>4 DEF data_misaligned
    <3>2. Here = {<<data_addr_int + j, j>> : j \in 0..Size(ex.type) - 1}
      BY <2>1, <2>4, <3>1, LowerBytes
    <3>3. Before = {}
      BY <2>4 DEF Before
    <3> QED BY <2>2, <2>4, <3>2, <3>3
  <2>5. CASE ex.misaligned
    <3> DEFINE a == data_addr_int - 4
               n == Size(ex.type)
    <3>1. offset + n > 4
      BY <2>1, <2>5 DEF SentOK
    <3>2. Here = {<<a + j, j>> : j \in 4 - offset..n - 1}
      BY <2>1, <2>5, <3>1, UpperBytes
    <3>3. Before = {<<a + j, j>> : j \in 0..3 - offset}
      BY <2>5 DEF Before
    <3>4. 0..n - 1 = (0..3 - offset) \cup (4 - offset..n - 1)
      <4> HIDE DEF n
      <4> QED BY <2>3, <3>1 DEF n
    <3> HIDE DEF a, n
    <3>5. SentNow(in) = {<<a + k, k>> : k \in 0..n - 1}
      BY <2>2, <3>2, <3>3, <3>4
    <3> QED BY <2>5, <3>5 DEF a, n
  <2> QED BY <2>4, <2>5
<1> QED BY <1>1, StoreInvariance, PTL

-----------------------------------------------------------------------------
(* 3. Program order.                                                       *)

\* An instruction writes each of its registers by one way.
OneWriter(e) ==
    /\ e.we_rd => e.req /\ ~e.we
    /\ e.branch => ~e.req /\ e.apu = 0 /\ e.alu_rd = NoReg /\ e.slow = "no"
    /\ IF e.apu = 0 THEN e.apu_rd = NoReg ELSE ~e.we_rd
    /\ e.misaligned => e.alu_rd = NoReg

\* The transaction of the access in EX is the second one, the word of the first part
\* of a misaligned load the first one, or already in rdata_q.
BusData ==
    /\ issued = 1 => pend[2] = [word |-> trans_word, we |-> ex.we]
    /\ ex.misaligned /\ ~ex.we =>
          /\ cnt_q # 0 => pend[1] = [word |-> trans_word - 1, we |-> FALSE] /\ ~ctrl_q.we
          /\ cnt_q = 0 => rdata_q = Word([k \in 1..4 |-> 4 * (trans_word - 1) + k - 1])

\* A load in WB waits for its response; regfile_waddr_ex names its register until the
\* next load comes.
WbOK ==
    wb.we =>
        /\ cnt_q # 0
        /\ ~ex.we_rd => ex.rd = wb.rd
        /\ ex.misaligned => ex.we_rd /\ ex.rd = wb.rd

\* EX writes no register that an older result in flight still has to reach, except
\* with an FPU operation, and WB waits for no load next to an FPU result that it would
\* keep off the register file, unless EX requests that result again.
InflightOK ==
    apu.inflight # NoReg =>
        /\ ex.alu_rd # apu.inflight
        /\ ~(ex.we_rd /\ ex.rd = apu.inflight)
        /\ wb.we /\ (wb.rd = apu.inflight \/ apu.lat = 2) =>
              ex.apu # 0 /\ ex.apu_rd = apu.inflight

\* The registers the instruction in EX writes, and what it writes.
ExWrites(r) ==
    \/ ex.we_rd /\ ex.rd = r
    \/ ex.alu_rd = r
    \/ ex.apu # 0 /\ ex.apu_rd = r

FirstAddress == IF ex.misaligned THEN data_addr_int - 4 ELSE data_addr_int
ExLoaded == [lanes |-> [k \in 1..Size(ex.type) |-> FirstAddress + k - 1],
             fill |-> Fill(ex.type, ex.sign)]
ExValue(r) ==
    IF ex.we_rd /\ ex.rd = r THEN ExLoaded
    ELSE Num(IF ex.req THEN ex.op_a + ex.op_b ELSE ex.result)

\* What has left EX: a result of the FPU, the load in WB, or the register itself.
FpuValue == Num(IF apu.rvalid_q THEN apu.result_q ELSE fpu[1].result)
Behind(r) ==
    IF apu.inflight = r THEN FpuValue
    ELSE IF wb.we /\ wb.rd = r THEN data_rdata_ext
    ELSE rf[r]

ValuesOK ==
    /\ rf = [r \in Regs |-> rf[r]] /\ arch = [r \in Regs |-> arch[r]]
    /\ \A r \in Regs : arch[r] = IF ExWrites(r) THEN ExValue(r) ELSE Behind(r)

OInv == SInv /\ OneWriter(ex) /\ BusData /\ WbOK /\ InflightOK /\ ValuesOK

-----------------------------------------------------------------------------
(* The instructions.                                                       *)

\* Everything that enters EX writes each register by one way.
LEMMA InstructionsWrite ==
    ASSUME NEW i \in Loads \cup Stores \cup AluOps \cup FpuOps \cup Links \cup Branches
    PROVE  OneWriter(i) /\ i \in Instr /\ ~i.misaligned
<1>0. i \in Instr /\ ~i.misaligned
  BY InstructionsOK DEF ExOK
<1>i. Idle \in Instr
  BY DEF Idle, Instr, Dest
<1>1. ASSUME NEW acc \in Accesses
      PROVE  /\ acc \in Instr /\ acc.req /\ ~acc.we_rd /\ ~acc.we /\ ~acc.branch
             /\ acc.apu = 0 /\ acc.apu_rd = NoReg
  <2>1. PICK t \in Types, a \in Bases, b \in Incs,
             post \in IF CorevPulp THEN Dest ELSE {NoReg} :
          acc = Access(t, a, b, post)
    BY <1>1 DEF Accesses
  <2>2. /\ post \in Dest /\ t \in {"word", "half", "byte"} /\ a \in Nat /\ b \in Nat
        /\ (post = NoReg) \in BOOLEAN /\ NoReg \in Dest
    BY LsuAssumption DEF Dest, LsuAssumption
  <2>3. Access(t, a, b, post) \in Instr
    BY <1>i, <2>2 DEF Access, Instr
  <2> QED BY <2>1, <2>3 DEF Access, Idle
<1>3. CASE i \in Loads
  <2>1. PICK acc \in Accesses, r \in Dest, s \in Signs : i = Load(acc, r, s)
    BY <1>3 DEF Loads
  <2>2. /\ i.req = acc.req /\ i.we = acc.we /\ i.branch = acc.branch
        /\ i.apu = acc.apu /\ i.apu_rd = acc.apu_rd
    BY <1>1, <2>1 DEF Load, Instr
  <2> QED BY <1>0, <1>1, <2>2 DEF OneWriter
<1>4. CASE i \in Stores
  <2>1. PICK acc \in Accesses : i = [acc EXCEPT !.we = TRUE]
    BY <1>4 DEF Stores
  <2>2. /\ i.we_rd = acc.we_rd /\ i.branch = acc.branch
        /\ i.apu = acc.apu /\ i.apu_rd = acc.apu_rd
    BY <1>1, <2>1 DEF Instr
  <2> QED BY <1>0, <1>1, <2>2 DEF OneWriter
<1>5. CASE i \in AluOps
  <2>1. PICK r \in Regs, n \in Results, s \in {"no", "div", "mulh_idle"} :
          i = AluOp(r, n, s)
    BY <1>5 DEF AluOps
  <2>2. ~i.we_rd /\ ~i.branch /\ i.apu_rd = NoReg
    BY <2>1 DEF AluOp, Idle
  <2> QED BY <1>0, <2>2 DEF OneWriter
<1>6. CASE i \in FpuOps
  <2>1. PICK l \in Lats, r \in Regs : i = FpuOp(l, r)
    BY <1>6 DEF FpuOps
  <2>2. ~i.we_rd /\ ~i.branch /\ i.apu # 0
    <3>1. l # 0
      BY ApuAssumption DEF ApuAssumption
    <3> QED BY <2>1, <3>1 DEF FpuOp, Idle
  <2> QED BY <1>0, <2>2 DEF OneWriter
<1>7. CASE i \in Links
  <2>1. ~i.we_rd /\ ~i.branch /\ i.apu_rd = NoReg
    BY <1>7 DEF Links, Idle
  <2> QED BY <1>0, <2>1 DEF OneWriter
<1>8. CASE i \in Branches
  <2>1. ~i.we_rd /\ ~i.req /\ i.apu = 0 /\ i.alu_rd = NoReg /\ i.slow = "no"
        /\ i.apu_rd = NoReg
    BY <1>8 DEF Branches, Idle
  <2> QED BY <1>0, <2>1 DEF OneWriter
<1> QED BY <1>3, <1>4, <1>5, <1>6, <1>7, <1>8

\* What EX holds after a step: a new instruction, or what it held.
LEMMA WritersStepOK ==
    ASSUME ExOK(ex), OneWriter(ex), NEW in, Issue(in) \/ Drain(in)
    PROVE  OneWriter(ex')
<1>0. ex \in Instr
  BY DEF ExOK
<1>1. CASE Issue(in)
  <2>1. PICK i \in Loads \cup Stores \cup AluOps \cup FpuOps \cup Links \cup Branches :
           ex' = Enters(i)
    BY <1>1 DEF Issue
  <2>2. OneWriter(i) /\ i \in Instr
    BY InstructionsWrite
  <2>3. /\ ex'.we_rd = i.we_rd /\ ex'.req = i.req /\ ex'.we = i.we
        /\ ex'.branch = i.branch /\ ex'.alu_rd = i.alu_rd /\ ex'.apu = i.apu
        /\ ex'.misaligned = i.misaligned /\ ex'.slow = i.slow
        /\ ex'.apu_rd = i.apu_rd
    BY <2>1, <2>2 DEF Enters, Instr
  <2> QED BY <2>2, <2>3 DEF OneWriter
<1>2. CASE SecondPart(in)
  <2>1. /\ ex'.we_rd = ex.we_rd /\ ex'.req = ex.req /\ ex'.we = ex.we
        /\ ex'.branch = ex.branch /\ ex'.alu_rd = NoReg /\ ex'.apu = ex.apu
        /\ ex'.slow = ex.slow /\ ex'.apu_rd = ex.apu_rd
    BY <1>0, <1>2 DEF SecondPart, Instr
  <2> QED BY <2>1 DEF OneWriter
<1>3. CASE Bubble(in)
  <2>1. ~ex'.we_rd /\ ex'.alu_rd = NoReg /\ ~ex'.branch /\ ex'.apu_rd = NoReg
    BY <1>3 DEF Bubble, Idle
  <2> QED BY <2>1 DEF OneWriter
<1>4. CASE Hold(in)
  <2>1. PICK s : ex' = [ex EXCEPT !.slow = s] /\ (ex.slow = "no" => s = "no")
    BY <1>4 DEF Hold
  <2>2. /\ ex'.we_rd = ex.we_rd /\ ex'.req = ex.req /\ ex'.we = ex.we
        /\ ex'.branch = ex.branch /\ ex'.alu_rd = ex.alu_rd /\ ex'.apu = ex.apu
        /\ ex'.misaligned = ex.misaligned /\ ex'.slow = s
        /\ ex'.apu_rd = ex.apu_rd
    BY <1>0, <2>1 DEF Instr
  <2> QED BY <2>1, <2>2 DEF OneWriter
<1> QED BY <1>1, <1>2, <1>3, <1>4 DEF Drain

-----------------------------------------------------------------------------
(* The bus and the load in WB.                                             *)

\* The ends of a queue of at most two.
LEMMA QueueEnds ==
    ASSUME NEW T, NEW q \in Seq(T), NEW x \in T
    PROVE  /\ Append(q, x)[Len(q) + 1] = x
           /\ q # <<>> => /\ Append(q, x)[1] = q[1] /\ Head(q) = q[1]
                          /\ Append(q, x) # <<>>
           /\ Len(q) > 1 => Tail(q)[1] = q[2]
           /\ q = <<>> <=> Len(q) = 0
OBVIOUS

\* The access that leaves EX has its transaction alone on the bus, whether it has been
\* granted now or waited behind an older one, and its control information is in WB.
LEMMA AccessLeaves ==
    ASSUME IInv, BusData, NEW in \in Inputs, LsuStep(in, ex_ready(in)),
           ex.req, ex_ready(in)
    PROVE  /\ cnt_q' = 1 /\ pend' # <<>> /\ Head(pend') = pend'[1]
           /\ pend'[1] = [word |-> trans_word, we |-> ex.we]
           /\ ctrl_q' = [type |-> ex.type, offset |-> offset, sign |-> ex.sign,
                         we |-> ex.we]
           /\ in.rvalid <=> cnt_q # 0
           /\ lsu_ready_ex(in) /\ lsu_ready_wb(in)
<1> DEFINE x == [word |-> trans_word, we |-> ex.we]
<1>1. ExOK(ex) /\ BusOK /\ IssueOK /\ SlotsOK
  BY DEF IInv
<1>2. /\ in.gnt \in BOOLEAN /\ in.rvalid \in BOOLEAN /\ (count_up(in) <=> in.gnt)
      /\ in.rvalid => cnt_q # 0
      /\ in.gnt => cnt_q # 2
      /\ cnt_q \in 0..2 /\ cnt_q = Len(pend) /\ pend \in Seq(Trans)
  BY <1>1, BusInputs DEF BusOK
<1>3. lsu_ready_ex(in)
  BY <1>1, Leaves
<1>4. /\ cnt_q = 0 => in.gnt /\ ~in.rvalid
      /\ cnt_q = 1 => in.gnt /\ in.rvalid
      /\ cnt_q = 2 => ~in.gnt /\ in.rvalid
  BY <1>2, <1>3 DEF lsu_ready_ex, resp_valid
<1>5. x \in Trans
  BY <1>1, Address DEF ExOK, Instr, Trans
<1>6. pend' = LET rest == IF in.rvalid THEN Tail(pend) ELSE pend
              IN  IF in.gnt THEN Append(rest, x) ELSE rest
  BY DEF LsuStep, BusStep
<1>7. BusOK' /\ cnt_q' = 1
  <2>1. /\ BusOK'
        /\ cnt_q' = cnt_q + (IF in.gnt THEN 1 ELSE 0) - (IF in.rvalid THEN 1 ELSE 0)
    BY <1>1, BusStepOK DEF LsuStep
  <2>2. in.gnt \in BOOLEAN /\ in.rvalid \in BOOLEAN /\ cnt_q \in {0, 1, 2}
    BY <1>2
  <2>3. cnt_q' = 1
    BY <1>4, <2>1, <2>2
  <2> QED BY <2>1, <2>3
<1> HIDE DEF x
<1>8. pend'[1] = x
  <2>1. CASE cnt_q = 0
    <3>1. pend = <<>> /\ pend' = Append(pend, x)
      BY <1>2, <1>4, <1>6, <2>1, EmptySeq
    <3> QED BY <1>5, <3>1
  <2>2. CASE cnt_q = 1
    <3>1. pend # <<>> /\ pend' = Append(Tail(pend), x)
      BY <1>2, <1>4, <1>6, <2>2
    <3>2. Tail(pend) \in Seq(Trans) /\ Len(Tail(pend)) = 0
      <4>1. pend \in Seq(Trans) /\ Len(pend) = 1
        BY <1>2, <2>2
      <4> QED BY <3>1, <4>1
    <3> QED BY <1>5, <3>1, <3>2, QueueEnds
  <2>3. CASE cnt_q = 2
    <3>1. pend' = Tail(pend) /\ Len(pend) > 1 /\ issued = 1
      BY <1>1, <1>2, <1>4, <1>6, <2>3 DEF IssueOK
    <3> QED BY <1>2, <1>5, <3>1, QueueEnds DEF BusData, x
  <2> QED BY <1>2, <2>1, <2>2, <2>3
<1>9. pend' # <<>> /\ Head(pend') = pend'[1]
  <2>1. pend' \in Seq(Trans) /\ Len(pend') = 1
    BY <1>7 DEF BusOK
  <2>2. pend' # <<>>
    BY <2>1, EmptySeq
  <2> QED BY <2>1, <2>2, HeadTailProperties
<1>10. ctrl_q' = [type |-> ex.type, offset |-> offset, sign |-> ex.sign, we |-> ex.we]
  BY <1>3 DEF LsuStep, NextCtrl
<1>11. lsu_ready_wb(in)
  BY <1>2, <1>4 DEF lsu_ready_wb, resp_valid
<1> QED BY <1>2, <1>3, <1>4, <1>7, <1>8, <1>9, <1>10, <1>11 DEF x

\* While its response is awaited, the oldest transaction stays at the head and nothing
\* that its data is made of changes.
LEMMA ResponseAwaited ==
    ASSUME IInv, NEW in \in Inputs, LsuStep(in, ex_ready(in)), cnt_q # 0, ~in.rvalid
    PROVE  /\ cnt_q' # 0 /\ pend # <<>> /\ pend' # <<>> /\ pend'[1] = pend[1]
           /\ Head(pend') = Head(pend)
           /\ ctrl_q' = ctrl_q /\ rdata_q' = rdata_q
           /\ ~lsu_ready_wb(in) /\ (ex.req => ~lsu_ready_ex(in))
<1> DEFINE x == [word |-> trans_word, we |-> ex.we]
<1>1. ExOK(ex) /\ BusOK
  BY DEF IInv
<1>2. /\ in.gnt \in BOOLEAN /\ (count_up(in) <=> in.gnt)
      /\ cnt_q \in 1..2 /\ cnt_q = Len(pend) /\ pend \in Seq(Trans)
  BY <1>1, BusInputs DEF BusOK
<1>3. x \in Trans
  BY <1>1, Address DEF ExOK, Instr, Trans
<1>4. pend' = IF in.gnt THEN Append(pend, x) ELSE pend
  BY DEF LsuStep, BusStep
<1>5. cnt_q' # 0
  <2>1. cnt_q' = cnt_q + (IF in.gnt THEN 1 ELSE 0) - (IF in.rvalid THEN 1 ELSE 0)
    BY <1>1, BusStepOK DEF LsuStep
  <2> QED BY <1>2, <2>1
<1>6. ~lsu_ready_wb(in) /\ (ex.req => ~lsu_ready_ex(in))
  BY <1>2 DEF lsu_ready_wb, lsu_ready_ex, resp_valid
<1>7. ctrl_q' = ctrl_q /\ rdata_q' = rdata_q
  BY <1>6 DEF LsuStep, NextCtrl, NextRdata, resp_valid
<1>8. pend # <<>>
  BY <1>2
<1> HIDE DEF x
<1>9. pend' # <<>> /\ pend'[1] = pend[1]
  BY <1>2, <1>3, <1>4, <1>8, QueueEnds
<1>10. BusOK'
  BY <1>1, BusStepOK DEF LsuStep
<1>11. Head(pend') = pend'[1] /\ Head(pend) = pend[1]
  BY <1>2, <1>8, <1>9, <1>10 DEF BusOK
<1> QED BY <1>5, <1>6, <1>7, <1>8, <1>9, <1>11


\* The second part of a load follows its first word, which is on the bus or, when the
\* response came before the second part was granted, in rdata_q.
LEMMA BusDataStepOK ==
    ASSUME IInv, BusData, NEW in \in Inputs, Issue(in) \/ Drain(in)
    PROVE  BusData'
<1> DEFINE x == [word |-> trans_word, we |-> ex.we]
<1>1. ExOK(ex) /\ BusOK /\ IssueOK /\ SlotsOK /\ LsuStep(in, ex_ready(in))
  BY StepsOfEx DEF IInv, Edge
<1>2. /\ in.gnt \in BOOLEAN /\ in.rvalid \in BOOLEAN /\ (count_up(in) <=> in.gnt)
      /\ in.rvalid => cnt_q # 0
      /\ in.gnt => ex.req /\ cnt_q # 2
      /\ cnt_q \in 0..2 /\ cnt_q = Len(pend) /\ pend \in Seq(Trans)
      /\ issued \in 0..1 /\ (issued = 1 <=> cnt_q = 2) /\ (issued = 1 => ex.req)
  BY <1>1, BusInputs DEF BusOK, IssueOK
<1>3. issued' = IF ex_ready(in) THEN 0 ELSE issued + (IF in.gnt THEN 1 ELSE 0)
  BY <1>1, <1>2 DEF LsuStep, History, IssuedNow
<1>4. CASE ex_ready(in) /\ ~data_misaligned
  <2>1. ~ex'.misaligned /\ issued' = 0
    BY <1>1, <1>3, <1>4, NextBegins
  <2> QED BY <2>1 DEF BusData
<1>5. CASE ex_ready(in) /\ data_misaligned
  <2>1. ex.req /\ SecondPart(in)
    BY <1>5 DEF data_misaligned, Drain, Issue, id_ready, Bubble, Hold
  <2>2. ex'.we = ex.we /\ data_addr_int' = data_addr_int + 4 /\ data_addr_int \in Nat
    BY <1>1, <2>1, SecondAddress, Address
  <2>3. trans_word' = trans_word + 1 /\ trans_word \in Nat
    BY <2>2, WordAndOffset DEF trans_word
  <2>4. trans_word' - 1 = trans_word
    BY <2>3
  <2>5. /\ cnt_q' = 1 /\ pend'[1] = x
        /\ ctrl_q' = [type |-> ex.type, offset |-> offset, sign |-> ex.sign, we |-> ex.we]
    BY <1>1, <1>5, <2>1, AccessLeaves
  <2>6. issued' = 0
    BY <1>3, <1>5
  <2>7. ~ex'.we => pend'[1] = [word |-> trans_word' - 1, we |-> FALSE] /\ ~ctrl_q'.we
    BY <1>1, <2>2, <2>4, <2>5 DEF ExOK, Instr
  <2> QED BY <2>5, <2>6, <2>7 DEF BusData
<1>6. CASE ~ex_ready(in)
  <2>1. Hold(in)
    BY <1>6 DEF Drain, Issue, id_ready, SecondPart, Bubble
  <2>2. /\ ex'.we = ex.we /\ ex'.misaligned = ex.misaligned
        /\ data_addr_int' = data_addr_int
    BY <1>1, <2>1, HoldsBytes
  <2>3. trans_word' = trans_word
    BY <2>2 DEF trans_word
  <2>4. ex.req => /\ cnt_q = 0 => ~in.gnt /\ ~in.rvalid
                  /\ cnt_q = 1 => ~(in.gnt /\ in.rvalid)
                  /\ cnt_q = 2 => ~in.gnt /\ ~in.rvalid
    <3>1. ex.req => ~lsu_ready_ex(in)
      BY <1>1, <1>6, Leaves
    <3> QED BY <1>2, <3>1 DEF lsu_ready_ex, resp_valid
  <2>5. pend' = LET rest == IF in.rvalid THEN Tail(pend) ELSE pend
                IN  IF in.gnt THEN Append(rest, x) ELSE rest
    BY <1>1 DEF LsuStep, BusStep
  <2>6. x \in Trans
    BY <1>1, Address DEF ExOK, Instr, Trans
  <2>7. cnt_q' = cnt_q + (IF in.gnt THEN 1 ELSE 0) - (IF in.rvalid THEN 1 ELSE 0)
    BY <1>1, BusStepOK DEF LsuStep
  <2> HIDE DEF x
  <2>8. issued' = 1 => pend'[2] = x
    <3>1. CASE issued = 1
      <4>1. pend' = pend
        BY <1>2, <2>4, <2>5, <3>1
      <4> QED BY <3>1, <4>1 DEF BusData, x
    <3>2. CASE issued = 0
      <4> SUFFICES ASSUME issued' = 1 PROVE pend'[2] = x
        OBVIOUS
      <4>1. in.gnt /\ ex.req
        BY <1>2, <1>3, <3>2
      <4>2. cnt_q = 1 /\ ~in.rvalid
        BY <1>2, <2>4, <4>1
      <4>3. pend' = Append(pend, x) /\ Len(pend) + 1 = 2
        BY <1>2, <2>5, <4>1, <4>2
      <4> QED BY <1>2, <2>6, <4>3, QueueEnds
    <3> QED BY <1>2, <3>1, <3>2
  <2>9. ASSUME ex.misaligned, ~ex.we
        PROVE  /\ cnt_q' # 0 => pend'[1] = [word |-> trans_word - 1, we |-> FALSE]
                                /\ ~ctrl_q'.we
               /\ cnt_q' = 0 => rdata_q' = Word([k \in 1..4 |->
                                                   4 * (trans_word - 1) + k - 1])
    <3>1. ex.req
      BY <1>1, <2>9 DEF ExOK
    <3>2. CASE cnt_q = 0
      <4>1. ~in.gnt /\ ~in.rvalid
        BY <2>4, <3>1, <3>2
      <4>2. cnt_q' = 0
        BY <2>7, <3>2, <4>1
      <4>3. rdata_q' = rdata_q
        BY <1>1, <4>1 DEF LsuStep, NextRdata, resp_valid
      <4> QED BY <2>9, <3>2, <4>2, <4>3 DEF BusData
    <3>3. CASE cnt_q # 0 /\ in.rvalid
      <4>1. cnt_q = 1 /\ ~in.gnt
        BY <1>2, <2>4, <3>1, <3>3
      <4>2. cnt_q' = 0
        BY <2>7, <3>3, <4>1
      <4>3. pend[1] = [word |-> trans_word - 1, we |-> FALSE] /\ ~ctrl_q.we
        BY <2>9, <3>3 DEF BusData
      <4>4. rdata_q' = resp_rdata
        BY <1>1, <2>9, <3>3, <4>3 DEF LsuStep, NextRdata, resp_valid
      <4>5. pend # <<>> /\ Head(pend) = pend[1]
        <5>1. pend # <<>>
          BY <1>2, <3>3
        <5> QED BY <1>2, <2>6, <5>1, QueueEnds
      <4>6. resp_rdata = Word([k \in 1..4 |-> 4 * (trans_word - 1) + k - 1])
        BY <4>3, <4>5 DEF resp_rdata
      <4> QED BY <4>2, <4>4, <4>6
    <3>4. CASE cnt_q # 0 /\ ~in.rvalid
      <4>1. cnt_q' # 0 /\ pend'[1] = pend[1] /\ ctrl_q' = ctrl_q
        BY <1>1, <3>4, ResponseAwaited
      <4> QED BY <2>9, <3>4, <4>1 DEF BusData
    <3> QED BY <3>2, <3>3, <3>4
  <2> QED BY <2>2, <2>3, <2>8, <2>9 DEF BusData, x
<1> QED BY <1>4, <1>5, <1>6

\* The lanes of a word.
LEMMA LaneOfWord ==
    ASSUME NEW b \in Int, NEW j \in 1..4
    PROVE  Lane(Word([k \in 1..4 |-> b + k - 1]), j) = b + j - 1
<1> DEFINE f == [k \in 1..4 |-> b + k - 1]
<1>1. f \in Seq(Int) /\ Len(f) = 4 /\ f[j] = b + j - 1
  OBVIOUS
<1> HIDE DEF f
<1>2. Word(f).lanes = f /\ "lanes" \in DOMAIN Word(f)
  BY DEF Word
<1>3. \A v : "lanes" \in DOMAIN v /\ j =< Len(v.lanes) => Lane(v, j) = v.lanes[j]
  BY DEF Lane
<1>4. j =< Len(Word(f).lanes)
  <2>1. Len(Word(f).lanes) = Len(f)
    BY <1>2, Zenon
  <2> QED BY <1>1, <2>1
<1>5. Lane(Word(f), j) = f[j]
  BY <1>2, <1>3, <1>4
<1> QED BY <1>1, <1>5 DEF f

\* A load that goes to WB will find its bytes in the response and, in front of them,
\* in rdata_q: the bytes of its address, assembled and extended as it demands.
LEMMA LoadArrives ==
    ASSUME IInv, SentOK, BusData, NEW in \in Inputs, LsuStep(in, ex_ready(in)),
           ex.req, ~ex.we, ex_ready(in), ~data_misaligned
    PROVE  data_rdata_ext' = ExLoaded
<1> DEFINE o == offset
           n == Size(ex.type)
           w == trans_word
           a == data_addr_int
<1>1. /\ a \in Nat /\ o \in 0..3 /\ w \in Nat /\ a = 4 * w + o /\ n \in {1, 2, 4}
  BY Address DEF IInv
<1>2. /\ pend' # <<>> /\ Head(pend') = [word |-> w, we |-> ex.we]
      /\ ctrl_q' = [type |-> ex.type, offset |-> o, sign |-> ex.sign, we |-> ex.we]
      /\ in.rvalid <=> cnt_q # 0
  BY AccessLeaves
<1>3. resp_rdata' = Word([k \in 1..4 |-> 4 * w + k - 1])
  BY <1>2 DEF resp_rdata
<1>4. \A j \in 1..4 : Lane(resp_rdata', j) = 4 * w + j - 1
  <2>1. 4 * w \in Int
    BY <1>1
  <2> HIDE DEF w
  <2> QED BY <1>3, <2>1, LaneOfWord
<1>5. data_rdata_ext' =
        [lanes |-> [i \in 1..n |-> IF o + n > 4 /\ o + i =< 4
                                   THEN Lane(rdata_q', o + i)
                                   ELSE Lane(resp_rdata', ((o + i - 1) % 4) + 1)],
         fill |-> Fill(ex.type, ex.sign)]
  BY <1>2 DEF data_rdata_ext, Size
<1>6. ASSUME NEW i \in 1..n
      PROVE  (IF o + n > 4 /\ o + i =< 4 THEN Lane(rdata_q', o + i)
              ELSE Lane(resp_rdata', ((o + i - 1) % 4) + 1)) = FirstAddress + i - 1
  <2>1. CASE ~ex.misaligned
    <3>1. o + n =< 4
      BY <1>1, <2>1 DEF data_misaligned
    <3> HIDE DEF o, n, w, a
    <3>2. o + i - 1 \in 0..3
      BY <1>1, <3>1
    <3>3. (o + i - 1) % 4 = o + i - 1
      BY <3>2
    <3>4. ((o + i - 1) % 4) + 1 \in 1..4
      BY <3>2, <3>3
    <3>5. Lane(resp_rdata', ((o + i - 1) % 4) + 1) = 4 * w + (o + i) - 1
      BY <1>1, <1>4, <3>2, <3>3, <3>4
    <3>6. FirstAddress = a
      BY <2>1 DEF FirstAddress, a
    <3> QED BY <1>1, <3>1, <3>5, <3>6
  <2>2. CASE ex.misaligned
    <3>1. a >= 4 /\ o + n > 4
      BY <2>2 DEF SentOK
    <3>2. rdata_q' = Word([k \in 1..4 |-> 4 * (w - 1) + k - 1])
      <4>1. CASE cnt_q = 0
        <5>1. rdata_q' = rdata_q
          BY <1>2, <4>1 DEF LsuStep, NextRdata, resp_valid
        <5> QED BY <2>2, <4>1, <5>1 DEF BusData
      <4>2. CASE cnt_q # 0
        <5>1. pend[1] = [word |-> w - 1, we |-> FALSE] /\ ~ctrl_q.we
          BY <2>2, <4>2 DEF BusData
        <5>2. rdata_q' = resp_rdata
          BY <1>2, <2>2, <4>2, <5>1 DEF LsuStep, NextRdata, resp_valid
        <5>3. pend # <<>> /\ Head(pend) = pend[1]
          <6>1. pend \in Seq(Trans) /\ pend # <<>>
            BY <4>2 DEF IInv, BusOK
          <6> QED BY <6>1
        <5> QED BY <5>1, <5>2, <5>3 DEF resp_rdata
      <4> QED BY <4>1, <4>2
    <3>3. FirstAddress = a - 4
      BY <2>2 DEF FirstAddress
    <3> HIDE DEF o, n, w, a
    <3>4. CASE o + i =< 4
      <4>1. o + i \in 1..4 /\ 4 * (w - 1) \in Int
        BY <1>1, <3>4
      <4>2. Lane(rdata_q', o + i) = 4 * (w - 1) + (o + i) - 1
        BY <3>2, <4>1, LaneOfWord
      <4> QED BY <1>1, <3>1, <3>3, <3>4, <4>2
    <3>5. CASE o + i > 4
      <4>1. o + i - 1 \in 4..7
        BY <1>1, <3>5
      <4>2. (o + i - 1) % 4 = o + i - 5
        <5>1. \A m \in {4, 5, 6, 7} : m % 4 = m - 4
          OBVIOUS
        <5>2. o + i - 1 \in {4, 5, 6, 7} /\ (o + i - 1) - 4 = o + i - 5
          BY <1>1, <4>1
        <5> QED BY <5>1, <5>2
      <4>3. ((o + i - 1) % 4) + 1 \in 1..4
        BY <4>1, <4>2
      <4>4. Lane(resp_rdata', ((o + i - 1) % 4) + 1) = 4 * w + (o + i) - 5
        BY <1>1, <1>4, <4>1, <4>2, <4>3
      <4> QED BY <1>1, <3>1, <3>3, <3>5, <4>4
    <3> QED BY <1>1, <3>4, <3>5
  <2> QED BY <2>1, <2>2
<1> QED BY <1>5, <1>6 DEF ExLoaded

\* What follows the instruction that leaves EX.
LEMMA NextInEx ==
    ASSUME ExOK(ex), NEW in, Issue(in) \/ Drain(in)
    PROVE  \/ /\ Issue(in) \/ Bubble(in)
              /\ ex_ready(in) /\ ~data_misaligned
              /\ ~ex'.misaligned /\ (~ex'.we_rd => ex'.rd = ex.rd)
           \/ /\ SecondPart(in) /\ ex_ready(in) /\ ex.req
              /\ ex'.we_rd = ex.we_rd /\ ex'.rd = ex.rd /\ ex'.alu_rd = NoReg
              /\ ex'.apu = ex.apu /\ ex'.req = ex.req /\ ex'.we = ex.we
              /\ ex'.type = ex.type /\ ex'.sign = ex.sign
              /\ ex'.apu_rd = ex.apu_rd
           \/ /\ Hold(in) /\ ~ex_ready(in)
              /\ ex'.we_rd = ex.we_rd /\ ex'.rd = ex.rd /\ ex'.alu_rd = ex.alu_rd
              /\ ex'.apu = ex.apu /\ ex'.req = ex.req /\ ex'.we = ex.we
              /\ ex'.type = ex.type /\ ex'.sign = ex.sign
              /\ ex'.apu_rd = ex.apu_rd /\ ex'.op_a = ex.op_a /\ ex'.op_b = ex.op_b
              /\ ex'.result = ex.result /\ ex'.misaligned = ex.misaligned
<1>0. ex \in Instr
  BY DEF ExOK
<1>1. CASE Issue(in)
  <2>1. PICK i \in Loads \cup Stores \cup AluOps \cup FpuOps \cup Links \cup Branches :
           ex' = Enters(i)
    BY <1>1 DEF Issue
  <2>2. i \in Instr /\ ~i.misaligned
    BY InstructionsWrite
  <2>3. ~ex'.misaligned /\ (~ex'.we_rd => ex'.rd = ex.rd)
    BY <2>1, <2>2 DEF Enters, Instr
  <2> QED BY <1>1, <2>3 DEF Issue, id_ready
<1>2. CASE Bubble(in)
  <2>1. ~ex'.misaligned /\ ex'.rd = ex.rd
    BY <1>2 DEF Bubble, Idle
  <2> QED BY <1>2, <2>1 DEF Bubble
<1>3. CASE SecondPart(in)
  <2>1. ex_ready(in) /\ ex.req
    BY <1>3 DEF SecondPart, data_misaligned
  <2>2. /\ ex'.we_rd = ex.we_rd /\ ex'.rd = ex.rd /\ ex'.alu_rd = NoReg
        /\ ex'.apu = ex.apu /\ ex'.req = ex.req /\ ex'.we = ex.we
        /\ ex'.type = ex.type /\ ex'.sign = ex.sign /\ ex'.apu_rd = ex.apu_rd
    BY <1>0, <1>3 DEF SecondPart, Instr
  <2> QED BY <1>3, <2>1, <2>2
<1>4. CASE Hold(in)
  <2>1. PICK s : ex' = [ex EXCEPT !.slow = s]
    BY <1>4 DEF Hold
  <2>2. /\ ex'.we_rd = ex.we_rd /\ ex'.rd = ex.rd /\ ex'.alu_rd = ex.alu_rd
        /\ ex'.apu = ex.apu /\ ex'.req = ex.req /\ ex'.we = ex.we
        /\ ex'.type = ex.type /\ ex'.sign = ex.sign
        /\ ex'.apu_rd = ex.apu_rd /\ ex'.op_a = ex.op_a /\ ex'.op_b = ex.op_b
        /\ ex'.result = ex.result /\ ex'.misaligned = ex.misaligned
    BY <1>0, <2>1 DEF Instr
  <2>3. ~ex_ready(in)
    BY <1>4 DEF Hold
  <2> QED BY <1>4, <2>2, <2>3
<1> QED BY <1>1, <1>2, <1>3, <1>4 DEF Drain

\* What the load-store unit and WB do with what leaves EX: only a branch passes a load
\* that waits for its response.
LEMMA NextInWb ==
    ASSUME IInv, OneWriter(ex), NEW in \in Inputs, Edge(in)
    PROVE  \/ /\ ex_valid(in) /\ wb'.we = ex.we_rd /\ (ex.we_rd => wb'.rd = ex.rd)
              /\ ex.we_rd => ex.req /\ ex_ready(in)
           \/ ~ex_valid(in) /\ ~ex_ready(in) /\ ~wb'.we
           \/ /\ ~ex_valid(in) /\ ~lsu_ready_wb(in) /\ wb' = wb
              /\ wb.we => cnt_q # 0 /\ ~in.rvalid
              /\ ex_ready(in) => ex.branch
<1>1. /\ wb' = IF ex_valid(in)
               THEN [we |-> ex.we_rd, rd |-> IF ex.we_rd THEN ex.rd ELSE wb.rd]
               ELSE IF lsu_ready_wb(in) THEN [wb EXCEPT !.we = FALSE] ELSE wb
      /\ wb \in [we : BOOLEAN, rd : Dest]
  BY DEF Edge, NextWb, IInv, LatchesOK
<1>2. CASE ex_valid(in)
  <2>1. wb'.we = ex.we_rd /\ (ex.we_rd => wb'.rd = ex.rd)
    BY <1>1, <1>2
  <2>2. ex.we_rd => ex.req
    BY DEF OneWriter
  <2>3. ex.we_rd => ex_ready(in)
    BY <1>2, <2>2, Leaves DEF ex_valid, IInv
  <2> QED BY <1>2, <2>1, <2>2, <2>3
<1>3. CASE ~ex_valid(in) /\ lsu_ready_wb(in)
  <2>1. ~wb'.we
    BY <1>1, <1>3
  <2>2. ~ex.branch
    BY <1>3 DEF OneWriter, ex_valid, lsu_ready_ex, unit_ready, IInv, ExOK, Instr
  <2> QED BY <1>3, <2>1, <2>2 DEF ex_ready, ex_valid
<1>4. CASE ~ex_valid(in) /\ ~lsu_ready_wb(in)
  <2>1. wb' = wb
    BY <1>1, <1>4
  <2>2. wb.we => cnt_q # 0 /\ ~in.rvalid
    BY <1>4 DEF lsu_ready_wb, resp_valid
  <2>3. ex_ready(in) => ex.branch
    BY <1>4 DEF ex_ready
  <2> QED BY <1>4, <2>1, <2>2, <2>3
<1> QED BY <1>2, <1>3, <1>4

\* The load in WB stays there until its response comes, and regfile_waddr_ex with it.
LEMMA WbStepOK ==
    ASSUME IInv, BusData, WbOK, OneWriter(ex), NEW in \in Inputs, Issue(in) \/ Drain(in)
    PROVE  WbOK'
<1>1. ExOK(ex) /\ Edge(in) /\ LsuStep(in, ex_ready(in))
  BY StepsOfEx DEF IInv, Edge
<1>2. ASSUME wb'.we
      PROVE  /\ cnt_q' # 0
             /\ ~ex'.we_rd => ex'.rd = wb'.rd
             /\ ex'.misaligned => ex'.we_rd /\ ex'.rd = wb'.rd
  <2>1. CASE wb'.we = ex.we_rd /\ (ex.we_rd => wb'.rd = ex.rd)
             /\ (ex.we_rd => ex.req /\ ex_ready(in))
    <3>1. ex.we_rd /\ ex.req /\ ex_ready(in) /\ wb'.rd = ex.rd
      BY <1>2, <2>1
    <3>2. cnt_q' = 1
      BY <1>1, <3>1, AccessLeaves
    <3>3. \/ ~ex'.misaligned /\ (~ex'.we_rd => ex'.rd = ex.rd)
          \/ ex'.we_rd = ex.we_rd /\ ex'.rd = ex.rd
      BY <1>1, <3>1, NextInEx
    <3>4. cnt_q' # 0
      BY <3>2
    <3> QED BY <3>1, <3>3, <3>4
  <2>2. CASE wb' = wb /\ (wb.we => cnt_q # 0 /\ ~in.rvalid)
             /\ (ex_ready(in) => ex.branch)
    <3>1. cnt_q # 0 /\ ~in.rvalid /\ wb.we /\ wb'.rd = wb.rd
      BY <1>2, <2>2
    <3>2. cnt_q' # 0
      BY <1>1, <3>1, ResponseAwaited
    <3>3. ex_ready(in) => ~ex.req /\ ~ex.we_rd /\ ex.rd = wb.rd
      BY <2>2, <3>1 DEF OneWriter, WbOK
    <3>4. /\ ~ex.we_rd => ex.rd = wb.rd
          /\ ex.misaligned => ex.we_rd /\ ex.rd = wb.rd
      BY <3>1 DEF WbOK
    <3>5. CASE ex_ready(in)
      <4>1. ~ex'.misaligned /\ (~ex'.we_rd => ex'.rd = ex.rd)
        BY <1>1, <3>3, <3>5, NextInEx
      <4> QED BY <3>1, <3>2, <3>3, <3>5, <4>1
    <3>6. CASE ~ex_ready(in)
      <4>1. ex'.we_rd = ex.we_rd /\ ex'.rd = ex.rd /\ ex'.misaligned = ex.misaligned
        BY <1>1, <3>6, NextInEx
      <4> QED BY <3>1, <3>2, <3>4, <4>1
    <3> QED BY <3>5, <3>6
  <2> QED BY <1>1, <1>2, <2>1, <2>2, NextInWb
<1> QED BY <1>2 DEF WbOK

-----------------------------------------------------------------------------
(* The results of the FPU.                                                 *)

\* What the dispatcher and the unit do in a cycle: a result returns to its owner, or
\* an operation starts that no older one can be overtaken by.
LEMMA Dispatch ==
    ASSUME ExOK(ex), SlotsOK, NEW in
    PROVE  /\ active <=> apu.inflight # NoReg
           /\ valid_inflight <=> active
           /\ ~valid_waiting /\ apu.waiting = NoReg
           /\ active /\ apu.lat # 3 => apu.lat = 2
           /\ valid_req <=> ex.apu # 0 /\ ~apu_stall
           /\ valid_req <=> ex.apu # 0 /\ (active => ex.apu = 2 /\ apu.lat = 2)
           /\ valid_req => ex.apu_rd # NoReg
           /\ active /\ apu.lat = 2 => apu_valid(in)
           /\ apu_valid(in) <=> /\ ~(apu.lat = 3 /\ port_needed(in))
                                /\ answers(in) \/ apu.rvalid_q
           /\ returned_req(in) <=> apu_valid(in) /\ ~active
           /\ returned_req(in) => valid_req
           /\ returned_inflight(in) <=> active /\ apu_valid(in)
           /\ ~returned_waiting(in)
           /\ apu_waddr(in) = IF active /\ apu_valid(in) THEN apu.inflight
                              ELSE IF returned_req(in) THEN ex.apu_rd ELSE NoReg
           /\ \A regs : apu_dep(in, regs) <=>
                 \/ valid_req /\ ~returned_req(in) /\ ex.apu_rd \in regs
                 \/ active /\ ~apu_valid(in) /\ apu.inflight \in regs
<1>1. /\ apu.waiting = NoReg /\ apu.rvalid_q \in BOOLEAN
      /\ fpu # <<>> => fpu[1].lat = apu.lat /\ apu.lat # 1 /\ Head(fpu) = fpu[1]
      /\ apu.rvalid_q => fpu = <<>> /\ apu.lat = 3
      /\ apu.inflight # NoReg <=> (fpu # <<>> \/ apu.rvalid_q)
  <2>1. fpu # <<>> => Head(fpu) = fpu[1]
    BY DEF SlotsOK
  <2> QED BY <2>1 DEF SlotsOK
<1>2. /\ active <=> apu.inflight # NoReg
      /\ valid_inflight <=> active
      /\ ~valid_waiting
  BY <1>1 DEF active, valid_inflight, valid_waiting
<1>3. active /\ apu.lat # 3 => apu.lat = 2
  <2>1. SUFFICES ASSUME active, apu.lat # 3 PROVE apu.lat = 2
    OBVIOUS
  <2>2. fpu # <<>>
    BY <1>1, <1>2, <2>1
  <2>3. fpu[1] \in Operation
    BY <2>2, EmptySeq DEF SlotsOK
  <2> QED BY <1>1, <2>1, <2>2, <2>3 DEF Operation
<1>4. /\ valid_req <=> ex.apu # 0 /\ ~apu_stall
      /\ valid_req <=> ex.apu # 0 /\ (active => ex.apu = 2 /\ apu.lat = 2)
  <2>1. apu.lat = 2 => apu.lat # 3
    OBVIOUS
  <2> QED BY <1>2, <1>3, <2>1 DEF valid_req, apu_stall, stall_type
<1>5. valid_req => ex.apu_rd # NoReg
  BY <1>4 DEF ExOK
<1>6. /\ fpu = <<>> => (answers(in) <=> valid_req /\ ex.apu = 1)
      /\ fpu # <<>> /\ apu.lat = 2 => answers(in)
  BY <1>1 DEF answers
<1>7. apu_valid(in) <=> /\ ~(apu.lat = 3 /\ port_needed(in))
                        /\ answers(in) \/ apu.rvalid_q
  BY DEF apu_valid, multicycle
<1>8. active /\ apu.lat = 2 => apu_valid(in)
  <2>1. SUFFICES ASSUME active, apu.lat = 2 PROVE apu_valid(in)
    OBVIOUS
  <2>2. fpu # <<>> /\ apu.lat # 3
    BY <1>1, <1>2, <2>1
  <2> QED BY <1>6, <1>7, <2>1, <2>2
<1>9. ~active /\ apu_valid(in) => valid_req
  BY <1>1, <1>2, <1>6, <1>7
<1>10. /\ returned_req(in) <=> valid_req /\ apu_valid(in) /\ ~active
       /\ returned_inflight(in) <=> active /\ apu_valid(in)
       /\ ~returned_waiting(in)
  BY <1>2 DEF returned_req, returned_inflight, returned_waiting
<1>11. apu_waddr(in) = IF active /\ apu_valid(in) THEN apu.inflight
                       ELSE IF returned_req(in) THEN ex.apu_rd ELSE NoReg
  BY <1>10 DEF apu_waddr
<1>12. \A regs : apu_dep(in, regs) <=>
          \/ valid_req /\ ~returned_req(in) /\ ex.apu_rd \in regs
          \/ active /\ ~apu_valid(in) /\ apu.inflight \in regs
  BY <1>2, <1>10 DEF apu_dep
<1> QED BY <1>1, <1>2, <1>3, <1>4, <1>5, <1>7, <1>8, <1>9, <1>10, <1>11, <1>12

\* The slot belongs to the operation that is accepted, until its result returns.
LEMMA SlotMoves ==
    ASSUME ExOK(ex), SlotsOK, NEW in, ApuStep(in)
    PROVE  /\ apu'.inflight = IF valid_req /\ ~returned_req(in) THEN ex.apu_rd
                              ELSE IF active /\ apu_valid(in) THEN NoReg
                              ELSE apu.inflight
           /\ apu'.lat = IF valid_req THEN ex.apu ELSE apu.lat
<1>1. /\ returned_inflight(in) <=> active /\ apu_valid(in)
      /\ apu'.inflight = Slots(in).inflight
  BY Dispatch DEF ApuStep, NextApu
<1>2. apu'.inflight = IF valid_req /\ ~returned_req(in) THEN ex.apu_rd
                      ELSE IF active /\ apu_valid(in) THEN NoReg
                      ELSE apu.inflight
  BY <1>1 DEF Slots
<1> QED BY <1>2 DEF ApuStep, NextApu

\* A result that returns is the one of its operation.
LEMMA FpuResult ==
    ASSUME ExOK(ex), SlotsOK, NEW in
    PROVE  /\ returned_req(in) => apu_result = ex.result
           /\ active => Num(apu_result) = FpuValue
<1>1. /\ apu.rvalid_q => fpu = <<>>
      /\ fpu # <<>> => Head(fpu) = fpu[1]
      /\ active <=> (fpu # <<>> \/ apu.rvalid_q)
      /\ returned_req(in) => ~active
  <2>1. fpu # <<>> => Head(fpu) = fpu[1]
    BY DEF SlotsOK
  <2> QED BY <2>1, Dispatch DEF SlotsOK
<1>2. returned_req(in) => apu_result = ex.result
  BY <1>1 DEF apu_result, apu_result_i
<1>3. active => Num(apu_result) = FpuValue
  BY <1>1 DEF apu_result, apu_result_i, FpuValue
<1> QED BY <1>2, <1>3

\* It stays the same while the operation goes on in the unit and while it waits for the
\* ALU port.
LEMMA FpuKeepsResult ==
    ASSUME ExOK(ex), SlotsOK, NEW in, ApuStep(in)
    PROVE  /\ valid_req /\ ~returned_req(in) => FpuValue' = Num(ex.result)
           /\ active /\ ~apu_valid(in) => FpuValue' = FpuValue
<1> DEFINE op == [lat |-> ex.apu, result |-> ex.result, old |-> FALSE]
           aged == [k \in DOMAIN fpu |-> [fpu[k] EXCEPT !.old = TRUE]]
           memorize == answers(in) /\ multicycle /\ port_needed(in)
<1>1. /\ apu.rvalid_q \in BOOLEAN /\ fpu \in Seq(Operation) /\ Len(fpu) =< 1
      /\ fpu # <<>> => fpu[1].lat = apu.lat /\ apu.lat # 1 /\ Head(fpu) = fpu[1]
      /\ apu.rvalid_q => fpu = <<>> /\ apu.lat = 3
      /\ active <=> (fpu # <<>> \/ apu.rvalid_q)
  <2>1. fpu # <<>> => Head(fpu) = fpu[1]
    BY DEF SlotsOK
  <2> QED BY <2>1, Dispatch DEF SlotsOK
<1>2. fpu' = LET rest == IF answers(in) /\ fpu # <<>> THEN Tail(aged) ELSE aged
             IN  IF valid_req /\ ~(answers(in) /\ fpu = <<>>) THEN Append(rest, op)
                 ELSE rest
  BY DEF ApuStep, FpuStep
<1>3. /\ apu'.rvalid_q = (memorize \/ (apu.rvalid_q /\ port_needed(in)))
      /\ apu'.result_q = IF memorize THEN apu_result_i ELSE apu.result_q
  BY DEF ApuStep, NextApu
<1>4. /\ valid_req <=> ex.apu # 0 /\ (active => ex.apu = 2 /\ apu.lat # 3)
      /\ active /\ valid_req => apu_valid(in)
      /\ returned_req(in) <=> valid_req /\ ~active /\ apu_valid(in)
  BY Dispatch
<1>5. /\ fpu = <<>> => (answers(in) <=> valid_req /\ ex.apu = 1)
      /\ apu_valid(in) <=> /\ ~(apu.lat = 3 /\ port_needed(in))
                           /\ answers(in) \/ apu.rvalid_q
      /\ memorize <=> answers(in) /\ apu.lat = 3 /\ port_needed(in)
  BY DEF answers, apu_valid, multicycle
<1>6. /\ aged \in Seq(Operation) /\ Len(aged) = Len(fpu)
      /\ fpu # <<>> => Len(fpu) = 1 /\ aged[1].result = fpu[1].result
      /\ fpu = <<>> => aged = <<>>
  <2>1. /\ aged \in Seq(Operation) /\ Len(aged) = Len(fpu)
        /\ fpu # <<>> => Len(fpu) = 1
        /\ fpu = <<>> => aged = <<>>
    BY <1>1, Ageing
  <2>2. ASSUME fpu # <<>> PROVE aged[1].result = fpu[1].result
    <3>1. 1 \in DOMAIN fpu /\ fpu[1] \in Operation
      BY <1>1, <2>1, <2>2
    <3>2. aged[1] = [fpu[1] EXCEPT !.old = TRUE]
      BY <3>1
    <3> QED BY <3>1, <3>2 DEF Operation
  <2> QED BY <2>1, <2>2
<1>7. ASSUME valid_req, ~returned_req(in)
      PROVE  FpuValue' = Num(ex.result)
  <2>1. ex.apu # 0 /\ ~port_needed(in)
    BY <1>4, <1>7, PortFree
  <2>2. ~apu'.rvalid_q
    BY <1>3, <1>5, <2>1
  <2>3. /\ active => fpu # <<>> /\ answers(in)
        /\ ~active => fpu = <<>> /\ ~answers(in)
    BY <1>1, <1>4, <1>5, <1>7, <2>1
  <2>4. op \in Operation
    BY <2>1 DEF ExOK, Instr, Operation
  <2>5. fpu' = Append(IF active THEN Tail(aged) ELSE aged, op)
    BY <1>2, <1>7, <2>3
  <2>6. (IF active THEN Tail(aged) ELSE aged) = <<>>
    <3>1. CASE active
      <4>1. aged \in Seq(Operation) /\ Len(aged) = 1
        BY <1>6, <2>3, <3>1
      <4>2. aged # <<>>
        BY <4>1, EmptySeq
      <4>3. Tail(aged) \in Seq(Operation) /\ Len(Tail(aged)) = 0
        BY <4>1, <4>2, HeadTailProperties
      <4> QED BY <3>1, <4>3, EmptySeq
    <3>2. CASE ~active
      BY <1>6, <2>3, <3>2
    <3> QED BY <3>1, <3>2
  <2>7. fpu'[1] = op
    <3>1. fpu' = Append(<<>>, op)
      BY <2>5, <2>6, Zenon
    <3> HIDE DEF op
    <3> QED BY <2>4, <3>1
  <2> QED BY <2>2, <2>7 DEF FpuValue
<1>8. ASSUME active, ~apu_valid(in)
      PROVE  FpuValue' = FpuValue
  <2>1. ~valid_req
    BY <1>4, <1>8
  <2>2. CASE apu.rvalid_q
    <3>1. fpu = <<>> /\ ~answers(in) /\ port_needed(in)
      BY <1>1, <1>5, <1>8, <2>1, <2>2
    <3>2. apu'.rvalid_q /\ apu'.result_q = apu.result_q
      BY <1>3, <1>5, <2>2, <3>1
    <3> QED BY <2>2, <3>2 DEF FpuValue
  <2>3. CASE ~apu.rvalid_q /\ answers(in)
    <3>1. memorize /\ fpu # <<>>
      BY <1>1, <1>5, <1>8, <2>3
    <3>2. apu'.rvalid_q /\ apu'.result_q = fpu[1].result
      BY <1>1, <1>3, <3>1 DEF apu_result_i
    <3> QED BY <2>3, <3>2 DEF FpuValue
  <2>4. CASE ~apu.rvalid_q /\ ~answers(in)
    <3>1. fpu # <<>> /\ ~memorize
      BY <1>1, <1>5, <1>8, <2>4
    <3>2. ~apu'.rvalid_q /\ fpu' = aged
      BY <1>2, <1>3, <2>1, <2>4, <3>1
    <3>3. fpu'[1].result = fpu[1].result
      BY <1>6, <3>1, <3>2
    <3> QED BY <2>4, <3>2, <3>3 DEF FpuValue
  <2> QED BY <2>2, <2>3, <2>4
<1> QED BY <1>7, <1>8

\* What an instruction that enters EX writes waits for no result of the FPU.
LEMMA IssueWaits ==
    ASSUME ExOK(ex), SlotsOK, NEW in, Issue(in), ApuStep(in), apu'.inflight # NoReg
    PROVE  ex'.alu_rd # apu'.inflight /\ ~(ex'.we_rd /\ ex'.rd = apu'.inflight)
<1>1. PICK i \in Loads \cup Stores \cup AluOps \cup FpuOps \cup Links \cup Branches :
         ex' = Enters(i) /\ (i.apu = 0 => ~apu_dep(in, Writes(i)))
  BY DEF Issue
<1>2. OneWriter(i) /\ ExOK(i) /\ i \in Instr
  BY InstructionsOK, InstructionsWrite
<1>3. /\ ex'.alu_rd = i.alu_rd /\ ex'.we_rd = i.we_rd
      /\ i.we_rd => ex'.rd = i.rd
  BY <1>1, <1>2 DEF Enters, Instr
<1>4. CASE i.apu # 0
  <2>1. i.alu_rd = NoReg /\ ~i.we_rd
    BY <1>2, <1>4 DEF ExOK, OneWriter
  <2> QED BY <1>3, <2>1
<1>5. CASE i.apu = 0
  <2>1. apu'.inflight \notin Writes(i)
    <3>1. ~apu_dep(in, Writes(i))
      BY <1>1, <1>5
    <3> QED BY <3>1, Dispatch, SlotMoves
  <2> QED BY <1>3, <2>1 DEF Writes
<1> QED BY <1>4, <1>5

\* The registers in flight stay clear of what EX writes and of the load in WB.
LEMMA InflightStepOK ==
    ASSUME IInv, WbOK, InflightOK, OneWriter(ex), NEW in \in Inputs,
           Issue(in) \/ Drain(in)
    PROVE  InflightOK'
<1>1. ExOK(ex) /\ SlotsOK /\ Edge(in) /\ ApuStep(in)
  BY StepsOfEx DEF IInv, Edge
<1> SUFFICES ASSUME apu'.inflight # NoReg
             PROVE  /\ ex'.alu_rd # apu'.inflight
                    /\ ~(ex'.we_rd /\ ex'.rd = apu'.inflight)
                    /\ wb'.we /\ (wb'.rd = apu'.inflight \/ apu'.lat = 2) =>
                          ex'.apu # 0 /\ ex'.apu_rd = apu'.inflight
  BY DEF InflightOK
<1>2. ASSUME Bubble(in) PROVE ex'.alu_rd = NoReg /\ ~ex'.we_rd
  BY <1>2 DEF Bubble, Idle
<1>3. CASE valid_req /\ ~returned_req(in)
  <2>1. apu'.inflight = ex.apu_rd /\ ex.apu # 0 /\ ~apu_stall
    BY <1>1, <1>3, Dispatch, SlotMoves
  <2>2. ex.alu_rd = NoReg /\ ~ex.we_rd /\ ~ex.req /\ ~ex.branch
    BY <1>1, <2>1 DEF ExOK, OneWriter
  <2>3. CASE Hold(in) /\ ~ex_ready(in)
    <3>1. /\ ex'.alu_rd = ex.alu_rd /\ ex'.we_rd = ex.we_rd /\ ex'.apu = ex.apu
          /\ ex'.apu_rd = ex.apu_rd
      BY <1>1, <2>3, NextInEx
    <3> QED BY <2>1, <2>2, <3>1
  <2>4. CASE (Issue(in) \/ Bubble(in)) /\ ex_ready(in)
    <3>1. ~wb'.we
      BY <2>2, <2>4, <1>1, NextInWb
    <3> QED BY <1>1, <1>2, <2>4, <3>1, IssueWaits
  <2> QED BY <1>1, <2>2, <2>3, <2>4, NextInEx
<1>4. CASE ~(valid_req /\ ~returned_req(in))
  <2>1. active /\ ~apu_valid(in) /\ apu'.inflight = apu.inflight
    BY <1>1, <1>4, Dispatch, SlotMoves
  <2>2. ~valid_req /\ apu.lat = 3 /\ apu'.lat = apu.lat
    <3>1. fpu # <<>> => fpu[1].lat \in 1..3
      <4>1. fpu # <<>> => fpu[1] \in Operation
        BY <1>1, EmptySeq DEF SlotsOK
      <4> QED BY <4>1 DEF Operation
    <3> QED BY <1>1, <2>1, <3>1, Dispatch, SlotMoves DEF SlotsOK
  <2>3. /\ apu.inflight # NoReg /\ ex.alu_rd # apu.inflight
        /\ ~(ex.we_rd /\ ex.rd = apu.inflight)
        /\ wb.we /\ wb.rd = apu.inflight => ex.apu # 0 /\ ex.apu_rd = apu.inflight
    BY <2>1 DEF InflightOK
  <2>4. ~ex_ready(in) \/ ex.apu = 0
    <3>1. ex.apu # 0 => ~ex.branch /\ apu_stall
      BY <1>1, <2>2, Dispatch, SlotMoves DEF OneWriter
    <3> QED BY <3>1 DEF ex_ready
  <2>5. wb'.we /\ wb'.rd = apu.inflight =>
           ~ex_ready(in) /\ ex.apu # 0 /\ ex.apu_rd = apu.inflight
    <3>1. wb'.we /\ wb'.rd = apu.inflight => wb' = wb
      BY <1>1, <2>3, NextInWb
    <3> QED BY <2>3, <2>4, <3>1
  <2>6. CASE Hold(in) /\ ~ex_ready(in)
    <3>1. /\ ex'.alu_rd = ex.alu_rd /\ ex'.we_rd = ex.we_rd /\ ex'.apu = ex.apu
          /\ ex'.apu_rd = ex.apu_rd /\ ex'.rd = ex.rd
      BY <1>1, <2>6, NextInEx
    <3> QED BY <2>1, <2>2, <2>3, <2>5, <3>1
  <2>7. CASE (Issue(in) \/ Bubble(in)) /\ ex_ready(in)
    <3>1. ex'.alu_rd # apu'.inflight /\ ~(ex'.we_rd /\ ex'.rd = apu'.inflight)
      BY <1>1, <1>2, <2>7, IssueWaits
    <3> QED BY <2>1, <2>2, <2>5, <2>7, <3>1
  <2>8. CASE SecondPart(in) /\ ex_ready(in)
    <3>1. ex'.alu_rd = NoReg /\ ex'.we_rd = ex.we_rd /\ ex'.rd = ex.rd
      <4>1. ex \in Instr
        BY <1>1 DEF ExOK
      <4> QED BY <2>8, <4>1 DEF SecondPart, Instr
    <3> QED BY <2>1, <2>2, <2>3, <2>5, <2>8, <3>1
  <2> QED BY <1>1, <2>6, <2>7, <2>8, NextInEx
<1> QED BY <1>3, <1>4

-----------------------------------------------------------------------------
(* The registers.                                                          *)

\* What the write ports leave in a register.
LEMMA Written ==
    ASSUME NEW r \in Regs, NEW in, WriteRegisters(in)
    PROVE  rf'[r] = IF alu_port(in).power /\ alu_port(in).rd = r THEN alu_port(in).data
                    ELSE IF lsu_port(in).power /\ lsu_port(in).rd = r
                         THEN lsu_port(in).data ELSE rf[r]
BY DEF WriteRegisters

\* The ALU port, the LSU port and a register that is followed.
LEMMA Ports ==
    ASSUME IInv, NEW r \in Regs, NEW in
    PROVE  /\ r # NoReg
           /\ apu_writes_alu(in) => /\ alu_port(in).rd = apu_waddr(in)
                                    /\ alu_port(in).data = Num(apu_result)
                                    /\ alu_port(in).power
           /\ ~apu_writes_alu(in) =>
                /\ alu_port(in).rd = ex.alu_rd
                /\ alu_port(in).data = alu_result(in)
                /\ alu_port(in).power <=> (CorevPulp => unit_ready(in) /\ lsu_ready_ex(in))
           /\ wb.we => /\ lsu_port(in).rd = wb.rd
                       /\ lsu_port(in).data = data_rdata_ex(in)
                       /\ lsu_port(in).power
                             <=> (CorevPulp => ~ex.misaligned /\ lsu_ready_wb(in))
           /\ ~wb.we /\ apu_valid(in) /\ ~apu_writes_alu(in) =>
                /\ lsu_port(in).rd = apu_waddr(in)
                /\ lsu_port(in).data = Num(apu_result)
                /\ lsu_port(in).power
           /\ ~wb.we /\ ~(apu_valid(in) /\ ~apu_writes_alu(in)) => lsu_port(in).rd = NoReg
           /\ apu_writes_alu(in) <=> apu_valid(in) /\ (~active \/ apu.lat = 3)
<1>1. r # NoReg
  BY PipelineAssumption DEF PipelineAssumption
<1>2. wb.we \in BOOLEAN /\ apu_writes_alu(in) \in BOOLEAN
  BY DEF IInv, LatchesOK, apu_writes_alu
<1>3. apu_writes_alu(in) <=> apu_valid(in) /\ (~active \/ apu.lat = 3)
  BY DEF apu_writes_alu, singlecycle, multicycle
<1>4. /\ apu_writes_alu(in) => /\ alu_port(in).rd = apu_waddr(in)
                               /\ alu_port(in).data = Num(apu_result)
                               /\ alu_port(in).power
      /\ ~apu_writes_alu(in) =>
           /\ alu_port(in).rd = ex.alu_rd
           /\ alu_port(in).data = alu_result(in)
           /\ alu_port(in).power <=> (CorevPulp => unit_ready(in) /\ lsu_ready_ex(in))
  BY DEF alu_port
<1>5. wb.we => /\ lsu_port(in).rd = wb.rd
               /\ lsu_port(in).data = data_rdata_ex(in)
               /\ lsu_port(in).power <=> (CorevPulp => ~ex.misaligned /\ lsu_ready_wb(in))
  BY DEF lsu_port
<1>6. ~wb.we /\ apu_valid(in) /\ ~apu_writes_alu(in) =>
           /\ lsu_port(in).rd = apu_waddr(in)
           /\ lsu_port(in).data = Num(apu_result)
           /\ lsu_port(in).power
  BY DEF lsu_port
<1>7. ~wb.we /\ ~(apu_valid(in) /\ ~apu_writes_alu(in)) => lsu_port(in).rd = NoReg
  BY DEF lsu_port
<1> QED BY <1>1, <1>3, <1>4, <1>5, <1>6, <1>7

\* A register that EX does not write keeps its value on the way: a result of the FPU
\* or a load comes to the register file as it was on its way, and nothing older or
\* younger is written over it.
LEMMA Undisturbed ==
    ASSUME IInv, OneWriter(ex), WbOK, InflightOK, NEW in \in Inputs, Edge(in),
           NEW r \in Regs, ~ExWrites(r)
    PROVE  Behind(r)' = Behind(r)
<1>1. /\ ExOK(ex) /\ SlotsOK /\ ApuStep(in) /\ WriteRegisters(in)
      /\ LsuStep(in, ex_ready(in)) /\ r # NoReg
      /\ ex.alu_rd # r /\ ~(ex.we_rd /\ ex.rd = r) /\ ~(ex.apu # 0 /\ ex.apu_rd = r)
  BY Ports DEF IInv, Edge, ExWrites
<1>2. valid_req => ex.apu_rd # r
  BY <1>1, Dispatch, SlotMoves
<1>3. CASE apu.inflight = r
  <2>1. active /\ ~(wb.we /\ (wb.rd = r \/ apu.lat = 2))
    BY <1>1, <1>3, Dispatch, SlotMoves DEF InflightOK
  <2>2. ~(wb'.we /\ wb'.rd = r)
    BY <1>1, <2>1, NextInWb
  <2>3. CASE apu_valid(in)
    <3>1. apu'.inflight # r /\ apu_waddr(in) = r
      BY <1>1, <1>2, <1>3, <2>1, <2>3, Dispatch, SlotMoves
    <3>2. rf'[r] = Num(apu_result)
      <4>1. CASE apu_writes_alu(in)
        BY <1>1, <3>1, <4>1, Ports, Written
      <4>2. CASE ~apu_writes_alu(in)
        <5>1. apu.lat # 3 /\ alu_port(in).rd # r
          BY <1>1, <2>3, <4>2, Ports
        <5>2. ~wb.we
          <6>1. fpu # <<>> /\ apu.lat = fpu[1].lat /\ apu.lat # 1
            BY <1>1, <2>1, <5>1, Dispatch, SlotMoves DEF SlotsOK
          <6>2. fpu[1] \in Operation
            BY <1>1, <6>1, EmptySeq DEF SlotsOK
          <6>3. apu.lat = 2
            BY <5>1, <6>1, <6>2 DEF Operation
          <6> QED BY <2>1, <6>3
        <5> QED BY <1>1, <2>3, <3>1, <4>2, <5>1, <5>2, Ports, Written
      <4> QED BY <4>1, <4>2
    <3> QED BY <1>1, <1>3, <2>1, <2>2, <3>1, <3>2, FpuResult, FpuKeepsResult DEF Behind
  <2>4. CASE ~apu_valid(in)
    <3>1. apu'.inflight = r
      BY <1>1, <1>2, <1>3, <2>1, <2>4, Dispatch, SlotMoves
    <3>2. FpuValue' = FpuValue
      BY <1>1, <2>1, <2>4, FpuResult, FpuKeepsResult
    <3> QED BY <1>3, <3>1, <3>2 DEF Behind
  <2> QED BY <2>3, <2>4
<1>4. CASE apu.inflight # r
  <2>1. apu'.inflight # r /\ apu_waddr(in) # r
    BY <1>1, <1>2, <1>4, Dispatch, SlotMoves
  <2>2. alu_port(in).rd # r
    BY <1>1, <2>1, Ports
  <2>3. CASE wb.we /\ wb.rd = r
    <3>1. cnt_q # 0 /\ ~ex.misaligned
      BY <1>1, <2>3 DEF WbOK
    <3>2. CASE in.rvalid
      <4>1. rf'[r] = data_rdata_ext
        BY <1>1, <2>2, <2>3, <3>1, <3>2, Ports, Written
           DEF data_rdata_ex, resp_valid, lsu_ready_wb
      <4>2. ~(wb'.we /\ wb'.rd = r)
        BY <1>1, <3>2, NextInWb DEF lsu_ready_wb, resp_valid
      <4> QED BY <1>4, <2>1, <2>3, <4>1, <4>2 DEF Behind
    <3>3. CASE ~in.rvalid
      <4>1. /\ pend # <<>> /\ pend' # <<>> /\ Head(pend') = Head(pend)
            /\ ctrl_q' = ctrl_q /\ rdata_q' = rdata_q /\ ~lsu_ready_wb(in)
        BY <1>1, <3>1, <3>3, ResponseAwaited
      <4>2. wb' = wb
        BY <4>1 DEF Edge, NextWb, ex_valid
      <4>3. resp_rdata' = resp_rdata
        BY <4>1 DEF resp_rdata
      <4>4. data_rdata_ext' = data_rdata_ext
        BY <4>1, <4>3 DEF data_rdata_ext
      <4> QED BY <1>4, <2>1, <2>3, <4>2, <4>4 DEF Behind
    <3> QED BY <3>2, <3>3
  <2>4. CASE ~(wb.we /\ wb.rd = r)
    <3>1. lsu_port(in).rd # r
      BY <1>1, <2>1, <2>4, Ports
    <3>2. rf'[r] = rf[r]
      BY <1>1, <2>2, <3>1, Written
    <3>3. ~(wb'.we /\ wb'.rd = r)
      BY <1>1, <2>4, NextInWb
    <3> QED BY <1>4, <2>1, <2>4, <3>2, <3>3 DEF Behind
  <2> QED BY <2>3, <2>4
<1> QED BY <1>3, <1>4

\* What EX writes comes behind it when it leaves.
LEMMA LoadGoesOn ==
    ASSUME IInv, SentOK, BusData, OneWriter(ex), InflightOK, NEW in \in Inputs,
           Edge(in), ex_ready(in), ~data_misaligned,
           NEW r \in Regs, ex.we_rd, ex.rd = r
    PROVE  Behind(r)' = ExLoaded
<1>1. /\ ExOK(ex) /\ SlotsOK /\ ApuStep(in) /\ LsuStep(in, ex_ready(in)) /\ r # NoReg
      /\ ex.req /\ ~ex.we /\ ex.apu = 0
  BY Ports DEF IInv, Edge, OneWriter
<1>2. apu.inflight # r
  BY <1>1 DEF InflightOK
<1>3. apu'.inflight # r
  BY <1>1, <1>2, Dispatch, SlotMoves
<1>4. wb'.we /\ wb'.rd = r
  <2>1. lsu_ready_ex(in) /\ lsu_ready_wb(in)
    BY <1>1, AccessLeaves
  <2>2. ex_valid(in)
    BY <1>1, <2>1 DEF ex_valid, unit_ready, ExOK
  <2> QED BY <1>1, <2>2 DEF Edge, NextWb
<1>5. data_rdata_ext' = ExLoaded
  BY <1>1, LoadArrives
<1> QED BY <1>3, <1>4, <1>5 DEF Behind

LEMMA AluGoesOn ==
    ASSUME IInv, OneWriter(ex), InflightOK, NEW in \in Inputs, Edge(in), ex_ready(in),
           NEW r \in Regs, ex.alu_rd = r, ~(ex.we_rd /\ ex.rd = r)
    PROVE  Behind(r)' = Num(IF ex.req THEN ex.op_a + ex.op_b ELSE ex.result)
<1>1. /\ ExOK(ex) /\ SlotsOK /\ ApuStep(in) /\ WriteRegisters(in) /\ r # NoReg
      /\ ex.apu = 0 /\ ~ex.branch
  BY Ports DEF IInv, Edge, OneWriter, ExOK
<1>2. apu'.inflight # r
  BY <1>1, Dispatch, SlotMoves DEF InflightOK
<1>3. unit_ready(in) /\ lsu_ready_ex(in) /\ lsu_ready_wb(in) /\ ~wb_contention(in)
  BY <1>1 DEF ex_ready
<1>4. ~apu_writes_alu(in)
  BY <1>1, <1>3 DEF wb_contention
<1>5. alu_port(in).rd = r /\ alu_port(in).data = alu_result(in) /\ alu_port(in).power
  BY <1>1, <1>3, <1>4, Ports
<1>6. rf'[r] = Num(IF ex.req THEN ex.op_a + ex.op_b ELSE ex.result)
  BY <1>1, <1>3, <1>5, Written DEF alu_result
<1>7. ~(wb'.we /\ wb'.rd = r)
  <2>1. ex_valid(in)
    BY <1>3 DEF ex_valid
  <2> QED BY <2>1, NextInWb
<1> QED BY <1>2, <1>6, <1>7 DEF Behind

LEMMA FpuGoesOn ==
    ASSUME IInv, OneWriter(ex), WbOK, NEW in \in Inputs, Edge(in), ex_ready(in),
           NEW r \in Regs, ex.apu # 0, ex.apu_rd = r
    PROVE  Behind(r)' = Num(ex.result)
<1>1. /\ ExOK(ex) /\ SlotsOK /\ ApuStep(in) /\ WriteRegisters(in) /\ r # NoReg
      /\ ~ex.branch /\ ~ex.we_rd
  BY Ports DEF IInv, Edge, OneWriter
<1>2. ~apu_stall /\ unit_ready(in) /\ lsu_ready_ex(in) /\ lsu_ready_wb(in)
  BY <1>1 DEF ex_ready
<1>3. valid_req
  BY <1>1, <1>2, Dispatch, SlotMoves
<1>4. ~wb'.we
  BY <1>1, <1>2, NextInWb DEF ex_valid
<1>5. CASE returned_req(in)
  <2>1. ~active /\ apu_valid(in) /\ apu_waddr(in) = r /\ apu'.inflight # r
    BY <1>1, <1>5, Dispatch, SlotMoves
  <2>2. rf'[r] = Num(ex.result)
    BY <1>1, <1>5, <2>1, Ports, Written, FpuResult, FpuKeepsResult
  <2> QED BY <1>4, <2>1, <2>2 DEF Behind
<1>6. CASE ~returned_req(in)
  <2>1. apu'.inflight = r
    BY <1>1, <1>3, <1>6, Dispatch, SlotMoves
  <2>2. FpuValue' = Num(ex.result)
    BY <1>1, <1>3, <1>6, FpuResult, FpuKeepsResult
  <2> QED BY <2>1, <2>2 DEF Behind
<1> QED BY <1>5, <1>6

\* Whatever holds a register's value, it is behind EX when the instruction has left.
LEMMA GoesOn ==
    ASSUME IInv, SentOK, BusData, OneWriter(ex), WbOK, InflightOK, NEW in \in Inputs,
           Edge(in), ex_ready(in), ~data_misaligned, NEW r \in Regs
    PROVE  Behind(r)' = IF ExWrites(r) THEN ExValue(r) ELSE Behind(r)
<1>1. CASE ~ExWrites(r)
  BY <1>1, Undisturbed
<1>2. CASE ex.we_rd /\ ex.rd = r
  BY <1>2, LoadGoesOn DEF ExWrites, ExValue
<1>3. CASE ~(ex.we_rd /\ ex.rd = r) /\ ex.alu_rd = r
  BY <1>3, AluGoesOn DEF ExWrites, ExValue
<1>4. CASE ex.apu # 0 /\ ex.apu_rd = r
  <2>1. ~ex.we_rd /\ ~ex.req
    BY <1>4 DEF OneWriter, IInv, ExOK
  <2> QED BY <1>4, <2>1, FpuGoesOn DEF ExWrites, ExValue
<1> QED BY <1>1, <1>2, <1>3, <1>4 DEF ExWrites

\* The parts of an access demand the same value of a register.
LEMMA SameLoad ==
    ASSUME ExOK(ex), NEW in, SecondPart(in) \/ Hold(in)
    PROVE  ExLoaded' = ExLoaded
<1>1. CASE SecondPart(in)
  <2>1. /\ ex'.misaligned /\ ex'.type = ex.type /\ data_addr_int \in Nat
        /\ data_addr_int' = data_addr_int + 4
    BY <1>1, SecondAddress, Address
  <2>2. ~ex.misaligned /\ ex'.sign = ex.sign
    BY <1>1 DEF SecondPart, data_misaligned, ExOK, Instr
  <2>3. FirstAddress' = FirstAddress
    BY <2>1, <2>2 DEF FirstAddress
  <2> QED BY <2>1, <2>2, <2>3 DEF ExLoaded
<1>2. CASE Hold(in)
  <2>1. /\ ex'.misaligned = ex.misaligned /\ ex'.type = ex.type
        /\ data_addr_int' = data_addr_int
    BY <1>2, HoldsBytes
  <2>2. ex'.sign = ex.sign
    BY <1>2 DEF Hold, ExOK, Instr
  <2>3. FirstAddress' = FirstAddress
    BY <2>1 DEF FirstAddress
  <2> QED BY <2>1, <2>2, <2>3 DEF ExLoaded
<1> QED BY <1>1, <1>2

\* An instruction that enters EX is to write what program order demands of it.
LEMMA EntersInOrder ==
    ASSUME ExOK(ex), NEW i, OneWriter(i), ExOK(i), ~i.misaligned, ex' = Enters(i),
           arch' = InOrder(i), NEW r \in Regs
    PROVE  arch'[r] = IF ExWrites(r)' THEN ExValue(r)' ELSE arch[r]
<1>1. /\ ex'.alu_rd = i.alu_rd /\ ex'.we_rd = i.we_rd /\ (i.we_rd => ex'.rd = i.rd)
      /\ ex'.apu = i.apu /\ ex'.apu_rd = i.apu_rd /\ ex'.req = i.req
      /\ ex'.op_a = i.op_a /\ ex'.op_b = i.op_b /\ ex'.useincr = i.useincr
      /\ ex'.type = i.type /\ ex'.sign = i.sign /\ ex'.result = i.result
      /\ ex'.misaligned = i.misaligned
  BY DEF Enters, ExOK, Instr
<1>2. r # NoReg
  BY PipelineAssumption DEF PipelineAssumption
<1>3. arch'[r] = IF i.we_rd /\ i.rd = r THEN Loaded(i)
                 ELSE IF r \in {i.alu_rd, i.apu_rd}
                      THEN Num(IF i.req THEN i.op_a + i.op_b ELSE i.result)
                 ELSE arch[r]
  BY DEF InOrder
<1>4. i.apu = 0 => i.apu_rd # r
  BY <1>2 DEF OneWriter
<1>5. i.we_rd => ExLoaded' = Loaded(i)
  <2>1. FirstAddress' = IF i.useincr THEN i.op_a + i.op_b ELSE i.op_a
    BY <1>1 DEF FirstAddress, data_addr_int
  <2> QED BY <1>1, <2>1 DEF ExLoaded, Loaded
<1> QED BY <1>1, <1>3, <1>4, <1>5 DEF ExWrites, ExValue

LEMMA ValuesStepOK ==
    ASSUME OInv, NEW in \in Inputs, Issue(in) \/ Drain(in)
    PROVE  ValuesOK'
<1>1. ExOK(ex) /\ Edge(in) /\ IInv
  BY StepsOfEx DEF OInv, SInv, IInv
<1>2. rf' = [r \in Regs |-> rf'[r]] /\ arch' = [r \in Regs |-> arch'[r]]
  <2>1. rf' = [r \in Regs |-> rf'[r]]
    BY <1>1 DEF Edge, WriteRegisters
  <2>2. arch' = [r \in Regs |-> arch'[r]]
    <3>1. CASE Issue(in)
      <4>1. PICK i : arch' = InOrder(i)
        BY <3>1 DEF Issue
      <4> QED BY <4>1 DEF InOrder
    <3>2. CASE ~Issue(in)
      <4>1. arch' = arch
        BY <3>2 DEF Drain, SecondPart, Bubble, Hold
      <4> QED BY <4>1 DEF OInv, ValuesOK
    <3> QED BY <3>1, <3>2
  <2> QED BY <2>1, <2>2
<1>3. ASSUME NEW r \in Regs
      PROVE  arch'[r] = IF ExWrites(r)' THEN ExValue(r)' ELSE Behind(r)'
  <2>1. arch[r] = IF ExWrites(r) THEN ExValue(r) ELSE Behind(r)
    BY DEF OInv, ValuesOK
  <2>2. r # NoReg
    BY PipelineAssumption DEF PipelineAssumption
  <2>3. ex_ready(in) /\ ~data_misaligned => Behind(r)' = arch[r]
    BY <1>1, <2>1, GoesOn DEF OInv, SInv
  <2>4. CASE Issue(in)
    <3>1. PICK i \in Loads \cup Stores \cup AluOps \cup FpuOps \cup Links \cup Branches :
             ex' = Enters(i) /\ arch' = InOrder(i)
      BY <2>4 DEF Issue
    <3>2. OneWriter(i) /\ ExOK(i) /\ ~i.misaligned
      BY InstructionsOK, InstructionsWrite
    <3>3. arch'[r] = IF ExWrites(r)' THEN ExValue(r)' ELSE arch[r]
      BY <1>1, <3>1, <3>2, EntersInOrder
    <3>4. ex_ready(in) /\ ~data_misaligned
      BY <2>4 DEF Issue, id_ready
    <3> QED BY <2>3, <3>3, <3>4
  <2>5. CASE Bubble(in)
    <3>1. ~ExWrites(r)'
      <4>1. ex'.alu_rd = NoReg /\ ~ex'.we_rd /\ ex'.apu = 0
        BY <2>5 DEF Bubble, Idle
      <4> QED BY <2>2, <4>1 DEF ExWrites
    <3> QED BY <2>3, <2>5, <3>1 DEF Bubble
  <2>6. CASE SecondPart(in)
    <3>1. /\ ex.req /\ ex_ready(in) /\ ex'.we_rd = ex.we_rd /\ ex'.rd = ex.rd
          /\ ex'.alu_rd = NoReg /\ ex'.apu = ex.apu
      <4>1. ex \in Instr
        BY <1>1 DEF ExOK
      <4> QED BY <2>6, <4>1 DEF SecondPart, data_misaligned, Instr
    <3>2. ex.apu = 0 /\ arch' = arch
      BY <1>1, <2>6, <3>1 DEF ExOK, SecondPart
    <3>3. CASE ex.we_rd /\ ex.rd = r
      <4>1. ExLoaded' = ExLoaded
        BY <1>1, <2>6, SameLoad
      <4> QED BY <2>1, <3>1, <3>2, <3>3, <4>1 DEF ExWrites, ExValue
    <3>4. CASE ~(ex.we_rd /\ ex.rd = r) /\ ex.alu_rd = r
      <4>1. Behind(r)' = Num(IF ex.req THEN ex.op_a + ex.op_b ELSE ex.result)
        BY <1>1, <3>1, <3>4, AluGoesOn DEF OInv
      <4> QED BY <2>1, <2>2, <3>1, <3>2, <3>4, <4>1 DEF ExWrites, ExValue
    <3>5. CASE ~ExWrites(r)
      <4>1. Behind(r)' = Behind(r)
        BY <1>1, <3>5, Undisturbed DEF OInv
      <4> QED BY <2>1, <2>2, <3>1, <3>2, <3>5, <4>1 DEF ExWrites
    <3> QED BY <3>2, <3>3, <3>4, <3>5 DEF ExWrites
  <2>7. CASE Hold(in)
    <3>1. /\ ex'.we_rd = ex.we_rd /\ ex'.rd = ex.rd /\ ex'.alu_rd = ex.alu_rd
          /\ ex'.apu = ex.apu /\ ex'.req = ex.req /\ ex'.apu_rd = ex.apu_rd
          /\ ex'.op_a = ex.op_a /\ ex'.op_b = ex.op_b /\ ex'.result = ex.result
      <4>1. ex \in Instr /\ ~ex_ready(in)
        BY <1>1, <2>7 DEF ExOK, Hold
      <4>2. PICK s : ex' = [ex EXCEPT !.slow = s]
        BY <2>7 DEF Hold
      <4> QED BY <4>1, <4>2 DEF Instr
    <3>2. ExLoaded' = ExLoaded /\ arch' = arch
      BY <1>1, <2>7, SameLoad DEF Hold
    <3>3. CASE ExWrites(r)
      BY <2>1, <3>1, <3>2, <3>3 DEF ExWrites, ExValue
    <3>4. CASE ~ExWrites(r)
      <4>1. Behind(r)' = Behind(r)
        BY <1>1, <3>4, Undisturbed DEF OInv
      <4> QED BY <2>1, <3>1, <3>2, <3>4, <4>1 DEF ExWrites
    <3> QED BY <3>3, <3>4
  <2> QED BY <2>4, <2>5, <2>6, <2>7 DEF Drain
<1> QED BY <1>2, <1>3 DEF ValuesOK

-----------------------------------------------------------------------------
(* The invariant and what follows from it.                                 *)

LEMMA OperandInit == Init => OneWriter(ex) /\ BusData /\ WbOK /\ InflightOK /\ ValuesOK
<1> SUFFICES ASSUME Init
             PROVE  OneWriter(ex) /\ BusData /\ WbOK /\ InflightOK /\ ValuesOK
  OBVIOUS
<1>1. /\ ex = Idle /\ issued = 0 /\ ~wb.we /\ apu.inflight = NoReg
      /\ rf = [r \in Regs |-> Num(0)] /\ arch = rf
  BY DEF Init, LsuInit, ApuInit
<1>2. /\ ~ex.we_rd /\ ~ex.branch /\ ~ex.misaligned /\ ex.apu = 0 /\ ex.alu_rd = NoReg
      /\ ex.apu_rd = NoReg
  BY <1>1 DEF Idle
<1>3. OneWriter(ex) /\ BusData /\ WbOK /\ InflightOK
  BY <1>1, <1>2 DEF OneWriter, BusData, WbOK, InflightOK
<1>4. ASSUME NEW r \in Regs PROVE arch[r] = IF ExWrites(r) THEN ExValue(r) ELSE Behind(r)
  <2>1. r # NoReg
    BY PipelineAssumption DEF PipelineAssumption
  <2> QED BY <1>1, <1>2, <2>1 DEF ExWrites, Behind
<1>5. rf = [r \in Regs |-> rf[r]] /\ arch = [r \in Regs |-> arch[r]]
  BY <1>1
<1> QED BY <1>3, <1>4, <1>5 DEF ValuesOK

LEMMA OperandStep == OInv /\ [Next]_vars
                       => (OneWriter(ex) /\ BusData /\ WbOK /\ InflightOK /\ ValuesOK)'
<1>1. ASSUME OInv, Next
      PROVE  (OneWriter(ex) /\ BusData /\ WbOK /\ InflightOK /\ ValuesOK)'
  <2>1. PICK in \in Inputs : Issue(in) \/ Drain(in)
    BY <1>1 DEF Next
  <2>2. IInv /\ ExOK(ex) /\ OneWriter(ex) /\ BusData /\ WbOK /\ InflightOK
    BY <1>1 DEF OInv, SInv, IInv
  <2>3. OneWriter(ex')
    BY <2>1, <2>2, WritersStepOK
  <2>4. BusData' /\ WbOK' /\ InflightOK'
    BY <2>1, <2>2, BusDataStepOK, WbStepOK, InflightStepOK
  <2>5. ValuesOK'
    BY <1>1, <2>1, ValuesStepOK
  <2> QED BY <2>3, <2>4, <2>5 DEF OneWriter
<1>2. ASSUME OInv, UNCHANGED vars
      PROVE  (OneWriter(ex) /\ BusData /\ WbOK /\ InflightOK /\ ValuesOK)'
  <2>1. /\ ex' = ex /\ cnt_q' = cnt_q /\ ctrl_q' = ctrl_q /\ rdata_q' = rdata_q
        /\ pend' = pend /\ issued' = issued /\ apu' = apu /\ fpu' = fpu /\ wb' = wb
        /\ rf' = rf /\ arch' = arch
    BY <1>2 DEF vars, lsuVars, apuVars
  <2>2. data_addr_int' = data_addr_int
    BY <2>1 DEF data_addr_int
  <2>3. trans_word' = trans_word /\ FirstAddress' = FirstAddress
    BY <2>1, <2>2 DEF trans_word, FirstAddress
  <2>4. resp_rdata' = resp_rdata
    BY <2>1 DEF resp_rdata
  <2>5. data_rdata_ext' = data_rdata_ext
    BY <2>1, <2>4 DEF data_rdata_ext
  <2>6. ExLoaded' = ExLoaded
    BY <2>1, <2>3 DEF ExLoaded
  <2>7. ASSUME NEW r
        PROVE  /\ ExWrites(r)' <=> ExWrites(r)
               /\ ExValue(r)' = ExValue(r) /\ Behind(r)' = Behind(r)
    BY <2>1, <2>5, <2>6 DEF ExWrites, ExValue, Behind, FpuValue
  <2>8. OneWriter(ex)'
    BY <1>2, <2>1 DEF OInv, OneWriter
  <2>9. BusData'
    BY <1>2, <2>1, <2>3 DEF OInv, BusData
  <2>10. WbOK' /\ InflightOK'
    BY <1>2, <2>1 DEF OInv, WbOK, InflightOK
  <2>11. ValuesOK'
    BY <1>2, <2>1, <2>7 DEF OInv, ValuesOK
  <2> QED BY <2>8, <2>9, <2>10, <2>11
<1> QED BY <1>1, <1>2

LEMMA OperandInvariance == Spec => []OInv
BY OperandInit, OperandStep, StoreInvariance, PTL DEF Spec, OInv

\* An instruction leaves ID with the values of program order: a register that EX, the
\* FPU or WB still owes is stalled for or forwarded, and forwarded from the youngest.
THEOREM OperandsAreInOrder == Spec => []OperandsInOrder
<1>1. ASSUME OInv PROVE OperandsInOrder
  <2> SUFFICES ASSUME NEW in \in Inputs, NEW r \in Regs, id_ready(in, {r})
               PROVE  operand_fw(in, r) = arch[r]
    BY DEF OperandsInOrder
  <2>1. /\ IInv /\ ExOK(ex) /\ SlotsOK /\ OneWriter(ex) /\ WbOK /\ InflightOK
        /\ arch[r] = IF ExWrites(r) THEN ExValue(r) ELSE Behind(r)
    BY <1>1 DEF OInv, SInv, IInv, ValuesOK
  <2>2. /\ r # NoReg /\ ex_ready(in)
        /\ ex.req /\ ex.we_rd => ex.rd # r
        /\ ex.rd = r => lsu_ready_wb(in) \/ ~wb.we
        /\ ~(valid_req /\ ~returned_req(in) /\ ex.apu_rd = r)
        /\ ~(active /\ ~apu_valid(in) /\ apu.inflight = r)
    BY <2>1, Ports, Dispatch DEF id_ready, load_stall
  <2>3. ~ex.branch => /\ ~apu_stall /\ unit_ready(in) /\ lsu_ready_wb(in)
                      /\ ~wb_contention(in)
    BY <2>2 DEF ex_ready
  <2>4. ~(ex.we_rd /\ ex.rd = r)
    BY <2>1, <2>2 DEF OneWriter
  <2>5. CASE ex.alu_rd = r
    <3>1. ~ex.branch
      BY <2>1, <2>2, <2>5 DEF OneWriter
    <3>2. ~apu_writes_alu(in)
      BY <2>2, <2>3, <2>5, <3>1 DEF wb_contention
    <3>3. alu_port(in).rd = r /\ alu_port(in).data = alu_result(in)
      BY <2>1, <2>5, <3>2, Ports
    <3>4. alu_result(in) = ExValue(r)
      BY <2>3, <2>4, <3>1 DEF alu_result, ExValue
    <3> QED BY <2>1, <2>5, <3>3, <3>4 DEF operand_fw, ExWrites
  <2>6. CASE ex.apu # 0 /\ ex.apu_rd = r
    <3>1. ~ex.branch /\ ~ex.req
      BY <2>1, <2>6 DEF OneWriter, ExOK
    <3>2. valid_req /\ returned_req(in)
      BY <2>1, <2>2, <2>3, <2>6, <3>1, Dispatch
    <3>3. ~active /\ apu_valid(in) /\ apu_waddr(in) = r /\ apu_result = ex.result
      BY <2>1, <2>6, <3>2, Dispatch, FpuResult
    <3>4. alu_port(in).rd = r /\ alu_port(in).data = Num(ex.result)
      BY <2>1, <3>3, Ports
    <3> QED BY <2>1, <2>4, <2>6, <3>1, <3>4 DEF operand_fw, ExWrites, ExValue
  <2>7. CASE ~ExWrites(r)
    <3>1. /\ ex.alu_rd # r /\ ~(ex.apu # 0 /\ ex.apu_rd = r)
          /\ arch[r] = Behind(r)
      BY <2>1, <2>7 DEF ExWrites
    <3>2. CASE apu.inflight = r
      <4>1. active /\ apu_valid(in) /\ apu_waddr(in) = r /\ Num(apu_result) = FpuValue
        BY <2>1, <2>2, <3>2, Dispatch, FpuResult
      <4>2. CASE apu_writes_alu(in)
        <5>1. alu_port(in).rd = r /\ alu_port(in).data = FpuValue
          BY <2>1, <4>1, <4>2, Ports
        <5> QED BY <3>1, <3>2, <5>1 DEF operand_fw, Behind
      <4>3. CASE ~apu_writes_alu(in)
        <5>1. apu.lat = 2
          BY <2>1, <4>1, <4>3, Ports, Dispatch
        <5>2. ~wb.we
          BY <2>1, <2>2, <3>1, <3>2, <5>1 DEF InflightOK
        <5>3. alu_port(in).rd # r /\ lsu_port(in).rd = r /\ lsu_port(in).data = FpuValue
          BY <2>1, <3>1, <4>1, <4>3, <5>2, Ports
        <5> QED BY <3>1, <3>2, <5>3 DEF operand_fw, Behind
      <4> QED BY <4>2, <4>3
    <3>3. CASE apu.inflight # r
      <4>1. apu_waddr(in) # r
        BY <2>1, <2>2, <3>1, <3>3, Dispatch
      <4>2. alu_port(in).rd # r
        BY <2>1, <3>1, <4>1, Ports
      <4>3. CASE wb.we /\ wb.rd = r
        <5>1. lsu_ready_wb(in) /\ cnt_q # 0
          BY <2>1, <2>2, <2>3, <4>3 DEF WbOK, OneWriter
        <5>2. lsu_port(in).rd = r /\ lsu_port(in).data = data_rdata_ext
          BY <2>1, <4>3, <5>1, Ports DEF lsu_ready_wb, data_rdata_ex
        <5> QED BY <3>1, <3>3, <4>2, <4>3, <5>2 DEF operand_fw, Behind
      <4>4. CASE ~(wb.we /\ wb.rd = r)
        <5>1. lsu_port(in).rd # r
          BY <2>1, <2>2, <4>1, <4>4, Ports
        <5> QED BY <3>1, <3>3, <4>2, <4>4, <5>1 DEF operand_fw, Behind
      <4> QED BY <4>3, <4>4
    <3> QED BY <3>2, <3>3
  <2> QED BY <2>4, <2>5, <2>6, <2>7 DEF ExWrites
<1> QED BY <1>1, OperandInvariance, PTL

\* A JALR finds its target in the register file: as long as the ALU, the FPU or WB owes
\* the register it stalls, and a result of the FPU gives way to the ALU result whose
\* register it would hide from the comparison.
THEOREM JumpsAreInOrder == Spec => []JumpsInOrder
<1>1. ASSUME OInv PROVE JumpsInOrder
  <2> SUFFICES ASSUME NEW in \in Inputs, in.jalr \in Regs, ~jr_stall(in)
               PROVE  rf[in.jalr] = arch[in.jalr]
    BY DEF JumpsInOrder
  <2> DEFINE r == in.jalr
  <2>1. /\ IInv /\ ExOK(ex) /\ SlotsOK
        /\ arch[r] = IF ExWrites(r) THEN ExValue(r) ELSE Behind(r)
    BY <1>1 DEF OInv, SInv, IInv, ValuesOK
  <2>2. /\ r \in Regs /\ r # NoReg /\ r # NoJump
        /\ lsu_port(in).rd # r /\ alu_port(in).rd # r /\ ~(ex.we_rd /\ ex.rd = r)
        /\ ~read_dep_for_jalr(r)
    BY PipelineAssumption DEF jr_stall, PipelineAssumption
  <2>3. ~(ex.apu # 0 /\ ex.apu_rd = r) /\ apu.inflight # r
    BY <2>2 DEF read_dep_for_jalr
  <2> HIDE DEF r
  <2>4. ex.alu_rd # r
    <3>1. SUFFICES ASSUME ex.alu_rd = r PROVE FALSE
      OBVIOUS
    <3>2. apu_writes_alu(in)
      BY <2>1, <2>2, <3>1, Ports
    <3>3. apu_valid(in) /\ (~active \/ apu.lat = 3)
      BY <2>1, <2>2, <3>2, Ports
    <3>4. ex.apu = 0
      BY <2>1, <2>2, <3>1 DEF ExOK
    <3>5. active
      BY <2>1, <3>3, <3>4, Dispatch
    <3>6. port_needed(in)
      BY <2>2, <3>1 DEF port_needed, r
    <3> QED BY <2>1, <3>3, <3>5, <3>6, Dispatch
  <2>5. ~(wb.we /\ wb.rd = r)
    BY <2>1, <2>2, Ports
  <2>6. arch[r] = rf[r]
    BY <2>1, <2>2, <2>3, <2>4, <2>5 DEF ExWrites, Behind
  <2> QED BY <2>6 DEF r
<1> QED BY <1>1, OperandInvariance, PTL

\* Once nothing is in flight the register file is the one of program order: every load
\* and every result has reached its register, in the order of the instructions.
THEOREM RegistersComeToRest == Spec => []RegistersSettle
<1>1. ASSUME OInv PROVE RegistersSettle
  <2> SUFFICES ASSUME ~ex.req, ex.alu_rd = NoReg, ex.apu = 0, ~wb.we, ~active
               PROVE  rf = arch
    BY DEF RegistersSettle
  <2>1. IInv /\ ExOK(ex) /\ SlotsOK /\ OneWriter(ex) /\ ValuesOK
    BY <1>1 DEF OInv, SInv, IInv
  <2>2. ~ex.we_rd /\ apu.inflight = NoReg
    BY <2>1 DEF OneWriter, active, valid_inflight
  <2>3. ASSUME NEW r \in Regs PROVE arch[r] = rf[r]
    <3>1. r # NoReg
      BY PipelineAssumption DEF PipelineAssumption
    <3> QED BY <2>1, <2>2, <3>1 DEF ValuesOK, ExWrites, Behind
  <2>4. rf = [r \in Regs |-> rf[r]] /\ arch = [r \in Regs |-> arch[r]]
    BY <2>1 DEF ValuesOK
  <2>5. [r \in Regs |-> rf[r]] = [r \in Regs |-> arch[r]]
    BY <2>3
  <2> QED BY <2>4, <2>5
<1> QED BY <1>1, OperandInvariance, PTL
=============================================================================
