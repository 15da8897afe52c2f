-------------------------- MODULE ControllerProofs --------------------------
(***************************************************************************)
(* Proofs about Controller for every program, every place of the handler   *)
(* and the debugger, and every set of values of dcsr.                      *)
(***************************************************************************)
EXTENDS Controller, TLAPS

-----------------------------------------------------------------------------
(* The flag of a halt request.                                             *)

\* HaltEntryIsShort is inductive: only HaltRequest raises the flag, outside debug mode,
\* and goes to DBG_FLUSH; from there the flag itself selects DBG_TAKEN_ID, which clears it.
LEMMA HaltEntryStep ==
    ASSUME HaltEntryIsShort, [Next]_vars
    PROVE  HaltEntryIsShort'
<1> USE DEF HaltEntryIsShort
<1>1. ASSUME UNCHANGED <<ctrl_fsm_cs, debug_mode_q, debug_req_entry_q>>
      PROVE  HaltEntryIsShort'
  BY <1>1
<1>2. CASE DebuggerCode
  BY <1>1, <1>2 DEF DebuggerCode
<1>3. CASE UNCHANGED vars
  BY <1>1, <1>3 DEF vars, clocked
<1>4. ASSUME NEW in, Gated(in)
      PROVE  HaltEntryIsShort'
  BY <1>1, <1>4 DEF Gated, clocked
<1>5. ASSUME NEW in, Fsm(in)
      PROVE  HaltEntryIsShort'
  <2>1. CASE Reset(in) \/ BootSet(in) \/ WaitSleep(in) \/ Sleep(in) \/ FirstFetch(in)
    BY <2>1 DEF Reset, BootSet, WaitSleep, Sleep, FirstFetch
  <2>2. CASE BranchTaken(in) \/ NoInstruction(in)
    BY <2>2 DEF BranchTaken, NoInstruction, Decoding
  <2>3. CASE HaltRequest(in)
    BY <2>3 DEF HaltRequest, HaltReq
  <2>4. CASE TakeIrq(in)
    BY <2>4 DEF TakeIrq, Decoding
  <2>5. CASE Flushing(in)
    BY <2>5 DEF Flushing, Decoded, Decoding
  <2>6. CASE BreakDebug(in)
    BY <2>6 DEF BreakDebug, Decodes, Decoded, Decoding
  <2>7. CASE DecodeJump(in)
    BY <2>7 DEF DecodeJump, Decodes, Decoded, Decoding
  <2>8. CASE DecodePlain(in)
    BY <2>8 DEF DecodePlain, Decodes, Decoded, Decoding
  <2>9. CASE FlushEx(in) \/ FlushWb(in) \/ XretJump(in) \/ DbgWaitBranch(in)
    BY <2>9 DEF FlushEx, FlushWb, XretJump, DbgWaitBranch
  <2>10. CASE DbgFlush(in)
    BY <2>10 DEF DbgFlush, EntersBefore
  <2>11. CASE DbgTakenId(in)
    BY <2>11 DEF DbgTakenId
  <2>12. CASE DbgTakenIf(in)
    BY <2>12 DEF DbgTakenIf
  <2> QED
    BY <1>5, <2>1, <2>2, <2>3, <2>4, <2>5, <2>6, <2>7, <2>8, <2>9, <2>10, <2>11, <2>12 DEF Fsm
<1> QED
  BY <1>2, <1>3, <1>4, <1>5 DEF Next, Cycle, Clocked

\* The flag that sends an entry to debug mode before the instruction in ID never outlives
\* the entry it was raised for, whatever the program, the stalls and the requests.
THEOREM HaltEntryShort == Spec => []HaltEntryIsShort
<1>1. Init => HaltEntryIsShort
  BY DEF Init, HaltEntryIsShort
<1>2. HaltEntryIsShort /\ [Next]_vars => HaltEntryIsShort'
  BY HaltEntryStep
<1> QED
  BY <1>1, <1>2, PTL DEF Spec

-----------------------------------------------------------------------------
(* The clock gate.                                                         *)

\* What makes ClockWhileBusy inductive: before the core is enabled the controller is in
\* RESET, where it is busy, and nothing is under way.
ClockInv ==
    /\ {core_busy_q, fetch_enable_q, imem} \subseteq BOOLEAN
    /\ ~fetch_enable_q => ctrl_fsm_cs = "RESET"
    /\ ClockWhileBusy

\* Every state of the controller lets the transactions of both buses go on.
LEMMA EveryCycleMovesTheBus ==
    ASSUME NEW in, Fsm(in)
    PROVE  \E load : Bus(in, load)
<1>1. CASE \/ Reset(in) \/ BootSet(in) \/ WaitSleep(in) \/ Sleep(in) \/ HaltRequest(in)
           \/ TakeIrq(in) \/ FlushEx(in) \/ FlushWb(in) \/ XretJump(in)
           \/ DbgWaitBranch(in) \/ DbgFlush(in) \/ DbgTakenId(in) \/ DbgTakenIf(in)
  BY <1>1 DEF Idles, Reset, BootSet, WaitSleep, Sleep, HaltRequest, TakeIrq, FlushEx, FlushWb,
              XretJump, DbgWaitBranch, DbgFlush, DbgTakenId, DbgTakenIf
<1>2. CASE FirstFetch(in) \/ BranchTaken(in) \/ NoInstruction(in) \/ Flushing(in)
  BY <1>2 DEF Idles, FirstFetch, BranchTaken, NoInstruction, Flushing
<1>3. CASE BreakDebug(in) \/ DecodeJump(in) \/ DecodePlain(in)
  BY <1>3 DEF Decodes, BreakDebug, DecodeJump, DecodePlain
<1> QED
  BY <1>1, <1>2, <1>3 DEF Fsm

\* With nothing under way the controller goes to sleep or sleeps on, and starts nothing.
LEMMA AsleepStaysIdle ==
    ASSUME NEW in, Fsm(in), ~imem, lsu = "idle",
           ctrl_fsm_cs \in {"WAIT_SLEEP", "SLEEP"},
           ctrl_fsm_cs = "SLEEP" => ~wake_from_sleep(in)
    PROVE  ctrl_fsm_cs' = "SLEEP" /\ ~imem' /\ lsu' = "idle"
<1>1. WaitSleep(in) \/ Sleep(in)
  BY DEF Fsm, Reset, BootSet, FirstFetch, BranchTaken, NoInstruction, HaltRequest, TakeIrq,
         Flushing, BreakDebug, DecodeJump, DecodePlain, FlushEx, FlushWb, XretJump,
         DbgWaitBranch, DbgFlush, DbgTakenId, DbgTakenIf, Decoded, Decoding
<1>2. ctrl_fsm_cs' = "SLEEP"
  BY <1>1 DEF WaitSleep, Sleep
<1>3. Bus(in, FALSE)
  BY <1>1 DEF WaitSleep, Sleep, Idles
<1> QED
  BY <1>2, <1>3 DEF Bus, instr_req, Waits

LEMMA ClockStep ==
    ASSUME ClockInv, [Next]_vars
    PROVE  ClockInv'
<1> USE DEF ClockInv, ClockWhileBusy
<1>1. CASE DebuggerCode
  BY <1>1 DEF DebuggerCode, ungated
<1>2. CASE UNCHANGED vars
  BY <1>2 DEF vars, ungated, clocked
<1>3. ASSUME NEW in \in Inputs, Ungated(in), Clocked(in) \/ Gated(in)
      PROVE  ClockInv'
  <2>0. /\ in.fetch_enable \in BOOLEAN /\ in.fetch \in BOOLEAN /\ in.imem \in BOOLEAN
        /\ in.fetch => ctrl_fsm_cs = "FLUSH_WB"
    BY <1>3 DEF Inputs, Signals, If
  <2>1. /\ fetch_enable_q' = (fetch_enable_q \/ in.fetch_enable)
        /\ core_busy_q' = core_busy_d(in)
        /\ core_busy_q' \in BOOLEAN /\ fetch_enable_q' \in BOOLEAN
    BY <1>3, <2>0 DEF Ungated, core_busy_d, if_busy, ctrl_busy, instr_req
  <2>2. ASSUME ~core_busy_d(in)
        PROVE  /\ ctrl_fsm_cs \in {"WAIT_SLEEP", "SLEEP"}
               /\ ctrl_fsm_cs = "SLEEP" => ~wake_from_sleep(in)
               /\ ~imem /\ lsu = "idle"
    BY <2>2 DEF core_busy_d, if_busy, ctrl_busy
  <2>3. CASE Gated(in)
    <3>1. ~fetch_enable_q \/ ~core_busy_q
      BY <2>3 DEF Gated, clock_en
    <3>2. CASE ~fetch_enable_q
      <4>1. core_busy_d(in)
        BY <2>2, <3>2
      <4> QED
        BY <2>1, <2>3, <3>2, <4>1 DEF Gated, clocked
    <3>3. CASE fetch_enable_q /\ ~core_busy_q
      BY <2>1, <2>3, <3>3 DEF Gated, clocked
    <3> QED
      BY <3>1, <3>2, <3>3
  <2>4. CASE Clocked(in)
    <3>1. fetch_enable_q /\ fetch_enable_q'
      BY <2>1, <2>4 DEF Clocked, clock_en
    <3>2. imem' \in BOOLEAN
      BY <2>0, <2>4, EveryCycleMovesTheBus DEF Clocked, Bus, instr_req
    <3>3. ASSUME ~core_busy_d(in)
          PROVE  ctrl_fsm_cs' = "SLEEP" /\ ~imem' /\ lsu' = "idle"
      BY <2>2, <2>4, <3>3, AsleepStaysIdle DEF Clocked
    <3> QED
      BY <2>1, <3>1, <3>2, <3>3
  <2> QED
    BY <1>3, <2>3, <2>4
<1> QED
  BY <1>1, <1>2, <1>3 DEF Next, Cycle

\* The clock is gated only in SLEEP with no transaction of either bus under way, and in
\* that state it stays so until the wake-up, whatever the program and the timing.
THEOREM ClockGatedWhenIdle == Spec => []ClockWhileBusy
<1>1. Init => ClockInv
  BY DEF Init, ClockInv, ClockWhileBusy
<1>2. ClockInv /\ [Next]_vars => ClockInv'
  BY ClockStep
<1>3. ClockInv => ClockWhileBusy
  BY DEF ClockInv
<1> QED
  BY <1>1, <1>2, <1>3, PTL DEF Spec

-----------------------------------------------------------------------------
(* Types.                                                                  *)

CsrType == [mie : BOOLEAN, mpie : BOOLEAN, lie : BOOLEAN, mepc : Nat, dpc : Nat,
            dcsr : StepModes \cup {NoStep}]
IdType  == [valid : BOOLEAN, pc : Nat, kind : Kinds]
ExType  == [branch : {"none", "taken", "not"}, csr : {"none", "csr_mstatus", "csr_mie"},
            value : BOOLEAN]
States  == {"RESET", "BOOT_SET", "WAIT_SLEEP", "SLEEP", "FIRST_FETCH", "DECODE",
            "FLUSH_EX", "FLUSH_WB", "XRET_JUMP", "DBG_WAIT_BRANCH", "DBG_FLUSH",
            "DBG_TAKEN_ID", "DBG_TAKEN_IF"}
Flags   == {jump_done_q, illegal_insn_q, debug_mode_q, debug_req_q, debug_req_entry_q,
            core_busy_q, fetch_enable_q, irq, irq_q, imem}
Lsu     == {"idle", "req", "wait"}

\* The program is one of Programs: its instructions have a kind.
TypeInv ==
    /\ prog \in Programs
    /\ ctrl_fsm_cs \in States /\ Flags \subseteq BOOLEAN /\ csr \in CsrType
    /\ pc_if \in Nat /\ id \in IdType /\ ex \in ExType /\ lsu \in Lsu

\* The inputs of a cycle are Boolean.
LEMMA InputsBoolean ==
    ASSUME NEW in \in Inputs, imem \in BOOLEAN
    PROVE  /\ in.fetch_enable \in BOOLEAN /\ in.debug_req \in BOOLEAN
           /\ in.fetch_valid \in BOOLEAN /\ in.ready \in BOOLEAN
           /\ in.fetch \in BOOLEAN /\ in.imem \in BOOLEAN /\ in.bus \in BOOLEAN
  BY DEF Inputs, Signals, If

\* What the CSRs become is a CSR state.
LEMMA CsrTypes ==
    ASSUME csr \in CsrType, ex \in ExType, NEW a \in Nat
    PROVE  /\ Written \in CsrType
           /\ SaveTrap(a) \in CsrType /\ SaveDebug(a) \in CsrType
           /\ RestoreMret \in CsrType
<1>1. Written \in CsrType
  BY DEF Written, CsrType, ExType
<1> QED
  BY <1>1 DEF SaveTrap, SaveDebug, RestoreMret, CsrType

\* IF and ID keep their types, wherever the PC is set to.
LEMMA IfIdTypes ==
    ASSUME TypeInv, NEW in, NEW halt_if, NEW halt_id, NEW set \in Nat \cup {NoPc},
           IfId(in, halt_if, halt_id, set)
    PROVE  pc_if' \in Nat /\ id' \in IdType
<1>1. CASE TakesWord(in, halt_if, set)
  <2>1. prog[pc_if] \in Kinds
    BY <1>1, ControllerAssumption DEF TypeInv, TakesWord
  <2>2. /\ id' = [valid |-> TRUE, pc |-> pc_if, kind |-> prog[pc_if]]
        /\ pc_if' = pc_if + 1
    BY <1>1 DEF IfId
  <2> QED
    BY <2>1, <2>2 DEF TypeInv, IdType
<1>2. CASE ~TakesWord(in, halt_if, set)
  <2>1. /\ id' = [id EXCEPT !.valid = id.valid /\ ~id_ready(in) /\ ~halt_id]
        /\ pc_if' = IF set = NoPc THEN pc_if ELSE set
    BY <1>2 DEF IfId
  <2> QED
    BY <2>1 DEF TypeInv, IdType, NoPc
<1> QED
  BY <1>1, <1>2

LEMMA IssueTypes ==
    ASSUME NEW in, Issue(in)
    PROVE  ex' \in ExType
<1>0. Idle \in ExType
  BY DEF Idle, ExType
<1>1. CASE id_ready(in) /\ id.kind = "branch"
  <2>1. PICK b \in {"taken", "not"} : ex' = [Idle EXCEPT !.branch = b]
    BY <1>1 DEF Issue
  <2> QED
    BY <1>0, <2>1 DEF ExType
<1>2. CASE id_ready(in) /\ id.kind \in {"csr_mstatus", "csr_mie"}
  <2>1. PICK v \in BOOLEAN : ex' = [Idle EXCEPT !.csr = id.kind, !.value = v]
    BY <1>2 DEF Issue
  <2> QED
    BY <1>0, <1>2, <2>1 DEF ExType
<1>3. CASE ~id_ready(in) \/ id.kind \notin {"branch", "csr_mstatus", "csr_mie"}
  BY <1>0, <1>3 DEF Issue
<1> QED
  BY <1>1, <1>2, <1>3

LEMMA BusTypes ==
    ASSUME TypeInv, NEW in \in Inputs, NEW load, Bus(in, load)
    PROVE  imem' \in BOOLEAN /\ lsu' \in Lsu
<1>1. imem \in BOOLEAN
  BY DEF TypeInv, Flags
<1> QED
  BY <1>1, InputsBoolean DEF Bus, TypeInv, Lsu, instr_req

\* A cycle in which ID decodes nothing.
LEMMA IdlesTypes ==
    ASSUME TypeInv, NEW in \in Inputs, NEW set \in Nat \cup {NoPc}, Idles(in, set)
    PROVE  /\ pc_if' \in Nat /\ id' \in IdType /\ ex' \in ExType
           /\ imem' \in BOOLEAN /\ lsu' \in Lsu /\ jump_done_q' \in BOOLEAN
<1>1. IfId(in, TRUE, TRUE, set) /\ ex' = Idle /\ Bus(in, FALSE) /\ jump_done_q' = FALSE
  BY DEF Idles
<1> QED
  BY <1>1, IfIdTypes, BusTypes DEF Idle, ExType

\* A cycle in which ID decodes.
LEMMA DecodesTypes ==
    ASSUME TypeInv, NEW in \in Inputs, NEW halt_if, NEW set \in Nat \cup {NoPc},
           Decodes(in, halt_if, set)
    PROVE  /\ pc_if' \in Nat /\ id' \in IdType /\ ex' \in ExType
           /\ imem' \in BOOLEAN /\ lsu' \in Lsu /\ csr' \in CsrType
           /\ {illegal_insn_q', debug_mode_q', debug_req_entry_q'} \subseteq BOOLEAN
<1>1. /\ IfId(in, halt_if, FALSE, set) /\ Issue(in)
      /\ Bus(in, id.kind = "load" /\ id_ready(in))
      /\ illegal_insn_q' = FALSE /\ csr' = Written
      /\ UNCHANGED <<debug_mode_q, debug_req_entry_q>>
  BY DEF Decodes
<1>2. pc_if' \in Nat /\ id' \in IdType
  BY <1>1, IfIdTypes
<1>3. ex' \in ExType
  BY <1>1, IssueTypes
<1>4. imem' \in BOOLEAN /\ lsu' \in Lsu
  BY <1>1, BusTypes
<1>5. csr' \in CsrType
  BY <1>1, CsrTypes DEF TypeInv
<1> QED
  BY <1>1, <1>2, <1>3, <1>4, <1>5 DEF TypeInv, Flags

\* What the main FSM decides.
Decided ==
    /\ ctrl_fsm_cs' \in States /\ csr' \in CsrType
    /\ pc_if' \in Nat /\ id' \in IdType /\ ex' \in ExType
    /\ imem' \in BOOLEAN /\ lsu' \in Lsu
    /\ {jump_done_q', illegal_insn_q', debug_mode_q', debug_req_entry_q'} \subseteq BOOLEAN

LEMMA FsmTypes ==
    ASSUME TypeInv, NEW in \in Inputs, Fsm(in)
    PROVE  Decided
<1>0. /\ {0, Handler, Debugger, DebugExc, pc_if, id.pc, id.pc + 1, csr.mepc, csr.dpc} \subseteq Nat
      /\ {jump_done_q, illegal_insn_q, debug_mode_q, debug_req_entry_q} \subseteq BOOLEAN
      /\ csr \in CsrType /\ Written \in CsrType /\ RestoreMret \in CsrType
      /\ \A a \in Nat : SaveTrap(a) \in CsrType /\ SaveDebug(a) \in CsrType
  <2>1. {Handler, Debugger, DebugExc} \subseteq Nat
    BY ControllerAssumption
  <2>2. csr \in CsrType /\ ex \in ExType /\ {csr.mepc, csr.dpc} \subseteq Nat
    BY DEF TypeInv, CsrType
  <2>3. {pc_if, id.pc, id.pc + 1} \subseteq Nat
    BY DEF TypeInv, IdType
  <2>4. {jump_done_q, illegal_insn_q, debug_mode_q, debug_req_entry_q} \subseteq BOOLEAN
    BY DEF TypeInv, Flags
  <2>5. /\ Written \in CsrType /\ RestoreMret \in CsrType
        /\ \A a \in Nat : SaveTrap(a) \in CsrType /\ SaveDebug(a) \in CsrType
    BY <2>2, CsrTypes
  <2> QED
    BY <2>1, <2>2, <2>3, <2>4, <2>5
<1>1. CASE Reset(in)
  <2>1. Idles(in, NoPc)
    BY <1>1 DEF Reset
  <2>2. /\ pc_if' \in Nat /\ id' \in IdType /\ ex' \in ExType
        /\ imem' \in BOOLEAN /\ lsu' \in Lsu /\ jump_done_q' \in BOOLEAN
    BY <1>0, <2>1, IdlesTypes
  <2> QED
    BY <1>0, <1>1, <2>2 DEF Decided, Reset, States
<1>2. CASE BootSet(in)
  <2>1. Idles(in, 0)
    BY <1>2 DEF BootSet
  <2>2. /\ pc_if' \in Nat /\ id' \in IdType /\ ex' \in ExType
        /\ imem' \in BOOLEAN /\ lsu' \in Lsu /\ jump_done_q' \in BOOLEAN
    BY <1>0, <2>1, IdlesTypes
  <2> QED
    BY <1>0, <1>2, <2>2 DEF Decided, BootSet, States
<1>3. CASE WaitSleep(in)
  <2>1. Idles(in, NoPc)
    BY <1>3 DEF WaitSleep
  <2>2. /\ pc_if' \in Nat /\ id' \in IdType /\ ex' \in ExType
        /\ imem' \in BOOLEAN /\ lsu' \in Lsu /\ jump_done_q' \in BOOLEAN
    BY <1>0, <2>1, IdlesTypes
  <2> QED
    BY <1>0, <1>3, <2>2 DEF Decided, WaitSleep, States
<1>4. CASE Sleep(in)
  <2>1. Idles(in, NoPc)
    BY <1>4 DEF Sleep
  <2>2. /\ pc_if' \in Nat /\ id' \in IdType /\ ex' \in ExType
        /\ imem' \in BOOLEAN /\ lsu' \in Lsu /\ jump_done_q' \in BOOLEAN
    BY <1>0, <2>1, IdlesTypes
  <2> QED
    BY <1>0, <1>4, <2>2 DEF Decided, Sleep, States
<1>5. CASE HaltRequest(in)
  <2>1. Idles(in, NoPc)
    BY <1>5 DEF HaltRequest
  <2>2. /\ pc_if' \in Nat /\ id' \in IdType /\ ex' \in ExType
        /\ imem' \in BOOLEAN /\ lsu' \in Lsu /\ jump_done_q' \in BOOLEAN
    BY <1>0, <2>1, IdlesTypes
  <2> QED
    BY <1>0, <1>5, <2>2 DEF Decided, HaltRequest, States
<1>6. CASE TakeIrq(in)
  <2>1. Idles(in, Handler)
    BY <1>6 DEF TakeIrq
  <2>2. /\ pc_if' \in Nat /\ id' \in IdType /\ ex' \in ExType
        /\ imem' \in BOOLEAN /\ lsu' \in Lsu /\ jump_done_q' \in BOOLEAN
    BY <1>0, <2>1, IdlesTypes
  <2> QED
    BY <1>0, <1>6, <2>2 DEF Decided, TakeIrq, States
<1>7. CASE FlushEx(in)
  <2>1. Idles(in, NoPc)
    BY <1>7 DEF FlushEx
  <2>2. /\ pc_if' \in Nat /\ id' \in IdType /\ ex' \in ExType
        /\ imem' \in BOOLEAN /\ lsu' \in Lsu /\ jump_done_q' \in BOOLEAN
    BY <1>0, <2>1, IdlesTypes
  <2> QED
    BY <1>0, <1>7, <2>2 DEF Decided, FlushEx, States
<1>8. CASE FlushWb(in)
  <2>1. PICK set \in Nat \cup {NoPc} : Idles(in, set)
    BY <1>0, <1>8 DEF FlushWb
  <2>2. /\ pc_if' \in Nat /\ id' \in IdType /\ ex' \in ExType
        /\ imem' \in BOOLEAN /\ lsu' \in Lsu /\ jump_done_q' \in BOOLEAN
    BY <2>1, IdlesTypes
  <2> QED
    BY <1>0, <1>8, <2>2 DEF Decided, FlushWb, States
<1>9. CASE XretJump(in)
  <2>1. PICK set \in Nat \cup {NoPc} : Idles(in, set)
    BY <1>0, <1>9 DEF XretJump
  <2>2. /\ pc_if' \in Nat /\ id' \in IdType /\ ex' \in ExType
        /\ imem' \in BOOLEAN /\ lsu' \in Lsu /\ jump_done_q' \in BOOLEAN
    BY <2>1, IdlesTypes
  <2> QED
    BY <1>0, <1>9, <2>2 DEF Decided, XretJump, States
<1>10. CASE DbgWaitBranch(in)
  <2>1. PICK set \in Nat \cup {NoPc} : Idles(in, set)
    BY <1>0, <1>10 DEF DbgWaitBranch
  <2>2. /\ pc_if' \in Nat /\ id' \in IdType /\ ex' \in ExType
        /\ imem' \in BOOLEAN /\ lsu' \in Lsu /\ jump_done_q' \in BOOLEAN
    BY <2>1, IdlesTypes
  <2> QED
    BY <1>0, <1>10, <2>2 DEF Decided, DbgWaitBranch, States
<1>11. CASE DbgFlush(in)
  <2>1. Idles(in, NoPc)
    BY <1>11 DEF DbgFlush
  <2>2. /\ pc_if' \in Nat /\ id' \in IdType /\ ex' \in ExType
        /\ imem' \in BOOLEAN /\ lsu' \in Lsu /\ jump_done_q' \in BOOLEAN
    BY <1>0, <2>1, IdlesTypes
  <2> QED
    BY <1>0, <1>11, <2>2 DEF Decided, DbgFlush, States
<1>12. CASE DbgTakenId(in)
  <2>1. Idles(in, Debugger)
    BY <1>12 DEF DbgTakenId
  <2>2. /\ pc_if' \in Nat /\ id' \in IdType /\ ex' \in ExType
        /\ imem' \in BOOLEAN /\ lsu' \in Lsu /\ jump_done_q' \in BOOLEAN
    BY <1>0, <2>1, IdlesTypes
  <2> QED
    BY <1>0,
     <1>12, <2>2 DEF Decided, DbgTakenId, States
<1>13. CASE DbgTakenIf(in)
  <2>1. Idles(in, Debugger)
    BY <1>13 DEF DbgTakenIf
  <2>2. /\ pc_if' \in Nat /\ id' \in IdType /\ ex' \in ExType
        /\ imem' \in BOOLEAN /\ lsu' \in Lsu /\ jump_done_q' \in BOOLEAN
    BY <1>0, <2>1, IdlesTypes
  <2> QED
    BY <1>0, <1>13, <2>2 DEF Decided, DbgTakenIf, States
<1>14. CASE BreakDebug(in)
  <2>1. Decodes(in, TRUE, NoPc)
    BY <1>14 DEF BreakDebug
  <2>2. jump_done_q' \in BOOLEAN /\ ctrl_fsm_cs' \in States
    BY <1>0, <1>14 DEF BreakDebug, States
  <2> QED
    BY <2>1, <2>2, DecodesTypes DEF Decided
<1>15. CASE DecodeJump(in)
  <2>1. PICK jr_stall \in BOOLEAN :
           Decodes(in, Stepping, IF ~jr_stall /\ ~jump_done_q THEN 0 ELSE NoPc)
    BY <1>15 DEF DecodeJump
  <2>2. jump_done_q' \in BOOLEAN /\ ctrl_fsm_cs' \in States
    BY <1>0, <1>15 DEF DecodeJump, AfterDecode, States
  <2> QED
    BY <2>1, <2>2, DecodesTypes DEF Decided
<1>16. CASE DecodePlain(in)
  <2>1. Decodes(in, Stepping, NoPc)
    BY <1>16 DEF DecodePlain
  <2>2. jump_done_q' \in BOOLEAN /\ ctrl_fsm_cs' \in States
    BY <1>0, <1>16 DEF DecodePlain, AfterDecode, States
  <2> QED
    BY <2>1, <2>2, DecodesTypes DEF Decided
<1>17. CASE FirstFetch(in)
  <2>1. CASE Idles(in, Handler) /\ csr' = SaveTrap(pc_if)
    <3>1. /\ pc_if' \in Nat /\ id' \in IdType /\ ex' \in ExType
          /\ imem' \in BOOLEAN /\ lsu' \in Lsu /\ jump_done_q' \in BOOLEAN
      BY <1>0, <2>1, IdlesTypes
    <3> QED
      BY <1>0, <1>17, <2>1, <3>1 DEF Decided, FirstFetch, States
  <2>2. CASE /\ IfId(in, FALSE, FALSE, NoPc) /\ ex' = Idle /\ Bus(in, FALSE)
             /\ jump_done_q' = FALSE
             /\ csr' = Written
    <3>1. pc_if' \in Nat /\ id' \in IdType
      BY <2>2, IfIdTypes
    <3>2. imem' \in BOOLEAN /\ lsu' \in Lsu
      BY <2>2, BusTypes
    <3> QED
      BY <1>0, <1>17, <2>2, <3>1, <3>2 DEF Decided, FirstFetch, States, Idle, ExType
  <2> QED
    BY <1>17, <2>1, <2>2 DEF FirstFetch
<1>18. CASE NoInstruction(in)
  <2>1. pc_if' \in Nat /\ id' \in IdType
    BY <1>18, IfIdTypes DEF NoInstruction
  <2>2. imem' \in BOOLEAN /\ lsu' \in Lsu
    BY <1>18, BusTypes DEF NoInstruction
  <2> QED
    BY <1>0, <1>18, <2>1, <2>2 DEF Decided, NoInstruction, Idle, ExType, TypeInv
<1>19. CASE Flushing(in)
  <2>1. pc_if' \in Nat /\ id' \in IdType
    BY <1>19, IfIdTypes DEF Flushing
  <2>2. ex' \in ExType
    BY <1>19, IssueTypes DEF Flushing
  <2>3. imem' \in BOOLEAN /\ lsu' \in Lsu
    BY <1>19, BusTypes DEF Flushing
  <2> QED
    BY <1>0, <1>19, <2>1, <2>2, <2>3 DEF Decided, Flushing, Illegal, States
<1>20. CASE BranchTaken(in)
  <2>1. imem' \in BOOLEAN /\ lsu' \in Lsu
    BY <1>20, BusTypes DEF BranchTaken
  <2>2. pc_if' = 0 /\ id' = [id EXCEPT !.valid = FALSE] /\ ex' = Idle
    BY <1>20 DEF BranchTaken
  <2>3. id' \in IdType /\ ex' \in ExType
    BY <2>2 DEF TypeInv, IdType, Idle, ExType
  <2> QED
    BY <1>0, <1>20, <2>1, <2>2, <2>3 DEF Decided, BranchTaken, TypeInv
<1> QED
  BY <1>1, <1>2, <1>3, <1>4, <1>5, <1>6, <1>7, <1>8, <1>9, <1>10, <1>11,
     <1>12, <1>13, <1>14, <1>15, <1>16, <1>17, <1>18, <1>19, <1>20 DEF Fsm

LEMMA TypeStep ==
    ASSUME TypeInv, [Next]_vars
    PROVE  TypeInv'
<1>1. CASE DebuggerCode
  <2>1. PICK m \in StepModes : csr' = [csr EXCEPT !.dcsr = m]
    BY <1>1 DEF DebuggerCode
  <2>2. csr' \in CsrType
    BY <2>1 DEF TypeInv, CsrType
  <2> QED
    BY <1>1, <2>2 DEF DebuggerCode, TypeInv, Flags, ungated
<1>2. CASE UNCHANGED vars
  BY <1>2 DEF vars, ungated, clocked, TypeInv, Flags
<1>3. ASSUME NEW in \in Inputs, Cycle(in)
      PROVE  TypeInv'
  <2>1. {debug_req_q', core_busy_q', fetch_enable_q', irq'} \subseteq BOOLEAN /\ prog' \in Programs
    <3>1. imem \in BOOLEAN /\ Flags \subseteq BOOLEAN /\ prog \in Programs
      BY DEF TypeInv, Flags
    <3>2. core_busy_d(in) \in BOOLEAN
      BY <3>1, InputsBoolean DEF core_busy_d, if_busy, ctrl_busy, instr_req
    <3> QED
      BY <1>3, <3>1, <3>2, InputsBoolean DEF Cycle, Ungated, Flags
  <2>2. CASE Clocked(in)
    <3>1. Decided /\ irq_q' = irq
      BY <2>2, FsmTypes DEF Clocked
    <3> QED
      BY <2>1, <3>1 DEF TypeInv, Decided, Flags
  <2>3. CASE Gated(in)
    BY <2>1, <2>3 DEF Gated, clocked, TypeInv, Flags
  <2> QED
    BY <1>3, <2>2, <2>3 DEF Cycle
<1> QED
  BY <1>1, <1>2, <1>3 DEF Next

LEMMA TypeInit ==
    ASSUME Init
    PROVE  TypeInv
<1>1. csr \in CsrType
  BY DEF Init, CsrType
<1>2. id \in IdType /\ ex \in ExType
  BY DEF Init, IdType, ExType, Kinds, Idle
<1>3. Flags \subseteq BOOLEAN
  BY DEF Init, Flags
<1>4. ctrl_fsm_cs \in States /\ lsu \in Lsu /\ pc_if \in Nat /\ prog \in Programs
  BY DEF Init, States, Lsu
<1> QED
  BY <1>1, <1>2, <1>3, <1>4 DEF TypeInv

\* Every register keeps its type, for every program and every place of the handlers.
THEOREM TypeCorrect == Spec => []TypeOK
<1>1. Init => TypeInv
  BY TypeInit
<1>2. TypeInv /\ [Next]_vars => TypeInv'
  BY TypeStep
<1>3. TypeInv => TypeOK
  BY DEF TypeInv, TypeOK, States, Flags, CsrType, IdType, ExType, Lsu
<1> QED
  BY <1>1, <1>2, <1>3, PTL DEF Spec

-----------------------------------------------------------------------------
(* The flow of control: Controller implements TrapSpec.  `Upcoming' maps a *)
(* state to the next instruction to execute, and every state of the FSM    *)
(* keeps what that needs; the lemmas below take the actions one by one.    *)

FlushKinds == {"illegal", "ecall", "ebreak", "fencei", "csr_mstatus", "mret", "dret", "wfi"}

\* The instruction in ID is the program's, and the one in IF follows it until a jump in
\* ID has set the PC.
InDecode ==
    /\ id.valid => ctrl_fsm_cs \in {"DECODE", "DBG_FLUSH"}
    /\ id.valid => id.kind = prog[id.pc]
    /\ id.valid /\ ctrl_fsm_cs = "DECODE" /\ ~jump_done_q => pc_if = id.pc + 1
    /\ jump_done_q => ctrl_fsm_cs = "DECODE" /\ id.valid /\ id.kind = "jump" /\ pc_if = 0

\* EX holds a branch or a write of a CSR only while DECODE or a flush can still wait for
\* it; mstatus is never being written when DECODE looks at interrupts.
InEx ==
    /\ ctrl_fsm_cs \notin {"DECODE", "FLUSH_EX", "DBG_WAIT_BRANCH", "DBG_FLUSH"} => ex = Idle
    /\ ex.branch # "none" => ctrl_fsm_cs \in {"DECODE", "DBG_WAIT_BRANCH"} /\ ex.csr = "none"
    /\ ex.csr = "csr_mstatus" => ctrl_fsm_cs # "DECODE"
    /\ ctrl_fsm_cs = "FLUSH_EX" /\ id.kind # "csr_mstatus" => ex = Idle

\* What waits in ID for the flush, and why: neither a breakpoint of the debugger, nor a
\* wfi in debug mode or under single step, nor a fence that is stepped over.
InFlush ==
    ctrl_fsm_cs \in {"FLUSH_EX", "FLUSH_WB"} =>
      /\ id.kind \in FlushKinds /\ id.kind = prog[id.pc]
      /\ illegal_insn_q <=> Illegal
      /\ id.kind = "ebreak" => ~debug_mode_q /\ ~csr.dcsr.ebreakm
      /\ id.kind \in {"fencei", "csr_mstatus"} => ~Stepping
      /\ id.kind = "fencei" => pc_if = id.pc + 1
      /\ id.kind = "wfi" => ~debug_mode_q /\ ~csr.dcsr.step

\* The core neither sleeps in debug mode nor under single step; dret returns from debug
\* mode only; only a stepped branch is waited for.
InOthers ==
    /\ ctrl_fsm_cs \in {"RESET", "BOOT_SET", "WAIT_SLEEP", "SLEEP"} => ~debug_mode_q /\ ~csr.dcsr.step
    /\ ctrl_fsm_cs = "XRET_JUMP" =>
         /\ id.kind \in {"mret", "dret"} /\ id.kind = prog[id.pc]
         /\ id.kind = "dret" => debug_mode_q
    /\ ctrl_fsm_cs = "DBG_WAIT_BRANCH" => Stepping /\ id.kind = "branch"
    /\ ctrl_fsm_cs = "DBG_TAKEN_IF" => ~debug_mode_q

TrapInv == TypeInv /\ HaltEntryIsShort /\ InDecode /\ InEx /\ InFlush /\ InOthers

\* The values of mstatus, mie, mepc, dpc and dcsr as software sees them: unchanged, behind
\* a trap at a, behind an mret, or with dpc written.
Software == <<Written.mie, csr.mpie, csr.mepc, Written.lie, csr.dpc, csr.dcsr>>
Trapped(a) ==
    Software' = <<FALSE, Written.mie, a, Written.lie, csr.dpc, csr.dcsr>>
Returned ==
    Software' = <<csr.mpie, TRUE, csr.mepc, Written.lie, csr.dpc, csr.dcsr>>
Debugged(a) ==
    Software' = <<Written.mie, csr.mpie, csr.mepc, Written.lie, a, csr.dcsr>>

LEMMA WrittenCsrs ==
    ASSUME TypeInv
    PROVE  /\ Written.mie = IF ex.csr = "csr_mstatus" THEN ex.value ELSE csr.mie
           /\ Written.lie = IF ex.csr = "csr_mie" THEN ex.value ELSE csr.lie
           /\ Written.mpie = csr.mpie /\ Written.mepc = csr.mepc
           /\ Written.dpc = csr.dpc /\ Written.dcsr = csr.dcsr
           /\ Written \in CsrType
BY CsrTypes DEF TypeInv, Written, CsrType

LEMMA IdleWritten ==
    ASSUME ex' = Idle
    PROVE  Written' = csr'
BY DEF Written, Idle

LEMMA QuietCsrs ==
    ASSUME TypeInv, csr' = Written, ex' = Idle
    PROVE  UNCHANGED Software
BY WrittenCsrs, IdleWritten DEF Software

LEMMA TrapCsrs ==
    ASSUME TypeInv, NEW a \in Nat, csr' = SaveTrap(a), ex' = Idle, ex.csr # "csr_mstatus"
    PROVE  Trapped(a)
<1>1. /\ csr'.mie = FALSE /\ csr'.mpie = csr.mie /\ csr'.mepc = a /\ csr'.lie = Written.lie
      /\ csr'.dpc = Written.dpc /\ csr'.dcsr = Written.dcsr
  BY WrittenCsrs DEF SaveTrap, CsrType
<1> QED
  BY <1>1, WrittenCsrs, IdleWritten DEF Trapped, Software

LEMMA DebugCsrs ==
    ASSUME TypeInv, NEW a \in Nat, csr' = SaveDebug(a), ex' = Idle
    PROVE  Debugged(a)
<1>1. /\ csr'.mie = Written.mie /\ csr'.mpie = Written.mpie /\ csr'.mepc = Written.mepc
      /\ csr'.lie = Written.lie /\ csr'.dpc = a /\ csr'.dcsr = Written.dcsr
  BY WrittenCsrs DEF SaveDebug, CsrType
<1> QED
  BY <1>1, WrittenCsrs, IdleWritten DEF Debugged, Software

LEMMA MretCsrs ==
    ASSUME TypeInv, csr' = RestoreMret, ex' = Idle
    PROVE  Returned
<1>1. /\ csr'.mie = csr.mpie /\ csr'.mpie = TRUE /\ csr'.mepc = Written.mepc
      /\ csr'.lie = Written.lie /\ csr'.dpc = Written.dpc /\ csr'.dcsr = Written.dcsr
  BY WrittenCsrs DEF RestoreMret, CsrType
<1> QED
  BY <1>1, WrittenCsrs, IdleWritten DEF Returned, Software

LEMMA FetchStage ==
    ASSUME TypeInv, NEW in \in Inputs, NEW halt_if, NEW halt_id, NEW set \in Nat \cup {NoPc},
           IfId(in, halt_if, halt_id, set)
    PROVE  \/ /\ id'.valid /\ id'.pc = pc_if /\ id'.kind = prog[pc_if] /\ pc_if' = pc_if + 1
              /\ ~halt_if /\ id_ready(in) /\ set = NoPc
           \/ /\ id'.valid <=> id.valid /\ ~id_ready(in) /\ ~halt_id
              /\ id'.pc = id.pc /\ id'.kind = id.kind
              /\ pc_if' = IF set = NoPc THEN pc_if ELSE set
<1>1. CASE TakesWord(in, halt_if, set)
  <2>1. /\ id' = [valid |-> TRUE, pc |-> pc_if, kind |-> prog[pc_if]]
        /\ pc_if' = pc_if + 1
    BY <1>1 DEF IfId
  <2> QED
    BY <1>1, <2>1 DEF TakesWord
<1>2. CASE ~TakesWord(in, halt_if, set)
  <2>1. /\ id' = [id EXCEPT !.valid = id.valid /\ ~id_ready(in) /\ ~halt_id]
        /\ pc_if' = IF set = NoPc THEN pc_if ELSE set
    BY <1>2 DEF IfId
  <2> QED
    BY <2>1 DEF TypeInv, IdType
<1> QED
  BY <1>1, <1>2

LEMMA IdleStage ==
    ASSUME TypeInv, NEW in \in Inputs, NEW set \in Nat \cup {NoPc}, Idles(in, set)
    PROVE  /\ ~id'.valid /\ id'.pc = id.pc /\ id'.kind = id.kind
           /\ pc_if' = IF set = NoPc THEN pc_if ELSE set
           /\ ex' = Idle /\ jump_done_q' = FALSE
BY FetchStage DEF Idles

\* What each action is shown to do.
Refines ==
    /\ InDecode' /\ InEx' /\ InFlush' /\ InOthers'
    /\ [Arch!Next]_(Arch!vars)

\* Nothing that software sees changes.
Quiet ==
    /\ Upcoming' = Upcoming /\ UNCHANGED Software
    /\ (Stepped' <=> Stepped) /\ debug_mode_q' = debug_mode_q

LEMMA QuietStep ==
    ASSUME prog' = prog, Quiet
    PROVE  [Arch!Next]_(Arch!vars)
<1>1. Stepped' = Stepped
  <2>1. Stepped \in BOOLEAN /\ Stepped' \in BOOLEAN
    BY DEF Stepped
  <2> QED
    BY <2>1 DEF Quiet
<1> QED
  BY <1>1 DEF Quiet, Software, Arch!vars, Arch!machine, Arch!debug

\* Where the traps go and the saved addresses are natural numbers, none of them NoPc.
LEMMA Targets ==
    ASSUME TypeInv
    PROVE  /\ {0, Handler, Debugger, DebugExc, pc_if, id.pc, id.pc + 1, csr.mepc, csr.dpc} \subseteq Nat
           /\ \A a \in Nat : a # NoPc
           /\ debug_mode_q \in BOOLEAN
<1>1. {Handler, Debugger, DebugExc} \subseteq Nat
  BY ControllerAssumption
<1>2. pc_if \in Nat /\ id.pc \in Nat /\ id.pc + 1 \in Nat /\ csr.mepc \in Nat /\ csr.dpc \in Nat
  BY DEF TypeInv, CsrType, IdType
<1>3. \A a \in Nat : a # NoPc
  BY DEF NoPc
<1> QED
  BY <1>1, <1>2, <1>3 DEF TypeInv, Flags

LEMMA ResetRefines ==
    ASSUME TrapInv, prog' = prog, NEW in \in Inputs, Reset(in) \/ BootSet(in)
    PROVE  Refines
<1>1. PICK set \in {NoPc, 0} : Idles(in, set) /\ (BootSet(in) => set = 0)
  BY DEF Reset, BootSet
<1>2. /\ ~id'.valid /\ id'.pc = id.pc /\ id'.kind = id.kind
      /\ pc_if' = IF set = NoPc THEN pc_if ELSE set
      /\ ex' = Idle /\ jump_done_q' = FALSE
  BY <1>1, IdleStage DEF TrapInv
<1>3. /\ ctrl_fsm_cs \in {"RESET", "BOOT_SET"} /\ csr' = csr
      /\ ctrl_fsm_cs' \in {"RESET", "BOOT_SET", "FIRST_FETCH", "DBG_TAKEN_IF"}
      /\ ctrl_fsm_cs' \in {"FIRST_FETCH", "DBG_TAKEN_IF"} => BootSet(in)
      /\ debug_mode_q' = debug_mode_q
  BY DEF Reset, BootSet
<1>4. ex = Idle /\ ~debug_mode_q /\ ~csr.dcsr.step
  BY <1>3 DEF TrapInv, InEx, InOthers
<1>5. InDecode' /\ InEx' /\ InFlush' /\ InOthers'
  BY <1>2, <1>3, <1>4 DEF InDecode, InEx, InFlush, InOthers, Idle
<1>6. csr' = Written
  BY <1>3, <1>4 DEF Written, Idle
<1>7. UNCHANGED Software
  BY <1>2, <1>6, QuietCsrs DEF TrapInv
<1>8. Upcoming' = Upcoming
  BY <1>1, <1>2, <1>3 DEF Upcoming, NoPc
<1>9. ~Stepped /\ ~Stepped'
  BY <1>3, <1>4 DEF Stepped, Stepping
<1>10. Quiet
  BY <1>3, <1>7, <1>8, <1>9 DEF Quiet
<1> QED
  BY <1>5, <1>10, QuietStep DEF Refines

LEMMA SleepRefines ==
    ASSUME TrapInv, prog' = prog, NEW in \in Inputs, WaitSleep(in) \/ Sleep(in)
    PROVE  Refines
<1>1. Idles(in, NoPc)
  BY DEF WaitSleep, Sleep
<1>2. /\ ~id'.valid /\ id'.pc = id.pc /\ id'.kind = id.kind
      /\ pc_if' = pc_if /\ ex' = Idle /\ jump_done_q' = FALSE
  BY <1>1, IdleStage DEF TrapInv
<1>3. /\ ctrl_fsm_cs \in {"WAIT_SLEEP", "SLEEP"} /\ csr' = Written
      /\ ctrl_fsm_cs' \in {"SLEEP", "FIRST_FETCH", "DBG_TAKEN_IF"}
      /\ debug_mode_q' = debug_mode_q
  BY DEF WaitSleep, Sleep
<1>4. ~debug_mode_q /\ ~csr.dcsr.step /\ csr'.dcsr = csr.dcsr
  BY <1>3, WrittenCsrs DEF TrapInv, InOthers
<1>5. InDecode' /\ InEx' /\ InFlush' /\ InOthers'
  BY <1>2, <1>3, <1>4 DEF InDecode, InEx, InFlush, InOthers, Idle
<1>6. UNCHANGED Software
  BY <1>2, <1>3, QuietCsrs DEF TrapInv
<1>7. Upcoming' = Upcoming
  BY <1>2, <1>3 DEF Upcoming
<1>8. ~Stepped /\ ~Stepped'
  BY <1>3, <1>4 DEF Stepped, Stepping
<1>9. Quiet
  BY <1>3, <1>6, <1>7, <1>8 DEF Quiet
<1> QED
  BY <1>5, <1>9, QuietStep DEF Refines

\* A step that takes the abstract machine one step on.
LEMMA ArchStep ==
    ASSUME prog' = prog,
           \/ Arch!Straight \/ Arch!Jump \/ Arch!WriteCsr \/ Arch!Exception \/ Arch!Mret
           \/ Arch!Interrupt \/ Arch!EnterDebug \/ Arch!Breakpoint \/ Arch!Dret \/ Arch!SetsStep
    PROVE  [Arch!Next]_(Arch!vars)
BY DEF Arch!Next

\* Most states leave ID and EX empty.
LEMMA IdleInvs ==
    ASSUME ~id'.valid, jump_done_q' = FALSE, ex' = Idle,
           \/ ctrl_fsm_cs' \in {"FIRST_FETCH", "DECODE", "DBG_FLUSH", "DBG_TAKEN_ID"}
           \/ ctrl_fsm_cs' = "DBG_TAKEN_IF" /\ ~debug_mode_q'
    PROVE  InDecode' /\ InEx' /\ InFlush' /\ InOthers'
BY DEF InDecode, InEx, InFlush, InOthers, Idle

LEMMA InterruptRefines ==
    ASSUME TypeInv, prog' = prog, irq_req_ctrl, ~debug_mode_q, debug_mode_q' = debug_mode_q,
           ex.csr # "csr_mstatus", NEW a \in Nat, csr' = SaveTrap(a), ex' = Idle,
           Upcoming = a, Upcoming' = Handler, ~Stepped, ~Stepped'
    PROVE  [Arch!Next]_(Arch!vars)
<1>1. Trapped(a)
  BY TrapCsrs
<1>2. csr.mie /\ Written.mie /\ (csr.dcsr.step => csr.dcsr.stepie)
  BY WrittenCsrs DEF irq_req_ctrl, m_irq_enable
<1>3. Written.lie
  BY WrittenCsrs DEF irq_req_ctrl, mie_bypass
<1>4. Stepped' = Stepped
  <2>1. Stepped \in BOOLEAN /\ Stepped' \in BOOLEAN
    BY DEF Stepped
  <2> QED
    BY <2>1
<1>5. Arch!Interrupt
  BY <1>1, <1>2, <1>3, <1>4 DEF Trapped, Software, Arch!Interrupt, Arch!Trap, Arch!debug
<1> QED
  BY <1>5, ArchStep

LEMMA FirstFetchRefines ==
    ASSUME TrapInv, prog' = prog, NEW in \in Inputs, FirstFetch(in)
    PROVE  Refines
<1>1. /\ ctrl_fsm_cs = "FIRST_FETCH" /\ ctrl_fsm_cs' = "DECODE"
      /\ debug_mode_q' = debug_mode_q
  BY DEF FirstFetch
<1>2. ex = Idle /\ ~id.valid
  BY <1>1 DEF TrapInv, InEx, InDecode
<1>3. ~Stepped /\ ~Stepped'
  BY <1>1 DEF Stepped
<1>4. Upcoming = pc_if
  BY <1>1 DEF Upcoming
<1>5. CASE /\ irq_req_ctrl /\ ~debug_mode_q
           /\ Idles(in, Handler) /\ csr' = SaveTrap(pc_if)
  <2>1. ~id'.valid /\ pc_if' = Handler /\ ex' = Idle /\ jump_done_q' = FALSE
    BY <1>5, IdleStage, Targets DEF TrapInv
  <2>2. Upcoming' = Handler
    BY <1>1, <2>1 DEF Upcoming, Idle
  <2>3. ex.csr # "csr_mstatus"
    BY <1>2 DEF Idle
  <2>4. [Arch!Next]_(Arch!vars)
    BY <1>1, <1>3, <1>4, <1>5, <2>1, <2>2, <2>3, Targets, InterruptRefines DEF TrapInv
  <2> QED
    BY <1>1, <2>1, <2>4, IdleInvs DEF Refines
<1>6. CASE /\ IfId(in, FALSE, FALSE, NoPc) /\ ex' = Idle
           /\ jump_done_q' = FALSE /\ csr' = Written
  <2>1. \/ /\ id'.valid /\ id'.pc = pc_if /\ id'.kind = prog[pc_if] /\ pc_if' = pc_if + 1
        \/ ~id'.valid /\ pc_if' = pc_if
    BY <1>2, <1>6, FetchStage DEF TrapInv
  <2>2. Upcoming' = pc_if
    BY <1>1, <1>6, <2>1 DEF Upcoming, Idle
  <2>3. UNCHANGED Software
    BY <1>6, QuietCsrs DEF TrapInv
  <2>4. Quiet
    BY <1>1, <1>3, <1>4, <2>2, <2>3 DEF Quiet
  <2>5. InDecode' /\ InEx' /\ InFlush' /\ InOthers'
    BY <1>1, <1>6, <2>1 DEF InDecode, InEx, InFlush, InOthers, Idle
  <2> QED
    BY <2>4, <2>5, QuietStep DEF Refines
<1> QED
  BY <1>5, <1>6 DEF FirstFetch

LEMMA NoInstructionRefines ==
    ASSUME TrapInv, prog' = prog, NEW in \in Inputs, BranchTaken(in) \/ NoInstruction(in)
    PROVE  Refines
<1>1. /\ ctrl_fsm_cs = "DECODE" /\ ctrl_fsm_cs' = "DECODE" /\ jump_done_q' = FALSE
      /\ ex' = Idle /\ csr' = Written /\ debug_mode_q' = debug_mode_q
  BY DEF BranchTaken, NoInstruction, Decoding
<1>2. ~Stepped /\ ~Stepped'
  BY <1>1 DEF Stepped
<1>3. UNCHANGED Software
  BY <1>1, QuietCsrs DEF TrapInv
<1>4. CASE BranchTaken(in)
  <2>1. /\ ex.branch = "taken" /\ pc_if' = 0
        /\ id' = [id EXCEPT !.valid = FALSE]
    BY <1>4 DEF BranchTaken
  <2>2. ~id'.valid
    BY <2>1 DEF TrapInv, TypeInv, IdType
  <2>3. Upcoming = 0 /\ Upcoming' = 0
    BY <1>1, <2>1, <2>2 DEF Upcoming, Idle
  <2>4. Quiet
    BY <1>1, <1>2, <1>3, <2>3 DEF Quiet
  <2> QED
    BY <1>1, <2>2, <2>4, IdleInvs, QuietStep DEF Refines
<1>5. CASE NoInstruction(in)
  <2>1. ~id.valid /\ ex.branch # "taken" /\ IfId(in, FALSE, FALSE, NoPc)
    BY <1>5 DEF NoInstruction, Decoding
  <2>2. \/ /\ id'.valid /\ id'.pc = pc_if /\ id'.kind = prog[pc_if] /\ pc_if' = pc_if + 1
        \/ ~id'.valid /\ pc_if' = pc_if
    BY <2>1, FetchStage DEF TrapInv
  <2>3. Upcoming = pc_if /\ Upcoming' = pc_if
    BY <1>1, <2>1, <2>2 DEF Upcoming, Idle
  <2>4. Quiet
    BY <1>1, <1>2, <1>3, <2>3 DEF Quiet
  <2>5. InDecode' /\ InEx' /\ InFlush' /\ InOthers'
    BY <1>1, <2>2 DEF InDecode, InEx, InFlush, InOthers, Idle
  <2> QED
    BY <2>4, <2>5, QuietStep DEF Refines
<1> QED
  BY <1>4, <1>5

LEMMA HaltRequestRefines ==
    ASSUME TrapInv, prog' = prog, NEW in \in Inputs, HaltRequest(in)
    PROVE  Refines
<1>1. /\ ctrl_fsm_cs = "DECODE" /\ id.valid /\ ex.branch # "taken" /\ ~debug_mode_q
      /\ ctrl_fsm_cs' = "DBG_FLUSH" /\ debug_req_entry_q' = TRUE
      /\ csr' = Written /\ debug_mode_q' = debug_mode_q /\ Idles(in, NoPc)
  BY DEF HaltRequest, Decoding, HaltReq
<1>2. ~id'.valid /\ id'.pc = id.pc /\ ex' = Idle /\ jump_done_q' = FALSE
  BY <1>1, IdleStage DEF TrapInv
<1>3. EntersBefore'
  BY <1>1 DEF EntersBefore
<1>4. Upcoming = id.pc /\ Upcoming' = id.pc
  BY <1>1, <1>2, <1>3 DEF Upcoming
<1>5. ~Stepped /\ ~Stepped'
  BY <1>1, <1>3 DEF Stepped
<1>6. UNCHANGED Software
  BY <1>1, <1>2, QuietCsrs DEF TrapInv
<1>7. Quiet
  BY <1>1, <1>4, <1>5, <1>6 DEF Quiet
<1> QED
  BY <1>1, <1>2, <1>7, IdleInvs, QuietStep DEF Refines

LEMMA TakeIrqRefines ==
    ASSUME TrapInv, prog' = prog, NEW in \in Inputs, TakeIrq(in)
    PROVE  Refines
<1>1. /\ ctrl_fsm_cs = "DECODE" /\ id.valid /\ ex.branch # "taken" /\ ~debug_mode_q
      /\ irq_req_ctrl /\ ctrl_fsm_cs' = "DECODE"
      /\ csr' = SaveTrap(id.pc) /\ debug_mode_q' = debug_mode_q /\ Idles(in, Handler)
  BY DEF TakeIrq, Decoding, IrqReq
<1>2. ~id'.valid /\ pc_if' = Handler /\ ex' = Idle /\ jump_done_q' = FALSE
  BY <1>1, IdleStage, Targets DEF TrapInv
<1>3. Upcoming = id.pc /\ Upcoming' = Handler
  BY <1>1, <1>2 DEF Upcoming, Idle
<1>4. ~Stepped /\ ~Stepped'
  BY <1>1 DEF Stepped
<1>5. ex.csr # "csr_mstatus"
  BY <1>1 DEF TrapInv, InEx
<1>6. [Arch!Next]_(Arch!vars)
  BY <1>1, <1>2, <1>3, <1>4, <1>5, Targets, InterruptRefines DEF TrapInv
<1> QED
  BY <1>1, <1>2, <1>6, IdleInvs DEF Refines

\* What ID/EX takes from ID.
LEMMA IssueStage ==
    ASSUME NEW in, Issue(in)
    PROVE  /\ ~id_ready(in) => ex' = Idle
           /\ id_ready(in) =>
                /\ IF id.kind = "branch" THEN ex'.branch \in {"taken", "not"}
                                         ELSE ex'.branch = "none"
                /\ ex'.csr = IF id.kind \in {"csr_mstatus", "csr_mie"} THEN id.kind ELSE "none"
                /\ ex'.value \in BOOLEAN
                /\ id.kind \notin {"branch", "csr_mstatus", "csr_mie"} => ex' = Idle
<1>1. CASE id_ready(in) /\ id.kind = "branch"
  <2>1. PICK b \in {"taken", "not"} : ex' = [Idle EXCEPT !.branch = b]
    BY <1>1 DEF Issue
  <2> QED
    BY <1>1, <2>1 DEF Idle
<1>2. CASE id_ready(in) /\ id.kind \in {"csr_mstatus", "csr_mie"}
  <2>1. PICK v \in BOOLEAN : ex' = [Idle EXCEPT !.csr = id.kind, !.value = v]
    BY <1>2 DEF Issue
  <2> QED
    BY <1>2, <2>1 DEF Idle
<1>3. CASE ~id_ready(in) \/ id.kind \notin {"branch", "csr_mstatus", "csr_mie"}
  <2>1. ex' = Idle
    BY <1>3 DEF Issue
  <2> QED
    BY <1>3, <2>1 DEF Idle
<1> QED
  BY <1>1, <1>2, <1>3

\* What software sees of the CSRs when an instruction moves to EX.
LEMMA IssueCsrs ==
    ASSUME TypeInv, NEW in, Issue(in), csr' = Written
    PROVE  /\ csr'.dcsr = csr.dcsr /\ csr'.mepc = csr.mepc /\ csr'.dpc = csr.dpc
           /\ ~id_ready(in) \/ id.kind \notin {"csr_mstatus", "csr_mie"} => UNCHANGED Software
           /\ id_ready(in) /\ id.kind = "csr_mstatus" =>
                Software' = <<ex'.value, csr.mpie, csr.mepc, Written.lie, csr.dpc, csr.dcsr>>
           /\ id_ready(in) /\ id.kind = "csr_mie" =>
                Software' = <<Written.mie, csr.mpie, csr.mepc, ex'.value, csr.dpc, csr.dcsr>>
<1>1. /\ csr'.mie = Written.mie /\ csr'.lie = Written.lie /\ csr'.mpie = csr.mpie
      /\ csr'.mepc = csr.mepc /\ csr'.dpc = csr.dpc /\ csr'.dcsr = csr.dcsr
      /\ csr' \in CsrType
  BY WrittenCsrs
<1>2. CASE ~id_ready(in) \/ id.kind \notin {"csr_mstatus", "csr_mie"}
  <2>1. ex'.csr = "none"
    BY <1>2, IssueStage DEF Idle
  <2>2. Written' = csr'
    BY <2>1 DEF Written
  <2> QED
    BY <1>1, <1>2, <2>2 DEF Software
<1>3. CASE id_ready(in) /\ id.kind = "csr_mstatus"
  <2>1. ex'.csr = "csr_mstatus"
    BY <1>3, IssueStage
  <2>2. Written' = [csr' EXCEPT !.mie = ex'.value]
    BY <2>1 DEF Written
  <2>3. Written'.mie = ex'.value /\ Written'.lie = csr'.lie
    BY <1>1, <2>2 DEF CsrType
  <2> QED
    BY <1>1, <1>3, <2>3 DEF Software
<1>4. CASE id_ready(in) /\ id.kind = "csr_mie"
  <2>1. ex'.csr = "csr_mie"
    BY <1>4, IssueStage
  <2>2. Written' = [csr' EXCEPT !.lie = ex'.value]
    BY <2>1 DEF Written
  <2>3. Written'.lie = ex'.value /\ Written'.mie = csr'.mie
    BY <1>1, <2>2 DEF CsrType
  <2> QED
    BY <1>1, <1>4, <2>3 DEF Software
<1> QED
  BY <1>1, <1>2, <1>3, <1>4

\* An instruction leaves ID: what the abstract machine does, given where the hardware
\* goes on and whether it was a single step.
LEMMA ExecuteRefines ==
    ASSUME TypeInv, prog' = prog, NEW in, Issue(in), id_ready(in), csr' = Written,
           debug_mode_q' = debug_mode_q, ~Stepped, Stepped' <=> Stepping,
           id.kind = prog[id.pc], Upcoming = id.pc,
           \/ id.kind \in {"plain", "load", "wfi", "fencei", "csr_mstatus", "csr_mie"}
              /\ Upcoming' = id.pc + 1
           \/ id.kind = "branch" /\ Upcoming' = IF ex'.branch = "taken" THEN 0 ELSE id.pc + 1
           \/ id.kind = "jump" /\ Upcoming' = 0
    PROVE  [Arch!Next]_(Arch!vars)
<1>1. Stepped' = (csr.dcsr.step /\ ~debug_mode_q)
  <2>1. Stepped' \in BOOLEAN /\ Stepping \in BOOLEAN
    BY DEF Stepped, Stepping
  <2>2. Stepped' = Stepping
    BY <2>1
  <2> QED
    BY <2>2 DEF Stepping
<1>2. ASSUME NEW kinds, id.kind \in kinds
      PROVE  Arch!Executes(kinds)
  BY <1>1, <1>2 DEF Arch!Executes
<1>3. CASE id.kind \in {"plain", "load", "wfi", "fencei", "branch"} /\ Upcoming' = id.pc + 1
  <2>1. UNCHANGED Software
    BY <1>3, IssueCsrs
  <2>2. Arch!Straight
    BY <1>2, <1>3, <2>1 DEF Arch!Straight, Software, Arch!machine, Arch!debug
  <2> QED
    BY <2>2, ArchStep
<1>4. CASE id.kind \in {"branch", "jump"} /\ Upcoming' = 0
  <2>1. UNCHANGED Software
    BY <1>4, IssueCsrs
  <2>2. Arch!Jump
    BY <1>2, <1>4, <2>1 DEF Arch!Jump, Software, Arch!machine, Arch!debug
  <2> QED
    BY <2>2, ArchStep
<1>5. CASE id.kind \in {"csr_mstatus", "csr_mie"} /\ Upcoming' = id.pc + 1
  <2>1. /\ Software' = IF id.kind = "csr_mie"
                       THEN <<Written.mie, csr.mpie, csr.mepc, ex'.value, csr.dpc, csr.dcsr>>
                       ELSE <<ex'.value, csr.mpie, csr.mepc, Written.lie, csr.dpc, csr.dcsr>>
        /\ ex'.value \in BOOLEAN
    BY <1>5, IssueCsrs, IssueStage
  <2>2. Arch!WriteCsr
    BY <1>2, <1>5, <2>1 DEF Arch!WriteCsr, Software, Arch!debug
  <2> QED
    BY <2>2, ArchStep
<1> QED
  BY <1>3, <1>4, <1>5

\* DECODE with an instruction in ID and no event.
LEMMA DecodedState ==
    ASSUME TrapInv, NEW in, Decoded(in)
    PROVE  /\ ctrl_fsm_cs = "DECODE" /\ id.valid /\ ex.branch # "taken"
           /\ id.kind = prog[id.pc] /\ Upcoming = id.pc /\ ~Stepped
           /\ ~debug_req_entry_q
           /\ ~jump_done_q => pc_if = id.pc + 1
           /\ jump_done_q => id.kind = "jump" /\ pc_if = 0
           /\ jump_done_q \in BOOLEAN /\ debug_mode_q \in BOOLEAN
<1>1. ctrl_fsm_cs = "DECODE" /\ id.valid /\ ex.branch # "taken"
  BY DEF Decoded, Decoding
<1>2. Upcoming = id.pc /\ ~Stepped
  BY <1>1 DEF Upcoming, Stepped
<1>3. jump_done_q \in BOOLEAN /\ debug_mode_q \in BOOLEAN
  BY DEF TrapInv, TypeInv, Flags
<1>4. ~debug_req_entry_q
  BY <1>1 DEF TrapInv, HaltEntryIsShort
<1> QED
  BY <1>1, <1>2, <1>3, <1>4 DEF TrapInv, InDecode

LEMMA DecodePlainRefines ==
    ASSUME TrapInv, prog' = prog, NEW in \in Inputs, DecodePlain(in)
    PROVE  Refines
<1>1. /\ Decoded(in) /\ IfId(in, Stepping, FALSE, NoPc) /\ Issue(in) /\ csr' = Written
      /\ debug_mode_q' = debug_mode_q /\ debug_req_entry_q' = debug_req_entry_q
      /\ jump_done_q' = FALSE /\ AfterDecode(in)
      /\ id.kind \in {"plain", "load", "branch", "csr_mie", "wfi"}
  BY DEF DecodePlain, Decodes
<1>2. /\ ctrl_fsm_cs = "DECODE" /\ id.valid /\ ex.branch # "taken"
      /\ id.kind = prog[id.pc] /\ Upcoming = id.pc /\ ~Stepped /\ ~debug_req_entry_q
      /\ pc_if = id.pc + 1
  BY <1>1, DecodedState
<1>3. \/ /\ id'.valid /\ id'.pc = pc_if /\ id'.kind = prog[pc_if] /\ pc_if' = pc_if + 1
         /\ ~Stepping /\ id_ready(in)
      \/ /\ id'.valid <=> id.valid /\ ~id_ready(in)
         /\ id'.pc = id.pc /\ id'.kind = id.kind /\ pc_if' = pc_if
  BY <1>1, FetchStage DEF TrapInv
<1>4. csr'.dcsr = csr.dcsr
  BY <1>1, IssueCsrs DEF TrapInv
<1>5. CASE ~id_ready(in)
  <2>1. /\ id'.valid /\ id'.pc = id.pc /\ id'.kind = id.kind /\ pc_if' = pc_if
        /\ ex' = Idle /\ ctrl_fsm_cs' = "DECODE"
    BY <1>1, <1>2, <1>3, <1>5, IssueStage DEF AfterDecode
  <2>2. Upcoming' = id.pc /\ ~Stepped'
    BY <2>1 DEF Upcoming, Stepped, Idle
  <2>3. UNCHANGED Software
    BY <1>1, <1>5, IssueCsrs DEF TrapInv
  <2>4. Quiet
    BY <1>1, <1>2, <2>2, <2>3 DEF Quiet
  <2>5. InDecode' /\ InEx' /\ InFlush' /\ InOthers'
    BY <1>1, <1>2, <2>1 DEF InDecode, InEx, InFlush, InOthers, Idle
  <2> QED
    BY <2>4, <2>5, QuietStep DEF Refines
<1>6. CASE id_ready(in) /\ ~Stepping
  <2>1. ctrl_fsm_cs' = "DECODE"
    BY <1>1, <1>6 DEF AfterDecode
  <2>2. ~Stepped'
    BY <2>1 DEF Stepped
  <2>3. Upcoming' = IF ex'.branch = "taken" THEN 0 ELSE id.pc + 1
    BY <1>2, <1>3, <1>6, <2>1 DEF Upcoming
  <2>4. Upcoming' = IF id.kind = "branch" /\ ex'.branch = "taken" THEN 0 ELSE id.pc + 1
    BY <1>1, <1>6, <2>3, IssueStage
  <2>5. [Arch!Next]_(Arch!vars)
    BY <1>1, <1>2, <1>6, <2>2, <2>4, ExecuteRefines DEF TrapInv
  <2>6. InEx'
    BY <1>1, <1>6, <2>1, IssueStage DEF InEx
  <2>7. InDecode' /\ InFlush' /\ InOthers'
    BY <1>1, <1>2, <1>3, <1>6, <2>1 DEF InDecode, InFlush, InOthers
  <2> QED
    BY <2>5, <2>6, <2>7 DEF Refines
<1>7. CASE id_ready(in) /\ Stepping
  <2>1. /\ ctrl_fsm_cs' = IF id.kind = "branch" THEN "DBG_WAIT_BRANCH" ELSE "DBG_FLUSH"
        /\ ~id'.valid /\ id'.kind = id.kind /\ pc_if' = id.pc + 1
    BY <1>1, <1>2, <1>3, <1>7 DEF AfterDecode
  <2>2. ~EntersBefore' /\ Stepping'
    BY <1>1, <1>2, <1>4, <1>7, <2>1 DEF EntersBefore, Stepping
  <2>3. Stepped' /\ ~debug_mode_q'
    BY <2>1, <2>2 DEF Stepped, Stepping
  <2>4. Upcoming' = IF id.kind = "branch" /\ ex'.branch = "taken" THEN 0 ELSE id.pc + 1
    BY <2>1, <2>2, <2>3 DEF Upcoming
  <2>5. [Arch!Next]_(Arch!vars)
    BY <1>1, <1>2, <1>7, <2>3, <2>4, ExecuteRefines DEF TrapInv
  <2>6. InEx'
    BY <1>1, <1>7, <2>1, IssueStage DEF InEx
  <2>7. InDecode' /\ InFlush' /\ InOthers'
    BY <1>1, <2>1, <2>2 DEF InDecode, InFlush, InOthers
  <2> QED
    BY <2>5, <2>6, <2>7 DEF Refines
<1> QED
  BY <1>5, <1>6, <1>7

LEMMA DecodeJumpRefines ==
    ASSUME TrapInv, prog' = prog, NEW in \in Inputs, DecodeJump(in)
    PROVE  Refines
<1>0. PICK jr_stall \in BOOLEAN :
         /\ jr_stall => ~id_ready(in)
         /\ Decodes(in, Stepping, IF ~jr_stall /\ ~jump_done_q THEN 0 ELSE NoPc)
         /\ jump_done_q' = (((~jr_stall /\ ~jump_done_q) \/ jump_done_q) /\ ~id_ready(in))
  BY DEF DecodeJump
<1> DEFINE set == IF ~jr_stall /\ ~jump_done_q THEN 0 ELSE NoPc
<1>1. /\ Decoded(in) /\ IfId(in, Stepping, FALSE, set) /\ Issue(in) /\ csr' = Written
      /\ debug_mode_q' = debug_mode_q /\ debug_req_entry_q' = debug_req_entry_q
      /\ AfterDecode(in) /\ id.kind = "jump"
  BY <1>0 DEF DecodeJump, Decodes
<1>2. /\ ctrl_fsm_cs = "DECODE" /\ id.valid /\ ex.branch # "taken"
      /\ id.kind = prog[id.pc] /\ Upcoming = id.pc /\ ~Stepped /\ ~debug_req_entry_q
      /\ ~jump_done_q => pc_if = id.pc + 1
      /\ jump_done_q => pc_if = 0
      /\ jump_done_q \in BOOLEAN
  BY <1>1, DecodedState
<1>3. \/ /\ id'.valid /\ id'.pc = pc_if /\ id'.kind = prog[pc_if] /\ pc_if' = pc_if + 1
         /\ ~Stepping /\ id_ready(in) /\ set = NoPc
      \/ /\ id'.valid <=> id.valid /\ ~id_ready(in)
         /\ id'.pc = id.pc /\ id'.kind = id.kind
         /\ pc_if' = IF set = NoPc THEN pc_if ELSE set
  <2>1. set \in Nat \cup {NoPc}
    OBVIOUS
  <2> QED
    BY <1>1, <2>1, FetchStage DEF TrapInv
<1>4. csr'.dcsr = csr.dcsr
  BY <1>1, IssueCsrs DEF TrapInv
<1>5. ex' = Idle
  BY <1>1, IssueStage
<1>6. CASE ~id_ready(in)
  <2>1. /\ id'.valid /\ id'.pc = id.pc /\ id'.kind = id.kind
        /\ pc_if' = IF set = NoPc THEN pc_if ELSE set
        /\ ctrl_fsm_cs' = "DECODE"
    BY <1>1, <1>2, <1>3, <1>6 DEF AfterDecode
  <2>2. Upcoming' = id.pc /\ ~Stepped'
    BY <1>5, <2>1 DEF Upcoming, Stepped, Idle
  <2>3. UNCHANGED Software
    BY <1>1, <1>6, IssueCsrs DEF TrapInv
  <2>4. Quiet
    BY <1>1, <1>2, <2>2, <2>3 DEF Quiet
  <2>5. /\ jump_done_q' => pc_if' = 0
        /\ ~jump_done_q' => pc_if' = id.pc + 1
    <3>1. CASE jump_done_q
      BY <1>0, <1>2, <1>6, <2>1, <3>1
    <3>2. CASE ~jump_done_q /\ jr_stall
      BY <1>0, <1>2, <1>6, <2>1, <3>2
    <3>3. CASE ~jump_done_q /\ ~jr_stall
      <4>1. jump_done_q'
        BY <1>0, <1>6, <3>3
      <4>2. set = 0 /\ set # NoPc
        BY <3>3 DEF NoPc
      <4> HIDE DEF set
      <4> QED
        BY <2>1, <4>1, <4>2
    <3> QED
      BY <3>1, <3>2, <3>3
  <2>6. InDecode' /\ InEx' /\ InFlush' /\ InOthers'
    BY <1>1, <1>2, <1>5, <2>1, <2>5 DEF InDecode, InEx, InFlush, InOthers, Idle
  <2> QED
    BY <2>4, <2>6, QuietStep DEF Refines
<1>7. CASE id_ready(in)
  <2>1. jump_done_q' = FALSE
    BY <1>0, <1>2, <1>7
  <2>2. \/ id'.valid /\ id'.pc = 0 /\ id'.kind = prog[0] /\ pc_if' = 1 /\ ~Stepping
        \/ ~id'.valid /\ id'.kind = id.kind /\ pc_if' = 0
    BY <1>0, <1>2, <1>3, <1>7 DEF NoPc
  <2>3. CASE ~Stepping
    <3>1. ctrl_fsm_cs' = "DECODE"
      BY <1>1, <2>3 DEF AfterDecode
    <3>2. Upcoming' = 0 /\ ~Stepped'
      BY <1>5, <2>2, <3>1 DEF Upcoming, Stepped, Idle
    <3>3. [Arch!Next]_(Arch!vars)
      BY <1>1, <1>2, <1>7, <2>3, <3>2, ExecuteRefines DEF TrapInv
    <3>4. InDecode' /\ InEx' /\ InFlush' /\ InOthers'
      BY <1>1, <1>5, <2>1, <2>2, <3>1 DEF InDecode, InEx, InFlush, InOthers, Idle
    <3> QED
      BY <3>3, <3>4 DEF Refines
  <2>4. CASE Stepping
    <3>1. /\ ctrl_fsm_cs' = "DBG_FLUSH" /\ ~id'.valid /\ id'.kind = id.kind /\ pc_if' = 0
      BY <1>1, <1>7, <2>2, <2>4 DEF AfterDecode
    <3>2. ~EntersBefore' /\ Stepping'
      BY <1>1, <1>2, <1>4, <2>4, <3>1 DEF EntersBefore, Stepping
    <3>3. Stepped' /\ Upcoming' = 0
      BY <3>1, <3>2 DEF Stepped, Stepping, Upcoming
    <3>4. [Arch!Next]_(Arch!vars)
      BY <1>1, <1>2, <1>7, <2>4, <3>3, ExecuteRefines DEF TrapInv
    <3> QED
      BY <1>5, <2>1, <3>1, <3>4, IdleInvs DEF Refines
  <2> QED
    BY <2>3, <2>4
<1> QED
  BY <1>6, <1>7

LEMMA FlushingRefines ==
    ASSUME TrapInv, prog' = prog, NEW in \in Inputs, Flushing(in)
    PROVE  Refines
<1>1. /\ Decoded(in) /\ IfId(in, TRUE, FALSE, NoPc) /\ Issue(in) /\ csr' = Written
      /\ debug_mode_q' = debug_mode_q /\ debug_req_entry_q' = debug_req_entry_q
      /\ jump_done_q' = FALSE /\ illegal_insn_q' = Illegal
      /\ id.kind \in FlushKinds
      /\ id.kind = "ebreak" => ~debug_mode_q /\ ~csr.dcsr.ebreakm
      /\ id.kind = "wfi" => ~debug_mode_q /\ ~csr.dcsr.step
      /\ ctrl_fsm_cs' = IF ~id_ready(in) THEN "DECODE"
                        ELSE IF Stepping /\ id.kind \in {"csr_mstatus", "fencei"} THEN "DBG_FLUSH"
                        ELSE "FLUSH_EX"
  BY DEF Flushing, FlushKinds, wfi_active
<1>2. /\ ctrl_fsm_cs = "DECODE" /\ id.valid /\ ex.branch # "taken"
      /\ id.kind = prog[id.pc] /\ Upcoming = id.pc /\ ~Stepped /\ ~debug_req_entry_q
      /\ pc_if = id.pc + 1
  BY <1>1, DecodedState DEF FlushKinds
<1>3. /\ id'.valid <=> id.valid /\ ~id_ready(in)
      /\ id'.pc = id.pc /\ id'.kind = id.kind /\ pc_if' = pc_if
  BY <1>1, FetchStage DEF TrapInv
<1>4. csr'.dcsr = csr.dcsr
  BY <1>1, IssueCsrs DEF TrapInv
<1>5. CASE ~id_ready(in)
  <2>1. /\ id'.valid /\ ex' = Idle /\ ctrl_fsm_cs' = "DECODE"
    BY <1>1, <1>2, <1>3, <1>5, IssueStage
  <2>2. Upcoming' = id.pc /\ ~Stepped'
    BY <1>3, <2>1 DEF Upcoming, Stepped, Idle
  <2>3. UNCHANGED Software
    BY <1>1, <1>5, IssueCsrs DEF TrapInv
  <2>4. Quiet
    BY <1>1, <1>2, <2>2, <2>3 DEF Quiet
  <2>5. InDecode' /\ InEx' /\ InFlush' /\ InOthers'
    BY <1>1, <1>2, <1>3, <2>1 DEF InDecode, InEx, InFlush, InOthers, Idle
  <2> QED
    BY <2>4, <2>5, QuietStep DEF Refines
<1>6. CASE id_ready(in) /\ ctrl_fsm_cs' = "DBG_FLUSH"
  <2>1. Stepping /\ id.kind \in {"csr_mstatus", "fencei"} /\ ~id'.valid
    BY <1>1, <1>3, <1>6
  <2>2. ~EntersBefore' /\ Stepping'
    BY <1>1, <1>2, <1>3, <1>4, <2>1 DEF EntersBefore, Stepping
  <2>3. Stepped' /\ Upcoming' = id.pc + 1
    BY <1>2, <1>3, <1>6, <2>2 DEF Stepped, Stepping, Upcoming
  <2>4. [Arch!Next]_(Arch!vars)
    BY <1>1, <1>2, <1>6, <2>1, <2>3, ExecuteRefines DEF TrapInv
  <2>5. InEx'
    BY <1>1, <1>6, <2>1, IssueStage DEF InEx
  <2>6. InDecode' /\ InFlush' /\ InOthers'
    BY <1>1, <1>6, <2>1 DEF InDecode, InFlush, InOthers
  <2> QED
    BY <2>4, <2>5, <2>6 DEF Refines
<1>7. CASE id_ready(in) /\ ctrl_fsm_cs' = "FLUSH_EX"
  <2>1. /\ ~id'.valid
        /\ id.kind \in {"csr_mstatus", "fencei"} => ~Stepping
    BY <1>1, <1>3, <1>7
  <2>2. ~Stepped'
    BY <1>7 DEF Stepped
  <2>3. Upcoming' = IF id.kind \in {"wfi", "fencei", "csr_mstatus"} THEN id.pc + 1 ELSE id.pc
    BY <1>2, <1>3, <1>7 DEF Upcoming
  <2>4. [Arch!Next]_(Arch!vars)
    <3>1. CASE id.kind \in {"wfi", "fencei", "csr_mstatus"}
      <4>1. ~Stepping
        BY <1>1, <2>1, <3>1 DEF Stepping
      <4> QED
        BY <1>1, <1>2, <1>7, <2>2, <2>3, <3>1, <4>1, ExecuteRefines DEF TrapInv
    <3>2. CASE id.kind \notin {"wfi", "fencei", "csr_mstatus"}
      <4>1. UNCHANGED Software
        BY <1>1, <3>2, IssueCsrs DEF TrapInv, FlushKinds
      <4>2. Quiet
        BY <1>1, <1>2, <2>2, <2>3, <3>2, <4>1 DEF Quiet
      <4> QED
        BY <4>2, QuietStep
    <3> QED
      BY <3>1, <3>2
  <2>5. InEx'
    BY <1>1, <1>3, <1>7, IssueStage DEF InEx, FlushKinds
  <2>6. illegal_insn_q' <=> Illegal'
    BY <1>1, <1>3 DEF Illegal
  <2>7. Stepping' <=> Stepping
    BY <1>1, <1>4 DEF Stepping
  <2>8. InFlush'
    BY <1>1, <1>2, <1>3, <1>4, <2>1, <2>6, <2>7 DEF InFlush
  <2>9. InDecode' /\ InOthers'
    BY <1>1, <1>7, <2>1 DEF InDecode, InOthers
  <2> QED
    BY <2>4, <2>5, <2>8, <2>9 DEF Refines
<1> QED
  BY <1>1, <1>5, <1>6, <1>7

LEMMA BreakDebugRefines ==
    ASSUME TrapInv, prog' = prog, NEW in \in Inputs, BreakDebug(in)
    PROVE  Refines
<1>1. /\ Decoded(in) /\ IfId(in, TRUE, FALSE, NoPc) /\ Issue(in) /\ csr' = Written
      /\ debug_mode_q' = debug_mode_q /\ debug_req_entry_q' = debug_req_entry_q
      /\ jump_done_q' = FALSE
      /\ id.kind = "ebreak" /\ (debug_mode_q \/ csr.dcsr.ebreakm)
      /\ ctrl_fsm_cs' = "DBG_FLUSH"
  BY DEF BreakDebug, Decodes
<1>2. /\ ctrl_fsm_cs = "DECODE"
      /\ id.kind = prog[id.pc] /\ Upcoming = id.pc /\ ~Stepped
  BY <1>1, DecodedState
<1>3. id'.pc = id.pc /\ id'.kind = id.kind
  BY <1>1, FetchStage DEF TrapInv
<1>4. csr'.dcsr = csr.dcsr /\ UNCHANGED Software
  BY <1>1, IssueCsrs DEF TrapInv
<1>5. ex' = Idle
  BY <1>1, IssueStage
<1>6. EntersBefore'
  BY <1>1, <1>3, <1>4 DEF EntersBefore
<1>7. ~Stepped' /\ Upcoming' = IF debug_mode_q THEN Debugger ELSE id.pc
  BY <1>1, <1>3, <1>6 DEF Stepped, Upcoming
<1>8. [Arch!Next]_(Arch!vars)
  <2>1. CASE debug_mode_q
    <3>1. Stepped' = (csr.dcsr.step /\ ~debug_mode_q)
      <4>1. Stepped' \in BOOLEAN
        BY DEF Stepped
      <4> QED
        BY <1>7, <2>1, <4>1
    <3>2. Arch!Breakpoint
      BY <1>1, <1>2, <1>4, <1>7, <2>1, <3>1
         DEF Arch!Breakpoint, Arch!Executes, Software, Arch!machine, Arch!debug
    <3> QED
      BY <3>2, ArchStep
  <2>2. CASE ~debug_mode_q
    <3>1. Quiet
      BY <1>1, <1>2, <1>4, <1>7, <2>2 DEF Quiet
    <3> QED
      BY <3>1, QuietStep
  <2> QED
    BY <2>1, <2>2
<1>9. InDecode' /\ InEx' /\ InFlush' /\ InOthers'
  BY <1>1, <1>2, <1>3, <1>5 DEF InDecode, InEx, InFlush, InOthers, Idle
<1> QED
  BY <1>8, <1>9 DEF Refines

LEMMA FlushExRefines ==
    ASSUME TrapInv, prog' = prog, NEW in \in Inputs, FlushEx(in)
    PROVE  Refines
<1>1. /\ ctrl_fsm_cs = "FLUSH_EX" /\ Idles(in, NoPc)
      /\ ctrl_fsm_cs' = IF ex_ready(in) THEN "FLUSH_WB" ELSE "FLUSH_EX"
      /\ csr' = IF ex_ready(in) /\ Excepts /\ ~debug_mode_q THEN SaveTrap(id.pc) ELSE Written
      /\ illegal_insn_q' = illegal_insn_q /\ debug_mode_q' = debug_mode_q
  BY DEF FlushEx
<1>2. ~id'.valid /\ id'.pc = id.pc /\ id'.kind = id.kind /\ pc_if' = pc_if
      /\ ex' = Idle /\ jump_done_q' = FALSE
  BY <1>1, IdleStage DEF TrapInv
<1>3. /\ id.kind \in FlushKinds /\ id.kind = prog[id.pc]
      /\ illegal_insn_q <=> Illegal
      /\ id.kind = "ebreak" => ~debug_mode_q /\ ~csr.dcsr.ebreakm
      /\ id.kind \in {"fencei", "csr_mstatus"} => ~Stepping
      /\ id.kind = "wfi" => ~debug_mode_q /\ ~csr.dcsr.step
  BY <1>1 DEF TrapInv, InFlush
<1>4. csr'.dcsr = csr.dcsr
  <2>1. SaveTrap(id.pc).dcsr = Written.dcsr
    BY WrittenCsrs DEF SaveTrap, TrapInv, CsrType
  <2> QED
    BY <1>1, <2>1, WrittenCsrs DEF TrapInv
<1>5. (Excepts' <=> Excepts) /\ (Illegal' <=> Illegal) /\ (Stepping' <=> Stepping)
  BY <1>1, <1>2, <1>4 DEF Excepts, Illegal, Stepping
<1>6. InDecode' /\ InEx' /\ InOthers'
  BY <1>1, <1>2 DEF InDecode, InEx, InOthers, Idle
<1>7. InFlush'
  BY <1>1, <1>2, <1>4, <1>5 DEF TrapInv, InFlush
<1>8. ~Stepped
  BY <1>1 DEF Stepped
<1>9. CASE ~ex_ready(in)
  <2>1. ~Stepped'
    BY <1>1, <1>9 DEF Stepped
  <2>2. Upcoming' = Upcoming
    BY <1>1, <1>2, <1>9 DEF Upcoming
  <2>3. UNCHANGED Software
    BY <1>1, <1>2, <1>9, QuietCsrs DEF TrapInv
  <2>4. Quiet
    BY <1>1, <1>8, <2>1, <2>2, <2>3 DEF Quiet
  <2> QED
    BY <1>6, <1>7, <2>4, QuietStep DEF Refines
<1>10. CASE ex_ready(in) /\ ~Excepts
  <2>1. /\ id.kind \in {"fencei", "csr_mstatus", "mret", "dret", "wfi"}
        /\ id.kind = "dret" => debug_mode_q
    BY <1>3, <1>10 DEF Excepts, FlushKinds, Illegal
  <2>2. ~Stepped'
    BY <1>1, <1>2, <1>3, <1>4, <1>5, <1>10, <2>1 DEF Stepped, Stepping
  <2>3. Upcoming' = Upcoming
    BY <1>1, <1>2, <1>5, <1>10, <2>1 DEF Upcoming
  <2>4. UNCHANGED Software
    BY <1>1, <1>2, <1>10, QuietCsrs DEF TrapInv
  <2>5. Quiet
    BY <1>1, <1>8, <2>2, <2>3, <2>4 DEF Quiet
  <2> QED
    BY <1>6, <1>7, <2>5, QuietStep DEF Refines
<1>11. CASE ex_ready(in) /\ Excepts
  <2>1. /\ id.kind \in {"ecall", "illegal", "ebreak", "dret"}
        /\ id.kind \in {"ebreak", "dret"} => ~debug_mode_q
        /\ id.kind = "ebreak" => ~csr.dcsr.ebreakm
    BY <1>3, <1>11 DEF Excepts, Illegal
  <2>2. Stepped' = (csr.dcsr.step /\ ~debug_mode_q)
    <3>1. Stepped' \in BOOLEAN /\ debug_mode_q \in BOOLEAN /\ Stepping \in BOOLEAN
      BY Targets DEF TrapInv, Stepped, Stepping
    <3>2. Stepped' <=> Stepping
      BY <1>1, <1>2, <1>5, <1>11, <2>1 DEF Stepped
    <3>3. Stepped' = Stepping
      BY <3>1, <3>2
    <3> QED
      BY <3>3 DEF Stepping
  <2>3. Upcoming = id.pc /\ Upcoming' = IF debug_mode_q THEN DebugExc ELSE Handler
    BY <1>1, <1>5, <1>11, <2>1 DEF Upcoming
  <2>4. ex = Idle
    BY <1>1, <2>1 DEF TrapInv, InEx
  <2>5. Arch!Executes({"ecall", "illegal"}
                      \cup (IF csr.dcsr.ebreakm \/ debug_mode_q THEN {} ELSE {"ebreak"})
                      \cup (IF debug_mode_q THEN {} ELSE {"dret"}))
    BY <1>3, <1>8, <2>1, <2>2, <2>3 DEF Arch!Executes
  <2>6. CASE debug_mode_q
    <3>1. UNCHANGED Software
      BY <1>1, <1>2, <2>6, QuietCsrs DEF TrapInv
    <3>2. Arch!Exception
      BY <1>1, <2>3, <2>5, <2>6, <3>1 DEF Arch!Exception, Software, Arch!machine, Arch!debug
    <3> QED
      BY <1>6, <1>7, <3>2, ArchStep DEF Refines
  <2>7. CASE ~debug_mode_q
    <3>1. Trapped(id.pc)
      BY <1>1, <1>2, <1>11, <2>4, <2>7, Targets, TrapCsrs DEF TrapInv, Idle
    <3>2. Arch!Exception
      BY <1>1, <2>3, <2>5, <2>7, <3>1
         DEF Arch!Exception, Arch!Trap, Trapped, Software, Arch!debug
    <3> QED
      BY <1>6, <1>7, <3>2, ArchStep DEF Refines
  <2> QED
    BY <2>6, <2>7
<1> QED
  BY <1>9, <1>10, <1>11

LEMMA FlushWbRefines ==
    ASSUME TrapInv, prog' = prog, NEW in \in Inputs, FlushWb(in)
    PROVE  Refines
<1> DEFINE set == IF Excepts THEN IF debug_mode_q THEN DebugExc ELSE Handler
                  ELSE IF id.kind = "fencei" THEN id.pc + 1 ELSE NoPc
<1>1. /\ ctrl_fsm_cs = "FLUSH_WB" /\ Idles(in, set)
      /\ ctrl_fsm_cs' = IF Excepts THEN IF Stepping THEN "DBG_TAKEN_IF" ELSE "DECODE"
                        ELSE CASE id.kind \in {"mret", "dret"} -> "XRET_JUMP"
                               [] id.kind = "wfi" -> IF debug_req_pending(in) THEN "DBG_TAKEN_IF"
                                                     ELSE "WAIT_SLEEP"
                               [] OTHER -> "DECODE"
      /\ csr' = IF id.kind = "mret" /\ ~Excepts /\ ~debug_mode_q THEN RestoreMret ELSE Written
      /\ debug_mode_q' = debug_mode_q
  BY DEF FlushWb
<1>2. ~id'.valid /\ id'.pc = id.pc /\ id'.kind = id.kind
      /\ pc_if' = (IF set = NoPc THEN pc_if ELSE set)
      /\ ex' = Idle /\ jump_done_q' = FALSE
  <2>1. set \in Nat \cup {NoPc}
    BY Targets DEF TrapInv
  <2> QED
    BY <1>1, <2>1, IdleStage DEF TrapInv
<1>3. /\ id.kind \in FlushKinds /\ id.kind = prog[id.pc]
      /\ illegal_insn_q <=> Illegal
      /\ id.kind \in {"fencei", "csr_mstatus"} => ~Stepping
      /\ id.kind = "fencei" => pc_if = id.pc + 1
      /\ id.kind = "wfi" => ~debug_mode_q /\ ~csr.dcsr.step
  BY <1>1 DEF TrapInv, InFlush
<1>4. ex = Idle
  BY <1>1 DEF TrapInv, InEx
<1>5. CASE Excepts
  <2>1. id.kind # "mret"
    BY <1>3, <1>5 DEF Excepts, Illegal
  <2>2. csr' = Written /\ UNCHANGED Software /\ csr'.dcsr = csr.dcsr
    BY <1>1, <1>2, <1>5, QuietCsrs, WrittenCsrs DEF TrapInv
  <2>3. pc_if' = IF debug_mode_q THEN DebugExc ELSE Handler
    <3>1. set = IF debug_mode_q THEN DebugExc ELSE Handler
      BY <1>5
    <3> QED
      BY <1>2, <3>1, Targets DEF TrapInv
  <2>4. ctrl_fsm_cs' = IF Stepping THEN "DBG_TAKEN_IF" ELSE "DECODE"
    BY <1>1, <1>5
  <2>5. Upcoming = (IF debug_mode_q THEN DebugExc ELSE Handler) /\ Upcoming' = pc_if'
    BY <1>1, <1>2, <1>5, <2>4 DEF Upcoming, Idle
  <2>6. Stepped' <=> Stepped
    BY <1>1, <2>1, <2>2, <2>4 DEF Stepped, Stepping
  <2>7. Quiet
    BY <1>1, <2>2, <2>3, <2>5, <2>6 DEF Quiet
  <2>8. ctrl_fsm_cs' = "DECODE" \/ (ctrl_fsm_cs' = "DBG_TAKEN_IF" /\ ~debug_mode_q')
    BY <1>1, <2>4 DEF Stepping
  <2> QED
    BY <1>2, <2>7, <2>8, IdleInvs, QuietStep DEF Refines
<1>6. CASE ~Excepts /\ id.kind \in {"mret", "dret"}
  <2>1. ctrl_fsm_cs' = "XRET_JUMP"
    BY <1>1, <1>6
  <2>2. id.kind = "dret" => debug_mode_q
    BY <1>3, <1>6 DEF Excepts, Illegal
  <2>3. InDecode' /\ InEx' /\ InFlush' /\ InOthers'
    BY <1>1, <1>2, <1>3, <1>6, <2>1, <2>2 DEF InDecode, InEx, InFlush, InOthers, Idle
  <2>4. Upcoming = id.pc
    BY <1>1, <1>6 DEF Upcoming
  <2>5. CASE id.kind = "dret"
    <3>1. csr' = Written /\ UNCHANGED Software
      BY <1>1, <1>2, <2>5, QuietCsrs DEF TrapInv
    <3>2. Upcoming' = id.pc
      BY <1>2, <2>1, <2>5 DEF Upcoming
    <3>3. ~Stepped /\ ~Stepped'
      BY <1>1, <2>2, <2>5 DEF Stepped, Stepping
    <3>4. Quiet
      BY <1>1, <2>4, <3>1, <3>2, <3>3 DEF Quiet
    <3> QED
      BY <2>3, <3>4, QuietStep DEF Refines
  <2>6. CASE id.kind = "mret"
    <3>1. ~Stepped
      BY <1>1, <2>6 DEF Stepped
    <3>2. csr'.dcsr = csr.dcsr /\ csr'.mepc = csr.mepc
      <4>1. RestoreMret.dcsr = Written.dcsr /\ RestoreMret.mepc = Written.mepc
        BY WrittenCsrs DEF RestoreMret, TrapInv, CsrType
      <4> QED
        BY <1>1, <4>1, WrittenCsrs DEF TrapInv
    <3>3. Stepped' = (csr.dcsr.step /\ ~debug_mode_q)
      <4>1. Stepped' \in BOOLEAN /\ Stepping \in BOOLEAN
        BY DEF Stepped, Stepping
      <4>2. Stepped' <=> Stepping
        BY <1>1, <2>1, <3>2 DEF Stepped, Stepping
      <4>3. Stepped' = Stepping
        BY <4>1, <4>2
      <4> QED
        BY <4>3 DEF Stepping
    <3>4. Upcoming' = IF debug_mode_q THEN DebugExc ELSE csr.mepc
      BY <1>1, <1>2, <2>1, <2>6, <3>2 DEF Upcoming
    <3>5. Arch!Executes({"mret"})
      BY <1>3, <2>4, <2>6, <3>1, <3>3 DEF Arch!Executes
    <3>6. CASE debug_mode_q
      <4>1. UNCHANGED Software
        BY <1>1, <1>2, <3>6, QuietCsrs DEF TrapInv
      <4>2. Arch!Mret
        BY <1>1, <3>4, <3>5, <3>6, <4>1 DEF Arch!Mret, Software, Arch!machine, Arch!debug
      <4> QED
        BY <2>3, <4>2, ArchStep DEF Refines
    <3>7. CASE ~debug_mode_q
      <4>1. Returned
        BY <1>1, <1>2, <1>6, <2>6, <3>7, MretCsrs DEF TrapInv
      <4>2. Arch!Mret
        BY <1>1, <3>4, <3>5, <3>7, <4>1 DEF Arch!Mret, Returned, Software, Arch!debug
      <4> QED
        BY <2>3, <4>2, ArchStep DEF Refines
    <3> QED
      BY <3>6, <3>7
  <2> QED
    BY <1>6, <2>5, <2>6
<1>7. CASE ~Excepts /\ id.kind \notin {"mret", "dret"}
  <2>1. id.kind \in {"fencei", "csr_mstatus", "wfi"}
    BY <1>3, <1>7 DEF Excepts, FlushKinds, Illegal
  <2>2. csr' = Written /\ UNCHANGED Software /\ csr'.dcsr = csr.dcsr
    BY <1>1, <1>2, <1>7, QuietCsrs, WrittenCsrs DEF TrapInv
  <2>3. pc_if' = pc_if
    <3>1. CASE id.kind = "fencei"
      <4>1. set = pc_if
        BY <1>3, <1>7, <3>1
      <4> HIDE DEF set
      <4> QED
        BY <1>2, <4>1
    <3>2. CASE id.kind # "fencei"
      <4>1. set = NoPc
        BY <1>7, <3>2
      <4> HIDE DEF set
      <4> QED
        BY <1>2, <4>1
    <3> QED
      BY <3>1, <3>2
  <2>4. ctrl_fsm_cs' = IF id.kind = "wfi" THEN IF debug_req_pending(in) THEN "DBG_TAKEN_IF"
                                                                        ELSE "WAIT_SLEEP"
                       ELSE "DECODE"
    BY <1>1, <1>7, <2>1
  <2>5. ~Stepped /\ ~Stepped'
    BY <1>1, <1>3, <2>1, <2>2, <2>4 DEF Stepped, Stepping
  <2>6. Upcoming = pc_if /\ Upcoming' = pc_if
    BY <1>1, <1>2, <1>7, <2>1, <2>3, <2>4 DEF Upcoming, Idle
  <2>7. Quiet
    BY <1>1, <2>2, <2>5, <2>6 DEF Quiet
  <2>8. InDecode' /\ InEx' /\ InFlush' /\ InOthers'
    BY <1>1, <1>2, <1>3, <2>2, <2>4 DEF InDecode, InEx, InFlush, InOthers, Idle
  <2> QED
    BY <2>7, <2>8, QuietStep DEF Refines
<1> QED
  BY <1>5, <1>6, <1>7

LEMMA XretJumpRefines ==
    ASSUME TrapInv, prog' = prog, NEW in \in Inputs, XretJump(in)
    PROVE  Refines
<1> DEFINE set == IF id.kind = "dret" THEN csr.dpc
                  ELSE IF debug_mode_q THEN DebugExc ELSE csr.mepc
<1>1. /\ ctrl_fsm_cs = "XRET_JUMP" /\ Idles(in, set) /\ csr' = Written
      /\ debug_mode_q' = (debug_mode_q /\ id.kind # "dret")
      /\ ctrl_fsm_cs' = IF Stepping THEN "DBG_TAKEN_IF" ELSE "DECODE"
  BY DEF XretJump
<1>2. ~id'.valid /\ pc_if' = set /\ ex' = Idle /\ jump_done_q' = FALSE
  <2>1. set \in Nat /\ set # NoPc
    BY Targets DEF TrapInv
  <2> HIDE DEF set
  <2> QED
    BY <1>1, <2>1, IdleStage DEF TrapInv
<1>3. /\ id.kind \in {"mret", "dret"} /\ id.kind = prog[id.pc]
      /\ id.kind = "dret" => debug_mode_q
      /\ debug_mode_q \in BOOLEAN
  BY <1>1, Targets DEF TrapInv, InOthers
<1>4. UNCHANGED Software /\ csr'.dcsr = csr.dcsr
  BY <1>1, <1>2, QuietCsrs, WrittenCsrs DEF TrapInv
<1>5. Upcoming' = set
  <2> HIDE DEF set
  <2> QED
    BY <1>1, <1>2 DEF Upcoming, Idle
<1>6. CASE id.kind = "dret"
  <2>1. /\ ~Stepping /\ ctrl_fsm_cs' = "DECODE" /\ Upcoming = id.pc
        /\ debug_mode_q /\ debug_mode_q' = FALSE
    BY <1>1, <1>3, <1>6 DEF Stepping, Upcoming
  <2>2. ~Stepped /\ ~Stepped'
    BY <2>1 DEF Stepped
  <2>3. Stepped' = (csr.dcsr.step /\ ~debug_mode_q)
    <3>1. Stepped' \in BOOLEAN
      BY DEF Stepped
    <3> QED
      BY <2>1, <2>2, <3>1
  <2>4. Arch!Dret
    BY <1>3, <1>4, <1>5, <1>6, <2>1, <2>2, <2>3
       DEF Arch!Dret, Arch!Executes, Software, Arch!machine
  <2> QED
    BY <1>2, <2>1, <2>4, ArchStep, IdleInvs DEF Refines
<1>7. CASE id.kind = "mret"
  <2>1. Upcoming = set /\ debug_mode_q' = debug_mode_q
    BY <1>1, <1>3, <1>7 DEF Upcoming
  <2>2. Stepped' <=> Stepped
    BY <1>1, <1>4, <2>1 DEF Stepped, Stepping
  <2>3. Quiet
    BY <1>4, <1>5, <2>1, <2>2 DEF Quiet
  <2>4. ctrl_fsm_cs' = "DECODE" \/ (ctrl_fsm_cs' = "DBG_TAKEN_IF" /\ ~debug_mode_q')
    BY <1>1, <2>1 DEF Stepping
  <2> QED
    BY <1>2, <2>3, <2>4, IdleInvs, QuietStep DEF Refines
<1> QED
  BY <1>3, <1>6, <1>7

LEMMA DebugWaitRefines ==
    ASSUME TrapInv, prog' = prog, NEW in \in Inputs, DbgWaitBranch(in) \/ DbgFlush(in)
    PROVE  Refines
<1>1. csr' = Written /\ debug_mode_q' = debug_mode_q /\ debug_req_entry_q' = debug_req_entry_q
  BY DEF DbgWaitBranch, DbgFlush
<1>2. CASE DbgWaitBranch(in)
  <2> DEFINE set == IF ex.branch = "taken" THEN 0 ELSE NoPc
  <2>1. ctrl_fsm_cs = "DBG_WAIT_BRANCH" /\ ctrl_fsm_cs' = "DBG_FLUSH" /\ Idles(in, set)
    BY <1>2 DEF DbgWaitBranch
  <2>2. /\ ~id'.valid /\ id'.kind = id.kind /\ ex' = Idle /\ jump_done_q' = FALSE
        /\ pc_if' = IF ex.branch = "taken" THEN 0 ELSE pc_if
    <3>1. set \in Nat \cup {NoPc}
      OBVIOUS
    <3>2. ~id'.valid /\ id'.kind = id.kind /\ ex' = Idle /\ jump_done_q' = FALSE
          /\ pc_if' = IF set = NoPc THEN pc_if ELSE set
      BY <2>1, <3>1, IdleStage DEF TrapInv
    <3> QED
      BY <3>2 DEF NoPc
  <2>3. UNCHANGED Software /\ csr'.dcsr = csr.dcsr
    BY <1>1, <2>2, QuietCsrs, WrittenCsrs DEF TrapInv
  <2>4. Stepping /\ id.kind = "branch" /\ ~debug_req_entry_q
    BY <2>1 DEF TrapInv, InOthers, HaltEntryIsShort
  <2>5. ~EntersBefore' /\ Stepping'
    BY <1>1, <2>2, <2>3, <2>4 DEF EntersBefore, Stepping
  <2>6. Stepped /\ Stepped'
    BY <2>1, <2>4, <2>5 DEF Stepped
  <2>7. Upcoming' = Upcoming
    BY <2>1, <2>2, <2>5 DEF Upcoming, Stepping
  <2>8. Quiet
    BY <1>1, <2>3, <2>6, <2>7 DEF Quiet
  <2> QED
    BY <2>1, <2>2, <2>8, IdleInvs, QuietStep DEF Refines
<1>3. CASE DbgFlush(in)
  <2>1. /\ ctrl_fsm_cs = "DBG_FLUSH" /\ Idles(in, NoPc)
        /\ ctrl_fsm_cs' = IF EntersBefore THEN "DBG_TAKEN_ID" ELSE "DBG_TAKEN_IF"
    BY <1>3 DEF DbgFlush
  <2>2. /\ ~id'.valid /\ id'.pc = id.pc /\ id'.kind = id.kind /\ ex' = Idle
        /\ jump_done_q' = FALSE /\ pc_if' = pc_if
    BY <2>1, IdleStage DEF TrapInv
  <2>3. UNCHANGED Software /\ csr'.dcsr = csr.dcsr
    BY <1>1, <2>2, QuietCsrs, WrittenCsrs DEF TrapInv
  <2>4. Upcoming' = Upcoming
    BY <1>1, <2>1, <2>2 DEF Upcoming, EntersBefore
  <2>5. Stepped' <=> Stepped
    BY <1>1, <2>1, <2>3 DEF Stepped, Stepping
  <2>6. Quiet
    BY <1>1, <2>3, <2>4, <2>5 DEF Quiet
  <2>7. ctrl_fsm_cs' = "DBG_TAKEN_ID" \/ (ctrl_fsm_cs' = "DBG_TAKEN_IF" /\ ~debug_mode_q')
    BY <1>1, <2>1 DEF EntersBefore
  <2> QED
    BY <2>2, <2>6, <2>7, IdleInvs, QuietStep DEF Refines
<1> QED
  BY <1>2, <1>3

\* Entering debug mode at a.
LEMMA EnterDebugRefines ==
    ASSUME TypeInv, prog' = prog, ~debug_mode_q, debug_mode_q' = TRUE, NEW a \in Nat,
           csr' = SaveDebug(a), ex' = Idle, Upcoming = a, Upcoming' = Debugger, ~Stepped'
    PROVE  [Arch!Next]_(Arch!vars)
<1>1. Debugged(a)
  BY DebugCsrs
<1>2. Stepped' = FALSE
  <2>1. Stepped' \in BOOLEAN
    BY DEF Stepped
  <2> QED
    BY <2>1
<1>3. Arch!EnterDebug
  BY <1>1, <1>2 DEF Debugged, Software, Arch!EnterDebug, Arch!machine
<1> QED
  BY <1>3, ArchStep

LEMMA DebugTakenRefines ==
    ASSUME TrapInv, prog' = prog, NEW in \in Inputs, DbgTakenId(in) \/ DbgTakenIf(in)
    PROVE  Refines
<1>1. /\ ctrl_fsm_cs \in {"DBG_TAKEN_ID", "DBG_TAKEN_IF"} /\ ctrl_fsm_cs' = "DECODE"
      /\ Idles(in, Debugger) /\ debug_mode_q' = TRUE
  BY DEF DbgTakenId, DbgTakenIf
<1>2. ~id'.valid /\ pc_if' = Debugger /\ ex' = Idle /\ jump_done_q' = FALSE
  BY <1>1, IdleStage, Targets DEF TrapInv
<1>3. Upcoming' = Debugger /\ ~Stepped'
  BY <1>1, <1>2 DEF Upcoming, Stepped, Idle
<1>4. CASE DbgTakenId(in) /\ debug_mode_q
  <2>1. ctrl_fsm_cs = "DBG_TAKEN_ID" /\ csr' = Written
    BY <1>4 DEF DbgTakenId
  <2>2. UNCHANGED Software
    BY <1>2, <2>1, QuietCsrs DEF TrapInv
  <2>3. Upcoming = Debugger /\ ~Stepped
    BY <1>4, <2>1 DEF Upcoming, Stepped
  <2>4. debug_mode_q' = debug_mode_q
    BY <1>1, <1>4, Targets DEF TrapInv
  <2>5. Quiet
    BY <1>3, <2>2, <2>3, <2>4 DEF Quiet
  <2> QED
    BY <1>1, <1>2, <2>5, IdleInvs, QuietStep DEF Refines
<1>5. CASE DbgTakenId(in) /\ ~debug_mode_q
  <2>1. ctrl_fsm_cs = "DBG_TAKEN_ID" /\ csr' = SaveDebug(id.pc)
    BY <1>5 DEF DbgTakenId
  <2>2. Upcoming = id.pc
    BY <1>5, <2>1 DEF Upcoming
  <2>3. [Arch!Next]_(Arch!vars)
    BY <1>1, <1>2, <1>3, <1>5, <2>1, <2>2, Targets, EnterDebugRefines DEF TrapInv
  <2> QED
    BY <1>1, <1>2, <2>3, IdleInvs DEF Refines
<1>6. CASE DbgTakenIf(in)
  <2>1. ctrl_fsm_cs = "DBG_TAKEN_IF" /\ csr' = SaveDebug(pc_if)
    BY <1>6 DEF DbgTakenIf
  <2>2. Upcoming = pc_if /\ ~debug_mode_q
    BY <2>1 DEF Upcoming, TrapInv, InOthers
  <2>3. [Arch!Next]_(Arch!vars)
    BY <1>1, <1>2, <1>3, <2>1, <2>2, Targets, EnterDebugRefines DEF TrapInv
  <2> QED
    BY <1>1, <1>2, <2>3, IdleInvs DEF Refines
<1> QED
  BY <1>4, <1>5, <1>6

LEMMA DebuggerRefines ==
    ASSUME TrapInv, prog' = prog, DebuggerCode
    PROVE  Refines
<1>1. PICK m \in StepModes : csr' = [csr EXCEPT !.dcsr = m]
  BY DEF DebuggerCode
<1>2. /\ ctrl_fsm_cs = "DECODE" /\ debug_mode_q
      /\ UNCHANGED <<ctrl_fsm_cs, jump_done_q, illegal_insn_q, debug_mode_q, pc_if, id, ex>>
  BY DEF DebuggerCode, Decoding
<1>3. /\ csr'.mie = csr.mie /\ csr'.mpie = csr.mpie /\ csr'.lie = csr.lie
      /\ csr'.mepc = csr.mepc /\ csr'.dpc = csr.dpc /\ csr'.dcsr = m
      /\ csr' \in CsrType
  BY <1>1 DEF TrapInv, TypeInv, CsrType
<1>4. /\ Written'.mie = Written.mie /\ Written'.lie = Written.lie
  <2>1. CASE ex.csr = "csr_mstatus"
    BY <1>2, <1>3, <2>1, WrittenCsrs DEF Written, TrapInv, CsrType
  <2>2. CASE ex.csr = "csr_mie"
    BY <1>2, <1>3, <2>2, WrittenCsrs DEF Written, TrapInv, CsrType
  <2>3. CASE ex.csr \notin {"csr_mstatus", "csr_mie"}
    BY <1>2, <1>3, <2>3 DEF Written
  <2> QED
    BY <2>1, <2>2, <2>3
<1>5. Upcoming' = Upcoming
  BY <1>2 DEF Upcoming
<1>6. Stepped' = Stepped
  <2>1. ~Stepped /\ ~Stepped' /\ Stepped \in BOOLEAN /\ Stepped' \in BOOLEAN
    BY <1>2 DEF Stepped
  <2> QED
    BY <2>1
<1>7. Arch!SetsStep
  BY <1>2, <1>3, <1>4, <1>5, <1>6 DEF Arch!SetsStep, Arch!machine
<1>8. InDecode' /\ InEx' /\ InFlush' /\ InOthers'
  BY <1>2 DEF TrapInv, InDecode, InEx, InFlush, InOthers
<1> QED
  BY <1>7, <1>8, ArchStep DEF Refines

LEMMA StutterRefines ==
    ASSUME TrapInv, UNCHANGED <<prog, clocked>>
    PROVE  Refines
<1>1. UNCHANGED <<prog, ctrl_fsm_cs, jump_done_q, illegal_insn_q, debug_mode_q,
                  debug_req_entry_q, csr, pc_if, id, ex>>
  BY DEF clocked
<1>2. Stepping' = Stepping /\ Illegal' = Illegal /\ Written' = Written
      /\ EntersBefore' = EntersBefore /\ Excepts' = Excepts
  BY <1>1 DEF Stepping, Illegal, Written, EntersBefore, Excepts
<1>3. Upcoming' = Upcoming /\ Stepped' = Stepped
  BY <1>1, <1>2 DEF Upcoming, Stepped
<1>4. InDecode' /\ InEx' /\ InFlush' /\ InOthers'
  BY <1>1, <1>2 DEF TrapInv, InDecode, InEx, InFlush, InOthers
<1> QED
  BY <1>1, <1>2, <1>3, <1>4 DEF Refines, Arch!vars, Arch!machine, Arch!debug

\* Every step keeps the invariant and is a step of TrapSpec or a stutter.
LEMMA TrapStep ==
    ASSUME TrapInv, [Next]_vars
    PROVE  TrapInv' /\ [Arch!Next]_(Arch!vars)
<1>1. TypeInv' /\ HaltEntryIsShort'
  BY TypeStep, HaltEntryStep DEF TrapInv
<1>2. Refines
  <2>1. CASE DebuggerCode
    BY <2>1, DebuggerRefines DEF DebuggerCode
  <2>2. CASE UNCHANGED vars
    BY <2>2, StutterRefines DEF vars
  <2>3. ASSUME NEW in \in Inputs, Cycle(in)
        PROVE  Refines
    <3>1. CASE Gated(in)
      BY <2>3, <3>1, StutterRefines DEF Cycle, Gated
    <3>2. CASE Fsm(in)
      BY <2>3, <3>2, ResetRefines, SleepRefines, FirstFetchRefines, NoInstructionRefines,
         HaltRequestRefines, TakeIrqRefines, FlushingRefines, BreakDebugRefines,
         DecodeJumpRefines, DecodePlainRefines, FlushExRefines, FlushWbRefines,
         XretJumpRefines, DebugWaitRefines, DebugTakenRefines DEF Cycle, Fsm
    <3> QED
      BY <2>3, <3>1, <3>2 DEF Cycle, Clocked
  <2> QED
    BY <2>1, <2>2, <2>3 DEF Next
<1> QED
  BY <1>1, <1>2 DEF TrapInv, Refines

LEMMA TrapInit ==
    ASSUME Init
    PROVE  TrapInv /\ Arch!Init
<1>1. /\ ctrl_fsm_cs = "RESET" /\ jump_done_q = FALSE /\ illegal_insn_q = FALSE
      /\ debug_mode_q = FALSE /\ debug_req_entry_q = FALSE /\ pc_if = 0
      /\ id = [valid |-> FALSE, pc |-> 0, kind |-> "plain"] /\ ex = Idle
      /\ csr = [mie |-> FALSE, mpie |-> FALSE, lie |-> FALSE, mepc |-> 0, dpc |-> 0,
                dcsr |-> NoStep]
  BY DEF Init
<1>2. TypeInv
  BY TypeInit
<1>3. HaltEntryIsShort /\ InDecode /\ InEx /\ InFlush /\ InOthers
  BY <1>1 DEF HaltEntryIsShort, InDecode, InEx, InFlush, InOthers, NoStep, Idle
<1>4. Written = csr /\ Upcoming = 0 /\ ~Stepped
  BY <1>1 DEF Written, Idle, Upcoming, Stepped
<1>5. Stepped = FALSE
  <2>1. Stepped \in BOOLEAN
    BY DEF Stepped
  <2> QED
    BY <1>4, <2>1
<1>6. Arch!Init
  BY <1>1, <1>4, <1>5 DEF Arch!Init, NoStep
<1> QED
  BY <1>2, <1>3, <1>6 DEF TrapInv

\* The controller implements TrapSpec for every program, every place of the handlers,
\* every stall and every time at which interrupts and halt requests arrive: no instruction
\* is lost or repeated by a trap, a sleep or a debug entry, mepc and dpc are where to go
\* on, and a single step executes one instruction.
THEOREM TrapsImplemented == Spec => ImplementsTraps
<1>1. Init => TrapInv /\ Arch!Init
  BY TrapInit
<1>2. TrapInv /\ [Next]_vars => TrapInv' /\ [Arch!Next]_(Arch!vars)
  BY TrapStep
<1> QED
  BY <1>1, <1>2, PTL DEF Spec, ImplementsTraps, Arch!Spec
=============================================================================
