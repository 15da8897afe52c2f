---------------------------- MODULE HwLoopProofs ----------------------------
(***************************************************************************)
(* Proofs about HwLoop, for every pair of loops the documentation allows,  *)
(* every counter width and every program.  LoopInv is the inductive        *)
(* invariant: where the fetch stage is in each state of the controller,    *)
(* relative to the instruction in ID and to the ends of the loops, and     *)
(* what a loop jump that waits in the aligner stands for.  From it follow  *)
(* the place of the jumps, the use of DECODE_HWLOOP and the refinement of  *)
(* HwLoopSpec by the programs MCHwLoop describes.                          *)
(***************************************************************************)
EXTENDS MCHwLoop, TLAPS

States == {"DECODE", "DECODE_HWLOOP", "FLUSH_EX", "FLUSH_WB", "XRET_JUMP", "ELW_EXE",
           "IRQ_FLUSH_ELW", "DBG_FLUSH", "DBG_TAKEN_ID", "DBG_TAKEN_IF"}
Flushes == ctrl_fsm_cs \in {"FLUSH_EX", "FLUSH_WB", "XRET_JUMP"}
Loads   == ctrl_fsm_cs \in {"ELW_EXE", "IRQ_FLUSH_ELW"}
Halts   == ctrl_fsm_cs \in {"DBG_FLUSH", "DBG_TAKEN_ID", "DBG_TAKEN_IF"}
Program == 0..Exit
Places  == Program \cup {Handler, Debugger}
IdType  == [valid : BOOLEAN, pc : Nat, kind : Kinds \cup {"count", "jump", "mret", "dret"}]
CsrType == [mepc : Program, dpc : Program \cup {Handler}, trap : BOOLEAN, ecall : BOOLEAN,
            step : BOOLEAN]

TypeInv ==
    /\ ctrl_fsm_cs \in States
    /\ jump_done_q \in BOOLEAN /\ hwlp_end_4_id_q \in BOOLEAN
    /\ debug_mode_q \in BOOLEAN /\ debug_req_entry_q \in BOOLEAN
    /\ counter \in [Loop -> 0..Modulus-1]
    /\ pc_if \in Nat /\ hwlp_update_pc_q \in BOOLEAN /\ hwlp_addr_q \in Nat
    /\ id \in IdType /\ csr \in CsrType

\* ID holds an instruction of its address, while it decodes and while it is flushed.
Fetched ==
    /\ id.valid \/ ~Decoding => id.kind \in KindsAt(id.pc) /\ id.pc \in Places
    /\ id.valid => Decoding

\* Where the program is: in the debugger in debug mode only, in the handler only
\* while a trap is served; behind an ecall mepc is inside the program.
Where ==
    /\ Decoding \/ Halts => /\ Upcoming \in Places
                            /\ debug_mode_q <=> Upcoming = Debugger
                            /\ Upcoming = Handler => csr.trap
    /\ Halts => ~debug_mode_q
    /\ debug_mode_q /\ csr.dpc = Handler => csr.trap
    /\ debug_req_entry_q => ctrl_fsm_cs \in {"DBG_FLUSH", "DBG_TAKEN_ID"}
    /\ csr.ecall => csr.trap /\ csr.mepc # Exit /\ \A k \in Loop : csr.mepc + 1 # Start[k]

\* In DECODE the fetch stage is one ahead of ID, unless a jump was made.
InDecode ==
    ctrl_fsm_cs = "DECODE" /\ id.valid =>
      /\ jump_done_q => id.kind = "jump" /\ pc_if = 0
      /\ ~jump_done_q => pc_if = id.pc + 1

InFlush ==
    Flushes =>
      /\ id.kind \in (IF ctrl_fsm_cs = "XRET_JUMP" THEN {"mret", "dret"}
                      ELSE {"csr", "ecall", "mret", "dret"})
      /\ debug_mode_q <=> id.kind = "dret"
      /\ id.kind = "csr" => pc_if = id.pc + 1 \/ CsrTarget # NoPc
      /\ id.kind = "mret" => ~csr.ecall
      /\ id.kind = "ecall" /\ ctrl_fsm_cs = "FLUSH_WB" =>
           csr.ecall /\ csr.trap /\ csr.mepc = id.pc

InLoad ==
    Loads => /\ id.kind = "elw" /\ ~debug_mode_q /\ pc_if \in Program
             /\ (\A k \in Loop : id.pc + 1 # End[k]) => pc_if = id.pc + 1

\* DECODE_HWLOOP: the next instruction is in a body, and when it ends a loop that is
\* on its last pass, in the body of the other loop too ...
Body(a, k)  == Start[k] =< a /\ a + 1 =< End[k]
Again(a, k) == a + 1 = End[k] /\ counter[k] > 1
Pending(k)  == counter[k] > 1 /\ hwlp_addr_q = Start[k]

InLoop ==
    ctrl_fsm_cs = "DECODE_HWLOOP" =>
      LET a == IF id.valid THEN id.pc ELSE pc_if
      IN  /\ \E k \in Loop : Body(a, k)
          /\ \A k \in Loop : a + 1 = End[k] /\ counter[k] =< 1 =>
               \E j \in Loop : j # k /\ Body(a, j)

\* ... with the last instruction of a pass in ID the fetch stage is at the start, and
\* a jump waits only behind the last but one instruction, which raised it ...
InLoopId ==
    ctrl_fsm_cs = "DECODE_HWLOOP" /\ id.valid =>
      /\ \A k \in Loop : Again(id.pc, k) => pc_if = Start[k]
      /\ (\A k \in Loop : ~Again(id.pc, k)) => pc_if = id.pc + 1
      /\ hwlp_update_pc_q => /\ hwlp_end_4_id_q /\ id.kind \in {"plain", "count"}
                             /\ \E k \in Loop : id.pc + 2 = End[k] /\ Pending(k)
      /\ hwlp_end_4_id_q => hwlp_update_pc_q \/ \E k \in Loop : id.pc + 1 = End[k]
      /\ jump_done_q => \E k \in Loop : id.pc + 1 = End[k]

\* ... and with nothing in ID it waits exactly in front of the last instruction.
InLoopIf ==
    ctrl_fsm_cs = "DECODE_HWLOOP" /\ ~id.valid =>
      /\ \A k \in Loop : Again(pc_if, k) => hwlp_update_pc_q
      /\ hwlp_update_pc_q => \E k \in Loop : pc_if + 1 = End[k] /\ Pending(k)

NoJump == hwlp_update_pc_q => ctrl_fsm_cs = "DECODE_HWLOOP" \/ Halts

LoopInv == /\ TypeInv /\ Fetched /\ Where /\ InDecode /\ InFlush /\ InLoad
           /\ InLoop /\ InLoopId /\ InLoopIf /\ NoJump

-----------------------------------------------------------------------------
(* The geometry of two loops, and the instructions of an address.          *)

LEMMA Geometry ==
    /\ Loop = {0, 1}
    /\ \A k \in Loop : /\ Start[k] \in Nat /\ End[k] \in Nat
                       /\ 1 =< Start[k] /\ Start[k] + 3 =< End[k] /\ End[k] =< Exit
    /\ \A j, k \in Loop : /\ Start[k] # End[j] /\ Start[k] + 1 # End[j]
                          /\ j # k => \/ End[j] + 2 =< End[k]
                                      \/ End[k] + 2 =< End[j]
    /\ \A a \in Nat : Body(a, 0) /\ Body(a, 1) => a + 1 # End[1]
BY HwLoopAssumption DEF HwLoopAssumption, Loop, Start, End, Exit, Body

LEMMA PlacesAre ==
    /\ Exit \in Nat /\ Handler = Exit + 2 /\ Debugger = Exit + 4
    /\ Handler \in Nat /\ Debugger \in Nat /\ Handler # Debugger
    /\ NoPc = -1 /\ NoPc \notin Nat
    /\ Program = 0..Exit /\ Handler \notin Program /\ Debugger \notin Program
    /\ Places = Program \cup {Handler, Debugger}
<1>1. Exit \in Nat
  BY HwLoopAssumption DEF HwLoopAssumption, Exit
<1> QED
  BY <1>1 DEF Handler, Debugger, Program, NoPc, Places

\* A loop starts inside the program.
LEMMA StartsAre ==
    \A k \in Loop : Start[k] \in Program /\ Start[k] \in Nat /\ Start[k] # NoPc
<1> SUFFICES ASSUME NEW k \in Loop
             PROVE  Start[k] \in Program /\ Start[k] \in Nat /\ Start[k] # NoPc
  OBVIOUS
<1>1. Start[k] \in Nat /\ End[k] \in Nat /\ Start[k] + 3 =< End[k] /\ End[k] =< Exit
  BY Geometry
<1>2. Start[k] \in 0..Exit
  BY <1>1, PlacesAre
<1> QED
  BY <1>1, <1>2, PlacesAre

LEMMA KindsAre ==
    ASSUME NEW a \in Nat, NEW kind \in KindsAt(a)
    PROVE  /\ kind = "mret" <=> a = Handler
           /\ kind = "dret" <=> a = Debugger
           /\ kind = "jump" <=> a = Exit
           /\ kind = "count" <=> \E k \in Loop : a + 1 = Start[k]
           /\ kind = "elw" /\ "elw" \notin LastKinds => \A k \in Loop : a + 1 # End[k]
           /\ kind \in Kinds \cup {"count", "jump", "mret", "dret"}
<1> DEFINE starts == \E k \in Loop : a + 1 = Start[k]
           ends   == \E k \in Loop : a + 1 = End[k]
<1>1. /\ a = Handler => a # Debugger /\ a # Exit /\ ~starts /\ ~ends
      /\ a = Debugger => a # Exit /\ ~starts /\ ~ends
      /\ a = Exit => ~starts /\ ~ends
      /\ starts => ~ends
  <2>1. \A k \in Loop : /\ Start[k] \in Nat /\ Start[k] =< Exit
                         /\ End[k] \in Nat /\ End[k] =< Exit
    BY Geometry, PlacesAre
  <2>2. Exit \in Nat
    BY PlacesAre
  <2>3. starts => a + 1 =< Exit
    BY <2>1
  <2>4. ends => a + 1 =< Exit
    BY <2>1
  <2>5. starts => ~ends
    BY Geometry
  <2> HIDE DEF starts, ends
  <2> QED
    BY <2>2, <2>3, <2>4, <2>5, PlacesAre
<1>2. KindsAt(a) = CASE a = Handler -> {"mret"}
                     [] a = Debugger -> {"dret"}
                     [] a = Exit -> {"jump"}
                     [] starts -> {"count"}
                     [] ends -> LastKinds
                     [] OTHER -> BodyKinds
  BY DEF KindsAt
<1>3. ends <=> ~(\A k \in Loop : a + 1 # End[k])
  OBVIOUS
<1>4. BodyKinds \subseteq Kinds /\ LastKinds \subseteq Kinds
  BY HwLoopAssumption DEF HwLoopAssumption
<1> HIDE DEF starts, ends
<1>5. /\ a = Handler => kind = "mret"
      /\ a = Debugger => kind = "dret"
      /\ a = Exit => kind = "jump"
      /\ starts => kind = "count"
      /\ ends => kind \in LastKinds
      /\ a # Handler /\ a # Debugger /\ a # Exit /\ ~starts /\ ~ends => kind \in BodyKinds
  BY <1>1, <1>2
<1>6. /\ kind = "mret" <=> a = Handler
      /\ kind = "dret" <=> a = Debugger
      /\ kind = "jump" <=> a = Exit
      /\ kind = "count" <=> starts
      /\ kind = "elw" /\ "elw" \notin LastKinds => ~ends
      /\ kind \in Kinds \cup {"count", "jump", "mret", "dret"}
  BY <1>1, <1>4, <1>5 DEF Kinds
<1> QED
  BY <1>3, <1>6 DEF starts

\* Upcoming, state by state.
UpcomingTable ==
    /\ Decoding => Upcoming = (IF id.valid THEN id.pc ELSE pc_if)
    /\ ctrl_fsm_cs \in {"DBG_TAKEN_ID", "ELW_EXE", "IRQ_FLUSH_ELW"} => Upcoming = id.pc
    /\ ctrl_fsm_cs = "DBG_TAKEN_IF" => Upcoming = pc_if
    /\ ctrl_fsm_cs = "DBG_FLUSH" => Upcoming = (IF EntersBefore THEN id.pc ELSE pc_if)
    /\ Flushes => /\ id.kind = "mret" => Upcoming = csr.mepc
                  /\ id.kind = "dret" => Upcoming = csr.dpc
                  /\ id.kind = "ecall" => Upcoming = id.pc
                  /\ id.kind = "csr" =>
                       Upcoming = IF CsrTarget = NoPc THEN pc_if ELSE CsrTarget

LEMMA UpcomingIs == UpcomingTable
BY DEF UpcomingTable, Upcoming, Decoding, Flushes

LEMMA UpcomingNext == UpcomingTable'
BY UpcomingIs, PTL

\* The target of a jump made at the end of a loop is the start of that loop.
LEMMA TargetAtEnd ==
    ASSUME id.pc \in Nat
    PROVE  /\ hwlp_targ_addr \in {Start[0], Start[1]}
           /\ \A k \in Loop : hwlp_end_eq_pc(k) => hwlp_targ_addr = Start[k]
BY HwLoopAssumption, Geometry
DEF HwLoopAssumption, hwlp_targ_addr, InRange, hwlp_end_eq_pc, Start, End, Loop

-----------------------------------------------------------------------------
(* What a cycle does to the fetch stage, ID and the counters.              *)

\* IF hands its word to ID ...
Takes(jump) ==
    /\ id'.valid /\ id'.pc = pc_if /\ id'.kind \in KindsAt(pc_if)
    /\ pc_if' = IF jump # NoPc THEN jump
                ELSE IF hwlp_update_pc_q THEN hwlp_addr_q ELSE pc_if + 1
    /\ ~hwlp_update_pc_q'
    /\ hwlp_addr_q' = hwlp_addr_q

\* ... or keeps it, unless the PC is set, and a loop jump waits for the next word.
Keeps(in, halt_id, set, jump) ==
    /\ id'.pc = id.pc /\ id'.kind = id.kind
    /\ id'.valid <=> id.valid /\ ~in.id_ready /\ ~halt_id
    /\ pc_if' = IF set # NoPc THEN set ELSE pc_if
    /\ hwlp_update_pc_q' <=> set = NoPc /\ (hwlp_update_pc_q \/ jump # NoPc)
    /\ hwlp_addr_q' = IF set = NoPc /\ jump # NoPc THEN jump ELSE hwlp_addr_q

InputType == [fetch_valid : BOOLEAN, id_ready : BOOLEAN, ex_valid : BOOLEAN,
              irq : BOOLEAN, debug_req : BOOLEAN]

LEMMA InputsAre ==
    ASSUME NEW in \in Inputs
    PROVE  /\ in \in InputType
           /\ in.fetch_valid => in.id_ready /\ Decoding
BY DEF Inputs, Signals, If, InputType

LEMMA FetchStage ==
    ASSUME TypeInv, NEW in \in InputType, in.fetch_valid => in.id_ready,
           NEW halt_if \in BOOLEAN, NEW halt_id \in BOOLEAN,
           NEW set \in Nat \cup {NoPc}, NEW jump \in Nat \cup {NoPc},
           Fetch(in, halt_if, halt_id, set, jump)
    PROVE  /\ pc_if' \in Nat /\ hwlp_update_pc_q' \in BOOLEAN /\ hwlp_addr_q' \in Nat
           /\ id' \in IdType
           /\ \/ ~halt_if /\ set = NoPc /\ in.fetch_valid /\ in.id_ready /\ Takes(jump)
              \/ Keeps(in, halt_id, set, jump)
<1> USE DEF TypeInv, InputType
<1>1. CASE TakesWord(in, halt_if, set)
  <2>1. ~halt_if /\ set = NoPc /\ in.fetch_valid /\ in.id_ready
    BY <1>1 DEF TakesWord
  <2>2. PICK kind \in KindsAt(pc_if) : id' = [valid |-> TRUE, pc |-> pc_if, kind |-> kind]
    BY <1>1 DEF Fetch, IfId
  <2>3. kind \in Kinds \cup {"count", "jump", "mret", "dret"}
    BY KindsAre
  <2>4. /\ pc_if' = IF jump # NoPc THEN jump
                    ELSE IF hwlp_update_pc_q THEN hwlp_addr_q ELSE pc_if + 1
        /\ ~hwlp_update_pc_q'
        /\ hwlp_addr_q' = hwlp_addr_q
    BY <1>1, <2>1 DEF Fetch, Aligner
  <2> QED
    BY <2>1, <2>2, <2>3, <2>4, PlacesAre DEF Takes, IdType, Fetch, Aligner
<1>2. CASE ~TakesWord(in, halt_if, set)
  <2>1. id' = [id EXCEPT !.valid = id.valid /\ ~in.id_ready /\ ~halt_id]
    BY <1>2 DEF Fetch, IfId
  <2>2. /\ id' \in IdType /\ id'.pc = id.pc /\ id'.kind = id.kind
        /\ id'.valid <=> id.valid /\ ~in.id_ready /\ ~halt_id
    BY <2>1 DEF IdType
  <2>3. /\ pc_if' = IF set # NoPc THEN set ELSE pc_if
        /\ hwlp_update_pc_q' = (set = NoPc /\ (hwlp_update_pc_q \/ jump # NoPc))
        /\ hwlp_addr_q' = IF set = NoPc /\ jump # NoPc THEN jump ELSE hwlp_addr_q
    BY <1>2 DEF Fetch, Aligner
  <2> QED
    BY <2>2, <2>3 DEF Keeps
<1> QED
  BY <1>1, <1>2

\* A counter changes only when the last instruction of its loop leaves ID.
LEMMA CountStage ==
    ASSUME TypeInv, NEW in \in InputType, NEW dec \in SUBSET Loop,
           CountDown(in, FALSE, dec)
    PROVE  /\ counter' \in [Loop -> 0..Modulus-1]
           /\ \A k \in Loop :
                counter'[k] = IF k \in dec /\ id.valid /\ in.id_ready
                              THEN (IF counter[k] = 0 THEN Modulus - 1 ELSE counter[k] - 1)
                              ELSE counter[k]
<1> USE DEF TypeInv
<1>1. Modulus \in Nat \ {0}
  BY HwLoopAssumption DEF HwLoopAssumption
<1>2. \A n \in 0..Modulus-1 : (n - 1) % Modulus = IF n = 0 THEN Modulus - 1 ELSE n - 1
  BY <1>1
<1>3. \A k \in Loop :
        counter'[k] = IF k \in dec /\ id.valid /\ in.id_ready
                      THEN (counter[k] - 1) % Modulus ELSE counter[k]
  BY DEF CountDown, InputType
<1>4. \A k \in Loop :
        counter'[k] = IF k \in dec /\ id.valid /\ in.id_ready
                      THEN (IF counter[k] = 0 THEN Modulus - 1 ELSE counter[k] - 1)
                      ELSE counter[k]
  BY <1>2, <1>3
<1>5. \A k \in Loop : counter'[k] \in 0..Modulus-1
  BY <1>1, <1>4
<1> QED
  BY <1>4, <1>5 DEF CountDown

\* A cycle in which ID decodes nothing.
LEMMA IdleStage ==
    ASSUME TypeInv, NEW in \in Inputs, NEW set \in Nat \cup {NoPc}, Idles(in, set)
    PROVE  /\ pc_if' \in Nat /\ hwlp_update_pc_q' \in BOOLEAN /\ hwlp_addr_q' \in Nat
           /\ id' \in IdType /\ jump_done_q' \in BOOLEAN /\ hwlp_end_4_id_q' \in BOOLEAN
           /\ id'.pc = id.pc /\ id'.kind = id.kind /\ ~id'.valid
           /\ pc_if' = IF set # NoPc THEN set ELSE pc_if
           /\ hwlp_update_pc_q' => set = NoPc /\ hwlp_update_pc_q
           /\ counter' = counter
<1>1. in \in InputType /\ (in.fetch_valid => in.id_ready)
  BY InputsAre
<1>2. NoPc \in Nat \cup {NoPc}
  OBVIOUS
<1>3. /\ pc_if' \in Nat /\ hwlp_update_pc_q' \in BOOLEAN /\ hwlp_addr_q' \in Nat
      /\ id' \in IdType /\ Keeps(in, TRUE, set, NoPc)
  BY <1>1, <1>2, FetchStage DEF Idles
<1>4. counter' = counter
  <2>1. counter' = [k \in Loop |-> counter[k]]
    BY DEF Idles, CountDown
  <2> QED
    BY <2>1 DEF TypeInv
<1>5. jump_done_q' \in BOOLEAN /\ hwlp_end_4_id_q' \in BOOLEAN
  BY DEF Idles, JumpDone
<1> QED
  BY <1>3, <1>4, <1>5 DEF Keeps

-----------------------------------------------------------------------------
(* Every action keeps LoopInv.  First those that decode nothing: they      *)
(* empty ID and never go to DECODE_HWLOOP.                                 *)

LEMMA IdleKeeps ==
    ASSUME TypeInv, NEW in \in Inputs, NEW set \in Nat \cup {NoPc}, Idles(in, set),
           ctrl_fsm_cs' \in States \ {"DECODE_HWLOOP"},
           debug_mode_q' \in BOOLEAN, debug_req_entry_q' \in BOOLEAN, csr' \in CsrType
    PROVE  TypeInv' /\ InDecode' /\ InLoop' /\ InLoopId' /\ InLoopIf'
<1> USE IdleStage
<1>1. TypeInv'
  BY DEF TypeInv
<1>2. ~id'.valid /\ ctrl_fsm_cs' # "DECODE_HWLOOP"
  OBVIOUS
<1> QED
  BY <1>1, <1>2 DEF InDecode, InLoop, InLoopId, InLoopIf

\* What the remaining parts of the invariant say next depends on the state alone.
LEMMA HaltRequestKeeps ==
    ASSUME LoopInv, NEW in \in Inputs, HaltRequest(in)
    PROVE  LoopInv'
<1>1. NoPc \in Nat \cup {NoPc} /\ Idles(in, NoPc)
  BY DEF HaltRequest
<1>2. ctrl_fsm_cs' = "DBG_FLUSH" /\ debug_req_entry_q' /\ ~debug_mode_q
      /\ debug_mode_q' = debug_mode_q /\ csr' = csr /\ Decoding /\ id.valid
      /\ debug_req_entry_q' \in BOOLEAN
  BY DEF HaltRequest, HaltReq
<1>3. TypeInv' /\ InDecode' /\ InLoop' /\ InLoopId' /\ InLoopIf'
  BY <1>1, <1>2, IdleKeeps DEF LoopInv, TypeInv, States
<1>4. id'.pc = id.pc /\ id'.kind = id.kind /\ ~id'.valid
  BY <1>1, IdleStage DEF LoopInv
<1>5. Fetched'
  BY <1>2, <1>4 DEF LoopInv, Fetched
<1>6. Where'
  <2>1. Upcoming = id.pc /\ Upcoming' = id.pc
    BY <1>2, <1>4, UpcomingIs, UpcomingNext DEF UpcomingTable, EntersBefore
  <2> QED
    BY <1>2, <1>4, <2>1 DEF LoopInv, Where, Halts, Decoding
<1>7. InFlush' /\ InLoad' /\ NoJump'
  BY <1>2 DEF InFlush, InLoad, NoJump, Flushes, Loads, Halts
<1> QED
  BY <1>3, <1>5, <1>6, <1>7 DEF LoopInv

LEMMA TakeIrqKeeps ==
    ASSUME LoopInv, NEW in \in Inputs, TakeIrq(in)
    PROVE  LoopInv'
<1>1. Handler \in Nat /\ Idles(in, Handler)
  BY Geometry, PlacesAre DEF TakeIrq
<1>2. ctrl_fsm_cs' = "DECODE" /\ debug_req_entry_q' = debug_req_entry_q /\ ~debug_mode_q
      /\ debug_mode_q' = debug_mode_q /\ Decoding /\ id.valid
      /\ csr' = [csr EXCEPT !.mepc = id.pc, !.trap = TRUE]
      /\ ~csr.trap
  BY DEF TakeIrq, IrqReq
<1>3. Upcoming = id.pc /\ id.pc \in Program
  BY <1>2, UpcomingIs, Geometry, PlacesAre DEF UpcomingTable, LoopInv, Where
<1>4. csr' \in CsrType /\ csr'.dpc = csr.dpc /\ csr'.trap /\ ~csr'.ecall
  <2>1. csr' = [mepc |-> id.pc, dpc |-> csr.dpc, trap |-> TRUE, ecall |-> csr.ecall,
                step |-> csr.step]
    BY <1>2 DEF LoopInv, TypeInv, CsrType
  <2> QED
    BY <1>2, <1>3, <2>1 DEF LoopInv, TypeInv, CsrType, Where
<1>5. TypeInv' /\ InDecode' /\ InLoop' /\ InLoopId' /\ InLoopIf'
  BY <1>1, <1>2, <1>4, IdleKeeps DEF LoopInv, TypeInv, States
<1>6. /\ id'.pc = id.pc /\ id'.kind = id.kind /\ ~id'.valid /\ pc_if' = Handler
      /\ ~hwlp_update_pc_q'
  BY <1>1, IdleStage, PlacesAre, Geometry DEF LoopInv
<1>7. Fetched'
  BY <1>2, <1>6 DEF LoopInv, Fetched, Decoding
<1>8. Where'
  <2>1. Upcoming' = Handler
    BY <1>2, <1>6, UpcomingNext DEF UpcomingTable, Decoding
  <2>2. ~debug_req_entry_q'
    BY <1>2 DEF LoopInv, Where, Decoding
  <2>3. Handler \in Places /\ Handler # Debugger
    BY PlacesAre
  <2> QED
    BY <1>2, <1>4, <2>1, <2>2, <2>3 DEF Where, Halts
<1>9. InFlush' /\ InLoad' /\ NoJump'
  BY <1>2, <1>6 DEF InFlush, InLoad, NoJump, Flushes, Loads, Halts
<1> QED
  BY <1>5, <1>7, <1>8, <1>9 DEF LoopInv

LEMMA SameTarget ==
    ASSUME id'.pc = id.pc, counter' = counter
    PROVE  CsrTarget' = CsrTarget
BY DEF CsrTarget, hwlp_end_eq_pc, hwlp_targ_addr, InRange

LEMMA CsrTargetIs ==
    ASSUME TypeInv
    PROVE  CsrTarget \in Nat \cup {NoPc} /\ CsrTarget \in {NoPc, Start[0], Start[1]}
BY TargetAtEnd, Geometry DEF CsrTarget, TypeInv, IdType

LEMMA FlushExKeeps ==
    ASSUME LoopInv, NEW in \in Inputs, FlushEx(in)
    PROVE  LoopInv'
<1>1. NoPc \in Nat \cup {NoPc} /\ Idles(in, NoPc)
  BY DEF FlushEx
<1>2. /\ ctrl_fsm_cs = "FLUSH_EX" /\ ctrl_fsm_cs' \in {"FLUSH_EX", "FLUSH_WB"}
      /\ ctrl_fsm_cs' = "FLUSH_WB" => in.ex_valid
      /\ debug_req_entry_q' = debug_req_entry_q /\ debug_mode_q' = debug_mode_q
  BY DEF FlushEx
<1>3. /\ id.kind \in {"csr", "ecall", "mret", "dret"}
      /\ debug_mode_q <=> id.kind = "dret"
      /\ id.kind \in KindsAt(id.pc) /\ id.pc \in Places /\ id.pc \in Nat
  BY <1>2 DEF LoopInv, InFlush, Flushes, Fetched, Decoding, TypeInv, IdType
<1>4. id.kind = "ecall" =>
        id.pc \in Program /\ id.pc # Exit /\ \A k \in Loop : id.pc + 1 # Start[k]
  BY <1>3, KindsAre, PlacesAre
<1>5. /\ csr' \in CsrType /\ csr'.dpc = csr.dpc
      /\ csr' = csr \/ (id.kind = "ecall" /\ csr'.mepc = id.pc /\ csr'.trap /\ csr'.ecall)
      /\ ctrl_fsm_cs' = "FLUSH_WB" /\ id.kind = "ecall" =>
           csr'.mepc = id.pc /\ csr'.trap /\ csr'.ecall
  <2>1. CASE in.ex_valid /\ id.kind = "ecall" /\ ~debug_mode_q
    <3>1. csr' = [csr EXCEPT !.mepc = id.pc, !.trap = TRUE, !.ecall = TRUE]
      BY <2>1 DEF FlushEx
    <3>2. csr' = [mepc |-> id.pc, dpc |-> csr.dpc, trap |-> TRUE, ecall |-> TRUE,
                  step |-> csr.step]
      BY <3>1 DEF LoopInv, TypeInv, CsrType
    <3> QED
      BY <2>1, <1>4, <3>2 DEF LoopInv, TypeInv, CsrType
  <2>2. CASE ~(in.ex_valid /\ id.kind = "ecall" /\ ~debug_mode_q)
    BY <2>2, <1>2, <1>3 DEF FlushEx, LoopInv, TypeInv
  <2> QED
    BY <2>1, <2>2
<1>6. TypeInv' /\ InDecode' /\ InLoop' /\ InLoopId' /\ InLoopIf'
  BY <1>1, <1>2, <1>5, IdleKeeps DEF LoopInv, TypeInv, States
<1>7. /\ id'.pc = id.pc /\ id'.kind = id.kind /\ ~id'.valid /\ pc_if' = pc_if
      /\ ~hwlp_update_pc_q' /\ counter' = counter
  BY <1>1, <1>2, IdleStage DEF LoopInv, NoJump, Halts
<1>8. Fetched'
  BY <1>3, <1>7 DEF Fetched
<1>9. Where'
  BY <1>2, <1>3, <1>4, <1>5 DEF LoopInv, Where, Halts, Decoding
<1>10. InFlush'
  BY <1>2, <1>3, <1>5, <1>7, SameTarget DEF LoopInv, InFlush, Flushes
<1>11. InLoad' /\ NoJump'
  BY <1>2, <1>7 DEF InLoad, NoJump, Loads
<1> QED
  BY <1>6, <1>8, <1>9, <1>10, <1>11 DEF LoopInv

LEMMA FlushWbKeeps ==
    ASSUME LoopInv, NEW in \in Inputs, FlushWb(in)
    PROVE  LoopInv'
<1> DEFINE set == CASE id.kind = "ecall" -> Handler
                    [] id.kind = "csr" -> CsrTarget
                    [] OTHER -> NoPc
<1>1. Idles(in, set) /\ ctrl_fsm_cs = "FLUSH_WB"
  BY DEF FlushWb
<1>2. /\ id.kind \in {"csr", "ecall", "mret", "dret"}
      /\ debug_mode_q <=> id.kind = "dret"
      /\ id.kind = "csr" => pc_if = id.pc + 1 \/ CsrTarget # NoPc
      /\ id.kind = "mret" => ~csr.ecall
      /\ id.kind = "ecall" => csr.ecall /\ csr.trap /\ csr.mepc = id.pc
      /\ id.kind \in KindsAt(id.pc) /\ id.pc \in Places /\ id.pc \in Nat
  BY <1>1 DEF LoopInv, InFlush, Flushes, Fetched, Decoding, TypeInv, IdType
<1>3. /\ id.kind = "ecall" => set = Handler
      /\ id.kind = "csr" => set = CsrTarget
      /\ id.kind \in {"mret", "dret"} => set = NoPc
      /\ set \in Nat \cup {NoPc}
  BY <1>2, CsrTargetIs, PlacesAre DEF LoopInv
<1> HIDE DEF set
<1>4. /\ id.kind \in {"mret", "dret"} => ctrl_fsm_cs' = "XRET_JUMP"
      /\ id.kind = "ecall" => ctrl_fsm_cs' \in {"DBG_TAKEN_IF", "DECODE"}
      /\ id.kind = "csr" => ctrl_fsm_cs' = "DECODE"
      /\ debug_req_entry_q' = debug_req_entry_q /\ debug_mode_q' = debug_mode_q
  BY <1>2 DEF FlushWb
<1>5. /\ csr' \in CsrType /\ csr'.dpc = csr.dpc /\ csr'.mepc = csr.mepc
      /\ csr'.ecall = csr.ecall
      /\ id.kind # "mret" => csr'.trap = csr.trap
  BY DEF FlushWb, LoopInv, TypeInv, CsrType
<1>6. TypeInv' /\ InDecode' /\ InLoop' /\ InLoopId' /\ InLoopIf'
  BY <1>1, <1>2, <1>3, <1>4, <1>5, IdleKeeps DEF LoopInv, TypeInv, States
<1>7. /\ id'.pc = id.pc /\ id'.kind = id.kind /\ ~id'.valid
      /\ pc_if' = IF set # NoPc THEN set ELSE pc_if
      /\ ~hwlp_update_pc_q' /\ counter' = counter
  BY <1>1, <1>3, IdleStage DEF LoopInv, NoJump, Halts
<1>8. Fetched'
  BY <1>2, <1>7 DEF Fetched
<1>9. id.kind = "csr" => pc_if' \in Program
  <2>1. id.kind = "csr" => id.pc \in Program /\ id.pc # Exit
    BY <1>2, KindsAre, PlacesAre
  <2>2. Start[0] \in Program /\ Start[1] \in Program
    BY Geometry, PlacesAre
  <2> QED
    BY <1>2, <1>3, <1>7, <2>1, <2>2, CsrTargetIs, PlacesAre DEF LoopInv
<1>10. Where'
  <2>1. id.kind \in {"csr", "ecall"} => Upcoming' = pc_if'
    BY <1>4, <1>7, UpcomingNext DEF UpcomingTable, Decoding
  <2>2. id.kind = "ecall" => pc_if' = Handler
    BY <1>3, <1>7, PlacesAre
  <2>3. ~debug_req_entry_q
    BY <1>1 DEF LoopInv, Where
  <2>4. ~debug_req_entry_q'
    BY <2>3, <1>4
  <2>5. debug_mode_q' /\ csr'.dpc = Handler => csr'.trap
    BY <1>2, <1>4, <1>5 DEF LoopInv, Where
  <2>6. csr'.ecall => csr'.trap /\ csr'.mepc # Exit /\ \A k \in Loop : csr'.mepc + 1 # Start[k]
    BY <1>2, <1>5 DEF LoopInv, Where
  <2>7. CASE id.kind = "csr"
    <3>1. ctrl_fsm_cs' = "DECODE" /\ ~debug_mode_q' /\ Upcoming' \in Program
      BY <2>7, <1>2, <1>4, <1>9, <2>1
    <3> QED
      BY <3>1, <2>4, <2>5, <2>6, PlacesAre DEF Where, Halts
  <2>8. CASE id.kind = "ecall"
    <3>1. /\ ctrl_fsm_cs' \in {"DBG_TAKEN_IF", "DECODE"} /\ ~debug_mode_q'
          /\ Upcoming' = Handler /\ csr'.trap
      BY <2>8, <1>2, <1>4, <1>5, <2>1, <2>2
    <3> QED
      BY <3>1, <2>4, <2>5, <2>6, PlacesAre DEF Where, Halts
  <2>9. CASE id.kind \in {"mret", "dret"}
    <3>1. ctrl_fsm_cs' = "XRET_JUMP"
      BY <2>9, <1>4
    <3> QED
      BY <3>1, <2>4, <2>5, <2>6 DEF Where, Halts, Decoding
  <2> QED
    BY <1>2, <2>7, <2>8, <2>9
<1>11. InFlush'
  <2>1. CASE id.kind \in {"mret", "dret"}
    <3>1. ctrl_fsm_cs' = "XRET_JUMP" /\ id'.kind = id.kind
      BY <2>1, <1>4, <1>7
    <3> QED
      BY <3>1, <2>1, <1>2, <1>4, <1>5 DEF InFlush, Flushes
  <2>2. CASE id.kind \in {"csr", "ecall"}
    BY <2>2, <1>4 DEF InFlush, Flushes
  <2> QED
    BY <1>2, <2>1, <2>2
<1>12. InLoad' /\ NoJump'
  BY <1>2, <1>4, <1>7 DEF InLoad, NoJump, Loads
<1> QED
  BY <1>6, <1>8, <1>10, <1>11, <1>12 DEF LoopInv

LEMMA XretJumpKeeps ==
    ASSUME LoopInv, NEW in \in Inputs, XretJump(in)
    PROVE  LoopInv'
<1> DEFINE set == IF id.kind = "mret" THEN csr.mepc ELSE csr.dpc
<1>1. Idles(in, set) /\ ctrl_fsm_cs = "XRET_JUMP"
  BY DEF XretJump
<1>2. id.kind \in {"mret", "dret"} /\ (debug_mode_q <=> id.kind = "dret")
  BY <1>1 DEF LoopInv, InFlush, Flushes
<1>3. /\ set \in Program \cup {Handler} /\ set \in Nat /\ set # NoPc
      /\ id.kind = "mret" => set \in Program
      /\ id.kind = "dret" => set = csr.dpc
  BY <1>2, PlacesAre DEF LoopInv, TypeInv, CsrType
<1> HIDE DEF set
<1>4. /\ ctrl_fsm_cs' \in {"DBG_TAKEN_IF", "DECODE"}
      /\ debug_req_entry_q' = debug_req_entry_q /\ ~debug_mode_q' /\ csr' = csr
      /\ debug_mode_q' \in BOOLEAN
  BY <1>2 DEF XretJump, LoopInv, TypeInv
<1>5. TypeInv' /\ InDecode' /\ InLoop' /\ InLoopId' /\ InLoopIf'
  BY <1>1, <1>3, <1>4, IdleKeeps DEF LoopInv, TypeInv, States
<1>6. /\ id'.pc = id.pc /\ id'.kind = id.kind /\ ~id'.valid /\ pc_if' = set
      /\ ~hwlp_update_pc_q'
  BY <1>1, <1>3, IdleStage DEF LoopInv
<1>7. Fetched'
  BY <1>1, <1>6 DEF LoopInv, Fetched, Decoding
<1>8. Where'
  <2>1. Upcoming' = set
    BY <1>4, <1>6, UpcomingNext DEF UpcomingTable, Decoding
  <2>2. ~debug_req_entry_q
    BY <1>1 DEF LoopInv, Where
  <2> QED
    BY <1>1, <1>2, <1>3, <1>4, <2>1, <2>2, PlacesAre DEF LoopInv, Where, Halts, Decoding
<1>9. InFlush' /\ InLoad' /\ NoJump'
  BY <1>4, <1>6 DEF InFlush, InLoad, NoJump, Loads, Flushes
<1> QED
  BY <1>5, <1>7, <1>8, <1>9 DEF LoopInv

LEMMA ElwExeKeeps ==
    ASSUME LoopInv, NEW in \in Inputs, ElwExe(in)
    PROVE  LoopInv'
<1>1. NoPc \in Nat \cup {NoPc} /\ Idles(in, NoPc) /\ ctrl_fsm_cs = "ELW_EXE"
  BY DEF ElwExe
<1>2. /\ id.kind = "elw" /\ ~debug_mode_q /\ id.kind \in KindsAt(id.pc)
      /\ id.pc \in Places /\ id.pc \in Nat /\ ~hwlp_update_pc_q
  BY <1>1 DEF LoopInv, InLoad, Loads, Fetched, Decoding, NoJump, Halts, TypeInv, IdType
<1>3. id.pc \in Program
  BY <1>2, KindsAre, PlacesAre
<1>4. /\ ctrl_fsm_cs' \in {"ELW_EXE", "DBG_FLUSH", "IRQ_FLUSH_ELW"}
      /\ debug_req_entry_q' = debug_req_entry_q /\ debug_mode_q' = debug_mode_q
      /\ csr' = csr
  BY DEF ElwExe
<1>5. TypeInv' /\ InDecode' /\ InLoop' /\ InLoopId' /\ InLoopIf'
  BY <1>1, <1>4, IdleKeeps DEF LoopInv, TypeInv, States
<1>6. /\ id'.pc = id.pc /\ id'.kind = id.kind /\ ~id'.valid /\ pc_if' = pc_if
      /\ ~hwlp_update_pc_q' /\ counter' = counter
  BY <1>1, <1>2, IdleStage DEF LoopInv
<1>7. Fetched'
  BY <1>2, <1>6 DEF Fetched
<1>8. Where'
  <2>1. Upcoming' = id.pc
    BY <1>2, <1>4, <1>6, UpcomingNext DEF UpcomingTable, EntersBefore
  <2>2. ~debug_req_entry_q'
    BY <1>1, <1>4 DEF LoopInv, Where
  <2> QED
    BY <1>2, <1>3, <1>4, <2>1, <2>2, PlacesAre DEF LoopInv, Where
<1>9. InFlush' /\ InLoad' /\ NoJump'
  BY <1>1, <1>2, <1>4, <1>6 DEF LoopInv, InFlush, InLoad, NoJump, Loads, Flushes
<1> QED
  BY <1>5, <1>7, <1>8, <1>9 DEF LoopInv

LEMMA IrqFlushElwKeeps ==
    ASSUME LoopInv, NEW in \in Inputs, IrqFlushElw(in)
    PROVE  LoopInv'
<1> DEFINE taken == IrqReq(in) /\ ~in.debug_req
           set   == IF taken THEN Handler ELSE NoPc
<1>1. Idles(in, set) /\ ctrl_fsm_cs = "IRQ_FLUSH_ELW" /\ set \in Nat \cup {NoPc}
  BY PlacesAre DEF IrqFlushElw
<1>2. /\ id.kind = "elw" /\ ~debug_mode_q /\ id.kind \in KindsAt(id.pc)
      /\ id.pc \in Places /\ id.pc \in Nat /\ ~hwlp_update_pc_q /\ pc_if \in Program
  BY <1>1 DEF LoopInv, InLoad, Loads, Fetched, Decoding, NoJump, Halts, TypeInv, IdType
<1>3. id.pc \in Program
  BY <1>2, KindsAre, PlacesAre
<1>4. /\ ctrl_fsm_cs' = "DECODE"
      /\ debug_req_entry_q' = debug_req_entry_q /\ debug_mode_q' = debug_mode_q
  BY DEF IrqFlushElw
<1>5. /\ csr' \in CsrType /\ csr'.dpc = csr.dpc
      /\ IF taken THEN ~csr'.ecall /\ csr'.trap ELSE csr' = csr
  <2>1. CASE taken
    <3>1. csr' = [csr EXCEPT !.mepc = id.pc, !.trap = TRUE] /\ ~csr.trap
      BY <2>1 DEF IrqFlushElw, IrqReq
    <3>2. csr' = [mepc |-> id.pc, dpc |-> csr.dpc, trap |-> TRUE, ecall |-> csr.ecall,
                  step |-> csr.step]
      BY <3>1 DEF LoopInv, TypeInv, CsrType
    <3> QED
      BY <2>1, <1>3, <3>1, <3>2 DEF LoopInv, TypeInv, CsrType, Where
  <2>2. CASE ~taken
    BY <2>2 DEF IrqFlushElw, LoopInv, TypeInv
  <2> QED
    BY <2>1, <2>2
<1>6. /\ taken => set = Handler
      /\ ~taken => set = NoPc
  OBVIOUS
<1> HIDE DEF taken, set
<1>7. TypeInv' /\ InDecode' /\ InLoop' /\ InLoopId' /\ InLoopIf'
  BY <1>1, <1>4, <1>5, IdleKeeps DEF LoopInv, TypeInv, States
<1>8. /\ id'.pc = id.pc /\ id'.kind = id.kind /\ ~id'.valid
      /\ pc_if' = IF taken THEN Handler ELSE pc_if
      /\ ~hwlp_update_pc_q'
  BY <1>1, <1>2, <1>6, IdleStage, PlacesAre DEF LoopInv
<1>9. Fetched'
  BY <1>2, <1>8 DEF Fetched
<1>10. Where'
  <2>1. Upcoming' = IF taken THEN Handler ELSE pc_if
    BY <1>4, <1>8, UpcomingNext DEF UpcomingTable, Decoding
  <2>2. ~debug_req_entry_q'
    BY <1>1, <1>4 DEF LoopInv, Where
  <2> QED
    BY <1>2, <1>4, <1>5, <2>1, <2>2, PlacesAre DEF LoopInv, Where, Halts
<1>11. InFlush' /\ InLoad' /\ NoJump'
  BY <1>4, <1>8 DEF InFlush, InLoad, NoJump, Loads, Flushes
<1> QED
  BY <1>7, <1>9, <1>10, <1>11 DEF LoopInv

LEMMA DbgFlushKeeps ==
    ASSUME LoopInv, NEW in \in Inputs, DbgFlush(in)
    PROVE  LoopInv'
<1>1. NoPc \in Nat \cup {NoPc} /\ Idles(in, NoPc) /\ ctrl_fsm_cs = "DBG_FLUSH"
  BY DEF DbgFlush
<1>2. /\ ctrl_fsm_cs' = (IF EntersBefore THEN "DBG_TAKEN_ID" ELSE "DBG_TAKEN_IF")
      /\ debug_req_entry_q' = debug_req_entry_q /\ debug_mode_q' = debug_mode_q
      /\ csr' = csr
  BY DEF DbgFlush
<1>3. TypeInv' /\ InDecode' /\ InLoop' /\ InLoopId' /\ InLoopIf'
  BY <1>1, <1>2, IdleKeeps DEF LoopInv, TypeInv, States
<1>4. /\ id'.pc = id.pc /\ id'.kind = id.kind /\ ~id'.valid /\ pc_if' = pc_if
  BY <1>1, IdleStage DEF LoopInv
<1>5. Fetched'
  BY <1>1, <1>4 DEF LoopInv, Fetched, Decoding
<1>6. Where'
  <2>1. Upcoming' = Upcoming
    BY <1>1, <1>2, <1>4, UpcomingIs, UpcomingNext DEF UpcomingTable
  <2>2. debug_req_entry_q' => EntersBefore
    BY <1>2 DEF EntersBefore
  <2> QED
    BY <1>1, <1>2, <2>1, <2>2 DEF LoopInv, Where, Halts
<1>7. InFlush' /\ InLoad' /\ NoJump'
  BY <1>2 DEF InFlush, InLoad, NoJump, Loads, Flushes, Halts
<1> QED
  BY <1>3, <1>5, <1>6, <1>7 DEF LoopInv

LEMMA DbgTakenKeeps ==
    ASSUME LoopInv, NEW in \in Inputs, DbgTaken(in)
    PROVE  LoopInv'
<1>1. /\ Debugger \in Nat \cup {NoPc} /\ Idles(in, Debugger)
      /\ ctrl_fsm_cs \in {"DBG_TAKEN_ID", "DBG_TAKEN_IF"}
  BY PlacesAre DEF DbgTaken
<1>2. /\ ctrl_fsm_cs' = "DECODE" /\ debug_mode_q' = TRUE
      /\ csr' = [csr EXCEPT !.dpc = IF ctrl_fsm_cs = "DBG_TAKEN_ID" THEN id.pc ELSE pc_if]
      /\ debug_req_entry_q' \in BOOLEAN /\ ~debug_req_entry_q'
  BY DEF DbgTaken, LoopInv, Where, TypeInv
<1>3. /\ csr' = [csr EXCEPT !.dpc = Upcoming]
      /\ Upcoming \in Program \cup {Handler} /\ (Upcoming = Handler => csr.trap)
  BY <1>1, <1>2, UpcomingIs, PlacesAre DEF UpcomingTable, LoopInv, Where, Halts
<1>4. /\ csr' \in CsrType /\ csr'.dpc = Upcoming /\ csr'.mepc = csr.mepc
      /\ csr'.trap = csr.trap /\ csr'.ecall = csr.ecall
  BY <1>3 DEF LoopInv, TypeInv, CsrType
<1>5. TypeInv' /\ InDecode' /\ InLoop' /\ InLoopId' /\ InLoopIf'
  BY <1>1, <1>2, <1>4, IdleKeeps DEF LoopInv, TypeInv, States
<1>6. /\ id'.pc = id.pc /\ id'.kind = id.kind /\ ~id'.valid /\ pc_if' = Debugger
      /\ ~hwlp_update_pc_q'
  BY <1>1, IdleStage, PlacesAre DEF LoopInv
<1>7. Fetched'
  BY <1>2, <1>6 DEF Fetched, Decoding
<1>8. Where'
  <2>1. Upcoming' = Debugger
    BY <1>2, <1>6, UpcomingNext DEF UpcomingTable, Decoding
  <2> QED
    BY <1>2, <1>3, <1>4, <2>1, PlacesAre DEF LoopInv, Where, Halts
<1>9. InFlush' /\ InLoad' /\ NoJump'
  BY <1>2, <1>6 DEF InFlush, InLoad, NoJump, Loads, Flushes
<1> QED
  BY <1>5, <1>7, <1>8, <1>9 DEF LoopInv

-----------------------------------------------------------------------------
(* The decoding cycles.                                                    *)

NotReturn == id.kind \notin {"mret", "dret"}
Runs      == id.kind \notin {"mret", "dret", "jump"}

LEMMA InId ==
    ASSUME LoopInv, Decoding, id.valid
    PROVE  /\ id.pc \in Nat /\ id.kind \in KindsAt(id.pc) /\ Upcoming = id.pc
           /\ debug_mode_q <=> id.kind = "dret"
           /\ id.kind = "mret" <=> id.pc = Handler
           /\ ~debug_req_entry_q
           /\ NotReturn => id.pc \in Program /\ ~debug_mode_q
           /\ Runs => id.pc + 1 \in Program /\ id.pc # Exit
           /\ id.kind = "jump" <=> id.pc = Exit
           /\ id.kind = "count" <=> \E k \in Loop : id.pc + 1 = Start[k]
           /\ hwlp_update_pc_q =>
                ctrl_fsm_cs = "DECODE_HWLOOP" /\ id.kind \in {"plain", "count"}
           /\ Runs /\ ctrl_fsm_cs = "DECODE" => pc_if = id.pc + 1 /\ ~jump_done_q
           /\ Runs => pc_if \in Program
<1>1. id.pc \in Nat /\ id.kind \in KindsAt(id.pc) /\ id.pc \in Places
  BY DEF LoopInv, Fetched, TypeInv, IdType
<1>2. /\ Upcoming = id.pc /\ (debug_mode_q <=> id.pc = Debugger)
      /\ ~debug_req_entry_q
  BY UpcomingIs DEF UpcomingTable, LoopInv, Where, Decoding
<1>3. /\ id.kind = "mret" <=> id.pc = Handler
      /\ id.kind = "dret" <=> id.pc = Debugger
      /\ id.kind = "jump" <=> id.pc = Exit
      /\ id.kind = "count" <=> \E k \in Loop : id.pc + 1 = Start[k]
  BY <1>1, KindsAre
<1>4. /\ NotReturn => id.pc \in Program /\ ~debug_mode_q
      /\ Runs => id.pc + 1 \in Program /\ id.pc # Exit
  BY <1>1, <1>2, <1>3, PlacesAre DEF NotReturn, Runs
<1>5. hwlp_update_pc_q => ctrl_fsm_cs = "DECODE_HWLOOP" /\ id.kind \in {"plain", "count"}
  BY DEF LoopInv, NoJump, InLoopId, Decoding, Halts
<1>6. Runs /\ ctrl_fsm_cs = "DECODE" => pc_if = id.pc + 1 /\ ~jump_done_q
  BY DEF LoopInv, InDecode, Runs
<1>7. Runs => pc_if \in Program
  <2>1. \A k \in Loop : Start[k] \in Program
    BY StartsAre
  <2>2. ctrl_fsm_cs = "DECODE_HWLOOP" =>
          pc_if = id.pc + 1 \/ \E k \in Loop : pc_if = Start[k]
    BY DEF LoopInv, InLoopId
  <2> QED
    BY <1>4, <1>6, <2>1, <2>2 DEF Decoding
<1> QED
  BY <1>1, <1>2, <1>3, <1>4, <1>5, <1>6, <1>7

LEMMA NoInstructionKeeps ==
    ASSUME LoopInv, NEW in \in Inputs, NoInstruction(in)
    PROVE  LoopInv'
<1>1. /\ in \in InputType
      /\ in.fetch_valid => in.id_ready
      /\ NoPc \in Nat \cup {NoPc}
  BY InputsAre
<1>2. /\ Decoding /\ ~id.valid /\ ctrl_fsm_cs' = ctrl_fsm_cs /\ csr' = csr
      /\ debug_mode_q' = debug_mode_q /\ debug_req_entry_q' = debug_req_entry_q
      /\ Fetch(in, FALSE, FALSE, NoPc, NoPc)
      /\ JumpDone(in, FALSE) /\ hwlp_end_4_id_q' = FALSE
  BY DEF NoInstruction
<1>3. /\ pc_if' \in Nat /\ hwlp_update_pc_q' \in BOOLEAN /\ hwlp_addr_q' \in Nat
      /\ id' \in IdType
      /\ (in.id_ready /\ Takes(NoPc)) \/ Keeps(in, FALSE, NoPc, NoPc)
  BY <1>1, <1>2, FetchStage DEF LoopInv
<1>4. counter' = counter
  <2>1. counter' = [k \in Loop |-> counter[k]]
    BY DEF NoInstruction, CountDown
  <2> QED
    BY <2>1 DEF LoopInv, TypeInv
<1>5. TypeInv'
  BY <1>2, <1>3, <1>4 DEF LoopInv, TypeInv, JumpDone
<1>6. Upcoming = pc_if /\ pc_if \in Places
  BY <1>2, UpcomingIs DEF UpcomingTable, LoopInv, Where
<1>7. CASE in.id_ready /\ Takes(NoPc)
  <2>1. /\ id'.valid /\ id'.pc = pc_if /\ id'.kind \in KindsAt(pc_if)
        /\ pc_if' = (IF hwlp_update_pc_q THEN hwlp_addr_q ELSE pc_if + 1)
        /\ ~hwlp_update_pc_q' /\ ~jump_done_q'
    BY <1>2, <1>7 DEF Takes, JumpDone
  <2>2. Fetched'
    BY <1>2, <1>6, <2>1 DEF Fetched, Decoding
  <2>3. Where'
    <3>1. Upcoming' = Upcoming
      BY <1>2, <1>6, <2>1, UpcomingNext DEF UpcomingTable, Decoding
    <3> QED
      BY <1>2, <3>1 DEF LoopInv, Where, Halts, Decoding
  <2>4. InDecode'
    BY <1>2, <2>1 DEF LoopInv, InDecode, NoJump, Halts
  <2>5. InLoop'
    BY <1>2, <1>4, <2>1 DEF LoopInv, InLoop, Body
  <2>6. InLoopId'
    <3>1. CASE ctrl_fsm_cs = "DECODE_HWLOOP"
      <4>1. hwlp_update_pc_q =>
              \E k \in Loop : pc_if + 1 = End[k] /\ counter[k] > 1 /\ hwlp_addr_q = Start[k]
        BY <1>2, <3>1 DEF LoopInv, InLoopIf, Pending
      <4>2. \A k \in Loop : Again(pc_if, k) => hwlp_update_pc_q
        BY <1>2, <3>1 DEF LoopInv, InLoopIf
      <4>3. \A j, k \in Loop : pc_if + 1 = End[k] /\ pc_if + 1 = End[j] => j = k
        BY Geometry
      <4>4. \A k \in Loop : Again(pc_if, k) => pc_if' = Start[k]
        BY <2>1, <4>1, <4>2, <4>3 DEF Again
      <4>5. (\A k \in Loop : ~Again(pc_if, k)) => pc_if' = pc_if + 1
        BY <2>1, <4>1 DEF Again
      <4> QED
        BY <1>2, <1>4, <2>1, <4>4, <4>5 DEF InLoopId, Again
    <3>2. CASE ctrl_fsm_cs # "DECODE_HWLOOP"
      BY <1>2, <3>2 DEF InLoopId
    <3> QED
      BY <3>1, <3>2
  <2>7. InFlush' /\ InLoad' /\ NoJump' /\ InLoopIf'
    BY <1>2, <2>1 DEF InFlush, InLoad, NoJump, InLoopIf, Flushes, Loads, Decoding
  <2> QED
    BY <1>5, <2>2, <2>3, <2>4, <2>5, <2>6, <2>7 DEF LoopInv
<1>8. CASE Keeps(in, FALSE, NoPc, NoPc)
  <2>1. /\ ~id'.valid /\ pc_if' = pc_if /\ hwlp_update_pc_q' = hwlp_update_pc_q
        /\ hwlp_addr_q' = hwlp_addr_q
    BY <1>2, <1>3, <1>8 DEF Keeps, LoopInv, TypeInv
  <2>2. Fetched' /\ InDecode' /\ InLoopId'
    BY <1>2, <2>1 DEF Fetched, InDecode, InLoopId, Decoding
  <2>3. Where'
    <3>1. Upcoming' = Upcoming
      BY <1>2, <1>6, <2>1, UpcomingNext DEF UpcomingTable, Decoding
    <3> QED
      BY <1>2, <3>1 DEF LoopInv, Where, Halts, Decoding
  <2>4. InLoop' /\ InLoopIf'
    BY <1>2, <1>4, <2>1 DEF LoopInv, InLoop, InLoopIf, Body, Again, Pending
  <2>5. InFlush' /\ InLoad' /\ NoJump'
    BY <1>2, <2>1 DEF LoopInv, InFlush, InLoad, NoJump, Flushes, Loads, Decoding, Halts
  <2> QED
    BY <1>5, <2>2, <2>3, <2>4, <2>5 DEF LoopInv
<1> QED
  BY <1>3, <1>7, <1>8

\* An instruction that flushes the pipeline or waits for an event stops the fetch stage
\* and stays in ID until EX is ready.
StaysInId(in) ==
    /\ id'.pc = id.pc /\ id'.kind = id.kind /\ (id'.valid <=> ~in.id_ready)
    /\ pc_if' = pc_if /\ ~hwlp_update_pc_q' /\ ~hwlp_update_pc_q
    /\ hwlp_addr_q' = hwlp_addr_q /\ ~hwlp_end_4_id_q'
    /\ jump_done_q' <=> jump_done_q /\ ~in.id_ready
    /\ debug_mode_q' = debug_mode_q /\ debug_req_entry_q' = debug_req_entry_q
    /\ csr' = csr

LEMMA StopsFetch ==
    ASSUME LoopInv, NEW in \in Inputs, Decodes(in),
           id.kind \in {"csr", "ecall", "mret", "dret", "elw"},
           Fetch(in, TRUE, FALSE, NoPc, NoPc), JumpDone(in, FALSE), hwlp_end_4_id_q' = FALSE,
           UNCHANGED <<debug_mode_q, debug_req_entry_q, csr>>,
           ctrl_fsm_cs' \in States, counter' \in [Loop -> 0..Modulus-1]
    PROVE  TypeInv' /\ StaysInId(in)
<1>1. /\ in \in InputType
      /\ in.fetch_valid => in.id_ready
      /\ NoPc \in Nat \cup {NoPc}
  BY InputsAre
<1>2. /\ pc_if' \in Nat /\ hwlp_update_pc_q' \in BOOLEAN /\ hwlp_addr_q' \in Nat
      /\ id' \in IdType /\ Keeps(in, FALSE, NoPc, NoPc)
  BY <1>1, FetchStage DEF LoopInv
<1>3. ~hwlp_update_pc_q
  BY InId DEF LoopInv, Decodes
<1>4. jump_done_q' \in BOOLEAN /\ (jump_done_q' <=> jump_done_q /\ ~in.id_ready)
  BY DEF JumpDone
<1>5. id.valid
  BY DEF Decodes
<1> QED
  BY <1>2, <1>3, <1>4, <1>5 DEF Keeps, StaysInId, LoopInv, TypeInv

LEMMA StallKeeps ==
    ASSUME LoopInv, NEW in \in Inputs, Decodes(in), TypeInv', StaysInId(in), ~in.id_ready,
           ctrl_fsm_cs' = ctrl_fsm_cs, counter' = counter
    PROVE  LoopInv'
<1>1. Decoding /\ id.valid /\ id'.valid /\ id'.pc = id.pc /\ id'.kind = id.kind
  BY DEF Decodes, StaysInId
<1>2. Fetched' /\ InLoop' /\ InLoopIf'
  BY <1>1 DEF StaysInId, LoopInv, Fetched, InLoop, InLoopIf, Body, Decoding
<1>3. Where'
  <2>1. Upcoming' = Upcoming
    BY <1>1, UpcomingIs, UpcomingNext DEF UpcomingTable, Decoding
  <2> QED
    BY <2>1 DEF StaysInId, LoopInv, Where, Decoding, Halts
<1>4. InDecode' /\ InLoopId'
  BY <1>1 DEF StaysInId, LoopInv, InDecode, InLoopId, Again
<1>5. InFlush' /\ InLoad' /\ NoJump'
  BY <1>1 DEF StaysInId, InFlush, InLoad, NoJump, Flushes, Loads, Decoding
<1> QED
  BY <1>2, <1>3, <1>4, <1>5 DEF LoopInv

LEMMA FlushingKeeps ==
    ASSUME LoopInv, NEW in \in Inputs, Flushing(in)
    PROVE  LoopInv'
<1> DEFINE dec == IF id.kind = "csr" THEN {k \in Loop : hwlp_end_eq_pc(k)} ELSE {}
<1>1. /\ Decodes(in) /\ Decoding /\ id.valid
      /\ id.kind \in {"csr", "ecall", "mret", "dret"}
      /\ id.kind = "mret" => ~csr.ecall
      /\ CountDown(in, FALSE, dec) /\ dec \in SUBSET Loop
      /\ ctrl_fsm_cs' = IF ~in.id_ready THEN ctrl_fsm_cs
                        ELSE IF Stepping /\ id.kind = "csr" THEN "DBG_FLUSH"
                        ELSE "FLUSH_EX"
  BY DEF Flushing, Decodes
<1>2. /\ counter' \in [Loop -> 0..Modulus-1]
      /\ \A k \in Loop :
           counter'[k] = IF k \in dec /\ id.valid /\ in.id_ready
                         THEN (IF counter[k] = 0 THEN Modulus - 1 ELSE counter[k] - 1)
                         ELSE counter[k]
  BY <1>1, InputsAre, CountStage DEF LoopInv
<1>3. TypeInv' /\ StaysInId(in)
  BY <1>1, <1>2, StopsFetch DEF Flushing, LoopInv, TypeInv, States
<1>4. CASE ~in.id_ready
  <2>1. counter' = counter
    BY <1>2, <1>4 DEF LoopInv, TypeInv
  <2> QED
    BY <1>1, <1>3, <1>4, <2>1, StallKeeps
<1>5. CASE in.id_ready
  <2>1. ~id'.valid /\ ctrl_fsm_cs' \in {"FLUSH_EX", "DBG_FLUSH"}
    BY <1>1, <1>3, <1>5 DEF StaysInId
  <2>2. ctrl_fsm_cs' = "DBG_FLUSH" => id.kind = "csr" /\ ~debug_mode_q
    BY <1>1, <1>5 DEF Stepping, Decoding
  <2>3. Fetched'
    BY <1>1, <1>3, <2>1 DEF StaysInId, LoopInv, Fetched
  <2>4. InDecode' /\ InLoop' /\ InLoopId' /\ InLoopIf' /\ InLoad' /\ NoJump'
    BY <1>3, <2>1 DEF StaysInId, InDecode, InLoop, InLoopId, InLoopIf, InLoad, NoJump, Loads
  <2>5. Where'
    <3>1. ctrl_fsm_cs' = "DBG_FLUSH" => Upcoming' = pc_if /\ pc_if \in Program
      BY <1>1, <1>3, <2>2, InId, UpcomingNext
      DEF StaysInId, UpcomingTable, EntersBefore, Runs
    <3>2. ~debug_req_entry_q'
      BY <1>1, <1>3, InId DEF StaysInId
    <3> QED
      BY <1>1, <1>3, <2>1, <2>2, <3>1, <3>2, PlacesAre
      DEF StaysInId, LoopInv, Where, Halts, Decoding
  <2>6. InFlush'
    <3>1. debug_mode_q <=> id.kind = "dret"
      BY <1>1, InId
    <3>2. id.kind = "csr" => pc_if = id.pc + 1 \/ CsrTarget' # NoPc
      <4>1. CASE \E k \in Loop : id.pc + 1 = End[k] /\ counter[k] > 1
        <5>1. PICK k \in Loop : id.pc + 1 = End[k] /\ counter[k] > 1
          BY <4>1
        <5>2. id.kind = "csr" => counter'[k] = counter[k] - 1
          BY <1>1, <1>2, <1>5, <5>1 DEF hwlp_end_eq_pc, LoopInv, TypeInv
        <5>3. id.kind = "csr" => hwlp_end_eq_pc(k)' /\ counter'[k] # 0
          BY <1>3, <5>1, <5>2 DEF hwlp_end_eq_pc, StaysInId, LoopInv, TypeInv
        <5>4. hwlp_targ_addr' \in Nat
          BY HwLoopAssumption DEF HwLoopAssumption, hwlp_targ_addr
        <5> QED
          BY <5>3, <5>4, PlacesAre DEF CsrTarget
      <4>2. CASE \A k \in Loop : ~(id.pc + 1 = End[k] /\ counter[k] > 1)
        BY <1>1, <4>2, InId DEF LoopInv, InLoopId, Again, Decoding, Runs
      <4> QED
        BY <4>1, <4>2
    <3> QED
      BY <1>1, <1>3, <2>1, <3>1, <3>2 DEF StaysInId, InFlush, Flushes
  <2> QED
    BY <1>3, <2>3, <2>4, <2>5, <2>6 DEF LoopInv
<1> QED
  BY <1>4, <1>5

LEMMA EventLoadKeeps ==
    ASSUME LoopInv, NEW in \in Inputs, EventLoad(in)
    PROVE  LoopInv'
<1>1. /\ Decodes(in) /\ Decoding /\ id.valid /\ id.kind = "elw"
      /\ ctrl_fsm_cs' = IF ~in.id_ready THEN ctrl_fsm_cs
                        ELSE IF Stepping THEN "DBG_FLUSH" ELSE "ELW_EXE"
  BY DEF EventLoad, Decodes
<1>2. counter' = counter
  <2>1. counter' = [k \in Loop |-> counter[k]]
    BY DEF EventLoad, CountDown
  <2> QED
    BY <2>1 DEF LoopInv, TypeInv
<1>3. TypeInv' /\ StaysInId(in)
  BY <1>1, <1>2, StopsFetch DEF EventLoad, LoopInv, TypeInv, States
<1>4. CASE ~in.id_ready
  BY <1>1, <1>2, <1>3, <1>4, StallKeeps
<1>5. CASE in.id_ready
  <2>1. ~id'.valid /\ ctrl_fsm_cs' \in {"ELW_EXE", "DBG_FLUSH"}
    BY <1>1, <1>3, <1>5 DEF StaysInId
  <2>2. /\ id.pc \in Program /\ ~debug_mode_q /\ pc_if \in Program /\ ~debug_req_entry_q
        /\ ctrl_fsm_cs = "DECODE" => pc_if = id.pc + 1
    BY <1>1, InId DEF NotReturn, Runs
  <2>3. Fetched'
    BY <1>1, <1>3, <2>1 DEF StaysInId, LoopInv, Fetched
  <2>4. InDecode' /\ InLoop' /\ InLoopId' /\ InLoopIf' /\ InFlush' /\ NoJump'
    BY <1>3, <2>1 DEF StaysInId, InDecode, InLoop, InLoopId, InLoopIf, InFlush, NoJump, Flushes
  <2>5. Where'
    <3>1. Upcoming' = id.pc
      BY <1>1, <1>3, <2>1, UpcomingNext DEF StaysInId, UpcomingTable, EntersBefore
    <3> QED
      BY <1>3, <2>1, <2>2, <3>1, PlacesAre DEF StaysInId, LoopInv, Where
  <2>6. InLoad'
    <3>1. (\A k \in Loop : id.pc + 1 # End[k]) => pc_if = id.pc + 1
      BY <1>1, <2>2 DEF LoopInv, InLoopId, Again, Decoding
    <3> QED
      BY <1>1, <1>3, <2>2, <3>1 DEF StaysInId, InLoad
  <2> QED
    BY <1>3, <2>3, <2>4, <2>5, <2>6 DEF LoopInv
<1> QED
  BY <1>4, <1>5

\* An instruction that runs in ID leaves it to the next one ...
Followed(in, set, jump, next) ==
    in.id_ready /\ ~Stepping /\ set = NoPc /\ Takes(jump) /\ ctrl_fsm_cs' = next

\* ... or to nothing, because the PC is set, the word is missing or stepping ends ...
Left(in, set, jump, next) ==
    /\ in.id_ready /\ Keeps(in, FALSE, set, jump) /\ ~id'.valid
    /\ ctrl_fsm_cs' = IF Stepping THEN "DBG_FLUSH" ELSE next

\* ... or stays.
Stalled(in, set, jump, next) ==
    ~in.id_ready /\ Keeps(in, FALSE, set, jump) /\ id'.valid /\ ctrl_fsm_cs' = next

LEMMA RunStage ==
    ASSUME LoopInv, NEW in \in Inputs, Decodes(in), id.kind \in {"plain", "count", "jump"},
           NEW set \in Nat \cup {NoPc}, NEW jump \in Nat \cup {NoPc},
           NEW next \in {"DECODE", "DECODE_HWLOOP"},
           set \in Program \/ (set = NoPc /\ pc_if \in Program),
           Fetch(in, Stepping, FALSE, set, jump), AfterDecode(in, next),
           UNCHANGED <<debug_mode_q, debug_req_entry_q, csr>>,
           jump_done_q' \in BOOLEAN, hwlp_end_4_id_q' \in BOOLEAN,
           counter' \in [Loop -> 0..Modulus-1]
    PROVE  /\ \/ Followed(in, set, jump, next)
              \/ Left(in, set, jump, next)
              \/ Stalled(in, set, jump, next)
           /\ TypeInv' /\ Fetched' /\ Where' /\ InFlush' /\ InLoad'
           /\ Upcoming' = IF ~in.id_ready THEN id.pc ELSE IF set # NoPc THEN set ELSE pc_if
<1>1. /\ in \in InputType
      /\ in.fetch_valid => in.id_ready
  BY InputsAre
<1>2. Decoding /\ id.valid /\ Stepping \in BOOLEAN
  BY DEF Decodes, Stepping, LoopInv, TypeInv, CsrType
<1>3. /\ pc_if' \in Nat /\ hwlp_update_pc_q' \in BOOLEAN /\ hwlp_addr_q' \in Nat
      /\ id' \in IdType
      /\ \/ ~Stepping /\ set = NoPc /\ in.fetch_valid /\ in.id_ready /\ Takes(jump)
         \/ Keeps(in, FALSE, set, jump)
  BY <1>1, <1>2, FetchStage DEF LoopInv
<1>4. ctrl_fsm_cs' = IF Stepping /\ in.id_ready THEN "DBG_FLUSH" ELSE next
  BY DEF AfterDecode
<1>5. TypeInv'
  BY <1>3, <1>4 DEF LoopInv, TypeInv, States
<1>6. \/ Followed(in, set, jump, next)
      \/ Left(in, set, jump, next)
      \/ Stalled(in, set, jump, next)
  <2>1. CASE ~Stepping /\ set = NoPc /\ in.id_ready /\ Takes(jump)
    BY <2>1, <1>4 DEF Followed
  <2>2. CASE Keeps(in, FALSE, set, jump)
    <3>1. id'.valid <=> ~in.id_ready
      BY <2>2, <1>2 DEF Keeps
    <3> QED
      BY <2>2, <3>1, <1>4 DEF Left, Stalled
  <2> QED
    BY <1>3, <2>1, <2>2
<1>7. /\ id.pc \in Program /\ id.kind \in KindsAt(id.pc) /\ ~debug_mode_q
      /\ ~debug_req_entry_q
  BY <1>2, InId DEF NotReturn
<1>8. ~debug_mode_q' /\ ~debug_req_entry_q' /\ csr' = csr
  BY <1>7
<1>9. /\ Fetched'
      /\ Upcoming' = IF ~in.id_ready THEN id.pc ELSE IF set # NoPc THEN set ELSE pc_if
  <2>1. CASE Followed(in, set, jump, next)
    <3>1. pc_if \in Program /\ id'.valid /\ id'.pc = pc_if /\ id'.kind \in KindsAt(pc_if)
      BY <2>1, PlacesAre DEF Followed, Takes
    <3>2. ctrl_fsm_cs' \in {"DECODE", "DECODE_HWLOOP"} /\ Decoding'
      BY <2>1 DEF Followed, Decoding
    <3>3. Upcoming' = pc_if
      BY <3>1, <3>2, UpcomingNext DEF UpcomingTable
    <3> QED
      BY <2>1, <3>1, <3>2, <3>3, PlacesAre DEF Followed, Fetched
  <2>2. CASE Left(in, set, jump, next)
    <3>1. ~id'.valid /\ id'.pc = id.pc /\ id'.kind = id.kind
          /\ pc_if' = (IF set # NoPc THEN set ELSE pc_if)
      BY <2>2 DEF Left, Keeps
    <3>2. ctrl_fsm_cs' = "DBG_FLUSH" => ~EntersBefore'
      BY <1>8, <3>1 DEF EntersBefore
    <3>3. Upcoming' = pc_if'
      BY <2>2, <3>1, <3>2, UpcomingNext DEF Left, UpcomingTable, Decoding
    <3> QED
      BY <2>2, <1>7, <3>1, <3>3, PlacesAre DEF Left, Fetched, Decoding
  <2>3. CASE Stalled(in, set, jump, next)
    <3>1. id'.valid /\ id'.pc = id.pc /\ id'.kind = id.kind /\ ~in.id_ready
      BY <2>3 DEF Stalled, Keeps
    <3>2. ctrl_fsm_cs' \in {"DECODE", "DECODE_HWLOOP"} /\ Decoding'
      BY <2>3 DEF Stalled, Decoding
    <3>3. Upcoming' = id.pc
      BY <3>1, <3>2, UpcomingNext DEF UpcomingTable
    <3> QED
      BY <1>7, <3>1, <3>2, <3>3, PlacesAre DEF Fetched
  <2> QED
    BY <1>6, <2>1, <2>2, <2>3
<1>10. Upcoming' \in Program
  BY <1>7, <1>9, PlacesAre
<1>11. Where'
  BY <1>8, <1>10, PlacesAre DEF LoopInv, Where
<1>12. InFlush' /\ InLoad'
  BY <1>4 DEF InFlush, InLoad, Flushes, Loads
<1> QED
  BY <1>5, <1>6, <1>9, <1>11, <1>12

LEMMA DecodeJumpKeeps ==
    ASSUME LoopInv, NEW in \in Inputs, DecodeJump(in)
    PROVE  LoopInv'
<1> DEFINE set == IF jump_done_q THEN NoPc ELSE 0
<1>1. /\ Decodes(in) /\ Decoding /\ id.valid /\ id.kind = "jump" /\ ctrl_fsm_cs = "DECODE"
      /\ Fetch(in, Stepping, FALSE, set, NoPc) /\ AfterDecode(in, "DECODE")
      /\ JumpDone(in, set # NoPc) /\ hwlp_end_4_id_q' = FALSE
      /\ UNCHANGED <<debug_mode_q, debug_req_entry_q, csr>>
  BY DEF DecodeJump, Decodes
<1>2. /\ set \in Nat \cup {NoPc}
      /\ set \in Program \/ (set = NoPc /\ pc_if \in Program)
      /\ set # NoPc <=> ~jump_done_q
      /\ set = NoPc => pc_if = 0
      /\ set # NoPc => set = 0
  BY <1>1, PlacesAre DEF LoopInv, InDecode
<1> HIDE DEF set
<1>3. counter' = counter
  <2>1. counter' = [k \in Loop |-> counter[k]]
    BY DEF DecodeJump, CountDown
  <2> QED
    BY <2>1 DEF LoopInv, TypeInv
<1>4. jump_done_q' \in BOOLEAN /\ (jump_done_q' <=> ~in.id_ready)
  BY <1>1, <1>2 DEF JumpDone
<1>5. /\ \/ Followed(in, set, NoPc, "DECODE")
         \/ Left(in, set, NoPc, "DECODE")
         \/ Stalled(in, set, NoPc, "DECODE")
      /\ TypeInv' /\ Fetched' /\ Where' /\ InFlush' /\ InLoad'
  BY <1>1, <1>2, <1>3, <1>4, RunStage DEF LoopInv, TypeInv
<1>6. ~hwlp_update_pc_q
  BY <1>1, InId
<1>7. InDecode' /\ NoJump'
  <2>1. CASE Followed(in, set, NoPc, "DECODE")
    BY <2>1, <1>4, <1>6 DEF Followed, Takes, InDecode, NoJump
  <2>2. CASE Left(in, set, NoPc, "DECODE")
    BY <2>2, <1>6 DEF Left, Keeps, InDecode, NoJump
  <2>3. CASE Stalled(in, set, NoPc, "DECODE")
    BY <2>3, <1>1, <1>2, <1>4, <1>6 DEF Stalled, Keeps, InDecode, NoJump
  <2> QED
    BY <1>5, <2>1, <2>2, <2>3
<1>8. ctrl_fsm_cs' \in {"DECODE", "DBG_FLUSH"}
  BY <1>5 DEF Followed, Left, Stalled
<1> QED
  BY <1>5, <1>7, <1>8 DEF LoopInv, InLoop, InLoopId, InLoopIf

\* What cv.count and the ends of the loops do to the counters.
LEMMA CountedStage ==
    ASSUME LoopInv, NEW in \in Inputs, id.valid, NEW dec \in SUBSET Loop, Counted(in, dec)
    PROVE  /\ counter' \in [Loop -> 0..Modulus-1]
           /\ ~in.id_ready => counter' = counter
           /\ id.kind # "count" =>
                \A k \in Loop :
                  counter'[k] = IF k \in dec /\ in.id_ready
                                THEN (IF counter[k] = 0 THEN Modulus - 1 ELSE counter[k] - 1)
                                ELSE counter[k]
           /\ id.kind = "count" /\ in.id_ready =>
                \E k \in Loop, n \in Counts :
                  id.pc + 1 = Start[k] /\ counter' = [counter EXCEPT ![k] = n]
<1>1. in \in InputType
  BY InputsAre
<1>2. CASE id.kind # "count"
  <2>1. CountDown(in, FALSE, dec)
    BY <1>2 DEF Counted
  <2>2. /\ counter' \in [Loop -> 0..Modulus-1]
        /\ \A k \in Loop :
             counter'[k] = IF k \in dec /\ id.valid /\ in.id_ready
                           THEN (IF counter[k] = 0 THEN Modulus - 1 ELSE counter[k] - 1)
                           ELSE counter[k]
    BY <1>1, <2>1, CountStage DEF LoopInv
  <2> QED
    BY <1>2, <2>2 DEF LoopInv, TypeInv
<1>3. CASE id.kind = "count"
  BY <1>3, HwLoopAssumption DEF Counted, WritesCount, HwLoopAssumption, LoopInv, TypeInv
<1> QED
  BY <1>2, <1>3

LastPass(k) == id.pc + 1 = End[k] /\ counter[k] > 1

\* What an instruction does that leaves ID: it counts the pass it completes, and the
\* program goes on at the start of the loop as long as passes are left.
Executes(in) ==
    IF ~in.id_ready THEN Upcoming' = id.pc /\ counter' = counter
    ELSE /\ \A k \in Loop : LastPass(k) => Upcoming' = Start[k]
         /\ (\A k \in Loop : ~LastPass(k)) => Upcoming' = id.pc + 1
         /\ IF id.kind = "count"
            THEN \E k \in Loop, n \in Counts :
                   id.pc + 1 = Start[k] /\ counter' = [counter EXCEPT ![k] = n]
            ELSE \A k \in Loop :
                   counter'[k] = IF id.pc + 1 = End[k] /\ counter[k] > 0
                                 THEN counter[k] - 1 ELSE counter[k]

LEMMA DecodePlainKeeps ==
    ASSUME LoopInv, NEW in \in Inputs, DecodePlain(in)
    PROVE  LoopInv' /\ Executes(in)
<1> DEFINE last  == {k \in Loop : hwlp_end_eq_pc(k)}
           jumps == is_hwlp_body /\ \E k \in last : counter[k] > 1
           set   == IF jumps /\ ~jump_done_q THEN hwlp_targ_addr ELSE NoPc
           stays == \E k \in Loop : hwlp_end_eq_pc_plus4(k)
           next  == IF is_hwlp_body /\ ~stays THEN "DECODE_HWLOOP" ELSE "DECODE"
           dec   == {k \in last : counter[k] = 1 \/ (set # NoPc /\ counter[k] > 1)}
<1>1. /\ Decodes(in) /\ Decoding /\ id.valid /\ id.kind \in {"plain", "count"}
      /\ ctrl_fsm_cs = "DECODE"
      /\ Fetch(in, Stepping, FALSE, set, NoPc) /\ AfterDecode(in, next) /\ Counted(in, dec)
      /\ JumpDone(in, set # NoPc) /\ hwlp_end_4_id_q' = FALSE
      /\ UNCHANGED <<debug_mode_q, debug_req_entry_q, csr>>
      /\ dec \in SUBSET Loop
  BY DEF DecodePlain, Decodes
<1>2. /\ id.pc \in Nat /\ pc_if = id.pc + 1 /\ ~jump_done_q /\ ~hwlp_update_pc_q
      /\ pc_if \in Program
  BY <1>1, InId DEF Runs
<1>3. /\ \A k \in Loop : id.pc + 1 = End[k] /\ counter[k] > 1 => set = Start[k]
      /\ (\A k \in Loop : ~(id.pc + 1 = End[k] /\ counter[k] > 1)) => set = NoPc
      /\ set # NoPc => next = "DECODE_HWLOOP" /\ \E k \in Loop : set = Start[k] /\ id.pc + 1 = End[k]
  <2>1. \A k \in Loop : hwlp_end_eq_pc(k) <=> id.pc + 1 = End[k]
    BY <1>2, Geometry DEF hwlp_end_eq_pc
  <2>2. jumps <=> \E k \in Loop : id.pc + 1 = End[k] /\ counter[k] > 1
    BY <2>1, <1>2, Geometry DEF is_hwlp_body, InRange
  <2>3. \A k \in Loop : id.pc + 1 = End[k] => hwlp_targ_addr = Start[k]
    BY <1>2, <2>1, TargetAtEnd
  <2>4. (\E k \in Loop : id.pc + 1 = End[k]) => ~stays
    BY <1>2, Geometry DEF hwlp_end_eq_pc_plus4
  <2>5. jumps => is_hwlp_body
    OBVIOUS
  <2>6. jumps => set \in Nat
    BY <1>2, <2>2, <2>3, Geometry
  <2> HIDE DEF last, jumps, stays
  <2> QED
    BY <1>2, <2>2, <2>3, <2>4, <2>5, <2>6, PlacesAre
<1>4. /\ set \in Nat \cup {NoPc}
      /\ set \in Program \/ (set = NoPc /\ pc_if \in Program)
      /\ \A k \in Loop : Start[k] \in Program /\ Start[k] # NoPc
  <2>1. \A k \in Loop : Start[k] \in Program /\ Start[k] \in Nat /\ Start[k] # NoPc
    BY StartsAre
  <2>2. set = NoPc \/ \E k \in Loop : set = Start[k]
    BY <1>3
  <2> QED
    BY <1>2, <2>1, <2>2
<1>5. /\ next \in {"DECODE", "DECODE_HWLOOP"}
      /\ next = "DECODE_HWLOOP" => /\ \E k \in Loop : Body(id.pc, k) /\ counter[k] > 1
                                   /\ \A k \in Loop : id.pc + 2 # End[k]
  BY <1>2, Geometry DEF is_hwlp_body, InRange, Body, hwlp_end_eq_pc_plus4
<1> HIDE DEF set, next, dec
<1>6. counter' \in [Loop -> 0..Modulus-1] /\ (~in.id_ready => counter' = counter)
  BY <1>1, CountedStage
<1>7. jump_done_q' \in BOOLEAN /\ (jump_done_q' <=> set # NoPc /\ ~in.id_ready)
  BY <1>1, <1>2 DEF JumpDone
<1>8. /\ \/ Followed(in, set, NoPc, next)
         \/ Left(in, set, NoPc, next)
         \/ Stalled(in, set, NoPc, next)
      /\ TypeInv' /\ Fetched' /\ Where' /\ InFlush' /\ InLoad'
      /\ Upcoming' = IF ~in.id_ready THEN id.pc ELSE IF set # NoPc THEN set ELSE pc_if
  BY <1>1, <1>4, <1>5, <1>6, <1>7, RunStage
<1>9. ~hwlp_update_pc_q' /\ ~hwlp_end_4_id_q'
  BY <1>1, <1>2, <1>8 DEF Followed, Left, Stalled, Takes, Keeps
<1>10. ASSUME Followed(in, set, NoPc, next)
       PROVE  LoopInv'
  <2>1. /\ id'.valid /\ id'.pc = id.pc + 1 /\ pc_if' = id.pc + 2 /\ ~jump_done_q'
        /\ set = NoPc /\ ctrl_fsm_cs' = next
    BY <1>2, <1>7, <1>10 DEF Followed, Takes
  <2>2. InDecode'
    BY <1>2, <2>1 DEF InDecode
  <2>3. next = "DECODE_HWLOOP" =>
          (\E k \in Loop : Body(id.pc + 1, k)) /\ \A k \in Loop : id.pc + 2 # End[k]
    <3>1. \A k \in Loop : counter[k] > 1 => id.pc + 1 # End[k]
      BY <1>3, <2>1, Geometry, PlacesAre
    <3>2. \A k \in Loop : Body(id.pc, k) /\ id.pc + 1 # End[k] => Body(id.pc + 1, k)
      BY <1>2, Geometry DEF Body
    <3> QED
      BY <1>5, <3>1, <3>2
  <2>4. InLoop'
    BY <1>2, <2>1, <2>3 DEF InLoop, Body
  <2>5. InLoopId' /\ InLoopIf' /\ NoJump'
    BY <1>2, <1>9, <2>1, <2>3 DEF InLoopId, InLoopIf, NoJump, Again
  <2> QED
    BY <1>8, <2>2, <2>4, <2>5 DEF LoopInv
<1>11. ASSUME Left(in, set, NoPc, next)
       PROVE  LoopInv'
  <2>1. /\ ~id'.valid /\ pc_if' = (IF set # NoPc THEN set ELSE id.pc + 1)
        /\ ctrl_fsm_cs' \in {next, "DBG_FLUSH"}
    BY <1>2, <1>11 DEF Left, Keeps
  <2>2. next = "DECODE_HWLOOP" =>
          (\E k \in Loop : Body(pc_if', k)) /\ \A k \in Loop : pc_if' + 1 # End[k]
    <3>1. CASE set = NoPc
      <4>1. \A k \in Loop : counter[k] > 1 => id.pc + 1 # End[k]
        BY <1>3, <3>1, Geometry, PlacesAre
      <4>2. \A k \in Loop : Body(id.pc, k) /\ id.pc + 1 # End[k] => Body(id.pc + 1, k)
        BY <1>2, Geometry DEF Body
      <4>3. pc_if' = id.pc + 1 /\ pc_if' + 1 = id.pc + 2
        BY <1>2, <2>1, <3>1
      <4> QED
        BY <1>5, <4>1, <4>2, <4>3
    <3>2. CASE set # NoPc
      BY <1>3, <2>1, <3>2, Geometry DEF Body
    <3> QED
      BY <3>1, <3>2
  <2>3. InLoop'
    BY <2>1, <2>2 DEF InLoop, Body
  <2>4. InDecode' /\ InLoopId' /\ InLoopIf' /\ NoJump'
    BY <1>9, <2>1, <2>2 DEF InDecode, InLoopId, InLoopIf, NoJump, Again
  <2> QED
    BY <1>8, <2>3, <2>4 DEF LoopInv
<1>12. ASSUME Stalled(in, set, NoPc, next)
       PROVE  LoopInv'
  <2>1. /\ id'.valid /\ id'.pc = id.pc /\ pc_if' = (IF set # NoPc THEN set ELSE id.pc + 1)
        /\ ctrl_fsm_cs' = next /\ counter' = counter /\ (jump_done_q' <=> set # NoPc)
    BY <1>2, <1>6, <1>7, <1>12 DEF Stalled, Keeps
  <2>2. InDecode'
    BY <1>3, <2>1 DEF InDecode
  <2>3. InLoop'
    <3>1. next = "DECODE_HWLOOP" =>
            /\ \E k \in Loop : Body(id.pc, k)
            /\ \A k \in Loop : counter[k] =< 1 => \E j \in Loop : j # k /\ Body(id.pc, j)
      BY <1>5 DEF LoopInv, TypeInv
    <3> QED
      BY <2>1, <3>1 DEF InLoop, Body
  <2>4. /\ \A k \in Loop : id.pc + 1 = End[k] /\ counter[k] > 1 => pc_if' = Start[k]
        /\ (\A k \in Loop : ~(id.pc + 1 = End[k] /\ counter[k] > 1)) => pc_if' = id.pc + 1
        /\ jump_done_q' => \E k \in Loop : id.pc + 1 = End[k]
    BY <1>3, <1>4, <2>1
  <2>5. InLoopId' /\ InLoopIf' /\ NoJump'
    BY <1>9, <2>1, <2>4 DEF InLoopId, InLoopIf, NoJump, Again
  <2> QED
    BY <1>8, <2>2, <2>3, <2>5 DEF LoopInv
<1>13. Executes(in)
  <2>1. /\ in.id_ready /\ id.kind = "count" =>
             \E k \in Loop, n \in Counts :
               id.pc + 1 = Start[k] /\ counter' = [counter EXCEPT ![k] = n]
        /\ in.id_ready /\ id.kind # "count" =>
             \A k \in Loop :
               counter'[k] = IF id.pc + 1 = End[k] /\ counter[k] > 0
                             THEN counter[k] - 1 ELSE counter[k]
    <3>1. \A k \in Loop : k \in dec <=> id.pc + 1 = End[k] /\ counter[k] > 0
      <4>1. \A k \in Loop :
              k \in dec <=> /\ id.pc + 1 = End[k]
                            /\ counter[k] = 1 \/ (set # NoPc /\ counter[k] > 1)
        BY <1>2, Geometry DEF dec, hwlp_end_eq_pc
      <4>2. \A k \in Loop : id.pc + 1 = End[k] /\ counter[k] > 1 => set # NoPc
        BY <1>3, <1>4
      <4> QED
        BY <4>1, <4>2 DEF LoopInv, TypeInv
    <3>2. /\ id.kind # "count" =>
               \A k \in Loop :
                 counter'[k] = IF k \in dec /\ in.id_ready
                               THEN (IF counter[k] = 0 THEN Modulus - 1 ELSE counter[k] - 1)
                               ELSE counter[k]
          /\ id.kind = "count" /\ in.id_ready =>
               \E k \in Loop, n \in Counts :
                 id.pc + 1 = Start[k] /\ counter' = [counter EXCEPT ![k] = n]
      BY <1>1, CountedStage
    <3> QED
      BY <3>1, <3>2 DEF LoopInv, TypeInv
  <2>2. in.id_ready => /\ \A k \in Loop : LastPass(k) => Upcoming' = Start[k]
                       /\ (\A k \in Loop : ~LastPass(k)) => Upcoming' = id.pc + 1
    BY <1>2, <1>3, <1>4, <1>8 DEF LastPass
  <2> QED
    BY <1>6, <1>8, <2>1, <2>2 DEF Executes
<1> QED
  BY <1>8, <1>10, <1>11, <1>12, <1>13

\* In DECODE_HWLOOP: the fetch stage, and the jump that is raised or waits.
NearAgain(k) == id.pc + 2 = End[k] /\ counter[k] > 1

LEMMA LoopFetch ==
    ASSUME LoopInv, ctrl_fsm_cs = "DECODE_HWLOOP", id.valid, id.kind \in {"plain", "count"}
    PROVE  /\ \A k \in Loop : LastPass(k) => pc_if = Start[k]
           /\ (\A k \in Loop : ~LastPass(k)) => pc_if = id.pc + 1
           /\ \A k \in Loop : id.pc + 2 = End[k] => /\ pc_if = id.pc + 1
                                                    /\ \A j \in Loop : id.pc + 1 # End[j]
           /\ \A k \in Loop : NearAgain(k) =>
                IF hwlp_end_4_id_q THEN hwlp_update_pc_q /\ hwlp_addr_q = Start[k]
                ELSE ~hwlp_update_pc_q
           /\ hwlp_update_pc_q => \E k \in Loop : NearAgain(k)
<1>1. id.pc \in Nat
  BY DEF LoopInv, TypeInv, IdType
<1>2. /\ \A k \in Loop : LastPass(k) => pc_if = Start[k]
      /\ (\A k \in Loop : ~LastPass(k)) => pc_if = id.pc + 1
      /\ hwlp_update_pc_q => /\ hwlp_end_4_id_q
                             /\ \E k \in Loop : id.pc + 2 = End[k] /\ Pending(k)
      /\ hwlp_end_4_id_q => hwlp_update_pc_q \/ \E k \in Loop : id.pc + 1 = End[k]
  BY DEF LoopInv, InLoopId, Again, LastPass
<1>3. \A j, k \in Loop : id.pc + 2 = End[k] => id.pc + 1 # End[j]
  BY <1>1, Geometry
<1>4. \A j, k \in Loop : id.pc + 2 = End[k] /\ id.pc + 2 = End[j] => j = k
  BY <1>1, Geometry
<1>5. \A k \in Loop : NearAgain(k) =>
        IF hwlp_end_4_id_q THEN hwlp_update_pc_q /\ hwlp_addr_q = Start[k]
        ELSE ~hwlp_update_pc_q
  BY <1>2, <1>3, <1>4 DEF NearAgain, Pending
<1>6. hwlp_update_pc_q => \E k \in Loop : NearAgain(k)
  BY <1>2 DEF NearAgain, Pending
<1>7. \A k \in Loop : id.pc + 2 = End[k] => pc_if = id.pc + 1
  BY <1>2, <1>3 DEF LastPass
<1> QED
  BY <1>2, <1>3, <1>5, <1>6, <1>7

LEMMA DecodeHwloopKeeps ==
    ASSUME LoopInv, NEW in \in Inputs, DecodeHwloop(in)
    PROVE  LoopInv' /\ Executes(in)
<1> DEFINE near   == {k \in Loop : hwlp_end_eq_pc_plus4(k)}
           again  == {k \in near : counter[k] > 1}
           jump   == IF again = {} \/ hwlp_end_4_id_q THEN NoPc
                     ELSE IF 0 \in again THEN Start0 ELSE Start1
           leaves == IF 0 \in near THEN 0 \notin again ELSE 1 \in near \ again
           next   == IF leaves /\ ~is_hwlp_body THEN "DECODE" ELSE "DECODE_HWLOOP"
           dec    == {k \in Loop : hwlp_end_eq_pc(k) /\ counter[k] # 0}
           body(a) == \E k \in Loop : Body(a, k)
           outer(a, k) == \E j \in Loop : j # k /\ Body(a, j)
<1>1. /\ Decodes(in) /\ Decoding /\ id.valid /\ id.kind \in {"plain", "count"}
      /\ ctrl_fsm_cs = "DECODE_HWLOOP"
      /\ Fetch(in, Stepping, FALSE, NoPc, jump) /\ AfterDecode(in, next) /\ Counted(in, dec)
      /\ JumpDone(in, FALSE) /\ hwlp_end_4_id_q' = (again # {})
      /\ UNCHANGED <<debug_mode_q, debug_req_entry_q, csr>>
      /\ dec \in SUBSET Loop
  BY DEF DecodeHwloop, Decodes
<1>2. id.pc \in Nat /\ pc_if \in Program /\ pc_if \in Nat
  BY <1>1, InId DEF Runs, LoopInv, TypeInv
<1>3. /\ \A k \in Loop : LastPass(k) => pc_if = Start[k]
      /\ (\A k \in Loop : ~LastPass(k)) => pc_if = id.pc + 1
      /\ \A k \in Loop : id.pc + 2 = End[k] => /\ pc_if = id.pc + 1
                                               /\ \A j \in Loop : id.pc + 1 # End[j]
      /\ \A k \in Loop : NearAgain(k) =>
           IF hwlp_end_4_id_q THEN hwlp_update_pc_q /\ hwlp_addr_q = Start[k]
           ELSE ~hwlp_update_pc_q
      /\ hwlp_update_pc_q => \E k \in Loop : NearAgain(k)
  BY <1>1, LoopFetch
<1>4. /\ again # {} <=> \E k \in Loop : NearAgain(k)
      /\ near # {} <=> \E k \in Loop : id.pc + 2 = End[k]
      /\ \A k \in Loop : NearAgain(k) => again = {k}
      /\ leaves => near # {} /\ again = {}
      /\ ~leaves => near = {} \/ again # {}
  <2>1. \A k \in Loop : /\ k \in near <=> id.pc + 2 = End[k]
                        /\ k \in again <=> NearAgain(k)
    BY <1>2, Geometry DEF hwlp_end_eq_pc_plus4, NearAgain
  <2>2. \A j, k \in near : j = k
    BY <1>2, <2>1, Geometry
  <2>3. near \subseteq {0, 1} /\ again \subseteq near
    BY Geometry
  <2> HIDE DEF near, again
  <2> QED
    BY <2>1, <2>2, <2>3, Geometry
<1>5. /\ jump \in Nat \cup {NoPc}
      /\ \A k \in Loop : NearAgain(k) =>
           jump = (IF hwlp_end_4_id_q THEN NoPc ELSE Start[k])
      /\ (\A k \in Loop : ~NearAgain(k)) => jump = NoPc
  <2>1. \A k \in Loop : again = {k} /\ ~hwlp_end_4_id_q => jump = Start[k]
    BY Geometry DEF Start
  <2>2. Start0 \in Nat /\ Start1 \in Nat
    BY HwLoopAssumption DEF HwLoopAssumption
  <2>3. again = {} \/ hwlp_end_4_id_q => jump = NoPc
    OBVIOUS
  <2>4. jump \in {NoPc, Start0, Start1}
    OBVIOUS
  <2> HIDE DEF jump, again
  <2> QED
    BY <1>4, <2>1, <2>2, <2>3, <2>4
<1>6. /\ next \in {"DECODE", "DECODE_HWLOOP"}
      /\ next = "DECODE" => (\E k \in Loop : id.pc + 2 = End[k]) /\ again = {}
      /\ next = "DECODE_HWLOOP" =>
           \/ \A k \in Loop : id.pc + 2 # End[k]
           \/ \E k \in Loop : NearAgain(k)
           \/ \E k \in Loop : Body(id.pc, k) /\ counter[k] > 1
  <2>1. is_hwlp_body => \E k \in Loop : Body(id.pc, k) /\ counter[k] > 1
    BY DEF is_hwlp_body, InRange, Body
  <2> HIDE DEF near, again, leaves
  <2> QED
    BY <1>4, <2>1
<1> HIDE DEF jump, next, near, again, leaves
<1>7. /\ counter' \in [Loop -> 0..Modulus-1] /\ (~in.id_ready => counter' = counter)
      /\ \A k \in Loop : id.pc + 2 = End[k] => counter'[k] = counter[k]
  <2>1. /\ counter' \in [Loop -> 0..Modulus-1] /\ (~in.id_ready => counter' = counter)
        /\ id.kind # "count" =>
             \A k \in Loop :
               counter'[k] = IF k \in dec /\ in.id_ready
                             THEN (IF counter[k] = 0 THEN Modulus - 1 ELSE counter[k] - 1)
                             ELSE counter[k]
        /\ id.kind = "count" /\ in.id_ready =>
             \E k \in Loop, n \in Counts :
               id.pc + 1 = Start[k] /\ counter' = [counter EXCEPT ![k] = n]
    BY <1>1, CountedStage
  <2>2. \A k \in Loop : id.pc + 2 = End[k] => id.pc + 1 # Start[k] /\ k \notin dec
    BY <1>2, Geometry DEF hwlp_end_eq_pc
  <2> QED
    BY <2>1, <2>2 DEF LoopInv, TypeInv
<1> HIDE DEF dec
<1>8. jump_done_q' \in BOOLEAN /\ (jump_done_q' <=> jump_done_q /\ ~in.id_ready)
  BY <1>1 DEF JumpDone
<1>9. /\ \/ Followed(in, NoPc, jump, next)
         \/ Left(in, NoPc, jump, next)
         \/ Stalled(in, NoPc, jump, next)
      /\ TypeInv' /\ Fetched' /\ Where' /\ InFlush' /\ InLoad'
      /\ Upcoming' = IF ~in.id_ready THEN id.pc ELSE pc_if
  <2>1. NoPc \in Nat \cup {NoPc} /\ hwlp_end_4_id_q' \in BOOLEAN
    BY <1>1
  <2> QED
    BY <1>1, <1>2, <1>5, <1>6, <1>7, <1>8, <2>1, RunStage
<1>10. next = "DECODE_HWLOOP" =>
         body(pc_if) /\ \A k \in Loop : pc_if + 1 = End[k] /\ counter'[k] =< 1 => outer(pc_if, k)
  <2>1. CASE \E k \in Loop : LastPass(k)
    BY <2>1, <1>3, Geometry DEF Body
  <2>2. CASE (\A k \in Loop : ~LastPass(k)) /\ \E k \in Loop : id.pc + 1 = End[k]
    <3>1. PICK k \in Loop : id.pc + 1 = End[k] /\ counter[k] =< 1
      BY <2>2 DEF LastPass, LoopInv, TypeInv
    <3>2. PICK j \in Loop : j # k /\ Body(id.pc, j)
      BY <1>1, <3>1 DEF LoopInv, InLoop
    <3>3. Body(id.pc + 1, j)
      BY <1>2, <3>1, <3>2, Geometry DEF Body
    <3>4. \A i \in Loop : id.pc + 2 # End[i]
      BY <1>3, <3>1
    <3> QED
      BY <1>2, <1>3, <2>2, <3>3, <3>4
  <2>3. CASE \A k \in Loop : id.pc + 1 # End[k]
    <3>1. pc_if = id.pc + 1 /\ pc_if + 1 = id.pc + 2
      BY <1>2, <1>3, <2>3 DEF LastPass
    <3>2. \A k \in Loop : Body(id.pc, k) => Body(pc_if, k)
      BY <1>2, <2>3, <3>1, Geometry DEF Body
    <3>3. body(pc_if)
      BY <1>1, <3>2 DEF LoopInv, InLoop
    <3>4. ASSUME NEW k \in Loop, id.pc + 2 = End[k], counter'[k] =< 1, next = "DECODE_HWLOOP"
          PROVE  outer(pc_if, k)
      <4>1. ~(counter[k] > 1)
        BY <3>4, <1>7 DEF LoopInv, TypeInv
      <4>2. \A j \in Loop : id.pc + 2 = End[j] => j = k
        BY <1>2, <3>4, Geometry
      <4>3. \E j \in Loop : Body(id.pc, j) /\ counter[j] > 1
        BY <1>6, <3>4, <4>1, <4>2 DEF NearAgain
      <4> QED
        BY <3>2, <4>1, <4>3
    <3> QED
      BY <3>1, <3>3, <3>4
  <2> QED
    BY <2>1, <2>2, <2>3
<1>11. \A k \in Loop : pc_if + 1 = End[k] => id.pc + 2 = End[k] /\ pc_if = id.pc + 1
  BY <1>2, <1>3, Geometry
<1>12. ASSUME Followed(in, NoPc, jump, next)
       PROVE  LoopInv'
  <2>1. /\ id'.valid /\ id'.pc = pc_if /\ ~jump_done_q' /\ ~hwlp_update_pc_q'
        /\ ctrl_fsm_cs' = next
        /\ pc_if' = IF jump # NoPc THEN jump
                    ELSE IF hwlp_update_pc_q THEN hwlp_addr_q ELSE pc_if + 1
    BY <1>8, <1>12 DEF Followed, Takes
  <2>2. \A k \in Loop : NearAgain(k) => pc_if' = Start[k]
    <3>1. \A k \in Loop : Start[k] # NoPc
      BY Geometry, PlacesAre
    <3> QED
      BY <1>3, <1>5, <2>1, <3>1
  <2>3. (\A k \in Loop : ~NearAgain(k)) => pc_if' = pc_if + 1
    BY <1>3, <1>5, <2>1
  <2>4. InDecode'
    BY <1>4, <1>6, <2>1, <2>3 DEF InDecode
  <2>5. InLoop'
    BY <1>10, <2>1 DEF InLoop, Body
  <2>6. InLoopId'
    <3>1. \A k \in Loop : pc_if + 1 = End[k] /\ counter'[k] > 1 <=> NearAgain(k)
      BY <1>3, <1>7, <1>11, <1>2 DEF NearAgain
    <3>2. hwlp_end_4_id_q' => \E k \in Loop : pc_if + 1 = End[k]
      BY <1>1, <1>4, <3>1
    <3> QED
      BY <2>1, <2>2, <2>3, <3>1, <3>2 DEF InLoopId, Again
  <2>7. InLoopIf' /\ NoJump'
    BY <2>1 DEF InLoopIf, NoJump
  <2> QED
    BY <1>9, <2>4, <2>5, <2>6, <2>7 DEF LoopInv
<1>13. ASSUME Keeps(in, FALSE, NoPc, jump)
       PROVE  /\ id'.pc = id.pc /\ id'.kind = id.kind /\ pc_if' = pc_if
              /\ \A k \in Loop : NearAgain(k) => hwlp_update_pc_q' /\ hwlp_addr_q' = Start[k]
              /\ hwlp_update_pc_q' => \E k \in Loop : NearAgain(k)
  <2>1. /\ id'.pc = id.pc /\ id'.kind = id.kind /\ pc_if' = pc_if
        /\ hwlp_update_pc_q' <=> hwlp_update_pc_q \/ jump # NoPc
        /\ hwlp_addr_q' = IF jump # NoPc THEN jump ELSE hwlp_addr_q
    BY <1>13 DEF Keeps
  <2>2. \A k \in Loop : Start[k] # NoPc
    BY Geometry, PlacesAre
  <2> QED
    BY <1>3, <1>5, <2>1, <2>2
<1>14. ASSUME Left(in, NoPc, jump, next)
       PROVE  LoopInv'
  <2>1. /\ ~id'.valid /\ ctrl_fsm_cs' \in {next, "DBG_FLUSH"} /\ pc_if' = pc_if
        /\ \A k \in Loop : NearAgain(k) => hwlp_update_pc_q' /\ hwlp_addr_q' = Start[k]
        /\ hwlp_update_pc_q' => \E k \in Loop : NearAgain(k)
    BY <1>13, <1>14 DEF Left
  <2>2. InLoop'
    BY <1>10, <2>1 DEF InLoop, Body
  <2>3. InLoopIf'
    <3>1. \A k \in Loop : pc_if + 1 = End[k] /\ counter'[k] > 1 <=> NearAgain(k)
      BY <1>3, <1>7, <1>11, <1>2 DEF NearAgain
    <3> QED
      BY <2>1, <3>1 DEF InLoopIf, Again, Pending
  <2>4. InDecode' /\ InLoopId'
    BY <2>1 DEF InDecode, InLoopId
  <2>5. NoJump'
    BY <1>4, <1>6, <2>1 DEF NoJump, Halts
  <2> QED
    BY <1>9, <2>2, <2>3, <2>4, <2>5 DEF LoopInv
<1>15. ASSUME Stalled(in, NoPc, jump, next)
       PROVE  LoopInv'
  <2>1. /\ id'.valid /\ ctrl_fsm_cs' = next /\ pc_if' = pc_if
        /\ id'.pc = id.pc /\ id'.kind = id.kind /\ counter' = counter
        /\ \A k \in Loop : NearAgain(k) => hwlp_update_pc_q' /\ hwlp_addr_q' = Start[k]
        /\ hwlp_update_pc_q' => \E k \in Loop : NearAgain(k)
        /\ jump_done_q' => \E k \in Loop : id.pc + 1 = End[k]
    BY <1>1, <1>7, <1>8, <1>13, <1>15 DEF Stalled, LoopInv, InLoopId
  <2>2. InLoop'
    BY <1>1, <2>1 DEF LoopInv, InLoop, Body
  <2>3. InLoopId'
    <3>1. hwlp_update_pc_q' =>
            hwlp_end_4_id_q' /\ \E k \in Loop : id.pc + 2 = End[k] /\ Pending(k)'
      BY <1>1, <1>4, <2>1 DEF NearAgain, Pending
    <3>2. hwlp_end_4_id_q' => hwlp_update_pc_q'
      BY <1>1, <1>4, <2>1
    <3> QED
      BY <1>1, <1>3, <2>1, <3>1, <3>2 DEF InLoopId, Again, LastPass
  <2>4. InDecode'
    BY <1>3, <1>6, <2>1 DEF InDecode
  <2>5. InLoopIf' /\ NoJump'
    BY <1>4, <1>6, <2>1 DEF InLoopIf, NoJump
  <2> QED
    BY <1>9, <2>2, <2>3, <2>4, <2>5 DEF LoopInv
<1>16. Executes(in)
  <2>1. in.id_ready => /\ \A k \in Loop : LastPass(k) => Upcoming' = Start[k]
                       /\ (\A k \in Loop : ~LastPass(k)) => Upcoming' = id.pc + 1
    BY <1>3, <1>9
  <2>2. \A k \in Loop : k \in dec <=> id.pc + 1 = End[k] /\ counter[k] > 0
    BY <1>2, Geometry DEF dec, hwlp_end_eq_pc, LoopInv, TypeInv
  <2>3. /\ id.kind # "count" =>
             \A k \in Loop :
               counter'[k] = IF k \in dec /\ in.id_ready
                             THEN (IF counter[k] = 0 THEN Modulus - 1 ELSE counter[k] - 1)
                             ELSE counter[k]
        /\ id.kind = "count" /\ in.id_ready =>
             \E k \in Loop, n \in Counts :
               id.pc + 1 = Start[k] /\ counter' = [counter EXCEPT ![k] = n]
    BY <1>1, CountedStage
  <2>4. id.kind # "count" /\ in.id_ready =>
          \A k \in Loop :
            counter'[k] = IF id.pc + 1 = End[k] /\ counter[k] > 0
                          THEN counter[k] - 1 ELSE counter[k]
    BY <2>2, <2>3 DEF LoopInv, TypeInv
  <2> QED
    BY <1>7, <1>9, <2>1, <2>3, <2>4 DEF Executes
<1> QED
  BY <1>9, <1>12, <1>14, <1>15, <1>16

-----------------------------------------------------------------------------
(* Software, and the invariant.                                            *)

LEMMA DebuggerCodeKeeps ==
    ASSUME LoopInv, DebuggerCode
    PROVE  LoopInv'
<1>1. /\ csr' \in CsrType /\ csr'.mepc = csr.mepc /\ csr'.dpc = csr.dpc
      /\ csr'.trap = csr.trap /\ csr'.ecall = csr.ecall
  <2>1. PICK s \in Steps : csr' = [csr EXCEPT !.step = s]
    BY DEF DebuggerCode
  <2>2. s \in BOOLEAN
    BY HwLoopAssumption DEF HwLoopAssumption
  <2> QED
    BY <2>1, <2>2 DEF LoopInv, TypeInv, CsrType
<1>2. /\ Decoding /\ id.valid
      /\ UNCHANGED <<ctrl_fsm_cs, jump_done_q, hwlp_end_4_id_q, debug_mode_q,
                     debug_req_entry_q, counter, pc_if, hwlp_update_pc_q, hwlp_addr_q, id>>
  BY DEF DebuggerCode
<1>3. Upcoming' = Upcoming
  BY <1>2, UpcomingIs, UpcomingNext DEF UpcomingTable, Decoding
<1>4. TypeInv' /\ Fetched' /\ InDecode' /\ InLoop' /\ InLoopId' /\ InLoopIf' /\ NoJump'
  BY <1>1, <1>2 DEF LoopInv, TypeInv, Fetched, InDecode, InLoop, InLoopId, InLoopIf, NoJump,
                    Decoding, Body, Again, Pending, Halts
<1>5. Where'
  BY <1>1, <1>2, <1>3 DEF LoopInv, Where, Decoding, Halts
<1>6. InFlush' /\ InLoad'
  BY <1>2 DEF InFlush, InLoad, Flushes, Loads, Decoding
<1> QED
  BY <1>4, <1>5, <1>6 DEF LoopInv

LEMMA HandlerCodeKeeps ==
    ASSUME LoopInv, HandlerCode
    PROVE  LoopInv'
<1> DEFINE ends == {k \in Loop : EndsBody(k)}
           k    == IF 0 \in ends THEN 0 ELSE 1
           next == IF ends # {} /\ counter[k] > 1 THEN Start[k] ELSE csr.mepc + 1
<1>1. /\ Decoding /\ id.valid /\ id.kind = "mret" /\ csr.ecall
      /\ csr' = [csr EXCEPT !.mepc = next, !.ecall = FALSE]
      /\ counter' = IF ends = {} THEN counter ELSE [counter EXCEPT ![k] = counter[k] - 1]
      /\ UNCHANGED <<ctrl_fsm_cs, jump_done_q, hwlp_end_4_id_q, debug_mode_q,
                     debug_req_entry_q, pc_if, hwlp_update_pc_q, hwlp_addr_q, id>>
  BY DEF HandlerCode
<1>2. counter' \in [Loop -> 0..Modulus-1]
  <2>1. ends # {} => k \in Loop /\ counter[k] > 0
    BY Geometry DEF EndsBody
  <2>2. counter \in [Loop -> 0..Modulus-1]
    BY DEF LoopInv, TypeInv
  <2>3. counter' = IF ends = {} THEN counter ELSE [counter EXCEPT ![k] = counter[k] - 1]
    BY <1>1
  <2> HIDE DEF ends, k
  <2>4. ends # {} => counter[k] \in 0..Modulus-1 /\ counter[k] - 1 \in 0..Modulus-1
    BY <2>1, <2>2, HwLoopAssumption DEF HwLoopAssumption
  <2> QED
    BY <2>2, <2>3, <2>4
<1>3. next \in Program
  <2>1. csr.mepc \in Program /\ csr.mepc # Exit
    BY <1>1 DEF LoopInv, TypeInv, CsrType, Where
  <2>2. Start[0] \in Program /\ Start[1] \in Program
    BY Geometry, PlacesAre
  <2> QED
    BY <2>1, <2>2, PlacesAre
<1> HIDE DEF next, ends, k
<1>4. csr' \in CsrType /\ csr'.dpc = csr.dpc /\ csr'.trap = csr.trap /\ ~csr'.ecall
  BY <1>1, <1>3 DEF LoopInv, TypeInv, CsrType
<1>5. ctrl_fsm_cs = "DECODE" /\ ~hwlp_update_pc_q
  <2>1. id.pc = Handler /\ ~hwlp_update_pc_q
    BY <1>1, InId
  <2>2. ctrl_fsm_cs # "DECODE_HWLOOP"
    BY <1>1, <2>1, Geometry, PlacesAre DEF LoopInv, InLoop, Body
  <2> QED
    BY <1>1, <2>1, <2>2 DEF Decoding
<1>6. Upcoming' = Upcoming
  BY <1>1, UpcomingIs, UpcomingNext DEF UpcomingTable, Decoding
<1>7. TypeInv' /\ Fetched' /\ InDecode' /\ InLoop' /\ InLoopId' /\ InLoopIf' /\ NoJump'
  BY <1>1, <1>2, <1>4, <1>5
  DEF LoopInv, TypeInv, Fetched, InDecode, InLoop, InLoopId, InLoopIf, NoJump, Decoding
<1>8. Where'
  BY <1>1, <1>4, <1>6 DEF LoopInv, Where, Decoding, Halts
<1>9. InFlush' /\ InLoad'
  BY <1>1, <1>5 DEF InFlush, InLoad, Flushes, Loads
<1> QED
  BY <1>7, <1>8, <1>9 DEF LoopInv

\* The reset state satisfies the invariant.
LEMMA LoopInit == Init => LoopInv
<1> SUFFICES ASSUME Init PROVE LoopInv
  OBVIOUS
<1> USE DEF Init
<1>1. Modulus \in Nat \ {0} /\ 0 \in Program
  BY HwLoopAssumption, PlacesAre DEF HwLoopAssumption
<1>2. TypeInv
  <2>1. counter \in [Loop -> 0..Modulus-1]
    BY <1>1
  <2>2. id \in IdType
    BY DEF IdType, Kinds
  <2>3. csr \in CsrType
    BY <1>1 DEF CsrType
  <2> QED
    BY <2>1, <2>2, <2>3 DEF TypeInv, States
<1>3. Fetched
  BY DEF Fetched, Decoding
<1>4. Where
  <2>1. Upcoming = 0
    BY UpcomingIs DEF UpcomingTable, Decoding
  <2> QED
    BY <1>1, <2>1, PlacesAre DEF Where, Halts
<1>5. InDecode /\ InFlush /\ InLoad /\ InLoop /\ InLoopId /\ InLoopIf /\ NoJump
  BY DEF InDecode, InFlush, InLoad, InLoop, InLoopId, InLoopIf, NoJump, Flushes, Loads
<1> QED
  BY <1>2, <1>3, <1>4, <1>5 DEF LoopInv

\* Every cycle and every step of software keeps it.
LEMMA LoopStep == LoopInv /\ [Next]_vars => LoopInv'
<1> SUFFICES ASSUME LoopInv, [Next]_vars PROVE LoopInv'
  OBVIOUS
<1>1. ASSUME NEW in \in Inputs, Cycle(in) PROVE LoopInv'
  BY <1>1, NoInstructionKeeps, HaltRequestKeeps, TakeIrqKeeps, FlushingKeeps, EventLoadKeeps,
     DecodeJumpKeeps, DecodePlainKeeps, DecodeHwloopKeeps, FlushExKeeps, FlushWbKeeps,
     XretJumpKeeps, ElwExeKeeps, IrqFlushElwKeeps, DbgFlushKeeps, DbgTakenKeeps DEF Cycle
<1>2. CASE UNCHANGED vars
  <2>1. Upcoming' = Upcoming
    BY <1>2 DEF vars, Upcoming, Decoding, EntersBefore, CsrTarget, hwlp_end_eq_pc,
                hwlp_targ_addr, InRange
  <2> QED
    BY <1>2, <2>1, SameTarget
    DEF vars, LoopInv, TypeInv, Fetched, Where, InDecode, InFlush, InLoad, InLoop, InLoopId,
        InLoopIf, NoJump, Decoding, Halts, Flushes, Loads, Body, Again, Pending
<1> QED
  BY <1>1, <1>2, DebuggerCodeKeeps, HandlerCodeKeeps DEF Next

\* In every reachable state the fetch stage, the IF/ID register, the counters and the
\* state of the controller agree as LoopInv says: the next PC is one ahead of ID, or the
\* start of the loop whose last instruction is in ID.
THEOREM LoopInvariant == Spec => []LoopInv
BY LoopInit, LoopStep, PTL DEF Spec

\* hwlp_jump_o is only raised while IF holds the last instruction of the body and no other
\* jump waits in the aligner, so that prefetcher and aligner redirect the same fetch.
THEOREM JumpsAreBehindLast == Spec => []JumpsBehindLast
<1>1. LoopInv => JumpsBehindLast
  <2> SUFFICES ASSUME LoopInv, NEW k \in LoopJumps
               PROVE  pc_if + 1 = End[k] /\ ~hwlp_update_pc_q
    BY DEF JumpsBehindLast
  <2>1. /\ k \in Loop /\ ctrl_fsm_cs = "DECODE_HWLOOP" /\ id.valid /\ id.pc \in Nat
        /\ id.kind \in {"plain", "count"} /\ ~hwlp_end_4_id_q /\ NearAgain(k)
    BY Geometry DEF LoopJumps, hwlp_end_eq_pc_plus4, NearAgain, LoopInv, TypeInv, IdType
  <2> QED
    BY <2>1, LoopFetch DEF NearAgain
<1> QED
  BY <1>1, LoopInvariant, PTL

\* DECODE_HWLOOP, which decodes no jump, return or fence, only ever has an instruction of
\* a loop body in ID.
THEOREM LoopStateStaysInBody == Spec => []LoopStateInBody
<1>1. LoopInv => LoopStateInBody
  BY DEF LoopInv, InLoop, LoopStateInBody, Body, InRange
<1> QED
  BY <1>1, LoopInvariant, PTL

-----------------------------------------------------------------------------
(* The refinement: a cycle that executes an instruction of the program is  *)
(* a step of HwLoopSpec, and every other one leaves the program where it   *)
(* is.                                                                     *)

Stutters == ProgramPc' = ProgramPc /\ counter' = counter

LEMMA OrderGeometry ==
    Order!Loop = Loop /\ Order!Start = Start /\ Order!End = End /\ Order!Exit = Exit
BY DEF Order!Loop, Order!Start, Order!End, Order!Exit, Loop, Start, End, Exit

\* Behind an instruction that counts nothing and sets no counter.
LEMMA StraightOn ==
    ASSUME ProgramPc # Exit, ProgramPc' = ProgramPc + 1, counter' = counter,
           \A k \in Loop : ProgramPc + 1 # Start[k] /\ ~(ProgramPc + 1 = End[k] /\ counter[k] > 0)
    PROVE  Order!Next
BY OrderGeometry DEF Order!Next, Order!Straight, Order!CompletesPass, Order!SetsCount

\* At the end of a pass.
LEMMA PassDone ==
    ASSUME NEW k \in Loop, ProgramPc + 1 = End[k], counter[k] > 0,
           ProgramPc' = IF counter[k] > 1 THEN Start[k] ELSE ProgramPc + 1,
           counter' = [counter EXCEPT ![k] = counter[k] - 1]
    PROVE  Order!Next
BY OrderGeometry DEF Order!Next, Order!Pass, Order!CompletesPass

LEMMA CountSet ==
    ASSUME NEW k \in Loop, NEW n \in Counts, ProgramPc + 1 = Start[k],
           ProgramPc' = ProgramPc + 1, counter' = [counter EXCEPT ![k] = n]
    PROVE  Order!Next
BY OrderGeometry DEF Order!Next, Order!SetCount, Order!SetsCount

\* Where the program is: inside it, or behind a handler, a debugger or both.
LEMMA ProgramPcIs ==
    /\ Upcoming \in Program => ProgramPc = Upcoming
    /\ Upcoming = Handler => ProgramPc = csr.mepc
    /\ Upcoming = Debugger => ProgramPc = Resumed(csr.dpc)
BY PlacesAre DEF ProgramPc, Resumed

LEMMA ProgramPcNext ==
    /\ Upcoming' \in Program => ProgramPc' = Upcoming'
    /\ Upcoming' = Handler => ProgramPc' = csr'.mepc
    /\ Upcoming' = Debugger => ProgramPc' = Resumed(csr.dpc)'
BY PlacesAre DEF ProgramPc, Resumed

LEMMA SameProgramPc ==
    ASSUME Upcoming' = Upcoming, csr'.mepc = csr.mepc, csr'.dpc = csr.dpc
    PROVE  ProgramPc' = ProgramPc
BY DEF ProgramPc, Resumed

\* An instruction of the default branch.
LEMMA ExecutesInOrder ==
    ASSUME LoopInv, counter' \in [Loop -> 0..Modulus-1], NEW in \in Inputs, Decodes(in),
           id.kind \in {"plain", "count"}, Executes(in)
    PROVE  Order!Next \/ Stutters
<1>1. /\ id.pc \in Program /\ id.pc + 1 \in Program /\ id.pc # Exit /\ Upcoming = id.pc
      /\ id.kind = "count" <=> \E k \in Loop : id.pc + 1 = Start[k]
      /\ ProgramPc = id.pc
  BY InId, ProgramPcIs DEF Decodes, NotReturn, Runs
<1>2. counter \in [Loop -> 0..Modulus-1]
  BY DEF LoopInv, TypeInv
<1>3. CASE ~in.id_ready
  BY <1>1, <1>3, ProgramPcNext DEF Executes, Stutters
<1>4. CASE in.id_ready /\ \E k \in Loop : id.pc + 1 = Start[k]
  <2>1. PICK k \in Loop, n \in Counts :
          id.pc + 1 = Start[k] /\ counter' = [counter EXCEPT ![k] = n]
    BY <1>1, <1>4 DEF Executes
  <2>2. \A j \in Loop : ~LastPass(j)
    BY <2>1, Geometry DEF LastPass
  <2>3. ProgramPc' = id.pc + 1
    BY <1>1, <1>4, <2>2, ProgramPcNext DEF Executes
  <2> QED
    BY <1>1, <2>1, <2>3, CountSet
<1>5. CASE in.id_ready /\ \E k \in Loop : id.pc + 1 = End[k] /\ counter[k] > 0
  <2>1. PICK k \in Loop : id.pc + 1 = End[k] /\ counter[k] > 0
    BY <1>5
  <2>2. \A j \in Loop : id.pc + 1 # Start[j]
    BY <2>1, Geometry
  <2>3. \A j \in Loop : id.pc + 1 = End[j] => j = k
    BY <1>1, <2>1, Geometry
  <2>4. Upcoming' = IF counter[k] > 1 THEN Start[k] ELSE id.pc + 1
    BY <1>5, <2>1, <2>3 DEF Executes, LastPass
  <2>5. counter' = [counter EXCEPT ![k] = counter[k] - 1]
    <3>1. \A j \in Loop : counter'[j] = IF j = k THEN counter[j] - 1 ELSE counter[j]
      BY <1>1, <1>5, <2>1, <2>2, <2>3 DEF Executes
    <3> QED
      BY <1>2, <3>1
  <2>6. ProgramPc' = IF counter[k] > 1 THEN Start[k] ELSE id.pc + 1
    <3>1. Start[k] \in Program
      BY StartsAre
    <3> QED
      BY <1>1, <2>4, <3>1, ProgramPcNext
  <2> QED
    BY <1>1, <2>1, <2>5, <2>6, PassDone
<1>6. CASE /\ in.id_ready
           /\ \A k \in Loop : id.pc + 1 # Start[k] /\ ~(id.pc + 1 = End[k] /\ counter[k] > 0)
  <2>1. \A k \in Loop : ~LastPass(k)
    BY <1>2, <1>6 DEF LastPass
  <2>2. ProgramPc' = id.pc + 1
    BY <1>1, <1>6, <2>1, ProgramPcNext DEF Executes
  <2>3. counter' = counter
    <3>1. \A k \in Loop : counter'[k] = counter[k]
      BY <1>1, <1>6 DEF Executes
    <3> QED
      BY <1>2, <3>1
  <2> QED
    BY <1>1, <1>6, <2>2, <2>3, StraightOn
<1> QED
  BY <1>3, <1>4, <1>5, <1>6

\* A CSR access that flushes the pipeline counts in DECODE, and jumps in FLUSH_WB.
LEMMA FlushingInOrder ==
    ASSUME LoopInv, Careful, NEW in \in Inputs, Flushing(in), LoopInv'
    PROVE  Order!Next \/ Stutters
<1> DEFINE dec == IF id.kind = "csr" THEN {k \in Loop : hwlp_end_eq_pc(k)} ELSE {}
<1>1. /\ Decodes(in) /\ Decoding /\ id.valid
      /\ id.kind \in {"csr", "ecall", "mret", "dret"}
      /\ CountDown(in, FALSE, dec) /\ dec \in SUBSET Loop
      /\ \A k \in Loop : k \in dec <=> id.kind = "csr" /\ hwlp_end_eq_pc(k)
      /\ ctrl_fsm_cs' = IF ~in.id_ready THEN ctrl_fsm_cs
                        ELSE IF Stepping /\ id.kind = "csr" THEN "DBG_FLUSH"
                        ELSE "FLUSH_EX"
  BY DEF Flushing, Decodes
<1> HIDE DEF dec
<1>2. StaysInId(in)
  BY <1>1, StopsFetch DEF Flushing, LoopInv, TypeInv
<1>3. \A k \in Loop :
        counter'[k] = IF id.kind = "csr" /\ hwlp_end_eq_pc(k) /\ in.id_ready
                      THEN (IF counter[k] = 0 THEN Modulus - 1 ELSE counter[k] - 1)
                      ELSE counter[k]
  <2>1. \A k \in Loop :
          counter'[k] = IF k \in dec /\ id.valid /\ in.id_ready
                        THEN (IF counter[k] = 0 THEN Modulus - 1 ELSE counter[k] - 1)
                        ELSE counter[k]
    BY <1>1, InputsAre, CountStage DEF LoopInv
  <2> QED
    BY <1>1, <2>1
<1>4. counter \in [Loop -> 0..Modulus-1] /\ counter' \in [Loop -> 0..Modulus-1]
  BY DEF LoopInv, TypeInv
<1>5. Upcoming = id.pc
  BY <1>1, InId
<1>6. csr' = csr /\ id'.pc = id.pc /\ id'.kind = id.kind
  BY <1>2 DEF StaysInId
<1>7. CASE ~in.id_ready
  <2>1. counter' = counter
    BY <1>3, <1>4, <1>7
  <2>2. Upcoming' = Upcoming
    BY <1>1, <1>2, <1>5, <1>7, UpcomingNext DEF StaysInId, UpcomingTable, Decoding
  <2> QED
    BY <1>6, <2>1, <2>2, SameProgramPc DEF Stutters
<1>8. CASE in.id_ready /\ id.kind # "csr"
  <2>1. counter' = counter
    BY <1>3, <1>4, <1>8
  <2>2. /\ id.kind = "ecall" => Upcoming' = id.pc
        /\ id.kind = "mret" => Upcoming' = csr.mepc
        /\ id.kind = "dret" => Upcoming' = csr.dpc
    BY <1>1, <1>6, <1>8, UpcomingNext DEF UpcomingTable, Flushes
  <2>3. /\ id.kind = "mret" <=> id.pc = Handler
        /\ id.kind = "dret" <=> id.pc = Debugger
        /\ csr.mepc \in Program /\ csr.dpc \in Program \cup {Handler}
    BY <1>1, InId, KindsAre DEF LoopInv, TypeInv, CsrType
  <2>4. ProgramPc' = ProgramPc
    <3>1. CASE id.kind = "ecall"
      BY <3>1, <1>5, <1>6, <2>2, SameProgramPc
    <3>2. CASE id.kind = "mret"
      BY <3>2, <1>5, <2>2, <2>3, ProgramPcIs, ProgramPcNext
    <3>3. CASE id.kind = "dret"
      <4>1. id.pc = Debugger /\ Upcoming' = csr.dpc /\ csr'.mepc = csr.mepc
        BY <3>3, <1>6, <2>2, <2>3
      <4>2. ProgramPc = IF csr.dpc = Handler THEN csr.mepc ELSE csr.dpc
        BY <1>5, <4>1, ProgramPcIs DEF Resumed
      <4>3. ProgramPc' = IF csr.dpc = Handler THEN csr.mepc ELSE csr.dpc
        BY <2>3, <4>1, ProgramPcNext, PlacesAre
      <4> QED
        BY <4>2, <4>3
    <3> QED
      BY <1>1, <1>8, <3>1, <3>2, <3>3
  <2> QED
    BY <2>1, <2>4 DEF Stutters
<1>9. CASE in.id_ready /\ id.kind = "csr"
  <2>1. /\ id.pc \in Program /\ id.pc + 1 \in Program /\ id.pc # Exit /\ ProgramPc = id.pc
        /\ \A k \in Loop : id.pc + 1 # Start[k]
    BY <1>1, <1>5, <1>9, InId, ProgramPcIs DEF NotReturn, Runs
  <2>2. \A k \in Loop : hwlp_end_eq_pc(k) <=> id.pc + 1 = End[k]
    BY <2>1, Geometry DEF hwlp_end_eq_pc
  <2>3. CASE \E k \in Loop : id.pc + 1 = End[k]
    <3>1. PICK k \in Loop : id.pc + 1 = End[k]
      BY <2>3
    <3>2. ~csr.step /\ counter[k] > 0
      BY <1>1, <1>4, <1>9, <2>2, <3>1 DEF Careful, CsrAtEnd
    <3>3. \A j \in Loop : id.pc + 1 = End[j] => j = k
      BY <2>1, <3>1, Geometry
    <3>4. counter' = [counter EXCEPT ![k] = counter[k] - 1]
      <4>1. \A j \in Loop : counter'[j] = IF j = k THEN counter[j] - 1 ELSE counter[j]
        BY <1>3, <1>9, <2>2, <3>1, <3>2, <3>3
      <4> QED
        BY <1>4, <4>1
    <3>5. ctrl_fsm_cs' = "FLUSH_EX"
      BY <1>1, <1>9, <3>2 DEF Stepping
    <3>6. Upcoming' = IF CsrTarget' = NoPc THEN pc_if' ELSE CsrTarget'
      BY <1>6, <1>9, <3>5, UpcomingNext DEF UpcomingTable, Flushes
    <3>7. /\ counter[k] > 1 => CsrTarget' = Start[k]
          /\ counter[k] = 1 => CsrTarget' = NoPc
      <4>1. /\ counter[k] > 1 => counter'[k] # 0
            /\ counter[k] = 1 => counter'[k] = 0
        BY <1>4, <3>4
      <4>2. \A j \in Loop : hwlp_end_eq_pc(j)' <=> j = k
        BY <1>6, <3>1, <3>3 DEF hwlp_end_eq_pc
      <4>3. hwlp_targ_addr' = hwlp_targ_addr
        BY <1>6 DEF hwlp_targ_addr, InRange
      <4>4. hwlp_targ_addr = Start[k]
        BY <2>1, <2>2, <3>1, TargetAtEnd, PlacesAre
      <4> QED
        BY <4>1, <4>2, <4>3, <4>4 DEF CsrTarget
    <3>8. CsrTarget' = NoPc => pc_if' = id.pc + 1
      BY <1>6, <1>9, <3>5 DEF LoopInv, InFlush, Flushes
    <3>9. Start[k] \in Program /\ Start[k] # NoPc
      BY StartsAre
    <3>10. Upcoming' = IF counter[k] > 1 THEN Start[k] ELSE id.pc + 1
      BY <1>4, <3>2, <3>6, <3>7, <3>8, <3>9
    <3>11. ProgramPc' = IF counter[k] > 1 THEN Start[k] ELSE id.pc + 1
      BY <2>1, <3>9, <3>10, ProgramPcNext
    <3> QED
      BY <2>1, <3>1, <3>2, <3>4, <3>11, PassDone
  <2>4. CASE \A k \in Loop : id.pc + 1 # End[k]
    <3>1. counter' = counter
      <4>1. \A k \in Loop : counter'[k] = counter[k]
        BY <1>3, <2>2, <2>4
      <4> QED
        BY <1>4, <4>1
    <3>2. pc_if' = id.pc + 1
      BY <1>1, <1>2, <1>9, <2>4, InId
      DEF StaysInId, LoopInv, InLoopId, Again, Decoding, Runs
    <3>3. Upcoming' = id.pc + 1
      <4>1. CsrTarget' = NoPc
        BY <1>6, <2>2, <2>4 DEF CsrTarget, hwlp_end_eq_pc
      <4>2. ~debug_mode_q' /\ ~debug_req_entry_q'
        BY <1>1, <1>2, <1>9, InId DEF StaysInId, NotReturn
      <4> QED
        BY <1>1, <1>6, <1>9, <3>2, <4>1, <4>2, UpcomingNext
        DEF UpcomingTable, Flushes, EntersBefore
    <3>4. ProgramPc' = id.pc + 1
      BY <2>1, <3>3, ProgramPcNext
    <3> QED
      BY <2>1, <2>4, <3>1, <3>4, StraightOn
  <2> QED
    BY <2>3, <2>4
<1> QED
  BY <1>7, <1>8, <1>9

LEMMA DecodeJumpInOrder ==
    ASSUME LoopInv, NEW in \in Inputs, DecodeJump(in)
    PROVE  Order!Next \/ Stutters
<1> DEFINE set == IF jump_done_q THEN NoPc ELSE 0
<1>1. /\ Decodes(in) /\ Decoding /\ id.valid /\ id.kind = "jump" /\ ctrl_fsm_cs = "DECODE"
      /\ Fetch(in, Stepping, FALSE, set, NoPc) /\ AfterDecode(in, "DECODE")
      /\ JumpDone(in, set # NoPc) /\ hwlp_end_4_id_q' = FALSE
      /\ UNCHANGED <<debug_mode_q, debug_req_entry_q, csr>>
  BY DEF DecodeJump, Decodes
<1>2. /\ set \in Nat \cup {NoPc}
      /\ set \in Program \/ (set = NoPc /\ pc_if \in Program)
      /\ (IF set # NoPc THEN set ELSE pc_if) = 0
  BY <1>1, PlacesAre DEF LoopInv, InDecode
<1> HIDE DEF set
<1>3. counter' = counter
  <2>1. counter' = [k \in Loop |-> counter[k]]
    BY DEF DecodeJump, CountDown
  <2> QED
    BY <2>1 DEF LoopInv, TypeInv
<1>4. Upcoming' = IF ~in.id_ready THEN id.pc ELSE IF set # NoPc THEN set ELSE pc_if
  <2>1. jump_done_q' \in BOOLEAN /\ hwlp_end_4_id_q' \in BOOLEAN
    BY <1>1 DEF JumpDone
  <2> QED
    BY <1>1, <1>2, <1>3, <2>1, RunStage DEF LoopInv, TypeInv
<1>5. id.pc = Exit /\ Upcoming = Exit /\ ProgramPc = Exit
  BY <1>1, InId, ProgramPcIs, PlacesAre
<1>6. ProgramPc' = IF in.id_ready THEN 0 ELSE Exit
  BY <1>2, <1>4, <1>5, ProgramPcNext, PlacesAre
<1> QED
  BY <1>3, <1>5, <1>6, OrderGeometry DEF Order!Next, Order!Restart, Stutters

\* Without cv.elw at the end of a body, an event load goes straight on.
LEMMA IrqFlushElwInOrder ==
    ASSUME "elw" \notin LastKinds, LoopInv, NEW in \in Inputs, IrqFlushElw(in)
    PROVE  Order!Next \/ Stutters
<1> DEFINE taken == IrqReq(in) /\ ~in.debug_req
           set   == IF taken THEN Handler ELSE NoPc
<1>1. Idles(in, set) /\ ctrl_fsm_cs = "IRQ_FLUSH_ELW" /\ set \in Nat \cup {NoPc}
  BY PlacesAre DEF IrqFlushElw
<1>2. /\ id.kind = "elw" /\ id.kind \in KindsAt(id.pc) /\ id.pc \in Places /\ id.pc \in Nat
  BY <1>1 DEF LoopInv, InLoad, Loads, Fetched, Decoding, TypeInv, IdType
<1>3. /\ id.pc \in Program /\ id.pc + 1 \in Program /\ id.pc # Exit
      /\ \A k \in Loop : id.pc + 1 # Start[k] /\ id.pc + 1 # End[k]
  BY <1>2, KindsAre, PlacesAre
<1>4. pc_if = id.pc + 1
  BY <1>1, <1>3 DEF LoopInv, InLoad, Loads
<1>5. Upcoming = id.pc /\ ProgramPc = id.pc
  BY <1>1, <1>3, UpcomingIs, ProgramPcIs DEF UpcomingTable
<1>6. ctrl_fsm_cs' = "DECODE" /\ (taken => csr' = [csr EXCEPT !.mepc = id.pc, !.trap = TRUE])
  BY DEF IrqFlushElw
<1>7. taken => csr'.mepc = id.pc
  BY <1>6 DEF LoopInv, TypeInv, CsrType
<1>8. (taken => set = Handler) /\ (~taken => set = NoPc)
  OBVIOUS
<1> HIDE DEF taken, set
<1>9. /\ ~id'.valid /\ pc_if' = (IF taken THEN Handler ELSE pc_if) /\ counter' = counter
  BY <1>1, <1>8, IdleStage, PlacesAre DEF LoopInv
<1>10. Upcoming' = IF taken THEN Handler ELSE id.pc + 1
  BY <1>4, <1>6, <1>9, UpcomingNext DEF UpcomingTable, Decoding
<1>11. CASE taken
  BY <1>5, <1>7, <1>9, <1>10, <1>11, ProgramPcNext DEF Stutters
<1>12. CASE ~taken
  <2>1. ProgramPc' = ProgramPc + 1
    BY <1>3, <1>5, <1>10, <1>12, ProgramPcNext
  <2> QED
    BY <1>3, <1>5, <1>9, <2>1, StraightOn
<1> QED
  BY <1>11, <1>12

\* The handler of an ecall does in software what the loops do in hardware.
LEMMA HandlerCodeInOrder ==
    ASSUME LoopInv, HandlerCode
    PROVE  Order!Next
<1> DEFINE ends == {k \in Loop : EndsBody(k)}
           k    == IF 0 \in ends THEN 0 ELSE 1
           next == IF ends # {} /\ counter[k] > 1 THEN Start[k] ELSE csr.mepc + 1
<1>1. /\ Decoding /\ id.valid /\ id.kind = "mret" /\ csr.ecall
      /\ csr' = [csr EXCEPT !.mepc = next, !.ecall = FALSE]
      /\ counter' = IF ends = {} THEN counter ELSE [counter EXCEPT ![k] = counter[k] - 1]
      /\ UNCHANGED <<ctrl_fsm_cs, id, pc_if>>
  BY DEF HandlerCode
<1>2. Upcoming = Handler /\ Upcoming' = Handler
  BY <1>1, InId, UpcomingNext DEF UpcomingTable, Decoding
<1>3. /\ csr.mepc \in Program /\ csr.mepc # Exit
      /\ \A j \in Loop : csr.mepc + 1 # Start[j]
  BY <1>1 DEF LoopInv, TypeInv, CsrType, Where
<1>4. /\ ends # {} => k \in Loop /\ EndsBody(k)
      /\ ends = {} => \A j \in Loop : ~EndsBody(j)
  BY Geometry
<1> HIDE DEF ends, k
<1>5. ProgramPc = csr.mepc /\ ProgramPc' = next
  <2>1. csr'.mepc = next
    BY <1>1 DEF LoopInv, TypeInv, CsrType
  <2> QED
    BY <1>2, <2>1, ProgramPcIs, ProgramPcNext
<1>6. CASE ends = {}
  BY <1>1, <1>3, <1>4, <1>5, <1>6, StraightOn DEF EndsBody
<1>7. CASE ends # {}
  BY <1>1, <1>4, <1>5, <1>7, PassDone DEF EndsBody
<1> QED
  BY <1>6, <1>7

\* The cycles that prepare, flush, enter and leave.
LEMMA NoInstructionStutters ==
    ASSUME LoopInv, NEW in \in Inputs, NoInstruction(in)
    PROVE  Stutters
<1>1. /\ in \in InputType
      /\ in.fetch_valid => in.id_ready
      /\ NoPc \in Nat \cup {NoPc}
  BY InputsAre
<1>2. /\ Decoding /\ ~id.valid /\ ctrl_fsm_cs' = ctrl_fsm_cs /\ csr' = csr
      /\ Fetch(in, FALSE, FALSE, NoPc, NoPc)
  BY DEF NoInstruction
<1>3. Takes(NoPc) \/ Keeps(in, FALSE, NoPc, NoPc)
  BY <1>1, <1>2, FetchStage DEF LoopInv
<1>4. counter' = counter
  <2>1. counter' = [k \in Loop |-> counter[k]]
    BY DEF NoInstruction, CountDown
  <2> QED
    BY <2>1 DEF LoopInv, TypeInv
<1>5. Upcoming' = Upcoming
  BY <1>2, <1>3, UpcomingIs, UpcomingNext DEF UpcomingTable, Takes, Keeps, Decoding
<1> QED
  BY <1>2, <1>4, <1>5, SameProgramPc DEF Stutters

LEMMA EntriesStutter ==
    ASSUME LoopInv, NEW in \in Inputs, HaltRequest(in) \/ DbgFlush(in) \/ ElwExe(in)
    PROVE  Stutters
<1>1. NoPc \in Nat \cup {NoPc} /\ Idles(in, NoPc) /\ csr' = csr
  BY DEF HaltRequest, DbgFlush, ElwExe
<1>2. /\ counter' = counter /\ id'.pc = id.pc /\ id'.kind = id.kind /\ ~id'.valid
      /\ pc_if' = pc_if
  BY <1>1, IdleStage DEF LoopInv
<1>3. Upcoming' = Upcoming
  <2>1. CASE HaltRequest(in)
    BY <2>1, <1>2, UpcomingIs, UpcomingNext DEF HaltRequest, UpcomingTable, EntersBefore, Decoding
  <2>2. CASE DbgFlush(in)
    BY <2>2, <1>2, UpcomingIs, UpcomingNext DEF DbgFlush, UpcomingTable
  <2>3. CASE ElwExe(in)
    <3>1. id.kind = "elw"
      BY <2>3 DEF ElwExe, LoopInv, InLoad, Loads
    <3> QED
      BY <2>3, <3>1, <1>2, UpcomingIs, UpcomingNext DEF ElwExe, UpcomingTable, EntersBefore
  <2> QED
    BY <2>1, <2>2, <2>3
<1> QED
  BY <1>1, <1>2, <1>3, SameProgramPc DEF Stutters

LEMMA EventLoadStutters ==
    ASSUME LoopInv, NEW in \in Inputs, EventLoad(in)
    PROVE  Stutters
<1>1. /\ Decodes(in) /\ Decoding /\ id.valid /\ id.kind = "elw"
      /\ ctrl_fsm_cs' = IF ~in.id_ready THEN ctrl_fsm_cs
                        ELSE IF Stepping THEN "DBG_FLUSH" ELSE "ELW_EXE"
  BY DEF EventLoad, Decodes
<1>2. counter' = counter
  <2>1. counter' = [k \in Loop |-> counter[k]]
    BY DEF EventLoad, CountDown
  <2> QED
    BY <2>1 DEF LoopInv, TypeInv
<1>3. StaysInId(in)
  BY <1>1, <1>2, StopsFetch DEF EventLoad, LoopInv, TypeInv, States
<1>4. Upcoming' = id.pc /\ Upcoming = id.pc
  BY <1>1, <1>3, UpcomingIs, UpcomingNext DEF StaysInId, UpcomingTable, EntersBefore, Decoding
<1> QED
  BY <1>2, <1>3, <1>4, SameProgramPc DEF StaysInId, Stutters

LEMMA TakeIrqStutters ==
    ASSUME LoopInv, NEW in \in Inputs, TakeIrq(in)
    PROVE  Stutters
<1>1. /\ Handler \in Nat \cup {NoPc} /\ Handler # NoPc /\ Idles(in, Handler)
      /\ ctrl_fsm_cs' = "DECODE"
      /\ Decoding /\ id.valid /\ ~csr.trap /\ ~debug_mode_q
      /\ csr' = [csr EXCEPT !.mepc = id.pc, !.trap = TRUE]
  BY PlacesAre DEF TakeIrq, IrqReq
<1>2. counter' = counter /\ ~id'.valid /\ pc_if' = Handler
  BY <1>1, IdleStage DEF LoopInv
<1>3. Upcoming = id.pc /\ id.pc \in Program
  BY <1>1, UpcomingIs, PlacesAre DEF UpcomingTable, LoopInv, Where
<1>4. Upcoming' = Handler /\ csr'.mepc = id.pc
  BY <1>1, <1>2, UpcomingNext DEF UpcomingTable, Decoding, LoopInv, TypeInv, CsrType
<1> QED
  BY <1>2, <1>3, <1>4, ProgramPcIs, ProgramPcNext DEF Stutters

LEMMA FlushExStutters ==
    ASSUME LoopInv, NEW in \in Inputs, FlushEx(in)
    PROVE  Stutters
<1>1. /\ NoPc \in Nat \cup {NoPc} /\ Idles(in, NoPc)
      /\ ctrl_fsm_cs = "FLUSH_EX" /\ ctrl_fsm_cs' \in {"FLUSH_EX", "FLUSH_WB"}
  BY DEF FlushEx
<1>2. /\ counter' = counter /\ id'.pc = id.pc /\ id'.kind = id.kind /\ ~id'.valid
      /\ pc_if' = pc_if
  BY <1>1, IdleStage DEF LoopInv
<1>3. /\ id.kind \in {"csr", "ecall", "mret", "dret"}
      /\ id.kind \in KindsAt(id.pc) /\ id.pc \in Places /\ id.pc \in Nat
  BY <1>1 DEF LoopInv, InFlush, Flushes, Fetched, Decoding, TypeInv, IdType
<1>4. CASE id.kind = "ecall"
  <2>1. Upcoming = id.pc /\ Upcoming' = id.pc
    BY <1>1, <1>2, <1>4, UpcomingIs, UpcomingNext DEF UpcomingTable, Flushes
  <2>2. id.pc \in Program
    BY <1>3, <1>4, KindsAre, PlacesAre
  <2> QED
    BY <1>2, <2>1, <2>2, ProgramPcIs, ProgramPcNext DEF Stutters
<1>5. CASE id.kind # "ecall"
  <2>1. csr' = csr
    BY <1>5 DEF FlushEx
  <2>2. Upcoming' = Upcoming
    BY <1>1, <1>2, <1>3, <1>5, <2>1, SameTarget, UpcomingIs, UpcomingNext
    DEF UpcomingTable, Flushes
  <2> QED
    BY <1>2, <2>1, <2>2, SameProgramPc DEF Stutters
<1> QED
  BY <1>4, <1>5

LEMMA FlushWbStutters ==
    ASSUME LoopInv, NEW in \in Inputs, FlushWb(in)
    PROVE  Stutters
<1> DEFINE set == CASE id.kind = "ecall" -> Handler
                    [] id.kind = "csr" -> CsrTarget
                    [] OTHER -> NoPc
<1>1. Idles(in, set) /\ ctrl_fsm_cs = "FLUSH_WB"
  BY DEF FlushWb
<1>2. /\ id.kind \in {"csr", "ecall", "mret", "dret"}
      /\ id.kind = "ecall" => csr.mepc = id.pc
      /\ id.kind \in KindsAt(id.pc) /\ id.pc \in Places /\ id.pc \in Nat
  BY <1>1 DEF LoopInv, InFlush, Flushes, Fetched, Decoding, TypeInv, IdType
<1>3. /\ id.kind = "ecall" => set = Handler
      /\ id.kind = "csr" => set = CsrTarget
      /\ id.kind \in {"mret", "dret"} => set = NoPc
      /\ set \in Nat \cup {NoPc}
  BY <1>2, CsrTargetIs, PlacesAre DEF LoopInv
<1> HIDE DEF set
<1>4. /\ id.kind \in {"mret", "dret"} => ctrl_fsm_cs' = "XRET_JUMP"
      /\ id.kind = "ecall" => ctrl_fsm_cs' \in {"DBG_TAKEN_IF", "DECODE"}
      /\ id.kind = "csr" => ctrl_fsm_cs' = "DECODE"
  BY <1>2 DEF FlushWb
<1>5. csr'.dpc = csr.dpc /\ csr'.mepc = csr.mepc
  BY DEF FlushWb, LoopInv, TypeInv, CsrType
<1>6. /\ counter' = counter /\ ~id'.valid /\ id'.kind = id.kind /\ id'.pc = id.pc
      /\ pc_if' = IF set # NoPc THEN set ELSE pc_if
  BY <1>1, <1>3, IdleStage DEF LoopInv
<1>7. CASE id.kind = "ecall"
  <2>1. Upcoming = id.pc /\ id.pc \in Program
    BY <1>1, <1>2, <1>7, KindsAre, PlacesAre, UpcomingIs DEF UpcomingTable, Flushes
  <2>2. Upcoming' = Handler
    BY <1>3, <1>4, <1>6, <1>7, PlacesAre, UpcomingNext DEF UpcomingTable, Decoding
  <2> QED
    BY <1>2, <1>5, <1>6, <1>7, <2>1, <2>2, ProgramPcIs, ProgramPcNext DEF Stutters
<1>8. CASE id.kind = "csr"
  <2>1. Upcoming' = Upcoming
    BY <1>1, <1>3, <1>4, <1>6, <1>8, UpcomingIs, UpcomingNext
    DEF UpcomingTable, Decoding, Flushes
  <2> QED
    BY <1>5, <1>6, <2>1, SameProgramPc DEF Stutters
<1>9. CASE id.kind \in {"mret", "dret"}
  <2>1. Upcoming' = Upcoming
    BY <1>1, <1>4, <1>5, <1>6, <1>9, UpcomingIs, UpcomingNext DEF UpcomingTable, Flushes
  <2> QED
    BY <1>5, <1>6, <2>1, SameProgramPc DEF Stutters
<1> QED
  BY <1>2, <1>7, <1>8, <1>9

LEMMA XretJumpStutters ==
    ASSUME LoopInv, NEW in \in Inputs, XretJump(in)
    PROVE  Stutters
<1> DEFINE set == IF id.kind = "mret" THEN csr.mepc ELSE csr.dpc
<1>1. Idles(in, set) /\ ctrl_fsm_cs = "XRET_JUMP"
  BY DEF XretJump
<1>2. id.kind \in {"mret", "dret"} /\ set \in Nat /\ set # NoPc
  BY <1>1, PlacesAre DEF LoopInv, InFlush, Flushes, TypeInv, CsrType
<1>3. Upcoming = set
  BY <1>1, <1>2, UpcomingIs DEF UpcomingTable, Flushes
<1> HIDE DEF set
<1>4. ctrl_fsm_cs' \in {"DBG_TAKEN_IF", "DECODE"} /\ csr' = csr
  BY DEF XretJump
<1>5. ~id'.valid /\ pc_if' = set /\ counter' = counter
  BY <1>1, <1>2, IdleStage DEF LoopInv
<1>6. Upcoming' = set
  BY <1>4, <1>5, UpcomingNext DEF UpcomingTable, Decoding
<1> QED
  BY <1>3, <1>4, <1>5, <1>6, SameProgramPc DEF Stutters

LEMMA DbgTakenStutters ==
    ASSUME LoopInv, NEW in \in Inputs, DbgTaken(in)
    PROVE  Stutters
<1>1. /\ Debugger \in Nat \cup {NoPc} /\ Debugger # NoPc /\ Idles(in, Debugger)
      /\ ctrl_fsm_cs \in {"DBG_TAKEN_ID", "DBG_TAKEN_IF"} /\ ctrl_fsm_cs' = "DECODE"
      /\ csr' = [csr EXCEPT !.dpc = IF ctrl_fsm_cs = "DBG_TAKEN_ID" THEN id.pc ELSE pc_if]
  BY PlacesAre DEF DbgTaken
<1>2. Upcoming = (IF ctrl_fsm_cs = "DBG_TAKEN_ID" THEN id.pc ELSE pc_if)
  BY <1>1, UpcomingIs DEF UpcomingTable
<1>3. Upcoming \in Program \cup {Handler}
  BY <1>1, PlacesAre DEF LoopInv, Where, Halts
<1>4. csr'.dpc = Upcoming /\ csr'.mepc = csr.mepc
  BY <1>1, <1>2 DEF LoopInv, TypeInv, CsrType
<1>5. counter' = counter /\ ~id'.valid /\ pc_if' = Debugger
  BY <1>1, IdleStage DEF LoopInv
<1>6. Upcoming' = Debugger
  BY <1>1, <1>5, UpcomingNext DEF UpcomingTable, Decoding
<1>7. ProgramPc' = IF Upcoming = Handler THEN csr.mepc ELSE Upcoming
  BY <1>4, <1>6, ProgramPcNext DEF Resumed
<1>8. ProgramPc = IF Upcoming = Handler THEN csr.mepc ELSE Upcoming
  BY <1>3, ProgramPcIs, PlacesAre
<1> QED
  BY <1>5, <1>7, <1>8 DEF Stutters

LEMMA DebuggerCodeStutters ==
    ASSUME LoopInv, DebuggerCode
    PROVE  Stutters
<1>1. csr'.mepc = csr.mepc /\ csr'.dpc = csr.dpc
  BY DEF DebuggerCode, LoopInv, TypeInv, CsrType
<1>2. Upcoming' = Upcoming
  BY UpcomingIs, UpcomingNext DEF DebuggerCode, UpcomingTable, Decoding
<1> QED
  BY <1>1, <1>2, SameProgramPc DEF DebuggerCode, Stutters

\* The reset state is the initial state of the program order ...
LEMMA OrderInit == Init => Order!Init
<1> SUFFICES ASSUME Init PROVE Order!Init
  OBVIOUS
<1>1. Upcoming = 0 /\ 0 \in Program
  BY UpcomingIs, PlacesAre DEF Init, UpcomingTable, Decoding
<1> QED
  BY <1>1, ProgramPcIs, OrderGeometry DEF Init, Order!Init

\* ... and every step is one step of it or none.
LEMMA OrderStep ==
    "elw" \notin LastKinds =>
      (LoopInv /\ LoopInv' /\ Careful /\ [Next]_vars => [Order!Next]_<<ProgramPc, counter>>)
<1> SUFFICES ASSUME "elw" \notin LastKinds, LoopInv, LoopInv', Careful, [Next]_vars
             PROVE  Order!Next \/ Stutters
  BY DEF Stutters
<1>1. ASSUME NEW in \in Inputs, Cycle(in) PROVE Order!Next \/ Stutters
  <2>1. counter' \in [Loop -> 0..Modulus-1]
    BY DEF LoopInv, TypeInv
  <2>2. CASE DecodePlain(in) \/ DecodeHwloop(in)
    <3>1. Executes(in) /\ Decodes(in) /\ id.kind \in {"plain", "count"}
      BY <2>2, DecodePlainKeeps, DecodeHwloopKeeps DEF DecodePlain, DecodeHwloop
    <3> QED
      BY <2>1, <3>1, ExecutesInOrder
  <2> QED
    BY <1>1, <2>2, NoInstructionStutters, EntriesStutter, EventLoadStutters, TakeIrqStutters,
       FlushExStutters, FlushWbStutters, XretJumpStutters, DbgTakenStutters,
       FlushingInOrder, DecodeJumpInOrder, IrqFlushElwInOrder DEF Cycle
<1>2. CASE UNCHANGED vars
  BY <1>2 DEF vars, Stutters, ProgramPc, Resumed, Upcoming, Decoding, EntersBefore, CsrTarget,
              hwlp_end_eq_pc, hwlp_targ_addr, InRange
<1> QED
  BY <1>1, <1>2, DebuggerCodeStutters, HandlerCodeInOrder DEF Next

LEMMA CarefulAlways == Init => Careful
BY DEF Init, Careful, CsrAtEnd

\* The core runs a careful program in program order and counts each pass once, whatever
\* stalls, interrupts, exceptions, halt requests and single steps come between: HwLoop
\* implements HwLoopSpec.  Careful excludes the two CSR accesses at the end of a body that
\* the controller gets wrong; a cv.elw as last instruction, which counts no pass, is
\* excluded by the hypothesis.
THEOREM ProgramRunsInOrder ==
    ASSUME "elw" \notin LastKinds
    PROVE  CarefulSpec => RunsInOrder
<1>1. LoopInv /\ LoopInv' /\ Careful /\ [Next]_vars => [Order!Next]_<<ProgramPc, counter>>
  BY OrderStep
<1>2. CarefulSpec => Spec /\ Init /\ [][Next /\ Careful']_vars
  BY PTL DEF CarefulSpec, Spec
<1>3. Careful /\ UNCHANGED vars => Careful'
  BY DEF Careful, CsrAtEnd, vars, hwlp_end_eq_pc
<1> QED
  BY <1>1, <1>2, <1>3, CarefulAlways, OrderInit, LoopInvariant, PTL DEF RunsInOrder, Order!Spec

=============================================================================
