--------------------------- MODULE LoadStoreUnit ----------------------------
(***************************************************************************)
(* The load-store unit (cv32e40p_load_store_unit.sv) and the data-side OBI *)
(* bus: transaction requests, the outstanding-transaction counter, byte    *)
(* enables and lanes, and the assembly of loaded data.  The registers that *)
(* feed it (ID/EX) are the variable `ex', which module Pipeline steps.     *)
(*                                                                         *)
(* The byte at address a is a itself, so that a loaded value tells which   *)
(* bytes it is made of.  A value is a record: a number ([num]) for results *)
(* of the ALU, bytes and how they are extended ([lanes, fill]) for loads.  *)
(***************************************************************************)
EXTENDS Integers, Sequences

CONSTANTS PulpObi,       \* parameter PULP_OBI
          Regs,          \* registers that are followed (x0 and the others: NoReg)
          Types, Signs,  \* data_type_ex and data_sign_ext_ex
          Bases, Incs    \* operands A and B of address computations

ASSUME LsuAssumption ==
    /\ PulpObi \in BOOLEAN
    /\ Types \subseteq {"word", "half", "byte"}
    /\ Signs \subseteq {"zero", "sign", "ones"}
    /\ Bases \subseteq Nat /\ Incs \subseteq Nat

VARIABLES
    ex,        \* ID/EX pipeline register
    cnt_q,     \* outstanding transactions
    ctrl_q,    \* data_type_q, rdata_offset_q, data_sign_ext_q and data_we_q
    rdata_q,   \* the last data received
    pend,      \* bus: accepted transactions without response, oldest first
    issued,    \* history: transactions accepted for the access that is in EX
    sent       \* history: the <<address, register byte>> pairs a store has sent

lsuVars == <<cnt_q, ctrl_q, rdata_q, pend, issued, sent>>

DEPTH == 2
NoReg == "none"          \* a register that is not followed, or no write
NoJump == "no jump"      \* no JALR in ID
Size(type) == CASE type = "word" -> 4 [] type = "half" -> 2 [] type = "byte" -> 1

resp_valid(in) == in.rvalid

-----------------------------------------------------------------------------
(* Address generation, byte enables and store data.                        *)

data_addr_int == IF ex.useincr THEN ex.op_a + ex.op_b ELSE ex.op_a
offset == data_addr_int % 4
trans_word == data_addr_int \div 4

\* The access crosses a word boundary and needs a second transaction.
data_misaligned ==
    /\ ex.req /\ ~ex.misaligned
    /\ offset + Size(ex.type) > 4

MutBeFromOffset == {k \in 0..3 : offset =< k /\ k < offset + Size(ex.type)}

\* The bytes of the word that belong to the access: from the offset up and, in the
\* second part of a misaligned access, what the first part left over.
data_be ==
    IF ex.misaligned THEN {k \in 0..3 : k < offset + Size(ex.type) - 4}
    ELSE {k \in 0..3 : offset =< k /\ k < offset + Size(ex.type)}

\* The store data is rotated: byte k of the bus is this byte of the register.
wdata_byte(k) == (k - offset) % 4

-----------------------------------------------------------------------------
(* Transaction requests and readiness.                                     *)

MutReissues(in) ==
    /\ ex.req
    /\ cnt_q =< DEPTH
    /\ PulpObi => cnt_q = 0 \/ resp_valid(in)

trans_valid(in) ==
    /\ ex.req
    /\ cnt_q < DEPTH
    /\ PulpObi => cnt_q = 0 \/ resp_valid(in)

\* The OBI adapter (TRANS_STABLE = 1) passes requests on: data_req_o = trans_valid.
count_up(in) == trans_valid(in) /\ in.gnt

lsu_ready_wb(in) == cnt_q = 0 \/ resp_valid(in)

MutReadyWithResponse(in) ==
    ex.req => IF cnt_q = 0 THEN count_up(in) ELSE resp_valid(in)

\* EX and WB move in lock step: with transactions outstanding, the access in EX is
\* done once it has been accepted and the oldest response arrives.
lsu_ready_ex(in) ==
    ex.req => CASE cnt_q = 0 -> count_up(in)
                [] cnt_q = 1 -> count_up(in) /\ resp_valid(in)
                [] OTHER     -> resp_valid(in)

MutCountUpWins(in) ==
    cnt_q' = IF count_up(in) THEN cnt_q + 1
             ELSE IF resp_valid(in) THEN cnt_q - 1 ELSE cnt_q

NextCnt(in) ==
    cnt_q' = cnt_q + (IF count_up(in) THEN 1 ELSE 0)
                   - (IF resp_valid(in) THEN 1 ELSE 0)

\* The control information of the access moves to WB together with it.
NextCtrl(in) ==
    ctrl_q' = IF ex.req /\ lsu_ready_ex(in)
              THEN [type |-> ex.type, offset |-> offset, sign |-> ex.sign,
                    we |-> ex.we]
              ELSE ctrl_q

-----------------------------------------------------------------------------
(* Loaded data.                                                            *)

Word(lanes)  == [lanes |-> lanes, fill |-> "none"]
Garbage      == Word(<<-1, -1, -1, -1>>)
resp_rdata   == IF pend # <<>> /\ ~Head(pend).we
                THEN Word([i \in 1..4 |-> 4 * Head(pend).word + i - 1])
                ELSE Garbage

\* What is read from a register that may hold less than four loaded bytes.
Lane(value, i) ==
    IF "lanes" \in DOMAIN value /\ i =< Len(value.lanes) THEN value.lanes[i] ELSE -1

Fill(type, sign) == IF type = "word" THEN "none" ELSE sign

\* data_rdata_ext: the bytes from the offset up, of the response and, below it, of
\* the word kept in rdata_q when the access crosses the word boundary.
data_rdata_ext ==
    LET o == ctrl_q.offset
        n == Size(ctrl_q.type)
        crosses == o + n > 4
    IN  [lanes |-> [i \in 1..n |->
                       IF crosses /\ o + i =< 4 THEN Lane(rdata_q, o + i)
                       ELSE Lane(resp_rdata, ((o + i - 1) % 4) + 1)],
         fill  |-> Fill(ctrl_q.type, ctrl_q.sign)]

\* The first word of a misaligned access is kept as it is.
NextRdata(in) ==
    rdata_q' = IF resp_valid(in) /\ ~ctrl_q.we
               THEN IF ex.misaligned \/ data_misaligned
                    THEN resp_rdata ELSE data_rdata_ext
               ELSE rdata_q

data_rdata_ex(in) == IF resp_valid(in) THEN data_rdata_ext ELSE rdata_q

-----------------------------------------------------------------------------
(* One clock edge of the unit and of the bus, which answers in order and   *)
(* at the earliest in the cycle after the grant (see Inputs of Pipeline).  *)

BusStep(in) ==
    LET rest == IF in.rvalid THEN Tail(pend) ELSE pend
    IN  pend' = IF in.gnt THEN Append(rest, [word |-> trans_word, we |-> ex.we])
                ELSE rest

SentNow(in) ==
    IF count_up(in) /\ ex.we
    THEN sent \cup {<<4 * trans_word + k, wdata_byte(k)>> : k \in data_be}
    ELSE sent

IssuedNow(in) == issued + (IF count_up(in) THEN 1 ELSE 0)

\* The history of an access, or of one part of it, ends when EX moves on.
History(in, leaves) ==
    /\ issued' = IF leaves THEN 0 ELSE IssuedNow(in)
    /\ sent' = IF leaves /\ ~data_misaligned THEN {} ELSE SentNow(in)

LsuStep(in, leaves) ==
    /\ BusStep(in)
    /\ NextCnt(in)
    /\ NextCtrl(in)
    /\ NextRdata(in)
    /\ History(in, leaves)

LsuInit ==
    /\ cnt_q = 0
    /\ ctrl_q = [type |-> "word", offset |-> 0, sign |-> "zero", we |-> FALSE]
    /\ rdata_q = Garbage
    /\ pend = <<>>
    /\ issued = 0
    /\ sent = {}
=============================================================================
