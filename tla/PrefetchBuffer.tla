--------------------------- MODULE PrefetchBuffer ---------------------------
(***************************************************************************)
(* The prefetch buffer of the IF stage (cv32e40p_prefetch_buffer.sv): the  *)
(* prefetch controller, the fetch FIFO and the instruction-side OBI        *)
(* adapter (TRANS_STABLE = 0), connected to an in-order OBI memory and to  *)
(* a fetch stage that branches, raises hardware-loop jumps and takes words *)
(* when it likes.                                                          *)
(*                                                                         *)
(* One step is one rising clock edge.  Registers keep the names of the     *)
(* source; combinational signals are operators of the cycle's inputs `in'. *)
(* Addresses are word addresses and the memory's word at address a is a    *)
(* itself, so that a word handed over tells where it was fetched from.     *)
(***************************************************************************)
EXTENDS Integers, Sequences

CONSTANTS Depth,       \* localparam FIFO_DEPTH
          Words,       \* number of words of the address space
          PulpObi,     \* parameter PULP_OBI
          CorevPulp    \* parameter COREV_PULP (hardware loops)

ASSUME PrefetchAssumption ==
    /\ Depth \in Nat /\ Depth >= 2     \* a_fifo_depth_gt_1
    /\ Words \in Nat /\ Words >= 2
    /\ PulpObi \in BOOLEAN
    /\ CorevPulp \in BOOLEAN

VARIABLES
    state_q,                    \* prefetch controller FSM
    cnt_q,                      \* outstanding transactions
    flush_cnt_q,                \* responses still to be thrown away
    trans_addr_q,               \* last transaction address
    hwlp_flush_after_resp,      \* wait for the last word of the loop, then flush
    hwlp_flush_cnt_delayed_q,   \* ... that many responses
    fifo,                       \* content of cv32e40p_fifo
    obi_state_q, obi_addr_q,    \* OBI adapter
    mem,                        \* memory: granted addresses, not yet answered
    booted,                     \* ID stage: the first fetch (boot address) was set
    loop_gap,                   \* ID stage: words it still takes before a loop jump
    io                          \* the interface event of the last cycle

ctrlVars == <<state_q, cnt_q, flush_cnt_q, trans_addr_q,
              hwlp_flush_after_resp, hwlp_flush_cnt_delayed_q>>
vars == <<ctrlVars, fifo, obi_state_q, obi_addr_q, mem, booted, loop_gap, io>>

Stream == INSTANCE InstrStream WITH next <- 0, after <- 0
Addr    == 0..Words-1
Incr(a) == (a + 1) % Words
None    == Words

Fifo == INSTANCE FetchQueue WITH queue <- fifo, Word <- Addr

\* Words the ID stage takes before it can raise a loop jump.  After a branch: the
\* first one is decoded in DECODE and only a later one, in DECODE_HWLOOP, can be
\* the last but one of the body.  After a loop jump: the last word of the body,
\* its first and its last but one (a body has at least three instructions).
GapAfterBranch == 2
GapAfterLoop   == 3

-----------------------------------------------------------------------------
(* The inputs of a cycle.  fetch_ready is only ever raised for a valid     *)
(* word, while fetching is requested and when the PC is not being set.     *)

Inputs == [req : BOOLEAN, branch : BOOLEAN, hwlp : BOOLEAN, target : Addr,
           ready : BOOLEAN, gnt : BOOLEAN, rvalid : BOOLEAN]

resp_valid(in) == in.rvalid

\* A word is at the output unless the fetch is redirected or stale responses are
\* still on their way.
fetch_valid(in) ==
    /\ fifo # <<>> \/ resp_valid(in)
    /\ ~in.branch /\ flush_cnt_q = 0

fetch_ready(in) == ~in.branch /\ fetch_valid(in) /\ in.req /\ in.ready

fetch_rdata == IF fifo = <<>> THEN Head(mem) ELSE Head(fifo)

-----------------------------------------------------------------------------
(* Transaction requests of the prefetch controller.                        *)

\* Variants of the definitions below, each with a bug the properties must catch.
MutIgnoresFifo(in) == 0

fifo_cnt_masked(in) == IF in.branch \/ in.hwlp THEN 0 ELSE Len(fifo)

MutCountToDepth(in) ==
    /\ in.req
    /\ fifo_cnt_masked(in) + cnt_q =< Depth
    /\ PulpObi => cnt_q = 0 \/ resp_valid(in)

MutOneInFlight(in) ==
    /\ in.req
    /\ fifo_cnt_masked(in) + cnt_q < Depth - 1

trans_valid(in) ==
    /\ in.req
    /\ fifo_cnt_masked(in) + cnt_q < Depth
    /\ PulpObi => cnt_q = 0 \/ resp_valid(in)

\* The OBI adapter takes a transaction whenever it holds none (TRANS_STABLE = 0).
trans_ready == obi_state_q = "TRANSPARENT"

trans_accepted(in) == trans_valid(in) /\ trans_ready

trans_addr(in) ==
    IF in.branch THEN in.target
    ELSE IF state_q = "BRANCH_WAIT" THEN trans_addr_q
    ELSE IF in.hwlp THEN in.target
    ELSE Incr(trans_addr_q)

\* FSM: a redirect whose first transaction is not accepted at once is replayed.
NextState(in) ==
    state_q' = IF state_q = "IDLE"
               THEN IF (in.branch \/ in.hwlp) /\ ~trans_accepted(in)
                    THEN "BRANCH_WAIT" ELSE "IDLE"
               ELSE IF trans_accepted(in) THEN "IDLE" ELSE "BRANCH_WAIT"

NextTransAddr(in) ==
    trans_addr_q' = IF in.branch \/ in.hwlp \/ trans_accepted(in)
                    THEN trans_addr(in) ELSE trans_addr_q

MutCountUpWins(in) ==
    cnt_q' = IF trans_accepted(in) THEN cnt_q + 1
             ELSE IF resp_valid(in) THEN cnt_q - 1 ELSE cnt_q

NextCnt(in) ==
    cnt_q' = cnt_q + (IF trans_accepted(in) THEN 1 ELSE 0)
                   - (IF resp_valid(in) THEN 1 ELSE 0)

-----------------------------------------------------------------------------
(* FIFO management and hardware-loop flushes.                              *)

fifo_push(in) ==
    /\ resp_valid(in)
    /\ fifo # <<>> \/ ~fetch_ready(in)
    /\ ~in.branch /\ flush_cnt_q = 0

fifo_pop(in) == fifo # <<>> /\ fetch_ready(in)

fifo_flush(in) ==
    in.branch \/ (CorevPulp /\ in.hwlp /\ fifo # <<>> /\ fifo_pop(in))

fifo_flush_but_first(in) ==
    CorevPulp /\ in.hwlp /\ fifo # <<>> /\ ~fifo_pop(in)

NextFifo(in) ==
    Fifo!Cycle(fifo_flush(in), fifo_flush_but_first(in),
               fifo_push(in), Head(mem), fifo_pop(in))

\* The last word of the loop body is here (or arrives now): flush what is behind.
hwlp_flush_resp(in) ==
    CorevPulp /\ in.hwlp /\ ~(fifo = <<>> /\ ~resp_valid(in))

\* It is still on its way: remember how many wrong requests are behind it ...
hwlp_wait_resp_flush(in) ==
    CorevPulp /\ in.hwlp /\ fifo = <<>> /\ ~resp_valid(in)

\* ... and flush them when it has come.
hwlp_flush_resp_delayed(in) == hwlp_flush_after_resp /\ resp_valid(in)

MutDelayedCountsLast(in) ==
    IF in.branch
    THEN hwlp_flush_after_resp' = FALSE /\ hwlp_flush_cnt_delayed_q' = 0
    ELSE IF hwlp_wait_resp_flush(in)
    THEN hwlp_flush_after_resp' = TRUE /\ hwlp_flush_cnt_delayed_q' = cnt_q
    ELSE IF hwlp_flush_resp_delayed(in)
    THEN hwlp_flush_after_resp' = FALSE /\ hwlp_flush_cnt_delayed_q' = 0
    ELSE UNCHANGED <<hwlp_flush_after_resp, hwlp_flush_cnt_delayed_q>>

NextDelayedFlush(in) ==
    IF in.branch
    THEN hwlp_flush_after_resp' = FALSE /\ hwlp_flush_cnt_delayed_q' = 0
    ELSE IF hwlp_wait_resp_flush(in)
    THEN hwlp_flush_after_resp' = TRUE /\ hwlp_flush_cnt_delayed_q' = cnt_q - 1
    ELSE IF hwlp_flush_resp_delayed(in)
    THEN hwlp_flush_after_resp' = FALSE /\ hwlp_flush_cnt_delayed_q' = 0
    ELSE UNCHANGED <<hwlp_flush_after_resp, hwlp_flush_cnt_delayed_q>>

MutFlushNeverEnds(in) ==
    flush_cnt_q' =
        IF in.branch \/ hwlp_flush_resp(in)
        THEN IF resp_valid(in) /\ cnt_q > 0 THEN cnt_q - 1 ELSE cnt_q
        ELSE IF hwlp_flush_resp_delayed(in) THEN hwlp_flush_cnt_delayed_q
        ELSE IF resp_valid(in) /\ flush_cnt_q > 1 THEN flush_cnt_q - 1
        ELSE flush_cnt_q

MutDelayedAddsUp(in) ==
    flush_cnt_q' =
        IF in.branch \/ hwlp_flush_resp(in)
        THEN IF resp_valid(in) /\ cnt_q > 0 THEN cnt_q - 1 ELSE cnt_q
        ELSE IF hwlp_flush_resp_delayed(in) THEN cnt_q - 1
        ELSE IF resp_valid(in) /\ flush_cnt_q > 0 THEN flush_cnt_q - 1
        ELSE flush_cnt_q

NextFlushCnt(in) ==
    flush_cnt_q' =
        IF in.branch \/ hwlp_flush_resp(in)
        THEN IF resp_valid(in) /\ cnt_q > 0 THEN cnt_q - 1 ELSE cnt_q
        ELSE IF hwlp_flush_resp_delayed(in) THEN hwlp_flush_cnt_delayed_q
        ELSE IF resp_valid(in) /\ flush_cnt_q > 0 THEN flush_cnt_q - 1
        ELSE flush_cnt_q

-----------------------------------------------------------------------------
(* The OBI adapter and the memory behind it (external: it grants a request *)
(* when it likes and answers the granted ones in order, at the earliest in *)
(* the cycle after the grant).                                             *)

obi_req(in)  == obi_state_q = "REGISTERED" \/ trans_valid(in)
obi_addr(in) == IF obi_state_q = "REGISTERED" THEN obi_addr_q ELSE trans_addr(in)

NextObi(in) ==
    /\ obi_state_q' = IF obi_req(in) /\ ~in.gnt THEN "REGISTERED" ELSE "TRANSPARENT"
    /\ obi_addr_q' = IF obi_state_q = "TRANSPARENT" /\ obi_req(in) /\ ~in.gnt
                     THEN obi_addr(in) ELSE obi_addr_q

NextMemory(in) ==
    LET left == IF in.rvalid THEN Tail(mem) ELSE mem
    IN  mem' = IF obi_req(in) /\ in.gnt THEN Append(left, obi_addr(in)) ELSE left

\* What the interface shows of the cycle.
NextIo(in) ==
    io' = Stream!Event(IF in.branch THEN "branch" ELSE IF in.hwlp THEN "loop" ELSE "none",
                       IF in.branch \/ in.hwlp THEN in.target ELSE None,
                       IF fetch_ready(in) THEN fetch_rdata ELSE None)

\* The ID stage: counts down the words it is given before the next loop jump.
NextLoopGap(in) ==
    LET gap == IF in.branch THEN GapAfterBranch
               ELSE IF in.hwlp THEN GapAfterLoop ELSE loop_gap
    IN  loop_gap' = IF fetch_ready(in) /\ gap > 0 THEN gap - 1 ELSE gap

-----------------------------------------------------------------------------
Init == /\ state_q = "IDLE"
        /\ cnt_q = 0
        /\ flush_cnt_q = 0
        /\ trans_addr_q = 0
        /\ hwlp_flush_after_resp = FALSE
        /\ hwlp_flush_cnt_delayed_q = 0
        /\ fifo = <<>>
        /\ obi_state_q = "TRANSPARENT"
        /\ obi_addr_q = 0
        /\ mem = <<>>
        /\ booted = FALSE
        /\ loop_gap = GapAfterBranch
        /\ io = Stream!Event("none", None, None)

Cycle(in) ==
    /\ in.rvalid => mem # <<>>
    /\ NextState(in)
    /\ NextTransAddr(in)
    /\ NextCnt(in)
    /\ NextFifo(in)
    /\ NextDelayedFlush(in)
    /\ NextFlushCnt(in)
    /\ NextObi(in)
    /\ NextMemory(in)
    /\ NextLoopGap(in)
    /\ NextIo(in)
    /\ booted' = (booted \/ in.branch)

\* A cycle in which the pipeline does not redirect the fetch.  Fetching is first
\* requested together with the jump to the boot address.
Advance(in) ==
    /\ ~in.branch /\ ~in.hwlp /\ in.target = 0
    /\ in.req => booted
    /\ Cycle(in)

\* A taken branch, a jump, a trap, a return ... (pc_set): fetching is requested.
Branch(in) ==
    /\ in.branch /\ ~in.hwlp /\ in.req /\ ~in.ready
    /\ Cycle(in)

\* The last but one instruction of a loop body is decoded and the loop goes on.
LoopJump(in) ==
    /\ CorevPulp
    /\ in.hwlp /\ ~in.branch /\ in.req
    /\ booted /\ loop_gap = 0
    /\ Cycle(in)

Step(in) == Advance(in) \/ Branch(in) \/ LoopJump(in)

Next == \E in \in Inputs : Step(in)

Spec == Init /\ [][Next]_vars

\* Fairness of the surroundings: requests get granted, granted ones get answered and
\* the fetch stage keeps asking for words and taking them.
Fairness ==
    /\ WF_vars(\E in \in Inputs : Step(in) /\ in.gnt)
    /\ WF_vars(\E in \in Inputs : Step(in) /\ in.rvalid)
    /\ WF_vars(\E in \in Inputs : Advance(in) /\ in.req /\ in.ready)

FairSpec == Spec /\ Fairness

-----------------------------------------------------------------------------
(* Correctness.                                                            *)

TypeOK ==
    /\ state_q \in {"IDLE", "BRANCH_WAIT"}
    /\ cnt_q \in 0..Depth
    /\ flush_cnt_q \in 0..Depth
    /\ trans_addr_q \in Addr
    /\ hwlp_flush_after_resp \in BOOLEAN
    /\ hwlp_flush_cnt_delayed_q \in 0..Depth
    /\ fifo \in Seq(Addr) /\ Len(fifo) =< Depth
    /\ obi_state_q \in {"TRANSPARENT", "REGISTERED"}
    /\ obi_addr_q \in Addr
    /\ mem \in Seq(Addr) /\ Len(mem) =< Depth
    /\ booted \in BOOLEAN
    /\ loop_gap \in 0..GapAfterLoop
    /\ io \in Stream!Events

\* The transactions accepted and not answered, oldest first: those the memory has
\* granted and the one the OBI adapter holds.
InFlight == IF obi_state_q = "REGISTERED" THEN Append(mem, obi_addr_q) ELSE mem

\* The responses that will be used: those behind the ones to flush or, while the
\* last word of a loop is awaited, that word and those behind the wrong ones.
Live ==
    IF hwlp_flush_after_resp
    THEN <<Head(InFlight)>>
         \o SubSeq(InFlight, hwlp_flush_cnt_delayed_q + 2, Len(InFlight))
    ELSE SubSeq(InFlight, flush_cnt_q + 1, Len(InFlight))

\* The address the controller will request next, unless redirected.
NextRequest == IF state_q = "BRANCH_WAIT" THEN trans_addr_q ELSE Incr(trans_addr_q)

\* The words the fetch stage will be given, up to the second one not requested yet.
Upcoming == fifo \o Live \o <<NextRequest, Incr(NextRequest)>>

Promise == INSTANCE InstrStream WITH next <- Upcoming[1], after <- Upcoming[2]

\* Whatever the memory's timing, the words handed over are exactly those of the
\* instruction stream: none lost, repeated, reordered or left over from before a
\* branch, and a loop jump takes effect right behind the last word of the body.
DeliversStream == Promise!Spec

\* The transaction counter counts what is outstanding on the bus, so that busy_o
\* (cnt_q # 0 or a request) never lets the core sleep over an unanswered fetch.
CountsOutstanding == cnt_q = Len(InFlight)

\* Every response that will not be flushed has room in the FIFO, even if the fetch
\* stage takes nothing more: the FIFO, which cannot refuse a word, never overflows.
RoomForResponses == Len(fifo) + Len(Live) =< Depth

\* No more responses are flushed than are outstanding, and not two flushes at once:
\* a delayed loop flush is only pending when no flush is going on.
FlushesOutstanding ==
    /\ flush_cnt_q =< cnt_q
    /\ hwlp_flush_after_resp =>
          /\ hwlp_flush_cnt_delayed_q < cnt_q
          /\ flush_cnt_q = 0
          /\ fifo = <<>>

\* When the ID stage may raise a loop jump, the last word of the body is in the FIFO
\* or has been requested (a_hwlp_end_already_gnt_when_hwlp_branch), nothing is being
\* flushed, and no earlier redirect waits for its first transaction.
ReadyForLoopJump ==
    booted /\ loop_gap = 0 =>
        /\ cnt_q > 0 \/ fifo # <<>>
        /\ flush_cnt_q = 0 /\ ~hwlp_flush_after_resp
        /\ state_q = "IDLE"

\* Once redirects stop, words keep coming: no combination of flushes, a full FIFO and
\* a withheld request leaves the fetch stage waiting for ever.
KeepsDelivering ==
    (<>booted /\ <>[](io.cmd = "none")) => []<><<io'.word # None>>_vars
=============================================================================
