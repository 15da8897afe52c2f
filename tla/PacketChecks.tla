---------------------------- MODULE PacketChecks ----------------------------
(***************************************************************************)
(* The replay scripts of the optimisation packets in athanor_artifacts:    *)
(* what each accepts, as a predicate on the packet's evidence, next to     *)
(* what the packet claims.  A source text is the sequence of its           *)
(* statements, a miter is what it truly shows, a synthesis summary is its  *)
(* area and its worst slack by timing group, and an activity record is     *)
(* what the two simulations do and what the packaged receipt says of them. *)
(* Yosys and Icarus are external: they answer truly or fail.               *)
(***************************************************************************)
EXTENDS Integers, FiniteSets, Sequences

CONSTANT None   \* a figure that is not applicable, a file that is not there

-----------------------------------------------------------------------------
(* replay_source_delta.py: the gate is the gold text with named replacements *)

Count(text, stmt) == Cardinality({i \in DOMAIN text : text[i] = stmt})

\* text.replace(old, new) for every pair; no new statement is an old one, so
\* the order does not matter.
Replaced(text, reps) ==
    [i \in DOMAIN text |-> IF text[i] \in DOMAIN reps THEN reps[text[i]] ELSE text[i]]

\* Two texts and the packaged patch; a unified diff names both of its sides.
UnifiedDiff(gold, gate) == [from |-> gold, to |-> gate]

SourceDelta(src, reps) ==
    /\ \A old \in DOMAIN reps :
          /\ Count(src.gold, old) = 1
          /\ Count(src.gate, reps[old]) = 1
          /\ Count(src.gate, old) = 0
    /\ Replaced(src.gold, reps) = src.gate
    /\ src.diff = UnifiedDiff(src.gold, src.gate)

divrem_replacements == [div_valid |-> "div_valid_prefix"]
shift_left_replacements == [shift_left |-> "shift_left_prefix"]
addsub_replacements ==
    [shift_use_round |-> "shift_use_round_prefix", div_valid |-> "div_valid_prefix",
     adder_op_b_negate |-> "adder_op_b_negate_prefix"]
shift_divvalid_replacements ==
    [shift_left |-> "shift_left_prefix", div_valid |-> "div_valid_prefix",
     adder_op_b_negate |-> "adder_op_b_negate_prefix"]
l71_replacements == [eq_zero |-> "nor_reduce"]
l244_replacements == [eq_zero |-> "nor_reduce"]
demorgan_replacements == [flush_resp |-> "flush_resp_demorgan"]
plus_next_replacements ==
    [next_cnt_case |-> "next_cnt_sum", flush_resp |-> "flush_resp_demorgan"]

divrem_source_delta(src) == SourceDelta(src, divrem_replacements)
shift_left_source_delta(src) == SourceDelta(src, shift_left_replacements)
addsub_source_delta(src) == SourceDelta(src, addsub_replacements)
shift_divvalid_source_delta(src) == SourceDelta(src, shift_divvalid_replacements)
l71_source_delta(src) == SourceDelta(src, l71_replacements)
l244_source_delta(src) == SourceDelta(src, l244_replacements)
demorgan_source_delta(src) == SourceDelta(src, demorgan_replacements)
plus_next_source_delta(src) == SourceDelta(src, plus_next_replacements)

\* The claim: the texts differ in one statement for each replacement and in
\* nothing else, the old statements are gone, and the patch shows just that.
ExactDelta(src, reps) ==
    LET moved == {i \in DOMAIN src.gold : src.gold[i] # src.gate[i]}
    IN  /\ Len(src.gold) = Len(src.gate)
        /\ \A old \in DOMAIN reps :
              \E i \in moved : /\ src.gold[i] = old /\ src.gate[i] = reps[old]
                               /\ \A j \in DOMAIN src.gold \ {i} : src.gold[j] # old
        /\ Cardinality(moved) = Cardinality(DOMAIN reps)
        /\ src.diff = UnifiedDiff(src.gold, src.gate)

-----------------------------------------------------------------------------
(* replay_predicate_equiv.py, replay_full_decoder_equiv.py: miters proved    *)

\* Where Yosys may die before it has come to a verdict.
Midway == {"crashes", "in_simple", "in_induct"}

Hung == [rc |-> 2, success |-> FALSE, fail |-> FALSE, witness |-> FALSE]

\* Yosys on one miter: a miter is the "same" on both sides, or "differs" and is
\* refuted by the counterexample the packet names, or is refuted "elsewhere".
\* Yosys may die before or after its verdict, or run into the script's timeout.
YosysLog(miter, fault) ==
    CASE fault = "hangs" -> Hung
      [] fault \in Midway ->
            [rc |-> 1, success |-> FALSE, fail |-> FALSE, witness |-> FALSE]
      [] OTHER -> [rc |-> IF fault = "dies_late" THEN 1 ELSE 0,
                   success |-> miter = "same", fail |-> miter # "same",
                   witness |-> miter = "differs"]

\* A case with its expected verdict, and no other, from a Yosys that ended well.
CaseHolds(log, expect) ==
    /\ log.rc = 0
    /\ IF expect = "success" THEN log.success /\ ~log.fail
                             ELSE log.fail /\ ~log.success

CasesHold(miters, fault, cases) ==
    \A c \in DOMAIN cases : CaseHolds(YosysLog(miters[c], fault[c]), cases[c])

addsub_predicate_cases ==
    [positive |-> "success", negative_addsub_prefix_0101 |-> "fail",
     negative_div_prefix_01101 |-> "fail", negative_adder_even_subs |-> "fail"]
shift_divvalid_predicate_cases ==
    [positive |-> "success", negative_shift_prefix_01101 |-> "fail",
     negative_div_prefix_01101 |-> "fail", negative_adder_even_subs |-> "fail"]
l71_predicate_cases ==
    [positive |-> "success", negative_missing_bit12 |-> "fail",
     negative_missing_bit5 |-> "fail"]
l244_predicate_cases ==
    [positive |-> "success", negative_missing_bit12 |-> "fail",
     negative_missing_bit2 |-> "fail"]
plus_next_predicate_cases ==
    [positive |-> "success", negative_wrong_demorgan |-> "fail",
     negative_nextcnt_missing_down |-> "fail"]
two_cases == [positive |-> "success", negative |-> "fail"]
demorgan_predicate_cases ==
    [positive |-> "success", negative_missing_jump |-> "fail",
     negative_wrong_demorgan |-> "fail"]
l71_full_cases ==
    [positive_fpu0_zfinx0 |-> "success", positive_fpu1_zfinx0 |-> "success",
     positive_fpu1_zfinx1 |-> "success", negative_missing_bit12 |-> "fail",
     negative_missing_bit5 |-> "fail"]
l244_full_cases ==
    [positive_fpu0_zfinx0 |-> "success", positive_fpu1_zfinx0 |-> "success",
     positive_fpu1_zfinx1 |-> "success", negative_missing_bit12 |-> "fail",
     negative_missing_bit2 |-> "fail"]

addsub_predicate_equiv(ms, fault) == CasesHold(ms, fault, addsub_predicate_cases)
shift_divvalid_predicate_equiv(ms, fault) ==
    CasesHold(ms, fault, shift_divvalid_predicate_cases)
l71_predicate_equiv(ms, fault) == CasesHold(ms, fault, l71_predicate_cases)
l244_predicate_equiv(ms, fault) == CasesHold(ms, fault, l244_predicate_cases)
plus_next_predicate_equiv(ms, fault) == CasesHold(ms, fault, plus_next_predicate_cases)
l71_full_decoder_equiv(ms, fault) == CasesHold(ms, fault, l71_full_cases)
l244_full_decoder_equiv(ms, fault) == CasesHold(ms, fault, l244_full_cases)

\* The negative log must also show the counterexample the packet names.
shift_left_predicate_equiv(ms, fault) ==
    /\ CasesHold(ms, fault, two_cases)
    /\ YosysLog(ms["negative"], fault["negative"]).witness

\* Reads the verdict alone, whatever Yosys returns.
demorgan_predicate_equiv(ms, fault) ==
    \A c \in DOMAIN demorgan_predicate_cases :
        LET log == YosysLog(ms[c], fault[c])
        IN  IF demorgan_predicate_cases[c] = "success"
            THEN log.success /\ ~log.fail ELSE log.fail /\ ~log.success

\* Reads only the verdict it expects; the negative must expose diff_o = 1, as
\* every counterexample to diff_o = 0 does.  It waits for Yosys without limit:
\* a hung one ends with the job that runs the script, and not well.
divrem_predicate_equiv(ms, fault) ==
    /\ YosysLog(ms["positive"], fault["positive"]).success
    /\ YosysLog(ms["negative"], fault["negative"]).fail

\* The claim: what must be proved is true, and each negative control is false,
\* at the counterexample named where one is.
MitersShow(ms, cases) ==
    \A c \in DOMAIN cases : (cases[c] = "success") = (ms[c] = "same")

-----------------------------------------------------------------------------
(* replay_parent_equiv.sh, replay_rf_grid.sh: cells left unproven            *)

\* What is left unproven of two designs is the number of cells when equiv_simple
\* starts, when equiv_induct starts, and at the end.  The first two are printed
\* only if they are not 0.  Yosys refuses designs that are not proven equivalent,
\* and may die in either step or after the verdict; the scripts wait for it
\* without limit, so that a hung one ends with the job, and not well.
EquivLog(left, fault) ==
    LET reached == CASE fault \in {"crashes", "hangs"} -> 0
                     [] fault = "in_simple" -> 1
                     [] fault = "in_induct" -> 2
                     [] OTHER -> 3
        printed == {i \in 1..reached : left[i] > 0 \/ i = 3}
    IN  [rc |-> IF fault = "none" /\ left[3] = 0 THEN 0 ELSE 1,
         counts |-> {i \in printed : \A j \in printed : j <= i}]

\* The last count in the log is the expected one, and Yosys ended well where
\* nothing may be left, and did not where something must be.
UnprovenCount(left, fault, expected) ==
    LET log == EquivLog(left, fault)
    IN  /\ \E i \in log.counts : left[i] = expected
        /\ (log.rc = 0) = (expected = 0)

parent_cases == [parent_positive |-> 0, parent_negative |-> 32]
rf_grid_cases ==
    [real_fpu0_zfinx0 |-> 0, real_fpu1_zfinx0 |-> 0, real_fpu1_zfinx1 |-> 0,
     neg_fpu0_zfinx0 |-> 32]

CountsHold(cells, fault, cases) ==
    \A c \in DOMAIN cases : UnprovenCount(cells[c], fault[c], cases[c])

mux_zero_parent_equiv(cells, fault) == CountsHold(cells, fault, parent_cases)
high_bank_parent_equiv(cells, fault) == CountsHold(cells, fault, parent_cases)
mux_zero_rf_grid(cells, fault) == CountsHold(cells, fault, rf_grid_cases)
high_bank_rf_grid(cells, fault) == CountsHold(cells, fault, rf_grid_cases)

\* The claim: of what must be equivalent nothing is left unproven, and the
\* negative control comes by its 32 cells.  Not that they are left at the end: a
\* Yosys that dies in one of its steps leaves the count it started with.
CellsShow(cells, cases) ==
    \A c \in DOMAIN cases :
        IF cases[c] = 0 THEN cells[c][3] = 0 ELSE \E i \in 1..3 : cells[c][i] = cases[c]

-----------------------------------------------------------------------------
(* replay_selected_summary.py: area and worst slack of gold and gate         *)

\* Every group of the baseline is looked up in the gate; a group the gate lacks
\* is an error.
Regressed(flow) ==
    {g \in DOMAIN flow.baseline.wns : flow.gate.wns[g] < flow.baseline.wns[g]}
GroupsFound(flow) == DOMAIN flow.baseline.wns \subseteq DOMAIN flow.gate.wns
AreaHeld(flow) == flow.gate.area <= flow.baseline.area

\* Neither the area nor any group gets worse.
NoRegression(flow) == GroupsFound(flow) /\ AreaHeld(flow) /\ Regressed(flow) = {}

addsub_selected_summary(f) == NoRegression(f.context)
shift_divvalid_selected_summary(f) == NoRegression(f.context)
shift_left_selected_summary(f) == NoRegression(f.context)

\* Groups that are not applicable on a side are passed over.
Compare(flow) ==
    /\ GroupsFound(flow) /\ AreaHeld(flow)
    /\ \A g \in DOMAIN flow.baseline.wns :
          \/ None \in {flow.baseline.wns[g], flow.gate.wns[g]}
          \/ flow.gate.wns[g] >= flow.baseline.wns[g]
l71_selected_summary(f) == Compare(f.context) /\ Compare(f.module)
l244_selected_summary(f) == Compare(f.context) /\ Compare(f.module)

\* The IF stage is read and reported, its figures decide nothing.
demorgan_selected_summary(f) == NoRegression(f.context) /\ GroupsFound(f.module)

\* The prefetch buffer must regress in exactly the group the packet names.
plus_next_selected_summary(f) ==
    /\ NoRegression(f.context)
    /\ GroupsFound(f.module) /\ AreaHeld(f.module)
    /\ Regressed(f.module) = {"in2out"}

\* The figures must be the ones pinned in the script, and these must show a
\* smaller area and no slower group.  A group that is not pinned is not looked at.
JointBar(flow, pinned) ==
    /\ DOMAIN pinned.baseline.wns \subseteq
          DOMAIN flow.baseline.wns \cap DOMAIN flow.gate.wns
    /\ flow.baseline.area = pinned.baseline.area /\ flow.gate.area = pinned.gate.area
    /\ \A g \in DOMAIN pinned.baseline.wns :
          /\ flow.baseline.wns[g] = pinned.baseline.wns[g]
          /\ flow.gate.wns[g] = pinned.gate.wns[g]
          /\ flow.gate.wns[g] >= flow.baseline.wns[g]
    /\ flow.gate.area < flow.baseline.area
divrem_selected_summary(f) == JointBar(f.context, f.pinned)
mux_zero_selected_summary(f) == JointBar(f.context, f.pinned)
high_bank_selected_summary(f) == JointBar(f.context, f.pinned)

-----------------------------------------------------------------------------
(* activity/replay_toggle.py: both designs under one trace                   *)

\* The simulation runs, and the gate's outputs are the gold's in every cycle:
\* the test bench stops at the first difference.
Simulates(act, fault) == fault["sim"] = "none" /\ act.equal

ToggleStatus(gold, gate) == IF gate <= gold THEN "neutral_or_better" ELSE "regression"

\* The counts, the sampled exercise and the status must be the packaged ones.
PackagedCounts(act, fault) ==
    /\ Simulates(act, fault)
    /\ act.packaged.gold = act.gold /\ act.packaged.gate = act.gate
    /\ act.packaged.status = ToggleStatus(act.gold, act.gate)
    /\ act.packaged.exercise = act.exercise
    /\ act.paths > 0
divrem_replay_toggle(act, fault) == PackagedCounts(act, fault)
addsub_replay_toggle(act, fault) == PackagedCounts(act, fault)
shift_divvalid_replay_toggle(act, fault) == PackagedCounts(act, fault)
shift_left_replay_toggle(act, fault) == PackagedCounts(act, fault)

\* The operands must have been exercised, the gate may not toggle more, and both
\* counts are the one the script expects.
ExercisedCounts(act, fault) ==
    /\ Simulates(act, fault)
    /\ act.exercise > 0
    /\ ToggleStatus(act.gold, act.gate) = "neutral_or_better"
    /\ act.gold = act.packaged.gold /\ act.gate = act.packaged.gold
mux_zero_replay_toggle(act, fault) == ExercisedCounts(act, fault)
high_bank_replay_toggle(act, fault) == ExercisedCounts(act, fault)

\* Gold and gate are simulated apart and their printed boundaries compared; the
\* length of the run and the counts must be the packaged ones.
ComparedRows(act, fault) ==
    /\ fault["sim"] = "none"
    /\ act.cycles = act.packaged.cycles
    /\ act.packaged.gold = act.gold /\ act.packaged.gate = act.gate
    /\ act.equal
l71_replay_toggle(act, fault) == ComparedRows(act, fault)
l244_replay_toggle(act, fault) == ComparedRows(act, fault)
demorgan_replay_toggle(act, fault) == ComparedRows(act, fault) /\ act.gate = act.gold

\* Only the boundaries decide.
plus_next_replay_toggle(act, fault) == fault["sim"] = "none" /\ act.equal
=============================================================================
