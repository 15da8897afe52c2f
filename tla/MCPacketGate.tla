---------------------------- MODULE MCPacketGate ----------------------------
(* Evidence and repositories for model checking PacketGate. *)
EXTENDS PacketGate, SequencesExt

Truth(cases) == [c \in DOMAIN cases |-> IF cases[c] = "success" THEN "same" ELSE "differs"]

\* Sources: a module header and the statements to replace.
Text(p) == <<"module">> \o SetToSeq(DOMAIN Replacements(p))
Source(old, new) == [gold |-> old, gate |-> new, diff |-> UnifiedDiff(old, new)]
GoodSource(p) == Source(Text(p), Replaced(Text(p), Replacements(p)))

\* A statement more, on either side or on both; a replacement made twice, or
\* left out; a statement lost; a patch of other texts.
Sources(p) ==
    LET gold == Text(p)  new == Replaced(gold, Replacements(p))
        first == gold[2]
    IN  {GoodSource(p), Source(gold, gold), Source(gold, new \o <<"extra">>),
         Source(gold \o <<"extra">>, new \o <<"extra">>),
         Source(gold \o <<first>>, new \o <<Replacements(p)[first]>>),
         Source(gold \o <<first>>, new \o <<first>>),
         Source(gold \o <<"extra">>, new \o <<"other">>),
         Source(gold, Front(new)),
         [GoodSource(p) EXCEPT !.diff = UnifiedDiff(gold, gold)]}

MiterSets(ms) == {ms} \cup {[ms EXCEPT ![c] = v] : c \in DOMAIN ms,
                                v \in {"same", "differs", "elsewhere"}}

\* Synthesis summaries of two groups; a smaller gate, faster in one of them.
Side(area, overall, in2out) ==
    [area |-> area, wns |-> [overall |-> overall, in2out |-> in2out]]
Flow(baseline, gt) == [baseline |-> baseline, gate |-> gt]
GoodFlow == Flow(Side(10, -2, -2), Side(9, -2, -1))
CaveatFlow == Flow(Side(10, -2, -2), Side(9, -1, -3))
MoreGroups == Flow([area |-> 10, wns |-> [overall |-> -2, in2out |-> -2, in2reg |-> -2]],
                   [area |-> 9, wns |-> [overall |-> -2, in2out |-> -1, in2reg |-> -3]])
GoodFlows(p) ==
    [context |-> GoodFlow, pinned |-> GoodFlow,
     module |-> IF p = "prefetch_hwlp_plus_next_cnt_arith" THEN CaveatFlow ELSE GoodFlow]

\* The gate larger, equal, slower in a group; a group that is missing on one
\* side; a slower group that is not among those of the packet; and, where the
\* scripts allow it, a group without a figure.
Sides(p) == {Side(11, -2, -1), Side(10, -2, -1), Side(9, -3, -1), Side(9, -2, -3),
             [area |-> 9, wns |-> [overall |-> -1]]}
            \cup (IF p \in Decoders THEN {Side(9, None, -1)} ELSE {})
Flows(p) ==
    LET good == GoodFlows(p)
    IN  {[good EXCEPT !.context.gate = s] : s \in Sides(p)}
        \cup {[good EXCEPT !.context.gate = s, !.pinned.gate = s] : s \in Sides(p)}
        \cup {[good EXCEPT !.module.gate = s] : s \in Sides(p)}
        \cup {[good EXCEPT !.context.baseline = [area |-> 10, wns |-> [overall |-> -2]]]}
        \cup {[good EXCEPT !.context = MoreGroups]}

Act(gold, gt, equal, exercise, paths, packaged) ==
    [gold |-> gold, gate |-> gt, equal |-> equal, exercise |-> exercise,
     paths |-> paths, cycles |-> 6, packaged |-> packaged]
Receipt(gold, gt, exercise, cycles) ==
    [gold |-> gold, gate |-> gt, status |-> ToggleStatus(gold, gt),
     exercise |-> exercise, cycles |-> cycles]
GoodAct == Act(4, 4, TRUE, 2, 3, Receipt(4, 4, 2, 6))

\* Other outputs, more or fewer toggles, no exercise, no common path, with the
\* packaged receipt left as it was or written anew.
Acts == {GoodAct, Act(4, 4, FALSE, 2, 3, Receipt(4, 4, 2, 6)),
         Act(4, 4, TRUE, 0, 3, Receipt(4, 4, 0, 6)), Act(4, 4, TRUE, 0, 3, Receipt(4, 4, 2, 6)),
         Act(4, 4, TRUE, 2, 0, Receipt(4, 4, 2, 6)), Act(4, 4, TRUE, 2, 3, Receipt(4, 4, 2, 7)),
         Act(4, 5, TRUE, 2, 3, Receipt(4, 4, 2, 6)), Act(4, 5, TRUE, 2, 3, Receipt(4, 5, 2, 6)),
         Act(4, 5, TRUE, 2, 3,
             [Receipt(4, 5, 2, 6) EXCEPT !.status = "neutral_or_better"])}

\* Cells unproven at the three stages of an equivalence check: proven, refuted by
\* 32 cells, by others, at first only, and designs without a cell to compare.
GoodCells(cases) ==
    [c \in DOMAIN cases |-> IF cases[c] = 0 THEN <<64, 32, 0>> ELSE <<64, 32, 32>>]
Cells == {<<64, 0, 0>>, <<64, 32, 0>>, <<64, 32, 32>>, <<64, 16, 16>>, <<32, 0, 0>>, <<0, 0, 0>>}
CellSets(cases) ==
    {[GoodCells(cases) EXCEPT ![c] = left] : c \in DOMAIN cases, left \in Cells}

GoodPart(p, x) ==
    CASE x = "src"    -> GoodSource(p)
      [] x = "miters" -> Truth(PredicateCases(p))
      [] x = "full"   -> Truth(FullCases(p))
      [] x = "parent" -> GoodCells(parent_cases)
      [] x = "grid"   -> GoodCells(rf_grid_cases)
      [] x = "flow"   -> GoodFlows(p)
      [] x = "act"    -> GoodAct
OtherParts(p, x) ==
    CASE x = "src"    -> Sources(p)
      [] x = "miters" -> MiterSets(Truth(PredicateCases(p)))
      [] x = "full"   -> MiterSets(Truth(FullCases(p)))
      [] x = "parent" -> CellSets(parent_cases)
      [] x = "grid"   -> CellSets(rf_grid_cases)
      [] x = "flow"   -> Flows(p)
      [] x = "act"    -> Acts

\* Two packets of different families lie together, with one false text for each
\* part; their scripts are those of others up to names.  Every other packet is by
\* itself, with all of the texts above.
Pair == {"alu_shift_divvalid_adderneg_prefixes", "register_file_readmask_generate_mux_zero"}
FalsePart(p, x) ==
    CASE x = "src"    -> Source(Text(p), Text(p))
      [] x = "miters" -> [c \in DOMAIN PredicateCases(p) |-> "differs"]
      [] x = "parent" -> [c \in DOMAIN parent_cases |-> <<64, 32, 32>>]
      [] x = "grid"   -> [c \in DOMAIN rf_grid_cases |-> <<64, 32, 32>>]
      [] x = "flow"   -> [GoodFlows(p) EXCEPT !.context.gate = Side(9, -3, -1)]
      [] x = "act"    -> Act(4, 4, FALSE, 2, 3, Receipt(4, 4, 2, 6))

MCGood == [p \in PacketNames |-> [x \in Parts(p) |-> GoodPart(p, x)]]
MCVariants ==
    [p \in PacketNames |-> [x \in Parts(p) |->
        IF p \in Pair THEN {FalsePart(p, x)} ELSE OtherParts(p, x)]]
MCRepos == {Pair} \cup {{p} : p \in PacketNames \ Pair}

\* One change to a packet by itself, two where there are two.
MCMaxEdits == [repo \in MCRepos |-> Cardinality(repo)]

\* Two locks that name the same tools, and one that names others.
MCFirstLock == [tools |-> "yosys_0_66", notes |-> 0]
MCLocks == {MCFirstLock, [MCFirstLock EXCEPT !.notes = 1], [tools |-> "yosys_0_67", notes |-> 1]}
=============================================================================
