----------------------------- MODULE PacketGate -----------------------------
(***************************************************************************)
(* How a change to the optimisation packets reaches master.  An author     *)
(* edits a branch: the files of a packet, its checksum list, its manifests *)
(* and the toolchain lock; files are removed, and moved to where nothing   *)
(* reads them.  Two jobs look at the pull request: the replay gate checks  *)
(* every manifest against the lock and then replays the packet directories *)
(* that git lists as changed, and the receipts job verifies checksum       *)
(* lists, manifests and wording.  The branch is merged when both are       *)
(* green; one pull request is open at a time.                              *)
(***************************************************************************)
EXTENDS PacketChecks, Functions

CONSTANTS
    Repos,      \* sets of packets a repository may hold
    Good,       \* the evidence each packet was published with, part by part
    Variants,   \* other contents an author may write for each part
    Locks,      \* contents of tools/TOOLCHAIN.lock, as [tools, notes]
    FirstLock,  \* the one the packets were published under
    MaxEdits    \* bound on the author's changes, in each of the repositories

\* The packets under athanor_artifacts.
Decoders == {"compressed_decoder_l71_addi4spn_zero_reduce",
             "compressed_decoder_l244_addi16sp_lui_zero_reduce"}
RegisterFiles == {"register_file_readmask_generate_mux_zero",
                  "register_file_readmask_high_bank_zero"}
PacketNames == Decoders \cup RegisterFiles \cup {
    "alu_divrem_prefix_valid", "alu_shift_left_divrem_prefix",
    "alu_addsub_divvalid_adderneg_prefixes", "alu_shift_divvalid_adderneg_prefixes",
    "prefetch_hwlp_flush_demorgan", "prefetch_hwlp_plus_next_cnt_arith"}

\* The replay scripts of a packet, and the part of its evidence each one reads.
Scripts(p) ==
    {"replay_selected_summary", "replay_toggle"} \cup
    IF p \in RegisterFiles THEN {"replay_parent_equiv", "replay_rf_grid"}
    ELSE {"replay_source_delta", "replay_predicate_equiv"} \cup
         IF p \in Decoders THEN {"replay_full_decoder_equiv"} ELSE {}
Part == [replay_source_delta |-> "src", replay_predicate_equiv |-> "miters",
         replay_full_decoder_equiv |-> "full", replay_parent_equiv |-> "parent",
         replay_rf_grid |-> "grid", replay_selected_summary |-> "flow",
         replay_toggle |-> "act"]
Parts(p) == {Part[s] : s \in Scripts(p)}
Contents(p, x) == {Good[p][x]} \cup Variants[p][x]

\* Texts are sequences of statements and figures are numbers; a timing group
\* without a figure is one only the decoders' scripts can read.
EvidenceOK(p, x, e) ==
    /\ x = "src" => e.gold \in Seq(STRING)
    /\ x = "flow" =>
          \A flow \in {e.context, e.module} : \A side \in {flow.baseline, flow.gate} :
          \A g \in DOMAIN side.wns :
              side.wns[g] \in Int \/ (p \in Decoders /\ side.wns[g] = None)
    /\ x = "act" => e.gold \in Int /\ e.gate \in Int

ASSUME GateAssumption ==
    /\ MaxEdits \in [Repos -> Nat] /\ FirstLock \in Locks
    /\ \A repo \in Repos : repo \subseteq PacketNames
    /\ \A p \in PacketNames : \A x \in Parts(p) : \A e \in Contents(p, x) :
          EvidenceOK(p, x, e)

VARIABLES
    master,     \* the repository's master
    head,       \* the branch under review
    gate,       \* the replay job
    receipts,   \* the receipts job
    under,      \* the lock each packet on master was last replayed under
    blind,      \* a branch was merged whose changes git had failed to list
    edits

vars == <<master, head, gate, receipts, under, blind, edits>>

Packets == DOMAIN master.packets
Denials == {"accepted", "whole_core", "customer"}

-----------------------------------------------------------------------------
(* A packet is a function from the names of the files that are there to what  *)
(* is in them; one that was removed has none.  The list of checksums has a    *)
(* form and, for each file it names, the contents it was made of.             *)

Nothing == [x \in {} |-> x]
Put(c, x, v) == [y \in DOMAIN c \cup {x} |-> IF y = x THEN v ELSE c[y]]

Listing(c) == "SHA256SUMS" \in DOMAIN c
Lines(c) == c["SHA256SUMS"].lines
Lists(c, x) == Listing(c) /\ x \in DOMAIN Lines(c)
PutLines(c, lines) == [c EXCEPT !["SHA256SUMS"].lines = lines]
FullList(c) == [form |-> "lines", lines |-> Restrict(c, DOMAIN c \ {"SHA256SUMS"})]

\* A file is written, or taken out, with its line in the list if it has one.
Write(c, x, v) ==
    IF Lists(c, x) THEN PutLines(Put(c, x, v), Put(Lines(c), x, v)) ELSE Put(c, x, v)
TakeOut(c, x) ==
    LET rest == Restrict(c, DOMAIN c \ {x})
    IN  IF Lists(rest, x) THEN PutLines(rest, Restrict(Lines(c), DOMAIN Lines(c) \ {x}))
                          ELSE rest

-----------------------------------------------------------------------------
(* check_packet_toolchain_lock.py *)

\* What the claim disowns is not asked.
MutNoBoundary(m) ==
    /\ m.schema
    /\ m.status \in {"evidence_packet", "auxiliary_evidence_manifest"}
    /\ m.promotion = "not_customer_ready" /\ ~m.ready
    /\ m.claimed = {}
    /\ m.scopes
    /\ m.status = "evidence_packet" => m.classified
    /\ m.dual => m.caveat

\* Boundary, scope and promotion of a claim.
TaxonomyHolds(m) ==
    /\ m.schema
    /\ m.status \in {"evidence_packet", "auxiliary_evidence_manifest"}
    /\ m.promotion = "not_customer_ready"
    /\ ~m.ready
    /\ m.claimed = {}
    /\ m.scopes
    /\ Denials \subseteq m.denies
    /\ m.status = "evidence_packet" => m.classified
    /\ m.dual => m.caveat

\* The pin is compared by the tools it names, not by the lock file's hash.
MutPinsTools(m, lock) == m.json /\ m.tools = lock.tools /\ TaxonomyHolds(m)

ManifestPinned(m, lock) ==
    /\ m.json
    /\ m.tools = lock.tools
    /\ m.pin = lock
    /\ TaxonomyHolds(m)

\* Manifests at any depth of the packet directories.
Manifests(tree) ==
    UNION {{tree.packets[p][x] : x \in {"manifest", "nested"} \cap DOMAIN tree.packets[p]} :
              p \in DOMAIN tree.packets}

\* Only the manifests directly in the packet directories are looked at.
MutTopOnly(tree) ==
    /\ Manifests(tree) # {}
    /\ \A p \in DOMAIN tree.packets :
          "manifest" \in DOMAIN tree.packets[p]
              => ManifestPinned(tree.packets[p].manifest, tree.lock)

LockCheck(tree) ==
    /\ Manifests(tree) # {}
    /\ \A m \in Manifests(tree) : ManifestPinned(m, tree.lock)

-----------------------------------------------------------------------------
(* verify_public_receipts.py *)

\* Every file a list names is there and is what the list was made of.  A file
\* that is not named is not looked at.
ListRight(c) == \A x \in DOMAIN Lines(c) : x \in DOMAIN c /\ c[x] = Lines(c)[x]

\* A file that is named but not there is passed over.
MutIgnoresMissing(c) ==
    Listing(c) => /\ c["SHA256SUMS"].form = "lines"
                  /\ \A x \in DOMAIN Lines(c) \cap DOMAIN c : c[x] = Lines(c)[x]

\* A list that is not there is not looked at, and one without a line is fine.
ShaManifest(c) == Listing(c) => c["SHA256SUMS"].form = "lines" /\ ListRight(c)

ReceiptManifest(m) ==
    /\ m.json /\ ~m.ready
    /\ m.promotion = "not_customer_ready"
    /\ m.claimed = {}
    /\ {"accepted", "customer"} \subseteq m.denies

\* Manifests directly in the packet directories.
TopManifests(tree) ==
    {tree.packets[p].manifest :
        p \in {q \in DOMAIN tree.packets : "manifest" \in DOMAIN tree.packets[q]}}

Verify(tree) ==
    /\ LockCheck(tree)
    /\ \E p \in DOMAIN tree.packets : Listing(tree.packets[p])
    /\ \A p \in DOMAIN tree.packets : ShaManifest(tree.packets[p])
    /\ TopManifests(tree) # {}
    /\ \A m \in TopManifests(tree) : ReceiptManifest(m)
    /\ ~tree.private

-----------------------------------------------------------------------------
(* The scripts of the packets *)

replay_source_delta(p, e) ==
    CASE p = "alu_divrem_prefix_valid" -> divrem_source_delta(e)
      [] p = "alu_shift_left_divrem_prefix" -> shift_left_source_delta(e)
      [] p = "alu_addsub_divvalid_adderneg_prefixes" -> addsub_source_delta(e)
      [] p = "alu_shift_divvalid_adderneg_prefixes" -> shift_divvalid_source_delta(e)
      [] p = "compressed_decoder_l71_addi4spn_zero_reduce" -> l71_source_delta(e)
      [] p = "compressed_decoder_l244_addi16sp_lui_zero_reduce" -> l244_source_delta(e)
      [] p = "prefetch_hwlp_flush_demorgan" -> demorgan_source_delta(e)
      [] p = "prefetch_hwlp_plus_next_cnt_arith" -> plus_next_source_delta(e)

replay_predicate_equiv(p, e, fault) ==
    CASE p = "alu_divrem_prefix_valid" -> divrem_predicate_equiv(e, fault)
      [] p = "alu_shift_left_divrem_prefix" -> shift_left_predicate_equiv(e, fault)
      [] p = "alu_addsub_divvalid_adderneg_prefixes" -> addsub_predicate_equiv(e, fault)
      [] p = "alu_shift_divvalid_adderneg_prefixes" -> shift_divvalid_predicate_equiv(e, fault)
      [] p = "compressed_decoder_l71_addi4spn_zero_reduce" -> l71_predicate_equiv(e, fault)
      [] p = "compressed_decoder_l244_addi16sp_lui_zero_reduce" -> l244_predicate_equiv(e, fault)
      [] p = "prefetch_hwlp_flush_demorgan" -> demorgan_predicate_equiv(e, fault)
      [] p = "prefetch_hwlp_plus_next_cnt_arith" -> plus_next_predicate_equiv(e, fault)

replay_full_decoder_equiv(p, e, fault) ==
    CASE p = "compressed_decoder_l71_addi4spn_zero_reduce" -> l71_full_decoder_equiv(e, fault)
      [] p = "compressed_decoder_l244_addi16sp_lui_zero_reduce" -> l244_full_decoder_equiv(e, fault)

replay_parent_equiv(p, e, fault) ==
    CASE p = "register_file_readmask_generate_mux_zero" -> mux_zero_parent_equiv(e, fault)
      [] p = "register_file_readmask_high_bank_zero" -> high_bank_parent_equiv(e, fault)

replay_rf_grid(p, e, fault) ==
    CASE p = "register_file_readmask_generate_mux_zero" -> mux_zero_rf_grid(e, fault)
      [] p = "register_file_readmask_high_bank_zero" -> high_bank_rf_grid(e, fault)

replay_selected_summary(p, e) ==
    CASE p = "alu_divrem_prefix_valid" -> divrem_selected_summary(e)
      [] p = "alu_shift_left_divrem_prefix" -> shift_left_selected_summary(e)
      [] p = "alu_addsub_divvalid_adderneg_prefixes" -> addsub_selected_summary(e)
      [] p = "alu_shift_divvalid_adderneg_prefixes" -> shift_divvalid_selected_summary(e)
      [] p = "compressed_decoder_l71_addi4spn_zero_reduce" -> l71_selected_summary(e)
      [] p = "compressed_decoder_l244_addi16sp_lui_zero_reduce" -> l244_selected_summary(e)
      [] p = "prefetch_hwlp_flush_demorgan" -> demorgan_selected_summary(e)
      [] p = "prefetch_hwlp_plus_next_cnt_arith" -> plus_next_selected_summary(e)
      [] p = "register_file_readmask_generate_mux_zero" -> mux_zero_selected_summary(e)
      [] p = "register_file_readmask_high_bank_zero" -> high_bank_selected_summary(e)

replay_toggle(p, e, fault) ==
    CASE p = "alu_divrem_prefix_valid" -> divrem_replay_toggle(e, fault)
      [] p = "alu_shift_left_divrem_prefix" -> shift_left_replay_toggle(e, fault)
      [] p = "alu_addsub_divvalid_adderneg_prefixes" -> addsub_replay_toggle(e, fault)
      [] p = "alu_shift_divvalid_adderneg_prefixes" -> shift_divvalid_replay_toggle(e, fault)
      [] p = "compressed_decoder_l71_addi4spn_zero_reduce" -> l71_replay_toggle(e, fault)
      [] p = "compressed_decoder_l244_addi16sp_lui_zero_reduce" -> l244_replay_toggle(e, fault)
      [] p = "prefetch_hwlp_flush_demorgan" -> demorgan_replay_toggle(e, fault)
      [] p = "prefetch_hwlp_plus_next_cnt_arith" -> plus_next_replay_toggle(e, fault)
      [] p = "register_file_readmask_generate_mux_zero" -> mux_zero_replay_toggle(e, fault)
      [] p = "register_file_readmask_high_bank_zero" -> high_bank_replay_toggle(e, fault)

\* What a script of a packet says of the evidence it reads ...
Verdict(p, s, e, fault) ==
    CASE s = "replay_source_delta"       -> replay_source_delta(p, e)
      [] s = "replay_predicate_equiv"    -> replay_predicate_equiv(p, e, fault)
      [] s = "replay_full_decoder_equiv" -> replay_full_decoder_equiv(p, e, fault)
      [] s = "replay_parent_equiv"       -> replay_parent_equiv(p, e, fault)
      [] s = "replay_rf_grid"            -> replay_rf_grid(p, e, fault)
      [] s = "replay_selected_summary"   -> replay_selected_summary(p, e)
      [] s = "replay_toggle"             -> replay_toggle(p, e, fault)

\* ... and what the packet claims of it.  The changes to the source:
Replacements(p) ==
    CASE p = "alu_divrem_prefix_valid" -> divrem_replacements
      [] p = "alu_shift_left_divrem_prefix" -> shift_left_replacements
      [] p = "alu_addsub_divvalid_adderneg_prefixes" -> addsub_replacements
      [] p = "alu_shift_divvalid_adderneg_prefixes" -> shift_divvalid_replacements
      [] p = "compressed_decoder_l71_addi4spn_zero_reduce" -> l71_replacements
      [] p = "compressed_decoder_l244_addi16sp_lui_zero_reduce" -> l244_replacements
      [] p = "prefetch_hwlp_flush_demorgan" -> demorgan_replacements
      [] p = "prefetch_hwlp_plus_next_cnt_arith" -> plus_next_replacements

PredicateCases(p) ==
    CASE p = "alu_addsub_divvalid_adderneg_prefixes" -> addsub_predicate_cases
      [] p = "alu_shift_divvalid_adderneg_prefixes" -> shift_divvalid_predicate_cases
      [] p = "compressed_decoder_l71_addi4spn_zero_reduce" -> l71_predicate_cases
      [] p = "compressed_decoder_l244_addi16sp_lui_zero_reduce" -> l244_predicate_cases
      [] p = "prefetch_hwlp_flush_demorgan" -> demorgan_predicate_cases
      [] p = "prefetch_hwlp_plus_next_cnt_arith" -> plus_next_predicate_cases
      [] OTHER -> two_cases

FullCases(p) ==
    CASE p = "compressed_decoder_l71_addi4spn_zero_reduce" -> l71_full_cases
      [] p = "compressed_decoder_l244_addi16sp_lui_zero_reduce" -> l244_full_cases

\* The area does not grow and no group gets slower, as far as there are figures;
\* the area shrinks and none of the groups the packet names gets slower.
Held(flow) ==
    /\ flow.gate.area <= flow.baseline.area
    /\ DOMAIN flow.baseline.wns \subseteq DOMAIN flow.gate.wns
    /\ \A g \in DOMAIN flow.baseline.wns :
          None \notin {flow.baseline.wns[g], flow.gate.wns[g]}
              => flow.gate.wns[g] >= flow.baseline.wns[g]
Bar(f) ==
    /\ f.context.gate.area < f.context.baseline.area
    /\ \A g \in DOMAIN f.pinned.baseline.wns :
          /\ g \in DOMAIN f.context.baseline.wns \cap DOMAIN f.context.gate.wns
          /\ f.context.gate.wns[g] >= f.context.baseline.wns[g]

\* Of a module, exactly one group gets slower.
Caveat(flow) ==
    /\ DOMAIN flow.baseline.wns \subseteq DOMAIN flow.gate.wns
    /\ {g \in DOMAIN flow.baseline.wns : ~(flow.gate.wns[g] >= flow.baseline.wns[g])}
          = {"in2out"}

FlowClaim(p, f) ==
    IF p \in RegisterFiles \cup {"alu_divrem_prefix_valid"} THEN Bar(f)
    ELSE /\ Held(f.context)
         /\ p \in Decoders => Held(f.module)
         /\ p = "prefetch_hwlp_plus_next_cnt_arith" => Caveat(f.module)

\* The outputs are equal, and the packaged counts and their verdict are right,
\* or the same on both sides, as the packet has it.
Packed(act) == act.equal /\ act.packaged.gold = act.gold /\ act.packaged.gate = act.gate
ActivityClaim(p, act) ==
    CASE p \in RegisterFiles -> act.equal /\ act.gold = act.gate /\ act.exercise > 0
      [] p = "prefetch_hwlp_plus_next_cnt_arith" -> act.equal
      [] p = "prefetch_hwlp_flush_demorgan" -> Packed(act) /\ act.gold = act.gate
      [] p \in Decoders -> Packed(act)
      [] OTHER -> Packed(act) /\ (act.packaged.status = "regression" <=> act.gate > act.gold)

Claim(p, s, e) ==
    CASE s = "replay_source_delta" -> ExactDelta(e, Replacements(p))
      [] s = "replay_predicate_equiv" ->
            /\ MitersShow(e, PredicateCases(p))
            /\ p = "alu_shift_left_divrem_prefix" => e["negative"] = "differs"
      [] s = "replay_full_decoder_equiv" -> MitersShow(e, FullCases(p))
      [] s = "replay_parent_equiv" -> CellsShow(e, parent_cases)
      [] s = "replay_rf_grid" -> CellsShow(e, rf_grid_cases)
      [] s = "replay_selected_summary" -> FlowClaim(p, e)
      [] s = "replay_toggle" -> ActivityClaim(p, e)

-----------------------------------------------------------------------------
(* replay_changed_packets.sh *)

\* Yosys and Icarus may fail in one place: in a case of one script, or in the
\* simulation.
NoFault(c) ==
    [place \in UNION {DOMAIN c[x] : x \in {"miters", "full", "parent", "grid"} \cap DOMAIN c}
               \cup {"sim"} |-> "none"]
Faults(c) ==
    {NoFault(c)} \cup {[NoFault(c) EXCEPT ![place] = kind] :
        place \in DOMAIN NoFault(c), kind \in Midway \cup {"dies_late", "hangs"}}

\* One packet: its checksums, the scripts that are there, and JSON that parses.
\* sha256sum wants at least one line it understands, passes over the others, and
\* does not find a file under the author's absolute path; a script does not find
\* evidence that is not there.
ReplayOne(p, c, fault) ==
    /\ Listing(c) /\ c["SHA256SUMS"].form \in {"lines", "one_short"}
    /\ DOMAIN Lines(c) # {} /\ ListRight(c)
    /\ \A s \in Scripts(p) \cap DOMAIN c :
          Part[s] \in DOMAIN c /\ Verdict(p, s, c[Part[s]], fault)
    /\ "manifest" \in DOMAIN c => c.manifest.json
Outcomes(p, c) == {ReplayOne(p, c, fault) : fault \in Faults(c)}

\* What the branch does to the files of a packet's directory: the packet's own
\* and those moved there.
New(p) == {x \in DOMAIN head.packets[p] :
              x \in DOMAIN master.packets[p] => head.packets[p][x] # master.packets[p][x]}
Gone(p) == DOMAIN master.packets[p] \ DOMAIN head.packets[p]
In(p, strays) == {f \in strays : f.into = p}
Touched == {p \in Packets :
               \/ New(p) \cup Gone(p) # {}
               \/ In(p, master.strays) # In(p, head.strays)}

\* The files git diff finds added, and those it finds removed from directories.
Added ==
    Cardinality(UNION {{p} \X (DOMAIN head.packets[p] \ DOMAIN master.packets[p]) :
                          p \in Packets})
        + Cardinality(head.strays \ master.strays)
Removed(ps) ==
    Cardinality(UNION {{p} \X Gone(p) : p \in ps})
        + Cardinality({f \in master.strays \ head.strays : f.into \in ps})
OnlyLoses == {p \in Touched : New(p) = {} /\ In(p, head.strays \ master.strays) = {}}

\* git diff --name-only shows a file that was moved under its new name alone, and
\* takes for moved any pair of a removed and an added file that are alike: a
\* directory that only loses files may not be listed.
MayList ==
    {Touched \ hidden : hidden \in
        {ps \in SUBSET OnlyLoses : Removed(ps) <= Added}}

-----------------------------------------------------------------------------
GoodManifest(lock) ==
    [json |-> TRUE, tools |-> lock.tools, pin |-> lock, schema |-> TRUE,
     status |-> "evidence_packet", promotion |-> "not_customer_ready",
     ready |-> FALSE, claimed |-> {}, scopes |-> TRUE, denies |-> Denials,
     classified |-> TRUE, dual |-> FALSE, caveat |-> FALSE]

GoodPacket(p, lock) ==
    LET c == [x \in Parts(p) \cup Scripts(p) \cup {"manifest"} |->
                 CASE x \in Parts(p) -> Good[p][x]
                   [] x = "manifest"  -> GoodManifest(lock)
                   [] OTHER           -> "script"]
    IN  Put(c, "SHA256SUMS", FullList(c))

\* The packets were published with evidence that every one of their scripts
\* accepts.
ASSUME PublishedAssumption ==
    \A repo \in Repos : \A p \in repo : \A s \in Scripts(p) :
        Verdict(p, s, Good[p][Part[s]], NoFault(GoodPacket(p, FirstLock)))

Idle == [pc |-> "idle", todo |-> {}, done |-> {}, failed |-> FALSE, git |-> TRUE]

Init ==
    \E repo \in Repos :
        /\ master = [lock |-> FirstLock, private |-> FALSE, strays |-> {},
                     packets |-> [p \in repo |-> GoodPacket(p, FirstLock)]]
        /\ head = master
        /\ gate = Idle /\ receipts = "none"
        /\ under = [p \in repo |-> FirstLock]
        /\ blind = FALSE /\ edits = 0

-----------------------------------------------------------------------------
(* The author *)

\* A push to the branch starts the jobs afresh.
Push == /\ edits < MaxEdits[Packets] /\ edits' = edits + 1
        /\ gate' = Idle /\ receipts' = "none"
        /\ UNCHANGED <<master, under, blind>>

Present == {p \in Packets : head.packets[p] # Nothing}

\* Evidence is written, with its checksum; a file is taken out with its line; a
\* manifest as it should be is put in place.
EditPacket ==
    /\ Push
    /\ \E p \in Present :
       LET c == head.packets[p]
       IN  \/ \E x \in Parts(p) : \E e \in Contents(p, x) :
                 head' = [head EXCEPT !.packets[p] = Write(c, x, e)]
           \/ \E x \in DOMAIN c : head' = [head EXCEPT !.packets[p] = TakeOut(c, x)]
           \/ head' = [head EXCEPT !.packets[p] =
                           Write(c, "manifest", GoodManifest(head.lock))]

\* The checksum list is made anew, of the files that are there or of files as they
\* once were, loses a line or all of them, or gets a line that is no checksum or
\* has a path of the author's machine.
EditList ==
    /\ Push
    /\ \E p \in Present :
       LET c == head.packets[p]
           forms == {"one_short", "one_absolute"}
       IN  \/ \E list \in {FullList(c), FullList(GoodPacket(p, FirstLock))} :
                 head' = [head EXCEPT !.packets[p] = Put(c, "SHA256SUMS", list)]
           \/ /\ Listing(c)
              /\ \E lines \in {Restrict(Lines(c), DOMAIN Lines(c) \ {x}) :
                                  x \in DOMAIN Lines(c)} \cup {Nothing} :
                    head' = [head EXCEPT !.packets[p] = PutLines(c, lines)]
           \/ /\ Listing(c)
              /\ \E form \in forms :
                    head' = [head EXCEPT !.packets[p] =
                                [c EXCEPT !["SHA256SUMS"].form = form]]

\* A packet is removed, with what lies in its directory.
RemovePacket ==
    /\ Push
    /\ \E p \in Present :
          head' = [head EXCEPT !.packets[p] = Nothing,
                               !.strays = {f \in @ : f.into # p}]

\* A file is moved, under a name nothing reads, to another packet's directory or
\* next to the packets; the checksum list still names it.
MoveFile ==
    /\ Push
    /\ \E p \in Present, q \in Present \cup {None} : \E x \in DOMAIN head.packets[p] :
       LET c == head.packets[p]
           stray == [of |-> p, file |-> x, into |-> q]
       IN  /\ q # p /\ stray \notin head.strays
           /\ head' = [head EXCEPT !.packets[p] = Restrict(c, DOMAIN c \ {x}),
                                   !.strays = @ \cup {stray}]

\* One field of a manifest is rewritten, or one is put deeper in the directory.
EditManifest ==
    /\ Push
    /\ \E p \in {q \in Packets : "manifest" \in DOMAIN head.packets[q]} :
       LET c == head.packets[p]
           m == c.manifest
           others == {[m EXCEPT !.json = FALSE], [m EXCEPT !.schema = FALSE],
                      [m EXCEPT !.status = "auxiliary_evidence_manifest"],
                      [m EXCEPT !.status = "customer_claim"],
                      [m EXCEPT !.promotion = "customer_ready"],
                      [m EXCEPT !.ready = TRUE], [m EXCEPT !.scopes = FALSE],
                      [m EXCEPT !.classified = FALSE],
                      [m EXCEPT !.dual = TRUE], [m EXCEPT !.caveat = TRUE]}
              \cup {[m EXCEPT !.claimed = {claim}] :
                       claim \in {"accepted_optimization", "whole_core", "customer_impact"}}
              \cup {[m EXCEPT !.denies = @ \ {d}] : d \in Denials}
              \cup {[m EXCEPT !.pin = l] : l \in Locks}
              \cup {[m EXCEPT !.pin = l, !.tools = l.tools] : l \in Locks}
       IN \E n \in others, x \in {"manifest", "nested"} :
             head' = [head EXCEPT !.packets[p] = Write(c, x, n)]

\* The toolchain lock moves, and the manifests of some packets are pinned to it.
EditLock ==
    /\ Push
    /\ \E l \in Locks, ps \in SUBSET {p \in Packets : "manifest" \in DOMAIN head.packets[p]} :
          head' = [head EXCEPT
              !.lock = l,
              !.packets = [p \in Packets |->
                 LET c == head.packets[p]
                 IN  IF p \in ps
                     THEN Write(c, "manifest",
                                [c.manifest EXCEPT !.pin = l, !.tools = l.tools])
                     ELSE c]]

EditWording == Push /\ head' = [head EXCEPT !.private = ~@]

-----------------------------------------------------------------------------
(* The jobs on the pull request *)

\* The replay job runs when a packet or the lock is touched, and begins with the
\* lock check.  Then git lists the changed directories; when it fails, the list
\* is what it had written until then, and the script goes on.
GateStarts ==
    /\ gate.pc = "idle" /\ head # master
    /\ IF Touched = {} /\ head.strays = master.strays /\ head.lock = master.lock
       THEN gate' = [Idle EXCEPT !.pc = "skipped"]
       ELSE IF ~LockCheck(head)
            THEN gate' = [Idle EXCEPT !.pc = "red"]
            ELSE \E list \in MayList, git \in BOOLEAN : \E todo \in SUBSET list :
                    /\ git => todo = list
                    /\ gate' = [Idle EXCEPT !.pc = "replay", !.todo = todo, !.git = git]
    /\ UNCHANGED <<master, head, receipts, under, blind, edits>>

\* A directory with no file is none.
IsDir(p) == DOMAIN head.packets[p] # {} \/ In(p, head.strays) # {}

\* The job ends with the first packet that fails.
MutStopsAtFirst ==
    /\ gate.pc = "replay" /\ ~gate.failed
    /\ \E p \in gate.todo :
          IF IsDir(p)
          THEN \E ok \in Outcomes(p, head.packets[p]) :
                  gate' = [gate EXCEPT !.todo = IF ok THEN @ \ {p} ELSE {},
                              !.done = @ \cup {p}, !.failed = ~ok]
          ELSE gate' = [gate EXCEPT !.todo = @ \ {p}]
    /\ UNCHANGED <<master, head, receipts, under, blind, edits>>

\* The next listed packet; a deleted one has nothing to replay, and a packet that
\* fails does not keep the others from being replayed.
GateReplays ==
    /\ gate.pc = "replay"
    /\ \E p \in gate.todo :
          IF IsDir(p)
          THEN \E ok \in Outcomes(p, head.packets[p]) :
                  gate' = [gate EXCEPT !.todo = @ \ {p}, !.done = @ \cup {p},
                              !.failed = @ \/ ~ok]
          ELSE gate' = [gate EXCEPT !.todo = @ \ {p}]
    /\ UNCHANGED <<master, head, receipts, under, blind, edits>>

GateEnds ==
    /\ gate.pc = "replay" /\ gate.todo = {}
    /\ gate' = [gate EXCEPT !.pc = IF gate.failed THEN "red" ELSE "green"]
    /\ UNCHANGED <<master, head, receipts, under, blind, edits>>

\* The job's time runs out: several scripts wait for Yosys or the simulator
\* without a limit of their own.
GateTimesOut ==
    /\ gate.pc = "replay"
    /\ gate' = [Idle EXCEPT !.pc = "timed_out"]
    /\ UNCHANGED <<master, head, receipts, under, blind, edits>>

ReceiptsRun ==
    /\ receipts = "none" /\ head # master
    /\ receipts' = IF Verify(head) THEN "green" ELSE "red"
    /\ UNCHANGED <<master, head, gate, under, blind, edits>>

\* With no red job the branch becomes master.
Merge ==
    /\ gate.pc \in {"green", "skipped"} /\ receipts = "green"
    /\ master' = head
    /\ under' = [p \in Packets |-> IF p \in gate.done THEN head.lock ELSE under[p]]
    /\ blind' = (blind \/ ~gate.git)
    /\ gate' = Idle /\ receipts' = "none"
    /\ UNCHANGED <<head, edits>>

Next ==
    \/ EditPacket \/ EditList \/ RemovePacket \/ MoveFile
    \/ EditManifest \/ EditLock \/ EditWording
    \/ GateStarts \/ GateReplays \/ GateEnds \/ GateTimesOut
    \/ ReceiptsRun
    \/ Merge

Spec == Init /\ [][Next]_vars

-----------------------------------------------------------------------------
(* What the gate promises of master *)

\* Whatever the author wrote, moved or left off the checksum list and whichever
\* tool failed during a replay, as long as git listed the changes of every merged
\* branch: each replay script a packet on master has is one whose claim its
\* evidence bears out, or it has lost that evidence and the checksum list knows
\* it.  A list that omits a file weakens none of this, since the scripts
\* themselves are run; a move, which hides the packet from the gate, is stopped
\* by the list of the receipts job or takes nothing a claim rests on unseen.
MasterClaimsHold ==
    ~blind => \A p \in Packets :
        LET c == master.packets[p]
        IN  \A s \in Scripts(p) \cap DOMAIN c :
               IF Part[s] \in DOMAIN c THEN Claim(p, s, c[Part[s]]) ELSE ~Lists(c, Part[s])

\* A packet on master that has a manifest was last replayed under the very
\* toolchain lock that is on master, as long as git listed the changes: a change
\* of the lock, even of a comment in it, changes every manifest, and with it every
\* packet, and so replays it.
MasterReplayedUnderLock ==
    ~blind => \A p \in Packets :
        "manifest" \in DOMAIN master.packets[p] => under[p] = master.lock

\* No manifest on master, at any depth, is pinned to another lock or claims more
\* than the taxonomy allows.
MasterPinned == \A m \in Manifests(master) : ManifestPinned(m, master.lock)

\* The two checkers agree: what the lock check passes, the receipts job does not
\* refuse for its manifests, so a branch cannot be caught between them.
CheckersAgree ==
    LockCheck(head) => \A m \in TopManifests(head) : ReceiptManifest(m)

\* Whenever git has listed the changes and the job comes to its end, every packet
\* with a file that is new or rewritten has been replayed: a packet that fails
\* hides no other, nor does a file that passes for a moved one.
EveryRewriteReplayed ==
    gate.git /\ (gate.pc = "green" \/ (gate.pc = "red" /\ gate.failed)) =>
        \A p \in Packets : New(p) # {} => p \in gate.done
=============================================================================
