-------------------------- MODULE PacketGateProofs --------------------------
(***************************************************************************)
(* Proofs about PacketGate, for every set of packets, whatever their       *)
(* evidence and whatever the authors write: what the replay job must have  *)
(* looked at before a branch is merged, what then holds on master, and     *)
(* that what the replay scripts accept is what the packets claim.          *)
(***************************************************************************)
EXTENDS PacketGate, FiniteSetTheorems, SequenceTheorems, TLAPS

-----------------------------------------------------------------------------
\* Every packet has its place on the branch, removed or not, and the job's record
\* has its fields.
Job == [pc : {"idle", "skipped", "replay", "red", "green", "timed_out"},
        todo : SUBSET Packets, done : SUBSET Packets, failed : BOOLEAN, git : BOOLEAN]
Shape ==
    /\ DOMAIN head = {"lock", "private", "strays", "packets"}
    /\ DOMAIN head.packets = Packets
    /\ gate \in Job

\* What the replay job has left to do and has done, up to its end: when git listed
\* the changes, every packet with a new or rewritten file.
JobOK ==
    /\ gate.pc \in {"idle", "skipped"} => gate.done = {}
    /\ gate.pc = "skipped" => Touched = {}
    /\ gate.pc \in {"replay", "green"} \/ (gate.pc = "red" /\ gate.failed) =>
          /\ gate.git => \A p \in Packets : New(p) # {} => p \in gate.todo \cup gate.done
          /\ gate.pc # "replay" => gate.todo = {}

\* The receipts job is green only for a branch it verified.
ReceiptsOK == receipts = "green" => Verify(head)

\* The invariant.  A packet that was not replayed has no new file, so that its
\* manifest is the one on master, which is pinned to both locks: they are one.
IInv ==
    /\ Shape /\ JobOK /\ ReceiptsOK
    /\ MasterPinned /\ MasterReplayedUnderLock

-----------------------------------------------------------------------------
\* Manifests finds the manifest of every packet that has one.
LEMMA ManifestFound ==
    ASSUME NEW tree, NEW p \in DOMAIN tree.packets, "manifest" \in DOMAIN tree.packets[p]
    PROVE  tree.packets[p].manifest \in Manifests(tree)
  BY DEF Manifests

\* Whatever git's list leaves out, it has every packet with a new file.
LEMMA NewIsListed ==
    ASSUME NEW list \in MayList
    PROVE  list \subseteq Packets /\ \A p \in Packets : New(p) # {} => p \in list
<1>1. PICK hidden \in SUBSET OnlyLoses : list = Touched \ hidden
  BY DEF MayList
<1>2. \A p \in hidden : New(p) = {}
  BY <1>1 DEF OnlyLoses
<1>3. \A p \in Packets : New(p) # {} => p \in Touched
  BY DEF Touched
<1>4. Touched \subseteq Packets
  BY DEF Touched
<1> QED  BY <1>1, <1>2, <1>3, <1>4

\* A packet without a new file has only files of master's.
LEMMA NoNewFile ==
    ASSUME NEW p, New(p) = {}, NEW x \in DOMAIN head.packets[p]
    PROVE  x \in DOMAIN master.packets[p] /\ head.packets[p][x] = master.packets[p][x]
  BY DEF New

\* Whatever an edit does to the branch, it keeps the places of its packets, and
\* the jobs are to run again.
Edit == EditPacket \/ EditList \/ RemovePacket \/ MoveFile \/ EditManifest \/ EditLock \/ EditWording

\* Most edits are of one packet.
OneEdited(p, c) == head' = [head EXCEPT !.packets[p] = c]

LEMMA EditKeepsShape ==
    ASSUME Shape, Edit
    PROVE  DOMAIN head' = {"lock", "private", "strays", "packets"} /\ DOMAIN head'.packets = Packets
<1>1. ASSUME NEW p, NEW c, OneEdited(p, c)
      PROVE  DOMAIN head' = {"lock", "private", "strays", "packets"}
             /\ DOMAIN head'.packets = Packets
  BY <1>1 DEF OneEdited, Shape
<1>2. CASE EditPacket
  <2>1. \E p, c : OneEdited(p, c)
    BY <1>2 DEF EditPacket, OneEdited
  <2> QED  BY <1>1, <2>1
<1>3. CASE EditList
  <2>1. \E p, c : OneEdited(p, c)
    BY <1>3 DEF EditList, OneEdited
  <2> QED  BY <1>1, <2>1
<1>4. CASE RemovePacket
  <2>1. PICK p \in Packets :
            head' = [head EXCEPT !.packets[p] = Nothing, !.strays = {f \in @ : f.into # p}]
    BY <1>4 DEF RemovePacket, Present
  <2> QED  BY <2>1 DEF Shape
<1>5. CASE MoveFile
  <2>1. PICK p, c, stray :
            head' = [head EXCEPT !.packets[p] = c, !.strays = @ \cup {stray}]
    BY <1>5 DEF MoveFile, Present
  <2> QED  BY <2>1 DEF Shape
<1>6. CASE EditManifest
  <2>1. \E p, c : OneEdited(p, c)
    BY <1>6 DEF EditManifest, OneEdited
  <2> QED  BY <1>1, <2>1
<1>7. CASE EditLock
  <2>1. PICK l, f : head' = [head EXCEPT !.lock = l, !.packets = [p \in Packets |-> f[p]]]
    <3>1. PICK l \in Locks, ps \in SUBSET {p \in Packets : "manifest" \in DOMAIN head.packets[p]} :
          head' = [head EXCEPT
              !.lock = l,
              !.packets = [p \in Packets |->
                 LET c == head.packets[p]
                 IN  IF p \in ps
                     THEN Write(c, "manifest",
                                [c.manifest EXCEPT !.pin = l, !.tools = l.tools])
                     ELSE c]]
      BY <1>7 DEF EditLock
    <3> DEFINE f == [p \in Packets |->
                 LET c == head.packets[p]
                 IN  IF p \in ps
                     THEN Write(c, "manifest",
                                [c.manifest EXCEPT !.pin = l, !.tools = l.tools])
                     ELSE c]
    <3>2. head' = [head EXCEPT !.lock = l, !.packets = f]
      BY <3>1
    <3>3. f = [p \in Packets |-> f[p]]
      OBVIOUS
    <3> HIDE DEF f
    <3> QED  BY <3>2, <3>3
  <2> QED  BY <2>1 DEF Shape
<1>8. CASE EditWording
  BY <1>8 DEF EditWording, Shape
<1> QED  BY <1>2, <1>3, <1>4, <1>5, <1>6, <1>7, <1>8 DEF Edit

LEMMA EditResets ==
    ASSUME Edit
    PROVE  gate' = Idle /\ receipts' = "none" /\ UNCHANGED <<master, under, blind>>
  BY DEF Edit, EditPacket, EditList, RemovePacket, MoveFile, EditManifest, EditLock,
         EditWording, Push

-----------------------------------------------------------------------------
\* A published packet has its parts as they were published and one manifest.
LEMMA PartNames ==
    ASSUME NEW p
    PROVE  Parts(p) \cap ({"SHA256SUMS", "manifest", "nested"} \cup Scripts(p)) = {}
<1>1. ASSUME NEW s \in Scripts(p)
      PROVE  Part[s] \in {"src", "miters", "full", "parent", "grid", "flow", "act"}
  BY DEF Scripts, Part
<1>2. Parts(p) \subseteq {"src", "miters", "full", "parent", "grid", "flow", "act"}
  BY <1>1 DEF Parts
<1>3. \A s \in Scripts(p) : s \notin {"src", "miters", "full", "parent", "grid", "flow", "act"}
  BY DEF Scripts
<1> QED  BY <1>2, <1>3

LEMMA GoodFiles ==
    ASSUME NEW p, NEW lock
    PROVE  /\ DOMAIN GoodPacket(p, lock) = Parts(p) \cup Scripts(p) \cup {"manifest", "SHA256SUMS"}
           /\ \A x \in Parts(p) : GoodPacket(p, lock)[x] = Good[p][x]
           /\ GoodPacket(p, lock).manifest = GoodManifest(lock)
<1> DEFINE c == [x \in Parts(p) \cup Scripts(p) \cup {"manifest"} |->
                   CASE x \in Parts(p) -> Good[p][x]
                     [] x = "manifest"  -> GoodManifest(lock)
                     [] OTHER           -> "script"]
<1>1. /\ DOMAIN c = Parts(p) \cup Scripts(p) \cup {"manifest"}
      /\ \A x \in Parts(p) : c[x] = Good[p][x]
      /\ c["manifest"] = GoodManifest(lock)
  <2>1. ASSUME NEW x \in Parts(p) PROVE c[x] = Good[p][x]
    <3>1. x # "manifest"
      BY PartNames
    <3> QED  BY <3>1
  <2>2. "manifest" \notin Parts(p)
    BY PartNames
  <2>3. c["manifest"] = GoodManifest(lock)
    BY <2>2
  <2>4. DOMAIN c = Parts(p) \cup Scripts(p) \cup {"manifest"}
    OBVIOUS
  <2> HIDE DEF c
  <2> QED  BY <2>1, <2>3, <2>4
<1>2. GoodPacket(p, lock) = Put(c, "SHA256SUMS", FullList(c))
  BY DEF GoodPacket
<1>3. "SHA256SUMS" \notin Parts(p)
  BY PartNames
<1> HIDE DEF c
<1> QED  BY <1>1, <1>2, <1>3 DEF Put

LEMMA GoodManifestThere ==
    ASSUME NEW p, NEW lock, NEW x \in {"manifest", "nested"} \cap DOMAIN GoodPacket(p, lock)
    PROVE  GoodPacket(p, lock)[x] = GoodManifest(lock)
<1>1. "nested" \notin DOMAIN GoodPacket(p, lock)
  <2>1. "nested" \notin Parts(p) /\ "nested" \notin Scripts(p)
    BY PartNames DEF Scripts
  <2> QED  BY <2>1, GoodFiles
<1>2. x = "manifest"
  BY <1>1
<1> QED  BY <1>2, GoodFiles

\* The repository starts with every packet published under its lock.
LEMMA InitIInv == Init => IInv
<1> SUFFICES ASSUME Init PROVE IInv
  OBVIOUS
<1>1. PICK repo \in Repos :
        /\ master = [lock |-> FirstLock, private |-> FALSE, strays |-> {},
                     packets |-> [p \in repo |-> GoodPacket(p, FirstLock)]]
        /\ head = master
        /\ gate = Idle /\ receipts = "none"
        /\ under = [p \in repo |-> FirstLock]
  BY DEF Init
<1>2. Shape /\ JobOK /\ ReceiptsOK
  BY <1>1 DEF Shape, Job, JobOK, ReceiptsOK, Packets, Idle
<1>3. MasterPinned
  <2> SUFFICES ASSUME NEW m \in Manifests(master) PROVE ManifestPinned(m, FirstLock)
    BY <1>1 DEF MasterPinned
  <2>1. PICK p \in repo : \E x \in {"manifest", "nested"} \cap DOMAIN GoodPacket(p, FirstLock) :
                              m = GoodPacket(p, FirstLock)[x]
    BY <1>1 DEF Manifests
  <2>2. m = GoodManifest(FirstLock)
    BY <2>1, GoodManifestThere
  <2> QED  BY <2>2 DEF ManifestPinned, TaxonomyHolds, GoodManifest, Denials
<1>4. MasterReplayedUnderLock
  BY <1>1 DEF MasterReplayedUnderLock, Packets
<1> QED  BY <1>2, <1>3, <1>4 DEF IInv

\* Every action keeps the invariant.
LEMMA NextIInv == IInv /\ [Next]_vars => IInv'
<1> SUFFICES ASSUME IInv, [Next]_vars PROVE IInv'
  OBVIOUS
<1> USE DEF IInv
\* The trees are compared anew only when one of them moves.
<1>a. ASSUME UNCHANGED <<master, head>>
      PROVE  /\ Packets' = Packets /\ Touched' = Touched
             /\ \A p : New(p)' = New(p)
             /\ ReceiptsOK' <=> (receipts' = "green" => Verify(head))
             /\ MasterPinned'
  BY <1>a DEF Packets, Touched, New, Gone, In, ReceiptsOK, MasterPinned
<1>b. ASSUME UNCHANGED <<master, under, blind>> PROVE MasterReplayedUnderLock' /\ MasterPinned'
  BY <1>b DEF MasterReplayedUnderLock, MasterPinned, Packets
<1>c. ASSUME UNCHANGED <<master, head, receipts, under, blind>>, gate' \in Job, JobOK'
      PROVE  IInv'
  BY <1>a, <1>b, <1>c DEF Shape, Job, ReceiptsOK
<1>1. CASE Edit
  <2>1. gate' = Idle /\ receipts' = "none" /\ UNCHANGED <<master, under, blind>>
    BY <1>1, EditResets
  <2>2. Shape'
    BY <1>1, <2>1, EditKeepsShape DEF Shape, Job, Packets, Idle
  <2>3. JobOK' /\ ReceiptsOK'
    BY <2>1 DEF JobOK, ReceiptsOK, Idle
  <2> QED  BY <1>b, <2>1, <2>2, <2>3
<1>2. CASE GateStarts
  <2>1. UNCHANGED <<master, head, receipts, under, blind>>
    BY <1>2 DEF GateStarts
  <2>2. CASE gate' = [Idle EXCEPT !.pc = "skipped"] /\ Touched = {}
    <3>1. gate' = [pc |-> "skipped", todo |-> {}, done |-> {}, failed |-> FALSE, git |-> TRUE]
      BY <2>2 DEF Idle
    <3>2. Touched' = {}
      BY <1>a, <2>1, <2>2
    <3>3. gate' \in Job /\ JobOK'
      BY <3>1, <3>2 DEF JobOK, Job
    <3> QED  BY <1>c, <2>1, <3>3
  <2>3. CASE gate' = [Idle EXCEPT !.pc = "red"]
    <3>1. gate' = [pc |-> "red", todo |-> {}, done |-> {}, failed |-> FALSE, git |-> TRUE]
      BY <2>3 DEF Idle
    <3>2. gate' \in Job /\ JobOK'
      BY <2>1, <3>1 DEF JobOK, Job
    <3> QED  BY <1>c, <2>1, <3>2
  <2>4. ASSUME NEW list \in MayList, NEW git \in BOOLEAN, NEW todo \in SUBSET list,
               git => todo = list,
               gate' = [Idle EXCEPT !.pc = "replay", !.todo = todo, !.git = git]
        PROVE  IInv'
    <3>1. gate' = [pc |-> "replay", todo |-> todo, done |-> {}, failed |-> FALSE, git |-> git]
      BY <2>4 DEF Idle
    <3>2. list \subseteq Packets /\ \A p \in Packets : New(p) # {} => p \in list
      BY NewIsListed
    <3>3. gate' \in Job
      BY <3>1, <3>2 DEF Job
    <3>4. JobOK'
      BY <1>a, <2>1, <2>4, <3>1, <3>2 DEF JobOK
    <3> QED  BY <1>c, <2>1, <3>3, <3>4
  <2> QED  BY <1>2, <2>2, <2>3, <2>4 DEF GateStarts
<1>3. CASE GateReplays
  <2>1. UNCHANGED <<master, head, receipts, under, blind>> /\ gate.pc = "replay"
    BY <1>3 DEF GateReplays
  <2>2. PICK p \in gate.todo, failed \in BOOLEAN :
            gate' = IF IsDir(p)
                    THEN [gate EXCEPT !.todo = @ \ {p}, !.done = @ \cup {p}, !.failed = failed]
                    ELSE [gate EXCEPT !.todo = @ \ {p}]
    BY <1>3 DEF GateReplays, Shape, Job, Outcomes
  <2>3. /\ gate'.pc = "replay" /\ gate'.todo = gate.todo \ {p} /\ gate'.git = gate.git
        /\ gate'.done = IF IsDir(p) THEN gate.done \cup {p} ELSE gate.done
        /\ gate' \in Job
    BY <2>1, <2>2 DEF Shape, Job
  <2>4. New(p) # {} => IsDir(p)
    BY DEF New, IsDir
  <2>5. JobOK'
    BY <1>a, <2>1, <2>2, <2>3, <2>4 DEF JobOK
  <2> QED  BY <1>c, <2>1, <2>3, <2>5
<1>4. CASE GateEnds
  <2>1. UNCHANGED <<master, head, receipts, under, blind>> /\ gate.pc = "replay" /\ gate.todo = {}
    BY <1>4 DEF GateEnds
  <2>2. /\ gate'.pc = IF gate.failed THEN "red" ELSE "green"
        /\ gate'.todo = {} /\ gate'.done = gate.done /\ gate'.failed = gate.failed
        /\ gate'.git = gate.git /\ gate' \in Job
    BY <1>4, <2>1 DEF GateEnds, Shape, Job
  <2>3. JobOK'
    BY <1>a, <2>1, <2>2 DEF JobOK
  <2> QED  BY <1>c, <2>1, <2>2, <2>3
<1>5. CASE GateTimesOut
  <2>1. /\ UNCHANGED <<master, head, receipts, under, blind>>
        /\ gate' = [pc |-> "timed_out", todo |-> {}, done |-> {}, failed |-> FALSE, git |-> TRUE]
    BY <1>5 DEF GateTimesOut, Idle
  <2>2. gate' \in Job /\ JobOK'
    BY <2>1 DEF JobOK, Job
  <2> QED  BY <1>c, <2>1, <2>2
<1>6. CASE ReceiptsRun
  <2>1. UNCHANGED <<master, head, gate, under, blind>>
        /\ receipts' = IF Verify(head) THEN "green" ELSE "red"
    BY <1>6 DEF ReceiptsRun
  <2>2. JobOK' /\ ReceiptsOK'
    BY <1>a, <2>1 DEF JobOK
  <2> QED  BY <1>a, <1>b, <2>1, <2>2 DEF Shape, Job
<1>7. CASE Merge
  <2>1. /\ gate.pc \in {"green", "skipped"} /\ receipts = "green"
        /\ master' = head /\ head' = head
        /\ under' = [p \in Packets |-> IF p \in gate.done THEN head.lock ELSE under[p]]
        /\ blind' = (blind \/ ~gate.git)
        /\ gate' = Idle /\ receipts' = "none"
    BY <1>7 DEF Merge
  <2>2. LockCheck(head)
    BY <2>1 DEF ReceiptsOK, Verify
  <2>3. Packets' = Packets
    BY <2>1 DEF Shape, Packets
  <2>4. Shape' /\ JobOK' /\ ReceiptsOK'
    BY <2>1, <2>3 DEF Shape, Job, JobOK, ReceiptsOK, Idle
  <2>5. MasterPinned'
    BY <2>1, <2>2 DEF MasterPinned, LockCheck
  <2>6. MasterReplayedUnderLock'
    <3> SUFFICES ASSUME ~blind', NEW p \in Packets, "manifest" \in DOMAIN head.packets[p]
                 PROVE  under'[p] = head.lock
      BY <2>1, <2>3 DEF MasterReplayedUnderLock
    <3>1. CASE p \in gate.done
      BY <2>1, <3>1
    <3>2. CASE p \notin gate.done
      <4>1. ~blind /\ gate.git
        BY <2>1
      <4>2. New(p) = {}
        BY <2>1, <3>2, <4>1 DEF JobOK, Touched
      <4>3. "manifest" \in DOMAIN master.packets[p]
            /\ head.packets[p].manifest = master.packets[p].manifest
        BY <4>2, NoNewFile
      <4>4. head.packets[p].manifest.pin = head.lock
        <5>1. head.packets[p].manifest \in Manifests(head)
          BY ManifestFound DEF Shape
        <5> QED  BY <2>2, <5>1 DEF LockCheck, ManifestPinned
      <4>5. master.packets[p].manifest.pin = master.lock
        <5>1. master.packets[p].manifest \in Manifests(master)
          BY <4>3, ManifestFound DEF Packets
        <5> QED  BY <5>1 DEF MasterPinned, ManifestPinned
      <4>6. under[p] = master.lock
        BY <4>1, <4>3 DEF MasterReplayedUnderLock
      <4> QED  BY <2>1, <3>2, <4>3, <4>4, <4>5, <4>6
    <3> QED  BY <3>1, <3>2
  <2> QED  BY <2>4, <2>5, <2>6
<1>8. CASE UNCHANGED vars
  <2>1. UNCHANGED <<master, head, gate, receipts, under, blind>>
    BY <1>8 DEF vars
  <2>2. JobOK' /\ gate' \in Job
    BY <1>a, <2>1 DEF JobOK, Shape
  <2> QED  BY <1>c, <2>1, <2>2
<1> QED  BY <1>1, <1>2, <1>3, <1>4, <1>5, <1>6, <1>7, <1>8 DEF Next, Edit

LEMMA Invariant == Spec => []IInv
  BY InitIInv, NextIInv, PTL DEF Spec

-----------------------------------------------------------------------------
\* A packet on master that has a manifest was last replayed under the lock that
\* is on master, as long as git listed the changes of the merged branches
\* (replay_changed_packets.sh, check_packet_toolchain_lock.py): the lock cannot
\* move past a packet the replay job does not replay.
THEOREM ReplayedUnderLock == Spec => []MasterReplayedUnderLock
<1>1. IInv => MasterReplayedUnderLock
  BY DEF IInv
<1> QED  BY <1>1, Invariant, PTL

\* Every manifest on master, at any depth, is pinned to the lock on master and
\* claims no more than the taxonomy allows (check_packet_toolchain_lock.py).
THEOREM Pinned == Spec => []MasterPinned
<1>1. IInv => MasterPinned
  BY DEF IInv
<1> QED  BY <1>1, Invariant, PTL

\* When git has listed the changes and the replay job ends, it has replayed every
\* packet with a new or rewritten file, whether or not one of them failed and
\* whatever else passes for a moved file (replay_changed_packets.sh).
THEOREM RewritesReplayed == Spec => []EveryRewriteReplayed
<1>1. IInv => EveryRewriteReplayed
  BY DEF IInv, JobOK, EveryRewriteReplayed
<1> QED  BY <1>1, Invariant, PTL

\* The receipts job (verify_public_receipts.py) refuses no manifest that the lock
\* check passes, whatever else the manifest says.
THEOREM Agree == Spec => []CheckersAgree
<1>1. CheckersAgree
  <2> SUFFICES ASSUME LockCheck(head), NEW m \in TopManifests(head)
               PROVE  ReceiptManifest(m)
    BY DEF CheckersAgree
  <2>1. m \in Manifests(head)
    BY ManifestFound DEF TopManifests
  <2>2. m.json /\ TaxonomyHolds(m)
    BY <2>1 DEF LockCheck, ManifestPinned
  <2> QED  BY <2>2 DEF TaxonomyHolds, ReceiptManifest, Denials
<1> QED  BY <1>1, PTL

-----------------------------------------------------------------------------
(* What the replay scripts accept is what the packets claim *)

\* A list of replacements applied to a text, each found once: the texts differ
\* in just those statements.
LEMMA DeltaIsExact ==
    ASSUME NEW src, NEW reps, src.gold \in Seq(STRING), IsFiniteSet(DOMAIN reps),
           SourceDelta(src, reps)
    PROVE  ExactDelta(src, reps)
<1> DEFINE text == src.gold
           new == src.gate
           n == Len(text)
           moved == {i \in DOMAIN text : text[i] # new[i]}
<1>1. /\ n \in Nat /\ DOMAIN text = 1..n
      /\ new = Replaced(text, reps)
      /\ \A old \in DOMAIN reps : /\ Count(text, old) = 1
                                  /\ Count(new, reps[old]) = 1 /\ Count(new, old) = 0
      /\ src.diff = UnifiedDiff(text, new)
  BY DEF SourceDelta
<1>2. /\ DOMAIN new = 1..n
      /\ \A i \in 1..n : new[i] = IF text[i] \in DOMAIN reps THEN reps[text[i]] ELSE text[i]
      /\ new \in [1..n -> {new[i] : i \in 1..n}]
  BY <1>1 DEF Replaced
<1>3. Len(new) = n
  <2>1. new \in Seq({new[i] : i \in 1..n})
    BY <1>1, <1>2, SeqDef
  <2>2. Len(new) \in Nat /\ DOMAIN new = 1..Len(new)
    BY <2>1
  <2> QED  BY <1>1, <1>2, <2>2
<1> HIDE DEF n, new, text
\* Each replaced statement has one place in the text text, where it moves.
<1>4. ASSUME NEW old \in DOMAIN reps
      PROVE  \E i \in moved : /\ text[i] = old /\ new[i] = reps[old]
                              /\ \A j \in DOMAIN text \ {i} : text[j] # old
  <2>1. \E i : {j \in DOMAIN text : text[j] = old} = {i}
    <3>1. IsFiniteSet({j \in DOMAIN text : text[j] = old})
      <4>1. IsFiniteSet(DOMAIN text)
        BY <1>1, FS_Interval
      <4> QED  BY <4>1, FS_Subset
    <3> QED  BY <1>1, <3>1, FS_Singleton DEF Count
  <2>2. PICK i : {j \in DOMAIN text : text[j] = old} = {i}
    BY <2>1
  <2>3. i \in DOMAIN text /\ text[i] = old /\ \A j \in DOMAIN text \ {i} : text[j] # old
    BY <2>2
  <2>4. new[i] = reps[old]
    BY <1>1, <1>2, <2>3
  <2>5. reps[old] # old
    BY <1>1
  <2> QED  BY <2>3, <2>4, <2>5
<1>5. \A i \in moved : text[i] \in DOMAIN reps
  BY <1>1, <1>2
<1>6. Cardinality(moved) = Cardinality(DOMAIN reps)
  <2> DEFINE f == [i \in moved |-> text[i]]
  <2>1. f \in Bijection(moved, DOMAIN reps)
    <3>1. f \in [moved -> DOMAIN reps]
      BY <1>5
    <3>2. \A i, j \in moved : f[i] = f[j] => i = j
      <4> SUFFICES ASSUME NEW i \in moved, NEW j \in moved, text[i] = text[j]
                   PROVE  i = j
        OBVIOUS
      <4> QED  BY <1>4, <1>5
    <3>3. \A old \in DOMAIN reps : \E i \in moved : f[i] = old
      BY <1>4
    <3> QED  BY <3>1, <3>2, <3>3 DEF Bijection, Injection, Surjection, IsInjective
  <2>2. IsFiniteSet(moved)
    BY <1>1, FS_Interval, FS_Subset
  <2>3. ExistsBijection(moved, DOMAIN reps)
    BY <2>1 DEF ExistsBijection
  <2> QED  BY <2>2, <2>3, FS_Bijection
<1> QED  BY <1>1, <1>3, <1>4, <1>6 DEF ExactDelta, n, text, new

\* Three replacements are finitely many, and so are fewer.
LEMMA FewNames == \A a, b, c : IsFiniteSet({a, b, c}) /\ IsFiniteSet({a, b}) /\ IsFiniteSet({a})
<1> TAKE a, b, c
<1>1. IsFiniteSet({} \cup {a})
  BY FS_EmptySet, FS_AddElement
<1>2. IsFiniteSet(({} \cup {a}) \cup {b})
  BY <1>1, FS_AddElement
<1>3. IsFiniteSet((({} \cup {a}) \cup {b}) \cup {c})
  BY <1>2, FS_AddElement
<1>4. /\ {} \cup {a} = {a} /\ ({} \cup {a}) \cup {b} = {a, b}
      /\ (({} \cup {a}) \cup {b}) \cup {c} = {a, b, c}
  OBVIOUS
<1> QED  BY <1>1, <1>2, <1>3, <1>4

LEMMA DeltasAreExact ==
    ASSUME NEW src, src.gold \in Seq(STRING)
    PROVE  /\ divrem_source_delta(src) => ExactDelta(src, divrem_replacements)
           /\ shift_left_source_delta(src) => ExactDelta(src, shift_left_replacements)
           /\ addsub_source_delta(src) => ExactDelta(src, addsub_replacements)
           /\ shift_divvalid_source_delta(src) => ExactDelta(src, shift_divvalid_replacements)
           /\ l71_source_delta(src) => ExactDelta(src, l71_replacements)
           /\ l244_source_delta(src) => ExactDelta(src, l244_replacements)
           /\ demorgan_source_delta(src) => ExactDelta(src, demorgan_replacements)
           /\ plus_next_source_delta(src) => ExactDelta(src, plus_next_replacements)
<1>1. /\ DOMAIN divrem_replacements = {"div_valid"}
      /\ DOMAIN shift_left_replacements = {"shift_left"}
      /\ DOMAIN addsub_replacements = {"shift_use_round", "div_valid", "adder_op_b_negate"}
      /\ DOMAIN shift_divvalid_replacements = {"shift_left", "div_valid", "adder_op_b_negate"}
      /\ DOMAIN l71_replacements = {"eq_zero"}
      /\ DOMAIN l244_replacements = {"eq_zero"}
      /\ DOMAIN demorgan_replacements = {"flush_resp"}
      /\ DOMAIN plus_next_replacements = {"next_cnt_case", "flush_resp"}
  BY DEF divrem_replacements, shift_left_replacements, addsub_replacements,
         shift_divvalid_replacements, l71_replacements, l244_replacements,
         demorgan_replacements, plus_next_replacements
<1>2. /\ IsFiniteSet(DOMAIN divrem_replacements)
      /\ IsFiniteSet(DOMAIN shift_left_replacements)
      /\ IsFiniteSet(DOMAIN addsub_replacements)
      /\ IsFiniteSet(DOMAIN shift_divvalid_replacements)
      /\ IsFiniteSet(DOMAIN l71_replacements)
      /\ IsFiniteSet(DOMAIN l244_replacements)
      /\ IsFiniteSet(DOMAIN demorgan_replacements)
      /\ IsFiniteSet(DOMAIN plus_next_replacements)
  <2>1. /\ IsFiniteSet({"div_valid"}) /\ IsFiniteSet({"shift_left"})
        /\ IsFiniteSet({"shift_use_round", "div_valid", "adder_op_b_negate"})
        /\ IsFiniteSet({"shift_left", "div_valid", "adder_op_b_negate"})
        /\ IsFiniteSet({"eq_zero"}) /\ IsFiniteSet({"flush_resp"})
        /\ IsFiniteSet({"next_cnt_case", "flush_resp"})
    BY FewNames, Zenon
  <2> QED  BY <1>1, <2>1
<1> QED
  BY <1>2, DeltaIsExact
     DEF divrem_source_delta, shift_left_source_delta, addsub_source_delta,
         shift_divvalid_source_delta, l71_source_delta, l244_source_delta,
         demorgan_source_delta, plus_next_source_delta

\* The verdicts read off the logs are the truth about the miters, however Yosys
\* may have ended.
LEMMA CasesAreTrue ==
    ASSUME NEW ms, NEW fault, NEW cases, CasesHold(ms, fault, cases)
    PROVE  MitersShow(ms, cases)
  BY DEF CasesHold, CaseHolds, YosysLog, Hung, MitersShow

LEMMA DemorganCasesAreTrue ==
    ASSUME NEW ms, NEW fault, demorgan_predicate_equiv(ms, fault)
    PROVE  MitersShow(ms, demorgan_predicate_cases)
  BY DEF demorgan_predicate_equiv, YosysLog, Hung, MitersShow

LEMMA DivremCasesAreTrue ==
    ASSUME NEW ms, NEW fault, divrem_predicate_equiv(ms, fault)
    PROVE  MitersShow(ms, two_cases)
<1>1. ms["positive"] = "same"
  BY DEF divrem_predicate_equiv, YosysLog, Hung
<1>2. ms["negative"] # "same"
  BY DEF divrem_predicate_equiv, YosysLog, Hung
<1>3. /\ DOMAIN two_cases = {"positive", "negative"}
      /\ two_cases["positive"] = "success" /\ two_cases["negative"] = "fail"
  BY DEF two_cases
<1>4. ASSUME NEW c \in {"positive", "negative"}
      PROVE  (two_cases[c] = "success") = (ms[c] = "same")
  <2>1. CASE c = "positive"
    BY <1>1, <1>3, <2>1
  <2>2. CASE c = "negative"
    BY <1>2, <1>3, <2>2
  <2> QED  BY <2>1, <2>2
<1> QED  BY <1>3, <1>4 DEF MitersShow

LEMMA ShiftLeftCasesAreTrue ==
    ASSUME NEW ms, NEW fault, shift_left_predicate_equiv(ms, fault)
    PROVE  MitersShow(ms, two_cases) /\ ms["negative"] = "differs"
<1>1. MitersShow(ms, two_cases)
  BY CasesAreTrue DEF shift_left_predicate_equiv
<1>2. ms["negative"] = "differs"
  BY DEF shift_left_predicate_equiv, YosysLog, Hung
<1> QED  BY <1>1, <1>2

LEMMA CountsAreTrue ==
    ASSUME NEW cells, NEW fault, NEW cases, CountsHold(cells, fault, cases),
           \A c \in DOMAIN cases : cases[c] \in {0, 32}
    PROVE  CellsShow(cells, cases)
<1> SUFFICES ASSUME NEW c \in DOMAIN cases
             PROVE  IF cases[c] = 0 THEN cells[c][3] = 0
                    ELSE \E i \in 1..3 : cells[c][i] = cases[c]
  BY DEF CellsShow
<1> DEFINE log == EquivLog(cells[c], fault[c])
<1>1. (\E i \in log.counts : cells[c][i] = cases[c]) /\ ((log.rc = 0) = (cases[c] = 0))
  BY DEF CountsHold, UnprovenCount
<1>2. log.counts \subseteq 1..3
  BY DEF EquivLog
<1>3. log.rc = 0 => cells[c][3] = 0
  BY DEF EquivLog
<1> HIDE DEF log
<1> QED  BY <1>1, <1>2, <1>3

\* Every group of both sides has a figure.
Figures(flow) ==
    /\ \A g \in DOMAIN flow.baseline.wns : flow.baseline.wns[g] \in Int
    /\ \A g \in DOMAIN flow.gate.wns : flow.gate.wns[g] \in Int

LEMMA FiguresThere ==
    ASSUME NEW p \in PacketNames \ Decoders, NEW f, EvidenceOK(p, "flow", f)
    PROVE  Figures(f.context) /\ Figures(f.module)
  BY DEF EvidenceOK, Figures

LEMMA NoRegressionIsHeld ==
    ASSUME NEW flow, Figures(flow), NoRegression(flow)
    PROVE  Held(flow)
<1>1. /\ DOMAIN flow.baseline.wns \subseteq DOMAIN flow.gate.wns
      /\ flow.gate.area <= flow.baseline.area
      /\ \A g \in DOMAIN flow.baseline.wns : ~(flow.gate.wns[g] < flow.baseline.wns[g])
  BY DEF NoRegression, GroupsFound, AreaHeld, Regressed
<1>2. \A g \in DOMAIN flow.baseline.wns : flow.gate.wns[g] >= flow.baseline.wns[g]
  BY <1>1 DEF Figures
<1> QED  BY <1>1, <1>2 DEF Held

LEMMA CompareIsHeld ==
    ASSUME NEW flow, Compare(flow)
    PROVE  Held(flow)
  BY DEF Compare, GroupsFound, AreaHeld, Held

LEMMA JointBarIsBar ==
    ASSUME NEW f, JointBar(f.context, f.pinned)
    PROVE  Bar(f)
  BY DEF JointBar, Bar

LEMMA CaveatIsExpected ==
    ASSUME NEW f, Figures(f.context), Figures(f.module), plus_next_selected_summary(f)
    PROVE  Held(f.context) /\ Caveat(f.module)
<1>1. /\ NoRegression(f.context) /\ GroupsFound(f.module)
      /\ Regressed(f.module) = {"in2out"}
  BY DEF plus_next_selected_summary
<1>2. \A g \in DOMAIN f.module.baseline.wns :
        (f.module.gate.wns[g] < f.module.baseline.wns[g])
        <=> ~(f.module.gate.wns[g] >= f.module.baseline.wns[g])
  BY <1>1 DEF Figures, GroupsFound
<1>3. {g \in DOMAIN f.module.baseline.wns :
         ~(f.module.gate.wns[g] >= f.module.baseline.wns[g])} = Regressed(f.module)
  BY <1>2 DEF Regressed
<1> QED  BY <1>1, <1>3, NoRegressionIsHeld DEF Caveat, GroupsFound

LEMMA CountsAreJudged ==
    ASSUME NEW act, NEW fault, act.gold \in Int, act.gate \in Int, PackagedCounts(act, fault)
    PROVE  Packed(act) /\ (act.packaged.status = "regression" <=> act.gate > act.gold)
  BY DEF PackagedCounts, Simulates, ToggleStatus, Packed

LEMMA RowsArePacked ==
    ASSUME NEW act, NEW fault, ComparedRows(act, fault)
    PROVE  Packed(act)
  BY DEF ComparedRows, Packed

-----------------------------------------------------------------------------
\* Script by script, over the packets that have it: what it accepts is what the
\* packet claims.
LEMMA SourceDeltaIsTrue ==
    ASSUME NEW p \in PacketNames \ RegisterFiles, NEW e, EvidenceOK(p, "src", e),
           replay_source_delta(p, e)
    PROVE  ExactDelta(e, Replacements(p))
<1>1. e.gold \in Seq(STRING)
  BY DEF EvidenceOK
<1>2. CASE p = "alu_divrem_prefix_valid"
  BY <1>1, <1>2, DeltasAreExact DEF replay_source_delta, Replacements
<1>3. CASE p = "alu_shift_left_divrem_prefix"
  BY <1>1, <1>3, DeltasAreExact DEF replay_source_delta, Replacements
<1>4. CASE p = "alu_addsub_divvalid_adderneg_prefixes"
  BY <1>1, <1>4, DeltasAreExact DEF replay_source_delta, Replacements
<1>5. CASE p = "alu_shift_divvalid_adderneg_prefixes"
  BY <1>1, <1>5, DeltasAreExact DEF replay_source_delta, Replacements
<1>6. CASE p = "compressed_decoder_l71_addi4spn_zero_reduce"
  BY <1>1, <1>6, DeltasAreExact DEF replay_source_delta, Replacements
<1>7. CASE p = "compressed_decoder_l244_addi16sp_lui_zero_reduce"
  BY <1>1, <1>7, DeltasAreExact DEF replay_source_delta, Replacements
<1>8. CASE p = "prefetch_hwlp_flush_demorgan"
  BY <1>1, <1>8, DeltasAreExact DEF replay_source_delta, Replacements
<1>9. CASE p = "prefetch_hwlp_plus_next_cnt_arith"
  BY <1>1, <1>9, DeltasAreExact DEF replay_source_delta, Replacements
<1> QED  BY <1>2, <1>3, <1>4, <1>5, <1>6, <1>7, <1>8, <1>9
         DEF PacketNames, Decoders, RegisterFiles

LEMMA PredicateIsTrue ==
    ASSUME NEW p \in PacketNames \ RegisterFiles, NEW e, NEW fault,
           replay_predicate_equiv(p, e, fault)
    PROVE  /\ MitersShow(e, PredicateCases(p))
           /\ p = "alu_shift_left_divrem_prefix" => e["negative"] = "differs"
<1>1. CASE p = "alu_divrem_prefix_valid"
  BY <1>1, DivremCasesAreTrue DEF replay_predicate_equiv, PredicateCases
<1>2. CASE p = "alu_shift_left_divrem_prefix"
  BY <1>2, ShiftLeftCasesAreTrue DEF replay_predicate_equiv, PredicateCases
<1>3. CASE p = "alu_addsub_divvalid_adderneg_prefixes"
  BY <1>3, CasesAreTrue DEF replay_predicate_equiv, PredicateCases, addsub_predicate_equiv
<1>4. CASE p = "alu_shift_divvalid_adderneg_prefixes"
  BY <1>4, CasesAreTrue DEF replay_predicate_equiv, PredicateCases, shift_divvalid_predicate_equiv
<1>5. CASE p = "compressed_decoder_l71_addi4spn_zero_reduce"
  BY <1>5, CasesAreTrue DEF replay_predicate_equiv, PredicateCases, l71_predicate_equiv
<1>6. CASE p = "compressed_decoder_l244_addi16sp_lui_zero_reduce"
  BY <1>6, CasesAreTrue DEF replay_predicate_equiv, PredicateCases, l244_predicate_equiv
<1>7. CASE p = "prefetch_hwlp_flush_demorgan"
  BY <1>7, DemorganCasesAreTrue DEF replay_predicate_equiv, PredicateCases
<1>8. CASE p = "prefetch_hwlp_plus_next_cnt_arith"
  BY <1>8, CasesAreTrue DEF replay_predicate_equiv, PredicateCases, plus_next_predicate_equiv
<1> QED  BY <1>1, <1>2, <1>3, <1>4, <1>5, <1>6, <1>7, <1>8
         DEF PacketNames, Decoders, RegisterFiles

LEMMA FullDecoderIsTrue ==
    ASSUME NEW p \in Decoders, NEW e, NEW fault, replay_full_decoder_equiv(p, e, fault)
    PROVE  MitersShow(e, FullCases(p))
<1>1. CASE p = "compressed_decoder_l71_addi4spn_zero_reduce"
  BY <1>1, CasesAreTrue DEF replay_full_decoder_equiv, FullCases, l71_full_decoder_equiv
<1>2. CASE p = "compressed_decoder_l244_addi16sp_lui_zero_reduce"
  BY <1>2, CasesAreTrue DEF replay_full_decoder_equiv, FullCases, l244_full_decoder_equiv
<1> QED  BY <1>1, <1>2 DEF Decoders

LEMMA ParentIsTrue ==
    ASSUME NEW p \in RegisterFiles, NEW e, NEW fault, replay_parent_equiv(p, e, fault)
    PROVE  CellsShow(e, parent_cases)
<1>1. CountsHold(e, fault, parent_cases)
  BY DEF RegisterFiles, replay_parent_equiv, mux_zero_parent_equiv, high_bank_parent_equiv
<1>2. \A c \in DOMAIN parent_cases : parent_cases[c] \in {0, 32}
  BY DEF parent_cases
<1> QED  BY <1>1, <1>2, CountsAreTrue

LEMMA RfGridIsTrue ==
    ASSUME NEW p \in RegisterFiles, NEW e, NEW fault, replay_rf_grid(p, e, fault)
    PROVE  CellsShow(e, rf_grid_cases)
<1>1. CountsHold(e, fault, rf_grid_cases)
  BY DEF RegisterFiles, replay_rf_grid, mux_zero_rf_grid, high_bank_rf_grid
<1>2. \A c \in DOMAIN rf_grid_cases : rf_grid_cases[c] \in {0, 32}
  BY DEF rf_grid_cases
<1> QED  BY <1>1, <1>2, CountsAreTrue

LEMMA SummaryIsTrue ==
    ASSUME NEW p \in PacketNames, NEW e, EvidenceOK(p, "flow", e),
           replay_selected_summary(p, e)
    PROVE  FlowClaim(p, e)
<1> USE DEF replay_selected_summary, FlowClaim, RegisterFiles, Decoders
<1>1. CASE p = "alu_divrem_prefix_valid"
  BY <1>1, JointBarIsBar DEF divrem_selected_summary
<1>2. CASE p = "register_file_readmask_generate_mux_zero"
  BY <1>2, JointBarIsBar DEF mux_zero_selected_summary
<1>3. CASE p = "register_file_readmask_high_bank_zero"
  BY <1>3, JointBarIsBar DEF high_bank_selected_summary
<1>4. CASE p = "compressed_decoder_l71_addi4spn_zero_reduce"
  BY <1>4, CompareIsHeld DEF l71_selected_summary
<1>5. CASE p = "compressed_decoder_l244_addi16sp_lui_zero_reduce"
  BY <1>5, CompareIsHeld DEF l244_selected_summary
<1>6. p \notin Decoders => Figures(e.context) /\ Figures(e.module)
  BY FiguresThere
<1>7. CASE p = "alu_shift_left_divrem_prefix"
  BY <1>6, <1>7, NoRegressionIsHeld DEF shift_left_selected_summary
<1>8. CASE p = "alu_addsub_divvalid_adderneg_prefixes"
  BY <1>6, <1>8, NoRegressionIsHeld DEF addsub_selected_summary
<1>9. CASE p = "alu_shift_divvalid_adderneg_prefixes"
  BY <1>6, <1>9, NoRegressionIsHeld DEF shift_divvalid_selected_summary
<1>10. CASE p = "prefetch_hwlp_flush_demorgan"
  BY <1>6, <1>10, NoRegressionIsHeld DEF demorgan_selected_summary
<1>11. CASE p = "prefetch_hwlp_plus_next_cnt_arith"
  BY <1>6, <1>11, CaveatIsExpected
<1> QED  BY <1>1, <1>2, <1>3, <1>4, <1>5, <1>7, <1>8, <1>9, <1>10, <1>11 DEF PacketNames

LEMMA ToggleIsTrue ==
    ASSUME NEW p \in PacketNames, NEW e, NEW fault, EvidenceOK(p, "act", e),
           replay_toggle(p, e, fault)
    PROVE  ActivityClaim(p, e)
<1>1. e.gold \in Int /\ e.gate \in Int
  BY DEF EvidenceOK
<1> USE DEF replay_toggle, ActivityClaim, RegisterFiles, Decoders
<1>2. CASE p = "alu_divrem_prefix_valid"
  BY <1>1, <1>2, CountsAreJudged DEF divrem_replay_toggle
<1>3. CASE p = "alu_shift_left_divrem_prefix"
  BY <1>1, <1>3, CountsAreJudged DEF shift_left_replay_toggle
<1>4. CASE p = "alu_addsub_divvalid_adderneg_prefixes"
  BY <1>1, <1>4, CountsAreJudged DEF addsub_replay_toggle
<1>5. CASE p = "alu_shift_divvalid_adderneg_prefixes"
  BY <1>1, <1>5, CountsAreJudged DEF shift_divvalid_replay_toggle
<1>6. CASE p = "compressed_decoder_l71_addi4spn_zero_reduce"
  BY <1>6, RowsArePacked DEF l71_replay_toggle
<1>7. CASE p = "compressed_decoder_l244_addi16sp_lui_zero_reduce"
  BY <1>7, RowsArePacked DEF l244_replay_toggle
<1>8. CASE p = "prefetch_hwlp_flush_demorgan"
  BY <1>8, RowsArePacked DEF demorgan_replay_toggle
<1>9. CASE p = "prefetch_hwlp_plus_next_cnt_arith"
  BY <1>9 DEF plus_next_replay_toggle
<1>10. CASE p = "register_file_readmask_generate_mux_zero"
  BY <1>10 DEF mux_zero_replay_toggle, ExercisedCounts, Simulates
<1>11. CASE p = "register_file_readmask_high_bank_zero"
  BY <1>11 DEF high_bank_replay_toggle, ExercisedCounts, Simulates
<1> QED  BY <1>2, <1>3, <1>4, <1>5, <1>6, <1>7, <1>8, <1>9, <1>10, <1>11 DEF PacketNames

\* The 42 verdicts of the ten packets.
LEMMA VerdictIsTrue ==
    ASSUME NEW p \in PacketNames, NEW s \in Scripts(p), NEW e, NEW fault,
           EvidenceOK(p, Part[s], e), Verdict(p, s, e, fault)
    PROVE  Claim(p, s, e)
<1>1. CASE s = "replay_source_delta"
  <2>1. p \notin RegisterFiles
    BY <1>1 DEF Scripts
  <2> QED  BY <1>1, <2>1, SourceDeltaIsTrue DEF Verdict, Claim, Part
<1>2. CASE s = "replay_predicate_equiv"
  <2>1. p \notin RegisterFiles
    BY <1>2 DEF Scripts
  <2> QED  BY <1>2, <2>1, PredicateIsTrue DEF Verdict, Claim
<1>3. CASE s = "replay_full_decoder_equiv"
  <2>1. p \in Decoders
    BY <1>3 DEF Scripts
  <2> QED  BY <1>3, <2>1, FullDecoderIsTrue DEF Verdict, Claim
<1>4. CASE s = "replay_parent_equiv"
  <2>1. p \in RegisterFiles
    BY <1>4 DEF Scripts
  <2> QED  BY <1>4, <2>1, ParentIsTrue DEF Verdict, Claim
<1>5. CASE s = "replay_rf_grid"
  <2>1. p \in RegisterFiles
    BY <1>5 DEF Scripts
  <2> QED  BY <1>5, <2>1, RfGridIsTrue DEF Verdict, Claim
<1>6. CASE s = "replay_selected_summary"
  BY <1>6, SummaryIsTrue DEF Verdict, Claim, Part
<1>7. CASE s = "replay_toggle"
  BY <1>7, ToggleIsTrue DEF Verdict, Claim, Part
<1> QED  BY <1>1, <1>2, <1>3, <1>4, <1>5, <1>6, <1>7 DEF Scripts

-----------------------------------------------------------------------------
(* What is on master bears out its claims *)

\* What lies under the name of a part is one of its contents.
PacketOK(p, c) == \A x \in Parts(p) \cap DOMAIN c : c[x] \in Contents(p, x)

\* What authors leave of a packet is one still.
HeadOK ==
    /\ Packets \subseteq PacketNames
    /\ \A p \in Packets : PacketOK(p, head.packets[p])

\* While no replay has failed, each packet done was accepted in some run of it.
ReplaysOK ==
    /\ gate.pc = "green" => ~gate.failed
    /\ gate.pc \in {"replay", "green"} /\ ~gate.failed =>
          \A p \in gate.done : \E fault : ReplayOne(p, head.packets[p], fault)

ClaimsInv == IInv /\ HeadOK /\ ReplaysOK /\ MasterClaimsHold

\* Files are written, taken out and listed without touching the parts.
LEMMA PutKeepsPacket ==
    ASSUME NEW p, NEW c, PacketOK(p, c), NEW x, NEW v, x \in Parts(p) => v \in Contents(p, x)
    PROVE  PacketOK(p, Put(c, x, v))
  BY DEF PacketOK, Put

LEMMA PutLinesKeepsPacket ==
    ASSUME NEW p, NEW c, PacketOK(p, c), NEW lines
    PROVE  PacketOK(p, PutLines(c, lines))
<1>1. "SHA256SUMS" \notin Parts(p)
  BY PartNames
<1>2. /\ DOMAIN PutLines(c, lines) = DOMAIN c
      /\ \A x \in DOMAIN c : x # "SHA256SUMS" => PutLines(c, lines)[x] = c[x]
  BY DEF PutLines
<1> QED  BY <1>1, <1>2 DEF PacketOK

LEMMA RestrictKeepsPacket ==
    ASSUME NEW p, NEW c, PacketOK(p, c), NEW x
    PROVE  PacketOK(p, Restrict(c, DOMAIN c \ {x}))
  BY DEF PacketOK, Restrict

LEMMA WriteKeepsPacket ==
    ASSUME NEW p, NEW c, PacketOK(p, c), NEW x, NEW v, x \in Parts(p) => v \in Contents(p, x)
    PROVE  PacketOK(p, Write(c, x, v))
<1>1. PacketOK(p, Put(c, x, v))
  BY PutKeepsPacket
<1>2. PacketOK(p, PutLines(Put(c, x, v), Put(Lines(c), x, v)))
  BY <1>1, PutLinesKeepsPacket
<1> QED  BY <1>1, <1>2 DEF Write

LEMMA TakeOutKeepsPacket ==
    ASSUME NEW p, NEW c, PacketOK(p, c), NEW x
    PROVE  PacketOK(p, TakeOut(c, x))
<1> DEFINE rest == Restrict(c, DOMAIN c \ {x})
<1>1. PacketOK(p, rest)
  BY RestrictKeepsPacket
<1>2. PacketOK(p, PutLines(rest, Restrict(Lines(c), DOMAIN Lines(c) \ {x})))
  BY <1>1, PutLinesKeepsPacket
<1>3. TakeOut(c, x) = IF Lists(rest, x)
                      THEN PutLines(rest, Restrict(Lines(c), DOMAIN Lines(c) \ {x}))
                      ELSE rest
  BY DEF TakeOut
<1> HIDE DEF rest
<1> QED  BY <1>1, <1>2, <1>3

\* A manifest and a checksum list are no part.
LEMMA ManifestKeepsPacket ==
    ASSUME NEW p, NEW c, PacketOK(p, c), NEW x \in {"manifest", "nested"}, NEW m
    PROVE  PacketOK(p, Write(c, x, m))
<1>1. x \notin Parts(p)
  BY PartNames
<1> QED  BY <1>1, WriteKeepsPacket

LEMMA ListKeepsPacket ==
    ASSUME NEW p, NEW c, PacketOK(p, c), NEW list
    PROVE  PacketOK(p, Put(c, "SHA256SUMS", list))
<1>1. "SHA256SUMS" \notin Parts(p)
  BY PartNames
<1> QED  BY <1>1, PutKeepsPacket

\* Whatever an author does, each packet keeps its parts.
LEMMA EditKeepsPackets ==
    ASSUME Shape, HeadOK, Edit
    PROVE  HeadOK'
<1>1. Packets' = Packets
  BY EditResets DEF Packets
<1>2. DOMAIN head = {"lock", "private", "strays", "packets"} /\ DOMAIN head.packets = Packets
  BY DEF Shape
<1>3. Packets \subseteq PacketNames /\ \A p \in Packets : PacketOK(p, head.packets[p])
  BY DEF HeadOK
<1>4. ASSUME NEW p \in Packets, NEW c, OneEdited(p, c), PacketOK(p, c)
      PROVE  HeadOK'
  <2>1. \A q \in Packets : head'.packets[q] = IF q = p THEN c ELSE head.packets[q]
    BY <1>2, <1>4 DEF OneEdited
  <2> QED  BY <1>1, <1>3, <1>4, <2>1 DEF HeadOK
<1>5. CASE EditPacket
  <2> PICK p \in Present :
       LET c == head.packets[p]
       IN  \/ \E x \in Parts(p) : \E e \in Contents(p, x) : OneEdited(p, Write(c, x, e))
           \/ \E x \in DOMAIN c : OneEdited(p, TakeOut(c, x))
           \/ OneEdited(p, Write(c, "manifest", GoodManifest(head.lock)))
    BY <1>5 DEF EditPacket, OneEdited
  <2>1. p \in Packets /\ PacketOK(p, head.packets[p])
    BY <1>3 DEF Present
  <2>2. ASSUME NEW x \in Parts(p), NEW e \in Contents(p, x)
        PROVE  PacketOK(p, Write(head.packets[p], x, e))
    BY <2>1, WriteKeepsPacket
  <2>3. ASSUME NEW x
        PROVE  PacketOK(p, TakeOut(head.packets[p], x))
    BY <2>1, TakeOutKeepsPacket
  <2>4. PacketOK(p, Write(head.packets[p], "manifest", GoodManifest(head.lock)))
    BY <2>1, ManifestKeepsPacket
  <2> QED  BY <1>4, <2>1, <2>2, <2>3, <2>4
<1>6. CASE EditList
  <2>1. PICK p \in Present : \E list, lines, form :
            \/ OneEdited(p, Put(head.packets[p], "SHA256SUMS", list))
            \/ OneEdited(p, PutLines(head.packets[p], lines))
            \/ OneEdited(p, [head.packets[p] EXCEPT !["SHA256SUMS"].form = form])
    BY <1>6 DEF EditList, OneEdited
  <2>2. p \in Packets /\ PacketOK(p, head.packets[p])
    BY <1>3 DEF Present
  <2>3. ASSUME NEW form
        PROVE  PacketOK(p, [head.packets[p] EXCEPT !["SHA256SUMS"].form = form])
    <3>1. "SHA256SUMS" \notin Parts(p)
      BY PartNames
    <3> QED  BY <2>2, <3>1 DEF PacketOK
  <2>4. ASSUME NEW list
        PROVE  /\ PacketOK(p, Put(head.packets[p], "SHA256SUMS", list))
               /\ PacketOK(p, PutLines(head.packets[p], list))
    BY <2>2, ListKeepsPacket, PutLinesKeepsPacket
  <2> QED  BY <1>4, <2>1, <2>2, <2>3, <2>4
<1>7. CASE RemovePacket
  <2>1. PICK p \in Packets :
            head' = [head EXCEPT !.packets[p] = Nothing, !.strays = {f \in @ : f.into # p}]
    BY <1>7 DEF RemovePacket, Present
  <2>2. \A q \in Packets : head'.packets[q] = IF q = p THEN Nothing ELSE head.packets[q]
    BY <1>2, <2>1
  <2>3. PacketOK(p, Nothing)
    BY DEF PacketOK, Nothing
  <2> QED  BY <1>1, <1>3, <2>2, <2>3 DEF HeadOK
<1>8. CASE MoveFile
  <2>1. PICK p \in Packets : \E x, stray :
            head' = [head EXCEPT !.packets[p] =
                         Restrict(head.packets[p], DOMAIN head.packets[p] \ {x}),
                                 !.strays = @ \cup {stray}]
    BY <1>8 DEF MoveFile, Present
  <2>2. PICK x, stray :
            head' = [head EXCEPT !.packets[p] =
                         Restrict(head.packets[p], DOMAIN head.packets[p] \ {x}),
                                 !.strays = @ \cup {stray}]
    BY <2>1
  <2> DEFINE c == Restrict(head.packets[p], DOMAIN head.packets[p] \ {x})
  <2>3. PacketOK(p, c)
    BY <1>3, RestrictKeepsPacket
  <2> HIDE DEF c
  <2>4. \A q \in Packets : head'.packets[q] = IF q = p THEN c ELSE head.packets[q]
    BY <1>2, <2>2 DEF c
  <2> QED  BY <1>1, <1>3, <2>3, <2>4 DEF HeadOK
<1>9. CASE EditManifest
  <2>1. PICK p \in Packets, x \in {"manifest", "nested"} : \E n :
            OneEdited(p, Write(head.packets[p], x, n))
    BY <1>9 DEF EditManifest, OneEdited
  <2>2. ASSUME NEW n PROVE PacketOK(p, Write(head.packets[p], x, n))
    BY <1>3, ManifestKeepsPacket
  <2> QED  BY <1>4, <2>1, <2>2
<1>10. CASE EditLock
  <2>1. PICK l \in Locks, ps \in SUBSET {p \in Packets : "manifest" \in DOMAIN head.packets[p]} :
          head' = [head EXCEPT
              !.lock = l,
              !.packets = [p \in Packets |->
                 LET c == head.packets[p]
                 IN  IF p \in ps
                     THEN Write(c, "manifest",
                                [c.manifest EXCEPT !.pin = l, !.tools = l.tools])
                     ELSE c]]
    BY <1>10 DEF EditLock
  <2> DEFINE new(p) == [head.packets[p].manifest EXCEPT !.pin = l, !.tools = l.tools]
  <2>2. \A p \in Packets : head'.packets[p] =
            IF p \in ps THEN Write(head.packets[p], "manifest", new(p)) ELSE head.packets[p]
    BY <1>2, <2>1
  <2> HIDE DEF new
  <2>3. \A p \in Packets : PacketOK(p, Write(head.packets[p], "manifest", new(p)))
    BY <1>3, ManifestKeepsPacket
  <2>4. \A p \in Packets : PacketOK(p, head'.packets[p])
    BY <1>3, <2>2, <2>3
  <2> QED  BY <1>1, <1>3, <2>4 DEF HeadOK
<1>11. CASE EditWording
  <2>1. head'.packets = head.packets
    BY <1>2, <1>11 DEF EditWording
  <2> QED  BY <1>1, <1>3, <2>1 DEF HeadOK
<1> QED  BY <1>5, <1>6, <1>7, <1>8, <1>9, <1>10, <1>11 DEF Edit

LEMMA InitClaims == Init => ClaimsInv
<1> SUFFICES ASSUME Init PROVE ClaimsInv
  OBVIOUS
<1>1. PICK repo \in Repos :
        /\ master = [lock |-> FirstLock, private |-> FALSE, strays |-> {},
                     packets |-> [p \in repo |-> GoodPacket(p, FirstLock)]]
        /\ head = master
        /\ gate = Idle
  BY DEF Init
<1>2. Packets = repo /\ repo \subseteq PacketNames
  BY <1>1, GateAssumption DEF Packets
<1>3. ASSUME NEW p \in repo, NEW s \in Scripts(p)
      PROVE  Part[s] \in Parts(p) /\ Claim(p, s, Good[p][Part[s]])
  <2>1. Part[s] \in Parts(p)
    BY DEF Parts
  <2>2. EvidenceOK(p, Part[s], Good[p][Part[s]])
    BY <1>2, <2>1, GateAssumption DEF Contents
  <2>3. Verdict(p, s, Good[p][Part[s]], NoFault(GoodPacket(p, FirstLock)))
    BY PublishedAssumption
  <2> QED  BY <1>2, <2>1, <2>2, <2>3, VerdictIsTrue
<1>4. HeadOK
  <2>1. ASSUME NEW p \in repo PROVE PacketOK(p, GoodPacket(p, FirstLock))
    BY GoodFiles DEF PacketOK, Contents
  <2> QED  BY <1>1, <1>2, <2>1 DEF HeadOK
<1>5. ReplaysOK
  BY <1>1 DEF ReplaysOK, Idle
<1>6. MasterClaimsHold
  <2>1. ASSUME NEW p \in repo, NEW s \in Scripts(p)
        PROVE  /\ Part[s] \in DOMAIN GoodPacket(p, FirstLock)
               /\ Claim(p, s, GoodPacket(p, FirstLock)[Part[s]])
    <3>1. Part[s] \in Parts(p) /\ Claim(p, s, Good[p][Part[s]])
      BY <1>3
    <3>2. Part[s] \in DOMAIN GoodPacket(p, FirstLock)
      BY <3>1, GoodFiles
    <3>3. GoodPacket(p, FirstLock)[Part[s]] = Good[p][Part[s]]
      <4>1. \A x \in Parts(p) : GoodPacket(p, FirstLock)[x] = Good[p][x]
        BY GoodFiles
      <4> QED  BY <3>1, <4>1
    <3> QED  BY <3>1, <3>2, <3>3
  <2> QED  BY <1>1, <1>2, <2>1 DEF MasterClaimsHold
<1> QED  BY <1>4, <1>5, <1>6, InitIInv DEF ClaimsInv

\* In a packet that is accepted the scripts that are there have their evidence, and
\* it bears out their claims.
LEMMA AcceptedIsTrue ==
    ASSUME NEW p \in PacketNames, NEW c, PacketOK(p, c), NEW fault, ReplayOne(p, c, fault),
           NEW s \in Scripts(p) \cap DOMAIN c
    PROVE  Part[s] \in DOMAIN c /\ Claim(p, s, c[Part[s]])
<1>1. Part[s] \in DOMAIN c /\ Verdict(p, s, c[Part[s]], fault)
  BY DEF ReplayOne
<1>2. Part[s] \in Parts(p)
  BY DEF Parts
<1>3. EvidenceOK(p, Part[s], c[Part[s]])
  BY <1>1, <1>2, GateAssumption DEF PacketOK
<1> QED  BY <1>1, <1>3, VerdictIsTrue

LEMMA NextClaims == ClaimsInv /\ [Next]_vars => ClaimsInv'
<1> SUFFICES ASSUME ClaimsInv, [Next]_vars PROVE ClaimsInv'
  OBVIOUS
<1>a. IInv /\ HeadOK /\ ReplaysOK /\ MasterClaimsHold /\ IInv'
  BY NextIInv DEF ClaimsInv
<1>b. Shape /\ JobOK /\ ReceiptsOK
  BY <1>a DEF IInv
<1>1. CASE Edit
  <2>1. gate' = Idle /\ UNCHANGED <<master, blind>>
    BY <1>1, EditResets
  <2>2. ReplaysOK'
    BY <2>1 DEF ReplaysOK, Idle
  <2>3. MasterClaimsHold'
    BY <1>a, <2>1 DEF MasterClaimsHold, Packets
  <2> QED  BY <1>1, <1>a, <1>b, <2>2, <2>3, EditKeepsPackets DEF ClaimsInv
\* The jobs leave both trees alone.
<1>2. ASSUME UNCHANGED <<master, head, blind>>
      PROVE  HeadOK' /\ MasterClaimsHold'
  BY <1>a, <1>2 DEF HeadOK, MasterClaimsHold, Packets
<1>3. CASE GateStarts
  <2>1. gate'.done = {} /\ gate'.pc # "green" /\ UNCHANGED <<master, head, blind>>
    BY <1>3 DEF GateStarts, Idle
  <2> QED  BY <1>a, <1>2, <2>1 DEF ClaimsInv, ReplaysOK
<1>4. CASE GateReplays
  <2>1. UNCHANGED <<master, head, blind>> /\ gate.pc = "replay"
    BY <1>4 DEF GateReplays
  <2>2. PICK p \in gate.todo :
            IF IsDir(p)
            THEN \E ok \in Outcomes(p, head.packets[p]) :
                    gate' = [gate EXCEPT !.todo = @ \ {p}, !.done = @ \cup {p},
                                !.failed = @ \/ ~ok]
            ELSE gate' = [gate EXCEPT !.todo = @ \ {p}]
    BY <1>4 DEF GateReplays
  <2>3. CASE IsDir(p)
    <3>1. PICK ok \in Outcomes(p, head.packets[p]) :
              gate' = [gate EXCEPT !.todo = @ \ {p}, !.done = @ \cup {p},
                                   !.failed = @ \/ ~ok]
      BY <2>2, <2>3
    <3> DEFINE bad == gate.failed \/ ~ok
    <3>2. gate' = [gate EXCEPT !.todo = @ \ {p}, !.done = @ \cup {p}, !.failed = bad]
      BY <3>1
    <3> HIDE DEF bad
    <3>3. gate'.pc = "replay" /\ gate'.done = gate.done \cup {p} /\ gate'.failed = bad
      BY <1>b, <2>1, <3>2 DEF Shape, Job
    <3>4. ~bad => ~gate.failed /\ \E fault : ReplayOne(p, head.packets[p], fault)
      BY DEF bad, Outcomes
    <3>5. ReplaysOK'
      BY <1>a, <2>1, <3>3, <3>4 DEF ReplaysOK
    <3> QED  BY <1>a, <1>2, <2>1, <3>5 DEF ClaimsInv
  <2>4. CASE ~IsDir(p)
    <3>1. gate' = [gate EXCEPT !.todo = @ \ {p}]
      BY <2>2, <2>4
    <3>2. gate'.pc = "replay" /\ gate'.done = gate.done /\ gate'.failed = gate.failed
      BY <1>b, <2>1, <3>1 DEF Shape, Job
    <3> QED  BY <1>a, <1>2, <2>1, <3>2 DEF ClaimsInv, ReplaysOK
  <2> QED  BY <2>3, <2>4
<1>5. CASE GateEnds
  <2>1. UNCHANGED <<master, head, blind>> /\ gate.pc = "replay"
        /\ gate'.pc = (IF gate.failed THEN "red" ELSE "green")
        /\ gate'.done = gate.done /\ gate'.failed = gate.failed
    BY <1>5, <1>b DEF GateEnds, Shape, Job
  <2> QED  BY <1>a, <1>2, <2>1 DEF ClaimsInv, ReplaysOK
<1>6. CASE GateTimesOut
  <2>1. UNCHANGED <<master, head, blind>> /\ gate'.pc = "timed_out"
    BY <1>6 DEF GateTimesOut, Idle
  <2> QED  BY <1>a, <1>2, <2>1 DEF ClaimsInv, ReplaysOK
<1>7. CASE ReceiptsRun \/ UNCHANGED vars
  <2>1. UNCHANGED <<master, head, gate, blind>>
    BY <1>7 DEF ReceiptsRun, vars
  <2> QED  BY <1>a, <1>2, <2>1 DEF ClaimsInv, ReplaysOK
<1>8. CASE Merge
  <2>1. /\ gate.pc \in {"green", "skipped"} /\ receipts = "green"
        /\ master' = head /\ head' = head /\ gate' = Idle
        /\ blind' = (blind \/ ~gate.git)
    BY <1>8 DEF Merge
  <2>2. Packets' = Packets /\ DOMAIN head.packets = Packets
    BY <1>b, <2>1 DEF Shape, Packets
  <2>3. HeadOK' /\ ReplaysOK'
    BY <1>a, <2>1, <2>2 DEF HeadOK, ReplaysOK, Idle
  <2>4. ASSUME ~blind', NEW p \in Packets, NEW s \in Scripts(p) \cap DOMAIN head.packets[p]
        PROVE  IF Part[s] \in DOMAIN head.packets[p]
               THEN Claim(p, s, head.packets[p][Part[s]])
               ELSE ~Lists(head.packets[p], Part[s])
    <3>1. ~blind /\ gate.git
      BY <2>1, <2>4
    <3>2. CASE p \in gate.done
      <4>1. gate.pc = "green"
        BY <1>b, <2>1, <3>2 DEF JobOK
      <4>2. PICK fault : ReplayOne(p, head.packets[p], fault)
        BY <1>a, <3>2, <4>1 DEF ReplaysOK
      <4>3. PacketOK(p, head.packets[p]) /\ p \in PacketNames
        BY <1>a DEF HeadOK
      <4> QED  BY <4>2, <4>3, AcceptedIsTrue
    <3>3. CASE p \notin gate.done
      <4>1. New(p) = {}
        BY <1>b, <2>1, <3>1, <3>3 DEF JobOK, Touched
      <4>2. CASE Part[s] \in DOMAIN head.packets[p]
        <5>1. /\ s \in DOMAIN master.packets[p] /\ Part[s] \in DOMAIN master.packets[p]
              /\ head.packets[p][Part[s]] = master.packets[p][Part[s]]
          BY <4>1, <4>2, NoNewFile
        <5> QED  BY <1>a, <3>1, <4>2, <5>1 DEF MasterClaimsHold
      <4>3. CASE Part[s] \notin DOMAIN head.packets[p]
        <5>1. ShaManifest(head.packets[p])
          BY <1>b, <2>1, <2>2 DEF ReceiptsOK, Verify
        <5> QED  BY <4>3, <5>1 DEF ShaManifest, ListRight, Lists
      <4> QED  BY <4>2, <4>3
    <3> QED  BY <3>2, <3>3
  <2>5. MasterClaimsHold'
    BY <2>1, <2>2, <2>4 DEF MasterClaimsHold
  <2> QED  BY <1>a, <2>3, <2>5 DEF ClaimsInv
<1> QED  BY <1>1, <1>3, <1>4, <1>5, <1>6, <1>7, <1>8 DEF Next, Edit

\* Each of the 42 replay scripts that a packet on master still has is one whose
\* claim the packet's evidence bears out, or that evidence is gone and the list of
\* checksums knows it: as long as git listed the changes of the merged branches,
\* nothing else reaches master, whatever the lists of checksums leave out and
\* whatever was moved (the packets' scripts, replay_changed_packets.sh,
\* verify_public_receipts.py).
THEOREM ClaimsHoldOnMaster == Spec => []MasterClaimsHold
<1>1. ClaimsInv => MasterClaimsHold
  BY DEF ClaimsInv
<1> QED  BY <1>1, InitClaims, NextClaims, PTL DEF Spec
=============================================================================
