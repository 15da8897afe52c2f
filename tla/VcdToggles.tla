----------------------------- MODULE VcdToggles -----------------------------
(***************************************************************************)
(* How the activity replays of the packets count toggles.  A simulator     *)
(* writes a value change dump: a header that opens and closes scopes and   *)
(* declares the names of each net, several for a net that ports connect,   *)
(* and then a line for each change, with the leading digits it may leave   *)
(* out left out.  A replay reads it line by line, in one of three ways:    *)
(*  - the ALU packets read gold and gate from one dump and count the paths *)
(*    both have, by owner;                                                 *)
(*  - the register-file packets count every path of each owner;            *)
(*  - the decoder and prefetch packets read a dump of one side and count   *)
(*    each net under one of its paths.                                     *)
(* The simulator is external.  The module also keeps what each net really  *)
(* did, which no reader sees.                                              *)
(***************************************************************************)
EXTENDS Integers, Sequences, FiniteSets, SequencesExt, FiniteSetsExt

CONSTANTS
    Idents,      \* identifier codes of the dump, one for each net
    Width,       \* the width of each net
    Names,       \* names a scope may declare
    None,        \* no value
    MaxScopes,   \* bound on the scopes opened
    MaxVars,     \* bound on the names declared
    MaxChanges   \* bound on the changes dumped

ASSUME DumpAssumption ==
    /\ Width \in [Idents -> Nat \ {0}]
    /\ \A i \in Idents : None \notin [1..Width[i] -> {"0", "1", "x"}]
    /\ {MaxScopes, MaxVars, MaxChanges} \subseteq Nat

VARIABLES
    packet,   \* whose replay reads the dump
    reader,   \* its local variables
    stack,    \* the scopes open in the dump
    decls,    \* the names declared so far, as [path, ident]
    nets,     \* what each net did: its bits, known flips, and unknown changes
    opened, changes

vars == <<packet, reader, stack, decls, nets, opened, changes>>
dump == <<stack, decls, nets, opened, changes>>

Owners == {"gold", "gate"}
AluPackets == {"divrem", "addsub", "shift_left", "shift_divvalid"}
RfPackets == {"mux_zero", "high_bank"}
ParsePackets == {"l71", "l244", "demorgan", "plus_next"}

-----------------------------------------------------------------------------
(* Values: sequences of "0", "1" and "x", most significant first             *)

Values(w) == [1..w -> {"0", "1", "x"}]
Known(v) == \A i \in DOMAIN v : v[i] # "x"

\* The dump leaves out leading digits that the reader's extension restores: zeros
\* before a known digit, copies of a leading x.
Shortened(v) ==
    LET cut == {k \in 1..Len(v) : \A i \in 1..(k - 1) :
                   \/ v[i] = "0" /\ v[i + 1] # "x"
                   \/ v[i] = "x" /\ v[i + 1] = "x"}
    IN  SubSeq(v, Max(cut), Len(v))

zfill(v, w) == [i \in 1..(IF w > Len(v) THEN w - Len(v) ELSE 0) |-> "0"] \o v

\* sum(a != b for a, b in zip(old, value)): zip ends with the shorter of the two.
Flips(old, value) ==
    Cardinality({i \in DOMAIN old \cap DOMAIN value : old[i] # value[i]})

\* The value is taken as the dump wrote it.
MutNoFill(value, width) == IF Known(value) THEN value ELSE None

normalize(value, width) ==
    IF ~Known(value) THEN None
    ELSE LET full == zfill(value, width)
         IN  SubSeq(full, Len(full) - width + 1, Len(full))

-----------------------------------------------------------------------------
(* count_vcd: the ALU and register-file packets                              *)

CountStart ==
    [scopes |-> <<>>, in_defs |-> TRUE, id_maps |-> <<>>, prev |-> <<>>,
     counts |-> [o \in Owners |-> 0]]

\* The header is the same for both: only names below tb.gold and tb.gate are kept.
CountHeader(r, line) ==
    CASE line.kind = "scope" -> [r EXCEPT !.scopes = Append(@, line.name)]
      [] line.kind = "upscope" -> [r EXCEPT !.scopes = IF @ = <<>> THEN @ ELSE Front(@)]
      [] line.kind = "var" ->
            IF Len(r.scopes) >= 2 /\ r.scopes[1] = "tb" /\ r.scopes[2] \in Owners
            THEN [r EXCEPT !.id_maps = Append(@,
                    [ident |-> line.ident, owner |-> r.scopes[2], width |-> line.width,
                     canon |-> SubSeq(r.scopes, 3, Len(r.scopes)) \o <<line.name>>])]
            ELSE r
      [] line.kind = "enddefinitions" -> [r EXCEPT !.in_defs = FALSE]

\* The names declared for a path, and where those of an identifier are.
PathMaps(r, canon) == {m \in ToSet(r.id_maps) : m.canon = canon}
IdentMaps(r, ident) == {k \in DOMAIN r.id_maps : r.id_maps[k].ident = ident}

\* Both sides have the path, in one width.
CommonPath(r, canon) ==
    /\ {m.owner : m \in PathMaps(r, canon)} = Owners
    /\ Cardinality({m.width : m \in PathMaps(r, canon)}) = 1

\* prev updated with new values; a value that is unknown is forgotten.
Remember(prev, new) ==
    [k \in {k \in DOMAIN prev \cup DOMAIN new : k \in DOMAIN new => new[k] # None} |->
        IF k \in DOMAIN new THEN new[k] ELSE prev[k]]

\* What a value adds to the count at a key of prev.
Added(prev, k, value) ==
    IF value # None /\ k \in DOMAIN prev THEN Flips(prev[k], value) ELSE 0

\* A common path is remembered for each owner by itself: every alias of a net
\* counts.
AluChange(r, line) ==
    LET maps == {m \in {r.id_maps[k] : k \in IdentMaps(r, line.ident)} :
                    CommonPath(r, m.canon)}
        key(m) == <<m.owner, m.canon>>
        new == [k \in {key(m) : m \in maps} |->
                   normalize(line.value, (CHOOSE m \in maps : key(m) = k).width)]
        flips == [m \in maps |-> Added(r.prev, key(m), new[key(m)])]
    IN  [r EXCEPT
            !.prev = Remember(@, new),
            !.counts = [o \in Owners |->
                @[o] + SumFunctionOnSet(flips, {m \in maps : m.owner = o})]]

\* An unknown value leaves the last known one in place.
MutKeepsKnown(r, line) ==
    LET maps == IdentMaps(r, line.ident)
        value == normalize(line.value, r.id_maps[Min(maps)].width)
        flips == Added(r.prev, line.ident, value)
    IN  IF maps = {} \/ value = None THEN r
        ELSE [r EXCEPT
                !.prev = Remember(@, [i \in {line.ident} |-> value]),
                !.counts = [o \in Owners |->
                    @[o] + flips * Cardinality({k \in maps : r.id_maps[k].owner = o})]]

\* A net is remembered once, and its flips count for every path it has.
RfChange(r, line) ==
    LET maps == IdentMaps(r, line.ident)
        value == normalize(line.value, r.id_maps[Min(maps)].width)
        flips == Added(r.prev, line.ident, value)
    IN  IF maps = {} THEN r
        ELSE [r EXCEPT
                !.prev = Remember(@, [i \in {line.ident} |-> value]),
                !.counts = [o \in Owners |->
                    @[o] + flips * Cardinality({k \in maps : r.id_maps[k].owner = o})]]

AluCount(r, line) == IF r.in_defs THEN CountHeader(r, line) ELSE AluChange(r, line)
RfCount(r, line) == IF r.in_defs THEN CountHeader(r, line) ELSE RfChange(r, line)

divrem_count_vcd(r, line) == AluCount(r, line)
addsub_count_vcd(r, line) == AluCount(r, line)
shift_left_count_vcd(r, line) == AluCount(r, line)
shift_divvalid_count_vcd(r, line) == AluCount(r, line)
mux_zero_count_vcd(r, line) == RfCount(r, line)
high_bank_count_vcd(r, line) == RfCount(r, line)

-----------------------------------------------------------------------------
(* parse_vcd: the decoder and prefetch packets                               *)

ParseStart ==
    [scopes |-> <<>>, in_defs |-> TRUE, id_to_scope |-> <<>>, values |-> <<>>,
     toggles |-> <<>>]

With(f, k, v) == [x \in DOMAIN f \cup {k} |-> IF x = k THEN v ELSE f[x]]

\* The last name declared for an identifier is the one its toggles go to.
ParseHeader(r, line) ==
    CASE line.kind = "scope" -> [r EXCEPT !.scopes = Append(@, line.name)]
      [] line.kind = "upscope" -> [r EXCEPT !.scopes = IF @ = <<>> THEN @ ELSE Front(@)]
      [] line.kind = "var" ->
            [r EXCEPT !.id_to_scope = With(@, line.ident, Append(r.scopes, line.name))]
      [] line.kind = "enddefinitions" ->
            [r EXCEPT !.in_defs = FALSE,
                      !.toggles = [p \in {r.id_to_scope[i] : i \in DOMAIN r.id_to_scope} |-> 0]]

\* Only digits that differ count.
MutNoLeast(old, value) == Flips(zfill(old, Len(value)), zfill(value, Len(old)))

\* A change to or from an unknown value counts digit by digit like any other, and
\* a change that the filling with zeros hides counts once.
Toggled(old, value) ==
    LET flips == Flips(zfill(old, Len(value)), zfill(value, Len(old)))
    IN  IF old = value THEN 0 ELSE IF flips = 0 THEN 1 ELSE flips

ParseChange(r, line) ==
    LET i == line.ident
    IN  IF i \notin DOMAIN r.id_to_scope THEN r
        ELSE [r EXCEPT
                !.values = With(@, i, line.value),
                !.toggles[r.id_to_scope[i]] =
                    @ + (IF i \in DOMAIN r.values THEN Toggled(r.values[i], line.value) ELSE 0)]

ParseVcd(r, line) == IF r.in_defs THEN ParseHeader(r, line) ELSE ParseChange(r, line)

l71_parse_vcd(r, line) == ParseVcd(r, line)
l244_parse_vcd(r, line) == ParseVcd(r, line)
demorgan_parse_vcd(r, line) == ParseVcd(r, line)
plus_next_parse_vcd(r, line) == ParseVcd(r, line)

-----------------------------------------------------------------------------
Init ==
    /\ packet \in AluPackets \cup RfPackets \cup ParsePackets
    /\ reader = IF packet \in ParsePackets THEN ParseStart ELSE CountStart
    /\ stack = <<>> /\ decls = {}
    /\ nets = [i \in Idents |-> [bits |-> None, flips |-> 0, blurs |-> 0]]
    /\ opened = 0 /\ changes = 0

\* The replay of the packet takes the next line.
Read(line) ==
    /\ UNCHANGED packet
    /\ reader' = CASE packet = "divrem" -> divrem_count_vcd(reader, line)
                   [] packet = "addsub" -> addsub_count_vcd(reader, line)
                   [] packet = "shift_left" -> shift_left_count_vcd(reader, line)
                   [] packet = "shift_divvalid" -> shift_divvalid_count_vcd(reader, line)
                   [] packet = "mux_zero" -> mux_zero_count_vcd(reader, line)
                   [] packet = "high_bank" -> high_bank_count_vcd(reader, line)
                   [] packet = "l71" -> l71_parse_vcd(reader, line)
                   [] packet = "l244" -> l244_parse_vcd(reader, line)
                   [] packet = "demorgan" -> demorgan_parse_vcd(reader, line)
                   [] packet = "plus_next" -> plus_next_parse_vcd(reader, line)

Header == reader.in_defs

\* The test bench, in it the designs or signals of its own, and one scope more.
OpenScope ==
    /\ Header /\ opened < MaxScopes
    /\ \E s \in CASE Len(stack) = 0 -> {"tb"}
                  [] Len(stack) = 1 -> Owners
                  [] Len(stack) = 2 -> {"sub"}
                  [] OTHER -> {} :
          /\ stack' = Append(stack, s)
          /\ Read([kind |-> "scope", name |-> s])
    /\ opened' = opened + 1
    /\ UNCHANGED <<decls, nets, changes>>

CloseScope ==
    /\ Header /\ stack # <<>>
    /\ stack' = Front(stack)
    /\ Read([kind |-> "upscope"])
    /\ UNCHANGED <<decls, nets, opened, changes>>

\* A name is declared once in a scope, in the width of its net.
DeclareVar ==
    /\ Header /\ stack # <<>> /\ Cardinality(decls) < MaxVars
    /\ \E i \in Idents, n \in Names :
          LET path == Append(stack, n)
          IN  /\ \A d \in decls : d.path # path
              /\ decls' = decls \cup {[path |-> path, ident |-> i]}
              /\ Read([kind |-> "var", ident |-> i, width |-> Width[i], name |-> n])
    /\ UNCHANGED <<stack, nets, opened, changes>>

EndDefinitions ==
    /\ Header /\ stack = <<>> /\ decls # {}
    /\ Read([kind |-> "enddefinitions"])
    /\ UNCHANGED dump

\* A declared net is dumped, at first and whenever something drove it; the digit
\* form of a net of one bit and the vector form read alike.
DumpChange ==
    /\ ~Header /\ changes < MaxChanges
    /\ \E i \in {d.ident : d \in decls} : \E v \in Values(Width[i]) :
          LET old == nets[i].bits
              known == old # None /\ Known(old) /\ Known(v)
              blur == old # None /\ old # v /\ ~known
          IN  /\ nets' = [nets EXCEPT ![i] =
                     [bits |-> v,
                      flips |-> @.flips + (IF known THEN Flips(old, v) ELSE 0),
                      blurs |-> @.blurs + (IF blur THEN 1 ELSE 0)]]
              /\ Read([kind |-> "change", ident |-> i, value |-> Shortened(v)])
    /\ changes' = changes + 1
    /\ UNCHANGED <<stack, decls, opened>>

Next == OpenScope \/ CloseScope \/ DeclareVar \/ EndDefinitions \/ DumpChange

Spec == Init /\ [][Next]_vars

-----------------------------------------------------------------------------
(* What the counts say of the nets                                           *)

\* The declarations below an owner, and their paths without tb and the owner.
Of(owner) == {d \in decls : Len(d.path) > 2 /\ d.path[2] = owner}
Tail2(d) == SubSeq(d.path, 3, Len(d.path))
PathFlips == [d \in decls |-> nets[d.ident].flips]

\* An ALU replay's count of a side is the flips between known values, bit by bit,
\* of the nets behind exactly those paths the other side also has in the same
\* width: no path is lost or counted for the wrong side, whatever the order of
\* the header, the aliases, the digits left out and the unknown values between.
AluCountsExact ==
    packet \in AluPackets =>
        \A o \in Owners :
            reader.counts[o] = SumFunctionOnSet(PathFlips,
                {d \in Of(o) : \E e \in Of(CHOOSE p \in Owners : p # o) :
                    Tail2(e) = Tail2(d) /\ Width[e.ident] = Width[d.ident]})

\* A register-file replay's count of a side is that of all the side's paths, each
\* alias of a net counted: what its receipts call alias-safe.
RfCountsExact ==
    packet \in RfPackets =>
        \A o \in Owners : reader.counts[o] = SumFunctionOnSet(PathFlips, Of(o))

\* A decoder or prefetch replay counts every net of its dump once, under one of
\* its paths: known flips bit by bit, and between one and its width for each
\* change to or from an unknown value.
NetsCountedOnce ==
    packet \in ParsePackets /\ ~Header =>
        /\ Cardinality(DOMAIN reader.toggles) = Cardinality({d.ident : d \in decls})
        /\ \A i \in {d.ident : d \in decls} :
              \E d \in decls :
                  /\ d.ident = i /\ d.path \in DOMAIN reader.toggles
                  /\ reader.toggles[d.path] >= nets[i].flips + nets[i].blurs
                  /\ reader.toggles[d.path] <= nets[i].flips + Width[i] * nets[i].blurs
=============================================================================
