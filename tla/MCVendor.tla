------------------------------ MODULE MCVendor ------------------------------
(* Descriptions and command lines for model checking Vendor. *)
EXTENDS Vendor, TLC

CONSTANTS a, b

Item(n, file, dir, escapes) ==
    [name |-> n, file |-> file, dir |-> dir, escapes |-> escapes]

DescOf(items, patchDir, patchRepo) ==
    [mapped |-> items # <<>>, items |-> items,
     patchDir |-> patchDir, patchRepo |-> patchRepo]

\* Two mapped items, one patched and one a single file; a default mapping with
\* a patch repository; a mapping without items; and one description for each
\* check of the constructor.
MCDescs == {
    DescOf(<<Item(a, FALSE, TRUE, FALSE), Item(b, TRUE, FALSE, FALSE)>>, TRUE, FALSE),
    DescOf(<<>>, TRUE, TRUE),
    [DescOf(<<>>, FALSE, FALSE) EXCEPT !.mapped = TRUE],
    DescOf(<<>>, FALSE, TRUE),
    DescOf(<<Item(a, FALSE, TRUE, FALSE)>>, TRUE, TRUE),
    DescOf(<<Item(a, FALSE, TRUE, FALSE)>>, FALSE, FALSE),
    DescOf(<<Item(a, FALSE, FALSE, FALSE)>>, TRUE, FALSE),
    DescOf(<<Item(a, FALSE, TRUE, TRUE)>>, TRUE, FALSE)}

PlainDescs == {DescOf(<<>>, FALSE, FALSE)}

\* Every combination of the switches ...
MCArgSets == [update : BOOLEAN, refresh : BOOLEAN, commit : BOOLEAN, override : {None}]

\* ... and runs that override the upstream revision.
OverrideArgs == [update : BOOLEAN, refresh : {FALSE}, commit : {FALSE},
                 override : Revs \cup {None}]

\* Revisions are told apart by nothing but their names.
RevSymmetry == Permutations(Revs)
=============================================================================
