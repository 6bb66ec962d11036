-------------------------- MODULE MCExfatCluster --------------------------
(***************************************************************************)
(* Instances of ExfatCluster: volumes of a few clusters, the first of them *)
(* the system's, with one or two files.                                    *)
(***************************************************************************)
EXTENDS ExfatCluster, TLC

CONSTANTS f1, f2

File(chain, row) == [chain |-> chain, contiguous |-> row]

\* Two files: a row and an empty file; a chain through the table and a row
\* that shuts it in.
TwoFiles == {
    f1 :> File(<<3, 4>>, TRUE) @@ f2 :> File(<<>>, FALSE),
    f1 :> File(<<5, 3>>, FALSE) @@ f2 :> File(<<4>>, TRUE)}

\* One file: empty, a row in the middle, a row at the end, a chain.
OneFile == {
    f1 :> File(<<>>, FALSE),
    f1 :> File(<<4>>, TRUE),
    f1 :> File(<<4, 5>>, TRUE),
    f1 :> File(<<5, 3>>, FALSE)}
=============================================================================
