---------------------------- MODULE MCExfatDir ----------------------------
(***************************************************************************)
(* ExfatDir on a volume of a few clusters of four entries, with a name of  *)
(* one entry and one of two, so that the entries of a file often cross     *)
(* from one cluster into the next.                                         *)
(***************************************************************************)
EXTENDS ExfatDir, TLC

CONSTANTS short, long, d1, f1

Lengths == short :> 1 @@ long :> 2

PathsFlat == {<<>>, <<Dot>>, <<short>>, <<long>>}
PathsDeep == {<<Dot, short>>, <<long>>, <<short, short>>, <<long, Dot>>}
=============================================================================
