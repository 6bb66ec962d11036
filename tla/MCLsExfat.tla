----------------------------- MODULE MCLsExfat -----------------------------
(***************************************************************************)
(* LsExfat on a volume of a few clusters with every possible FAT.          *)
(***************************************************************************)
EXTENDS LsExfat

\* With 4 KiB and 1 KiB clusters.
SizesWide  == {0, 8, 14, 16, 20, 24}
SizesSmall == {0, 2, 5, 6, 8}
=============================================================================
