------------------------------- MODULE MCFat -------------------------------
(***************************************************************************)
(* A table of two sectors, with one buffer, and a volume of six clusters   *)
(* (FAT32), or of five, which leave an entry of the table over (FAT16).    *)
(* Names fileA and fileB have one short name, and a directory has room for *)
(* fewer entries than its files need.                                      *)
(***************************************************************************)
EXTENDS Fat

CONSTANTS fileA, fileB, folder, nobody

MCNames == {fileA, fileB, folder}
MCNameEntries == [n \in MCNames |-> IF n = fileA THEN 2 ELSE 1]
MCBase == [n \in MCNames |-> IF n = folder THEN folder ELSE fileA]
MCFilePaths == {<<folder, fileA>>, <<folder, fileB>>}
MCDirPaths == {<<folder>>}
MCModes == {"a+", "r+"}
MCErasing == {"w", "w+"}
MCClusters == [type \in {16, 32} |-> IF type = 16 THEN 7 ELSE 8]
MCTypes == {16, 32}
MCHandles == 1 .. 2
MCReadLengths == {5}
MCWriteLengths == {2, 5}
MCSeeks == {<<"cur", -2>>}
=============================================================================
