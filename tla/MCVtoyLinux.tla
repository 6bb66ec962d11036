---------------------------- MODULE MCVtoyLinux ----------------------------
(***************************************************************************)
(* VtoyLinux with three block devices, one of them filtered out by name.   *)
(***************************************************************************)
EXTENDS VtoyLinux, TLC

CONSTANTS sda, nvme0n1, sr0

\* The partitions of sda are sda1, ..., those of nvme0n1 are nvme0n1p1, ...
Names == sda :> <<>> @@ nvme0n1 :> <<"p">> @@ sr0 :> <<>>

\* An image in two fragments.
TwoRegions == << [image |-> 0, count |-> 2, disk |-> 4352],
                 [image |-> 2, count |-> 1, disk |-> 4256] >>
=============================================================================
