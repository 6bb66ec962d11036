---------------------------- MODULE MCVtoyWindows ----------------------------
(***************************************************************************)
(* Three disks, of which boot is the one that Ventoy started from: its     *)
(* volumes are image, with the file, and data; spare has a file of the     *)
(* same path; clone, which is not there at first, the identifier of boot.  *)
(* Letters A to D, of which imdisk takes C and D by itself.                *)
(***************************************************************************)
EXTENDS VtoyWindows, TLC

MCLetters == 1 .. 4
MCVolumes == {"image", "data", "copy"}
MCDisks == {"boot", "spare", "clone"}
MCDiskOf == "image" :> "boot" @@ "data" :> "boot" @@ "copy" :> "spare"
MCGuidOf == "boot" :> "ours" @@ "spare" :> "other" @@ "clone" :> "ours"
MCNumbered == "boot" :> 0 @@ "spare" :> 1 @@ "clone" :> -1
MCPresent == 1 :> "data" @@ 2 :> "copy" @@ 3 :> "image" @@ 4 :> "none"

Right == [valid |-> TRUE, guid |-> "ours"]
Wrong == [valid |-> FALSE, guid |-> "other"]
Nowhere == [efi |-> FALSE, file |-> <<>>, var |-> <<>>, ibft |-> <<>>, acpi |-> <<>>]

\* Parameters in a file, in a variable, in either table, behind what only looks like them.
MCMachines ==
    {[Nowhere EXCEPT !.file = <<Wrong, Right>>],
     [Nowhere EXCEPT !.efi = TRUE, !.var = <<Right>>],
     [Nowhere EXCEPT !.efi = TRUE, !.acpi = <<Wrong, Right>>],
     [Nowhere EXCEPT !.ibft = <<Wrong, Right>>]}

Ask(do, file, drive_, bits) == [do |-> do, file |-> file, drive |-> drive_, bits |-> bits]
MCCommands == {Ask("print", FALSE, 0, {}), Ask("print", TRUE, 0, {}), Ask("mount", FALSE, 0, {}),
               Ask("mount", FALSE, 2, {}), Ask("mount", FALSE, 0, {3, 4}),
               Ask("driver", FALSE, 0, {}), Ask("usage", FALSE, 0, {})}
=============================================================================
