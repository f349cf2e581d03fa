----------------------------- MODULE MCConsole -----------------------------
(***************************************************************************)
(* Instances of Console: two runs of the export, one simulation, one file.  *)
(***************************************************************************)
EXTENDS Console, TLC

ShippedRuns == ("east" :> "suite") @@ ("west" :> "gallery")
=============================================================================
