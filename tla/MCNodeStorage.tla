---------------------------- MODULE MCNodeStorage ----------------------------
(***************************************************************************)
(* Two nodes with two places for a disk each: one node has hardware of     *)
(* each class and a disk of somebody's, the other one blank disk and a     *)
(* place for another.                                                      *)
(***************************************************************************)
EXTENDS NodeStorage, TLC

CONSTANTS n1, n2, d1, d2

MCClasses == {"ssd", "hdd"}

MCFitted == n1 :> (d1 :> "blank" @@ d2 :> "files") @@ n2 :> (d1 :> "blank" @@ d2 :> "absent")

MCHardware == n1 :> (d1 :> "ssd" @@ d2 :> "hdd") @@ n2 :> (d1 :> "ssd" @@ d2 :> "ssd")
=============================================================================
