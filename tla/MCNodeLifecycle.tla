--------------------------- MODULE MCNodeLifecycle ---------------------------
(***************************************************************************)
(* A node added, uninstalled and cleaned over and over.                    *)
(***************************************************************************)
EXTENDS NodeLifecycle
=============================================================================
