-------------------------- MODULE MCWebApplication --------------------------
(***************************************************************************)
(* An application whose image moves from the port 80 to 90 and on.         *)
(***************************************************************************)
EXTENDS WebApplication

CONSTANTS gitlab, ghcr

\* Images listen on ports of their own; that of the first pipeline doesn't say
\* on which.
MCPort == [n \in 0..MaxPipelines |-> CASE n = 1 -> 0 [] n = 2 -> 90 [] OTHER -> 80]
=============================================================================
