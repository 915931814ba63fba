----------------------------- MODULE MCRelease -----------------------------
(***************************************************************************)
(* Two people release Cirrus and the installer that carries its manifest.  *)
(***************************************************************************)
EXTENDS Release, TLC

CONSTANTS ann, bob

MCPerson == {ann, bob}
MCComponent == {"cirrus", "installer"}
MCVersion == {<<0, 1, 0, 0>>, <<0, 1, 1, 0>>, <<0, 2, 0, 1>>}
MCFirst == <<0, 1, 0, 0>>

People == Permutations(MCPerson)
=============================================================================
