--------------------------- MODULE MCDependencies ---------------------------
(***************************************************************************)
(* One application, which asks for everything there is to depend on.       *)
(***************************************************************************)
EXTENDS Dependencies

CONSTANTS gitlab

shop == [namespace |-> <<"team">>, name |-> <<"shop">>]

One == {shop}
OneAsks == [a \in One |-> [asks |-> Service, project |-> gitlab]]
=============================================================================
