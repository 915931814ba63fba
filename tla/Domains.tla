------------------------------ MODULE Domains ------------------------------
(***************************************************************************)
(* When two DNS providers could write each other's names: Cirrus's rule    *)
(* (operators/cirrus/src/dns/conflicts.rs).  Domains are members of a set, *)
(* of which some are inside others.                                        *)
(***************************************************************************)
CONSTANTS
    Domain,
    Inside    \* the pairs of domains of which the first is inside the second

ASSUME InsideAssumption == Inside \subseteq Domain \X Domain

IsWithin(d, e) == d = e \/ <<d, e>> \in Inside

\* A domain that both hold, or one inside the other's and not excluded there.
Overlaps(broad, narrow) ==
    \E inner \in narrow.domains, outer \in broad.domains :
        /\ IsWithin(inner, outer)
        /\ inner # outer => ~ \E e \in broad.exclude : IsWithin(inner, e)

Conflict(s, t) ==
    /\ s.namespaces # t.namespaces
    /\ Overlaps(s, t) \/ Overlaps(t, s)

=============================================================================
