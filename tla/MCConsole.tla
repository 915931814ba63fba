------------------------------ MODULE MCConsole ------------------------------
(* Two people, one GitLab connection, two registries, two DNS providers, and *)
(* a domain inside another.                                                  *)
EXTENDS Console, TLC

MCInside == {<<"team.org", "org">>}
Either == Permutations(Person)

MCPages == {"application", "namespace", "dns"}

Wish(move, region, quota, limits, registries) ==
    [move |-> move, region |-> region, quota |-> quota, limits |-> limits,
     registries |-> registries]

\* A region and a quota; another quota, new registries; anywhere and only storage.
MCWishes ==
    {Wish(TRUE, "east", {"cpu"}, {"cpu"}, {"harbor"}),
     Wish(FALSE, None, {"cpu", "memory"}, {"cpu", "memory"}, {"harbor", "quay"}),
     Wish(TRUE, None, {"storage"}, {}, {})}

\* None yet; one placed by an old selector; one with a quota and a selector of
\* its own.
MCSettled ==
    {NoNamespace,
     [NoNamespace EXCEPT !.there = TRUE, !.legacy = "west", !.limits = {"cpu"}],
     [NoNamespace EXCEPT !.there = TRUE, !.legacy = ByHand, !.quota = {"cpu"},
                         !.limits = {"cpu", "memory"}, !.defaults = {"quay"}, !.secrets = {"quay"}]}

Zone(domains, exclude) == [domains |-> domains, exclude |-> exclude]

MCZones == {Zone({"org"}, {}), Zone({"org"}, {"team.org"}), Zone({"team.org"}, {})}

MCPublished ==
    {[a \in Account |-> None],
     [a \in Account |-> FromDnsForm(IF a = "office" THEN Zone({"org"}, {"team.org"})
                                    ELSE Zone({"team.org"}, {}),
                                    IF a = "office" THEN "n1" ELSE "n2")],
     [a \in Account |-> IF a = "office" THEN FromDnsForm(Zone({"org"}, {}), "n1") ELSE None]}

=============================================================================
