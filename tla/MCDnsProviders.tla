--------------------------- MODULE MCDnsProviders ---------------------------
(***************************************************************************)
(* The office's provider and a team's, and a zone with a part of it given  *)
(* away.                                                                   *)
(***************************************************************************)
EXTENDS DnsProviders

CONSTANTS office, team, ccOffice, ccTeam, zone, part

MCInside == {<<part, zone>>}

MCInstanceName == [p \in Provider |-> [ns \in Namespace |-> <<p, ns>>]]

Says(domains, exclude, namespaces) ==
    [valid |-> domains # {}, domains |-> domains, exclude |-> exclude,
     namespaces |-> namespaces]

MCContents ==
    {Says({zone}, {}, {ccOffice}), Says({zone}, {part}, {ccOffice}),
     Says({part}, {}, {ccTeam})}
=============================================================================
