----------------------------- MODULE MCPackages -----------------------------
(***************************************************************************)
(* Every package of the catalogue and every two of them are installed and  *)
(* checked on a cluster that has nothing.  Two configurations, with a      *)
(* connection string, an application that signs in and mail in them, are   *)
(* the ones under which people change things and connections are lost.     *)
(***************************************************************************)
EXTENDS Packages

Only(names) == [enabled |-> names, requires |-> <<>>]

Pairs == {<<p, q>> : p, q \in Names}

Chat == Only(<<"mattermost">>)
Signed == Only(<<"documenso", "authentik">>)

\* A chart of the configuration's own, and two that require each other.
Own == [enabled |-> <<"chart", "twenty">>, requires |-> "chart" :> <<"lago", "other">>]
Looped == [enabled |-> <<"chart">>, requires |-> "chart" :> <<"other">> @@ "other" :> <<"chart">>]

MCDescribed == {"chart", "other"}

MCTroubled == {Chat, Signed, Looped}

MCConfigs ==
    {Only(<<p>>) : p \in Names} \cup {Only(pair) : pair \in {q \in Pairs : q[1] # q[2]}}
        \cup {Own} \cup MCTroubled

MCBundles == {<<"documenso">>, <<"mattermost">>, <<"mariadb-operator-crds", "mariadb-operator">>}

MCRemovable == {"topolvm", "authentik", "documenso"}

MCLost == {<<Office, "documenso-oidc">>, <<Office, "mattermost">>}

MCRoles == {<<Office, "mattermost">>}
=============================================================================
