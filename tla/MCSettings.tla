------------------------------ MODULE MCSettings ------------------------------
(***************************************************************************)
(* A configuration and three of the things it says, explored side by side: *)
(* how it is asked for, the plugins it enables, where it places namespaces *)
(* and the DNS providers it names.  A behaviour is of one of them, the     *)
(* others staying as they began.                                           *)
(***************************************************************************)
EXTENDS Configure, Plugins, Placement, DnsBundle, TLC

\* A plugin of a package named after itself and a bundle, and one of a bundle.
\* Their later versions have a bundle twice or take a name that is shipped, or
\* aren't sound.
MCDeclares ==
    [p \in {"wiki", "k3s"} |->
       [v \in {1, 2, 3} |->
          [sound |-> v # 3,
           adds  |-> CASE p = "wiki" -> <<<<"package", "wiki">>, <<"bundle", "import">>>>
                                          \o (IF v = 2 THEN <<<<"bundle", "import">>>> ELSE <<>>)
                       [] p = "k3s"  -> <<<<"bundle", IF v = 2 THEN "k3s" ELSE "more">>>>]]]

MCShipped == <<<<"bundle", <<"k3s">>>>, <<"package", <<"mail">>>>>>
MCListed  == <<"wiki", "k3s">>

-----------------------------------------------------------------------------
Base ==
    [EmptyDraft EXCEPT
        !.cluster = [main |-> "a.org", hosts |-> [s \in Service |-> "a.org"]],
        !.nodes = <<[NewNode EXCEPT !.name = "one", !.type = "Server"]>>,
        !.k3s = "pasted"]

\* As people write them: with what configure never asks about, in older shapes,
\* and with servers of every kind.
MCHandWritten ==
    {[Base EXCEPT
        !.nodes = <<[NewNode EXCEPT !.name = "one", !.type = "Server", !.roles = {"gateway"},
                                    !.gateway = TRUE, !.region = "east", !.zone = "attic",
                                    !.labels = "map", !.fixed = TRUE]>>,
        !.network.addresses = TRUE, !.network.qdisc = "cake", !.network.congestion = "cubic",
        !.storage = [databaseGb |-> 50, objectStorageGb |-> 0],
        !.registries["dotted"] = [user |-> "ann", secret |-> "old", more |-> TRUE],
        !.registries["plain"] = [user |-> "ann", secret |-> "old", more |-> TRUE],
        !.packages.chosen = [p \in Package |-> CASE p = "authentik" -> "disabled"
                                                 [] p = "seaweedfs" -> "false"
                                                 [] p = "projectsend" -> "enabled"
                                                 [] OTHER -> "enabled"],
        !.mail = [shape |-> "namespaces", defaults |-> [host |-> "h1", security |-> "tls", port |-> 0],
                  spaces |-> [n \in Namespace |->
                     IF n = "office" THEN [given |-> TRUE, server |-> NoServer, user |-> "ann", password |-> "old"]
                     ELSE NoMail]]],
     [Base EXCEPT
        !.nodes = <<[NewNode EXCEPT !.name = "one", !.type = "Server", !.roles = {}, !.labels = "list"],
                    [NewNode EXCEPT !.name = "two", !.gateway = TRUE]>>,
        !.network.addresses = TRUE,
        !.storage = [databaseGb |-> -1, objectStorageGb |-> 30],
        !.packages.chosen = [p \in Package |-> IF p = "note" THEN "text" ELSE "true"],
        !.packages.store = "s3",
        !.mail.shape = "cluster"],
     [Base EXCEPT
        !.network.mesh = "mesh", !.network.apiKey = TRUE,
        !.mail = [shape |-> "namespaces", defaults |-> [host |-> "h1", security |-> "starttls", port |-> 587],
                  spaces |-> [n \in Namespace |->
                     [given |-> TRUE,
                      server |-> IF n = "office" THEN [host |-> "h2", security |-> "tls", port |-> 0]
                                 ELSE NoServer,
                      user |-> "ann", password |-> "old"]]]]}

MCMailServer ==
    {[host |-> "h1", security |-> "starttls", port |-> 587],
     [host |-> "h1", security |-> "starttls", port |-> 465],
     [host |-> "h2", security |-> "none", port |-> 25]}

-----------------------------------------------------------------------------
MCSiteOf   == [n \in {"a1", "a2", "b1"} |-> IF n = "b1" THEN "b" ELSE "a"]
MCOwnTerms == {{}, {{"a1"}, {"a2", "b1"}}}

EitherRealm == Permutations(Realm)

-----------------------------------------------------------------------------
\* A provider of a domain and one of a part of it; alone, in both orders, and as
\* they may not be.
Outer ==
    [name |-> <<"cf">>, domains |-> {"org"}, exclude |-> {}, namespaces |-> {<<"web">>},
     credentials |-> TRUE, target |-> "none"]

Inner ==
    [name |-> <<"aws">>, domains |-> {"a.org"}, exclude |-> {},
     namespaces |-> {<<"shop">>, <<"x", "web">>}, credentials |-> FALSE, target |-> "host"]

Outers == {[Outer EXCEPT !.exclude = e] : e \in {{}, {"a.org"}}}

MCProviders ==
    {<<>>, <<Inner>>, <<[Inner EXCEPT !.domains = {"org"}]>>, <<[Outer EXCEPT !.domains = {}], Inner>>,
     <<[Outer EXCEPT !.name = <<"aws", "x">>, !.exclude = {"a.org"}], Inner>>}
    \union {<<p>> : p \in Outers} \union {<<p, Inner>> : p \in Outers} \union {<<Inner, p>> : p \in Outers}

MCDnsConfigs == {[providers |-> ps, target |-> t] : ps \in MCProviders, t \in {"none", "router"}}
MCBeneath    == {<<"a.org", "org">>}

-----------------------------------------------------------------------------
VARIABLE part

settingsVars == <<part, configureVars, pluginVars, placementVars, dnsVars>>

Rests(of) ==
    CASE of = "configure" -> file = NoFile /\ subject = "mail"
      [] of = "plugins"   -> shelf["a"] = NotThere
      [] of = "placement" -> \A r \in Realm : annotated[r] = "nowhere"
      [] of = "dns"       -> dns = [providers |-> <<>>, target |-> "none"] /\ mode = "floating"

Parts == {"configure", "plugins", "placement", "dns"}

SettingsInit ==
    /\ ConfigureInit /\ PluginsInit /\ PlacementInit /\ DnsInit
    /\ part \in Parts
    /\ \A other \in Parts \ {part} : Rests(other)

SettingsNext ==
    /\ UNCHANGED part
    /\ \/ part = "configure" /\ ConfigureNext /\ UNCHANGED <<pluginVars, placementVars, dnsVars>>
       \/ part = "plugins" /\ PluginsNext /\ UNCHANGED <<configureVars, placementVars, dnsVars>>
       \/ part = "placement" /\ PlacementNext /\ UNCHANGED <<configureVars, pluginVars, dnsVars>>
       \/ part = "dns" /\ DnsNext /\ UNCHANGED <<configureVars, pluginVars, placementVars>>

SettingsSpec == SettingsInit /\ [][SettingsNext]_settingsVars
=============================================================================
