----------------------------- MODULE Catalogue -----------------------------
(***************************************************************************)
(* The packages the installer ships (builtInPackages in                    *)
(* installer/src/cli/commands/packages.ts), reduced to what decides the    *)
(* order they are installed in and the commands each of them gives.        *)
(***************************************************************************)
EXTENDS Sequences

Office == "cc-office"
Cluster == "community-cloud"

\* A credential, and the role it is built from when it is a connection
\* string; the others are made up.
Secret(namespace, name) == [namespace |-> namespace, name |-> name, role |-> ""]

Secrets(namespace, names) == [i \in DOMAIN names |-> Secret(namespace, names[i])]

\*   chart    whether it is a chart; otherwise it is nothing but manifests
\*   makes    the namespace the manifests ahead of the chart make, if any
\*   applies  whether it has manifests after the chart
\*   client   the credential it signs in to Authentik with, if it does
\*   gate     whether the client is that of an oauth2-proxy in front of it
Package(name, namespace) ==
    [name |-> name, namespace |-> namespace, chart |-> FALSE,
     requires |-> <<>>, after |-> <<>>, makes |-> "", applies |-> TRUE,
     secrets |-> <<>>, client |-> "", gate |-> FALSE, mail |-> FALSE,
     ready |-> FALSE, rollout |-> FALSE]

Chart(name, namespace) == [Package(name, namespace) EXCEPT !.chart = TRUE]

\* An application: manifests in cc-office, and a workload to wait for.
Application(name) ==
    [Package(name, Office) EXCEPT !.makes = Office, !.rollout = TRUE]

CertManager == Chart("cert-manager", "cert-manager")

CloudNativePG ==
    [Chart("cloudnative-pg", "cnpg-system") EXCEPT
        !.requires = <<"topolvm">>, !.makes = Office,
        !.secrets = Secrets(Office, <<"twenty-crm", "mattermost", "authentik-db">>)]

Authentik ==
    [Chart("authentik", Office) EXCEPT
        !.requires = <<"cloudnative-pg", "seaweedfs">>, !.makes = Office,
        !.ready = TRUE, !.mail = TRUE]

Documenso ==
    [Application("documenso") EXCEPT
        !.requires = <<"cloudnative-pg">>, !.after = <<"authentik">>,
        !.secrets = Secrets(Office,
            <<"documenso-db", "documenso-session", "documenso-encryption",
              "documenso-encryption-secondary", "documenso-oidc", "documenso-signing">>),
        !.client = "documenso-oidc", !.mail = TRUE]

RabbitMQ ==
    [Package("rabbitmq-operator", "rabbitmq-system") EXCEPT
        !.requires = <<"cert-manager", "topolvm">>, !.makes = Office, !.rollout = TRUE]

Redis ==
    [Chart("redis-operator", Cluster) EXCEPT
        !.requires = <<"topolvm">>, !.makes = Office,
        !.secrets = Secrets(Office, <<"cc-redis">>)]

MariaDBTypes == [Chart("mariadb-operator-crds", Cluster) EXCEPT !.applies = FALSE]

MariaDB ==
    [Chart("mariadb-operator", Cluster) EXCEPT
        !.requires = <<"mariadb-operator-crds", "topolvm">>, !.makes = Office,
        !.secrets = Secrets(Office, <<"cc-mariadb">>)]

ProjectSend ==
    [Application("projectsend") EXCEPT
        !.requires = <<"mariadb-operator", "redis-operator", "topolvm">>,
        !.after = <<"authentik", "seaweedfs">>,
        !.secrets = Secrets(Office,
            <<"projectsend-db", "projectsend-app-key", "projectsend-admin",
              "projectsend-oidc">>),
        !.client = "projectsend-oidc", !.ready = TRUE, !.mail = TRUE]

Lago ==
    [Application("lago") EXCEPT
        !.requires = <<"cloudnative-pg", "redis-operator", "seaweedfs">>,
        !.secrets = Secrets(Office,
            <<"lago-db", "lago-secret-key-base", "lago-encryption-primary",
              "lago-encryption-deterministic", "lago-encryption-salt", "lago-rsa",
              "lago-admin">>),
        !.ready = TRUE, !.mail = TRUE]

Twenty ==
    [Application("twenty") EXCEPT
        !.requires = <<"cloudnative-pg", "redis-operator", "seaweedfs">>,
        !.secrets = Secrets(Office, <<"twenty-crm-app-secret", "twenty-crm-encryption-key">>),
        !.ready = TRUE, !.mail = TRUE]

Plane ==
    [Application("plane") EXCEPT
        !.requires = <<"cloudnative-pg", "redis-operator", "rabbitmq-operator", "seaweedfs">>,
        !.secrets = Secrets(Office,
            <<"plane-db", "plane-secret-key", "plane-live-secret-key", "plane-admin">>),
        !.ready = TRUE, !.mail = TRUE]

Methods ==
    [Application("methods") EXCEPT
        !.requires = <<"cloudnative-pg", "seaweedfs">>, !.after = <<"authentik">>,
        !.secrets = Secrets(Office, <<"methods-db", "methods-oidc">>),
        !.client = "methods-oidc", !.ready = TRUE]

MattermostOperator == [Chart("mattermost-operator", Cluster) EXCEPT !.applies = FALSE]

Mattermost ==
    [Application("mattermost") EXCEPT
        !.requires = <<"cloudnative-pg", "seaweedfs", "mattermost-operator">>,
        !.secrets = <<[Secret(Office, "mattermost-db") EXCEPT !.role = "mattermost"]>>,
        !.ready = TRUE]

Picoclaw ==
    [Application("picoclaw") EXCEPT
        !.after = <<"authentik">>, !.gate = TRUE,
        !.secrets = Secrets(Office, <<"picoclaw-launcher">>)]

TopoLVM == [Chart("topolvm", "topolvm-system") EXCEPT !.requires = <<"cert-manager">>]

SeaweedFS ==
    [Chart("seaweedfs", "seaweedfs") EXCEPT
        !.requires = <<"topolvm">>, !.makes = "seaweedfs", !.ready = TRUE]

Monitoring ==
    [Chart("monitoring", Cluster) EXCEPT
        !.requires = <<"topolvm">>, !.makes = Cluster,
        !.after = <<"authentik", "cert-manager", "cloudnative-pg">>,
        !.secrets = Secrets(Cluster, <<"grafana-oidc", "grafana-admin">>),
        !.client = "grafana-oidc", !.mail = TRUE]

Headlamp ==
    [Chart("headlamp", Cluster) EXCEPT
        !.after = <<"authentik">>, !.makes = Cluster,
        !.secrets = Secrets(Cluster, <<"headlamp-oidc">>), !.client = "headlamp-oidc"]

Cirrus ==
    [Package("cirrus", Cluster) EXCEPT
        !.requires = <<"cert-manager", "cloudnative-pg", "seaweedfs", "rabbitmq-operator">>,
        !.makes = Cluster, !.rollout = TRUE]

Meteorologist ==
    [Package("meteorologist", Cluster) EXCEPT
        !.after = <<"authentik", "cirrus">>, !.makes = Cluster, !.rollout = TRUE,
        !.secrets = Secrets(Cluster, <<"meteorologist-oidc", "meteorologist-session">>),
        !.client = "meteorologist-oidc"]

Tailscale == [Chart("tailscale-operator", "tailscale") EXCEPT !.applies = FALSE]

\* A gate's client, and the key it seals its cookie with.
GateSecrets(p) ==
    Secrets(p.namespace, <<p.name \o "-gate-oidc", p.name \o "-gate-cookie">>)

\* What a package with a gate has because of it.
Gated(p) ==
    IF p.gate THEN [p EXCEPT !.secrets = @ \o GateSecrets(p), !.client = p.name \o "-gate-oidc"]
              ELSE p

BuiltIn ==
    {CertManager, CloudNativePG, Authentik, Documenso, RabbitMQ, Redis, MariaDBTypes,
     MariaDB, ProjectSend, Lago, Twenty, Plane, Methods, MattermostOperator, Mattermost,
     Picoclaw, TopoLVM, SeaweedFS, Monitoring, Headlamp, Cirrus, Meteorologist, Tailscale}

Names == {p.name : p \in BuiltIn}

\* A package by its name (getPackage).
Known == [name \in Names |-> Gated(CHOOSE p \in BuiltIn : p.name = name)]
=============================================================================
