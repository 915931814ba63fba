------------------------------ MODULE ImagePort ------------------------------
(***************************************************************************)
(* How Cirrus comes to know the port an image listens on when the spec     *)
(* doesn't say: passes over one application, each of which may read it     *)
(* from the image's registry (operators/cirrus/src/reconcile/port.rs and   *)
(* registry.rs).                                                           *)
(*                                                                         *)
(* A reading is up to three requests, a manifest, one manifest of an index *)
(* and a config, with a sign-in between them when the registry asks.  Each *)
(* answer is a step of its own: tags move, pull Secrets change, tokens run *)
(* out and the operator is restarted between any two of them.              *)
(*                                                                         *)
(* WebApplication has what a pass does with the port; here a pass is its   *)
(* reading and what its record keeps.  Every image here can be parsed.     *)
(***************************************************************************)
EXTENDS Naturals, Sequences

CONSTANTS
    Tag,         \* images named by tag
    Manifest,    \* images named by digest, and what tags point at
    Holds,       \* what each manifest is: an index or one image's
    NoList, NoConfig,
    Ports,       \* the ports each config declares, with their protocols
    SecretName,
    Defaults,    \* the pull Secrets of the default ServiceAccount, in order
    Listings,    \* the pull Secrets a spec may list, in order
    Nobody,      \* no image
    MaxMoves,    \* bounds the changes people make
    MaxFaults    \* bounds failed answers, expired tokens and restarts

Image == Tag \union Manifest

VARIABLES
    tag,      \* what each tag points at
    door,     \* how the registry asks for credentials
    public,   \* whether it lets anybody read
    listed,   \* the pull Secrets the spec lists
    secrets,  \* what each pull Secret has for the registry
    given,    \* whether the spec says the port
    wanted,   \* the image of the newest release
    record,   \* the application's record: the image deployed, the ports known
    read,     \* the reading of the current pass
    problem,  \* what the last pass said of the port
    moves, faults,
    stood,    \* history: what each name has stood for
    asked     \* history: the requests and sign-ins of the current reading

outside == <<tag, door, public, listed, secrets, given, wanted, moves>>
portVars == <<tag, door, public, listed, secrets, given, wanted, record, read,
              problem, moves, faults, stood, asked>>

NotReading ==
    [at |-> "idle", image |-> Nobody, credentials |-> "none", authorization |-> "none",
     manifest |-> Nobody, config |-> NoConfig]

PortInit ==
    /\ tag \in [Tag -> Manifest]
    /\ door \in {"open", "basic", "bearer", "mute"}
    /\ public \in BOOLEAN
    /\ listed \in Listings
    /\ secrets \in [SecretName -> {"nothing", "wrong", "right"}]
    /\ given = FALSE
    /\ wanted \in Image
    /\ record = [deployed |-> Nobody, ports |-> [i \in {} |-> 0]]
    /\ read = NotReading
    /\ problem = "none"
    /\ moves = 0 /\ faults = 0
    /\ stood = [i \in Image |-> IF i \in Tag THEN {tag[i]} ELSE {i}]
    /\ asked = [requests |-> 0, signins |-> 0]

-----------------------------------------------------------------------------
\* The image an index is read by: linux on amd64, else any linux, else the
\* first (choose_platform).
ChosenOf(list) ==
    LET Linux == SelectSeq(list, LAMBDA e : e.os = "linux")
        Amd   == SelectSeq(Linux, LAMBDA e : e.architecture = "amd64")
    IN Head(Amd \o Linux \o list).of

TcpPorts(c) == {p.port : p \in {q \in Ports[c] : q.protocol = "tcp"}}

\* Fault: the first of several ports is taken.
AnyPort(c) == IF TcpPorts(c) = {} THEN 0 ELSE CHOOSE p \in TcpPorts(c) : TRUE

\* The one TCP port a config declares, 0 when there is none or a choice.
OnlyPort(c) ==
    IF \E p \in TcpPorts(c) : TcpPorts(c) = {p} THEN CHOOSE p \in TcpPorts(c) : TRUE ELSE 0

\* Whether a pull Secret is there, can be read and has an entry for the registry.
HasFor(n) == secrets[n] # "nothing"

\* The credentials the pods' pull Secrets have for the registry: those of the
\* first that has any.
Credentials ==
    LET names == IF listed = <<>> THEN Defaults ELSE listed
        First(i) == HasFor(names[i]) /\ \A j \in 1 .. i - 1 : ~HasFor(names[j])
    IN IF \E i \in DOMAIN names : First(i)
       THEN secrets[names[CHOOSE i \in DOMAIN names : First(i)]]
       ELSE "none"

Cached(i) == i \in DOMAIN record.ports

-----------------------------------------------------------------------------
\* The end of a pass.  An image whose port is known may be deployed in it, or
\* wait for its migrations; the ports kept are those of the images in play.

\* Fault: only the port of the image that is running is kept.
PrunedToDeployed(ports, deployed, desired) ==
    [i \in DOMAIN ports \intersect {deployed} |-> ports[i]]

Pruned(ports, deployed, desired) ==
    [i \in DOMAIN ports \intersect {deployed, desired} |-> ports[i]]

EndPass(image, ports, ok) ==
    /\ \E deployed \in {record.deployed} \union (IF ok THEN {image} ELSE {}) :
          record' = [deployed |-> deployed, ports |-> Pruned(ports, deployed, image)]
    /\ read' = NotReading

EndWith(what) ==
    /\ problem' = what
    /\ EndPass(read.image, record.ports, FALSE)

\* A pass that needs no registry: the spec says the port, or it is known.
PassWithout ==
    /\ read.at = "idle"
    /\ given \/ Cached(wanted)
    /\ problem' = "none"
    /\ EndPass(wanted, record.ports, TRUE)
    /\ UNCHANGED <<outside, faults, stood, asked>>

\* A pass that asks: the credentials are found before the first request.
StartReading ==
    /\ read.at = "idle"
    /\ ~given /\ ~Cached(wanted)
    /\ read' = [NotReading EXCEPT !.at = "manifest", !.image = wanted, !.credentials = Credentials]
    /\ asked' = [requests |-> 0, signins |-> 0]
    /\ UNCHANGED <<outside, record, problem, faults, stood>>

-----------------------------------------------------------------------------
\* The registry's side: whether a request carrying an authorization is let in.
Lets(authorization) ==
    \/ door = "open"
    \/ door = "basic" /\ authorization = "right"
    \/ door = "bearer" /\ authorization = "token"

Requesting == read.at \in {"manifest", "platform", "blob"}

Asks(requests, signins) ==
    asked' = [requests |-> asked.requests + requests, signins |-> asked.signins + signins]

Refused == IF read.credentials = "none" THEN "needs credentials" ELSE "credentials refused"

\* Only a client that holds no authorization yet signs in (get).
SignsIn == read.authorization = "none"

\* Basic takes the credentials as they are, Bearer sends them, or nothing, to a
\* token service; one that has nobody's may give a token that opens nothing.
SignIn ==
    CASE door = "basic" /\ read.credentials # "none" -> {read.credentials}
      [] door = "bearer" /\ read.credentials = "right" -> {"token"}
      [] door = "bearer" /\ read.credentials = "none" ->
            IF public THEN {"token"} ELSE {"empty", "none"}
      [] OTHER -> {"none"}

\* The registry wants credentials.
Unauthorized ==
    /\ Requesting
    /\ ~Lets(read.authorization)
    /\ \/ /\ SignsIn
          /\ \E got \in SignIn :
                \/ /\ got # "none"
                   /\ read' = [read EXCEPT !.authorization = got]
                   /\ UNCHANGED <<record, problem>>
                \/ /\ got = "none"
                   /\ EndWith(IF door = "mute" THEN "no way to sign in" ELSE Refused)
          /\ Asks(1, 1)
       \/ ~SignsIn /\ EndWith(Refused) /\ Asks(1, 0)
    /\ UNCHANGED <<outside, faults, stood>>

\* What a manifest says leads to the next request, or to a problem.
AnswerManifest ==
    /\ read.at \in {"manifest", "platform"}
    /\ Lets(read.authorization)
    /\ LET m == IF read.at = "platform" THEN read.manifest
                ELSE IF read.image \in Tag THEN tag[read.image] ELSE read.image
           list == Holds[m].list
       IN \/ /\ read.at = "manifest" /\ list \notin {NoList, <<>>}
             /\ read' = [read EXCEPT !.at = "platform", !.manifest = ChosenOf(list)]
             /\ UNCHANGED <<record, problem>>
          \/ /\ read.at = "manifest" /\ list = <<>>
             /\ EndWith("empty index")
          \/ /\ read.at = "platform" \/ list = NoList
             /\ Holds[m].config # NoConfig
             /\ read' = [read EXCEPT !.at = "blob", !.config = Holds[m].config]
             /\ UNCHANGED <<record, problem>>
          \/ /\ read.at = "platform" \/ list = NoList
             /\ Holds[m].config = NoConfig
             /\ EndWith("no config")
    /\ Asks(1, 0)
    /\ UNCHANGED <<outside, faults, stood>>

Keeps(port) == port # 0

\* The config's one TCP port is kept with the image that declares it.
AnswerConfig ==
    /\ read.at = "blob"
    /\ Lets(read.authorization)
    /\ LET port == OnlyPort(read.config)
       IN \/ /\ Keeps(port)
             /\ problem' = "none"
             /\ EndPass(read.image,
                        [i \in DOMAIN record.ports \union {read.image} |->
                            IF i = read.image THEN port ELSE record.ports[i]], TRUE)
          \/ ~Keeps(port) /\ EndWith("not one port")
    /\ Asks(1, 0)
    /\ UNCHANGED <<outside, faults, stood>>

-----------------------------------------------------------------------------
\* What goes wrong: a request that isn't answered as it should be, a token that
\* runs out between two requests, a restart of the operator, which keeps only
\* what was recorded.

Unanswered ==
    /\ Requesting
    /\ faults < MaxFaults /\ faults' = faults + 1
    /\ EndWith("unreachable")
    /\ Asks(1, 0)
    /\ UNCHANGED <<outside, stood>>

TokenExpires ==
    /\ Requesting /\ read.authorization = "token"
    /\ faults < MaxFaults /\ faults' = faults + 1
    /\ read' = [read EXCEPT !.authorization = "expired"]
    /\ UNCHANGED <<outside, record, problem, stood, asked>>

Restart ==
    /\ read.at # "idle"
    /\ faults < MaxFaults /\ faults' = faults + 1
    /\ read' = NotReading
    /\ UNCHANGED <<outside, record, problem, stood, asked>>

-----------------------------------------------------------------------------
\* What people and pipelines change meanwhile.

Moves == moves < MaxMoves /\ moves' = moves + 1

Push ==
    /\ Moves
    /\ \E t \in Tag, m \in Manifest :
          /\ tag' = [tag EXCEPT ![t] = m]
          /\ stood' = [stood EXCEPT ![t] = @ \union {m}]
    /\ UNCHANGED <<door, public, listed, secrets, given, wanted, record, read, problem, faults, asked>>

NewRelease ==
    /\ Moves
    /\ wanted' \in Image
    /\ UNCHANGED <<tag, door, public, listed, secrets, given, record, read, problem, faults, stood, asked>>

EditSpec ==
    /\ Moves
    /\ \/ given' = ~given /\ UNCHANGED listed
       \/ listed' \in Listings /\ UNCHANGED given
    /\ UNCHANGED <<tag, door, public, secrets, wanted, record, read, problem, faults, stood, asked>>

EditSecret ==
    /\ Moves
    /\ \E n \in SecretName, v \in {"nothing", "wrong", "right"} :
          secrets' = [secrets EXCEPT ![n] = v]
    /\ UNCHANGED <<tag, door, public, listed, given, wanted, record, read, problem, faults, stood, asked>>

-----------------------------------------------------------------------------
Pass == PassWithout \/ StartReading \/ Unauthorized \/ AnswerManifest \/ AnswerConfig

PortNext ==
    \/ Pass
    \/ Unanswered \/ TokenExpires \/ Restart
    \/ Push \/ NewRelease \/ EditSpec \/ EditSecret

-----------------------------------------------------------------------------
PortTypeOK ==
    /\ record.deployed \in Image \union {Nobody}
    /\ DOMAIN record.ports \subseteq Image
    /\ \A i \in DOMAIN record.ports : record.ports[i] \in Nat \ {0}
    /\ read.at \in {"idle", "manifest", "platform", "blob"}
    /\ read.image \in Image \union {Nobody}
    /\ read.credentials \in {"none", "wrong", "right"}
    /\ read.authorization \in {"none", "wrong", "right", "token", "empty", "expired"}
    /\ problem \in {"none", "needs credentials", "credentials refused", "no way to sign in",
                    "empty index", "no config", "not one port", "unreachable"}

\* The config a manifest is read by, or NoConfig.
ConfigOf(m) ==
    LET list == Holds[m].list
    IN CASE list = NoList -> Holds[m].config
         [] list = <<>>   -> NoConfig
         [] OTHER         -> Holds[ChosenOf(list)].config

PortOfManifest(m) == IF ConfigOf(m) = NoConfig THEN 0 ELSE OnlyPort(ConfigOf(m))

DeclaresOne(m, p) == ConfigOf(m) # NoConfig /\ TcpPorts(ConfigOf(m)) = {p}

(* A port kept for an image is the only TCP port of one image its name has *)
(* stood for, whatever moved between the requests of the reading: "only an *)
(* image declaring exactly one TCP port is taken at its word" (port.rs).   *)
KnownIsDeclared ==
    \A i \in DOMAIN record.ports : \E m \in stood[i] : DeclaresOne(m, record.ports[i])

(* A reading asks for credentials once and makes at most four requests: a  *)
(* token that runs out, or credentials that are refused, end the pass      *)
(* instead of keeping it signing in ("signing in once if the registry      *)
(* asks", Registry::get).                                                  *)
SignsInOnce == asked.signins <= 1 /\ asked.requests <= 4

\* Whether a reading of the wanted image, begun now and left alone, succeeds.
Readable ==
    /\ ~given
    /\ \A m \in stood[wanted] : PortOfManifest(m) # 0
    /\ \/ door = "open"
       \/ door \in {"basic", "bearer"} /\ Credentials = "right"
       \/ door = "bearer" /\ public /\ Credentials = "none"

(* Whatever was refused, lost, restarted or changed before, once the image *)
(* wanted can be read its port comes to be known and stays so.             *)
ComesToBeKnown == <>[]Readable => <>[](wanted \in DOMAIN record.ports)

(* An image whose port can be read is, sooner or later, not asked for any  *)
(* more, although passes go on: "a registry shouldn't be asked the same    *)
(* question every pass" (port.rs).                                         *)
AskedNoMore == <>[]Readable => <>[]~Requesting

(* A port that is kept was declared by an image of that name, whatever     *)
(* moved while it was read, and no reading keeps signing in.               *)
PortInv ==
    /\ PortTypeOK
    /\ KnownIsDeclared
    /\ SignsInOnce

(* The port of an image that can be read comes to be known whatever was    *)
(* refused or lost before, and the registry is then left alone.            *)
PortSettles ==
    /\ ComesToBeKnown
    /\ AskedNoMore
=============================================================================
