----------------------------- MODULE Preflight ------------------------------
(***************************************************************************)
(* Whether a configuration could be installed (runners/preflight.ts) on    *)
(* the machines it names (commands/Preflight.ts).  What is written is      *)
(* looked at first, and then each machine in turn: it is connected to,     *)
(* asked every check, whatever those before said, and let go of.           *)
(*                                                                         *)
(* A connection may be lost while a check runs.  The check then ends       *)
(* without an exit code and with nothing printed, which is taken for       *)
(* success (RemoteHost.exec), and those after it fail.                     *)
(*                                                                         *)
(* What is said of servers, gateways, mail and DNS is in Configure and     *)
(* DnsBundle.  A value of the wrong type is one the schema refuses.        *)
(***************************************************************************)
EXTENDS Naturals, Sequences, FiniteSets

CONSTANTS
    Files,     \* the configurations somebody may write
    Provided,  \* the packages there are, by name: [values, security], the values their
               \*   templates need and the kinds of mail server they can use
    Machines,  \* the ways the machines may be: [off, unfit], those that don't answer
               \*   and what is wrong with each, a set of checks
    MaxLost    \* bound: connections that are lost

Unset == "nothing"

\* The checks of a machine, in their order (PreflightCommands).
Check == <<"check-node-access", "check-operating-system", "check-required-tools",
           "check-kernel-features", "check-ports-free", "check-outbound-access", "check-clock",
           "check-disk-space", "check-network-support", "check-gateway-interfaces">>

VARIABLES
    file,      \* the configuration: what preflight reads of it
    only,      \* the node asked for, or all of them, or none
    machines,  \* what the machines are like
    phase,     \* "configuration", "nodes", and how it ended: "ready", "trouble",
               \*   "refused" or, without a report, "threw"
    todo,      \* the nodes still to be gone to, the one being asked first
    line,      \* the connection to it: "none", "up", or "dead"
    turn,      \* the check to come
    told,      \* the problems there are: [where, what]
    answered,  \* history: the checks each node said it passes,
    lostAt,    \*   the check each node's connection was lost at, or 0,
    closed     \*   and how many connections were made and let go of

preflightVars == <<file, only, machines, phase, todo, line, turn, told, answered, lostAt, closed>>

-----------------------------------------------------------------------------
(* The configuration.                                                      *)

Names(f) == {f.nodes[i].name : i \in DOMAIN f.nodes}

Says(problem, holds) == IF holds THEN {problem} ELSE {}

\* Who has what an earlier node has already.
Taken(f, key) ==
    {f.nodes[i].name :
        i \in {k \in DOMAIN f.nodes : key[k] # Unset /\ \E j \in 1..(k - 1) : key[j] = key[k]}}

\* A node's field as what may be taken, a value that doesn't count being none.
Field(f, field, not) ==
    [i \in DOMAIN f.nodes |-> IF f.nodes[i][field] = not THEN Unset ELSE f.nodes[i][field]]

(* A node without a name Kubernetes takes is registered under its          *)
(* hostname, and its address isn't looked at.                              *)
NameProblems(f) ==
    {<<"no name", n.name>> : n \in {f.nodes[i] : i \in {k \in DOMAIN f.nodes : f.nodes[k].registered = Unset}}}
    \union {<<"same name", n>> : n \in Taken(f, Field(f, "registered", Unset))}
    \union {<<"no address", n.name>> :
              n \in {f.nodes[i] : i \in {k \in DOMAIN f.nodes : /\ f.nodes[k].registered # Unset
                                                               /\ f.nodes[k].address = Unset}}}

\* An address K3s takes, and nobody else's.  "name" stands for what isn't one.
AddressProblems(f) ==
    {<<"not an address", f.nodes[i].name>> : i \in {k \in DOMAIN f.nodes : f.nodes[k].ip = "name"}}
    \union {<<"same address", n>> : n \in Taken(f, Field(f, "ip", "name"))}

DisplayProblems(f) ==
    {<<"blank", f.nodes[i].name>> : i \in {k \in DOMAIN f.nodes : f.nodes[k].shown = "blank"}}
    \union {<<"shown the same", n>> : n \in Taken(f, Field(f, "shown", "blank"))}

\* What the templates of packages need, and the mail servers they can use.
PackageProblems(f) ==
    UNION {IF p \notin DOMAIN Provided THEN {<<"not a package", p>>}
           ELSE {<<"value not set", v>> : v \in Provided[p].values \ f.values}
                \union Says(<<"mail can't be sent", p>>,
                            f.mail # Unset /\ Provided[p].security # {} /\ f.mail \notin Provided[p].security) :
              p \in f.packages}

\* A volume server has a storage node to itself.
StorageProblems(f) ==
    Says(<<"volume servers", Unset>>,
         f.volumeServers > Cardinality({i \in DOMAIN f.nodes : f.nodes[i].storage}))

\* Settings of a mesh nobody is on are said to be that.
MeshProblems(f) ==
    Says(<<"no key", Unset>>, f.mesh.network /\ ~f.mesh.key)
    \union Says(<<"no network", Unset>>, ~f.mesh.network /\ (f.mesh.inFile \/ f.mesh.settings))

PlacementProblems(f) ==
    {<<"nowhere to go", n>> :
        n \in {m \in DOMAIN f.placement : ~\E i \in DOMAIN f.nodes : f.nodes[i].region = f.placement[m]}}

\* Clients of the cluster's own sign-in, and who administers it.
SignInProblems(f) ==
    IF ~f.signIn.used THEN {}
    ELSE Says(<<"half a client", Unset>>, ~f.signIn.whole)
         \union Says(<<"administrators can't sign in", Unset>>, ~f.signIn.groupGetsIn)

TokenProblems(f) == Says(<<"token", Unset>>, f.token \in {Unset, "malformed"})

ServerProblems(f) ==
    Says(<<"servers", Unset>>, Cardinality({i \in DOMAIN f.nodes : f.nodes[i].server}) # 1)

SchemaProblems(f) == {<<"wrong type", key>> : key \in f.wrong}

(* All that is said of a configuration (checkConfiguration).               *)
CheckConfiguration(f) ==
    SchemaProblems(f) \union
    IF f.nodes = <<>> THEN {<<"no nodes", Unset>>}
    ELSE ServerProblems(f) \union TokenProblems(f) \union NameProblems(f) \union AddressProblems(f)
         \union DisplayProblems(f) \union PackageProblems(f) \union StorageProblems(f)
         \union MeshProblems(f) \union PlacementProblems(f) \union SignInProblems(f)

\* The shape of a token is looked at though it may not be text.
Throws(f) == f.nodes # <<>> /\ "token" \in f.wrong

-----------------------------------------------------------------------------
(* The machines.                                                           *)

IsGateway(n) == \E i \in DOMAIN file.nodes : file.nodes[i].name = n /\ file.nodes[i].gateway

\* How a machine is asked only about what it will be.
Skipped(n, c) == c = "check-gateway-interfaces" /\ ~IsGateway(n)

\* A check that can find something else using a port says so and passes.
Passes(n, c) == c \notin machines.unfit[n] \/ c = "check-ports-free"

(* What a check makes of nothing at all: one looks for what is missing in  *)
(* what was printed, one counts what couldn't be reached, and one goes by  *)
(* its exit code alone.  The others miss what they look for; a time and a  *)
(* size that are missing are read as 0.                                    *)
PassesOnNothing(c) ==
    c \in {"check-required-tools", "check-ports-free", "check-outbound-access", "check-network-support"}

-----------------------------------------------------------------------------
\* Whatever a node is registered as, it has a name of its own here, and none is
\* called what stands for all of them, or for none.
ASSUME FilesAssumption ==
    \A f \in Files :
        /\ f.nodes \in Seq([name : STRING, registered : STRING, address : STRING, ip : STRING,
                            shown : STRING, region : STRING, storage : BOOLEAN,
                            server : BOOLEAN, gateway : BOOLEAN])
        /\ \A i, j \in DOMAIN f.nodes : f.nodes[i].name = f.nodes[j].name => i = j
        /\ Names(f) \cap {"all", "configuration", "nobody"} = {}
        /\ f.volumeServers \in Nat
        /\ {f.mesh.network, f.mesh.key, f.mesh.inFile, f.mesh.settings, f.signIn.used,
            f.signIn.whole, f.signIn.groupGetsIn} \subseteq BOOLEAN

PreflightInit ==
    /\ file \in Files
    /\ only \in {"all", "configuration"} \union Names(file) \union {"nobody"}
    /\ machines \in Machines
    /\ phase = "configuration" /\ todo = <<>> /\ line = "none" /\ turn = 1 /\ told = {}
    /\ answered = [n \in Names(file) |-> {}] /\ lostAt = [n \in Names(file) |-> 0]
    /\ closed = 0

NamesInOrder(f) == [i \in DOMAIN f.nodes |-> f.nodes[i].name]

TargetNodes ==
    IF only = "all" THEN NamesInOrder(file) ELSE IF only \in Names(file) THEN <<only>> ELSE <<>>

Verdict(problems) == IF problems = {} THEN "ready" ELSE "trouble"

(* What is wrong with the configuration doesn't keep the machines from     *)
(* being looked at.                                                        *)
LookAtConfiguration ==
    LET problems == {[where |-> "configuration", what |-> p] : p \in CheckConfiguration(file)}
    IN  /\ phase = "configuration"
        /\ phase' = IF Throws(file) THEN "threw"
                    ELSE IF only = "configuration" THEN Verdict(problems)
                    ELSE IF only # "all" /\ TargetNodes = <<>> THEN "refused" ELSE "nodes"
        /\ told' = IF Throws(file) THEN {} ELSE problems
        /\ todo' = IF phase' = "nodes" THEN TargetNodes ELSE <<>>
        /\ UNCHANGED <<file, only, machines, line, turn, answered, lostAt, closed>>

Where == Head(todo)

Problem(what) == [where |-> Where, what |-> <<what, Where>>]

\* One that can't be reached is a problem, and the next one is gone to.
Connect ==
    /\ phase = "nodes" /\ todo # <<>> /\ line = "none"
    /\ IF Where \in machines.off
       THEN told' = told \union {Problem("unreachable")} /\ todo' = Tail(todo) /\ UNCHANGED line
       ELSE line' = "up" /\ UNCHANGED <<told, todo>>
    /\ turn' = 1
    /\ UNCHANGED <<file, only, machines, phase, answered, lostAt, closed>>

\* Fault: a check that failed ends the asking.
ResultAndStop(c, passes) ==
    /\ answered' = IF passes THEN [answered EXCEPT ![Where] = @ \union {c}] ELSE answered
    /\ told' = IF passes THEN told ELSE told \union {Problem(c)}
    /\ turn' = IF passes THEN turn + 1 ELSE 1 + Len(Check)

Result(c, passes) ==
    /\ answered' = IF passes THEN [answered EXCEPT ![Where] = @ \union {c}] ELSE answered
    /\ told' = IF passes THEN told ELSE told \union {Problem(c)}
    /\ turn' = turn + 1

AskCheck ==
    /\ phase = "nodes" /\ line # "none" /\ turn <= Len(Check)
    /\ IF Skipped(Where, Check[turn]) THEN turn' = turn + 1 /\ UNCHANGED <<answered, told>>
       ELSE Result(Check[turn], line = "up" /\ Passes(Where, Check[turn]))
    /\ UNCHANGED <<file, only, machines, phase, todo, line, lostAt, closed>>

\* The connection goes while a check runs.
LoseLine ==
    /\ phase = "nodes" /\ line = "up" /\ turn <= Len(Check) /\ ~Skipped(Where, Check[turn])
    /\ Cardinality({n \in Names(file) : lostAt[n] # 0}) < MaxLost
    /\ line' = "dead" /\ lostAt' = [lostAt EXCEPT ![Where] = turn]
    /\ Result(Check[turn], PassesOnNothing(Check[turn]))
    /\ UNCHANGED <<file, only, machines, phase, todo, closed>>

Disconnect ==
    /\ phase = "nodes" /\ line # "none" /\ turn > Len(Check)
    /\ line' = "none" /\ todo' = Tail(todo) /\ closed' = closed + 1
    /\ UNCHANGED <<file, only, machines, phase, turn, told, answered, lostAt>>

EndPreflight ==
    /\ phase = "nodes" /\ todo = <<>> /\ line = "none"
    /\ phase' = Verdict(told)
    /\ UNCHANGED <<file, only, machines, todo, line, turn, told, answered, lostAt, closed>>

PreflightNext == LookAtConfiguration \/ Connect \/ AskCheck \/ LoseLine \/ Disconnect \/ EndPreflight

PreflightSpec == PreflightInit /\ [][PreflightNext]_preflightVars

-----------------------------------------------------------------------------
(* What a cluster needs of its configuration, whatever preflight does to   *)
(* find it out: told apart, reached, of one control plane, with room.      *)

Apart(f, field) ==
    \A i, j \in DOMAIN f.nodes :
        i # j /\ f.nodes[i][field] # Unset => f.nodes[i][field] # f.nodes[j][field]

CouldExist(f) ==
    /\ f.wrong = {} /\ f.token \notin {Unset, "malformed"}
    /\ \E i \in DOMAIN f.nodes : \A j \in DOMAIN f.nodes : f.nodes[j].server <=> j = i
    /\ \A i \in DOMAIN f.nodes : /\ f.nodes[i].registered # Unset /\ f.nodes[i].address # Unset
                                 /\ f.nodes[i].ip # "name" /\ f.nodes[i].shown # "blank"
    /\ Apart(f, "registered") /\ Apart(f, "ip") /\ Apart(f, "shown")
    /\ \A p \in f.packages :
          /\ p \in DOMAIN Provided /\ Provided[p].values \subseteq f.values
          /\ f.mail \in Provided[p].security \/ Provided[p].security = {} \/ f.mail = Unset
    /\ \E own \in [1..f.volumeServers -> DOMAIN f.nodes] :
          \A v, w \in 1..f.volumeServers : f.nodes[own[v]].storage /\ (own[v] = own[w] => v = w)
    /\ f.mesh.network => f.mesh.key
    /\ ~f.mesh.network => ~f.mesh.settings /\ ~f.mesh.inFile
    /\ \A n \in DOMAIN f.placement : \E i \in DOMAIN f.nodes : f.nodes[i].region = f.placement[n]
    /\ f.signIn.used => f.signIn.whole /\ f.signIn.groupGetsIn

Ended == phase \in {"ready", "trouble"}

Asked == IF only = "configuration" THEN {} ELSE {TargetNodes[i] : i \in DOMAIN TargetNodes}

\* "Ready" is said of a cluster that could exist, and of no other.
JudgedAlike == Ended => (CouldExist(file) <=> ~\E t \in told : t.where = "configuration")

(* It is said when every machine asked for was reached and is fit; only a  *)
(* connection lost while the last of the checks ran is not found out.      *)
ReadyIsReady ==
    phase = "ready" => \A n \in Asked :
        /\ n \notin machines.off
        /\ \A i \in DOMAIN Check :
              \/ Skipped(n, Check[i]) \/ Passes(n, Check[i])
              \/ lostAt[n] = i /\ ~\E k \in DOMAIN Check : k > i /\ ~Skipped(n, Check[k])

\* Trouble with one machine costs nobody else an answer.
EachIsAnswered ==
    Ended => \A n \in Asked : n \notin machines.off /\ lostAt[n] = 0 =>
        \A i \in DOMAIN Check : \/ Skipped(n, Check[i])
                                \/ Check[i] \in answered[n] /\ Passes(n, Check[i])
                                \/ [where |-> n, what |-> <<Check[i], n>>] \in told /\ ~Passes(n, Check[i])

\* One connection at a time, and none is left.
LetGoOf == Ended => line = "none" /\ closed = Cardinality(Asked \ machines.off)

(* What preflight says can be gone by (preflight.ts, whose verdict the     *)
(* exit code follows).                                                     *)
PreflightInv == JudgedAlike /\ ReadyIsReady /\ EachIsAnswered /\ LetGoOf

(* A value of the wrong type is said to be one before anything reads it    *)
(* (preflight.ts:114).  Not so of a token that isn't text.                 *)
MistakesAreTold == phase # "threw"

(* There is no point connecting to machines for a configuration that never *)
(* described a cluster (preflight.ts:12).  They are connected to.          *)
ConfigurationFirst == line # "none" => CouldExist(file)

\* Ready without exceptions, which a connection lost at the last check breaks.
ReadyAlways == phase = "ready" => \A n \in Asked : machines.unfit[n] \subseteq {"check-ports-free"}
=============================================================================
