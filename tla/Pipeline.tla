------------------------------ MODULE Pipeline ------------------------------
(***************************************************************************)
(* One run of a pipeline over a cluster, as executePipeline makes it       *)
(* (installer/src/pipeline/execute.ts): work the steps out on paper, raise *)
(* the fleet, plan for the nodes that answered, run the plan in lock step, *)
(* verify it, let go of the nodes.                                         *)
(*                                                                         *)
(* Nodes connect, and work on a step, concurrently.  Everything else is    *)
(* one thread of control, at `phase'.                                      *)
(***************************************************************************)
EXTENDS Naturals, Sequences

CONSTANTS
    Node,      \* the names nodes go by in the configuration
    Bundle,    \* the names of bundles
    Machine,   \* what a node answers when asked for its machine ID
    NoNode,    \* no node at all
    NoBundle,  \* no bundle: a run without a gate
    Requests   \* the runs that may be asked for, a set of RequestType

ASSUME NoNodeAssumption == NoNode \notin Node

Scope   == {"cluster", "each-node", "each-server", "each-agent"}
Target  == {"node", "control-plane"}
Purpose == {"inspect", "require", "verify", "settle", "apply"}

ReadOnlyPurposes == Purpose \ {"apply"}
PromptPurposes   == ReadOnlyPurposes \ {"settle"}

CommandType ==
    [bundle : Bundle, scope : Scope, runOn : Target, purpose : Purpose]

(* A run as it was asked for, with what its configuration says.            *)
(*   nodes        the nodes it is aimed at, in the configuration's order   *)
(*   servers      the nodes whose "type" is server                         *)
(*   host         the first server of the configuration, if it has one     *)
(*   machine      which machine each node's address leads to               *)
(*   commands     every command of the pipeline's bundles, in order; a     *)
(*                pipeline names each bundle once                          *)
(*   unplannable  the bundles whose command list can't be built            *)
(*   purposes     the purposes asked for, all of them unless it says so    *)
(*   gate         the bundle a node must get through first                 *)
RequestType ==
    [nodes : Seq(Node), servers : SUBSET Node, host : Node \union {NoNode},
     machine : [Node -> Machine], commands : Seq(CommandType),
     unplannable : SUBSET Bundle, purposes : SUBSET Purpose,
     gate : Bundle \union {NoBundle}, dryRun : BOOLEAN, partial : BOOLEAN,
     tolerant : BOOLEAN, keepGoing : BOOLEAN, verify : BOOLEAN]

(* The host is the first of the servers: getControlPlaneHost filters by    *)
(* the same "type" that isServerNode reads.                                *)
ASSUME RequestsAssumption ==
    /\ Requests \subseteq RequestType
    /\ \A r \in Requests : r.host \in r.servers \union {NoNode}

VARIABLES
    request,   \* what was asked for; it never changes
    phase,     \* where executePipeline has got to
    conn,      \* the state of the connection to each node
    members,   \* the fleet: the nodes asked for that answered
    borrowed,  \* a server connected to only to talk to the cluster
    faults,    \* the kinds of FleetFailure met while raising the fleet
    plan,      \* the nodes of each planned step, by the command's position
    round,     \* 1 for the run, 2 for its verification
    step,      \* the step at work or last finished, 0 before the first
    task,      \* what each node is doing for that step
    blocked,   \* the nodes that didn't get through the gate
    outcomes,  \* what every node did with every finished step
    result,    \* how executePipeline ended
    begun,     \* history: the work nodes were given,
    ended      \*   and the work they finished

asking  == <<request>>
fleet   == <<conn, members, borrowed, faults>>
running == <<plan, round, step, task, blocked, outcomes>>
history == <<begun, ended>>
vars == <<request, phase, conn, members, borrowed, faults, plan, round, step,
          task, blocked, outcomes, result, begun, ended>>

Phase   == {"asked", "connecting", "borrowing", "identifying", "between steps",
            "in a step", "ran", "closing", "done"}
Settled == {"ok", "failed", "skipped", "blocked"}

-----------------------------------------------------------------------------
(* Planning                                                                *)

Asked(r) == {r.nodes[i] : i \in DOMAIN r.nodes}

(* The server anything cluster-wide runs from: the first of the members,   *)
(* or the borrowed one, or none.                                           *)
ControlPlane(r, ms, b) ==
    LET servers == {i \in DOMAIN r.nodes : r.nodes[i] \in ms \intersect r.servers}
    IN  IF servers = {} THEN b
        ELSE r.nodes[CHOOSE i \in servers : \A j \in servers : i <= j]

HasControlPlane(r, ms, b) == ControlPlane(r, ms, b) # NoNode

NodesForScope(r, scope, ms, b) ==
    CASE scope = "cluster"     -> {ControlPlane(r, ms, b)}
      [] scope = "each-server" -> ms \intersect r.servers
      [] scope = "each-agent"  -> ms \ r.servers
      [] scope = "each-node"   -> ms

\* Commands this plan wants, of bundles that could be turned into commands.
Wanted(r, purposes) ==
    {i \in DOMAIN r.commands : /\ r.commands[i].purpose \in purposes
                               /\ r.commands[i].bundle \notin r.unplannable}

\* Cluster work with no server to do it: nodesForScope throws.
Homeless(r, purposes, ms, b) ==
    {i \in Wanted(r, purposes) : /\ r.commands[i].scope = "cluster"
                                 /\ ~HasControlPlane(r, ms, b)}

PlanThrows(r, purposes, ms, b) ==
    ~r.tolerant /\ (r.unplannable # {} \/ Homeless(r, purposes, ms, b) # {})

(* A tolerant plan gives up on the rest of a bundle at its first homeless  *)
(* command, and a step nobody takes part in is no step at all.             *)
Planned(r, purposes, ms, b) ==
    {i \in Wanted(r, purposes) :
        /\ \A j \in Homeless(r, purposes, ms, b) :
              r.commands[j].bundle = r.commands[i].bundle => i < j
        /\ NodesForScope(r, r.commands[i].scope, ms, b) # {}}

PlanFor(r, purposes, ms, b) ==
    [i \in Planned(r, purposes, ms, b) |->
        NodesForScope(r, r.commands[i].scope, ms, b)]

\* The borrowing a real run would do, worked out from the configuration.
PaperBorrowed(r) == IF Asked(r) \intersect r.servers = {} THEN r.host ELSE NoNode

NeedsControlPlane(r) ==
    \E i \in Planned(r, r.purposes, Asked(r), PaperBorrowed(r)) :
        r.commands[i].runOn = "control-plane"

-----------------------------------------------------------------------------
Init ==
    /\ request \in Requests
    /\ phase = "asked"
    /\ conn = [n \in Node |-> "none"]
    /\ members = {}
    /\ borrowed = NoNode
    /\ faults = {}
    /\ plan = <<>>
    /\ round = 1
    /\ step = 0
    /\ task = [n \in Node |-> "idle"]
    /\ blocked = {}
    /\ outcomes = {}
    /\ result = "none"
    /\ begun = {}
    /\ ended = {}

PaperPlanThrows ==
    PlanThrows(request, request.purposes, Asked(request), PaperBorrowed(request))

(* A pipeline that can't be planned fails before anything is connected to. *)
RefusePlan ==
    /\ phase = "asked"
    /\ PaperPlanThrows
    /\ phase' = "done"
    /\ result' = "threw"
    /\ UNCHANGED <<asking, fleet, running, history>>

DryRun ==
    /\ phase = "asked"
    /\ ~PaperPlanThrows
    /\ request.dryRun
    /\ plan' = PlanFor(request, request.purposes, Asked(request), PaperBorrowed(request))
    /\ phase' = "done"
    /\ result' = "dry run"
    /\ UNCHANGED <<asking, fleet, round, step, task, blocked, outcomes, history>>

-----------------------------------------------------------------------------
(* Raising the fleet                                                       *)

Connect ==
    /\ phase = "asked"
    /\ ~PaperPlanThrows
    /\ ~request.dryRun
    /\ phase' = "connecting"
    /\ conn' = [n \in Node |-> IF n \in Asked(request) THEN "connecting" ELSE "none"]
    /\ UNCHANGED <<asking, members, borrowed, faults, running, result, history>>

Answer(n) ==
    /\ conn[n] = "connecting"
    /\ conn' = [conn EXCEPT ![n] = "open"]
    /\ UNCHANGED <<asking, phase, members, borrowed, faults, running, result, history>>

NoAnswer(n) ==
    /\ conn[n] = "connecting"
    /\ conn' = [conn EXCEPT ![n] = "failed"]
    /\ faults' = faults \union
          {IF phase = "borrowing" THEN "no-control-plane" ELSE "unreachable"}
    /\ UNCHANGED <<asking, phase, members, borrowed, running, result, history>>

\* Promise.allSettled: every attempt has been waited for.
AllSettled == \A n \in Node : conn[n] # "connecting"

Reached == {n \in Node : conn[n] = "open"}

LacksServer == NeedsControlPlane(request) /\ Reached \intersect request.servers = {}

(* A run that has to talk to the cluster, aimed at no server that          *)
(* answered, borrows the first one the configuration names.                *)
Borrow ==
    /\ phase = "connecting" /\ AllSettled
    /\ LacksServer
    /\ members' = Reached
    /\ IF request.host = NoNode
       THEN /\ faults' = faults \union {"no-control-plane"}
            /\ phase' = "identifying"
            /\ UNCHANGED conn
       ELSE /\ conn' = [conn EXCEPT ![request.host] = "connecting"]
            /\ phase' = "borrowing"
            /\ UNCHANGED faults
    /\ UNCHANGED <<asking, borrowed, running, result, history>>

NoNeedToBorrow ==
    /\ phase = "connecting" /\ AllSettled
    /\ ~LacksServer
    /\ members' = Reached
    /\ phase' = "identifying"
    /\ UNCHANGED <<asking, conn, borrowed, faults, running, result, history>>

Borrowed ==
    /\ phase = "borrowing" /\ AllSettled
    /\ borrowed' = IF conn[request.host] = "open" THEN request.host ELSE NoNode
    /\ phase' = "identifying"
    /\ UNCHANGED <<asking, conn, members, faults, running, result, history>>

\* Fleet.disconnect: every connection of the fleet, whatever the others do.
Disconnected ==
    [n \in Node |-> IF n \in members \union {borrowed} THEN "closed" ELSE conn[n]]

GiveUp ==
    /\ conn' = Disconnected
    /\ phase' = "done"
    /\ result' = "threw"

(* Some node can't be worked on, so none of them is.                       *)
Abandon ==
    /\ phase = "identifying"
    /\ faults # {}
    /\ ~request.partial
    /\ GiveUp
    /\ UNCHANGED <<asking, members, borrowed, faults, running, history>>

\* Members that answer with one machine ID, those that keep silent aside.
Duplicates(silent) ==
    {m \in members \ silent :
        \E n \in members \ (silent \union {m}) : request.machine[m] = request.machine[n]}

RefuseDuplicates(silent) ==
    /\ phase = "identifying"
    /\ ~request.partial /\ faults = {}
    /\ Duplicates(silent) # {}
    /\ GiveUp
    /\ faults' = {"duplicate"}
    /\ UNCHANGED <<asking, members, borrowed, running, history>>

(* Nobody answered.  This throws before the block whose "finally" closes   *)
(* the connections, so what was borrowed stays connected.                  *)
NobodyToAsk ==
    /\ phase = "identifying"
    /\ request.partial
    /\ members = {}
    /\ phase' = "done"
    /\ result' = "threw"
    /\ UNCHANGED <<asking, fleet, running, history>>

\* Fault: an unreachable node doesn't stop a run that changes its nodes.
MayCarryOnUnreached(silent) == request.partial \/ Duplicates(silent) = {}

MayCarryOn(silent) ==
    request.partial \/ (faults = {} /\ Duplicates(silent) = {})

(* The fleet is up: plan for the nodes that are really in it.              *)
Raised(silent) ==
    /\ phase = "identifying"
    /\ members # {}
    /\ MayCarryOn(silent)
    /\ faults' = faults \union (IF Duplicates(silent) # {} THEN {"duplicate"} ELSE {})
    /\ IF PlanThrows(request, request.purposes, members, borrowed)
       THEN /\ phase' = "closing" /\ result' = "threw"
            /\ UNCHANGED plan
       ELSE /\ plan' = PlanFor(request, request.purposes, members, borrowed)
            /\ phase' = "between steps"
            /\ UNCHANGED result
    /\ UNCHANGED <<asking, conn, members, borrowed, round, step, task, blocked,
                   outcomes, history>>

-----------------------------------------------------------------------------
(* Running the plan                                                        *)

Cmd(i) == request.commands[i]

Gated(i) == round = 1 /\ request.gate # NoBundle /\ Cmd(i).bundle = request.gate

RunsOnControlPlane(i) == Cmd(i).runOn = "control-plane"

ControlPlaneNow == ControlPlane(request, members, borrowed)

\* Fault: only the node a step is for is looked at, not the one it runs on.
WhyBlockedItself(i, n) == ~Gated(i) /\ n \in blocked

\* Why a step isn't asked of a node: its own gate failed, or its server's did.
WhyBlocked(i, n) ==
    /\ ~Gated(i)
    /\ \/ n \in blocked
       \/ RunsOnControlPlane(i) /\ ControlPlaneNow \in blocked

(* whyBlocked asks for the control plane as soon as anybody at all is      *)
(* blocked, and asking throws when there is none.                          *)
WhyBlockedThrows(i) ==
    /\ ~Gated(i)
    /\ RunsOnControlPlane(i)
    /\ blocked # {}
    /\ plan[i] \ blocked # {}
    /\ ControlPlaneNow = NoNode

\* Fault: steps are taken in no particular order.
IsLaterStep(i) == i \in DOMAIN plan /\ step < i

IsNextStep(i) ==
    /\ i \in DOMAIN plan
    /\ step < i
    /\ \A j \in DOMAIN plan : step < j => i <= j

Work(i, who) == {<<round, i, n>> : n \in who}

StartStep(i) ==
    /\ phase = "between steps"
    /\ IsNextStep(i)
    /\ IF WhyBlockedThrows(i)
       THEN /\ phase' = "closing"
            /\ result' = "threw"
            /\ UNCHANGED <<step, task, begun>>
       ELSE /\ phase' = "in a step"
            /\ step' = i
            /\ task' = [n \in Node |->
                  CASE n \notin plan[i]                       -> "idle"
                    [] n \in plan[i] /\ WhyBlocked(i, n)  -> "blocked"
                    [] n \in plan[i] /\ ~WhyBlocked(i, n) -> "running"]
            /\ begun' = begun \union Work(i, {n \in plan[i] : ~WhyBlocked(i, n)})
            /\ UNCHANGED result
    /\ UNCHANGED <<asking, fleet, plan, round, blocked, outcomes, ended>>

(* A node's command is skipped, works, or fails.  One that runs on the     *)
(* control plane fails when there is none to give it.                      *)
NodeFinishes(n, how) ==
    /\ task[n] = "running"
    /\ how \in {"ok", "failed", "skipped"}
    /\ RunsOnControlPlane(step) /\ ControlPlaneNow = NoNode => how = "failed"
    /\ task' = [task EXCEPT ![n] = how]
    /\ ended' = ended \union {<<round, step, n>>}
    /\ UNCHANGED <<asking, phase, fleet, plan, round, step, blocked, outcomes,
                   result, begun>>

Failing == {n \in Node : task[n] = "failed"}

\* Fault: Promise.race in place of Promise.all.
SomeNodeFinished == \E n \in plan[step] : task[n] # "running"

\* Fault: waiting for every node to succeed.
EveryNodeSucceeded == \A n \in Node : task[n] \notin {"running", "failed"}

\* The barrier: Promise.all over the nodes of the step.
EveryNodeFinished == \A n \in Node : task[n] # "running"

KeepsGoing == request.keepGoing \/ round = 2

FinishStep ==
    /\ phase = "in a step"
    /\ EveryNodeFinished
    /\ blocked' = IF Gated(step) THEN blocked \union Failing ELSE blocked
    /\ outcomes' = outcomes \union {<<round, step, n, task[n]>> : n \in plan[step]}
    /\ task' = [n \in Node |-> "idle"]
    /\ phase' = IF Failing # {} /\ ~KeepsGoing THEN "ran" ELSE "between steps"
    /\ UNCHANGED <<asking, fleet, plan, round, step, result, history>>

FinishPlan ==
    /\ phase = "between steps"
    /\ ~\E i \in DOMAIN plan : IsNextStep(i)
    /\ phase' = "ran"
    /\ UNCHANGED <<asking, fleet, running, result, history>>

Failures(r) == {o \in outcomes : o[1] = r /\ o[4] = "failed"}

VerificationDue == request.verify /\ round = 1 /\ Failures(1) = {}

(* The pipeline's own checks, asked again once everything has passed: a    *)
(* plan of its own, run from its start with nobody blocked.                *)
Verify ==
    /\ phase = "ran"
    /\ VerificationDue
    /\ IF PlanThrows(request, PromptPurposes, members, borrowed)
       THEN /\ phase' = "closing" /\ result' = "threw"
            /\ UNCHANGED <<plan, round, step, blocked>>
       ELSE /\ plan' = PlanFor(request, PromptPurposes, members, borrowed)
            /\ round' = 2
            /\ step' = 0
            /\ blocked' = {}
            /\ phase' = "between steps"
            /\ UNCHANGED result
    /\ UNCHANGED <<asking, fleet, task, outcomes, history>>

Return ==
    /\ phase = "ran"
    /\ ~VerificationDue
    /\ phase' = "closing"
    /\ result' = "returned"
    /\ UNCHANGED <<asking, fleet, running, history>>

Disconnect ==
    /\ phase = "closing"
    /\ conn' = Disconnected
    /\ phase' = "done"
    /\ UNCHANGED <<asking, members, borrowed, faults, running, result, history>>

-----------------------------------------------------------------------------
Control ==
    \/ RefusePlan \/ DryRun \/ Connect
    \/ Borrow \/ NoNeedToBorrow \/ Borrowed \/ Abandon \/ NobodyToAsk
    \/ \E silent \in SUBSET members : RefuseDuplicates(silent) \/ Raised(silent)
    \/ \E i \in DOMAIN plan : StartStep(i)
    \/ FinishStep \/ FinishPlan \/ Verify \/ Return \/ Disconnect

NodeActs(n) ==
    \/ Answer(n) \/ NoAnswer(n)
    \/ \E how \in {"ok", "failed", "skipped"} : NodeFinishes(n, how)

Next == Control \/ \E n \in Node : NodeActs(n)

Spec == Init /\ [][Next]_vars

(* The event loop runs what can run.  A connection attempt ends because    *)
(* it has a timeout, and a command because the waits written into it are   *)
(* bounded and a dead connection is noticed by its keepalives.             *)
Fairness == WF_vars(Control) /\ \A n \in Node : WF_vars(NodeActs(n))

FairSpec == Spec /\ Fairness

-----------------------------------------------------------------------------
(* What a run promises                                                     *)

TypeOK ==
    /\ request \in Requests
    /\ phase \in Phase
    /\ conn \in [Node -> {"none", "connecting", "open", "failed", "closed"}]
    /\ members \subseteq Node
    /\ borrowed \in Node \union {NoNode}
    /\ faults \subseteq {"unreachable", "no-control-plane", "duplicate"}
    /\ DOMAIN plan \subseteq DOMAIN request.commands
    /\ \A i \in DOMAIN plan : plan[i] \subseteq Node
    /\ round \in {1, 2}
    /\ step \in Nat
    /\ task \in [Node -> Settled \union {"idle", "running"}]
    /\ blocked \subseteq Node
    /\ outcomes \subseteq {1, 2} \X Nat \X Node \X Settled
    /\ result \in {"none", "threw", "dry run", "returned"}
    /\ begun \subseteq {1, 2} \X Nat \X Node
    /\ ended \subseteq begun

\* Work of an earlier step of a run, or of the run before its verification.
Earlier(a, b) == a[1] < b[1] \/ (a[1] = b[1] /\ a[2] < b[2])

(* Every node finishes a step before any node starts a later one: the rule *)
(* run.ts opens with.                                                      *)
Barrier == \A a, b \in begun : Earlier(a, b) => a \in ended

(* A run not told to keep going asks nothing more of any node once one of  *)
(* them has failed, neither a later step nor the verification: it stops    *)
(* with every node in the same place.                                      *)
StopsTogether ==
    ~request.keepGoing =>
        \A o \in Failures(1), t \in begun : t[1] = 1 /\ t[2] <= o[2]

(* Once a node has failed a step of the gate, nothing outside the gate is  *)
(* asked of it, and if it is the control plane nothing is run from it on   *)
(* behalf of another node either.                                          *)
GateHolds ==
    \A o \in Failures(1), t \in begun :
        /\ request.gate # NoBundle
        /\ Cmd(o[2]).bundle = request.gate
        /\ Earlier(o, t)
        /\ Cmd(t[2]).bundle # request.gate
        => /\ t[3] # o[3]
           /\ RunsOnControlPlane(t[2]) => ControlPlaneNow # o[3]

(* A run that may change its nodes gives none of them anything to do       *)
(* unless all of them were reached, each a machine of its own and with a   *)
(* server at hand if one is needed.                                        *)
AllOrNothing ==
    begun # {} /\ ~request.partial =>
        /\ members = Asked(request)
        /\ faults = {}
        /\ NeedsControlPlane(request) => ControlPlaneNow # NoNode

(* No connection is closed under a node that is still at work on a step,   *)
(* and what that step runs from, a server for kubectl, is connected too.   *)
WorkIsConnected ==
    \A t \in begun \ ended :
        /\ conn[t[3]] = "open"
        /\ RunsOnControlPlane(t[2]) /\ ControlPlaneNow # NoNode =>
              conn[ControlPlaneNow] = "open"

(* Nothing is left connected when the run is over: a session left open     *)
(* keeps the process alive (fleet.ts, Fleet.disconnect and raiseFleet).    *)
NothingLeftOpen ==
    phase = "done" => \A n \in Node : conn[n] \notin {"open", "connecting"}

(* A run that may change its nodes keeps that promise, however it ends.    *)
ChangesLeaveNothingOpen == ~request.partial => NothingLeftOpen

(* A run that returns without a failure has done what it was asked: every  *)
(* command it wanted has finished on every node of the command's scope,    *)
(* whichever nodes those were when it was planned.                         *)
CleanMeansDone ==
    /\ result = "returned" /\ ~request.tolerant
    /\ Failures(1) = {}
    /\ faults = {}
    => \A i \in Wanted(request, request.purposes) :
          \A n \in NodesForScope(request, Cmd(i).scope, Asked(request), borrowed) :
              <<1, i, n>> \in ended

(* Verification is asked for, follows a run in which everything passed,    *)
(* and asks only questions: none of its work changes a node.               *)
VerifiesWhatPassed ==
    \A t \in begun :
        t[1] = 2 => /\ request.verify
                    /\ Failures(1) = {}
                    /\ Cmd(t[2]).purpose \in ReadOnlyPurposes \ {"settle"}

(* A check-up, which is partial and tolerant, comes back with a report     *)
(* whenever any node at all was reached.                                   *)
(* Doesn't hold, and no run checks it (README, Observed on the way).       *)
CheckupReports ==
    request.partial /\ request.tolerant /\ members # {} => result # "threw"

(* What a failure stops: a run not told to keep going asks nothing more of *)
(* any node, and one that keeps going nothing beyond the gate of the node  *)
(* that failed it, nor of another through a control plane that did.        *)
StopsAtFailures ==
    /\ StopsTogether
    /\ GateHolds

(* How a run ends: one that returns without a failure has done all it was  *)
(* asked on every node, verification only follows such a run and changes   *)
(* nothing, and a run that changes nodes leaves no session open.           *)
EndsWell ==
    /\ CleanMeansDone
    /\ VerifiesWhatPassed
    /\ ChangesLeaveNothingOpen

(* Every run comes to its end.                                             *)
Ends == <>(phase = "done")

-----------------------------------------------------------------------------
(* The inductive invariant: what must also be true for the promises above  *)
(* to be kept by every step.                                               *)

AtWork == phase \in {"between steps", "in a step", "ran", "closing"}

\* What is still connecting, and to whom, while the fleet is being raised.
ConnInv ==
    /\ phase = "asked" => \A n \in Node : conn[n] = "none"
    /\ phase = "connecting" =>
          \A n \in Node : /\ conn[n] \in {"connecting", "open", "failed"} <=> n \in Asked(request)
                         /\ conn[n] # "closed"
    /\ phase = "borrowing" =>
          /\ request.host \in request.servers
          /\ conn[request.host] \in {"connecting", "open", "failed"}
          /\ members \intersect request.servers = {}
          /\ \A n \in Node : conn[n] = "connecting" => n = request.host
    /\ phase \notin {"connecting", "borrowing"} => AllSettled

\* The fleet is connected from the moment it is gathered until it is let go.
FleetInv ==
    /\ phase \in {"asked", "connecting", "borrowing"} => borrowed = NoNode
    /\ phase \in {"asked", "connecting"} => members = {}
    /\ members \subseteq Asked(request)
    /\ AtWork \/ phase \in {"borrowing", "identifying"} =>
          /\ \A n \in members : conn[n] = "open"
          /\ borrowed # NoNode => conn[borrowed] = "open"

\* A fleet raised without a fault is the whole of what was asked for.
WholeInv ==
    /\ faults = {} =>
          /\ phase \in {"connecting", "borrowing"} =>
                \A n \in Node : conn[n] # "failed"
          /\ phase = "borrowing" => members = Asked(request)
          /\ AtWork \/ phase = "identifying" =>
                /\ members = Asked(request)
                /\ NeedsControlPlane(request) => ControlPlaneNow # NoNode
    /\ AtWork /\ ~request.partial => faults = {}
    /\ AllOrNothing

\* The work begun, the work ended and the tasks of the step at work agree.
WorkInv ==
    /\ begun # {} => AtWork \/ phase = "done"
    /\ phase = "in a step" => step \in DOMAIN plan
    /\ phase # "in a step" => begun = ended /\ task = [n \in Node |-> "idle"]
    /\ phase = "in a step" =>
          /\ begun \ ended = Work(step, {n \in Node : task[n] = "running"})
          /\ \A n \in Node : task[n] # "idle" <=> n \in plan[step]
    /\ \A t \in begun : t[1] < round \/ (t[1] = round /\ t[2] <= step)
    /\ phase \in {"between steps", "in a step"} =>
          \A i \in DOMAIN plan : plan[i] \subseteq (members \union {borrowed}) \ {NoNode}

\* What has failed, against where the run is and whom it holds back.
FailureInv ==
    /\ \A o \in outcomes : o[1] < round \/ (o[1] = round /\ o[2] <= step)
    /\ \A o \in Failures(1) :
          /\ round = 1
          /\ ~request.keepGoing => o[2] = step /\ phase \in {"ran", "closing", "done"}
          /\ Gated(o[2]) => o[3] \in blocked
    /\ GateHolds

IInv == TypeOK /\ ConnInv /\ FleetInv /\ WholeInv /\ WorkInv /\ FailureInv

-----------------------------------------------------------------------------
Positions == UNION {DOMAIN r.commands : r \in Requests}

LS == INSTANCE LockStep WITH
        Step <- Positions, over <- phase = "done"

(* A run keeps the promise of LockStep.                                    *)
ImplementsLockStep == LS!Spec
=============================================================================
