--------------------------- MODULE PipelineProofs ---------------------------
(***************************************************************************)
(* Proofs about Pipeline, for every set of nodes, bundles and machines and *)
(* every run that may be asked for.                                        *)
(***************************************************************************)
EXTENDS Pipeline, TLAPS, WellFoundedInduction

-----------------------------------------------------------------------------
(* Planning                                                                *)

(* Every set of positions has a first one.                                 *)
LEMMA LeastNatural ==
    ASSUME NEW S, S \subseteq Nat, S # {}
    PROVE  \E i \in S : \A j \in S : i <= j
<1> DEFINE R == OpToRel(<, Nat)
<1>1. IsWellFoundedOn(R, Nat)
  BY NatLessThanWellFounded
<1>2. \A x, y \in Nat : <<y, x>> \in R <=> y < x
  BY DEF OpToRel
<1> HIDE DEF R
<1>3. PICK x \in S : \A y \in S : ~(<<y, x>> \in R)
  BY <1>1, WFMin
<1>4. \A j \in S : ~(j < x)
  BY <1>2, <1>3
<1> QED
  BY <1>4

(* The control plane is one of the fleet's servers, or what was borrowed.  *)
LEMMA ControlPlaneInFleet ==
    ASSUME NEW r \in RequestType, NEW ms \in SUBSET Asked(r), NEW b
    PROVE  /\ ControlPlane(r, ms, b) \in (ms \intersect r.servers) \union {b}
           /\ ms \intersect r.servers # {} =>
                 ControlPlane(r, ms, b) \in ms \intersect r.servers
<1> DEFINE S == {i \in DOMAIN r.nodes : r.nodes[i] \in ms \intersect r.servers}
<1>1. S \subseteq Nat
  BY DEF RequestType
<1>2. CASE S = {}
  <2>1. ms \intersect r.servers = {}
    BY <1>2 DEF Asked
  <2> QED
    BY <1>2, <2>1 DEF ControlPlane
<1>3. CASE S # {}
  <2>1. \E i \in S : \A j \in S : i <= j
    <3> HIDE DEF S
    <3> QED
      BY <1>1, <1>3, LeastNatural
  <2> DEFINE first == CHOOSE i \in S : \A j \in S : i <= j
  <2>2. first \in S
    BY <2>1
  <2>3. ControlPlane(r, ms, b) = r.nodes[first]
    BY <1>3 DEF ControlPlane
  <2> QED
    BY <2>2, <2>3
<1> QED
  BY <1>2, <1>3

(* A plan only plans commands of the request, and only for nodes of the    *)
(* fleet it was made for.                                                  *)
LEMMA PlanForType ==
    ASSUME NEW r \in RequestType, NEW P \in SUBSET Purpose,
           NEW ms \in SUBSET Asked(r), NEW b \in Node \union {NoNode}
    PROVE  LET p == PlanFor(r, P, ms, b)
           IN  /\ DOMAIN p \subseteq DOMAIN r.commands
               /\ \A i \in DOMAIN p : p[i] \subseteq (ms \union {b}) \ {NoNode}
<1> DEFINE p == PlanFor(r, P, ms, b)
<1>1. DOMAIN p = Planned(r, P, ms, b)
  BY DEF PlanFor
<1>2. DOMAIN p \subseteq Wanted(r, P)
  BY <1>1 DEF Planned
<1>3. DOMAIN p \subseteq DOMAIN r.commands
  BY <1>2 DEF Wanted
<1>4. ASSUME NEW i \in DOMAIN p
      PROVE  p[i] \subseteq (ms \union {b}) \ {NoNode}
  <2>1. i \in Planned(r, P, ms, b) /\ i \in Wanted(r, P)
    BY <1>1, <1>2
  <2>2. p[i] = NodesForScope(r, r.commands[i].scope, ms, b)
    BY <2>1 DEF PlanFor
  <2>3. i \in Nat /\ r.commands[i] \in CommandType
    BY <1>3 DEF RequestType
  <2>4. i \notin Homeless(r, P, ms, b)
    BY <2>1, <2>3 DEF Planned
  <2>5. ms \subseteq Node
    BY DEF Asked, RequestType
  <2>6. CASE r.commands[i].scope = "cluster"
    <3>1. ControlPlane(r, ms, b) # NoNode
      BY <2>1, <2>4, <2>6 DEF Homeless, HasControlPlane
    <3>2. NodesForScope(r, r.commands[i].scope, ms, b) = {ControlPlane(r, ms, b)}
      BY <2>6 DEF NodesForScope
    <3> QED
      BY <2>2, <3>1, <3>2, ControlPlaneInFleet
  <2>7. CASE r.commands[i].scope # "cluster"
    <3>1. r.commands[i].scope \in {"each-server", "each-agent", "each-node"}
      BY <2>3, <2>7 DEF CommandType, Scope
    <3>2. NodesForScope(r, r.commands[i].scope, ms, b) \subseteq ms
      BY <3>1 DEF NodesForScope
    <3> QED
      BY <2>2, <2>5, <3>2, NoNodeAssumption
  <2> QED
    BY <2>6, <2>7
<1> QED
  BY <1>3, <1>4
-----------------------------------------------------------------------------
(* Type correctness                                                        *)

(* What the assumption on the requests says of the one being run.          *)
LEMMA RequestFacts ==
    ASSUME TypeOK
    PROVE  /\ request \in RequestType
           /\ Asked(request) \subseteq Node
           /\ request.host \in request.servers \union {NoNode}
           /\ request.servers \subseteq Node
           /\ DOMAIN request.commands \subseteq Nat
           /\ request.purposes \in SUBSET Purpose
<1>1. request \in RequestType
  BY RequestsAssumption DEF TypeOK
<1>2. request.host \in request.servers \union {NoNode}
  BY RequestsAssumption DEF TypeOK
<1> QED
  BY <1>1, <1>2 DEF RequestType, Asked

(* Planning for the fleet that answered gives a plan of the right type.    *)
LEMMA PlanNowType ==
    ASSUME TypeOK, FleetInv, NEW P \in SUBSET Purpose
    PROVE  LET p == PlanFor(request, P, members, borrowed)
           IN  /\ DOMAIN p \subseteq DOMAIN request.commands
               /\ \A i \in DOMAIN p : p[i] \subseteq Node
               /\ \A i \in DOMAIN p : p[i] \subseteq (members \union {borrowed}) \ {NoNode}
<1>1. request \in RequestType /\ members \in SUBSET Asked(request)
  BY RequestFacts DEF FleetInv
<1>2. borrowed \in Node \union {NoNode} /\ members \subseteq Node
  BY DEF TypeOK
<1> DEFINE p == PlanFor(request, P, members, borrowed)
<1>3. /\ DOMAIN p \subseteq DOMAIN request.commands
      /\ \A i \in DOMAIN p : p[i] \subseteq (members \union {borrowed}) \ {NoNode}
  BY <1>1, <1>2, PlanForType
<1> HIDE DEF p
<1>4. \A i \in DOMAIN p : p[i] \subseteq Node
  BY <1>2, <1>3
<1> QED
  BY <1>3, <1>4 DEF p

(* The plan on paper has the right type as well.                           *)
LEMMA PaperPlanType ==
    ASSUME TypeOK
    PROVE  LET p == PlanFor(request, request.purposes, Asked(request), PaperBorrowed(request))
           IN  /\ DOMAIN p \subseteq DOMAIN request.commands
               /\ \A i \in DOMAIN p : p[i] \subseteq Node
<1> DEFINE b == PaperBorrowed(request)
<1>1. b \in Node \union {NoNode}
  BY RequestFacts DEF PaperBorrowed
<1>2. Asked(request) \in SUBSET Asked(request) /\ Asked(request) \subseteq Node
  BY RequestFacts
<1> HIDE DEF b
<1>3. LET p == PlanFor(request, request.purposes, Asked(request), b)
      IN  /\ DOMAIN p \subseteq DOMAIN request.commands
          /\ \A i \in DOMAIN p : p[i] \subseteq (Asked(request) \union {b}) \ {NoNode}
  <2>1. request \in RequestType /\ request.purposes \in SUBSET Purpose
    BY RequestFacts
  <2> QED
    BY <1>1, <1>2, <2>1, PlanForType
<1> QED
  BY <1>1, <1>2, <1>3 DEF b

(* A node given a step begins it, is held back or is skipped: all outcomes.  *)
LEMMA WorkType ==
    ASSUME round \in {1, 2}, NEW i \in Nat, NEW who \in SUBSET Node
    PROVE  Work(i, who) \subseteq {1, 2} \X Nat \X Node
<1> SUFFICES ASSUME NEW n \in who
             PROVE  <<round, i, n>> \in {1, 2} \X Nat \X Node
  BY DEF Work
<1> QED
  OBVIOUS

(* Starting a step gives it to some of the nodes it is planned for.        *)
LEMMA StartStepWork ==
    ASSUME NEW i, StartStep(i)
    PROVE  \E who \in SUBSET plan[i] : begun' = begun \union Work(i, who)
<1>1. CASE WhyBlockedThrows(i)
  <2>1. begun' = begun \union Work(i, {})
    BY <1>1 DEF StartStep, Work
  <2> QED
    BY <2>1
<1>2. CASE ~WhyBlockedThrows(i)
  <2> DEFINE who == {n \in plan[i] : ~WhyBlocked(i, n)}
  <2>1. begun' = begun \union Work(i, who) /\ who \in SUBSET plan[i]
    BY <1>2 DEF StartStep
  <2> QED
    BY <2>1
<1> QED
  BY <1>1, <1>2

(* A command line that has just been read has the right type.               *)
LEMMA InitTypeOK == Init => TypeOK
BY DEF Init, TypeOK, Phase

(* A step of a run keeps every variable within its type.                   *)
LEMMA NextTypeOK ==
    ASSUME TypeOK, FleetInv, WorkInv, [Next]_vars
    PROVE  TypeOK'
<1> USE DEF TypeOK
<1>a. CASE RefusePlan
  BY <1>a DEF RefusePlan, asking, fleet, running, history, Phase
<1>b. CASE DryRun
  BY <1>b, PaperPlanType DEF DryRun, asking, fleet, history, Phase
<1>c. CASE Connect
  BY <1>c DEF Connect, asking, running, history, Phase
<1>d. ASSUME NEW n \in Node, Answer(n)
      PROVE  TypeOK'
  BY <1>d DEF Answer, asking, running, history, Phase
<1>e. ASSUME NEW n \in Node, NoAnswer(n)
      PROVE  TypeOK'
  BY <1>e DEF NoAnswer, asking, running, history, Phase
<1>f. CASE Borrow
  BY <1>f, RequestFacts DEF Borrow, asking, running, history, Phase, Reached
<1>g. CASE NoNeedToBorrow
  BY <1>g DEF NoNeedToBorrow, asking, running, history, Phase, Reached
<1>h. CASE Borrowed
  BY <1>h, RequestFacts DEF Borrowed, asking, running, history, Phase
<1>i. CASE Abandon
  BY <1>i DEF Abandon, GiveUp, Disconnected, asking, running, history, Phase
<1>j. ASSUME NEW silent, RefuseDuplicates(silent)
      PROVE  TypeOK'
  BY <1>j DEF RefuseDuplicates, GiveUp, Disconnected, asking, running, history, Phase
<1>k. CASE NobodyToAsk
  BY <1>k DEF NobodyToAsk, asking, fleet, running, history, Phase
<1>l. ASSUME NEW silent, Raised(silent)
      PROVE  TypeOK'
  BY <1>l, PlanNowType, RequestFacts DEF Raised, asking, history, Phase
<1>m. ASSUME NEW i \in DOMAIN plan, StartStep(i)
      PROVE  TypeOK'
  <2>1. i \in Nat /\ plan[i] \subseteq Node
    BY RequestFacts
  <2>2. begun' \subseteq {1, 2} \X Nat \X Node
    <3>1. PICK who \in SUBSET plan[i] : begun' = begun \union Work(i, who)
      BY <1>m, StartStepWork
    <3>2. Work(i, who) \subseteq {1, 2} \X Nat \X Node
      BY <2>1, WorkType
    <3> QED
      BY <3>1, <3>2
  <2>3. task' \in [Node -> Settled \union {"idle", "running"}]
    BY <1>m DEF StartStep, Settled
  <2>4. ended' \subseteq begun'
    BY <1>m DEF StartStep
  <2> QED
    BY <1>m, <2>1, <2>2, <2>3, <2>4 DEF StartStep, asking, fleet, Phase
<1>n. ASSUME NEW n \in Node, NEW how \in {"ok", "failed", "skipped"}, NodeFinishes(n, how)
      PROVE  TypeOK'
  <2>1. <<round, step, n>> \in begun
    <3>1. task[n] = "running"
      BY <1>n DEF NodeFinishes
    <3>2. phase = "in a step"
      BY <3>1 DEF WorkInv
    <3>3. begun \ ended = Work(step, {m \in Node : task[m] = "running"})
      BY <3>2 DEF WorkInv
    <3> QED
      BY <3>1, <3>3 DEF Work
  <2>2. task' \in [Node -> Settled \union {"idle", "running"}]
    BY <1>n DEF NodeFinishes, Settled
  <2>3. ended' \subseteq begun /\ begun' = begun
    BY <1>n, <2>1 DEF NodeFinishes
  <2> QED
    BY <1>n, <2>2, <2>3 DEF NodeFinishes, asking, fleet
<1>o. CASE FinishStep
  <2>1. \A n \in plan[step] : task[n] \in Settled
    <3> SUFFICES ASSUME NEW n \in plan[step]
                 PROVE  task[n] \in Settled
      OBVIOUS
    <3>1. n \in Node
      BY <1>o DEF FinishStep, WorkInv
    <3>2. task[n] \notin {"idle", "running"}
      BY <1>o, <3>1 DEF FinishStep, EveryNodeFinished, WorkInv
    <3> QED
      BY <3>1, <3>2
  <2>2. step \in DOMAIN plan /\ plan[step] \subseteq Node
    BY <1>o DEF FinishStep, WorkInv
  <2>3. {<<round, step, n, task[n]>> : n \in plan[step]} \subseteq {1, 2} \X Nat \X Node \X Settled
    <3> SUFFICES ASSUME NEW o \in {<<round, step, n, task[n]>> : n \in plan[step]}
                 PROVE  o \in {1, 2} \X Nat \X Node \X Settled
      OBVIOUS
    <3>1. PICK n \in plan[step] : o = <<round, step, n, task[n]>>
      OBVIOUS
    <3> QED
      BY <2>1, <2>2, <3>1
  <2>4. outcomes' \subseteq {1, 2} \X Nat \X Node \X Settled
    BY <1>o, <2>3 DEF FinishStep
  <2> QED
    BY <1>o, <2>4 DEF FinishStep, Failing, asking, fleet, history, Phase
<1>p. CASE FinishPlan
  BY <1>p DEF FinishPlan, asking, fleet, running, history, Phase
<1>q. CASE Verify
  <2>1. PromptPurposes \in SUBSET Purpose
    BY DEF PromptPurposes, ReadOnlyPurposes
  <2>2. UNCHANGED <<request, conn, members, borrowed, faults, task, outcomes, begun, ended>>
    BY <1>q DEF Verify, asking, fleet, history
  <2>3. CASE PlanThrows(request, PromptPurposes, members, borrowed)
    BY <1>q, <2>2, <2>3 DEF Verify, Phase
  <2>4. CASE ~PlanThrows(request, PromptPurposes, members, borrowed)
    <3> DEFINE p == PlanFor(request, PromptPurposes, members, borrowed)
    <3>1. plan' = p /\ round' = 2 /\ step' = 0 /\ blocked' = {}
      BY <1>q, <2>4 DEF Verify
    <3>2. phase' = "between steps" /\ result' = result
      BY <1>q, <2>4 DEF Verify
    <3>3. /\ DOMAIN p \subseteq DOMAIN request.commands
          /\ \A i \in DOMAIN p : p[i] \subseteq Node
      BY <2>1, PlanNowType
    <3> HIDE DEF p
    <3> QED
      BY <2>2, <3>1, <3>2, <3>3 DEF Phase
  <2> QED
    BY <2>3, <2>4
<1>r. CASE Return
  BY <1>r DEF Return, asking, fleet, running, history, Phase
<1>s. CASE Disconnect
  BY <1>s DEF Disconnect, Disconnected, asking, running, history, Phase
<1>t. CASE UNCHANGED vars
  BY <1>t DEF vars
<1> HIDE DEF TypeOK
<1> QED
  BY <1>a, <1>b, <1>c, <1>d, <1>e, <1>f, <1>g, <1>h, <1>i, <1>j, <1>k, <1>l, <1>m,
     <1>n, <1>o, <1>p, <1>q, <1>r, <1>s, <1>t DEF Next, Control, NodeActs

(* Connecting is over when the fleet is identified, and stays over.        *)
LEMMA NextConnInv ==
    ASSUME TypeOK, ConnInv, FleetInv, [Next]_vars
    PROVE  ConnInv'
<1> USE DEF TypeOK, ConnInv, AllSettled
<1>a. CASE RefusePlan
  BY <1>a DEF RefusePlan, asking, fleet, running, history
<1>b. CASE DryRun
  BY <1>b DEF DryRun, asking, fleet, history
<1>c. CASE Connect
  BY <1>c DEF Connect, asking, running, history, Phase
<1>d. ASSUME NEW n \in Node, Answer(n)
      PROVE  ConnInv'
  BY <1>d, RequestFacts DEF Answer, asking, running, history
<1>e. ASSUME NEW n \in Node, NoAnswer(n)
      PROVE  ConnInv'
  BY <1>e, RequestFacts DEF NoAnswer, asking, running, history
<1>f. CASE Borrow
  <2>1. CASE request.host = NoNode
    BY <1>f, <2>1 DEF Borrow, asking, running, history
  <2>2. CASE request.host # NoNode
    <3>1. /\ phase' = "borrowing" /\ request' = request
          /\ \A n \in Node : conn[n] # "connecting"
          /\ conn' = [conn EXCEPT ![request.host] = "connecting"]
      BY <1>f, <2>2 DEF Borrow, asking
    <3>2. /\ request.host \in request.servers /\ request.host \in Node
          /\ conn \in [Node -> {"none", "connecting", "open", "failed", "closed"}]
      BY <2>2, RequestFacts
    <3>3. members' \intersect request.servers = {}
      BY <1>f DEF Borrow, LacksServer
    <3>4. /\ conn'[request.host] = "connecting"
          /\ \A n \in Node : conn'[n] = "connecting" => n = request.host
      BY <3>1, <3>2
    <3> QED
      BY <3>1, <3>2, <3>3, <3>4
  <2> QED
    BY <2>1, <2>2
<1>g. CASE NoNeedToBorrow
  BY <1>g DEF NoNeedToBorrow, asking, running, history
<1>h. CASE Borrowed
  BY <1>h DEF Borrowed, asking, running, history
<1>i. CASE Abandon
  BY <1>i DEF Abandon, GiveUp, asking, running, history, Disconnected
<1>j. ASSUME NEW silent, RefuseDuplicates(silent)
      PROVE  ConnInv'
  BY <1>j DEF RefuseDuplicates, GiveUp, asking, running, history, Disconnected
<1>k. CASE NobodyToAsk
  BY <1>k DEF NobodyToAsk, asking, fleet, running, history
<1>l. ASSUME NEW silent, Raised(silent)
      PROVE  ConnInv'
  BY <1>l DEF Raised, asking, history
<1>m. ASSUME NEW i \in DOMAIN plan, StartStep(i)
      PROVE  ConnInv'
  BY <1>m DEF StartStep, asking, fleet
<1>n. ASSUME NEW n \in Node, NEW how \in {"ok", "failed", "skipped"}, NodeFinishes(n, how)
      PROVE  ConnInv'
  BY <1>n DEF NodeFinishes, asking, fleet
<1>o. CASE FinishStep
  BY <1>o DEF FinishStep, asking, fleet, history
<1>p. CASE FinishPlan
  BY <1>p DEF FinishPlan, asking, fleet, running, history
<1>q. CASE Verify
  BY <1>q DEF Verify, asking, fleet, history
<1>r. CASE Return
  BY <1>r DEF Return, asking, fleet, running, history
<1>s. CASE Disconnect
  BY <1>s DEF Disconnect, asking, running, history, Disconnected
<1>t. CASE UNCHANGED vars
  BY <1>t DEF vars
<1> HIDE DEF TypeOK, ConnInv, AllSettled
<1> QED
  BY <1>a, <1>b, <1>c, <1>d, <1>e, <1>f, <1>g, <1>h, <1>i, <1>j, <1>k, <1>l,
     <1>m, <1>n, <1>o, <1>p, <1>q, <1>r, <1>s, <1>t DEF Next, Control, NodeActs

(* The connections of the fleet stay open until the run lets go of them.   *)
LEMMA NextFleetInv ==
    ASSUME TypeOK, ConnInv, FleetInv, [Next]_vars
    PROVE  FleetInv'
<1> USE DEF TypeOK, ConnInv, FleetInv, AtWork
<1>a. CASE RefusePlan
  BY <1>a DEF RefusePlan, asking, fleet, running, history
<1>b. CASE DryRun
  BY <1>b DEF DryRun, asking, fleet, history
<1>c. CASE Connect
  BY <1>c DEF Connect, asking, running, history
<1>d. ASSUME NEW n \in Node, Answer(n)
      PROVE  FleetInv'
  BY <1>d DEF Answer, asking, running, history
<1>e. ASSUME NEW n \in Node, NoAnswer(n)
      PROVE  FleetInv'
  BY <1>e DEF NoAnswer, asking, running, history
<1>f. CASE Borrow
  <2>1. Asked(request) \subseteq Node /\ request.host \in Node \union {NoNode}
    BY RequestFacts
  <2>2. /\ phase = "connecting" /\ members' = Reached /\ phase' \in {"borrowing", "identifying"}
        /\ UNCHANGED <<request, borrowed>> /\ borrowed = NoNode
    BY <1>f DEF Borrow, asking
  <2>3. Reached \subseteq Asked(request)
    BY <1>f DEF Borrow, Reached
  <2>4. \A n \in Reached : conn'[n] = "open"
    <3>1. CASE UNCHANGED conn
      BY <3>1 DEF Reached
    <3>2. CASE conn' = [conn EXCEPT ![request.host] = "connecting"] /\ request.host # NoNode
      <4>1. request.host \in request.servers
        BY <3>2, RequestFacts
      <4>2. request.host \notin Reached
        BY <1>f, <4>1 DEF Borrow, LacksServer
      <4> QED
        BY <3>2, <4>2 DEF Reached
    <3> QED
      BY <1>f, <3>1, <3>2 DEF Borrow
  <2> QED
    BY <2>2, <2>3, <2>4
<1>g. CASE NoNeedToBorrow
  BY <1>g DEF NoNeedToBorrow, asking, running, history, Reached, AllSettled
<1>h. CASE Borrowed
  BY <1>h, RequestFacts, NoNodeAssumption DEF Borrowed, asking, running, history, AllSettled
<1>i. CASE Abandon
  BY <1>i DEF Abandon, GiveUp, asking, running, history
<1>j. ASSUME NEW silent, RefuseDuplicates(silent)
      PROVE  FleetInv'
  BY <1>j DEF RefuseDuplicates, GiveUp, asking, running, history
<1>k. CASE NobodyToAsk
  BY <1>k DEF NobodyToAsk, asking, fleet, running, history
<1>l. ASSUME NEW silent, Raised(silent)
      PROVE  FleetInv'
  BY <1>l DEF Raised, asking, history
<1>m. ASSUME NEW i \in DOMAIN plan, StartStep(i)
      PROVE  FleetInv'
  BY <1>m DEF StartStep, asking, fleet
<1>n. ASSUME NEW n \in Node, NEW how \in {"ok", "failed", "skipped"}, NodeFinishes(n, how)
      PROVE  FleetInv'
  BY <1>n DEF NodeFinishes, asking, fleet
<1>o. CASE FinishStep
  BY <1>o DEF FinishStep, asking, fleet, history
<1>p. CASE FinishPlan
  BY <1>p DEF FinishPlan, asking, fleet, running, history
<1>q. CASE Verify
  BY <1>q DEF Verify, asking, fleet, history
<1>r. CASE Return
  BY <1>r DEF Return, asking, fleet, running, history
<1>s. CASE Disconnect
  BY <1>s DEF Disconnect, asking, running, history
<1>t. CASE UNCHANGED vars
  BY <1>t DEF vars
<1> HIDE DEF TypeOK, ConnInv, FleetInv, AtWork
<1> QED
  BY <1>a, <1>b, <1>c, <1>d, <1>e, <1>f, <1>g, <1>h, <1>i, <1>j, <1>k, <1>l,
     <1>m, <1>n, <1>o, <1>p, <1>q, <1>r, <1>s, <1>t DEF Next, Control, NodeActs

(* What is known of any piece of work that was begun.                      *)
LEMMA BegunFacts ==
    ASSUME TypeOK, WorkInv, NEW t \in begun
    PROVE  /\ t[1] \in {1, 2} /\ t[2] \in Nat /\ t[3] \in Node
           /\ round \in {1, 2} /\ step \in Nat
           /\ t[1] < round \/ (t[1] = round /\ t[2] <= step)
<1>1. t \in {1, 2} \X Nat \X Node
  BY DEF TypeOK
<1>2. t[1] < round \/ (t[1] = round /\ t[2] <= step)
  BY DEF WorkInv
<1> QED
  BY <1>1, <1>2 DEF TypeOK

(* Taking one piece of work out of those begun leaves the others as known.  *)
LEMMA WorkWithout ==
    ASSUME NEW i, NEW who, NEW n
    PROVE  Work(i, who \ {n}) = Work(i, who) \ {<<round, i, n>>}
<1>1. ASSUME NEW t \in Work(i, who \ {n})
      PROVE  t \in Work(i, who) \ {<<round, i, n>>}
  <2>1. PICK m \in who \ {n} : t = <<round, i, m>>
    BY DEF Work
  <2>2. t[3] = m
    BY <2>1
  <2> QED
    BY <2>1, <2>2 DEF Work
<1>2. ASSUME NEW t \in Work(i, who), t # <<round, i, n>>
      PROVE  t \in Work(i, who \ {n})
  BY <1>2 DEF Work
<1> QED
  BY <1>1, <1>2

(* What doesn't touch the work, outside a step, leaves it in agreement.     *)
LEMMA QuietWorkInv ==
    ASSUME WorkInv,
           UNCHANGED <<round, step, task, begun, ended>>,
           phase # "in a step", phase' # "in a step",
           begun # {} => AtWork' \/ phase' = "done",
           phase' = "between steps" =>
              \A i \in DOMAIN plan' :
                 plan'[i] \subseteq (members' \union {borrowed'}) \ {NoNode}
    PROVE  WorkInv'
BY DEF WorkInv, Work

(* Nodes are connected to only while the fleet is being raised.            *)
LEMMA ConnectingPhase ==
    ASSUME ConnInv, NEW n \in Node, conn[n] = "connecting"
    PROVE  phase \in {"connecting", "borrowing"}
BY DEF ConnInv, AllSettled

(* Work, tasks and the step at work stay in agreement.                     *)
LEMMA NextWorkInv ==
    ASSUME TypeOK, ConnInv, FleetInv, WorkInv, [Next]_vars
    PROVE  WorkInv'
<1>a. CASE RefusePlan
  BY <1>a, QuietWorkInv DEF RefusePlan, asking, fleet, running, history, WorkInv, AtWork
<1>b. CASE DryRun
  <2>1. UNCHANGED <<round, step, task, begun, ended>>
    BY <1>b DEF DryRun, history
  <2> QED
    BY <1>b, <2>1, QuietWorkInv DEF DryRun
<1>c. CASE Connect
  BY <1>c, QuietWorkInv DEF Connect, asking, running, history, WorkInv, AtWork
<1>d. ASSUME NEW n \in Node, Answer(n)
      PROVE  WorkInv'
  BY <1>d, ConnectingPhase, QuietWorkInv DEF Answer, asking, running, history, WorkInv, AtWork
<1>e. ASSUME NEW n \in Node, NoAnswer(n)
      PROVE  WorkInv'
  BY <1>e, ConnectingPhase, QuietWorkInv DEF NoAnswer, asking, running, history, WorkInv, AtWork
<1>f. CASE Borrow
  BY <1>f, QuietWorkInv DEF Borrow, asking, running, history, WorkInv, AtWork
<1>g. CASE NoNeedToBorrow
  BY <1>g, QuietWorkInv DEF NoNeedToBorrow, asking, running, history, WorkInv, AtWork
<1>h. CASE Borrowed
  BY <1>h, QuietWorkInv DEF Borrowed, asking, running, history, WorkInv, AtWork
<1>i. CASE Abandon
  BY <1>i, QuietWorkInv DEF Abandon, GiveUp, asking, running, history, WorkInv, AtWork
<1>j. ASSUME NEW silent, RefuseDuplicates(silent)
      PROVE  WorkInv'
  BY <1>j, QuietWorkInv DEF RefuseDuplicates, GiveUp, asking, running, history, WorkInv, AtWork
<1>k. CASE NobodyToAsk
  BY <1>k, QuietWorkInv DEF NobodyToAsk, asking, fleet, running, history, WorkInv, AtWork
<1>l. ASSUME NEW silent, Raised(silent)
      PROVE  WorkInv'
  <2>1. UNCHANGED <<request, members, borrowed, round, step, task, begun, ended>>
    BY <1>l DEF Raised, asking, history
  <2>2. begun = {}
    BY <1>l DEF Raised, WorkInv, AtWork
  <2>3. request.purposes \in SUBSET Purpose
    BY RequestFacts
  <2>4. CASE phase' = "between steps"
    <3> DEFINE p == PlanFor(request, request.purposes, members, borrowed)
    <3>1. plan' = p
      BY <1>l, <2>4 DEF Raised
    <3>2. \A i \in DOMAIN p : p[i] \subseteq (members \union {borrowed}) \ {NoNode}
      BY <2>3, PlanNowType
    <3> HIDE DEF p
    <3> QED
      BY <1>l, <2>1, <2>2, <2>4, <3>1, <3>2, QuietWorkInv DEF Raised
  <2>5. CASE phase' # "between steps"
    BY <1>l, <2>1, <2>2, <2>5, QuietWorkInv DEF Raised
  <2> QED
    BY <2>4, <2>5
<1>m. ASSUME NEW i \in DOMAIN plan, StartStep(i)
      PROVE  WorkInv'
  <2>1. CASE WhyBlockedThrows(i)
    <3>1. UNCHANGED <<round, step, task, begun, ended>>
      BY <1>m, <2>1 DEF StartStep
    <3> QED
      BY <1>m, <2>1, <3>1, QuietWorkInv DEF StartStep, AtWork
  <2>2. CASE ~WhyBlockedThrows(i)
    <3> DEFINE who == {n \in plan[i] : ~WhyBlocked(i, n)}
    <3>1. /\ phase' = "in a step" /\ step' = i
          /\ begun' = begun \union Work(i, who)
          /\ UNCHANGED <<members, borrowed, plan, round, ended>>
      BY <1>m, <2>2 DEF StartStep, fleet
    <3>2. \A n \in Node :
             /\ task'[n] = "running" <=> n \in who
             /\ task'[n] # "idle" <=> n \in plan[i]
      BY <1>m, <2>2 DEF StartStep
    <3>3. who \subseteq Node /\ i \in Nat /\ step < i
      BY <1>m, RequestFacts DEF TypeOK, StartStep, IsNextStep
    <3>4. begun = ended
      BY <1>m DEF StartStep, WorkInv
    <3> HIDE DEF who
    <3>5. who = {n \in Node : task'[n] = "running"}
      BY <3>2, <3>3
    <3>6. begun \intersect Work(i, who) = {}
      <4> SUFFICES ASSUME NEW t \in begun, t \in Work(i, who)
                   PROVE  FALSE
        OBVIOUS
      <4>1. t[1] = round /\ t[2] = i
        BY DEF Work
      <4> QED
        BY <3>3, <4>1, BegunFacts
    <3>7. begun' \ ended' = Work(i, who)
      BY <3>1, <3>4, <3>6
    <3>8. Work(i, who) = Work(step, {n \in Node : task[n] = "running"})'
      BY <3>1, <3>5 DEF Work
    <3>9. \A t \in begun' : t[1] < round' \/ (t[1] = round' /\ t[2] <= step')
      <4> SUFFICES ASSUME NEW t \in begun'
                   PROVE  t[1] < round' \/ (t[1] = round' /\ t[2] <= step')
        OBVIOUS
      <4>1. CASE t \in begun
        <5>1. round' = round /\ step' = i /\ step < i /\ i \in Nat
          BY <3>1, <3>3
        <5>2. t[1] < round \/ (t[1] = round /\ t[2] <= step)
          BY <4>1, BegunFacts
        <5>3. t[2] \in Nat /\ step \in Nat
          BY <4>1, BegunFacts
        <5> QED
          BY <5>1, <5>2, <5>3
      <4>2. CASE t \in Work(i, who)
        <5>1. t[1] = round /\ t[2] = i
          BY <4>2 DEF Work
        <5>2. round' = round /\ step' = i /\ i \in Nat
          BY <3>1, <3>3
        <5> QED
          BY <5>1, <5>2
      <4> QED
        BY <3>1, <4>1, <4>2
    <3>10. \A j \in DOMAIN plan' : plan'[j] \subseteq (members' \union {borrowed'}) \ {NoNode}
      BY <1>m, <3>1 DEF StartStep, WorkInv
    <3>11. step' \in DOMAIN plan' /\ plan'[step'] = plan[i]
      BY <3>1
    <3> QED
      BY <3>1, <3>2, <3>7, <3>8, <3>9, <3>10, <3>11 DEF WorkInv, AtWork
  <2> QED
    BY <2>1, <2>2
<1>n. ASSUME NEW n \in Node, NEW how \in {"ok", "failed", "skipped"}, NodeFinishes(n, how)
      PROVE  WorkInv'
  <2>1. phase = "in a step"
    BY <1>n DEF NodeFinishes, WorkInv
  <2>2. UNCHANGED <<phase, members, borrowed, plan, round, step, begun>>
    BY <1>n DEF NodeFinishes, fleet
  <2>3. task' = [task EXCEPT ![n] = how] /\ how \notin {"running", "idle"} /\ task[n] = "running"
    BY <1>n DEF NodeFinishes
  <2>4. begun' \ ended' = (begun \ ended) \ {<<round, step, n>>}
    BY <1>n DEF NodeFinishes
  <2>5. {m \in Node : task'[m] = "running"} = {m \in Node : task[m] = "running"} \ {n}
    BY <2>3 DEF TypeOK
  <2>6. begun' \ ended' = Work(step, {m \in Node : task'[m] = "running"})
    <3>1. begun \ ended = Work(step, {m \in Node : task[m] = "running"})
      BY <2>1 DEF WorkInv
    <3> QED
      <4> DEFINE busy == {m \in Node : task[m] = "running"}
      <4>1. Work(step, busy \ {n}) = Work(step, busy) \ {<<round, step, n>>}
        BY WorkWithout
      <4>2. {m \in Node : task'[m] = "running"} = busy \ {n} /\ begun \ ended = Work(step, busy)
        BY <2>5, <3>1
      <4> HIDE DEF busy
      <4> QED
        BY <2>4, <4>1, <4>2
  <2>7. Work(step, {m \in Node : task'[m] = "running"})
           = Work(step, {m \in Node : task[m] = "running"})'
    BY <2>2 DEF Work
  <2>8. \A m \in Node : task'[m] # "idle" <=> m \in plan'[step']
    BY <2>1, <2>2, <2>3 DEF WorkInv, TypeOK
  <2> QED
    BY <2>1, <2>2, <2>6, <2>7, <2>8 DEF WorkInv, AtWork
<1>o. CASE FinishStep
  <2>1. phase = "in a step" /\ phase' \in {"ran", "between steps"}
    BY <1>o DEF FinishStep
  <2>2. UNCHANGED <<members, borrowed, plan, round, step, begun, ended>>
    BY <1>o DEF FinishStep, fleet, history
  <2>3. {n \in Node : task[n] = "running"} = {}
    BY <1>o DEF FinishStep, EveryNodeFinished
  <2>4. begun \ ended = {}
    BY <2>1, <2>3 DEF WorkInv, Work
  <2>5. begun = ended
    BY <2>4 DEF TypeOK
  <2>6. task' = [n \in Node |-> "idle"]
    BY <1>o DEF FinishStep
  <2> QED
    BY <2>1, <2>2, <2>5, <2>6 DEF WorkInv, AtWork
<1>p. CASE FinishPlan
  BY <1>p, QuietWorkInv DEF FinishPlan, asking, fleet, running, history, WorkInv, AtWork
<1>q. CASE Verify
  <2>1. UNCHANGED <<request, members, borrowed, task, begun, ended>> /\ phase = "ran"
    BY <1>q DEF Verify, asking, fleet, history
  <2>2. CASE PlanThrows(request, PromptPurposes, members, borrowed)
    <3>1. UNCHANGED <<round, step, task, begun, ended>> /\ phase' = "closing"
      BY <1>q, <2>1, <2>2 DEF Verify
    <3> QED
      BY <2>1, <3>1, QuietWorkInv DEF AtWork
  <2>3. CASE ~PlanThrows(request, PromptPurposes, members, borrowed)
    <3> DEFINE p == PlanFor(request, PromptPurposes, members, borrowed)
    <3>1. plan' = p /\ round' = 2 /\ phase' = "between steps" /\ round = 1
      BY <1>q, <2>3 DEF Verify, VerificationDue
    <3>2. \A i \in DOMAIN p : p[i] \subseteq (members \union {borrowed}) \ {NoNode}
      BY PlanNowType DEF PromptPurposes, ReadOnlyPurposes
    <3> HIDE DEF p
    <3>3. \A t \in begun' : t[1] < round'
      <4>1. begun' = begun /\ round' = 2 /\ round = 1
        BY <2>1, <3>1
      <4>2. \A t \in begun : t[1] \in {1, 2} /\ (t[1] < round \/ t[1] = round)
        BY BegunFacts
      <4> QED
        BY <4>1, <4>2
    <3> QED
      BY <2>1, <3>1, <3>2, <3>3 DEF WorkInv, AtWork
  <2> QED
    BY <2>2, <2>3
<1>r. CASE Return
  BY <1>r, QuietWorkInv DEF Return, asking, fleet, running, history, WorkInv, AtWork
<1>s. CASE Disconnect
  BY <1>s, QuietWorkInv DEF Disconnect, asking, running, history, WorkInv, AtWork
<1>t. CASE UNCHANGED vars
  <2>1. UNCHANGED <<phase, members, borrowed, plan, round, step, task, begun, ended>>
    BY <1>t DEF vars
  <2>2. Work(step, {n \in Node : task[n] = "running"})
           = Work(step, {n \in Node : task[n] = "running"})'
    BY <2>1 DEF Work
  <2> QED
    BY <2>1, <2>2 DEF WorkInv, AtWork
<1> QED
  BY <1>a, <1>b, <1>c, <1>d, <1>e, <1>f, <1>g, <1>h, <1>i, <1>j, <1>k, <1>l,
     <1>m, <1>n, <1>o, <1>p, <1>q, <1>r, <1>s, <1>t DEF Next, Control, NodeActs

(* Nothing is begun before the fleet is up.                                *)
LEMMA NothingBegunYet ==
    ASSUME WorkInv, phase \in {"asked", "connecting", "borrowing", "identifying"}
    PROVE  begun = {}
BY DEF WorkInv, AtWork

(* A fleet with one of the servers in it has a control plane.              *)
LEMMA ServerMakesControlPlane ==
    ASSUME NEW r \in RequestType, NEW ms \in SUBSET Asked(r), NEW b,
           ms \intersect r.servers # {} \/ b \in Node
    PROVE  ControlPlane(r, ms, b) # NoNode
<1>1. ms \subseteq Node
  BY DEF Asked, RequestType
<1>2. ControlPlane(r, ms, b) \in Node
  BY <1>1, ControlPlaneInFleet
<1> QED
  BY <1>2, NoNodeAssumption

(* Once the fleet is up, what is known of it stays so.                     *)
LEMMA QuietWholeInv ==
    ASSUME WholeInv, UNCHANGED <<request, members, borrowed, faults>>,
           AtWork \/ begun' = begun,
           phase' \notin {"connecting", "borrowing"},
           AtWork' \/ phase' = "identifying" => AtWork \/ phase = "identifying",
           AtWork' => AtWork \/ request.partial \/ faults = {}
    PROVE  WholeInv'
BY DEF WholeInv, AllOrNothing, ControlPlaneNow

(* A fleet is whole unless a fault says otherwise.                         *)
LEMMA NextWholeInv ==
    ASSUME TypeOK, ConnInv, FleetInv, WorkInv, WholeInv, [Next]_vars
    PROVE  WholeInv'
<1>a. CASE RefusePlan
  BY <1>a, QuietWholeInv DEF RefusePlan, asking, fleet, running, history, AtWork
<1>b. CASE DryRun
  BY <1>b, QuietWholeInv DEF DryRun, asking, fleet, history, AtWork
<1>c. CASE Connect
  BY <1>c, NothingBegunYet DEF Connect, asking, running, history, WholeInv, AtWork, AllOrNothing
<1>d. ASSUME NEW n \in Node, Answer(n)
      PROVE  WholeInv'
  <2>1. phase \in {"connecting", "borrowing"} /\ begun = {}
    BY <1>d, ConnectingPhase, NothingBegunYet DEF Answer
  <2>2. conn' = [conn EXCEPT ![n] = "open"]
    BY <1>d DEF Answer
  <2>3. UNCHANGED <<request, phase, members, borrowed, faults, begun>>
    BY <1>d DEF Answer, asking, history
  <2> QED
    BY <2>1, <2>2, <2>3 DEF WholeInv, AtWork, AllOrNothing, TypeOK
<1>e. ASSUME NEW n \in Node, NoAnswer(n)
      PROVE  WholeInv'
  <2>1. phase \in {"connecting", "borrowing"} /\ begun = {}
    BY <1>e, ConnectingPhase, NothingBegunYet DEF NoAnswer
  <2>2. faults' # {} /\ UNCHANGED <<phase, begun>>
    BY <1>e DEF NoAnswer, history
  <2> QED
    BY <2>1, <2>2 DEF WholeInv, AtWork, AllOrNothing
<1>f. CASE Borrow
  <2>1. begun' = {} /\ phase = "connecting" /\ members' = Reached /\ request' = request
    BY <1>f, NothingBegunYet DEF Borrow, history, asking
  <2>2. ASSUME faults' = {}
        PROVE  /\ members' = Asked(request)
               /\ \A n \in Node : conn'[n] # "failed"
               /\ phase' = "borrowing"
    <3>1. faults = {} /\ request.host # NoNode
      BY <1>f, <2>2 DEF Borrow
    <3>2. \A n \in Node : conn[n] # "failed"
      BY <2>1, <3>1 DEF WholeInv
    <3>3. Reached = Asked(request)
      BY <1>f, <2>1, <3>2, RequestFacts DEF Borrow, AllSettled, Reached, ConnInv
    <3>4. phase' = "borrowing" /\ conn' = [conn EXCEPT ![request.host] = "connecting"]
      BY <1>f, <3>1 DEF Borrow
    <3> QED
      BY <2>1, <3>2, <3>3, <3>4 DEF TypeOK
  <2>3. phase' \in {"borrowing", "identifying"}
    BY <1>f DEF Borrow
  <2> QED
    BY <2>1, <2>2, <2>3 DEF WholeInv, AtWork, AllOrNothing
<1>g. CASE NoNeedToBorrow
  <2>1. /\ begun' = {} /\ phase = "connecting" /\ phase' = "identifying"
        /\ members' = Reached /\ UNCHANGED <<request, borrowed, faults>>
    BY <1>g, NothingBegunYet DEF NoNeedToBorrow, history, asking
  <2>2. ASSUME faults = {}
        PROVE  Reached = Asked(request)
    <3>1. \A n \in Node : conn[n] # "failed"
      BY <2>1, <2>2 DEF WholeInv
    <3> QED
      BY <1>g, <2>1, <3>1, RequestFacts DEF NoNeedToBorrow, AllSettled, Reached, ConnInv
  <2>3. ASSUME faults = {}, NeedsControlPlane(request)
        PROVE  ControlPlane(request, members', borrowed) # NoNode
    <3>1. Reached \intersect request.servers # {}
      BY <1>g, <2>3 DEF NoNeedToBorrow, LacksServer
    <3> QED
      BY <2>1, <2>2, <2>3, <3>1, RequestFacts, ServerMakesControlPlane
  <2> QED
    BY <2>1, <2>2, <2>3 DEF WholeInv, AtWork, AllOrNothing, ControlPlaneNow
<1>h. CASE Borrowed
  <2>1. /\ begun' = {} /\ phase = "borrowing" /\ phase' = "identifying"
        /\ borrowed' = IF conn[request.host] = "open" THEN request.host ELSE NoNode
        /\ UNCHANGED <<request, members, faults>>
    BY <1>h, NothingBegunYet DEF Borrowed, history, asking
  <2>2. request.host \in Node
    BY <2>1, RequestFacts DEF ConnInv
  <2>3. ASSUME faults = {}
        PROVE  borrowed' \in Node
    <3>1. conn[request.host] # "failed" /\ conn[request.host] # "connecting"
      BY <1>h, <2>1, <2>2, <2>3 DEF WholeInv, Borrowed, AllSettled
    <3>2. conn[request.host] \in {"connecting", "open", "failed"}
      BY <2>1 DEF ConnInv
    <3> QED
      BY <2>1, <2>2, <3>1, <3>2
  <2>4. ASSUME faults = {}
        PROVE  ControlPlane(request, members, borrowed') # NoNode
    <3>1. members \in SUBSET Asked(request)
      BY DEF FleetInv
    <3> QED
      BY <2>3, <2>4, <3>1, RequestFacts, ServerMakesControlPlane
  <2> QED
    BY <2>1, <2>4 DEF WholeInv, AtWork, AllOrNothing, ControlPlaneNow
<1>i. CASE Abandon
  BY <1>i, NothingBegunYet DEF Abandon, GiveUp, asking, history, WholeInv, AtWork, AllOrNothing
<1>j. ASSUME NEW silent, RefuseDuplicates(silent)
      PROVE  WholeInv'
  BY <1>j, NothingBegunYet DEF RefuseDuplicates, GiveUp, asking, history, WholeInv, AtWork, AllOrNothing
<1>k. CASE NobodyToAsk
  BY <1>k, QuietWholeInv DEF NobodyToAsk, asking, fleet, running, history, AtWork
<1>l. ASSUME NEW silent, Raised(silent)
      PROVE  WholeInv'
  <2>1. /\ begun' = {} /\ phase = "identifying" /\ AtWork'
        /\ phase' \in {"between steps", "closing"}
        /\ UNCHANGED <<request, members, borrowed>>
    BY <1>l, NothingBegunYet DEF Raised, history, asking, AtWork
  <2>2. faults' = {} => faults = {}
    BY <1>l DEF Raised
  <2>3. ~request.partial => faults' = {}
    BY <1>l DEF Raised, MayCarryOn
  <2> QED
    BY <2>1, <2>2, <2>3 DEF WholeInv, AllOrNothing, ControlPlaneNow, AtWork
<1>m. ASSUME NEW i \in DOMAIN plan, StartStep(i)
      PROVE  WholeInv'
  BY <1>m, QuietWholeInv DEF StartStep, asking, fleet, AtWork
<1>n. ASSUME NEW n \in Node, NEW how \in {"ok", "failed", "skipped"}, NodeFinishes(n, how)
      PROVE  WholeInv'
  <2>1. phase = "in a step"
    BY <1>n DEF NodeFinishes, WorkInv
  <2> QED
    BY <1>n, <2>1, QuietWholeInv DEF NodeFinishes, asking, fleet, AtWork
<1>o. CASE FinishStep
  BY <1>o, QuietWholeInv DEF FinishStep, asking, fleet, history, AtWork
<1>p. CASE FinishPlan
  BY <1>p, QuietWholeInv DEF FinishPlan, asking, fleet, running, history, AtWork
<1>q. CASE Verify
  BY <1>q, QuietWholeInv DEF Verify, asking, fleet, history, AtWork
<1>r. CASE Return
  BY <1>r, QuietWholeInv DEF Return, asking, fleet, running, history, AtWork
<1>s. CASE Disconnect
  BY <1>s, QuietWholeInv DEF Disconnect, asking, running, history, AtWork
<1>t. CASE UNCHANGED vars
  BY <1>t DEF vars, WholeInv, AllOrNothing, ControlPlaneNow, AtWork
<1> QED
  BY <1>a, <1>b, <1>c, <1>d, <1>e, <1>f, <1>g, <1>h, <1>i, <1>j, <1>k, <1>l,
     <1>m, <1>n, <1>o, <1>p, <1>q, <1>r, <1>s, <1>t DEF Next, Control, NodeActs

(* What says nothing new of a failure, and begins no work, leaves the      *)
(* failures where they are.                                                *)
LEMMA QuietFailureInv ==
    ASSUME FailureInv, UNCHANGED <<request, round, step, blocked, outcomes, begun>>,
           \/ phase' \in {"ran", "closing", "done"}
           \/ phase \notin {"ran", "closing", "done"},
           begun = {} \/ UNCHANGED <<members, borrowed>>
    PROVE  FailureInv'
<1>1. Failures(1)' = Failures(1)
  BY DEF Failures
<1>2. \A o \in outcomes' : o[1] < round' \/ (o[1] = round' /\ o[2] <= step')
  BY DEF FailureInv
<1>3. \A o \in Failures(1)' :
         /\ round' = 1
         /\ ~request'.keepGoing => o[2] = step' /\ phase' \in {"ran", "closing", "done"}
         /\ Gated(o[2])' => o[3] \in blocked'
  BY <1>1 DEF FailureInv, Gated, Cmd
<1>4. GateHolds'
  BY <1>1 DEF FailureInv, GateHolds, Cmd, RunsOnControlPlane, ControlPlaneNow
<1> QED
  BY <1>2, <1>3, <1>4 DEF FailureInv

(* What is known of any outcome, and of any failure.                       *)
LEMMA OutcomeFacts ==
    ASSUME TypeOK, FailureInv, NEW o \in outcomes
    PROVE  /\ o[1] \in {1, 2} /\ o[2] \in Nat /\ o[3] \in Node
           /\ o[1] < round \/ (o[1] = round /\ o[2] <= step)
<1>1. o \in {1, 2} \X Nat \X Node \X Settled
  BY DEF TypeOK
<1>2. o[1] < round \/ (o[1] = round /\ o[2] <= step)
  BY DEF FailureInv
<1> QED
  BY <1>1, <1>2

(* What is known of any failure: its place, its bundle and its node.        *)
LEMMA FailureFacts ==
    ASSUME FailureInv, NEW o \in Failures(1)
    PROVE  /\ o \in outcomes /\ o[1] = 1 /\ o[4] = "failed"
           /\ round = 1
           /\ ~request.keepGoing => o[2] = step /\ phase \in {"ran", "closing", "done"}
           /\ Gated(o[2]) => o[3] \in blocked
<1>1. o \in outcomes /\ o[1] = 1 /\ o[4] = "failed"
  BY DEF Failures
<1> QED
  BY <1>1 DEF FailureInv

(* Failures stay behind the run, and hold back whom they should.           *)
LEMMA NextFailureInv ==
    ASSUME TypeOK, ConnInv, WorkInv, FailureInv, [Next]_vars
    PROVE  FailureInv'
<1>a. CASE RefusePlan
  BY <1>a, NothingBegunYet, QuietFailureInv DEF RefusePlan, asking, fleet, running, history, running
<1>b. CASE DryRun
  BY <1>b, NothingBegunYet, QuietFailureInv DEF DryRun, asking, fleet, history
<1>c. CASE Connect
  BY <1>c, NothingBegunYet, QuietFailureInv DEF Connect, asking, running, history, running
<1>d. ASSUME NEW n \in Node, Answer(n)
      PROVE  FailureInv'
  BY <1>d, ConnectingPhase, NothingBegunYet, QuietFailureInv DEF Answer, asking, running, history
<1>e. ASSUME NEW n \in Node, NoAnswer(n)
      PROVE  FailureInv'
  BY <1>e, ConnectingPhase, NothingBegunYet, QuietFailureInv DEF NoAnswer, asking, running, history
<1>f. CASE Borrow
  BY <1>f, NothingBegunYet, QuietFailureInv DEF Borrow, asking, running, history, running
<1>g. CASE NoNeedToBorrow
  BY <1>g, NothingBegunYet, QuietFailureInv DEF NoNeedToBorrow, asking, running, history, running
<1>h. CASE Borrowed
  BY <1>h, NothingBegunYet, QuietFailureInv DEF Borrowed, asking, running, history, running
<1>i. CASE Abandon
  BY <1>i, NothingBegunYet, QuietFailureInv DEF Abandon, GiveUp, asking, running, history, running
<1>j. ASSUME NEW silent, RefuseDuplicates(silent)
      PROVE  FailureInv'
  BY <1>j, NothingBegunYet, QuietFailureInv DEF RefuseDuplicates, GiveUp, asking, running, history, running
<1>k. CASE NobodyToAsk
  BY <1>k, NothingBegunYet, QuietFailureInv DEF NobodyToAsk, asking, fleet, running, history, running
<1>l. ASSUME NEW silent, Raised(silent)
      PROVE  FailureInv'
  BY <1>l, NothingBegunYet, QuietFailureInv DEF Raised, asking, history
<1>m. ASSUME NEW i \in DOMAIN plan, StartStep(i)
      PROVE  FailureInv'
  <2>1. CASE WhyBlockedThrows(i)
    BY <1>m, <2>1, QuietFailureInv DEF StartStep, asking, fleet
  <2>2. CASE ~WhyBlockedThrows(i)
    <3> DEFINE who == {n \in plan[i] : ~WhyBlocked(i, n)}
    <3>1. /\ phase = "between steps" /\ step' = i
          /\ begun' = begun \union Work(i, who)
          /\ request' = request /\ members' = members /\ borrowed' = borrowed
          /\ round' = round /\ blocked' = blocked /\ outcomes' = outcomes
      BY <1>m, <2>2 DEF StartStep, asking, fleet
    <3>2. i \in Nat /\ step < i
      BY <1>m, RequestFacts DEF TypeOK, StartStep, IsNextStep
    <3>3. Failures(1)' = Failures(1)
      BY <3>1 DEF Failures
    <3>4. \A o \in outcomes' : o[1] < round' \/ (o[1] = round' /\ o[2] <= step')
      <4> SUFFICES ASSUME NEW o \in outcomes
                   PROVE  o[1] < round \/ (o[1] = round /\ o[2] <= i)
        BY <3>1
      <4>1. o[2] \in Nat /\ (o[1] < round \/ (o[1] = round /\ o[2] <= step))
        BY OutcomeFacts
      <4>2. step \in Nat
        BY DEF TypeOK
      <4> QED
        BY <3>2, <4>1, <4>2
    <3>5. \A o \in Failures(1)' :
             /\ round' = 1
             /\ ~request'.keepGoing => o[2] = step' /\ phase' \in {"ran", "closing", "done"}
             /\ Gated(o[2])' => o[3] \in blocked'
      BY <3>1, <3>3, FailureFacts DEF Gated, Cmd
    <3>6. GateHolds'
      <4> SUFFICES ASSUME NEW o \in Failures(1), NEW t \in begun',
                          request.gate # NoBundle, Cmd(o[2]).bundle = request.gate,
                          Earlier(o, t), Cmd(t[2]).bundle # request.gate
                   PROVE  /\ t[3] # o[3]
                          /\ RunsOnControlPlane(t[2]) => ControlPlaneNow # o[3]
        BY <3>1, <3>3 DEF GateHolds, Cmd, RunsOnControlPlane, ControlPlaneNow
      <4>1. CASE t \in begun
        BY <4>1 DEF FailureInv, GateHolds
      <4>2. CASE t \in Work(i, who)
        <5>1. PICK n \in who : t = <<round, i, n>>
          BY <4>2 DEF Work
        <5>2. t[2] = i /\ t[3] = n /\ ~WhyBlocked(i, n)
          BY <5>1
        <5>3. o[3] \in blocked
          BY FailureFacts DEF Gated
        <5>4. ~Gated(i)
          BY <5>2 DEF Gated
        <5> QED
          BY <5>2, <5>3, <5>4 DEF WhyBlocked
      <4> QED
        BY <3>1, <4>1, <4>2
    <3> QED
      BY <3>4, <3>5, <3>6 DEF FailureInv
  <2> QED
    BY <2>1, <2>2
<1>n. ASSUME NEW n \in Node, NEW how \in {"ok", "failed", "skipped"}, NodeFinishes(n, how)
      PROVE  FailureInv'
  <2>1. phase = "in a step"
    BY <1>n DEF NodeFinishes, WorkInv
  <2> QED
    BY <1>n, <2>1, QuietFailureInv DEF NodeFinishes, asking, fleet
<1>o. CASE FinishStep
  <2>1. /\ phase = "in a step" /\ step \in DOMAIN plan /\ plan[step] \subseteq Node
        /\ request' = request /\ members' = members /\ borrowed' = borrowed
        /\ round' = round /\ step' = step /\ begun' = begun
    BY <1>o DEF FinishStep, asking, fleet, history, WorkInv, TypeOK
  <2> DEFINE new == {<<round, step, n, task[n]>> : n \in plan[step]}
  <2>2. outcomes' = outcomes \union new
    BY <1>o DEF FinishStep
  <2>3. ASSUME NEW o \in new
        PROVE  /\ o[1] = round /\ o[2] = step /\ o[3] \in Node
               /\ o[4] = "failed" => o[3] \in Failing
    <3>1. PICK n \in plan[step] : o = <<round, step, n, task[n]>>
      OBVIOUS
    <3>2. o[1] = round /\ o[2] = step /\ o[3] = n /\ o[4] = task[n]
      BY <3>1
    <3>3. n \in Node
      BY <2>1
    <3> QED
      BY <3>2, <3>3 DEF Failing
  <2>4. blocked \subseteq blocked' /\ (Gated(step) => Failing \subseteq blocked')
    BY <1>o DEF FinishStep
  <2>5. Failing # {} /\ ~request.keepGoing /\ round = 1 => phase' = "ran"
    <3>1. phase' = IF Failing # {} /\ ~KeepsGoing THEN "ran" ELSE "between steps"
      BY <1>o DEF FinishStep
    <3> QED
      BY <3>1 DEF KeepsGoing
  <2> HIDE DEF new
  <2>6. \A o \in outcomes' : o[1] < round' \/ (o[1] = round' /\ o[2] <= step')
    <3> SUFFICES ASSUME NEW o \in outcomes'
                 PROVE  o[1] < round \/ (o[1] = round /\ o[2] <= step)
      BY <2>1
    <3>1. CASE o \in outcomes
      BY <3>1 DEF FailureInv
    <3>2. CASE o \in new
      <4>1. step \in Nat /\ o[1] = round /\ o[2] = step
        BY <2>3, <3>2 DEF TypeOK
      <4> QED
        BY <4>1
    <3> QED
      BY <2>2, <3>1, <3>2
  <2>7. ASSUME NEW o \in Failures(1)'
        PROVE  o \in Failures(1) \/ (o \in new /\ round = 1 /\ o[3] \in Failing)
    <3>1. o \in outcomes' /\ o[1] = 1 /\ o[4] = "failed"
      BY DEF Failures
    <3>2. CASE o \in outcomes
      BY <3>1, <3>2 DEF Failures
    <3>3. CASE o \in new
      BY <2>3, <3>1, <3>3
    <3> QED
      BY <2>2, <3>1, <3>2, <3>3
  <2>8. \A o \in Failures(1)' :
           /\ round' = 1
           /\ ~request'.keepGoing => o[2] = step' /\ phase' \in {"ran", "closing", "done"}
           /\ Gated(o[2])' => o[3] \in blocked'
    <3> SUFFICES ASSUME NEW o \in Failures(1)'
                 PROVE  /\ round = 1
                        /\ ~request.keepGoing => o[2] = step /\ phase' = "ran"
                        /\ Gated(o[2]) => o[3] \in blocked'
      BY <2>1 DEF Gated, Cmd
    <3>1. CASE o \in Failures(1)
      BY <2>1, <2>4, <3>1, FailureFacts
    <3>2. CASE o \in new /\ round = 1 /\ o[3] \in Failing
      BY <2>3, <2>4, <2>5, <3>2
    <3> QED
      BY <2>7, <3>1, <3>2
  <2>9. GateHolds'
    <3> SUFFICES ASSUME NEW o \in Failures(1)', NEW t \in begun,
                        request.gate # NoBundle, Cmd(o[2]).bundle = request.gate,
                        Earlier(o, t), Cmd(t[2]).bundle # request.gate
                 PROVE  /\ t[3] # o[3]
                        /\ RunsOnControlPlane(t[2]) => ControlPlaneNow # o[3]
      BY <2>1 DEF GateHolds, Cmd, RunsOnControlPlane, ControlPlaneNow
    <3>1. CASE o \in Failures(1)
      BY <3>1 DEF FailureInv, GateHolds
    <3>2. CASE o \in new
      <4>1. round \in {1, 2} /\ step \in Nat /\ t[1] \in {1, 2} /\ t[2] \in Nat
        BY BegunFacts
      <4>2. t[1] < round \/ (t[1] = round /\ t[2] <= step)
        BY BegunFacts
      <4>3. round < t[1] \/ (round = t[1] /\ step < t[2])
        BY <2>3, <3>2 DEF Earlier
      <4> QED
        BY <4>1, <4>2, <4>3
    <3> QED
      BY <2>7, <3>1, <3>2
  <2> QED
    BY <2>6, <2>8, <2>9 DEF FailureInv
<1>p. CASE FinishPlan
  BY <1>p, QuietFailureInv DEF FinishPlan, asking, fleet, running, history, running
<1>q. CASE Verify
  <2>1. /\ UNCHANGED <<request, members, borrowed, outcomes, begun>>
        /\ phase = "ran" /\ round = 1 /\ Failures(1) = {}
    BY <1>q DEF Verify, VerificationDue, asking, fleet, history
  <2>2. CASE PlanThrows(request, PromptPurposes, members, borrowed)
    <3>1. UNCHANGED <<round, step, blocked>> /\ phase' = "closing"
      BY <1>q, <2>2 DEF Verify
    <3> QED
      BY <2>1, <3>1, QuietFailureInv
  <2>3. CASE ~PlanThrows(request, PromptPurposes, members, borrowed)
    <3>1. round' = 2
      BY <1>q, <2>3 DEF Verify
    <3>2. Failures(1)' = {}
      BY <2>1 DEF Failures
    <3>3. \A o \in outcomes' : o[1] < round'
      <4>1. \A o \in outcomes : o[1] \in {1, 2} /\ (o[1] < round \/ o[1] = round)
        BY OutcomeFacts
      <4>2. outcomes' = outcomes /\ round = 1
        BY <2>1
      <4> QED
        BY <3>1, <4>1, <4>2
    <3>4. GateHolds'
      BY <3>2 DEF GateHolds
    <3> QED
      BY <3>2, <3>3, <3>4 DEF FailureInv
  <2> QED
    BY <2>2, <2>3
<1>r. CASE Return
  BY <1>r, QuietFailureInv DEF Return, asking, fleet, running, history, running
<1>s. CASE Disconnect
  BY <1>s, QuietFailureInv DEF Disconnect, asking, running, history, running
<1>t. CASE UNCHANGED vars
  <2>1. UNCHANGED <<request, round, step, blocked, outcomes, begun, members, borrowed, phase>>
    BY <1>t DEF vars
  <2> QED
    BY <2>1, QuietFailureInv
<1> QED
  BY <1>a, <1>b, <1>c, <1>d, <1>e, <1>f, <1>g, <1>h, <1>i, <1>j, <1>k, <1>l,
     <1>m, <1>n, <1>o, <1>p, <1>q, <1>r, <1>s, <1>t DEF Next, Control, NodeActs

-----------------------------------------------------------------------------
(* The inductive invariant, and what follows from it                       *)

(* The inductive invariant holds of a command that has done nothing.        *)
LEMMA InitIInv == Init => IInv
<1> SUFFICES ASSUME Init
             PROVE  IInv
  OBVIOUS
<1>1. TypeOK
  BY InitTypeOK
<1>2. /\ phase = "asked" /\ conn = [n \in Node |-> "none"] /\ members = {}
      /\ borrowed = NoNode /\ faults = {} /\ begun = {} /\ ended = {}
      /\ task = [n \in Node |-> "idle"] /\ outcomes = {}
  BY DEF Init
<1>3. ConnInv /\ FleetInv
  BY <1>2 DEF ConnInv, FleetInv, AllSettled, AtWork
<1>4. WholeInv
  BY <1>2 DEF WholeInv, AllOrNothing, AtWork
<1>5. WorkInv
  BY <1>2 DEF WorkInv, AtWork
<1>6. FailureInv
  BY <1>2 DEF FailureInv, Failures, GateHolds
<1> QED
  BY <1>1, <1>3, <1>4, <1>5, <1>6 DEF IInv

(* The inductive invariant is kept by every step, and by none.              *)
LEMMA NextIInv == IInv /\ [Next]_vars => IInv'
<1> SUFFICES ASSUME IInv, [Next]_vars
             PROVE  IInv'
  OBVIOUS
<1>1. TypeOK /\ ConnInv /\ FleetInv /\ WholeInv /\ WorkInv /\ FailureInv
  BY DEF IInv
<1>2. TypeOK' /\ ConnInv' /\ FleetInv'
  BY <1>1, NextTypeOK, NextConnInv, NextFleetInv
<1>3. WholeInv' /\ WorkInv' /\ FailureInv'
  BY <1>1, NextWholeInv, NextWorkInv, NextFailureInv
<1> QED
  BY <1>2, <1>3 DEF IInv

(* The inductive invariant holds of every run.                             *)
THEOREM Invariance == Spec => []IInv
BY InitIInv, NextIInv, PTL DEF Spec

(* No variable ever leaves its type: no plan names a node that isn't in    *)
(* the configuration, and nothing is finished that was never begun.        *)
THEOREM TypeCorrect == Spec => []TypeOK
<1>1. IInv => TypeOK
  BY DEF IInv
<1> QED
  BY <1>1, Invariance, PTL

(* What is still being worked on is work of the step the run is at.        *)
LEMMA UnfinishedWork ==
    ASSUME IInv, NEW t \in begun, t \notin ended
    PROVE  /\ phase = "in a step" /\ step \in DOMAIN plan
           /\ t[1] = round /\ t[2] = step
           /\ t[3] \in Node /\ task[t[3]] = "running" /\ t[3] \in plan[step]
<1>1. phase = "in a step" /\ step \in DOMAIN plan
  BY DEF IInv, WorkInv
<1>2. t \in Work(step, {n \in Node : task[n] = "running"})
  BY <1>1 DEF IInv, WorkInv
<1>3. PICK n \in Node : task[n] = "running" /\ t = <<round, step, n>>
  BY <1>2 DEF Work
<1>4. n \in plan[step]
  BY <1>1, <1>3 DEF IInv, WorkInv
<1>5. t[1] = round /\ t[2] = step /\ t[3] = n
  BY <1>3
<1> QED
  BY <1>1, <1>3, <1>4, <1>5

(* Every node finishes a step before any node starts a later one.          *)
THEOREM LockStepHolds == Spec => []Barrier
<1>1. IInv => Barrier
  <2> SUFFICES ASSUME IInv, NEW a \in begun, NEW b \in begun, Earlier(a, b), a \notin ended
               PROVE  FALSE
    BY DEF Barrier
  <2>1. TypeOK /\ WorkInv
    BY DEF IInv
  <2>2. a[1] = round /\ a[2] = step
    BY UnfinishedWork
  <2>3. /\ round \in {1, 2} /\ step \in Nat /\ b[1] \in {1, 2} /\ b[2] \in Nat
        /\ b[1] < round \/ (b[1] = round /\ b[2] <= step)
    BY <2>1, BegunFacts
  <2>4. round < b[1] \/ (round = b[1] /\ step < b[2])
    BY <2>2 DEF Earlier
  <2> QED
    BY <2>3, <2>4
<1> QED
  BY <1>1, Invariance, PTL

(* A run not told to keep going asks nothing more once a node has failed.  *)
THEOREM StoppingHolds == Spec => []StopsTogether
<1>1. IInv => StopsTogether
  <2> SUFFICES ASSUME IInv, ~request.keepGoing, NEW o \in Failures(1), NEW t \in begun
               PROVE  t[1] = 1 /\ t[2] <= o[2]
    BY DEF StopsTogether
  <2>1. TypeOK /\ WorkInv /\ FailureInv
    BY DEF IInv
  <2>2. round = 1 /\ o[2] = step
    BY <2>1, FailureFacts
  <2>3. /\ step \in Nat /\ t[1] \in {1, 2} /\ t[2] \in Nat
        /\ t[1] < round \/ (t[1] = round /\ t[2] <= step)
    BY <2>1, BegunFacts
  <2> QED
    BY <2>2, <2>3
<1> QED
  BY <1>1, Invariance, PTL

(* A node that failed the gate is asked nothing outside it, nor is         *)
(* anything run from it for another node.                                  *)
THEOREM GateIsKept == Spec => []GateHolds
<1>1. IInv => GateHolds
  BY DEF IInv, FailureInv
<1> QED
  BY <1>1, Invariance, PTL

(* Whatever fails, no more is asked than a failure leaves: of any node     *)
(* without keepGoing, of the node itself behind the gate with it.          *)
THEOREM FailuresStop == Spec => []StopsAtFailures
<1>1. StopsTogether /\ GateHolds => StopsAtFailures
  BY DEF StopsAtFailures
<1> QED
  BY <1>1, StoppingHolds, GateIsKept, PTL

(* A run that may change its nodes starts on all of them or on none.       *)
THEOREM WholeFleetOrNothing == Spec => []AllOrNothing
<1>1. IInv => AllOrNothing
  BY DEF IInv, WholeInv
<1> QED
  BY <1>1, Invariance, PTL

(* Whoever is at work on a step is connected, and so is the server the     *)
(* step runs from.                                                         *)
THEOREM WorkersAreConnected == Spec => []WorkIsConnected
<1>1. IInv => WorkIsConnected
  <2> SUFFICES ASSUME IInv, NEW t \in begun, t \notin ended
               PROVE  /\ conn[t[3]] = "open"
                      /\ ControlPlaneNow # NoNode => conn[ControlPlaneNow] = "open"
    BY DEF WorkIsConnected
  <2>1. TypeOK /\ FleetInv /\ WorkInv
    BY DEF IInv
  <2>2. phase = "in a step" /\ step \in DOMAIN plan /\ t[3] \in plan[step]
    BY UnfinishedWork
  <2>3. t[3] \in members \/ (t[3] = borrowed /\ borrowed # NoNode)
    BY <2>1, <2>2 DEF WorkInv
  <2>4. /\ \A n \in members : conn[n] = "open"
        /\ borrowed # NoNode => conn[borrowed] = "open"
    BY <2>1, <2>2 DEF FleetInv, AtWork
  <2>5. ControlPlaneNow \in members \/ ControlPlaneNow = borrowed
    <3>1. request \in RequestType /\ members \in SUBSET Asked(request)
      BY <2>1, RequestFacts DEF FleetInv
    <3> QED
      BY <3>1, ControlPlaneInFleet DEF ControlPlaneNow
  <2> QED
    BY <2>3, <2>4, <2>5
<1> QED
  BY <1>1, Invariance, PTL

-----------------------------------------------------------------------------
(* A run implements LockStep                                               *)

(* Where the pipeline starts, LockStep starts.                              *)
LEMMA InitRefines == Init => LS!Init
BY DEF Init, LS!Init

(* Outside a step, a run may come to its end but never comes back from it. *)
LEMMA QuietRefines ==
    ASSUME WorkInv, UNCHANGED <<begun, ended>>,
           phase = "done" => phase' = "done",
           phase = "in a step" => phase' # "done"
    PROVE  [LS!Next]_LS!vars
<1>1. CASE phase # "done" /\ phase' = "done"
  <2>1. begun = ended
    BY <1>1 DEF WorkInv
  <2> QED
    BY <1>1, <2>1 DEF LS!Next, LS!Close
<1>2. CASE ~(phase # "done" /\ phase' = "done")
  <2>1. (phase = "done") = (phase' = "done")
    BY <1>2
  <2> QED
    BY <2>1 DEF LS!vars
<1> QED
  BY <1>1, <1>2

(* Giving a step to nodes is LockStep's Begin.                             *)
LEMMA StartStepRefines ==
    ASSUME IInv, NEW i \in DOMAIN plan, StartStep(i)
    PROVE  [LS!Next]_LS!vars
<1>1. TypeOK /\ WorkInv
  BY DEF IInv
<1>2. PICK who \in SUBSET plan[i] : begun' = begun \union Work(i, who)
  BY StartStepWork
<1>3. phase = "between steps" /\ phase' # "done" /\ ended' = ended
  BY DEF StartStep
<1>4. begun = ended
  BY <1>1, <1>3 DEF WorkInv
<1>5. i \in Positions /\ i \in Nat /\ plan[i] \subseteq Node
  <2>1. /\ request \in Requests /\ i \in DOMAIN request.commands
        /\ plan[i] \subseteq Node
    BY <1>1 DEF TypeOK
  <2>2. i \in Nat
    BY <1>1, <2>1, RequestFacts
  <2>3. i \in Positions
    BY <2>1 DEF Positions
  <2> QED
    BY <2>1, <2>2, <2>3
<1>6. step < i
  BY DEF StartStep, IsNextStep
<1>7. round \in 1..2
  <2>1. round = 1 \/ round = 2
    BY <1>1 DEF TypeOK
  <2> QED
    BY <2>1
<1>8. \A t \in begun, n \in who : LS!Before(t, <<round, i, n>>)
  <2> SUFFICES ASSUME NEW t \in begun, NEW n \in who
               PROVE  t[1] < round \/ (t[1] = round /\ t[2] < i)
    BY DEF LS!Before
  <2>1. /\ step \in Nat /\ t[2] \in Nat
        /\ t[1] < round \/ (t[1] = round /\ t[2] <= step)
    BY <1>1, BegunFacts
  <2> QED
    BY <1>5, <1>6, <2>1
<1>9. begun' = begun \union {<<round, i, n>> : n \in who}
  BY <1>2 DEF Work
<1>10. who \in SUBSET Node
  BY <1>5
<1>11. LS!Begin
  BY <1>3, <1>4, <1>5, <1>7, <1>8, <1>9, <1>10 DEF LS!Begin, LS!Round
<1> QED
  BY <1>11 DEF LS!Next

(* A step of the pipeline is a step of LockStep, or leaves it as it was.    *)
LEMMA NextRefines == IInv /\ [Next]_vars => [LS!Next]_LS!vars
<1> SUFFICES ASSUME IInv, [Next]_vars
             PROVE  [LS!Next]_LS!vars
  OBVIOUS
<1>0. TypeOK /\ ConnInv /\ WorkInv
  BY DEF IInv
<1>a. CASE RefusePlan
  BY <1>0, <1>a, QuietRefines DEF RefusePlan, history
<1>b. CASE DryRun
  BY <1>0, <1>b, QuietRefines DEF DryRun, history
<1>c. CASE Connect
  BY <1>0, <1>c, QuietRefines DEF Connect, history
<1>d. ASSUME NEW n \in Node, Answer(n)
      PROVE  [LS!Next]_LS!vars
  BY <1>0, <1>d, ConnectingPhase, QuietRefines DEF Answer, history
<1>e. ASSUME NEW n \in Node, NoAnswer(n)
      PROVE  [LS!Next]_LS!vars
  BY <1>0, <1>e, ConnectingPhase, QuietRefines DEF NoAnswer, history
<1>f. CASE Borrow
  BY <1>0, <1>f, QuietRefines DEF Borrow, history
<1>g. CASE NoNeedToBorrow
  BY <1>0, <1>g, QuietRefines DEF NoNeedToBorrow, history
<1>h. CASE Borrowed
  BY <1>0, <1>h, QuietRefines DEF Borrowed, history
<1>i. CASE Abandon
  BY <1>0, <1>i, QuietRefines DEF Abandon, GiveUp, history
<1>j. ASSUME NEW silent, RefuseDuplicates(silent)
      PROVE  [LS!Next]_LS!vars
  BY <1>0, <1>j, QuietRefines DEF RefuseDuplicates, GiveUp, history
<1>k. CASE NobodyToAsk
  BY <1>0, <1>k, QuietRefines DEF NobodyToAsk, history
<1>l. ASSUME NEW silent, Raised(silent)
      PROVE  [LS!Next]_LS!vars
  BY <1>0, <1>l, QuietRefines DEF Raised, history
<1>m. ASSUME NEW i \in DOMAIN plan, StartStep(i)
      PROVE  [LS!Next]_LS!vars
  BY <1>m, StartStepRefines
<1>n. ASSUME NEW n \in Node, NEW how \in {"ok", "failed", "skipped"}, NodeFinishes(n, how)
      PROVE  [LS!Next]_LS!vars
  <2>1. <<round, step, n>> \in begun \ ended
    BY <1>0, <1>n DEF NodeFinishes, WorkInv, Work
  <2>2. UNCHANGED <<begun, phase>> /\ ended' = ended \union {<<round, step, n>>}
    BY <1>n DEF NodeFinishes
  <2>3. LS!End
    BY <2>1, <2>2 DEF LS!End
  <2> QED
    BY <2>3 DEF LS!Next
<1>o. CASE FinishStep
  BY <1>0, <1>o, QuietRefines DEF FinishStep, history
<1>p. CASE FinishPlan
  BY <1>0, <1>p, QuietRefines DEF FinishPlan, history
<1>q. CASE Verify
  BY <1>0, <1>q, QuietRefines DEF Verify, history
<1>r. CASE Return
  BY <1>0, <1>r, QuietRefines DEF Return, history
<1>s. CASE Disconnect
  BY <1>0, <1>s, QuietRefines DEF Disconnect, history
<1>t. CASE UNCHANGED vars
  BY <1>0, <1>t, QuietRefines DEF vars
<1> QED
  BY <1>a, <1>b, <1>c, <1>d, <1>e, <1>f, <1>g, <1>h, <1>i, <1>j, <1>k, <1>l,
     <1>m, <1>n, <1>o, <1>p, <1>q, <1>r, <1>s, <1>t DEF Next, Control, NodeActs

(* Every run of the pipeline is a run of LockStep: whatever it is asked,   *)
(* whoever answers and whatever fails, its nodes work in lock step.        *)
THEOREM PipelineImplementsLockStep == Spec => ImplementsLockStep
BY InitRefines, NextRefines, Invariance, PTL DEF Spec, ImplementsLockStep, LS!Spec
-----------------------------------------------------------------------------
(* How a run ends.  What is connected belongs to the fleet, so that letting *)
(* go of the fleet lets go of everything.                                  *)
OpenInv ==
    /\ phase = "borrowing" =>
          \A n \in Node : conn[n] = "open" => n \in members \/ n = request.host
    /\ AtWork \/ phase = "identifying" =>
          \A n \in Node : conn[n] = "open" => n \in members \union {borrowed}
    /\ ChangesLeaveNothingOpen

\* The second round is a verification, and its plan asks only questions.
RoundInv ==
    /\ phase \in {"asked", "connecting", "borrowing", "identifying"} => round = 1
    /\ round = 2 =>
          /\ request.verify
          /\ \A i \in DOMAIN plan : Cmd(i).purpose \in PromptPurposes
    /\ \A t \in begun : t[1] = 2 => Cmd(t[2]).purpose \in PromptPurposes

\* All that was asked for has been given to whom it was for.
AllGiven ==
    \A i \in Wanted(request, request.purposes) :
        \A n \in NodesForScope(request, Cmd(i).scope, Asked(request), borrowed) :
            <<1, i, n>> \in begun

\* A first round without a failure holds nobody back, and leaves out nothing.
DoneInv ==
    /\ phase \in {"asked", "connecting", "borrowing", "identifying"} => blocked = {} /\ step = 0
    /\ result = "returned" => phase \in {"closing", "done"}
    /\ round = 1 /\ Failures(1) = {} /\ phase \in {"between steps", "in a step", "ran"} =>
          /\ blocked = {}
          /\ plan = PlanFor(request, request.purposes, members, borrowed)
          /\ ~PlanThrows(request, request.purposes, members, borrowed)
          /\ \A i \in DOMAIN plan : i <= step => \A n \in plan[i] : <<1, i, n>> \in begun
          /\ phase = "ran" => \A i \in DOMAIN plan : i <= step
    /\ round = 2 \/ result = "returned" =>
          (~request.tolerant /\ Failures(1) = {} /\ faults = {} => AllGiven)

EndInv == OpenInv /\ RoundInv /\ DoneInv

(* The steps of a plan leave the fleet as it is.                           *)
LEMMA RunningKeepsFleet ==
    ASSUME \/ \E i \in DOMAIN plan : StartStep(i)
           \/ \E n \in Node, how \in {"ok", "failed", "skipped"} : NodeFinishes(n, how)
           \/ FinishStep \/ FinishPlan \/ Verify \/ Return,
           TypeOK, WorkInv
    PROVE  /\ UNCHANGED <<request, conn, members, borrowed, faults>>
           /\ AtWork /\ AtWork'
<1>1. ASSUME NEW n \in Node, NEW how \in {"ok", "failed", "skipped"}, NodeFinishes(n, how)
      PROVE  phase = "in a step" /\ UNCHANGED <<phase, request, conn, members, borrowed, faults>>
  BY <1>1 DEF NodeFinishes, asking, fleet, WorkInv, TypeOK
<1>2. ASSUME NEW i \in DOMAIN plan, StartStep(i)
      PROVE  /\ phase = "between steps" /\ phase' \in {"in a step", "closing"}
             /\ UNCHANGED <<request, conn, members, borrowed, faults>>
  BY <1>2 DEF StartStep, asking, fleet
<1>3. CASE FinishStep \/ FinishPlan \/ Verify \/ Return
  BY <1>3 DEF FinishStep, FinishPlan, Verify, Return, asking, fleet, AtWork
<1>4. QED
  BY <1>1, <1>2, <1>3 DEF AtWork

(* While the fleet is gathered, nothing has been planned or run.           *)
LEMMA GatheringKeeps ==
    ASSUME \/ RefusePlan \/ DryRun \/ Connect \/ Borrow \/ NoNeedToBorrow \/ Borrowed
           \/ \E n \in Node : Answer(n) \/ NoAnswer(n)
           \/ Abandon \/ NobodyToAsk \/ \E silent \in SUBSET members : RefuseDuplicates(silent),
           ConnInv
    PROVE  /\ phase \in {"asked", "connecting", "borrowing", "identifying"}
           /\ phase' \in {"connecting", "borrowing", "identifying", "done"}
           /\ UNCHANGED <<request, round, step, blocked, outcomes, begun, ended>>
           /\ result' # "returned" \/ result' = result
<1>1. CASE RefusePlan \/ DryRun \/ Connect
  BY <1>1 DEF RefusePlan, DryRun, Connect, asking, running, history
<1>2. CASE Borrow
  BY <1>2 DEF Borrow, asking, running, history
<1>3. CASE NoNeedToBorrow \/ Borrowed
  BY <1>3 DEF NoNeedToBorrow, Borrowed, asking, running, history
<1>4. CASE Abandon \/ NobodyToAsk \/ \E silent \in SUBSET members : RefuseDuplicates(silent)
  BY <1>4 DEF Abandon, NobodyToAsk, RefuseDuplicates, GiveUp, asking, running, history
<1>5. ASSUME NEW n \in Node, Answer(n) \/ NoAnswer(n)
      PROVE  /\ phase \in {"connecting", "borrowing"}
             /\ UNCHANGED <<phase, request, round, step, blocked, outcomes, result, begun, ended>>
  BY <1>5, ConnectingPhase DEF Answer, NoAnswer, asking, running, history
<1>6. CASE \E n \in Node : Answer(n) \/ NoAnswer(n)
  BY <1>5, <1>6
<1>7. QED
  BY <1>1, <1>2, <1>3, <1>4, <1>6

(* Letting go of the fleet lets go of everything that was connected.       *)
LEMMA DisconnectedClosesAll ==
    ASSUME TypeOK, ConnInv, OpenInv, AtWork \/ phase = "identifying", conn' = Disconnected
    PROVE  \A n \in Node : conn'[n] \notin {"open", "connecting"}
<1>1. \A n \in Node : conn[n] = "open" => n \in members \union {borrowed}
  BY DEF OpenInv
<1>2. \A n \in Node : conn[n] # "connecting"
  BY DEF ConnInv, AllSettled, AtWork
<1>3. QED
  BY <1>1, <1>2 DEF Disconnected

LEMMA NextOpenInv ==
    ASSUME TypeOK, ConnInv, FleetInv, WorkInv, OpenInv, [Next]_vars
    PROVE  OpenInv'
<1> USE DEF OpenInv, AtWork, ChangesLeaveNothingOpen, NothingLeftOpen
<1>1. CASE RefusePlan \/ DryRun
  BY <1>1 DEF RefusePlan, DryRun, asking, fleet, ConnInv
<1>2. CASE Connect
  BY <1>2 DEF Connect
<1>3. ASSUME NEW n \in Node, Answer(n) \/ NoAnswer(n) PROVE OpenInv'
  <2>1. /\ phase \in {"connecting", "borrowing"} /\ phase' = phase
        /\ UNCHANGED <<request, members, borrowed>>
        /\ conn' = [conn EXCEPT ![n] = "open"] \/ conn' = [conn EXCEPT ![n] = "failed"]
        /\ phase = "borrowing" => n = request.host
    BY <1>3, ConnectingPhase DEF Answer, NoAnswer, asking, ConnInv
  <2>2. \A m \in Node : conn'[m] = "open" => conn[m] = "open" \/ m = n
    BY <2>1 DEF TypeOK
  <2>3. QED
    BY <2>1, <2>2
<1>4. CASE Borrow
  <2>1. /\ members' = Reached /\ UNCHANGED <<request, borrowed>> /\ phase' \in {"borrowing", "identifying"}
        /\ conn' = conn \/ conn' = [conn EXCEPT ![request.host] = "connecting"]
    BY <1>4 DEF Borrow, asking
  <2>2. \A m \in Node : conn'[m] = "open" => m \in members'
    BY <2>1 DEF TypeOK, Reached
  <2>3. QED
    BY <2>1, <2>2
<1>5. CASE NoNeedToBorrow
  BY <1>5 DEF NoNeedToBorrow, asking, Reached
<1>6. CASE Borrowed
  BY <1>6 DEF Borrowed, asking
<1>7. CASE Abandon \/ (\E silent \in SUBSET members : RefuseDuplicates(silent)) \/ Disconnect
  <2>1. /\ AtWork \/ phase = "identifying"
        /\ conn' = Disconnected /\ phase' = "done"
    BY <1>7 DEF Abandon, RefuseDuplicates, GiveUp, Disconnect
  <2>2. QED
    BY <2>1, DisconnectedClosesAll
<1>8. CASE NobodyToAsk
  BY <1>8 DEF NobodyToAsk, asking
<1>9. ASSUME NEW silent \in SUBSET members, Raised(silent) PROVE OpenInv'
  BY <1>9 DEF Raised, asking
<1>10. CASE \/ \E i \in DOMAIN plan : StartStep(i)
            \/ \E n \in Node, how \in {"ok", "failed", "skipped"} : NodeFinishes(n, how)
            \/ FinishStep \/ FinishPlan \/ Verify \/ Return
  BY <1>10, RunningKeepsFleet
<1>11. CASE UNCHANGED vars
  BY <1>11 DEF vars
<1>12. QED
  BY <1>1, <1>2, <1>3, <1>4, <1>5, <1>6, <1>7, <1>8, <1>9, <1>10, <1>11 DEF Next, Control, NodeActs


(* A run has its two rounds.                                               *)
LEMMA TwoRounds == 1 # 2
OBVIOUS

(* The second round only ever asks questions.                              *)
LEMMA NextRoundInv ==
    ASSUME TypeOK, ConnInv, WorkInv, RoundInv, [Next]_vars
    PROVE  RoundInv'
<1>1. CASE \/ RefusePlan \/ DryRun \/ Connect \/ Borrow \/ NoNeedToBorrow \/ Borrowed
           \/ \E n \in Node : Answer(n) \/ NoAnswer(n)
           \/ Abandon \/ NobodyToAsk \/ \E silent \in SUBSET members : RefuseDuplicates(silent)
  BY <1>1, GatheringKeeps DEF RoundInv, Cmd
<1>2. ASSUME NEW silent \in SUBSET members, Raised(silent) PROVE RoundInv'
  <2>1. /\ phase = "identifying" /\ phase' \in {"closing", "between steps"}
        /\ UNCHANGED <<request, round, begun>>
    BY <1>2 DEF Raised, asking, history
  <2>2. round' = 1 /\ round' # 2
    BY <2>1, TwoRounds DEF RoundInv
  <2>3. \A t \in begun' : t[1] = 2 => request'.commands[t[2]].purpose \in PromptPurposes
    BY <2>1 DEF RoundInv, Cmd
  <2>4. QED
    BY <2>2, <2>3 DEF RoundInv, Cmd
<1>3. ASSUME NEW i \in DOMAIN plan, StartStep(i) PROVE RoundInv'
  <2>1. /\ UNCHANGED <<request, plan, round>> /\ phase' \in {"in a step", "closing"}
    BY <1>3 DEF StartStep, asking
  <2>2. PICK who \in SUBSET plan[i] : begun' = begun \union Work(i, who)
    BY <1>3, StartStepWork
  <2>3. \A t \in begun' : t \in begun \/ (t[1] = round /\ t[2] = i)
    BY <2>2 DEF Work
  <2>4. QED
    BY <2>1, <2>3 DEF RoundInv, Cmd
<1>4. CASE Verify
  <2>1. /\ VerificationDue /\ phase' \in {"closing", "between steps"}
        /\ UNCHANGED <<request, begun, members, borrowed>>
        /\ \/ UNCHANGED <<plan, round>>
           \/ plan' = PlanFor(request, PromptPurposes, members, borrowed) /\ round' = 2
    BY <1>4 DEF Verify, asking, fleet, history
  <2>2. \A i \in DOMAIN PlanFor(request, PromptPurposes, members, borrowed) :
           Cmd(i).purpose \in PromptPurposes
    BY DEF PlanFor, Planned, Wanted, Cmd
  <2>3. QED
    BY <2>1, <2>2 DEF RoundInv, Cmd, VerificationDue
<1>5. CASE FinishStep \/ FinishPlan \/ Return \/ Disconnect
  BY <1>5 DEF FinishStep, FinishPlan, Return, Disconnect, asking, fleet, running, history,
     RoundInv, Cmd
<1>6. ASSUME NEW n \in Node, NEW how \in {"ok", "failed", "skipped"}, NodeFinishes(n, how)
      PROVE  RoundInv'
  BY <1>6 DEF NodeFinishes, asking, fleet, RoundInv, Cmd
<1>7. CASE UNCHANGED vars
  BY <1>7 DEF vars, RoundInv, Cmd
<1>8. QED
  BY <1>1, <1>2, <1>3, <1>4, <1>5, <1>6, <1>7 DEF Next, Control, NodeActs

(* A plan that wasn't refused, of a whole fleet, gives every command that  *)
(* was asked for to all its nodes.                                         *)
LEMMA PlanLeavesNothingOut ==
    ASSUME TypeOK, ~request.tolerant, members = Asked(request),
           ~PlanThrows(request, request.purposes, members, borrowed),
           plan = PlanFor(request, request.purposes, members, borrowed),
           NEW i \in Wanted(request, request.purposes),
           NEW n \in NodesForScope(request, Cmd(i).scope, Asked(request), borrowed)
    PROVE  i \in DOMAIN plan /\ n \in plan[i]
<1>1. Homeless(request, request.purposes, members, borrowed) = {}
  BY DEF PlanThrows
<1>2. NodesForScope(request, request.commands[i].scope, members, borrowed) # {}
  BY DEF Cmd
<1>3. i \in Planned(request, request.purposes, members, borrowed)
  BY <1>1, <1>2 DEF Planned
<1>4. QED
  BY <1>3 DEF PlanFor, Cmd

(* So a first round that ends without a failure has given out everything.  *)
LEMMA RanGivesAll ==
    ASSUME TypeOK, WholeInv, DoneInv, phase = "ran", round = 1, Failures(1) = {},
           ~request.tolerant, faults = {}
    PROVE  AllGiven
<1>1. members = Asked(request)
  BY DEF WholeInv, AtWork
<1>2. /\ plan = PlanFor(request, request.purposes, members, borrowed)
      /\ ~PlanThrows(request, request.purposes, members, borrowed)
      /\ \A i \in DOMAIN plan : \A n \in plan[i] : <<1, i, n>> \in begun
  BY DEF DoneInv
<1>3. QED
  BY <1>1, <1>2, PlanLeavesNothingOut DEF AllGiven

\* Once given, it stays so.
LEMMA GivenStays ==
    ASSUME AllGiven, UNCHANGED <<request, borrowed>>, begun \subseteq begun'
    PROVE  AllGiven'
BY DEF AllGiven, Cmd

(* What a run that comes to its end without a failure has done.            *)
LEMMA NextDoneInv ==
    ASSUME TypeOK, ConnInv, FleetInv, WholeInv, WorkInv, FailureInv, RoundInv, DoneInv, [Next]_vars
    PROVE  DoneInv'
<1>1. CASE \/ RefusePlan \/ DryRun \/ Connect \/ Borrow \/ NoNeedToBorrow \/ Borrowed
           \/ \E n \in Node : Answer(n) \/ NoAnswer(n)
           \/ Abandon \/ NobodyToAsk \/ \E silent \in SUBSET members : RefuseDuplicates(silent)
  <2>1. /\ phase \in {"asked", "connecting", "borrowing", "identifying"}
        /\ phase' \in {"connecting", "borrowing", "identifying", "done"}
        /\ UNCHANGED <<round, step, blocked>>
        /\ result' # "returned" \/ result' = result
    BY <1>1, GatheringKeeps
  <2>2. round = 1 /\ result # "returned" /\ blocked = {} /\ step = 0
    BY <2>1 DEF RoundInv, DoneInv
  <2>3. /\ round' # 2 /\ result' # "returned" /\ blocked' = {} /\ step' = 0
        /\ phase' \notin {"between steps", "in a step", "ran"}
    BY <2>1, <2>2, TwoRounds
  <2>4. QED
    BY <2>3 DEF DoneInv
<1>2. ASSUME NEW silent \in SUBSET members, Raised(silent) PROVE DoneInv'
  <2>1. /\ phase = "identifying" /\ phase' \in {"closing", "between steps"}
        /\ UNCHANGED <<request, members, borrowed, round, step, blocked, outcomes, begun>>
        /\ result' # "returned" \/ result' = result
        /\ phase' = "between steps" =>
              /\ plan' = PlanFor(request, request.purposes, members, borrowed)
              /\ ~PlanThrows(request, request.purposes, members, borrowed)
    BY <1>2 DEF Raised, asking, history
  <2>2. round = 1 /\ result # "returned" /\ blocked = {} /\ step = 0
    BY <2>1 DEF RoundInv, DoneInv
  <2>3. phase' = "between steps" => \A i \in DOMAIN plan' : ~(i <= 0)
    <3>1. phase' = "between steps" => DOMAIN plan' \subseteq DOMAIN request.commands
      BY <2>1, PlanNowType, RequestFacts DEF RequestType
    <3>2. \A i \in DOMAIN request.commands : ~(i <= 0)
      BY RequestFacts DEF RequestType
    <3> SUFFICES ASSUME phase' = "between steps", NEW i \in DOMAIN plan'
                 PROVE  ~(i <= 0)
      OBVIOUS
    <3>3. i \in DOMAIN request.commands
      BY <3>1
    <3>4. QED
      BY <3>2, <3>3
  <2>4. /\ round' # 2 /\ result' # "returned" /\ blocked' = {} /\ step' = 0
        /\ phase' \notin {"asked", "connecting", "borrowing", "identifying", "ran"}
        /\ phase' = "in a step" => FALSE
    BY <2>1, <2>2, TwoRounds
  <2>5. phase' = "between steps" =>
           /\ plan' = PlanFor(request', request'.purposes, members', borrowed')
           /\ ~PlanThrows(request', request'.purposes, members', borrowed')
           /\ \A i \in DOMAIN plan' : ~(i <= step')
    BY <2>1, <2>3, <2>4
  <2>6. QED
    BY <2>4, <2>5 DEF DoneInv
<1>3. ASSUME NEW i \in DOMAIN plan, StartStep(i) PROVE DoneInv'
  <2>1. /\ phase = "between steps" /\ phase' \in {"in a step", "closing"}
        /\ UNCHANGED <<request, plan, round, members, borrowed, blocked, outcomes, faults>>
        /\ result' # "returned" \/ result' = result
        /\ begun \subseteq begun'
    BY <1>3 DEF StartStep, asking, fleet
  <2>2. result # "returned"
    BY <2>1 DEF DoneInv
  <2>3. round = 2 => (~request.tolerant /\ Failures(1) = {} /\ faults = {} => AllGiven')
    BY <2>1, GivenStays DEF DoneInv
  <2>4. ASSUME round = 1, Failures(1) = {}, phase' = "in a step"
        PROVE  /\ blocked = {}
               /\ \A j \in DOMAIN plan : j <= step' => \A n \in plan[j] : <<1, j, n>> \in begun'
    <3>1. /\ blocked = {} /\ step' = i
          /\ begun' = begun \union Work(i, {n \in plan[i] : ~WhyBlocked(i, n)})
      BY <1>3, <2>1, <2>4 DEF StartStep, DoneInv
    <3>2. \A n \in plan[i] : ~WhyBlocked(i, n)
      BY <3>1 DEF WhyBlocked
    <3>3. \A n \in plan[i] : <<1, i, n>> \in begun'
      BY <2>4, <3>1, <3>2 DEF Work
    <3>4. \A j \in DOMAIN plan : j <= i => j <= step \/ j = i
      <4>1. step \in Nat /\ \A j \in DOMAIN plan : j \in Nat
        BY RequestFacts DEF TypeOK, RequestType
      <4>2. i \in Nat /\ step < i /\ \A j \in DOMAIN plan : step < j => i <= j
        BY <1>3, <4>1 DEF StartStep, IsNextStep
      <4>3. ASSUME NEW j \in Nat, j <= i, step < j => i <= j PROVE j <= step \/ j = i
        BY <4>1, <4>2, <4>3
      <4>4. QED
        BY <4>1, <4>2, <4>3
    <3>5. QED
      BY <2>1, <2>4, <3>1, <3>3, <3>4 DEF DoneInv
  <2>5. QED
    BY <2>1, <2>2, <2>3, <2>4 DEF DoneInv, Failures
<1>4. ASSUME NEW n \in Node, NEW how \in {"ok", "failed", "skipped"}, NodeFinishes(n, how)
      PROVE  DoneInv'
  <2>1. UNCHANGED <<request, phase, plan, round, step, members, borrowed, blocked, outcomes, faults,
                    result, begun>>
    BY <1>4 DEF NodeFinishes, asking, fleet
  <2>2. AllGiven => AllGiven'
    BY <2>1, GivenStays
  <2>3. QED
    BY <2>1, <2>2 DEF DoneInv, Failures
<1>5. CASE FinishStep
  <2>1. /\ phase = "in a step" /\ phase' \in {"ran", "between steps"}
        /\ UNCHANGED <<request, plan, round, step, members, borrowed, faults, result, begun>>
        /\ blocked' = IF Gated(step) THEN blocked \union Failing ELSE blocked
        /\ outcomes' = outcomes \union {<<round, step, n, task[n]>> : n \in plan[step]}
        /\ phase' = "ran" => Failing # {}
    BY <1>5 DEF FinishStep, asking, fleet, history
  <2>2. result # "returned"
    BY <2>1 DEF DoneInv
  <2>3. Failures(1)' = {} => Failures(1) = {}
    BY <2>1 DEF Failures
  <2>4. AllGiven => AllGiven'
    BY <2>1, GivenStays
  <2>5. ASSUME round = 1, Failures(1)' = {} PROVE Failing = {}
    <3> SUFFICES ASSUME NEW n \in Failing PROVE FALSE
      OBVIOUS
    <3>1. task[n] = "failed" /\ n \in plan[step]
      BY <2>1 DEF Failing, WorkInv
    <3>2. <<1, step, n, task[n]>> \in outcomes'
      BY <2>1, <2>5, <3>1
    <3>3. <<1, step, n, task[n]>> \in Failures(1)'
      BY <3>1, <3>2 DEF Failures
    <3>4. QED
      BY <2>5, <3>3
  <2>6. QED
    BY <2>1, <2>2, <2>3, <2>4, <2>5 DEF DoneInv
<1>6. CASE FinishPlan
  <2>1. /\ phase = "between steps" /\ phase' = "ran" /\ ~ \E i \in DOMAIN plan : IsNextStep(i)
        /\ UNCHANGED <<request, plan, round, step, members, borrowed, blocked, outcomes, faults,
                       result, begun>>
    BY <1>6 DEF FinishPlan, asking, fleet, running, history
  <2>2. AllGiven => AllGiven'
    BY <2>1, GivenStays
  <2>3. \A i \in DOMAIN plan : i <= step
    <3> DEFINE Left == {i \in DOMAIN plan : step < i}
    <3>1. step \in Nat /\ DOMAIN plan \subseteq Nat
      BY RequestFacts DEF TypeOK, RequestType
    <3>2. CASE Left # {}
      <4>1. \E i \in Left : \A j \in Left : i <= j
        BY <3>1, <3>2, LeastNatural
      <4>2. QED
        BY <2>1, <4>1 DEF IsNextStep
    <3>3. CASE Left = {}
      BY <3>1, <3>3
    <3>4. QED
      BY <3>2, <3>3
  <2>4. QED
    BY <2>1, <2>2, <2>3 DEF DoneInv, Failures
<1>7. CASE Verify \/ Return
  <2>1. /\ phase = "ran" /\ phase' \in {"between steps", "closing"}
        /\ UNCHANGED <<request, members, borrowed, outcomes, faults, begun>>
        /\ round' = 2 \/ round' = round
        /\ phase' = "between steps" => round' = 2
        /\ \/ Verify /\ round = 1 /\ result' # "returned"
           \/ Return /\ round' = round
    <3>1. CASE Verify
      <4>1. result # "returned"
        BY <3>1 DEF Verify, DoneInv
      <4>2. QED
        BY <3>1, <4>1 DEF Verify, VerificationDue, asking, fleet, history
    <3>2. CASE Return
      BY <3>2 DEF Return, asking, fleet, running, history
    <3>3. QED
      BY <1>7, <3>1, <3>2
  <2>2. round \in {1, 2}
    BY DEF TypeOK
  <2>3. ASSUME ~request.tolerant, Failures(1) = {}, faults = {} PROVE AllGiven
    BY <2>1, <2>2, <2>3, RanGivesAll DEF DoneInv
  <2>4. AllGiven => AllGiven'
    BY <2>1, GivenStays
  <2>5. result' = "returned" => phase' = "closing"
    BY <2>1 DEF Return
  <2>6. Failures(1)' = Failures(1)
    BY <2>1 DEF Failures
  <2>7. ~request'.tolerant /\ Failures(1)' = {} /\ faults' = {} => AllGiven'
    BY <2>1, <2>3, <2>4, <2>6
  <2>8. phase' = "between steps" => round' # 1
    BY <2>1, TwoRounds
  <2>9. QED
    BY <2>1, <2>5, <2>7, <2>8 DEF DoneInv
<1>8. CASE Disconnect
  <2>1. /\ phase = "closing" /\ phase' = "done"
        /\ UNCHANGED <<request, round, borrowed, outcomes, faults, result, begun>>
    BY <1>8 DEF Disconnect, asking, running, history
  <2>2. AllGiven => AllGiven'
    BY <2>1, GivenStays
  <2>3. QED
    BY <2>1, <2>2 DEF DoneInv, Failures
<1>9. CASE UNCHANGED vars
  <2>1. UNCHANGED <<request, phase, plan, round, step, members, borrowed, blocked, outcomes, faults,
                    result, begun>>
    BY <1>9 DEF vars
  <2>2. AllGiven => AllGiven'
    BY <2>1, GivenStays
  <2>3. QED
    BY <2>1, <2>2 DEF DoneInv, Failures
<1>10. QED
  BY <1>1, <1>2, <1>3, <1>4, <1>5, <1>6, <1>7, <1>8, <1>9 DEF Next, Control, NodeActs

(* A run ends well (pipeline/execute.ts): one that returns without a       *)
(* failure has done what was asked on every node, whatever it was that was *)
(* asked; the verification only follows such a run, and asks questions;    *)
(* and a run that may change its nodes leaves no connection to any.        *)
THEOREM RunsEndWell == Spec => []EndsWell
<1>1. Init => EndInv
  <2> SUFFICES ASSUME Init PROVE EndInv
    OBVIOUS
  <2>1. OpenInv
    BY DEF Init, OpenInv, AtWork, ChangesLeaveNothingOpen, NothingLeftOpen
  <2>2. RoundInv
    BY DEF Init, RoundInv
  <2>3. DoneInv
    BY DEF Init, DoneInv
  <2>4. QED
    BY <2>1, <2>2, <2>3 DEF EndInv
<1>2. IInv /\ EndInv /\ [Next]_vars => EndInv'
  BY NextOpenInv, NextRoundInv, NextDoneInv DEF IInv, EndInv
<1>3. IInv /\ EndInv => EndsWell
  <2> SUFFICES ASSUME IInv, EndInv PROVE EndsWell
    OBVIOUS
  <2>1. TypeOK /\ WorkInv /\ FailureInv /\ OpenInv /\ RoundInv /\ DoneInv
    BY DEF IInv, EndInv
  <2>2. CleanMeansDone
    <3> SUFFICES ASSUME result = "returned", ~request.tolerant, Failures(1) = {}, faults = {},
                        NEW i \in Wanted(request, request.purposes),
                        NEW n \in NodesForScope(request, Cmd(i).scope, Asked(request), borrowed)
                 PROVE  <<1, i, n>> \in ended
      BY DEF CleanMeansDone
    <3>1. <<1, i, n>> \in begun
      BY <2>1 DEF DoneInv, AllGiven
    <3>2. phase # "in a step"
      BY <2>1 DEF DoneInv
    <3>3. QED
      BY <2>1, <3>1, <3>2 DEF WorkInv
  <2>3. VerifiesWhatPassed
    <3> SUFFICES ASSUME NEW t \in begun, t[1] = 2
                 PROVE  /\ request.verify /\ Failures(1) = {}
                        /\ Cmd(t[2]).purpose \in ReadOnlyPurposes \ {"settle"}
      BY DEF VerifiesWhatPassed
    <3>1. round = 2
      BY <2>1, BegunFacts
    <3>2. Failures(1) = {}
      BY <2>1, <3>1 DEF FailureInv
    <3>3. QED
      BY <2>1, <3>1, <3>2 DEF RoundInv, PromptPurposes
  <2>4. QED
    BY <2>1, <2>2, <2>3 DEF EndsWell, OpenInv
<1>4. QED
  BY <1>1, <1>2, <1>3, Invariance, PTL DEF Spec

=============================================================================
