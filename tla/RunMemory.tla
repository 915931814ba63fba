------------------------------ MODULE RunMemory ------------------------------
(***************************************************************************)
(* What each node knows, and what the cluster knows, while a plan runs:    *)
(* the class Memory of installer/src/pipeline/run.ts and the way runPlan   *)
(* and runStepForNode use it.                                              *)
(*                                                                         *)
(* A command is handed a context, adds what it found out to it, and the    *)
(* whole of it is remembered.  What earlier commands returned is kept in   *)
(* the same two layers and the same way, so a slot below is a key of the   *)
(* context or the name of a command.                                       *)
(***************************************************************************)
EXTENDS Naturals

CONSTANTS
    Node,
    Server,     \* the node cluster-wide steps are run from
    Slot,
    MaxSteps,   \* bound: how many steps the plan has
    Nothing     \* what an empty slot holds

ASSUME ServerAssumption == Server \in Node
ASSUME StepsAssumption == MaxSteps \in Nat
ASSUME NothingAssumption == Nothing \notin [by : Node, wide : BOOLEAN, at : Nat]

\* What a command found out: on behalf of whom, of the cluster or of a node
\* alone, and at which step.
Finding == [by : Node, wide : BOOLEAN, at : 1..MaxSteps]

Known == [Slot -> Finding \union {Nothing}]

VARIABLES
    cluster,   \* what everybody knows
    own,       \* what each node knows by itself
    step,      \* how many steps have been started
    wide,      \* whether the step at work is cluster-wide
    held,      \* the context each command at work was handed
    working    \* the nodes at work on the step

memoryVars == <<cluster, own, step, wide, held, working>>

Blank == [k \in Slot |-> Nothing]

\* {...a, ...b}
Over(b, a) == [k \in Slot |-> IF b[k] # Nothing THEN b[k] ELSE a[k]]

\* Fault: the cluster's layer over the node's.
ClusterFirst(n) == Over(cluster, own[n])

\* What a step running for n is handed (contextFor, resultsFor).
View(n) == Over(own[n], cluster)

MemoryInit ==
    /\ cluster = Blank
    /\ own = [n \in Node |-> Blank]
    /\ step = 0
    /\ wide = FALSE
    /\ held = [n \in Node |-> Blank]
    /\ working = {}

(* Every node of a step is handed its context before any of them goes on,  *)
(* and a cluster-wide step has the one node it is run from.                *)
StartStep ==
    /\ step < MaxSteps
    /\ working = {}
    /\ step' = step + 1
    /\ \/ wide' = TRUE /\ working' = {Server}
       \/ wide' = FALSE /\ working' \in SUBSET Node \ {{}}
    /\ held' = [n \in Node |-> IF n \in working' THEN View(n) ELSE Blank]
    /\ UNCHANGED <<cluster, own>>

\* What a command that found something out for these slots leaves behind.
Learned(n, found) ==
    [k \in Slot |-> IF k \in found THEN [by |-> n, wide |-> wide, at |-> step]
                                   ELSE held[n][k]]

(* Everything in the command's context is kept, what it was handed along   *)
(* with what it found: for the cluster if the step was cluster-wide, for   *)
(* its node otherwise.                                                     *)
Remember(n, known) ==
    IF wide THEN cluster' = Over(known, cluster) /\ UNCHANGED own
            ELSE own' = [own EXCEPT ![n] = Over(known, own[n])] /\ UNCHANGED cluster

\* A command that ends, having failed or not, leaves what it knows behind.
Finish(n, found) ==
    /\ n \in working
    /\ Remember(n, Learned(n, found))
    /\ working' = working \ {n}
    /\ UNCHANGED <<step, wide, held>>

\* One that could not be run at all leaves nothing.
Throw(n) ==
    /\ n \in working
    /\ working' = working \ {n}
    /\ UNCHANGED <<cluster, own, step, wide, held>>

MemoryNext ==
    \/ StartStep
    \/ \E n \in Node : Throw(n) \/ \E found \in SUBSET Slot : Finish(n, found)

MemorySpec == MemoryInit /\ [][MemoryNext]_memoryVars

-----------------------------------------------------------------------------
MemoryTypeOK ==
    /\ cluster \in Known
    /\ own \in [Node -> Known]
    /\ step \in 0..MaxSteps
    /\ wide \in BOOLEAN
    /\ held \in [Node -> Known]
    /\ working \subseteq Node

(* Nodes that work on a step at once don't see what the others find out at *)
(* it: whatever a command is handed was known before its step began.       *)
NothingFromThisStep ==
    \A n \in working, k \in Slot : held[n][k] # Nothing => held[n][k].at < step

(* What a node has found out is what it is handed from then on, until it   *)
(* finds out something newer: no cluster-wide step hides it, and no step   *)
(* takes it back to something older.                                       *)
OwnFindingsLast ==
    [][\A n \in Node, k \in Slot :
          LET now == View(n)[k]
          IN  now # Nothing /\ now.by = n /\ ~now.wide =>
                 LET then == View(n)'[k]
                 IN  then = now \/ (then # Nothing /\ then.by = n
                                     /\ ~then.wide /\ then.at > now.at)]_memoryVars

(* What was once known to a node is never quite forgotten.                 *)
NothingForgotten ==
    [][\A n \in Node, k \in Slot : View(n)[k] # Nothing => View(n)'[k] # Nothing]_memoryVars

(* "What a cluster-wide step found out belongs to everybody, and a         *)
(* node-scoped step after it has to be able to see it": what such a step   *)
(* leaves is what a node is handed next, unless it has found out something *)
(* of its own.                                                             *)
(* Doesn't hold, and no run checks it (README, Observed on the way).       *)
SharedIsSeen ==
    \A n \in Node, k \in Slot :
        cluster[k] # Nothing /\ cluster[k].wide =>
            \/ View(n)[k] = cluster[k]
            \/ View(n)[k].by = n /\ ~View(n)[k].wide

(* What the nodes of a run find out, each working from a copy: none sees   *)
(* another's finding of the same step, its own newest finding is never     *)
(* hidden, and nothing once known is forgotten.                            *)
MemoryKeeps ==
    /\ [](MemoryTypeOK /\ NothingFromThisStep)
    /\ OwnFindingsLast
    /\ NothingForgotten
=============================================================================
