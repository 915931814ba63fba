---------------------------- MODULE DnsProviders ----------------------------
(***************************************************************************)
(* Cirrus's DnsProvider controller (operators/cirrus/src/dns): from each   *)
(* provider, an account with its domains, to one ExternalDNS for each      *)
(* namespace it publishes.  An instance may write every name in its        *)
(* provider's domains, so two providers that hold one domain and publish   *)
(* different namespaces must not run at once.                              *)
(*                                                                         *)
(* Passes over one provider come one at a time, those over different       *)
(* providers run concurrently.  A pass works from the operator's copy of   *)
(* its own provider and begins by listing the others afresh; a change to   *)
(* any spec has all of them looked at again (reconcile_all_on), by a watch *)
(* of its own.                                                             *)
(*                                                                         *)
(* Left out: whether an instance is available yet, which decides the       *)
(* wording of a condition and when to look again; the flags, probes and    *)
(* labels of an instance that no other object depends on.                  *)
(***************************************************************************)
EXTENDS Domains, Naturals

CONSTANTS
    Provider, Namespace,
    InstanceName,   \* the name of a provider's instance for a namespace
    SpecContents,   \* what a spec may say
    MaxEdits,       \* bound: how many times a spec changes
    MaxFaults       \* bound: how many times something goes wrong

Name == UNION {{InstanceName[p][ns] : ns \in Namespace} : p \in Provider}

Contents ==
    [valid : BOOLEAN, domains : SUBSET Domain, exclude : SUBSET Domain,
     namespaces : SUBSET Namespace]

ASSUME NameAssumption ==
    \A p \in Provider : DOMAIN InstanceName = Provider /\ DOMAIN InstanceName[p] = Namespace
ASSUME ContentsAssumption == SpecContents \subseteq Contents
ASSUME BoundAssumption == MaxEdits \in Nat /\ MaxFaults \in Nat

VARIABLES
    specs,       \* the providers there are
    known,       \* the operator's copy of them
    secrets,     \* the providers whose credentials are there
    queue,       \* the providers to be looked at
    tick,        \* a change of a spec that the second watch has yet to tell of
    pass,        \* the pass over each provider
    access,      \* the owner of each name's ServiceAccount and its ClusterRoleBinding,
                 \*   which are written before the Deployment and deleted after it
    deployments, \* the ExternalDNS of each name
    status,      \* what each provider's status says
    edits,       \* how many times a spec has changed
    faults,      \* how many things have gone wrong
    lost         \* history: a change of a spec was never told of

objects == <<access, deployments>>
world   == <<specs, secrets, edits>>
vars == <<specs, known, secrets, queue, tick, pass, access, deployments,
          status, edits, faults, lost>>

-----------------------------------------------------------------------------
(* Which providers could write each other's names                          *)

\* A provider that is deleted and made again is another one.
Uid == Provider \X Nat
NoOwner == <<"nobody", 0>>

Gone ==
    [uid |-> NoOwner,
     says |-> [valid |-> FALSE, domains |-> {}, exclude |-> {}, namespaces |-> {}]]

Spec_ == [uid : Uid, says : Contents]

Conflicts(p, s) ==
    \E q \in Provider \ {p} : specs[q] # Gone /\ Conflict(s, specs[q].says)

Blocked(p, s) ==
    CASE ~s.valid -> "Invalid"
      [] s.valid /\ Conflicts(p, s) -> "DomainConflict"
      [] s.valid /\ ~Conflicts(p, s) /\ p \notin secrets -> "MissingCredentials"
      [] OTHER -> "no"

-----------------------------------------------------------------------------
NoInstance == [by |-> "nobody"]
Instance == [by : Provider, for : Namespace, spec : Spec_]

Idle == [at |-> "idle", spec |-> Gone, stop |-> "no", left |-> {}, doomed |-> {}]

NoStatus == [stop |-> "none yet", instances |-> {}]

\* The operator starts over the providers there are, none of which runs yet.
Init ==
    /\ \E there \in SUBSET Provider, says \in [Provider -> SpecContents] :
          specs = [p \in Provider |->
                      IF p \in there THEN [uid |-> <<p, 0>>, says |-> says[p]] ELSE Gone]
    /\ known = specs
    /\ secrets = Provider
    /\ queue = {p \in Provider : specs[p] # Gone}
    /\ tick = FALSE
    /\ pass = [p \in Provider |-> Idle]
    /\ access = [n \in Name |-> NoOwner]
    /\ deployments = [n \in Name |-> NoInstance]
    /\ status = [p \in Provider |-> NoStatus]
    /\ edits = 0
    /\ faults = 0
    /\ lost = FALSE

Fault == faults < MaxFaults /\ faults' = faults + 1

-----------------------------------------------------------------------------
(* People, Kubernetes and the watches                                      *)

\* Somebody makes, changes or deletes a provider.
Edit(p) ==
    /\ edits < MaxEdits
    /\ edits' = edits + 1
    /\ tick' = TRUE
    /\ UNCHANGED <<known, secrets, queue, pass, objects, faults, lost>>
    /\ \/ \E c \in SpecContents :
             /\ specs' = [specs EXCEPT ![p] =
                    [uid |-> IF specs[p] = Gone THEN <<p, edits + 1>> ELSE specs[p].uid,
                     says |-> c]]
             /\ specs' # specs
             /\ UNCHANGED status
       \/ /\ specs[p] # Gone
          /\ specs' = [specs EXCEPT ![p] = Gone]
          /\ status' = [status EXCEPT ![p] = NoStatus]

Credentials(p) ==
    /\ secrets' = IF p \in secrets THEN secrets \ {p} ELSE secrets \union {p}
    /\ UNCHANGED <<specs, known, queue, tick, pass, objects, status, edits, lost>>
    /\ Fault

\* The controller's own watch: deletions bring about no pass.
Watched(p) ==
    /\ known[p] # specs[p]
    /\ known' = [known EXCEPT ![p] = specs[p]]
    /\ queue' = IF specs[p] # Gone THEN queue \union {p} ELSE queue
    /\ UNCHANGED <<world, tick, pass, objects, status, faults, lost>>

\* Fault: a change of a spec has only its own provider looked at.
TickForNobody ==
    /\ tick
    /\ tick' = FALSE
    /\ UNCHANGED <<world, known, queue, pass, objects, status, faults, lost>>

\* spec_changes: everything the operator knows of is looked at.
Tick ==
    /\ tick
    /\ tick' = FALSE
    /\ queue' = queue \union {p \in Provider : known[p] # Gone}
    /\ UNCHANGED <<world, known, pass, objects, status, faults, lost>>

\* That watch broke and was begun again with a list, which tells of no change.
TickIsLost ==
    /\ tick
    /\ tick' = FALSE
    /\ lost' = TRUE
    /\ UNCHANGED <<world, known, queue, pass, objects, status>>
    /\ Fault

\* Fault: a provider that is blocked is not looked at again.
WakeWhatRuns(p) ==
    /\ known[p] # Gone /\ status[p].stop = "no"
    /\ queue' = queue \union {p}
    /\ UNCHANGED <<world, known, tick, pass, objects, status, faults, lost>>

\* A pass is due again after a while; a change of an instance has the same effect.
Wake(p) ==
    /\ known[p] # Gone
    /\ queue' = queue \union {p}
    /\ UNCHANGED <<world, known, tick, pass, objects, status, faults, lost>>

Owners == {specs[p].uid : p \in Provider}

\* What is owned by a provider that isn't there any more is deleted.
Collect(n) ==
    /\ \/ /\ access[n] \notin Owners \union {NoOwner}
          /\ access' = [access EXCEPT ![n] = NoOwner]
          /\ UNCHANGED deployments
       \/ /\ deployments[n] # NoInstance
          /\ deployments[n].spec.uid \notin Owners
          /\ deployments' = [deployments EXCEPT ![n] = NoInstance]
          /\ UNCHANGED access
    /\ UNCHANGED <<world, known, queue, tick, pass, status, faults, lost>>

Restart ==
    /\ known' = specs
    /\ queue' = {p \in Provider : specs[p] # Gone}
    /\ tick' = FALSE
    /\ lost' = FALSE
    /\ pass' = [p \in Provider |-> Idle]
    /\ UNCHANGED <<world, objects, status>>
    /\ Fault

-----------------------------------------------------------------------------
(* A pass                                                                  *)

\* blocked: the spec on its own, then against all the others, then the Secret.
Begin(p) ==
    LET s    == known[p]
        stop == Blocked(p, s.says)
    IN  /\ p \in queue /\ pass[p].at = "idle"
        /\ queue' = queue \ {p}
        /\ pass' = IF s = Gone THEN pass
                   ELSE [pass EXCEPT ![p] =
                           [at |-> "apply", spec |-> s, stop |-> stop, doomed |-> {},
                            left |-> IF stop = "no" THEN s.says.namespaces ELSE {}]]
        /\ UNCHANGED <<world, known, tick, objects, status, faults, lost>>

\* Each of the three is written over whatever has its name.
Apply(p, ns) ==
    LET n == InstanceName[p][ns]
    IN  /\ pass[p].at = "apply" /\ ns \in pass[p].left
        /\ pass' = [pass EXCEPT ![p].left = @ \ {ns}]
        /\ access' = [access EXCEPT ![n] = pass[p].spec.uid]
        /\ deployments' = [deployments EXCEPT ![n] =
               [by |-> p, for |-> ns, spec |-> pass[p].spec]]
        /\ UNCHANGED <<world, known, queue, tick, status, faults, lost>>

\* Fault: namespaces taken off the list keep their instance.
DoomedStopped(p) ==
    {n \in Name : /\ deployments[n] # NoInstance /\ deployments[n].by = p
                  /\ pass[p].stop # "no"}

\* What runs for this provider and shouldn't, by its label.
Doomed(p) ==
    {n \in Name : /\ deployments[n] # NoInstance /\ deployments[n].by = p
                  /\ \/ pass[p].stop # "no"
                     \/ deployments[n].for \notin pass[p].spec.says.namespaces}

ListRunning(p) ==
    /\ pass[p].at = "apply" /\ pass[p].left = {}
    /\ pass' = [pass EXCEPT ![p] = [@ EXCEPT !.at = "remove", !.doomed = Doomed(p)]]
    /\ UNCHANGED <<world, known, queue, tick, objects, status, faults, lost>>

Remove(p, n) ==
    /\ pass[p].at = "remove" /\ n \in pass[p].doomed
    /\ pass' = [pass EXCEPT ![p].doomed = @ \ {n}]
    /\ deployments' = [deployments EXCEPT ![n] = NoInstance]
    /\ access' = [access EXCEPT ![n] = NoOwner]
    /\ UNCHANGED <<world, known, queue, tick, status, faults, lost>>

\* Where the provider has gone meanwhile, there is no status to write.
Record(p) ==
    /\ pass[p].at = "remove" /\ pass[p].doomed = {}
    /\ pass' = [pass EXCEPT ![p] = Idle]
    /\ IF specs[p] = Gone
       THEN queue' = queue \union {p} /\ UNCHANGED status
       ELSE /\ status' = [status EXCEPT ![p] =
                   [stop |-> pass[p].stop,
                    instances |-> IF pass[p].stop = "no" THEN pass[p].spec.says.namespaces
                                  ELSE {}]]
            /\ UNCHANGED queue
    /\ UNCHANGED <<world, known, tick, objects, faults, lost>>

\* A call is refused: the pass ends there and is tried again.
Fails(p) ==
    /\ pass' = [pass EXCEPT ![p] = Idle]
    /\ queue' = queue \union {p}
    /\ Fault

PassFails(p) ==
    /\ pass[p].at # "idle"
    /\ Fails(p)
    /\ UNCHANGED <<world, known, tick, objects, status, lost>>

\* The Deployment is refused after what comes before it was written.
ApplyFails(p, ns) ==
    LET n == InstanceName[p][ns]
    IN  /\ pass[p].at = "apply" /\ ns \in pass[p].left
        /\ access' = [access EXCEPT ![n] = pass[p].spec.uid]
        /\ Fails(p)
        /\ UNCHANGED <<world, known, tick, deployments, status, lost>>

\* The Deployment is deleted, and what comes after it is refused.
RemoveFails(p, n) ==
    /\ pass[p].at = "remove" /\ n \in pass[p].doomed
    /\ deployments' = [deployments EXCEPT ![n] = NoInstance]
    /\ Fails(p)
    /\ UNCHANGED <<world, known, tick, access, status, lost>>

-----------------------------------------------------------------------------
Work(p) ==
    \/ Begin(p) \/ ListRunning(p) \/ Record(p)
    \/ \E ns \in Namespace : Apply(p, ns)
    \/ \E n \in Name : Remove(p, n)

Trouble(p) ==
    \/ PassFails(p) \/ Credentials(p)
    \/ \E ns \in Namespace : ApplyFails(p, ns)
    \/ \E n \in Name : RemoveFails(p, n)

Next ==
    \/ \E p \in Provider : Edit(p) \/ Watched(p) \/ Wake(p) \/ Work(p) \/ Trouble(p)
    \/ \E n \in Name : Collect(n)
    \/ Tick \/ TickIsLost \/ Restart

Spec == Init /\ [][Next]_vars

(* Watches are re-established, queued passes are run, every pass asks for  *)
(* another after a while, and Kubernetes collects its garbage.             *)
Fairness ==
    /\ \A p \in Provider : WF_vars(Watched(p)) /\ WF_vars(Work(p)) /\ WF_vars(Wake(p))
    /\ \A n \in Name : WF_vars(Collect(n))

FairSpec == Spec /\ Fairness

-----------------------------------------------------------------------------
Reasons == {"no", "Invalid", "DomainConflict", "MissingCredentials"}

Pass ==
    [at : {"idle", "apply", "remove"}, spec : Spec_ \union {Gone},
     stop : Reasons, left : SUBSET Namespace, doomed : SUBSET Name]

TypeOK ==
    /\ specs \in [Provider -> Spec_ \union {Gone}]
    /\ known \in [Provider -> Spec_ \union {Gone}]
    /\ secrets \subseteq Provider
    /\ queue \subseteq Provider
    /\ tick \in BOOLEAN
    /\ pass \in [Provider -> Pass]
    /\ \A p \in Provider : pass[p].at # "idle" => pass[p].spec \in Spec_
    /\ access \in [Name -> Uid \union {NoOwner}]
    /\ deployments \in [Name -> Instance \union {NoInstance}]
    /\ status \in [Provider -> [stop : Reasons \union {"none yet"}, instances : SUBSET Namespace]]
    /\ edits \in Nat /\ faults \in Nat
    /\ lost \in BOOLEAN

Runs(p) == {n \in Name : deployments[n] # NoInstance /\ deployments[n].by = p}

\* Nothing that happened is left for the operator to look at.
Settled(p) ==
    /\ specs[p] # Gone /\ known[p] = specs[p]
    /\ p \notin queue /\ pass[p].at = "idle"

(* "A provider in conflict runs nothing until it's resolved": whichever    *)
(* changes were made while passes were under way, whatever each had listed *)
(* before, a provider that has nothing left to look at and runs is in      *)
(* conflict with no other.  It takes no timer.                             *)
ConflictRunsNothing ==
    \A p \in Provider :
        Settled(p) /\ ~tick /\ ~lost /\ Runs(p) # {} => ~Conflicts(p, specs[p].says)

(* What a provider's status says of its instances is so, unless there is   *)
(* something it has yet to look at: an instance for each namespace, of the *)
(* spec as it is, and none at all when something stops them.               *)
StatusIsTrue ==
    \A p \in Provider :
        Settled(p) =>
            /\ {deployments[n].for : n \in Runs(p)} = status[p].instances
            /\ \A n \in Runs(p) : deployments[n].spec = specs[p]

(* Also when a change is never told of, when credentials come and go and   *)
(* when passes fail half way: providers in conflict stop in the end.       *)
EndsApart ==
    \A p \in Provider :
        <>[](specs[p] # Gone /\ Conflicts(p, specs[p].says) => Runs(p) = {})

(* A provider with nothing against it is published in the end, the one     *)
(* whose conflict was resolved included.                                   *)
GoesLive ==
    \A p \in Provider :
        <>[](specs[p] # Gone => Blocked(p, specs[p].says) = "no")
          => <>[](specs[p] # Gone =>
                    {deployments[n].for : n \in Runs(p)} = specs[p].says.namespaces)

(* "Remove one instance, whatever of it is there": once settled, there is  *)
(* no account and no binding of a provider without the instance it was     *)
(* made for.                                                               *)
(* Doesn't hold, and no run checks it (README, Observed on the way).       *)
NothingLeftBehind ==
    (\A p \in Provider : specs[p] = Gone \/ Settled(p)) =>
        \A n \in Name : deployments[n] = NoInstance => access[n] \notin Owners \ {NoOwner}

-----------------------------------------------------------------------------
(* The inductive invariant.  A pass goes by the operator's copy of its     *)
(* provider, or else another one is due; and it goes by a listing that     *)
(* still holds, or else a change waits to be told of or has been.          *)
NamesInv ==
    \A n \in Name : deployments[n] # NoInstance =>
        n = InstanceName[deployments[n].by][deployments[n].for]

PassInv ==
    \A p \in Provider :
        pass[p].at # "idle" /\ p \notin queue =>
            /\ known[p] # Gone => pass[p].spec = known[p]
            /\ known[p] # Gone /\ known[p] = specs[p] /\ ~tick /\ ~lost /\ pass[p].stop = "no" =>
                  ~Conflicts(p, specs[p].says)

\* The instances that a pass leaves are those of its spec.
InstancesOf(p, n) ==
    /\ pass[p].at = "apply" /\ pass[p].stop = "no"
       /\ deployments[n].for \in pass[p].spec.says.namespaces \ pass[p].left =>
          deployments[n].spec = pass[p].spec
    /\ pass[p].at = "remove" /\ n \notin pass[p].doomed =>
          pass[p].stop = "no" /\ deployments[n].spec = pass[p].spec
    /\ pass[p].at = "idle" /\ p \notin queue /\ known[p] # Gone =>
          deployments[n].spec = known[p]

InstancesInv == \A p \in Provider : \A n \in Runs(p) : InstancesOf(p, n)

IInv == TypeOK /\ NamesInv /\ PassInv /\ InstancesInv /\ ConflictRunsNothing

(* Whatever was not told of, lost or failed half way: in the end providers *)
(* in conflict run nothing, and one with nothing against it runs an        *)
(* instance for each of its namespaces.                                    *)
ComesRight ==
    /\ EndsApart
    /\ GoesLive
=============================================================================
