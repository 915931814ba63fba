------------------------- MODULE DnsProvidersProofs -------------------------
(***************************************************************************)
(* Proofs about DnsProviders, for any providers, domains and namespaces,   *)
(* whatever names their instances share, and for any number of edits and   *)
(* faults: the types are right, and a provider in conflict runs nothing    *)
(* once the changes made so far have been looked at.                       *)
(***************************************************************************)
EXTENDS DnsProviders, TLAPS

(* Whatever is found against a provider, it is one of the reasons.         *)
LEMMA BlockedType ==
    ASSUME NEW p, NEW s
    PROVE  Blocked(p, s) \in Reasons
BY DEF Blocked, Reasons

(* Nothing is found against a provider only where nothing conflicts.       *)
LEMMA UnblockedIsApart ==
    ASSUME NEW p \in Provider, NEW s \in Spec_, Blocked(p, s.says) = "no"
    PROVE  ~Conflicts(p, s.says)
<1>1. s.says.valid \in BOOLEAN
  BY DEF Spec_, Contents
<1>2. CASE ~s.says.valid
  BY <1>2 DEF Blocked
<1>3. CASE s.says.valid /\ Conflicts(p, s.says)
  BY <1>3 DEF Blocked
<1>4. QED
  BY <1>1, <1>2, <1>3

(* An idle pass is a pass.                                                 *)
LEMMA IdleType == Idle \in Pass /\ Idle.at = "idle"
BY DEF Idle, Pass, Reasons

(* Every instance has a name that is a name.                               *)
LEMMA NameOfInstance ==
    ASSUME NEW p \in Provider, NEW ns \in Namespace
    PROVE  InstanceName[p][ns] \in Name
BY DEF Name

(* Counting another fault or edit keeps the count a number.                *)
LEMMA FaultType ==
    ASSUME faults \in Nat, Fault
    PROVE  faults' \in Nat
BY DEF Fault

LEMMA EditsType ==
    ASSUME edits \in Nat, NEW p \in Provider
    PROVE  edits + 1 \in Nat /\ <<p, edits + 1>> \in Uid
BY DEF Uid

(* An edit leaves what the provider's status says or takes it away.        *)
LEMMA EditedStatus ==
    ASSUME NEW p \in Provider, Edit(p)
    PROVE  status' = status \/ status' = [status EXCEPT ![p] = NoStatus]
BY DEF Edit

(* An edit is counted, will be told of, and is of one provider.            *)
LEMMA EditChanges ==
    ASSUME NEW p \in Provider, Edit(p)
    PROVE  /\ edits' = edits + 1 /\ tick'
           /\ UNCHANGED <<known, queue, pass, deployments>>
BY DEF Edit, objects

LEMMA InitTypeOK == Init => TypeOK
<1> SUFFICES ASSUME Init PROVE TypeOK
  OBVIOUS
<1>1. PICK there \in SUBSET Provider, says \in [Provider -> SpecContents] :
          specs = [p \in Provider |->
                      IF p \in there THEN [uid |-> <<p, 0>>, says |-> says[p]] ELSE Gone]
  BY DEF Init
<1>2. \A p \in Provider : <<p, 0>> \in Uid /\ says[p] \in Contents
  BY ContentsAssumption DEF Uid
<1>3. \A p \in Provider : [uid |-> <<p, 0>>, says |-> says[p]] \in Spec_
  BY <1>2 DEF Spec_
<1>4. specs \in [Provider -> Spec_ \union {Gone}]
  BY <1>1, <1>3
<1>5. status \in [Provider -> [stop : Reasons \union {"none yet"}, instances : SUBSET Namespace]]
  BY DEF Init, NoStatus
<1>6. pass \in [Provider -> Pass] /\ \A p \in Provider : pass[p].at = "idle"
  BY IdleType DEF Init
<1>7. QED
  BY <1>4, <1>5, <1>6 DEF Init, TypeOK

(* A pass that is written is still a pass, and the others are as they were. *)
LEMMA OnePassWritten ==
    ASSUME TypeOK, NEW p \in Provider, NEW q \in Pass, pass' = [pass EXCEPT ![p] = q]
    PROVE  /\ pass' \in [Provider -> Pass] /\ pass'[p] = q
           /\ \A o \in Provider \ {p} : pass'[o] = pass[o]
BY DEF TypeOK

(* Between its beginning and its end a pass keeps its spec and what it was *)
(* told of its conflicts, whichever step it takes.                         *)
LEMMA PassesGoOn ==
    ASSUME TypeOK, NEW p \in Provider,
           ListRunning(p) \/ (\E ns \in Namespace : Apply(p, ns)) \/ (\E n \in Name : Remove(p, n))
    PROVE  /\ pass' \in [Provider -> Pass]
           /\ \A o \in Provider : /\ pass'[o].spec = pass[o].spec /\ pass'[o].stop = pass[o].stop
                                  /\ pass'[o].at # "idle" <=> pass[o].at # "idle"
<1>1. pass \in [Provider -> Pass] /\ pass[p] \in Pass
  BY DEF TypeOK
<1>2. PICK r \in Pass : r = pass[p]
  BY <1>1
<1>3. \E q \in Pass : /\ q.spec = r.spec /\ q.stop = r.stop
                     /\ (q.at # "idle" <=> r.at # "idle")
                     /\ pass' = [pass EXCEPT ![p] = q]
  <2>1. r.left \in SUBSET Namespace /\ r.doomed \in SUBSET Name
    BY DEF Pass
  <2>2. CASE ListRunning(p)
    <3>1. Doomed(p) \in SUBSET Name /\ r.at = "apply"
      BY <1>2, <2>2 DEF Doomed, ListRunning
    <3>2. PICK doomed \in SUBSET Name : doomed = Doomed(p)
      BY <3>1
    <3> DEFINE q == [r EXCEPT !.at = "remove", !.doomed = doomed]
    <3>3. q \in Pass /\ q.spec = r.spec /\ q.stop = r.stop /\ q.at = "remove"
      BY DEF Pass
    <3>4. pass' = [pass EXCEPT ![p] = q]
      BY <1>1, <1>2, <2>2, <3>2 DEF ListRunning
    <3> QED
      BY <3>1, <3>3, <3>4
  <2>3. CASE \E ns \in Namespace : Apply(p, ns)
    <3>1. PICK ns \in Namespace : Apply(p, ns)
      BY <2>3
    <3>2. PICK left \in SUBSET Namespace : left = r.left \ {ns}
      BY <2>1
    <3> DEFINE q == [r EXCEPT !.left = left]
    <3>3. q \in Pass /\ q.spec = r.spec /\ q.stop = r.stop /\ q.at = r.at
      BY DEF Pass
    <3>4. pass' = [pass EXCEPT ![p] = q]
      BY <1>1, <1>2, <3>1, <3>2 DEF Apply
    <3> QED
      BY <3>3, <3>4
  <2>4. CASE \E n \in Name : Remove(p, n)
    <3>1. PICK n \in Name : Remove(p, n)
      BY <2>4
    <3>2. PICK doomed \in SUBSET Name : doomed = r.doomed \ {n}
      BY <2>1
    <3> DEFINE q == [r EXCEPT !.doomed = doomed]
    <3>3. q \in Pass /\ q.spec = r.spec /\ q.stop = r.stop /\ q.at = r.at
      BY DEF Pass
    <3>4. pass' = [pass EXCEPT ![p] = q]
      BY <1>1, <1>2, <3>1, <3>2 DEF Remove
    <3> QED
      BY <3>3, <3>4
  <2> QED
    BY <2>2, <2>3, <2>4
<1>4. PICK q \in Pass : /\ q.spec = r.spec /\ q.stop = r.stop
                        /\ (q.at # "idle" <=> r.at # "idle")
                        /\ pass' = [pass EXCEPT ![p] = q]
  BY <1>3, Zenon
<1>5. /\ pass' \in [Provider -> Pass] /\ pass'[p] = q
      /\ \A o \in Provider \ {p} : pass'[o] = pass[o]
  BY <1>4, OnePassWritten
<1> QED
  BY <1>2, <1>4, <1>5

(* Each provider's own part of a step keeps the types.                     *)
LEMMA WorkTypeOK ==
    ASSUME TypeOK, NEW p \in Provider, Work(p)
    PROVE  TypeOK'
<1> USE DEF TypeOK, world, objects
<1>1. CASE Begin(p)
  <2> DEFINE s == known[p]
             stop == Blocked(p, s.says)
             q == [at |-> "apply", spec |-> s, stop |-> stop, doomed |-> {},
                   left |-> IF stop = "no" THEN s.says.namespaces ELSE {}]
  <2>1. CASE s = Gone
    BY <1>1, <2>1 DEF Begin
  <2>2. CASE s # Gone
    <3>1. s \in Spec_ /\ s.says.namespaces \subseteq Namespace
      BY <2>2 DEF Spec_, Contents
    <3>2. q \in Pass
      BY <3>1, BlockedType DEF Pass
    <3>3. pass' = [pass EXCEPT ![p] = q]
      BY <1>1, <2>2 DEF Begin
    <3> HIDE DEF q
    <3>4. pass' \in [Provider -> Pass] /\ q.spec = s
      BY <3>2, <3>3 DEF q
    <3>5. \A o \in Provider : pass'[o].at # "idle" => pass'[o].spec \in Spec_
      BY <3>1, <3>3, <3>4
    <3>6. QED
      BY <1>1, <3>4, <3>5 DEF Begin
  <2>3. QED
    BY <2>1, <2>2
<1>2. CASE ListRunning(p)
  <2>1. /\ pass' \in [Provider -> Pass]
        /\ \A o \in Provider : /\ pass'[o].spec = pass[o].spec
                               /\ pass'[o].at # "idle" <=> pass[o].at # "idle"
    BY <1>2, PassesGoOn
  <2>2. QED
    BY <1>2, <2>1 DEF ListRunning
<1>3. CASE Record(p)
  <2>1. [stop |-> pass[p].stop,
         instances |-> IF pass[p].stop = "no" THEN pass[p].spec.says.namespaces ELSE {}]
           \in [stop : Reasons \union {"none yet"}, instances : SUBSET Namespace]
    BY <1>3 DEF Record, Pass, Spec_, Contents
  <2>2. status' \in [Provider -> [stop : Reasons \union {"none yet"}, instances : SUBSET Namespace]]
    BY <1>3, <2>1 DEF Record
  <2>3. pass' \in [Provider -> Pass] /\ \A o \in Provider : pass'[o].at # "idle" => pass'[o].spec \in Spec_
    BY <1>3, IdleType DEF Record
  <2>4. queue' \subseteq Provider
    BY <1>3 DEF Record
  <2>5. QED
    BY <1>3, <2>2, <2>3, <2>4 DEF Record
<1>4. ASSUME NEW ns \in Namespace, Apply(p, ns) PROVE TypeOK'
  <2>1. pass[p].spec \in Spec_ /\ pass[p].spec.uid \in Uid
    BY <1>4 DEF Apply, Spec_
  <2>2. [by |-> p, for |-> ns, spec |-> pass[p].spec] \in Instance
    BY <2>1 DEF Instance
  <2>3. deployments' \in [Name -> Instance \union {NoInstance}]
    BY <1>4, <2>2, NameOfInstance DEF Apply
  <2>4. access' \in [Name -> Uid \union {NoOwner}]
    BY <1>4, <2>1, NameOfInstance DEF Apply
  <2>5. /\ pass' \in [Provider -> Pass]
        /\ \A o \in Provider : /\ pass'[o].spec = pass[o].spec
                               /\ pass'[o].at # "idle" <=> pass[o].at # "idle"
    BY <1>4, PassesGoOn
  <2>6. QED
    BY <1>4, <2>3, <2>4, <2>5 DEF Apply
<1>5. ASSUME NEW n \in Name, Remove(p, n) PROVE TypeOK'
  <2>1. /\ pass' \in [Provider -> Pass]
        /\ \A o \in Provider : /\ pass'[o].spec = pass[o].spec
                               /\ pass'[o].at # "idle" <=> pass[o].at # "idle"
    BY <1>5, PassesGoOn
  <2>2. QED
    BY <1>5, <2>1 DEF Remove
<1>6. QED
  BY <1>1, <1>2, <1>3, <1>4, <1>5 DEF Work

LEMMA TroubleTypeOK ==
    ASSUME TypeOK, NEW p \in Provider, Trouble(p)
    PROVE  TypeOK'
<1> USE DEF TypeOK, world, objects
<1>1. ASSUME Fails(p)
      PROVE  /\ pass' \in [Provider -> Pass]
             /\ \A o \in Provider : pass'[o].at # "idle" => pass'[o].spec \in Spec_
             /\ queue' \subseteq Provider /\ faults' \in Nat
  <2>1. faults' \in Nat
    BY <1>1, FaultType DEF Fails
  <2>2. QED
    BY <1>1, <2>1, IdleType DEF Fails
<1>2. CASE PassFails(p)
  BY <1>1, <1>2 DEF PassFails
<1>3. CASE Credentials(p)
  BY <1>3, FaultType DEF Credentials
<1>4. ASSUME NEW ns \in Namespace, ApplyFails(p, ns) PROVE TypeOK'
  <2>1. pass[p].spec.uid \in Uid
    BY <1>4 DEF ApplyFails, Spec_
  <2>2. access' \in [Name -> Uid \union {NoOwner}]
    BY <1>4, <2>1, NameOfInstance DEF ApplyFails
  <2>3. QED
    BY <1>1, <1>4, <2>2 DEF ApplyFails
<1>5. ASSUME NEW n \in Name, RemoveFails(p, n) PROVE TypeOK'
  BY <1>1, <1>5 DEF RemoveFails
<1>6. QED
  BY <1>2, <1>3, <1>4, <1>5 DEF Trouble

LEMMA NextTypeOK == TypeOK /\ [Next]_vars => TypeOK'
<1> SUFFICES ASSUME TypeOK, [Next]_vars PROVE TypeOK'
  OBVIOUS
<1> USE DEF TypeOK, world, objects
<1>1. ASSUME NEW p \in Provider, Edit(p) PROVE TypeOK'
  <2>1. status' \in [Provider -> [stop : Reasons \union {"none yet"}, instances : SUBSET Namespace]]
    <3>1. NoStatus \in [stop : Reasons \union {"none yet"}, instances : SUBSET Namespace]
      BY DEF NoStatus
    <3>2. QED
      BY <1>1, <3>1, EditedStatus
  <2>2. specs' \in [Provider -> Spec_ \union {Gone}]
    <3>1. CASE specs' = [specs EXCEPT ![p] = Gone]
      BY <3>1
    <3>2. ASSUME NEW c \in SpecContents,
                 specs' = [specs EXCEPT ![p] =
                    [uid |-> IF specs[p] = Gone THEN <<p, edits + 1>> ELSE specs[p].uid,
                     says |-> c]]
          PROVE  specs' \in [Provider -> Spec_ \union {Gone}]
      <4>1. <<p, edits + 1>> \in Uid
        BY EditsType
      <4>2. specs[p] # Gone => specs[p].uid \in Uid
        BY DEF Spec_
      <4>3. [uid |-> IF specs[p] = Gone THEN <<p, edits + 1>> ELSE specs[p].uid,
             says |-> c] \in Spec_
        BY <4>1, <4>2, ContentsAssumption DEF Spec_
      <4>4. QED
        BY <3>2, <4>3
    <3>3. QED
      BY <1>1, <3>1, <3>2 DEF Edit
  <2>3. edits' \in Nat /\ tick' \in BOOLEAN
    BY <1>1, EditsType, EditChanges
  <2>4. QED
    BY <1>1, <2>1, <2>2, <2>3 DEF Edit
<1>2. ASSUME NEW p \in Provider, Watched(p) PROVE TypeOK'
  BY <1>2 DEF Watched
<1>3. ASSUME NEW p \in Provider, Wake(p) PROVE TypeOK'
  BY <1>3 DEF Wake
<1>4. ASSUME NEW n \in Name, Collect(n) PROVE TypeOK'
  BY <1>4 DEF Collect
<1>5. CASE Tick
  BY <1>5 DEF Tick
<1>6. CASE TickIsLost
  BY <1>6, FaultType DEF TickIsLost
<1>7. CASE Restart
  BY <1>7, IdleType, FaultType DEF Restart
<1>8. CASE UNCHANGED vars
  BY <1>8 DEF vars
<1>9. QED
  BY <1>1, <1>2, <1>3, <1>4, <1>5, <1>6, <1>7, <1>8, WorkTypeOK, TroubleTypeOK DEF Next

(* The model never leaves its types.                                       *)
THEOREM TypeCorrect == Spec => []TypeOK
BY InitTypeOK, NextTypeOK, PTL DEF Spec
-----------------------------------------------------------------------------
(* A step that leaves the specs alone leaves what conflicts with what.     *)
LEMMA SameConflicts ==
    ASSUME UNCHANGED specs, NEW p
    PROVE  Conflicts(p, specs[p].says) <=> Conflicts(p, specs[p].says)'
BY DEF Conflicts

(* Instances keep the name of their provider and namespace: only Apply     *)
(* makes one.                                                              *)
LEMMA NextNamesInv == TypeOK /\ NamesInv /\ [Next]_vars => NamesInv'
<1> SUFFICES ASSUME TypeOK, NamesInv, [Next]_vars PROVE NamesInv'
  OBVIOUS
<1>1. ASSUME NEW p \in Provider, NEW ns \in Namespace, Apply(p, ns) PROVE NamesInv'
  <2>1. deployments' = [deployments EXCEPT ![InstanceName[p][ns]] =
                          [by |-> p, for |-> ns, spec |-> pass[p].spec]]
    BY <1>1 DEF Apply
  <2>2. InstanceName[p][ns] \in Name
    BY NameOfInstance
  <2>3. QED
    BY <2>1, <2>2 DEF NamesInv, TypeOK
<1>2. ASSUME \A n \in Name : deployments'[n] = deployments[n] \/ deployments'[n] = NoInstance
      PROVE  NamesInv'
  BY <1>2 DEF NamesInv
<1>3. ASSUME UNCHANGED deployments PROVE NamesInv'
  BY <1>2, <1>3
<1>4. ASSUME NEW p \in Provider, Work(p) PROVE NamesInv'
  <2>1. CASE Begin(p) \/ ListRunning(p) \/ Record(p)
    BY <1>3, <2>1 DEF Begin, ListRunning, Record, objects
  <2>2. ASSUME NEW n \in Name, Remove(p, n) PROVE NamesInv'
    BY <1>2, <2>2 DEF Remove, TypeOK
  <2>3. QED
    BY <1>1, <1>4, <2>1, <2>2 DEF Work
<1>5. ASSUME NEW p \in Provider, Trouble(p) PROVE NamesInv'
  <2>1. CASE PassFails(p) \/ Credentials(p)
    BY <1>3, <2>1 DEF PassFails, Credentials, objects
  <2>2. ASSUME NEW ns \in Namespace, ApplyFails(p, ns) PROVE NamesInv'
    BY <1>3, <2>2 DEF ApplyFails
  <2>3. ASSUME NEW n \in Name, RemoveFails(p, n) PROVE NamesInv'
    BY <1>2, <2>3 DEF RemoveFails, TypeOK
  <2>4. QED
    BY <1>5, <2>1, <2>2, <2>3 DEF Trouble
<1>6. ASSUME NEW n \in Name, Collect(n) PROVE NamesInv'
  BY <1>2, <1>6 DEF Collect, TypeOK
<1>7. ASSUME NEW p \in Provider, Edit(p) \/ Watched(p) \/ Wake(p) PROVE NamesInv'
  BY <1>3, <1>7, EditChanges DEF Watched, Wake, objects
<1>8. CASE Tick \/ TickIsLost \/ Restart \/ UNCHANGED vars
  BY <1>3, <1>8 DEF Tick, TickIsLost, Restart, vars, objects
<1>9. QED
  BY <1>4, <1>5, <1>6, <1>7, <1>8 DEF Next

(* A pass that isn't followed by another goes by the operator's copy, and  *)
(* by a listing that still holds unless a change of it has yet to be told. *)
LEMMA NextPassInv == TypeOK /\ PassInv /\ [Next]_vars => PassInv'
<1> SUFFICES ASSUME TypeOK, PassInv, [Next]_vars PROVE PassInv'
  OBVIOUS
\* What leaves the specs, the copies and the tick alone, and every pass as
\* it is, or idle, or due again.
<1>1. ASSUME UNCHANGED <<specs, known, tick, lost>>,
             \A p \in Provider : p \in queue' \/ pass'[p].at = "idle"
                \/ (/\ p \notin queue /\ pass[p].at # "idle"
                    /\ pass'[p].spec = pass[p].spec /\ pass'[p].stop = pass[p].stop)
      PROVE  PassInv'
  BY <1>1, SameConflicts DEF PassInv
<1>2. ASSUME NEW p \in Provider, Begin(p) PROVE PassInv'
  <2> SUFFICES ASSUME NEW o \in Provider, pass'[o].at # "idle", o \notin queue'
               PROVE  /\ known[o] # Gone => pass'[o].spec = known[o]
                      /\ known[o] # Gone /\ known[o] = specs[o] /\ ~tick /\ ~lost /\ pass'[o].stop = "no" =>
                            ~Conflicts(o, specs[o].says)
    BY <1>2, SameConflicts DEF PassInv, Begin, world
  <2>1. CASE o # p \/ known[p] = Gone
    BY <1>2, <2>1 DEF Begin, PassInv, TypeOK
  <2>2. CASE o = p /\ known[p] # Gone
    <3>1. pass'[p].spec = known[p] /\ pass'[p].stop = Blocked(p, known[p].says)
      BY <1>2, <2>2 DEF Begin, TypeOK
    <3>2. known[p] \in Spec_
      BY <2>2 DEF TypeOK
    <3>3. QED
      BY <2>2, <3>1, <3>2, UnblockedIsApart
  <2>3. QED
    BY <2>1, <2>2
<1>3. ASSUME NEW p \in Provider, Work(p) PROVE PassInv'
  <2>1. CASE ListRunning(p)
    BY <1>1, <2>1, PassesGoOn DEF ListRunning, world
  <2>2. CASE Record(p)
    BY <1>1, <2>2, IdleType DEF Record, world, TypeOK
  <2>3. ASSUME NEW ns \in Namespace, Apply(p, ns) PROVE PassInv'
    BY <1>1, <2>3, PassesGoOn DEF Apply, world
  <2>4. ASSUME NEW n \in Name, Remove(p, n) PROVE PassInv'
    BY <1>1, <2>4, PassesGoOn DEF Remove, world
  <2>5. QED
    BY <1>2, <1>3, <2>1, <2>2, <2>3, <2>4 DEF Work
<1>4. ASSUME NEW p \in Provider, Trouble(p) PROVE PassInv'
  <2>1. ASSUME Fails(p), UNCHANGED <<specs, known, tick, lost>> PROVE PassInv'
    BY <1>1, <2>1, IdleType DEF Fails, TypeOK
  <2>2. CASE Credentials(p)
    BY <1>1, <2>2 DEF Credentials
  <2>3. QED
    BY <1>4, <2>1, <2>2 DEF Trouble, PassFails, ApplyFails, RemoveFails, world
<1>5. ASSUME NEW p \in Provider, Edit(p) PROVE PassInv'
  BY <1>5, EditChanges DEF PassInv
<1>6. ASSUME NEW p \in Provider, Watched(p) PROVE PassInv'
  <2>1. \A o \in Provider : o = p => known'[o] = Gone \/ o \in queue'
    BY <1>6 DEF Watched, TypeOK
  <2>2. \A o \in Provider \ {p} : known'[o] = known[o] /\ (o \notin queue' => o \notin queue)
    BY <1>6 DEF Watched, TypeOK
  <2>3. UNCHANGED <<specs, tick, lost, pass>>
    BY <1>6 DEF Watched, world
  <2>4. QED
    BY <2>1, <2>2, <2>3, SameConflicts DEF PassInv
<1>7. ASSUME NEW p \in Provider, Wake(p) PROVE PassInv'
  BY <1>1, <1>7 DEF Wake, world
<1>8. ASSUME NEW n \in Name, Collect(n) PROVE PassInv'
  BY <1>1, <1>8 DEF Collect, world
<1>9. CASE Tick
  <2>1. \A o \in Provider : o \notin queue' => known'[o] = Gone
    BY <1>9 DEF Tick
  <2>2. QED
    BY <2>1 DEF PassInv
<1>10. CASE TickIsLost
  BY <1>10 DEF TickIsLost, PassInv, world
<1>11. CASE Restart
  BY <1>11, IdleType DEF Restart, PassInv
<1>12. CASE UNCHANGED vars
  BY <1>1, <1>12 DEF vars
<1>13. QED
  BY <1>3, <1>4, <1>5, <1>6, <1>7, <1>8, <1>9, <1>10, <1>11, <1>12 DEF Next

-----------------------------------------------------------------------------
(* What a step does to the instances of a provider: those of a finished    *)
(* pass are as its spec says, and no other provider's pass adds to them.   *)
LEMMA NextInstancesInv == TypeOK /\ NamesInv /\ PassInv /\ InstancesInv /\ [Next]_vars => InstancesInv'
<1> SUFFICES ASSUME TypeOK, NamesInv, PassInv, InstancesInv, [Next]_vars PROVE InstancesInv'
  OBVIOUS
\* No new instances, and every pass as it is, or idle and due again.
<1>1. ASSUME \A n \in Name : deployments'[n] = deployments[n] \/ deployments'[n] = NoInstance,
             \A p \in Provider :
                /\ pass'[p] = pass[p] \/ (pass'[p].at = "idle" /\ p \in queue')
                /\ \/ p \in queue' \/ known'[p] = Gone
                   \/ p \notin queue /\ known'[p] = known[p]
      PROVE  InstancesInv'
  BY <1>1 DEF InstancesInv, InstancesOf, Runs
<1>2. ASSUME NEW p \in Provider, Begin(p) PROVE InstancesInv'
  <2>1. UNCHANGED <<deployments, known>> /\ \A o \in Provider \ {p} : o \in queue' <=> o \in queue
    BY <1>2 DEF Begin, objects
  <2>2. \A o \in Provider \ {p} : pass'[o] = pass[o]
    BY <1>2 DEF Begin, TypeOK
  <2>3. CASE known[p] = Gone
    <3>1. pass' = pass
      BY <1>2, <2>3 DEF Begin
    <3>2. QED
      BY <2>1, <2>3, <3>1 DEF InstancesInv, InstancesOf, Runs
  <2>4. CASE known[p] # Gone
    <3>1. /\ pass'[p].at = "apply" /\ pass'[p].spec = known[p]
          /\ pass'[p].stop = "no" => pass'[p].left = known[p].says.namespaces
      BY <1>2, <2>4 DEF Begin, TypeOK
    <3>2. QED
      BY <2>1, <2>2, <3>1 DEF InstancesInv, InstancesOf, Runs
  <2>5. QED
    BY <2>3, <2>4
<1>3. ASSUME NEW p \in Provider, ListRunning(p) PROVE InstancesInv'
  <2>1. UNCHANGED <<deployments, known, queue>> /\ \A o \in Provider \ {p} : pass'[o] = pass[o]
    BY <1>3 DEF ListRunning, objects, TypeOK
  <2>2. /\ pass'[p].at = "remove" /\ pass'[p].doomed = Doomed(p) /\ pass[p].left = {}
        /\ pass'[p].spec = pass[p].spec /\ pass'[p].stop = pass[p].stop /\ pass[p].at = "apply"
    BY <1>3 DEF ListRunning, TypeOK, Pass
  <2>3. \A n \in Runs(p) : n \notin Doomed(p) => pass[p].stop = "no" /\ deployments[n].spec = pass[p].spec
    BY <2>2 DEF InstancesInv, InstancesOf, Runs, Doomed
  <2>4. QED
    BY <2>1, <2>2, <2>3 DEF InstancesInv, InstancesOf, Runs
<1>4. ASSUME NEW p \in Provider, Record(p) PROVE InstancesInv'
  <2>1. UNCHANGED <<deployments, known>> /\ \A o \in Provider \ {p} : pass'[o] = pass[o]
    BY <1>4 DEF Record, objects, TypeOK
  <2>2. pass'[p].at = "idle" /\ \A o \in Provider : o \notin queue' => o \notin queue
    BY <1>4, IdleType DEF Record, TypeOK
  <2>3. p \notin queue /\ known[p] # Gone =>
          \A n \in Runs(p) : deployments[n].spec = known[p]
    BY <1>4 DEF InstancesInv, InstancesOf, PassInv, Record
  <2>4. QED
    BY <2>1, <2>2, <2>3 DEF InstancesInv, InstancesOf, Runs
<1>5. ASSUME NEW p \in Provider, NEW ns \in Namespace, Apply(p, ns) PROVE InstancesInv'
  <2> DEFINE m == InstanceName[p][ns]
  <2>1. m \in Name
    BY NameOfInstance
  <2>2. UNCHANGED <<known, queue>> /\ \A o \in Provider \ {p} : pass'[o] = pass[o]
    BY <1>5 DEF Apply, TypeOK
  <2>3. /\ pass[p].at = "apply" /\ pass'[p].at = "apply" /\ pass'[p].spec = pass[p].spec
        /\ pass'[p].stop = pass[p].stop /\ pass'[p].left = pass[p].left \ {ns}
    BY <1>5 DEF Apply, TypeOK, Pass
  <2>4. deployments' = [deployments EXCEPT ![m] = [by |-> p, for |-> ns, spec |-> pass[p].spec]]
    BY <1>5 DEF Apply
  <2> HIDE DEF m
  <2>5. \A n \in Name \ {m} : deployments'[n] = deployments[n]
    BY <2>4 DEF TypeOK
  <2>6. deployments'[m] = [by |-> p, for |-> ns, spec |-> pass[p].spec]
    BY <2>1, <2>4 DEF TypeOK
  <2>7. \A o \in Provider \ {p} : \A n \in Runs(o)' : n \in Runs(o) /\ deployments'[n] = deployments[n]
    BY <2>5, <2>6 DEF Runs
  <2>8. \A n \in Runs(p) \ {m} : deployments[n].for # ns
    BY DEF NamesInv, Runs, m
  <2>9. \A n \in Runs(p)' : n = m \/ (n \in Runs(p) /\ deployments'[n] = deployments[n])
    BY <2>5 DEF Runs
  <2>10. \A n \in Runs(p) : deployments[n].for \in pass[p].spec.says.namespaces \ pass'[p].left =>
            n = m \/ pass[p].stop # "no" \/ deployments[n].spec = pass[p].spec
    BY <2>3, <2>8 DEF InstancesInv, InstancesOf
  <2>11. ASSUME NEW n \in Runs(p)' PROVE InstancesOf(p, n)'
    BY <2>3, <2>6, <2>9, <2>10 DEF InstancesOf
  <2>12. ASSUME NEW o \in Provider \ {p}, NEW n \in Runs(o)' PROVE InstancesOf(o, n)'
    BY <2>2, <2>7 DEF InstancesOf, InstancesInv
  <2>13. QED
    BY <2>11, <2>12 DEF InstancesInv, InstancesOf
<1>6. ASSUME NEW p \in Provider, NEW m \in Name, Remove(p, m) PROVE InstancesInv'
  <2>1. UNCHANGED <<known, queue>> /\ \A o \in Provider \ {p} : pass'[o] = pass[o]
    BY <1>6 DEF Remove, TypeOK
  <2>2. /\ pass'[p].at = "remove" /\ pass[p].at = "remove" /\ pass'[p].spec = pass[p].spec
        /\ pass'[p].stop = pass[p].stop /\ pass'[p].doomed = pass[p].doomed \ {m}
    BY <1>6 DEF Remove, TypeOK, Pass
  <2>3. \A n \in Name : IF n = m THEN deployments'[n] = NoInstance
                       ELSE deployments'[n] = deployments[n]
    BY <1>6 DEF Remove, TypeOK
  <2>4. \A o \in Provider : \A n \in Runs(o)' : n # m /\ n \in Runs(o) /\ deployments'[n] = deployments[n]
    BY <2>3 DEF Runs
  <2>5. ASSUME NEW o \in Provider, NEW n \in Runs(o)' PROVE InstancesOf(o, n)'
    BY <2>1, <2>2, <2>4 DEF InstancesOf, InstancesInv
  <2>6. QED
    BY <2>5 DEF InstancesInv, InstancesOf
<1>7. ASSUME NEW p \in Provider, Work(p) PROVE InstancesInv'
  BY <1>2, <1>3, <1>4, <1>5, <1>6, <1>7 DEF Work
<1>8. ASSUME NEW p \in Provider, Trouble(p) PROVE InstancesInv'
  <2>1. ASSUME Fails(p), UNCHANGED known,
               \A n \in Name : deployments'[n] = deployments[n] \/ deployments'[n] = NoInstance
        PROVE  InstancesInv'
    BY <1>1, <2>1, IdleType DEF Fails, TypeOK
  <2>2. CASE Credentials(p)
    BY <1>1, <2>2 DEF Credentials, objects
  <2>3. CASE PassFails(p)
    BY <2>1, <2>3 DEF PassFails, objects
  <2>4. ASSUME NEW ns \in Namespace, ApplyFails(p, ns) PROVE InstancesInv'
    BY <2>1, <2>4 DEF ApplyFails
  <2>5. ASSUME NEW n \in Name, RemoveFails(p, n) PROVE InstancesInv'
    BY <2>1, <2>5 DEF RemoveFails, TypeOK
  <2>6. QED
    BY <1>8, <2>2, <2>3, <2>4, <2>5 DEF Trouble
<1>9. ASSUME NEW p \in Provider, Edit(p) \/ Wake(p) PROVE InstancesInv'
  <2>1. UNCHANGED <<known, pass, deployments>> /\ \A o \in Provider : o \notin queue' => o \notin queue
    BY <1>9, EditChanges DEF Wake, objects
  <2>2. QED
    BY <1>1, <2>1
<1>10. ASSUME NEW p \in Provider, Watched(p) PROVE InstancesInv'
  <2>1. UNCHANGED <<pass, deployments>>
    BY <1>10 DEF Watched, objects
  <2>2. \A o \in Provider : \/ o \in queue' \/ known'[o] = Gone
                            \/ o \notin queue /\ known'[o] = known[o]
    <3>1. p \in queue' \/ known'[p] = Gone
      BY <1>10 DEF Watched, TypeOK
    <3>2. \A o \in Provider \ {p} : known'[o] = known[o] /\ (o \in queue' <=> o \in queue)
      BY <1>10 DEF Watched, TypeOK
    <3>3. QED
      BY <3>1, <3>2
  <2>3. QED
    BY <1>1, <2>1, <2>2
<1>11. ASSUME NEW n \in Name, Collect(n) PROVE InstancesInv'
  BY <1>1, <1>11 DEF Collect, TypeOK
<1>12. CASE Tick \/ TickIsLost
  BY <1>1, <1>12 DEF Tick, TickIsLost, objects
<1>13. CASE Restart
  <2>1. UNCHANGED deployments /\ \A p \in Provider : pass'[p].at = "idle" /\ (p \in queue' \/ known'[p] = Gone)
    BY <1>13, IdleType DEF Restart, objects
  <2>2. QED
    BY <2>1 DEF InstancesInv, InstancesOf
<1>14. CASE UNCHANGED vars
  BY <1>1, <1>14 DEF vars
<1>15. QED
  BY <1>7, <1>8, <1>9, <1>10, <1>11, <1>12, <1>13, <1>14 DEF Next

-----------------------------------------------------------------------------
(* A provider comes to be settled by the end of its pass, whose listing    *)
(* still holds; it is unsettled by whatever changes a spec.                *)
LEMMA NextConflictRunsNothing ==
    TypeOK /\ PassInv /\ InstancesInv /\ ConflictRunsNothing /\ [Next]_vars => ConflictRunsNothing'
<1> SUFFICES ASSUME TypeOK, PassInv, InstancesInv, ConflictRunsNothing, [Next]_vars
             PROVE  ConflictRunsNothing'
  OBVIOUS
\* Nobody is newly settled, nothing newly runs, and no spec changes.
<1>1. ASSUME UNCHANGED specs, tick => tick', lost => lost',
             \A n \in Name : deployments'[n] = deployments[n] \/ deployments'[n] = NoInstance,
             \A p \in Provider : Settled(p)' => Settled(p)
      PROVE  ConflictRunsNothing'
  <2>1. \A p \in Provider : Runs(p)' \subseteq Runs(p)
    BY <1>1 DEF Runs
  <2>2. QED
    BY <1>1, <2>1, SameConflicts DEF ConflictRunsNothing
<1>2. ASSUME NEW p \in Provider, Begin(p) \/ ListRunning(p) PROVE ConflictRunsNothing'
  <2>1. UNCHANGED <<specs, known, tick, lost, deployments>>
    BY <1>2 DEF Begin, ListRunning, world, objects
  <2>2. \A o \in Provider : Settled(o)' => Settled(o)
    <3>1. CASE ListRunning(p)
      BY <3>1 DEF ListRunning, Settled, TypeOK, Pass, world
    <3>2. CASE Begin(p)
      BY <3>2 DEF Begin, Settled, TypeOK, world
    <3>3. QED
      BY <1>2, <3>1, <3>2
  <2>3. QED
    BY <1>1, <2>1, <2>2
<1>3. ASSUME NEW p \in Provider, Record(p) PROVE ConflictRunsNothing'
  <2>1. UNCHANGED <<specs, known, tick, lost, deployments>>
    BY <1>3 DEF Record, world, objects
  <2>2. \A o \in Provider \ {p} : Settled(o)' => Settled(o)
    BY <1>3, <2>1 DEF Record, Settled, TypeOK
  <2>3. p \notin queue' => p \notin queue
    BY <1>3 DEF Record
  <2>4. pass[p].at = "remove" /\ pass[p].doomed = {}
    BY <1>3 DEF Record
  <2>5. Runs(p) # {} => pass[p].stop = "no"
    BY <2>4 DEF InstancesInv, InstancesOf
  <2>6. Settled(p)' /\ ~tick /\ ~lost /\ Runs(p) # {} => ~Conflicts(p, specs[p].says)
    BY <2>1, <2>3, <2>4, <2>5 DEF PassInv, Settled
  <2>7. \A o \in Provider : Runs(o)' = Runs(o)
    BY <2>1 DEF Runs
  <2>8. QED
    BY <2>1, <2>2, <2>6, <2>7, SameConflicts DEF ConflictRunsNothing
<1>4. ASSUME NEW p \in Provider, NEW ns \in Namespace, Apply(p, ns) PROVE ConflictRunsNothing'
  <2>1. UNCHANGED <<specs, known, queue, tick, lost>> /\ pass[p].at = "apply" /\ pass'[p].at = "apply"
        /\ \A o \in Provider \ {p} : pass'[o] = pass[o]
    BY <1>4 DEF Apply, TypeOK, Pass, world
  <2>2. \A o \in Provider : Settled(o)' => Settled(o) /\ o # p
    BY <2>1 DEF Settled
  <2>3. \A o \in Provider \ {p} : Runs(o)' \subseteq Runs(o)
    BY <1>4 DEF Apply, Runs, TypeOK
  <2>4. QED
    BY <2>1, <2>2, <2>3, SameConflicts DEF ConflictRunsNothing
<1>5. ASSUME NEW p \in Provider, NEW n \in Name, Remove(p, n) PROVE ConflictRunsNothing'
  <2>1. \A o \in Provider : Settled(o)' => Settled(o)
    <3>1. \A o \in Provider : pass'[o].at # "idle" <=> pass[o].at # "idle"
      BY <1>5, PassesGoOn
    <3>2. UNCHANGED <<specs, known, queue, tick, lost>>
      BY <1>5 DEF Remove, world
    <3>3. QED
      BY <3>1, <3>2 DEF Settled
  <2>2. QED
    BY <1>1, <1>5, <2>1 DEF Remove, TypeOK, world
<1>6. ASSUME NEW p \in Provider, Trouble(p) PROVE ConflictRunsNothing'
  <2>1. ASSUME Fails(p), UNCHANGED <<specs, known, tick, lost>>,
               \A n \in Name : deployments'[n] = deployments[n] \/ deployments'[n] = NoInstance
        PROVE  ConflictRunsNothing'
    <3>1. \A o \in Provider : Settled(o)' => Settled(o)
      BY <2>1 DEF Fails, Settled, TypeOK
    <3>2. QED
      BY <1>1, <2>1, <3>1
  <2>2. CASE Credentials(p)
    BY <1>1, <2>2 DEF Credentials, Settled, objects
  <2>3. CASE PassFails(p)
    BY <2>1, <2>3 DEF PassFails, objects, world
  <2>4. ASSUME NEW ns \in Namespace, ApplyFails(p, ns) PROVE ConflictRunsNothing'
    BY <2>1, <2>4 DEF ApplyFails, world
  <2>5. ASSUME NEW n \in Name, RemoveFails(p, n) PROVE ConflictRunsNothing'
    BY <2>1, <2>5 DEF RemoveFails, TypeOK, world
  <2>6. QED
    BY <1>6, <2>2, <2>3, <2>4, <2>5 DEF Trouble
<1>7. ASSUME NEW p \in Provider, Edit(p) PROVE ConflictRunsNothing'
  BY <1>7, EditChanges DEF ConflictRunsNothing
<1>8. ASSUME NEW p \in Provider, Watched(p) \/ Wake(p) PROVE ConflictRunsNothing'
  <2>1. \A o \in Provider : Settled(o)' => Settled(o)
    BY <1>8 DEF Watched, Wake, Settled, TypeOK, world
  <2>2. QED
    BY <1>1, <1>8, <2>1 DEF Watched, Wake, world, objects
<1>9. ASSUME NEW n \in Name, Collect(n) PROVE ConflictRunsNothing'
  BY <1>1, <1>9 DEF Collect, Settled, TypeOK, world
<1>10. CASE Tick \/ TickIsLost \/ Restart
  <2>1. lost' \/ \A p \in Provider : ~Settled(p)'
    <3>1. CASE Tick
      BY <3>1 DEF Tick, Settled, world
    <3>2. CASE TickIsLost
      BY <3>2 DEF TickIsLost
    <3>3. CASE Restart
      BY <3>3 DEF Restart, Settled, world
    <3>4. QED
      BY <1>10, <3>1, <3>2, <3>3
  <2>2. QED
    BY <2>1 DEF ConflictRunsNothing
<1>11. CASE UNCHANGED vars
  BY <1>1, <1>11 DEF vars, Settled
<1>12. QED
  BY <1>2, <1>3, <1>4, <1>5, <1>6, <1>7, <1>8, <1>9, <1>10, <1>11 DEF Next, Work

LEMMA InitIInv == Init => IInv
<1> SUFFICES ASSUME Init PROVE IInv
  OBVIOUS
<1>1. TypeOK
  BY InitTypeOK
<1>2. \A p \in Provider : Runs(p) = {}
  BY DEF Init, Runs
<1>3. NamesInv
  BY DEF Init, NamesInv
<1>4. PassInv
  BY IdleType DEF Init, PassInv
<1>5. QED
  BY <1>1, <1>2, <1>3, <1>4 DEF IInv, InstancesInv, InstancesOf, ConflictRunsNothing

LEMMA NextIInv == IInv /\ [Next]_vars => IInv'
BY NextTypeOK, NextNamesInv, NextPassInv, NextInstancesInv, NextConflictRunsNothing DEF IInv

(* The inductive invariant holds throughout.                               *)
THEOREM Invariance == Spec => []IInv
BY InitIInv, NextIInv, PTL DEF Spec

(* A provider in conflict runs nothing, once what was changed so far has   *)
(* been looked at, whatever passes were under way when it was changed.     *)
THEOREM ConflictStops == Spec => []ConflictRunsNothing
<1>1. IInv => ConflictRunsNothing
  BY DEF IInv
<1>2. QED
  BY <1>1, Invariance, PTL
-----------------------------------------------------------------------------
(* What a provider's status says of its instances.  Names are put together *)
(* from those of the provider and the namespace, so that two instances may *)
(* have one (naming.rs); what follows is of providers where none do.       *)
DistinctNames ==
    \A p, q \in Provider : \A ns, ms \in Namespace :
        InstanceName[p][ns] = InstanceName[q][ms] => p = q /\ ns = ms

\* The copy is of the very provider that is there.
IsOf(p, s) == specs[p] # Gone /\ s # Gone /\ s.uid = specs[p].uid

Serves(p) == {deployments[n].for : n \in Runs(p)}

\* No two providers of a name are taken for each other: the next is numbered higher.
NumberedInv ==
    \A p \in Provider :
        /\ specs[p] # Gone => specs[p].uid[2] <= edits
        /\ known[p] # Gone => known[p].uid[2] <= edits
        /\ pass[p].at # "idle" => pass[p].spec.uid[2] <= edits

\* A pass only removes what is its own provider's.
DoomedInv ==
    \A p \in Provider :
        pass[p].at = "remove" =>
            /\ \A n \in pass[p].doomed : \E ns \in Namespace : n = InstanceName[p][ns]
            /\ \A n \in Runs(p) \ pass[p].doomed :
                  deployments[n].for \in pass[p].spec.says.namespaces

\* What each part of a pass has seen to, and what the last one left.
SeenTo(p) ==
    p \notin queue =>
        /\ pass[p].at = "apply" /\ pass[p].stop = "no" /\ IsOf(p, pass[p].spec) =>
              pass[p].spec.says.namespaces \ pass[p].left \subseteq Serves(p)
        /\ pass[p].at = "remove" /\ pass[p].stop = "no" /\ IsOf(p, pass[p].spec) =>
              pass[p].spec.says.namespaces
                  \subseteq {deployments[n].for : n \in Runs(p) \ pass[p].doomed}
        /\ pass[p].at = "idle" /\ IsOf(p, known[p]) => Serves(p) = status[p].instances

StatusInv == NumberedInv /\ DoomedInv /\ \A p \in Provider : SeenTo(p)

(* The providers that are there are as numbered as they were, or one more. *)
LEMMA NextNumbered == TypeOK /\ NumberedInv /\ [Next]_vars => NumberedInv'
<1> SUFFICES ASSUME TypeOK, NumberedInv, [Next]_vars PROVE NumberedInv'
  OBVIOUS
<1>1. edits \in Nat
  BY DEF TypeOK
\* A copy that comes from a provider there is, or from another copy.
<1>2. ASSUME UNCHANGED <<specs, edits>>,
             \A p \in Provider :
                /\ known'[p] = known[p] \/ known'[p] = specs[p]
                /\ \/ pass'[p].at = "idle"
                   \/ pass[p].at # "idle" /\ pass'[p].spec = pass[p].spec
                   \/ known[p] # Gone /\ pass'[p].spec = known[p]
      PROVE  NumberedInv'
  <2> SUFFICES ASSUME NEW p \in Provider
               PROVE  /\ specs[p] # Gone => specs[p].uid[2] <= edits
                      /\ known'[p] # Gone => known'[p].uid[2] <= edits
                      /\ pass'[p].at # "idle" => pass'[p].spec.uid[2] <= edits
    BY <1>2 DEF NumberedInv
  <2>1. /\ specs[p] # Gone => specs[p].uid[2] <= edits
        /\ known[p] # Gone => known[p].uid[2] <= edits
        /\ pass[p].at # "idle" => pass[p].spec.uid[2] <= edits
    BY DEF NumberedInv
  <2>2. /\ known'[p] = known[p] \/ known'[p] = specs[p]
        /\ \/ pass'[p].at = "idle"
           \/ pass[p].at # "idle" /\ pass'[p].spec = pass[p].spec
           \/ known[p] # Gone /\ pass'[p].spec = known[p]
    BY <1>2
  <2>3. QED
    BY <2>1, <2>2
<1>3. ASSUME NEW p \in Provider, Edit(p) PROVE NumberedInv'
  <2>1. /\ edits' = edits + 1 /\ UNCHANGED <<known, pass>>
        /\ \A o \in Provider \ {p} : specs'[o] = specs[o]
        /\ \/ specs'[p] = Gone
           \/ specs'[p].uid = <<p, edits + 1>>
           \/ specs[p] # Gone /\ specs'[p].uid = specs[p].uid
    <3>1. CASE specs' = [specs EXCEPT ![p] = Gone]
      BY <1>3, <3>1, EditChanges DEF TypeOK
    <3>2. ASSUME NEW c \in SpecContents,
                 specs' = [specs EXCEPT ![p] =
                    [uid |-> IF specs[p] = Gone THEN <<p, edits + 1>> ELSE specs[p].uid,
                     says |-> c]]
          PROVE  specs'[p].uid = IF specs[p] = Gone THEN <<p, edits + 1>> ELSE specs[p].uid
      BY <3>2 DEF TypeOK
    <3>3. \A o \in Provider \ {p} : specs'[o] = specs[o]
      BY <1>3 DEF Edit, TypeOK
    <3>4. QED
      BY <1>3, <3>1, <3>2, <3>3, EditChanges DEF Edit
  <2>2. <<p, edits + 1>>[2] <= edits'
    BY <1>1, <2>1
  <2>3. \A u : u[2] <= edits /\ u[2] \in Nat => u[2] <= edits'
    BY <1>1, <2>1
  <2>4. \A o \in Provider :
           /\ specs[o] # Gone => specs[o].uid[2] \in Nat
           /\ known[o] # Gone => known[o].uid[2] \in Nat
           /\ pass[o].at # "idle" => pass[o].spec.uid[2] \in Nat
    BY DEF TypeOK, Spec_, Uid
  <2> SUFFICES ASSUME NEW o \in Provider
               PROVE  /\ specs'[o] # Gone => specs'[o].uid[2] <= edits'
                      /\ known'[o] # Gone => known'[o].uid[2] <= edits'
                      /\ pass'[o].at # "idle" => pass'[o].spec.uid[2] <= edits'
    BY DEF NumberedInv
  <2>5. /\ specs[o] # Gone => specs[o].uid[2] <= edits'
        /\ known[o] # Gone => known[o].uid[2] <= edits'
        /\ pass[o].at # "idle" => pass[o].spec.uid[2] <= edits'
    BY <2>3, <2>4 DEF NumberedInv
  <2>6. CASE o = p
    BY <2>1, <2>2, <2>5, <2>6
  <2>7. CASE o # p
    BY <2>1, <2>5, <2>7
  <2>8. QED
    BY <2>6, <2>7
<1>4. ASSUME NEW p \in Provider, Work(p) PROVE NumberedInv'
  <2>1. CASE Begin(p)
    BY <1>2, <2>1 DEF Begin, TypeOK, world
  <2>2. CASE ListRunning(p)
    <3>1. UNCHANGED <<specs, edits, known>> /\ pass[p].at # "idle" /\ pass[p] \in Pass
          /\ pass' = [pass EXCEPT ![p] = [@ EXCEPT !.at = "remove", !.doomed = Doomed(p)]]
      BY <2>2 DEF ListRunning, TypeOK, world
    <3>2. pass'[p].spec = pass[p].spec /\ \A o \in Provider \ {p} : pass'[o] = pass[o]
      BY <3>1 DEF TypeOK, Pass
    <3>3. QED
      BY <1>2, <3>1, <3>2
  <2>3. CASE Record(p)
    BY <1>2, <2>3, IdleType DEF Record, TypeOK, world
  <2>4. ASSUME NEW ns \in Namespace, Apply(p, ns) PROVE NumberedInv'
    BY <1>2, <2>4 DEF Apply, TypeOK, Pass, world
  <2>5. ASSUME NEW n \in Name, Remove(p, n) PROVE NumberedInv'
    BY <1>2, <2>5 DEF Remove, TypeOK, Pass, world
  <2>6. QED
    BY <1>4, <2>1, <2>2, <2>3, <2>4, <2>5 DEF Work
<1>5. ASSUME NEW p \in Provider, Trouble(p) PROVE NumberedInv'
  <2>1. /\ UNCHANGED <<specs, edits, known>>
        /\ pass' = pass \/ pass' = [pass EXCEPT ![p] = Idle]
    BY <1>5 DEF Trouble, Credentials, PassFails, ApplyFails, RemoveFails, Fails, world
  <2>2. QED
    BY <1>2, <2>1, IdleType DEF TypeOK
<1>6. ASSUME NEW p \in Provider, Watched(p) \/ Wake(p) PROVE NumberedInv'
  BY <1>2, <1>6 DEF Watched, Wake, TypeOK, world
<1>7. ASSUME NEW n \in Name, Collect(n) PROVE NumberedInv'
  BY <1>2, <1>7 DEF Collect, world
<1>8. CASE Tick \/ TickIsLost
  BY <1>2, <1>8 DEF Tick, TickIsLost, world
<1>9. CASE Restart
  BY <1>2, <1>9, IdleType DEF Restart, world
<1>10. CASE UNCHANGED vars
  BY <1>2, <1>10 DEF vars
<1>11. QED
  BY <1>3, <1>4, <1>5, <1>6, <1>7, <1>8, <1>9, <1>10 DEF Next


(* What an instance's name is, as Apply writes it.                         *)
LEMMA ApplyWrites ==
    ASSUME TypeOK, NEW p \in Provider, NEW ns \in Namespace, Apply(p, ns)
    PROVE  /\ InstanceName[p][ns] \in Name
           /\ deployments'[InstanceName[p][ns]] = [by |-> p, for |-> ns, spec |-> pass[p].spec]
           /\ \A n \in Name \ {InstanceName[p][ns]} : deployments'[n] = deployments[n]
           /\ pass[p].at = "apply" /\ pass'[p].at = "apply" /\ pass'[p].spec = pass[p].spec
           /\ pass'[p].stop = pass[p].stop /\ pass'[p].left = pass[p].left \ {ns}
           /\ \A o \in Provider \ {p} : pass'[o] = pass[o]
           /\ UNCHANGED <<specs, known, queue, status>>
<1> DEFINE m == InstanceName[p][ns]
<1>1. m \in Name
  BY NameOfInstance
<1>2. deployments' = [deployments EXCEPT ![m] = [by |-> p, for |-> ns, spec |-> pass[p].spec]]
  BY DEF Apply
<1>3. pass[p] \in Pass /\ pass' = [pass EXCEPT ![p].left = @ \ {ns}] /\ pass[p].at = "apply"
      /\ UNCHANGED <<specs, known, queue, status>>
  BY DEF Apply, TypeOK, world
<1>4. /\ pass'[p].at = "apply" /\ pass'[p].spec = pass[p].spec
      /\ pass'[p].stop = pass[p].stop /\ pass'[p].left = pass[p].left \ {ns}
      /\ \A o \in Provider \ {p} : pass'[o] = pass[o]
  BY <1>3 DEF TypeOK, Pass
<1> HIDE DEF m
<1>5. /\ deployments'[m] = [by |-> p, for |-> ns, spec |-> pass[p].spec]
      /\ \A n \in Name \ {m} : deployments'[n] = deployments[n]
  BY <1>1, <1>2 DEF TypeOK
<1>6. QED
  BY <1>1, <1>3, <1>4, <1>5 DEF m

(* What a removal takes away, of its own pass's list and of the cluster.   *)
LEMMA RemoveTakes ==
    ASSUME TypeOK, NEW p \in Provider, NEW m \in Name, Remove(p, m)
    PROVE  /\ pass[p].at = "remove" /\ pass'[p].at = "remove" /\ m \in pass[p].doomed
           /\ pass'[p].spec = pass[p].spec /\ pass'[p].stop = pass[p].stop
           /\ pass'[p].doomed = pass[p].doomed \ {m}
           /\ \A o \in Provider \ {p} : pass'[o] = pass[o]
           /\ deployments'[m] = NoInstance
           /\ \A n \in Name \ {m} : deployments'[n] = deployments[n]
           /\ UNCHANGED <<specs, known, queue, status>>
<1>1. pass[p] \in Pass /\ pass' = [pass EXCEPT ![p].doomed = @ \ {m}]
      /\ deployments' = [deployments EXCEPT ![m] = NoInstance]
      /\ pass[p].at = "remove" /\ m \in pass[p].doomed
      /\ UNCHANGED <<specs, known, queue, status>>
  BY DEF Remove, TypeOK, world
<1>2. /\ pass'[p].at = "remove" /\ pass'[p].spec = pass[p].spec /\ pass'[p].stop = pass[p].stop
      /\ pass'[p].doomed = pass[p].doomed \ {m}
      /\ \A o \in Provider \ {p} : pass'[o] = pass[o]
  BY <1>1 DEF TypeOK, Pass
<1>3. deployments'[m] = NoInstance /\ \A n \in Name \ {m} : deployments'[n] = deployments[n]
  BY <1>1 DEF TypeOK
<1>4. QED
  BY <1>1, <1>2, <1>3

(* What a listing leaves of the pass that made it.                         *)
LEMMA ListingLists ==
    ASSUME TypeOK, NEW p \in Provider, ListRunning(p)
    PROVE  /\ pass[p].at = "apply" /\ pass[p].left = {}
           /\ pass'[p].at = "remove" /\ pass'[p].doomed = Doomed(p)
           /\ pass'[p].spec = pass[p].spec /\ pass'[p].stop = pass[p].stop
           /\ \A o \in Provider \ {p} : pass'[o] = pass[o]
           /\ UNCHANGED <<specs, known, queue, status, deployments>>
<1>1. /\ pass[p] \in Pass /\ pass[p].at = "apply" /\ pass[p].left = {}
      /\ pass' = [pass EXCEPT ![p] = [@ EXCEPT !.at = "remove", !.doomed = Doomed(p)]]
      /\ UNCHANGED <<specs, known, queue, status, deployments>>
  BY DEF ListRunning, TypeOK, world, objects
<1>2. /\ pass'[p].at = "remove" /\ pass'[p].doomed = Doomed(p)
      /\ pass'[p].spec = pass[p].spec /\ pass'[p].stop = pass[p].stop
      /\ \A o \in Provider \ {p} : pass'[o] = pass[o]
  BY <1>1 DEF TypeOK, Pass
<1>3. QED
  BY <1>1, <1>2

(* Every step that isn't a pass's own progress leaves each pass as it is,  *)
(* or ends it with another one due, and makes no instance.                 *)
LEMMA OthersEnd ==
    ASSUME TypeOK, [Next]_vars,
           ~ \E p \in Provider : Work(p) \/ \E n \in Name : RemoveFails(p, n)
    PROVE  /\ \A p \in Provider :
                 /\ \/ pass'[p] = pass[p]
                    \/ pass'[p].at = "idle" /\ (p \in queue' \/ specs'[p] = Gone)
                 /\ p \in queue => p \in queue' \/ specs'[p] = Gone
                 /\ \/ known'[p] = known[p]
                    \/ p \in queue' \/ specs'[p] = Gone
           /\ \A n \in Name :
                 \/ deployments'[n] = deployments[n]
                 \/ deployments'[n] = NoInstance /\ deployments[n].spec.uid \notin Owners
                    /\ UNCHANGED specs
<1>1. CASE \E p \in Provider : Edit(p)
  BY <1>1, EditChanges
<1>2. ASSUME NEW p \in Provider, Watched(p) \/ Wake(p)
      PROVE  /\ UNCHANGED <<specs, pass, deployments>>
             /\ \A o \in Provider : o \in queue => o \in queue'
             /\ \A o \in Provider \ {p} : known'[o] = known[o]
             /\ known'[p] = known[p] \/ p \in queue' \/ specs[p] = Gone
  BY <1>2 DEF Watched, Wake, TypeOK, world, objects
<1>3. ASSUME NEW p \in Provider, Trouble(p), ~ \E n \in Name : RemoveFails(p, n)
      PROVE  /\ UNCHANGED <<specs, known, deployments>>
             /\ pass' = pass \/ (pass' = [pass EXCEPT ![p] = Idle] /\ p \in queue')
             /\ \A o \in Provider : o \in queue => o \in queue'
  BY <1>3 DEF Trouble, Credentials, PassFails, ApplyFails, Fails, world, objects
<1>4. ASSUME NEW n \in Name, Collect(n)
      PROVE  /\ UNCHANGED <<specs, known, pass, queue>>
             /\ \A k \in Name : \/ deployments'[k] = deployments[k]
                                \/ deployments'[k] = NoInstance /\ deployments[k].spec.uid \notin Owners
  BY <1>4 DEF Collect, TypeOK, world
<1>5. CASE Tick \/ TickIsLost
  BY <1>5 DEF Tick, TickIsLost, world, objects
<1>6. CASE Restart
  BY <1>6, IdleType DEF Restart, world, objects
<1>7. CASE UNCHANGED vars
  BY <1>7 DEF vars
<1>8. CASE \E p \in Provider : Watched(p) \/ Wake(p)
  BY <1>2, <1>8
<1>9. CASE \E p \in Provider : Trouble(p)
  BY <1>3, <1>9, IdleType DEF TypeOK
<1>10. CASE \E n \in Name : Collect(n)
  BY <1>4, <1>10
<1>11. QED
  BY <1>1, <1>5, <1>6, <1>7, <1>8, <1>9, <1>10 DEF Next


(* The provider a copy is of was there before: one made anew is another.   *)
LEMMA StillOf ==
    ASSUME TypeOK, [Next]_vars, NEW p \in Provider,
           NEW s \in Spec_ \union {Gone}, s # Gone => s.uid[2] <= edits, IsOf(p, s)'
    PROVE  IsOf(p, s) /\ s.uid \in Owners
<1>1. CASE UNCHANGED specs
  BY <1>1 DEF IsOf, Owners
<1>2. CASE ~UNCHANGED specs
  <2>1. PICK q \in Provider : Edit(q)
    <3>1. ASSUME NEW q \in Provider, Work(q) \/ Trouble(q) PROVE UNCHANGED specs
      BY <3>1 DEF Work, Begin, Apply, ListRunning, Remove, Record, Trouble, PassFails,
         Credentials, ApplyFails, RemoveFails, world
    <3>2. ASSUME NEW q \in Provider, Watched(q) \/ Wake(q) PROVE UNCHANGED specs
      BY <3>2 DEF Watched, Wake, world
    <3>3. ASSUME NEW n \in Name, Collect(n) PROVE UNCHANGED specs
      BY <3>3 DEF Collect, world
    <3>4. Tick \/ TickIsLost \/ Restart \/ UNCHANGED vars => UNCHANGED specs
      BY DEF Tick, TickIsLost, Restart, vars, world
    <3>5. QED
      BY <1>2, <3>1, <3>2, <3>3, <3>4 DEF Next
  <2>2. \/ specs'[q] = Gone
        \/ specs'[q].uid = IF specs[q] = Gone THEN <<q, edits + 1>> ELSE specs[q].uid
    <3>1. CASE specs' = [specs EXCEPT ![q] = Gone]
      BY <3>1 DEF TypeOK
    <3>2. ASSUME NEW c \in SpecContents,
                 specs' = [specs EXCEPT ![q] =
                    [uid |-> IF specs[q] = Gone THEN <<q, edits + 1>> ELSE specs[q].uid,
                     says |-> c]]
          PROVE  specs'[q].uid = IF specs[q] = Gone THEN <<q, edits + 1>> ELSE specs[q].uid
      BY <3>2 DEF TypeOK
    <3>3. QED
      BY <2>1, <3>1, <3>2 DEF Edit
  <2>3. \A o \in Provider \ {q} : specs'[o] = specs[o]
    BY <2>1 DEF Edit, TypeOK
  <2>4. s # Gone /\ s.uid = specs'[p].uid /\ specs'[p] # Gone
    BY DEF IsOf
  <2>5. s.uid # <<q, edits + 1>>
    <3>1. edits \in Nat /\ s.uid[2] <= edits /\ s.uid[2] \in Nat
      BY <2>4 DEF TypeOK, Spec_, Uid
    <3>2. s.uid[2] # edits + 1
      BY <3>1
    <3>3. QED
      BY <3>2
  <2>6. specs[p] # Gone /\ s.uid = specs[p].uid
    <3>1. CASE p = q
      BY <2>2, <2>4, <2>5, <3>1
    <3>2. CASE p # q
      BY <2>3, <2>4, <3>2
    <3>3. QED
      BY <3>1, <3>2
  <2>7. QED
    BY <2>4, <2>6 DEF IsOf, Owners
<1>3. QED
  BY <1>1, <1>2

(* Nobody but a pass over a provider, at its end, says what runs for it,   *)
(* other than by taking the provider away.                                 *)
LEMMA StatusKept ==
    ASSUME TypeOK, [Next]_vars, NEW p \in Provider, ~Record(p), specs'[p] # Gone
    PROVE  status'[p] = status[p]
<1>1. ASSUME NEW q \in Provider, Edit(q) PROVE status'[p] = status[p]
  <2>1. CASE status' = status
    BY <2>1
  <2>2. CASE status' # status
    <3>1. status' = [status EXCEPT ![q] = NoStatus] /\ specs' = [specs EXCEPT ![q] = Gone]
      BY <1>1, <2>2 DEF Edit
    <3>2. p # q
      BY <3>1 DEF TypeOK
    <3>3. QED
      BY <3>1, <3>2 DEF TypeOK
  <2>3. QED
    BY <2>1, <2>2
<1>2. ASSUME NEW q \in Provider, Record(q) PROVE status'[p] = status[p]
  <2>1. p # q
    BY <1>2
  <2>2. QED
    BY <1>2, <2>1 DEF Record, TypeOK
<1>3. CASE \E q \in Provider : Watched(q) \/ Wake(q) \/ Trouble(q)
  BY <1>3 DEF Watched, Wake, Trouble, PassFails, Credentials, ApplyFails, RemoveFails
<1>4. CASE \E q \in Provider : Work(q) /\ ~Record(q)
  BY <1>4 DEF Work, Begin, Apply, ListRunning, Remove
<1>5. CASE (\E n \in Name : Collect(n)) \/ Tick \/ TickIsLost \/ Restart \/ UNCHANGED vars
  BY <1>5 DEF Collect, Tick, TickIsLost, Restart, vars
<1>6. QED
  BY <1>1, <1>2, <1>3, <1>4, <1>5 DEF Next

(* Where names are distinct, an instance of that name is of that provider  *)
(* and for that namespace.                                                 *)
LEMMA NamedApart ==
    ASSUME TypeOK, NamesInv, DistinctNames, NEW p \in Provider, NEW ns \in Namespace,
           NEW q \in Provider, NEW n \in Runs(q), n = InstanceName[p][ns]
    PROVE  p = q /\ ns = deployments[n].for
<1>1. n \in Name /\ deployments[n] \in Instance /\ deployments[n].by = q
  BY DEF Runs, TypeOK
<1>2. deployments[n].for \in Namespace /\ n = InstanceName[q][deployments[n].for]
  BY <1>1 DEF Instance, NamesInv, NoInstance, Runs
<1>3. QED
  BY <1>2 DEF DistinctNames


(* What waits to be removed stays a provider's own, and what it leaves is  *)
(* for namespaces it still publishes.                                      *)
LEMMA NextDoomed ==
    TypeOK /\ NamesInv /\ InstancesInv /\ DoomedInv /\ [Next]_vars => DoomedInv'
<1> SUFFICES ASSUME TypeOK, NamesInv, InstancesInv, DoomedInv, [Next]_vars PROVE DoomedInv'
  OBVIOUS
\* No new instances, and no pass begins to remove.
<1>1. ASSUME \A p \in Provider :
                pass'[p].at # "remove" \/ pass'[p] = pass[p],
             \A n \in Name : deployments'[n] = deployments[n] \/ deployments'[n] = NoInstance
      PROVE  DoomedInv'
  BY <1>1 DEF DoomedInv, Runs
<1>2. ASSUME NEW p \in Provider, Begin(p) PROVE DoomedInv'
  <2>1. \A o \in Provider : pass'[o].at = "apply" \/ pass'[o] = pass[o]
    BY <1>2 DEF Begin, TypeOK
  <2>2. UNCHANGED deployments
    BY <1>2 DEF Begin, objects
  <2>3. QED
    BY <1>1, <2>1, <2>2
<1>3. ASSUME NEW p \in Provider, ListRunning(p) PROVE DoomedInv'
  <2>1. \A n \in Runs(p) : \E ns \in Namespace : n = InstanceName[p][ns]
    <3>1. \A n \in Runs(p) : deployments[n] \in Instance
      BY DEF Runs, TypeOK
    <3>2. QED
      BY <3>1 DEF Runs, NamesInv, Instance
  <2>2. Doomed(p) \subseteq Runs(p)
    BY DEF Doomed, Runs
  <2>3. \A n \in Runs(p) \ Doomed(p) : deployments[n].for \in pass[p].spec.says.namespaces
    BY DEF Doomed, Runs
  <2>4. QED
    BY <1>3, <2>1, <2>2, <2>3, ListingLists DEF DoomedInv, Runs
<1>4. ASSUME NEW p \in Provider, Record(p) PROVE DoomedInv'
  BY <1>1, <1>4, IdleType DEF Record, TypeOK, objects
<1>5. ASSUME NEW p \in Provider, NEW ns \in Namespace, Apply(p, ns) PROVE DoomedInv'
  <2>1. \A o \in Provider : pass'[o].at = "remove" => o # p /\ pass'[o] = pass[o]
    BY <1>5, ApplyWrites
  <2>2. PICK m \in Name : /\ deployments'[m] = [by |-> p, for |-> ns, spec |-> pass[p].spec]
                          /\ \A n \in Name \ {m} : deployments'[n] = deployments[n]
    BY <1>5, ApplyWrites
  <2>3. \A o \in Provider \ {p} : \A n \in Runs(o)' : n \in Runs(o) /\ deployments'[n] = deployments[n]
    BY <2>2 DEF Runs
  <2>4. QED
    BY <2>1, <2>3 DEF DoomedInv
<1>6. ASSUME NEW p \in Provider, NEW m \in Name, Remove(p, m) PROVE DoomedInv'
  <2>1. \A o \in Provider : /\ pass'[o].at = pass[o].at /\ pass'[o].spec = pass[o].spec
                            /\ pass'[o].doomed = IF o = p THEN pass[o].doomed \ {m} ELSE pass[o].doomed
    <3>1. /\ pass'[p].at = pass[p].at /\ pass'[p].spec = pass[p].spec
          /\ pass'[p].doomed = pass[p].doomed \ {m}
          /\ \A o \in Provider \ {p} : pass'[o] = pass[o]
      BY <1>6, RemoveTakes
    <3>2. QED
      BY <3>1
  <2>2. \A o \in Provider : \A n \in Runs(o)' : n # m /\ n \in Runs(o) /\ deployments'[n] = deployments[n]
    BY <1>6, RemoveTakes DEF Runs
  <2>3. ASSUME NEW o \in Provider, pass[o].at = "remove"
        PROVE  /\ \A n \in pass'[o].doomed : \E ns \in Namespace : n = InstanceName[o][ns]
               /\ \A n \in Runs(o)' \ pass'[o].doomed :
                     deployments'[n].for \in pass'[o].spec.says.namespaces
    <3>1. pass'[o].doomed \subseteq pass[o].doomed /\ pass[o].doomed \subseteq pass'[o].doomed \union {m}
      BY <2>1
    <3>2. Runs(o)' \ pass'[o].doomed \subseteq Runs(o) \ pass[o].doomed
      BY <2>2, <3>1
    <3>3. /\ \A n \in pass[o].doomed : \E ns \in Namespace : n = InstanceName[o][ns]
          /\ \A n \in Runs(o) \ pass[o].doomed : deployments[n].for \in pass[o].spec.says.namespaces
      BY <2>3 DEF DoomedInv
    <3>4. pass'[o].spec = pass[o].spec
      BY <2>1
    <3>5. \A n \in pass'[o].doomed : \E ns \in Namespace : n = InstanceName[o][ns]
      BY <3>1, <3>3
    <3>6. \A n \in Runs(o)' \ pass'[o].doomed :
             deployments'[n].for \in pass'[o].spec.says.namespaces
      BY <2>2, <3>2, <3>3, <3>4
    <3>7. QED
      BY <3>5, <3>6
  <2>4. \A o \in Provider : pass'[o].at = "remove" => pass[o].at = "remove"
    BY <2>1
  <2>5. QED
    BY <2>3, <2>4 DEF DoomedInv
<1>7. ASSUME NEW p \in Provider, NEW n \in Name, RemoveFails(p, n) PROVE DoomedInv'
  BY <1>1, <1>7, IdleType DEF RemoveFails, Fails, TypeOK
<1>8. CASE ~ \E p \in Provider : Work(p) \/ \E n \in Name : RemoveFails(p, n)
  BY <1>1, <1>8, OthersEnd
<1>9. QED
  BY <1>2, <1>3, <1>4, <1>5, <1>6, <1>7, <1>8 DEF Work

(* What a pass has seen to stays so until the next, whatever other passes  *)
(* do, because no other writes or removes under its names.                 *)
LEMMA NextSeenTo ==
    ASSUME IInv, StatusInv, DistinctNames, [Next]_vars, NEW p \in Provider
    PROVE  SeenTo(p)'
<1>1. TypeOK /\ NamesInv /\ PassInv /\ InstancesInv /\ SeenTo(p) /\ DoomedInv
  BY DEF IInv, StatusInv
<1>2. /\ specs[p] \in Spec_ \union {Gone} /\ known[p] \in Spec_ \union {Gone}
      /\ known[p] # Gone => known[p].uid[2] <= edits
      /\ pass[p].at # "idle" => pass[p].spec \in Spec_ /\ pass[p].spec.uid[2] <= edits
  BY <1>1 DEF StatusInv, NumberedInv, TypeOK
<1>3. IsOf(p, known[p])' /\ known'[p] = known[p] => IsOf(p, known[p]) /\ known[p].uid \in Owners
  <2>1. ASSUME NEW s \in Spec_ \union {Gone}, s # Gone => s.uid[2] <= edits, IsOf(p, s)'
        PROVE  IsOf(p, s) /\ s.uid \in Owners
    BY <1>1, <2>1, StillOf
  <2>2. IsOf(p, known[p])' /\ known'[p] = known[p] => specs'[p] # Gone /\ known[p] # Gone /\ known[p].uid = specs'[p].uid
    BY DEF IsOf
  <2> SUFFICES ASSUME IsOf(p, known[p])', known'[p] = known[p]
               PROVE  IsOf(p, known[p]) /\ known[p].uid \in Owners
    OBVIOUS
  <2>3. PICK s \in Spec_ \union {Gone} : s = known[p]
    BY <1>2
  <2>4. IsOf(p, s)'
    BY <2>2, <2>3 DEF IsOf
  <2>5. QED
    BY <1>2, <2>1, <2>3, <2>4
<1>4. pass[p].at # "idle" /\ IsOf(p, pass[p].spec)' /\ pass'[p].spec = pass[p].spec
         => IsOf(p, pass[p].spec) /\ pass[p].spec.uid \in Owners
  <2>1. ASSUME NEW s \in Spec_ \union {Gone}, s # Gone => s.uid[2] <= edits, IsOf(p, s)'
        PROVE  IsOf(p, s) /\ s.uid \in Owners
    BY <1>1, <2>1, StillOf
  <2> SUFFICES ASSUME pass[p].at # "idle", IsOf(p, pass[p].spec)', pass'[p].spec = pass[p].spec
               PROVE  IsOf(p, pass[p].spec) /\ pass[p].spec.uid \in Owners
    OBVIOUS
  <2>2. specs'[p] # Gone /\ pass[p].spec # Gone /\ pass[p].spec.uid = specs'[p].uid
    BY DEF IsOf
  <2>3. PICK s \in Spec_ \union {Gone} : s = pass[p].spec
    BY <1>2
  <2>4. IsOf(p, s)'
    BY <2>2, <2>3 DEF IsOf
  <2>5. QED
    BY <1>2, <2>1, <2>3, <2>4
\* Another's step: this pass is as it was, and so is what it has seen to.
<1>5. ASSUME pass'[p] = pass[p], p \in queue => p \in queue',
             pass[p].at = "idle" /\ p \notin queue' /\ IsOf(p, known[p])' =>
                known'[p] = known[p] /\ status'[p] = status[p],
             \A n \in Name \ (IF pass[p].at = "remove" THEN pass[p].doomed ELSE {}) :
                n \in Runs(p) /\ deployments[n].spec.uid \in Owners =>
                   deployments'[n] = deployments[n],
             \A n \in Runs(p)' : n \in Runs(p) /\ deployments'[n] = deployments[n]
      PROVE  SeenTo(p)'
  <2> SUFFICES ASSUME p \notin queue'
               PROVE  /\ pass[p].at = "apply" /\ pass[p].stop = "no" /\ IsOf(p, pass[p].spec)' =>
                            pass[p].spec.says.namespaces \ pass[p].left \subseteq Serves(p)'
                      /\ pass[p].at = "remove" /\ pass[p].stop = "no" /\ IsOf(p, pass[p].spec)' =>
                            pass[p].spec.says.namespaces
                               \subseteq {deployments'[n].for : n \in Runs(p)' \ pass[p].doomed}
                      /\ pass[p].at = "idle" /\ IsOf(p, known[p])' => Serves(p)' = status'[p].instances
    BY <1>5 DEF SeenTo, IsOf
  <2>1. ASSUME pass[p].at = "apply", pass[p].stop = "no", IsOf(p, pass[p].spec)'
        PROVE  pass[p].spec.says.namespaces \ pass[p].left \subseteq Serves(p)'
    <3>1. IsOf(p, pass[p].spec) /\ pass[p].spec.uid \in Owners
      BY <1>4, <1>5, <2>1
    <3>2. pass[p].spec.says.namespaces \ pass[p].left \subseteq Serves(p)
      BY <1>1, <1>5, <2>1, <3>1 DEF SeenTo
    <3>3. \A n \in Runs(p) : deployments[n].for \in pass[p].spec.says.namespaces \ pass[p].left =>
             deployments[n].spec = pass[p].spec
      BY <1>1, <2>1 DEF InstancesInv, InstancesOf
    <3>4. \A n \in Runs(p) : deployments[n].for \in pass[p].spec.says.namespaces \ pass[p].left =>
             n \in Runs(p)' /\ deployments'[n] = deployments[n]
      BY <1>5, <2>1, <3>1, <3>3 DEF Runs
    <3>5. QED
      BY <3>2, <3>4 DEF Serves
  <2>2. ASSUME pass[p].at = "remove", pass[p].stop = "no", IsOf(p, pass[p].spec)'
        PROVE  pass[p].spec.says.namespaces
                  \subseteq {deployments'[n].for : n \in Runs(p)' \ pass[p].doomed}
    <3>1. IsOf(p, pass[p].spec) /\ pass[p].spec.uid \in Owners
      BY <1>4, <1>5, <2>2
    <3>2. pass[p].spec.says.namespaces \subseteq {deployments[n].for : n \in Runs(p) \ pass[p].doomed}
      BY <1>1, <1>5, <2>2, <3>1 DEF SeenTo
    <3>3. \A n \in Runs(p) \ pass[p].doomed : deployments[n].spec = pass[p].spec
      BY <1>1, <2>2 DEF InstancesInv, InstancesOf
    <3>4. \A n \in Runs(p) \ pass[p].doomed : n \in Runs(p)' /\ deployments'[n] = deployments[n]
      BY <1>5, <2>2, <3>1, <3>3 DEF Runs
    <3>5. QED
      BY <3>2, <3>4
  <2>3. ASSUME pass[p].at = "idle", IsOf(p, known[p])' PROVE Serves(p)' = status'[p].instances
    <3>1. known'[p] = known[p] /\ status'[p] = status[p]
      BY <1>5, <2>3
    <3>2. IsOf(p, known[p]) /\ known[p].uid \in Owners /\ known[p] # Gone
      BY <1>3, <2>3, <3>1 DEF IsOf
    <3>3. Serves(p) = status[p].instances
      BY <1>1, <1>5, <2>3, <3>2 DEF SeenTo
    <3>4. \A n \in Runs(p) : deployments[n].spec = known[p]
      BY <1>1, <1>5, <2>3, <3>2 DEF InstancesInv, InstancesOf
    <3>5. \A n \in Runs(p) : n \in Runs(p)' /\ deployments'[n] = deployments[n]
      BY <1>5, <2>3, <3>2, <3>4 DEF Runs
    <3>6. QED
      BY <1>5, <3>1, <3>3, <3>5 DEF Serves
  <2>4. QED
    BY <2>1, <2>2, <2>3
<1>6. ASSUME NEW q \in Provider \ {p}, Begin(q) \/ ListRunning(q) \/ Record(q)
      PROVE  SeenTo(p)'
  <2>1. /\ UNCHANGED <<specs, known, deployments>> /\ pass'[p] = pass[p] /\ status'[p] = status[p]
        /\ p \in queue => p \in queue'
    BY <1>1, <1>6, ListingLists DEF Begin, Record, TypeOK, world, objects
  <2>2. QED
    BY <1>5, <2>1 DEF Runs
<1>7. CASE Begin(p)
  <2>1. /\ known[p] = Gone => pass' = pass
        /\ known[p] # Gone => pass'[p].at = "apply" /\ pass'[p].left =
              IF pass'[p].stop = "no" THEN pass'[p].spec.says.namespaces ELSE {}
        /\ UNCHANGED <<known, specs>> /\ pass[p].at = "idle"
    BY <1>1, <1>7 DEF Begin, TypeOK, world
  <2>2. CASE known[p] = Gone
    BY <2>1, <2>2 DEF SeenTo, IsOf
  <2>3. CASE known[p] # Gone
    BY <2>1, <2>3 DEF SeenTo
  <2>4. QED
    BY <2>2, <2>3
<1>8. CASE ListRunning(p)
  <2> SUFFICES ASSUME p \notin queue, pass[p].stop = "no", IsOf(p, pass[p].spec)
               PROVE  pass[p].spec.says.namespaces
                         \subseteq {deployments[n].for : n \in Runs(p) \ Doomed(p)}
    BY <1>1, <1>8, ListingLists DEF SeenTo, IsOf, Runs
  <2>1. pass[p].spec.says.namespaces \subseteq Serves(p)
    BY <1>1, <1>8, ListingLists DEF SeenTo
  <2>2. \A n \in Runs(p) : deployments[n].for \in pass[p].spec.says.namespaces => n \notin Doomed(p)
    BY DEF Doomed
  <2>3. QED
    BY <2>1, <2>2 DEF Serves
<1>9. CASE Record(p)
  <2>1. /\ pass[p].at = "remove" /\ pass[p].doomed = {} /\ pass'[p] = Idle
        /\ UNCHANGED <<specs, known, deployments>>
        /\ specs[p] = Gone => p \in queue'
        /\ specs[p] # Gone => queue' = queue /\ status'[p] =
              [stop |-> pass[p].stop,
               instances |-> IF pass[p].stop = "no" THEN pass[p].spec.says.namespaces ELSE {}]
    BY <1>1, <1>9 DEF Record, TypeOK, world, objects
  <2> SUFFICES ASSUME p \notin queue, specs[p] # Gone, IsOf(p, known[p])
               PROVE  Serves(p) = status'[p].instances
    BY <2>1, IdleType DEF SeenTo, IsOf, Serves, Runs
  <2>2. pass[p].spec = known[p] /\ IsOf(p, pass[p].spec)
    BY <1>1, <2>1 DEF PassInv, IsOf
  <2>3. \A n \in Runs(p) : pass[p].stop = "no" /\ deployments[n].for \in pass[p].spec.says.namespaces
    BY <1>1, <2>1 DEF InstancesInv, InstancesOf, DoomedInv
  <2>4. CASE pass[p].stop = "no"
    <3>1. pass[p].spec.says.namespaces \subseteq {deployments[n].for : n \in Runs(p) \ pass[p].doomed}
      BY <1>1, <2>1, <2>2, <2>4 DEF SeenTo
    <3>2. QED
      BY <2>1, <2>3, <2>4, <3>1 DEF Serves
  <2>5. CASE pass[p].stop # "no"
    BY <2>1, <2>3, <2>5 DEF Serves
  <2>6. QED
    BY <2>4, <2>5
<1>10. ASSUME NEW q \in Provider, NEW ns \in Namespace, Apply(q, ns) PROVE SeenTo(p)'
  <2>1. PICK m \in Name :
           /\ m = InstanceName[q][ns]
           /\ deployments'[m] = [by |-> q, for |-> ns, spec |-> pass[q].spec]
           /\ \A n \in Name \ {m} : deployments'[n] = deployments[n]
    BY <1>1, <1>10, ApplyWrites
  <2>2. m \in Runs(p) => p = q /\ deployments[m].for = ns
    BY <1>1, <2>1, NamedApart
  <2>3. /\ pass[q].at = "apply" /\ pass'[q].at = "apply" /\ pass'[q].spec = pass[q].spec
        /\ pass'[q].stop = pass[q].stop /\ pass'[q].left = pass[q].left \ {ns}
        /\ \A o \in Provider \ {q} : pass'[o] = pass[o]
        /\ UNCHANGED <<specs, known, queue, status>>
    BY <1>1, <1>10, ApplyWrites
  <2>4. CASE p # q
    <3>1. \A n \in Runs(p) : deployments'[n] = deployments[n]
      BY <2>1, <2>2, <2>4 DEF Runs
    <3>2. \A n \in Runs(p)' : n \in Runs(p) /\ deployments'[n] = deployments[n]
      BY <2>1, <2>4 DEF Runs
    <3>3. QED
      BY <1>5, <2>3, <2>4, <3>1, <3>2
  <2>5. CASE p = q
    <3> SUFFICES ASSUME p \notin queue, pass[p].stop = "no", IsOf(p, pass[p].spec)
                 PROVE  pass[p].spec.says.namespaces \ (pass[p].left \ {ns}) \subseteq Serves(p)'
      BY <2>3, <2>5 DEF SeenTo, IsOf
    <3>1. pass[p].spec.says.namespaces \ pass[p].left \subseteq Serves(p)
      BY <1>1, <2>3, <2>5 DEF SeenTo
    <3>2. m \in Runs(p)' /\ deployments'[m].for = ns
      BY <2>1, <2>5 DEF Runs, NoInstance
    <3>3. Serves(p) \ {ns} \subseteq Serves(p)'
      BY <2>1, <2>2 DEF Serves, Runs
    <3>4. ns \in Serves(p)'
      BY <3>2 DEF Serves
    <3>5. QED
      BY <3>1, <3>3, <3>4
  <2>6. QED
    BY <2>4, <2>5
<1>11. ASSUME NEW q \in Provider, NEW m \in Name, Remove(q, m) PROVE SeenTo(p)'
  <2>1. /\ pass[q].at = "remove" /\ pass'[q].at = "remove" /\ m \in pass[q].doomed
        /\ pass'[q].spec = pass[q].spec /\ pass'[q].stop = pass[q].stop
        /\ pass'[q].doomed = pass[q].doomed \ {m}
        /\ \A o \in Provider \ {q} : pass'[o] = pass[o]
        /\ deployments'[m] = NoInstance
        /\ \A n \in Name \ {m} : deployments'[n] = deployments[n]
        /\ UNCHANGED <<specs, known, queue, status>>
    BY <1>1, <1>11, RemoveTakes
  <2>2. m \in Runs(p) => p = q
    BY <1>1, <2>1, NamedApart DEF DoomedInv
  <2>3. CASE p # q
    <3>1. \A n \in Runs(p) : deployments'[n] = deployments[n]
      BY <2>1, <2>2, <2>3 DEF Runs
    <3>2. \A n \in Runs(p)' : n \in Runs(p) /\ deployments'[n] = deployments[n]
      BY <2>1 DEF Runs
    <3>3. QED
      BY <1>5, <2>1, <2>3, <3>1, <3>2
  <2>4. CASE p = q
    <3> SUFFICES ASSUME p \notin queue, pass[p].stop = "no", IsOf(p, pass[p].spec)
                 PROVE  pass[p].spec.says.namespaces
                           \subseteq {deployments'[n].for : n \in Runs(p)' \ (pass[p].doomed \ {m})}
      BY <2>1, <2>4 DEF SeenTo, IsOf
    <3>1. pass[p].spec.says.namespaces \subseteq {deployments[n].for : n \in Runs(p) \ pass[p].doomed}
      BY <1>1, <2>1, <2>4 DEF SeenTo
    <3>2. \A n \in Runs(p) \ pass[p].doomed :
             n \in Runs(p)' \ (pass[p].doomed \ {m}) /\ deployments'[n] = deployments[n]
      BY <2>1, <2>4 DEF Runs
    <3>3. QED
      BY <3>1, <3>2
  <2>5. QED
    BY <2>3, <2>4
<1>12. ASSUME NEW q \in Provider, NEW m \in Name, RemoveFails(q, m) PROVE SeenTo(p)'
  <2>1. /\ pass[q].at = "remove" /\ m \in pass[q].doomed
        /\ deployments' = [deployments EXCEPT ![m] = NoInstance]
        /\ pass' = [pass EXCEPT ![q] = Idle] /\ queue' = queue \union {q}
        /\ UNCHANGED <<specs, known, status>>
    BY <1>12 DEF RemoveFails, Fails, world
  <2>2. m \in Runs(p) => p = q
    BY <1>1, <2>1, NamedApart DEF DoomedInv
  <2>3. CASE p = q
    BY <2>1, <2>3 DEF SeenTo
  <2>4. CASE p # q
    <3>1. \A n \in Runs(p) : deployments'[n] = deployments[n]
      BY <1>1, <2>1, <2>2, <2>4 DEF Runs, TypeOK
    <3>2. \A n \in Runs(p)' : n \in Runs(p) /\ deployments'[n] = deployments[n]
      BY <1>1, <2>1 DEF Runs, TypeOK
    <3>3. pass'[p] = pass[p]
      BY <1>1, <2>1, <2>4 DEF TypeOK
    <3>4. QED
      BY <1>5, <2>1, <2>4, <3>1, <3>2, <3>3
  <2>5. QED
    BY <2>3, <2>4
<1>13. CASE ~ \E q \in Provider : Work(q) \/ \E n \in Name : RemoveFails(q, n)
  <2>1. /\ \/ pass'[p] = pass[p]
           \/ pass'[p].at = "idle" /\ (p \in queue' \/ specs'[p] = Gone)
        /\ p \in queue => p \in queue' \/ specs'[p] = Gone
        /\ \/ known'[p] = known[p]
           \/ p \in queue' \/ specs'[p] = Gone
        /\ \A n \in Name :
              \/ deployments'[n] = deployments[n]
              \/ deployments'[n] = NoInstance /\ deployments[n].spec.uid \notin Owners
    BY <1>1, <1>13, OthersEnd
  <2>2. specs'[p] # Gone => status'[p] = status[p]
    BY <1>1, <1>13, StatusKept DEF Work
  <2>3. \A n \in Runs(p)' : n \in Runs(p) /\ deployments'[n] = deployments[n]
    BY <2>1 DEF Runs
  <2>4. CASE specs'[p] = Gone
    BY <2>4 DEF SeenTo, IsOf
  <2>5. CASE pass'[p] # pass[p]
    BY <2>1, <2>5 DEF SeenTo, IsOf
  <2>6. CASE specs'[p] # Gone /\ pass'[p] = pass[p]
    <3>1. \A n \in Runs(p) : deployments[n].spec.uid \in Owners => deployments'[n] = deployments[n]
      BY <2>1 DEF Runs
    <3>2. QED
      BY <1>5, <2>1, <2>2, <2>3, <2>6, <3>1
  <2>7. QED
    BY <2>4, <2>5, <2>6
<1>14. QED
  BY <1>6, <1>7, <1>8, <1>9, <1>10, <1>11, <1>12, <1>13 DEF Work

(* A settled provider's status says of its instances what is so: one for   *)
(* each namespace it publishes, of the spec as it is, and none where       *)
(* something stops them (dns/controller.rs: apply, remove, record).  It is *)
(* of providers whose instances' names differ: where two are put together  *)
(* to one name, each pass takes the instance for its own.                  *)
THEOREM StatusTold == ASSUME DistinctNames PROVE Spec => []StatusIsTrue
<1>1. Init => StatusInv
  <2> SUFFICES ASSUME Init PROVE StatusInv
    OBVIOUS
  <2>1. TypeOK /\ known = specs /\ edits = 0 /\ pass = [p \in Provider |-> Idle]
    BY InitTypeOK DEF Init
  <2>2. \A p \in Provider : specs[p] # Gone => specs[p].uid = <<p, 0>>
    BY DEF Init
  <2>3. NumberedInv
    BY <2>1, <2>2, IdleType DEF NumberedInv
  <2>4. DoomedInv
    BY <2>1, IdleType DEF DoomedInv
  <2>5. \A p \in Provider : IsOf(p, known[p]) => p \in queue
    BY DEF Init, IsOf
  <2>6. \A p \in Provider : SeenTo(p)
    BY <2>1, <2>5, IdleType DEF SeenTo
  <2>7. QED
    BY <2>3, <2>4, <2>6 DEF StatusInv
<1>2. IInv /\ StatusInv /\ [Next]_vars => StatusInv'
  BY NextNumbered, NextDoomed, NextSeenTo DEF IInv, StatusInv
<1>3. IInv /\ StatusInv => StatusIsTrue
  <2> SUFFICES ASSUME IInv, StatusInv, NEW p \in Provider, Settled(p)
               PROVE  /\ Serves(p) = status[p].instances
                      /\ \A n \in Runs(p) : deployments[n].spec = specs[p]
    BY DEF StatusIsTrue, Serves
  <2>1. Serves(p) = status[p].instances
    BY DEF StatusInv, SeenTo, Settled, IsOf
  <2>2. \A n \in Runs(p) : deployments[n].spec = specs[p]
    BY DEF IInv, InstancesInv, InstancesOf, Settled
  <2>3. QED
    BY <2>1, <2>2
<1>4. QED
  BY <1>1, <1>2, <1>3, Invariance, PTL DEF Spec

=============================================================================
