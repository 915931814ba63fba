----------------------------- MODULE StepsProofs -----------------------------
(***************************************************************************)
(* What RunMemory, CommandBundle, ImagePort, Placement and WebApplication  *)
(* state of what they model, proved for every set of nodes, bundle,        *)
(* registry and region.                                                    *)
(***************************************************************************)
EXTENDS RunMemory, CommandBundle, ImagePort, Placement, WebApplication, TLAPS

-----------------------------------------------------------------------------
(* What is remembered over a plan                                          *)

\* Until its command ends, nothing a node was handed changes: its own layer is
\* only changed by that command, the cluster's only when nobody else works.
AsHanded == \A n \in working : held[n] = View(n)

Started == working # {} => step > 0

AloneWhenWide == wide => working \subseteq {Server}

\* What the cluster knows the server found out.  What the server found out for
\* itself gets there too, with the context of a cluster-wide step, and then the
\* server has a layer of its own over it.
FromServer ==
    \A k \in Slot : cluster[k] # Nothing =>
        cluster[k].by = Server /\ (cluster[k].wide \/ own[Server][k] # Nothing)

\* What a node has in its own layer it found out itself, or was handed from the
\* cluster's.
ByItself ==
    \A n \in Node, k \in Slot : own[n][k] # Nothing => own[n][k].by \in {n, Server}

NotAhead ==
    \A k \in Slot :
        /\ cluster[k] # Nothing => cluster[k].at <= step
        /\ \A n \in Node : own[n][k] # Nothing => own[n][k].at <= step

MemoryInv ==
    /\ MemoryTypeOK
    /\ NothingFromThisStep
    /\ AsHanded
    /\ Started
    /\ AloneWhenWide
    /\ FromServer
    /\ ByItself
    /\ NotAhead

(* A layer over another has what either has.                               *)
LEMMA OverKnown ==
    ASSUME NEW a \in Known, NEW b \in Known
    PROVE  /\ Over(b, a) \in Known
           /\ \A k \in Slot : Over(b, a)[k] = IF b[k] # Nothing THEN b[k] ELSE a[k]
BY DEF Over, Known

(* What a node is handed is one of the two layers, slot by slot.           *)
LEMMA ViewKnown ==
    ASSUME MemoryTypeOK, NEW n \in Node
    PROVE  /\ View(n) \in Known
           /\ \A k \in Slot : View(n)[k] = IF own[n][k] # Nothing THEN own[n][k] ELSE cluster[k]
BY OverKnown DEF View, MemoryTypeOK

(* What a command leaves behind are findings.                              *)
LEMMA LearnedKnown ==
    ASSUME MemoryTypeOK, NEW n \in Node, NEW found \in SUBSET Slot, step >= 1
    PROVE  Learned(n, found) \in Known
<1>1. [by |-> n, wide |-> wide, at |-> step] \in Finding
  <2>1. step \in 1..MaxSteps
    BY StepsAssumption DEF MemoryTypeOK
  <2> QED BY <2>1 DEF MemoryTypeOK, Finding
<1> QED BY <1>1 DEF Learned, Known, MemoryTypeOK

(* A finding is something, and so never taken for an empty slot.           *)
LEMMA FindingIsSomething ==
    ASSUME NEW f \in Finding
    PROVE  f # Nothing
<1>1. f \in [by : Node, wide : BOOLEAN, at : Nat]
  BY StepsAssumption DEF Finding
<1> QED BY <1>1, NothingAssumption
(* ... also after a step.                                                  *)
LEMMA ViewAfter ==
    ASSUME NEW n \in Node, NEW k \in Slot
    PROVE  View(n)'[k] = IF own'[n][k] # Nothing THEN own'[n][k] ELSE cluster'[k]
BY DEF View, Over

(* What a command that ends leaves: at each slot what it found out, or what *)
(* its node saw all along, which is nothing older than the step before.    *)
LEMMA LearnedIs ==
    ASSUME MemoryInv, NEW m \in working, NEW found \in SUBSET Slot
    PROVE  /\ m \in Node /\ step \in Nat /\ step >= 1
           /\ Learned(m, found) \in Known
           /\ \A k \in Slot :
                 Learned(m, found)[k] = IF k \in found THEN [by |-> m, wide |-> wide, at |-> step]
                                        ELSE View(m)[k]
<1>1. m \in Node
  BY DEF MemoryInv, MemoryTypeOK
<1>2. step \in Nat /\ step >= 1
  BY StepsAssumption DEF MemoryInv, MemoryTypeOK, Started
<1>3. Learned(m, found) \in Known
  BY <1>1, <1>2, LearnedKnown DEF MemoryInv
<1>4. held[m] = View(m)
  BY DEF MemoryInv, AsHanded
<1>5. QED
  BY <1>1, <1>2, <1>3, <1>4 DEF Learned

(* What a command at a step of the cluster's leaves in the cluster's layer, *)
(* and one at a step of its own in its node's.                             *)
LEMMA FinishLeaves ==
    ASSUME MemoryInv, NEW m \in working, NEW found \in SUBSET Slot, Finish(m, found)
    PROVE  /\ wide => /\ own' = own /\ m = Server /\ working' = {}
                      /\ cluster' \in Known
                      /\ \A k \in Slot :
                            cluster'[k] = IF Learned(m, found)[k] # Nothing THEN Learned(m, found)[k]
                                          ELSE cluster[k]
           /\ ~wide => /\ cluster' = cluster
                       /\ own' \in [Node -> Known]
                       /\ \A n \in Node : n # m => own'[n] = own[n]
                       /\ \A k \in Slot :
                             own'[m][k] = IF Learned(m, found)[k] # Nothing THEN Learned(m, found)[k]
                                          ELSE own[m][k]
           /\ working' = working \ {m} /\ step' = step /\ wide' = wide /\ held' = held
<1>1. m \in Node /\ Learned(m, found) \in Known
  BY LearnedIs
<1>2. cluster \in Known /\ own \in [Node -> Known] /\ own[m] \in Known
  BY <1>1 DEF MemoryInv, MemoryTypeOK
<1>3. working' = working \ {m} /\ step' = step /\ wide' = wide /\ held' = held
  BY DEF Finish
<1>4. ASSUME wide
      PROVE  /\ own' = own /\ m = Server /\ working' = {}
             /\ cluster' \in Known
             /\ \A k \in Slot :
                   cluster'[k] = IF Learned(m, found)[k] # Nothing THEN Learned(m, found)[k]
                                 ELSE cluster[k]
  <2>1. cluster' = Over(Learned(m, found), cluster) /\ own' = own
    BY <1>4 DEF Finish, Remember
  <2>2. m = Server /\ working' = {}
    BY <1>3, <1>4 DEF MemoryInv, AloneWhenWide
  <2>3. QED
    BY <1>1, <1>2, <2>1, <2>2, OverKnown
<1>5. ASSUME ~wide
      PROVE  /\ cluster' = cluster
             /\ own' \in [Node -> Known]
             /\ \A n \in Node : n # m => own'[n] = own[n]
             /\ \A k \in Slot :
                   own'[m][k] = IF Learned(m, found)[k] # Nothing THEN Learned(m, found)[k]
                                ELSE own[m][k]
  <2>1. own' = [own EXCEPT ![m] = Over(Learned(m, found), own[m])] /\ cluster' = cluster
    BY <1>5 DEF Finish, Remember
  <2>2. /\ Over(Learned(m, found), own[m]) \in Known
        /\ \A k \in Slot : Over(Learned(m, found), own[m])[k] =
              IF Learned(m, found)[k] # Nothing THEN Learned(m, found)[k] ELSE own[m][k]
    BY <1>1, <1>2, OverKnown
  <2>3. own'[m] = Over(Learned(m, found), own[m])
    BY <1>1, <1>2, <2>1
  <2>4. own' \in [Node -> Known] /\ \A n \in Node : n # m => own'[n] = own[n]
    BY <1>1, <1>2, <2>1, <2>2
  <2>5. QED
    BY <2>1, <2>2, <2>3, <2>4
<1>6. QED
  BY <1>3, <1>4, <1>5
(* What is seen isn't ahead of the steps taken.                            *)
LEMMA SeenInTime ==
    ASSUME MemoryInv, NEW n \in Node, NEW k \in Slot, View(n)[k] # Nothing
    PROVE  View(n)[k].at \in Nat /\ View(n)[k].at <= step
<1>1. View(n)[k] = IF own[n][k] # Nothing THEN own[n][k] ELSE cluster[k]
  BY ViewKnown DEF MemoryInv
<1>2. View(n)[k].at <= step
  BY <1>1 DEF MemoryInv, NotAhead
<1>3. View(n)[k] \in Finding
  BY ViewKnown DEF MemoryInv, Known
<1>4. QED
  BY <1>2, <1>3, StepsAssumption DEF Finding

(* A step that starts hands out what is known by then.                     *)
LEMMA StartKeeps ==
    ASSUME MemoryInv, StartStep
    PROVE  MemoryInv'
<1>1. step \in 0..MaxSteps /\ step < MaxSteps /\ step' = step + 1 /\ step' \in 0..MaxSteps
  BY StepsAssumption DEF MemoryInv, MemoryTypeOK, StartStep
<1>2. wide' \in BOOLEAN /\ working' \subseteq Node /\ (wide' => working' = {Server})
  BY ServerAssumption DEF StartStep
<1>3. cluster' = cluster /\ own' = own
  BY DEF StartStep
<1>4. \A n \in Node : View(n)' = View(n)
  BY <1>3 DEF View, Over
<1>5. held' = [n \in Node |-> IF n \in working' THEN View(n) ELSE Blank]
  BY DEF StartStep
<1>6. held' \in [Node -> Known]
  <2>1. Blank \in Known
    BY DEF Blank, Known
  <2>2. \A n \in Node : View(n) \in Known
    BY ViewKnown DEF MemoryInv
  <2>3. QED
    BY <1>5, <2>1, <2>2
<1>7. MemoryTypeOK'
  BY <1>1, <1>2, <1>3, <1>6 DEF MemoryInv, MemoryTypeOK
<1>8. NothingFromThisStep'
  <2>1. SUFFICES ASSUME NEW n \in working', NEW k \in Slot, held'[n][k] # Nothing
                 PROVE  held'[n][k].at < step'
    BY DEF NothingFromThisStep
  <2>2. n \in Node /\ held'[n][k] = View(n)[k]
    BY <1>2, <1>5
  <2>3. View(n)[k].at \in Nat /\ View(n)[k].at <= step
    BY <2>1, <2>2, SeenInTime
  <2>4. QED
    BY <1>1, <2>2, <2>3
<1>9. AsHanded'
  <2>1. \A n \in working' : held'[n] = View(n)
    BY <1>2, <1>5
  <2>2. QED
    BY <1>2, <1>4, <2>1 DEF AsHanded
<1>10. Started' /\ AloneWhenWide'
  BY <1>1, <1>2 DEF Started, AloneWhenWide
<1>11. FromServer' /\ ByItself'
  BY <1>3 DEF MemoryInv, FromServer, ByItself
<1>12. NotAhead'
  <2>1. \A f \in Finding : f.at <= step => f.at <= step'
    BY <1>1, StepsAssumption DEF Finding
  <2>2. cluster \in Known /\ own \in [Node -> Known]
    BY DEF MemoryInv, MemoryTypeOK
  <2>3. SUFFICES ASSUME NEW k \in Slot
                 PROVE  /\ cluster[k] # Nothing => cluster[k].at <= step'
                        /\ \A n \in Node : own[n][k] # Nothing => own[n][k].at <= step'
    BY <1>3 DEF NotAhead
  <2>4. cluster[k] # Nothing => cluster[k].at <= step'
    BY <2>1, <2>2 DEF MemoryInv, NotAhead, Known
  <2>5. ASSUME NEW n \in Node, own[n][k] # Nothing
        PROVE  own[n][k].at <= step'
    <3>1. own[n][k] \in Finding
      BY <2>2, <2>5 DEF Known
    <3>2. own[n][k].at <= step
      BY <2>5 DEF MemoryInv, NotAhead
    <3>3. QED
      BY <2>1, <3>1, <3>2
  <2>6. QED
    BY <2>4, <2>5
<1>13. QED
  BY <1>7, <1>8, <1>9, <1>10, <1>11, <1>12 DEF MemoryInv

(* A command that couldn't be run changes what nobody knows.               *)
LEMMA ThrowKeeps ==
    ASSUME MemoryInv, NEW m \in Node, Throw(m)
    PROVE  MemoryInv'
<1>1. /\ cluster' = cluster /\ own' = own /\ step' = step /\ wide' = wide /\ held' = held
      /\ working' = working \ {m}
  BY DEF Throw
<1>2. \A n \in Node : View(n)' = View(n)
  BY <1>1 DEF View, Over
<1>3. MemoryTypeOK'
  BY <1>1 DEF MemoryInv, MemoryTypeOK
<1>4. NothingFromThisStep'
  BY <1>1 DEF MemoryInv, NothingFromThisStep
<1>5. AsHanded'
  BY <1>1, <1>2 DEF MemoryInv, AsHanded, MemoryTypeOK
<1>6. Started' /\ AloneWhenWide'
  BY <1>1 DEF MemoryInv, Started, AloneWhenWide
<1>7. FromServer' /\ ByItself' /\ NotAhead'
  BY <1>1 DEF MemoryInv, FromServer, ByItself, NotAhead
<1>8. QED
  BY <1>3, <1>4, <1>5, <1>6, <1>7 DEF MemoryInv
(* A command that ends adds what it found to one of the two layers.        *)
LEMMA FinishKeeps ==
    ASSUME MemoryInv, NEW m \in working, NEW found \in SUBSET Slot, Finish(m, found)
    PROVE  MemoryInv'
<1> DEFINE L == Learned(m, found)
           new == [by |-> m, wide |-> wide, at |-> step]
<1>1. /\ m \in Node /\ step \in Nat /\ step >= 1 /\ L \in Known
      /\ \A k \in Slot : L[k] = IF k \in found THEN new ELSE View(m)[k]
  BY LearnedIs
<1>2. /\ wide => /\ own' = own /\ m = Server /\ working' = {} /\ cluster' \in Known
                 /\ \A k \in Slot : cluster'[k] = IF L[k] # Nothing THEN L[k] ELSE cluster[k]
      /\ ~wide => /\ cluster' = cluster /\ own' \in [Node -> Known]
                  /\ \A n \in Node : n # m => own'[n] = own[n]
                  /\ \A k \in Slot : own'[m][k] = IF L[k] # Nothing THEN L[k] ELSE own[m][k]
      /\ working' = working \ {m} /\ step' = step /\ wide' = wide /\ held' = held
  BY FinishLeaves
<1>3. /\ cluster \in Known /\ own \in [Node -> Known] /\ held \in [Node -> Known]
      /\ working \subseteq Node /\ wide \in BOOLEAN /\ step \in 0..MaxSteps
  BY DEF MemoryInv, MemoryTypeOK
<1>4. MemoryTypeOK'
  BY <1>2, <1>3 DEF MemoryTypeOK
<1>5. NothingFromThisStep'
  BY <1>2 DEF MemoryInv, NothingFromThisStep
<1>6. AsHanded'
  <2>1. SUFFICES ASSUME NEW n \in working', n \in working, n # m, ~wide
                 PROVE  held'[n] = View(n)'
    BY <1>2 DEF AsHanded
  <2>2. n \in Node /\ own'[n] = own[n] /\ cluster' = cluster
    BY <1>2, <1>3, <2>1
  <2>3. View(n)' = View(n)
    BY <2>2 DEF View, Over
  <2>4. QED
    BY <1>2, <2>1, <2>3 DEF MemoryInv, AsHanded
<1>7. Started' /\ AloneWhenWide'
  BY <1>2 DEF MemoryInv, Started, AloneWhenWide
\* Where the server's own finding gets into the cluster's layer, it is over it.
<1>8. \A k \in Slot : L[k] # Nothing /\ wide =>
         L[k].by = Server /\ (L[k].wide \/ own[Server][k] # Nothing)
  <2>1. SUFFICES ASSUME NEW k \in Slot, L[k] # Nothing, wide
                 PROVE  L[k].by = Server /\ (L[k].wide \/ own[Server][k] # Nothing)
    OBVIOUS
  <2>2. m = Server
    BY <1>2, <2>1
  <2>3. CASE k \in found
    BY <1>1, <2>1, <2>2, <2>3
  <2>4. CASE k \notin found
    <3>1. L[k] = IF own[Server][k] # Nothing THEN own[Server][k] ELSE cluster[k]
      BY <1>1, <2>2, <2>4, ViewKnown DEF MemoryInv
    <3>2. CASE own[Server][k] = Nothing
      BY <2>1, <3>1, <3>2 DEF MemoryInv, FromServer
    <3>3. CASE own[Server][k] # Nothing
      BY <3>1, <3>3, ServerAssumption DEF MemoryInv, ByItself
    <3>4. QED
      BY <3>2, <3>3
  <2>5. QED
    BY <2>3, <2>4
\* What a node leaves in its own layer it found out itself, or saw.
<1>9. \A k \in Slot : L[k] # Nothing => L[k].by \in {m, Server}
  <2>1. SUFFICES ASSUME NEW k \in Slot, L[k] # Nothing, k \notin found
                 PROVE  L[k].by \in {m, Server}
    BY <1>1
  <2>2. L[k] = IF own[m][k] # Nothing THEN own[m][k] ELSE cluster[k]
    BY <1>1, <2>1, ViewKnown DEF MemoryInv
  <2>3. CASE own[m][k] # Nothing
    BY <1>1, <2>2, <2>3 DEF MemoryInv, ByItself
  <2>4. CASE own[m][k] = Nothing
    BY <2>1, <2>2, <2>4 DEF MemoryInv, FromServer
  <2>5. QED
    BY <2>3, <2>4
<1>10. FromServer'
  <2>1. CASE wide
    <3>1. SUFFICES ASSUME NEW k \in Slot, cluster'[k] # Nothing
                   PROVE  cluster'[k].by = Server /\ (cluster'[k].wide \/ own'[Server][k] # Nothing)
      BY DEF FromServer
    <3>2. own' = own /\ cluster'[k] = IF L[k] # Nothing THEN L[k] ELSE cluster[k]
      BY <1>2, <2>1
    <3>3. QED
      BY <1>8, <2>1, <3>1, <3>2 DEF MemoryInv, FromServer
  <2>2. CASE ~wide
    <3>1. SUFFICES ASSUME NEW k \in Slot, cluster[k] # Nothing
                   PROVE  cluster[k].by = Server /\ (cluster[k].wide \/ own'[Server][k] # Nothing)
      BY <1>2, <2>2 DEF FromServer
    <3>2. own[Server][k] # Nothing => own'[Server][k] # Nothing
      BY <1>2, <2>2, ServerAssumption
    <3>3. QED
      BY <3>1, <3>2 DEF MemoryInv, FromServer
  <2>3. QED
    BY <2>1, <2>2
<1>11. ByItself'
  <2>1. SUFFICES ASSUME NEW n \in Node, NEW k \in Slot, own'[n][k] # Nothing
                 PROVE  own'[n][k].by \in {n, Server}
    BY DEF ByItself
  <2>2. CASE own'[n][k] = own[n][k]
    BY <2>1, <2>2 DEF MemoryInv, ByItself
  <2>3. CASE n = m /\ own'[n][k] = L[k]
    BY <1>9, <2>1, <2>3
  <2>4. QED
    BY <1>2, <2>2, <2>3
<1>12. \A k \in Slot : L[k] # Nothing => L[k].at <= step
  <2>1. SUFFICES ASSUME NEW k \in Slot, L[k] # Nothing
                 PROVE  L[k].at <= step
    OBVIOUS
  <2>2. CASE k \in found
    BY <1>1, <2>2
  <2>3. CASE k \notin found
    BY <1>1, <2>1, <2>3, SeenInTime
  <2>4. QED
    BY <2>2, <2>3
<1>13. NotAhead'
  <2>1. SUFFICES ASSUME NEW k \in Slot
                 PROVE  /\ cluster'[k] # Nothing => cluster'[k].at <= step
                        /\ \A n \in Node : own'[n][k] # Nothing => own'[n][k].at <= step
    BY <1>2 DEF NotAhead
  <2>2. cluster'[k] = cluster[k] \/ cluster'[k] = L[k]
    BY <1>2
  <2>3. \A n \in Node : own'[n][k] = own[n][k] \/ own'[n][k] = L[k]
    BY <1>2
  <2>4. cluster'[k] # Nothing => cluster'[k].at <= step
    BY <1>12, <2>2 DEF MemoryInv, NotAhead
  <2>5. \A n \in Node : own'[n][k] # Nothing => own'[n][k].at <= step
    BY <1>12, <2>3 DEF MemoryInv, NotAhead
  <2>6. QED
    BY <2>4, <2>5
<1>14. QED
  BY <1>4, <1>5, <1>6, <1>7, <1>10, <1>11, <1>13 DEF MemoryInv

(* The types, the copies handed out, and where what is known came from.    *)
THEOREM MemoryIsRight == MemorySpec => []MemoryInv
<1>1. MemoryInit => MemoryInv
  <2>1. SUFFICES ASSUME MemoryInit
                 PROVE  MemoryInv
    OBVIOUS
  <2>2. Blank \in Known
    BY DEF Blank, Known
  <2>3. MemoryTypeOK
    <3>1. 0 \in 0..MaxSteps
      BY StepsAssumption
    <3>2. QED
      BY <2>1, <2>2, <3>1 DEF MemoryInit, MemoryTypeOK
  <2>4. NothingFromThisStep /\ AsHanded /\ Started /\ AloneWhenWide
    BY <2>1 DEF MemoryInit, NothingFromThisStep, AsHanded, Started, AloneWhenWide
  <2>5. FromServer /\ ByItself /\ NotAhead
    BY <2>1, ServerAssumption DEF MemoryInit, Blank, FromServer, ByItself, NotAhead
  <2>6. QED
    BY <2>3, <2>4, <2>5 DEF MemoryInv
<1>2. MemoryInv /\ [MemoryNext]_memoryVars => MemoryInv'
  <2>1. SUFFICES ASSUME MemoryInv, [MemoryNext]_memoryVars
                 PROVE  MemoryInv'
    OBVIOUS
  <2>2. CASE StartStep
    BY <2>1, <2>2, StartKeeps
  <2>3. ASSUME NEW n \in Node, Throw(n)
        PROVE  MemoryInv'
    BY <2>1, <2>3, ThrowKeeps
  <2>4. ASSUME NEW n \in Node, NEW found \in SUBSET Slot, Finish(n, found)
        PROVE  MemoryInv'
    <3>1. n \in working
      BY <2>4 DEF Finish
    <3>2. QED
      BY <2>1, <2>4, <3>1, FinishKeeps
  <2>5. CASE UNCHANGED memoryVars
    BY <2>1, <2>5 DEF memoryVars, MemoryInv, MemoryTypeOK, NothingFromThisStep, AsHanded, View, Over, Started,
                      AloneWhenWide, FromServer, ByItself, NotAhead
  <2>6. QED
    BY <2>1, <2>2, <2>3, <2>4, <2>5 DEF MemoryNext
<1>3. QED
  BY <1>1, <1>2, PTL DEF MemorySpec

(* What a node has found out is what it is handed until it finds out       *)
(* something newer, and what is known to it is never quite forgotten.      *)
LEMMA KeepsStep ==
    ASSUME MemoryInv, [MemoryNext]_memoryVars, NEW n \in Node, NEW k \in Slot, View(n)[k] # Nothing
    PROVE  /\ View(n)'[k] # Nothing
           /\ View(n)[k].by = n /\ ~View(n)[k].wide =>
                 \/ View(n)'[k] = View(n)[k]
                 \/ View(n)'[k].by = n /\ ~View(n)'[k].wide /\ View(n)'[k].at > View(n)[k].at
<1>1. View(n)[k] = IF own[n][k] # Nothing THEN own[n][k] ELSE cluster[k]
  BY ViewKnown DEF MemoryInv
<1>2. View(n)'[k] = IF own'[n][k] # Nothing THEN own'[n][k] ELSE cluster'[k]
  BY ViewAfter
<1>3. CASE own' = own /\ cluster' = cluster
  BY <1>1, <1>2, <1>3
\* Of its own findings none is only in the cluster's layer.
<1>4. View(n)[k].by = n /\ ~View(n)[k].wide => own[n][k] # Nothing
  BY <1>1 DEF MemoryInv, FromServer
<1>5. ASSUME NEW m \in Node, NEW found \in SUBSET Slot, Finish(m, found)
      PROVE  /\ View(n)'[k] # Nothing
             /\ View(n)[k].by = n /\ ~View(n)[k].wide =>
                   \/ View(n)'[k] = View(n)[k]
                   \/ View(n)'[k].by = n /\ ~View(n)'[k].wide /\ View(n)'[k].at > View(n)[k].at
  <2> DEFINE L == Learned(m, found)
             new == [by |-> m, wide |-> wide, at |-> step]
  <2>1. m \in working
    BY <1>5 DEF Finish
  <2>2. /\ step \in Nat /\ L[k] = IF k \in found THEN new ELSE View(m)[k]
        /\ L[k] \in Finding \union {Nothing}
    BY <2>1, LearnedIs DEF Known
  <2>3. new # Nothing
    BY <2>2, NothingAssumption, <1>5 DEF MemoryInv, MemoryTypeOK
  <2>4. /\ wide => /\ own' = own
                   /\ cluster'[k] = IF L[k] # Nothing THEN L[k] ELSE cluster[k]
        /\ ~wide => /\ cluster' = cluster
                    /\ n # m => own'[n] = own[n]
                    /\ own'[m][k] = IF L[k] # Nothing THEN L[k] ELSE own[m][k]
    BY <1>5, <2>1, FinishLeaves
  <2>5. CASE wide
    BY <1>1, <1>2, <1>4, <2>4, <2>5
  <2>6. CASE ~wide /\ n # m
    BY <1>1, <1>2, <2>4, <2>6
  <2>7. CASE ~wide /\ n = m /\ k \notin found
    BY <1>1, <1>2, <2>2, <2>4, <2>7
  <2>8. CASE ~wide /\ n = m /\ k \in found
    <3>1. View(n)'[k] = new
      BY <1>2, <2>2, <2>3, <2>4, <2>8
    <3>2. View(n)[k].at \in Nat /\ View(n)[k].at < step
      <4>1. held[n] = View(n) /\ n \in working
        BY <2>1, <2>8 DEF MemoryInv, AsHanded
      <4>2. View(n)[k].at < step
        BY <4>1 DEF MemoryInv, NothingFromThisStep
      <4>3. QED
        BY <4>2, SeenInTime
    <3>3. QED
      BY <2>2, <2>3, <2>8, <3>1, <3>2
  <2>9. QED
    BY <2>5, <2>6, <2>7, <2>8
<1>6. CASE StartStep
  BY <1>3, <1>6 DEF StartStep
<1>7. ASSUME NEW m \in Node, Throw(m)
      PROVE  own' = own /\ cluster' = cluster
  BY <1>7 DEF Throw
<1>8. CASE UNCHANGED memoryVars
  BY <1>3, <1>8 DEF memoryVars
<1>9. QED
  BY <1>3, <1>5, <1>6, <1>7, <1>8 DEF MemoryNext

(* Whatever nodes, slots and steps there are: no command sees what another *)
(* finds out at the same step, a node's own newest finding is never        *)
(* hidden, and nothing once known to it is forgotten.                      *)
THEOREM MemoryIsKept == MemorySpec => MemoryKeeps
<1>1. MemoryInv => MemoryTypeOK /\ NothingFromThisStep
  BY DEF MemoryInv
<1>2. MemoryInv /\ [MemoryNext]_memoryVars =>
         \A n \in Node, k \in Slot : View(n)[k] # Nothing => View(n)'[k] # Nothing
  BY KeepsStep
<1>3. MemoryInv /\ [MemoryNext]_memoryVars =>
         \A n \in Node, k \in Slot :
            LET now == View(n)[k]
            IN  now # Nothing /\ now.by = n /\ ~now.wide =>
                   LET then == View(n)'[k]
                   IN  then = now \/ (then # Nothing /\ then.by = n
                                       /\ ~then.wide /\ then.at > now.at)
  BY KeepsStep
<1>4. QED
  BY <1>1, <1>2, <1>3, MemoryIsRight, PTL DEF MemorySpec, MemoryKeeps, OwnFindingsLast, NothingForgotten

-----------------------------------------------------------------------------
(* A bundle of commands                                                    *)

\* Everything that happened is behind the command the bundle has got to, or is
\* that command's failure to decide whether to run.
Behind ==
    /\ \A i \in tried : i < at
    /\ \A i \in wrong : i <= at
    /\ \A i \in Positions : i > at => results[i] = "none"
    /\ \A k \in Value : context[k] < at

AtWork ==
    /\ decided => at \in Positions /\ Cmd.wanted
    /\ at \in Positions /\ results[at] # "none" => Cmd.wanted

\* What has been passed has a result if it was wanted.
Asked ==
    \A i \in Positions : i < at => (bundle.commands[i].wanted <=> results[i] # "none")

StopsAtOnce == ~bundle.continueOnFailure /\ wrong # {} => state = "halted"

DoneAtTheEnd == state = "done" => at \notin Positions

BundleIInv ==
    /\ BundleTypeOK
    /\ Behind /\ AtWork /\ Asked /\ StopsAtOnce /\ DoneAtTheEnd
    /\ HaltedMeansFailed
    /\ NothingAfterFailure
    /\ ContextIsEarned

(* What the types say of the bundle and the command it has got to.         *)
LEMMA BundleShape ==
    ASSUME BundleTypeOK
    PROVE  /\ Positions = 1..Len(bundle.commands) /\ Len(bundle.commands) \in Nat
           /\ bundle.continueOnFailure \in BOOLEAN
           /\ at \in Nat /\ at >= 1
           /\ \A i \in Positions : bundle.commands[i].wanted \in BOOLEAN
           /\ (at \notin Positions => \A i \in Positions : i < at)
<1>1. bundle.commands \in Seq(CommandType) /\ bundle.continueOnFailure \in BOOLEAN
  BY DEF BundleTypeOK, BundleType
<1>2. Positions = 1..Len(bundle.commands) /\ Len(bundle.commands) \in Nat
  BY <1>1 DEF Positions
<1>3. at \in 1..Len(bundle.commands) + 1
  BY DEF BundleTypeOK
<1>4. \A i \in Positions : bundle.commands[i].wanted \in BOOLEAN
  <2>1. \A i \in Positions : bundle.commands[i] \in CommandType
    BY <1>1, <1>2
  <2>2. QED
    BY <2>1 DEF CommandType
<1>5. QED
  BY <1>1, <1>2, <1>3, <1>4

(* What was proved of a bundle at work is what is promised of it.          *)
LEMMA BundlePromise ==
    ASSUME BundleIInv
    PROVE  BundleInv
<1>1. EverythingAsked
  <2>1. SUFFICES ASSUME state = "done", NEW i \in Positions
                 PROVE  bundle.commands[i].wanted <=> results[i] # "none"
    BY DEF EverythingAsked
  <2>2. i < at
    BY <2>1, BundleShape DEF BundleIInv, DoneAtTheEnd
  <2>3. QED
    BY <2>2 DEF BundleIInv, Asked
<1>2. QED
  BY <1>1 DEF BundleIInv, BundleInv

(* However a command comes out, what holds of the bundle goes on holding.  *)
LEMMA SettleKeeps ==
    ASSUME BundleIInv, state = "running", at \in Positions, Cmd.wanted,
           NEW outcome \in {"ok", "unparsed", "error", "skipped"}, Settle(outcome),
           bundle' = bundle,
           tried' \subseteq tried \union {at},
           wrong' = IF outcome = "error" THEN wrong \union {at} ELSE wrong,
           context' = IF outcome = "ok" THEN Saved ELSE context
    PROVE  BundleIInv'
<1> DEFINE P == Positions
<1>1. /\ P = 1..Len(bundle.commands) /\ Len(bundle.commands) \in Nat
      /\ bundle.continueOnFailure \in BOOLEAN /\ at \in Nat /\ at >= 1
  BY BundleShape DEF BundleIInv
<1>2. /\ results' = [results EXCEPT ![at] = outcome] /\ failed' = (failed \/ outcome = "error")
      /\ at' = at + 1 /\ decided' = FALSE
      /\ state' = IF outcome = "error" /\ ~bundle.continueOnFailure THEN "halted" ELSE "running"
  BY <1>1 DEF Settle, GoOn
<1>3. /\ results \in [P -> Outcome] /\ failed \in BOOLEAN /\ tried \subseteq P /\ wrong \subseteq P
      /\ context \in [Value -> P \union {0}] /\ bundle \in Bundles \intersect BundleType
  BY DEF BundleIInv, BundleTypeOK
<1>4. P' = P
  BY DEF Positions
<1>5. /\ results' \in [P -> Outcome] /\ results'[at] = outcome
      /\ \A i \in P : i # at => results'[i] = results[i]
  BY <1>2, <1>3 DEF Outcome
<1>6. context' \in [Value -> P \union {0}]
  BY <1>3 DEF Saved
<1>7. tried' \subseteq P /\ wrong' \subseteq P
  BY <1>3
<1>8. BundleTypeOK'
  <2>1. at + 1 \in 1..Len(bundle.commands) + 1
    BY <1>1
  <2>2. state' \in {"running", "halted", "threw", "done"} /\ failed' \in BOOLEAN /\ decided' \in BOOLEAN
    BY <1>2, <1>3
  <2>3. QED
    BY <1>2, <1>3, <1>4, <1>5, <1>6, <1>7, <2>1, <2>2 DEF BundleTypeOK
<1>9. Behind'
  <2>1. \A i \in tried' : i < at + 1
    BY <1>1, <1>3 DEF BundleIInv, Behind
  <2>2. \A i \in wrong' : i <= at + 1
    BY <1>1, <1>3 DEF BundleIInv, Behind
  <2>3. \A i \in P : i > at + 1 => results'[i] = "none"
    BY <1>1, <1>5 DEF BundleIInv, Behind
  <2>4. \A k \in Value : context'[k] < at + 1
    BY <1>1, <1>3 DEF BundleIInv, Behind, Saved
  <2>5. QED
    BY <1>2, <1>4, <2>1, <2>2, <2>3, <2>4 DEF Behind
<1>10. AtWork'
  <2>1. at + 1 \in P => results'[at + 1] = "none"
    BY <1>1, <1>5 DEF BundleIInv, Behind
  <2>2. QED
    BY <1>2, <1>4, <2>1 DEF AtWork
<1>11. Asked'
  <2>1. \A i \in P : i < at + 1 => (bundle.commands[i].wanted <=> results'[i] # "none")
    <3>1. SUFFICES ASSUME NEW i \in P, i < at + 1
                   PROVE  bundle.commands[i].wanted <=> results'[i] # "none"
      OBVIOUS
    <3>2. CASE i = at
      BY <1>5, <3>2 DEF Cmd
    <3>3. CASE i # at
      <4>1. i < at
        BY <1>1, <3>1, <3>3
      <4>2. QED
        BY <1>5, <3>3, <4>1 DEF BundleIInv, Asked
    <3>4. QED
      BY <3>2, <3>3
  <2>2. QED
    BY <1>2, <1>4, <2>1 DEF Asked
<1>12. ~bundle.continueOnFailure => wrong = {} /\ \A i \in P : results[i] # "error"
  BY DEF BundleIInv, StopsAtOnce, HaltedMeansFailed, FailedCommands
<1>13. StopsAtOnce' /\ DoneAtTheEnd'
  BY <1>2, <1>12 DEF StopsAtOnce, DoneAtTheEnd
<1>14. HaltedMeansFailed'
  <2>1. ~bundle.continueOnFailure =>
           /\ {i \in P : results'[i] = "error"} = wrong'
           /\ (failed' <=> wrong' # {})
    BY <1>2, <1>3, <1>5, <1>12 DEF BundleIInv, HaltedMeansFailed
  <2>2. state' = "halted" => failed' /\ ~bundle.continueOnFailure
    BY <1>2
  <2>3. QED
    BY <1>4, <2>1, <2>2 DEF HaltedMeansFailed, FailedCommands
<1>15. NothingAfterFailure'
  <2>1. ~bundle.continueOnFailure => \A i \in wrong', j \in tried' : j <= i
    <3>1. SUFFICES ASSUME ~bundle.continueOnFailure, NEW i \in wrong', NEW j \in tried'
                   PROVE  j <= i
      OBVIOUS
    <3>2. i = at
      BY <1>12, <3>1
    <3>3. j \in Nat /\ (j = at \/ j < at)
      BY <1>1, <1>3 DEF BundleIInv, Behind
    <3>4. QED
      BY <1>1, <3>2, <3>3
  <2>2. QED
    BY <2>1 DEF NothingAfterFailure
<1>16. ContextIsEarned'
  <2>1. SUFFICES ASSUME NEW k \in Value
                 PROVE  /\ context'[k] # 0 =>
                              results'[context'[k]] = "ok" /\ bundle.commands[context'[k]].wanted
                        /\ \A i \in tried' :
                              results'[i] = "ok" /\ k \in bundle.commands[i].saves => i <= context'[k]
    BY DEF ContextIsEarned
  <2>2. /\ context[k] \in P \union {0} /\ context[k] < at
        /\ context[k] # 0 => results[context[k]] = "ok" /\ bundle.commands[context[k]].wanted
        /\ \A i \in tried : results[i] = "ok" /\ k \in bundle.commands[i].saves => i <= context[k]
    BY <1>3 DEF BundleIInv, Behind, ContextIsEarned
  <2>3. /\ \A i \in tried : i \in P /\ i < at /\ i # at
        /\ context[k] # at
    BY <1>1, <1>3, <2>2 DEF BundleIInv, Behind
  <2>4. CASE outcome = "ok" /\ k \in Cmd.saves
    <3>1. context'[k] = at
      BY <2>4 DEF Saved
    <3>2. \A i \in tried' : i <= at
      BY <1>1, <1>3, <2>3
    <3>3. QED
      BY <1>5, <2>4, <3>1, <3>2 DEF Cmd
  <2>5. CASE ~(outcome = "ok" /\ k \in Cmd.saves)
    <3>1. context'[k] = context[k]
      BY <2>5 DEF Saved
    <3>2. context[k] # 0 => results'[context[k]] = "ok"
      BY <1>5, <2>2, <2>3
    <3>3. ASSUME NEW i \in tried', results'[i] = "ok", k \in bundle.commands[i].saves
          PROVE  i <= context[k]
      <4>1. i # at
        BY <1>5, <2>5, <3>3 DEF Cmd
      <4>2. i \in tried
        BY <4>1, <3>3
      <4>3. results[i] = "ok"
        BY <1>5, <2>3, <3>3, <4>1, <4>2
      <4>4. QED
        BY <2>2, <3>3, <4>2, <4>3
    <3>4. QED
      BY <2>2, <3>1, <3>2, <3>3
  <2>6. QED
    BY <2>4, <2>5
<1>17. QED
  BY <1>8, <1>9, <1>10, <1>11, <1>13, <1>14, <1>15, <1>16 DEF BundleIInv

(* A command that wasn't asked for leaves no trace.                        *)
LEMMA PassOverKeeps ==
    ASSUME BundleIInv, PassOver
    PROVE  BundleIInv'
<1>1. /\ Positions = 1..Len(bundle.commands) /\ Len(bundle.commands) \in Nat
      /\ at \in Nat /\ at >= 1
  BY BundleShape DEF BundleIInv
<1>2. /\ at \in Positions /\ state = "running" /\ ~decided /\ ~bundle.commands[at].wanted
      /\ at' = at + 1
      /\ UNCHANGED <<bundle, decided, results, failed, context, state, tried, wrong>>
  BY DEF PassOver, AtCommand, Cmd
<1>3. results[at] = "none"
  BY <1>2 DEF BundleIInv, AtWork, Cmd
<1>4. BundleTypeOK'
  <2>1. at + 1 \in 1..Len(bundle.commands) + 1
    BY <1>1, <1>2
  <2>2. QED
    BY <1>2, <2>1 DEF BundleIInv, BundleTypeOK, Positions
<1>5. Positions' = Positions
  BY <1>2 DEF Positions
<1>6. Behind'
  <2>1. /\ tried \subseteq Positions /\ wrong \subseteq Positions
        /\ context \in [Value -> Positions \union {0}]
    BY DEF BundleIInv, BundleTypeOK
  <2>2. /\ \A i \in tried : i < at + 1
        /\ \A i \in wrong : i <= at + 1
        /\ \A i \in Positions : i > at + 1 => results[i] = "none"
        /\ \A k \in Value : context[k] < at + 1
    BY <1>1, <2>1 DEF BundleIInv, Behind
  <2>3. QED
    BY <1>2, <1>5, <2>2 DEF Behind
<1>7. AtWork'
  <2>1. at + 1 \in Positions => results[at + 1] = "none"
    BY <1>1 DEF BundleIInv, Behind
  <2>2. QED
    BY <1>2, <1>5, <2>1 DEF AtWork
<1>8. Asked'
  <2>1. \A i \in Positions : i < at + 1 => (i = at \/ i < at)
    BY <1>1
  <2>2. QED
    BY <1>2, <1>3, <1>5, <2>1 DEF BundleIInv, Asked
<1>9. StopsAtOnce' /\ DoneAtTheEnd'
  BY <1>2 DEF BundleIInv, StopsAtOnce, DoneAtTheEnd
<1>10. HaltedMeansFailed' /\ NothingAfterFailure' /\ ContextIsEarned'
  BY <1>2 DEF BundleIInv, HaltedMeansFailed, FailedCommands, Positions,
              NothingAfterFailure, ContextIsEarned
<1>11. QED
  BY <1>4, <1>6, <1>7, <1>8, <1>9, <1>10 DEF BundleIInv

(* Nor does a decision to go on, or an end.                                *)
LEMMA TurnKeeps ==
    ASSUME BundleIInv, at' = at,
           \/ DecideToRun
           \/ NowhereToRun
           \/ Done
    PROVE  BundleIInv'
<1>1. UNCHANGED <<bundle, results, failed, context, tried, wrong>>
  BY DEF DecideToRun, NowhereToRun, Done
<1>2. \/ decided' = TRUE /\ state' = state /\ at \in Positions /\ Cmd.wanted
      \/ /\ decided' = decided /\ state = "running"
         /\ state' = "threw" \/ (state' = "done" /\ at \notin Positions)
  BY DEF DecideToRun, NowhereToRun, Done, MayDecide, AtCommand
<1>3. BundleTypeOK'
  BY <1>1, <1>2 DEF BundleIInv, BundleTypeOK, Positions
<1>4. Behind' /\ Asked'
  BY <1>1 DEF BundleIInv, Behind, Asked, Positions
<1>5. AtWork'
  BY <1>1, <1>2 DEF BundleIInv, AtWork, Positions, Cmd
<1>6. StopsAtOnce' /\ DoneAtTheEnd'
  BY <1>1, <1>2 DEF BundleIInv, StopsAtOnce, DoneAtTheEnd, Positions
<1>7. HaltedMeansFailed' /\ NothingAfterFailure' /\ ContextIsEarned'
  BY <1>1, <1>2 DEF BundleIInv, HaltedMeansFailed, FailedCommands, Positions,
                    NothingAfterFailure, ContextIsEarned
<1>8. QED
  BY <1>3, <1>4, <1>5, <1>6, <1>7 DEF BundleIInv

(* A decision that fails is written down as the command's own failure.     *)
LEMMA DecidingKeeps ==
    ASSUME BundleIInv, DecidingFails
    PROVE  BundleIInv'
<1> DEFINE P == Positions
<1>1. /\ P = 1..Len(bundle.commands) /\ Len(bundle.commands) \in Nat
      /\ bundle.continueOnFailure \in BOOLEAN /\ at \in Nat /\ at >= 1
  BY BundleShape DEF BundleIInv
<1>2. /\ state = "running" /\ at \in P /\ Cmd.wanted /\ at' = at
      /\ results' = [results EXCEPT ![at] = "error"] /\ failed' = TRUE
      /\ wrong' = wrong \union {at} /\ bundle' = bundle /\ context' = context /\ tried' = tried
      /\ (bundle.continueOnFailure => decided' = TRUE /\ state' = "running")
      /\ (~bundle.continueOnFailure => decided' = decided /\ state' = "halted")
  BY DEF DecidingFails, MayDecide, AtCommand
<1>3. /\ results \in [P -> Outcome] /\ decided \in BOOLEAN /\ tried \subseteq P /\ wrong \subseteq P
      /\ context \in [Value -> P \union {0}] /\ bundle \in Bundles \intersect BundleType
      /\ at \in 1..Len(bundle.commands) + 1
  BY DEF BundleIInv, BundleTypeOK
<1>4. P' = P /\ Cmd' = Cmd
  BY <1>2 DEF Positions, Cmd
<1>5. /\ results' \in [P -> Outcome] /\ results'[at] = "error"
      /\ \A i \in P : i # at => results'[i] = results[i]
  BY <1>2, <1>3 DEF Outcome
<1>6. BundleTypeOK'
  <2>1. state' \in {"running", "halted", "threw", "done"} /\ decided' \in BOOLEAN /\ failed' \in BOOLEAN
    BY <1>1, <1>2, <1>3
  <2>2. wrong' \subseteq P
    BY <1>2, <1>3
  <2>3. QED
    BY <1>2, <1>3, <1>4, <1>5, <2>1, <2>2 DEF BundleTypeOK
<1>7. Behind'
  <2>1. \A i \in wrong' : i <= at
    BY <1>1, <1>2, <1>3 DEF BundleIInv, Behind
  <2>2. \A i \in P : i > at => results'[i] = "none"
    BY <1>1, <1>5 DEF BundleIInv, Behind
  <2>3. QED
    BY <1>2, <1>4, <2>1, <2>2 DEF BundleIInv, Behind
<1>8. AtWork'
  BY <1>2, <1>4 DEF AtWork
<1>9. Asked'
  <2>1. \A i \in P : i < at => results'[i] = results[i]
    BY <1>1, <1>5
  <2>2. QED
    BY <1>2, <1>4, <2>1 DEF BundleIInv, Asked
<1>10. ~bundle.continueOnFailure => wrong = {} /\ \A i \in P : results[i] # "error"
  BY <1>2 DEF BundleIInv, StopsAtOnce, HaltedMeansFailed, FailedCommands
<1>11. StopsAtOnce' /\ DoneAtTheEnd'
  BY <1>1, <1>2 DEF StopsAtOnce, DoneAtTheEnd
<1>12. HaltedMeansFailed'
  <2>1. ~bundle.continueOnFailure => {i \in P : results'[i] = "error"} = wrong' /\ wrong' # {}
    BY <1>2, <1>5, <1>10
  <2>2. state' = "halted" => ~bundle.continueOnFailure
    BY <1>2
  <2>3. QED
    BY <1>2, <1>4, <2>1, <2>2 DEF HaltedMeansFailed, FailedCommands
<1>13. NothingAfterFailure'
  <2>1. ~bundle.continueOnFailure => \A i \in wrong', j \in tried : j <= i
    <3>1. SUFFICES ASSUME ~bundle.continueOnFailure, NEW i \in wrong', NEW j \in tried
                   PROVE  j <= i
      OBVIOUS
    <3>2. i = at
      BY <1>2, <1>10, <3>1
    <3>3. j \in Nat /\ j < at
      BY <1>1, <1>3 DEF BundleIInv, Behind
    <3>4. QED
      BY <1>1, <3>2, <3>3
  <2>2. QED
    BY <1>2, <2>1 DEF NothingAfterFailure
<1>14. ContextIsEarned'
  <2>1. SUFFICES ASSUME NEW k \in Value
                 PROVE  /\ context[k] # 0 =>
                              results'[context[k]] = "ok" /\ bundle.commands[context[k]].wanted
                        /\ \A i \in tried :
                              results'[i] = "ok" /\ k \in bundle.commands[i].saves => i <= context[k]
    BY <1>2 DEF ContextIsEarned
  <2>2. /\ context[k] \in P \union {0} /\ context[k] # at
        /\ \A i \in tried : i \in P /\ i # at
    BY <1>1, <1>3 DEF BundleIInv, Behind
  <2>3. QED
    BY <1>5, <2>2 DEF BundleIInv, ContextIsEarned
<1>15. QED
  BY <1>6, <1>7, <1>8, <1>9, <1>11, <1>12, <1>13, <1>14 DEF BundleIInv

(* Whatever commands a bundle has: one that halts does nothing after a     *)
(* failure and names it, one that goes on asks everything it was wanted    *)
(* to, and a command is built only from what commands that worked found.   *)
THEOREM BundlesAreRight ==
    ASSUME Bundles \subseteq BundleType
    PROVE  BundleSpec => []BundleInv
<1>1. BundleInit => BundleIInv
  <2>1. SUFFICES ASSUME BundleInit
                 PROVE  BundleIInv
    OBVIOUS
  <2>2. /\ bundle \in Bundles /\ at = 1 /\ decided = FALSE
        /\ results = [i \in Positions |-> "none"] /\ failed = FALSE
        /\ context = [k \in Value |-> 0] /\ state = "running" /\ tried = {} /\ wrong = {}
    BY <2>1 DEF BundleInit
  <2>3. bundle.commands \in Seq(CommandType)
    BY <2>2 DEF BundleType
  <2>4. Len(bundle.commands) \in Nat /\ Positions = 1..Len(bundle.commands)
    BY <2>3 DEF Positions
  <2>5. 1 \in 1..Len(bundle.commands) + 1
    BY <2>4
  <2>6. BundleTypeOK
    BY <2>2, <2>5 DEF BundleTypeOK, Outcome
  <2>7. Behind /\ AtWork /\ StopsAtOnce /\ DoneAtTheEnd
    BY <2>2 DEF Behind, AtWork, StopsAtOnce, DoneAtTheEnd
  <2>8. Asked
    BY <2>2, <2>4 DEF Asked
  <2>9. HaltedMeansFailed /\ NothingAfterFailure /\ ContextIsEarned
    BY <2>2 DEF HaltedMeansFailed, FailedCommands, NothingAfterFailure, ContextIsEarned
  <2>10. QED
    BY <2>6, <2>7, <2>8, <2>9 DEF BundleIInv
<1>2. BundleIInv /\ [BundleNext]_(bundleVars) => BundleIInv'
  <2>1. SUFFICES ASSUME BundleIInv, [BundleNext]_(bundleVars)
                 PROVE  BundleIInv'
    OBVIOUS
  <2>2. CASE PassOver
    BY <2>1, <2>2, PassOverKeeps
  <2>3. CASE NowhereToRun \/ DecideToRun \/ Done
    <3>1. at' = at
      BY <2>3 DEF NowhereToRun, DecideToRun, Done
    <3>2. QED
      BY <2>1, <2>3, <3>1, TurnKeeps
  <2>4. CASE DecideToSkip
    <3>1. /\ state = "running" /\ at \in Positions /\ Cmd.wanted /\ Settle("skipped")
          /\ UNCHANGED <<bundle, context, tried, wrong>>
      BY <2>4 DEF DecideToSkip, MayDecide, AtCommand
    <3>2. QED
      BY <2>1, <3>1, SettleKeeps
  <2>5. CASE DecidingFails
    BY <2>1, <2>5, DecidingKeeps
  <2>6. decided => Cmd.wanted
    BY <2>1 DEF BundleIInv, AtWork
  <2>7. CASE Works
    <3>1. /\ state = "running" /\ at \in Positions /\ Cmd.wanted /\ Settle("ok")
          /\ bundle' = bundle /\ wrong' = wrong /\ context' = Saved /\ tried' = tried \union {at}
      BY <2>6, <2>7 DEF Works, AtCommand
    <3>2. QED
      BY <2>1, <3>1, SettleKeeps
  <2>8. CASE DoesNotParse
    <3>1. /\ state = "running" /\ at \in Positions /\ Cmd.wanted /\ Settle("unparsed")
          /\ bundle' = bundle /\ wrong' = wrong /\ context' = context /\ tried' = tried \union {at}
      BY <2>6, <2>8 DEF DoesNotParse, AtCommand
    <3>2. QED
      BY <2>1, <3>1, SettleKeeps
  <2>9. CASE Fails
    <3>1. /\ state = "running" /\ at \in Positions /\ Cmd.wanted /\ Settle("error")
          /\ bundle' = bundle /\ wrong' = wrong \union {at} /\ context' = context
          /\ tried' \subseteq tried \union {at}
      BY <2>6, <2>9 DEF Fails, AtCommand
    <3>2. QED
      BY <2>1, <3>1, SettleKeeps
  <2>10. CASE UNCHANGED bundleVars
    <3>1. UNCHANGED <<bundle, at, decided, results, failed, context, state, tried, wrong>>
      BY <2>10 DEF bundleVars
    <3>2. QED
      BY <2>1, <3>1 DEF BundleIInv, BundleTypeOK, Behind, AtWork, Asked, StopsAtOnce, DoneAtTheEnd,
            HaltedMeansFailed, FailedCommands, NothingAfterFailure, ContextIsEarned,
            Positions, Cmd
  <2>11. QED
    BY <2>1, <2>2, <2>3, <2>4, <2>5, <2>7, <2>8, <2>9, <2>10 DEF BundleNext
<1>3. BundleIInv => BundleInv
  BY BundlePromise
<1>4. QED
  BY <1>1, <1>2, <1>3, PTL DEF BundleSpec

-----------------------------------------------------------------------------
(* The port of an image                                                    *)

\* What a registry holds: an index points at manifests, and a config declares
\* ports by their numbers.  Pull Secrets are listed by their names.
SoundRegistry ==
    /\ NoList # <<>>
    /\ \A m \in Manifest :
          /\ Holds[m].list \notin {NoList, <<>>} => ChosenOf(Holds[m].list) \in Manifest
          /\ Holds[m].config # NoConfig => \A p \in Ports[Holds[m].config] : p.port \in Nat
    /\ Defaults \in Seq(SecretName)
    /\ Listings \subseteq Seq(SecretName)

\* What each name stands for is among what it has stood for.
StoodInv ==
    /\ tag \in [Tag -> Manifest]
    /\ stood \in [Image -> SUBSET Manifest]
    /\ \A t \in Tag : tag[t] \in stood[t]
    /\ \A m \in Manifest \ Tag : m \in stood[m]
    /\ wanted \in Image

PeopleInv ==
    /\ listed \in Listings
    /\ secrets \in [SecretName -> {"nothing", "wrong", "right"}]

Kept(ports) ==
    /\ DOMAIN ports \subseteq Image
    /\ \A i \in DOMAIN ports :
          ports[i] \in Nat \ {0} /\ \E m \in stood[i] : DeclaresOne(m, ports[i])

RecordInv ==
    /\ record = [deployed |-> record.deployed, ports |-> record.ports]
    /\ record.deployed \in Image \union {Nobody}
    /\ Kept(record.ports)

Problems == {"none", "needs credentials", "credentials refused", "no way to sign in",
             "empty index", "no config", "not one port", "unreachable"}

\* How far a reading has got, and what led there.
ReadInv ==
    /\ read = [at |-> read.at, image |-> read.image, credentials |-> read.credentials,
               authorization |-> read.authorization, manifest |-> read.manifest,
               config |-> read.config]
    /\ read.at \in {"idle", "manifest", "platform", "blob"}
    /\ read.image \in Image \union {Nobody}
    /\ read.at # "idle" => read.image \in Image
    /\ read.credentials \in {"none", "wrong", "right"}
    /\ read.authorization \in {"none", "wrong", "right", "token", "empty", "expired"}
    /\ read.at = "platform" =>
          \E m \in stood[read.image] :
             Holds[m].list \notin {NoList, <<>>} /\ read.manifest = ChosenOf(Holds[m].list)
    /\ read.at = "blob" =>
          /\ read.config # NoConfig
          /\ \E m \in stood[read.image] : ConfigOf(m) = read.config
    /\ problem \in Problems

\* A reading that has an authorization, good or not, has signed in, once; there is
\* a request for each stage it has got past, and one for the sign-in.
Stage == IF read.at = "manifest" THEN 0 ELSE IF read.at = "platform" THEN 1 ELSE 2

AskedInv ==
    /\ asked = [requests |-> asked.requests, signins |-> asked.signins]
    /\ asked.requests \in 0..4 /\ asked.signins \in 0..1
    /\ read.at # "idle" =>
          /\ asked.signins = IF read.authorization = "none" THEN 0 ELSE 1
          /\ asked.requests <= Stage + asked.signins

PortIInv == StoodInv /\ PeopleInv /\ RecordInv /\ ReadInv /\ AskedInv

(* That is all that is promised of the port.                               *)
LEMMA PortPromise ==
    ASSUME PortIInv
    PROVE  PortInv
<1>1. PortTypeOK
  BY DEF PortIInv, RecordInv, Kept, ReadInv, Problems, PortTypeOK
<1>2. KnownIsDeclared
  BY DEF PortIInv, RecordInv, Kept, KnownIsDeclared
<1>3. SignsInOnce
  BY DEF PortIInv, AskedInv, SignsInOnce
<1>4. QED
  BY <1>1, <1>2, <1>3 DEF PortInv

(* Credentials are found in a pull Secret that has some, or there are none. *)
LEMMA CredentialsFound ==
    ASSUME SoundRegistry, PeopleInv
    PROVE  Credentials \in {"none", "wrong", "right"}
<1> DEFINE names == IF listed = <<>> THEN Defaults ELSE listed
           First(i) == HasFor(names[i]) /\ \A j \in 1 .. i - 1 : ~HasFor(names[j])
<1>1. names \in Seq(SecretName)
  BY DEF SoundRegistry, PeopleInv
<1>2. CASE \E i \in DOMAIN names : First(i)
  <2>1. PICK i \in DOMAIN names : i = CHOOSE j \in DOMAIN names : First(j)
    BY <1>2
  <2>2. First(i)
    BY <1>2, <2>1
  <2>3. names[i] \in SecretName
    <3> HIDE DEF names, First
    <3>1. \A s \in Seq(SecretName) : \A j \in DOMAIN s : s[j] \in SecretName
      OBVIOUS
    <3>2. i \in DOMAIN names
      OBVIOUS
    <3>3. QED
      BY <1>1, <3>1, <3>2
  <2>4. secrets[names[i]] \in {"wrong", "right"}
    BY <2>2, <2>3 DEF PeopleInv, HasFor
  <2>5. Credentials = secrets[names[i]]
    BY <1>2, <2>1 DEF Credentials
  <2>6. QED
    BY <2>4, <2>5
<1>3. CASE ~ \E i \in DOMAIN names : First(i)
  BY <1>3 DEF Credentials
<1>4. QED
  BY <1>2, <1>3

(* The one TCP port of a config is the only one it declares.               *)
LEMMA OnlyPortIsDeclared ==
    ASSUME SoundRegistry, NEW m \in Manifest, ConfigOf(m) # NoConfig,
           OnlyPort(ConfigOf(m)) # 0
    PROVE  /\ OnlyPort(ConfigOf(m)) \in Nat \ {0}
           /\ DeclaresOne(m, OnlyPort(ConfigOf(m)))
<1> DEFINE c == ConfigOf(m)
<1>1. PICK p \in TcpPorts(c) : TcpPorts(c) = {p} /\ OnlyPort(c) = p
  BY DEF OnlyPort
<1>2. \E n \in Manifest : c = Holds[n].config
  BY DEF SoundRegistry, ConfigOf
<1>3. p \in Nat
  <2>1. \A q \in Ports[c] : q.port \in Nat
    BY <1>2 DEF SoundRegistry
  <2>2. QED
    BY <1>1, <2>1 DEF TcpPorts
<1>4. QED
  BY <1>1, <1>3 DEF DeclaresOne

(* What is asked while a reading goes on leaves room for one request more. *)
LEMMA RoomToAsk ==
    ASSUME PortIInv, read.at # "idle"
    PROVE  /\ asked.requests + 1 \in 0..4
           /\ asked.requests + 1 <= Stage + 1 + asked.signins
           /\ Stage \in 0..2 /\ asked.requests \in Nat /\ asked.signins \in 0..1
<1>1. Stage \in 0..2 /\ asked.requests \in 0..4 /\ asked.signins \in 0..1
  BY DEF PortIInv, AskedInv, Stage
<1>2. asked.requests <= Stage + asked.signins
  BY DEF PortIInv, AskedInv
<1>3. QED
  BY <1>1, <1>2

(* A pass that ends keeps the ports of the images in play, as they were    *)
(* declared, and nothing of its reading.                                   *)
LEMMA EndKeeps ==
    ASSUME PortIInv, outside' = outside, stood' = stood,
           NEW image \in Image, NEW ports, Kept(ports), NEW ok \in BOOLEAN,
           EndPass(image, ports, ok), problem' \in Problems,
           NEW r \in 0..4, NEW n \in 0..1, asked' = [requests |-> r, signins |-> n]
    PROVE  PortIInv'
<1>1. StoodInv' /\ PeopleInv'
  BY DEF PortIInv, StoodInv, PeopleInv, outside
<1>2. RecordInv'
  <2>1. PICK d \in {record.deployed} \union (IF ok THEN {image} ELSE {}) :
           record' = [deployed |-> d, ports |-> Pruned(ports, d, image)]
    BY DEF EndPass
  <2>2. d \in Image \union {Nobody}
    BY <2>1 DEF PortIInv, RecordInv
  <2>3. record'.deployed = d /\ record'.ports = Pruned(ports, d, image)
    BY <2>1
  <2>4. /\ DOMAIN record'.ports \subseteq DOMAIN ports
        /\ \A i \in DOMAIN record'.ports : record'.ports[i] = ports[i]
    BY <2>3 DEF Pruned
  <2>5. Kept(record.ports)'
    BY <2>4 DEF Kept
  <2>6. QED
    BY <2>1, <2>2, <2>3, <2>5 DEF RecordInv
<1>3. read' = NotReading
  BY DEF EndPass
<1>4. ReadInv'
  BY <1>3 DEF ReadInv, NotReading
<1>5. AskedInv'
  BY <1>3 DEF AskedInv, NotReading
<1>6. QED
  BY <1>1, <1>2, <1>4, <1>5 DEF PortIInv

(* A step of a reading is about nothing but the reading.                   *)
LEMMA ReadingKeeps ==
    ASSUME PortIInv, outside' = outside, stood' = stood, record' = record, ReadInv', AskedInv'
    PROVE  PortIInv'
BY DEF PortIInv, StoodInv, PeopleInv, RecordInv, Kept, outside

(* The ports that are recorded were declared.                              *)
LEMMA RecordIsKept ==
    ASSUME PortIInv
    PROVE  /\ Kept(record.ports) /\ wanted \in Image
           /\ read.at # "idle" => read.image \in Image
           /\ asked.requests \in 0..4 /\ asked.signins \in 0..1
           /\ asked = [requests |-> asked.requests, signins |-> asked.signins]
BY DEF PortIInv, RecordInv, StoodInv, ReadInv, AskedInv

(* A pass that asks nothing.                                               *)
LEMMA PassWithoutKeeps ==
    ASSUME PortIInv, PassWithout
    PROVE  PortIInv'
<1>1. /\ problem' = "none" /\ EndPass(wanted, record.ports, TRUE)
      /\ outside' = outside /\ asked' = asked /\ stood' = stood
  BY DEF PassWithout
<1>2. "none" \in Problems
  BY DEF Problems
<1>3. QED
  BY <1>1, <1>2, RecordIsKept, EndKeeps

(* A reading that begins has asked nothing and has no authorization.       *)
LEMMA StartReadingKeeps ==
    ASSUME SoundRegistry, PortIInv, StartReading
    PROVE  PortIInv'
<1>1. /\ asked' = [requests |-> 0, signins |-> 0]
      /\ outside' = outside /\ stood' = stood /\ record' = record /\ problem' = problem
  BY DEF StartReading
<1>2. Credentials \in {"none", "wrong", "right"} /\ wanted \in Image
  BY CredentialsFound DEF PortIInv, StoodInv
<1>3. read' = [at |-> "manifest", image |-> wanted, credentials |-> Credentials,
               authorization |-> "none", manifest |-> Nobody, config |-> NoConfig]
  BY DEF StartReading, NotReading
<1>4. /\ read'.at = "manifest" /\ read'.image = wanted /\ read'.credentials = Credentials
      /\ read'.authorization = "none" /\ read'.manifest = Nobody /\ read'.config = NoConfig
      /\ asked'.requests = 0 /\ asked'.signins = 0
  BY <1>1, <1>3
<1>5. problem' \in Problems /\ Image' = Image
  BY <1>1 DEF PortIInv, ReadInv, Image
<1>6. ReadInv'
  BY <1>2, <1>3, <1>4, <1>5 DEF ReadInv
<1>7. AskedInv'
  <2>1. Stage' = 0
    BY <1>4 DEF Stage
  <2>2. QED
    BY <1>1, <1>4, <2>1 DEF AskedInv
<1>8. QED
  BY <1>1, <1>6, <1>7, ReadingKeeps

(* A reading that signs in, or whose token runs out, is otherwise as it was. *)
LEMMA Reauthorized ==
    ASSUME ReadInv, NEW got, read' = [read EXCEPT !.authorization = got]
    PROVE  /\ read' = [at |-> read'.at, image |-> read'.image, credentials |-> read'.credentials,
                       authorization |-> read'.authorization, manifest |-> read'.manifest,
                       config |-> read'.config]
           /\ read'.at = read.at /\ read'.image = read.image /\ read'.credentials = read.credentials
           /\ read'.authorization = got /\ read'.manifest = read.manifest
           /\ read'.config = read.config
<1>1. read = [at |-> read.at, image |-> read.image, credentials |-> read.credentials,
              authorization |-> read.authorization, manifest |-> read.manifest,
              config |-> read.config]
  BY DEF ReadInv
<1>2. read' = [at |-> read.at, image |-> read.image, credentials |-> read.credentials,
               authorization |-> got, manifest |-> read.manifest, config |-> read.config]
  BY <1>1
<1>3. QED
  BY <1>2

(* ... and as sound as it was.                                             *)
LEMMA ReauthorizedIsSound ==
    ASSUME ReadInv, stood' = stood, problem' = problem,
           NEW got \in {"none", "wrong", "right", "token", "empty", "expired"},
           read' = [read EXCEPT !.authorization = got]
    PROVE  ReadInv'
<1>1. Image' = Image
  BY DEF Image
<1>2. QED
  BY <1>1, Reauthorized DEF ReadInv

(* A sign-in comes to something an authorization can be.                   *)
LEMMA SignedIn ==
    ASSUME ReadInv
    PROVE  SignIn \subseteq {"none", "wrong", "right", "token", "empty", "expired"}
BY DEF ReadInv, SignIn

(* A registry that wants credentials gets them once.                       *)
LEMMA UnauthorizedKeeps ==
    ASSUME PortIInv, Unauthorized
    PROVE  PortIInv'
<1>1. /\ outside' = outside /\ stood' = stood /\ read.at # "idle"
  BY DEF Unauthorized, Requesting
<1>2. /\ asked.requests + 1 \in 0..4 /\ asked.requests + 1 <= Stage + 1 + asked.signins
      /\ Stage \in 0..2 /\ asked.requests \in Nat /\ asked.signins \in 0..1
  BY <1>1, RoomToAsk
<1>3. read.image \in Image /\ Kept(record.ports)
  BY <1>1, RecordIsKept
<1>4. CASE SignsIn /\ Asks(1, 1)
  <2>1. asked.signins = 0
    BY <1>1, <1>4 DEF SignsIn, PortIInv, AskedInv
  <2>2. asked' = [requests |-> asked.requests + 1, signins |-> 1]
    BY <1>4, <2>1 DEF Asks
  <2>3. ASSUME NEW got \in SignIn, got # "none", read' = [read EXCEPT !.authorization = got],
               record' = record, problem' = problem
        PROVE  PortIInv'
    <3>1. got \in {"none", "wrong", "right", "token", "empty", "expired"} /\ ReadInv
      BY SignedIn DEF PortIInv
    <3>2. ReadInv'
      BY <1>1, <2>3, <3>1, ReauthorizedIsSound
    <3>3. read'.authorization = got /\ read'.at = read.at
      BY <2>3, <3>1, Reauthorized
    <3>4. AskedInv'
      <4>1. Stage' = Stage
        BY <3>3 DEF Stage
      <4>2. asked'.requests = asked.requests + 1 /\ asked'.signins = 1
        BY <2>2
      <4>3. asked.requests + 1 <= Stage + 1
        BY <1>2, <2>1
      <4>4. QED
        BY <1>2, <2>2, <2>3, <3>3, <4>1, <4>2, <4>3 DEF AskedInv
    <3>5. QED
      BY <1>1, <2>3, <3>2, <3>4, ReadingKeeps
  <2>4. ASSUME NEW what \in Problems, EndWith(what)
        PROVE  PortIInv'
    <3>1. problem' = what /\ EndPass(read.image, record.ports, FALSE)
      BY <2>4 DEF EndWith
    <3>2. 1 \in 0..1
      OBVIOUS
    <3>3. QED
      BY <1>1, <1>2, <1>3, <2>2, <2>4, <3>1, <3>2, EndKeeps
  <2>5. (IF door = "mute" THEN "no way to sign in" ELSE Refused) \in Problems
    BY DEF Refused, Problems
  <2>6. QED
    BY <1>4, <2>3, <2>4, <2>5 DEF Unauthorized, SignsIn
<1>5. CASE EndWith(Refused) /\ Asks(1, 0)
  <2>1. asked' = [requests |-> asked.requests + 1, signins |-> asked.signins]
    BY <1>2, <1>5 DEF Asks
  <2>2. problem' = Refused /\ EndPass(read.image, record.ports, FALSE)
    BY <1>5 DEF EndWith
  <2>3. Refused \in Problems
    BY DEF Refused, Problems
  <2>4. QED
    BY <1>1, <1>2, <1>3, <2>1, <2>2, <2>3, EndKeeps
<1>6. QED
  BY <1>4, <1>5 DEF Unauthorized

(* An index is read by the manifest chosen of it.                          *)
LEMMA ConfigOfIndex ==
    ASSUME NEW n, Holds[n].list # NoList, Holds[n].list # <<>>
    PROVE  ConfigOf(n) = Holds[ChosenOf(Holds[n].list)].config
BY DEF ConfigOf

(* ... and an image by its own.                                            *)
LEMMA ConfigOfImage ==
    ASSUME SoundRegistry, NEW n, Holds[n].list = NoList
    PROVE  ConfigOf(n) = Holds[n].config
BY DEF SoundRegistry, ConfigOf

(* A manifest leads to one of the manifests of an index it stood for, or to *)
(* the config it is read by.                                               *)
LEMMA AnswerManifestKeeps ==
    ASSUME SoundRegistry, PortIInv, AnswerManifest
    PROVE  PortIInv'
<1> DEFINE m == IF read.at = "platform" THEN read.manifest
                ELSE IF read.image \in Tag THEN tag[read.image] ELSE read.image
           list == Holds[m].list
<1>1. /\ outside' = outside /\ stood' = stood /\ read.at \in {"manifest", "platform"}
      /\ Asks(1, 0)
  BY DEF AnswerManifest
<1>2. /\ asked.requests + 1 \in 0..4 /\ asked.requests + 1 <= Stage + 1 + asked.signins
      /\ Stage \in 0..2 /\ asked.requests \in Nat /\ asked.signins \in 0..1
  BY <1>1, RoomToAsk
<1>3. read.image \in Image /\ Kept(record.ports)
  BY <1>1, RecordIsKept
<1>4. asked' = [requests |-> asked.requests + 1, signins |-> asked.signins]
  BY <1>1, <1>2 DEF Asks
<1>5. read.at = "manifest" => m \in stood[read.image] /\ m \in Manifest
  BY <1>3 DEF PortIInv, StoodInv, Image
<1>6. read = [at |-> read.at, image |-> read.image, credentials |-> read.credentials,
              authorization |-> read.authorization, manifest |-> read.manifest,
              config |-> read.config]
  BY DEF PortIInv, ReadInv
<1>7. /\ read.credentials \in {"none", "wrong", "right"} /\ problem \in Problems
      /\ read.authorization \in {"none", "wrong", "right", "token", "empty", "expired"}
      /\ asked.signins = IF read.authorization = "none" THEN 0 ELSE 1
  BY <1>1 DEF PortIInv, ReadInv, AskedInv
<1>8. ASSUME read.at = "manifest", list \notin {NoList, <<>>}, record' = record, problem' = problem,
             read' = [read EXCEPT !.at = "platform", !.manifest = ChosenOf(list)]
      PROVE  PortIInv'
  <2>1. read' = [at |-> "platform", image |-> read.image, credentials |-> read.credentials,
                 authorization |-> read.authorization, manifest |-> ChosenOf(list),
                 config |-> read.config]
    BY <1>6, <1>8
  <2>2. /\ read'.at = "platform" /\ read'.image = read.image /\ read'.credentials = read.credentials
        /\ read'.authorization = read.authorization /\ read'.manifest = ChosenOf(list)
        /\ read'.config = read.config
    BY <2>1
  <2>3. \E n \in stood'[read'.image] :
           Holds[n].list \notin {NoList, <<>>} /\ read'.manifest = ChosenOf(Holds[n].list)
    BY <1>1, <1>5, <1>8, <2>2
  <2>4. ReadInv'
    <3>1. Image' = Image
      BY DEF Image
    <3>2. problem' \in Problems
      BY <1>7, <1>8
    <3>3. QED
      BY <1>3, <1>7, <2>1, <2>2, <2>3, <3>1, <3>2 DEF ReadInv
  <2>5. AskedInv'
    <3>1. Stage' = 1 /\ Stage = 0
      BY <1>8, <2>2 DEF Stage
    <3>2. asked'.requests = asked.requests + 1 /\ asked'.signins = asked.signins
      BY <1>4
    <3>3. QED
      BY <1>2, <1>4, <1>7, <2>2, <3>1, <3>2 DEF AskedInv
  <2>6. QED
    BY <1>1, <1>8, <2>4, <2>5, ReadingKeeps
<1>9. ASSUME read.at = "platform" \/ list = NoList, Holds[m].config # NoConfig, record' = record,
             problem' = problem, read' = [read EXCEPT !.at = "blob", !.config = Holds[m].config]
      PROVE  PortIInv'
  <2>1. read' = [at |-> "blob", image |-> read.image, credentials |-> read.credentials,
                 authorization |-> read.authorization, manifest |-> read.manifest,
                 config |-> Holds[m].config]
    BY <1>6, <1>9
  <2>2. /\ read'.at = "blob" /\ read'.image = read.image /\ read'.credentials = read.credentials
        /\ read'.authorization = read.authorization /\ read'.manifest = read.manifest
        /\ read'.config = Holds[m].config
    BY <2>1
  <2>3. \E n \in stood[read.image] : ConfigOf(n) = Holds[m].config
    <3>1. CASE read.at = "platform"
      <4>1. PICK n \in stood[read.image] :
               Holds[n].list \notin {NoList, <<>>} /\ read.manifest = ChosenOf(Holds[n].list)
        BY <3>1 DEF PortIInv, ReadInv
      <4>2. m = ChosenOf(Holds[n].list)
        BY <3>1, <4>1
      <4>3. ConfigOf(n) = Holds[m].config
        BY <4>1, <4>2, ConfigOfIndex
      <4>4. QED
        BY <4>3
    <3>2. CASE read.at # "platform"
      <4>1. m \in stood[read.image] /\ list = NoList
        BY <1>1, <1>5, <1>9, <3>2
      <4>2. ConfigOf(m) = Holds[m].config
        BY <4>1, ConfigOfImage
      <4>3. QED
        BY <4>1, <4>2
    <3>3. QED
      BY <3>1, <3>2
  <2>4. ReadInv'
    <3>1. Image' = Image
      BY DEF Image
    <3>2. problem' \in Problems
      BY <1>7, <1>9
    <3>3. \E n \in stood'[read'.image] : ConfigOf(n) = read'.config
      BY <1>1, <2>2, <2>3
    <3>4. QED
      BY <1>3, <1>7, <1>9, <2>1, <2>2, <3>1, <3>2, <3>3 DEF ReadInv
  <2>5. AskedInv'
    <3>1. Stage' = 2 /\ Stage \in 0..1
      BY <1>1, <2>2 DEF Stage
    <3>2. asked'.requests = asked.requests + 1 /\ asked'.signins = asked.signins
      BY <1>4
    <3>3. asked.requests + 1 <= 2 + asked.signins
      BY <1>2, <3>1
    <3>4. QED
      BY <1>2, <1>4, <1>7, <2>2, <3>1, <3>2, <3>3 DEF AskedInv
  <2>6. QED
    BY <1>1, <1>9, <2>4, <2>5, ReadingKeeps
<1>10. ASSUME NEW what \in Problems, EndWith(what)
       PROVE  PortIInv'
  <2>1. problem' = what /\ EndPass(read.image, record.ports, FALSE)
    BY <1>10 DEF EndWith
  <2>2. QED
    BY <1>1, <1>2, <1>3, <1>4, <1>10, <2>1, EndKeeps
<1>11. "empty index" \in Problems /\ "no config" \in Problems
  BY DEF Problems
<1>12. QED
  BY <1>8, <1>9, <1>10, <1>11 DEF AnswerManifest

(* A config's port is kept if it is the only one it declares.              *)
LEMMA AnswerConfigKeeps ==
    ASSUME SoundRegistry, PortIInv, AnswerConfig
    PROVE  PortIInv'
<1> DEFINE port == OnlyPort(read.config)
           ports == [i \in DOMAIN record.ports \union {read.image} |->
                        IF i = read.image THEN port ELSE record.ports[i]]
<1>1. /\ outside' = outside /\ stood' = stood /\ read.at = "blob" /\ Asks(1, 0)
  BY DEF AnswerConfig
<1>2. /\ asked.requests + 1 \in 0..4 /\ asked.signins \in 0..1
      /\ asked' = [requests |-> asked.requests + 1, signins |-> asked.signins]
  <2>1. asked.requests + 1 \in 0..4 /\ asked.signins \in 0..1
    BY <1>1, RoomToAsk
  <2>2. QED
    BY <1>1, <2>1 DEF Asks
<1>3. read.image \in Image /\ Kept(record.ports)
  BY <1>1, RecordIsKept
<1>4. CASE port # 0 /\ problem' = "none" /\ EndPass(read.image, ports, TRUE)
  <2>1. PICK m \in stood[read.image] : ConfigOf(m) = read.config
    BY <1>1 DEF PortIInv, ReadInv
  <2>2. m \in Manifest /\ read.config # NoConfig
    BY <1>1, <1>3, <2>1 DEF PortIInv, ReadInv, StoodInv
  <2>3. port \in Nat \ {0} /\ DeclaresOne(m, port)
    BY <1>4, <2>1, <2>2, OnlyPortIsDeclared
  <2>4. Kept(ports)
    <3> HIDE DEF port
    <3>1. DOMAIN ports \subseteq Image
      BY <1>3 DEF Kept
    <3>2. ASSUME NEW i \in DOMAIN ports
          PROVE  ports[i] \in Nat \ {0} /\ \E n \in stood[i] : DeclaresOne(n, ports[i])
      <4>1. CASE i = read.image
        BY <2>1, <2>3, <4>1
      <4>2. CASE i # read.image
        BY <1>3, <3>2, <4>2 DEF Kept
      <4>3. QED
        BY <4>1, <4>2
    <3>3. QED
      BY <3>1, <3>2 DEF Kept
  <2>5. "none" \in Problems /\ TRUE \in BOOLEAN
    BY DEF Problems
  <2>6. QED
    <3> HIDE DEF ports
    <3>1. QED
      BY <1>1, <1>2, <1>3, <1>4, <2>4, <2>5, EndKeeps
<1>5. CASE EndWith("not one port")
  <2>1. problem' = "not one port" /\ EndPass(read.image, record.ports, FALSE)
    BY <1>5 DEF EndWith
  <2>2. "not one port" \in Problems
    BY DEF Problems
  <2>3. QED
    BY <1>1, <1>2, <1>3, <2>1, <2>2, EndKeeps
<1>6. QED
  BY <1>4, <1>5 DEF AnswerConfig, Keeps

(* What goes wrong ends a reading, or makes it sign in no more.            *)
LEMMA TroubleKeeps ==
    ASSUME PortIInv, Unanswered \/ TokenExpires \/ Restart
    PROVE  PortIInv'
<1>1. CASE Unanswered
  <2>1. /\ outside' = outside /\ stood' = stood /\ read.at # "idle" /\ Asks(1, 0)
        /\ problem' = "unreachable" /\ EndPass(read.image, record.ports, FALSE)
    BY <1>1 DEF Unanswered, Requesting, EndWith
  <2>2. /\ asked.requests + 1 \in 0..4 /\ asked.signins \in 0..1
        /\ asked' = [requests |-> asked.requests + 1, signins |-> asked.signins]
    <3>1. asked.requests + 1 \in 0..4 /\ asked.signins \in 0..1
      BY <2>1, RoomToAsk
    <3>2. QED
      BY <2>1, <3>1 DEF Asks
  <2>3. read.image \in Image /\ Kept(record.ports) /\ "unreachable" \in Problems
    BY <2>1, RecordIsKept DEF Problems
  <2>4. QED
    BY <2>1, <2>2, <2>3, EndKeeps
<1>2. CASE TokenExpires
  <2>1. /\ outside' = outside /\ stood' = stood /\ record' = record /\ problem' = problem
        /\ asked' = asked /\ read.authorization = "token"
        /\ read' = [read EXCEPT !.authorization = "expired"]
    BY <1>2 DEF TokenExpires
  <2>2. ReadInv'
    BY <2>1, ReauthorizedIsSound DEF PortIInv
  <2>3. AskedInv'
    <3>1. read'.at = read.at /\ read'.authorization = "expired"
      BY <2>1, Reauthorized DEF PortIInv
    <3>2. Stage' = Stage
      BY <3>1 DEF Stage
    <3>3. QED
      BY <2>1, <3>1, <3>2 DEF PortIInv, AskedInv
  <2>4. QED
    BY <2>1, <2>2, <2>3, ReadingKeeps
<1>3. CASE Restart
  <2>1. /\ outside' = outside /\ stood' = stood /\ record' = record /\ problem' = problem
        /\ asked' = asked /\ read' = NotReading
    BY <1>3 DEF Restart
  <2>2. ReadInv'
    BY <2>1 DEF PortIInv, ReadInv, NotReading
  <2>3. AskedInv'
    BY <2>1 DEF PortIInv, AskedInv, NotReading
  <2>4. QED
    BY <2>1, <2>2, <2>3, ReadingKeeps
<1>4. QED
  BY <1>1, <1>2, <1>3

(* Whatever people change, what a name stood for is not forgotten.         *)
LEMMA PeopleKeep ==
    ASSUME PortIInv, Push \/ NewRelease \/ EditSpec \/ EditSecret
    PROVE  PortIInv'
<1>1. record' = record /\ read' = read /\ problem' = problem /\ asked' = asked
  BY DEF Push, NewRelease, EditSpec, EditSecret
<1>2. StoodInv' /\ \A i \in Image : stood[i] \subseteq stood'[i]
  <2>1. CASE Push
    <3>1. PICK t \in Tag, m \in Manifest :
             tag' = [tag EXCEPT ![t] = m] /\ stood' = [stood EXCEPT ![t] = @ \union {m}]
      BY <2>1 DEF Push
    <3>2. wanted' = wanted
      BY <2>1 DEF Push
    <3>3. QED
      BY <3>1, <3>2 DEF PortIInv, StoodInv, Image
  <2>2. CASE ~Push
    <3>1. tag' = tag /\ stood' = stood /\ wanted' \in Image
      BY <2>2 DEF NewRelease, EditSpec, EditSecret, PortIInv, StoodInv
    <3>2. QED
      BY <3>1 DEF PortIInv, StoodInv, Image
  <2>3. QED
    BY <2>1, <2>2
<1>3. PeopleInv'
  BY DEF PortIInv, PeopleInv, Push, NewRelease, EditSpec, EditSecret
<1>4. RecordInv'
  <2>1. Kept(record.ports)'
    BY <1>1, <1>2 DEF PortIInv, RecordInv, Kept, Image
  <2>2. QED
    BY <1>1, <2>1 DEF PortIInv, RecordInv, Image
<1>5. ReadInv'
  BY <1>1, <1>2 DEF PortIInv, ReadInv, Image
<1>6. AskedInv'
  BY <1>1 DEF PortIInv, AskedInv, Stage
<1>7. QED
  BY <1>2, <1>3, <1>4, <1>5, <1>6 DEF PortIInv

(* Whatever a registry holds, and whatever moves, is refused or runs out    *)
(* while it is read: a port that is kept is the only TCP port of an image   *)
(* of that name, and no reading keeps signing in.                           *)
THEOREM PortsAreDeclared ==
    ASSUME SoundRegistry
    PROVE  PortInit /\ [][PortNext]_(portVars) => []PortInv
<1>1. PortInit => PortIInv
  <2>1. SUFFICES ASSUME PortInit
                 PROVE  PortIInv
    OBVIOUS
  <2>2. StoodInv
    BY <2>1 DEF PortInit, Image, StoodInv
  <2>3. PeopleInv
    BY <2>1 DEF PortInit, PeopleInv
  <2>4. RecordInv
    BY <2>1 DEF PortInit, RecordInv, Kept
  <2>5. ReadInv
    BY <2>1 DEF PortInit, NotReading, ReadInv, Problems
  <2>6. AskedInv
    BY <2>1 DEF PortInit, NotReading, AskedInv
  <2>7. QED
    BY <2>2, <2>3, <2>4, <2>5, <2>6 DEF PortIInv
<1>2. PortIInv /\ [PortNext]_(portVars) => PortIInv'
  <2>1. SUFFICES ASSUME PortIInv, [PortNext]_(portVars)
                 PROVE  PortIInv'
    OBVIOUS
  <2>2. CASE Pass
    BY <2>1, <2>2, PassWithoutKeeps, StartReadingKeeps, UnauthorizedKeeps, AnswerManifestKeeps,
       AnswerConfigKeeps DEF Pass
  <2>3. CASE Unanswered \/ TokenExpires \/ Restart
    BY <2>1, <2>3, TroubleKeeps
  <2>4. CASE Push \/ NewRelease \/ EditSpec \/ EditSecret
    BY <2>1, <2>4, PeopleKeep
  <2>5. CASE UNCHANGED portVars
    BY <2>1, <2>5 DEF portVars, Image, PortIInv, StoodInv, PeopleInv, RecordInv, Kept, ReadInv,
                      AskedInv, Stage
  <2>6. QED
    BY <2>1, <2>2, <2>3, <2>4, <2>5 DEF PortNext
<1>3. PortIInv => PortInv
  BY PortPromise
<1>4. QED
  BY <1>1, <1>2, <1>3, PTL
-----------------------------------------------------------------------------
(* Placement: the pods of placed namespaces                                *)

PodType ==
    [realm : Realm, terms : OwnTerms, exempt : BOOLEAN, own : Site \union {"nowhere"},
     must : SUBSET SUBSET PlaceNode, held : Site \union {"nowhere"}, after : BOOLEAN,
     late : BOOLEAN, on : PlaceNode \union {"waits"}]

Remaining ==
    {<<>>, <<"verify">>, <<"labels", "verify">>, <<"policy", "labels", "verify">>}

PlacementTypes ==
    /\ placement \in [Realm -> Places]
    /\ policy \in BOOLEAN
    /\ labelled \in [Realm -> Places]
    /\ \A r \in Realm : labelled[r] = Nowhere \/ labelled[r].site # "nowhere"
    /\ annotated \in [Realm -> Site \union {"nowhere"}]
    /\ pods \subseteq PodType
    /\ todo \in Remaining
    /\ done \subseteq Realm
    /\ verified \in BOOLEAN
    /\ changes \in 0..MaxPlacements

\* Whether the policy has anything to say of a pod.
Bound(pod) == ~pod.exempt /\ pod.own = "nowhere" /\ pod.held = "nowhere"

\* A pod's terms are its own, or its own with a region added to each.
AskedNarrowly ==
    \A pod \in pods :
        /\ \A t \in pod.must : pod.terms = {} \/ \E u \in pod.terms : t \subseteq u
        /\ pod.terms # {} => pod.must # {}
        /\ pod.exempt => pod.must = pod.terms

\* Where a pod runs, its own terms and its own region allow.
OnItsOwn ==
    \A pod \in pods : pod.on # "waits" =>
        /\ pod.terms # {} => \E t \in pod.terms : pod.on \in t
        /\ pod.own # "nowhere" => SiteOf[pod.on] = pod.own

\* A namespace that is done with has no annotation, nor had the pods made since.
DoneIsFreed ==
    /\ \A r \in done : annotated[r] = "nowhere"
    /\ \A pod \in pods : pod.after => pod.held = "nowhere"

\* A pod runs in the region, or can't run anywhere else.
StaysWithin(pod, site) ==
    IF pod.on = "waits" THEN pod.must # {} /\ \A t \in pod.must : t \subseteq InSite(site)
    ELSE SiteOf[pod.on] = site

\* What the check found stays so until the configuration is changed.
StaysVerified ==
    verified =>
        /\ policy
        /\ \A r \in Placed :
              /\ labelled[r] = placement[r]
              /\ annotated[r] = "nowhere"
              /\ placement[r].affinity = "required" =>
                    \A pod \in pods :
                        pod.realm = r /\ ~pod.late /\ Bound(pod) => StaysWithin(pod, placement[r].site)

PlacementIInv ==
    /\ PlacementTypes
    /\ AskedNarrowly
    /\ OnItsOwn
    /\ DoneIsFreed
    /\ StaysVerified

-----------------------------------------------------------------------------
(* The region is added to every term, and there is always a term then.     *)
LEMMA PatchedNarrows ==
    ASSUME NEW terms, NEW site
    PROVE  /\ Patched(terms, site) # {}
           /\ \A t \in Patched(terms, site) :
                 /\ t \subseteq InSite(site)
                 /\ terms = {} \/ \E u \in terms : t \subseteq u
<1>1. CASE terms = {}
  BY <1>1 DEF Patched
<1>2. CASE terms # {}
  <2>1. Patched(terms, site) = {t \intersect InSite(site) : t \in terms}
    BY <1>2 DEF Patched
  <2>2. PICK u \in terms : TRUE
    BY <1>2
  <2>3. u \intersect InSite(site) \in Patched(terms, site)
    BY <2>1, <2>2
  <2>4. QED
    BY <2>1, <2>3
<1>3. QED
  BY <1>1, <1>2

(* A region's nodes are nodes.                                             *)
LEMMA PatchedType ==
    ASSUME NEW terms \in OwnTerms, NEW site
    PROVE  Patched(terms, site) \in SUBSET SUBSET PlaceNode
<1>1. InSite(site) \subseteq PlaceNode
  BY DEF InSite
<1>2. terms \subseteq SUBSET PlaceNode
  BY PlacementAssumption
<1>3. QED
  BY <1>1, <1>2 DEF Patched

(* To begin with nothing is placed and there are no pods.                *)
LEMMA InitPlacementIInv == PlacementInit => PlacementIInv
<1> SUFFICES ASSUME PlacementInit PROVE PlacementIInv
  OBVIOUS
<1>1. Nowhere \in Places /\ Nowhere.site = "nowhere"
  BY DEF Nowhere, Places
<1>2. PlacementTypes
  <2>1. todo \in Remaining
    BY DEF PlacementInit, Remaining
  <2>2. changes \in 0..MaxPlacements
    BY PlacementAssumption DEF PlacementInit
  <2>3. QED
    BY <1>1, <2>1, <2>2 DEF PlacementInit, PlacementTypes
<1>3. AskedNarrowly /\ OnItsOwn /\ DoneIsFreed /\ StaysVerified
  BY DEF PlacementInit, AskedNarrowly, OnItsOwn, DoneIsFreed, StaysVerified
<1>4. QED
  BY <1>2, <1>3 DEF PlacementIInv

-----------------------------------------------------------------------------
(* The pod that is made                                                    *)

(* A pod is made as it asks to be, or with terms the policy gave it, which *)
(* it does whenever the namespace's label is one that is required.         *)
LEMMA PodMade ==
    ASSUME PlacementIInv, MakePod
    PROVE  \E new \in PodType :
              /\ pods' = pods \union {new}
              /\ new.on = "waits" /\ ~new.late
              /\ new.held = annotated[new.realm]
              /\ new.after <=> new.realm \in done
              /\ \/ new.must = new.terms
                 \/ new.must = Patched(new.terms, labelled[new.realm].site) /\ ~new.exempt
              /\ /\ policy /\ Bound(new)
                 /\ labelled[new.realm] # Nowhere
                 /\ labelled[new.realm].affinity = "required"
                 => new.must = Patched(new.terms, labelled[new.realm].site)
<1>1. PICK r \in Realm, terms \in OwnTerms, exempt \in BOOLEAN, region \in Site \union {"nowhere"} :
          LET selects == IF annotated[r] # "nowhere" THEN annotated[r] ELSE region
              pod     == [realm |-> r, terms |-> terms, exempt |-> exempt, own |-> region,
                          must |-> terms, held |-> annotated[r], after |-> r \in done,
                          late |-> FALSE, on |-> "waits"]
              to      == labelled[r]
          IN  /\ region \in {"nowhere", selects}
              /\ pods' = pods \union
                    {IF Matched([pod EXCEPT !.own = selects]) /\ to.affinity = "required"
                     THEN [pod EXCEPT !.must = Patched(terms, to.site)] ELSE pod}
  BY DEF MakePod
<1> DEFINE selects == IF annotated[r] # "nowhere" THEN annotated[r] ELSE region
           plain   == [realm |-> r, terms |-> terms, exempt |-> exempt, own |-> region,
                       must |-> terms, held |-> annotated[r], after |-> r \in done,
                       late |-> FALSE, on |-> "waits"]
           patch   == Patched(terms, labelled[r].site)
           seen    == [plain EXCEPT !.own = selects]
           patched == [plain EXCEPT !.must = patch]
           bound   == policy /\ labelled[r] # Nowhere /\ ~exempt /\ selects = "nowhere"
           matched == bound /\ labelled[r].affinity = "required"
           new     == IF matched THEN patched ELSE plain
<1>2. /\ annotated[r] \in Site \union {"nowhere"}
      /\ patch \in SUBSET SUBSET PlaceNode
      /\ terms \in SUBSET SUBSET PlaceNode
  BY PatchedType, PlacementAssumption DEF PlacementIInv, PlacementTypes
<1>3. /\ plain \in PodType
      /\ plain.realm = r /\ plain.terms = terms /\ plain.exempt = exempt
      /\ plain.own = region /\ plain.must = terms /\ plain.held = annotated[r]
      /\ plain.after = (r \in done) /\ plain.late = FALSE /\ plain.on = "waits"
  BY <1>2 DEF PodType
<1>4. pods' = pods \union {IF Matched(seen) /\ labelled[r].affinity = "required"
                           THEN patched ELSE plain}
  BY <1>1, Zenon
<1> HIDE DEF plain, patch
<1>5. seen.realm = r /\ seen.exempt = exempt /\ seen.own = selects
  BY <1>3 DEF PodType
<1>6. Matched(seen) <=> bound
  BY <1>5 DEF Matched
<1>7. /\ patched \in PodType
      /\ patched.realm = r /\ patched.terms = terms /\ patched.exempt = exempt
      /\ patched.own = region /\ patched.must = patch /\ patched.held = annotated[r]
      /\ patched.after = (r \in done) /\ patched.late = FALSE /\ patched.on = "waits"
  BY <1>2, <1>3 DEF PodType
<1> HIDE DEF seen, patched
<1>8. pods' = pods \union {new}
  BY <1>4, <1>6
<1>9. /\ new \in PodType
      /\ new.realm = r /\ new.terms = terms /\ new.exempt = exempt
      /\ new.on = "waits" /\ ~new.late
      /\ new.held = annotated[r]
      /\ new.after <=> r \in done
      /\ new.must = IF matched THEN patch ELSE terms
      /\ Bound(new) => selects = "nowhere" /\ ~exempt
  BY <1>3, <1>7 DEF Bound
<1> HIDE DEF new
<1>10. \/ new.must = new.terms
       \/ new.must = Patched(new.terms, labelled[new.realm].site) /\ ~new.exempt
  BY <1>9 DEF patch
<1>11. /\ policy /\ Bound(new)
       /\ labelled[new.realm] # Nowhere
       /\ labelled[new.realm].affinity = "required"
       => new.must = Patched(new.terms, labelled[new.realm].site)
  BY <1>9 DEF patch
<1>12. QED
  BY <1>8, <1>9, <1>10, <1>11

(* A pod that is made leaves everything as it is promised.                 *)
LEMMA MakeKeeps ==
    ASSUME PlacementIInv, MakePod
    PROVE  PlacementIInv'
<1>1. PICK new \in PodType :
          /\ pods' = pods \union {new}
          /\ new.on = "waits" /\ ~new.late
          /\ new.held = annotated[new.realm]
          /\ new.after <=> new.realm \in done
          /\ \/ new.must = new.terms
             \/ new.must = Patched(new.terms, labelled[new.realm].site) /\ ~new.exempt
          /\ /\ policy /\ Bound(new)
             /\ labelled[new.realm] # Nowhere
             /\ labelled[new.realm].affinity = "required"
             => new.must = Patched(new.terms, labelled[new.realm].site)
  BY PodMade
<1>2. UNCHANGED <<placement, policy, labelled, annotated, todo, done, verified, changes>>
  BY DEF MakePod
<1>3. new.realm \in Realm
  BY DEF PodType
<1>4. PlacementTypes'
  BY <1>1, <1>2 DEF PlacementIInv, PlacementTypes
<1>5. AskedNarrowly'
  <2>1. /\ \A t \in new.must : new.terms = {} \/ \E u \in new.terms : t \subseteq u
        /\ new.terms # {} => new.must # {}
        /\ new.exempt => new.must = new.terms
    BY <1>1, PatchedNarrows
  <2>2. QED
    BY <1>1, <2>1 DEF PlacementIInv, AskedNarrowly
<1>6. OnItsOwn'
  BY <1>1 DEF PlacementIInv, OnItsOwn
<1>7. DoneIsFreed'
  BY <1>1, <1>2 DEF PlacementIInv, DoneIsFreed
<1>8. StaysVerified'
  <2>1. SUFFICES ASSUME verified, NEW r \in Placed, placement[r].affinity = "required",
                        new.realm = r, Bound(new)
                 PROVE  StaysWithin(new, placement[r].site)
    BY <1>1, <1>2 DEF PlacementIInv, StaysVerified, Placed, StaysWithin, InSite, Bound
  <2>2. /\ policy /\ labelled[r] = placement[r]
        /\ placement[r].site # "nowhere"
    BY <2>1 DEF PlacementIInv, StaysVerified, Placed
  <2>3. labelled[r] # Nowhere
    BY <2>2 DEF Nowhere
  <2>4. new.must = Patched(new.terms, placement[r].site)
    BY <1>1, <2>1, <2>2, <2>3
  <2>5. QED
    BY <1>1, <2>4, PatchedNarrows DEF StaysWithin
<1>9. QED
  BY <1>4, <1>5, <1>6, <1>7, <1>8 DEF PlacementIInv

-----------------------------------------------------------------------------
(* Pods that are scheduled                                                 *)

(* A pod that gets a node keeps all else, and what it must have allows the *)
(* node.                                                                   *)
LEMMA ScheduleKeeps ==
    ASSUME PlacementIInv, Schedule
    PROVE  PlacementIInv'
<1>1. PICK pod \in pods, n \in PlaceNode :
          /\ pod.on = "waits" /\ Allows(pod, n)
          /\ pods' = (pods \ {pod}) \union {[pod EXCEPT !.on = n]}
          /\ UNCHANGED <<placement, policy, labelled, annotated, todo, done, verified, changes>>
  BY DEF Schedule
<1> DEFINE new == [pod EXCEPT !.on = n]
<1>2. pod \in PodType /\ n # "waits"
  BY PlacementAssumption DEF PlacementIInv, PlacementTypes
<1>3. /\ new \in PodType
      /\ new.on = n
      /\ new.realm = pod.realm /\ new.terms = pod.terms /\ new.exempt = pod.exempt
      /\ new.own = pod.own /\ new.must = pod.must /\ new.held = pod.held
      /\ new.after = pod.after /\ new.late = pod.late
  BY <1>2 DEF PodType
<1>4. pods' \subseteq pods \union {new} /\ new \in pods'
  BY <1>1
<1> HIDE DEF new
<1>5. /\ pod.must = {} \/ \E t \in pod.must : n \in t
      /\ pod.own # "nowhere" => SiteOf[n] = pod.own
  BY <1>1 DEF Allows
<1>6. PlacementTypes'
  BY <1>1, <1>3, <1>4 DEF PlacementIInv, PlacementTypes
<1>7. AskedNarrowly'
  BY <1>3, <1>4 DEF PlacementIInv, AskedNarrowly
<1>8. OnItsOwn'
  <2>1. /\ pod.terms # {} => pod.must # {}
        /\ \A t \in pod.must : pod.terms = {} \/ \E u \in pod.terms : t \subseteq u
    BY DEF PlacementIInv, AskedNarrowly
  <2>2. pod.terms # {} => \E u \in pod.terms : n \in u
    BY <1>5, <2>1
  <2>3. QED
    BY <1>3, <1>4, <1>5, <2>2 DEF PlacementIInv, OnItsOwn
<1>9. DoneIsFreed'
  BY <1>1, <1>3, <1>4 DEF PlacementIInv, DoneIsFreed
<1>10. StaysVerified'
  <2>1. SUFFICES ASSUME verified, NEW r \in Placed, placement[r].affinity = "required",
                        new.realm = r, ~new.late, Bound(new)
                 PROVE  StaysWithin(new, placement[r].site)
    BY <1>1, <1>4 DEF PlacementIInv, StaysVerified, Placed, StaysWithin, InSite, Bound
  <2>2. StaysWithin(pod, placement[r].site)
    BY <1>3, <2>1 DEF PlacementIInv, StaysVerified, Bound
  <2>3. n \in InSite(placement[r].site)
    BY <1>1, <1>5, <2>2 DEF StaysWithin
  <2>4. QED
    BY <1>2, <1>3, <2>3 DEF StaysWithin, InSite
<1>11. QED
  BY <1>6, <1>7, <1>8, <1>9, <1>10 DEF PlacementIInv

-----------------------------------------------------------------------------
(* The bundle                                                              *)

(* What is left of a run is what was left but its first step.              *)
LEMMA RemainingTail ==
    ASSUME todo \in Remaining, todo # <<>>
    PROVE  Tail(todo) \in Remaining
<1>1. CASE todo = <<"verify">>
  <2>1. Tail(<<"verify">>) = <<>>
    OBVIOUS
  <2>2. QED
    BY <1>1, <2>1 DEF Remaining
<1>2. CASE todo = <<"labels", "verify">>
  <2>1. Tail(<<"labels", "verify">>) = <<"verify">>
    OBVIOUS
  <2>2. QED
    BY <1>2, <2>1 DEF Remaining
<1>3. CASE todo = <<"policy", "labels", "verify">>
  <2>1. Tail(<<"policy", "labels", "verify">>) = <<"labels", "verify">>
    OBVIOUS
  <2>2. QED
    BY <1>3, <2>1 DEF Remaining
<1>4. QED
  BY <1>1, <1>2, <1>3 DEF Remaining

(* The check looks at whatever runs; what waits is late from then on.      *)
LEMMA VerifyKeeps ==
    ASSUME PlacementIInv, Verify
    PROVE  PlacementIInv'
<1>1. /\ UNCHANGED <<placement, policy, labelled, annotated, done, changes>>
      /\ todo' = Tail(todo) /\ todo # <<>>
      /\ pods' = {[pod EXCEPT !.late = (pod.on = "waits")] : pod \in pods}
  BY DEF Verify
<1> DEFINE After(pod) == [pod EXCEPT !.late = (pod.on = "waits")]
<1>2. ASSUME NEW pod \in pods
      PROVE  LET new == After(pod)
             IN  /\ new \in PodType
                 /\ new.late = (pod.on = "waits")
                 /\ new.realm = pod.realm /\ new.terms = pod.terms /\ new.exempt = pod.exempt
                 /\ new.own = pod.own /\ new.must = pod.must /\ new.held = pod.held
                 /\ new.after = pod.after /\ new.on = pod.on
  <2>1. pod \in PodType
    BY DEF PlacementIInv, PlacementTypes
  <2>2. QED
    BY <2>1 DEF PodType
<1>3. \A new \in pods' : \E pod \in pods :
         /\ new \in PodType
         /\ new.late = (pod.on = "waits")
         /\ new.realm = pod.realm /\ new.terms = pod.terms /\ new.exempt = pod.exempt
         /\ new.own = pod.own /\ new.must = pod.must /\ new.held = pod.held
         /\ new.after = pod.after /\ new.on = pod.on
  <2>1. TAKE new \in pods'
  <2>2. PICK pod \in pods : new = After(pod)
    BY <1>1
  <2>3. QED
    BY <1>2, <2>2
<1>4. verified' \in BOOLEAN
  BY DEF Verify
<1>5. PlacementTypes'
  BY <1>1, <1>3, <1>4, RemainingTail DEF PlacementIInv, PlacementTypes
<1>6. AskedNarrowly'
  <2>1. SUFFICES ASSUME NEW new \in pods'
                 PROVE  /\ \A t \in new.must : new.terms = {} \/ \E u \in new.terms : t \subseteq u
                        /\ new.terms # {} => new.must # {}
                        /\ new.exempt => new.must = new.terms
    BY DEF AskedNarrowly
  <2>2. QED
    BY <1>3 DEF PlacementIInv, AskedNarrowly
<1>7. OnItsOwn'
  <2>1. SUFFICES ASSUME NEW new \in pods', new.on # "waits"
                 PROVE  /\ new.terms # {} => \E t \in new.terms : new.on \in t
                        /\ new.own # "nowhere" => SiteOf[new.on] = new.own
    BY DEF OnItsOwn
  <2>2. QED
    BY <1>3, <2>1 DEF PlacementIInv, OnItsOwn
<1>8. DoneIsFreed'
  BY <1>1, <1>3 DEF PlacementIInv, DoneIsFreed
<1>9. StaysVerified'
  <2>1. SUFFICES ASSUME verified' PROVE StaysVerified'
    BY DEF StaysVerified
  <2>2. /\ policy
        /\ \A r \in Placed :
              /\ labelled[r] = placement[r]
              /\ annotated[r] = "nowhere"
              /\ placement[r].affinity = "required" => Strays(r) = {}
    BY <2>1 DEF Verify
  <2>3. ASSUME NEW r \in Placed, placement[r].affinity = "required", NEW new \in pods',
               new.realm = r, ~new.late, Bound(new)
        PROVE  StaysWithin(new, placement[r].site)
    <3>1. PICK pod \in pods :
             /\ new.late = (pod.on = "waits")
             /\ new.realm = pod.realm /\ new.exempt = pod.exempt
             /\ new.own = pod.own /\ new.held = pod.held /\ new.on = pod.on
      BY <1>3
    <3>2. pod.on # "waits" /\ Bound(pod) /\ pod.realm = r
      BY <2>3, <3>1 DEF Bound
    <3>3. SiteOf[pod.on] = placement[r].site
      BY <2>2, <2>3, <3>2 DEF Strays, Bound
    <3>4. QED
      BY <3>1, <3>2, <3>3 DEF StaysWithin
  <2>4. QED
    BY <1>1, <2>2, <2>3 DEF StaysVerified, Placed, StaysWithin, InSite, Bound
<1>10. QED
  BY <1>5, <1>6, <1>7, <1>8, <1>9 DEF PlacementIInv

(* Any other step leaves the pods that are left as they are.               *)
LEMMA OthersKeep ==
    ASSUME PlacementIInv,
           \/ DeletePod \/ Replace \/ StartPlacing \/ ApplyPolicy \/ EndLabels \/ StopPlacing
           \/ \E r \in Realm : LabelNamespace(r) \/ TakeAnnotation(r)
    PROVE  PlacementIInv'
<1>1. CASE DeletePod
  BY <1>1 DEF DeletePod, PlacementIInv, PlacementTypes, AskedNarrowly, OnItsOwn, DoneIsFreed,
              StaysVerified, Placed, StaysWithin, InSite, Bound
<1>2. CASE Replace
  <2>1. PICK r \in Realm, p \in Places :
           placement' = [placement EXCEPT ![r] = p] /\ done' = done \ {r}
    BY <1>2 DEF Replace
  <2>2. changes' \in 0..MaxPlacements
    BY <1>2, PlacementAssumption DEF Replace, PlacementIInv, PlacementTypes
  <2>3. QED
    BY <1>2, <2>1, <2>2 DEF Replace, PlacementIInv, PlacementTypes, AskedNarrowly, OnItsOwn,
                            DoneIsFreed, StaysVerified
<1>3. CASE StartPlacing \/ ApplyPolicy \/ EndLabels \/ StopPlacing
  <2>1. todo' \in Remaining
    BY <1>3, RemainingTail DEF StartPlacing, ApplyPolicy, EndLabels, StopPlacing, Remaining,
                               PlacementIInv, PlacementTypes
  <2>2. /\ policy' \in BOOLEAN /\ (policy => policy')
        /\ UNCHANGED <<placement, labelled, annotated, pods, done, verified, changes>>
    BY <1>3 DEF StartPlacing, ApplyPolicy, EndLabels, StopPlacing, PlacementIInv, PlacementTypes
  <2>3. QED
    BY <2>1, <2>2 DEF PlacementIInv, PlacementTypes, AskedNarrowly, OnItsOwn, DoneIsFreed,
                      StaysVerified, Placed, StaysWithin, InSite, Bound
<1>4. ASSUME NEW r \in Realm, LabelNamespace(r)
      PROVE  PlacementIInv'
  <2>1. /\ labelled' = [labelled EXCEPT ![r] = placement[r]]
        /\ r \in Placed /\ labelled[r] # placement[r]
        /\ UNCHANGED <<placement, policy, annotated, pods, todo, done, verified, changes>>
    BY <1>4 DEF LabelNamespace
  <2>2. ~verified
    BY <2>1 DEF PlacementIInv, StaysVerified
  <2>3. PlacementTypes'
    BY <2>1 DEF PlacementIInv, PlacementTypes, Placed
  <2>4. QED
    BY <2>1, <2>2, <2>3 DEF PlacementIInv, AskedNarrowly, OnItsOwn, DoneIsFreed, StaysVerified
<1>5. ASSUME NEW r \in Realm, TakeAnnotation(r)
      PROVE  PlacementIInv'
  BY <1>5 DEF TakeAnnotation, RemoveAnnotation, PlacementIInv, PlacementTypes, AskedNarrowly,
              OnItsOwn, DoneIsFreed, StaysVerified, Placed, StaysWithin, InSite, Bound
<1>6. QED
  BY <1>1, <1>2, <1>3, <1>4, <1>5

(* Whatever the cluster, the configuration and the bundle do keeps it.   *)
LEMMA NextPlacementIInv ==
    ASSUME PlacementIInv, [PlacementNext]_placementVars
    PROVE  PlacementIInv'
<1>1. CASE UNCHANGED placementVars
  BY <1>1 DEF placementVars, PlacementIInv, PlacementTypes, AskedNarrowly, OnItsOwn, DoneIsFreed,
              StaysVerified, Placed, StaysWithin, InSite, Bound
<1>2. QED
  BY <1>1, MakeKeeps, ScheduleKeeps, VerifyKeeps, OthersKeep DEF PlacementNext

(* What is promised of pods follows from the inductive invariant.          *)
LEMMA PlacementIInvSuffices == PlacementIInv => PlacementInv
<1> SUFFICES ASSUME PlacementIInv PROVE PlacementInv
  OBVIOUS
<1>1. PlacementTypeOK
  <2>1. \A r \in Realm : labelled[r] = Nowhere \/ labelled[r].site \in Site
    BY DEF PlacementIInv, PlacementTypes, Places
  <2>2. \A pod \in pods : pod.on \in PlaceNode \union {"waits"} /\ pod.must \subseteq SUBSET PlaceNode
    BY DEF PlacementIInv, PlacementTypes, PodType
  <2>3. Len(todo) \in 0..3
    BY DEF PlacementIInv, PlacementTypes, Remaining
  <2>4. QED
    BY <2>1, <2>2, <2>3 DEF PlacementIInv, PlacementTypes, PlacementTypeOK
<1>2. VerifiedStaysThere
  BY DEF PlacementIInv, StaysVerified, VerifiedStaysThere, Bound, StaysWithin
<1>3. OwnTermsHold
  BY DEF PlacementIInv, OnItsOwn, OwnTermsHold
<1>4. ExemptStepsOut
  <2>1. SUFFICES ASSUME NEW pod \in pods, pod.exempt, pod.after, NEW n \in PlaceNode,
                        pod.terms = {} \/ \E t \in pod.terms : n \in t,
                        pod.own \in {"nowhere", SiteOf[n]}
                 PROVE  Allows(pod, n)
    BY DEF ExemptStepsOut
  <2>2. pod.must = pod.terms /\ pod.held = "nowhere"
    BY <2>1 DEF PlacementIInv, AskedNarrowly, DoneIsFreed
  <2>3. QED
    BY <2>1, <2>2 DEF Allows
<1>5. QED
  BY <1>1, <1>2, <1>3, <1>4 DEF PlacementInv

(* Once the placement bundle's check passed, whatever pods are made or     *)
(* restarted in a placed namespace run in its region; a pod's own terms    *)
(* hold wherever it is placed; and an exempt one goes where they let it.   *)
THEOREM PlacedPodsStay == PlacementSpec => []PlacementInv
<1>1. PlacementIInv /\ [PlacementNext]_placementVars => PlacementIInv'
  BY NextPlacementIInv
<1>2. QED
  BY InitPlacementIInv, <1>1, PlacementIInvSuffices, PTL DEF PlacementSpec

-----------------------------------------------------------------------------
(* An application: that an image is never run before its migrations nor on *)
(* another's port, for any number of pipelines, repositories, restarts and *)
(* edits.                                                                  *)

(* The constants as every step below needs them.                           *)
LEMMA Constants ==
    /\ SpecPort \in Nat
    /\ MaxPipelines \in Nat \ {0}
    /\ \A n \in 0..MaxPipelines : Port[n] \in Nat
    /\ \A repo \in Repository : repo # "none"
BY PortAssumption, BoundAssumption, RepositoryAssumption

(* A release worked out for a pipeline is a release, and a pipeline behind *)
(* it is what makes it different from none.                                *)
LEMMA ReleaseForType ==
    ASSUME NEW repo \in Repository, NEW n \in Pipeline
    PROVE  ReleaseFor(repo, n) \in Release
BY Constants DEF ReleaseFor, Release, Pipeline

(* Merging a release into what was recorded gives a release.               *)
LEMMA MergedType ==
    ASSUME NEW old \in Release \union {NoRelease}, NEW new \in Release
    PROVE  Merged(old, new) \in Release
<1>1. old.digest \in 0..MaxPipelines
  BY Constants DEF Release, NoRelease
<1>2. QED
  BY <1>1 DEF Merged, Release

(* What is wanted is always an image, whichever release it is wanted for.  *)
LEMMA DesiredType ==
    ASSUME NEW repo \in Repository, NEW r \in Release \union {NoRelease}
    PROVE  DesiredImage(repo, r) \in ImageName
<1>1. CASE r.repository = repo
  <2>1. r \in Release
    BY <1>1, Constants DEF NoRelease
  <2>2. r.digest \in 0..MaxPipelines /\ r.commit \in 0..MaxPipelines
        /\ r.repository \in Repository
    BY <2>1, Constants DEF Release, Pipeline
  <2>3. QED
    BY <1>1, <2>2 DEF DesiredImage, Reference, ImageName
<1>2. CASE r.repository # repo
  BY <1>2, Constants DEF DesiredImage, ImageName
<1>3. QED
  BY <1>1, <1>2

(* Every image has a port of its own, be it 0.                             *)
LEMMA PortType ==
    ASSUME NEW i \in ImageName \union {NoImage}
    PROVE  PortOf(i) \in Nat
<1>1. i.of \in 0..MaxPipelines
  BY Constants DEF ImageName, NoImage
<1>2. QED
  BY <1>1, Constants DEF PortOf

(* Before anything has happened, nothing is run and nothing recorded.      *)
LEMMA InitIInv == Init => IInv
<1> SUFFICES ASSUME Init PROVE IInv
  OBVIOUS
<1>1. NoStatus \in StatusType
  BY DEF NoStatus, StatusType
<1>2. Idle \in PassType /\ Idle.found = FALSE
  BY DEF Idle, PassType
<1>3. newest \in 0..MaxPipelines
  BY Constants DEF Init
<1>4. TypeOK
  BY <1>1, <1>2, <1>3 DEF Init, TypeOK
<1>5. MigrationInv
  BY DEF Init, MigrationInv, NoStatus, Idle
<1>6. RunPortInv
  BY DEF Init, RunPortInv, NoStatus, Idle, RunsOnItsPort
<1>7. QED
  BY <1>4, <1>5, <1>6 DEF IInv

(* What a pass decides, out of what it reads.                              *)
LEMMA ReconcileIInv ==
    ASSUME IInv, NEW ready \in BOOLEAN, NEW checked \in BOOLEAN,
           NEW answers \in BOOLEAN, Reconcile(ready, checked, answers)
    PROVE  IInv'
<1> DEFINE seen    == cache.status
           repo    == cache.repository
           found   == checked /\ HasNews(seen)
           release == IF found THEN ReleaseFor(repo, newest) ELSE seen.release
           i       == DesiredImage(repo, release)
           run     == IF ready THEN ToRun(seen, i, answers) ELSE seen.deployed
           port    == RunPort(seen, i, run, answers)
           toServe == ServicePort(seen, i, answers)
<1>1. seen \in StatusType /\ repo \in Repository
  BY DEF IInv, TypeOK
<1>2. release \in Release \union {NoRelease} /\ (found => release \in Release)
  <2>1. CASE found
    <3>1. newest \in Pipeline
      BY <2>1, Constants DEF HasNews, IInv, TypeOK, Pipeline
    <3>2. ReleaseFor(repo, newest) \in Release
      BY <1>1, <3>1, ReleaseForType
    <3>3. QED
      BY <2>1, <3>2
  <2>2. CASE ~found
    BY <1>1, <2>2 DEF StatusType
  <2>3. QED
    BY <2>1, <2>2
<1>3. i \in ImageName
  BY <1>1, <1>2, DesiredType
<1>4. run \in {i, seen.deployed} /\ run \in ImageName \union {NoImage}
  BY <1>1, <1>3 DEF ToRun, StatusType
<1>5. PortOf(i) \in Nat /\ PortOf(run) \in Nat
  BY <1>3, <1>4, PortType
<1>6. toServe \in Nat
  BY <1>1, <1>5 DEF ServicePort, StatusType
<1>7. port \in Nat
  BY <1>1, <1>5 DEF RunPort, StatusType
<1> DEFINE ports == IF SpecPort = 0 /\ PortKnown(seen, i, answers)
                    THEN seen.imagePorts \union {i} ELSE seen.imagePorts
<1>8. ports \in SUBSET ImageName
  BY <1>1, <1>3 DEF StatusType
<1>9. pass' = [at |-> IF ready /\ run # NoImage /\ port # 0 THEN "apply" ELSE "record",
               release |-> release, found |-> found, checked |-> checked,
               desired |-> i, run |-> run, runPort |-> port, port |-> toServe,
               ports |-> ports]
  BY DEF Reconcile
<1>10. /\ job' = IF ready /\ StartsMigrations(seen, i, answers)
                  THEN [job EXCEPT ![i] = "running"] ELSE job
       /\ route' \in {toServe, route}
       /\ service' = IF ready /\ toServe # 0 THEN toServe ELSE service
       /\ troubles' \in Nat
       /\ UNCHANGED <<newest, events, handling, repository, status, cache,
                      deployment, migrated>>
  BY DEF Reconcile, Once, forge, IInv, TypeOK
<1>11. TypeOK'
  <2>1. found \in BOOLEAN
    BY DEF HasNews
  <2>2. pass' \in PassType /\ (pass'.found => pass'.release \in Release)
    <3> HIDE DEF found, release, i, run, port, toServe, ports
    <3>1. QED
      BY <1>2, <1>3, <1>4, <1>6, <1>7, <1>8, <1>9, <2>1 DEF PassType
  <2>3. job' \in [ImageName -> {"none", "running", "succeeded", "failed"}]
    <3> HIDE DEF seen, i
    <3>1. QED
      BY <1>3, <1>10 DEF IInv, TypeOK
  <2>4. route' \in Nat /\ service' \in Nat /\ troubles' \in Nat
    <3> HIDE DEF toServe
    <3>1. QED
      BY <1>6, <1>10 DEF IInv, TypeOK
  <2>5. QED
    BY <1>10, <2>2, <2>3, <2>4 DEF IInv, TypeOK
<1>12. MigrationInv'
  <2> SUFFICES ASSUME Migrations PROVE MigrationInv'
    BY DEF MigrationInv
  <2>1. run \in migrated \union {NoImage}
    BY <1>3 DEF ToRun, IInv, MigrationInv
  <2>2. pass'.run = run
    BY <1>9
  <2>3. \A k \in ImageName : job'[k] = "succeeded" => job[k] = "succeeded"
    <3> HIDE DEF seen, i
    <3>1. QED
      BY <1>3, <1>10 DEF IInv, TypeOK
  <2> HIDE DEF run
  <2>4. QED
    BY <1>10, <2>1, <2>2, <2>3 DEF IInv, MigrationInv
<1>13. RunPortInv'
  <2>1. SpecPort = 0 /\ run # NoImage => run \in ports
    <3> SUFFICES ASSUME SpecPort = 0, run # NoImage PROVE run \in ports
      OBVIOUS
    <3>1. seen.deployed # NoImage => seen.deployed \in seen.imagePorts
      BY DEF IInv, RunPortInv
    <3>2. CASE run = seen.deployed
      BY <3>1, <3>2
    <3>3. CASE run # seen.deployed
      <4>1. run = i /\ PortKnown(seen, i, answers)
        BY <3>3 DEF ToRun
      <4>2. QED
        BY <4>1
    <3>4. QED
      BY <3>2, <3>3
  <2>2. port # 0 /\ run # NoImage => port = PortOf(run)
    <3> SUFFICES ASSUME port # 0, run # NoImage PROVE port = PortOf(run)
      OBVIOUS
    <3>1. CASE run = i
      BY <3>1 DEF RunPort
    <3>2. CASE run # i
      <4>1. run = seen.deployed
        BY <1>4, <3>2
      <4>2. SpecPort # 0 \/ run \in seen.imagePorts
        BY <4>1 DEF IInv, RunPortInv
      <4>3. QED
        BY <3>2, <4>2 DEF RunPort
    <3>3. QED
      BY <3>1, <3>2
  <2>3. /\ pass'.run = run /\ pass'.ports = ports /\ pass'.runPort = port
        /\ pass'.at = "apply" => run # NoImage /\ port # 0
    BY <1>9
  <2> HIDE DEF seen, run, port, ports
  <2>4. QED
    BY <1>10, <2>1, <2>2, <2>3 DEF IInv, RunPortInv, RunsOnItsPort, PortOf
<1>14. QED
  BY <1>11, <1>12, <1>13 DEF IInv

(* What a pass writes at its end.                                          *)
LEMMA RecordIInv == ASSUME IInv, RecordStatus PROVE IInv'
<1>1. pass \in PassType /\ (pass.found => pass.release \in Release)
  BY DEF IInv, TypeOK
<1>2. status \in StatusType
  BY DEF IInv, TypeOK
<1>3. ReleaseKept \in Release \union {NoRelease}
  BY <1>1, <1>2, MergedType DEF ReleaseKept, StatusType
<1>4. /\ status' = [release |-> ReleaseKept, deployed |-> pass.run, port |-> pass.port,
                    imagePorts |-> pass.ports \intersect {pass.run, pass.desired},
                    pollDue |-> status.pollDue /\ ~pass.checked]
      /\ pass' = Idle
      /\ UNCHANGED <<newest, events, handling, repository, cache, job, route, service,
                     deployment, migrated, troubles>>
  BY DEF RecordStatus, Deployed, forge, made
<1>5. status' \in StatusType
  BY <1>1, <1>3, <1>4 DEF StatusType, PassType
<1>6. pass' \in PassType /\ pass'.found = FALSE
  BY <1>4 DEF Idle, PassType
<1>7. TypeOK'
  BY <1>4, <1>5, <1>6 DEF IInv, TypeOK
<1>8. MigrationInv'
  <2>1. status'.deployed = pass.run /\ pass'.run = NoImage
    BY <1>4 DEF Idle
  <2>2. QED
    BY <1>4, <2>1 DEF IInv, MigrationInv
<1>9. RunPortInv'
  <2>1. /\ status'.deployed = pass.run
        /\ status'.imagePorts = pass.ports \intersect {pass.run, pass.desired}
        /\ pass'.run = NoImage /\ pass'.at = "idle"
    BY <1>4 DEF Idle
  <2>2. QED
    BY <1>4, <2>1 DEF IInv, RunPortInv, RunsOnItsPort, PortOf
<1>10. QED
  BY <1>7, <1>8, <1>9 DEF IInv

(* The Deployment is given what the pass decided on.                       *)
LEMMA ApplyIInv == ASSUME IInv, ApplyDeployment PROVE IInv'
<1>1. pass \in PassType /\ (pass.found => pass.release \in Release)
  BY DEF IInv, TypeOK
<1>2. /\ pass.at = "apply"
      /\ deployment' = [image |-> pass.run, port |-> pass.runPort]
      /\ pass' = [pass EXCEPT !.at = "record"]
      /\ UNCHANGED <<newest, events, handling, repository, status, cache, job,
                     route, service, migrated, troubles>>
  BY DEF ApplyDeployment, forge
<1>3. /\ pass'.run = pass.run /\ pass'.ports = pass.ports /\ pass'.at = "record"
      /\ pass'.found = pass.found /\ pass'.release = pass.release
  BY <1>1, <1>2 DEF PassType
<1>4. TypeOK'
  <2>1. pass' \in PassType
    BY <1>1, <1>2 DEF PassType
  <2>2. deployment' \in [image : ImageName \union {NoImage}, port : Nat]
    BY <1>1, <1>2 DEF PassType
  <2>3. QED
    BY <1>2, <1>3, <2>1, <2>2 DEF IInv, TypeOK
<1>5. MigrationInv'
  BY <1>2, <1>3 DEF IInv, MigrationInv
<1>6. RunPortInv'
  BY <1>2, <1>3 DEF IInv, RunPortInv, RunsOnItsPort, PortOf
<1>7. QED
  BY <1>4, <1>5, <1>6 DEF IInv

(* Whoever ends a pass early leaves everything else as it was, except that *)
(* a restart reads the resource afresh.                                    *)
LEMMA EndedEarlyIInv == ASSUME IInv, PassFails \/ CirrusRestarts PROVE IInv'
<1>1. /\ pass' = Idle
      /\ handling' \subseteq handling
      /\ troubles' = troubles + 1
      /\ cache' \in {cache, [repository |-> repository, status |-> status]}
      /\ UNCHANGED <<newest, events, repository, status, job, route, service, deployment,
                     migrated>>
  BY DEF PassFails, CirrusRestarts, Fault, forge, made
<1>2. /\ pass' \in PassType /\ pass'.found = FALSE /\ pass'.run = NoImage
      /\ pass'.at = "idle"
  BY <1>1 DEF Idle, PassType
<1>3. cache'.status \in {cache.status, status}
  BY <1>1
<1>4. TypeOK'
  <2>1. cache' \in [repository : Repository, status : StatusType]
    BY <1>1 DEF IInv, TypeOK
  <2>2. QED
    BY <1>1, <1>2, <2>1 DEF IInv, TypeOK
<1>5. MigrationInv'
  BY <1>1, <1>2, <1>3 DEF IInv, MigrationInv
<1>6. RunPortInv'
  BY <1>1, <1>2, <1>3 DEF IInv, RunPortInv, RunsOnItsPort, PortOf
<1>7. QED
  BY <1>4, <1>5, <1>6 DEF IInv

(* The forge, the webhook, the clock, the watch and the cluster.           *)
LEMMA OutsideIInv ==
    ASSUME IInv,
           \/ PipelineSucceeds \/ MoveImage \/ Watched \/ TimePasses
           \/ \E n \in Pipeline : WebhookReads(n)
           \/ \E r \in handling : WebhookRecords(r)
    PROVE  IInv'
<1>1. CASE PipelineSucceeds
  <2>1. newest + 1 \in Pipeline /\ newest' = newest + 1
    BY <1>1, Constants DEF PipelineSucceeds, IInv, TypeOK, Pipeline
  <2>2. TypeOK'
    BY <1>1, <2>1, Constants DEF PipelineSucceeds, made, IInv, TypeOK, Pipeline
  <2>3. MigrationInv' /\ RunPortInv'
    BY <1>1 DEF PipelineSucceeds, made, IInv, MigrationInv, RunPortInv, RunsOnItsPort, PortOf
  <2>4. QED
    BY <2>2, <2>3 DEF IInv
<1>2. CASE MoveImage
  <2>1. TypeOK'
    BY <1>2 DEF MoveImage, Fault, forge, made, IInv, TypeOK
  <2>2. MigrationInv' /\ RunPortInv'
    BY <1>2 DEF MoveImage, made, IInv, MigrationInv, RunPortInv, RunsOnItsPort, PortOf
  <2>3. QED
    BY <2>1, <2>2 DEF IInv
<1>3. CASE Watched
  <2>1. cache'.status = status
    BY <1>3 DEF Watched
  <2>2. TypeOK'
    BY <1>3 DEF Watched, forge, made, IInv, TypeOK
  <2>3. MigrationInv' /\ RunPortInv'
    BY <1>3, <2>1 DEF Watched, made, IInv, MigrationInv, RunPortInv, RunsOnItsPort, PortOf
  <2>4. QED
    BY <2>2, <2>3 DEF IInv
<1>4. CASE TimePasses
  <2>1. status \in StatusType /\ cache.status \in StatusType
        /\ cache \in [repository : Repository, status : StatusType]
    BY DEF IInv, TypeOK
  <2>2. /\ status' \in StatusType /\ status'.deployed = status.deployed
        /\ status'.imagePorts = status.imagePorts
    BY <1>4, <2>1 DEF TimePasses, StatusType
  <2>3. /\ cache' \in [repository : Repository, status : StatusType]
        /\ cache'.status.deployed = cache.status.deployed
        /\ cache'.status.imagePorts = cache.status.imagePorts
    BY <1>4, <2>1 DEF TimePasses, StatusType
  <2>4. TypeOK'
    BY <1>4, <2>2, <2>3 DEF TimePasses, forge, made, IInv, TypeOK
  <2>5. MigrationInv' /\ RunPortInv'
    BY <1>4, <2>2, <2>3 DEF TimePasses, made, IInv, MigrationInv, RunPortInv,
       RunsOnItsPort, PortOf
  <2>6. QED
    BY <2>4, <2>5 DEF IInv
<1>5. ASSUME NEW n \in Pipeline, WebhookReads(n)
      PROVE  IInv'
  <2>1. ReleaseFor(repository, n) \in Release
    BY ReleaseForType DEF IInv, TypeOK
  <2>2. TypeOK'
    BY <1>5, <2>1 DEF WebhookReads, made, IInv, TypeOK
  <2>3. MigrationInv' /\ RunPortInv'
    BY <1>5 DEF WebhookReads, made, IInv, MigrationInv, RunPortInv, RunsOnItsPort, PortOf
  <2>4. QED
    BY <2>2, <2>3 DEF IInv
<1>6. ASSUME NEW r \in handling, WebhookRecords(r)
      PROVE  IInv'
  <2>1. status \in StatusType /\ r \in Release
    BY DEF IInv, TypeOK
  <2>2. Merged(status.release, r) \in Release
    BY <2>1, MergedType DEF StatusType
  <2>3. /\ status' \in StatusType /\ status'.deployed = status.deployed
        /\ status'.imagePorts = status.imagePorts
    BY <1>6, <2>1, <2>2 DEF WebhookRecords, StatusType
  <2>4. TypeOK'
    BY <1>6, <2>3 DEF WebhookRecords, forge, made, IInv, TypeOK
  <2>5. MigrationInv' /\ RunPortInv'
    BY <1>6, <2>3 DEF WebhookRecords, made, IInv, MigrationInv, RunPortInv,
       RunsOnItsPort, PortOf
  <2>6. QED
    BY <2>4, <2>5 DEF IInv
<1>7. QED
  BY <1>1, <1>2, <1>3, <1>4, <1>5, <1>6

(* A migration Job that ends, and one that is cleared away.                *)
LEMMA JobIInv ==
    ASSUME IInv, NEW i \in ImageName, JobFinishes(i) \/ JobExpires(i)
    PROVE  IInv'
<1>1. /\ UNCHANGED <<newest, events, handling, repository, status, cache, pass,
                     route, service, deployment>>
      /\ \/ job' = [job EXCEPT ![i] = "succeeded"] /\ migrated' = migrated \union {i}
         \/ job' = [job EXCEPT ![i] = "failed"] /\ migrated' = migrated
         \/ job' = [job EXCEPT ![i] = "none"] /\ migrated' = migrated
      /\ troubles' = troubles \/ troubles' = troubles + 1
  BY DEF JobFinishes, JobExpires, Fault, forge
<1>2. TypeOK'
  BY <1>1 DEF IInv, TypeOK
<1>3. MigrationInv'
  <2>1. job \in [ImageName -> {"none", "running", "succeeded", "failed"}]
    BY DEF IInv, TypeOK
  <2>2. migrated \subseteq migrated'
    BY <1>1
  <2>3. \A k \in ImageName : job'[k] = "succeeded" /\ k # i => job[k] = "succeeded"
    BY <1>1, <2>1
  <2>4. job'[i] = "succeeded" => i \in migrated'
    BY <1>1, <2>1
  <2>5. QED
    BY <1>1, <2>2, <2>3, <2>4 DEF IInv, MigrationInv
<1>4. RunPortInv'
  BY <1>1 DEF IInv, RunPortInv, RunsOnItsPort, PortOf
<1>5. QED
  BY <1>2, <1>3, <1>4 DEF IInv

(* No step breaks the invariant.                                           *)
LEMMA NextIInv == IInv /\ [Next]_vars => IInv'
<1> SUFFICES ASSUME IInv, [Next]_vars PROVE IInv'
  OBVIOUS
<1>1. CASE Outside
  <2>1. CASE \E i \in ImageName : JobExpires(i)
    BY <2>1, JobIInv
  <2>2. CASE PassFails \/ CirrusRestarts
    BY <2>2, EndedEarlyIInv
  <2>3. QED
    BY <1>1, <2>1, <2>2, OutsideIInv DEF Outside
<1>2. CASE Work
  BY <1>2, ReconcileIInv, ApplyIInv, RecordIInv DEF Work
<1>3. CASE Watched \/ TimePasses
  BY <1>3, OutsideIInv
<1>4. CASE \E i \in ImageName : JobFinishes(i)
  BY <1>4, JobIInv
<1>5. CASE UNCHANGED vars
  <2>1. TypeOK'
    BY <1>5 DEF vars, IInv, TypeOK
  <2>2. MigrationInv' /\ RunPortInv'
    BY <1>5 DEF vars, IInv, MigrationInv, RunPortInv, RunsOnItsPort, PortOf
  <2>3. QED
    BY <2>1, <2>2 DEF IInv
<1>6. QED
  BY <1>1, <1>2, <1>3, <1>4, <1>5 DEF Next

(* The invariant holds throughout, whatever goes wrong and however often:  *)
(* every copy of the status records as deployed only what may be run.      *)
THEOREM Invariance == Spec => []IInv
BY InitIInv, NextIInv, PTL DEF Spec

(* The values the operator keeps and writes are of the types the resource  *)
(* declares.                                                               *)
THEOREM TypeCorrect == Spec => []TypeOK
<1>1. IInv => TypeOK
  BY DEF IInv
<1>2. QED
  BY <1>1, Invariance, PTL

(* No image is ever run on a database its migrations haven't been run on   *)
(* (reconcile/migrations.rs and the rollout in reconcile/mod.rs).          *)
THEOREM MigratedBeforeRun == Spec => []MigratedFirst
<1>1. IInv => MigratedFirst
  BY DEF IInv, MigrationInv, MigratedFirst
<1>2. QED
  BY <1>1, Invariance, PTL

(* No image is ever run on the port of another (run_port in mod.rs).       *)
THEOREM RunOnItsOwnPort == Spec => []RunsOnItsPort
<1>1. IInv => RunsOnItsPort
  BY DEF IInv, RunPortInv
<1>2. QED
  BY <1>1, Invariance, PTL
-----------------------------------------------------------------------------
(* The schema stays back, because every list of ports that is kept names   *)
(* only images whose port is known: in the resource, in the operator's     *)
(* copy of it, and in the pass under way.                                  *)
KnownPorts ==
    \A i \in status.imagePorts \union cache.status.imagePorts \union pass.ports : PortOf(i) # 0

SchemaInv == KnownPorts /\ SchemaStaysBack

(* A port that a pass can tell is a port.                                  *)
LEMMA KnownIsSome ==
    ASSUME KnownPorts, NEW i, NEW answers, PortKnown(cache.status, i, answers)
    PROVE  PortOf(i) # 0
BY DEF PortKnown, PortOf, KnownPorts

(* What a pass takes down and starts keeps to that.                        *)
LEMMA ReconcileSchema ==
    ASSUME IInv, SchemaInv, NEW ready \in BOOLEAN, NEW checked \in BOOLEAN,
           NEW answers \in BOOLEAN, Reconcile(ready, checked, answers)
    PROVE  SchemaInv'
<1> DEFINE seen    == cache.status
           repo    == cache.repository
           found   == checked /\ HasNews(seen)
           release == IF found THEN ReleaseFor(repo, newest) ELSE seen.release
           i       == DesiredImage(repo, release)
           ports   == IF SpecPort = 0 /\ PortKnown(seen, i, answers)
                      THEN seen.imagePorts \union {i} ELSE seen.imagePorts
<1>1. /\ job' = IF ready /\ StartsMigrations(seen, i, answers)
                 THEN [job EXCEPT ![i] = "running"] ELSE job
      /\ pass'.ports = ports
      /\ UNCHANGED <<status, cache>>
  BY DEF Reconcile
<1>2. \A k \in ports : PortOf(k) # 0
  BY KnownIsSome DEF SchemaInv, KnownPorts
<1>3. KnownPorts'
  <2> HIDE DEF ports
  <2>1. QED
    BY <1>1, <1>2 DEF SchemaInv, KnownPorts, PortOf
<1>4. SchemaStaysBack'
  <2>1. job \in [ImageName -> {"none", "running", "succeeded", "failed"}]
    BY DEF IInv, TypeOK
  <2>2. StartsMigrations(seen, i, answers) => PortOf(i) # 0
    BY KnownIsSome DEF StartsMigrations, SchemaInv
  <2> HIDE DEF seen, i
  <2>3. \A k \in ImageName : job'[k] # "none" => PortOf(k) # 0
    BY <1>1, <2>1, <2>2 DEF SchemaInv, SchemaStaysBack
  <2>4. QED
    BY <2>3 DEF SchemaStaysBack, PortOf
<1>5. QED
  BY <1>3, <1>4 DEF SchemaInv

(* The other steps start nothing, and pass the lists on or shorten them.   *)
LEMMA OthersSchema ==
    ASSUME IInv, SchemaInv, [Next]_vars,
           ~ \E ready, checked, answers \in BOOLEAN : Reconcile(ready, checked, answers)
    PROVE  SchemaInv'
<1>1. /\ status \in StatusType /\ pass \in PassType
      /\ cache \in [repository : Repository, status : StatusType]
      /\ job \in [ImageName -> {"none", "running", "succeeded", "failed"}]
  BY DEF IInv, TypeOK
<1>2. /\ status'.imagePorts \subseteq status.imagePorts \union pass.ports
      /\ cache'.status.imagePorts \subseteq cache.status.imagePorts \union status.imagePorts
      /\ pass'.ports \subseteq pass.ports
      /\ \A i \in ImageName : job[i] = "none" => job'[i] = "none"
  <2>1. CASE ApplyDeployment
    BY <1>1, <2>1 DEF ApplyDeployment, forge, PassType
  <2>2. CASE RecordStatus
    BY <2>2 DEF RecordStatus, Idle, forge, made
  <2>3. CASE PassFails \/ CirrusRestarts
    BY <2>3 DEF PassFails, CirrusRestarts, Idle, forge, made
  <2>4. CASE PipelineSucceeds \/ MoveImage \/ Watched \/ \E n \in Pipeline : WebhookReads(n)
    BY <2>4 DEF PipelineSucceeds, MoveImage, Watched, WebhookReads, forge, made
  <2>5. CASE TimePasses \/ \E r \in handling : WebhookRecords(r)
    BY <1>1, <2>5 DEF TimePasses, WebhookRecords, forge, made, StatusType
  <2>6. CASE \E i \in ImageName : JobFinishes(i) \/ JobExpires(i)
    BY <1>1, <2>6 DEF JobFinishes, JobExpires, forge
  <2>7. CASE UNCHANGED vars
    BY <2>7 DEF vars
  <2>8. QED
    BY <2>1, <2>2, <2>3, <2>4, <2>5, <2>6, <2>7 DEF Next, Outside, Work
<1>3. QED
  BY <1>2 DEF SchemaInv, KnownPorts, SchemaStaysBack, PortOf

(* Migrations are only ever started for an image whose port is known, so   *)
(* the schema doesn't move ahead of one that can't be run                  *)
(* (reconcile/mod.rs, where the port comes before the migrations).         *)
THEOREM SchemaBehind == Spec => []SchemaStaysBack
<1>1. Init => SchemaInv
  BY DEF Init, SchemaInv, KnownPorts, SchemaStaysBack, NoStatus, Idle
<1>2. IInv /\ SchemaInv /\ [Next]_vars => SchemaInv'
  BY ReconcileSchema, OthersSchema
<1>3. SchemaInv => SchemaStaysBack
  BY DEF SchemaInv
<1>4. QED
  BY <1>1, <1>2, <1>3, Invariance, PTL DEF Spec

(* A pass that found nothing new writes the release back as it finds it,   *)
(* so that one the webhook wrote meanwhile is kept (reconcile/mod.rs).     *)
THEOREM WebhookKept == Spec => NothingDropped
<1> DEFINE LeftAlone == pass.at = "record" /\ pass'.at = "idle" /\ ~pass.found =>
                      status'.release = status.release
<1>1. ASSUME [Next]_vars PROVE LeftAlone
  <2>1. CASE RecordStatus
    BY <2>1 DEF RecordStatus, ReleaseKept
  <2>2. CASE PassFails \/ CirrusRestarts
    BY <2>2 DEF PassFails, CirrusRestarts
  <2>3. CASE ApplyDeployment \/ \E ready, checked, answers \in BOOLEAN : Reconcile(ready, checked, answers)
    BY <2>3 DEF ApplyDeployment, Reconcile
  <2>4. CASE \/ PipelineSucceeds \/ MoveImage \/ Watched \/ TimePasses
             \/ \E n \in Pipeline : WebhookReads(n)
             \/ \E r \in handling : WebhookRecords(r)
    BY <2>4 DEF PipelineSucceeds, MoveImage, Watched, TimePasses, WebhookReads, WebhookRecords
  <2>5. CASE \E i \in ImageName : JobFinishes(i) \/ JobExpires(i)
    BY <2>5 DEF JobFinishes, JobExpires
  <2>6. CASE UNCHANGED vars
    BY <2>6 DEF vars
  <2>7. QED
    BY <1>1, <2>1, <2>2, <2>3, <2>4, <2>5, <2>6 DEF Next, Outside, Work
<1>2. QED
  BY <1>1, PTL DEF Spec, NothingDropped
=============================================================================
