------------------------- MODULE DependenciesProofs -------------------------
(***************************************************************************)
(* What Dependencies states of what an application depends on, proved for  *)
(* any number of applications, of whatever names, and however often they   *)
(* are edited, deleted and made again while passes fail.                   *)
(***************************************************************************)
EXTENDS Dependencies, TLAPS

-----------------------------------------------------------------------------
(* The inductive invariant                                                 *)

PassType ==
    [at : Step, seen : AppType, password : Nat, missing : BOOLEAN,
     hook : Project \union {NoProject}]

\* Nothing is rolled out yet for a life to come.
Lives(a) == deployment[a].owner <= app[a].life

\* A pass is over an application that is there, and held by its finalizer.
HeldInPass(a) == pass[a].at # "idle" => app[a].there /\ app[a].finalizer

\* A pass is at a step of its plan, which goes by what it saw.
Planned(asks) ==
    {"hook", "roll out", "record"}
    \union (IF "postgres" \in asks THEN {"postgres", "role"} ELSE {})
    \union (IF "bucket" \in asks THEN {"bucket"} ELSE {})
    \union (IF "rabbitmq" \in asks THEN {"rabbitmq", "copy"} ELSE {})

OnPlan(a) ==
    pass[a].at \in {"idle", "remove", "unhook", "let go"} \union Planned(pass[a].seen.asks)

\* What an application asks for is given to it, and isn't kept from it.
Ready(a, s) == <<a, s>> \notin blocked /\ Given(a, s)

\* The steps after a service's last.
Beyond(s) ==
    {"hook", "roll out", "record"}
    \union (IF s = "rabbitmq" THEN {} ELSE {"rabbitmq", "copy"})
    \union (IF s = "postgres" THEN {"bucket"} ELSE {})

\* A pass that has missed nothing so far has seen to all the steps behind it.
SeenTo(a) ==
    /\ ~pass[a].missing => \A s \in pass[a].seen.asks : pass[a].at \in Beyond(s) => Ready(a, s)
    /\ pass[a].at = "role" => <<a, "postgres">> \notin blocked
    /\ pass[a].at = "copy" => <<a, "rabbitmq">> \notin blocked

Loaded(a) ==
    app[a].there /\ deployment[a].owner = app[a].life =>
        \A s \in deployment[a].loads : Ready(a, s)

AppInv(a) ==
    /\ Lives(a)
    /\ HeldInPass(a)
    /\ OnPlan(a)
    /\ SeenTo(a)
    /\ Loaded(a)

\* Whoever shares the name and has yet to remove what is there.
Keeper(b, n) ==
    /\ SharedName(b) = n
    /\ app[b].there /\ app[b].finalizer
    /\ pass[b].at \notin {"unhook", "let go"}

\* What there is in RabbitMQ some finalizer will still remove.
Kept == \A n \in SharedNames : objects[n] # {} => \E b \in App : Keeper(b, n)

DependenciesIInv ==
    /\ TypeOK
    /\ Kept
    /\ \A a \in App : AppInv(a)

-----------------------------------------------------------------------------
(* The steps of a pass                                                     *)

(* A pass begins with, and goes on to, a step of its plan, and leaves out  *)
(* nothing it asks for.                                                    *)
LEMMA FirstOnPlan ==
    ASSUME NEW asks
    PROVE  /\ FirstStep(asks) \in Planned(asks) \ {"role", "copy"}
           /\ \A s \in asks \intersect Service : FirstStep(asks) \notin Beyond(s)
BY DEF FirstStep, FromBucket, FromRabbitMQ, Planned, Beyond, Service

(* After a step comes another of the plan.                               *)
LEMMA AfterOnPlan ==
    ASSUME NEW asks, NEW at \in Planned(asks) \ {"record"}
    PROVE  /\ After(at, asks) \in Planned(asks)
           /\ After(at, asks) = "role" => at = "postgres"
           /\ After(at, asks) = "copy" => at = "rabbitmq"
           /\ \A s \in asks \intersect Service :
                 After(at, asks) \in Beyond(s) =>
                    \/ at \in Beyond(s)
                    \/ s = "postgres" /\ at = "role"
                    \/ s = "bucket" /\ at = "bucket"
                    \/ s = "rabbitmq" /\ at = "copy"
<1>1. at \in {"postgres", "role", "bucket", "rabbitmq", "copy", "hook", "roll out"}
  BY DEF Planned
<1>2. CASE at = "postgres"
  BY <1>2 DEF After, Planned, Beyond, Service
<1>3. CASE at = "role"
  BY <1>3 DEF After, FromBucket, FromRabbitMQ, Planned, Beyond, Service
<1>4. CASE at = "bucket"
  BY <1>4 DEF After, FromRabbitMQ, Planned, Beyond, Service
<1>5. CASE at = "rabbitmq"
  BY <1>5 DEF After, Planned, Beyond, Service
<1>6. CASE at \in {"copy", "hook", "roll out"}
  BY <1>6 DEF After, Planned, Beyond, Service
<1>7. QED
  BY <1>1, <1>2, <1>3, <1>4, <1>5, <1>6

(* A pass goes by a plan that has only steps there are.                    *)
LEMMA PlanType ==
    ASSUME NEW asks
    PROVE  Planned(asks) \subseteq Step
BY DEF Planned, Step

-----------------------------------------------------------------------------
(* What a step leaves alone                                                *)

\* What one application's part of a step doesn't touch of another's.
Untouched(b) ==
    /\ app'[b] = app[b] /\ pass'[b] = pass[b] /\ secret'[b] = secret[b]
    /\ database'[b] = database[b] /\ bucket'[b] = bucket[b]
    /\ collected'[b] = collected[b] /\ deployment'[b] = deployment[b]

\* Blocks are only lifted.
Onwards == blocked' \subseteq blocked

\* What was given to an application isn't taken back.
NoneTaken(a) == \A s : Given(a, s) => Given(a, s)'

(* What is ready stays ready.                                              *)
LEMMA ReadyStays ==
    ASSUME NEW a \in App, NEW s, Ready(a, s), Onwards, NoneTaken(a)
    PROVE  Ready(a, s)'
BY DEF Ready, Onwards, NoneTaken

(* Whoever lives on and whose Secrets, database and bucket stay is taken   *)
(* nothing from.                                                           *)
LEMMA SameGiven ==
    ASSUME NEW a \in App, app'[a].life = app[a].life, database'[a] = database[a],
           bucket'[a] = bucket[a], collected'[a] = collected[a],
           \A k \in {"postgres", "s3", "rabbitmq"} : secret'[a][k] = secret[a][k]
    PROVE  NoneTaken(a)
BY DEF NoneTaken, Given

(* An application no part of whose state changes keeps its invariant.    *)
LEMMA OthersStay ==
    ASSUME NEW b \in App, AppInv(b), Untouched(b), Onwards
    PROVE  AppInv(b)'
<1>1. Lives(b)' /\ HeldInPass(b)' /\ OnPlan(b)'
  BY DEF AppInv, Untouched, Lives, HeldInPass, OnPlan
<1>2. \A s : Ready(b, s) => Ready(b, s)'
  <2>1. NoneTaken(b)
    BY SameGiven DEF Untouched
  <2> QED
    BY <2>1, ReadyStays
<1>3. SeenTo(b)'
  BY <1>2 DEF AppInv, Untouched, SeenTo, Onwards
<1>4. Loaded(b)'
  BY <1>2 DEF AppInv, Untouched, Loaded
<1>5. QED
  BY <1>1, <1>3, <1>4 DEF AppInv

(* Who would remove what is there still does, where nothing is made and    *)
(* nobody goes.                                                            *)
LEMMA KeptStays ==
    ASSUME Kept, NEW a \in App, objects' = objects,
           \A b \in App \ {a} : app'[b] = app[b] /\ pass'[b] = pass[b],
           Keeper(a, SharedName(a)) => Keeper(a, SharedName(a))'
    PROVE  Kept'
<1>1. SUFFICES ASSUME NEW n \in SharedNames, objects'[n] # {}
               PROVE  \E b \in App : Keeper(b, n)'
  BY DEF Kept
<1>2. PICK b \in App : Keeper(b, n)
  BY <1>1 DEF Kept
<1>3. Keeper(b, n)'
  <2>1. CASE b = a
    BY <1>2, <2>1 DEF Keeper
  <2>2. CASE b # a
    BY <1>2, <2>2 DEF Keeper
  <2>3. QED
    BY <2>1, <2>2
<1>4. QED
  BY <1>3

(* A step over one application that makes and removes nothing in RabbitMQ  *)
(* has to answer for that application only.                                *)
LEMMA OneAppsStep ==
    ASSUME DependenciesIInv, NEW a \in App, TypeOK', AppInv(a)',
           blocked' \subseteq blocked, UNCHANGED objects,
           \A b \in App \ {a} : Untouched(b),
           Keeper(a, SharedName(a)) => Keeper(a, SharedName(a))'
    PROVE  DependenciesIInv'
<1>1. Onwards
  BY DEF Onwards
<1>2. \A b \in App : AppInv(b)'
  <2>1. TAKE b \in App
  <2>2. CASE b = a
    BY <2>2
  <2>3. CASE b # a
    BY <1>1, <2>3, OthersStay DEF DependenciesIInv
  <2>4. QED
    BY <2>2, <2>3
<1>3. Kept'
  BY KeptStays DEF DependenciesIInv, Untouched
<1>4. QED
  BY <1>2, <1>3 DEF DependenciesIInv

-----------------------------------------------------------------------------
(* The person                                                              *)

(* What an application is when it is made, and when it has gone.           *)
LEMMA FreshType ==
    ASSUME NEW a \in App
    PROVE  /\ Fresh(a) \in AppType
           /\ Fresh(a).life = 1 /\ Fresh(a).there /\ ~Fresh(a).finalizer
<1>1. Asked[a].asks \in SUBSET Service /\ Asked[a].project \in Project \union {NoProject}
  BY AskedAssumption
<1>2. 1 \in Life
  BY BoundAssumption DEF Life
<1>3. QED
  BY <1>1, <1>2 DEF Fresh, AppType

(* An application that has gone keeps its count of lives.                *)
LEMMA GoneType ==
    ASSUME TypeOK, NEW a \in App
    PROVE  /\ Gone(a) \in AppType
           /\ Gone(a).life = app[a].life /\ ~Gone(a).there
<1>1. Fresh(a) \in AppType /\ app[a].life \in Life
  BY FreshType DEF TypeOK, AppType
<1>2. QED
  BY <1>1 DEF Gone, AppType

(* Between passes there is nothing seen, made or missed.                 *)
LEMMA IdleType ==
    ASSUME NEW a \in App
    PROVE  Idle(a) \in PassType /\ Idle(a).at = "idle" /\ Idle(a).seen = Fresh(a) /\ ~Idle(a).missing
BY FreshType DEF Idle, PassType, Step

(* A person leaves an application that its finalizer holds where it is.    *)
LEMMA PersonKeeps ==
    ASSUME DependenciesIInv, NEW a \in App, NEW new \in AppType, Person(a, new),
           \/ new.life = app[a].life /\ (new.there => app[a].there)
           \/ app[a].life < new.life /\ ~app[a].there,
           app[a].there /\ app[a].finalizer => new.there /\ new.finalizer
    PROVE  DependenciesIInv'
<1>1. /\ edits' = edits + 1 /\ app' = [app EXCEPT ![a] = new]
      /\ UNCHANGED <<blocked, pass, secret, cluster, database, inPostgres,
                     bucket, collected, objects, users,
                     credentials, hook, deployment, copies, faults>>
  BY DEF Person, buckets, postgres, rabbitmq, run
<1>2. /\ app' \in [App -> AppType] /\ app'[a] = new
      /\ \A b \in App \ {a} : app'[b] = app[b]
  BY <1>1 DEF DependenciesIInv, TypeOK
<1>3. TypeOK'
  BY <1>1, <1>2 DEF DependenciesIInv, TypeOK
<1>4. AppInv(a)'
  <2>1. TypeOK /\ AppInv(a)
    BY DEF DependenciesIInv
  <2>2. /\ app[a].life \in Nat /\ new.life \in Nat /\ deployment[a].owner \in Nat
        /\ deployment[a].owner <= app[a].life
    BY <2>1, BoundAssumption DEF TypeOK, AppType, Life, AppInv, Lives
  <2>3. Lives(a)' /\ HeldInPass(a)' /\ OnPlan(a)'
    <3>1. app[a].life <= new.life
      BY <2>2
    <3>2. Lives(a)'
      BY <1>1, <1>2, <2>2, <3>1 DEF Lives
    <3>3. HeldInPass(a)'
      BY <1>1, <1>2, <2>1 DEF AppInv, HeldInPass
    <3>4. OnPlan(a)'
      BY <1>1, <2>1 DEF AppInv, OnPlan
    <3> QED
      BY <3>2, <3>3, <3>4
  <2>4. CASE new.life = app[a].life /\ (new.there => app[a].there)
    <3>1. \A s : Ready(a, s) => Ready(a, s)'
      BY <1>1, <1>2, <2>4, SameGiven, ReadyStays DEF Onwards
    <3>2. SeenTo(a)' /\ Loaded(a)'
      BY <1>1, <1>2, <2>1, <2>4, <3>1 DEF AppInv, SeenTo, Loaded
    <3> QED
      BY <2>3, <3>2 DEF AppInv
  <2>5. CASE app[a].life < new.life /\ ~app[a].there
    <3>1. pass'[a].at = "idle" /\ deployment'[a].owner # app'[a].life
      BY <1>1, <1>2, <2>1, <2>2, <2>5 DEF AppInv, HeldInPass
    <3>2. SeenTo(a)' /\ Loaded(a)'
      BY <3>1 DEF SeenTo, Loaded, Beyond
    <3> QED
      BY <2>3, <3>2 DEF AppInv
  <2> QED
    BY <2>4, <2>5
<1>5. Keeper(a, SharedName(a)) => Keeper(a, SharedName(a))'
  BY <1>1, <1>2 DEF Keeper
<1>6. \A b \in App \ {a} : Untouched(b)
  BY <1>1, <1>2 DEF Untouched
<1>7. QED
  BY <1>1, <1>3, <1>4, <1>5, <1>6, OneAppsStep

(* Whatever a person does keeps the invariant.                           *)
LEMMA PersonsKeep ==
    ASSUME DependenciesIInv, NEW a \in App, Edit(a) \/ Delete(a) \/ MakeAgain(a)
    PROVE  DependenciesIInv'
<1>1. app[a] \in AppType /\ app[a].life \in Nat /\ MaxLives \in Nat
  BY BoundAssumption DEF DependenciesIInv, TypeOK, AppType, Life
<1>2. ASSUME NEW s, Person(a, [app[a] EXCEPT !.asks = app[a].asks \ {s}])
      PROVE  DependenciesIInv'
  <2> DEFINE new == [app[a] EXCEPT !.asks = app[a].asks \ {s}]
  <2>1. /\ new \in AppType /\ new.life = app[a].life
        /\ new.there = app[a].there /\ new.finalizer = app[a].finalizer
    BY <1>1 DEF AppType
  <2>2. Person(a, new)
    BY <1>2
  <2> HIDE DEF new
  <2>3. QED
    BY <1>1, <2>1, <2>2, PersonKeeps
<1>3. ASSUME NEW p \in Project \union {NoProject}, Person(a, [app[a] EXCEPT !.project = p])
      PROVE  DependenciesIInv'
  <2> DEFINE new == [app[a] EXCEPT !.project = p]
  <2>1. /\ new \in AppType /\ new.life = app[a].life
        /\ new.there = app[a].there /\ new.finalizer = app[a].finalizer
    BY <1>1 DEF AppType
  <2>2. Person(a, new)
    BY <1>3
  <2> HIDE DEF new
  <2>3. QED
    BY <1>1, <2>1, <2>2, PersonKeeps
<1>4. CASE Delete(a)
  <2> DEFINE marked == [app[a] EXCEPT !.deleting = TRUE]
             new == IF app[a].finalizer THEN marked ELSE Gone(a)
  <2>1. /\ marked \in AppType /\ marked.life = app[a].life
        /\ marked.there = app[a].there /\ marked.finalizer = app[a].finalizer
    BY <1>1 DEF AppType
  <2>2. Gone(a) \in AppType /\ Gone(a).life = app[a].life /\ ~Gone(a).there
    BY GoneType DEF DependenciesIInv
  <2>3. Person(a, new)
    BY <1>4 DEF Delete
  <2> HIDE DEF marked
  <2>4. /\ new \in AppType /\ new.life = app[a].life /\ (new.there => app[a].there)
        /\ app[a].there /\ app[a].finalizer => new.there /\ new.finalizer
    BY <1>1, <2>1, <2>2
  <2> HIDE DEF new
  <2>5. QED
    BY <2>3, <2>4, PersonKeeps
<1>5. CASE MakeAgain(a)
  <2> DEFINE new == [Fresh(a) EXCEPT !.life = app[a].life + 1]
  <2>1. ~app[a].there /\ app[a].life < MaxLives /\ Person(a, new)
    BY <1>5 DEF MakeAgain
  <2>2. app[a].life + 1 \in Life /\ app[a].life < app[a].life + 1
    BY <1>1, <2>1 DEF AppType, Life
  <2>3. new \in AppType /\ app[a].life < new.life
    BY <2>2, FreshType DEF AppType
  <2> HIDE DEF new
  <2>4. QED
    BY <2>1, <2>3, PersonKeeps
<1>6. QED
  BY <1>2, <1>3, <1>4, <1>5 DEF Edit

-----------------------------------------------------------------------------
(* The pass                                                                *)

(* A pass past a step, and with what more it has missed.                   *)
LEMMA PastType ==
    ASSUME TypeOK, NEW a \in App, NEW at \in Planned(pass[a].seen.asks) \ {"record"},
           NEW missing \in BOOLEAN
    PROVE  LET past == Past(a, at)
               new == [past EXCEPT !.missing = missing]
           IN  /\ past \in PassType /\ new \in PassType
               /\ past.missing = pass[a].missing /\ new.missing = missing
               /\ \A r \in {past, new} :
                     /\ r.at = After(at, pass[a].seen.asks) /\ r.seen = pass[a].seen
                     /\ r.password = pass[a].password /\ r.hook = pass[a].hook
<1> DEFINE next == After(at, pass[a].seen.asks)
<1>1. pass[a] \in PassType
  BY DEF TypeOK, PassType
<1>2. next \in Step
  BY AfterOnPlan, PlanType
<1> HIDE DEF next
<1> DEFINE past == [pass[a] EXCEPT !.at = next]
           new == [past EXCEPT !.missing = missing]
<1>3. /\ past \in PassType /\ past.missing = pass[a].missing
      /\ past.at = next /\ past.seen = pass[a].seen
      /\ past.password = pass[a].password /\ past.hook = pass[a].hook
  BY <1>1, <1>2 DEF PassType
<1>4. past = Past(a, at)
  BY DEF Past, next
<1> HIDE DEF past
<1>5. /\ new \in PassType /\ new.missing = missing
      /\ new.at = past.at /\ new.seen = past.seen
      /\ new.password = past.password /\ new.hook = past.hook
  BY <1>3 DEF PassType
<1> HIDE DEF new
<1>6. QED
  BY <1>3, <1>4, <1>5 DEF next, new

(* A pass changes, and no other does.                                    *)
LEMMA PassMoves ==
    ASSUME TypeOK, NEW a \in App, NEW new \in PassType, pass' = [pass EXCEPT ![a] = new]
    PROVE  /\ pass' \in [App -> PassType] /\ pass'[a] = new
           /\ \A b \in App \ {a} : pass'[b] = pass[b]
<1>1. pass \in [App -> PassType]
  BY DEF TypeOK, PassType
<1>2. QED
  BY <1>1

(* A pass that ends leaves its application to its finalizer.               *)
LEMMA StopType ==
    ASSUME TypeOK, NEW a \in App, Stop(a)
    PROVE  /\ pass' \in [App -> PassType]
           /\ \A b \in App \ {a} : pass'[b] = pass[b]
           /\ pass'[a].at = "idle" /\ ~pass'[a].missing
<1>1. pass \in [App -> PassType]
  BY DEF TypeOK, PassType
<1>2. QED
  BY <1>1, IdleType DEF Stop

(* An idle pass has seen to nothing.                                       *)
LEMMA IdleSeenTo ==
    ASSUME NEW a \in App, pass[a].at = "idle"
    PROVE  OnPlan(a) /\ SeenTo(a) /\ HeldInPass(a)
BY DEF OnPlan, SeenTo, HeldInPass, Beyond

\* What a pass leaves ready when it goes on from the last step of a service.
IsReady(a, at) ==
    /\ at = "role" => Ready(a, "postgres")
    /\ at = "bucket" => Ready(a, "bucket")
    /\ at = "copy" => Ready(a, "rabbitmq")

(* What a pass that goes on to the next step of its plan owes: that the    *)
(* step it leaves was seen to, or counts as missed.                        *)
LEMMA SeenToNext ==
    ASSUME DependenciesIInv, NEW a \in App, NEW at \in Planned(pass[a].seen.asks) \ {"record"},
           pass[a].at = at \/ (pass[a].at = "postgres" /\ at = "role" /\ pass'[a].missing)
                           \/ (pass[a].at = "rabbitmq" /\ at = "copy" /\ pass'[a].missing),
           Onwards, NoneTaken(a),
           pass'[a].seen = pass[a].seen, pass'[a].at = After(at, pass[a].seen.asks),
           pass'[a].missing \in BOOLEAN, pass[a].missing => pass'[a].missing,
           at = "postgres" => <<a, "postgres">> \notin blocked,
           at = "rabbitmq" => <<a, "rabbitmq">> \notin blocked,
           ~pass'[a].missing => IsReady(a, at)'
    PROVE  OnPlan(a)' /\ SeenTo(a)'
<1> DEFINE asks == pass[a].seen.asks
<1>1. asks \subseteq Service /\ pass[a].missing \in BOOLEAN
  BY DEF DependenciesIInv, TypeOK, AppType
<1>2. /\ After(at, asks) \in Planned(asks)
      /\ After(at, asks) = "role" => at = "postgres"
      /\ After(at, asks) = "copy" => at = "rabbitmq"
      /\ \A s \in asks \intersect Service :
            After(at, asks) \in Beyond(s) =>
               \/ at \in Beyond(s)
               \/ s = "postgres" /\ at = "role"
               \/ s = "bucket" /\ at = "bucket"
               \/ s = "rabbitmq" /\ at = "copy"
  BY AfterOnPlan
<1>3. OnPlan(a)'
  BY <1>2 DEF OnPlan
<1>4. \A s : Ready(a, s) => Ready(a, s)'
  BY ReadyStays
<1>5. ~pass'[a].missing => \A s \in asks : After(at, asks) \in Beyond(s) => Ready(a, s)'
  <2>1. SUFFICES ASSUME ~pass'[a].missing, NEW s \in asks, After(at, asks) \in Beyond(s)
                 PROVE  Ready(a, s)'
    OBVIOUS
  <2>2. ~pass[a].missing /\ pass[a].at = at
    BY <1>1, <2>1
  <2>3. CASE at \in Beyond(s)
    BY <1>4, <2>1, <2>2, <2>3 DEF DependenciesIInv, AppInv, SeenTo
  <2>4. CASE at \notin Beyond(s)
    BY <1>1, <1>2, <2>1, <2>4 DEF IsReady
  <2> QED
    BY <2>3, <2>4
<1>6. /\ After(at, asks) = "role" => <<a, "postgres">> \notin blocked'
      /\ After(at, asks) = "copy" => <<a, "rabbitmq">> \notin blocked'
  BY <1>2 DEF Onwards
<1>7. QED
  BY <1>2, <1>3, <1>5, <1>6 DEF SeenTo

(* A pass that goes on to the next step of its plan, having made no more   *)
(* than Secrets and other operators' orders.                               *)
LEMMA GoesOn ==
    ASSUME DependenciesIInv, NEW a \in App, NEW at \in Planned(pass[a].seen.asks) \ {"record"},
           pass[a].at = at \/ (pass[a].at = "postgres" /\ at = "role" /\ pass'[a].missing)
                           \/ (pass[a].at = "rabbitmq" /\ at = "copy" /\ pass'[a].missing),
           Onwards, NoneTaken(a), UNCHANGED <<app, deployment>>,
           pass'[a].seen = pass[a].seen, pass'[a].at = After(at, pass[a].seen.asks),
           pass'[a].missing \in BOOLEAN, pass[a].missing => pass'[a].missing,
           at = "postgres" => <<a, "postgres">> \notin blocked,
           at = "rabbitmq" => <<a, "rabbitmq">> \notin blocked,
           ~pass'[a].missing => IsReady(a, at)'
    PROVE  AppInv(a)' /\ (Keeper(a, SharedName(a)) => Keeper(a, SharedName(a))')
<1>1. OnPlan(a)' /\ SeenTo(a)'
  BY SeenToNext
<1>2. Lives(a)' /\ HeldInPass(a)'
  BY DEF DependenciesIInv, AppInv, Lives, HeldInPass, Planned
<1>3. Loaded(a)'
  BY ReadyStays DEF DependenciesIInv, AppInv, Loaded
<1>4. Keeper(a, SharedName(a)) => Keeper(a, SharedName(a))'
  <2>1. pass'[a].at \in Planned(pass[a].seen.asks)
    BY AfterOnPlan
  <2>2. QED
    BY <2>1 DEF Keeper, Planned
<1>5. QED
  BY <1>1, <1>2, <1>3, <1>4 DEF AppInv

(* A pass over a finalizer-held application is at a step of its plan.    *)
LEMMA AtPlanned ==
    ASSUME DependenciesIInv, NEW a \in App,
           pass[a].at \in Step \ {"idle", "remove", "unhook", "let go"}
    PROVE  pass[a].at \in Planned(pass[a].seen.asks)
BY DEF DependenciesIInv, AppInv, OnPlan

(* A dependency that is kept from an application counts as missed.         *)
LEMMA SkipKeeps ==
    ASSUME DependenciesIInv, NEW a \in App, NEW last \in {"role", "bucket", "copy"},
           \/ pass[a].at = "postgres" /\ last = "role"
           \/ pass[a].at = "bucket" /\ last = "bucket"
           \/ pass[a].at = "rabbitmq" /\ last = "copy",
           Skip(a, last),
           UNCHANGED <<app, blocked, secret, cluster, database, inPostgres,
                       bucket, collected, objects,
                       users, credentials, hook, deployment, copies, edits, faults>>
    PROVE  DependenciesIInv'
<1> DEFINE asks == pass[a].seen.asks
           new == [Past(a, last) EXCEPT !.missing = TRUE]
<1>1. TypeOK /\ AppInv(a)
  BY DEF DependenciesIInv
<1>2. pass[a].at \in Planned(asks)
  BY AtPlanned DEF Step
<1>3. last \in Planned(asks) \ {"record"}
  BY <1>2 DEF Planned
<1>4. pass' = [pass EXCEPT ![a] = new]
  BY DEF Skip
<1>5. /\ new \in PassType /\ new.missing = TRUE
      /\ new.at = After(last, asks) /\ new.seen = pass[a].seen
  BY <1>1, <1>3, PastType
<1> HIDE DEF new
<1>6. /\ pass' \in [App -> PassType] /\ pass'[a] = new
      /\ \A b \in App \ {a} : pass'[b] = pass[b]
  BY <1>1, <1>4, <1>5, PassMoves
<1>7. TypeOK'
  BY <1>1, <1>6 DEF TypeOK, PassType
<1>8. NoneTaken(a)
  BY SameGiven
<1>9. /\ pass'[a].missing = TRUE /\ pass'[a].seen = pass[a].seen
      /\ pass'[a].at = After(last, asks)
  BY <1>5, <1>6
<1>10. pass'[a].missing /\ pass'[a].missing \in BOOLEAN
  BY <1>9
<1>11. Onwards
  BY DEF Onwards
<1>12. AppInv(a)' /\ (Keeper(a, SharedName(a)) => Keeper(a, SharedName(a))')
  <2>1. \/ pass[a].at = last
        \/ pass[a].at = "postgres" /\ last = "role" /\ pass'[a].missing
        \/ pass[a].at = "rabbitmq" /\ last = "copy" /\ pass'[a].missing
    BY <1>10
  <2>2. pass[a].missing => pass'[a].missing
    BY <1>10
  <2>3. ~pass'[a].missing => IsReady(a, last)'
    BY <1>10
  <2>4. last # "postgres" /\ last # "rabbitmq"
    OBVIOUS
  <2>5. QED
    BY <1>3, <1>8, <1>9, <1>10, <1>11, <2>1, <2>2, <2>3, <2>4, GoesOn
<1>13. QED
  BY <1>6, <1>7, <1>12, OneAppsStep DEF Untouched

(* A dependency that was seen to, and is ready or counts as missed.        *)
LEMMA ProceedMoves ==
    ASSUME DependenciesIInv, NEW a \in App, NEW at \in {"role", "bucket", "copy"},
           pass[a].at = at, NEW ready \in BOOLEAN, Proceed(a, at, ready),
           ready => IsReady(a, at)', NoneTaken(a), UNCHANGED <<app, blocked, deployment>>
    PROVE  /\ pass' \in [App -> PassType]
           /\ \A b \in App \ {a} : pass'[b] = pass[b]
           /\ AppInv(a)' /\ (Keeper(a, SharedName(a)) => Keeper(a, SharedName(a))')
<1> DEFINE asks == pass[a].seen.asks
           missed == pass[a].missing \/ ~ready
           new == [Past(a, at) EXCEPT !.missing = missed]
<1>1. TypeOK /\ AppInv(a) /\ pass[a].missing \in BOOLEAN /\ missed \in BOOLEAN
  BY DEF DependenciesIInv, TypeOK
<1>2. at \in Planned(asks) \ {"record"}
  BY AtPlanned DEF Step
<1>3. Past(a, at).missing = pass[a].missing
  BY <1>1, <1>2, PastType
<1>4. pass' = [pass EXCEPT ![a] = new]
  BY <1>3 DEF Proceed
<1> HIDE DEF missed
<1>5. /\ new \in PassType /\ new.missing = missed
      /\ new.at = After(at, asks) /\ new.seen = pass[a].seen
  BY <1>1, <1>2, PastType
<1> HIDE DEF new
<1>6. /\ pass' \in [App -> PassType] /\ pass'[a] = new
      /\ \A b \in App \ {a} : pass'[b] = pass[b]
  BY <1>1, <1>4, <1>5, PassMoves
<1>7. /\ pass'[a].missing = missed /\ pass'[a].seen = pass[a].seen
      /\ pass'[a].at = After(at, asks)
  BY <1>5, <1>6
<1>8. /\ pass'[a].missing \in BOOLEAN
      /\ pass[a].missing => pass'[a].missing
      /\ ~pass'[a].missing => ready
  BY <1>1, <1>7 DEF missed
<1>9. Onwards
  BY DEF Onwards
<1>11. AppInv(a)' /\ (Keeper(a, SharedName(a)) => Keeper(a, SharedName(a))')
  <2>1. at # "postgres" /\ at # "rabbitmq"
    OBVIOUS
  <2>2. QED
    BY <1>2, <1>7, <1>8, <1>9, <2>1, GoesOn
<1>12. QED
  BY <1>6, <1>11

(* A password of its own takes nothing else from an application.         *)
LEMMA EnsurePasswordKeeps ==
    ASSUME DependenciesIInv, NEW a \in App, EnsurePassword(a)
    PROVE  DependenciesIInv'
<1> DEFINE asks == pass[a].seen.asks
           last == secret[a]["password"]
           password == IF last = NoSecret THEN Made(app[a].life, app[a].life) ELSE last
<1>1. /\ pass[a].at = "postgres"
      /\ UNCHANGED <<app, blocked, database, inPostgres, bucket, collected, objects, users,
                     credentials, hook, deployment, copies, edits, faults>>
  BY DEF EnsurePassword, buckets, rabbitmq, run
<1>2. TypeOK /\ pass[a] \in PassType /\ AppInv(a)
  BY DEF DependenciesIInv, TypeOK, PassType
<1>3. "postgres" \in Planned(asks)
  BY <1>1, AtPlanned DEF Step
<1>5. Onwards
  BY <1>1 DEF Onwards
<1>6. CASE <<a, "postgres">> \in blocked
  BY <1>1, <1>6, SkipKeeps DEF EnsurePassword
<1>7. CASE <<a, "postgres">> \notin blocked
  <2> DEFINE past == Past(a, "postgres")
             new == [past EXCEPT !.password = password.value]
  <2>1. /\ cluster' = cluster \union {a.namespace}
        /\ secret' = [secret EXCEPT ![a]["password"] = password]
        /\ pass' = [pass EXCEPT ![a] = new]
    BY <1>7 DEF EnsurePassword
  <2>2. /\ past \in PassType /\ past.missing = pass[a].missing
        /\ past.at = After("postgres", asks) /\ past.seen = pass[a].seen
    BY <1>2, <1>3, PastType
  <2>3. password \in [owner : Life, value : Nat]
    <3>1. app[a].life \in Life /\ app[a].life \in Nat
      BY <1>2, BoundAssumption DEF TypeOK, AppType, Life
    <3>2. last \in [owner : Life, value : Nat]
      BY <1>2 DEF TypeOK, Kind
    <3>3. QED
      BY <3>1, <3>2 DEF Made
  <2> HIDE DEF past, password
  <2>4. /\ new \in PassType /\ new.missing = pass[a].missing
        /\ new.at = After("postgres", asks) /\ new.seen = pass[a].seen
    BY <2>2, <2>3 DEF PassType
  <2> HIDE DEF new
  <2>5. /\ pass' \in [App -> PassType] /\ pass'[a] = new
        /\ \A b \in App \ {a} : pass'[b] = pass[b]
    BY <1>2, <2>1, <2>4, PassMoves
  <2>6. /\ secret' \in [App -> [Kind -> [owner : Life, value : Nat]]]
        /\ \A k \in Kind \ {"password"} : secret'[a][k] = secret[a][k]
        /\ \A b \in App \ {a} : secret'[b] = secret[b]
    BY <1>2, <2>1, <2>3 DEF TypeOK, Kind
  <2>7. cluster' \subseteq Namespace
    BY <1>2, <2>1 DEF TypeOK, Namespace
  <2>8. TypeOK'
    BY <1>1, <1>2, <2>5, <2>6, <2>7 DEF TypeOK, PassType
  <2>9. pass[a].missing \in BOOLEAN
    BY <1>2 DEF PassType
  <2>10. AppInv(a)' /\ (Keeper(a, SharedName(a)) => Keeper(a, SharedName(a))')
    <3>1. NoneTaken(a)
      BY <1>1, <2>6, SameGiven DEF Kind
    <3>2. IsReady(a, "postgres")'
      BY DEF IsReady
    <3>3. pass'[a].missing = pass[a].missing /\ pass'[a].seen = pass[a].seen
          /\ pass'[a].at = After("postgres", asks)
      BY <2>4, <2>5
    <3> QED
      BY <1>1, <1>3, <1>5, <1>7, <2>9, <3>1, <3>2, <3>3, GoesOn
  <2>11. QED
    BY <1>1, <2>5, <2>6, <2>8, <2>10, OneAppsStep DEF Untouched
<1>8. QED
  BY <1>6, <1>7

(* A database that is said to be applied is its application's from now on. *)
LEMMA EnsureDatabaseKeeps ==
    ASSUME DependenciesIInv, NEW a \in App, EnsureDatabase(a)
    PROVE  DependenciesIInv'
<1>1. /\ pass[a].at = "role" /\ Proceed(a, "role", database[a].applied)
      /\ database' = [database EXCEPT ![a].owner = app[a].life]
      /\ secret' = [secret EXCEPT ![a]["postgres"] = Made(app[a].life, pass[a].password)]
      /\ UNCHANGED <<app, blocked, cluster, inPostgres, bucket, collected, objects, users,
                     credentials, hook, deployment, copies, edits, faults>>
  BY DEF EnsureDatabase, buckets, rabbitmq, run
<1>2. TypeOK /\ AppInv(a) /\ app[a].life \in Life /\ pass[a].password \in Nat
  BY DEF DependenciesIInv, TypeOK, AppType
<1>3. /\ database' \in [App -> [owner : Life, applied : BOOLEAN]]
      /\ database'[a] = [owner |-> app[a].life, applied |-> database[a].applied]
      /\ \A b \in App \ {a} : database'[b] = database[b]
  <2>1. PICK life \in Life : life = app[a].life
    BY <1>2
  <2>2. PICK d \in [owner : Life, applied : BOOLEAN] : d = database[a]
    BY <1>2 DEF TypeOK
  <2>3. [d EXCEPT !.owner = life] \in [owner : Life, applied : BOOLEAN]
        /\ [d EXCEPT !.owner = life] = [owner |-> life, applied |-> d.applied]
    OBVIOUS
  <2>4. database \in [App -> [owner : Life, applied : BOOLEAN]]
    BY <1>2 DEF TypeOK
  <2>5. database' = [database EXCEPT ![a] = [d EXCEPT !.owner = life]]
    BY <1>1, <2>1, <2>2, <2>4
  <2> QED
    BY <2>1, <2>2, <2>3, <2>4, <2>5
<1>4. /\ secret' \in [App -> [Kind -> [owner : Life, value : Nat]]]
      /\ secret'[a]["postgres"].owner = app[a].life
      /\ \A k \in Kind \ {"postgres"} : secret'[a][k] = secret[a][k]
      /\ \A b \in App \ {a} : secret'[b] = secret[b]
  BY <1>1, <1>2 DEF TypeOK, Kind, Made
<1>5. /\ database[a].applied \in BOOLEAN
      /\ database[a].applied => IsReady(a, "role")'
      /\ NoneTaken(a)
  <2>1. database[a].applied \in BOOLEAN /\ <<a, "postgres">> \notin blocked
    BY <1>1, <1>2 DEF TypeOK, AppInv, SeenTo
  <2>2. database[a].applied => Given(a, "postgres")'
    BY <1>1, <1>3, <1>4, <2>1 DEF Given
  <2>3. database[a].applied => IsReady(a, "role")'
    BY <1>1, <2>1, <2>2 DEF IsReady, Ready
  <2>4. ASSUME NEW s, Given(a, s)
        PROVE  Given(a, s)'
    <3>1. CASE s = "postgres"
      BY <2>2, <2>4, <3>1 DEF Given
    <3>2. CASE s # "postgres"
      BY <1>1, <1>4, <2>4, <3>2 DEF Given, Kind
    <3> QED
      BY <3>1, <3>2
  <2> QED
    BY <2>1, <2>3, <2>4 DEF NoneTaken
<1>6. /\ pass' \in [App -> PassType]
      /\ \A b \in App \ {a} : pass'[b] = pass[b]
      /\ AppInv(a)' /\ (Keeper(a, SharedName(a)) => Keeper(a, SharedName(a))')
  <2>1. PICK ready \in BOOLEAN : ready = database[a].applied
    BY <1>5
  <2>2. Proceed(a, "role", ready) /\ (ready => IsReady(a, "role")')
    BY <1>1, <1>5, <2>1
  <2>3. UNCHANGED <<app, blocked, deployment>> /\ pass[a].at = "role"
    BY <1>1
  <2> QED
    BY <1>5, <2>2, <2>3, ProceedMoves
<1>7. TypeOK'
  BY <1>1, <1>2, <1>3, <1>4, <1>6 DEF TypeOK, PassType
<1>8. QED
  BY <1>1, <1>3, <1>4, <1>6, <1>7, OneAppsStep DEF Untouched

(* A bucket is its application's, and ready once there are keys to it.    *)
LEMMA EnsureBucketKeeps ==
    ASSUME DependenciesIInv, NEW a \in App, EnsureBucket(a)
    PROVE  DependenciesIInv'
<1>1. /\ pass[a].at = "bucket"
      /\ UNCHANGED <<app, blocked, secret, cluster, database, inPostgres, collected, objects,
                     users, credentials, hook, deployment, copies, edits, faults>>
  BY DEF EnsureBucket, postgres, rabbitmq, run
<1>2. TypeOK /\ app[a].life \in Life
  BY DEF DependenciesIInv, TypeOK, AppType
<1>3. CASE <<a, "bucket">> \in blocked
  BY <1>1, <1>3, SkipKeeps DEF EnsureBucket
<1>4. CASE <<a, "bucket">> \notin blocked
  <2> DEFINE ready == secret[a]["s3"] # NoSecret
  <2>1. bucket' = [bucket EXCEPT ![a] = app[a].life] /\ Proceed(a, "bucket", ready)
    BY <1>4 DEF EnsureBucket
  <2>2. ready \in BOOLEAN
    OBVIOUS
  <2> HIDE DEF ready
  <2>3. bucket'[a] = app[a].life /\ \A b \in App \ {a} : bucket'[b] = bucket[b]
    BY <1>2, <2>1 DEF TypeOK
  <2>4. ready => IsReady(a, "bucket")'
    BY <1>1, <1>4, <2>3 DEF IsReady, Ready, Given, ready
  <2>5. NoneTaken(a)
    BY <1>1, <2>3 DEF NoneTaken, Given
  <2>6. /\ pass' \in [App -> PassType]
        /\ \A b \in App \ {a} : pass'[b] = pass[b]
        /\ AppInv(a)' /\ (Keeper(a, SharedName(a)) => Keeper(a, SharedName(a))')
    BY <1>1, <2>1, <2>2, <2>4, <2>5, ProceedMoves
  <2>7. TypeOK'
    BY <1>1, <1>2, <2>1, <2>6 DEF TypeOK, PassType
  <2>8. QED
    BY <1>1, <2>3, <2>6, <2>7, OneAppsStep DEF Untouched
<1>5. QED
  BY <1>3, <1>4

(* Credentials that are found are copied into a Secret of its own.       *)
LEMMA CopyCredentialsKeeps ==
    ASSUME DependenciesIInv, NEW a \in App, CopyCredentials(a)
    PROVE  DependenciesIInv'
<1> DEFINE found == credentials[SharedName(a)]
           ready == found # 0
<1>1. /\ pass[a].at = "copy" /\ Proceed(a, "copy", ready)
      /\ secret' = [secret EXCEPT ![a]["rabbitmq"] =
                       IF found = 0 THEN @ ELSE Made(app[a].life, found)]
      /\ UNCHANGED <<app, blocked, cluster, database, inPostgres,
                     bucket, collected, objects, users,
                     credentials, hook, deployment, copies, edits, faults>>
  BY DEF CopyCredentials, buckets, postgres, rabbitmq, run
<1>2. TypeOK /\ app[a].life \in Life /\ SharedName(a) \in SharedNames
  BY DEF DependenciesIInv, TypeOK, AppType, SharedNames
<1>3. /\ secret' \in [App -> [Kind -> [owner : Life, value : Nat]]]
      /\ secret'[a]["rabbitmq"].owner \in {secret[a]["rabbitmq"].owner, app[a].life}
      /\ ready => secret'[a]["rabbitmq"].owner = app[a].life
      /\ \A k \in Kind \ {"rabbitmq"} : secret'[a][k] = secret[a][k]
      /\ \A b \in App \ {a} : secret'[b] = secret[b]
  <2>1. found \in Nat
    BY <1>2 DEF TypeOK
  <2>2. QED
    BY <1>1, <1>2, <2>1 DEF TypeOK, Kind, Made
<1>4. ready \in BOOLEAN
  OBVIOUS
<1> HIDE DEF ready
<1>5. (ready => IsReady(a, "copy")') /\ NoneTaken(a)
  <2>1. <<a, "rabbitmq">> \notin blocked
    BY <1>1 DEF DependenciesIInv, AppInv, SeenTo
  <2>2. ready => Given(a, "rabbitmq")'
    BY <1>1, <1>3 DEF Given
  <2>3. ready => IsReady(a, "copy")'
    BY <1>1, <2>1, <2>2 DEF IsReady, Ready
  <2>4. ASSUME NEW s, Given(a, s)
        PROVE  Given(a, s)'
    <3>1. CASE s = "rabbitmq"
      BY <1>1, <1>3, <2>4, <3>1 DEF Given
    <3>2. CASE s # "rabbitmq"
      BY <1>1, <1>3, <2>4, <3>2 DEF Given, Kind
    <3> QED
      BY <3>1, <3>2
  <2> QED
    BY <2>3, <2>4 DEF NoneTaken
<1>6. /\ pass' \in [App -> PassType]
      /\ \A b \in App \ {a} : pass'[b] = pass[b]
      /\ AppInv(a)' /\ (Keeper(a, SharedName(a)) => Keeper(a, SharedName(a))')
  BY <1>1, <1>4, <1>5, ProceedMoves
<1>7. TypeOK'
  BY <1>1, <1>2, <1>3, <1>6 DEF TypeOK, PassType
<1>8. QED
  BY <1>1, <1>3, <1>6, <1>7, OneAppsStep DEF Untouched

(* What is applied in RabbitMQ this application's finalizer will remove.   *)
LEMMA EnsureUserKeeps ==
    ASSUME DependenciesIInv, NEW a \in App, EnsureUser(a)
    PROVE  DependenciesIInv'
<1> DEFINE n == SharedName(a)
           asks == pass[a].seen.asks
           all == {"Vhost", "User", "Permission"}
<1>1. /\ pass[a].at = "rabbitmq"
      /\ UNCHANGED <<app, blocked, secret, cluster, database, inPostgres, bucket, collected,
                     credentials, hook, deployment, copies, edits, faults>>
  BY DEF EnsureUser, buckets, postgres, run
<1>2. TypeOK /\ n \in SharedNames /\ AppInv(a)
  BY DEF DependenciesIInv, TypeOK, SharedNames
<1>3. CASE <<a, "rabbitmq">> \in blocked
  BY <1>1, <1>3, SkipKeeps DEF EnsureUser
<1>4. CASE <<a, "rabbitmq">> \notin blocked
  <2> DEFINE new == Past(a, "rabbitmq")
  <2>1. /\ objects' = [objects EXCEPT ![n] = all]
        /\ users' = [users EXCEPT ![n] = IF "User" \in objects[n] THEN @ ELSE @ + 1]
        /\ pass' = [pass EXCEPT ![a] = new]
    BY <1>4 DEF EnsureUser
  <2>2. "rabbitmq" \in Planned(asks) \ {"record"}
    BY <1>1, AtPlanned DEF Step
  <2>3. /\ new \in PassType /\ new.missing = pass[a].missing
        /\ new.at = After("rabbitmq", asks) /\ new.seen = pass[a].seen
    BY <1>2, <2>2, PastType
  <2> HIDE DEF new
  <2>4. /\ pass' \in [App -> PassType] /\ pass'[a] = new
        /\ \A b \in App \ {a} : pass'[b] = pass[b]
    BY <1>2, <2>1, <2>3, PassMoves
  <2>5. /\ objects' \in [SharedNames -> SUBSET all]
        /\ \A m \in SharedNames \ {n} : objects'[m] = objects[m]
    BY <1>2, <2>1 DEF TypeOK
  <2>6. users' \in [SharedNames -> Nat]
    <3>1. users \in [SharedNames -> Nat]
      BY <1>2 DEF TypeOK
    <3>2. users[n] \in Nat /\ users[n] + 1 \in Nat
      BY <1>2, <3>1
    <3>3. QED
      BY <1>2, <2>1, <3>1, <3>2
  <2>7. TypeOK'
    BY <1>1, <1>2, <2>4, <2>5, <2>6 DEF TypeOK, PassType
  <2>8. Onwards
    BY <1>1 DEF Onwards
  <2>9. AppInv(a)'
    <3>1. NoneTaken(a) /\ IsReady(a, "rabbitmq")'
      BY <1>1, SameGiven DEF IsReady
    <3>2. pass[a].missing \in BOOLEAN
      BY <1>2 DEF TypeOK
    <3>3. /\ pass'[a].missing = pass[a].missing /\ pass'[a].seen = pass[a].seen
          /\ pass'[a].at = After("rabbitmq", asks)
      BY <2>3, <2>4
    <3>4. QED
      BY <1>1, <1>4, <2>2, <2>8, <3>1, <3>2, <3>3, GoesOn
  <2>10. \A b \in App : AppInv(b)'
    <3>1. TAKE b \in App
    <3>2. CASE b = a
      BY <2>9, <3>2
    <3>3. CASE b # a
      BY <1>1, <2>4, <2>8, <3>3, OthersStay DEF DependenciesIInv, Untouched
    <3>4. QED
      BY <3>2, <3>3
  <2>11. Kept'
    <3>1. SUFFICES ASSUME NEW m \in SharedNames, objects'[m] # {}
                   PROVE  \E b \in App : Keeper(b, m)'
      BY DEF Kept
    <3>2. CASE m = n
      <4>1. pass'[a].at = "copy" /\ app'[a].there /\ app'[a].finalizer
        BY <1>1, <1>2, <2>3, <2>4 DEF After, AppInv, HeldInPass
      <4>2. Keeper(a, m)'
        BY <3>2, <4>1 DEF Keeper
      <4>3. QED
        BY <4>2
    <3>3. CASE m # n
      <4>1. PICK b \in App : Keeper(b, m)
        BY <2>5, <3>1, <3>3 DEF DependenciesIInv, Kept
      <4>2. Keeper(b, m)'
        BY <1>1, <2>4, <3>3, <4>1 DEF Keeper
      <4>3. QED
        BY <4>2
    <3>4. QED
      BY <3>2, <3>3
  <2>12. QED
    BY <2>7, <2>10, <2>11 DEF DependenciesIInv
<1>5. QED
  BY <1>3, <1>4

(* What becomes of the hook holds nothing up.                            *)
LEMMA EnsureHookKeeps ==
    ASSUME DependenciesIInv, NEW a \in App, EnsureHook(a)
    PROVE  DependenciesIInv'
<1> DEFINE seen == pass[a].seen
           asks == seen.asks
           last == secret[a]["token"]
           token == IF last = NoSecret THEN Made(app[a].life, app[a].life) ELSE last
           past == Past(a, "hook")
           known == [past EXCEPT !.hook = seen.hook]
           hooked == [known EXCEPT !.hook = seen.project]
           Moved(new) == pass' = [pass EXCEPT ![a] = new]
           Further(new) == new \in PassType /\ new.missing = pass[a].missing
                           /\ new.at = After("hook", asks) /\ new.seen = seen
<1>1. /\ pass[a].at = "hook"
      /\ UNCHANGED <<app, blocked, cluster, database, inPostgres,
                     bucket, collected, objects, users,
                     credentials, deployment, copies, edits>>
  BY DEF EnsureHook, buckets, postgres, rabbitmq, run
<1>2. /\ TypeOK /\ AppInv(a) /\ pass[a].missing \in BOOLEAN
      /\ seen.hook \in Project \union {NoProject} /\ seen.project \in Project \union {NoProject}
  BY DEF DependenciesIInv, TypeOK, AppType
<1>3. "hook" \in Planned(asks) \ {"record"}
  BY DEF Planned
<1>4. Further(past)
  BY <1>2, <1>3, PastType
<1> HIDE DEF past
<1>5. Further(known) /\ Further(hooked)
  BY <1>2, <1>4 DEF PassType
<1>6. \E new : Moved(new) /\ Further(new)
  BY <1>4, <1>5 DEF EnsureHook, past
<1>7. TypeOK'
  <2>1. token \in [owner : Life, value : Nat]
    <3>1. app[a].life \in Life /\ app[a].life \in Nat
      BY <1>2, BoundAssumption DEF TypeOK, AppType, Life
    <3>2. last \in [owner : Life, value : Nat]
      BY <1>2 DEF TypeOK, Kind
    <3>3. QED
      BY <3>1, <3>2 DEF Made
  <2>2. secret' \in [App -> [Kind -> [owner : Life, value : Nat]]]
    <3>1. secret' = secret \/ secret' = [secret EXCEPT ![a]["token"] = token]
      BY DEF EnsureHook
    <3>2. secret \in [App -> [Kind -> [owner : Life, value : Nat]]] /\ "token" \in Kind
      BY <1>2 DEF TypeOK, Kind
    <3> HIDE DEF token
    <3>3. CASE secret' = secret
      BY <3>2, <3>3
    <3>4. CASE secret' = [secret EXCEPT ![a]["token"] = token]
      BY <2>1, <3>2, <3>4
    <3>5. QED
      BY <3>1, <3>3, <3>4
  <2>3. hook' \in [App -> [Project -> Nat]]
    <3> DEFINE to == seen.project
               sent == token.value
    <3>1. \/ hook' = hook
          \/ to # NoProject /\ hook' = [hook EXCEPT ![a][to] = sent]
      BY DEF EnsureHook
    <3>2. sent \in Nat /\ to \in Project \union {NoProject}
      BY <1>2, <2>1
    <3>3. hook \in [App -> [Project -> Nat]]
      BY <1>2 DEF TypeOK
    <3> HIDE DEF to, sent
    <3>4. CASE hook' = hook
      BY <3>3, <3>4
    <3>5. CASE to # NoProject /\ hook' = [hook EXCEPT ![a][to] = sent]
      BY <3>2, <3>3, <3>5
    <3>6. QED
      BY <3>1, <3>4, <3>5
  <2>4. faults' \in Nat
    BY <1>2 DEF EnsureHook, Fault, TypeOK
  <2>5. PICK new : Moved(new) /\ Further(new)
    BY <1>6
  <2>6. pass' \in [App -> PassType]
    BY <1>2, <2>5, PassMoves
  <2>7. QED
    BY <1>1, <1>2, <2>2, <2>3, <2>4, <2>6 DEF TypeOK, PassType
<1>8. /\ \A k \in Kind \ {"token"} : secret'[a][k] = secret[a][k]
      /\ \A b \in App \ {a} : secret'[b] = secret[b]
  <2>1. UNCHANGED secret \/ \E v : secret' = [secret EXCEPT ![a]["token"] = v]
    BY DEF EnsureHook
  <2>2. QED
    BY <1>2, <2>1 DEF TypeOK, Kind
<1>9. PICK new : Moved(new) /\ Further(new)
  BY <1>6
<1>10. /\ pass'[a] = new
       /\ \A b \in App \ {a} : pass'[b] = pass[b]
  BY <1>2, <1>9, PassMoves
<1>11. /\ pass'[a].missing = pass[a].missing /\ pass'[a].seen = pass[a].seen
       /\ pass'[a].at = After("hook", asks)
  BY <1>9, <1>10
<1>12. NoneTaken(a) /\ IsReady(a, "hook")'
  BY <1>1, <1>8, SameGiven DEF Kind, IsReady
<1>13. Onwards
  BY <1>1 DEF Onwards
<1>14. AppInv(a)' /\ (Keeper(a, SharedName(a)) => Keeper(a, SharedName(a))')
  BY <1>1, <1>2, <1>3, <1>11, <1>12, <1>13, GoesOn
<1>15. QED
  BY <1>1, <1>7, <1>8, <1>10, <1>14, OneAppsStep DEF Untouched

(* What is rolled out is what the pass has seen to without missing any.    *)
LEMMA RollOutKeeps ==
    ASSUME DependenciesIInv, NEW a \in App, RollOut(a)
    PROVE  DependenciesIInv'
<1> DEFINE asks == pass[a].seen.asks
           new == Past(a, "roll out")
           made == [owner |-> app[a].life, loads |-> asks]
<1>1. /\ pass[a].at = "roll out" /\ pass' = [pass EXCEPT ![a] = new]
      /\ deployment' = [deployment EXCEPT ![a] = IF pass[a].missing THEN @ ELSE made]
      /\ UNCHANGED <<app, blocked, secret, cluster, database, inPostgres,
                     bucket, collected, objects, users,
                     credentials, hook, copies, edits, faults>>
  BY DEF RollOut, buckets, postgres, rabbitmq
<1>2. /\ TypeOK /\ AppInv(a) /\ pass[a].missing \in BOOLEAN
      /\ asks \subseteq Service /\ app[a].life \in Life
  BY DEF DependenciesIInv, TypeOK, AppType
<1>3. "roll out" \in Planned(asks) \ {"record"}
  BY DEF Planned
<1>4. /\ new \in PassType /\ new.missing = pass[a].missing
      /\ new.at = After("roll out", asks) /\ new.seen = pass[a].seen
  BY <1>2, <1>3, PastType
<1> HIDE DEF new
<1>5. /\ pass' \in [App -> PassType] /\ pass'[a] = new
      /\ \A b \in App \ {a} : pass'[b] = pass[b]
  BY <1>1, <1>2, <1>4, PassMoves
<1>6. made \in [owner : Life, loads : SUBSET Service] /\ made.loads = asks /\ made.owner = app[a].life
  BY <1>2
<1> HIDE DEF made
<1>7. /\ deployment' \in [App -> [owner : Life, loads : SUBSET Service]]
      /\ deployment'[a] = deployment[a] \/ (~pass[a].missing /\ deployment'[a] = made)
      /\ \A b \in App \ {a} : deployment'[b] = deployment[b]
  <2>1. deployment \in [App -> [owner : Life, loads : SUBSET Service]]
    BY <1>2 DEF TypeOK
  <2>2. CASE pass[a].missing
    BY <1>1, <2>1, <2>2
  <2>3. CASE ~pass[a].missing
    BY <1>1, <1>6, <2>1, <2>3
  <2>4. QED
    BY <2>2, <2>3
<1>8. TypeOK'
  BY <1>1, <1>2, <1>5, <1>7 DEF TypeOK, PassType
<1>9. Onwards /\ NoneTaken(a)
  BY <1>1, SameGiven DEF Onwards
<1>10. /\ pass'[a].missing = pass[a].missing /\ pass'[a].seen = pass[a].seen
       /\ pass'[a].at = After("roll out", asks)
  BY <1>4, <1>5
<1>11. OnPlan(a)' /\ SeenTo(a)'
  BY <1>1, <1>2, <1>3, <1>9, <1>10, SeenToNext DEF IsReady
<1>12. Lives(a)' /\ HeldInPass(a)'
  <2>1. app[a].life \in Nat /\ app[a].life <= app[a].life
    BY <1>2, BoundAssumption DEF Life
  <2> QED
    BY <1>1, <1>2, <1>6, <1>7, <2>1 DEF AppInv, Lives, HeldInPass
<1>13. Loaded(a)'
  <2>1. \A s : Ready(a, s) => Ready(a, s)'
    BY <1>9, ReadyStays
  <2>2. ~pass[a].missing => \A s \in asks : Ready(a, s)
    BY <1>1, <1>2 DEF AppInv, SeenTo, Beyond
  <2>3. QED
    BY <1>1, <1>2, <1>6, <1>7, <2>1, <2>2 DEF AppInv, Loaded
<1>14. pass'[a].at = "record"
  BY <1>10 DEF After
<1>15. Keeper(a, SharedName(a)) => Keeper(a, SharedName(a))'
  BY <1>1, <1>14 DEF Keeper
<1>16. QED
  BY <1>1, <1>5, <1>7, <1>8, <1>11, <1>12, <1>13, <1>15, OneAppsStep DEF AppInv, Untouched

(* A pass that has ended owes nothing.                                     *)
LEMMA StopInv ==
    ASSUME DependenciesIInv, NEW a \in App, Stop(a), app'[a].life = app[a].life,
           app'[a].there => app[a].there,
           UNCHANGED <<blocked, secret, database, bucket, collected, deployment>>
    PROVE  AppInv(a)'
<1>1. TypeOK /\ AppInv(a)
  BY DEF DependenciesIInv
<1>2. pass'[a].at = "idle"
  BY <1>1, StopType
<1>3. OnPlan(a)' /\ SeenTo(a)' /\ HeldInPass(a)'
  BY <1>2 DEF OnPlan, SeenTo, HeldInPass, Beyond
<1>4. Lives(a)'
  BY <1>1 DEF AppInv, Lives
<1>5. Loaded(a)'
  <2>1. \A s : Ready(a, s) => Ready(a, s)'
    BY SameGiven, ReadyStays DEF Onwards
  <2> QED
    BY <1>1, <2>1 DEF AppInv, Loaded
<1>6. QED
  BY <1>3, <1>4, <1>5 DEF AppInv

(* A hook that is recorded changes nothing that was seen to.             *)
LEMMA RecordKeeps ==
    ASSUME DependenciesIInv, NEW a \in App, Record(a)
    PROVE  DependenciesIInv'
<1> DEFINE kept == IF pass[a].hook = NoProject THEN app[a].hook ELSE pass[a].hook
<1>1. /\ app' = [app EXCEPT ![a].hook = kept] /\ Stop(a)
      /\ UNCHANGED <<blocked, secret, cluster, database, inPostgres,
                     bucket, collected, objects, users,
                     credentials, hook, deployment, copies, edits, faults>>
  BY DEF Record, buckets, postgres, rabbitmq, run
<1>2. TypeOK /\ kept \in Project \union {NoProject}
  BY DEF DependenciesIInv, TypeOK, AppType
<1> HIDE DEF kept
<1>3. /\ app' \in [App -> AppType] /\ app'[a].life = app[a].life
      /\ app'[a].there = app[a].there /\ app'[a].finalizer = app[a].finalizer
      /\ \A b \in App \ {a} : app'[b] = app[b]
  <2> DEFINE new == [app[a] EXCEPT !.hook = kept]
  <2>1. app \in [App -> AppType] /\ app[a] \in AppType
    BY <1>2 DEF TypeOK
  <2>2. /\ new \in AppType /\ new.life = app[a].life
        /\ new.there = app[a].there /\ new.finalizer = app[a].finalizer
    BY <1>2, <2>1 DEF AppType
  <2>3. app' = [app EXCEPT ![a] = new]
    BY <1>1
  <2> HIDE DEF new
  <2>4. QED
    BY <2>1, <2>2, <2>3
<1>4. /\ pass' \in [App -> PassType] /\ pass'[a].at = "idle"
      /\ \A b \in App \ {a} : pass'[b] = pass[b]
  BY <1>1, <1>2, StopType
<1>5. TypeOK'
  BY <1>1, <1>2, <1>3, <1>4 DEF TypeOK, PassType
<1>6. AppInv(a)'
  BY <1>1, <1>3, StopInv
<1>7. Keeper(a, SharedName(a)) => Keeper(a, SharedName(a))'
  BY <1>3, <1>4 DEF Keeper
<1>8. QED
  BY <1>1, <1>3, <1>4, <1>5, <1>6, <1>7, OneAppsStep DEF Untouched

(* A pass that is cut short leaves what there is to its finalizer.       *)
LEMMA PassFailsKeeps ==
    ASSUME DependenciesIInv, NEW a \in App, PassFails(a)
    PROVE  DependenciesIInv'
<1>1. /\ Stop(a) /\ faults' = faults + 1
      /\ UNCHANGED <<app, blocked, secret, cluster, database, inPostgres,
                     bucket, collected, objects, users,
                     credentials, hook, deployment, copies, edits>>
  BY DEF PassFails, Fault, buckets, postgres, rabbitmq, run
<1>2. TypeOK
  BY DEF DependenciesIInv
<1>3. /\ pass' \in [App -> PassType] /\ pass'[a].at = "idle"
      /\ \A b \in App \ {a} : pass'[b] = pass[b]
  BY <1>1, <1>2, StopType
<1>4. TypeOK'
  BY <1>1, <1>2, <1>3 DEF TypeOK, PassType
<1>5. AppInv(a)'
  BY <1>1, StopInv
<1>6. Keeper(a, SharedName(a)) => Keeper(a, SharedName(a))'
  BY <1>1, <1>3 DEF Keeper
<1>7. QED
  BY <1>1, <1>3, <1>4, <1>5, <1>6, OneAppsStep DEF Untouched

(* A pass begins with its first step, having missed nothing.               *)
LEMMA BeginKeeps ==
    ASSUME DependenciesIInv, NEW a \in App, Begin(a)
    PROVE  DependenciesIInv'
<1>1. /\ pass[a].at = "idle" /\ app[a].there
      /\ UNCHANGED <<blocked, secret, cluster, database, inPostgres,
                     bucket, collected, objects, users,
                     credentials, hook, deployment, copies, edits, faults>>
  BY DEF Begin, buckets, postgres, rabbitmq, run
<1>2. TypeOK /\ AppInv(a) /\ app[a] \in AppType /\ app[a].asks \subseteq Service
  BY DEF DependenciesIInv, TypeOK, AppType
<1>3. CASE app[a].finalizer
  <2> DEFINE first == IF app[a].deleting THEN "remove" ELSE FirstStep(app[a].asks)
             new == [Idle(a) EXCEPT !.seen = app[a], !.at = first]
  <2>1. pass' = [pass EXCEPT ![a] = new] /\ UNCHANGED app
    BY <1>3 DEF Begin
  <2>2. /\ first \in Step /\ first \notin {"role", "copy", "unhook", "let go"}
        /\ first \in {"remove"} \union Planned(app[a].asks)
        /\ \A s \in app[a].asks : first \notin Beyond(s)
    <3>1. CASE app[a].deleting
      BY <3>1 DEF Step, Beyond
    <3>2. CASE ~app[a].deleting
      <4>1. /\ FirstStep(app[a].asks) \in Planned(app[a].asks) \ {"role", "copy"}
            /\ \A s \in app[a].asks : FirstStep(app[a].asks) \notin Beyond(s)
        BY <1>2, FirstOnPlan
      <4>2. FirstStep(app[a].asks) \in Step
        BY <4>1, PlanType
      <4>3. QED
        BY <3>2, <4>1, <4>2 DEF Planned
    <3>3. QED
      BY <3>1, <3>2
  <2> HIDE DEF first
  <2>3. new \in PassType /\ new.at = first /\ new.seen = app[a]
    BY <1>2, <2>2, IdleType DEF PassType
  <2> HIDE DEF new
  <2>4. /\ pass' \in [App -> PassType] /\ pass'[a] = new
        /\ \A b \in App \ {a} : pass'[b] = pass[b]
    BY <1>2, <2>1, <2>3, PassMoves
  <2>5. TypeOK'
    BY <1>1, <1>2, <2>1, <2>4 DEF TypeOK, PassType
  <2>6. pass'[a].at = first /\ pass'[a].seen = app[a]
    BY <2>3, <2>4
  <2>7. OnPlan(a)' /\ SeenTo(a)' /\ HeldInPass(a)'
    BY <1>1, <1>3, <2>1, <2>2, <2>6 DEF OnPlan, SeenTo, HeldInPass
  <2>8. Lives(a)' /\ Loaded(a)'
    BY <1>1, <1>2, <2>1 DEF AppInv, Lives, Loaded, Ready, Given
  <2>9. Keeper(a, SharedName(a)) => Keeper(a, SharedName(a))'
    BY <2>1, <2>2, <2>6 DEF Keeper
  <2>10. QED
    BY <1>1, <2>1, <2>4, <2>5, <2>7, <2>8, <2>9, OneAppsStep DEF AppInv, Untouched
<1>4. CASE ~app[a].finalizer
  <2> DEFINE new == [app[a] EXCEPT !.finalizer = TRUE]
  <2>1. app' = [app EXCEPT ![a] = new] /\ UNCHANGED pass
    BY <1>4 DEF Begin
  <2>2. new \in AppType /\ new.life = app[a].life /\ new.there = app[a].there /\ new.finalizer
    BY <1>2 DEF AppType
  <2> HIDE DEF new
  <2>3. /\ app' \in [App -> AppType] /\ app'[a].life = app[a].life
        /\ app'[a].there = app[a].there /\ app'[a].finalizer
        /\ \A b \in App \ {a} : app'[b] = app[b]
    BY <1>2, <2>1, <2>2 DEF TypeOK
  <2>4. TypeOK'
    BY <1>1, <1>2, <2>1, <2>3 DEF TypeOK
  <2>5. AppInv(a)'
    <3>1. \A s : Ready(a, s) => Ready(a, s)'
      BY <1>1, <2>3, SameGiven, ReadyStays DEF Onwards
    <3>2. OnPlan(a)' /\ SeenTo(a)' /\ HeldInPass(a)'
      BY <1>1, <2>1 DEF OnPlan, SeenTo, HeldInPass, Beyond
    <3>3. Lives(a)' /\ Loaded(a)'
      BY <1>1, <1>2, <2>3, <3>1 DEF AppInv, Lives, Loaded
    <3> QED
      BY <3>2, <3>3 DEF AppInv
  <2>6. ~Keeper(a, SharedName(a))
    BY <1>4 DEF Keeper
  <2>7. QED
    BY <1>1, <2>1, <2>3, <2>4, <2>5, <2>6, OneAppsStep DEF Untouched
<1>5. QED
  BY <1>3, <1>4

-----------------------------------------------------------------------------
(* The finalizer                                                           *)

(* What is in RabbitMQ is all gone before the finalizer goes on; until     *)
(* then the application still answers for it.                              *)
LEMMA RemoveSharedKeeps ==
    ASSUME DependenciesIInv, NEW a \in App, RemoveShared(a)
    PROVE  DependenciesIInv'
<1> DEFINE n == SharedName(a)
<1>1. /\ pass[a].at = "remove"
      /\ UNCHANGED <<app, blocked, secret, cluster, database, inPostgres,
                     bucket, collected, users,
                     credentials, hook, deployment, copies, edits>>
  BY DEF RemoveShared, buckets, postgres, run
<1>2. TypeOK /\ AppInv(a) /\ n \in SharedNames
  BY DEF DependenciesIInv, TypeOK, SharedNames
<1>3. PICK gone \in 0..3 :
          /\ objects' = [objects EXCEPT ![n] = @ \ {Removed[i] : i \in 1..gone}]
          /\ IF gone = 3
             THEN pass' = [pass EXCEPT ![a].at = "unhook"] /\ UNCHANGED faults
             ELSE Fault /\ Stop(a)
  <2>1. Len(Removed) = 3
    BY DEF Removed
  <2>2. QED
    BY <2>1 DEF RemoveShared
<1>4. /\ objects' \in [SharedNames -> SUBSET {"Vhost", "User", "Permission"}]
      /\ \A m \in SharedNames : objects'[m] \subseteq objects[m]
  BY <1>2, <1>3 DEF TypeOK
<1>5. gone = 3 => objects'[n] = {}
  <2>1. SUFFICES ASSUME gone = 3
                 PROVE  objects'[n] = {}
    OBVIOUS
  <2>2. /\ Removed[1] = "Permission" /\ Removed[2] = "User" /\ Removed[3] = "Vhost"
    BY DEF Removed
  <2>3. {"Vhost", "User", "Permission"} \subseteq {Removed[i] : i \in 1..3}
    BY <2>2
  <2>4. objects[n] \subseteq {"Vhost", "User", "Permission"}
    BY <1>2 DEF TypeOK
  <2>5. objects'[n] = objects[n] \ {Removed[i] : i \in 1..3}
    BY <1>2, <1>3, <2>1 DEF TypeOK
  <2>6. QED
    BY <2>3, <2>4, <2>5
<1>6. Onwards
  BY <1>1 DEF Onwards
<1>7. /\ pass' \in [App -> PassType]
      /\ \A b \in App \ {a} : pass'[b] = pass[b]
      /\ pass'[a].at = (IF gone = 3 THEN "unhook" ELSE "idle")
      /\ AppInv(a)' /\ faults' \in Nat
  <2>1. CASE gone = 3
    <3> DEFINE new == [pass[a] EXCEPT !.at = "unhook"]
    <3>1. pass[a] \in PassType
      BY <1>2 DEF TypeOK, PassType
    <3>2. new \in PassType /\ new.at = "unhook"
      BY <3>1 DEF PassType, Step
    <3>3. pass' = [pass EXCEPT ![a] = new] /\ faults' \in Nat
      BY <1>2, <1>3, <2>1 DEF TypeOK
    <3> HIDE DEF new
    <3>4. /\ pass' \in [App -> PassType] /\ pass'[a] = new
          /\ \A b \in App \ {a} : pass'[b] = pass[b]
      BY <1>2, <3>2, <3>3, PassMoves
    <3>5. pass'[a].at = "unhook"
      BY <3>2, <3>4
    <3>6. OnPlan(a)' /\ SeenTo(a)'
      BY <3>5 DEF OnPlan, SeenTo, Beyond
    <3>7. Lives(a)' /\ HeldInPass(a)' /\ Loaded(a)'
      BY <1>1, <1>2 DEF AppInv, Lives, HeldInPass, Loaded, Ready, Given
    <3>8. QED
      BY <2>1, <3>3, <3>4, <3>5, <3>6, <3>7 DEF AppInv
  <2>2. CASE gone # 3
    <3>1. Stop(a) /\ faults' = faults + 1
      BY <1>3, <2>2 DEF Fault
    <3>2. /\ pass' \in [App -> PassType] /\ pass'[a].at = "idle"
          /\ \A b \in App \ {a} : pass'[b] = pass[b]
      BY <1>2, <3>1, StopType
    <3>3. AppInv(a)'
      BY <1>1, <3>1, StopInv
    <3>4. faults' \in Nat
      BY <1>2, <3>1 DEF TypeOK
    <3>5. QED
      BY <2>2, <3>2, <3>3, <3>4
  <2>3. QED
    BY <2>1, <2>2
<1>8. TypeOK'
  BY <1>1, <1>2, <1>4, <1>7 DEF TypeOK, PassType
<1>9. \A b \in App : AppInv(b)'
  <2>1. TAKE b \in App
  <2>2. CASE b = a
    BY <1>7, <2>2
  <2>3. CASE b # a
    BY <1>1, <1>6, <1>7, <2>3, OthersStay DEF DependenciesIInv, Untouched
  <2>4. QED
    BY <2>2, <2>3
<1>10. Kept'
  <2>1. SUFFICES ASSUME NEW m \in SharedNames, objects'[m] # {}
                 PROVE  \E b \in App : Keeper(b, m)'
    BY DEF Kept
  <2>2. PICK b \in App : Keeper(b, m)
    BY <1>4, <2>1 DEF DependenciesIInv, Kept
  <2>3. Keeper(b, m)'
    <3>1. CASE b = a
      <4>1. m = n
        BY <2>2, <3>1 DEF Keeper
      <4>2. gone # 3
        BY <1>5, <2>1, <4>1
      <4>3. QED
        BY <1>1, <1>7, <2>2, <3>1, <4>2 DEF Keeper
    <3>2. CASE b # a
      BY <1>1, <1>7, <2>2, <3>2 DEF Keeper
    <3>3. QED
      BY <3>1, <3>2
  <2>4. QED
    BY <2>3
<1>11. QED
  BY <1>8, <1>9, <1>10 DEF DependenciesIInv

(* What was removed stays so while the hook is.                          *)
LEMMA RemoveHookKeeps ==
    ASSUME DependenciesIInv, NEW a \in App, RemoveHook(a)
    PROVE  DependenciesIInv'
<1> DEFINE seen == pass[a].seen
           new == [pass[a] EXCEPT !.at = "let go"]
<1>1. /\ pass[a].at = "unhook" /\ pass' = [pass EXCEPT ![a] = new]
      /\ UNCHANGED <<app, blocked, secret, cluster, database, inPostgres,
                     bucket, collected, objects, users,
                     credentials, deployment, copies, edits>>
  BY DEF RemoveHook, buckets, postgres, rabbitmq, run
<1>2. /\ TypeOK /\ AppInv(a) /\ pass[a] \in PassType
      /\ seen.hook \in Project \union {NoProject}
  BY DEF DependenciesIInv, TypeOK, PassType, AppType
<1>3. new \in PassType /\ new.at = "let go"
  BY <1>2 DEF PassType, Step
<1> HIDE DEF new
<1>4. /\ pass' \in [App -> PassType] /\ pass'[a] = new
      /\ \A b \in App \ {a} : pass'[b] = pass[b]
  BY <1>1, <1>2, <1>3, PassMoves
<1>5. faults' \in Nat
  <2>1. faults' = faults \/ faults' = faults + 1
    BY DEF RemoveHook, Fault
  <2>2. QED
    BY <1>2, <2>1 DEF TypeOK
<1>6. hook' \in [App -> [Project -> Nat]]
  <2> DEFINE from == seen.hook
  <2>1. \/ hook' = hook
        \/ from # NoProject /\ hook' = [hook EXCEPT ![a][from] = 0]
    BY DEF RemoveHook
  <2>2. hook \in [App -> [Project -> Nat]]
    BY <1>2 DEF TypeOK
  <2>3. from \in Project \union {NoProject}
    BY <1>2
  <2> HIDE DEF from
  <2>4. CASE hook' = hook
    BY <2>2, <2>4
  <2>5. CASE from # NoProject /\ hook' = [hook EXCEPT ![a][from] = 0]
    BY <2>2, <2>3, <2>5
  <2>6. QED
    BY <2>1, <2>4, <2>5
<1>7. TypeOK'
  BY <1>1, <1>2, <1>4, <1>5, <1>6 DEF TypeOK, PassType
<1>8. pass'[a].at = "let go"
  BY <1>3, <1>4
<1>9. OnPlan(a)' /\ SeenTo(a)'
  BY <1>8 DEF OnPlan, SeenTo, Beyond
<1>10. Lives(a)' /\ HeldInPass(a)' /\ Loaded(a)'
  BY <1>1, <1>2 DEF AppInv, Lives, HeldInPass, Loaded, Ready, Given
<1>11. ~Keeper(a, SharedName(a))
  BY <1>1 DEF Keeper
<1>12. QED
  BY <1>1, <1>4, <1>7, <1>9, <1>10, <1>11, OneAppsStep DEF AppInv, Untouched

(* An application is let go when it has nothing left to answer for.      *)
LEMMA LetGoKeeps ==
    ASSUME DependenciesIInv, NEW a \in App, LetGo(a)
    PROVE  DependenciesIInv'
<1>1. /\ pass[a].at = "let go" /\ app' = [app EXCEPT ![a] = Gone(a)] /\ Stop(a)
      /\ UNCHANGED <<blocked, secret, cluster, database, inPostgres,
                     bucket, collected, objects, users,
                     credentials, hook, deployment, copies, edits, faults>>
  BY DEF LetGo, buckets, postgres, rabbitmq, run
<1>2. TypeOK
  BY DEF DependenciesIInv
<1>3. /\ app' \in [App -> AppType] /\ app'[a].life = app[a].life /\ ~app'[a].there
      /\ \A b \in App \ {a} : app'[b] = app[b]
  <2>1. Gone(a) \in AppType /\ Gone(a).life = app[a].life /\ ~Gone(a).there
    BY <1>2, GoneType
  <2>2. QED
    BY <1>1, <1>2, <2>1 DEF TypeOK
<1>4. /\ pass' \in [App -> PassType]
      /\ \A b \in App \ {a} : pass'[b] = pass[b]
  BY <1>1, <1>2, StopType
<1>5. TypeOK'
  BY <1>1, <1>2, <1>3, <1>4 DEF TypeOK, PassType
<1>6. AppInv(a)'
  BY <1>1, <1>3, StopInv
<1>7. ~Keeper(a, SharedName(a))
  BY <1>1 DEF Keeper
<1>8. QED
  BY <1>1, <1>3, <1>4, <1>5, <1>6, <1>7, OneAppsStep DEF Untouched

-----------------------------------------------------------------------------
(* Kubernetes and the other operators                                      *)

(* What is collected was not what anything rests on.                     *)
LEMMA CollectKeeps ==
    ASSUME DependenciesIInv, NEW a \in App, Collect(a)
    PROVE  DependenciesIInv'
<1>1. UNCHANGED <<app, blocked, pass, cluster, inPostgres, objects, users, credentials,
                  hook, edits, faults>>
  BY DEF Collect, buckets, rabbitmq
<1>2. TypeOK /\ AppInv(a) /\ 0 \in Life
  BY BoundAssumption DEF DependenciesIInv, Life
<1>3. NoSecret \in [owner : Life, value : Nat]
  BY <1>2 DEF NoSecret, Made
<1>4. \/ UNCHANGED <<secret, collected>>
      \/ \E k \in Kind :
            /\ ~Owned(a, secret[a][k].owner)
            /\ secret' = [secret EXCEPT ![a][k] = NoSecret]
            /\ collected' = [collected EXCEPT ![a] =
                   IF k = "s3" /\ app[a].there THEN @ \union {app[a].life} ELSE @]
  BY DEF Collect, buckets
<1>5. \/ UNCHANGED database
      \/ ~Owned(a, database[a].owner) /\ database' = [database EXCEPT ![a] = NoDatabase]
  BY DEF Collect
<1>6. UNCHANGED bucket \/ (~Owned(a, bucket[a]) /\ bucket' = [bucket EXCEPT ![a] = 0])
  BY DEF Collect, buckets
<1>7. \/ UNCHANGED <<deployment, copies>>
      \/ /\ deployment' = [deployment EXCEPT ![a] = NoDeployment]
         /\ copies' = [copies EXCEPT ![a] = NoCopies]
  BY DEF Collect, run
<1>8. /\ secret' \in [App -> [Kind -> [owner : Life, value : Nat]]]
      /\ collected' \in [App -> SUBSET Life]
      /\ \A b \in App \ {a} : secret'[b] = secret[b] /\ collected'[b] = collected[b]
      /\ collected[a] \subseteq collected'[a]
      /\ \A k \in Kind :
            \/ secret'[a][k] = secret[a][k]
            \/ /\ ~Owned(a, secret[a][k].owner)
               /\ k = "s3" /\ app[a].there => app[a].life \in collected'[a]
  <2>1. /\ secret \in [App -> [Kind -> [owner : Life, value : Nat]]]
        /\ collected \in [App -> SUBSET Life] /\ app[a].life \in Life
    BY <1>2 DEF TypeOK, AppType
  <2>2. CASE UNCHANGED <<secret, collected>>
    BY <2>1, <2>2
  <2>3. ASSUME NEW k \in Kind, ~Owned(a, secret[a][k].owner),
               secret' = [secret EXCEPT ![a][k] = NoSecret],
               collected' = [collected EXCEPT ![a] =
                   IF k = "s3" /\ app[a].there THEN @ \union {app[a].life} ELSE @]
        PROVE  /\ secret' \in [App -> [Kind -> [owner : Life, value : Nat]]]
               /\ collected' \in [App -> SUBSET Life]
               /\ \A b \in App \ {a} : secret'[b] = secret[b] /\ collected'[b] = collected[b]
               /\ collected[a] \subseteq collected'[a]
               /\ \A l \in Kind :
                     \/ secret'[a][l] = secret[a][l]
                     \/ /\ ~Owned(a, secret[a][l].owner)
                        /\ l = "s3" /\ app[a].there => app[a].life \in collected'[a]
    <3> DEFINE more == IF k = "s3" /\ app[a].there THEN collected[a] \union {app[a].life}
                                                    ELSE collected[a]
    <3>1. /\ more \in SUBSET Life /\ collected[a] \subseteq more
          /\ k = "s3" /\ app[a].there => app[a].life \in more
      BY <2>1
    <3>2. collected' = [collected EXCEPT ![a] = more]
      BY <2>1, <2>3
    <3> HIDE DEF more
    <3>3. /\ collected' \in [App -> SUBSET Life] /\ collected'[a] = more
          /\ \A b \in App \ {a} : collected'[b] = collected[b]
      BY <2>1, <3>1, <3>2
    <3>4. /\ secret' \in [App -> [Kind -> [owner : Life, value : Nat]]]
          /\ \A b \in App \ {a} : secret'[b] = secret[b]
          /\ \A l \in Kind \ {k} : secret'[a][l] = secret[a][l]
      BY <1>3, <2>1, <2>3
    <3> QED
      BY <2>3, <3>1, <3>3, <3>4
  <2>4. QED
    BY <1>4, <2>2, <2>3
<1>9. /\ database' \in [App -> [owner : Life, applied : BOOLEAN]]
      /\ database'[a] = database[a] \/ ~Owned(a, database[a].owner)
      /\ \A b \in App \ {a} : database'[b] = database[b]
  <2>1. database \in [App -> [owner : Life, applied : BOOLEAN]]
    BY <1>2 DEF TypeOK
  <2>2. NoDatabase \in [owner : Life, applied : BOOLEAN]
    BY <1>2 DEF NoDatabase
  <2>3. CASE UNCHANGED database
    BY <2>1, <2>3
  <2>4. CASE ~Owned(a, database[a].owner) /\ database' = [database EXCEPT ![a] = NoDatabase]
    BY <2>1, <2>2, <2>4
  <2>5. QED
    BY <1>5, <2>3, <2>4
<1>10. /\ bucket' \in [App -> Life]
       /\ bucket'[a] = bucket[a] \/ ~Owned(a, bucket[a])
       /\ \A b \in App \ {a} : bucket'[b] = bucket[b]
  BY <1>2, <1>6 DEF TypeOK
<1>11. /\ deployment' \in [App -> [owner : Life, loads : SUBSET Service]]
       /\ deployment'[a] = deployment[a] \/ deployment'[a] = NoDeployment
       /\ \A b \in App \ {a} : deployment'[b] = deployment[b]
  <2>1. deployment \in [App -> [owner : Life, loads : SUBSET Service]]
    BY <1>2 DEF TypeOK
  <2>2. NoDeployment \in [owner : Life, loads : SUBSET Service] /\ NoDeployment.loads = {}
    BY <1>2 DEF NoDeployment
  <2>3. CASE UNCHANGED deployment
    BY <2>1, <2>3
  <2>4. CASE deployment' = [deployment EXCEPT ![a] = NoDeployment]
    BY <2>1, <2>2, <2>4
  <2>5. QED
    BY <1>7, <2>3, <2>4
<1>12. \A b \in App : copies'[b] \in [DOMAIN copies'[b] -> Nat]
  <2>1. NoCopies \in [DOMAIN NoCopies -> Nat]
    BY DEF NoCopies
  <2>2. CASE UNCHANGED copies
    BY <1>2, <2>2 DEF TypeOK
  <2>3. CASE copies' = [copies EXCEPT ![a] = NoCopies]
    <3> SUFFICES ASSUME NEW b \in App
                 PROVE  copies'[b] \in [DOMAIN copies'[b] -> Nat]
      OBVIOUS
    <3>1. copies[b] \in [DOMAIN copies[b] -> Nat]
      BY <1>2 DEF TypeOK
    <3>2. copies'[b] = copies[b] \/ copies'[b] = NoCopies
      BY <2>3
    <3>3. QED
      BY <2>1, <3>1, <3>2
  <2>4. QED
    BY <1>7, <2>2, <2>3
<1>13. TypeOK'
  BY <1>1, <1>2, <1>8, <1>9, <1>10, <1>11, <1>12 DEF TypeOK
<1>14. Lives(a)' /\ HeldInPass(a)' /\ OnPlan(a)'
  <2>1. app[a].life \in Nat
    BY <1>2, BoundAssumption DEF TypeOK, AppType, Life
  <2>2. Lives(a)'
    <3>1. CASE deployment'[a] = deployment[a]
      BY <1>1, <1>2, <3>1 DEF AppInv, Lives
    <3>2. CASE deployment'[a] = NoDeployment
      BY <1>1, <2>1, <3>2 DEF Lives, NoDeployment
    <3> QED
      BY <1>11, <3>1, <3>2
  <2>3. HeldInPass(a)' /\ OnPlan(a)'
    BY <1>1, <1>2 DEF AppInv, HeldInPass, OnPlan
  <2> QED
    BY <2>2, <2>3
<1>15. SeenTo(a)' /\ Loaded(a)'
  <2>1. CASE app[a].there
    <3>1. /\ database[a].owner = app[a].life => database'[a] = database[a]
          /\ bucket[a] = app[a].life => bucket'[a] = bucket[a]
          /\ \A k \in Kind : secret[a][k].owner = app[a].life => secret'[a][k] = secret[a][k]
          /\ secret'[a]["s3"] = secret[a]["s3"] \/ app[a].life \in collected'[a]
      BY <1>8, <1>9, <1>10, <2>1 DEF Owned, Kind
    <3>2. NoneTaken(a)
      BY <1>1, <1>8, <3>1 DEF NoneTaken, Given, Kind
    <3>3. \A s : Ready(a, s) => Ready(a, s)'
      BY <1>1, <3>2, ReadyStays DEF Onwards
    <3>4. SeenTo(a)'
      BY <1>1, <1>2, <3>3 DEF AppInv, SeenTo
    <3>5. Loaded(a)'
      BY <1>1, <1>2, <1>11, <3>3 DEF AppInv, Loaded, NoDeployment
    <3> QED
      BY <3>4, <3>5
  <2>2. CASE ~app[a].there
    <3>1. pass[a].at = "idle"
      BY <1>2, <2>2 DEF AppInv, HeldInPass
    <3> QED
      BY <1>1, <2>2, <3>1 DEF SeenTo, Loaded, Beyond
  <2> QED
    BY <2>1, <2>2
<1>16. Keeper(a, SharedName(a)) => Keeper(a, SharedName(a))'
  BY <1>1 DEF Keeper
<1>17. QED
  BY <1>1, <1>8, <1>9, <1>10, <1>11, <1>13, <1>14, <1>15, <1>16, OneAppsStep DEF AppInv, Untouched

(* A database that is applied is no other application's for it.          *)
LEMMA PostgresKeeps ==
    ASSUME DependenciesIInv, NEW a \in App, Postgres(a)
    PROVE  DependenciesIInv'
<1>1. /\ secret[a]["password"] # NoSecret
      /\ database' = [database EXCEPT ![a].applied = TRUE]
      /\ inPostgres' = [inPostgres EXCEPT ![a] = secret[a]["password"].value]
      /\ UNCHANGED <<app, blocked, pass, secret, cluster,
                     bucket, collected, objects, users, credentials,
                     hook, deployment, copies, edits, faults>>
  BY DEF Postgres, buckets, rabbitmq, run
<1>2. TypeOK /\ AppInv(a)
  BY DEF DependenciesIInv
<1>3. inPostgres' \in [App -> Nat]
  <2>1. secret[a]["password"].value \in Nat
    BY <1>2 DEF TypeOK, Kind
  <2>2. QED
    BY <1>1, <1>2, <2>1 DEF TypeOK
<1>4. /\ database' \in [App -> [owner : Life, applied : BOOLEAN]]
      /\ database'[a].owner = database[a].owner /\ database'[a].applied = TRUE
      /\ \A b \in App \ {a} : database'[b] = database[b]
  BY <1>1, <1>2 DEF TypeOK
<1>5. TypeOK'
  BY <1>1, <1>2, <1>3, <1>4 DEF TypeOK
<1>6. NoneTaken(a)
  <2>1. database[a].applied = TRUE => database'[a] = database[a]
    BY <1>1, <1>2 DEF TypeOK
  <2> QED
    BY <1>1, <2>1 DEF NoneTaken, Given
<1>7. \A s : Ready(a, s) => Ready(a, s)'
  BY <1>1, <1>6, ReadyStays DEF Onwards
<1>8. Lives(a)' /\ HeldInPass(a)' /\ OnPlan(a)'
  BY <1>1, <1>2 DEF AppInv, Lives, HeldInPass, OnPlan
<1>9. SeenTo(a)' /\ Loaded(a)'
  BY <1>1, <1>2, <1>7 DEF AppInv, SeenTo, Loaded
<1>10. Keeper(a, SharedName(a)) => Keeper(a, SharedName(a))'
  BY <1>1 DEF Keeper
<1>11. QED
  BY <1>1, <1>4, <1>5, <1>8, <1>9, <1>10, OneAppsStep DEF AppInv, Untouched

(* Keys to a bucket come into a Secret of their own.                     *)
LEMMA SeaweedFSKeeps ==
    ASSUME DependenciesIInv, NEW a \in App, SeaweedFS(a)
    PROVE  DependenciesIInv'
<1>1. /\ secret' = [secret EXCEPT ![a]["s3"] = Made(bucket[a], 1)]
      /\ UNCHANGED <<app, blocked, pass, cluster, database, inPostgres,
                     bucket, collected, objects, users,
                     credentials, hook, deployment, copies, edits, faults>>
  BY DEF SeaweedFS, buckets, postgres, rabbitmq, run
<1>2. TypeOK /\ AppInv(a)
  BY DEF DependenciesIInv
<1>3. /\ secret' \in [App -> [Kind -> [owner : Life, value : Nat]]]
      /\ secret'[a]["s3"] = Made(bucket[a], 1)
      /\ \A k \in Kind \ {"s3"} : secret'[a][k] = secret[a][k]
      /\ \A b \in App \ {a} : secret'[b] = secret[b]
  BY <1>1, <1>2 DEF TypeOK, Kind, Made
<1>4. TypeOK'
  BY <1>1, <1>2, <1>3 DEF TypeOK
<1>5. AppInv(a)'
  <2>1. secret'[a]["s3"] # NoSecret
    BY <1>3 DEF Made, NoSecret
  <2>2. NoneTaken(a)
    BY <1>1, <1>3, <2>1 DEF NoneTaken, Given, Kind
  <2>3. \A s : Ready(a, s) => Ready(a, s)'
    BY <1>1, <2>2, ReadyStays DEF Onwards
  <2> QED
    BY <1>1, <1>2, <2>3 DEF AppInv, Lives, HeldInPass, OnPlan, SeenTo, Loaded
<1>6. Keeper(a, SharedName(a)) => Keeper(a, SharedName(a))'
  BY <1>1 DEF Keeper
<1>7. QED
  BY <1>1, <1>3, <1>4, <1>5, <1>6, OneAppsStep DEF Untouched

(* What changes nothing an application or its pass goes by.                *)
LEMMA WorldGoesOn ==
    ASSUME DependenciesIInv, TypeOK', blocked' \subseteq blocked,
           UNCHANGED <<app, pass, secret, database, bucket, collected, objects, deployment>>
    PROVE  DependenciesIInv'
<1>1. \A a \in App : AppInv(a)'
  BY OthersStay DEF DependenciesIInv, Untouched, Onwards
<1>2. Kept'
  BY DEF DependenciesIInv, Kept, Keeper
<1>3. QED
  BY <1>1, <1>2 DEF DependenciesIInv

(* What the other operators do takes nothing back.                       *)
LEMMA OthersWorkKeeps ==
    ASSUME DependenciesIInv,
           Unblock \/ (\E a \in App : Start(a)) \/ (\E n \in SharedNames : RabbitMQ(n))
    PROVE  DependenciesIInv'
<1>1. TypeOK
  BY DEF DependenciesIInv
<1>2. CASE Unblock
  <2>1. /\ blocked' = {}
        /\ UNCHANGED <<app, pass, secret, cluster, database, inPostgres,
                       bucket, collected, objects, users,
                       credentials, hook, deployment, copies, edits, faults>>
    BY <1>2 DEF Unblock, buckets, postgres, rabbitmq, run
  <2>2. TypeOK'
    BY <1>1, <2>1 DEF TypeOK
  <2>3. QED
    BY <2>1, <2>2, WorldGoesOn
<1>3. ASSUME NEW a \in App, Start(a)
      PROVE  DependenciesIInv'
  <2> DEFINE started == [s \in deployment[a].loads |-> secret[a][Key(s)].value]
  <2>1. /\ copies' = [copies EXCEPT ![a] = started]
        /\ UNCHANGED <<app, blocked, pass, secret, cluster, database, inPostgres,
                       bucket, collected, objects,
                       users, credentials, hook, deployment, edits, faults>>
    BY <1>3 DEF Start, buckets, postgres, rabbitmq
  <2>2. started \in [DOMAIN started -> Nat]
    <3>1. deployment[a].loads \subseteq Service
      BY <1>1 DEF TypeOK
    <3>2. \A s \in Service : Key(s) \in Kind
      BY DEF Key, Service, Kind
    <3>3. \A k \in Kind : secret[a][k].value \in Nat
      BY <1>1 DEF TypeOK
    <3>4. \A s \in deployment[a].loads : secret[a][Key(s)].value \in Nat
      BY <3>1, <3>2, <3>3
    <3>5. QED
      BY <3>4
  <2> HIDE DEF started
  <2>3. \A b \in App : copies'[b] \in [DOMAIN copies'[b] -> Nat]
    <3> SUFFICES ASSUME NEW b \in App
                 PROVE  copies'[b] \in [DOMAIN copies'[b] -> Nat]
      OBVIOUS
    <3>1. copies[b] \in [DOMAIN copies[b] -> Nat]
      BY <1>1 DEF TypeOK
    <3>2. copies'[b] = copies[b] \/ copies'[b] = started
      BY <2>1
    <3>3. QED
      BY <2>2, <3>1, <3>2
  <2>4. TypeOK'
    BY <1>1, <2>1, <2>3 DEF TypeOK
  <2>5. QED
    BY <2>1, <2>4, WorldGoesOn
<1>4. ASSUME NEW n \in SharedNames, RabbitMQ(n)
      PROVE  DependenciesIInv'
  <2>1. /\ credentials' = [credentials EXCEPT ![n] = IF "User" \in objects[n] THEN users[n] ELSE 0]
        /\ UNCHANGED <<app, blocked, pass, secret, cluster, database, inPostgres,
                       bucket, collected, objects,
                       users, hook, deployment, copies, edits, faults>>
    BY <1>4 DEF RabbitMQ, buckets, postgres, run
  <2>2. TypeOK'
    BY <1>1, <2>1 DEF TypeOK
  <2>3. QED
    BY <2>1, <2>2, WorldGoesOn
<1>5. QED
  BY <1>2, <1>3, <1>4

-----------------------------------------------------------------------------

(* Nothing happens.                                                        *)
LEMMA StutterKeeps ==
    ASSUME DependenciesIInv, UNCHANGED vars
    PROVE  DependenciesIInv'
<1>1. UNCHANGED <<app, blocked, pass, secret, cluster, database, inPostgres,
                  bucket, collected, objects,
                  users, credentials, hook, deployment, copies, edits, faults>>
  BY DEF vars, buckets, postgres, rabbitmq, run
<1>2. TypeOK'
  BY <1>1 DEF DependenciesIInv, TypeOK
<1>3. QED
  BY <1>1, <1>2, WorldGoesOn

(* Every step keeps the invariant.                                       *)
LEMMA NextKeeps ==
    ASSUME DependenciesIInv, Next
    PROVE  DependenciesIInv'
<1>1. ASSUME NEW a \in App, Work(a)
      PROVE  DependenciesIInv'
  BY <1>1, BeginKeeps, EnsurePasswordKeeps, EnsureDatabaseKeeps, EnsureBucketKeeps,
     EnsureUserKeeps, CopyCredentialsKeeps, EnsureHookKeeps, RollOutKeeps, RecordKeeps,
     RemoveSharedKeeps, RemoveHookKeeps, LetGoKeeps DEF Work
<1>2. CASE World
  BY <1>2, CollectKeeps, PostgresKeeps, SeaweedFSKeeps, OthersWorkKeeps DEF World
<1>3. QED
  BY <1>1, <1>2, PersonsKeep, PassFailsKeeps DEF Next

(* The invariant holds at first.                                         *)
LEMMA InitKeeps ==
    ASSUME Init
    PROVE  DependenciesIInv
<1>1. /\ app = [a \in App |-> Fresh(a)] /\ pass = [a \in App |-> Idle(a)]
      /\ secret = [a \in App |-> [k \in Kind |-> NoSecret]]
      /\ cluster = {} /\ database = [a \in App |-> NoDatabase]
      /\ inPostgres = [a \in App |-> 0] /\ bucket = [a \in App |-> 0]
      /\ collected = [a \in App |-> {}]
      /\ objects = [n \in SharedNames |-> {}] /\ users = [n \in SharedNames |-> 0]
      /\ credentials = [n \in SharedNames |-> 0]
      /\ hook = [a \in App |-> [p \in Project |-> 0]]
      /\ deployment = [a \in App |-> NoDeployment] /\ copies = [a \in App |-> NoCopies]
      /\ edits = 0 /\ faults = 0
  BY DEF Init
<1>2. blocked \subseteq App \X Service
  BY DEF Init
<1>3. 0 \in Life
  BY BoundAssumption DEF Life
<1>4. app \in [App -> AppType] /\ pass \in [App -> PassType]
  BY <1>1, FreshType, IdleType
<1>5. secret \in [App -> [Kind -> [owner : Life, value : Nat]]]
  <2>1. NoSecret \in [owner : Life, value : Nat]
    BY <1>3 DEF NoSecret, Made
  <2>2. QED
    BY <1>1, <2>1
<1>6. /\ database \in [App -> [owner : Life, applied : BOOLEAN]]
      /\ deployment \in [App -> [owner : Life, loads : SUBSET Service]]
  BY <1>1, <1>3 DEF NoDatabase, NoDeployment
<1>7. \A a \in App : copies[a] \in [DOMAIN copies[a] -> Nat]
  BY <1>1 DEF NoCopies
<1>8. TypeOK
  BY <1>1, <1>2, <1>3, <1>4, <1>5, <1>6, <1>7 DEF TypeOK, PassType
<1>9. Kept
  BY <1>1 DEF Kept
<1>10. ASSUME NEW a \in App
       PROVE  AppInv(a)
  <2>1. Lives(a)
    <3>1. app[a].life = 1 /\ deployment[a].owner = 0
      BY <1>1, FreshType DEF NoDeployment
    <3>2. QED
      BY <3>1 DEF Lives
  <2>2. OnPlan(a) /\ SeenTo(a) /\ HeldInPass(a)
    BY <1>1, IdleType, IdleSeenTo
  <2>3. Loaded(a)
    BY <1>1 DEF Loaded, NoDeployment
  <2>4. QED
    BY <2>1, <2>2, <2>3 DEF AppInv
<1>11. QED
  BY <1>8, <1>9, <1>10 DEF DependenciesIInv

(* What the finalizers answer for and what was seen to give both parts.    *)
LEMMA InvFollows ==
    ASSUME DependenciesIInv
    PROVE  DependenciesInv
<1>1. NothingLeft
  <2>1. SUFFICES ASSUME NEW a \in App,
                        \A b \in App : SharedName(b) = SharedName(a) => ~app[b].there
                 PROVE  objects[SharedName(a)] = {}
    BY DEF NothingLeft
  <2>2. SharedName(a) \in SharedNames
    BY DEF SharedNames
  <2>3. ~\E b \in App : Keeper(b, SharedName(a))
    BY <2>1 DEF Keeper
  <2>4. QED
    BY <2>2, <2>3 DEF DependenciesIInv, Kept
<1>2. DeployedAfter
  BY DEF DependenciesIInv, AppInv, Loaded, Ready, DeployedAfter
<1>3. QED
  BY <1>1, <1>2 DEF DependenciesIInv, DependenciesInv

(* Nothing is left in RabbitMQ of an application that has gone, however    *)
(* many there are, whatever they are called and however their passes fail; *)
(* what one that is there loads was ready for it when it was rolled out.   *)
THEOREM NothingLeftBehind == Spec => []DependenciesInv
<1>1. Init => DependenciesIInv
  BY InitKeeps
<1>2. DependenciesIInv /\ [Next]_vars => DependenciesIInv'
  BY NextKeeps, StutterKeeps
<1>3. DependenciesIInv => DependenciesInv
  BY InvFollows
<1>4. QED
  BY <1>1, <1>2, <1>3, PTL DEF Spec
=============================================================================
