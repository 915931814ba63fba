------------------------------- MODULE Doctor -------------------------------
(***************************************************************************)
(* A check-up (runners/doctor.ts): the checks of every bundle are asked of *)
(* every node that answers, those of the gate first, and what they said is *)
(* made into a report and into the commands that put it right, which       *)
(* somebody then runs.                                                     *)
(*                                                                         *)
(* How the nodes of a step work side by side, and everything about         *)
(* connections, is in Pipeline; here a step is asked of all its nodes at   *)
(* once, and no two of them are one machine.  Nothing changes in the       *)
(* cluster while it is asked.  A failure is known by its first line.       *)
(***************************************************************************)
EXTENDS Naturals, Sequences, SequencesExt

CONSTANTS
    Computer,        \* the nodes of the configuration,
    ControlPlane,    \*   and its server
    Definition,      \* the bundles by name: [teardown, covered, steps], `steps' being
                     \*   their commands: [name, purpose, scope, runOn, explains, remedy]
    Registered,      \* the sequence in which those are registered
    InstallPipeline, \* the sequence an install runs them in
    Gate,
    Unexplained,     \* what a failure says when it says nothing,
    NoConnection,    \*   when there is no server to ask it of,
    NoServer,        \*   and how a server that can't be borrowed is called
    Unbuildable,     \* the bundles a configuration may not be enough for
    Illness,         \* the sets of troubles [step, computer, why] a cluster may have
    Questions        \* the ways it is asked: [computer, bundle, settle, assert], each of
                     \*   the first two "all" or one of them

Everywhere == "all"
Own  == "own"  \* the remedy of most checks: their bundle
NoFix == <<>>

VARIABLES
    stage,     \* "raising", "asking", "reporting", "fixing", or how it ended
    options,   \* what was asked for
    down,      \* the computers that don't answer,
    unbuilt,   \*   and the bundles that can't be built from the configuration
    ill,       \* the troubles there are
    fleet,     \* the computers connected to, and the server if there is one
    failures,  \* what couldn't be reached
    plan,      \* the steps: [bundle, is, computers]
    unplanned, \* the bundles nothing was asked of
    next,      \* the step to come
    blocked,   \* the computers that didn't get through the gate
    outcomes,  \* what was said: [bundle, step, computer, outcome, why]
    report,    \* the problems, the fixes suggested, and those listed, in order
    fixes      \* those still to be run

doctorVars == <<stage, options, down, unbuilt, ill, fleet, failures, plan, unplanned,
                next, blocked, outcomes, report, fixes>>

-----------------------------------------------------------------------------
(* What is asked.                                                          *)

\* Checks, without those that wait unless that was asked for.
Purposes ==
    {"require", "verify"}
    \union (IF options.assert THEN {} ELSE {"inspect"})
    \union (IF options.settle THEN {"settle"} ELSE {})

\* In the order of an install, and the others afterwards.
OrderForCheckup(names) ==
    SelectSeq(InstallPipeline, LAMBDA b : Contains(names, b))
    \o SelectSeq(names, LAMBDA b : ~Contains(InstallPipeline, b))

\* Not what takes a cluster apart, nor what another bundle's checks cover.
CheckableBundles == SelectSeq(Registered, LAMBDA b : ~Definition[b].teardown /\ ~Definition[b].covered)

GetPipeline ==
    LET asked == IF options.bundle = Everywhere THEN OrderForCheckup(CheckableBundles)
                 ELSE <<options.bundle>>
    IN  <<Gate>> \o SelectSeq(asked, LAMBDA b : b # Gate)

TargetComputers == IF options.computer = Everywhere THEN Computer ELSE {options.computer}

HasServer(f) == ControlPlane \in f.members \/ f.borrowed

\* Which computers a command is a step on, with a fleet.
NodesForScope(c, f) ==
    IF c.scope = "node" THEN f.members ELSE IF HasServer(f) THEN {ControlPlane} ELSE {}

Wanted(b) == SelectSeq(Definition[b].steps, LAMBDA c : c.purpose \in Purposes)

\* A bundle with a step for the cluster and nobody to run it from is given up there.
StepsOf(b, f) ==
    LET lost == {i \in DOMAIN Wanted(b) : NodesForScope(Wanted(b)[i], f) = {}}
        kept == IF lost = {} THEN Len(Wanted(b)) ELSE (CHOOSE i \in lost : \A j \in lost : i <= j) - 1
    IN  [i \in 1..kept |-> [bundle |-> b, is |-> Wanted(b)[i],
                            computers |-> NodesForScope(Wanted(b)[i], f)]]

BuildPlan(f) ==
    FoldLeft(LAMBDA steps, b : IF b \in unbuilt THEN steps ELSE steps \o StepsOf(b, f), <<>>, GetPipeline)

Unplanned(f) ==
    {b \in ToSet(GetPipeline) : b \in unbuilt \/ Len(StepsOf(b, f)) < Len(Wanted(b))}

\* Worked out on paper, where there always is a server.
NeedsControlPlane ==
    LET steps == BuildPlan([members |-> TargetComputers, borrowed |-> TRUE])
    IN  \E i \in DOMAIN steps : steps[i].is.runOn = "control-plane"

-----------------------------------------------------------------------------
DoctorInit ==
    /\ stage = "raising" /\ options \in Questions
    /\ down \in SUBSET Computer /\ unbuilt \in SUBSET Unbuildable
    /\ ill \in Illness
    /\ fleet = [members |-> {}, borrowed |-> FALSE]
    /\ failures = {} /\ plan = <<>> /\ unplanned = {} /\ next = 1 /\ blocked = {}
    /\ outcomes = {} /\ fixes = <<>>
    /\ report = [problems |-> {}, suggested |-> {}, listed |-> <<>>]

(* Those that answer are asked.  A server that wasn't among them is        *)
(* borrowed if anything has to be run from it.                             *)
Raise ==
    LET members  == TargetComputers \ down
        missing  == NeedsControlPlane /\ ControlPlane \notin members
        borrowed == missing /\ ControlPlane \notin down
        f        == [members |-> members, borrowed |-> borrowed]
    IN  /\ stage = "raising"
        /\ stage' = IF members = {} THEN "refused" ELSE "asking"
        /\ fleet' = f
        /\ failures' = (TargetComputers \cap down) \union (IF missing /\ ~borrowed THEN {NoServer} ELSE {})
        /\ plan' = IF members = {} THEN <<>> ELSE BuildPlan(f)
        /\ unplanned' = IF members = {} THEN {} ELSE Unplanned(f)
        /\ UNCHANGED <<options, down, unbuilt, ill, next, blocked, outcomes, report, fixes>>

-----------------------------------------------------------------------------
(* Asking.                                                                 *)

Said(step, c, outcome, why) ==
    [bundle |-> step.bundle, step |-> step.is.name, computer |-> c, outcome |-> outcome, why |-> why]

(* A computer that failed the gate is left alone, and so is a server that  *)
(* did, whomever it is asked for.                                          *)
WhyBlocked(step, c) ==
    /\ step.bundle # Gate
    /\ c \in blocked \/ (step.is.runOn = "control-plane" /\ ControlPlane \in blocked)

Answer(step, c) ==
    IF WhyBlocked(step, c) THEN Said(step, c, "blocked", Unexplained)
    ELSE IF step.is.runOn = "control-plane" /\ ~HasServer(fleet) THEN Said(step, c, "failed", NoConnection)
    ELSE IF \E t \in ill : t.step = step.is.name /\ t.computer = c
         THEN Said(step, c, "failed", (CHOOSE t \in ill : t.step = step.is.name /\ t.computer = c).why)
         ELSE Said(step, c, "ok", Unexplained)

\* Asking whether the server is blocked fails when there isn't one.
NobodyToBlock(step) ==
    /\ step.bundle # Gate /\ step.is.runOn = "control-plane"
    /\ blocked # {} /\ ~(step.computers \subseteq blocked) /\ ~HasServer(fleet)

AskStep ==
    /\ stage = "asking" /\ next <= Len(plan)
    /\ LET step    == plan[next]
           answers == {Answer(step, c) : c \in step.computers}
       IN  IF NobodyToBlock(step)
           THEN stage' = "threw" /\ UNCHANGED <<next, blocked, outcomes>>
           ELSE /\ next' = next + 1
                /\ outcomes' = outcomes \union answers
                /\ blocked' = blocked \union
                      (IF step.bundle = Gate THEN {a.computer : a \in {x \in answers : x.outcome = "failed"}}
                       ELSE {})
                /\ UNCHANGED stage
    /\ UNCHANGED <<options, down, unbuilt, ill, fleet, failures, plan, unplanned, report, fixes>>

-----------------------------------------------------------------------------
(* The report.                                                             *)

Failed == {o \in outcomes : o.outcome = "failed"}

\* Several failures in the same words; silence is not a word.
IsShared(why) ==
    why # Unexplained /\ \E f, g \in Failed : f # g /\ f.why = why /\ g.why = why

\* The bundles that ran anything, in their order.
RunningBundles == SelectSeq(GetPipeline, LAMBDA b : \E i \in DOMAIN plan : plan[i].bundle = b)

\* A bundle with nothing but checks puts nothing right.
ChangesAnything(b) ==
    b \notin unbuilt /\ \E i \in DOMAIN Definition[b].steps : Definition[b].steps[i].purpose = "apply"

StepNamed(f) == (CHOOSE i \in DOMAIN plan : plan[i].bundle = f.bundle /\ plan[i].is.name = f.step)

(* The bundles to run for a failure: its check's own remedy or else its    *)
(* bundle.  A failure that explained itself has been told its remedy.      *)
GetRemedy(f) ==
    LET check == plan[StepNamed(f)].is
    IN  IF f.why \in check.explains THEN NoFix
        ELSE IF check.remedy # <<Own>> THEN check.remedy
        ELSE IF ChangesAnything(f.bundle) THEN <<f.bundle>> ELSE NoFix

\* The command that runs bundles on a computer, or on all of them.
Fix(bundles, c) == [bundles |-> bundles, computer |-> c]

Suggestions == {Fix(GetRemedy(f), f.computer) : f \in {g \in Failed : GetRemedy(g) # NoFix}}

Position(bundles) ==
    LET is == {i \in DOMAIN RunningBundles : RunningBundles[i] = Last(bundles)}
    IN  IF is = {} THEN 0 ELSE CHOOSE i \in is : TRUE

\* Fault: what was built last first.
UpperFirst == SetToSortSeq({s.bundles : s \in Suggestions}, LAMBDA x, y : Position(x) > Position(y))

\* Lower layers first.
Sorted == SetToSortSeq({s.bundles : s \in Suggestions}, LAMBDA x, y : Position(x) < Position(y))

\* Where a fix is for: all of them, or each computer asked that needs it.
TargetsOf(bundles) ==
    LET needing == {c \in TargetComputers : Fix(bundles, c) \in Suggestions}
        all     == {s.computer : s \in {x \in Suggestions : x.bundles = bundles}}
    IN  IF options.computer = Everywhere /\ Cardinality(all) > 1 /\ TargetComputers \subseteq all
        THEN <<Everywhere>> ELSE SetToSeq(needing)

SayFixes ==
    FoldLeft(LAMBDA said, bundles :
                said \o [i \in DOMAIN TargetsOf(bundles) |-> Fix(bundles, TargetsOf(bundles)[i])],
             <<>>, Sorted)

Trouble(kind, what, where) == [kind |-> kind, what |-> what, where |-> where]

Problems ==
    {Trouble("unreachable", c, c) : c \in failures}
    \union {Trouble("unchecked", b, b) : b \in unplanned}
    \union {Trouble("shared", f.why, f.why) : f \in {g \in Failed : IsShared(g.why)}}
    \union {Trouble("check", f.step, f.computer) : f \in {g \in Failed : ~IsShared(g.why)}}

Report ==
    /\ stage = "asking" /\ next > Len(plan)
    /\ stage' = "fixing"
    /\ report' = [problems |-> Problems, suggested |-> Suggestions, listed |-> SayFixes]
    /\ fixes' = SayFixes
    /\ UNCHANGED <<options, down, unbuilt, ill, fleet, failures, plan, unplanned, next, blocked, outcomes>>

-----------------------------------------------------------------------------
(* Putting it right.  External: a bundle makes true what its checks look   *)
(* for, where what is below it is right.                                   *)

BundleOf(step) == CHOOSE b \in DOMAIN Definition : \E i \in DOMAIN Definition[b].steps :
                                                      Definition[b].steps[i].name = step

Layer(step) ==
    LET i == {k \in DOMAIN InstallPipeline : InstallPipeline[k] = BundleOf(step)}
    IN  IF i = {} THEN 1 + Len(InstallPipeline) ELSE CHOOSE k \in i : TRUE

Below(t, on) == t.computer = on.computer /\ Layer(t.step) < Layer(on.step)

IsForCluster(step) ==
    \E b \in DOMAIN Definition : \E i \in DOMAIN Definition[b].steps :
        Definition[b].steps[i].name = step /\ Definition[b].steps[i].scope = "cluster"

\* What a run of bundles for a computer, or for all of them, mends.
MendedBy(fix, troubles) ==
    {t \in troubles : /\ BundleOf(t.step) \in ToSet(fix.bundles)
                      /\ fix.computer \in {Everywhere, t.computer} \/ IsForCluster(t.step)
                      /\ ~\E u \in troubles : Below(u, t)}

RunFix ==
    /\ stage = "fixing" /\ fixes # <<>>
    /\ ill' = ill \ MendedBy(Head(fixes), ill)
    /\ fixes' = Tail(fixes)
    /\ UNCHANGED <<stage, options, down, unbuilt, fleet, failures, plan, unplanned, next, blocked,
                   outcomes, report>>

DoctorNext == Raise \/ AskStep \/ Report \/ RunFix

-----------------------------------------------------------------------------
(* What a report is good for.                                              *)

Reported == stage = "fixing"

\* What should be asked, as pairs of a check and whom it is asked of.
AskedAbout ==
    UNION {UNION {{<<c, n>> : n \in IF c.scope = "node" THEN TargetComputers ELSE {ControlPlane}} :
                     c \in ToSet(Wanted(b))} : b \in ToSet(GetPipeline)}

IsSaid(kind, what, where) == Trouble(kind, what, where) \in report.problems

(* A check that isn't fine, or couldn't be asked, is in the report in one  *)
(* of its ways; so a report of nothing is of a cluster that was asked      *)
(* everything and is fine.                                                 *)
NothingKeptBack ==
    Reported /\ fixes = report.listed =>
        \A pair \in AskedAbout :
            LET c == pair[1]
                n == pair[2]
            IN  \/ /\ \E o \in outcomes : o.step = c.name /\ o.computer = n /\ o.outcome = "ok"
                   /\ ~\E t \in ill : t.step = c.name /\ t.computer = n
                \/ IsSaid("unreachable", n, n) /\ n \in down
                \/ IsSaid("unchecked", BundleOf(c.name), BundleOf(c.name))
                \/ \E g \in ToSet(Definition[Gate].steps), m \in {n, ControlPlane} :
                      /\ \E t \in ill : t.step = g.name /\ t.computer = m
                      /\ \E why \in {t.why : t \in ill} : IsSaid("check", g.name, m) \/ IsSaid("shared", why, why)
                \/ IsSaid("check", c.name, n)
                \/ \E t \in ill : t.step = c.name /\ t.computer = n /\ IsSaid("shared", t.why, t.why)
                \/ c.runOn = "control-plane" /\ IsSaid("shared", NoConnection, NoConnection)

\* Whatever is called a problem is one.
NothingInvented ==
    Reported /\ fixes = report.listed =>
        \A p \in report.problems :
            CASE p.kind = "unreachable" -> p.what \in down \/ (p.what = NoServer /\ ControlPlane \in down)
              [] p.kind = "unchecked"   -> p.what \in unbuilt \/ ControlPlane \in down
              [] p.kind = "shared"      ->
                    \/ p.what = NoConnection /\ ControlPlane \in down
                    \/ \E t, u \in ill : t # u /\ t.why = p.what /\ u.why = p.what
              [] p.kind = "check"       ->
                    \/ ControlPlane \in down
                    \/ \E t \in ill : t.step = p.what /\ t.computer = p.where

\* Each failure is said once, by itself or with those in the same words.
SaidOnce ==
    Reported =>
        /\ \A f \in Failed : IsSaid("check", f.step, f.computer) # IsSaid("shared", f.why, f.why)
        /\ ~IsSaid("shared", Unexplained, Unexplained)

Reaches(fix, bundles, c) == fix.bundles = bundles /\ fix.computer \in {Everywhere, c}

\* What is listed at the end is what was suggested for the computers asked.
ListedAsSuggested ==
    Reported =>
        \A c \in TargetComputers, bundles \in {fix.bundles : fix \in ToSet(report.listed) \union report.suggested} :
            Fix(bundles, c) \in report.suggested
            <=> \E fix \in ToSet(report.listed) : Reaches(fix, bundles, c)

IsListed(t) ==
    \E fix \in ToSet(report.listed) :
        BundleOf(t.step) \in ToSet(fix.bundles) /\ fix.computer \in {Everywhere, t.computer}

(* Run as they are listed, the fixes put right what they are for, unless   *)
(* what is below it has none.                                              *)
PutRight ==
    Reported /\ fixes = <<>> =>
        \A t \in ill : IsListed(t) => \E u \in ill : Below(u, t) /\ ~IsListed(u)

(* The report of a check-up keeps nothing back and invents nothing, says   *)
(* each failure once, and lists the fixes it suggested in an order that    *)
(* puts the cluster right.                                                 *)
DoctorInv == NothingKeptBack /\ NothingInvented /\ SaidOnce /\ ListedAsSuggested /\ PutRight

(* A fix that is suggested is listed with the others (doctor.ts, the head  *)
(* of sayFixes).  Not so for one asked computer that isn't the server.     *)
EverySuggestionListed ==
    Reported => \A s \in report.suggested :
                    \E fix \in ToSet(report.listed) : Reaches(fix, s.bundles, s.computer)

\* A check-up comes to its report.  Not so when the gate fails and no server is there.
ReportIsMade == stage # "threw"

DoctorSpec == DoctorInit /\ [][DoctorNext]_doctorVars
=============================================================================
