---------------------------- MODULE CommandBundle ----------------------------
(***************************************************************************)
(* A bundle of commands run in order on one node: runAllCommands of        *)
(* installer/src/cli/commands/CommandBundle.ts, with as much of Command    *)
(* and TerminalCommand as decides how a command comes out.                 *)
(*                                                                         *)
(* The pipeline runs bundles of a single command, which halt at a failure. *)
(* Preflight runs one bundle of many, and keeps going past failures.       *)
(***************************************************************************)
EXTENDS Naturals, Sequences

CONSTANTS
    Value,      \* keys of the context
    Bundles    \* the bundles that may be run, a set of BundleType

Target == {"node", "control-plane"}

(*   wanted     whether its purpose is one this run was asked for          *)
(*   optional   whether it has a function saying it has nothing to do      *)
(*   needs      the slots of the context it can't be built without         *)
(*   saves      the slots of the context its findings go to                *)
(*   outputs    whether its output has to parse                            *)
CommandType ==
    [wanted : BOOLEAN, runOn : Target, optional : BOOLEAN, needs : SUBSET Value,
     saves : SUBSET Value, outputs : {"raw", "json"}]

BundleType ==
    [commands : Seq(CommandType), continueOnFailure : BOOLEAN,
     controlPlaneExec : BOOLEAN]

VARIABLES
    bundle,    \* the bundle being run; it never changes
    at,        \* the command it has got to
    decided,   \* whether that command is to run, its turn to skip being over
    results,   \* what each command came to
    failed,    \* the bundle's own note that something failed
    context,   \* the slots that are filled, each with the command that did it
    state,     \* how runAllCommands is doing
    tried,     \* history: the commands carried out,
    wrong      \*   and those something went wrong with, one way or another

bundleVars == <<bundle, at, decided, results, failed, context, state, tried, wrong>>

Outcome == {"none", "ok", "unparsed", "error", "skipped"}

Positions == DOMAIN bundle.commands

Cmd == bundle.commands[at]

BundleInit ==
    /\ bundle \in Bundles
    /\ at = 1
    /\ decided = FALSE
    /\ results = [i \in Positions |-> "none"]
    /\ failed = FALSE
    /\ context = [k \in Value |-> 0]
    /\ state = "running"
    /\ tried = {}
    /\ wrong = {}

AtCommand == state = "running" /\ at \in Positions

\* A failure ends the bundle, unless it was told to keep going.
GoOn(outcome) == outcome = "error" => bundle.continueOnFailure

Settle(outcome) ==
    /\ results' = [results EXCEPT ![at] = outcome]
    /\ failed' = (failed \/ outcome = "error")
    /\ at' = at + 1
    /\ decided' = FALSE
    /\ state' = IF GoOn(outcome) THEN "running" ELSE "halted"

(* Not what this run was asked for: left out of the results entirely.      *)
PassOver ==
    /\ AtCommand /\ ~decided
    /\ ~Cmd.wanted
    /\ at' = at + 1
    /\ UNCHANGED <<bundle, decided, results, failed, context, state, tried, wrong>>

HasSomewhereToRun == Cmd.runOn = "control-plane" => bundle.controlPlaneExec

(* Being given no connection to run a command on is the bundle's mistake   *)
(* and not the command's: it ends the whole of it, with an exception.      *)
NowhereToRun ==
    /\ AtCommand /\ ~decided
    /\ Cmd.wanted
    /\ ~HasSomewhereToRun
    /\ state' = "threw"
    /\ UNCHANGED <<bundle, at, decided, results, failed, context, tried, wrong>>

MayDecide == AtCommand /\ ~decided /\ Cmd.wanted /\ HasSomewhereToRun

DecideToRun ==
    /\ MayDecide
    /\ decided' = TRUE
    /\ UNCHANGED <<bundle, at, results, failed, context, state, tried, wrong>>

DecideToSkip ==
    /\ MayDecide
    /\ Cmd.optional
    /\ Settle("skipped")
    /\ UNCHANGED <<bundle, context, tried, wrong>>

(* Deciding reads the configuration, and so may fail.  The failure is      *)
(* recorded, and then halts the bundle if it is to halt; if it is to keep  *)
(* going, it goes on to carry out the very command.                        *)
DecidingFails ==
    /\ MayDecide
    /\ Cmd.optional
    /\ results' = [results EXCEPT ![at] = "error"]
    /\ failed' = TRUE
    /\ wrong' = wrong \union {at}
    /\ IF bundle.continueOnFailure
       THEN decided' = TRUE /\ UNCHANGED state
       ELSE state' = "halted" /\ UNCHANGED decided
    /\ UNCHANGED <<bundle, at, context, tried>>

\* A builder won't build without what it needs from earlier commands.
CanBeBuilt == \A k \in Cmd.needs : context[k] # 0

\* Fault: a slot that is filled stays as it is.
SavedOnce == [k \in Value |-> IF k \in Cmd.saves /\ context[k] = 0 THEN at ELSE context[k]]

\* The context with this command's findings folded in (contextUpdates).
Saved == [k \in Value |-> IF k \in Cmd.saves THEN at ELSE context[k]]

Works ==
    /\ AtCommand /\ decided
    /\ CanBeBuilt
    /\ Settle("ok")
    /\ context' = Saved
    /\ tried' = tried \union {at}
    /\ UNCHANGED <<bundle, wrong>>

(* Output that doesn't parse is kept as it came, and nothing is saved.     *)
DoesNotParse ==
    /\ AtCommand /\ decided
    /\ CanBeBuilt
    /\ Cmd.outputs = "json"
    /\ Settle("unparsed")
    /\ tried' = tried \union {at}
    /\ UNCHANGED <<bundle, context, wrong>>

Fails ==
    /\ AtCommand /\ decided
    /\ Settle("error")
    /\ tried' = IF CanBeBuilt THEN tried \union {at} ELSE tried
    /\ wrong' = wrong \union {at}
    /\ UNCHANGED <<bundle, context>>

Done ==
    /\ state = "running" /\ at \notin Positions
    /\ state' = "done"
    /\ UNCHANGED <<bundle, at, decided, results, failed, context, tried, wrong>>

BundleNext ==
    \/ PassOver \/ NowhereToRun
    \/ DecideToRun \/ DecideToSkip \/ DecidingFails
    \/ Works \/ DoesNotParse \/ Fails \/ Done

BundleSpec == BundleInit /\ [][BundleNext]_bundleVars

-----------------------------------------------------------------------------
FailedCommands == {i \in Positions : results[i] = "error"}

BundleTypeOK ==
    /\ bundle \in Bundles \intersect BundleType
    /\ at \in 1..Len(bundle.commands) + 1
    /\ decided \in BOOLEAN
    /\ results \in [Positions -> Outcome]
    /\ failed \in BOOLEAN
    /\ context \in [Value -> Positions \union {0}]
    /\ state \in {"running", "halted", "threw", "done"}
    /\ tried \subseteq Positions
    /\ wrong \subseteq Positions

(* A bundle that halts at a failure carries nothing out after one: what    *)
(* came after was written for a node that got through what came before.    *)
NothingAfterFailure ==
    ~bundle.continueOnFailure => \A i \in wrong, j \in tried : j <= i

(* Whoever asks a bundle that halts whether it failed hears of exactly the *)
(* failure that stopped it.                                                *)
HaltedMeansFailed ==
    /\ ~bundle.continueOnFailure => FailedCommands = wrong /\ (failed <=> wrong # {})
    /\ state = "halted" => failed /\ ~bundle.continueOnFailure

(* A bundle told to keep going leaves no question unasked: by the end each *)
(* command it wanted has a result, unless there was nowhere to run one.    *)
EverythingAsked ==
    state = "done" =>
        \A i \in Positions : bundle.commands[i].wanted <=> results[i] # "none"

(* What is in the context was put there by a command that was carried out, *)
(* wanted, and worked; and the latest of those to save to a slot wins.     *)
ContextIsEarned ==
    \A k \in Value :
        /\ context[k] # 0 => results[context[k]] = "ok" /\ bundle.commands[context[k]].wanted
        /\ \A i \in tried : results[i] = "ok" /\ k \in bundle.commands[i].saves => i <= context[k]

(* A bundle that halts does nothing after a failure and names it, one that *)
(* goes on asks everything, and what later commands are built from was     *)
(* found by commands that worked.                                          *)
BundleInv ==
    /\ BundleTypeOK
    /\ NothingAfterFailure
    /\ HaltedMeansFailed
    /\ EverythingAsked
    /\ ContextIsEarned
=============================================================================
