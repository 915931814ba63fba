------------------------------- MODULE Console -------------------------------
(***************************************************************************)
(* Meteorologist (ui/meteorologist): people changing the cluster through   *)
(* its pages.  A page is rendered from the cluster and holds a form; a     *)
(* button runs a server action (lib/actions.ts), a sequence of calls to    *)
(* the API server, and its answer renders the page again, while the form   *)
(* keeps what was typed.  The actions of several people interleave call by *)
(* call, and a call may fail.                                              *)
(*                                                                         *)
(* People meet on one of three pages, which share nothing but the client:  *)
(* an application's form, with the namespace's GitLab connections; a       *)
(* namespace's settings; and its DNS providers.  One application, one      *)
(* namespace's settings.  A call that fails did nothing.                   *)
(***************************************************************************)
EXTENDS Domains, Naturals, FiniteSets, Sequences, SequencesExt

CONSTANTS
    Person, None,
    Connection,   \* names of GitLab connections
    Registry,     \* private registries, each with the name of its pull Secret
    Region,       \* regions; None when a namespace runs anywhere
    Account,      \* names of DNS providers
    Namespace,    \* namespaces that providers publish
    Pages,        \* bound: the pages people meet on
    Settled,      \* bound: the namespaces to begin with
    Published,    \* bound: the DNS providers to begin with
    Wishes,       \* bound: the settings people ask for
    Zones,        \* bound: the domains people give a new provider
    MaxEdits,     \* bound: how many times somebody presses a button
    MaxFaults     \* bound: how many calls fail

VARIABLES
    page,         \* the page they meet on
    app,          \* the application
    connections,  \* the GitLab connections that are there
    allowed,      \* whether the namespace has the capability the application needs
    clock,        \* the last version given to the application
    ns,           \* the namespace and its settings
    providers,    \* the DNS providers
    keys,         \* whose credentials each provider's Secret holds
    tab,          \* what each person's page shows
    doing,        \* the server action each has under way
    edits,        \* how many times a button was pressed
    faults        \* how many calls have failed

appVars == <<app, connections, allowed, clock>>
dnsVars == <<providers, keys>>
bounds == <<page, edits, faults>>
vars == <<appVars, ns, dnsVars, tab, doing, bounds>>

ByHand == "by hand"   \* a node selector on something other than the region

ASSUME ConstantsAssumption ==
    /\ None \notin Person \cup Connection \cup Region \cup Registry
    /\ ByHand \notin Region
    /\ Pages \subseteq {"application", "namespace", "dns"}
    /\ \A z \in Zones : z.domains \subseteq Domain /\ z.exclude \subseteq Domain
    /\ MaxEdits \in Nat /\ MaxFaults \in Nat

-----------------------------------------------------------------------------
(* A server action                                                         *)

Idle == [op |-> "idle", says |-> None, left |-> <<>>, seen |-> None,
         ok |-> TRUE, cut |-> FALSE, alone |-> TRUE, fresh |-> TRUE]

Closed == [at |-> "closed"]

Call(do, of) == [do |-> do, of |-> of]
Calls(names) == [n \in DOMAIN names |-> Call(names[n], None)]
When(condition, calls) == IF condition THEN calls ELSE <<>>

\* fresh: the page shows the settings as they are, and nobody changed them since.
Begin(p, op, says, calls) ==
    /\ doing[p].op = "idle" /\ edits < MaxEdits
    /\ edits' = edits + 1
    /\ doing' = [doing EXCEPT ![p] =
                    [Idle EXCEPT !.op = op, !.says = says, !.left = calls,
                                 !.fresh = tab[p].at \in {"settings", "making"}
                                            /\ tab[p].from = ns]]
    /\ UNCHANGED <<appVars, ns, dnsVars, tab, page, faults>>

Comes(p, do) == doing[p].left # <<>> /\ Head(doing[p].left).do = do
Of(p) == Head(doing[p].left).of
Says(p) == doing[p].says

\* A call that reads.
Reads(p, seen, calls) ==
    /\ doing' = [doing EXCEPT ![p].seen = seen, ![p].left = calls \o Tail(@)]
    /\ UNCHANGED <<appVars, ns, dnsVars, tab, bounds>>

\* A call that changes the cluster, and so what every action under way goes by.
Writes(p) ==
    /\ doing' = [q \in Person |->
                    IF q = p THEN [doing[p] EXCEPT !.left = Tail(@)]
                    ELSE IF doing[q].op = "idle" THEN Idle
                    ELSE [doing[q] EXCEPT !.alone = FALSE, !.fresh = FALSE]]
    /\ UNCHANGED <<tab, bounds>>

\* run(): what is thrown becomes the answer, and nothing more is called.
Thrown(p) == doing' = [doing EXCEPT ![p].ok = FALSE, ![p].left = <<>>]

Refused(p) == Thrown(p) /\ UNCHANGED <<appVars, ns, dnsVars, tab, bounds>>

CallFails(p) ==
    /\ doing[p].left # <<>> /\ faults < MaxFaults
    /\ faults' = faults + 1
    /\ doing' = [doing EXCEPT ![p].ok = FALSE, ![p].left = <<>>, ![p].cut = TRUE]
    /\ UNCHANGED <<appVars, ns, dnsVars, tab, page, edits>>

-----------------------------------------------------------------------------
(* An application and the connection it updates through                    *)

\* The form as it opens, with what is about to be typed: shown is whose
\* text the form's fields hold, opened the application it was opened on.
OpenForm(p) ==
    /\ page = "application" /\ doing[p].op = "idle" /\ edits < MaxEdits
    /\ \E through \in connections \cup {IF app = None THEN None ELSE app.through} :
          tab' = [tab EXCEPT ![p] =
                     [at |-> IF app = None THEN "new" ELSE "editing",
                      version |-> IF app = None THEN 0 ELSE app.version,
                      shown |-> p, through |-> through, opened |-> app, again |-> FALSE]]
    /\ UNCHANGED <<appVars, ns, dnsVars, doing, bounds>>

SaveWebApplication(p) ==
    CASE tab[p].at = "editing" -> Begin(p, "save", tab[p], Calls(<<"read", "replace">>))
      [] tab[p].at = "new"     -> Begin(p, "save", tab[p], Calls(<<"create">>))
      [] OTHER                 -> FALSE

ReadApplication(p) ==
    /\ Comes(p, "read")
    /\ IF app = None THEN Refused(p) ELSE Reads(p, app, <<>>)

\* Fault: the version sent back is the one just read.
BaseAsRead(p) == doing[p].seen

\* The resource as it is now, at the version the page was rendered with.
Base(p) == [doing[p].seen EXCEPT !.version = Says(p).version]

\* The form's fields written over the resource, which keeps the others.
FromForm(base, says) == [base EXCEPT !.shown = says.shown, !.through = says.through]

ReplaceApplication(p) ==
    /\ Comes(p, "replace")
    /\ IF app = None \/ app.version # Base(p).version THEN Refused(p)
       ELSE /\ clock' = clock + 1
            /\ app' = [FromForm(Base(p), Says(p)) EXCEPT !.version = clock']
            /\ Writes(p)
            /\ UNCHANGED <<connections, allowed, ns, dnsVars>>

CreateApplication(p) ==
    /\ Comes(p, "create")
    /\ IF app # None THEN Refused(p)
       ELSE /\ clock' = clock + 1
            /\ app' = [version |-> clock', shown |-> p, hidden |-> "unset",
                       through |-> Says(p).through]
            /\ Writes(p)
            /\ UNCHANGED <<connections, allowed, ns, dnsVars>>

\* Asked for by typing the name; one that has gone already is no error.
DeleteWebApplication(p) ==
    page = "application" /\ app # None /\ Begin(p, "delete", None, Calls(<<"delete">>))

DeleteApplication(p) ==
    /\ Comes(p, "delete")
    /\ app' = None
    /\ Writes(p)
    /\ UNCHANGED <<connections, allowed, clock, ns, dnsVars>>

\* "Allow it", on the form.
SetNamespaceCapability(p) ==
    tab[p].at \in {"new", "editing"} /\ ~allowed /\ Begin(p, "allow", None, Calls(<<"patch">>))

PatchLabels(p) ==
    /\ Comes(p, "patch")
    /\ allowed' = TRUE
    /\ Writes(p)
    /\ UNCHANGED <<app, connections, clock, ns, dnsVars>>

CreateGitLabConnection(p) ==
    /\ page = "application"
    /\ \E c \in Connection : Begin(p, "connect", c, Calls(<<"try the token", "create Secret">>))

TryToken(p) == Comes(p, "try the token") /\ Reads(p, None, <<>>)

CreateConnection(p) ==
    /\ Comes(p, "create Secret")
    /\ IF Says(p) \in connections THEN Refused(p)
       ELSE /\ connections' = connections \cup {Says(p)}
            /\ Writes(p)
            /\ UNCHANGED <<app, allowed, clock, ns, dnsVars>>

Removal == Calls(<<"list Secrets", "list users", "delete Secret">>)

DeleteGitLabConnection(p) ==
    page = "application" /\ \E c \in connections : Begin(p, "disconnect", c, Removal)

ListSecrets(p) ==
    /\ Comes(p, "list Secrets")
    /\ IF Says(p) \in connections THEN Reads(p, None, <<>>) ELSE Refused(p)

ListUsers(p) ==
    /\ Comes(p, "list users")
    /\ IF app # None /\ app.through = Says(p) THEN Refused(p) ELSE Reads(p, None, <<>>)

DeleteConnection(p) ==
    /\ Comes(p, "delete Secret")
    /\ connections' = connections \ {Says(p)}
    /\ Writes(p)
    /\ UNCHANGED <<app, allowed, clock, ns, dnsVars>>

\* Somebody edits a field the form doesn't show; Cirrus writes the status.
Elsewhere ==
    /\ page = "application" /\ app # None /\ edits < MaxEdits
    /\ edits' = edits + 1
    /\ clock' = clock + 1
    /\ \E hidden \in {app.hidden, "set"} :
          app' = [app EXCEPT !.version = clock', !.hidden = hidden]
    /\ doing' = [p \in Person |-> IF doing[p].op = "idle" THEN Idle
                                  ELSE [doing[p] EXCEPT !.alone = FALSE]]
    /\ UNCHANGED <<connections, allowed, ns, dnsVars, tab, page, faults>>

-----------------------------------------------------------------------------
(* A namespace's settings                                                  *)

\* quota: what is limited; limits: what containers get when they don't say;
\* defaults: the pull Secrets of the default ServiceAccount.
NoNamespace == [there |-> FALSE, placed |-> None, legacy |-> None, quota |-> {},
                limits |-> {}, defaults |-> {}, secrets |-> {}]

\* A node selector by hand is no region of this form's.
LegacyRegionOf(n) == IF n.legacy = ByHand THEN None ELSE n.legacy

PlacementOf(n) == IF n.placed # None THEN n.placed ELSE LegacyRegionOf(n)

\* Storage is what every volume states anyhow.
Valid(f) == f.quota \ {"storage"} \subseteq f.limits /\ f.keep \cap f.registries = {}

\* The form of the namespace as it is, and then as somebody wishes; without
\* a wish for it the region stays as shown.
NamespaceForm(shown, wish, keep) ==
    [region |-> IF wish.move THEN wish.region ELSE PlacementOf(shown),
     quota |-> wish.quota, limits |-> wish.limits, keep |-> keep,
     registries |-> wish.registries]

OpenSettings(p) ==
    /\ page = "namespace" /\ doing[p].op = "idle" /\ edits < MaxEdits
    /\ \E wish \in Wishes, keep \in {{}, ns.defaults, ns.defaults \cup ns.secrets} :
          tab' = [tab EXCEPT ![p] =
                     [at |-> IF ns.there THEN "settings" ELSE "making", from |-> ns,
                      says |-> NamespaceForm(ns, wish, keep)]]
    /\ UNCHANGED <<appVars, ns, dnsVars, doing, bounds>>

QuotaAndDefaults(f) ==
    When(f.limits # {}, <<Call("limits", None)>>)
    \o <<Call(IF f.quota # {} THEN "quota" ELSE "no quota", None)>>
    \o When(f.limits = {}, <<Call("no limits", None)>>)

PullSecrets(f) == [n \in 1 .. Cardinality(f.registries) |->
                      Call("pull Secret", SetToSeq(f.registries)[n])]

ApplyNamespaceSettings(f) ==
    QuotaAndDefaults(f) \o PullSecrets(f) \o <<Call("defaults", None)>>

\* The selector comes off only if it is one this form could have set.
PlacementPatch(f, n) ==
    When(f.region # None \/ n.placed # None, <<Call("label", None)>>)
    \o When(LegacyRegionOf(n) # None, <<Call("annotate", None)>>)

CreateNamespace(p) ==
    /\ tab[p].at = "making" /\ Valid(tab[p].says)
    /\ Begin(p, "make", tab[p].says,
             <<Call("create Namespace", None)>> \o ApplyNamespaceSettings(tab[p].says))

SaveNamespaceSettings(p) ==
    /\ tab[p].at = "settings" /\ Valid(tab[p].says)
    /\ Begin(p, "settle", tab[p].says,
             <<Call("get Namespace", None)>> \o ApplyNamespaceSettings(tab[p].says))

GetNamespace(p) ==
    Comes(p, "get Namespace") /\ Reads(p, None, PlacementPatch(Says(p), ns))

\* What the API server refuses: making what is there.  Taking off what isn't
\* there is no error.
Conflicting(do) == FALSE

Refuses(p) ==
    CASE Comes(p, "create Namespace") -> ns.there
      [] Comes(p, "pull Secret")      -> Of(p) \in ns.secrets
      [] OTHER                        -> Conflicting(Head(doing[p].left).do)

\* What a call makes of the namespace.
Changed(do, of, f) ==
    CASE do = "create Namespace" -> [NoNamespace EXCEPT !.there = TRUE, !.placed = f.region]
      [] do = "label"       -> [ns EXCEPT !.placed = f.region]
      [] do = "annotate"    -> [ns EXCEPT !.legacy = None]
      [] do = "limits"      -> [ns EXCEPT !.limits = f.limits]
      [] do = "quota"       -> [ns EXCEPT !.quota = f.quota]
      [] do = "no quota"    -> [ns EXCEPT !.quota = {}]
      [] do = "no limits"   -> [ns EXCEPT !.limits = {}]
      [] do = "pull Secret" -> [ns EXCEPT !.secrets = @ \cup {of}]
      [] do = "defaults"    -> [ns EXCEPT !.defaults = f.keep \cup f.registries]

SettlesNamespace(p) ==
    /\ doing[p].op \in {"make", "settle"} /\ doing[p].left # <<>> /\ ~Comes(p, "get Namespace")
    /\ IF Refuses(p) THEN Refused(p)
       ELSE /\ ns' = Changed(Head(doing[p].left).do, Of(p), Says(p))
            /\ Writes(p)
            /\ UNCHANGED <<appVars, dnsVars>>

-----------------------------------------------------------------------------
(* DNS providers                                                           *)

\* What the console asks of a set of providers: that no domain of one is
\* inside another's, and not excluded there, when they publish other namespaces.
DomainConflicts(all, only) ==
    \E a, b \in Account :
        /\ a # b /\ only \in {a, b} /\ all[a] # None /\ all[b] # None
        /\ all[a].namespaces # all[b].namespaces
        /\ \E narrow \in all[b].domains, broad \in all[a].domains :
              /\ IsWithin(narrow, broad)
              /\ \/ narrow = broad
                 \/ ~ \E e \in all[a].exclude : IsWithin(narrow, e)

WithNamespace(provider, namespace, publish) ==
    [provider EXCEPT !.namespaces = IF publish THEN @ \cup {namespace} ELSE @ \ {namespace}]

FromDnsForm(zone, namespace) ==
    [domains |-> zone.domains, exclude |-> zone.exclude, namespaces |-> {namespace}]

SetDnsPublishing(p) ==
    /\ page = "dns"
    /\ \E a \in Account, n \in Namespace, publish \in BOOLEAN :
          /\ providers[a] # None
          /\ Begin(p, "publish", [account |-> a, namespace |-> n, publish |-> publish],
                   Calls(<<"list to publish", "apply provider">>))

\* Fault: the providers are compared as they are, not as they would be.
RefusesAsItIs(p) ==
    Says(p).publish /\ DomainConflicts(providers, Says(p).account)

RefusesToPublish(p) ==
    LET says == Says(p)
        changed == WithNamespace(providers[says.account], says.namespace, says.publish)
    IN  says.publish /\ DomainConflicts([providers EXCEPT ![says.account] = changed], says.account)

ListToPublish(p) ==
    /\ Comes(p, "list to publish")
    /\ LET says == Says(p)
       IN  IF providers[says.account] = None \/ RefusesToPublish(p) THEN Refused(p)
           ELSE Reads(p, WithNamespace(providers[says.account], says.namespace, says.publish), <<>>)

CreateDnsProvider(p) ==
    /\ page = "dns"
    /\ \E a \in Account, n \in Namespace, zone \in Zones :
          Begin(p, "add", [account |-> a, spec |-> FromDnsForm(zone, n)],
                Calls(<<"list to add", "apply credentials", "apply provider">>))

ListToAdd(p) ==
    /\ Comes(p, "list to add")
    /\ LET says == Says(p)
       IN  IF \/ providers[says.account] # None
              \/ DomainConflicts([providers EXCEPT ![says.account] = says.spec], says.account)
           THEN Refused(p)
           ELSE Reads(p, says.spec, <<>>)

\* Server-side apply, by force: made or replaced, whoever made it.
ApplyCredentials(p) ==
    /\ Comes(p, "apply credentials")
    /\ keys' = [keys EXCEPT ![Says(p).account] = p]
    /\ Writes(p)
    /\ UNCHANGED <<appVars, ns, providers>>

ApplyProvider(p) ==
    /\ Comes(p, "apply provider")
    /\ providers' = [providers EXCEPT ![Says(p).account] = doing[p].seen]
    /\ Writes(p)
    /\ UNCHANGED <<appVars, ns, keys>>

-----------------------------------------------------------------------------
(* The answer, and the page rendered again                                 *)

\* revalidatePath: the form gets the application's version as it is by now,
\* and keeps its text.
Rerendered(t) ==
    CASE t.at = "editing" /\ app = None -> Closed
      [] t.at = "editing" /\ app # None -> [t EXCEPT !.version = app.version, !.again = TRUE]
      [] OTHER -> t

\* What a form does with a good answer: it leaves for the page of what was
\* made, or keeps the Secrets just made among those to name.
Answered(p) ==
    CASE doing[p].op \in {"save", "make"} -> Closed
      [] doing[p].op = "settle" ->
            [tab[p] EXCEPT !.says.keep = @ \cup tab[p].says.registries, !.says.registries = {}]
      [] doing[p].op = "allow" -> Rerendered(tab[p])
      [] OTHER -> tab[p]

Answers(p) ==
    /\ doing[p].op # "idle" /\ doing[p].left = <<>>
    /\ doing' = [doing EXCEPT ![p] = Idle]
    /\ tab' = [tab EXCEPT ![p] =
                  IF doing[p].ok THEN Answered(p)
                  ELSE IF doing[p].op \in {"save", "allow"} THEN Rerendered(tab[p])
                  ELSE tab[p]]
    /\ UNCHANGED <<appVars, ns, dnsVars, bounds>>

-----------------------------------------------------------------------------
Init ==
    /\ page \in Pages
    /\ connections \in IF page = "application" THEN SUBSET Connection ELSE {{}}
    /\ app \in {None} \cup IF page # "application" THEN {}
                         ELSE [version : {1}, shown : {None}, hidden : {"unset", "set"},
                               through : connections \cup {None}]
    /\ clock = IF app = None THEN 0 ELSE 1
    /\ allowed = FALSE
    /\ ns \in IF page = "namespace" THEN Settled ELSE {NoNamespace}
    /\ providers \in IF page = "dns" THEN Published ELSE {[a \in Account |-> None]}
    /\ keys = [a \in Account |-> None]
    /\ tab = [p \in Person |-> Closed]
    /\ doing = [p \in Person |-> Idle]
    /\ edits = 0 /\ faults = 0

Presses(p) ==
    \/ SaveWebApplication(p) \/ DeleteWebApplication(p) \/ SetNamespaceCapability(p)
    \/ CreateGitLabConnection(p) \/ DeleteGitLabConnection(p)
    \/ CreateNamespace(p) \/ SaveNamespaceSettings(p)
    \/ SetDnsPublishing(p) \/ CreateDnsProvider(p)

Proceeds(p) ==
    \/ ReadApplication(p) \/ ReplaceApplication(p) \/ CreateApplication(p)
    \/ DeleteApplication(p) \/ PatchLabels(p)
    \/ TryToken(p) \/ CreateConnection(p)
    \/ ListSecrets(p) \/ ListUsers(p) \/ DeleteConnection(p)
    \/ GetNamespace(p) \/ SettlesNamespace(p)
    \/ ListToPublish(p) \/ ListToAdd(p) \/ ApplyCredentials(p) \/ ApplyProvider(p)

Next ==
    \/ \E p \in Person : \/ OpenForm(p) \/ OpenSettings(p)
                         \/ Presses(p) \/ Proceeds(p) \/ CallFails(p) \/ Answers(p)
    \/ Elsewhere

Spec == Init /\ [][Next]_vars

-----------------------------------------------------------------------------
(* Properties                                                              *)

Settings == [there : BOOLEAN, placed : Region \cup {None},
             legacy : Region \cup {None, ByHand}, quota : SUBSET {"cpu", "memory", "storage"},
             limits : SUBSET {"cpu", "memory"}, defaults : SUBSET Registry,
             secrets : SUBSET Registry]

\* What there is to begin with has its types, and each ServiceAccount has the
\* pull Secrets it names.
ASSUME BeginningsAssumption ==
    /\ IsFiniteSet(Registry) /\ None # ByHand
    /\ Wishes \subseteq [move : BOOLEAN, region : Region \cup {None},
                         quota : SUBSET {"cpu", "memory", "storage"},
                         limits : SUBSET {"cpu", "memory"}, registries : SUBSET Registry]
    /\ \A s \in Settled : /\ s \in Settings
                          /\ ~s.there => s = NoNamespace
                          /\ s.defaults \subseteq s.secrets
    /\ LET Provider == [domains : SUBSET Domain, exclude : SUBSET Domain,
                        namespaces : SUBSET Namespace]
       IN  None \notin Provider /\ Published \subseteq [Account -> Provider \cup {None}]

\* The state of the cluster has its types, and no page is ahead of it.
TypeOK ==
    /\ app # None => /\ app.version \in 1 .. clock
                     /\ app.shown \in Person \cup {None} /\ app.through \in Connection \cup {None}
    /\ connections \subseteq Connection
    /\ ns \in Settings
    /\ \A p \in Person : tab[p].at = "editing" => tab[p].version <= clock

Ended(p, op) == doing[p].op = op /\ doing[p].left = <<>>

\* p's action went well, and nobody changed anything while it was under way.
Undisturbed(p, op) == Ended(p, op) /\ doing[p].ok /\ doing[p].alone

Replaces(p) == Comes(p, "replace") /\ doing'[p].left = <<>> /\ doing'[p].ok

\* A page that was rendered only once saves onto the very application it was
\* opened on: whatever changed since, by whoever and in whatever field, has the
\* save refused (saveWebApplication's resourceVersion).
FirstSaveIsSafe ==
    [][\A p \in Person : Replaces(p) /\ ~Says(p).again => app = Says(p).opened]_vars

\* A save changes nothing that the form doesn't show, even where that changed
\* after the form was opened (fromForm, over the resource as it is now).
HiddenIsKept ==
    [][\A p \in Person : Replaces(p) => app'.hidden = app.hidden]_vars

\* What a save replaces is what its form was opened on, "a change someone else
\* made in the meantime is refused rather than overwritten" (actions.ts).
\* Doesn't hold, and no run checks it (README, Observed on the way).
RefusedNotOverwritten ==
    [][\A p \in Person : Replaces(p) => app.shown = Says(p).opened.shown]_vars

\* A connection removed while nobody else did anything is one that no
\* application updates through (deleteGitLabConnection).
UsedIsKept ==
    \A p \in Person :
        Undisturbed(p, "disconnect") /\ app # None => app.through # Says(p)

\* From a namespace with no quota, or whose limited resources a form still has
\* defaults for, at no moment of one person's save, and wherever it stops, is
\* anything limited that has no default (applyNamespaceSettings' order).
DefaultsFirst ==
    \A p \in Person :
        LET from == tab[p].from
            f == Says(p)
        IN  /\ doing[p].op \in {"make", "settle"} /\ doing[p].alone
            /\ from.quota \ {"storage"} \subseteq from.limits
            /\ f.limits = {} \/ from.quota \ {"storage"} \subseteq f.limits
            /\ doing[p].fresh
            => ns.quota \ {"storage"} \subseteq ns.limits

\* The default ServiceAccount never names a pull Secret that isn't there,
\* whoever saves over whom and wherever a save stops.
PullsAreThere == ns.defaults \subseteq ns.secrets

\* Settings saved while nobody else did anything are what the form says: the
\* region by its label only, nothing left of what the form leaves empty, and a
\* selector somebody wrote by hand untouched.
SettledAsTyped ==
    \A p \in Person :
        LET f == Says(p)
        IN  Undisturbed(p, "make") \/ Undisturbed(p, "settle") =>
                /\ PlacementOf(ns) = f.region /\ LegacyRegionOf(ns) = None
                /\ ns.quota = f.quota /\ ns.limits = f.limits
                /\ ns.defaults = f.keep \cup f.registries
                /\ doing[p].fresh /\ tab[p].from.legacy = ByHand => ns.legacy = ByHand

\* A namespace that was only partly made can be finished on its page, as its
\* maker is told (createNamespace): settings saved from the page as it is now
\* are refused only for a registry that has its Secret already.
FinishesOnItsPage ==
    \A p \in Person :
        /\ Ended(p, "settle") /\ doing[p].fresh /\ ~doing[p].cut
        /\ Says(p).registries \cap tab[p].from.secrets = {}
        => doing[p].ok

\* A provider added, or a namespace published, while nobody else did anything
\* writes no name that another may: Cirrus, which stops providers that could
\* (dns/conflicts.rs), finds none it would stop for it.  An added one has the
\* credentials that were typed with it.
PublishesApart ==
    \A p \in Person :
        /\ Undisturbed(p, "add") \/ (Undisturbed(p, "publish") /\ Says(p).publish)
           => \A a \in Account \ {Says(p).account} :
                 providers[a] # None => ~Conflict(providers[Says(p).account], providers[a])
        /\ Undisturbed(p, "add") => keys[Says(p).account] = p

(* Settings of a namespace saved in several calls, any of which may fail:  *)
(* no moment refuses its pods, a save that ends has done what the form     *)
(* said, and one that did not can be finished from the same page.          *)
SettlesSafely ==
    /\ TypeOK
    /\ DefaultsFirst
    /\ PullsAreThere
    /\ SettledAsTyped
    /\ FinishesOnItsPage

(* What is checked against other objects before it is written still holds  *)
(* after, if nobody else changed anything: a connection removed is used by *)
(* no application, and a provider that publishes conflicts with none.      *)
RelatedKept ==
    /\ UsedIsKept
    /\ PublishesApart

(* What the pages promise of the cluster's objects, at every moment.       *)
ConsoleInv ==
    /\ SettlesSafely
    /\ RelatedKept

(* The first save of a form replaces only what the form was opened on, and *)
(* no save changes what the form doesn't show.                             *)
SavesAreSafe ==
    /\ FirstSaveIsSafe
    /\ HiddenIsKept
=============================================================================
