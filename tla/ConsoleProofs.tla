----------------------------- MODULE ConsoleProofs -----------------------------
(***************************************************************************)
(* What the pages of the Console promise, proved for any people, settings  *)
(* of a namespace, registries, connections, providers and domains.  Each   *)
(* action is followed call by call, with other people's calls in between;  *)
(* what `alone' says of an action is what nobody else's call disturbed.    *)
(***************************************************************************)
EXTENDS Console, FiniteSetTheorems, SequenceTheorems, TLAPS

-----------------------------------------------------------------------------
(* What there is                                                           *)

Application == [version : Nat, shown : Person \cup {None}, hidden : {"unset", "set"},
                through : Connection \cup {None}]

Resource == {"cpu", "memory", "storage"}

Form == [region : Region \cup {None}, quota : SUBSET Resource,
         limits : SUBSET {"cpu", "memory"}, keep : SUBSET Registry,
         registries : SUBSET Registry]

AWish == [move : BOOLEAN, region : Region \cup {None}, quota : SUBSET Resource,
         limits : SUBSET {"cpu", "memory"}, registries : SUBSET Registry]

Provider == [domains : SUBSET Domain, exclude : SUBSET Domain, namespaces : SUBSET Namespace]

(* The namespaces and providers to begin with are what they are said to be: *)
(* one that isn't there has nothing, and the ServiceAccount of one that is  *)
(* names pull Secrets that are.                                             *)
Beginnings ==
    /\ IsFiniteSet(Registry)
    /\ Wishes \subseteq AWish
    /\ \A s \in Settled : /\ s \in Settings
                          /\ ~s.there => s = NoNamespace
                          /\ s.defaults \subseteq s.secrets
    /\ Published \subseteq [Account -> Provider \cup {None}]
    /\ None \notin Provider /\ None # ByHand

(* It is what the constants are assumed to be.                             *)
LEMMA AtFirst == Beginnings
BY BeginningsAssumption DEF Beginnings, AWish, Resource, Provider

-----------------------------------------------------------------------------
(* The calls of an action that are still to come                           *)

Elements(s) == {s[n] : n \in 1 .. Len(s)}

\* The order in which an action makes its calls.
Turn(do) ==
    CASE do \in {"label", "list users", "replace", "create Secret", "apply credentials"} -> 1
      [] do \in {"annotate", "delete Secret", "apply provider"} -> 2
      [] do = "limits" -> 3
      [] do \in {"quota", "no quota"} -> 4
      [] do = "no limits" -> 5
      [] do = "pull Secret" -> 6
      [] do = "defaults" -> 7
      [] OTHER -> 0

Precedes(c, d) ==
    Turn(c.do) < Turn(d.do) \/ (c.do = "pull Secret" /\ d.do = "pull Secret" /\ c.of # d.of)

Ordered(s) == \A m, n \in 1 .. Len(s) : m < n => Precedes(s[m], s[n])

Steps == {"read", "replace", "create", "delete", "patch", "try the token", "create Secret",
          "list Secrets", "list users", "delete Secret", "get Namespace", "create Namespace",
          "label", "annotate", "limits", "quota", "no quota", "no limits", "pull Secret",
          "defaults", "list to publish", "list to add", "apply credentials", "apply provider"}

Ops == {"idle", "save", "delete", "allow", "connect", "disconnect", "make", "settle",
        "publish", "add"}

ACall == [do : Steps, of : Registry \cup {None}]

\* The actions that make a call.
By(do) ==
    CASE do \in {"read", "replace", "create"} -> {"save"}
      [] do = "delete" -> {"delete"}
      [] do = "patch" -> {"allow"}
      [] do \in {"try the token", "create Secret"} -> {"connect"}
      [] do \in {"list Secrets", "list users", "delete Secret"} -> {"disconnect"}
      [] do = "create Namespace" -> {"make"}
      [] do \in {"get Namespace", "label", "annotate"} -> {"settle"}
      [] do = "list to publish" -> {"publish"}
      [] do \in {"list to add", "apply credentials"} -> {"add"}
      [] do = "apply provider" -> {"publish", "add"}
      [] OTHER -> {"make", "settle"}

Left(p) == Elements(doing[p].left)
Pending(p, do) == \E c \in Left(p) : c.do = do
PullPending(p, r) == \E c \in Left(p) : c.do = "pull Secret" /\ c.of = r

-----------------------------------------------------------------------------
(* The inductive invariant                                                 *)

EditingTab == [at : {"editing"}, version : Nat, shown : Person,
               through : Connection \cup {None}, opened : Application, again : BOOLEAN]
NewTab == [at : {"new"}, version : Nat, shown : Person,
           through : Connection \cup {None}, opened : {None}, again : BOOLEAN]
SettingsTab == [at : {"settings", "making"}, from : Settings, says : Form]

Cluster ==
    /\ clock \in Nat
    /\ app = None \/ (app \in Application /\ app.version \in 1 .. clock)
    /\ connections \subseteq Connection
    /\ ns \in Settings
    /\ ~ns.there => ns = NoNamespace
    /\ ns.defaults \subseteq ns.secrets
    /\ providers \in [Account -> Provider \cup {None}]
    /\ keys \in [Account -> Person \cup {None}]
    /\ tab \in [Person -> {Closed} \cup EditingTab \cup NewTab \cup SettingsTab]
    /\ DOMAIN doing = Person

\* A form that was rendered once shows the version it was opened at.
Tab(p) ==
    /\ tab[p].at = "editing" =>
          /\ tab[p].version <= clock
          /\ ~tab[p].again => app = None \/ app.version # tab[p].version \/ app = tab[p].opened
    /\ tab[p].at \in {"settings", "making"} => tab[p].says.keep \subseteq ns.secrets
    /\ tab[p].at = "settings" => ns.there
    /\ tab[p].at = "making" => tab[p].from = NoNamespace

\* doing[p] is an action with its calls in their order.
Doing(p) ==
    /\ doing[p] = [op |-> doing[p].op, says |-> doing[p].says, left |-> doing[p].left,
                   seen |-> doing[p].seen, ok |-> doing[p].ok, cut |-> doing[p].cut,
                   alone |-> doing[p].alone, fresh |-> doing[p].fresh]
    /\ doing[p].op \in Ops
    /\ doing[p].ok \in BOOLEAN /\ doing[p].cut \in BOOLEAN
    /\ doing[p].alone \in BOOLEAN /\ doing[p].fresh \in BOOLEAN
    /\ doing[p].left \in Seq(ACall)
    /\ Ordered(doing[p].left)
    /\ \A c \in Left(p) : doing[p].op \in By(c.do)
    /\ ~doing[p].ok => doing[p].left = <<>>
    /\ doing[p].op = "idle" => doing[p] = Idle

\* What was read at the version the page shows is what is there, if that is
\* still the version.
Saves(p) ==
    doing[p].op = "save" =>
        /\ tab[p].at \in {"editing", "new"}
        /\ doing[p].says = tab[p]
        /\ Pending(p, "read") \/ Pending(p, "replace") => tab[p].at = "editing"
        /\ Pending(p, "create") => tab[p].at = "new"
        /\ Pending(p, "replace") /\ ~Pending(p, "read") =>
              /\ doing[p].seen \in Application
              /\ app = None \/ app.version # tab[p].version \/ app = doing[p].seen

Connects(p) == doing[p].op = "connect" => doing[p].says \in Connection

Disconnects(p) ==
    doing[p].op = "disconnect" /\ doing[p].ok /\ doing[p].alone =>
        app = None \/ app.through # doing[p].says \/ Pending(p, "list users")

Settling(p) == doing[p].op \in {"make", "settle"}

\* The calls of a save of settings are those its form asks for.
Asked(p) ==
    LET f == doing[p].says
    IN  Settling(p) =>
            /\ tab[p].at = IF doing[p].op = "make" THEN "making" ELSE "settings"
            /\ f = tab[p].says /\ Valid(f)
            /\ doing[p].left # <<>> /\ ~Pending(p, "create Namespace") => ns.there
            /\ Pending(p, "label") \/ Pending(p, "annotate") => ~Pending(p, "get Namespace")
            /\ Pending(p, "limits") => f.limits # {}
            /\ Pending(p, "no limits") => f.limits = {}
            /\ Pending(p, "quota") => f.quota # {}
            /\ Pending(p, "no quota") => f.quota = {}
            /\ \A r \in Registry \cup {None} : PullPending(p, r) => r \in f.registries
            /\ doing[p].ok => \A r \in f.registries : r \in ns.secrets \/ PullPending(p, r)

Begun(p) == ~Pending(p, "get Namespace") /\ ~Pending(p, "create Namespace")

\* What a save of settings did so far is as typed, and the rest is to come.
Done(p) ==
    LET f == doing[p].says
    IN  Settling(p) /\ doing[p].ok /\ doing[p].alone =>
            /\ Begun(p) => /\ ns.placed = f.region \/ Pending(p, "label")
                           /\ LegacyRegionOf(ns) = None \/ Pending(p, "annotate")
            /\ ns.limits = f.limits \/ Pending(p, "limits") \/ Pending(p, "no limits")
            /\ ns.quota = f.quota \/ Pending(p, "quota") \/ Pending(p, "no quota")
            /\ ns.defaults = f.keep \cup f.registries \/ Pending(p, "defaults")

\* The quota and the defaults on the way from those of the page to the form's.
Between(n, from, f) ==
    \/ n.quota = from.quota /\ n.limits = from.limits
    \/ n.quota = from.quota /\ n.limits = f.limits /\ f.limits # {}
    \/ n.quota = f.quota /\ (n.limits = f.limits \/ f.limits = {})

Steady(p) ==
    LET f == doing[p].says
        from == tab[p].from
    IN  Settling(p) /\ doing[p].fresh /\ doing[p].alone =>
            /\ Between(ns, from, f)
            /\ from.legacy = ByHand => /\ ns.legacy = ByHand \/ doing[p].op = "make"
                                       /\ ~Pending(p, "annotate")

\* Nobody made the Secrets that a fresh page asks for.
Unmade(p) ==
    /\ doing[p].op = "settle" /\ doing[p].fresh /\ ~doing[p].cut
    /\ doing[p].says.registries \cap tab[p].from.secrets = {}
    => /\ doing[p].ok
       /\ \A r \in Registry : PullPending(p, r) => r \notin ns.secrets

AddSays == [account : Account, spec : Provider]
PublishSays == [account : Account, namespace : Namespace, publish : BOOLEAN]

Listed(p) == ~Pending(p, "list to publish") /\ ~Pending(p, "list to add")

\* What was compared with the other providers is still apart from them.
Publishes(p) ==
    LET says == doing[p].says
        seen == doing[p].seen
    IN  doing[p].op \in {"add", "publish"} =>
            /\ says \in IF doing[p].op = "add" THEN AddSays ELSE PublishSays
            /\ Pending(p, "apply provider") /\ Listed(p) => seen \in Provider
            /\ Pending(p, "list to add") => Pending(p, "apply credentials")
            /\ ~Listed(p) => Pending(p, "apply provider")
            /\ doing[p].ok /\ doing[p].alone /\ Listed(p) =>
                  /\ doing[p].op = "add" \/ says.publish =>
                        ~DomainConflicts([providers EXCEPT ![says.account] = seen], says.account)
                  /\ Pending(p, "apply provider") \/ providers[says.account] = seen
                  /\ seen \in Provider
            /\ doing[p].op = "add" /\ doing[p].ok /\ doing[p].alone =>
                  Pending(p, "apply credentials") \/ keys[says.account] = p

Kept(p) ==
    /\ Tab(p) /\ Doing(p)
    /\ Saves(p) /\ Connects(p) /\ Disconnects(p)
    /\ Asked(p) /\ Done(p) /\ Steady(p) /\ Unmade(p)
    /\ Publishes(p)

IInv == Cluster /\ \A p \in Person : Kept(p)

-----------------------------------------------------------------------------
(* Sequences of calls                                                      *)

(* What a sequence of members of S holds is in S.                          *)
LEMMA ElementsIn ==
    ASSUME NEW S, NEW s \in Seq(S)
    PROVE  Elements(s) \subseteq S
BY DEF Elements

(* A sequence with nothing in it.                                          *)
LEMMA NoElements == Elements(<<>>) = {} /\ Ordered(<<>>)
BY DEF Elements, Ordered

(* A sequence of one call.                                                 *)
LEMMA OneElement ==
    ASSUME NEW a \in ACall
    PROVE  <<a>> \in Seq(ACall) /\ Elements(<<a>>) = {a} /\ Ordered(<<a>>)
<1>1. Len(<<a>>) = 1 /\ <<a>>[1] = a
  OBVIOUS
<1>2. 1 .. 1 = {1}
  OBVIOUS
<1> QED  BY <1>1, <1>2 DEF Elements, Ordered

(* What two sequences one after the other hold.                            *)
LEMMA ElementsOfBoth ==
    ASSUME NEW S, NEW s \in Seq(S), NEW t \in Seq(S)
    PROVE  s \o t \in Seq(S) /\ Elements(s \o t) = Elements(s) \cup Elements(t)
<1>1. /\ s \o t \in Seq(S)
      /\ Len(s \o t) = Len(s) + Len(t)
      /\ \A n \in 1 .. Len(s) + Len(t) :
            (s \o t)[n] = IF n <= Len(s) THEN s[n] ELSE t[n - Len(s)]
  OBVIOUS
<1>2. ASSUME NEW x \in Elements(s)
      PROVE  x \in Elements(s \o t)
  <2>1. PICK n \in 1 .. Len(s) : x = s[n]
    BY DEF Elements
  <2>2. n \in 1 .. Len(s \o t) /\ (s \o t)[n] = x
    BY <1>1, <2>1
  <2> QED  BY <2>2 DEF Elements
<1>3. ASSUME NEW x \in Elements(t)
      PROVE  x \in Elements(s \o t)
  <2>1. PICK n \in 1 .. Len(t) : x = t[n]
    BY DEF Elements
  <2>2. n + Len(s) \in 1 .. Len(s \o t) /\ (s \o t)[n + Len(s)] = x
    BY <1>1, <2>1
  <2> QED  BY <2>2 DEF Elements
<1>4. ASSUME NEW x \in Elements(s \o t)
      PROVE  x \in Elements(s) \cup Elements(t)
  <2>1. PICK n \in 1 .. Len(s) + Len(t) : x = (s \o t)[n]
    BY <1>1 DEF Elements
  <2>2. CASE n <= Len(s)
    BY <1>1, <2>1, <2>2 DEF Elements
  <2>3. CASE ~(n <= Len(s))
    <3>1. n - Len(s) \in 1 .. Len(t) /\ x = t[n - Len(s)]
      BY <1>1, <2>1, <2>3
    <3> QED  BY <3>1 DEF Elements
  <2> QED  BY <2>2, <2>3
<1> QED  BY <1>1, <1>2, <1>3, <1>4

(* Two sequences in their order, the first before the second.              *)
LEMMA OrderedBoth ==
    ASSUME NEW s \in Seq(ACall), NEW t \in Seq(ACall), Ordered(s), Ordered(t),
           \A c \in Elements(s), d \in Elements(t) : Precedes(c, d)
    PROVE  Ordered(s \o t)
<1>1. /\ Len(s \o t) = Len(s) + Len(t)
      /\ \A n \in 1 .. Len(s) + Len(t) :
            (s \o t)[n] = IF n <= Len(s) THEN s[n] ELSE t[n - Len(s)]
  OBVIOUS
<1>2. SUFFICES ASSUME NEW m \in 1 .. Len(s) + Len(t), NEW n \in 1 .. Len(s) + Len(t), m < n
               PROVE  Precedes((s \o t)[m], (s \o t)[n])
  BY <1>1 DEF Ordered
<1>3. CASE n <= Len(s)
  <2>1. m \in 1 .. Len(s) /\ n \in 1 .. Len(s) /\ (s \o t)[m] = s[m] /\ (s \o t)[n] = s[n]
    BY <1>1, <1>2, <1>3
  <2> QED  BY <1>2, <2>1 DEF Ordered
<1>4. CASE ~(n <= Len(s)) /\ m <= Len(s)
  <2>1. /\ m \in 1 .. Len(s) /\ n - Len(s) \in 1 .. Len(t)
        /\ (s \o t)[m] = s[m] /\ (s \o t)[n] = t[n - Len(s)]
    BY <1>1, <1>2, <1>4
  <2> QED  BY <2>1 DEF Elements
<1>5. CASE ~(m <= Len(s))
  <2>1. /\ m - Len(s) \in 1 .. Len(t) /\ n - Len(s) \in 1 .. Len(t) /\ m - Len(s) < n - Len(s)
        /\ (s \o t)[m] = t[m - Len(s)] /\ (s \o t)[n] = t[n - Len(s)]
    BY <1>1, <1>2, <1>5
  <2> QED  BY <2>1 DEF Ordered
<1> QED  BY <1>3, <1>4, <1>5

(* The next call and those after it.                                       *)
LEMMA NextCall ==
    ASSUME NEW s \in Seq(ACall), s # <<>>, Ordered(s)
    PROVE  /\ Head(s) \in ACall /\ Tail(s) \in Seq(ACall)
           /\ Elements(s) = {Head(s)} \cup Elements(Tail(s))
           /\ Ordered(Tail(s))
           /\ \A d \in Elements(Tail(s)) : Precedes(Head(s), d)
<1>1. /\ Len(s) \in Nat /\ Len(s) >= 1
      /\ Head(s) = s[1] /\ Head(s) \in ACall
      /\ Tail(s) \in Seq(ACall) /\ Len(Tail(s)) = Len(s) - 1
      /\ \A n \in 1 .. Len(s) - 1 : Tail(s)[n] = s[n + 1]
  OBVIOUS
<1>2. ASSUME NEW x \in Elements(s)
      PROVE  x = Head(s) \/ x \in Elements(Tail(s))
  <2>1. PICK n \in 1 .. Len(s) : x = s[n]
    BY DEF Elements
  <2>2. CASE n = 1
    BY <1>1, <2>1, <2>2
  <2>3. CASE n # 1
    <3>1. n - 1 \in 1 .. Len(s) - 1 /\ x = Tail(s)[n - 1]
      BY <1>1, <2>1, <2>3
    <3> QED  BY <1>1, <3>1 DEF Elements
  <2> QED  BY <2>2, <2>3
<1>3. Head(s) \in Elements(s)
  BY <1>1 DEF Elements
<1>4. ASSUME NEW x \in Elements(Tail(s))
      PROVE  x \in Elements(s) /\ Precedes(Head(s), x)
  <2>1. PICK n \in 1 .. Len(s) - 1 : x = Tail(s)[n]
    BY <1>1 DEF Elements
  <2>2. n + 1 \in 1 .. Len(s) /\ x = s[n + 1] /\ 1 \in 1 .. Len(s) /\ 1 < n + 1
    BY <1>1, <2>1
  <2> QED  BY <1>1, <2>2 DEF Elements, Ordered
<1>5. Ordered(Tail(s))
  <2>1. SUFFICES ASSUME NEW m \in 1 .. Len(s) - 1, NEW n \in 1 .. Len(s) - 1, m < n
                 PROVE  Precedes(Tail(s)[m], Tail(s)[n])
    BY <1>1 DEF Ordered
  <2>2. /\ m + 1 \in 1 .. Len(s) /\ n + 1 \in 1 .. Len(s) /\ m + 1 < n + 1
        /\ Tail(s)[m] = s[m + 1] /\ Tail(s)[n] = s[n + 1]
    BY <1>1, <2>1
  <2> QED  BY <2>2 DEF Ordered
<1> QED  BY <1>1, <1>2, <1>3, <1>4, <1>5

(* A call that needs no more than its name.                                *)
LEMMA CallIs ==
    ASSUME NEW do \in Steps, NEW of \in Registry \cup {None}
    PROVE  Call(do, of) \in ACall /\ Call(do, of).do = do /\ Call(do, of).of = of
BY DEF Call, ACall

(* A call with a name and nothing else.                                    *)
LEMMA NamedCall ==
    \A do \in Steps : /\ Call(do, None) \in ACall
                      /\ Call(do, None).do = do /\ Call(do, None).of = None
BY CallIs

(* When each call has its turn.                                            *)
LEMMA Turns ==
    /\ Turn("create Namespace") = 0 /\ Turn("get Namespace") = 0
    /\ Turn("label") = 1 /\ Turn("annotate") = 2 /\ Turn("limits") = 3
    /\ Turn("quota") = 4 /\ Turn("no quota") = 4 /\ Turn("no limits") = 5
    /\ Turn("pull Secret") = 6 /\ Turn("defaults") = 7
BY DEF Turn

(* The same for the actions of the other pages.                            *)
LEMMA OtherTurns ==
    /\ Turn("read") = 0 /\ Turn("replace") = 1 /\ Turn("create") = 0
    /\ Turn("delete") = 0 /\ Turn("patch") = 0
    /\ Turn("try the token") = 0 /\ Turn("create Secret") = 1
    /\ Turn("list Secrets") = 0 /\ Turn("list users") = 1 /\ Turn("delete Secret") = 2
    /\ Turn("list to publish") = 0 /\ Turn("list to add") = 0
    /\ Turn("apply credentials") = 1 /\ Turn("apply provider") = 2
BY DEF Turn

(* There are eight turns.                                                  *)
LEMMA TurnType == \A do : Turn(do) \in 0 .. 7
BY DEF Turn

(* A function on 1 .. n is a sequence of n members.                        *)
LEMMA FunctionIsSequence ==
    ASSUME NEW S, NEW n \in Nat, NEW f \in [1 .. n -> S]
    PROVE  f \in Seq(S) /\ Len(f) = n
<1>1. f \in Seq(S)
  BY SeqDef
<1>2. DOMAIN f = 1 .. n /\ DOMAIN f = 1 .. Len(f) /\ Len(f) \in Nat
  BY <1>1
<1> QED  BY <1>1, <1>2

(* An action of one, two or three calls.                                   *)
LEMMA CallsOfOne ==
    ASSUME NEW a \in Steps
    PROVE  /\ Calls(<<a>>) \in Seq(ACall) /\ Ordered(Calls(<<a>>))
           /\ Elements(Calls(<<a>>)) = {Call(a, None)}
<1>1. Len(<<a>>) = 1 /\ DOMAIN <<a>> = 1 .. 1 /\ <<a>>[1] = a
  OBVIOUS
<1>2. Calls(<<a>>) = [n \in 1 .. 1 |-> Call(<<a>>[n], None)]
  BY <1>1 DEF Calls
<1>3. Calls(<<a>>) \in Seq(ACall) /\ Len(Calls(<<a>>)) = 1 /\ Calls(<<a>>)[1] = Call(a, None)
  <2>1. \A n \in 1 .. 1 : Call(<<a>>[n], None) \in ACall
    BY <1>1, CallIs
  <2>2. Calls(<<a>>) \in [1 .. 1 -> ACall] /\ Calls(<<a>>)[1] = Call(a, None)
    BY <1>1, <1>2, <2>1
  <2> QED  BY <2>2, FunctionIsSequence
<1>4. 1 .. 1 = {1}
  OBVIOUS
<1> QED  BY <1>3, <1>4 DEF Elements, Ordered

(* Two calls.                                                              *)
LEMMA CallsOfTwo ==
    ASSUME NEW a \in Steps, NEW b \in Steps, Turn(a) < Turn(b)
    PROVE  /\ Calls(<<a, b>>) \in Seq(ACall) /\ Ordered(Calls(<<a, b>>))
           /\ Elements(Calls(<<a, b>>)) = {Call(a, None), Call(b, None)}
<1>1. /\ Len(<<a, b>>) = 2 /\ DOMAIN <<a, b>> = 1 .. 2
      /\ <<a, b>>[1] = a /\ <<a, b>>[2] = b
  OBVIOUS
<1>2. Calls(<<a, b>>) = [n \in 1 .. 2 |-> Call(<<a, b>>[n], None)]
  BY <1>1 DEF Calls
<1>3. 1 .. 2 = {1, 2}
  OBVIOUS
<1>4. \A n \in 1 .. 2 : Call(<<a, b>>[n], None) \in ACall
  BY <1>1, <1>3, CallIs
<1>5. /\ Calls(<<a, b>>) \in Seq(ACall) /\ Len(Calls(<<a, b>>)) = 2
      /\ Calls(<<a, b>>)[1] = Call(a, None) /\ Calls(<<a, b>>)[2] = Call(b, None)
  <2>1. /\ Calls(<<a, b>>) \in [1 .. 2 -> ACall]
        /\ Calls(<<a, b>>)[1] = Call(a, None) /\ Calls(<<a, b>>)[2] = Call(b, None)
    BY <1>1, <1>2, <1>3, <1>4
  <2> QED  BY <2>1, FunctionIsSequence
<1>6. Precedes(Call(a, None), Call(b, None))
  BY CallIs DEF Precedes
<1>7. Elements(Calls(<<a, b>>)) = {Call(a, None), Call(b, None)}
  BY <1>3, <1>5 DEF Elements
<1>8. Ordered(Calls(<<a, b>>))
  BY <1>3, <1>5, <1>6 DEF Ordered
<1> QED  BY <1>5, <1>7, <1>8

(* Three.                                                                  *)
LEMMA CallsOfThree ==
    ASSUME NEW a \in Steps, NEW b \in Steps, NEW c \in Steps,
           Turn(a) < Turn(b), Turn(b) < Turn(c), Turn(a) < Turn(c)
    PROVE  /\ Calls(<<a, b, c>>) \in Seq(ACall) /\ Ordered(Calls(<<a, b, c>>))
           /\ Elements(Calls(<<a, b, c>>)) = {Call(a, None), Call(b, None), Call(c, None)}
<1>1. /\ Len(<<a, b, c>>) = 3 /\ DOMAIN <<a, b, c>> = 1 .. 3
      /\ <<a, b, c>>[1] = a /\ <<a, b, c>>[2] = b /\ <<a, b, c>>[3] = c
  OBVIOUS
<1>2. Calls(<<a, b, c>>) = [n \in 1 .. 3 |-> Call(<<a, b, c>>[n], None)]
  BY <1>1 DEF Calls
<1>3. 1 .. 3 = {1, 2, 3}
  OBVIOUS
<1>4. \A n \in 1 .. 3 : Call(<<a, b, c>>[n], None) \in ACall
  BY <1>1, <1>3, CallIs
<1>5. /\ Calls(<<a, b, c>>) \in Seq(ACall) /\ Len(Calls(<<a, b, c>>)) = 3
      /\ Calls(<<a, b, c>>)[1] = Call(a, None) /\ Calls(<<a, b, c>>)[2] = Call(b, None)
      /\ Calls(<<a, b, c>>)[3] = Call(c, None)
  <2>1. /\ Calls(<<a, b, c>>) \in [1 .. 3 -> ACall]
        /\ Calls(<<a, b, c>>)[1] = Call(a, None) /\ Calls(<<a, b, c>>)[2] = Call(b, None)
        /\ Calls(<<a, b, c>>)[3] = Call(c, None)
    BY <1>1, <1>2, <1>3, <1>4
  <2>2. Calls(<<a, b, c>>) \in Seq(ACall) /\ Len(Calls(<<a, b, c>>)) = 3
    <3>1. Calls(<<a, b, c>>) \in [1 .. 3 -> ACall]
      BY <2>1
    <3> QED  BY <3>1, FunctionIsSequence
  <2> QED  BY <2>1, <2>2
<1>6. /\ Precedes(Call(a, None), Call(b, None)) /\ Precedes(Call(b, None), Call(c, None))
      /\ Precedes(Call(a, None), Call(c, None))
  BY CallIs DEF Precedes
<1>7. Elements(Calls(<<a, b, c>>)) = {Call(a, None), Call(b, None), Call(c, None)}
  BY <1>3, <1>5 DEF Elements
<1>8. Ordered(Calls(<<a, b, c>>))
  BY <1>3, <1>5, <1>6 DEF Ordered
<1> QED  BY <1>5, <1>7, <1>8

-----------------------------------------------------------------------------
(* The calls of a save of settings                                         *)

\* The turns of all calls of a sequence are within bounds.
InTurns(s, first, last) == \A c \in Elements(s) : Turn(c.do) \in first .. last

(* One sequence after another whose turns come later.                      *)
LEMMA Joined ==
    ASSUME NEW s \in Seq(ACall), NEW t \in Seq(ACall), Ordered(s), Ordered(t),
           NEW i \in Nat, NEW j \in Nat, NEW k \in Nat, NEW l \in Nat, i <= j, j < k, k <= l,
           InTurns(s, i, j), InTurns(t, k, l)
    PROVE  /\ s \o t \in Seq(ACall) /\ Ordered(s \o t) /\ InTurns(s \o t, i, l)
           /\ Elements(s \o t) = Elements(s) \cup Elements(t)
<1>1. s \o t \in Seq(ACall) /\ Elements(s \o t) = Elements(s) \cup Elements(t)
  BY ElementsOfBoth
<1>2. \A c \in Elements(s), d \in Elements(t) : Precedes(c, d)
  <2>1. SUFFICES ASSUME NEW c \in Elements(s), NEW d \in Elements(t)
                 PROVE  Precedes(c, d)
    OBVIOUS
  <2>2. Turn(c.do) \in i .. j /\ Turn(d.do) \in k .. l
    BY DEF InTurns
  <2>3. Turn(c.do) < Turn(d.do)
    BY <2>2
  <2> QED  BY <2>3 DEF Precedes
<1>3. InTurns(s \o t, i, l)
  <2>1. SUFFICES ASSUME NEW c \in Elements(s) \cup Elements(t)
                 PROVE  Turn(c.do) \in i .. l
    BY <1>1 DEF InTurns
  <2>2. Turn(c.do) \in i .. j \/ Turn(c.do) \in k .. l
    BY <2>1 DEF InTurns
  <2> QED  BY <2>2
<1> QED  BY <1>1, <1>2, <1>3, OrderedBoth

(* A call made when a condition holds.                                     *)
LEMMA WhenItHolds ==
    ASSUME NEW condition \in BOOLEAN, NEW a \in ACall
    PROVE  /\ When(condition, <<a>>) \in Seq(ACall)
           /\ Ordered(When(condition, <<a>>))
           /\ \A c : c \in Elements(When(condition, <<a>>)) <=> condition /\ c = a
<1>1. CASE condition
  <2>1. When(condition, <<a>>) = <<a>>
    BY <1>1 DEF When
  <2> QED  BY <1>1, <2>1, OneElement
<1>2. CASE ~condition
  <2>1. When(condition, <<a>>) = <<>>
    BY <1>2 DEF When
  <2> QED  BY <1>2, <2>1, NoElements
<1> QED  BY <1>1, <1>2

(* The set of a form's registries as a sequence, each once.                *)
LEMMA EachOnce ==
    ASSUME NEW S, IsFiniteSet(S)
    PROVE  /\ Cardinality(S) \in Nat
           /\ SetToSeq(S) \in [1 .. Cardinality(S) -> S]
           /\ \A m, n \in 1 .. Cardinality(S) : SetToSeq(S)[m] = SetToSeq(S)[n] => m = n
           /\ \A x \in S : \E n \in 1 .. Cardinality(S) : SetToSeq(S)[n] = x
<1> DEFINE D == 1 .. Cardinality(S)
<1>1. Cardinality(S) \in Nat /\ ExistsBijection(D, S)
  BY FS_CardinalityType
<1>2. PICK f \in [D -> S] : IsInjective(f)
  BY <1>1 DEF ExistsBijection, Bijection, Injection, IsInjective
<1>3. SetToSeq(S) \in [D -> S] /\ IsInjective(SetToSeq(S))
  BY <1>2 DEF SetToSeq
<1>4. SetToSeq(S) \in Injection(D, S)
  BY <1>3 DEF Injection, IsInjective
<1>5. IsFiniteSet(D) /\ Cardinality(D) = Cardinality(S)
  <2>1. Cardinality(S) - 1 + 1 = Cardinality(S) /\ 1 \in Int /\ Cardinality(S) \in Int
    BY <1>1
  <2>2. IsFiniteSet(D) /\ Cardinality(D) = IF 1 > Cardinality(S) THEN 0 ELSE Cardinality(S) - 1 + 1
    BY <2>1, FS_Interval
  <2> QED  BY <1>1, <2>1, <2>2
<1>6. SetToSeq(S) \in Surjection(D, S)
  BY <1>4, <1>5, FS_Injection
<1> QED  BY <1>1, <1>3, <1>6 DEF Surjection, IsInjective

(* The pull Secrets of a form are its registries', each made once.         *)
LEMMA PullCalls ==
    ASSUME Beginnings, NEW f \in Form
    PROVE  /\ PullSecrets(f) \in Seq(ACall)
           /\ Ordered(PullSecrets(f))
           /\ \A c : c \in Elements(PullSecrets(f))
                        <=> \E r \in f.registries : c = Call("pull Secret", r)
<1> DEFINE S == f.registries
           N == Cardinality(S)
<1>1. S \subseteq Registry
  BY DEF Form
<1>2. IsFiniteSet(S)
  BY <1>1, FS_Subset DEF Beginnings
<1>3. /\ N \in Nat
      /\ \A n \in 1 .. N : SetToSeq(S)[n] \in S
      /\ \A m, n \in 1 .. N : SetToSeq(S)[m] = SetToSeq(S)[n] => m = n
      /\ \A x \in S : \E n \in 1 .. N : SetToSeq(S)[n] = x
  BY <1>2, EachOnce
<1>4. PullSecrets(f) = [n \in 1 .. N |-> Call("pull Secret", SetToSeq(S)[n])]
  BY DEF PullSecrets
<1>5. \A n \in 1 .. N : /\ PullSecrets(f)[n] = Call("pull Secret", SetToSeq(S)[n])
                        /\ PullSecrets(f)[n] \in ACall
                        /\ PullSecrets(f)[n].do = "pull Secret"
                        /\ PullSecrets(f)[n].of = SetToSeq(S)[n]
  <2>1. SUFFICES ASSUME NEW n \in 1 .. N
                 PROVE  /\ PullSecrets(f)[n] = Call("pull Secret", SetToSeq(S)[n])
                        /\ PullSecrets(f)[n] \in ACall
                        /\ PullSecrets(f)[n].do = "pull Secret"
                        /\ PullSecrets(f)[n].of = SetToSeq(S)[n]
    OBVIOUS
  <2>2. SetToSeq(S)[n] \in Registry \cup {None} /\ "pull Secret" \in Steps
    BY <1>1, <1>3 DEF Steps
  <2>3. PullSecrets(f)[n] = Call("pull Secret", SetToSeq(S)[n])
    BY <1>4
  <2>4. /\ Call("pull Secret", SetToSeq(S)[n]) \in ACall
        /\ Call("pull Secret", SetToSeq(S)[n]).do = "pull Secret"
        /\ Call("pull Secret", SetToSeq(S)[n]).of = SetToSeq(S)[n]
    BY <2>2, CallIs
  <2> QED  BY <2>3, <2>4
<1>6. PullSecrets(f) \in Seq(ACall) /\ Len(PullSecrets(f)) = N
  <2>1. PullSecrets(f) \in [1 .. N -> ACall]
    BY <1>4, <1>5
  <2> QED  BY <1>3, <2>1, FunctionIsSequence
<1>7. Ordered(PullSecrets(f))
  <2>1. SUFFICES ASSUME NEW m \in 1 .. N, NEW n \in 1 .. N, m < n
                 PROVE  Precedes(PullSecrets(f)[m], PullSecrets(f)[n])
    BY <1>6 DEF Ordered
  <2>2. SetToSeq(S)[m] # SetToSeq(S)[n]
    BY <1>3, <2>1
  <2>3. /\ PullSecrets(f)[m].do = "pull Secret" /\ PullSecrets(f)[n].do = "pull Secret"
        /\ PullSecrets(f)[m].of # PullSecrets(f)[n].of
    BY <1>5, <2>2
  <2> QED  BY <2>3 DEF Precedes
<1>8. \A c : c \in Elements(PullSecrets(f)) <=> \E r \in S : c = Call("pull Secret", r)
  <2> DEFINE P == PullSecrets(f)
  <2>1. \A c : c \in Elements(P) <=> \E n \in 1 .. N : c = P[n]
    BY <1>6 DEF Elements
  <2> HIDE DEF P
  <2>2. \A n \in 1 .. N : P[n] = Call("pull Secret", SetToSeq(S)[n])
    BY <1>5 DEF P
  <2>3. \A c \in Elements(P) : \E r \in S : c = Call("pull Secret", r)
    <3>1. SUFFICES ASSUME NEW c \in Elements(P)
                   PROVE  \E r \in S : c = Call("pull Secret", r)
      OBVIOUS
    <3>2. PICK n \in 1 .. N : c = P[n]
      BY <2>1
    <3>3. c = Call("pull Secret", SetToSeq(S)[n]) /\ SetToSeq(S)[n] \in S
      BY <1>3, <2>2, <3>2
    <3> QED  BY <3>3
  <2>4. \A r \in S : Call("pull Secret", r) \in Elements(P)
    <3>1. SUFFICES ASSUME NEW r \in S
                   PROVE  Call("pull Secret", r) \in Elements(P)
      OBVIOUS
    <3>2. PICK n \in 1 .. N : SetToSeq(S)[n] = r
      BY <1>3
    <3> QED  BY <2>1, <2>2, <3>2
  <2>5. \A c : c \in Elements(P) <=> \E r \in S : c = Call("pull Secret", r)
    BY <2>3, <2>4
  <2> QED  BY <2>5 DEF P
<1> QED  BY <1>6, <1>7, <1>8

\* The calls that a form asks for, whatever the namespace is.
AsksFor(f, c) ==
    \/ f.limits # {} /\ c = Call("limits", None)
    \/ f.quota # {} /\ c = Call("quota", None)
    \/ f.quota = {} /\ c = Call("no quota", None)
    \/ f.limits = {} /\ c = Call("no limits", None)
    \/ \E r \in f.registries : c = Call("pull Secret", r)
    \/ c = Call("defaults", None)

(* A save's calls are those that its form asks for, in their order.        *)
LEMMA SettingsCalls ==
    ASSUME Beginnings, NEW f \in Form
    PROVE  /\ ApplyNamespaceSettings(f) \in Seq(ACall)
           /\ Ordered(ApplyNamespaceSettings(f))
           /\ InTurns(ApplyNamespaceSettings(f), 3, 7)
           /\ \A c : c \in Elements(ApplyNamespaceSettings(f)) <=> AsksFor(f, c)
<1> DEFINE a == When(f.limits # {}, <<Call("limits", None)>>)
           q == Call(IF f.quota # {} THEN "quota" ELSE "no quota", None)
           b == When(f.limits = {}, <<Call("no limits", None)>>)
           d == Call("defaults", None)
<1>1. /\ "limits" \in Steps /\ "quota" \in Steps /\ "no quota" \in Steps
      /\ "no limits" \in Steps /\ "defaults" \in Steps /\ "pull Secret" \in Steps
  BY DEF Steps
<1>2. /\ Call("limits", None) \in ACall /\ Call("limits", None).do = "limits"
      /\ Call("no limits", None) \in ACall /\ Call("no limits", None).do = "no limits"
      /\ d \in ACall /\ d.do = "defaults"
  BY <1>1, NamedCall
<1>3. q \in ACall /\ Turn(q.do) = 4
  <2>1. \/ q = Call("quota", None) \/ q = Call("no quota", None)
    OBVIOUS
  <2>2. q \in ACall /\ (q.do = "quota" \/ q.do = "no quota")
    BY <1>1, <2>1, NamedCall
  <2> QED  BY <2>2, Turns
<1>4. \A c : c = q <=> \/ f.quota # {} /\ c = Call("quota", None)
                       \/ f.quota = {} /\ c = Call("no quota", None)
  OBVIOUS
<1>5. /\ a \in Seq(ACall) /\ Ordered(a)
      /\ \A c : c \in Elements(a) <=> f.limits # {} /\ c = Call("limits", None)
  BY <1>2, WhenItHolds
<1>6. /\ b \in Seq(ACall) /\ Ordered(b)
      /\ \A c : c \in Elements(b) <=> f.limits = {} /\ c = Call("no limits", None)
  BY <1>2, WhenItHolds
<1>7. QuotaAndDefaults(f) = a \o <<q>> \o b
  BY DEF QuotaAndDefaults
<1>8. ApplyNamespaceSettings(f) = QuotaAndDefaults(f) \o PullSecrets(f) \o <<d>>
  BY DEF ApplyNamespaceSettings
<1>9. d = Call("defaults", None)
  OBVIOUS
<1> HIDE DEF a, q, b, d
<1>10. InTurns(a, 3, 3) /\ InTurns(b, 5, 5)
  <2>1. \A c \in Elements(a) : c = Call("limits", None)
    BY <1>5
  <2>2. \A c \in Elements(b) : c = Call("no limits", None)
    BY <1>6
  <2>3. Turn(Call("limits", None).do) = 3 /\ Turn(Call("no limits", None).do) = 5
    BY <1>2, Turns
  <2>4. \A c \in Elements(a) : Turn(c.do) = 3
    BY <2>1, <2>3
  <2>5. \A c \in Elements(b) : Turn(c.do) = 5
    BY <2>2, <2>3
  <2> QED  BY <2>4, <2>5 DEF InTurns
<1>11. /\ <<q>> \in Seq(ACall) /\ Ordered(<<q>>) /\ Elements(<<q>>) = {q} /\ InTurns(<<q>>, 4, 4)
  <2>1. <<q>> \in Seq(ACall) /\ Ordered(<<q>>) /\ Elements(<<q>>) = {q}
    BY <1>3, OneElement
  <2>2. \A c \in Elements(<<q>>) : Turn(c.do) \in 4 .. 4
    BY <1>3, <2>1
  <2> QED  BY <2>1, <2>2 DEF InTurns
<1>12. /\ <<d>> \in Seq(ACall) /\ Ordered(<<d>>) /\ Elements(<<d>>) = {d} /\ InTurns(<<d>>, 7, 7)
  <2>1. <<d>> \in Seq(ACall) /\ Ordered(<<d>>) /\ Elements(<<d>>) = {d}
    BY <1>2, OneElement
  <2>2. Turn(d.do) = 7
    BY <1>2, Turns
  <2>3. \A c \in Elements(<<d>>) : Turn(c.do) \in 7 .. 7
    BY <2>1, <2>2
  <2> QED  BY <2>1, <2>3 DEF InTurns
<1>13. /\ PullSecrets(f) \in Seq(ACall) /\ Ordered(PullSecrets(f))
       /\ \A c : c \in Elements(PullSecrets(f))
                    <=> \E r \in f.registries : c = Call("pull Secret", r)
  BY PullCalls
<1>14. InTurns(PullSecrets(f), 6, 6)
  <2>1. SUFFICES ASSUME NEW c \in Elements(PullSecrets(f))
                 PROVE  Turn(c.do) = 6
    BY DEF InTurns
  <2>2. PICK r \in f.registries : c = Call("pull Secret", r)
    BY <1>13
  <2>3. r \in Registry \cup {None}
    BY DEF Form
  <2>4. c.do = "pull Secret"
    BY <1>1, <2>2, <2>3, CallIs
  <2> QED  BY <2>4, Turns
<1>15. /\ a \o <<q>> \in Seq(ACall) /\ Ordered(a \o <<q>>) /\ InTurns(a \o <<q>>, 3, 4)
       /\ Elements(a \o <<q>>) = Elements(a) \cup {q}
  <2> DEFINE t == <<q>>
  <2>1. t \in Seq(ACall) /\ Ordered(t) /\ InTurns(t, 4, 4) /\ Elements(t) = {q}
    BY <1>11
  <2> HIDE DEF t
  <2>2. /\ a \o t \in Seq(ACall) /\ Ordered(a \o t) /\ InTurns(a \o t, 3, 4)
        /\ Elements(a \o t) = Elements(a) \cup Elements(t)
    BY <1>5, <1>10, <2>1, Joined
  <2> QED  BY <2>1, <2>2 DEF t
<1>16. /\ a \o <<q>> \o b \in Seq(ACall) /\ Ordered(a \o <<q>> \o b)
       /\ InTurns(a \o <<q>> \o b, 3, 5)
       /\ Elements(a \o <<q>> \o b) = Elements(a) \cup {q} \cup Elements(b)
  <2> DEFINE s == a \o <<q>>
  <2>1. s \in Seq(ACall) /\ Ordered(s) /\ InTurns(s, 3, 4) /\ Elements(s) = Elements(a) \cup {q}
    BY <1>15
  <2> HIDE DEF s
  <2>2. /\ s \o b \in Seq(ACall) /\ Ordered(s \o b) /\ InTurns(s \o b, 3, 5)
        /\ Elements(s \o b) = Elements(s) \cup Elements(b)
    <3>1. b \in Seq(ACall) /\ Ordered(b) /\ InTurns(b, 5, 5)
      BY <1>6, <1>10
    <3> QED  BY <2>1, <3>1, Joined
  <2> QED  BY <2>1, <2>2 DEF s
<1> DEFINE Q == QuotaAndDefaults(f)
<1>17. /\ Q \in Seq(ACall) /\ Ordered(Q) /\ InTurns(Q, 3, 5)
       /\ Elements(Q) = Elements(a) \cup {q} \cup Elements(b)
  BY <1>7, <1>16
<1> HIDE DEF Q
<1>18. /\ Q \o PullSecrets(f) \in Seq(ACall) /\ Ordered(Q \o PullSecrets(f))
       /\ InTurns(Q \o PullSecrets(f), 3, 6)
       /\ Elements(Q \o PullSecrets(f)) = Elements(Q) \cup Elements(PullSecrets(f))
  <2> DEFINE t == PullSecrets(f)
  <2>1. t \in Seq(ACall) /\ Ordered(t) /\ InTurns(t, 6, 6)
    BY <1>13, <1>14
  <2> HIDE DEF t
  <2>2. /\ Q \o t \in Seq(ACall) /\ Ordered(Q \o t) /\ InTurns(Q \o t, 3, 6)
        /\ Elements(Q \o t) = Elements(Q) \cup Elements(t)
    BY <1>17, <2>1, Joined
  <2> QED  BY <2>2 DEF t
<1> DEFINE R == Q \o PullSecrets(f)
<1>19. /\ R \o <<d>> \in Seq(ACall) /\ Ordered(R \o <<d>>) /\ InTurns(R \o <<d>>, 3, 7)
       /\ Elements(R \o <<d>>) = Elements(R) \cup {d}
  <2> DEFINE t == <<d>>
  <2>1. t \in Seq(ACall) /\ Ordered(t) /\ InTurns(t, 7, 7) /\ Elements(t) = {d}
    BY <1>12
  <2>2. R \in Seq(ACall) /\ Ordered(R) /\ InTurns(R, 3, 6)
    BY <1>18
  <2> HIDE DEF t, R
  <2>3. /\ R \o t \in Seq(ACall) /\ Ordered(R \o t) /\ InTurns(R \o t, 3, 7)
        /\ Elements(R \o t) = Elements(R) \cup Elements(t)
    BY <2>1, <2>2, Joined
  <2> QED  BY <2>1, <2>3 DEF t
<1>20. ApplyNamespaceSettings(f) = R \o <<d>>
  BY <1>8 DEF Q
<1>21. Elements(ApplyNamespaceSettings(f))
          = Elements(a) \cup {q} \cup Elements(b) \cup Elements(PullSecrets(f)) \cup {d}
  BY <1>17, <1>18, <1>19, <1>20
<1>22. \A c : c \in Elements(ApplyNamespaceSettings(f)) <=> AsksFor(f, c)
  BY <1>4, <1>5, <1>6, <1>9, <1>13, <1>21 DEF AsksFor
<1> QED  BY <1>19, <1>20, <1>22

(* What a form asks for comes after the calls about the namespace itself.  *)
LEMMA AskedLater ==
    ASSUME NEW f \in Form, NEW c, AsksFor(f, c)
    PROVE  c \in ACall
           /\ c.do \in {"limits", "quota", "no quota", "no limits", "pull Secret", "defaults"}
           /\ (c.do = "limits" => f.limits # {}) /\ (c.do = "no limits" => f.limits = {})
           /\ (c.do = "quota" => f.quota # {}) /\ (c.do = "no quota" => f.quota = {})
           /\ (c.do = "pull Secret" => c.of \in f.registries)
<1>1. \A r \in f.registries : r \in Registry \cup {None}
  BY DEF Form
<1>2. \/ f.limits # {} /\ c = [do |-> "limits", of |-> None]
      \/ f.quota # {} /\ c = [do |-> "quota", of |-> None]
      \/ f.quota = {} /\ c = [do |-> "no quota", of |-> None]
      \/ f.limits = {} /\ c = [do |-> "no limits", of |-> None]
      \/ \E r \in f.registries : c = [do |-> "pull Secret", of |-> r]
      \/ c = [do |-> "defaults", of |-> None]
  BY DEF AsksFor, Call
<1>3. CASE \E r \in f.registries : c = [do |-> "pull Secret", of |-> r]
  <2>1. PICK r \in f.registries : c = [do |-> "pull Secret", of |-> r]
    BY <1>3
  <2>2. c \in ACall
    BY <1>1, <2>1 DEF ACall, Steps
  <2> QED  BY <2>1, <2>2
<1>4. CASE f.limits # {} /\ c = [do |-> "limits", of |-> None]
  BY <1>4 DEF ACall, Steps
<1>5. CASE f.quota # {} /\ c = [do |-> "quota", of |-> None]
  BY <1>5 DEF ACall, Steps
<1>6. CASE f.quota = {} /\ c = [do |-> "no quota", of |-> None]
  BY <1>6 DEF ACall, Steps
<1>7. CASE f.limits = {} /\ c = [do |-> "no limits", of |-> None]
  BY <1>7 DEF ACall, Steps
<1>8. CASE c = [do |-> "defaults", of |-> None]
  BY <1>8 DEF ACall, Steps
<1> QED  BY <1>2, <1>3, <1>4, <1>5, <1>6, <1>7, <1>8

(* The calls that the namespace as it was read asks for.                   *)
LEMMA PlacementCalls ==
    ASSUME NEW f, NEW n
    PROVE  /\ PlacementPatch(f, n) \in Seq(ACall)
           /\ Ordered(PlacementPatch(f, n))
           /\ \A c : c \in Elements(PlacementPatch(f, n)) <=>
                        \/ (f.region # None \/ n.placed # None) /\ c = Call("label", None)
                        \/ LegacyRegionOf(n) # None /\ c = Call("annotate", None)
<1> DEFINE a == When(f.region # None \/ n.placed # None, <<Call("label", None)>>)
           b == When(LegacyRegionOf(n) # None, <<Call("annotate", None)>>)
<1>1. /\ Call("label", None) \in ACall /\ Call("label", None).do = "label"
      /\ Call("annotate", None) \in ACall /\ Call("annotate", None).do = "annotate"
  BY NamedCall DEF Steps
<1>2. /\ a \in Seq(ACall) /\ Ordered(a)
      /\ \A c : c \in Elements(a) <=>
                   (f.region # None \/ n.placed # None) /\ c = Call("label", None)
  <2>1. PICK w \in BOOLEAN : w = (f.region # None \/ n.placed # None)
    OBVIOUS
  <2> QED  BY <1>1, <2>1, WhenItHolds
<1>3. /\ b \in Seq(ACall) /\ Ordered(b)
      /\ \A c : c \in Elements(b) <=> LegacyRegionOf(n) # None /\ c = Call("annotate", None)
  BY <1>1, WhenItHolds
<1>4. PlacementPatch(f, n) = a \o b
  BY DEF PlacementPatch
<1> HIDE DEF a, b
<1>5. \A c \in Elements(a), e \in Elements(b) : Precedes(c, e)
  <2>1. SUFFICES ASSUME NEW c \in Elements(a), NEW e \in Elements(b)
                 PROVE  Precedes(c, e)
    OBVIOUS
  <2>2. c = Call("label", None) /\ e = Call("annotate", None)
    BY <1>2, <1>3
  <2>3. c.do = "label" /\ e.do = "annotate"
    BY <1>1, <2>2
  <2>4. Turn(c.do) = 1 /\ Turn(e.do) = 2
    BY <2>3, Turns
  <2> QED  BY <2>4 DEF Precedes
<1>6. a \o b \in Seq(ACall) /\ Ordered(a \o b) /\ Elements(a \o b) = Elements(a) \cup Elements(b)
  BY <1>2, <1>3, <1>5, ElementsOfBoth, OrderedBoth
<1> QED  BY <1>2, <1>3, <1>4, <1>6

-----------------------------------------------------------------------------
(* What the actions of others leave of somebody's                          *)

\* What a step may do to the cluster: an application that changes has a new
\* version, and a namespace keeps its pull Secrets.
Grown ==
    /\ clock' \in Nat /\ clock <= clock'
    /\ \/ app' = app
       \/ app' = None
       \/ app' \in Application /\ app'.version = clock' /\ clock < clock'
    /\ ns.there => ns'.there
    /\ ns.secrets \subseteq ns'.secrets

\* Whatever changes what an action under way goes by has it no longer alone.
Spared(q) ==
    /\ doing'[q] = [op |-> doing[q].op, says |-> doing[q].says, left |-> doing[q].left,
                    seen |-> doing[q].seen, ok |-> doing[q].ok, cut |-> doing[q].cut,
                    alone |-> doing'[q].alone, fresh |-> doing'[q].fresh]
    /\ doing'[q].alone \in BOOLEAN /\ doing'[q].fresh \in BOOLEAN
    /\ doing'[q].alone => doing[q].alone
    /\ doing'[q].alone => doing[q].op = "idle" \/ UNCHANGED <<app, ns, providers, keys>>
    /\ doing'[q].fresh => doing[q].fresh
    /\ doing'[q].fresh => doing[q].op = "idle" \/ UNCHANGED ns
    /\ doing[q].op = "idle" => doing'[q] = doing[q]

(* A page that stays as it is, on a cluster that a step of anyone's changed. *)
LEMMA TabKept ==
    ASSUME Cluster, NEW q \in Person, Tab(q), Grown, tab'[q] = tab[q]
    PROVE  Tab(q)'
<1>0. tab[q] \in {Closed} \cup EditingTab \cup NewTab \cup SettingsTab
  BY DEF Cluster
<1>2. ASSUME tab[q].at = "editing"
      PROVE  /\ tab[q].version <= clock'
             /\ ~tab[q].again => app' = None \/ app'.version # tab[q].version \/ app' = tab[q].opened
  <2>1. tab[q] \in EditingTab
    BY <1>0, <1>2 DEF Closed, NewTab, SettingsTab
  <2>2. tab[q].version \in Nat /\ clock \in Nat
    BY <2>1 DEF EditingTab, Cluster
  <2>3. /\ tab[q].version <= clock
        /\ ~tab[q].again => app = None \/ app.version # tab[q].version \/ app = tab[q].opened
    BY <1>2 DEF Tab
  <2>4. tab[q].version <= clock'
    BY <2>2, <2>3 DEF Grown
  <2>5. CASE app' = app
    BY <2>3, <2>4, <2>5
  <2>6. CASE app' = None
    BY <2>4, <2>6
  <2>7. CASE app'.version = clock' /\ clock < clock'
    BY <2>2, <2>3, <2>4, <2>7 DEF Grown
  <2> QED  BY <2>5, <2>6, <2>7 DEF Grown
<1>3. tab[q].at \in {"settings", "making"} => tab[q].says.keep \subseteq ns'.secrets
  BY DEF Tab, Grown
<1>4. tab[q].at = "settings" => ns'.there
  BY DEF Tab, Grown
<1>5. tab[q].at = "making" => tab[q].from = NoNamespace
  BY DEF Tab
<1> QED  BY <1>2, <1>3, <1>4, <1>5 DEF Tab

(* What a step of somebody else's leaves of one's own page and action.     *)
LEMMA OthersKeep ==
    ASSUME Cluster, NEW q \in Person, Kept(q), Grown, Spared(q), tab'[q] = tab[q]
    PROVE  Kept(q)'
<1>1. /\ doing'[q].op = doing[q].op /\ doing'[q].says = doing[q].says
      /\ doing'[q].left = doing[q].left /\ doing'[q].seen = doing[q].seen
      /\ doing'[q].ok = doing[q].ok /\ doing'[q].cut = doing[q].cut
  BY DEF Spared
<1>2. Left(q)' = Left(q)
  BY <1>1 DEF Left
<1>3. tab[q] \in {Closed} \cup EditingTab \cup NewTab \cup SettingsTab
  BY DEF Cluster
<1>4. Tab(q)'
  BY TabKept DEF Kept
<1>5. Doing(q)'
  <2>1. Doing(q)
    BY DEF Kept
  <2>2. doing'[q] = [op |-> doing'[q].op, says |-> doing'[q].says, left |-> doing'[q].left,
                     seen |-> doing'[q].seen, ok |-> doing'[q].ok, cut |-> doing'[q].cut,
                     alone |-> doing'[q].alone, fresh |-> doing'[q].fresh]
    BY <1>1 DEF Spared
  <2>3. doing'[q].alone \in BOOLEAN /\ doing'[q].fresh \in BOOLEAN
    BY DEF Spared
  <2>4. doing'[q].op = "idle" => doing'[q] = Idle
    BY <1>1, <2>1 DEF Spared, Doing
  <2>5. \A c \in Left(q)' : doing'[q].op \in By(c.do)
    BY <1>1, <1>2, <2>1 DEF Doing
  <2>6. /\ doing'[q].op \in Ops /\ doing'[q].ok \in BOOLEAN /\ doing'[q].cut \in BOOLEAN
        /\ doing'[q].left \in Seq(ACall) /\ Ordered(doing'[q].left)
        /\ ~doing'[q].ok => doing'[q].left = <<>>
    BY <1>1, <2>1 DEF Doing
  <2> QED  BY <2>2, <2>3, <2>4, <2>5, <2>6 DEF Doing
<1>6. Saves(q)'
  <2>1. Saves(q) /\ Tab(q)
    BY DEF Kept
  <2>2. ASSUME doing[q].op = "save", Pending(q, "replace"), ~Pending(q, "read")
        PROVE  app' = None \/ app'.version # tab[q].version \/ app' = doing[q].seen
    <3>1. app = None \/ app.version # tab[q].version \/ app = doing[q].seen
      BY <2>1, <2>2 DEF Saves
    <3>2. tab[q].at = "editing"
      BY <2>1, <2>2 DEF Saves
    <3>3. tab[q] \in EditingTab
      BY <1>3, <3>2 DEF Closed, NewTab, SettingsTab
    <3>4. tab[q].version \in Nat /\ clock \in Nat /\ tab[q].version <= clock
      BY <2>1, <3>2, <3>3 DEF EditingTab, Cluster, Tab
    <3>5. CASE app'.version = clock' /\ clock < clock'
      BY <3>4, <3>5 DEF Grown
    <3> QED  BY <3>1, <3>5 DEF Grown
  <2>3. /\ Pending(q, "read")' <=> Pending(q, "read")
        /\ Pending(q, "replace")' <=> Pending(q, "replace")
        /\ Pending(q, "create")' <=> Pending(q, "create")
    BY <1>2 DEF Pending
  <2> QED  BY <1>1, <2>1, <2>2, <2>3 DEF Saves
<1>7. Connects(q)'
  BY <1>1 DEF Kept, Connects
<1>8. Disconnects(q)'
  <2>1. Pending(q, "list users")' <=> Pending(q, "list users")
    BY <1>2 DEF Pending
  <2>2. doing[q].op = "disconnect" /\ doing'[q].alone => doing[q].alone /\ app' = app
    BY DEF Spared
  <2> QED  BY <1>1, <2>1, <2>2 DEF Kept, Disconnects
<1>9. \A r \in Registry \cup {None} : PullPending(q, r)' <=> PullPending(q, r)
  BY <1>2 DEF PullPending
<1>10. /\ Pending(q, "create Namespace")' <=> Pending(q, "create Namespace")
       /\ Pending(q, "get Namespace")' <=> Pending(q, "get Namespace")
       /\ Pending(q, "label")' <=> Pending(q, "label")
       /\ Pending(q, "annotate")' <=> Pending(q, "annotate")
       /\ Pending(q, "limits")' <=> Pending(q, "limits")
       /\ Pending(q, "no limits")' <=> Pending(q, "no limits")
       /\ Pending(q, "quota")' <=> Pending(q, "quota")
       /\ Pending(q, "no quota")' <=> Pending(q, "no quota")
       /\ Pending(q, "defaults")' <=> Pending(q, "defaults")
  BY <1>2 DEF Pending
<1>11. Settling(q)' <=> Settling(q)
  BY <1>1 DEF Settling
<1>12. /\ Settling(q) /\ doing'[q].alone => doing[q].alone /\ ns' = ns
       /\ Settling(q) /\ doing'[q].fresh => doing[q].fresh /\ ns' = ns
  BY DEF Spared, Settling
<1>13. Asked(q)'
  <2>1. Asked(q)
    BY DEF Kept
  <2>2. Settling(q) /\ doing[q].ok =>
           \A r \in doing[q].says.registries : r \in ns'.secrets \/ PullPending(q, r)'
    <3>1. Settling(q) /\ doing[q].ok =>
             \A r \in doing[q].says.registries : r \in ns.secrets \/ PullPending(q, r)
      BY <2>1 DEF Asked
    <3>2. \A r \in doing[q].says.registries : PullPending(q, r)' <=> PullPending(q, r)
      BY <1>2 DEF PullPending
    <3> QED  BY <3>1, <3>2 DEF Grown
  <2>3. ns.there => ns'.there
    BY DEF Grown
  <2> QED  BY <1>1, <1>9, <1>10, <1>11, <2>1, <2>2, <2>3 DEF Asked
<1>14. Done(q)'
  <2>1. Done(q)
    BY DEF Kept
  <2> QED  BY <1>1, <1>10, <1>11, <1>12, <2>1 DEF Done, Begun
<1>15. Steady(q)'
  <2>1. Steady(q)
    BY DEF Kept
  <2> QED  BY <1>1, <1>10, <1>11, <1>12, <2>1 DEF Steady
<1>16. Unmade(q)'
  <2>1. Unmade(q)
    BY DEF Kept
  <2>2. doing[q].op = "settle" /\ doing'[q].fresh => doing[q].fresh /\ ns' = ns
    BY <1>12 DEF Settling
  <2> QED  BY <1>1, <1>9, <2>1, <2>2 DEF Unmade
<1>17. Publishes(q)'
  <2>1. Publishes(q)
    BY DEF Kept
  <2>2. doing[q].op \in {"add", "publish"} /\ doing'[q].alone =>
           doing[q].alone /\ providers' = providers /\ keys' = keys
    BY DEF Spared
  <2>3. /\ Pending(q, "list to publish")' <=> Pending(q, "list to publish")
        /\ Pending(q, "list to add")' <=> Pending(q, "list to add")
        /\ Pending(q, "apply credentials")' <=> Pending(q, "apply credentials")
        /\ Pending(q, "apply provider")' <=> Pending(q, "apply provider")
    BY <1>2 DEF Pending
  <2>4. Listed(q)' <=> Listed(q)
    BY <2>3 DEF Listed
  <2> QED  BY <1>1, <2>1, <2>2, <2>3, <2>4 DEF Publishes
<1> QED
  BY <1>4, <1>5, <1>6, <1>7, <1>8, <1>13, <1>14, <1>15, <1>16, <1>17 DEF Kept

(* The invariant holds of the cluster as it is found, with every page      *)
(* closed and nothing under way.                                           *)
LEMMA InitIInv ==
    ASSUME Beginnings, Init
    PROVE  IInv
<1>1. clock \in Nat /\ (app = None \/ (app \in Application /\ app.version \in 1 .. clock))
  <2>1. CASE app = None
    BY <2>1 DEF Init
  <2>2. CASE app # None
    <3>1. page = "application"
      BY <2>2 DEF Init
    <3>2. app \in [version : {1}, shown : {None}, hidden : {"unset", "set"},
                   through : connections \cup {None}]
      BY <2>2, <3>1 DEF Init
    <3>3. connections \subseteq Connection /\ clock = 1
      BY <2>2, <3>1 DEF Init
    <3> QED  BY <3>2, <3>3 DEF Application
  <2> QED  BY <2>1, <2>2
<1>2. connections \subseteq Connection
  BY DEF Init
<1>3. ns \in Settings /\ (~ns.there => ns = NoNamespace) /\ ns.defaults \subseteq ns.secrets
  <2>1. NoNamespace \in Settings /\ NoNamespace.defaults \subseteq NoNamespace.secrets
    BY DEF NoNamespace, Settings
  <2> QED  BY <2>1 DEF Init, Beginnings
<1>4. providers \in [Account -> Provider \cup {None}] /\ keys \in [Account -> Person \cup {None}]
  BY DEF Init, Beginnings
<1>5. /\ tab \in [Person -> {Closed} \cup EditingTab \cup NewTab \cup SettingsTab]
      /\ DOMAIN doing = Person
  BY DEF Init
<1>6. Cluster
  BY <1>1, <1>2, <1>3, <1>4, <1>5 DEF Cluster
<1>7. ASSUME NEW p \in Person
      PROVE  Kept(p)
  <2>1. tab[p] = Closed /\ doing[p] = Idle
    BY DEF Init
  <2>2. tab[p].at = "closed"
    BY <2>1 DEF Closed
  <2>3. Tab(p)
    BY <2>2 DEF Tab
  <2>4. /\ doing[p].op = "idle" /\ doing[p].left = <<>> /\ doing[p].ok = TRUE
        /\ doing[p].cut = FALSE /\ doing[p].alone = TRUE /\ doing[p].fresh = TRUE
    BY <2>1 DEF Idle
  <2>5. Left(p) = {} /\ Ordered(doing[p].left)
    BY <2>4, NoElements DEF Left
  <2>6. Doing(p)
    <3>1. doing[p] = [op |-> doing[p].op, says |-> doing[p].says, left |-> doing[p].left,
                      seen |-> doing[p].seen, ok |-> doing[p].ok, cut |-> doing[p].cut,
                      alone |-> doing[p].alone, fresh |-> doing[p].fresh]
      BY <2>1 DEF Idle
    <3>2. doing[p].left \in Seq(ACall)
      BY <2>4
    <3> QED  BY <2>1, <2>4, <2>5, <3>1, <3>2 DEF Doing, Ops
  <2>7. /\ Saves(p) /\ Connects(p) /\ Disconnects(p) /\ Asked(p) /\ Done(p) /\ Steady(p)
        /\ Unmade(p) /\ Publishes(p)
    BY <2>4 DEF Saves, Connects, Disconnects, Asked, Done, Steady, Unmade, Publishes, Settling
  <2> QED  BY <2>3, <2>6, <2>7 DEF Kept
<1> QED  BY <1>6, <1>7 DEF IInv

-----------------------------------------------------------------------------
(* Steps of somebody's own                                                 *)

\* Nothing changes but p's page and action.
Quiet(p) ==
    /\ UNCHANGED <<appVars, ns, dnsVars>>
    /\ DOMAIN doing' = Person
    /\ tab' \in [Person -> {Closed} \cup EditingTab \cup NewTab \cup SettingsTab]
    /\ \A q \in Person \ {p} : doing'[q] = doing[q] /\ tab'[q] = tab[q]

\* p made its next call, and has the others still to make.
Called(p) ==
    doing'[p] = [op |-> doing[p].op, says |-> doing[p].says, left |-> Tail(doing[p].left),
                 seen |-> doing'[p].seen, ok |-> doing[p].ok, cut |-> doing[p].cut,
                 alone |-> doing[p].alone, fresh |-> doing[p].fresh]

(* A step that changes no more leaves the cluster and the others as they are. *)
LEMMA QuietKeeps ==
    ASSUME IInv, NEW p \in Person, Quiet(p)
    PROVE  Cluster' /\ Grown /\ \A q \in Person \ {p} : Kept(q)'
<1>1. /\ app' = app /\ connections' = connections /\ clock' = clock /\ ns' = ns
      /\ providers' = providers /\ keys' = keys
  BY DEF Quiet, appVars, dnsVars
<1>2. Cluster
  BY DEF IInv
<1>3. Cluster'
  BY <1>1, <1>2 DEF Cluster, Quiet
<1>4. Grown
  BY <1>1, <1>2 DEF Grown, Cluster
<1>5. ASSUME NEW q \in Person \ {p}
      PROVE  Kept(q)'
  <2>1. Kept(q) /\ Doing(q)
    BY DEF IInv, Kept
  <2>2. doing'[q] = doing[q] /\ tab'[q] = tab[q]
    BY DEF Quiet
  <2>3. Spared(q)
    BY <1>1, <2>1, <2>2 DEF Spared, Doing
  <2> QED  BY <1>2, <1>4, <2>1, <2>2, <2>3, OthersKeep
<1> QED  BY <1>3, <1>4, <1>5

(* The next call of an action under way, and whose it is.                  *)
LEMMA Coming ==
    ASSUME NEW p \in Person, Doing(p), doing[p].left # <<>>
    PROVE  /\ Head(doing[p].left) \in ACall /\ Tail(doing[p].left) \in Seq(ACall)
           /\ Left(p) = {Head(doing[p].left)} \cup Elements(Tail(doing[p].left))
           /\ Ordered(Tail(doing[p].left))
           /\ \A d \in Elements(Tail(doing[p].left)) : Precedes(Head(doing[p].left), d)
           /\ doing[p].ok = TRUE
           /\ doing[p].op \in By(Head(doing[p].left).do)
           /\ \A d \in Elements(Tail(doing[p].left)) : doing[p].op \in By(d.do)
           /\ doing[p].op # "idle"
<1>1. doing[p].left \in Seq(ACall) /\ Ordered(doing[p].left)
  BY DEF Doing
<1>2. /\ Head(doing[p].left) \in ACall /\ Tail(doing[p].left) \in Seq(ACall)
      /\ Left(p) = {Head(doing[p].left)} \cup Elements(Tail(doing[p].left))
      /\ Ordered(Tail(doing[p].left))
      /\ \A d \in Elements(Tail(doing[p].left)) : Precedes(Head(doing[p].left), d)
  BY <1>1, NextCall DEF Left
<1>3. doing[p].ok = TRUE
  BY DEF Doing
<1>4. \A c \in Left(p) : doing[p].op \in By(c.do)
  BY DEF Doing
<1>5. doing[p].op # "idle"
  <2>1. doing[p].op = "idle" => doing[p] = Idle
    BY DEF Doing
  <2>2. Idle.left = <<>>
    BY DEF Idle
  <2> QED  BY <2>1, <2>2
<1> QED  BY <1>2, <1>3, <1>4, <1>5

(* After a call, an action under way is one still.                         *)
LEMMA CalledKeeps ==
    ASSUME NEW p \in Person, Doing(p), doing[p].left # <<>>, Called(p)
    PROVE  /\ Doing(p)'
           /\ Left(p)' = Elements(Tail(doing[p].left))
           /\ doing'[p].op = doing[p].op /\ doing'[p].says = doing[p].says
           /\ doing'[p].left = Tail(doing[p].left)
           /\ doing'[p].ok = TRUE /\ doing'[p].cut = doing[p].cut
           /\ doing'[p].alone = doing[p].alone /\ doing'[p].fresh = doing[p].fresh
<1>1. /\ doing'[p].op = doing[p].op /\ doing'[p].says = doing[p].says
      /\ doing'[p].left = Tail(doing[p].left) /\ doing'[p].ok = doing[p].ok
      /\ doing'[p].cut = doing[p].cut /\ doing'[p].alone = doing[p].alone
      /\ doing'[p].fresh = doing[p].fresh
  <2> DEFINE rest == Tail(doing[p].left)
             seen == doing'[p].seen
  <2>1. doing'[p] = [op |-> doing[p].op, says |-> doing[p].says, left |-> rest,
                     seen |-> seen, ok |-> doing[p].ok, cut |-> doing[p].cut,
                     alone |-> doing[p].alone, fresh |-> doing[p].fresh]
    BY DEF Called
  <2> HIDE DEF rest, seen
  <2>2. /\ doing'[p].op = doing[p].op /\ doing'[p].says = doing[p].says
        /\ doing'[p].left = rest /\ doing'[p].ok = doing[p].ok
        /\ doing'[p].cut = doing[p].cut /\ doing'[p].alone = doing[p].alone
        /\ doing'[p].fresh = doing[p].fresh
    BY <2>1
  <2> QED  BY <2>2 DEF rest
<1>2. /\ Tail(doing[p].left) \in Seq(ACall) /\ Ordered(Tail(doing[p].left))
      /\ doing[p].ok = TRUE /\ doing[p].op # "idle"
      /\ \A d \in Elements(Tail(doing[p].left)) : doing[p].op \in By(d.do)
  BY Coming
<1>3. Left(p)' = Elements(Tail(doing[p].left))
  BY <1>1 DEF Left
<1>4. doing'[p] = [op |-> doing'[p].op, says |-> doing'[p].says, left |-> doing'[p].left,
                   seen |-> doing'[p].seen, ok |-> doing'[p].ok, cut |-> doing'[p].cut,
                   alone |-> doing'[p].alone, fresh |-> doing'[p].fresh]
  BY <1>1 DEF Called
<1>5. /\ doing'[p].op \in Ops /\ doing'[p].cut \in BOOLEAN
      /\ doing'[p].alone \in BOOLEAN /\ doing'[p].fresh \in BOOLEAN
  BY <1>1 DEF Doing
<1> QED  BY <1>1, <1>2, <1>3, <1>4, <1>5 DEF Doing

(* A call that reads.                                                      *)
LEMMA ReadsQuietly ==
    ASSUME IInv, NEW p \in Person, NEW x, Reads(p, x, <<>>), doing[p].left # <<>>
    PROVE  Quiet(p) /\ Called(p) /\ doing'[p].seen = x /\ tab' = tab
<1>1. /\ Doing(p) /\ DOMAIN doing = Person
      /\ tab \in [Person -> {Closed} \cup EditingTab \cup NewTab \cup SettingsTab]
  BY DEF IInv, Kept, Cluster
<1>2. Tail(doing[p].left) \in Seq(ACall)
  BY <1>1, Coming
<1>3. <<>> \o Tail(doing[p].left) = Tail(doing[p].left)
  BY <1>2
<1>4. doing' = [doing EXCEPT ![p].seen = x, ![p].left = <<>> \o Tail(@)]
  BY DEF Reads
<1>5. /\ doing'[p] = [doing[p] EXCEPT !.seen = x, !.left = Tail(doing[p].left)]
      /\ DOMAIN doing' = Person
      /\ \A q \in Person \ {p} : doing'[q] = doing[q]
  <2>1. DOMAIN doing' = Person /\ \A q \in Person \ {p} : doing'[q] = doing[q]
    BY <1>1, <1>4
  <2>2. doing[p] = [op |-> doing[p].op, says |-> doing[p].says, left |-> doing[p].left,
                    seen |-> doing[p].seen, ok |-> doing[p].ok, cut |-> doing[p].cut,
                    alone |-> doing[p].alone, fresh |-> doing[p].fresh]
    BY <1>1 DEF Doing
  <2>3. doing'[p] = [doing[p] EXCEPT !.seen = x, !.left = <<>> \o Tail(doing[p].left)]
    BY <1>1, <1>4, <2>2
  <2> QED  BY <1>3, <2>1, <2>3
<1>6. Called(p) /\ doing'[p].seen = x
  BY <1>1, <1>5 DEF Called, Doing
<1>7. tab' = tab /\ UNCHANGED <<appVars, ns, dnsVars>>
  BY DEF Reads
<1> QED  BY <1>1, <1>5, <1>6, <1>7 DEF Quiet

(* A call that changes the cluster.                                        *)
LEMMA WritesOnward ==
    ASSUME IInv, NEW p \in Person, Writes(p), doing[p].left # <<>>
    PROVE  /\ Called(p) /\ doing'[p].seen = doing[p].seen /\ tab' = tab
           /\ DOMAIN doing' = Person
           /\ tab' \in [Person -> {Closed} \cup EditingTab \cup NewTab \cup SettingsTab]
           /\ \A q \in Person \ {p} : Spared(q)
<1>1. /\ Doing(p) /\ DOMAIN doing = Person
      /\ tab \in [Person -> {Closed} \cup EditingTab \cup NewTab \cup SettingsTab]
  BY DEF IInv, Kept, Cluster
<1>2. /\ DOMAIN doing' = Person /\ tab' = tab
      /\ doing'[p] = [doing[p] EXCEPT !.left = Tail(@)]
  BY DEF Writes
<1>3. Called(p) /\ doing'[p].seen = doing[p].seen
  BY <1>1, <1>2 DEF Called, Doing
<1>4. ASSUME NEW q \in Person \ {p}
      PROVE  Spared(q)
  <2>1. Doing(q)
    BY DEF IInv, Kept
  <2>2. CASE doing[q].op = "idle"
    <3>1. doing'[q] = Idle /\ doing[q] = Idle
      BY <2>1, <2>2 DEF Writes, Doing
    <3> QED  BY <2>1, <2>2, <3>1 DEF Spared, Doing
  <2>3. CASE doing[q].op # "idle"
    <3>1. doing'[q] = [doing[q] EXCEPT !.alone = FALSE, !.fresh = FALSE]
      BY <2>3 DEF Writes
    <3>2. /\ doing'[q] = [op |-> doing[q].op, says |-> doing[q].says, left |-> doing[q].left,
                          seen |-> doing[q].seen, ok |-> doing[q].ok, cut |-> doing[q].cut,
                          alone |-> FALSE, fresh |-> FALSE]
      BY <2>1, <3>1 DEF Doing
    <3>3. doing'[q].alone = FALSE /\ doing'[q].fresh = FALSE
      BY <3>2
    <3> QED  BY <2>3, <3>2, <3>3 DEF Spared
  <2> QED  BY <2>2, <2>3
<1> QED  BY <1>1, <1>2, <1>3, <1>4

(* What is said of an action under way is said of one of its kind.         *)
LEMMA OfItsKind ==
    ASSUME NEW p \in Person
    PROVE  /\ doing'[p].op # "save" => Saves(p)'
           /\ doing'[p].op # "connect" => Connects(p)'
           /\ doing'[p].op # "disconnect" => Disconnects(p)'
           /\ doing'[p].op \notin {"make", "settle"} =>
                 Asked(p)' /\ Done(p)' /\ Steady(p)' /\ Unmade(p)'
           /\ doing'[p].op \notin {"add", "publish"} => Publishes(p)'
BY DEF Saves, Connects, Disconnects, Asked, Done, Steady, Unmade, Publishes, Settling

\* A call that doesn't come after another's turn.
NotAfter(a, do) == a # "pull Secret" /\ ~(Turn(do) < Turn(a))

(* A call whose turn is over is not to come again.                         *)
LEMMA Passed ==
    ASSUME NEW p \in Person, Doing(p), doing[p].left # <<>>, NEW a,
           NotAfter(a, Head(doing[p].left).do)
    PROVE  \A d \in Elements(Tail(doing[p].left)) : d.do # a
<1>1. SUFFICES ASSUME NEW d \in Elements(Tail(doing[p].left)), d.do = a
               PROVE  FALSE
  OBVIOUS
<1>2. Precedes(Head(doing[p].left), d)
  BY Coming
<1> QED  BY <1>1, <1>2 DEF Precedes, NotAfter

(* The calls of the application's page that are over after another.        *)
LEMMA Over ==
    /\ NotAfter("read", "read") /\ NotAfter("read", "replace")
    /\ NotAfter("replace", "replace") /\ NotAfter("create", "create")
    /\ NotAfter("list users", "list users") /\ NotAfter("list users", "delete Secret")
<1>1. ~(0 < 0) /\ ~(1 < 0) /\ ~(1 < 1) /\ ~(2 < 0) /\ ~(2 < 1)
  OBVIOUS
<1>2. NotAfter("read", "read") /\ NotAfter("create", "create")
  BY <1>1, OtherTurns DEF NotAfter
<1>3. NotAfter("read", "replace")
  BY <1>1, OtherTurns DEF NotAfter
<1>4. NotAfter("replace", "replace") /\ NotAfter("list users", "list users")
  BY <1>1, OtherTurns DEF NotAfter
<1>5. NotAfter("list users", "delete Secret")
  BY <1>1, OtherTurns DEF NotAfter
<1> QED  BY <1>2, <1>3, <1>4, <1>5

(* An action that is refused, or one of whose calls fails, has nothing more to *)
(* come; a fresh save of settings that isn't cut is refused only for a pull  *)
(* Secret that is there.                                                   *)
LEMMA Stopped ==
    ASSUME IInv, NEW p \in Person, doing[p].left # <<>>, Quiet(p), tab' = tab,
           doing'[p] = [op |-> doing[p].op, says |-> doing[p].says, left |-> <<>>,
                        seen |-> doing[p].seen, ok |-> FALSE, cut |-> doing'[p].cut,
                        alone |-> doing[p].alone, fresh |-> doing[p].fresh],
           doing'[p].cut \in BOOLEAN, doing[p].cut => doing'[p].cut,
           \/ doing'[p].cut
           \/ doing[p].op # "settle"
           \/ \E r \in Registry : PullPending(p, r) /\ r \in ns.secrets
    PROVE  IInv'
<1>1. Cluster' /\ Grown /\ \A q \in Person \ {p} : Kept(q)'
  BY QuietKeeps
<1>2. Cluster /\ Kept(p)
  BY DEF IInv
<1>3. Tab(p)'
  BY <1>1, <1>2, TabKept DEF Kept
<1>4. Doing(p) /\ doing[p].op # "idle"
  BY <1>2, Coming DEF Kept
<1>5. /\ doing'[p].op = doing[p].op /\ doing'[p].says = doing[p].says
      /\ doing'[p].left = <<>> /\ doing'[p].seen = doing[p].seen /\ doing'[p].ok = FALSE
      /\ doing'[p].alone = doing[p].alone /\ doing'[p].fresh = doing[p].fresh
  <2> DEFINE cut == doing'[p].cut
  <2>1. doing'[p] = [op |-> doing[p].op, says |-> doing[p].says, left |-> <<>>,
                     seen |-> doing[p].seen, ok |-> FALSE, cut |-> cut,
                     alone |-> doing[p].alone, fresh |-> doing[p].fresh]
    OBVIOUS
  <2> HIDE DEF cut
  <2> QED  BY <2>1
<1>6. Left(p)' = {} /\ Ordered(doing'[p].left) /\ doing'[p].left \in Seq(ACall)
  BY <1>5, NoElements DEF Left
<1>7. Doing(p)'
  <2>1. doing'[p] = [op |-> doing'[p].op, says |-> doing'[p].says, left |-> doing'[p].left,
                     seen |-> doing'[p].seen, ok |-> doing'[p].ok, cut |-> doing'[p].cut,
                     alone |-> doing'[p].alone, fresh |-> doing'[p].fresh]
    BY <1>5
  <2>2. /\ doing'[p].op \in Ops /\ doing'[p].alone \in BOOLEAN /\ doing'[p].fresh \in BOOLEAN
    BY <1>4, <1>5 DEF Doing
  <2> QED  BY <1>4, <1>5, <1>6, <2>1, <2>2 DEF Doing
<1>8. Saves(p)' /\ Connects(p)' /\ Disconnects(p)'
  BY <1>2, <1>5, <1>6 DEF Kept, Saves, Connects, Disconnects, Pending
<1>9. ns' = ns
  BY DEF Quiet
<1>10. Asked(p)'
  BY <1>2, <1>5, <1>6 DEF Kept, Asked, Settling, Pending, PullPending
<1>11. Done(p)'
  BY <1>5 DEF Done
<1>12. Steady(p)'
  BY <1>2, <1>5, <1>6, <1>9 DEF Kept, Steady, Settling, Pending
<1>13. Unmade(p)'
  <2>1. SUFFICES ASSUME doing[p].op = "settle", doing[p].fresh, ~doing'[p].cut,
                        doing[p].says.registries \cap tab[p].from.secrets = {}
                 PROVE  FALSE
    BY <1>5 DEF Unmade
  <2>2. Unmade(p)
    BY <1>2 DEF Kept
  <2> QED  BY <2>1, <2>2 DEF Unmade
<1>14. Publishes(p)'
  BY <1>2, <1>5, <1>6 DEF Kept, Publishes, Listed, Pending
<1>15. Kept(p)'
  BY <1>3, <1>7, <1>8, <1>10, <1>11, <1>12, <1>13, <1>14 DEF Kept
<1> QED  BY <1>1, <1>15 DEF IInv

(* An answer that is an error, of any action but a save of settings.       *)
LEMMA RefusedKeeps ==
    ASSUME IInv, NEW p \in Person, doing[p].left # <<>>, Refused(p),
           \/ doing[p].op # "settle"
           \/ \E r \in Registry : PullPending(p, r) /\ r \in ns.secrets
    PROVE  IInv'
<1>1. Doing(p) /\ Cluster
  BY DEF IInv, Kept
<1>2. doing' = [doing EXCEPT ![p].ok = FALSE, ![p].left = <<>>]
  BY DEF Refused, Thrown
<1>3. /\ doing'[p] = [op |-> doing[p].op, says |-> doing[p].says, left |-> <<>>,
                      seen |-> doing[p].seen, ok |-> FALSE, cut |-> doing[p].cut,
                      alone |-> doing[p].alone, fresh |-> doing[p].fresh]
      /\ DOMAIN doing' = Person
      /\ \A q \in Person \ {p} : doing'[q] = doing[q]
  BY <1>1, <1>2 DEF Doing, Cluster
<1>4. doing'[p].cut = doing[p].cut /\ doing[p].cut \in BOOLEAN
  BY <1>1, <1>3 DEF Doing
<1>5. tab' = tab /\ Quiet(p)
  BY <1>1, <1>3 DEF Refused, Quiet, Cluster, bounds
<1> QED  BY <1>3, <1>4, <1>5, Stopped

(* A call that fails.                                                      *)
LEMMA CallFailsKeeps ==
    ASSUME IInv, NEW p \in Person, CallFails(p)
    PROVE  IInv'
<1>1. Doing(p) /\ Cluster
  BY DEF IInv, Kept
<1>2. doing' = [doing EXCEPT ![p].ok = FALSE, ![p].left = <<>>, ![p].cut = TRUE]
  BY DEF CallFails
<1>3. /\ doing'[p] = [op |-> doing[p].op, says |-> doing[p].says, left |-> <<>>,
                      seen |-> doing[p].seen, ok |-> FALSE, cut |-> TRUE,
                      alone |-> doing[p].alone, fresh |-> doing[p].fresh]
      /\ DOMAIN doing' = Person
      /\ \A q \in Person \ {p} : doing'[q] = doing[q]
  BY <1>1, <1>2 DEF Doing, Cluster
<1>4. doing'[p].cut = TRUE
  BY <1>3
<1>5. tab' = tab /\ Quiet(p) /\ doing[p].left # <<>>
  BY <1>1, <1>3 DEF CallFails, Quiet, Cluster
<1> QED  BY <1>3, <1>4, <1>5, Stopped

(* A call that reads, once what is said of its action holds.               *)
LEMMA AfterRead ==
    ASSUME IInv, NEW p \in Person, Quiet(p), Called(p), tab' = tab, doing[p].left # <<>>,
           Saves(p)', Connects(p)', Disconnects(p)', Asked(p)', Done(p)', Steady(p)',
           Unmade(p)', Publishes(p)'
    PROVE  IInv'
<1>1. Cluster' /\ Grown /\ \A q \in Person \ {p} : Kept(q)'
  BY QuietKeeps
<1>2. Cluster /\ Tab(p) /\ Doing(p)
  BY DEF IInv, Kept
<1>3. Tab(p)' /\ Doing(p)'
  BY <1>1, <1>2, TabKept, CalledKeeps
<1> QED  BY <1>1, <1>3 DEF IInv, Kept

(* A call that changes the cluster, once what is said of the cluster and of *)
(* its action holds.                                                       *)
LEMMA AfterWrite ==
    ASSUME IInv, NEW p \in Person, Writes(p), doing[p].left # <<>>, Grown, Cluster',
           Saves(p)', Connects(p)', Disconnects(p)', Asked(p)', Done(p)', Steady(p)',
           Unmade(p)', Publishes(p)'
    PROVE  IInv'
<1>1. Called(p) /\ tab' = tab /\ \A q \in Person \ {p} : Spared(q)
  BY WritesOnward
<1>2. Cluster /\ \A q \in Person : Kept(q)
  BY DEF IInv
<1>3. Tab(p)' /\ Doing(p)'
  BY <1>1, <1>2, TabKept, CalledKeeps DEF Kept
<1>4. \A q \in Person \ {p} : Kept(q)'
  BY <1>1, <1>2, OthersKeep
<1>5. Kept(p)'
  BY <1>3 DEF Kept
<1> QED  BY <1>4, <1>5 DEF IInv

-----------------------------------------------------------------------------
(* The application's page                                                  *)

(* Which actions make the calls of this page.                              *)
LEMMA ByWhom ==
    /\ By("read") = {"save"} /\ By("replace") = {"save"} /\ By("create") = {"save"}
    /\ By("delete") = {"delete"} /\ By("patch") = {"allow"}
    /\ By("try the token") = {"connect"} /\ By("create Secret") = {"connect"}
    /\ By("list Secrets") = {"disconnect"} /\ By("list users") = {"disconnect"}
    /\ By("delete Secret") = {"disconnect"}
BY DEF By

(* The next call is one of the action that makes it, and is made once.     *)
LEMMA ComesNext ==
    ASSUME IInv, NEW p \in Person, NEW do, Comes(p, do)
    PROVE  /\ doing[p].left # <<>> /\ Head(doing[p].left).do = do
           /\ doing[p].ok = TRUE /\ doing[p].op \in By(do)
           /\ Pending(p, do)
           /\ \A a : NotAfter(a, do) => \A d \in Elements(Tail(doing[p].left)) : d.do # a
           /\ Elements(Tail(doing[p].left)) \subseteq Left(p)
           /\ Doing(p) /\ Tab(p) /\ Cluster
<1>1. Doing(p) /\ Tab(p) /\ Cluster
  BY DEF IInv, Kept
<1>2. doing[p].left # <<>> /\ Head(doing[p].left).do = do
  BY DEF Comes
<1>3. /\ Left(p) = {Head(doing[p].left)} \cup Elements(Tail(doing[p].left))
      /\ doing[p].ok = TRUE /\ doing[p].op \in By(Head(doing[p].left).do)
  BY <1>1, <1>2, Coming
<1>4. ASSUME NEW a, NotAfter(a, do)
      PROVE  \A d \in Elements(Tail(doing[p].left)) : d.do # a
  BY <1>1, <1>2, <1>4, Passed
<1>5. Pending(p, do)
  BY <1>2, <1>3 DEF Pending
<1> QED  BY <1>1, <1>2, <1>3, <1>4, <1>5

(* Reading the application (saveWebApplication).                           *)
LEMMA ReadApplicationKeeps ==
    ASSUME IInv, NEW p \in Person, ReadApplication(p)
    PROVE  IInv'
<1>1. Comes(p, "read")
  BY DEF ReadApplication
<1>2. /\ doing[p].left # <<>> /\ doing[p].op = "save"
      /\ \A d \in Elements(Tail(doing[p].left)) : d.do # "read"
      /\ Elements(Tail(doing[p].left)) \subseteq Left(p)
      /\ Doing(p) /\ Cluster
  BY <1>1, ComesNext, ByWhom, Over
<1>3. CASE app = None
  <2>1. Refused(p)
    BY <1>3 DEF ReadApplication
  <2>2. doing[p].op # "settle"
    BY <1>2
  <2> QED  BY <1>2, <2>1, <2>2, RefusedKeeps
<1>4. CASE app # None
  <2>1. PICK x : x = app
    OBVIOUS
  <2>2. Reads(p, x, <<>>)
    BY <1>4, <2>1 DEF ReadApplication, Reads
  <2>3. Quiet(p) /\ Called(p) /\ doing'[p].seen = x /\ tab' = tab
    BY <1>2, <2>2, ReadsQuietly
  <2>4. /\ Left(p)' = Elements(Tail(doing[p].left))
        /\ doing'[p].op = doing[p].op /\ doing'[p].says = doing[p].says
    BY <1>2, <2>3, CalledKeeps
  <2>5. ~Pending(p, "read")'
    BY <1>2, <2>4 DEF Pending
  <2>6. /\ Pending(p, "replace")' => Pending(p, "replace")
        /\ Pending(p, "create")' => Pending(p, "create")
    BY <1>2, <2>4 DEF Pending
  <2>7. app' = app /\ app \in Application
    BY <1>2, <1>4, <2>3 DEF Quiet, appVars, Cluster
  <2>8. Saves(p)
    BY DEF IInv, Kept
  <2>9. Saves(p)'
    BY <1>2, <2>1, <2>3, <2>4, <2>5, <2>6, <2>7, <2>8 DEF Saves
  <2>10. doing'[p].op = "save"
    BY <1>2, <2>4
  <2> QED  BY <1>2, <2>3, <2>9, <2>10, OfItsKind, AfterRead
<1> QED  BY <1>3, <1>4

(* Replacing it: the application read, with the form's fields, at a new    *)
(* version.                                                                *)
LEMMA ReplaceApplicationKeeps ==
    ASSUME IInv, NEW p \in Person, ReplaceApplication(p)
    PROVE  IInv'
<1>1. Comes(p, "replace")
  BY DEF ReplaceApplication
<1>2. /\ doing[p].left # <<>> /\ doing[p].op = "save"
      /\ \A d \in Elements(Tail(doing[p].left)) : d.do # "read" /\ d.do # "replace"
      /\ Elements(Tail(doing[p].left)) \subseteq Left(p)
      /\ Doing(p) /\ Cluster /\ Pending(p, "replace")
  BY <1>1, ComesNext, ByWhom, Over
<1>3. CASE app = None \/ app.version # Base(p).version
  <2>1. Refused(p)
    BY <1>3 DEF ReplaceApplication
  <2>2. doing[p].op # "settle"
    BY <1>2
  <2> QED  BY <1>2, <2>1, <2>2, RefusedKeeps
<1>4. CASE ~(app = None \/ app.version # Base(p).version)
  <2>1. /\ clock' = clock + 1
        /\ app' = [FromForm(Base(p), Says(p)) EXCEPT !.version = clock']
        /\ Writes(p)
        /\ UNCHANGED <<connections, allowed, ns, dnsVars>>
    BY <1>4 DEF ReplaceApplication
  <2>2. Saves(p)
    BY DEF IInv, Kept
  <2>3. ~Pending(p, "read")
    <3>1. Head(doing[p].left).do = "replace"
      BY <1>1 DEF Comes
    <3>2. Left(p) = {Head(doing[p].left)} \cup Elements(Tail(doing[p].left))
      BY <1>2, Coming
    <3> QED  BY <1>2, <3>1, <3>2 DEF Pending
  <2>4. tab[p].at = "editing" /\ doing[p].says = tab[p] /\ doing[p].seen \in Application
    BY <1>2, <2>2, <2>3 DEF Saves
  <2>5. tab[p] \in EditingTab
    BY <1>2, <2>4 DEF Cluster, Closed, NewTab, SettingsTab
  <2>6. clock \in Nat /\ clock' \in Nat /\ clock < clock'
    BY <1>2, <2>1 DEF Cluster
  <2>7. app' \in Application /\ app'.version = clock'
    <3>1. Says(p) = tab[p]
      BY <2>4 DEF Says
    <3>2. Base(p) \in Application
      BY <2>4, <2>5, <3>1 DEF Base, Application, EditingTab
    <3>3. FromForm(Base(p), Says(p)) \in Application
      BY <2>5, <3>1, <3>2 DEF FromForm, Application, EditingTab
    <3> QED  BY <2>1, <2>6, <3>3 DEF Application
  <2>8. Grown
    BY <2>1, <2>6, <2>7 DEF Grown
  <2>9. /\ Called(p) /\ tab' = tab /\ DOMAIN doing' = Person
        /\ tab' \in [Person -> {Closed} \cup EditingTab \cup NewTab \cup SettingsTab]
    BY <1>2, <2>1, WritesOnward
  <2>10. Cluster'
    BY <1>2, <2>1, <2>6, <2>7, <2>9 DEF Cluster, dnsVars
  <2>11. /\ Left(p)' = Elements(Tail(doing[p].left))
         /\ doing'[p].op = "save" /\ doing'[p].says = doing[p].says
    BY <1>2, <2>9, CalledKeeps
  <2>12. Saves(p)'
    <3>1. ~Pending(p, "read")' /\ ~Pending(p, "replace")'
      BY <1>2, <2>11 DEF Pending
    <3>2. Pending(p, "create")' => Pending(p, "create")
      BY <1>2, <2>11 DEF Pending
    <3> QED  BY <1>2, <2>2, <2>4, <2>9, <2>11, <3>1, <3>2 DEF Saves
  <2> QED  BY <1>2, <2>1, <2>8, <2>10, <2>11, <2>12, OfItsKind, AfterWrite
<1> QED  BY <1>3, <1>4

(* Creating one (saveWebApplication on a form with no application).        *)
LEMMA CreateApplicationKeeps ==
    ASSUME IInv, NEW p \in Person, CreateApplication(p)
    PROVE  IInv'
<1>1. Comes(p, "create")
  BY DEF CreateApplication
<1>2. /\ doing[p].left # <<>> /\ doing[p].op = "save"
      /\ \A d \in Elements(Tail(doing[p].left)) : d.do # "create"
      /\ Elements(Tail(doing[p].left)) \subseteq Left(p)
      /\ Doing(p) /\ Cluster
  BY <1>1, ComesNext, ByWhom, Over
<1>3. CASE app # None
  <2>1. Refused(p)
    BY <1>3 DEF CreateApplication
  <2>2. doing[p].op # "settle"
    BY <1>2
  <2> QED  BY <1>2, <2>1, <2>2, RefusedKeeps
<1>4. CASE app = None
  <2>1. /\ clock' = clock + 1
        /\ app' = [version |-> clock', shown |-> p, hidden |-> "unset", through |-> Says(p).through]
        /\ Writes(p)
        /\ UNCHANGED <<connections, allowed, ns, dnsVars>>
    BY <1>4 DEF CreateApplication
  <2>2. Saves(p)
    BY DEF IInv, Kept
  <2>3. tab[p].at \in {"new", "editing"} /\ doing[p].says = tab[p]
    BY <1>2, <2>2 DEF Saves
  <2>4. tab[p] \in EditingTab \cup NewTab
    BY <1>2, <2>3 DEF Cluster, Closed, SettingsTab
  <2>5. clock \in Nat /\ clock' \in Nat /\ clock < clock'
    BY <1>2, <2>1 DEF Cluster
  <2>6. app' \in Application /\ app'.version = clock'
    <3>1. Says(p).through \in Connection \cup {None}
      BY <2>3, <2>4 DEF Says, EditingTab, NewTab
    <3> QED  BY <2>1, <2>5, <3>1 DEF Application
  <2>7. Grown
    BY <2>1, <2>5, <2>6 DEF Grown
  <2>8. /\ Called(p) /\ tab' = tab /\ DOMAIN doing' = Person
        /\ tab' \in [Person -> {Closed} \cup EditingTab \cup NewTab \cup SettingsTab]
        /\ doing'[p].seen = doing[p].seen
    BY <1>2, <2>1, WritesOnward
  <2>9. Cluster'
    BY <1>2, <2>1, <2>5, <2>6, <2>8 DEF Cluster, dnsVars
  <2>10. /\ Left(p)' = Elements(Tail(doing[p].left))
         /\ doing'[p].op = "save" /\ doing'[p].says = doing[p].says
    BY <1>2, <2>8, CalledKeeps
  <2>11. ~Pending(p, "replace")'
    <3>1. Pending(p, "create") => ~Pending(p, "replace")
      BY <1>2, <2>2 DEF Saves
    <3> QED  BY <1>1, <1>2, <2>10, <3>1, ComesNext DEF Pending
  <2>12. Saves(p)'
    <3>1. ~Pending(p, "create")'
      BY <1>2, <2>10 DEF Pending
    <3>2. Pending(p, "read")' => Pending(p, "read")
      BY <1>2, <2>10 DEF Pending
    <3> QED  BY <1>2, <2>2, <2>3, <2>8, <2>10, <2>11, <3>1, <3>2 DEF Saves
  <2> QED  BY <1>2, <2>1, <2>7, <2>9, <2>10, <2>12, OfItsKind, AfterWrite
<1> QED  BY <1>3, <1>4

(* Deleting it.                                                            *)
LEMMA DeleteApplicationKeeps ==
    ASSUME IInv, NEW p \in Person, DeleteApplication(p)
    PROVE  IInv'
<1>1. Comes(p, "delete")
  BY DEF DeleteApplication
<1>2. doing[p].left # <<>> /\ doing[p].op = "delete" /\ Doing(p) /\ Cluster
  BY <1>1, ComesNext, ByWhom
<1>3. app' = None /\ Writes(p) /\ UNCHANGED <<connections, allowed, clock, ns, dnsVars>>
  BY DEF DeleteApplication
<1>4. /\ Called(p) /\ tab' = tab /\ DOMAIN doing' = Person
      /\ tab' \in [Person -> {Closed} \cup EditingTab \cup NewTab \cup SettingsTab]
  BY <1>2, <1>3, WritesOnward
<1>5. Grown /\ Cluster'
  BY <1>2, <1>3, <1>4 DEF Grown, Cluster, dnsVars
<1>6. doing'[p].op = "delete"
  BY <1>2, <1>4, CalledKeeps
<1> QED  BY <1>2, <1>3, <1>5, <1>6, OfItsKind, AfterWrite

(* Allowing the namespace what the application needs.                      *)
LEMMA PatchLabelsKeeps ==
    ASSUME IInv, NEW p \in Person, PatchLabels(p)
    PROVE  IInv'
<1>1. Comes(p, "patch")
  BY DEF PatchLabels
<1>2. doing[p].left # <<>> /\ doing[p].op = "allow" /\ Doing(p) /\ Cluster
  BY <1>1, ComesNext, ByWhom
<1>3. Writes(p) /\ UNCHANGED <<app, connections, clock, ns, dnsVars>>
  BY DEF PatchLabels
<1>4. /\ Called(p) /\ tab' = tab /\ DOMAIN doing' = Person
      /\ tab' \in [Person -> {Closed} \cup EditingTab \cup NewTab \cup SettingsTab]
  BY <1>2, <1>3, WritesOnward
<1>5. Grown /\ Cluster'
  BY <1>2, <1>3, <1>4 DEF Grown, Cluster, dnsVars
<1>6. doing'[p].op = "allow"
  BY <1>2, <1>4, CalledKeeps
<1> QED  BY <1>2, <1>3, <1>5, <1>6, OfItsKind, AfterWrite

(* Trying a connection's token.                                            *)
LEMMA TryTokenKeeps ==
    ASSUME IInv, NEW p \in Person, TryToken(p)
    PROVE  IInv'
<1>1. Comes(p, "try the token")
  BY DEF TryToken
<1>2. doing[p].left # <<>> /\ doing[p].op = "connect" /\ Doing(p)
  BY <1>1, ComesNext, ByWhom
<1>3. Quiet(p) /\ Called(p) /\ tab' = tab
  BY <1>2, ReadsQuietly DEF TryToken
<1>4. doing'[p].op = "connect" /\ doing'[p].says = doing[p].says
  BY <1>2, <1>3, CalledKeeps
<1>5. Connects(p)'
  BY <1>2, <1>4 DEF IInv, Kept, Connects
<1> QED  BY <1>2, <1>3, <1>4, <1>5, OfItsKind, AfterRead

(* Making the connection's Secret.                                         *)
LEMMA CreateConnectionKeeps ==
    ASSUME IInv, NEW p \in Person, CreateConnection(p)
    PROVE  IInv'
<1>1. Comes(p, "create Secret")
  BY DEF CreateConnection
<1>2. doing[p].left # <<>> /\ doing[p].op = "connect" /\ Doing(p) /\ Cluster
  BY <1>1, ComesNext, ByWhom
<1>3. CASE Says(p) \in connections
  <2>1. Refused(p)
    BY <1>3 DEF CreateConnection
  <2>2. doing[p].op # "settle"
    BY <1>2
  <2> QED  BY <1>2, <2>1, <2>2, RefusedKeeps
<1>4. CASE Says(p) \notin connections
  <2>1. /\ connections' = connections \cup {Says(p)} /\ Writes(p)
        /\ UNCHANGED <<app, allowed, clock, ns, dnsVars>>
    BY <1>4 DEF CreateConnection
  <2>2. Says(p) \in Connection
    BY <1>2 DEF IInv, Kept, Connects, Says
  <2>3. /\ Called(p) /\ tab' = tab /\ DOMAIN doing' = Person
        /\ tab' \in [Person -> {Closed} \cup EditingTab \cup NewTab \cup SettingsTab]
    BY <1>2, <2>1, WritesOnward
  <2>4. Grown /\ Cluster'
    BY <1>2, <2>1, <2>2, <2>3 DEF Grown, Cluster, dnsVars
  <2>5. doing'[p].op = "connect" /\ doing'[p].says = doing[p].says
    BY <1>2, <2>3, CalledKeeps
  <2>6. Connects(p)'
    BY <1>2, <2>5 DEF IInv, Kept, Connects
  <2> QED  BY <1>2, <2>1, <2>4, <2>5, <2>6, OfItsKind, AfterWrite
<1> QED  BY <1>3, <1>4

(* Looking for the Secret to remove.                                       *)
LEMMA ListSecretsKeeps ==
    ASSUME IInv, NEW p \in Person, ListSecrets(p)
    PROVE  IInv'
<1>1. Comes(p, "list Secrets")
  BY DEF ListSecrets
<1>2. /\ doing[p].left # <<>> /\ doing[p].op = "disconnect" /\ Doing(p)
      /\ Head(doing[p].left).do = "list Secrets"
      /\ Left(p) = {Head(doing[p].left)} \cup Elements(Tail(doing[p].left))
  BY <1>1, ComesNext, ByWhom, Coming
<1>3. CASE Says(p) \notin connections
  <2>1. Refused(p)
    BY <1>3 DEF ListSecrets
  <2>2. doing[p].op # "settle"
    BY <1>2
  <2> QED  BY <1>2, <2>1, <2>2, RefusedKeeps
<1>4. CASE Says(p) \in connections
  <2>1. Quiet(p) /\ Called(p) /\ tab' = tab
    BY <1>2, <1>4, ReadsQuietly DEF ListSecrets
  <2>2. /\ Left(p)' = Elements(Tail(doing[p].left))
        /\ doing'[p].op = "disconnect" /\ doing'[p].says = doing[p].says
        /\ doing'[p].alone = doing[p].alone /\ doing[p].ok = TRUE
    BY <1>2, <2>1, CalledKeeps, Coming
  <2>3. Pending(p, "list users") => Pending(p, "list users")'
    BY <1>2, <2>2 DEF Pending
  <2>4. app' = app
    BY <2>1 DEF Quiet, appVars
  <2>5. Disconnects(p)'
    BY <1>2, <2>2, <2>3, <2>4 DEF IInv, Kept, Disconnects
  <2> QED  BY <1>2, <2>1, <2>2, <2>5, OfItsKind, AfterRead
<1> QED  BY <1>3, <1>4

(* Looking for the applications that use it.                               *)
LEMMA ListUsersKeeps ==
    ASSUME IInv, NEW p \in Person, ListUsers(p)
    PROVE  IInv'
<1>1. Comes(p, "list users")
  BY DEF ListUsers
<1>2. doing[p].left # <<>> /\ doing[p].op = "disconnect" /\ Doing(p)
  BY <1>1, ComesNext, ByWhom
<1>3. CASE app # None /\ app.through = Says(p)
  <2>1. Refused(p)
    BY <1>3 DEF ListUsers
  <2>2. doing[p].op # "settle"
    BY <1>2
  <2> QED  BY <1>2, <2>1, <2>2, RefusedKeeps
<1>4. CASE ~(app # None /\ app.through = Says(p))
  <2>1. Quiet(p) /\ Called(p) /\ tab' = tab
    BY <1>2, <1>4, ReadsQuietly DEF ListUsers
  <2>2. doing'[p].op = "disconnect" /\ doing'[p].says = doing[p].says
    BY <1>2, <2>1, CalledKeeps
  <2>3. app' = app
    BY <2>1 DEF Quiet, appVars
  <2>4. Disconnects(p)'
    BY <1>4, <2>2, <2>3 DEF Disconnects, Says
  <2> QED  BY <1>2, <2>1, <2>2, <2>4, OfItsKind, AfterRead
<1> QED  BY <1>3, <1>4

(* Removing it.                                                            *)
LEMMA DeleteConnectionKeeps ==
    ASSUME IInv, NEW p \in Person, DeleteConnection(p)
    PROVE  IInv'
<1>1. Comes(p, "delete Secret")
  BY DEF DeleteConnection
<1>2. /\ doing[p].left # <<>> /\ doing[p].op = "disconnect" /\ Doing(p) /\ Cluster
      /\ Head(doing[p].left).do = "delete Secret"
      /\ Left(p) = {Head(doing[p].left)} \cup Elements(Tail(doing[p].left))
  BY <1>1, ComesNext, ByWhom, Coming
<1>3. /\ connections' = connections \ {Says(p)} /\ Writes(p)
      /\ UNCHANGED <<app, allowed, clock, ns, dnsVars>>
  BY DEF DeleteConnection
<1>4. /\ Called(p) /\ tab' = tab /\ DOMAIN doing' = Person
      /\ tab' \in [Person -> {Closed} \cup EditingTab \cup NewTab \cup SettingsTab]
  BY <1>2, <1>3, WritesOnward
<1>5. Grown
  <2>1. app' = app /\ clock' = clock /\ ns' = ns
    BY <1>3
  <2>2. clock \in Nat
    BY <1>2 DEF Cluster
  <2> QED  BY <2>1, <2>2 DEF Grown
<1>9. Cluster'
  <2>1. connections' \subseteq Connection
    BY <1>2, <1>3 DEF Cluster
  <2> QED  BY <1>2, <1>3, <1>4, <2>1 DEF Cluster, dnsVars
<1>6. /\ Left(p)' = Elements(Tail(doing[p].left))
      /\ doing'[p].op = "disconnect" /\ doing'[p].says = doing[p].says
      /\ doing'[p].alone = doing[p].alone /\ doing[p].ok = TRUE
  BY <1>2, <1>4, CalledKeeps, Coming
<1>7. Pending(p, "list users") => Pending(p, "list users")'
  BY <1>2, <1>6 DEF Pending
<1>8. Disconnects(p)'
  BY <1>2, <1>3, <1>6, <1>7 DEF IInv, Kept, Disconnects
<1> QED  BY <1>2, <1>3, <1>5, <1>6, <1>8, <1>9, OfItsKind, AfterWrite

-----------------------------------------------------------------------------
(* The namespace's page                                                    *)

(* The calls of a save of settings that are over after another.            *)
LEMMA OverToo ==
    /\ \A do : NotAfter("get Namespace", do) /\ NotAfter("create Namespace", do)
    /\ NotAfter("label", "label") /\ NotAfter("annotate", "annotate")
    /\ \A do \in {"limits", "quota", "no quota", "no limits"} : NotAfter("limits", do)
    /\ \A do \in {"quota", "no quota", "no limits"} :
          NotAfter("quota", do) /\ NotAfter("no quota", do)
    /\ NotAfter("no limits", "no limits") /\ NotAfter("defaults", "defaults")
<1>1. \A n \in 0 .. 7 : ~(n < 0)
  OBVIOUS
<1>2. \A do : NotAfter("get Namespace", do) /\ NotAfter("create Namespace", do)
  BY <1>1, Turns, TurnType DEF NotAfter
<1>3. ~(1 < 1) /\ ~(2 < 2) /\ ~(3 < 3) /\ ~(4 < 3) /\ ~(5 < 3) /\ ~(4 < 4) /\ ~(5 < 4)
      /\ ~(5 < 5) /\ ~(7 < 7)
  OBVIOUS
<1>4. NotAfter("label", "label") /\ NotAfter("annotate", "annotate")
  BY <1>3, Turns DEF NotAfter
<1>5. \A do \in {"limits", "quota", "no quota", "no limits"} : NotAfter("limits", do)
  BY <1>3, Turns DEF NotAfter
<1>6. \A do \in {"quota", "no quota", "no limits"} :
         NotAfter("quota", do) /\ NotAfter("no quota", do)
  BY <1>3, Turns DEF NotAfter
<1>7. NotAfter("no limits", "no limits") /\ NotAfter("defaults", "defaults")
  BY <1>3, Turns DEF NotAfter
<1> QED  BY <1>2, <1>4, <1>5, <1>6, <1>7

\* The calls that both saves of settings make.
Common == {"limits", "quota", "no quota", "no limits", "pull Secret", "defaults"}

(* The calls of each save of settings.                                     *)
LEMMA SettlingCalls ==
    /\ \A do \in Steps : "settle" \in By(do) =>
          do \in Common \cup {"get Namespace", "label", "annotate"}
    /\ \A do \in Steps : "make" \in By(do) => do \in Common \cup {"create Namespace"}
    /\ By("label") = {"settle"} /\ By("annotate") = {"settle"} /\ By("get Namespace") = {"settle"}
    /\ By("create Namespace") = {"make"}
<1>1. /\ By("label") = {"settle"} /\ By("annotate") = {"settle"} /\ By("get Namespace") = {"settle"}
      /\ By("create Namespace") = {"make"}
  BY DEF By
<1>2. ASSUME NEW do \in Steps
      PROVE  /\ "settle" \in By(do) => do \in Common \cup {"get Namespace", "label", "annotate"}
             /\ "make" \in By(do) => do \in Common \cup {"create Namespace"}
  BY <1>2 DEF By, Steps, Common
<1> QED  BY <1>1, <1>2

(* A namespace has all its settings.                                       *)
LEMMA SettingsFields ==
    ASSUME NEW n \in Settings
    PROVE  /\ n.there \in BOOLEAN /\ n.placed \in Region \cup {None}
           /\ n.legacy \in Region \cup {None, ByHand} /\ n.quota \subseteq Resource
           /\ n.limits \subseteq {"cpu", "memory"} /\ n.defaults \subseteq Registry
           /\ n.secrets \subseteq Registry
           /\ n = [there |-> n.there, placed |-> n.placed, legacy |-> n.legacy,
                   quota |-> n.quota, limits |-> n.limits, defaults |-> n.defaults,
                   secrets |-> n.secrets]
BY DEF Settings, Resource

(* A save of settings has a page with a form of its types.                 *)
LEMMA SettlingForm ==
    ASSUME IInv, NEW p \in Person, Settling(p)
    PROVE  /\ doing[p].says \in Form /\ Valid(doing[p].says)
           /\ tab[p].says = doing[p].says /\ tab[p].from \in Settings
           /\ tab[p].at = IF doing[p].op = "make" THEN "making" ELSE "settings"
           /\ tab[p].says.keep \subseteq ns.secrets
           /\ doing[p].op = "make" => tab[p].from = NoNamespace
           /\ doing[p].op = "settle" => ns.there
<1>1. Asked(p) /\ Tab(p) /\ Cluster
  BY DEF IInv, Kept
<1>2. /\ tab[p].at = IF doing[p].op = "make" THEN "making" ELSE "settings"
      /\ doing[p].says = tab[p].says /\ Valid(doing[p].says)
  BY <1>1 DEF Asked
<1>3. tab[p] \in SettingsTab
  BY <1>1, <1>2 DEF Cluster, Closed, EditingTab, NewTab
<1>4. tab[p].says \in Form /\ tab[p].from \in Settings
  BY <1>3 DEF SettingsTab
<1>5. /\ tab[p].at \in {"settings", "making"}
      /\ doing[p].op = "make" => tab[p].at = "making"
      /\ doing[p].op = "settle" => tab[p].at = "settings"
  BY <1>2
<1> QED  BY <1>1, <1>2, <1>4, <1>5 DEF Tab

(* Reading the namespace, which says what is to come about its region      *)
(* (saveNamespaceSettings).                                                *)
LEMMA GetNamespaceKeeps ==
    ASSUME IInv, NEW p \in Person, GetNamespace(p)
    PROVE  IInv'
<1> DEFINE f == doing[p].says
           patch == PlacementPatch(f, ns)
           rest == Tail(doing[p].left)
<1>1. Comes(p, "get Namespace") /\ Reads(p, None, patch)
  BY DEF GetNamespace, Says
<1>2. /\ doing[p].left # <<>> /\ doing[p].op = "settle" /\ Doing(p) /\ Tab(p) /\ Cluster
      /\ Head(doing[p].left).do = "get Namespace" /\ Pending(p, "get Namespace")
      /\ \A d \in Elements(rest) : d.do # "get Namespace"
  BY <1>1, ComesNext, SettlingCalls, OverToo
<1>3. /\ rest \in Seq(ACall) /\ Ordered(rest) /\ doing[p].ok = TRUE
      /\ Left(p) = {Head(doing[p].left)} \cup Elements(rest)
      /\ \A d \in Elements(rest) : "settle" \in By(d.do)
  BY <1>2, Coming
<1>4. Settling(p)
  BY <1>2 DEF Settling
<1>5. /\ f \in Form /\ tab[p].says = f /\ Asked(p) /\ Done(p) /\ Steady(p) /\ Unmade(p) /\ ns.there
      /\ tab[p].at = "settings" /\ Valid(f)
  <2>1. f \in Form /\ tab[p].says = f /\ Valid(f) /\ ns.there
        /\ tab[p].at = IF doing[p].op = "make" THEN "making" ELSE "settings"
    BY <1>2, <1>4, SettlingForm
  <2>2. Asked(p) /\ Done(p) /\ Steady(p) /\ Unmade(p)
    BY DEF IInv, Kept
  <2> QED  BY <1>2, <2>1, <2>2
<1>6. /\ patch \in Seq(ACall) /\ Ordered(patch)
      /\ \A c : c \in Elements(patch) <=>
                  \/ (f.region # None \/ ns.placed # None) /\ c = Call("label", None)
                  \/ LegacyRegionOf(ns) # None /\ c = Call("annotate", None)
  BY PlacementCalls
<1>7. /\ Call("label", None).do = "label" /\ Call("annotate", None).do = "annotate"
  BY NamedCall DEF Steps
<1>8. \A c \in Elements(patch) : c.do \in {"label", "annotate"}
  BY <1>6, <1>7
<1>9. InTurns(patch, 1, 2)
  <2>1. 1 \in 1 .. 2 /\ 2 \in 1 .. 2
    OBVIOUS
  <2>2. Turn("label") \in 1 .. 2 /\ Turn("annotate") \in 1 .. 2
    BY <2>1, Turns
  <2>3. \A c \in Elements(patch) : c.do = "label" \/ c.do = "annotate"
    BY <1>8
  <2> QED  BY <2>2, <2>3 DEF InTurns
<1>10. \A d \in Elements(rest) : d.do \in Common
  <2>1. SUFFICES ASSUME NEW d \in Elements(rest)
                 PROVE  d.do \in Common
    OBVIOUS
  <2>2. d \in ACall /\ d.do \in Steps
    BY <1>3, <2>1, ElementsIn DEF ACall
  <2>3. d.do \in Common \cup {"get Namespace", "label", "annotate"}
    BY <1>3, <2>2, SettlingCalls
  <2>4. ~Pending(p, "label") /\ ~Pending(p, "annotate")
    BY <1>2, <1>4, <1>5 DEF Asked
  <2>5. d.do # "label" /\ d.do # "annotate"
    BY <1>3, <2>4 DEF Pending
  <2> QED  BY <1>2, <2>3, <2>5
<1>11. InTurns(rest, 3, 7)
  <2>1. 3 \in 3 .. 7 /\ 4 \in 3 .. 7 /\ 5 \in 3 .. 7 /\ 6 \in 3 .. 7 /\ 7 \in 3 .. 7
    OBVIOUS
  <2>2. /\ Turn("limits") \in 3 .. 7 /\ Turn("quota") \in 3 .. 7 /\ Turn("no quota") \in 3 .. 7
        /\ Turn("no limits") \in 3 .. 7 /\ Turn("pull Secret") \in 3 .. 7
        /\ Turn("defaults") \in 3 .. 7
    BY <2>1, Turns
  <2>3. \A d \in Elements(rest) : \/ d.do = "limits" \/ d.do = "quota" \/ d.do = "no quota"
                                  \/ d.do = "no limits" \/ d.do = "pull Secret"
                                  \/ d.do = "defaults"
    BY <1>10 DEF Common
  <2> QED  BY <2>2, <2>3 DEF InTurns
<1> HIDE DEF patch, rest
<1>12. /\ patch \o rest \in Seq(ACall) /\ Ordered(patch \o rest)
       /\ Elements(patch \o rest) = Elements(patch) \cup Elements(rest)
  BY <1>3, <1>6, <1>9, <1>11, Joined
<1> DEFINE left == patch \o rest
<1>13. /\ doing' = [doing EXCEPT ![p].seen = None, ![p].left = patch \o Tail(@)]
       /\ tab' = tab /\ UNCHANGED <<appVars, ns, dnsVars>>
  BY <1>1 DEF Reads
<1>14. /\ doing'[p] = [op |-> doing[p].op, says |-> f, left |-> left,
                       seen |-> None, ok |-> doing[p].ok, cut |-> doing[p].cut,
                       alone |-> doing[p].alone, fresh |-> doing[p].fresh]
       /\ DOMAIN doing' = Person
       /\ \A q \in Person \ {p} : doing'[q] = doing[q]
  <2>1. DOMAIN doing' = Person /\ \A q \in Person \ {p} : doing'[q] = doing[q]
    BY <1>2, <1>13 DEF Cluster
  <2>2. doing[p] = [op |-> doing[p].op, says |-> f, left |-> doing[p].left,
                    seen |-> doing[p].seen, ok |-> doing[p].ok, cut |-> doing[p].cut,
                    alone |-> doing[p].alone, fresh |-> doing[p].fresh]
    BY <1>2 DEF Doing
  <2>3. doing'[p] = [doing[p] EXCEPT !.seen = None, !.left = patch \o Tail(doing[p].left)]
    BY <1>2, <1>13, <2>2 DEF Cluster
  <2> QED  BY <2>1, <2>2, <2>3 DEF rest
<1> HIDE DEF left
<1>15. /\ left \in Seq(ACall) /\ Ordered(left)
       /\ Elements(left) = Elements(patch) \cup Elements(rest)
  BY <1>12 DEF left
<1>16. /\ doing'[p].op = "settle" /\ doing'[p].says = f /\ doing'[p].left = left
       /\ doing'[p].ok = TRUE /\ doing'[p].cut = doing[p].cut
       /\ doing'[p].alone = doing[p].alone /\ doing'[p].fresh = doing[p].fresh
  <2>1. /\ doing'[p].op = doing[p].op /\ doing'[p].says = f /\ doing'[p].left = left
        /\ doing'[p].ok = doing[p].ok /\ doing'[p].cut = doing[p].cut
        /\ doing'[p].alone = doing[p].alone /\ doing'[p].fresh = doing[p].fresh
    BY <1>14
  <2> QED  BY <1>2, <1>3, <2>1
<1>17. Left(p)' = Elements(patch) \cup Elements(rest)
  BY <1>15, <1>16 DEF Left
<1>18. Quiet(p)
  BY <1>2, <1>13, <1>14 DEF Quiet, Cluster
<1>19. Cluster' /\ Grown /\ (\A q \in Person \ {p} : Kept(q)') /\ Tab(p)'
  BY <1>2, <1>13, <1>18, QuietKeeps, TabKept
<1>20. Doing(p)'
  <2>1. doing'[p] = [op |-> doing'[p].op, says |-> doing'[p].says, left |-> doing'[p].left,
                     seen |-> doing'[p].seen, ok |-> doing'[p].ok, cut |-> doing'[p].cut,
                     alone |-> doing'[p].alone, fresh |-> doing'[p].fresh]
    BY <1>14
  <2>2. \A c \in Left(p)' : "settle" \in By(c.do)
    BY <1>3, <1>8, <1>17, SettlingCalls
  <2>3. /\ doing'[p].op \in Ops /\ doing'[p].cut \in BOOLEAN
        /\ doing'[p].alone \in BOOLEAN /\ doing'[p].fresh \in BOOLEAN
    BY <1>2, <1>16 DEF Doing
  <2> QED  BY <1>15, <1>16, <2>1, <2>2, <2>3 DEF Doing
<1>21. /\ \A a \in Common : Pending(p, a)' <=> Pending(p, a)
       /\ \A r \in Registry \cup {None} : PullPending(p, r)' <=> PullPending(p, r)
       /\ ~Pending(p, "get Namespace")'
  <2>1. \A a \in Common : a \notin {"label", "annotate", "get Namespace"}
    BY DEF Common
  <2>2. \A a \in Common : Pending(p, a)' <=> Pending(p, a)
    BY <1>2, <1>3, <1>8, <1>17, <2>1 DEF Pending
  <2>3. \A r \in Registry \cup {None} : PullPending(p, r)' <=> PullPending(p, r)
    BY <1>2, <1>3, <1>8, <1>17 DEF PullPending
  <2>4. ~Pending(p, "get Namespace")'
    BY <1>2, <1>8, <1>17 DEF Pending
  <2> QED  BY <2>2, <2>3, <2>4
<1>22. /\ Pending(p, "limits")' <=> Pending(p, "limits")
       /\ Pending(p, "no limits")' <=> Pending(p, "no limits")
       /\ Pending(p, "quota")' <=> Pending(p, "quota")
       /\ Pending(p, "no quota")' <=> Pending(p, "no quota")
       /\ Pending(p, "defaults")' <=> Pending(p, "defaults")
  BY <1>21 DEF Common
<1>23. ns' = ns
  BY <1>13
<1>24. Settling(p)'
  BY <1>16 DEF Settling
<1>25. Asked(p)'
  <2>1. \A r \in f.registries : r \in Registry
    BY <1>5 DEF Form
  <2>2. \A r \in f.registries : r \in ns'.secrets \/ PullPending(p, r)'
    BY <1>3, <1>4, <1>5, <1>21, <1>23, <2>1 DEF Asked
  <2>3. \A r \in Registry \cup {None} : PullPending(p, r)' => r \in f.registries
    BY <1>4, <1>5, <1>21 DEF Asked
  <2>4. /\ Pending(p, "limits") => f.limits # {}
        /\ Pending(p, "no limits") => f.limits = {}
        /\ Pending(p, "quota") => f.quota # {}
        /\ Pending(p, "no quota") => f.quota = {}
    BY <1>4, <1>5 DEF Asked
  <2> QED  BY <1>5, <1>13, <1>16, <1>21, <1>22, <1>23, <1>24, <2>2, <2>3, <2>4 DEF Asked
<1>26. Done(p)'
  <2>1. SUFFICES ASSUME doing[p].alone
                 PROVE  /\ ns.placed = f.region \/ Pending(p, "label")'
                        /\ LegacyRegionOf(ns) = None \/ Pending(p, "annotate")'
                        /\ ns.limits = f.limits \/ Pending(p, "limits")' \/ Pending(p, "no limits")'
                        /\ ns.quota = f.quota \/ Pending(p, "quota")' \/ Pending(p, "no quota")'
                        /\ ns.defaults = f.keep \cup f.registries \/ Pending(p, "defaults")'
    BY <1>16, <1>23, <1>24 DEF Done, LegacyRegionOf
  <2>2. /\ ns.limits = f.limits \/ Pending(p, "limits") \/ Pending(p, "no limits")
        /\ ns.quota = f.quota \/ Pending(p, "quota") \/ Pending(p, "no quota")
        /\ ns.defaults = f.keep \cup f.registries \/ Pending(p, "defaults")
    BY <1>3, <1>4, <1>5, <2>1 DEF Done
  <2>3. ns.placed = f.region \/ Pending(p, "label")'
    BY <1>6, <1>7, <1>17 DEF Pending
  <2>4. LegacyRegionOf(ns) = None \/ Pending(p, "annotate")'
    BY <1>6, <1>7, <1>17 DEF Pending
  <2> QED  BY <1>22, <2>2, <2>3, <2>4
<1>27. Steady(p)'
  <2>1. SUFFICES ASSUME doing[p].fresh, doing[p].alone
                 PROVE  /\ Between(ns, tab[p].from, f)
                        /\ tab[p].from.legacy = ByHand =>
                              ns.legacy = ByHand /\ ~Pending(p, "annotate")'
    BY <1>13, <1>16, <1>23, <1>24 DEF Steady
  <2>2. /\ Between(ns, tab[p].from, f)
        /\ tab[p].from.legacy = ByHand => ns.legacy = ByHand
    BY <1>2, <1>4, <1>5, <2>1 DEF Steady
  <2>3. ns.legacy = ByHand => ~Pending(p, "annotate")'
    <3>1. ns.legacy = ByHand => LegacyRegionOf(ns) = None
      BY DEF LegacyRegionOf
    <3>2. \A d \in Elements(rest) : d.do # "annotate"
      BY <1>10 DEF Common
    <3> QED  BY <1>6, <1>7, <1>17, <3>1, <3>2 DEF Pending
  <2> QED  BY <2>2, <2>3
<1>28. Unmade(p)'
  BY <1>2, <1>5, <1>13, <1>16, <1>21, <1>23 DEF Unmade
<1>29. Saves(p)' /\ Connects(p)' /\ Disconnects(p)' /\ Publishes(p)'
  BY <1>16, OfItsKind
<1>30. Kept(p)'
  BY <1>19, <1>20, <1>25, <1>26, <1>27, <1>28, <1>29 DEF Kept
<1> QED  BY <1>19, <1>30 DEF IInv

(* What is still to come after a call.                                     *)
LEMMA StillToCome ==
    ASSUME NEW p \in Person, Doing(p), doing[p].left # <<>>, Called(p)
    PROVE  /\ \A a : Pending(p, a)' => Pending(p, a)
           /\ \A a : Pending(p, a) => Head(doing[p].left).do = a \/ Pending(p, a)'
           /\ \A a : NotAfter(a, Head(doing[p].left).do) => ~Pending(p, a)'
           /\ \A r : PullPending(p, r)' => PullPending(p, r)
           /\ \A r : PullPending(p, r) =>
                 \/ Head(doing[p].left).do = "pull Secret" /\ Head(doing[p].left).of = r
                 \/ PullPending(p, r)'
           /\ \A r : Head(doing[p].left).do = "pull Secret" /\ Head(doing[p].left).of = r =>
                 ~PullPending(p, r)'
           /\ Head(doing[p].left).do = "defaults" => \A r : ~PullPending(p, r)'
<1> DEFINE head == Head(doing[p].left)
           rest == Elements(Tail(doing[p].left))
<1>1. Left(p) = {head} \cup rest /\ \A d \in rest : Precedes(head, d)
  BY Coming
<1>2. Left(p)' = rest
  BY CalledKeeps
<1>3. \A a : NotAfter(a, head.do) => \A d \in rest : d.do # a
  BY Passed
<1> HIDE DEF head, rest
<1>4. /\ \A a : Pending(p, a)' => Pending(p, a)
      /\ \A a : Pending(p, a) => head.do = a \/ Pending(p, a)'
  BY <1>1, <1>2 DEF Pending
<1>5. \A a : NotAfter(a, head.do) => ~Pending(p, a)'
  BY <1>2, <1>3 DEF Pending
<1>6. /\ \A r : PullPending(p, r)' => PullPending(p, r)
      /\ \A r : PullPending(p, r) =>
            (head.do = "pull Secret" /\ head.of = r) \/ PullPending(p, r)'
  BY <1>1, <1>2 DEF PullPending
<1>7. ~(Turn("pull Secret") < Turn("pull Secret")) /\ ~(Turn("defaults") < Turn("pull Secret"))
  <2>1. ~(6 < 6) /\ ~(7 < 6)
    OBVIOUS
  <2> QED  BY <2>1, Turns
<1>8. head.do = "pull Secret" => \A d \in rest : d.do = "pull Secret" => head.of # d.of
  BY <1>1, <1>7 DEF Precedes
<1>9. \A r : head.do = "pull Secret" /\ head.of = r => ~PullPending(p, r)'
  BY <1>2, <1>8 DEF PullPending
<1>10. head.do = "defaults" => \A d \in rest : d.do # "pull Secret"
  BY <1>1, <1>7 DEF Precedes
<1>11. head.do = "defaults" => \A r : ~PullPending(p, r)'
  BY <1>2, <1>10 DEF PullPending
<1> QED  BY <1>4, <1>5, <1>6, <1>9, <1>11 DEF head

\* What the next call of a save of settings makes of the namespace, setting
\* by setting.
SetsEach(do, of, f) ==
    /\ ns'.there
    /\ ns'.placed = IF do \in {"create Namespace", "label"} THEN f.region ELSE ns.placed
    /\ ns'.legacy = IF do = "annotate" THEN None ELSE ns.legacy
    /\ ns'.limits = IF do \in {"limits", "no limits"} THEN f.limits ELSE ns.limits
    /\ ns'.quota = IF do \in {"quota", "no quota"} THEN f.quota ELSE ns.quota
    /\ ns'.defaults = IF do = "defaults" THEN f.keep \cup f.registries ELSE ns.defaults
    /\ ns'.secrets = IF do = "pull Secret" THEN ns.secrets \cup {of} ELSE ns.secrets

(* It does so whichever it is: a quota or defaults that aren't asked for are *)
(* taken off.                                                              *)
LEMMA WhatChanges ==
    ASSUME ns \in Settings, NEW f \in Form, NEW do, NEW of \in Registry \cup {None},
           ns' = Changed(do, of, f),
           do \in Common \cup {"create Namespace", "label", "annotate"},
           do = "create Namespace" => ns = NoNamespace,
           do # "create Namespace" => ns.there,
           do = "no limits" => f.limits = {}, do = "no quota" => f.quota = {},
           do = "pull Secret" => of \in Registry
    PROVE  SetsEach(do, of, f) /\ ns' \in Settings
<1>1. PICK n : n = ns
  OBVIOUS
<1>2. PICK m : m = ns'
  OBVIOUS
<1>3. n \in Settings
  BY <1>1
<1>4. /\ n.secrets \subseteq Registry
      /\ f.region \in Region \cup {None} /\ f.quota \in SUBSET Resource
      /\ f.limits \in SUBSET {"cpu", "memory"}
      /\ f.keep \cup f.registries \in SUBSET Registry
  BY <1>1, SettingsFields DEF Form
<1> DEFINE Each ==
       /\ m.there
       /\ m.placed = IF do \in {"create Namespace", "label"} THEN f.region ELSE n.placed
       /\ m.legacy = IF do = "annotate" THEN None ELSE n.legacy
       /\ m.limits = IF do \in {"limits", "no limits"} THEN f.limits ELSE n.limits
       /\ m.quota = IF do \in {"quota", "no quota"} THEN f.quota ELSE n.quota
       /\ m.defaults = IF do = "defaults" THEN f.keep \cup f.registries ELSE n.defaults
       /\ m.secrets = IF do = "pull Secret" THEN n.secrets \cup {of} ELSE n.secrets
<1> SUFFICES Each /\ m \in Settings
  BY <1>1, <1>2 DEF SetsEach
<1>5. CASE do = "create Namespace"
  <2>1. PICK v \in Region \cup {None} : v = f.region
    BY <1>4
  <2>2. v \in Region \cup {None}
    BY <2>1
  <2>3. m = [NoNamespace EXCEPT !.there = TRUE, !.placed = v]
    BY <1>1, <1>2, <1>5, <2>1 DEF Changed
  <2>4. n = NoNamespace
    BY <1>1, <1>5
  <2>5. /\ m \in Settings /\ m.there = TRUE /\ m.placed = v /\ m.legacy = n.legacy
        /\ m.quota = n.quota /\ m.limits = n.limits
        /\ m.defaults = n.defaults
        /\ m.secrets = n.secrets
    BY <2>3, <2>4, <2>2 DEF Settings, Resource, NoNamespace
  <2> QED  BY <1>5, <2>1, <2>5
<1>6. CASE do = "label"
  <2>1. PICK v \in Region \cup {None} : v = f.region
    BY <1>4
  <2>2. v \in Region \cup {None}
    BY <2>1
  <2>3. m = [n EXCEPT !.placed = v]
    BY <1>1, <1>2, <1>6, <2>1 DEF Changed
  <2>4. /\ m \in Settings /\ m.there = n.there /\ m.placed = v /\ m.legacy = n.legacy
        /\ m.quota = n.quota /\ m.limits = n.limits
        /\ m.defaults = n.defaults
        /\ m.secrets = n.secrets
    BY <1>3, <2>3, <2>2 DEF Settings, Resource
  <2>5. n.there
    BY <1>1, <1>6
  <2> QED  BY <1>6, <2>1, <2>4, <2>5
<1>7. CASE do = "annotate"
  <2>1. m = [n EXCEPT !.legacy = None]
    BY <1>1, <1>2, <1>7 DEF Changed
  <2>2. /\ m \in Settings /\ m.there = n.there /\ m.placed = n.placed /\ m.legacy = None
        /\ m.quota = n.quota /\ m.limits = n.limits
        /\ m.defaults = n.defaults
        /\ m.secrets = n.secrets
    BY <1>3, <2>1 DEF Settings, Resource
  <2>3. n.there
    BY <1>1, <1>7
  <2> QED  BY <1>7, <2>2, <2>3
<1>8. CASE do \in {"limits", "no limits"}
  <2>1. PICK v \in SUBSET {"cpu", "memory"} : v = f.limits
    BY <1>4
  <2>2. v \in SUBSET {"cpu", "memory"}
    BY <2>1
  <2>3. m = [n EXCEPT !.limits = v]
    BY <1>1, <1>2, <1>8, <2>1 DEF Changed
  <2>4. /\ m \in Settings /\ m.there = n.there /\ m.placed = n.placed /\ m.legacy = n.legacy
        /\ m.quota = n.quota /\ m.limits = v
        /\ m.defaults = n.defaults
        /\ m.secrets = n.secrets
    BY <1>3, <2>3, <2>2 DEF Settings, Resource
  <2>5. n.there
    BY <1>1, <1>8
  <2> QED  BY <1>8, <2>1, <2>4, <2>5
<1>9. CASE do \in {"quota", "no quota"}
  <2>1. PICK v \in SUBSET Resource : v = f.quota
    BY <1>4
  <2>2. v \in SUBSET Resource
    BY <2>1
  <2>3. m = [n EXCEPT !.quota = v]
    BY <1>1, <1>2, <1>9, <2>1 DEF Changed
  <2>4. /\ m \in Settings /\ m.there = n.there /\ m.placed = n.placed /\ m.legacy = n.legacy
        /\ m.quota = v /\ m.limits = n.limits
        /\ m.defaults = n.defaults
        /\ m.secrets = n.secrets
    BY <1>3, <2>3, <2>2 DEF Settings, Resource
  <2>5. n.there
    BY <1>1, <1>9
  <2> QED  BY <1>9, <2>1, <2>4, <2>5
<1>10. CASE do = "pull Secret"
  <2>1. PICK v \in SUBSET Registry : v = n.secrets \cup {of}
    BY <1>4, <1>10
  <2>2. v \in SUBSET Registry
    BY <2>1
  <2>3. m = [n EXCEPT !.secrets = v]
    BY <1>1, <1>2, <1>10, <2>1 DEF Changed
  <2>4. /\ m \in Settings /\ m.there = n.there /\ m.placed = n.placed /\ m.legacy = n.legacy
        /\ m.quota = n.quota /\ m.limits = n.limits
        /\ m.defaults = n.defaults
        /\ m.secrets = v
    BY <1>3, <2>3, <2>2 DEF Settings, Resource
  <2>5. n.there
    BY <1>1, <1>10
  <2> QED  BY <1>10, <2>1, <2>4, <2>5
<1>11. CASE do = "defaults"
  <2>1. PICK v \in SUBSET Registry : v = f.keep \cup f.registries
    BY <1>4
  <2>2. v \in SUBSET Registry
    BY <2>1
  <2>3. m = [n EXCEPT !.defaults = v]
    BY <1>1, <1>2, <1>11, <2>1 DEF Changed
  <2>4. /\ m \in Settings /\ m.there = n.there /\ m.placed = n.placed /\ m.legacy = n.legacy
        /\ m.quota = n.quota /\ m.limits = n.limits
        /\ m.defaults = v
        /\ m.secrets = n.secrets
    BY <1>3, <2>3, <2>2 DEF Settings, Resource
  <2>5. n.there
    BY <1>1, <1>11
  <2> QED  BY <1>11, <2>1, <2>4, <2>5
<1> QED  BY <1>5, <1>6, <1>7, <1>8, <1>9, <1>10, <1>11 DEF Common

(* A save of settings has its calls, whose turn it is, from its form.      *)
LEMMA SettlingComes ==
    ASSUME IInv, NEW p \in Person, Settling(p), doing[p].left # <<>>,
           ~Comes(p, "get Namespace")
    PROVE  /\ Doing(p) /\ doing[p].ok = TRUE /\ doing[p].left # <<>>
           /\ Head(doing[p].left).do \in Common \cup {"create Namespace", "label", "annotate"}
           /\ Head(doing[p].left).of \in Registry \cup {None}
           /\ Pending(p, Head(doing[p].left).do)
           /\ Head(doing[p].left).do = "create Namespace" => doing[p].op = "make"
           /\ Head(doing[p].left).do \in {"label", "annotate"} => doing[p].op = "settle"
           /\ Head(doing[p].left).do = "pull Secret" =>
                 PullPending(p, Head(doing[p].left).of)
<1> DEFINE head == Head(doing[p].left)
<1>1. Doing(p)
  BY DEF IInv, Kept
<1>2. /\ head \in ACall /\ head \in Left(p) /\ doing[p].ok = TRUE
      /\ doing[p].op \in By(head.do)
  BY <1>1, Coming
<1> HIDE DEF head
<1>3. head.do \in Steps /\ head.of \in Registry \cup {None}
  BY <1>2 DEF ACall
<1>4. head.do # "get Namespace"
  BY DEF Comes, head
<1>5. doing[p].op = "make" \/ doing[p].op = "settle"
  BY DEF Settling
<1>6. head.do \in Common \cup {"create Namespace", "label", "annotate"}
  <2>1. CASE doing[p].op = "make"
    BY <1>2, <1>3, <2>1, SettlingCalls
  <2>2. CASE doing[p].op = "settle"
    BY <1>2, <1>3, <1>4, <2>2, SettlingCalls
  <2> QED  BY <1>5, <2>1, <2>2
<1>7. Pending(p, head.do) /\ (head.do = "pull Secret" => PullPending(p, head.of))
  BY <1>2 DEF Pending, PullPending
<1>8. /\ head.do = "create Namespace" => doing[p].op = "make"
      /\ head.do \in {"label", "annotate"} => doing[p].op = "settle"
  BY <1>2, SettlingCalls
<1> QED  BY <1>1, <1>2, <1>3, <1>6, <1>7, <1>8 DEF head

(* A namespace is made before anything else is called of it.               *)
LEMMA MadeFirst ==
    ASSUME NEW p \in Person, Doing(p), doing[p].left # <<>>,
           Head(doing[p].left).do # "create Namespace"
    PROVE  ~Pending(p, "create Namespace")
<1>1. SUFFICES ASSUME NEW d \in Left(p), d.do = "create Namespace"
               PROVE  FALSE
  BY DEF Pending
<1>2. d \in Elements(Tail(doing[p].left)) /\ Precedes(Head(doing[p].left), d)
  BY <1>1, Coming
<1>3. Turn(Head(doing[p].left).do) < Turn(d.do)
  BY <1>1, <1>2 DEF Precedes
<1>4. NotAfter("create Namespace", Head(doing[p].left).do)
  BY OverToo
<1> QED  BY <1>1, <1>3, <1>4 DEF NotAfter

(* Any other call of a save of settings: the namespace made, a setting     *)
(* changed, or a pull Secret that is there already (applyNamespaceSettings). *)
LEMMA SettlesNamespaceKeeps ==
    ASSUME Beginnings, IInv, NEW p \in Person, SettlesNamespace(p)
    PROVE  IInv'
<1>1. /\ Settling(p) /\ doing[p].left # <<>> /\ ~Comes(p, "get Namespace")
  BY DEF SettlesNamespace, Settling
<1>2. PICK do, of : do = Head(doing[p].left).do /\ of = Head(doing[p].left).of
  OBVIOUS
<1>3. /\ Doing(p) /\ doing[p].ok = TRUE
      /\ do \in Common \cup {"create Namespace", "label", "annotate"}
      /\ of \in Registry \cup {None} /\ Pending(p, do)
      /\ do = "create Namespace" => doing[p].op = "make"
      /\ do \in {"label", "annotate"} => doing[p].op = "settle"
      /\ do = "pull Secret" => PullPending(p, of)
  BY <1>1, <1>2, SettlingComes
<1>4. PICK f, from, op : f = doing[p].says /\ from = tab[p].from /\ op = doing[p].op
  OBVIOUS
<1>5. /\ f \in Form /\ f.keep \subseteq ns.secrets /\ op \in {"make", "settle"}
      /\ op = "make" => from = NoNamespace
      /\ op = "settle" => ns.there
  BY <1>1, <1>4, SettlingForm DEF Settling
<1>6. /\ Asked(p) /\ Done(p) /\ Steady(p) /\ Unmade(p) /\ Cluster
  BY DEF IInv, Kept
<1>7. /\ do = "limits" => f.limits # {}
      /\ do = "no limits" => f.limits = {}
      /\ do = "quota" => f.quota # {}
      /\ do = "no quota" => f.quota = {}
      /\ do = "pull Secret" => of \in Registry
  <2>1. /\ Pending(p, "limits") => f.limits # {}
        /\ Pending(p, "no limits") => f.limits = {}
        /\ Pending(p, "quota") => f.quota # {}
        /\ Pending(p, "no quota") => f.quota = {}
        /\ \A r \in Registry \cup {None} : PullPending(p, r) => r \in f.registries
    BY <1>1, <1>4, <1>6 DEF Asked
  <2>2. f.registries \subseteq Registry
    BY <1>5 DEF Form
  <2> QED  BY <1>3, <2>1, <2>2
<1>8. Refuses(p) <=> \/ do = "create Namespace" /\ ns.there
                     \/ do = "pull Secret" /\ of \in ns.secrets
  BY <1>1, <1>2 DEF Refuses, Comes, Of, Conflicting
<1>9. CASE Refuses(p)
  <2>1. Refused(p)
    BY <1>9 DEF SettlesNamespace
  <2>2. doing[p].op # "settle" \/ \E r \in Registry : PullPending(p, r) /\ r \in ns.secrets
    BY <1>3, <1>7, <1>8, <1>9
  <2> QED  BY <1>1, <2>1, <2>2, RefusedKeeps
<1>10. CASE ~Refuses(p)
  <2>1. /\ ns' = Changed(do, of, f) /\ Writes(p) /\ UNCHANGED <<appVars, dnsVars>>
    BY <1>2, <1>4, <1>10 DEF SettlesNamespace, Of, Says, Changed
  <2>2. /\ do = "create Namespace" => ns = NoNamespace
        /\ do # "create Namespace" => ns.there
    <3>1. ~ns.there => ns = NoNamespace
      BY <1>6 DEF Cluster
    <3>3. do # "create Namespace" => ~Pending(p, "create Namespace")
      <4>1. Doing(p) /\ doing[p].left # <<>>
        BY <1>1, <1>3
      <4> QED  BY <1>2, <4>1, MadeFirst
    <3>4. ~Pending(p, "create Namespace") => ns.there
      BY <1>1, <1>6 DEF Asked
    <3> QED  BY <1>8, <1>10, <3>1, <3>3, <3>4
  <2>3. SetsEach(do, of, f) /\ ns' \in Settings
    BY <1>3, <1>5, <1>6, <1>7, <2>1, <2>2, WhatChanges DEF Cluster
  <2>4. /\ Called(p) /\ tab' = tab /\ DOMAIN doing' = Person
        /\ tab' \in [Person -> {Closed} \cup EditingTab \cup NewTab \cup SettingsTab]
    BY <1>1, <2>1, WritesOnward
  <2>5. /\ doing'[p].op = op /\ doing'[p].says = f /\ doing'[p].left = Tail(doing[p].left)
        /\ doing'[p].ok = TRUE /\ doing'[p].cut = doing[p].cut
        /\ doing'[p].alone = doing[p].alone /\ doing'[p].fresh = doing[p].fresh
    BY <1>1, <1>3, <1>4, <2>4, CalledKeeps
  <2>6. Settling(p)' /\ doing'[p].op \in {"make", "settle"}
    BY <1>5, <2>5 DEF Settling
  <2>7. /\ \A a : Pending(p, a)' => Pending(p, a)
        /\ \A a : Pending(p, a) => do = a \/ Pending(p, a)'
        /\ \A a : NotAfter(a, do) => ~Pending(p, a)'
        /\ \A r : PullPending(p, r)' => PullPending(p, r)
        /\ \A r : PullPending(p, r) => (do = "pull Secret" /\ of = r) \/ PullPending(p, r)'
        /\ \A r : do = "pull Secret" /\ of = r => ~PullPending(p, r)'
        /\ do = "defaults" => \A r : ~PullPending(p, r)'
    BY <1>1, <1>2, <1>3, <2>4, StillToCome
  <2>8. \A r \in f.registries : r \in ns'.secrets \/ PullPending(p, r)'
    <3>1. \A r \in f.registries : r \in ns.secrets \/ PullPending(p, r)
      BY <1>1, <1>3, <1>4, <1>6 DEF Asked
    <3>2. ns'.secrets = IF do = "pull Secret" THEN ns.secrets \cup {of} ELSE ns.secrets
      BY <2>3 DEF SetsEach
    <3> QED  BY <2>7, <3>1, <3>2
  <2>9. ns.secrets \subseteq ns'.secrets /\ ns'.there
    BY <2>3 DEF SetsEach
  <2>10. ns'.defaults \subseteq ns'.secrets
    <3>1. CASE do = "defaults"
      <4>1. ns'.defaults = f.keep \cup f.registries
        BY <2>3, <3>1 DEF SetsEach
      <4>2. f.registries \subseteq ns'.secrets
        BY <2>7, <2>8, <3>1
      <4> QED  BY <1>5, <2>9, <4>1, <4>2
    <3>2. CASE do # "defaults"
      <4>1. ns'.defaults = ns.defaults
        BY <2>3, <3>2 DEF SetsEach
      <4> QED  BY <1>6, <2>9, <4>1 DEF Cluster
    <3> QED  BY <3>1, <3>2
  <2>11. Grown
    BY <1>6, <2>1, <2>9 DEF Grown, Cluster, appVars
  <2>12. Cluster'
    BY <1>6, <2>1, <2>3, <2>4, <2>9, <2>10 DEF Cluster, appVars, dnsVars
  <2>13. Asked(p)'
    <3>1. /\ tab[p].at = IF doing[p].op = "make" THEN "making" ELSE "settings"
          /\ f = tab[p].says /\ Valid(f)
          /\ Pending(p, "label") \/ Pending(p, "annotate") => ~Pending(p, "get Namespace")
          /\ Pending(p, "limits") => f.limits # {}
          /\ Pending(p, "no limits") => f.limits = {}
          /\ Pending(p, "quota") => f.quota # {}
          /\ Pending(p, "no quota") => f.quota = {}
          /\ \A r \in Registry \cup {None} : PullPending(p, r) => r \in f.registries
      BY <1>1, <1>4, <1>6 DEF Asked
    <3>2. /\ tab'[p].at = IF doing'[p].op = "make" THEN "making" ELSE "settings"
          /\ f = tab'[p].says
      BY <1>4, <2>4, <2>5, <3>1
    <3>3. /\ Pending(p, "label")' \/ Pending(p, "annotate")' => ~Pending(p, "get Namespace")'
          /\ Pending(p, "limits")' => f.limits # {}
          /\ Pending(p, "no limits")' => f.limits = {}
          /\ Pending(p, "quota")' => f.quota # {}
          /\ Pending(p, "no quota")' => f.quota = {}
      BY <2>7, <3>1
    <3>4. \A r \in Registry \cup {None} : PullPending(p, r)' => r \in f.registries
      BY <2>7, <3>1
    <3> QED  BY <2>5, <2>8, <2>9, <3>1, <3>2, <3>3, <3>4 DEF Asked
  <2>14. Done(p)'
    <3>1. SUFFICES ASSUME doing[p].alone
                   PROVE  /\ Begun(p)' => /\ ns'.placed = f.region \/ Pending(p, "label")'
                                          /\ LegacyRegionOf(ns') = None \/ Pending(p, "annotate")'
                          /\ \/ ns'.limits = f.limits
                             \/ Pending(p, "limits")' \/ Pending(p, "no limits")'
                          /\ ns'.quota = f.quota \/ Pending(p, "quota")' \/ Pending(p, "no quota")'
                          /\ ns'.defaults = f.keep \cup f.registries \/ Pending(p, "defaults")'
      BY <2>5 DEF Done, LegacyRegionOf
    <3>2. /\ Begun(p) => /\ ns.placed = f.region \/ Pending(p, "label")
                         /\ LegacyRegionOf(ns) = None \/ Pending(p, "annotate")
          /\ ns.limits = f.limits \/ Pending(p, "limits") \/ Pending(p, "no limits")
          /\ ns.quota = f.quota \/ Pending(p, "quota") \/ Pending(p, "no quota")
          /\ ns.defaults = f.keep \cup f.registries \/ Pending(p, "defaults")
      BY <1>1, <1>3, <1>4, <1>6, <3>1 DEF Done
    <3>3. /\ ns'.limits = f.limits \/ Pending(p, "limits")' \/ Pending(p, "no limits")'
          /\ ns'.quota = f.quota \/ Pending(p, "quota")' \/ Pending(p, "no quota")'
          /\ ns'.defaults = f.keep \cup f.registries \/ Pending(p, "defaults")'
      BY <2>3, <2>7, <3>2 DEF SetsEach
    <3>4. ASSUME Begun(p)'
          PROVE  /\ ns'.placed = f.region \/ Pending(p, "label")'
                 /\ LegacyRegionOf(ns') = None \/ Pending(p, "annotate")'
      <4>1. CASE do = "create Namespace"
        <5>1. ns'.placed = f.region /\ ns'.legacy = None
          <6>1. ns.legacy = None
            <7>1. ns = NoNamespace
              BY <2>2, <4>1
            <7>2. NoNamespace.legacy = None
              BY DEF NoNamespace
            <7> QED  BY <7>1, <7>2
          <6>2. /\ ns'.placed = IF do \in {"create Namespace", "label"} THEN f.region ELSE ns.placed
                /\ ns'.legacy = IF do = "annotate" THEN None ELSE ns.legacy
            BY <2>3 DEF SetsEach
          <6> QED  BY <4>1, <6>1, <6>2
        <5> QED  BY <5>1 DEF LegacyRegionOf
      <4>2. CASE do # "create Namespace"
        <5>1. do # "get Namespace"
          BY <1>3 DEF Common
        <5>2. Begun(p)
          BY <2>7, <3>4, <4>2, <5>1 DEF Begun
        <5>3. ns'.placed = f.region \/ Pending(p, "label")'
          BY <2>3, <2>7, <3>2, <5>2 DEF SetsEach
        <5>4. ns'.legacy = IF do = "annotate" THEN None ELSE ns.legacy
          BY <2>3 DEF SetsEach
        <5>5. LegacyRegionOf(ns') = None \/ Pending(p, "annotate")'
          BY <2>7, <3>2, <5>2, <5>4 DEF LegacyRegionOf
        <5> QED  BY <5>3, <5>5
      <4> QED  BY <4>1, <4>2
    <3> QED  BY <3>3, <3>4
  <2>15. Steady(p)'
    <3>1. SUFFICES ASSUME doing[p].fresh, doing[p].alone
                   PROVE  /\ Between(ns', from, f)
                          /\ from.legacy = ByHand => /\ ns'.legacy = ByHand \/ op = "make"
                                                     /\ ~Pending(p, "annotate")'
      BY <1>4, <2>4, <2>5 DEF Steady
    <3>2. /\ Between(ns, from, f)
          /\ from.legacy = ByHand => /\ ns.legacy = ByHand \/ op = "make"
                                     /\ ~Pending(p, "annotate")
      BY <1>1, <1>4, <1>6, <3>1 DEF Steady
    <3>3. from.legacy = ByHand => /\ ns'.legacy = ByHand \/ op = "make"
                                  /\ ~Pending(p, "annotate")'
      <4>1. ns'.legacy = IF do = "annotate" THEN None ELSE ns.legacy
        BY <2>3 DEF SetsEach
      <4> QED  BY <1>3, <2>7, <3>2, <4>1
    <3>4. /\ ns.limits = f.limits \/ Pending(p, "limits") \/ Pending(p, "no limits")
          /\ ns.quota = f.quota \/ Pending(p, "quota") \/ Pending(p, "no quota")
      BY <1>1, <1>3, <1>4, <1>6, <3>1 DEF Done
    <3>5. /\ ns'.limits = IF do \in {"limits", "no limits"} THEN f.limits ELSE ns.limits
          /\ ns'.quota = IF do \in {"quota", "no quota"} THEN f.quota ELSE ns.quota
      BY <2>3 DEF SetsEach
    <3>6. Between(ns', from, f)
      <4>1. CASE do = "limits"
        <5>1. ns'.limits = f.limits /\ ns'.quota = ns.quota /\ f.limits # {}
          BY <1>7, <3>5, <4>1
        <5> QED  BY <3>2, <5>1 DEF Between
      <4>2. CASE do \in {"quota", "no quota"}
        <5>1. ns'.limits = ns.limits /\ ns'.quota = f.quota
          BY <3>5, <4>2
        <5>2. ~Pending(p, "limits")
          BY <2>7, <4>2, OverToo
        <5>3. Pending(p, "no limits") => f.limits = {}
          BY <1>1, <1>4, <1>6 DEF Asked
        <5> QED  BY <3>4, <5>1, <5>2, <5>3 DEF Between
      <4>3. CASE do = "no limits"
        <5>1. ns'.limits = f.limits /\ ns'.quota = ns.quota
          BY <3>5, <4>3
        <5>2. ~Pending(p, "quota") /\ ~Pending(p, "no quota")
          BY <2>7, <4>3, OverToo
        <5> QED  BY <3>4, <5>1, <5>2 DEF Between
      <4>4. CASE do \notin {"limits", "no limits", "quota", "no quota"}
        <5>1. ns'.limits = ns.limits /\ ns'.quota = ns.quota
          BY <3>5, <4>4
        <5> QED  BY <3>2, <5>1 DEF Between
      <4> QED  BY <4>1, <4>2, <4>3, <4>4
    <3> QED  BY <3>3, <3>6
  <2>16. Unmade(p)'
    <3>1. SUFFICES ASSUME op = "settle", doing[p].fresh, ~doing[p].cut,
                          f.registries \cap from.secrets = {}
                   PROVE  \A r \in Registry : PullPending(p, r)' => r \notin ns'.secrets
      BY <1>4, <2>4, <2>5 DEF Unmade
    <3>2. \A r \in Registry : PullPending(p, r) => r \notin ns.secrets
      BY <1>4, <1>6, <3>1 DEF Unmade
    <3>3. ns'.secrets = IF do = "pull Secret" THEN ns.secrets \cup {of} ELSE ns.secrets
      BY <2>3 DEF SetsEach
    <3> QED  BY <2>7, <3>2, <3>3
  <2>17. Saves(p)' /\ Connects(p)' /\ Disconnects(p)' /\ Publishes(p)'
    BY <1>5, <2>5, OfItsKind
  <2> QED
    BY <1>1, <2>1, <2>11, <2>12, <2>13, <2>14, <2>15, <2>16, <2>17, AfterWrite
<1> QED  BY <1>9, <1>10

-----------------------------------------------------------------------------
(* The page of the DNS providers                                           *)

(* Which actions make its calls, and which of them are over after another. *)
LEMMA OfTheDnsPage ==
    /\ By("list to publish") = {"publish"} /\ By("list to add") = {"add"}
    /\ By("apply credentials") = {"add"} /\ By("apply provider") = {"publish", "add"}
    /\ \A do : NotAfter("list to publish", do) /\ NotAfter("list to add", do)
    /\ NotAfter("apply credentials", "apply credentials")
    /\ NotAfter("apply credentials", "apply provider")
    /\ NotAfter("apply provider", "apply provider")
<1>1. /\ By("list to publish") = {"publish"} /\ By("list to add") = {"add"}
      /\ By("apply credentials") = {"add"} /\ By("apply provider") = {"publish", "add"}
  BY DEF By
<1>2. \A n \in 0 .. 7 : ~(n < 0)
  OBVIOUS
<1>3. \A do : NotAfter("list to publish", do) /\ NotAfter("list to add", do)
  BY <1>2, OtherTurns, TurnType DEF NotAfter
<1>4. ~(1 < 1) /\ ~(2 < 1) /\ ~(2 < 2)
  OBVIOUS
<1>5. /\ NotAfter("apply credentials", "apply credentials")
      /\ NotAfter("apply credentials", "apply provider")
  BY <1>4, OtherTurns DEF NotAfter
<1>6. NotAfter("apply provider", "apply provider")
  BY <1>4, OtherTurns DEF NotAfter
<1> QED  BY <1>1, <1>3, <1>5, <1>6

(* A provider is no None, and with a namespace more or less it is one still. *)
LEMMA WithAnother ==
    ASSUME NEW provider \in Provider, NEW namespace \in Namespace, NEW publish \in BOOLEAN
    PROVE  WithNamespace(provider, namespace, publish) \in Provider
BY DEF WithNamespace, Provider

(* Comparing a provider with the others, as it would be                    *)
(* (setDnsPublishing, createDnsProvider).                                  *)
LEMMA ListedKeeps ==
    ASSUME IInv, NEW p \in Person, NEW do \in {"list to publish", "list to add"},
           Comes(p, do), NEW seen \in Provider, Reads(p, seen, <<>>),
           doing[p].op = "add" \/ doing[p].says.publish =>
              ~DomainConflicts([providers EXCEPT ![doing[p].says.account] = seen],
                               doing[p].says.account)
    PROVE  IInv'
<1>1. /\ doing[p].left # <<>> /\ Head(doing[p].left).do = do /\ doing[p].op \in By(do)
      /\ Pending(p, do) /\ Doing(p)
  BY ComesNext
<1>2. doing[p].op = IF do = "list to add" THEN "add" ELSE "publish"
  BY <1>1, OfTheDnsPage
<1>3. Quiet(p) /\ Called(p) /\ doing'[p].seen = seen /\ tab' = tab
  BY <1>1, ReadsQuietly
<1>4. /\ doing'[p].op = doing[p].op /\ doing'[p].says = doing[p].says
      /\ doing'[p].ok = TRUE /\ doing'[p].alone = doing[p].alone
  BY <1>1, <1>3, CalledKeeps
<1>5. /\ \A a : Pending(p, a)' => Pending(p, a)
      /\ \A a : Pending(p, a) => do = a \/ Pending(p, a)'
      /\ \A a : NotAfter(a, do) => ~Pending(p, a)'
  BY <1>1, <1>3, StillToCome
<1>6. providers' = providers /\ keys' = keys
  BY <1>3 DEF Quiet, dnsVars
<1>7. Publishes(p)
  BY DEF IInv, Kept
<1>8. Pending(p, "apply provider") /\ Pending(p, "apply provider")'
  <2>1. ~Listed(p)
    BY <1>1 DEF Listed
  <2>2. Pending(p, "apply provider")
    BY <1>2, <1>7, <2>1 DEF Publishes
  <2>3. do # "apply provider"
    OBVIOUS
  <2> QED  BY <1>5, <2>2, <2>3
<1>9. ~Pending(p, "list to publish")' /\ ~Pending(p, "list to add")'
  BY <1>5, OfTheDnsPage
<1>10. Publishes(p)'
  <2>1. doing[p].says \in IF doing[p].op = "add" THEN AddSays ELSE PublishSays
    BY <1>2, <1>7 DEF Publishes
  <2>2. doing[p].op = "add" /\ doing[p].ok /\ doing[p].alone =>
           Pending(p, "apply credentials")' \/ keys[doing[p].says.account] = p
    <3>1. doing[p].op = "add" /\ doing[p].ok /\ doing[p].alone =>
             Pending(p, "apply credentials") \/ keys[doing[p].says.account] = p
      BY <1>7 DEF Publishes
    <3> QED  BY <1>5, <3>1
  <2>3. doing[p].ok = TRUE
    BY ComesNext
  <2> QED
    BY <1>3, <1>4, <1>6, <1>8, <1>9, <2>1, <2>2, <2>3 DEF Publishes
<1>11. doing'[p].op \in {"add", "publish"}
  BY <1>2, <1>4
<1> QED  BY <1>1, <1>3, <1>10, <1>11, OfItsKind, AfterRead

(* Publishing a namespace, or no longer.                                   *)
LEMMA ListToPublishKeeps ==
    ASSUME IInv, NEW p \in Person, ListToPublish(p)
    PROVE  IInv'
<1>1. Comes(p, "list to publish")
  BY DEF ListToPublish
<1>2. /\ doing[p].left # <<>> /\ doing[p].op = "publish" /\ Cluster
  BY <1>1, ComesNext, OfTheDnsPage
<1>3. PICK says : says = doing[p].says
  OBVIOUS
<1>4. says \in PublishSays
  BY <1>2, <1>3 DEF IInv, Kept, Publishes
<1>5. CASE providers[says.account] = None \/ RefusesToPublish(p)
  <2>1. Refused(p)
    BY <1>3, <1>5 DEF ListToPublish, Says
  <2>2. doing[p].op # "settle"
    BY <1>2
  <2> QED  BY <1>2, <2>1, <2>2, RefusedKeeps
<1>6. CASE ~(providers[says.account] = None \/ RefusesToPublish(p))
  <2>1. PICK seen : seen = WithNamespace(providers[says.account], says.namespace, says.publish)
    OBVIOUS
  <2>2. Reads(p, seen, <<>>)
    BY <1>3, <1>6, <2>1 DEF ListToPublish, Says, Reads
  <2>3. seen \in Provider
    <3>1. providers[says.account] \in Provider
      BY <1>2, <1>4, <1>6 DEF Cluster, PublishSays
    <3>2. says.namespace \in Namespace /\ says.publish \in BOOLEAN
      BY <1>4 DEF PublishSays
    <3> QED  BY <2>1, <3>1, <3>2, WithAnother
  <2>4. says.publish => ~DomainConflicts([providers EXCEPT ![says.account] = seen], says.account)
    BY <1>3, <1>6, <2>1 DEF RefusesToPublish, Says
  <2> QED  BY <1>1, <1>2, <1>3, <2>2, <2>3, <2>4, ListedKeeps
<1> QED  BY <1>5, <1>6

(* Adding a provider.                                                      *)
LEMMA ListToAddKeeps ==
    ASSUME IInv, NEW p \in Person, ListToAdd(p)
    PROVE  IInv'
<1>1. Comes(p, "list to add")
  BY DEF ListToAdd
<1>2. /\ doing[p].left # <<>> /\ doing[p].op = "add" /\ Cluster
  BY <1>1, ComesNext, OfTheDnsPage
<1>3. PICK says : says = doing[p].says
  OBVIOUS
<1>4. says \in AddSays
  BY <1>2, <1>3 DEF IInv, Kept, Publishes
<1> DEFINE refused == \/ providers[says.account] # None
                      \/ DomainConflicts([providers EXCEPT ![says.account] = says.spec], says.account)
<1>5. CASE refused
  <2>1. Refused(p)
    BY <1>3, <1>5 DEF ListToAdd, Says
  <2>2. doing[p].op # "settle"
    BY <1>2
  <2> QED  BY <1>2, <2>1, <2>2, RefusedKeeps
<1>6. CASE ~refused
  <2>1. PICK seen : seen = says.spec
    OBVIOUS
  <2>2. Reads(p, seen, <<>>)
    BY <1>3, <1>6, <2>1 DEF ListToAdd, Says, Reads
  <2>3. seen \in Provider
    BY <1>4, <2>1 DEF AddSays
  <2>4. ~DomainConflicts([providers EXCEPT ![says.account] = seen], says.account)
    BY <1>6, <2>1
  <2> QED  BY <1>1, <1>2, <1>3, <2>2, <2>3, <2>4, ListedKeeps
<1> QED  BY <1>5, <1>6

(* Writing the Secret with a new provider's credentials.                   *)
LEMMA ApplyCredentialsKeeps ==
    ASSUME IInv, NEW p \in Person, ApplyCredentials(p)
    PROVE  IInv'
<1>1. Comes(p, "apply credentials")
  BY DEF ApplyCredentials
<1>2. /\ doing[p].left # <<>> /\ Head(doing[p].left).do = "apply credentials"
      /\ doing[p].op = "add" /\ Doing(p) /\ Cluster
  BY <1>1, ComesNext, OfTheDnsPage
<1>3. PICK says : says = doing[p].says
  OBVIOUS
<1>4. says \in AddSays /\ Publishes(p)
  BY <1>2, <1>3 DEF IInv, Kept, Publishes
<1>5. /\ keys' = [keys EXCEPT ![says.account] = p] /\ Writes(p)
      /\ UNCHANGED <<appVars, ns, providers>>
  BY <1>3 DEF ApplyCredentials, Says
<1>6. keys' \in [Account -> Person \cup {None}] /\ keys'[says.account] = p
  BY <1>2, <1>4, <1>5 DEF Cluster, AddSays
<1>7. /\ Called(p) /\ tab' = tab /\ DOMAIN doing' = Person
      /\ tab' \in [Person -> {Closed} \cup EditingTab \cup NewTab \cup SettingsTab]
      /\ doing'[p].seen = doing[p].seen
  BY <1>2, <1>5, WritesOnward
<1>8. Grown
  <2>1. app' = app /\ clock' = clock /\ ns' = ns
    BY <1>5 DEF appVars
  <2>2. clock \in Nat
    BY <1>2 DEF Cluster
  <2> QED  BY <2>1, <2>2 DEF Grown
<1>9. Cluster'
  BY <1>2, <1>5, <1>6, <1>7 DEF Cluster, appVars
<1>10. /\ doing'[p].op = "add" /\ doing'[p].says = says /\ doing'[p].ok = TRUE
       /\ doing'[p].alone = doing[p].alone
  BY <1>2, <1>3, <1>7, CalledKeeps
<1>11. /\ \A a : Pending(p, a)' => Pending(p, a)
       /\ \A a : Pending(p, a) => a = "apply credentials" \/ Pending(p, a)'
       /\ \A a : NotAfter(a, "apply credentials") => ~Pending(p, a)'
  BY <1>2, <1>7, StillToCome
<1>12. /\ ~Pending(p, "list to add")' /\ ~Pending(p, "list to publish")'
       /\ ~Pending(p, "list to add") /\ ~Pending(p, "list to publish")
  <2>1. NotAfter("list to add", "apply credentials") /\ NotAfter("list to publish", "apply credentials")
    BY OfTheDnsPage
  <2> QED  BY <1>11, <2>1
<1>13. Pending(p, "apply provider")' <=> Pending(p, "apply provider")
  BY <1>11
<1>14. Publishes(p)'
  <2>1. Listed(p) /\ Listed(p)' /\ doing[p].ok = TRUE
    BY <1>1, <1>12, ComesNext DEF Listed
  <2>2. Pending(p, "apply provider") => doing[p].seen \in Provider
    BY <1>2, <1>4, <2>1 DEF Publishes
  <2>3. doing[p].alone =>
           /\ ~DomainConflicts([providers EXCEPT ![says.account] = doing[p].seen], says.account)
           /\ Pending(p, "apply provider") \/ providers[says.account] = doing[p].seen
           /\ doing[p].seen \in Provider
    BY <1>2, <1>3, <1>4, <2>1 DEF Publishes
  <2>4. providers' = providers
    BY <1>5
  <2>5. /\ Pending(p, "apply provider")' => doing'[p].seen \in Provider
        /\ doing'[p].alone =>
              /\ ~DomainConflicts([providers' EXCEPT ![says.account] = doing'[p].seen], says.account)
              /\ Pending(p, "apply provider")' \/ providers'[says.account] = doing'[p].seen
              /\ doing'[p].seen \in Provider
    BY <1>7, <1>10, <1>13, <2>2, <2>3, <2>4
  <2> QED
    BY <1>4, <1>6, <1>10, <1>12, <2>1, <2>5 DEF Publishes
<1>15. doing'[p].op \notin {"save", "connect", "disconnect", "make", "settle"}
  BY <1>10
<1> QED  BY <1>2, <1>5, <1>8, <1>9, <1>14, <1>15, OfItsKind, AfterWrite

(* Writing the provider.                                                   *)
LEMMA ApplyProviderKeeps ==
    ASSUME IInv, NEW p \in Person, ApplyProvider(p)
    PROVE  IInv'
<1>1. Comes(p, "apply provider")
  BY DEF ApplyProvider
<1>2. /\ doing[p].left # <<>> /\ Head(doing[p].left).do = "apply provider"
      /\ doing[p].op \in {"publish", "add"} /\ Doing(p) /\ Cluster
      /\ Pending(p, "apply provider") /\ doing[p].ok = TRUE
  BY <1>1, ComesNext, OfTheDnsPage
<1>3. PICK says, seen : says = doing[p].says /\ seen = doing[p].seen
  OBVIOUS
<1>4. /\ says \in (IF doing[p].op = "add" THEN AddSays ELSE PublishSays)
      /\ Publishes(p)
  BY <1>2, <1>3 DEF IInv, Kept, Publishes
<1>5. says.account \in Account
  BY <1>2, <1>4 DEF AddSays, PublishSays
<1>6. /\ providers' = [providers EXCEPT ![says.account] = seen] /\ Writes(p)
      /\ UNCHANGED <<appVars, ns, keys>>
  BY <1>3 DEF ApplyProvider, Says
<1>7. /\ Called(p) /\ tab' = tab /\ DOMAIN doing' = Person
      /\ tab' \in [Person -> {Closed} \cup EditingTab \cup NewTab \cup SettingsTab]
      /\ doing'[p].seen = seen
  BY <1>2, <1>3, <1>6, WritesOnward
<1>8. /\ doing'[p].op = doing[p].op /\ doing'[p].says = says /\ doing'[p].ok = TRUE
      /\ doing'[p].alone = doing[p].alone
  BY <1>2, <1>3, <1>7, CalledKeeps
<1>9. /\ \A a : Pending(p, a)' => Pending(p, a)
      /\ \A a : Pending(p, a) => a = "apply provider" \/ Pending(p, a)'
      /\ \A a : NotAfter(a, "apply provider") => ~Pending(p, a)'
  BY <1>2, <1>7, StillToCome
<1>10. /\ ~Pending(p, "list to add")' /\ ~Pending(p, "list to publish")'
       /\ ~Pending(p, "list to add") /\ ~Pending(p, "list to publish")
       /\ ~Pending(p, "apply credentials") /\ ~Pending(p, "apply provider")'
  BY <1>9, OfTheDnsPage
<1>11. Listed(p) /\ Listed(p)'
  BY <1>10 DEF Listed
<1>12. seen \in Provider
  BY <1>2, <1>3, <1>4, <1>11 DEF Publishes
<1>13. /\ providers' \in [Account -> Provider \cup {None}]
       /\ providers'[says.account] = seen
       /\ [providers' EXCEPT ![says.account] = seen] = [providers EXCEPT ![says.account] = seen]
  BY <1>2, <1>5, <1>6, <1>12 DEF Cluster
<1>14. Grown
  <2>1. app' = app /\ clock' = clock /\ ns' = ns
    BY <1>6 DEF appVars
  <2>2. clock \in Nat
    BY <1>2 DEF Cluster
  <2> QED  BY <2>1, <2>2 DEF Grown
<1>15. Cluster'
  BY <1>2, <1>6, <1>7, <1>13 DEF Cluster, appVars
<1>16. Publishes(p)'
  <2>1. doing[p].alone /\ (doing[p].op = "add" \/ says.publish) =>
           ~DomainConflicts([providers EXCEPT ![says.account] = seen], says.account)
    BY <1>2, <1>3, <1>4, <1>11 DEF Publishes
  <2>2. doing'[p].alone /\ (doing'[p].op = "add" \/ says.publish) =>
           ~DomainConflicts([providers' EXCEPT ![says.account] = doing'[p].seen], says.account)
    BY <1>7, <1>8, <1>13, <2>1
  <2>3. doing[p].op = "add" /\ doing[p].alone => keys[says.account] = p
    BY <1>2, <1>3, <1>4, <1>10 DEF Publishes
  <2>4. doing'[p].op = "add" /\ doing'[p].alone => keys'[says.account] = p
    BY <1>6, <1>8, <2>3
  <2>5. doing'[p].seen \in Provider /\ providers'[says.account] = doing'[p].seen
    BY <1>7, <1>12, <1>13
  <2>6. says \in IF doing'[p].op = "add" THEN AddSays ELSE PublishSays
    BY <1>4, <1>8
  <2> QED
    BY <1>8, <1>10, <1>11, <2>2, <2>4, <2>5, <2>6 DEF Publishes
<1>17. doing'[p].op \notin {"save", "connect", "disconnect", "make", "settle"}
  BY <1>2, <1>8
<1> QED  BY <1>2, <1>6, <1>14, <1>15, <1>16, <1>17, OfItsKind, AfterWrite

-----------------------------------------------------------------------------
(* Buttons                                                                 *)

(* An action under way, with its calls still to come.                      *)
LEMMA Begins ==
    ASSUME IInv, NEW p \in Person, NEW op \in Ops \ {"idle"}, NEW says, NEW calls \in Seq(ACall),
           Begin(p, op, says, calls), Ordered(calls), \A c \in Elements(calls) : op \in By(c.do)
    PROVE  /\ doing'[p].op = op /\ doing'[p].says = says /\ doing'[p].left = calls
           /\ doing'[p].ok = TRUE /\ doing'[p].cut = FALSE /\ doing'[p].alone = TRUE
           /\ doing'[p].fresh => tab[p].from = ns
           /\ Left(p)' = Elements(calls) /\ Doing(p)'
           /\ Quiet(p) /\ tab' = tab
<1>1. Cluster
  BY DEF IInv
<1>2. PICK fresh \in BOOLEAN : fresh = (tab[p].at \in {"settings", "making"} /\ tab[p].from = ns)
  OBVIOUS
<1>3. /\ doing' = [doing EXCEPT ![p] = [Idle EXCEPT !.op = op, !.says = says, !.left = calls,
                                                    !.fresh = fresh]]
      /\ UNCHANGED <<appVars, ns, dnsVars, tab>>
  BY <1>2 DEF Begin
<1>4. /\ doing'[p] = [op |-> op, says |-> says, left |-> calls, seen |-> None, ok |-> TRUE,
                      cut |-> FALSE, alone |-> TRUE, fresh |-> fresh]
      /\ DOMAIN doing' = Person
      /\ \A q \in Person \ {p} : doing'[q] = doing[q]
  BY <1>1, <1>3 DEF Idle, Cluster
<1>5. /\ doing'[p].op = op /\ doing'[p].says = says /\ doing'[p].left = calls
      /\ doing'[p].ok = TRUE /\ doing'[p].cut = FALSE /\ doing'[p].alone = TRUE
      /\ doing'[p].fresh = fresh
  BY <1>4
<1>6. Left(p)' = Elements(calls)
  BY <1>5 DEF Left
<1>7. Doing(p)'
  <2>1. doing'[p] = [op |-> doing'[p].op, says |-> doing'[p].says, left |-> doing'[p].left,
                     seen |-> doing'[p].seen, ok |-> doing'[p].ok, cut |-> doing'[p].cut,
                     alone |-> doing'[p].alone, fresh |-> doing'[p].fresh]
    BY <1>4
  <2>2. fresh \in BOOLEAN
    BY <1>2
  <2> QED  BY <1>5, <1>6, <2>1, <2>2 DEF Doing
<1>8. Quiet(p) /\ tab' = tab
  BY <1>1, <1>3, <1>4 DEF Quiet, Cluster
<1>9. doing'[p].fresh => tab[p].from = ns
  BY <1>2, <1>5
<1> QED  BY <1>5, <1>6, <1>7, <1>8, <1>9

(* After a step that changes no more than somebody's page and action, once *)
(* what is said of them holds.                                             *)
LEMMA AfterQuiet ==
    ASSUME IInv, NEW p \in Person, Quiet(p), tab' = tab, Doing(p)',
           Saves(p)', Connects(p)', Disconnects(p)', Asked(p)', Done(p)', Steady(p)',
           Unmade(p)', Publishes(p)'
    PROVE  IInv'
<1>1. Cluster' /\ Grown /\ \A q \in Person \ {p} : Kept(q)'
  BY QuietKeeps
<1>2. Cluster /\ Tab(p)
  BY DEF IInv, Kept
<1>3. Tab(p)'
  BY <1>1, <1>2, TabKept
<1> QED  BY <1>1, <1>3 DEF IInv, Kept

(* Saving the application's form.                                          *)
LEMMA SaveWebApplicationKeeps ==
    ASSUME IInv, NEW p \in Person, SaveWebApplication(p)
    PROVE  IInv'
<1>1. PICK says : says = tab[p]
  OBVIOUS
<1>2. "save" \in Ops \ {"idle"} /\ "read" \in Steps /\ "replace" \in Steps /\ "create" \in Steps
  BY DEF Ops, Steps
<1>3. Turn("read") < Turn("replace")
  <2>1. 0 < 1
    OBVIOUS
  <2> QED  BY <2>1, OtherTurns
<1>4. /\ Call("read", None).do = "read" /\ Call("replace", None).do = "replace"
      /\ Call("create", None).do = "create"
  BY <1>2, NamedCall
<1>5. CASE tab[p].at = "editing"
  <2>1. PICK calls : calls = Calls(<<"read", "replace">>)
    OBVIOUS
  <2>2. /\ calls \in Seq(ACall) /\ Ordered(calls)
        /\ Elements(calls) = {Call("read", None), Call("replace", None)}
    BY <1>2, <1>3, <2>1, CallsOfTwo
  <2>3. Begin(p, "save", says, calls)
    BY <1>1, <1>5, <2>1 DEF SaveWebApplication, Begin
  <2>4. \A c \in Elements(calls) : "save" \in By(c.do)
    BY <1>4, <2>2, ByWhom
  <2>5. /\ doing'[p].op = "save" /\ doing'[p].says = says
        /\ Left(p)' = {Call("read", None), Call("replace", None)}
        /\ Doing(p)' /\ Quiet(p) /\ tab' = tab
    BY <1>2, <2>2, <2>3, <2>4, Begins
  <2>6. Pending(p, "read")' /\ ~Pending(p, "create")'
    BY <1>4, <2>5 DEF Pending
  <2>7. Saves(p)'
    BY <1>1, <1>5, <2>5, <2>6 DEF Saves
  <2> QED  BY <2>5, <2>7, OfItsKind, AfterQuiet
<1>6. CASE tab[p].at = "new"
  <2>1. PICK calls : calls = Calls(<<"create">>)
    OBVIOUS
  <2>2. calls \in Seq(ACall) /\ Ordered(calls) /\ Elements(calls) = {Call("create", None)}
    BY <1>2, <2>1, CallsOfOne
  <2>3. Begin(p, "save", says, calls)
    BY <1>1, <1>6, <2>1 DEF SaveWebApplication, Begin
  <2>4. \A c \in Elements(calls) : "save" \in By(c.do)
    BY <1>4, <2>2, ByWhom
  <2>5. /\ doing'[p].op = "save" /\ doing'[p].says = says
        /\ Left(p)' = {Call("create", None)}
        /\ Doing(p)' /\ Quiet(p) /\ tab' = tab
    BY <1>2, <2>2, <2>3, <2>4, Begins
  <2>6. ~Pending(p, "read")' /\ ~Pending(p, "replace")'
    BY <1>4, <2>5 DEF Pending
  <2>7. Saves(p)'
    BY <1>1, <1>6, <2>5, <2>6 DEF Saves
  <2> QED  BY <2>5, <2>7, OfItsKind, AfterQuiet
<1> QED  BY <1>5, <1>6 DEF SaveWebApplication

(* An action of which nothing more is said than that it is under way.      *)
LEMMA PlainKeeps ==
    ASSUME IInv, NEW p \in Person, NEW op \in {"delete", "allow"}, NEW do \in {"delete", "patch"},
           Begin(p, op, None, Calls(<<do>>)), op \in By(do)
    PROVE  IInv'
<1>1. PICK calls : calls = Calls(<<do>>)
  OBVIOUS
<1>2. do \in Steps /\ op \in Ops \ {"idle"}
  BY DEF Steps, Ops
<1>3. /\ calls \in Seq(ACall) /\ Ordered(calls) /\ Elements(calls) = {Call(do, None)}
      /\ Call(do, None).do = do
  BY <1>1, <1>2, CallsOfOne, NamedCall
<1>4. Begin(p, op, None, calls)
  BY <1>1 DEF Begin
<1>5. \A c \in Elements(calls) : op \in By(c.do)
  BY <1>3
<1>6. doing'[p].op = op /\ Doing(p)' /\ Quiet(p) /\ tab' = tab
  BY <1>2, <1>3, <1>4, <1>5, Begins
<1>7. doing'[p].op \notin {"save", "connect", "disconnect", "make", "settle", "add", "publish"}
  BY <1>6
<1> QED  BY <1>6, <1>7, OfItsKind, AfterQuiet

(* Deleting the application, and allowing its namespace what it needs.     *)
LEMMA DeleteAndAllowKeep ==
    ASSUME IInv, NEW p \in Person, DeleteWebApplication(p) \/ SetNamespaceCapability(p)
    PROVE  IInv'
<1>1. CASE DeleteWebApplication(p)
  <2>1. Begin(p, "delete", None, Calls(<<"delete">>)) /\ "delete" \in By("delete")
    BY <1>1, ByWhom DEF DeleteWebApplication
  <2> QED  BY <2>1, PlainKeeps
<1>2. CASE SetNamespaceCapability(p)
  <2>1. Begin(p, "allow", None, Calls(<<"patch">>)) /\ "allow" \in By("patch")
    BY <1>2, ByWhom DEF SetNamespaceCapability
  <2> QED  BY <2>1, PlainKeeps
<1> QED  BY <1>1, <1>2

(* Adding a connection.                                                    *)
LEMMA CreateGitLabConnectionKeeps ==
    ASSUME IInv, NEW p \in Person, CreateGitLabConnection(p)
    PROVE  IInv'
<1>1. PICK c \in Connection : Begin(p, "connect", c, Calls(<<"try the token", "create Secret">>))
  BY DEF CreateGitLabConnection
<1>2. PICK calls : calls = Calls(<<"try the token", "create Secret">>)
  OBVIOUS
<1>3. "connect" \in Ops \ {"idle"} /\ "try the token" \in Steps /\ "create Secret" \in Steps
  BY DEF Ops, Steps
<1>4. Turn("try the token") < Turn("create Secret")
  <2>1. 0 < 1
    OBVIOUS
  <2> QED  BY <2>1, OtherTurns
<1>5. /\ calls \in Seq(ACall) /\ Ordered(calls)
      /\ Elements(calls) = {Call("try the token", None), Call("create Secret", None)}
      /\ Call("try the token", None).do = "try the token"
      /\ Call("create Secret", None).do = "create Secret"
  BY <1>2, <1>3, <1>4, CallsOfTwo, NamedCall
<1>6. Begin(p, "connect", c, calls)
  BY <1>1, <1>2
<1>7. \A d \in Elements(calls) : "connect" \in By(d.do)
  BY <1>5, ByWhom
<1>8. doing'[p].op = "connect" /\ doing'[p].says = c /\ Doing(p)' /\ Quiet(p) /\ tab' = tab
  BY <1>3, <1>5, <1>6, <1>7, Begins
<1>9. Connects(p)'
  BY <1>1, <1>8 DEF Connects
<1> QED  BY <1>8, <1>9, OfItsKind, AfterQuiet

(* Removing one.                                                           *)
LEMMA DeleteGitLabConnectionKeeps ==
    ASSUME IInv, NEW p \in Person, DeleteGitLabConnection(p)
    PROVE  IInv'
<1>1. PICK c : Begin(p, "disconnect", c, Removal)
  BY DEF DeleteGitLabConnection
<1>2. PICK calls : calls = Calls(<<"list Secrets", "list users", "delete Secret">>)
  OBVIOUS
<1>3. /\ "disconnect" \in Ops \ {"idle"}
      /\ "list Secrets" \in Steps /\ "list users" \in Steps /\ "delete Secret" \in Steps
  BY DEF Ops, Steps
<1>4. /\ Turn("list Secrets") < Turn("list users") /\ Turn("list users") < Turn("delete Secret")
      /\ Turn("list Secrets") < Turn("delete Secret")
  <2>1. 0 < 1 /\ 1 < 2 /\ 0 < 2
    OBVIOUS
  <2> QED  BY <2>1, OtherTurns
<1>5. /\ calls \in Seq(ACall) /\ Ordered(calls)
      /\ Elements(calls) = {Call("list Secrets", None), Call("list users", None),
                            Call("delete Secret", None)}
  BY <1>2, <1>3, <1>4, CallsOfThree
<1>6. /\ Call("list Secrets", None).do = "list Secrets"
      /\ Call("list users", None).do = "list users"
      /\ Call("delete Secret", None).do = "delete Secret"
  BY <1>3, NamedCall
<1>7. Begin(p, "disconnect", c, calls)
  BY <1>1, <1>2 DEF Removal
<1>8. \A d \in Elements(calls) : "disconnect" \in By(d.do)
  BY <1>5, <1>6, ByWhom
<1>9. /\ doing'[p].op = "disconnect" /\ Doing(p)' /\ Quiet(p) /\ tab' = tab
      /\ Left(p)' = Elements(calls)
  BY <1>3, <1>5, <1>7, <1>8, Begins
<1>10. Pending(p, "list users")'
  BY <1>5, <1>6, <1>9 DEF Pending
<1>11. Disconnects(p)'
  BY <1>10 DEF Disconnects
<1> QED  BY <1>9, <1>11, OfItsKind, AfterQuiet

(* A call before those that a form asks for.                               *)
LEMMA OneFirst ==
    ASSUME NEW c \in ACall, Turn(c.do) = 0,
           NEW s \in Seq(ACall), Ordered(s), InTurns(s, 3, 7)
    PROVE  /\ <<c>> \o s \in Seq(ACall) /\ Ordered(<<c>> \o s)
           /\ Elements(<<c>> \o s) = {c} \cup Elements(s)
<1>1. <<c>> \in Seq(ACall) /\ Elements(<<c>>) = {c} /\ Ordered(<<c>>)
  BY OneElement
<1>2. 0 \in 0 .. 1 /\ 0 <= 1 /\ 1 < 3 /\ 3 <= 7
  OBVIOUS
<1>3. PICK t : t = <<c>>
  OBVIOUS
<1>4. InTurns(t, 0, 1)
  BY <1>1, <1>2, <1>3 DEF InTurns
<1>5. t \in Seq(ACall) /\ Elements(t) = {c} /\ Ordered(t)
  BY <1>1, <1>3
<1>6. /\ t \o s \in Seq(ACall) /\ Ordered(t \o s)
      /\ Elements(t \o s) = Elements(t) \cup Elements(s)
  BY <1>2, <1>4, <1>5, Joined
<1> QED  BY <1>3, <1>5, <1>6

\* A save of settings, and what it calls: one call for the namespace, and
\* those of its form.
IsSave(op, do) ==
    \/ op = "make" /\ do = "create Namespace"
    \/ op = "settle" /\ do = "get Namespace"

CallsOfSave(do, f) == <<Call(do, None)>> \o ApplyNamespaceSettings(f)

(* A save of settings begins with its first call, and then those that its  *)
(* form asks for.                                                          *)
LEMMA SettlingBegins ==
    ASSUME Beginnings, IInv, NEW p \in Person, NEW f \in Form, NEW op, NEW do, IsSave(op, do),
           Begin(p, op, f, CallsOfSave(do, f))
    PROVE  /\ doing'[p].op = op /\ doing'[p].says = f
           /\ doing'[p].ok = TRUE /\ doing'[p].cut = FALSE
           /\ doing'[p].fresh => tab[p].from = ns
           /\ \A c : c \in Left(p)' <=> c = Call(do, None) \/ AsksFor(f, c)
           /\ Doing(p)' /\ Quiet(p) /\ tab' = tab
<1>1. /\ do \in Steps /\ op \in Ops \ {"idle"}
      /\ op \in {"make", "settle"} /\ do \in {"create Namespace", "get Namespace"}
      /\ op = "make" <=> do = "create Namespace"
  BY DEF IsSave, Steps, Ops
<1>2. Call(do, None) \in ACall /\ Call(do, None).do = do
  BY <1>1, NamedCall
<1>3. PICK rest : rest = ApplyNamespaceSettings(f)
  OBVIOUS
<1>4. /\ rest \in Seq(ACall) /\ Ordered(rest) /\ InTurns(rest, 3, 7)
      /\ \A c : c \in Elements(rest) <=> AsksFor(f, c)
  BY <1>3, SettingsCalls
<1>5. Turn(do) = 0
  BY <1>1, Turns
<1>6. /\ <<Call(do, None)>> \o rest \in Seq(ACall) /\ Ordered(<<Call(do, None)>> \o rest)
      /\ Elements(<<Call(do, None)>> \o rest) = {Call(do, None)} \cup Elements(rest)
  BY <1>2, <1>4, <1>5, OneFirst
<1>8. PICK calls : calls = <<Call(do, None)>> \o rest
  OBVIOUS
<1>9. Begin(p, op, f, calls)
  BY <1>3, <1>8 DEF CallsOfSave
<1>10. \A c \in Elements(calls) : op \in By(c.do)
  <2>1. SUFFICES ASSUME NEW c \in Elements(calls)
                 PROVE  op \in By(c.do)
    OBVIOUS
  <2>2. CASE c = Call(do, None)
    BY <1>1, <1>2, <2>2, SettlingCalls
  <2>3. CASE AsksFor(f, c)
    <3>1. c.do \in {"limits", "quota", "no quota", "no limits", "pull Secret", "defaults"}
      BY <2>3, AskedLater
    <3>2. By(c.do) = {"make", "settle"}
      BY <3>1 DEF By
    <3> QED  BY <1>1, <3>2
  <2> QED  BY <1>4, <1>6, <1>8, <2>1, <2>2, <2>3
<1>11. calls \in Seq(ACall) /\ Ordered(calls)
  BY <1>6, <1>8
<1>12. /\ doing'[p].op = op /\ doing'[p].says = f
       /\ doing'[p].ok = TRUE /\ doing'[p].cut = FALSE
       /\ doing'[p].fresh => tab[p].from = ns
       /\ Left(p)' = Elements(calls) /\ Doing(p)' /\ Quiet(p) /\ tab' = tab
  BY <1>1, <1>9, <1>10, <1>11, Begins
<1>13. \A c : c \in Left(p)' <=> c = Call(do, None) \/ AsksFor(f, c)
  BY <1>4, <1>6, <1>8, <1>12
<1> QED  BY <1>12, <1>13

(* Making a namespace, and saving the settings of one.                     *)
LEMMA SettlingKeeps ==
    ASSUME Beginnings, IInv, NEW p \in Person, CreateNamespace(p) \/ SaveNamespaceSettings(p)
    PROVE  IInv'
<1>1. Cluster /\ Tab(p)
  BY DEF IInv, Kept
<1>2. tab[p].at \in {"making", "settings"} /\ Valid(tab[p].says)
  BY DEF CreateNamespace, SaveNamespaceSettings
<1>3. tab[p] \in SettingsTab
  BY <1>1, <1>2 DEF Cluster, Closed, EditingTab, NewTab
<1>4. PICK f \in Form : f = tab[p].says
  BY <1>3 DEF SettingsTab
<1>5. PICK op, do : /\ op \in {"make", "settle"} /\ do \in {"create Namespace", "get Namespace"}
                    /\ op = "make" <=> do = "create Namespace"
                    /\ tab[p].at = IF op = "make" THEN "making" ELSE "settings"
                    /\ Begin(p, op, f, CallsOfSave(do, f))
  <2>1. CASE CreateNamespace(p)
    <3>1. Begin(p, "make", f, CallsOfSave("create Namespace", f))
      BY <1>4, <2>1 DEF CreateNamespace, Begin, CallsOfSave
    <3>2. tab[p].at = "making"
      BY <2>1 DEF CreateNamespace
    <3> QED  BY <3>1, <3>2
  <2>2. CASE SaveNamespaceSettings(p)
    <3>1. Begin(p, "settle", f, CallsOfSave("get Namespace", f))
      BY <1>4, <2>2 DEF SaveNamespaceSettings, Begin, CallsOfSave
    <3>2. tab[p].at = "settings"
      BY <2>2 DEF SaveNamespaceSettings
    <3> QED  BY <3>1, <3>2
  <2> QED  BY <2>1, <2>2
<1>6. /\ doing'[p].op = op /\ doing'[p].says = f
      /\ doing'[p].ok = TRUE /\ doing'[p].cut = FALSE
      /\ doing'[p].fresh => tab[p].from = ns
      /\ \A c : c \in Left(p)' <=> c = Call(do, None) \/ AsksFor(f, c)
      /\ Doing(p)' /\ Quiet(p) /\ tab' = tab
  <2>1. IsSave(op, do) /\ Begin(p, op, f, CallsOfSave(do, f))
    BY <1>5 DEF IsSave
  <2> QED
    BY <1>4, <2>1, SettlingBegins
<1>7. ns' = ns /\ Settling(p)'
  BY <1>5, <1>6 DEF Quiet, Settling
<1>8. Call(do, None).do = do /\ do \in Steps
  <2>1. do \in Steps
    BY <1>5 DEF Steps
  <2> QED  BY <2>1, NamedCall
<1>9. \A c \in Left(p)' :
         \/ c.do = do
         \/ /\ c.do \in {"limits", "quota", "no quota", "no limits", "pull Secret", "defaults"}
            /\ (c.do = "limits" => f.limits # {}) /\ (c.do = "no limits" => f.limits = {})
            /\ (c.do = "quota" => f.quota # {}) /\ (c.do = "no quota" => f.quota = {})
            /\ (c.do = "pull Secret" => c.of \in f.registries)
  BY <1>4, <1>6, <1>8, AskedLater
<1>10. Pending(p, do)'
  BY <1>6, <1>8 DEF Pending
<1>11. /\ ~Pending(p, "label")' /\ ~Pending(p, "annotate")'
       /\ Pending(p, "limits")' => f.limits # {}
       /\ Pending(p, "no limits")' => f.limits = {}
       /\ Pending(p, "quota")' => f.quota # {}
       /\ Pending(p, "no quota")' => f.quota = {}
       /\ \A r \in Registry \cup {None} : PullPending(p, r)' => r \in f.registries
  <2>1. do # "label" /\ do # "annotate" /\ do # "limits" /\ do # "no limits" /\ do # "quota"
        /\ do # "no quota" /\ do # "pull Secret"
    BY <1>5
  <2> QED  BY <1>9, <2>1 DEF Pending, PullPending
<1>12. /\ Pending(p, "limits")' \/ Pending(p, "no limits")'
       /\ Pending(p, "quota")' \/ Pending(p, "no quota")'
       /\ Pending(p, "defaults")'
       /\ \A r \in f.registries : PullPending(p, r)'
  <2>1. /\ Call("limits", None).do = "limits" /\ Call("no limits", None).do = "no limits"
        /\ Call("quota", None).do = "quota" /\ Call("no quota", None).do = "no quota"
        /\ Call("defaults", None).do = "defaults"
    BY NamedCall DEF Steps
  <2>2. \A r \in f.registries : /\ Call("pull Secret", r).do = "pull Secret"
                                /\ Call("pull Secret", r).of = r
    BY DEF Call
  <2>3. Pending(p, "limits")' \/ Pending(p, "no limits")'
    BY <1>6, <2>1 DEF Pending, AsksFor
  <2>4. Pending(p, "quota")' \/ Pending(p, "no quota")'
    BY <1>6, <2>1 DEF Pending, AsksFor
  <2>5. Pending(p, "defaults")'
    BY <1>6, <2>1 DEF Pending, AsksFor
  <2>6. \A r \in f.registries : PullPending(p, r)'
    BY <1>6, <2>2 DEF PullPending, AsksFor
  <2> QED  BY <2>3, <2>4, <2>5, <2>6
<1>13. /\ op = "make" => tab[p].from = NoNamespace /\ Pending(p, "create Namespace")'
       /\ op = "settle" => ns.there /\ Pending(p, "get Namespace")'
  BY <1>1, <1>5, <1>10 DEF Tab
<1>14. Asked(p)'
  <2>1. tab'[p].at = IF doing'[p].op = "make" THEN "making" ELSE "settings"
    BY <1>5, <1>6
  <2>2. f = tab'[p].says /\ Valid(f)
    BY <1>2, <1>4, <1>6
  <2>3. ~Pending(p, "create Namespace")' => ns'.there
    BY <1>5, <1>7, <1>13
  <2> QED  BY <1>6, <1>11, <1>12, <2>1, <2>2, <2>3 DEF Asked
<1>15. Done(p)'
  <2>1. ~Begun(p)'
    BY <1>5, <1>13 DEF Begun
  <2> QED  BY <1>12, <2>1 DEF Done
<1>16. Steady(p)'
  <2>1. SUFFICES ASSUME doing'[p].fresh
                 PROVE  /\ Between(ns', tab'[p].from, f)
                        /\ tab'[p].from.legacy = ByHand =>
                              /\ ns'.legacy = ByHand \/ doing'[p].op = "make"
                              /\ ~Pending(p, "annotate")'
    BY <1>6 DEF Steady
  <2>2. tab'[p].from = ns'
    BY <1>6, <1>7, <2>1
  <2> QED  BY <1>11, <2>2 DEF Between
<1>17. Unmade(p)'
  <2>1. SUFFICES ASSUME doing'[p].fresh, f.registries \cap tab'[p].from.secrets = {}
                 PROVE  \A r \in Registry : PullPending(p, r)' => r \notin ns'.secrets
    BY <1>6 DEF Unmade
  <2>2. tab'[p].from = ns'
    BY <1>6, <1>7, <2>1
  <2> QED  BY <1>11, <2>1, <2>2
<1>18. doing'[p].op \notin {"save", "connect", "disconnect", "add", "publish"}
  BY <1>5, <1>6
<1> QED  BY <1>6, <1>14, <1>15, <1>16, <1>17, <1>18, OfItsKind, AfterQuiet

(* Publishing a namespace, and adding a provider.                          *)
LEMMA DnsKeeps ==
    ASSUME IInv, NEW p \in Person, SetDnsPublishing(p) \/ CreateDnsProvider(p)
    PROVE  IInv'
<1>1. PICK op, says, list, calls :
         /\ Begin(p, op, says, calls)
         /\ \/ /\ op = "publish" /\ says \in PublishSays /\ list = "list to publish"
               /\ calls = Calls(<<"list to publish", "apply provider">>)
            \/ /\ op = "add" /\ says \in AddSays /\ list = "list to add"
               /\ calls = Calls(<<"list to add", "apply credentials", "apply provider">>)
  <2>1. CASE SetDnsPublishing(p)
    <3>1. PICK a \in Account, n \in Namespace, publish \in BOOLEAN :
             Begin(p, "publish", [account |-> a, namespace |-> n, publish |-> publish],
                   Calls(<<"list to publish", "apply provider">>))
      BY <2>1 DEF SetDnsPublishing
    <3>2. [account |-> a, namespace |-> n, publish |-> publish] \in PublishSays
      BY <3>1 DEF PublishSays
    <3> QED  BY <3>1, <3>2
  <2>2. CASE CreateDnsProvider(p)
    <3>1. PICK a \in Account, n \in Namespace, zone \in Zones :
             Begin(p, "add", [account |-> a, spec |-> FromDnsForm(zone, n)],
                   Calls(<<"list to add", "apply credentials", "apply provider">>))
      BY <2>2 DEF CreateDnsProvider
    <3>2. zone.domains \subseteq Domain /\ zone.exclude \subseteq Domain
      BY <3>1, ConstantsAssumption
    <3>3. FromDnsForm(zone, n) \in Provider
      BY <3>1, <3>2 DEF FromDnsForm, Provider
    <3>4. [account |-> a, spec |-> FromDnsForm(zone, n)] \in AddSays
      BY <3>1, <3>3 DEF AddSays
    <3> QED  BY <3>1, <3>4
  <2> QED  BY <2>1, <2>2
<1>2. /\ "list to publish" \in Steps /\ "list to add" \in Steps
      /\ "apply credentials" \in Steps /\ "apply provider" \in Steps
  BY DEF Steps
<1>3. /\ Turn("list to publish") < Turn("apply provider")
      /\ Turn("list to add") < Turn("apply credentials")
      /\ Turn("apply credentials") < Turn("apply provider")
      /\ Turn("list to add") < Turn("apply provider")
  <2>1. 0 < 2 /\ 0 < 1 /\ 1 < 2
    OBVIOUS
  <2> QED  BY <2>1, OtherTurns
<1>4. /\ Call("list to publish", None).do = "list to publish"
      /\ Call("list to add", None).do = "list to add"
      /\ Call("apply credentials", None).do = "apply credentials"
      /\ Call("apply provider", None).do = "apply provider"
  BY <1>2, NamedCall
<1>5. /\ calls \in Seq(ACall) /\ Ordered(calls)
      /\ \/ /\ op = "publish"
            /\ Elements(calls) = {Call("list to publish", None), Call("apply provider", None)}
         \/ /\ op = "add"
            /\ Elements(calls) = {Call("list to add", None), Call("apply credentials", None),
                                  Call("apply provider", None)}
  <2>1. CASE op = "publish"
    <3>1. calls = Calls(<<"list to publish", "apply provider">>)
      BY <1>1, <2>1
    <3> QED  BY <1>2, <1>3, <2>1, <3>1, CallsOfTwo
  <2>2. CASE op = "add"
    <3>1. calls = Calls(<<"list to add", "apply credentials", "apply provider">>)
      BY <1>1, <2>2
    <3> QED  BY <1>2, <1>3, <2>2, <3>1, CallsOfThree
  <2> QED  BY <1>1, <2>1, <2>2
<1>6. \A c \in Elements(calls) : op \in By(c.do)
  BY <1>4, <1>5, OfTheDnsPage
<1>7. op \in Ops \ {"idle"}
  BY <1>5 DEF Ops
<1>8. /\ doing'[p].op = op /\ doing'[p].says = says /\ Doing(p)' /\ Quiet(p) /\ tab' = tab
      /\ Left(p)' = Elements(calls)
  BY <1>1, <1>5, <1>6, <1>7, Begins
<1>9. /\ op = "publish" => Pending(p, "list to publish")' /\ ~Pending(p, "list to add")'
      /\ op = "add" => Pending(p, "list to add")' /\ Pending(p, "apply credentials")'
      /\ Pending(p, "apply provider")'
  BY <1>4, <1>5, <1>8 DEF Pending
<1>10. ~Listed(p)' /\ (op = "publish" \/ op = "add")
  BY <1>5, <1>9 DEF Listed
<1>11. says \in IF op = "add" THEN AddSays ELSE PublishSays
  BY <1>1
<1>12. Publishes(p)'
  BY <1>8, <1>9, <1>10, <1>11 DEF Publishes
<1>13. doing'[p].op \notin {"save", "connect", "disconnect", "make", "settle"}
  BY <1>8, <1>10
<1> QED  BY <1>8, <1>12, <1>13, OfItsKind, AfterQuiet

-----------------------------------------------------------------------------
(* Pages                                                                   *)

(* A page of somebody's with nothing under way after the step.             *)
LEMMA AfterPage ==
    ASSUME IInv, NEW p \in Person, Quiet(p), doing'[p] = Idle, Tab(p)'
    PROVE  IInv'
<1>1. Cluster' /\ \A q \in Person \ {p} : Kept(q)'
  BY QuietKeeps
<1>2. /\ doing'[p].op = "idle" /\ doing'[p].left = <<>> /\ doing'[p].ok = TRUE
      /\ doing'[p].cut = FALSE /\ doing'[p].alone = TRUE /\ doing'[p].fresh = TRUE
  BY DEF Idle
<1>3. Left(p)' = {} /\ Ordered(doing'[p].left) /\ doing'[p].left \in Seq(ACall)
  BY <1>2, NoElements DEF Left
<1>4. Doing(p)'
  <2>1. doing'[p] = [op |-> doing'[p].op, says |-> doing'[p].says, left |-> doing'[p].left,
                     seen |-> doing'[p].seen, ok |-> doing'[p].ok, cut |-> doing'[p].cut,
                     alone |-> doing'[p].alone, fresh |-> doing'[p].fresh]
    BY DEF Idle
  <2> QED  BY <1>2, <1>3, <2>1 DEF Doing, Ops
<1>5. doing'[p].op \notin {"save", "connect", "disconnect", "make", "settle", "add", "publish"}
  BY <1>2
<1>6. Kept(p)'
  BY <1>4, <1>5, OfItsKind DEF Kept
<1> QED  BY <1>1, <1>6 DEF IInv

(* A page opened with nothing under way.                                   *)
LEMMA PageOpens ==
    ASSUME IInv, NEW p \in Person, NEW t \in EditingTab \cup NewTab \cup SettingsTab,
           doing[p].op = "idle", tab' = [tab EXCEPT ![p] = t],
           UNCHANGED <<appVars, ns, dnsVars, doing>>,
           t.at = "editing" => t.version <= clock /\ app = t.opened,
           t.at \in {"settings", "making"} => t.says.keep \subseteq ns.secrets,
           t.at = "settings" => ns.there,
           t.at = "making" => t.from = NoNamespace
    PROVE  IInv'
<1>1. Cluster /\ Doing(p)
  BY DEF IInv, Kept
<1>2. doing[p] = Idle
  BY <1>1 DEF Doing
<1>3. /\ app' = app /\ clock' = clock /\ ns' = ns /\ doing' = doing
  BY DEF appVars
<1>4. /\ tab' \in [Person -> {Closed} \cup EditingTab \cup NewTab \cup SettingsTab]
      /\ tab'[p] = t
      /\ \A q \in Person \ {p} : tab'[q] = tab[q]
  BY <1>1 DEF Cluster
<1>5. Quiet(p)
  BY <1>1, <1>3, <1>4 DEF Quiet, Cluster
<1>6. Tab(p)'
  BY <1>3, <1>4 DEF Tab
<1> QED  BY <1>2, <1>3, <1>5, <1>6, AfterPage

(* Opening the application's form.                                         *)
LEMMA OpenFormKeeps ==
    ASSUME IInv, NEW p \in Person, OpenForm(p)
    PROVE  IInv'
<1>1. Cluster /\ Doing(p)
  BY DEF IInv, Kept
<1>2. PICK t : /\ tab' = [tab EXCEPT ![p] = t]
               /\ \E through \in connections \cup {IF app = None THEN None ELSE app.through} :
                     t = [at |-> IF app = None THEN "new" ELSE "editing",
                          version |-> IF app = None THEN 0 ELSE app.version,
                          shown |-> p, through |-> through, opened |-> app, again |-> FALSE]
  BY DEF OpenForm
<1>3. PICK through : /\ through \in connections \cup {IF app = None THEN None ELSE app.through}
                     /\ t = [at |-> IF app = None THEN "new" ELSE "editing",
                             version |-> IF app = None THEN 0 ELSE app.version,
                             shown |-> p, through |-> through, opened |-> app, again |-> FALSE]
  BY <1>2
<1>4. through \in Connection \cup {None}
  BY <1>1, <1>3 DEF Cluster, Application
<1>5. CASE app = None
  <2>1. t = [at |-> "new", version |-> 0, shown |-> p, through |-> through, opened |-> None,
             again |-> FALSE]
    BY <1>3, <1>5
  <2>2. t \in NewTab /\ t.at = "new"
    BY <1>4, <2>1 DEF NewTab
  <2> QED  BY <1>1, <1>2, <2>2, PageOpens DEF OpenForm, Tab
<1>6. CASE app # None
  <2>1. t = [at |-> "editing", version |-> app.version, shown |-> p, through |-> through,
             opened |-> app, again |-> FALSE]
    BY <1>3, <1>6
  <2>2. app \in Application /\ app.version \in 1 .. clock /\ clock \in Nat
    BY <1>1, <1>6 DEF Cluster
  <2>3. app.version \in Nat /\ app.version <= clock
    BY <2>2
  <2>4. t \in EditingTab
    BY <1>4, <2>1, <2>2, <2>3 DEF EditingTab
  <2>5. t.at = "editing" /\ t.version = app.version /\ t.opened = app
    BY <2>1
  <2> QED  BY <1>1, <1>2, <2>3, <2>4, <2>5, PageOpens DEF OpenForm
<1> QED  BY <1>5, <1>6

(* Opening a namespace's settings, as they are or for one to be made.      *)
LEMMA OpenSettingsKeeps ==
    ASSUME Beginnings, IInv, NEW p \in Person, OpenSettings(p)
    PROVE  IInv'
<1>1. Cluster /\ Doing(p)
  BY DEF IInv, Kept
<1>2. PICK wish \in Wishes, keep \in {{}, ns.defaults, ns.defaults \cup ns.secrets} :
         tab' = [tab EXCEPT ![p] =
                    [at |-> IF ns.there THEN "settings" ELSE "making", from |-> ns,
                     says |-> NamespaceForm(ns, wish, keep)]]
  BY DEF OpenSettings
<1>3. PICK t : t = [at |-> IF ns.there THEN "settings" ELSE "making", from |-> ns,
                    says |-> NamespaceForm(ns, wish, keep)]
  OBVIOUS
<1>4. tab' = [tab EXCEPT ![p] = t]
  BY <1>2, <1>3
<1>5. keep \subseteq ns.secrets /\ keep \subseteq Registry
  <2>1. ns.defaults \subseteq ns.secrets /\ ns.secrets \subseteq Registry
    BY <1>1, SettingsFields DEF Cluster
  <2> QED  BY <1>2, <2>1
<1>6. PlacementOf(ns) \in Region \cup {None}
  <2>1. ns.placed \in Region \cup {None} /\ ns.legacy \in Region \cup {None, ByHand}
    BY <1>1, SettingsFields DEF Cluster
  <2> QED  BY <2>1 DEF PlacementOf, LegacyRegionOf
<1>7. wish \in AWish
  BY <1>2 DEF Beginnings
<1>8. NamespaceForm(ns, wish, keep) \in Form /\ NamespaceForm(ns, wish, keep).keep = keep
  <2>1. PICK region : region = IF wish.move THEN wish.region ELSE PlacementOf(ns)
    OBVIOUS
  <2>2. region \in Region \cup {None}
    BY <1>6, <1>7, <2>1 DEF AWish
  <2>3. NamespaceForm(ns, wish, keep) = [region |-> region, quota |-> wish.quota,
           limits |-> wish.limits, keep |-> keep, registries |-> wish.registries]
    BY <2>1 DEF NamespaceForm
  <2> QED  BY <1>5, <1>7, <2>2, <2>3 DEF AWish, Form
<1>9. PICK says \in Form : says = NamespaceForm(ns, wish, keep)
  BY <1>8
<1>10. PICK at \in {"settings", "making"} : at = IF ns.there THEN "settings" ELSE "making"
  OBVIOUS
<1>11. t = [at |-> at, from |-> ns, says |-> says]
  BY <1>3, <1>9, <1>10
<1>12. t.at = at /\ t.from = ns /\ t.says = says
  BY <1>11
<1>13. t \in SettingsTab
  BY <1>1, <1>9, <1>10, <1>11 DEF Cluster, SettingsTab
<1>14. says.keep \subseteq ns.secrets
  BY <1>5, <1>8, <1>9
<1>15. /\ at = "settings" => ns.there
       /\ at = "making" => ns = NoNamespace
  BY <1>1, <1>10 DEF Cluster
<1>16. at # "editing"
  BY <1>10
<1> QED  BY <1>1, <1>4, <1>12, <1>13, <1>14, <1>15, <1>16, PageOpens DEF OpenSettings

(* A page once its action was answered, as it is on the cluster by now:    *)
(* the form of an application gets its version, that of a namespace keeps  *)
(* the pull Secrets just made.                                             *)
LEMMA Answering ==
    ASSUME IInv, NEW p \in Person, doing[p].op # "idle", doing[p].left = <<>>,
           NEW t, t = IF doing[p].ok THEN Answered(p)
                      ELSE IF doing[p].op \in {"save", "allow"} THEN Rerendered(tab[p])
                      ELSE tab[p]
    PROVE  /\ t \in {Closed} \cup EditingTab \cup NewTab \cup SettingsTab
           /\ t.at = "editing" =>
                 /\ t.version <= clock
                 /\ ~t.again => app = None \/ app.version # t.version \/ app = t.opened
           /\ t.at \in {"settings", "making"} => t.says.keep \subseteq ns.secrets
           /\ t.at = "settings" => ns.there
           /\ t.at = "making" => t.from = NoNamespace
<1>1. Cluster /\ Tab(p) /\ Asked(p)
  BY DEF IInv, Kept
<1>2. tab[p] \in {Closed} \cup EditingTab \cup NewTab \cup SettingsTab
  BY <1>1 DEF Cluster
<1>3. CASE t = tab[p]
  BY <1>1, <1>2, <1>3 DEF Tab
<1>4. CASE t = Closed
  <2>1. t.at = "closed"
    BY <1>4 DEF Closed
  <2> QED  BY <1>4, <2>1
<1>5. CASE t = Rerendered(tab[p])
  <2>1. CASE tab[p].at = "editing" /\ app = None
    <3>1. t = Closed
      BY <1>5, <2>1 DEF Rerendered
    <3> QED  BY <1>4, <3>1
  <2>2. CASE tab[p].at = "editing" /\ app # None
    <3>1. t = [tab[p] EXCEPT !.version = app.version, !.again = TRUE]
      BY <1>5, <2>2 DEF Rerendered
    <3>2. tab[p] \in EditingTab
      BY <1>2, <2>2 DEF Closed, NewTab, SettingsTab
    <3>3. app.version \in Nat /\ app.version <= clock
      BY <1>1, <2>2 DEF Cluster
    <3>4. t \in EditingTab /\ t.version = app.version /\ t.again = TRUE /\ t.at = "editing"
      BY <3>1, <3>2, <3>3 DEF EditingTab
    <3> QED  BY <3>3, <3>4
  <2>3. CASE tab[p].at # "editing"
    <3>1. t = tab[p]
      BY <1>5, <2>3 DEF Rerendered
    <3> QED  BY <1>3, <3>1
  <2> QED  BY <2>1, <2>2, <2>3
<1>6. CASE doing[p].ok /\ doing[p].op = "settle"
  <2>1. t = [tab[p] EXCEPT !.says.keep = @ \cup tab[p].says.registries, !.says.registries = {}]
    BY <1>6 DEF Answered
  <2>2. Settling(p)
    BY <1>6 DEF Settling
  <2>3. /\ tab[p].at = "settings" /\ tab[p].says = doing[p].says /\ tab[p].says.keep \subseteq ns.secrets
        /\ ns.there
    BY <1>6, <2>2, SettlingForm
  <2>4. tab[p] \in SettingsTab
    BY <1>2, <2>3 DEF Closed, EditingTab, NewTab
  <2>5. \A r \in tab[p].says.registries : r \in ns.secrets
    <3>1. Left(p) = {}
      BY NoElements DEF Left
    <3>2. \A r : ~PullPending(p, r)
      BY <3>1 DEF PullPending
    <3> QED  BY <1>1, <1>6, <2>2, <2>3, <3>2 DEF Asked
  <2>6. PICK f \in Form, n \in Settings : tab[p] = [at |-> "settings", from |-> n, says |-> f]
    BY <2>3, <2>4 DEF SettingsTab
  <2>7. PICK keep, registries : keep = f.keep /\ registries = f.registries
    OBVIOUS
  <2>8. tab[p].says = f
    BY <2>6
  <2>9. t = [at |-> "settings", from |-> n,
             says |-> [f EXCEPT !.keep = keep \cup registries, !.registries = {}]]
    <3>1. PICK s : s = tab[p]
      OBVIOUS
    <3>2. s = [at |-> "settings", from |-> n, says |-> f]
      BY <2>6, <3>1
    <3>3. t = [s EXCEPT !.says.keep = @ \cup registries, !.says.registries = {}]
      BY <2>1, <2>7, <2>8, <3>1
    <3>4. s.says.keep = keep
      BY <2>7, <3>2
    <3> QED  BY <3>2, <3>3, <3>4
  <2>10. PICK g : g = [f EXCEPT !.keep = keep \cup registries, !.registries = {}]
    OBVIOUS
  <2>11. g \in Form /\ g.keep = keep \cup registries
    BY <2>6, <2>7, <2>10 DEF Form
  <2>12. t = [at |-> "settings", from |-> n, says |-> g]
    BY <2>9, <2>10
  <2>13. t \in SettingsTab /\ t.at = "settings" /\ t.says = g
    BY <2>6, <2>11, <2>12 DEF SettingsTab
  <2>14. g.keep \subseteq ns.secrets
    BY <2>3, <2>5, <2>7, <2>8, <2>11
  <2> QED  BY <2>3, <2>13, <2>14
<1>7. \/ t = tab[p] \/ t = Closed \/ t = Rerendered(tab[p])
      \/ doing[p].ok /\ doing[p].op = "settle"
  BY DEF Answered
<1> QED  BY <1>3, <1>4, <1>5, <1>6, <1>7

(* An answer.                                                              *)
LEMMA AnswersKeep ==
    ASSUME IInv, NEW p \in Person, Answers(p)
    PROVE  IInv'
<1>1. Cluster
  BY DEF IInv
<1>2. PICK t : t = IF doing[p].ok THEN Answered(p)
                   ELSE IF doing[p].op \in {"save", "allow"} THEN Rerendered(tab[p])
                   ELSE tab[p]
  OBVIOUS
<1>3. /\ doing[p].op # "idle" /\ doing[p].left = <<>>
      /\ doing' = [doing EXCEPT ![p] = Idle] /\ tab' = [tab EXCEPT ![p] = t]
      /\ UNCHANGED <<appVars, ns, dnsVars>>
  BY <1>2 DEF Answers
<1>4. /\ t \in {Closed} \cup EditingTab \cup NewTab \cup SettingsTab
      /\ t.at = "editing" =>
            /\ t.version <= clock
            /\ ~t.again => app = None \/ app.version # t.version \/ app = t.opened
      /\ t.at \in {"settings", "making"} => t.says.keep \subseteq ns.secrets
      /\ t.at = "settings" => ns.there
      /\ t.at = "making" => t.from = NoNamespace
  BY <1>2, <1>3, Answering
<1>5. /\ tab' \in [Person -> {Closed} \cup EditingTab \cup NewTab \cup SettingsTab]
      /\ tab'[p] = t
      /\ \A q \in Person \ {p} : tab'[q] = tab[q]
  BY <1>1, <1>3, <1>4 DEF Cluster
<1>6. /\ doing'[p] = Idle /\ DOMAIN doing' = Person
      /\ \A q \in Person \ {p} : doing'[q] = doing[q]
  BY <1>1, <1>3 DEF Cluster
<1>7. Quiet(p)
  BY <1>3, <1>5, <1>6 DEF Quiet
<1>8. app' = app /\ clock' = clock /\ ns' = ns
  BY <1>3 DEF appVars
<1>9. Tab(p)'
  BY <1>4, <1>5, <1>8 DEF Tab
<1> QED  BY <1>6, <1>7, <1>9, AfterPage

(* The application changed by somebody on no page.                         *)
LEMMA ElsewhereKeeps ==
    ASSUME IInv, Elsewhere
    PROVE  IInv'
<1>1. Cluster
  BY DEF IInv
<1>2. /\ app # None /\ clock' = clock + 1
      /\ doing' = [p \in Person |-> IF doing[p].op = "idle" THEN Idle
                                    ELSE [doing[p] EXCEPT !.alone = FALSE]]
      /\ UNCHANGED <<connections, allowed, ns, dnsVars, tab>>
  BY DEF Elsewhere
<1>3. PICK hidden \in {app.hidden, "set"} : app' = [app EXCEPT !.version = clock', !.hidden = hidden]
  BY DEF Elsewhere
<1>4. app \in Application /\ clock \in Nat
  BY <1>1, <1>2 DEF Cluster
<1>5. clock' \in Nat /\ clock < clock' /\ clock' \in 1 .. clock'
  BY <1>2, <1>4
<1>6. app' \in Application /\ app'.version = clock'
  <2>1. hidden \in {"unset", "set"}
    BY <1>3, <1>4 DEF Application
  <2>2. PICK v \in Nat : v = clock'
    BY <1>5
  <2>3. app' = [app EXCEPT !.version = v, !.hidden = hidden]
    BY <1>3, <2>2
  <2> QED  BY <1>4, <2>1, <2>2, <2>3 DEF Application
<1>7. Grown
  BY <1>2, <1>4, <1>5, <1>6 DEF Grown
<1>8. Cluster'
  BY <1>1, <1>2, <1>5, <1>6 DEF Cluster, dnsVars
<1>9. ASSUME NEW q \in Person
      PROVE  Kept(q)'
  <2>1. Kept(q) /\ Doing(q)
    BY DEF IInv, Kept
  <2>2. Spared(q)
    <3>1. CASE doing[q].op = "idle"
      <4>1. doing'[q] = Idle /\ doing[q] = Idle
        BY <1>2, <2>1, <3>1 DEF Doing
      <4> QED  BY <2>1, <3>1, <4>1 DEF Spared, Doing
    <3>2. CASE doing[q].op # "idle"
      <4>1. doing'[q] = [doing[q] EXCEPT !.alone = FALSE]
        BY <1>2, <3>2
      <4>2. doing'[q] = [op |-> doing[q].op, says |-> doing[q].says, left |-> doing[q].left,
                         seen |-> doing[q].seen, ok |-> doing[q].ok, cut |-> doing[q].cut,
                         alone |-> FALSE, fresh |-> doing[q].fresh]
        BY <2>1, <4>1 DEF Doing
      <4>3. doing'[q].alone = FALSE /\ doing'[q].fresh = doing[q].fresh
        BY <4>2
      <4>4. doing[q].fresh \in BOOLEAN /\ ns' = ns
        BY <1>2, <2>1 DEF Doing
      <4> QED  BY <3>2, <4>2, <4>3, <4>4 DEF Spared
    <3> QED  BY <3>1, <3>2
  <2>3. tab'[q] = tab[q]
    BY <1>2
  <2> QED  BY <1>1, <1>7, <2>1, <2>2, <2>3, OthersKeep
<1> QED  BY <1>8, <1>9 DEF IInv

-----------------------------------------------------------------------------
(* The invariant                                                           *)

(* No step loses the invariant.                                            *)
LEMMA StepKeeps ==
    ASSUME Beginnings, IInv, [Next]_vars
    PROVE  IInv'
<1>1. ASSUME NEW p \in Person, OpenForm(p) \/ OpenSettings(p)
      PROVE  IInv'
  BY <1>1, OpenFormKeeps, OpenSettingsKeeps
<1>2. ASSUME NEW p \in Person, Presses(p)
      PROVE  IInv'
  BY <1>2, SaveWebApplicationKeeps, DeleteAndAllowKeep, CreateGitLabConnectionKeeps,
     DeleteGitLabConnectionKeeps, SettlingKeeps, DnsKeeps DEF Presses
<1>3. ASSUME NEW p \in Person, Proceeds(p)
      PROVE  IInv'
  BY <1>3, ReadApplicationKeeps, ReplaceApplicationKeeps, CreateApplicationKeeps,
     DeleteApplicationKeeps, PatchLabelsKeeps, TryTokenKeeps, CreateConnectionKeeps,
     ListSecretsKeeps, ListUsersKeeps, DeleteConnectionKeeps, GetNamespaceKeeps,
     SettlesNamespaceKeeps, ListToPublishKeeps, ListToAddKeeps, ApplyCredentialsKeeps,
     ApplyProviderKeeps DEF Proceeds
<1>4. ASSUME NEW p \in Person, CallFails(p) \/ Answers(p)
      PROVE  IInv'
  BY <1>4, CallFailsKeeps, AnswersKeep
<1>5. CASE Elsewhere
  BY <1>5, ElsewhereKeeps
<1>6. CASE UNCHANGED vars
  <2>1. /\ app' = app /\ connections' = connections /\ clock' = clock /\ ns' = ns
        /\ providers' = providers /\ keys' = keys /\ tab' = tab /\ doing' = doing
    BY <1>6 DEF vars, appVars, dnsVars
  <2>2. Cluster' /\ Cluster
    BY <2>1 DEF IInv, Cluster
  <2>3. Grown
    BY <2>1, <2>2 DEF Grown, Cluster
  <2>4. ASSUME NEW q \in Person
        PROVE  Kept(q)'
    <3>1. Kept(q) /\ Doing(q)
      BY DEF IInv, Kept
    <3>2. Spared(q)
      BY <2>1, <3>1 DEF Spared, Doing
    <3> QED  BY <2>1, <2>2, <2>3, <3>1, <3>2, OthersKeep
  <2> QED  BY <2>2, <2>4 DEF IInv
<1> QED  BY <1>1, <1>2, <1>3, <1>4, <1>5, <1>6 DEF Next

(* It holds at every moment.                                               *)
LEMMA ConsoleKept == Spec => []IInv
<1>1. Init => IInv
  BY AtFirst, InitIInv
<1>2. IInv /\ [Next]_vars => IInv'
  BY AtFirst, StepKeeps
<1> QED  BY <1>1, <1>2, PTL DEF Spec

-----------------------------------------------------------------------------
(* What the invariant says of the pages                                    *)

(* Everything has its type, and no page is ahead of the application.       *)
LEMMA TypesHold ==
    ASSUME IInv
    PROVE  TypeOK
<1>1. Cluster /\ \A p \in Person : Tab(p)
  BY DEF IInv, Kept
<1>2. app # None => /\ app.version \in 1 .. clock
                    /\ app.shown \in Person \cup {None} /\ app.through \in Connection \cup {None}
  BY <1>1 DEF Cluster, Application
<1>3. \A p \in Person : tab[p].at = "editing" => tab[p].version <= clock
  BY <1>1 DEF Tab
<1> QED  BY <1>1, <1>2, <1>3 DEF TypeOK, Cluster

(* What is limited has a default at every moment of a save.                *)
LEMMA DefaultsComeFirst ==
    ASSUME IInv
    PROVE  DefaultsFirst
<1>1. SUFFICES ASSUME NEW p \in Person, doing[p].op \in {"make", "settle"}, doing[p].alone,
                      tab[p].from.quota \ {"storage"} \subseteq tab[p].from.limits,
                      \/ doing[p].says.limits = {}
                      \/ tab[p].from.quota \ {"storage"} \subseteq doing[p].says.limits,
                      doing[p].fresh
               PROVE  ns.quota \ {"storage"} \subseteq ns.limits
  BY DEF DefaultsFirst, Says
<1>2. PICK f, from : f = doing[p].says /\ from = tab[p].from
  OBVIOUS
<1>3. Settling(p)
  BY <1>1 DEF Settling
<1>4. Between(ns, from, f)
  BY <1>1, <1>2, <1>3 DEF IInv, Kept, Steady
<1>5. f.quota \ {"storage"} \subseteq f.limits
  BY <1>2, <1>3, SettlingForm DEF Valid
<1>6. /\ from.quota \ {"storage"} \subseteq from.limits
      /\ f.limits = {} \/ from.quota \ {"storage"} \subseteq f.limits
  BY <1>1, <1>2
<1> QED  BY <1>4, <1>5, <1>6 DEF Between

(* An action that ended has nothing more to come.                          *)
LEMMA NothingToCome ==
    ASSUME NEW p \in Person, doing[p].left = <<>>
    PROVE  Left(p) = {} /\ (\A a : ~Pending(p, a)) /\ (\A r : ~PullPending(p, r))
<1>1. Left(p) = {}
  BY NoElements DEF Left
<1> QED  BY <1>1 DEF Pending, PullPending

(* A save of settings that went well, with nobody else about, did as its   *)
(* form says.                                                              *)
LEMMA SettlesAsTyped ==
    ASSUME IInv
    PROVE  SettledAsTyped
<1>1. SUFFICES ASSUME NEW p \in Person, Undisturbed(p, "make") \/ Undisturbed(p, "settle")
               PROVE  /\ PlacementOf(ns) = doing[p].says.region /\ LegacyRegionOf(ns) = None
                      /\ ns.quota = doing[p].says.quota /\ ns.limits = doing[p].says.limits
                      /\ ns.defaults = doing[p].says.keep \cup doing[p].says.registries
                      /\ doing[p].fresh /\ tab[p].from.legacy = ByHand => ns.legacy = ByHand
  BY DEF SettledAsTyped, Says
<1>2. /\ doing[p].op \in {"make", "settle"} /\ doing[p].left = <<>>
      /\ doing[p].ok /\ doing[p].alone
  BY <1>1 DEF Undisturbed, Ended
<1>3. Settling(p)
  BY <1>2 DEF Settling
<1>4. (\A a : ~Pending(p, a)) /\ Begun(p)
  BY <1>2, NothingToCome DEF Begun
<1>5. /\ ns.placed = doing[p].says.region /\ LegacyRegionOf(ns) = None
      /\ ns.limits = doing[p].says.limits /\ ns.quota = doing[p].says.quota
      /\ ns.defaults = doing[p].says.keep \cup doing[p].says.registries
  BY <1>2, <1>3, <1>4 DEF IInv, Kept, Done
<1>6. PlacementOf(ns) = doing[p].says.region
  BY <1>5 DEF PlacementOf
<1>7. ASSUME doing[p].fresh, tab[p].from.legacy = ByHand
      PROVE  ns.legacy = ByHand
  <2>1. ns.legacy = ByHand \/ doing[p].op = "make"
    BY <1>2, <1>3, <1>7 DEF IInv, Kept, Steady
  <2>2. doing[p].op = "make" => tab[p].from = NoNamespace
    BY <1>3, SettlingForm
  <2>3. NoNamespace.legacy = None /\ None # ByHand
    BY BeginningsAssumption DEF NoNamespace
  <2> QED  BY <1>7, <2>1, <2>2, <2>3
<1> QED  BY <1>5, <1>6, <1>7

(* A save from a page as the namespace is isn't refused, but for a registry *)
(* that has its Secret.                                                    *)
LEMMA ItsPageFinishes ==
    ASSUME IInv
    PROVE  FinishesOnItsPage
<1>1. SUFFICES ASSUME NEW p \in Person, doing[p].op = "settle", doing[p].fresh, ~doing[p].cut,
                      doing[p].says.registries \cap tab[p].from.secrets = {}
               PROVE  doing[p].ok
  BY DEF FinishesOnItsPage, Ended, Says
<1> QED  BY <1>1 DEF IInv, Kept, Unmade

(* A connection removed with nobody else about is one nobody uses.         *)
LEMMA UsedAreKept ==
    ASSUME IInv
    PROVE  UsedIsKept
<1>1. SUFFICES ASSUME NEW p \in Person, Undisturbed(p, "disconnect"), app # None
               PROVE  app.through # doing[p].says
  BY DEF UsedIsKept, Says
<1>2. doing[p].op = "disconnect" /\ doing[p].left = <<>> /\ doing[p].ok /\ doing[p].alone
  BY <1>1 DEF Undisturbed, Ended
<1>3. ~Pending(p, "list users")
  BY <1>2, NothingToCome
<1> QED  BY <1>1, <1>2, <1>3 DEF IInv, Kept, Disconnects

(* A provider in no conflict with the others as the console compares them  *)
(* is in none as Cirrus does.                                              *)
LEMMA ConsoleIsAsStrict ==
    ASSUME NEW all, NEW only \in Account, all[only] \in Provider, None \notin Provider,
           ~DomainConflicts(all, only)
    PROVE  \A a \in Account \ {only} : all[a] # None => ~Conflict(all[only], all[a])
<1>1. SUFFICES ASSUME NEW a \in Account \ {only}, all[a] # None, Conflict(all[only], all[a])
               PROVE  FALSE
  OBVIOUS
<1>2. all[only] # None
  OBVIOUS
<1>3. ASSUME NEW b \in Account, NEW n \in Account, b # n, only \in {b, n},
             all[b] # None, all[n] # None, all[b].namespaces # all[n].namespaces
      PROVE  ~Overlaps(all[b], all[n])
  <2>1. SUFFICES ASSUME NEW inner \in all[n].domains, NEW outer \in all[b].domains,
                        IsWithin(inner, outer),
                        inner # outer => ~ \E e \in all[b].exclude : IsWithin(inner, e)
                 PROVE  FALSE
    BY DEF Overlaps
  <2>2. inner = outer \/ ~ \E e \in all[b].exclude : IsWithin(inner, e)
    BY <2>1
  <2> QED  BY <1>3, <2>1, <2>2 DEF DomainConflicts
<1>4. all[only].namespaces # all[a].namespaces
  BY <1>1 DEF Conflict
<1>5. ~Overlaps(all[only], all[a]) /\ ~Overlaps(all[a], all[only])
  BY <1>1, <1>2, <1>3, <1>4
<1> QED  BY <1>1, <1>5 DEF Conflict

(* A provider added, or a namespace published, with nobody else about is   *)
(* apart from the other providers.                                         *)
LEMMA PublishedApart ==
    ASSUME IInv
    PROVE  PublishesApart
<1>1. SUFFICES ASSUME NEW p \in Person
               PROVE  /\ \/ Undisturbed(p, "add")
                         \/ Undisturbed(p, "publish") /\ doing[p].says.publish
                         => \A a \in Account \ {doing[p].says.account} :
                               providers[a] # None =>
                                  ~Conflict(providers[doing[p].says.account], providers[a])
                      /\ Undisturbed(p, "add") => keys[doing[p].says.account] = p
  BY DEF PublishesApart, Says
<1>2. SUFFICES ASSUME \/ Undisturbed(p, "add")
                      \/ Undisturbed(p, "publish") /\ doing[p].says.publish
               PROVE  /\ \A a \in Account \ {doing[p].says.account} :
                            providers[a] # None =>
                               ~Conflict(providers[doing[p].says.account], providers[a])
                      /\ Undisturbed(p, "add") => keys[doing[p].says.account] = p
  OBVIOUS
<1>3. /\ doing[p].op = "add" \/ (doing[p].op = "publish" /\ doing[p].says.publish)
      /\ doing[p].left = <<>> /\ doing[p].ok /\ doing[p].alone
      /\ Undisturbed(p, "add") => doing[p].op = "add"
  BY <1>2 DEF Undisturbed, Ended
<1>4. \A a : ~Pending(p, a)
  BY <1>3, NothingToCome
<1>5. PICK says, seen : says = doing[p].says /\ seen = doing[p].seen
  OBVIOUS
<1>6. Publishes(p) /\ Cluster /\ Listed(p)
  BY <1>4 DEF IInv, Kept, Listed
<1>7. says \in AddSays \cup PublishSays
  BY <1>3, <1>5, <1>6 DEF Publishes
<1>8. says.account \in Account
  BY <1>7 DEF AddSays, PublishSays
<1>9. /\ ~DomainConflicts([providers EXCEPT ![says.account] = seen], says.account)
      /\ providers[says.account] = seen /\ seen \in Provider
  BY <1>3, <1>4, <1>5, <1>6 DEF Publishes
<1>10. [providers EXCEPT ![says.account] = seen] = providers
  BY <1>6, <1>8, <1>9 DEF Cluster
<1>11. \A a \in Account \ {says.account} :
          providers[a] # None => ~Conflict(providers[says.account], providers[a])
  <2>1. None \notin Provider
    BY AtFirst DEF Beginnings
  <2>2. ~DomainConflicts(providers, says.account) /\ providers[says.account] \in Provider
    BY <1>9, <1>10
  <2> QED  BY <1>8, <2>1, <2>2, ConsoleIsAsStrict
<1>12. doing[p].op = "add" => keys[says.account] = p
  BY <1>3, <1>4, <1>5, <1>6 DEF Publishes
<1> QED  BY <1>3, <1>5, <1>11, <1>12

(* What the pages promise of the cluster's objects, at every moment, for   *)
(* any number of people, registries, regions and providers: a save of      *)
(* settings is safe wherever it stops, and what was checked against other  *)
(* objects before it was written still holds after.                        *)
THEOREM PagesKeepTheirWord == Spec => []ConsoleInv
<1>1. IInv => ConsoleInv
  <2>1. IInv => PullsAreThere
    BY DEF IInv, Cluster, PullsAreThere
  <2>2. IInv => SettlesSafely
    BY <2>1, TypesHold, DefaultsComeFirst, SettlesAsTyped, ItsPageFinishes DEF SettlesSafely
  <2>3. IInv => RelatedKept
    BY UsedAreKept, PublishedApart DEF RelatedKept
  <2> QED  BY <2>2, <2>3 DEF ConsoleInv
<1> QED  BY <1>1, ConsoleKept, PTL

-----------------------------------------------------------------------------
(* What a save replaces                                                    *)

(* A call reads, changes the cluster or is refused.                        *)
LEMMA Proceeding ==
    ASSUME NEW q \in Person, Proceeds(q)
    PROVE  Refused(q) \/ Writes(q) \/ \E seen, calls : Reads(q, seen, calls)
<1>1. CASE \/ ReadApplication(q) \/ ReplaceApplication(q) \/ CreateApplication(q)
  BY <1>1 DEF ReadApplication, ReplaceApplication, CreateApplication
<1>2. CASE DeleteApplication(q) \/ PatchLabels(q)
  BY <1>2 DEF DeleteApplication, PatchLabels
<1>3. CASE TryToken(q) \/ CreateConnection(q)
  BY <1>3 DEF TryToken, CreateConnection
<1>4. CASE ListSecrets(q) \/ ListUsers(q) \/ DeleteConnection(q)
  BY <1>4 DEF ListSecrets, ListUsers, DeleteConnection
<1>5. CASE GetNamespace(q) \/ SettlesNamespace(q)
  BY <1>5 DEF GetNamespace, SettlesNamespace
<1>6. CASE ListToPublish(q) \/ ListToAdd(q)
  BY <1>6 DEF ListToPublish, ListToAdd
<1>7. CASE ApplyCredentials(q) \/ ApplyProvider(q)
  BY <1>7 DEF ApplyCredentials, ApplyProvider
<1> QED  BY <1>1, <1>2, <1>3, <1>4, <1>5, <1>6, <1>7 DEF Proceeds

(* A button begins an action.                                              *)
LEMMA Pressing ==
    ASSUME NEW q \in Person, Presses(q)
    PROVE  \E op, says, calls : Begin(q, op, says, calls)
<1>1. CASE SaveWebApplication(q)
  BY <1>1 DEF SaveWebApplication
<1>2. CASE DeleteWebApplication(q) \/ SetNamespaceCapability(q)
  BY <1>2 DEF DeleteWebApplication, SetNamespaceCapability
<1>3. CASE CreateGitLabConnection(q) \/ DeleteGitLabConnection(q)
  BY <1>3 DEF CreateGitLabConnection, DeleteGitLabConnection
<1>4. CASE CreateNamespace(q) \/ SaveNamespaceSettings(q)
  BY <1>4 DEF CreateNamespace, SaveNamespaceSettings
<1>5. CASE SetDnsPublishing(q) \/ CreateDnsProvider(q)
  BY <1>5 DEF SetDnsPublishing, CreateDnsProvider
<1> QED  BY <1>1, <1>2, <1>3, <1>4, <1>5 DEF Presses

(* Nobody makes another's calls.                                           *)
LEMMA OwnCalls ==
    ASSUME IInv, NEW q \in Person, NEW p \in Person \ {q},
           \/ OpenForm(q) \/ OpenSettings(q) \/ Presses(q) \/ Proceeds(q)
           \/ CallFails(q) \/ Answers(q)
    PROVE  doing'[p].left = doing[p].left
<1>1. Doing(p) /\ Cluster
  BY DEF IInv, Kept
<1>2. CASE OpenForm(q) \/ OpenSettings(q)
  BY <1>2 DEF OpenForm, OpenSettings
<1>3. CASE Presses(q)
  <2>1. PICK op, says, calls : Begin(q, op, says, calls)
    BY <1>3, Pressing
  <2> QED  BY <1>1, <2>1 DEF Begin, Cluster
<1>4. CASE Refused(q)
  BY <1>1, <1>4 DEF Refused, Thrown, Cluster
<1>5. CASE \E seen, calls : Reads(q, seen, calls)
  BY <1>1, <1>5 DEF Reads, Cluster
<1>6. CASE Writes(q)
  <2>1. CASE doing[p].op = "idle"
    <3>1. doing'[p] = Idle /\ doing[p] = Idle
      BY <1>1, <1>6, <2>1 DEF Writes, Doing
    <3> QED  BY <3>1
  <2>2. CASE doing[p].op # "idle"
    <3>1. doing'[p] = [doing[p] EXCEPT !.alone = FALSE, !.fresh = FALSE]
      BY <1>6, <2>2 DEF Writes
    <3> QED  BY <1>1, <3>1 DEF Doing
  <2> QED  BY <2>1, <2>2
<1>7. CASE CallFails(q) \/ Answers(q)
  BY <1>1, <1>7 DEF CallFails, Answers, Cluster
<1> QED  BY <1>2, <1>3, <1>4, <1>5, <1>6, <1>7, Proceeding

(* A save replaces the application only by its own call that wasn't refused, *)
(* and what it replaces is what it read.                                   *)
LEMMA ReplacesItsOwn ==
    ASSUME IInv, [Next]_vars, NEW p \in Person, Replaces(p)
    PROVE  /\ ReplaceApplication(p) /\ Doing(p) /\ Saves(p) /\ Tab(p)
           /\ doing[p].left # <<>> /\ doing[p].op = "save"
           /\ Pending(p, "replace") /\ ~Pending(p, "read")
           /\ ~(app = None \/ app.version # Base(p).version)
<1>1. Comes(p, "replace") /\ doing'[p].left = <<>> /\ doing'[p].ok
  BY DEF Replaces
<1>2. /\ doing[p].left # <<>> /\ Head(doing[p].left).do = "replace" /\ doing[p].op = "save"
      /\ Doing(p) /\ Pending(p, "replace") /\ Cluster
  BY <1>1, ComesNext, ByWhom
<1>3. Saves(p) /\ Tab(p)
  BY DEF IInv, Kept
<1>4. ~Refused(p) /\ ~CallFails(p)
  BY <1>1, <1>2 DEF Refused, Thrown, CallFails, Cluster, Doing
<1>5. ~(UNCHANGED vars) /\ ~Elsewhere
  <2>1. ~(UNCHANGED vars)
    BY <1>1, <1>2 DEF vars
  <2>2. ASSUME Elsewhere
        PROVE  FALSE
    <3>1. doing'[p] = [doing[p] EXCEPT !.alone = FALSE]
      BY <1>2, <2>2 DEF Elsewhere
    <3>2. doing'[p].left = doing[p].left
      BY <1>2, <3>1 DEF Doing
    <3> QED  BY <1>1, <1>2, <3>2
  <2> QED  BY <2>1, <2>2
<1>6. PICK q \in Person : \/ OpenForm(q) \/ OpenSettings(q) \/ Presses(q) \/ Proceeds(q)
                          \/ CallFails(q) \/ Answers(q)
  BY <1>5 DEF Next
<1>7. q = p
  BY <1>1, <1>2, <1>6, OwnCalls
<1>8. ~OpenForm(p) /\ ~OpenSettings(p) /\ ~Answers(p)
  BY <1>2 DEF OpenForm, OpenSettings, Answers
<1>9. ~Presses(p)
  BY <1>2, Pressing DEF Begin
<1>10. ReplaceApplication(p)
  <2>1. Proceeds(p)
    BY <1>4, <1>6, <1>7, <1>8, <1>9
  <2>2. ~SettlesNamespace(p)
    BY <1>2 DEF SettlesNamespace
  <2>3. \A do : Comes(p, do) => do = "replace"
    BY <1>2 DEF Comes
  <2>4. /\ ~ReadApplication(p) /\ ~CreateApplication(p) /\ ~DeleteApplication(p)
        /\ ~PatchLabels(p) /\ ~TryToken(p) /\ ~CreateConnection(p)
    BY <2>3 DEF ReadApplication, CreateApplication, DeleteApplication, PatchLabels, TryToken,
       CreateConnection
  <2>5. /\ ~ListSecrets(p) /\ ~ListUsers(p) /\ ~DeleteConnection(p)
        /\ ~GetNamespace(p) /\ ~ListToPublish(p) /\ ~ListToAdd(p)
        /\ ~ApplyCredentials(p) /\ ~ApplyProvider(p)
    BY <2>3 DEF ListSecrets, ListUsers, DeleteConnection, GetNamespace, ListToPublish, ListToAdd,
       ApplyCredentials, ApplyProvider
  <2> QED  BY <2>1, <2>2, <2>4, <2>5 DEF Proceeds
<1>11. ~(app = None \/ app.version # Base(p).version)
  BY <1>4, <1>10 DEF ReplaceApplication
<1>12. ~Pending(p, "read")
  <2>1. /\ Left(p) = {Head(doing[p].left)} \cup Elements(Tail(doing[p].left))
        /\ \A d \in Elements(Tail(doing[p].left)) : d.do # "read"
    BY <1>1, <1>2, Coming, ComesNext, Over
  <2> QED  BY <1>2, <2>1 DEF Pending
<1> QED  BY <1>2, <1>3, <1>10, <1>11, <1>12

(* The first save of a form replaces only the application it was opened on, *)
(* and a save changes nothing that its form doesn't show.                  *)
LEMMA ReplacesSafely ==
    ASSUME IInv, [Next]_vars, NEW p \in Person, Replaces(p)
    PROVE  /\ ~Says(p).again => app = Says(p).opened
           /\ app'.hidden = app.hidden
<1>1. /\ ReplaceApplication(p) /\ Doing(p) /\ Saves(p) /\ Tab(p)
      /\ doing[p].left # <<>> /\ doing[p].op = "save"
      /\ Pending(p, "replace") /\ ~Pending(p, "read")
      /\ ~(app = None \/ app.version # Base(p).version)
  BY ReplacesItsOwn
<1>2. /\ tab[p].at = "editing" /\ doing[p].says = tab[p] /\ doing[p].seen \in Application
      /\ app = None \/ app.version # tab[p].version \/ app = doing[p].seen
  BY <1>1 DEF Saves
<1>3. PICK seen \in Application : seen = doing[p].seen
  BY <1>2
<1>4. PICK version : version = tab[p].version
  OBVIOUS
<1>5. Says(p) = tab[p]
  BY <1>2 DEF Says
<1>6. Base(p) = [seen EXCEPT !.version = version]
  BY <1>3, <1>4, <1>5 DEF Base
<1>7. Base(p).version = version /\ Base(p).hidden = seen.hidden
  BY <1>3, <1>6 DEF Application
<1>8. app # None /\ app.version = version /\ app = seen
  BY <1>1, <1>2, <1>3, <1>4, <1>7
<1>9. ~tab[p].again => app = tab[p].opened
  BY <1>1, <1>2, <1>4, <1>8 DEF Tab
<1>10. app' = [FromForm(Base(p), Says(p)) EXCEPT !.version = clock']
  BY <1>1 DEF ReplaceApplication
<1>11. app'.hidden = seen.hidden
  <2>1. PICK says, v : says = Says(p) /\ v = clock'
    OBVIOUS
  <2>2. PICK base : base = Base(p)
    OBVIOUS
  <2>3. base = [version |-> version, shown |-> seen.shown, hidden |-> seen.hidden,
                through |-> seen.through]
    BY <1>3, <1>6, <2>2 DEF Application
  <2>4. app' = [[base EXCEPT !.shown = says.shown, !.through = says.through] EXCEPT !.version = v]
    BY <1>10, <2>1, <2>2 DEF FromForm
  <2> QED  BY <2>3, <2>4
<1> QED  BY <1>5, <1>8, <1>9, <1>11

(* Whatever interleaves with it, the first save of a form replaces only what *)
(* the form was opened on, and no save changes what the form doesn't show. *)
THEOREM SavesKeepOthersWork == Spec => SavesAreSafe
<1>1. ASSUME IInv, [Next]_vars
      PROVE  [\A p \in Person : Replaces(p) /\ ~Says(p).again => app = Says(p).opened]_vars
  BY <1>1, ReplacesSafely
<1>2. ASSUME IInv, [Next]_vars
      PROVE  [\A p \in Person : Replaces(p) => app'.hidden = app.hidden]_vars
  BY <1>2, ReplacesSafely
<1>3. Spec => FirstSaveIsSafe
  BY <1>1, ConsoleKept, PTL DEF Spec, FirstSaveIsSafe
<1>4. Spec => HiddenIsKept
  BY <1>2, ConsoleKept, PTL DEF Spec, HiddenIsKept
<1> QED  BY <1>3, <1>4, PTL DEF SavesAreSafe
=============================================================================
