------------------------------- MODULE Plugins -------------------------------
(***************************************************************************)
(* Loading plugins into one run of the installer (plugins/registry.ts):    *)
(* what the configuration enables is looked for in the plugin directory,   *)
(* held against the fingerprint somebody approved, and put beside what the *)
(* installer ships.  Templates are read later, when they are rendered.     *)
(*                                                                         *)
(* A plugin is a directory, read file by file when one is asked for, or an *)
(* archive, read whole when it is found (DirectorySource, ArchiveSource).  *)
(* Of its files there are two, its manifest and one template, in versions; *)
(* the fingerprint is those two.  People edit and replace plugins and      *)
(* approve them at any time.                                               *)
(***************************************************************************)
EXTENDS Naturals, Sequences, FiniteSets

CONSTANTS
    Item,       \* places in the plugin directory
    Version,    \* of a plugin's manifest, the first one being 1
    Template,   \* versions of its template, the first one being 1
    Listed,     \* the plugins the configuration names, in its order
    Shipped,    \* what the installer ships, in order: <<"bundle" or "package", <<name>> >>
    Declares,       \* what a manifest says: Declares[plugin][version], with
                \*   sound: whether it can be read, and its type allows what it has
                \*   adds: a sequence of <<"bundle" or "package", name>>
    MaxEdits    \* bound: changes to the plugin directory

PluginName == {Listed[i] : i \in DOMAIN Listed}

\* Plugins are told from what a run is refused for otherwise.
ASSUME PluginsAssumption ==
    /\ Item # {} /\ 1 \in Version /\ 0 \notin Version /\ 1 \in Template
    /\ 1 \in DOMAIN Listed
    /\ PluginName \intersect {"nothing", "not there", "two of one name", "the name is taken"} = {}
    /\ Shipped \in Seq({"bundle", "package"} \X Seq(STRING))
    /\ \A a, b \in DOMAIN Shipped : a # b => Shipped[a] # Shipped[b]
    /\ \A p \in PluginName, v \in Version : Declares[p][v].adds \in Seq({"bundle", "package"} \X STRING)
    /\ MaxEdits \in Nat

NotThere == [kind |-> "none", plugin |-> Listed[1], manifest |-> 1, template |-> 1]

\* "broken" is a file with an archive's extension that isn't one.
Shelved ==
    {NotThere} \union
    [kind : {"directory", "archive", "broken"}, plugin : PluginName,
     manifest : Version, template : Template]

NotGiven == <<>>

VARIABLES
    shelf,      \* the plugin directory
    enabled,    \* the plugins enabled, of those the configuration names
    approved,   \* their fingerprints, as the configuration has them
    printed,    \* the fingerprint the last refusal of a plugin printed
    edits,      \* bound: changes made
    edited,     \* history: plugins changed since their fingerprint was given,
    touched,    \*   places changed since this run began,
    at,         \* this run: idle, finding, loading, running, or refused,
    refused,    \*   and why: a plugin nobody approved, or else
    sources,    \*   what was found in the plugin directory,
    available,  \*   by plugin, where it is and the manifest read from there,
    loaded,     \*   plugins loaded,
    offered,    \*   what there is to install: [of, is], in order,
    rendered    \*   history: <<plugin, template>> rendered

pluginVars == <<shelf, enabled, approved, printed, edits, edited, touched, at, refused, sources,
                available, loaded, offered, rendered>>

NotFound == [item |-> CHOOSE i \in Item : TRUE, manifest |-> 0]

ShippedOffers == [a \in DOMAIN Shipped |-> [of |-> "installer", is |-> Shipped[a]]]

NoRun ==
    /\ at = "idle" /\ refused = "nothing"
    /\ sources = [i \in Item |-> NotThere]
    /\ available = [p \in PluginName |-> NotFound]
    /\ loaded = {}
    /\ offered = ShippedOffers
    /\ rendered = {}

PluginsInit ==
    /\ shelf \in {[i \in Item |-> NotThere],
                  [i \in Item |-> [kind |-> "directory", plugin |-> Listed[1],
                                   manifest |-> 1, template |-> 1]]}
    /\ enabled = {Listed[i] : i \in DOMAIN Listed}
    /\ approved = [p \in PluginName |-> NotGiven]
    /\ printed = [p \in PluginName |-> NotGiven]
    /\ edits = 0
    /\ edited = {}
    /\ touched = {}
    /\ NoRun

-----------------------------------------------------------------------------
(* People                                                                  *)

PluginsAt(place) == IF place.kind \in {"directory", "archive"} THEN {place.plugin} ELSE {}

\* Packing or unpacking changes no file.
Repackaged(old, new) ==
    /\ PluginsAt(old) # {} /\ PluginsAt(new) # {}
    /\ new = [old EXCEPT !.kind = new.kind]

\* A place is filled, emptied, or gets other files.
Edit(i) ==
    /\ edits < MaxEdits
    /\ \E new \in Shelved \ {shelf[i]} :
          /\ new.kind \in {"none", "broken"} => new = [NotThere EXCEPT !.kind = new.kind]
          /\ shelf' = [shelf EXCEPT ![i] = new]
          /\ edited' = edited \union
                (IF Repackaged(shelf[i], new) THEN {} ELSE PluginsAt(shelf[i]) \union PluginsAt(new))
    /\ edits' = edits + 1
    /\ touched' = IF at = "idle" THEN touched ELSE touched \union {i}
    /\ UNCHANGED <<enabled, approved, printed, at, refused, sources, available, loaded, offered, rendered>>

\* Fault: whether it is packed counts.
FingerprintOfFile(files) == <<files.plugin, files.manifest, files.template, files.kind>>

Fingerprint(files) == <<files.plugin, files.manifest, files.template>>

\* What the installer printed is put in the configuration, which a run reads when
\* it begins.
Approve(p) ==
    /\ at = "idle"
    /\ printed[p] # NotGiven
    /\ approved[p] # printed[p]
    /\ approved' = [approved EXCEPT ![p] = printed[p]]
    /\ edited' = IF \A i \in Item : p \in PluginsAt(shelf[i]) => Fingerprint(shelf[i]) = printed[p]
                 THEN edited \ {p} ELSE edited \union {p}
    /\ UNCHANGED <<shelf, enabled, printed, edits, touched, at, refused, sources, available, loaded,
                   offered, rendered>>

Toggle(p) ==
    /\ at = "idle"
    /\ enabled' = IF p \in enabled THEN enabled \ {p} ELSE enabled \union {p}
    /\ UNCHANGED <<shelf, approved, printed, edits, edited, touched, at, refused, sources, available,
                   loaded, offered, rendered>>

-----------------------------------------------------------------------------
(* A run                                                                   *)

\* The plugins still to be loaded, by their place in the configuration.
Wanted == {i \in DOMAIN Listed : Listed[i] \in enabled \ loaded}

Refuse(why) ==
    /\ at' = "refused"
    /\ refused' = why

\* A file that can't be read as an archive is left out.
Found(i) == IF shelf[i].kind = "broken" THEN NotThere ELSE shelf[i]

\* With nothing enabled the plugin directory isn't looked at.
Discover ==
    /\ at = "idle"
    /\ at' = IF Wanted = {} THEN "running" ELSE "finding"
    /\ sources' = IF Wanted = {} THEN sources ELSE [i \in Item |-> Found(i)]
    /\ touched' = {}
    /\ UNCHANGED <<shelf, enabled, approved, printed, edits, edited, refused, available, loaded,
                   offered, rendered>>

\* A directory that has gone, or turned into a file, can't be read any more.
OnDisk(i) == IF shelf[i].kind = "directory" THEN shelf[i] ELSE NotThere

\* What is read from a source now.
FilesOf(i) == IF sources[i].kind = "archive" THEN sources[i] ELSE OnDisk(i)

Unread == {i \in Item : sources[i].kind # "none"
                         /\ \A p \in PluginName : available[p].item # i \/ available[p] = NotFound}

\* One that can't be read, or holds what its type doesn't allow, is left out.
\* Two of one name are refused.
ReadManifest(i) ==
    /\ at = "finding"
    /\ i \in Unread
    /\ LET files == FilesOf(i)
           p     == files.plugin
       IN  IF files.kind = "none" \/ ~Declares[p][files.manifest].sound
           THEN sources' = [sources EXCEPT ![i] = NotThere] /\ UNCHANGED <<at, refused, available>>
           ELSE IF available[p] # NotFound
           THEN Refuse("two of one name") /\ UNCHANGED <<available, sources>>
           ELSE /\ available' = [available EXCEPT ![p] = [item |-> i, manifest |-> files.manifest]]
                /\ UNCHANGED <<at, refused, sources>>
    /\ UNCHANGED <<shelf, enabled, approved, printed, edits, edited, touched, loaded, offered, rendered>>

StartLoading ==
    /\ at = "finding"
    /\ Unread = {}
    /\ at' = "loading"
    /\ UNCHANGED <<shelf, enabled, approved, printed, edits, edited, touched, refused, sources,
                   available, loaded, offered, rendered>>

\* One named like the plugin keeps its name; another gets the plugin's before it.
Namespaced(p, name) == IF name = p THEN <<p>> ELSE <<p, name>>

\* What a manifest adds.
Additions(p, manifest) ==
    LET adds == Declares[p][manifest].adds
    IN  [j \in DOMAIN adds |-> [of |-> p, is |-> <<adds[j][1], Namespaced(p, adds[j][2])>>]]

\* Something of that name is there, or was added before it.
Clashes(added, j) ==
    \/ \E a \in DOMAIN offered : offered[a].is = added[j].is
    \/ \E i \in 1..j - 1 : added[i].is = added[j].is

Absent(p) == Refuse("not there") /\ UNCHANGED loaded

\* One after the other, until a name is taken.
Register(p) ==
    LET added == Additions(p, available[p].manifest)
    IN  \E k \in 0..Len(added) :
            /\ \A j \in 1..k : ~Clashes(added, j)
            /\ offered' = offered \o SubSeq(added, 1, k)
            /\ \/ k = Len(added) /\ loaded' = loaded \union {p} /\ UNCHANGED <<at, refused>>
               \/ /\ k < Len(added) /\ Clashes(added, k + 1)
                  /\ Refuse("the name is taken") /\ UNCHANGED loaded

Load ==
    /\ at = "loading"
    /\ \E i \in Wanted :
          /\ \A j \in Wanted : i <= j
          /\ LET p     == Listed[i]
                 files == FilesOf(available[p].item)
                 found == Fingerprint(files)
             IN  IF available[p] = NotFound \/ files.kind = "none"
                 THEN Absent(p) /\ UNCHANGED <<printed, offered>>
                 ELSE IF approved[p] # found
                 THEN /\ Refuse(p)
                      /\ printed' = [printed EXCEPT ![p] = found]
                      /\ UNCHANGED <<loaded, offered>>
                 ELSE Register(p) /\ UNCHANGED printed
    /\ UNCHANGED <<shelf, enabled, approved, edits, edited, touched, sources, available, rendered>>

StartRunning ==
    /\ at = "loading"
    /\ Wanted = {}
    /\ at' = "running"
    /\ UNCHANGED <<shelf, enabled, approved, printed, edits, edited, touched, refused, sources,
                   available, loaded, offered, rendered>>

\* A template is read when a step renders it; one that has gone fails the run.
Render(p) ==
    /\ at = "running"
    /\ p \in loaded
    /\ LET files == FilesOf(available[p].item)
       IN  IF files.kind = "none" THEN Refuse("not there") /\ UNCHANGED rendered
           ELSE /\ rendered' = rendered \union {<<p, files.template>>}
                /\ UNCHANGED <<at, refused>>
    /\ UNCHANGED <<shelf, enabled, approved, printed, edits, edited, touched, sources, available,
                   loaded, offered>>

\* The process ends, however it went, and leaves nothing.
End ==
    /\ at \in {"running", "refused"}
    /\ at' = "idle" /\ refused' = "nothing"
    /\ sources' = [i \in Item |-> NotThere]
    /\ available' = [p \in PluginName |-> NotFound]
    /\ loaded' = {}
    /\ offered' = ShippedOffers
    /\ rendered' = {}
    /\ UNCHANGED <<shelf, enabled, approved, printed, edits, edited, touched>>

PluginsNext ==
    \/ \E i \in Item : Edit(i) \/ ReadManifest(i)
    \/ \E p \in PluginName : Approve(p) \/ Toggle(p) \/ Render(p)
    \/ Discover \/ StartLoading \/ Load \/ StartRunning \/ End

PluginsSpec == PluginsInit /\ [][PluginsNext]_pluginVars

-----------------------------------------------------------------------------
PluginsTypeOK ==
    /\ shelf \in [Item -> Shelved]
    /\ enabled \subseteq PluginName
    /\ \A p \in PluginName : approved[p] # NotGiven => approved[p] \in PluginName \X Version \X Template
    /\ edits \in 0..MaxEdits
    /\ edited \subseteq PluginName /\ touched \subseteq Item
    /\ at \in {"idle", "finding", "loading", "running", "refused"}
    /\ sources \in [Item -> {s \in Shelved : s.kind # "broken"}]
    /\ \A p \in PluginName : available[p].item \in Item /\ available[p].manifest \in Version \union {0}
    /\ loaded \subseteq enabled
    /\ rendered \subseteq loaded \X Template

\* What is known of a plugin's files is certain for an archive, and for a
\* directory nobody touches while the installer runs.
Settled(p) ==
    LET i == available[p].item IN sources[i].kind = "archive" \/ i \notin touched

(* "From then on the hash is checked": what a run does for a plugin comes  *)
(* from the files whose fingerprint the configuration has, though the      *)
(* manifest is read before that check and the templates long after it, and *)
(* the plugin may be replaced in between.                                  *)
RunsWhatWasApproved ==
    \A p \in loaded : Settled(p) =>
        /\ approved[p][1] = p /\ approved[p][2] = available[p].manifest
        /\ \A r \in rendered : r[1] = p => r[2] = approved[p][3]

(* "A plugin can add packages and can't replace them": one name is one     *)
(* thing, whichever plugins are loaded in whichever order, and everything  *)
(* shipped is still there.                                                 *)
NothingIsReplaced ==
    /\ \A a, b \in DOMAIN offered : a # b => offered[a].is # offered[b].is
    /\ \A a \in DOMAIN Shipped : offered[a] = ShippedOffers[a]

(* A run that gets to do something has all the configuration enables: each *)
(* such plugin is approved, and everything the approved manifest adds is   *)
(* there, by its own plugin.                                               *)
NothingIsLeftOut ==
    at = "running" =>
        \A p \in enabled :
            /\ approved[p] # NotGiven
            /\ Settled(p) => \A j \in DOMAIN Declares[p][approved[p][2]].adds :
                   \E a \in DOMAIN offered : offered[a] = Additions(p, approved[p][2])[j]

(* "It will not be asked again unless the plugin changes": a plugin whose  *)
(* fingerprint is in the configuration is refused only after some file of  *)
(* it changed; packing it, or unpacking it, is no change.                  *)
AskedOnce ==
    refused \in PluginName /\ approved[refused] # NotGiven => refused \in edited

(* The same of a directory somebody edits while the installer runs, which  *)
(* does not hold: its files are read when they are needed.  No run checks  *)
(* it.                                                                     *)
RunsWhatWasApprovedAlways ==
    \A p \in loaded :
        /\ approved[p][2] = available[p].manifest
        /\ \A r \in rendered : r[1] = p => r[2] = approved[p][3]

(* A run has of every enabled plugin the files that were approved and all  *)
(* they add, in nothing's stead, and asks again only about files that      *)
(* changed.                                                                *)
PluginsInv ==
    /\ PluginsTypeOK
    /\ RunsWhatWasApproved
    /\ NothingIsReplaced
    /\ NothingIsLeftOut
    /\ AskedOnce
=============================================================================
