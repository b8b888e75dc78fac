---------------------------- MODULE ProjectLinks ----------------------------
(* The projects of the code graph and the links between them                 *)
(* (store/projects.rs, store/project_links.rs): the user adds, selects,      *)
(* links and removes them, and `rtok mcp` and `rtok graph index` follow the  *)
(* references of their manifests (plugins/graph/follow.rs), one statement    *)
(* after another, each in a process of its own.                              *)
EXTENDS Integers, FiniteSets

CONSTANTS Dirs, NoDir,
          Walkers, Root,        \* the directory whose project the walks start from
          References,           \* what the manifests of a directory may name
          Depth, MaxAuto,       \* reference_depth, max_auto_projects
          MaxActs               \* bound on what the user does to projects and files

ASSUME LinkConstants ==
    /\ IsFiniteSet(Dirs) /\ NoDir \notin Dirs /\ Root \in Dirs
    /\ References \in [Dirs -> SUBSET SUBSET Dirs]
    /\ Depth \in Nat /\ MaxAuto \in Nat /\ MaxActs \in Nat

VARIABLES
    project,    \* directory -> the id of its project, 0: none
    auto,       \* the directories whose projects references have added
    selected,   \* the directory of the selected project
    link,       \* the rows, by kind, as pairs of ids: [manual, auto, removed (auto, unlinked)]
    named,      \* directory -> the directories its manifests name
    there,      \* the directories that exist
    walk,       \* walker -> its walk
    word,       \* the links the user made by hand, and the auto ones they removed
    acts, overlap   \* overlap: two walks have been under way at once

userVars == <<project, auto, selected, link, word>>
linkVars == <<userVars, named, there, walk, acts, overlap>>

Ids == 1..(Cardinality(Dirs) + MaxActs)
Known == {d \in Dirs : project[d] # 0}
Active == link.manual \cup link.auto
Resting == [at |-> "rest", level |-> {}, next |-> {}, depth |-> 0, auto |-> 0, seen |-> {},
            active |-> {}, p |-> <<NoDir, 0>>, refs |-> {}, to |-> <<NoDir, 0>>, keep |-> {},
            unread |-> FALSE, visited |-> {}, calm |-> TRUE]

LinksTypeOK ==
    /\ project \in [Dirs -> Ids \cup {0}] /\ auto \subseteq Known
    /\ selected \in Dirs \cup {NoDir}
    /\ \A a, b \in Known : project[a] = project[b] => a = b
    /\ link.manual \cup link.auto \cup link.removed
          \subseteq {<<project[e[1]], project[e[2]]>> : e \in Known \X Known}
    /\ link.manual \cap link.auto = {} /\ link.removed \cap Active = {}
    /\ named \in [Dirs -> SUBSET Dirs] /\ there \subseteq Dirs
    /\ \A w \in Walkers :
          /\ walk[w].at \in {"rest", "project", "target", "link"}
          /\ walk[w].level \cup walk[w].next \subseteq Dirs \X Ids
          /\ walk[w].seen \cup walk[w].keep \subseteq Ids
    /\ acts \in 0..MaxActs /\ overlap \in BOOLEAN

LinksInit ==
    /\ project = [d \in Dirs |-> IF d = Root THEN 1 ELSE 0]
    /\ auto = {} /\ selected = NoDir
    /\ link = [manual |-> {}, auto |-> {}, removed |-> {}] /\ word = [made |-> {}, cut |-> {}]
    /\ \E f \in [Dirs -> SUBSET Dirs] : named = f /\ \A d \in Dirs : f[d] \in References[d]
    /\ there = Dirs
    /\ walk = [w \in Walkers |-> Resting]
    /\ acts = 0 /\ overlap = FALSE

\* SQLite gives a new row the id after the highest one: that of a removed project again.
NextId == CHOOSE n \in Ids : /\ \A d \in Dirs : project[d] < n
                             /\ n = 1 \/ \E d \in Dirs : project[d] = n - 1

-----------------------------------------------------------------------------
(* The user. Whatever happens under a walk, the walk is no longer calm.      *)

Disturbed(here) == IF here.at = "rest" THEN Resting
                   ELSE [here EXCEPT !.calm = FALSE, !.visited = {}]

Act ==
    /\ acts < MaxActs /\ acts' = acts + 1
    /\ walk' = [w \in Walkers |-> Disturbed(walk[w])]
    /\ UNCHANGED overlap

\* `graph projects add`, or a session seen in the directory: the first origin stands.
AddProject(d) ==
    /\ d \in there \ Known /\ Act
    /\ project' = [project EXCEPT ![d] = NextId]
    /\ UNCHANGED <<auto, selected, link, word, named, there>>

SelectProject(d) ==
    /\ d \in there \cap Known /\ selected # d /\ Act
    /\ selected' = d
    /\ UNCHANGED <<project, auto, link, word, named, there>>

\* resolve_project in a directory: a selection that is gone falls back to it.
ResolveProject(cwd) ==
    /\ selected \notin there
    /\ cwd \in there \cap Known /\ Act
    /\ selected' = cwd
    /\ UNCHANGED <<project, auto, link, word, named, there>>

\* remove_project; the links of the project go with it.
RemoveProject(d) ==
    LET Others(rows) == {e \in rows : project[d] \notin {e[1], e[2]}} IN
    /\ d \in Known /\ Act
    /\ project' = [project EXCEPT ![d] = 0] /\ auto' = auto \ {d}
    /\ selected' = IF selected = d THEN NoDir ELSE selected
    /\ link' = [kind \in DOMAIN link |-> Others(link[kind])]
    /\ word' = [said \in DOMAIN word |-> Others(word[said])]
    /\ UNCHANGED <<named, there>>

\* link_projects: a manual link, over an auto or a removed one too.
LinkByHand(a, b) ==
    LET e == <<project[a], project[b]>> IN
    /\ a # b /\ {a, b} \subseteq there \cap Known /\ e \notin link.manual /\ Act
    /\ link' = [manual |-> link.manual \cup {e}, auto |-> link.auto \ {e},
                removed |-> link.removed \ {e}]
    /\ word' = [made |-> word.made \cup {e}, cut |-> word.cut \ {e}]
    /\ UNCHANGED <<project, auto, selected, named, there>>

\* unlink_projects: a manual link is deleted, an auto one remembered as removed.
Unlink(e) ==
    /\ e \in Active /\ Act
    /\ IF e \in link.manual
       THEN /\ link' = [link EXCEPT !.manual = @ \ {e}]
            /\ word' = [word EXCEPT !.made = @ \ {e}]
       ELSE /\ link' = [link EXCEPT !.auto = @ \ {e}, !.removed = @ \cup {e}]
            /\ word' = [word EXCEPT !.cut = @ \cup {e}]
    /\ UNCHANGED <<project, auto, selected, named, there>>

EditManifest(d) ==
    /\ Act
    /\ \E S \in References[d] : S # named[d] /\ named' = [named EXCEPT ![d] = S]
    /\ UNCHANGED <<userVars, there>>

DirectoryGoes(d) ==
    /\ d # Root /\ Act
    /\ there' = IF d \in there THEN there \ {d} ELSE there \cup {d}
    /\ UNCHANGED <<userVars, named>>

-----------------------------------------------------------------------------
(* follow.                                                                   *)

\* The step of one walk; a row it changes may be under another one's feet.
Walks(w, new, changes) ==
    walk' = [v \in Walkers |-> IF v = w THEN new
                               ELSE IF changes THEN Disturbed(walk[v]) ELSE walk[v]]
FilesRest == UNCHANGED <<selected, named, there, word, acts>>

\* The cap is counted once, and the active links are read once for all the projects of
\* a level.
Follow(w) ==
    /\ walk[w].at = "rest" /\ Root \in Known
    /\ Walks(w, [Resting EXCEPT !.at = "project", !.level = {<<Root, project[Root]>>},
                                !.seen = {project[Root]}, !.active = Active,
                                !.auto = Cardinality(auto)], FALSE)
    /\ overlap' = (overlap \/ \E v \in Walkers : walk[v].at # "rest")
    /\ UNCHANGED <<project, auto, link>> /\ FilesRest

\* discover: the directories that are there, of those the manifests name; fewer of
\* them, and a warning, when a manifest cannot be read. At the depth limit a project
\* is passed over.
WalkProject(w) ==
    LET here == walk[w] IN
    /\ here.at = "project"
    /\ \E p \in here.level, unread \in BOOLEAN :
          LET found == IF p[1] \in there THEN named[p[1]] \cap there ELSE {} IN
          /\ unread => p[1] \in there
          /\ Walks(w, IF here.depth >= Depth THEN [here EXCEPT !.level = @ \ {p}]
                      ELSE [here EXCEPT !.at = "target", !.level = @ \ {p}, !.p = p,
                                        !.refs = IF unread THEN {} ELSE found,
                                        !.unread = unread], FALSE)
    /\ UNCHANGED <<project, auto, link, overlap>> /\ FilesRest

WalkLevel(w) ==
    LET here == walk[w] IN
    /\ here.at = "project" /\ here.level = {}
    /\ Walks(w, IF here.next # {}
                THEN [here EXCEPT !.level = here.next, !.next = {}, !.depth = @ + 1,
                                  !.active = Active]
                ELSE [Resting EXCEPT !.visited = here.visited, !.calm = here.calm], FALSE)
    /\ UNCHANGED <<project, auto, link, overlap>> /\ FilesRest

\* A reference without a project gets one, unless references have added enough.
WalkTarget(w) ==
    LET here == walk[w] IN
    /\ here.at = "target"
    /\ \E r \in here.refs :
          LET rest == [here EXCEPT !.refs = @ \ {r}] IN
          \/ /\ r \in Known
             /\ Walks(w, IF project[r] = here.p[2] THEN rest
                         ELSE [rest EXCEPT !.at = "link", !.to = <<r, project[r]>>], FALSE)
             /\ UNCHANGED <<project, auto>>
          \/ /\ r \notin Known /\ here.auto >= MaxAuto
             /\ Walks(w, rest, FALSE)
             /\ UNCHANGED <<project, auto>>
          \/ /\ r \notin Known /\ here.auto < MaxAuto
             /\ project' = [project EXCEPT ![r] = NextId] /\ auto' = auto \cup {r}
             /\ Walks(w, IF NextId = here.p[2] THEN [rest EXCEPT !.auto = @ + 1]
                         ELSE [rest EXCEPT !.at = "link", !.to = <<r, NextId>>, !.auto = @ + 1],
                      TRUE)
    /\ UNCHANGED <<link, overlap>> /\ FilesRest

\* link_projects with an auto link: `free` tells whether one is made. A project that is
\* gone refuses the row, and the error ends the walk.
LinkIn(w, free) ==
    LET here == walk[w]
        to == here.to
        e == <<here.p[2], to[2]>>
        made == e \in free
        next == IF (made \/ e \in here.active) /\ to[2] \notin here.seen THEN {to} ELSE {}
    IN  /\ here.at = "link"
        /\ IF {e[1], e[2]} \subseteq {project[d] : d \in Dirs}
           THEN /\ link' = IF made THEN [link EXCEPT !.auto = @ \cup {e}, !.removed = @ \ {e}]
                           ELSE link
                /\ Walks(w, [here EXCEPT !.at = "target", !.to = <<NoDir, 0>>,
                                         !.keep = @ \cup {to[2]}, !.next = @ \cup next,
                                         !.seen = @ \cup {n[2] : n \in next}], made)
           ELSE Walks(w, Resting, FALSE) /\ UNCHANGED link
        /\ UNCHANGED <<project, auto, overlap>> /\ FilesRest

\* Broken variant: a removed link is an absent one.
WalkLinkAgain(w) == LinkIn(w, (Ids \X Ids) \ Active)

\* A link the user removed is neither made again nor followed.
WalkLink(w) == LinkIn(w, (Ids \X Ids) \ (Active \cup link.removed))

\* drop_auto_links: the active auto links to what is no longer named, unless a
\* manifest could not be read.
WalkDrops(w) ==
    LET here == walk[w]
        drop == {e \in link.auto : ~here.unread /\ e[1] = here.p[2] /\ e[2] \notin here.keep}
    IN  /\ here.at = "target" /\ here.refs = {}
        /\ link' = [link EXCEPT !.auto = @ \ drop]
        /\ Walks(w, [here EXCEPT !.at = "project", !.p = <<NoDir, 0>>, !.keep = {},
                                 !.unread = FALSE,
                                 !.visited = IF here.unread \/ ~here.calm THEN @
                                             ELSE @ \cup {here.p[1]}],
                 drop # {})
        /\ UNCHANGED <<project, auto, overlap>> /\ FilesRest

LinksNext ==
    \/ \E d \in Dirs : \/ AddProject(d) \/ SelectProject(d) \/ ResolveProject(d)
                       \/ RemoveProject(d) \/ EditManifest(d) \/ DirectoryGoes(d)
    \/ \E a, b \in Dirs : LinkByHand(a, b)
    \/ \E e \in Ids \X Ids : Unlink(e)
    \/ \E w \in Walkers : \/ Follow(w) \/ WalkProject(w) \/ WalkLevel(w) \/ WalkTarget(w)
                          \/ WalkLink(w) \/ WalkDrops(w)

LinksSpec == LinksInit /\ [][LinksNext]_linkVars

-----------------------------------------------------------------------------
\* scope_of: the root and what its active links lead to, level by level; a project
\* whose directory is gone is not walked through.
Scope(root) ==
    LET Level[n \in 0..Cardinality(Dirs)] ==
            IF n = 0 THEN {root}
            ELSE Level[n - 1] \cup {d \in Known : \E p \in Level[n - 1] \cap there :
                                                    <<project[p], project[d]>> \in Active}
    IN  Level[Cardinality(Dirs)] \cap there

\* Whatever walks do, and in whatever order their statements meet the user's: a link
\* made by hand stays, one the user removed while it was auto stays away, and
\* references add `max_auto_projects` at most, as long as walks do not overlap.
UserHasTheLastWord ==
    /\ word.made \subseteq link.manual
    /\ word.cut \cap Active = {}
    /\ ~overlap => Cardinality(auto) <= MaxAuto

\* A walk under which nothing changed leaves each project it read with the auto links
\* that its manifests name and no others, and what it followed is in the scope that
\* the graph's tools answer from.
WalkAgrees == \A w \in Walkers :
    walk[w].at = "rest" =>
        /\ \A p \in walk[w].visited : \A d \in Known \ {p} :
              LET e == <<project[p], project[d]>> IN
              /\ e \in link.auto => d \in named[p] \cap there
              /\ d \in named[p] \cap there => e \in Active \cup link.removed
        /\ walk[w].visited \subseteq Scope(Root)

\* The links of the registry are the user's where the user spoke, and the manifests'
\* where they did not.
LinksAgree == UserHasTheLastWord /\ WalkAgrees
=============================================================================
