--------------------------- MODULE RendererBridge ---------------------------
(***************************************************************************)
(* The graph on its way to the screen: identities and snapshots in the     *)
(* backend (apps/desktop/app.go, internal/graph), events and answers       *)
(* between the two (Wails), and the renderer's state (useGraphBridge.ts).  *)
(*                                                                         *)
(* Every handler of the backend holds the application's lock and emits its *)
(* event under it, so events arrive in the order of the handlers.  The     *)
(* answer to a call is sent after the lock is released: it comes after the *)
(* handler's own event, and events of later handlers may overtake it.      *)
(*                                                                         *)
(* A node is [id, path, kind]; the hash that makes an id of a project and  *)
(* a path has no collisions.  Edges and positions follow from the nodes.   *)
(* A focus is a number, 0 for none.  Case folding is left out.             *)
(***************************************************************************)
EXTENDS Integers, SequencesExt, FiniteSets

CONSTANTS
  Projects,
  NoProject,
  Paths,            \* project-relative file paths
  StartTree,        \* the files of every project at first
  MaxOperations,    \* bound: calls of the backend's handlers
  MaxPages          \* bound: pages, a reload of the renderer starts one

ASSUME BridgeAssumption ==
  /\ StartTree \subseteq Paths
  /\ MaxOperations \in Nat /\ MaxPages \in Nat

VARIABLES
  tree,             \* the files a scan finds
  project,          \* App.root
  byPath,           \* IdentityRegistry.byPath: path |-> node
  aliases,          \* IdentityRegistry.aliases: <<id, path>>
  snapshot,         \* App.snapshot
  focus,            \* App.currentFocus
  operations,       \* handlers called so far
  emitted,          \* events emitted so far
  calls,            \* calls the backend has not taken: [call, page, project]
  answers,          \* answers on their way to the page
  events,           \* events on their way to it
  page,             \* the renderer's page
  view,             \* its graph
  viewFocus,        \* its focus
  latest,           \* history: the last event the page received, by kind
  crossed,          \* history: an answer the view depends on came too late
  shared            \* history: two nodes of a snapshot had one id

backendVars  == <<project, byPath, aliases, snapshot, focus, shared>>
rendererVars == <<view, viewFocus, latest, crossed>>
vars == <<tree, backendVars, operations, emitted, calls, answers, events, page, rendererVars>>

Ids == Projects \X Paths
Node == [id : Ids, path : Paths, kind : {"file", "tombstone"}]
Empty == [revision |-> 0, nodes |-> {}]
Preview == [revision |-> -1, nodes |-> {}]     \* the fallback, without a revision
NothingYet == [graph |-> 0, load |-> 0, focus |-> 0]

Init ==
  /\ tree = StartTree
  /\ project = NoProject /\ byPath = <<>> /\ aliases = {} /\ snapshot = Empty /\ focus = 0
  /\ operations = 0 /\ emitted = 0 /\ shared = FALSE
  /\ calls = {[call |-> "resync", page |-> 1, project |-> NoProject]}
  /\ answers = {} /\ events = <<>> /\ page = 1
  /\ view = Preview /\ viewFocus = 0 /\ latest = NothingYet /\ crossed = FALSE
-----------------------------------------------------------------------------
(* Identities.                                                              *)

StableID(p, path) == <<p, path>>

\* Assign: a path keeps its identity, whatever it is derived from.
Assigned(registry, p) ==
  {[id |-> IF path \in DOMAIN registry THEN registry[path].id ELSE StableID(p, path),
    path |-> path, kind |-> "file"] : path \in tree}

Registered(registry, nodes) ==
  [path \in DOMAIN registry \cup {n.path : n \in nodes} |->
     IF \E n \in nodes : n.path = path THEN CHOOSE n \in nodes : n.path = path
     ELSE registry[path]]

\* withTombstones: deleted nodes stay in the graph until the file is back.
WithTombstones(nodes, registry) ==
  nodes \cup {n \in Range(registry) : n.kind = "tombstone"
                                      /\ \A m \in nodes : m.path # n.path}

Scan(registry, p) ==
  LET found == Assigned(registry, p)
  IN  WithTombstones(found, Registered(registry, found))

SharesIds(nodes) == \E m, n \in nodes : m # n /\ m.id = n.id

\* Fault: the old path is forgotten.
RenameForgets(from, to) ==
  /\ byPath' = [path \in (DOMAIN byPath \ {from}) \cup {to} |->
                  IF path = to THEN [byPath[from] EXCEPT !.path = to] ELSE byPath[path]]
  /\ UNCHANGED aliases

\* Fault: the node keeps the old path under the new key.
RenameKeepsPath(from, to) ==
  /\ byPath' = [path \in (DOMAIN byPath \ {from}) \cup {to} |->
                  IF path = to THEN byPath[from] ELSE byPath[path]]
  /\ aliases' = aliases \cup {<<byPath[from].id, from>>}

Rename(from, to) ==
  /\ byPath' = [path \in (DOMAIN byPath \ {from}) \cup {to} |->
                  IF path = to THEN [byPath[from] EXCEPT !.path = to] ELSE byPath[path]]
  /\ aliases' = aliases \cup {<<byPath[from].id, from>>}

Delete(path) ==
  /\ byPath' = [byPath EXCEPT ![path].kind = "tombstone"]
  /\ UNCHANGED aliases

\* applyIdentityLifecycle; other events, and paths nobody knows, change nothing.
ApplyIdentityLifecycle ==
  \/ \E from \in DOMAIN byPath, to \in Paths : from # to /\ Rename(from, to)
  \/ \E path \in DOMAIN byPath : Delete(path)
  \/ UNCHANGED <<byPath, aliases>>
-----------------------------------------------------------------------------
(* The backend.                                                             *)

Emit(kind, graph, newFocus) ==
  /\ emitted' = emitted + 1
  /\ events' = Append(events, [kind |-> kind, stamp |-> emitted + 1,
                               graph |-> graph, focus |-> newFocus])

\* The answer is stamped with the last event before the lock was left; one for
\* a page that is gone is dropped.
Answer(c, graph, newFocus, stamp) ==
  answers' = IF c.page # page THEN answers
             ELSE answers \cup {[kind |-> c.call, stamp |-> stamp,
                                 graph |-> graph, focus |-> newFocus]}

Take(c) ==
  /\ c \in calls
  /\ calls' = calls \ {c}
  /\ UNCHANGED <<tree, operations, page, viewFocus, view, latest>>

\* A load that outlives its page cannot clear the next page's focus.
Orphan(c) == crossed' = (crossed \/ c.page # page)

LoadProject(c) ==
  /\ c.call = "load"
  /\ Take(c) /\ Orphan(c)
  /\ LET nodes == Scan(<<>>, c.project)
         graph == [revision |-> 1, nodes |-> nodes]
     IN  /\ byPath' = Registered(<<>>, nodes)
         /\ snapshot' = graph
         /\ Emit("snapshot", graph, 0)
         /\ Answer(c, graph, 0, emitted + 1)
  /\ project' = c.project /\ aliases' = {} /\ focus' = 0
  /\ UNCHANGED shared

\* Reading the history fails when half of the state is replaced; the renderer
\* gets an error and keeps what it shows.
LoadFails(c) ==
  /\ c.call = "load"
  /\ Take(c) /\ crossed' = TRUE
  /\ project' = c.project /\ byPath' = <<>> /\ aliases' = {} /\ focus' = 0
  /\ UNCHANGED <<snapshot, shared, emitted, answers, events>>

Resync(c) ==
  /\ c.call = "resync"
  /\ Take(c)
  /\ Answer(c, snapshot, focus, emitted)
  /\ UNCHANGED <<backendVars, emitted, events, crossed>>

Operate == operations < MaxOperations /\ operations' = operations + 1

PublishEffect ==
  /\ project # NoProject
  /\ ApplyIdentityLifecycle
  /\ focus' = operations + 1
  /\ UNCHANGED <<project, snapshot, shared>>

\* An event from the collector.
PublishActivityEvent ==
  /\ Operate /\ PublishEffect
  /\ Emit("focus", Empty, focus')
  /\ UNCHANGED <<tree, calls, answers, page, rendererVars>>

\* The same called by the renderer, which is answered too.
PublishFromRenderer ==
  /\ Operate /\ PublishEffect
  /\ Emit("focus", Empty, focus')
  /\ Answer([call |-> "publish", page |-> page], Empty, focus', emitted + 1)
  /\ UNCHANGED <<tree, calls, page, rendererVars>>

\* Diff, by identity.  Of two nodes with one id the last path counts.
Patch(before, after) ==
  [added   |-> {n \in after : \A m \in before : m.id # n.id},
   updated |-> {n \in after : n \notin before /\ \E m \in before : m.id = n.id},
   removed |-> {m.id : m \in before} \ {n.id : n \in after}]

RefreshProject ==
  /\ Operate
  /\ project # NoProject
  /\ LET nodes == Scan(byPath, project)
         graph == [revision |-> snapshot.revision + 1, nodes |-> nodes]
     IN  /\ byPath' = Registered(byPath, Assigned(byPath, project))
         /\ snapshot' = graph
         /\ shared' = (shared \/ SharesIds(nodes))
         /\ Emit("patch", [revision |-> graph.revision,
                           nodes |-> Patch(snapshot.nodes, nodes)], 0)
  /\ UNCHANGED <<tree, project, aliases, focus, calls, answers, page, rendererVars>>

\* Files come and go.
ChangeTree ==
  /\ Operate
  /\ \E path \in Paths : tree' = (tree \ {path}) \cup ({path} \ tree)
  /\ UNCHANGED <<backendVars, emitted, calls, answers, events, page, rendererVars>>

-----------------------------------------------------------------------------
(* The renderer.                                                            *)

\* The user opens a project.
OpenProject(p) ==
  /\ Operate
  /\ calls' = calls \cup {[call |-> "load", page |-> page, project |-> p]}
  /\ UNCHANGED <<tree, backendVars, emitted, answers, events, page, rendererVars>>

\* A new page subscribes, then asks; what was on its way to the old one is lost.
Reload ==
  /\ page < MaxPages
  /\ page' = page + 1
  /\ view' = Preview /\ viewFocus' = 0 /\ latest' = NothingYet
  /\ events' = <<>> /\ answers' = {}
  /\ calls' = calls \cup {[call |-> "resync", page |-> page + 1, project |-> NoProject]}
  /\ UNCHANGED <<tree, backendVars, operations, emitted, crossed>>

\* Fault: removed nodes stay.
PatchedKeeping(graph, p) ==
  IF graph.revision # -1 /\ p.revision <= graph.revision THEN graph
  ELSE [revision |-> p.revision,
        nodes |-> {n \in graph.nodes : \A m \in p.nodes.added \cup p.nodes.updated : m.id # n.id}
                  \cup p.nodes.added \cup p.nodes.updated]

\* applyGraphPatch: a patch that is not newer is stale.
Patched(graph, p) ==
  IF graph.revision # -1 /\ p.revision <= graph.revision THEN graph
  ELSE [revision |-> p.revision,
        nodes |-> {n \in graph.nodes : n.id \notin p.nodes.removed
                     /\ \A m \in p.nodes.added \cup p.nodes.updated : m.id # n.id}
                  \cup p.nodes.added \cup p.nodes.updated]

ReceiveEvent ==
  /\ events # <<>>
  /\ events' = Tail(events)
  /\ LET m == Head(events)
     IN  \/ /\ m.kind = "snapshot"
            /\ view' = m.graph
            /\ latest' = [latest EXCEPT !.graph = m.stamp, !.load = m.stamp]
            /\ UNCHANGED viewFocus
         \/ /\ m.kind = "patch"
            /\ view' = Patched(view, m.graph)
            /\ latest' = [latest EXCEPT !.graph = m.stamp]
            /\ UNCHANGED viewFocus
         \/ /\ m.kind = "focus"
            /\ viewFocus' = m.focus
            /\ latest' = [latest EXCEPT !.focus = m.stamp]
            /\ UNCHANGED view
  /\ UNCHANGED <<tree, backendVars, operations, emitted, calls, answers, page, crossed>>

Arrives(a) ==
  /\ \A i \in DOMAIN events : events[i].stamp > a.stamp
  /\ answers' = answers \ {a}
  /\ UNCHANGED <<tree, backendVars, operations, emitted, calls, events, page, latest>>

\* The graph and the focus of a resync are taken where the page has nothing
\* newer; the answers of a load and of a publication are taken as they come.
ResyncAnswered(a) ==
  /\ a.kind = "resync" /\ Arrives(a)
  /\ view' = IF a.graph.revision >= view.revision THEN a.graph ELSE view
  /\ viewFocus' = IF viewFocus = 0 THEN a.focus ELSE viewFocus
  /\ crossed' = (crossed \/ a.stamp < latest.graph)

LoadAnswered(a) ==
  /\ a.kind = "load" /\ Arrives(a)
  /\ view' = a.graph /\ viewFocus' = 0
  /\ crossed' = (crossed \/ a.stamp < latest.graph \/ a.stamp < latest.focus)

PublishAnswered(a) ==
  /\ a.kind = "publish" /\ Arrives(a)
  /\ viewFocus' = a.focus
  /\ crossed' = (crossed \/ a.stamp < latest.focus \/ a.stamp < latest.load)
  /\ UNCHANGED view

Next ==
  \/ \E c \in calls : LoadProject(c) \/ LoadFails(c) \/ Resync(c)
  \/ PublishActivityEvent \/ PublishFromRenderer \/ RefreshProject \/ ChangeTree
  \/ \E p \in Projects : OpenProject(p)
  \/ Reload
  \/ ReceiveEvent
  \/ \E a \in answers : ResyncAnswered(a) \/ LoadAnswered(a) \/ PublishAnswered(a)

Spec == Init /\ [][Next]_vars
-----------------------------------------------------------------------------
TypeOK ==
  /\ tree \subseteq Paths /\ project \in Projects \cup {NoProject}
  /\ DOMAIN byPath \subseteq Paths
  /\ \A path \in DOMAIN byPath : byPath[path] \in Node /\ byPath[path].path = path
  /\ aliases \subseteq Ids \X Paths
  /\ snapshot.nodes \subseteq Node /\ view.nodes \subseteq Node
  /\ {focus, viewFocus} \subseteq 0..MaxOperations

\* Two known paths share an identity only when the path it is derived from was
\* left by a rename: that path was made again, or left again.
IdsAreShared ==
  \A m, n \in Range(byPath) : m # n /\ m.id = n.id => <<m.id, m.id[2]>> \in aliases

Quiet == calls = {} /\ answers = {} /\ events = <<>>

\* "Resync returns one authoritative renderer view": when nothing is under way
\* the page shows the backend's graph and focus, after any sequence of loads,
\* refreshes, publications and page reloads, unless an answer was overtaken by
\* a younger event, a load failed half way, or two nodes shared an identity.
QuietViewIsCurrent ==
  Quiet /\ ~crossed /\ ~shared => view = snapshot /\ viewFocus = focus
=============================================================================
