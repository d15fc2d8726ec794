------------------------ MODULE RendererBridgeProofs ------------------------
(***************************************************************************)
(* What the renderer shows, proved for every set of projects and paths and *)
(* any number of operations and pages: the types, the identities two paths *)
(* may share, and that a quiet page shows the backend's graph and focus.   *)
(***************************************************************************)
EXTENDS RendererBridge, TLAPS

(***************************************************************************)
(* Types.                                                                  *)
(***************************************************************************)
Graph == [revision : Int, nodes : SUBSET Node]
Delta == [added : SUBSET Node, updated : SUBSET Node, removed : SUBSET Ids]

SnapshotEvent == [kind : {"snapshot"}, stamp : Nat, graph : Graph, focus : {0}]
PatchEvent == [kind : {"patch"}, stamp : Nat, graph : [revision : Int, nodes : Delta], focus : {0}]
FocusEvent == [kind : {"focus"}, stamp : Nat, graph : Graph, focus : 1..MaxOperations]
Event == SnapshotEvent \cup PatchEvent \cup FocusEvent

LoadCall == [call : {"load"}, page : Nat, project : Projects]
ResyncCall == [call : {"resync"}, page : Nat, project : {NoProject}]

LoadAnswer == [kind : {"load"}, stamp : Nat, graph : Graph, focus : {0}]
ResyncAnswer == [kind : {"resync"}, stamp : Nat, graph : Graph, focus : 0..MaxOperations]
PublishAnswer == [kind : {"publish"}, stamp : Nat, graph : Graph, focus : 1..MaxOperations]

\* What a registry holds: every node under its own path, and an alias for
\* every node that is not at the path its identity is derived from.
Filed(registry) ==
  /\ DOMAIN registry \subseteq Paths
  /\ \A path \in DOMAIN registry : registry[path] \in Node /\ registry[path].path = path

Traced(registry, left) ==
  \A path \in DOMAIN registry :
    path # registry[path].id[2] => <<registry[path].id, registry[path].id[2]>> \in left

BackendTypes ==
  /\ tree \subseteq Paths
  /\ project \in Projects \cup {NoProject}
  /\ Filed(byPath) /\ Traced(byPath, aliases)
  /\ aliases \subseteq Ids \X Paths
  /\ snapshot \in Graph /\ snapshot.revision >= 0
  /\ operations \in 0..MaxOperations /\ focus \in 0..MaxOperations
  /\ emitted \in Nat

RendererTypes ==
  /\ page \in Nat
  /\ view \in Graph
  /\ viewFocus \in 0..MaxOperations
  /\ latest \in [graph : Nat, load : Nat, focus : Nat]

WireTypes ==
  /\ calls \subseteq LoadCall \cup ResyncCall
  /\ answers \subseteq LoadAnswer \cup ResyncAnswer \cup PublishAnswer
  /\ events \in Seq(Event)

TypeInv == BackendTypes /\ RendererTypes /\ WireTypes

-----------------------------------------------------------------------------
(***************************************************************************)
(* Identities.                                                             *)
(***************************************************************************)
LEMMA AssignedNodes ==
  ASSUME NEW registry, Filed(registry), NEW p \in Projects, tree \subseteq Paths
  PROVE  /\ Assigned(registry, p) \subseteq Node
         /\ \A n \in Assigned(registry, p) :
              IF n.path \in DOMAIN registry THEN n.id = registry[n.path].id
              ELSE n.id = <<p, n.path>>
<1> DEFINE node(path) == [id |-> IF path \in DOMAIN registry THEN registry[path].id
                                 ELSE StableID(p, path),
                          path |-> path, kind |-> "file"]
<1>1. Assigned(registry, p) = {node(path) : path \in tree}  BY DEF Assigned
<1>2. ASSUME NEW path \in tree
      PROVE  /\ node(path) \in Node /\ node(path).path = path
             /\ IF path \in DOMAIN registry THEN node(path).id = registry[path].id
                ELSE node(path).id = <<p, path>>
  <2>1. CASE path \in DOMAIN registry
    <3>1. registry[path] \in Node  BY <2>1 DEF Filed
    <3>2. registry[path].id \in Ids  BY <3>1 DEF Node
    <3> QED  BY <2>1, <3>2 DEF Node
  <2>2. CASE path \notin DOMAIN registry
    <3>1. StableID(p, path) \in Ids  BY DEF StableID, Ids
    <3> QED  BY <2>2, <3>1 DEF Node, StableID
  <2> QED  BY <2>1, <2>2
<1> HIDE DEF node
<1> QED  BY <1>1, <1>2

LEMMA RegisteredNodes ==
  ASSUME NEW registry, Filed(registry), NEW nodes, nodes \subseteq Node
  PROVE  /\ Filed(Registered(registry, nodes))
         /\ \A path \in DOMAIN Registered(registry, nodes) :
              \/ Registered(registry, nodes)[path] \in nodes
              \/ path \in DOMAIN registry /\ Registered(registry, nodes)[path] = registry[path]
<1> DEFINE r == Registered(registry, nodes)
<1>1. DOMAIN r = DOMAIN registry \cup {n.path : n \in nodes}  BY DEF Registered
<1>2. ASSUME NEW path \in DOMAIN r, NEW n \in nodes, n.path = path
      PROVE  r[path] \in nodes /\ r[path].path = path
  <2>1. r[path] = CHOOSE m \in nodes : m.path = path  BY <1>1, <1>2 DEF Registered
  <2> QED  BY <1>2, <2>1
<1>3. ASSUME NEW path \in DOMAIN r, ~ \E n \in nodes : n.path = path
      PROVE  path \in DOMAIN registry /\ r[path] = registry[path]
  BY <1>1, <1>3 DEF Registered
<1>4. \A n \in nodes : n.path \in Paths  BY DEF Node
<1> HIDE DEF r
<1>5. Filed(r)  BY <1>1, <1>2, <1>3, <1>4 DEF Filed
<1> QED  BY <1>2, <1>3, <1>5 DEF r

\* A load starts from an empty registry, where no identity has moved.
LEMMA FreshScan ==
  ASSUME NEW p \in Projects, tree \subseteq Paths
  PROVE  /\ Scan(<<>>, p) = Assigned(<<>>, p)
         /\ Scan(<<>>, p) \subseteq Node
         /\ \A n \in Scan(<<>>, p) : n.id = <<p, n.path>>
         /\ Filed(Registered(<<>>, Scan(<<>>, p)))
         /\ Traced(Registered(<<>>, Scan(<<>>, p)), {})
<1>1. Filed(<<>>)  BY DEF Filed
<1>2. \A n \in Assigned(<<>>, p) : n \in Node /\ n.kind = "file" /\ n.id = <<p, n.path>>
  <2>1. \A n \in Assigned(<<>>, p) : n.kind = "file"  BY DEF Assigned
  <2> QED  BY <1>1, <2>1, AssignedNodes
<1> DEFINE nodes == Assigned(<<>>, p)
           r == Registered(<<>>, nodes)
<1>3. /\ Filed(r)
      /\ \A path \in DOMAIN r : r[path] \in nodes
  BY <1>1, <1>2, RegisteredNodes
<1>4. \A n \in Range(r) : n.kind = "file"  BY <1>2, <1>3 DEF Range
<1>5. Scan(<<>>, p) = nodes  BY <1>4 DEF Scan, WithTombstones
<1>6. Traced(r, {})
  <2> SUFFICES ASSUME NEW path \in DOMAIN r  PROVE path = r[path].id[2]
    BY DEF Traced
  <2>1. r[path] \in nodes /\ r[path].path = path  BY <1>3 DEF Filed
  <2>2. r[path].id = <<p, r[path].path>>  BY <1>2, <2>1
  <2> QED  BY <2>1, <2>2
<1> HIDE DEF nodes, r
<1> QED  BY <1>2, <1>3, <1>5, <1>6 DEF nodes, r

\* A refresh keeps what the registry knows and derives what it does not.
LEMMA LaterScan ==
  ASSUME NEW registry, Filed(registry), NEW left, Traced(registry, left),
         NEW p \in Projects, tree \subseteq Paths
  PROVE  /\ Scan(registry, p) \subseteq Node
         /\ Filed(Registered(registry, Assigned(registry, p)))
         /\ Traced(Registered(registry, Assigned(registry, p)), left)
<1> DEFINE nodes == Assigned(registry, p)
           r == Registered(registry, nodes)
<1>1. /\ nodes \subseteq Node
      /\ \A n \in nodes : IF n.path \in DOMAIN registry THEN n.id = registry[n.path].id
                          ELSE n.id = <<p, n.path>>
  BY AssignedNodes
<1>2. /\ Filed(r)
      /\ \A path \in DOMAIN r :
           r[path] \in nodes \/ (path \in DOMAIN registry /\ r[path] = registry[path])
  BY <1>1, RegisteredNodes
<1>3. Scan(registry, p) \subseteq Node
  <2>1. Range(r) \subseteq Node  BY <1>2 DEF Filed, Range
  <2> QED  BY <1>1, <2>1 DEF Scan, WithTombstones
<1> HIDE DEF nodes, r
<1>4. Traced(r, left)
  <2> SUFFICES ASSUME NEW path \in DOMAIN r, path # r[path].id[2]
               PROVE  <<r[path].id, r[path].id[2]>> \in left
    BY DEF Traced
  <2>1. CASE r[path] \in nodes
    <3>1. r[path].path = path  BY <1>2 DEF Filed
    <3>2. path \in DOMAIN registry /\ r[path].id = registry[path].id
      <4>1. CASE path \notin DOMAIN registry
        <5>1. r[path].id = <<p, path>>  BY <1>1, <2>1, <3>1, <4>1
        <5> QED  BY <5>1
      <4> QED  BY <1>1, <2>1, <3>1, <4>1
    <3> QED  BY <3>2 DEF Traced
  <2>2. CASE path \in DOMAIN registry /\ r[path] = registry[path]
    BY <2>2 DEF Traced
  <2> QED  BY <1>2, <2>1, <2>2
<1> QED  BY <1>2, <1>3, <1>4 DEF nodes, r

\* What an event does to the registry.
LEMMA LifecycleKeeps ==
  ASSUME Filed(byPath), Traced(byPath, aliases), aliases \subseteq Ids \X Paths,
         ApplyIdentityLifecycle
  PROVE  /\ Filed(byPath') /\ Traced(byPath', aliases') /\ aliases' \subseteq Ids \X Paths
<1>1. ASSUME NEW from \in DOMAIN byPath, NEW to \in Paths, from # to, Rename(from, to)
      PROVE  Filed(byPath') /\ Traced(byPath', aliases') /\ aliases' \subseteq Ids \X Paths
  <2>1. byPath[from] \in Node /\ from \in Paths  BY DEF Filed
  <2> DEFINE moved == [byPath[from] EXCEPT !.path = to]
  <2>2. moved \in Node /\ moved.path = to /\ moved.id = byPath[from].id  BY <2>1 DEF Node
  <2>3. byPath' = [path \in (DOMAIN byPath \ {from}) \cup {to} |->
                     IF path = to THEN moved ELSE byPath[path]]
    BY <1>1 DEF Rename
  <2>4. aliases' = aliases \cup {<<byPath[from].id, from>>}  BY <1>1 DEF Rename
  <2> HIDE DEF moved
  <2>5. DOMAIN byPath' = (DOMAIN byPath \ {from}) \cup {to}  BY <2>3
  <2>6. byPath'[to] = moved  BY <2>3
  <2>7. \A path \in DOMAIN byPath' :
          path # to => path \in DOMAIN byPath /\ byPath'[path] = byPath[path]
    BY <2>3
  <2>8. Filed(byPath')
    <3>1. DOMAIN byPath' \subseteq Paths  BY <2>5 DEF Filed
    <3>2. \A path \in DOMAIN byPath' : byPath'[path] \in Node /\ byPath'[path].path = path
      BY <2>2, <2>6, <2>7 DEF Filed
    <3> QED  BY <3>1, <3>2 DEF Filed
  <2>9. Traced(byPath', aliases')
    <3> SUFFICES ASSUME NEW path \in DOMAIN byPath', path # byPath'[path].id[2]
                 PROVE  <<byPath'[path].id, byPath'[path].id[2]>> \in aliases'
      BY DEF Traced
    <3>1. CASE path = to
      <4>1. byPath'[path].id = byPath[from].id  BY <2>2, <2>6, <3>1
      <4>2. CASE from = byPath[from].id[2]
        BY <2>4, <4>1, <4>2
      <4>3. CASE from # byPath[from].id[2]
        BY <2>4, <4>1, <4>3 DEF Traced
      <4> QED  BY <4>2, <4>3
    <3>2. CASE path # to
      BY <2>4, <2>7, <3>2 DEF Traced
    <3> QED  BY <3>1, <3>2
  <2>10. aliases' \subseteq Ids \X Paths  BY <2>1, <2>4 DEF Node
  <2> QED  BY <2>8, <2>9, <2>10
<1>2. ASSUME NEW path \in DOMAIN byPath, Delete(path)
      PROVE  Filed(byPath') /\ Traced(byPath', aliases') /\ aliases' \subseteq Ids \X Paths
  <2>1. byPath' = [byPath EXCEPT ![path].kind = "tombstone"] /\ aliases' = aliases
    BY <1>2 DEF Delete
  <2> DEFINE buried == [byPath[path] EXCEPT !.kind = "tombstone"]
  <2>2. byPath[path] \in Node /\ byPath[path].path = path  BY DEF Filed
  <2>3. buried \in Node /\ buried.path = path /\ buried.id = byPath[path].id  BY <2>2 DEF Node
  <2>4. DOMAIN byPath' = DOMAIN byPath /\ byPath'[path] = buried
    BY <2>1
  <2>5. \A q \in DOMAIN byPath : q # path => byPath'[q] = byPath[q]  BY <2>1
  <2> HIDE DEF buried
  <2> QED  BY <2>1, <2>2, <2>3, <2>4, <2>5 DEF Filed, Traced
<1>3. ASSUME UNCHANGED <<byPath, aliases>>
      PROVE  Filed(byPath') /\ Traced(byPath', aliases') /\ aliases' \subseteq Ids \X Paths
  BY <1>3
<1> QED  BY <1>1, <1>2, <1>3 DEF ApplyIdentityLifecycle
-----------------------------------------------------------------------------
(***************************************************************************)
(* Graphs and differences.                                                 *)
(***************************************************************************)
LEMMA DeltaType ==
  ASSUME NEW before \in SUBSET Node, NEW after \in SUBSET Node
  PROVE  Patch(before, after) \in Delta
<1>1. {m.id : m \in before} \subseteq Ids  BY DEF Node
<1> QED  BY <1>1 DEF Patch, Delta

LEMMA PatchedType ==
  ASSUME NEW graph \in Graph, NEW p \in [revision : Int, nodes : Delta]
  PROVE  Patched(graph, p) \in Graph
<1> USE DEF Graph, Delta
<1>1. p.revision \in Int /\ p.nodes.added \subseteq Node /\ p.nodes.updated \subseteq Node
  OBVIOUS
<1>2. graph.nodes \subseteq Node  OBVIOUS
<1> QED  BY <1>1, <1>2 DEF Patched

LEMMA EmptyGraphs == Empty \in Graph /\ Preview \in Graph
BY DEF Empty, Preview, Graph

\* Every event on the wire has its kind's type.
LEMMA EventKinds ==
  ASSUME NEW m \in Event
  PROVE  /\ m.stamp \in Nat
         /\ m.kind \in {"snapshot", "patch", "focus"}
         /\ m.kind = "snapshot" => m.graph \in Graph /\ m.focus = 0
         /\ m.kind = "patch" => m.graph \in [revision : Int, nodes : Delta] /\ m.focus = 0
         /\ m.kind = "focus" => m.focus \in 1..MaxOperations
<1>1. CASE m \in SnapshotEvent  BY <1>1 DEF SnapshotEvent
<1>2. CASE m \in PatchEvent  BY <1>2 DEF PatchEvent
<1>3. CASE m \in FocusEvent  BY <1>3 DEF FocusEvent
<1> QED  BY <1>1, <1>2, <1>3 DEF Event

LEMMA AnswerKinds ==
  ASSUME NEW a \in LoadAnswer \cup ResyncAnswer \cup PublishAnswer
  PROVE  /\ a.stamp \in Nat
         /\ a.graph \in Graph
         /\ a.kind \in {"load", "resync", "publish"}
         /\ a.kind = "load" => a.focus = 0
         /\ a.kind = "resync" => a.focus \in 0..MaxOperations
         /\ a.kind = "publish" => a.focus \in 1..MaxOperations
<1>1. CASE a \in LoadAnswer  BY <1>1 DEF LoadAnswer
<1>2. CASE a \in ResyncAnswer  BY <1>2 DEF ResyncAnswer
<1>3. CASE a \in PublishAnswer  BY <1>3 DEF PublishAnswer
<1> QED  BY <1>1, <1>2, <1>3

LEMMA CallKinds ==
  ASSUME NEW c \in LoadCall \cup ResyncCall
  PROVE  /\ c.page \in Nat
         /\ c.call \in {"load", "resync"}
         /\ c.call = "load" => c.project \in Projects
BY DEF LoadCall, ResyncCall

-----------------------------------------------------------------------------
(***************************************************************************)
(* The types are invariant, one lemma for each handler.                    *)
(***************************************************************************)
LEMMA InitTypes == Init => TypeInv
<1> SUFFICES ASSUME Init  PROVE TypeInv
  OBVIOUS
<1> USE DEF Init
<1>1. BackendTypes
  <2>1. Empty \in Graph /\ Empty.revision >= 0  BY DEF Empty, Graph
  <2>2. Filed(<<>>) /\ Traced(<<>>, {})  BY DEF Filed, Traced
  <2> QED  BY <2>1, <2>2, BridgeAssumption DEF BackendTypes
<1>2. RendererTypes
  BY EmptyGraphs, BridgeAssumption DEF RendererTypes, NothingYet
<1>3. WireTypes
  <2>1. events \in Seq(Event)  OBVIOUS
  <2> QED  BY <2>1 DEF WireTypes, ResyncCall
<1> QED  BY <1>1, <1>2, <1>3 DEF TypeInv

LEMMA LoadTypes ==
  ASSUME TypeInv, NEW c \in calls, LoadProject(c)
  PROVE  TypeInv'
<1> USE DEF TypeInv
<1>1. c.call = "load" /\ c.project \in Projects
  BY CallKinds DEF LoadProject, WireTypes
<1> DEFINE nodes == Scan(<<>>, c.project)
           graph == [revision |-> 1, nodes |-> nodes]
<1>2. /\ nodes \subseteq Node
      /\ Filed(Registered(<<>>, nodes)) /\ Traced(Registered(<<>>, nodes), {})
  BY <1>1, FreshScan DEF BackendTypes
<1>3. /\ byPath' = Registered(<<>>, nodes)
      /\ snapshot' = graph
      /\ emitted' = emitted + 1
      /\ events' = Append(events, [kind |-> "snapshot", stamp |-> emitted + 1,
                                   graph |-> graph, focus |-> 0])
      /\ answers' = IF c.page # page THEN answers
                    ELSE answers \cup {[kind |-> c.call, stamp |-> emitted + 1,
                                        graph |-> graph, focus |-> 0]}
      /\ project' = c.project /\ aliases' = {} /\ focus' = 0
      /\ calls' = calls \ {c}
      /\ UNCHANGED <<tree, operations, page, viewFocus, view, latest>>
  BY DEF LoadProject, Emit, Answer, Take
<1> HIDE DEF nodes
<1>4. graph \in Graph /\ graph.revision >= 0  BY <1>2 DEF Graph
<1> HIDE DEF graph
<1>5. BackendTypes'
  <2>1. Filed(byPath') /\ Traced(byPath', aliases')  BY <1>2, <1>3
  <2>2. focus' \in 0..MaxOperations  BY <1>3, BridgeAssumption
  <2> QED  BY <1>1, <1>3, <1>4, <2>1, <2>2 DEF BackendTypes
<1>6. WireTypes'
  <2>1. [kind |-> "snapshot", stamp |-> emitted + 1, graph |-> graph, focus |-> 0] \in Event
    BY <1>4 DEF Event, SnapshotEvent, BackendTypes
  <2>2. [kind |-> "load", stamp |-> emitted + 1, graph |-> graph, focus |-> 0] \in LoadAnswer
    BY <1>4 DEF LoadAnswer, BackendTypes
  <2> QED  BY <1>1, <1>3, <2>1, <2>2 DEF WireTypes
<1>7. RendererTypes'  BY <1>3 DEF RendererTypes
<1> QED  BY <1>5, <1>6, <1>7

LEMMA LoadFailsTypes ==
  ASSUME TypeInv, NEW c \in calls, LoadFails(c)
  PROVE  TypeInv'
<1> USE DEF TypeInv
<1>1. c.project \in Projects
  BY CallKinds DEF LoadFails, WireTypes
<1>2. Filed(<<>>) /\ Traced(<<>>, {})  BY DEF Filed, Traced
<1>3. /\ byPath' = <<>> /\ aliases' = {} /\ project' = c.project /\ focus' = 0
      /\ calls' = calls \ {c}
      /\ UNCHANGED <<tree, operations, page, viewFocus, view, latest,
                     snapshot, emitted, answers, events>>
  BY DEF LoadFails, Take
<1>4. BackendTypes'
  <2>1. Filed(byPath') /\ Traced(byPath', aliases')  BY <1>2, <1>3
  <2>2. focus' \in 0..MaxOperations  BY <1>3, BridgeAssumption
  <2> QED  BY <1>1, <1>3, <2>1, <2>2 DEF BackendTypes
<1> QED  BY <1>3, <1>4 DEF WireTypes, RendererTypes

LEMMA ResyncTypes ==
  ASSUME TypeInv, NEW c \in calls, Resync(c)
  PROVE  TypeInv'
<1> USE DEF TypeInv
<1>1. /\ answers' = IF c.page # page THEN answers
                    ELSE answers \cup {[kind |-> "resync", stamp |-> emitted,
                                        graph |-> snapshot, focus |-> focus]}
      /\ calls' = calls \ {c}
      /\ UNCHANGED <<tree, operations, page, viewFocus, view, latest>>
      /\ UNCHANGED <<project, byPath, aliases, snapshot, focus, emitted, events>>
  BY DEF Resync, Take, Answer, backendVars
<1>2. [kind |-> "resync", stamp |-> emitted, graph |-> snapshot, focus |-> focus] \in ResyncAnswer
  BY DEF ResyncAnswer, BackendTypes
<1> QED  BY <1>1, <1>2 DEF BackendTypes, WireTypes, RendererTypes

LEMMA PublishTypes ==
  ASSUME TypeInv, PublishActivityEvent \/ PublishFromRenderer
  PROVE  TypeInv'
<1> USE DEF TypeInv
<1>1. /\ operations < MaxOperations /\ operations' = operations + 1
      /\ ApplyIdentityLifecycle
      /\ focus' = operations + 1
      /\ emitted' = emitted + 1
      /\ events' = Append(events, [kind |-> "focus", stamp |-> emitted + 1,
                                   graph |-> Empty, focus |-> focus'])
      /\ UNCHANGED <<project, snapshot, tree, calls, page, view, viewFocus, latest>>
  BY DEF PublishActivityEvent, PublishFromRenderer, PublishEffect, Operate, Emit, rendererVars
<1>2. /\ focus' \in 1..MaxOperations /\ operations' \in 0..MaxOperations
      /\ emitted' \in Nat
  BY <1>1, BridgeAssumption DEF BackendTypes
<1>3. Filed(byPath') /\ Traced(byPath', aliases') /\ aliases' \subseteq Ids \X Paths
  BY <1>1, LifecycleKeeps DEF BackendTypes
<1>4. BackendTypes'
  BY <1>1, <1>2, <1>3 DEF BackendTypes
<1>5. answers' \subseteq LoadAnswer \cup ResyncAnswer \cup PublishAnswer
  <2>1. CASE PublishActivityEvent
    BY <2>1 DEF PublishActivityEvent, WireTypes
  <2>2. CASE PublishFromRenderer
    <3>1. answers' = answers \cup {[kind |-> "publish", stamp |-> emitted + 1,
                                    graph |-> Empty, focus |-> focus']}
      BY <2>2 DEF PublishFromRenderer, Answer
    <3>2. [kind |-> "publish", stamp |-> emitted + 1, graph |-> Empty, focus |-> focus']
            \in PublishAnswer
      BY <1>2, EmptyGraphs DEF PublishAnswer, BackendTypes
    <3> QED  BY <3>1, <3>2 DEF WireTypes
  <2> QED  BY <2>1, <2>2
<1>6. events' \in Seq(Event)
  <2>1. [kind |-> "focus", stamp |-> emitted + 1, graph |-> Empty, focus |-> focus'] \in Event
    BY <1>2, EmptyGraphs DEF Event, FocusEvent, BackendTypes
  <2> QED  BY <1>1, <2>1 DEF WireTypes
<1>7. WireTypes'  BY <1>1, <1>5, <1>6 DEF WireTypes
<1>8. RendererTypes'  BY <1>1 DEF RendererTypes
<1> QED  BY <1>4, <1>7, <1>8

LEMMA RefreshTypes ==
  ASSUME TypeInv, RefreshProject
  PROVE  TypeInv'
<1> USE DEF TypeInv
<1> DEFINE nodes == Scan(byPath, project)
           graph == [revision |-> snapshot.revision + 1, nodes |-> nodes]
           delta == [revision |-> graph.revision, nodes |-> Patch(snapshot.nodes, nodes)]
<1>1. /\ operations < MaxOperations /\ operations' = operations + 1
      /\ project # NoProject
      /\ byPath' = Registered(byPath, Assigned(byPath, project))
      /\ snapshot' = graph
      /\ emitted' = emitted + 1
      /\ events' = Append(events, [kind |-> "patch", stamp |-> emitted + 1,
                                   graph |-> delta, focus |-> 0])
      /\ UNCHANGED <<tree, project, aliases, focus, calls, answers, page>>
      /\ UNCHANGED <<view, viewFocus, latest>>
  BY DEF RefreshProject, Operate, Emit, rendererVars
<1>2. project \in Projects  BY <1>1 DEF BackendTypes
<1>3. /\ nodes \subseteq Node
      /\ Filed(byPath') /\ Traced(byPath', aliases')
  BY <1>1, <1>2, LaterScan DEF BackendTypes
<1> HIDE DEF nodes
<1>4. graph \in Graph /\ graph.revision >= 0 /\ graph.revision \in Int
  BY <1>3 DEF Graph, BackendTypes
<1>5. delta \in [revision : Int, nodes : Delta]
  <2>1. snapshot.nodes \subseteq Node  BY DEF BackendTypes, Graph
  <2>2. Patch(snapshot.nodes, nodes) \in Delta  BY <1>3, <2>1, DeltaType
  <2> QED  BY <1>4, <2>2
<1> HIDE DEF graph, delta
<1>6. BackendTypes'
  <2>1. operations' \in 0..MaxOperations /\ emitted' \in Nat
    BY <1>1, BridgeAssumption DEF BackendTypes
  <2> QED  BY <1>1, <1>3, <1>4, <2>1 DEF BackendTypes
<1>7. WireTypes'
  <2>1. [kind |-> "patch", stamp |-> emitted + 1, graph |-> delta, focus |-> 0] \in Event
    BY <1>5 DEF Event, PatchEvent, BackendTypes
  <2> QED  BY <1>1, <2>1 DEF WireTypes
<1>8. RendererTypes'  BY <1>1 DEF RendererTypes
<1> QED  BY <1>6, <1>7, <1>8

LEMMA RequestTypes ==
  ASSUME TypeInv, ChangeTree \/ Reload \/ \E p \in Projects : OpenProject(p)
  PROVE  TypeInv'
<1> USE DEF TypeInv
<1>1. CASE ChangeTree
  <2>1. tree' \subseteq Paths  BY <1>1 DEF ChangeTree, BackendTypes
  <2>2. operations' \in 0..MaxOperations
    BY <1>1, BridgeAssumption DEF ChangeTree, Operate, BackendTypes
  <2>3. /\ UNCHANGED <<project, byPath, aliases, snapshot, focus>>
        /\ UNCHANGED <<emitted, calls, answers, events, page>>
        /\ UNCHANGED <<view, viewFocus, latest>>
    BY <1>1 DEF ChangeTree, backendVars, rendererVars
  <2> QED  BY <2>1, <2>2, <2>3 DEF BackendTypes, WireTypes, RendererTypes
<1>2. CASE Reload
  <2>1. /\ page' = page + 1 /\ view' = Preview /\ viewFocus' = 0 /\ latest' = NothingYet
        /\ events' = <<>> /\ answers' = {}
        /\ calls' = calls \cup {[call |-> "resync", page |-> page + 1, project |-> NoProject]}
        /\ UNCHANGED <<tree, project, byPath, aliases, snapshot, focus, operations, emitted>>
    BY <1>2 DEF Reload, backendVars
  <2>2. BackendTypes'  BY <2>1 DEF BackendTypes
  <2>3. RendererTypes'
    BY <2>1, EmptyGraphs, BridgeAssumption DEF RendererTypes, NothingYet
  <2>4. WireTypes'
    BY <2>1 DEF WireTypes, RendererTypes, ResyncCall
  <2> QED  BY <2>2, <2>3, <2>4
<1>3. ASSUME NEW p \in Projects, OpenProject(p)  PROVE TypeInv'
  <2>1. /\ operations' \in 0..MaxOperations
        /\ calls' = calls \cup {[call |-> "load", page |-> page, project |-> p]}
    BY <1>3, BridgeAssumption DEF OpenProject, Operate, BackendTypes
  <2>2. /\ UNCHANGED <<tree, project, byPath, aliases, snapshot, focus>>
        /\ UNCHANGED <<emitted, answers, events, page>>
        /\ UNCHANGED <<view, viewFocus, latest>>
    BY <1>3 DEF OpenProject, backendVars, rendererVars
  <2>3. WireTypes'  BY <2>1, <2>2 DEF WireTypes, RendererTypes, LoadCall
  <2> QED  BY <2>1, <2>2, <2>3 DEF BackendTypes, RendererTypes
<1> QED  BY <1>1, <1>2, <1>3

LEMMA ReceiveTypes ==
  ASSUME TypeInv, ReceiveEvent
  PROVE  TypeInv'
<1> USE DEF TypeInv
<1>1. PICK m : m = Head(events)  OBVIOUS
<1>2. m \in Event /\ events' \in Seq(Event)
  BY <1>1 DEF ReceiveEvent, WireTypes
<1>3. UNCHANGED <<tree, project, byPath, aliases, snapshot, focus, operations, emitted,
                  calls, answers, page>>
  BY DEF ReceiveEvent, backendVars
<1>4. view' \in Graph /\ viewFocus' \in 0..MaxOperations
      /\ latest' \in [graph : Nat, load : Nat, focus : Nat]
  <2>1. CASE m.kind = "snapshot" /\ view' = m.graph /\ UNCHANGED viewFocus
             /\ latest' = [latest EXCEPT !.graph = m.stamp, !.load = m.stamp]
    BY <1>2, <2>1, EventKinds DEF RendererTypes
  <2>2. CASE m.kind = "patch" /\ view' = Patched(view, m.graph) /\ UNCHANGED viewFocus
             /\ latest' = [latest EXCEPT !.graph = m.stamp]
    BY <1>2, <2>2, EventKinds, PatchedType DEF RendererTypes
  <2>3. CASE m.kind = "focus" /\ viewFocus' = m.focus /\ UNCHANGED view
             /\ latest' = [latest EXCEPT !.focus = m.stamp]
    BY <1>2, <2>3, EventKinds, BridgeAssumption DEF RendererTypes
  <2> QED  BY <1>1, <2>1, <2>2, <2>3 DEF ReceiveEvent
<1> QED  BY <1>2, <1>3, <1>4 DEF BackendTypes, WireTypes, RendererTypes

LEMMA AnsweredTypes ==
  ASSUME TypeInv, NEW a \in answers,
         ResyncAnswered(a) \/ LoadAnswered(a) \/ PublishAnswered(a)
  PROVE  TypeInv'
<1> USE DEF TypeInv
<1>1. /\ answers' = answers \ {a}
      /\ UNCHANGED <<tree, project, byPath, aliases, snapshot, focus, operations, emitted>>
      /\ UNCHANGED <<calls, events, page, latest>>
  BY DEF ResyncAnswered, LoadAnswered, PublishAnswered, Arrives, backendVars
<1>2. a \in LoadAnswer \cup ResyncAnswer \cup PublishAnswer  BY DEF WireTypes
<1>3. view' \in Graph /\ viewFocus' \in 0..MaxOperations
  <2>1. CASE ResyncAnswered(a)
    BY <1>2, <2>1, AnswerKinds DEF ResyncAnswered, RendererTypes
  <2>2. CASE LoadAnswered(a)
    BY <1>2, <2>2, AnswerKinds, BridgeAssumption DEF LoadAnswered, RendererTypes
  <2>3. CASE PublishAnswered(a)
    BY <1>2, <2>3, AnswerKinds, BridgeAssumption DEF PublishAnswered, RendererTypes
  <2> QED  BY <2>1, <2>2, <2>3
<1> QED  BY <1>1, <1>3 DEF BackendTypes, WireTypes, RendererTypes

LEMMA StepTypes == TypeInv /\ [Next]_vars => TypeInv'
<1> SUFFICES ASSUME TypeInv, [Next]_vars  PROVE TypeInv'
  OBVIOUS
<1>1. CASE UNCHANGED vars
  BY <1>1 DEF vars, backendVars, rendererVars, TypeInv, BackendTypes, WireTypes, RendererTypes
<1>2. CASE Next
  BY <1>2, LoadTypes, LoadFailsTypes, ResyncTypes, PublishTypes, RefreshTypes, RequestTypes,
     ReceiveTypes, AnsweredTypes DEF Next
<1> QED  BY <1>1, <1>2

LEMMA TypesInvariant == Spec => []TypeInv
BY InitTypes, StepTypes, PTL DEF Spec

\* The registry, the graphs and the focus keep their types for any number of
\* loads, renames, refreshes, page reloads and answers under way: every node
\* of the registry is filed under its own path.
THEOREM TypeCorrect == Spec => []TypeOK
<1>1. TypeInv => TypeOK
  <2> SUFFICES ASSUME TypeInv  PROVE TypeOK
    OBVIOUS
  <2>1. snapshot.nodes \subseteq Node /\ view.nodes \subseteq Node
    BY DEF TypeInv, BackendTypes, RendererTypes, Graph
  <2> QED  BY <2>1 DEF TypeInv, BackendTypes, RendererTypes, Filed, TypeOK
<1> QED  BY <1>1, TypesInvariant, PTL

\* Of two known paths with one identity the path it is derived from was left by
\* a rename, for every sequence of renames, deletions, refreshes and loads.
THEOREM IdentitiesSharedOnlyAfterRename == Spec => []IdsAreShared
<1>1. TypeInv => IdsAreShared
  <2> SUFFICES ASSUME TypeInv, NEW p \in DOMAIN byPath, NEW q \in DOMAIN byPath,
                      byPath[p] # byPath[q], byPath[p].id = byPath[q].id
               PROVE  <<byPath[p].id, byPath[p].id[2]>> \in aliases
    BY DEF IdsAreShared, Range
  <2>1. p # q  OBVIOUS
  <2>2. Traced(byPath, aliases)  BY DEF TypeInv, BackendTypes
  <2>3. CASE p # byPath[p].id[2]  BY <2>2, <2>3 DEF Traced
  <2>4. CASE p = byPath[p].id[2]
    <3>1. q # byPath[q].id[2]  BY <2>1, <2>4
    <3> QED  BY <2>2, <3>1 DEF Traced
  <2> QED  BY <2>3, <2>4
<1> QED  BY <1>1, TypesInvariant, PTL
-----------------------------------------------------------------------------
(***************************************************************************)
(* What is under way.  Seen is the stamp of the last event that left the   *)
(* wire; the events on it carry the stamps that follow.                    *)
(***************************************************************************)
Seen == emitted - Len(events)

OrderInv ==
  /\ Seen \in Nat
  /\ \A i \in 1..Len(events) : events[i].stamp = Seen + i
  /\ \A a \in answers : a.stamp <= emitted
  /\ latest.load <= latest.graph /\ latest.graph <= Seen /\ latest.focus <= Seen
  /\ \A b \in answers : b.kind = "load" =>
       /\ b.stamp > Seen => events[b.stamp - Seen].kind = "snapshot"
       /\ b.stamp <= Seen => b.stamp <= latest.load

\* The graph and the focus of the backend after an event.
Shown == [graph : Graph, focus : 0..MaxOperations]
History == [Nat -> Shown]

\* What event m says of the change from one to the next.
Follows(old, m, new) ==
  /\ m.kind = "snapshot" => new.graph = m.graph /\ new.focus = 0
  /\ m.kind = "patch" => /\ new.graph = Patched(old.graph, m.graph)
                         /\ new.graph.revision = m.graph.revision
                         /\ new.graph.revision = old.graph.revision + 1
                         /\ new.focus = old.focus
  /\ m.kind = "focus" => new.graph = old.graph /\ new.focus = m.focus

\* The history h ends in the backend's state and agrees with the wire.
Told(h) ==
  /\ h[emitted] = [graph |-> snapshot, focus |-> focus]
  /\ \A i \in 1..Len(events) : Follows(h[Seen + i - 1], events[i], h[Seen + i])
  /\ \A a \in answers : /\ a.focus = h[a.stamp].focus
                        /\ a.kind # "publish" => a.graph = h[a.stamp].graph

\* An answer that no younger event has overtaken is as good as a new one.
Fresh(h) ==
  \A a \in answers : a.stamp <= Seen =>
    /\ latest.graph <= a.stamp => h[a.stamp].graph = h[Seen].graph
    /\ latest.focus <= a.stamp /\ latest.load <= a.stamp => h[a.stamp].focus = h[Seen].focus
    /\ a.kind = "resync" /\ viewFocus = 0 /\ latest.graph <= a.stamp
         => h[a.stamp].focus = h[Seen].focus

ResyncPending ==
  \/ \E c \in calls : c.call = "resync" /\ c.page = page
  \/ \E a \in answers : a.kind = "resync"

ClearPending == \E b \in answers : b.kind = "load" /\ b.stamp <= Seen

\* The page shows the last event it saw, or an answer is still to come: that
\* of its resync, or that of the load whose graph it has and whose focus not.
Showing(h) ==
  /\ view.revision <= h[Seen].graph.revision
  /\ view = h[Seen].graph \/ ResyncPending
  /\ \/ ClearPending
     \/ viewFocus # 0 /\ viewFocus = h[Seen].focus
     \/ viewFocus = 0 /\ (h[Seen].focus = 0 \/ ResyncPending)

Recorded == \E h \in History : Told(h) /\ Fresh(h) /\ Showing(h)

\* The answer of a load follows its event.
Clears ==
  \A i \in 1..Len(events) : events[i].kind = "snapshot" =>
    \E b \in answers : b.kind = "load" /\ b.stamp = Seen + i

GoodInv == ~crossed /\ ~shared => ~SharesIds(snapshot.nodes) /\ Clears /\ Recorded

BridgeInv == TypeInv /\ OrderInv /\ GoodInv

-----------------------------------------------------------------------------
\* A patch restores: what Diff computes between two graphs and applyGraphPatch
\* applies to the first gives the second, when no two nodes of either share an
\* identity.
THEOREM PatchRestores ==
  ASSUME NEW before, NEW after, ~SharesIds(before), ~SharesIds(after),
         NEW revision \in Nat, NEW next \in Int, next > revision
  PROVE  Patched([revision |-> revision, nodes |-> before],
                 [revision |-> next, nodes |-> Patch(before, after)])
           = [revision |-> next, nodes |-> after]
<1> DEFINE p == Patch(before, after)
           kept == {n \in before : n.id \notin p.removed
                                   /\ \A m \in p.added \cup p.updated : m.id # n.id}
<1>1. /\ p.added = {n \in after : \A m \in before : m.id # n.id}
      /\ p.updated = {n \in after : n \notin before /\ \E m \in before : m.id = n.id}
      /\ p.removed = {m.id : m \in before} \ {n.id : n \in after}
  BY DEF Patch
<1>2. \A m, n \in before : m.id = n.id => m = n  BY DEF SharesIds
<1>3. \A m, n \in after : m.id = n.id => m = n  BY DEF SharesIds
<1> HIDE DEF p
<1>4. kept \subseteq after
  <2> SUFFICES ASSUME NEW n \in before, n.id \notin p.removed,
                      \A m \in p.added \cup p.updated : m.id # n.id
               PROVE  n \in after
    OBVIOUS
  <2>1. PICK m \in after : m.id = n.id  BY <1>1
  <2>2. m \in before  BY <1>1, <2>1
  <2> QED  BY <1>2, <2>1, <2>2
<1>5. after \subseteq kept \cup p.added \cup p.updated
  <2> SUFFICES ASSUME NEW n \in after, n \notin p.added, n \notin p.updated
               PROVE  n \in kept
    OBVIOUS
  <2>1. n \in before  BY <1>1
  <2>2. n.id \notin p.removed  BY <1>1
  <2>3. ASSUME NEW m \in p.added \cup p.updated, m.id = n.id  PROVE FALSE
    <3>1. m \in after  BY <1>1
    <3>2. m = n  BY <1>3, <2>3, <3>1
    <3> QED  BY <2>3, <3>2
  <2> QED  BY <2>1, <2>2, <2>3
<1>6. kept \cup p.added \cup p.updated = after  BY <1>1, <1>4, <1>5
<1>7. revision # -1 /\ ~(next <= revision)  OBVIOUS
<1>8. Patched([revision |-> revision, nodes |-> before], [revision |-> next, nodes |-> p])
        = [revision |-> next, nodes |-> kept \cup p.added \cup p.updated]
  BY <1>7 DEF Patched
<1> QED  BY <1>6, <1>8 DEF p

\* A first scan derives every identity from its path.
LEMMA FreshScanShares ==
  ASSUME NEW p \in Projects, tree \subseteq Paths
  PROVE  ~SharesIds(Scan(<<>>, p))
<1>1. \A m, n \in Scan(<<>>, p) : m.id = n.id => m = n
  <2>1. Scan(<<>>, p) = Assigned(<<>>, p)  BY FreshScan
  <2>2. \A n \in Assigned(<<>>, p) : n = [id |-> <<p, n.path>>, path |-> n.path, kind |-> "file"]
    <3>1. Assigned(<<>>, p) = {[id |-> <<p, path>>, path |-> path, kind |-> "file"] : path \in tree}
      BY DEF Assigned, StableID
    <3> QED  BY <3>1
  <2> SUFFICES ASSUME NEW m \in Assigned(<<>>, p), NEW n \in Assigned(<<>>, p), m.id = n.id
               PROVE  m = n
    BY <2>1
  <2>3. m.id = <<p, m.path>> /\ n.id = <<p, n.path>>  BY <2>1, FreshScan
  <2>4. \A x, y : <<p, x>> = <<p, y>> => x = y  OBVIOUS
  <2>5. m.path = n.path  BY <2>3, <2>4
  <2> QED  BY <2>2, <2>5
<1> QED  BY <1>1 DEF SharesIds

-----------------------------------------------------------------------------
(***************************************************************************)
(* A handler emits an event and perhaps answers its caller.                *)
(***************************************************************************)
EmitStep(m, extra) ==
  /\ m.stamp = emitted + 1
  /\ events' = Append(events, m) /\ emitted' = emitted + 1
  /\ answers' = answers \cup extra
  /\ \A a \in extra : /\ a.stamp = emitted + 1
                      /\ a.kind = "load" => m.kind = "snapshot"
                      /\ a.kind # "resync"
  /\ UNCHANGED <<view, viewFocus, latest>>

LEMMA EmitOrder ==
  ASSUME TypeInv, OrderInv, NEW m, NEW extra, EmitStep(m, extra)
  PROVE  /\ OrderInv'
         /\ Seen' = Seen
         /\ Len(events) \in Nat /\ Len(events)' = Len(events) + 1
         /\ \A i \in 1..Len(events) : events'[i] = events[i]
         /\ events'[Len(events) + 1] = m
         /\ Seen + Len(events) = emitted
<1>1. events \in Seq(Event) /\ emitted \in Nat /\ Seen \in Nat
  BY DEF TypeInv, WireTypes, BackendTypes, OrderInv
<1>2. /\ Len(events) \in Nat /\ Len(events)' = Len(events) + 1
      /\ \A i \in 1..Len(events) : events'[i] = events[i]
      /\ events'[Len(events) + 1] = m
  BY <1>1 DEF EmitStep
<1>3. Seen' = Seen /\ Seen + Len(events) = emitted
  BY <1>1, <1>2 DEF Seen, EmitStep
<1>4. \A i \in 1..Len(events') : events'[i].stamp = Seen' + i
  <2> SUFFICES ASSUME NEW i \in 1..Len(events')  PROVE events'[i].stamp = Seen' + i
    OBVIOUS
  <2>1. CASE i \in 1..Len(events)  BY <1>2, <1>3, <2>1 DEF OrderInv
  <2>2. CASE i = Len(events) + 1
    <3>1. Seen + i = emitted + 1  BY <1>1, <1>2, <1>3, <2>2
    <3> QED  BY <1>2, <1>3, <2>2, <3>1 DEF EmitStep
  <2> QED  BY <1>2, <2>1, <2>2
<1>5. \A a \in answers' : a.stamp <= emitted'
  <2>1. \A a \in answers : a.stamp \in Nat  BY AnswerKinds DEF TypeInv, WireTypes
  <2> QED  BY <1>1, <2>1 DEF EmitStep, OrderInv
<1>6. ASSUME NEW b \in answers', b.kind = "load"
      PROVE  /\ b.stamp > Seen' => events'[b.stamp - Seen'].kind = "snapshot"
             /\ b.stamp <= Seen' => b.stamp <= latest'.load
  <2>1. CASE b \in answers
    <3>1. b.stamp \in Nat /\ b.stamp <= emitted
      BY <2>1, AnswerKinds DEF TypeInv, WireTypes, OrderInv
    <3>2. b.stamp > Seen => b.stamp - Seen \in 1..Len(events)
      BY <1>1, <1>2, <1>3, <3>1
    <3> QED  BY <1>2, <1>3, <1>6, <2>1, <3>2 DEF OrderInv, EmitStep
  <2>2. CASE b \in extra
    <3>1. b.stamp = emitted + 1 /\ m.kind = "snapshot"  BY <1>6, <2>2 DEF EmitStep
    <3>2. b.stamp - Seen = Len(events) + 1 /\ ~(b.stamp <= Seen)
      BY <1>1, <1>2, <1>3, <3>1
    <3> QED  BY <1>2, <1>3, <3>1, <3>2
  <2> QED  BY <2>1, <2>2 DEF EmitStep
<1>7. OrderInv'
  BY <1>1, <1>3, <1>4, <1>5, <1>6 DEF OrderInv, EmitStep
<1> QED  BY <1>2, <1>3, <1>7

\* The history grows by what the event tells.
LEMMA EmitRecorded ==
  ASSUME TypeInv, OrderInv, Recorded, Clears,
         NEW m, NEW extra, EmitStep(m, extra), NEW new \in Shown,
         new = [graph |-> snapshot', focus |-> focus'],
         Follows([graph |-> snapshot, focus |-> focus], m, new),
         m.kind = "snapshot" => \E b \in extra : b.kind = "load",
         \A a \in extra : a.focus = new.focus /\ (a.kind # "publish" => a.graph = new.graph),
         ResyncPending => ResyncPending'
  PROVE  Clears' /\ Recorded'
<1>1. PICK h \in History : Told(h) /\ Fresh(h) /\ Showing(h)  BY DEF Recorded
<1> DEFINE g == [h EXCEPT ![emitted + 1] = new]
<1>2. emitted \in Nat /\ Seen \in Nat /\ Seen <= emitted
  BY EmitOrder DEF TypeInv, BackendTypes, OrderInv
<1>3. g \in History  BY <1>2 DEF History
<1>4. g[emitted + 1] = new /\ \A s \in 0..emitted : g[s] = h[s]
  BY <1>2 DEF History
<1>5. PICK f : f = g  OBVIOUS
<1> HIDE DEF g
<1>6. /\ f \in History
      /\ f[emitted + 1] = new /\ \A s \in 0..emitted : f[s] = h[s]
  BY <1>3, <1>4, <1>5
<1>7. /\ Seen' = Seen
      /\ Len(events) \in Nat /\ Len(events)' = Len(events) + 1
      /\ \A i \in 1..Len(events) : events'[i] = events[i]
      /\ events'[Len(events) + 1] = m
      /\ Seen + Len(events) = emitted
      /\ emitted' = emitted + 1
  BY EmitOrder DEF EmitStep
<1>8. \A a \in answers : a.stamp \in 0..emitted
  BY <1>2, AnswerKinds DEF TypeInv, WireTypes, OrderInv
<1>9. Told(f)'
  <2>1. (f[emitted] = [graph |-> snapshot, focus |-> focus])'
    BY <1>6, <1>7
  <2>2. ASSUME NEW i \in 1..Len(events')
        PROVE  Follows(f[Seen' + i - 1], events'[i], f[Seen' + i])
    <3>1. CASE i \in 1..Len(events)
      <4>1. Seen + i - 1 \in 0..emitted /\ Seen + i \in 0..emitted
        BY <1>2, <1>7, <3>1
      <4> QED  BY <1>1, <1>6, <1>7, <3>1, <4>1 DEF Told
    <3>2. CASE i = Len(events) + 1
      <4>1. Seen + i - 1 = emitted /\ Seen + i = emitted + 1
        BY <1>2, <1>7, <3>2
      <4>2. f[emitted] = [graph |-> snapshot, focus |-> focus]
        BY <1>1, <1>2, <1>6 DEF Told
      <4> QED  BY <1>6, <1>7, <3>2, <4>1, <4>2
    <3> QED  BY <1>7, <3>1, <3>2
  <2>3. \A a \in answers' : /\ a.focus = f[a.stamp].focus
                            /\ a.kind # "publish" => a.graph = f[a.stamp].graph
    <3>1. \A a \in answers : /\ a.focus = f[a.stamp].focus
                             /\ a.kind # "publish" => a.graph = f[a.stamp].graph
      BY <1>1, <1>6, <1>8 DEF Told
    <3> QED  BY <1>6, <3>1 DEF EmitStep
  <2> QED  BY <2>1, <2>2, <2>3 DEF Told
<1>10. f[Seen] = h[Seen]  BY <1>2, <1>6
<1>11. Fresh(f)'
  <2>1. \A a \in answers' : a.stamp <= Seen => a \in answers /\ f[a.stamp] = h[a.stamp]
    BY <1>2, <1>6, <1>8 DEF EmitStep
  <2> QED  BY <1>1, <1>7, <1>10, <2>1 DEF Fresh, EmitStep
<1>12. Showing(f)'
  <2>1. ClearPending => ClearPending'  BY <1>7 DEF ClearPending, EmitStep
  <2>2. /\ view' = view /\ viewFocus' = viewFocus
        /\ ResyncPending => ResyncPending'
    BY DEF EmitStep
  <2> QED  BY <1>1, <1>7, <1>10, <2>1, <2>2 DEF Showing
<1>13. Recorded'  BY <1>6, <1>9, <1>11, <1>12 DEF Recorded
<1>14. Clears'
  <2> SUFFICES ASSUME NEW i \in 1..Len(events'), events'[i].kind = "snapshot"
               PROVE  \E b \in answers' : b.kind = "load" /\ b.stamp = Seen' + i
    BY DEF Clears
  <2>1. CASE i \in 1..Len(events)
    BY <1>7, <2>1 DEF Clears, EmitStep
  <2>2. CASE i = Len(events) + 1
    <3>1. Seen' + i = emitted + 1  BY <1>2, <1>7, <2>2
    <3>2. m.kind = "snapshot"  BY <1>7, <2>2
    <3> QED  BY <3>1, <3>2 DEF EmitStep
  <2> QED  BY <1>7, <2>1, <2>2
<1> QED  BY <1>13, <1>14
-----------------------------------------------------------------------------
(***************************************************************************)
(* The handlers of the backend.                                            *)
(***************************************************************************)
LEMMA InitBridge == Init => BridgeInv
<1> SUFFICES ASSUME Init  PROVE BridgeInv
  OBVIOUS
<1>1. TypeInv  BY InitTypes
<1>2. Len(events) = 0 /\ Seen = 0
  <2>1. events = <<>> /\ emitted \in Nat  BY DEF Init
  <2>2. Len(events) = 0  BY <2>1
  <2>3. Seen = emitted  BY <2>1, <2>2 DEF Seen
  <2> QED  BY <2>2, <2>3 DEF Init
<1> USE DEF Init
<1>3. OrderInv  BY <1>2 DEF OrderInv, NothingYet
<1>4. ResyncPending  BY DEF ResyncPending
<1> DEFINE f == [s \in Nat |-> [graph |-> Empty, focus |-> 0]]
<1>5. f \in History /\ f[0] = [graph |-> Empty, focus |-> 0]
  BY EmptyGraphs, BridgeAssumption DEF History, Shown
<1> HIDE DEF f
<1>6. Told(f) /\ Fresh(f)  BY <1>2, <1>5 DEF Told, Fresh
<1>7. Showing(f)
  <2>1. view.revision <= f[Seen].graph.revision  BY <1>2, <1>5 DEF Preview, Empty
  <2> QED  BY <1>2, <1>4, <1>5, <2>1 DEF Showing
<1>8. ~SharesIds(snapshot.nodes)  BY DEF Empty, SharesIds
<1>9. Clears  BY <1>2 DEF Clears
<1> QED  BY <1>1, <1>3, <1>5, <1>6, <1>7, <1>8, <1>9 DEF BridgeInv, GoodInv, Recorded

LEMMA LoadBridge ==
  ASSUME BridgeInv, NEW c \in calls, LoadProject(c)
  PROVE  OrderInv' /\ GoodInv'
<1> USE DEF BridgeInv
<1>1. c.call = "load" /\ c.project \in Projects
  BY CallKinds DEF LoadProject, TypeInv, WireTypes
<1> DEFINE nodes == Scan(<<>>, c.project)
           graph == [revision |-> 1, nodes |-> nodes]
           m == [kind |-> "snapshot", stamp |-> emitted + 1, graph |-> graph, focus |-> 0]
           answer == [kind |-> "load", stamp |-> emitted + 1, graph |-> graph, focus |-> 0]
           extra == IF c.page # page THEN {} ELSE {answer}
<1>2. /\ snapshot' = graph /\ focus' = 0
      /\ emitted' = emitted + 1 /\ events' = Append(events, m)
      /\ answers' = answers \cup extra
      /\ calls' = calls \ {c}
      /\ crossed' = (crossed \/ c.page # page)
      /\ shared' = shared
      /\ UNCHANGED <<page, viewFocus, view, latest>>
  BY <1>1 DEF LoadProject, Emit, Answer, Take, Orphan
<1>3. nodes \subseteq Node /\ ~SharesIds(nodes)
  BY <1>1, FreshScan, FreshScanShares DEF TypeInv, BackendTypes
<1> HIDE DEF nodes
<1>4. graph \in Graph  BY <1>3 DEF Graph
<1>5. /\ m.kind = "snapshot" /\ m.stamp = emitted + 1 /\ m.graph = graph /\ m.focus = 0
      /\ \A a \in extra : a = answer
      /\ answer.kind = "load" /\ answer.stamp = emitted + 1
      /\ answer.graph = graph /\ answer.focus = 0
  OBVIOUS
<1>6. graph.nodes = nodes  OBVIOUS
<1>7. c.page = page => answer \in extra  OBVIOUS
<1> HIDE DEF graph, m, answer, extra
<1>8. EmitStep(m, extra)  BY <1>2, <1>5 DEF EmitStep
<1>9. OrderInv'  BY <1>8, EmitOrder
<1>10. ASSUME ~crossed', ~shared'  PROVE ~SharesIds(snapshot'.nodes) /\ Clears' /\ Recorded'
  <2>1. ~crossed /\ ~shared /\ c.page = page  BY <1>2, <1>10
  <2>2. Clears /\ Recorded  BY <2>1 DEF GoodInv
  <2>3. PICK new : new = [graph |-> graph, focus |-> 0]  OBVIOUS
  <2>4. new \in Shown /\ new = [graph |-> snapshot', focus |-> focus']
    BY <1>2, <1>4, <2>3, BridgeAssumption DEF Shown
  <2>5. Follows([graph |-> snapshot, focus |-> focus], m, new)
    BY <1>5, <2>3 DEF Follows
  <2>6. \A a \in extra : a.focus = new.focus /\ (a.kind # "publish" => a.graph = new.graph)
    BY <1>5, <2>3
  <2>7. \E b \in extra : b.kind = "load"  BY <1>5, <1>7, <2>1
  <2>8. ResyncPending => ResyncPending'  BY <1>1, <1>2 DEF ResyncPending
  <2>9. Clears' /\ Recorded'
    BY <1>8, <2>2, <2>4, <2>5, <2>6, <2>7, <2>8, EmitRecorded
  <2> QED  BY <1>2, <1>3, <1>6, <2>9
<1> QED  BY <1>9, <1>10 DEF GoodInv

LEMMA LoadFailsBridge ==
  ASSUME BridgeInv, NEW c \in calls, LoadFails(c)
  PROVE  OrderInv' /\ GoodInv'
<1>1. crossed' /\ UNCHANGED <<emitted, events, answers, latest>>
  BY DEF LoadFails, Take
<1> QED  BY <1>1 DEF BridgeInv, OrderInv, Seen, GoodInv

\* The answer of a resync is what the backend has now.
LEMMA ResyncBridge ==
  ASSUME BridgeInv, NEW c \in calls, Resync(c)
  PROVE  OrderInv' /\ GoodInv'
<1> USE DEF BridgeInv
<1> DEFINE answer == [kind |-> "resync", stamp |-> emitted, graph |-> snapshot, focus |-> focus]
<1>1. /\ answers' = IF c.page # page THEN answers ELSE answers \cup {answer}
      /\ c.call = "resync" /\ calls' = calls \ {c}
      /\ UNCHANGED <<page, viewFocus, view, latest, snapshot, focus, shared, crossed>>
      /\ UNCHANGED <<emitted, events>>
  BY DEF Resync, Take, Answer, backendVars
<1>2. /\ answer.kind = "resync" /\ answer.stamp = emitted
      /\ answer.graph = snapshot /\ answer.focus = focus
  OBVIOUS
<1> HIDE DEF answer
<1>3. \A a \in answers' : a \in answers \/ a = answer  BY <1>1
<1>4. emitted \in Nat /\ Seen \in Nat /\ Seen' = Seen /\ Seen <= emitted
  <2>1. Len(events) \in Nat  BY DEF TypeInv, WireTypes
  <2> QED  BY <1>1, <2>1 DEF Seen, TypeInv, BackendTypes, OrderInv
<1>5. OrderInv'
  <2>1. \A a \in answers' : a.stamp <= emitted'
    BY <1>1, <1>2, <1>3, <1>4 DEF OrderInv
  <2> QED  BY <1>1, <1>2, <1>3, <1>4, <2>1 DEF OrderInv
<1>6. ASSUME ~crossed', ~shared'  PROVE ~SharesIds(snapshot'.nodes) /\ Clears' /\ Recorded'
  <2>1. ~SharesIds(snapshot.nodes) /\ Clears /\ Recorded  BY <1>1, <1>6 DEF GoodInv
  <2>2. PICK h \in History : Told(h) /\ Fresh(h) /\ Showing(h)  BY <2>1 DEF Recorded
  <2>3. h[emitted] = [graph |-> snapshot, focus |-> focus]  BY <2>2 DEF Told
  <2>4. Told(h)'
    <3>1. \A a \in answers' : /\ a.focus = h[a.stamp].focus
                              /\ a.kind # "publish" => a.graph = h[a.stamp].graph
      BY <1>2, <1>3, <2>2, <2>3 DEF Told
    <3> QED  BY <1>1, <1>4, <2>2, <3>1 DEF Told
  <2>5. Fresh(h)'
    <3>1. answer.stamp <= Seen => answer.stamp = Seen  BY <1>2, <1>4
    <3> QED  BY <1>1, <1>3, <1>4, <2>2, <3>1 DEF Fresh
  <2>6. ResyncPending => ResyncPending'
    <3>1. CASE c.page = page  BY <1>1, <1>2, <3>1 DEF ResyncPending
    <3>2. CASE c.page # page  BY <1>1, <3>2 DEF ResyncPending
    <3> QED  BY <3>1, <3>2
  <2>7. ClearPending => ClearPending'  BY <1>1, <1>4 DEF ClearPending
  <2>8. Showing(h)'  BY <1>1, <1>4, <2>2, <2>6, <2>7 DEF Showing
  <2>9. Clears'  BY <1>1, <1>4, <2>1 DEF Clears
  <2> QED  BY <1>1, <2>1, <2>4, <2>5, <2>8, <2>9 DEF Recorded
<1> QED  BY <1>5, <1>6 DEF GoodInv

LEMMA PublishBridge ==
  ASSUME BridgeInv, PublishActivityEvent \/ PublishFromRenderer
  PROVE  OrderInv' /\ GoodInv'
<1> USE DEF BridgeInv
<1> DEFINE m == [kind |-> "focus", stamp |-> emitted + 1, graph |-> Empty,
                 focus |-> operations + 1]
           answer == [kind |-> "publish", stamp |-> emitted + 1, graph |-> Empty,
                      focus |-> operations + 1]
<1>1. PICK extra \in SUBSET {answer} : answers' = answers \cup extra
  <2>1. CASE PublishActivityEvent
    <3>1. answers' = answers \cup {}  BY <2>1 DEF PublishActivityEvent
    <3> QED  BY <3>1
  <2>2. CASE PublishFromRenderer
    <3>1. answers' = answers \cup {answer}
      BY <2>2 DEF PublishFromRenderer, Answer, PublishEffect
    <3> HIDE DEF answer
    <3> QED  BY <3>1
  <2> QED  BY <2>1, <2>2
<1>2. /\ focus' = operations + 1 /\ operations < MaxOperations
      /\ emitted' = emitted + 1 /\ events' = Append(events, m)
      /\ UNCHANGED <<snapshot, shared, calls, page, view, viewFocus, latest, crossed>>
  BY DEF PublishActivityEvent, PublishFromRenderer, PublishEffect, Operate, Emit, rendererVars
<1>3. /\ m.kind = "focus" /\ m.stamp = emitted + 1 /\ m.focus = operations + 1
      /\ answer.kind = "publish" /\ answer.stamp = emitted + 1
      /\ answer.focus = operations + 1
  OBVIOUS
<1> HIDE DEF m, answer
<1>4. \A a \in extra : a = answer  BY <1>1
<1>5. EmitStep(m, extra)  BY <1>1, <1>2, <1>3, <1>4 DEF EmitStep
<1>6. OrderInv'  BY <1>5, EmitOrder
<1>7. ASSUME ~crossed', ~shared'  PROVE ~SharesIds(snapshot'.nodes) /\ Clears' /\ Recorded'
  <2>1. ~SharesIds(snapshot.nodes) /\ Clears /\ Recorded  BY <1>2, <1>7 DEF GoodInv
  <2>2. PICK new : new = [graph |-> snapshot, focus |-> operations + 1]  OBVIOUS
  <2>3. new \in Shown /\ new = [graph |-> snapshot', focus |-> focus']
    BY <1>2, <2>2, BridgeAssumption DEF Shown, TypeInv, BackendTypes
  <2>4. Follows([graph |-> snapshot, focus |-> focus], m, new)
    BY <1>3, <2>2 DEF Follows
  <2>5. \A a \in extra : a.focus = new.focus /\ (a.kind # "publish" => a.graph = new.graph)
    BY <1>3, <1>4, <2>2
  <2>6. ResyncPending => ResyncPending'  BY <1>1, <1>2 DEF ResyncPending
  <2>7. Clears' /\ Recorded'
    BY <1>3, <1>5, <2>1, <2>3, <2>4, <2>5, <2>6, EmitRecorded
  <2> QED  BY <1>2, <2>1, <2>7
<1> QED  BY <1>6, <1>7 DEF GoodInv

\* A patch restores the new graph from the old one.
LEMMA RefreshBridge ==
  ASSUME BridgeInv, RefreshProject
  PROVE  OrderInv' /\ GoodInv'
<1> USE DEF BridgeInv
<1> DEFINE nodes == Scan(byPath, project)
           graph == [revision |-> snapshot.revision + 1, nodes |-> nodes]
           delta == [revision |-> snapshot.revision + 1,
                     nodes |-> Patch(snapshot.nodes, nodes)]
           m == [kind |-> "patch", stamp |-> emitted + 1, graph |-> delta, focus |-> 0]
<1>1. /\ project # NoProject
      /\ snapshot' = graph /\ focus' = focus
      /\ shared' = (shared \/ SharesIds(nodes)) /\ crossed' = crossed
      /\ emitted' = emitted + 1 /\ events' = Append(events, m)
      /\ UNCHANGED <<calls, answers, page, view, viewFocus, latest>>
  BY DEF RefreshProject, Emit, rendererVars
<1>2. project \in Projects  BY <1>1 DEF TypeInv, BackendTypes
<1>3. nodes \subseteq Node  BY <1>2, LaterScan DEF TypeInv, BackendTypes
<1>4. snapshot = [revision |-> snapshot.revision, nodes |-> snapshot.nodes]
      /\ snapshot.revision \in Nat
  BY DEF TypeInv, BackendTypes, Graph
<1> HIDE DEF nodes
<1>5. /\ m.kind = "patch" /\ m.stamp = emitted + 1 /\ m.graph = delta
      /\ delta.revision = snapshot.revision + 1
      /\ graph.revision = snapshot.revision + 1 /\ graph.nodes = nodes
  OBVIOUS
<1>6. graph \in Graph  BY <1>3, <1>4 DEF Graph
<1>7. ~SharesIds(snapshot.nodes) /\ ~SharesIds(nodes) => Patched(snapshot, delta) = graph
  BY <1>4, PatchRestores
<1> HIDE DEF graph, delta, m
<1>8. EmitStep(m, {})  BY <1>1, <1>5 DEF EmitStep
<1>9. OrderInv'  BY <1>8, EmitOrder
<1>10. ASSUME ~crossed', ~shared'  PROVE ~SharesIds(snapshot'.nodes) /\ Clears' /\ Recorded'
  <2>1. ~SharesIds(nodes) /\ ~SharesIds(snapshot.nodes) /\ Clears /\ Recorded
    BY <1>1, <1>10 DEF GoodInv
  <2>2. PICK new : new = [graph |-> graph, focus |-> focus]  OBVIOUS
  <2>3. new \in Shown /\ new = [graph |-> snapshot', focus |-> focus']
    BY <1>1, <1>6, <2>2 DEF Shown, TypeInv, BackendTypes
  <2>4. Follows([graph |-> snapshot, focus |-> focus], m, new)
    BY <1>5, <1>7, <2>1, <2>2 DEF Follows
  <2>5. ResyncPending => ResyncPending'  BY <1>1 DEF ResyncPending
  <2>6. Clears' /\ Recorded'
    BY <1>5, <1>8, <2>1, <2>3, <2>4, <2>5, EmitRecorded
  <2> QED  BY <1>1, <1>5, <2>1, <2>6
<1> QED  BY <1>9, <1>10 DEF GoodInv
-----------------------------------------------------------------------------
(***************************************************************************)
(* The files, and what the renderer asks for.                              *)
(***************************************************************************)
LEMMA RequestBridge ==
  ASSUME BridgeInv, ChangeTree \/ \E p \in Projects : OpenProject(p)
  PROVE  OrderInv' /\ GoodInv'
<1>1. /\ UNCHANGED <<snapshot, focus, shared, emitted, answers, events, page>>
      /\ UNCHANGED <<view, viewFocus, latest, crossed>>
      /\ calls \subseteq calls'
  BY DEF ChangeTree, OpenProject, backendVars, rendererVars
<1>2. Seen' = Seen  BY <1>1 DEF Seen
<1>3. OrderInv'  BY <1>1, <1>2 DEF BridgeInv, OrderInv
<1>4. ResyncPending => ResyncPending'  BY <1>1 DEF ResyncPending
<1>5. ASSUME ~crossed', ~shared'  PROVE ~SharesIds(snapshot'.nodes) /\ Clears' /\ Recorded'
  <2>1. ~SharesIds(snapshot.nodes) /\ Clears /\ Recorded
    BY <1>1, <1>5 DEF BridgeInv, GoodInv
  <2>2. PICK h \in History : Told(h) /\ Fresh(h) /\ Showing(h)  BY <2>1 DEF Recorded
  <2>3. Told(h)' /\ Fresh(h)'  BY <1>1, <1>2, <2>2 DEF Told, Fresh
  <2>4. Showing(h)'
    <3>1. ClearPending => ClearPending'  BY <1>1, <1>2 DEF ClearPending
    <3> QED  BY <1>1, <1>2, <1>4, <2>2, <3>1 DEF Showing
  <2>5. Clears'  BY <1>1, <1>2, <2>1 DEF Clears
  <2> QED  BY <1>1, <2>1, <2>3, <2>4, <2>5 DEF Recorded
<1> QED  BY <1>3, <1>5 DEF GoodInv

\* A new page has nothing under way but its resync.
LEMMA ReloadBridge ==
  ASSUME BridgeInv, Reload
  PROVE  OrderInv' /\ GoodInv'
<1>1. /\ page' = page + 1 /\ view' = Preview /\ viewFocus' = 0 /\ latest' = NothingYet
      /\ events' = <<>> /\ answers' = {}
      /\ [call |-> "resync", page |-> page + 1, project |-> NoProject] \in calls'
      /\ UNCHANGED <<snapshot, focus, shared, emitted, crossed>>
  BY DEF Reload, backendVars
<1>2. emitted \in Nat  BY DEF BridgeInv, TypeInv, BackendTypes
<1>3. Len(events') = 0 /\ Seen' = emitted
  <2>1. Len(events') = 0  BY <1>1
  <2> QED  BY <1>1, <1>2, <2>1 DEF Seen
<1>4. OrderInv'  BY <1>1, <1>2, <1>3 DEF OrderInv, NothingYet
<1>5. ResyncPending'
  <2>1. PICK c \in calls' : c.call = "resync" /\ c.page = page'  BY <1>1
  <2> QED  BY <2>1 DEF ResyncPending
<1>6. ASSUME ~crossed', ~shared'  PROVE ~SharesIds(snapshot'.nodes) /\ Clears' /\ Recorded'
  <2>1. ~SharesIds(snapshot.nodes) /\ Recorded  BY <1>1, <1>6 DEF BridgeInv, GoodInv
  <2>2. PICK h \in History : Told(h)  BY <2>1 DEF Recorded
  <2>3. h[emitted] = [graph |-> snapshot, focus |-> focus]  BY <2>2 DEF Told
  <2>4. Told(h)' /\ Fresh(h)' /\ Clears'  BY <1>1, <1>3, <2>3 DEF Told, Fresh, Clears
  <2>5. Showing(h)'
    <3>1. view'.revision = -1  BY <1>1 DEF Preview
    <3>2. h[Seen'].graph.revision \in Nat
      BY <1>3, <2>3 DEF BridgeInv, TypeInv, BackendTypes, Graph
    <3>3. view'.revision <= h[Seen'].graph.revision  BY <3>1, <3>2
    <3>4. \/ viewFocus' # 0
          \/ viewFocus' = 0 /\ (h[Seen'].focus = 0 \/ ResyncPending')
      BY <1>1, <1>5
    <3> QED  BY <1>1, <1>5, <3>3 DEF Showing
  <2> QED  BY <1>1, <2>1, <2>4, <2>5 DEF Recorded
<1> QED  BY <1>4, <1>6 DEF GoodInv

-----------------------------------------------------------------------------
(***************************************************************************)
(* The renderer receives an event.                                         *)
(***************************************************************************)
LEMMA ReceiveOrder ==
  ASSUME BridgeInv, ReceiveEvent, NEW m, m = Head(events)
  PROVE  /\ OrderInv'
         /\ Seen' = Seen + 1 /\ Seen \in Nat
         /\ m \in Event /\ m.stamp = Seen + 1
         /\ Len(events) \in Nat /\ Len(events) >= 1 /\ Len(events') = Len(events) - 1
         /\ m = events[1]
         /\ \A i \in 1..Len(events') : events'[i] = events[i + 1]
<1> USE DEF BridgeInv
<1>1. events \in Seq(Event) /\ events # <<>> /\ emitted \in Nat /\ Seen \in Nat
  BY DEF TypeInv, WireTypes, BackendTypes, OrderInv, ReceiveEvent
<1>2. events' = Tail(events) /\ UNCHANGED <<emitted, answers>>
  BY DEF ReceiveEvent
<1>3. /\ m \in Event /\ m = events[1]
      /\ Len(events) \in Nat /\ Len(events) >= 1 /\ Len(events') = Len(events) - 1
      /\ \A i \in 1..Len(events') : events'[i] = events[i + 1]
  BY <1>1, <1>2
<1>4. Seen' = Seen + 1  BY <1>1, <1>2, <1>3 DEF Seen
<1>5. m.stamp = Seen + 1  BY <1>3 DEF OrderInv
<1>6. \A i \in 1..Len(events') : events'[i].stamp = Seen' + i
  BY <1>1, <1>3, <1>4, SMTT(30) DEF OrderInv
<1>7. /\ latest'.load <= latest'.graph /\ latest'.graph <= Seen' /\ latest'.focus <= Seen'
      /\ latest'.load >= latest.load
      /\ m.kind = "snapshot" => latest'.load = Seen'
  <2> USE <1>1, <1>4, <1>5 DEF OrderInv, TypeInv, RendererTypes
  <2>1. CASE m.kind = "snapshot" /\ latest' = [latest EXCEPT !.graph = m.stamp, !.load = m.stamp]
    BY <2>1
  <2>2. CASE m.kind = "patch" /\ latest' = [latest EXCEPT !.graph = m.stamp]
    BY <2>2
  <2>3. CASE m.kind = "focus" /\ latest' = [latest EXCEPT !.focus = m.stamp]
    BY <2>3
  <2> QED  BY <2>1, <2>2, <2>3 DEF ReceiveEvent
<1>8. ASSUME NEW b \in answers, b.kind = "load"
      PROVE  /\ b.stamp > Seen' => events'[b.stamp - Seen'].kind = "snapshot"
             /\ b.stamp <= Seen' => b.stamp <= latest'.load
  <2>1. b.stamp \in Nat /\ b.stamp <= emitted
    BY AnswerKinds DEF TypeInv, WireTypes, OrderInv
  <2>2. /\ b.stamp > Seen => events[b.stamp - Seen].kind = "snapshot"
        /\ b.stamp <= Seen => b.stamp <= latest.load
    BY <1>8 DEF OrderInv
  <2>3. CASE b.stamp > Seen'
    <3>1. b.stamp - Seen' \in 1..Len(events') /\ b.stamp - Seen' + 1 = b.stamp - Seen
      BY <1>1, <1>2, <1>3, <1>4, <2>1, <2>3 DEF Seen
    <3>2. events'[b.stamp - Seen'] = events[b.stamp - Seen]
      BY <1>3, <3>1
    <3> QED  BY <1>1, <1>4, <2>1, <2>2, <2>3, <3>2
  <2>4. CASE b.stamp = Seen'
    <3>1. b.stamp - Seen = 1 /\ b.stamp > Seen  BY <1>1, <1>4, <2>4
    <3>2. m.kind = "snapshot"  BY <1>3, <2>2, <3>1
    <3> QED  BY <1>1, <1>4, <1>7, <2>4, <3>2
  <2>5. CASE b.stamp <= Seen
    <3>1. latest.load \in Nat /\ latest'.load \in Nat
      BY ReceiveTypes DEF TypeInv, RendererTypes
    <3> QED  BY <1>1, <1>4, <1>7, <2>1, <2>2, <2>5, <3>1
  <2> QED  BY <1>1, <1>4, <2>1, <2>3, <2>4, <2>5
<1>9. \A a \in answers : a.stamp <= emitted  BY DEF OrderInv
<1>10. OrderInv'
  <2>1. Seen' \in Nat  BY <1>1, <1>4
  <2>2. \A b \in answers' : b.kind = "load" =>
          /\ b.stamp > Seen' => events'[b.stamp - Seen'].kind = "snapshot"
          /\ b.stamp <= Seen' => b.stamp <= latest'.load
    BY <1>2, <1>8
  <2>3. \A a \in answers' : a.stamp <= emitted'  BY <1>2, <1>9
  <2>4. latest'.load <= latest'.graph /\ latest'.graph <= Seen' /\ latest'.focus <= Seen'
    BY <1>7
  <2> QED  BY <1>6, <2>1, <2>2, <2>3, <2>4 DEF OrderInv
<1> QED  BY <1>1, <1>3, <1>4, <1>5, <1>10

LEMMA ReceiveBridge ==
  ASSUME BridgeInv, ReceiveEvent
  PROVE  OrderInv' /\ GoodInv'
<1> USE DEF BridgeInv
<1>1. PICK m : m = Head(events)  OBVIOUS
<1>2. /\ OrderInv'
      /\ Seen' = Seen + 1 /\ Seen \in Nat
      /\ m \in Event /\ m.stamp = Seen + 1
      /\ Len(events) \in Nat /\ Len(events) >= 1 /\ Len(events') = Len(events) - 1
      /\ m = events[1]
      /\ \A i \in 1..Len(events') : events'[i] = events[i + 1]
  BY <1>1, ReceiveOrder
<1>3. UNCHANGED <<snapshot, focus, shared, emitted, calls, answers, page, crossed>>
  BY DEF ReceiveEvent, backendVars
<1>4. \A a \in answers : a.stamp \in Nat  BY AnswerKinds DEF TypeInv, WireTypes
<1>5. ResyncPending' = ResyncPending  BY <1>3 DEF ResyncPending
<1>6. latest \in [graph : Nat, load : Nat, focus : Nat]  BY DEF TypeInv, RendererTypes
<1>7. ASSUME ~crossed', ~shared'  PROVE ~SharesIds(snapshot'.nodes) /\ Clears' /\ Recorded'
  <2>1. ~SharesIds(snapshot.nodes) /\ Clears /\ Recorded  BY <1>3, <1>7 DEF GoodInv
  <2>2. PICK h \in History : Told(h) /\ Fresh(h) /\ Showing(h)  BY <2>1 DEF Recorded
  <2>3. PICK old, new : old = h[Seen] /\ new = h[Seen + 1]  OBVIOUS
  <2>4. old \in Shown /\ new \in Shown  BY <1>2, <2>2, <2>3 DEF History
  <2>5. Follows(old, m, new)
    <3>1. Follows(h[Seen + 1 - 1], events[1], h[Seen + 1])  BY <1>2, <2>2 DEF Told
    <3>2. Seen + 1 - 1 = Seen  BY <1>2
    <3> QED  BY <1>2, <2>3, <3>1, <3>2
  <2>6. Told(h)'
    <3>1. ASSUME NEW i \in 1..Len(events')
          PROVE  Follows(h[Seen' + i - 1], events'[i], h[Seen' + i])
      <4>1. i + 1 \in 1..Len(events)  BY <1>2
      <4>2. Seen' + i - 1 = Seen + (i + 1) - 1 /\ Seen' + i = Seen + (i + 1)  BY <1>2
      <4>3. Follows(h[Seen + (i + 1) - 1], events[i + 1], h[Seen + (i + 1)])
        BY <2>2, <4>1 DEF Told
      <4> QED  BY <1>2, <4>2, <4>3
    <3> QED  BY <1>3, <2>2, <3>1 DEF Told
  <2>7. Clears'
    <3> SUFFICES ASSUME NEW i \in 1..Len(events'), events'[i].kind = "snapshot"
                 PROVE  \E b \in answers' : b.kind = "load" /\ b.stamp = Seen' + i
      BY DEF Clears
    <3>1. i + 1 \in 1..Len(events) /\ Seen' + i = Seen + (i + 1)  BY <1>2
    <3>2. events[i + 1].kind = "snapshot"  BY <1>2
    <3>3. PICK b \in answers : b.kind = "load" /\ b.stamp = Seen + (i + 1)
      BY <2>1, <3>1, <3>2 DEF Clears
    <3> QED  BY <1>3, <3>1, <3>3
  <2>8. m.kind = "snapshot" => \E b \in answers : b.kind = "load" /\ b.stamp = Seen + 1
    BY <1>2, <2>1 DEF Clears
  <2>9. ClearPending => ClearPending'
    <3> SUFFICES ASSUME NEW b \in answers, b.kind = "load", b.stamp <= Seen
                 PROVE  ClearPending'
      BY DEF ClearPending
    <3>1. b.stamp <= Seen'  BY <1>2, <1>4
    <3> QED  BY <1>3, <3>1 DEF ClearPending
  <2>10. ASSUME NEW a \in answers, a.stamp <= Seen'
         PROVE  a.stamp = Seen' \/ a.stamp <= Seen
    BY <1>2, <1>4, <2>10
  <2>11. /\ view.revision <= old.graph.revision
         /\ view = old.graph \/ ResyncPending
         /\ \/ ClearPending
            \/ viewFocus # 0 /\ viewFocus = old.focus
            \/ viewFocus = 0 /\ (old.focus = 0 \/ ResyncPending)
    BY <2>2, <2>3 DEF Showing
  <2>12. ASSUME NEW a \in answers, a.stamp <= Seen
         PROVE  /\ latest.graph <= a.stamp => h[a.stamp].graph = old.graph
                /\ latest.focus <= a.stamp /\ latest.load <= a.stamp => h[a.stamp].focus = old.focus
                /\ a.kind = "resync" /\ viewFocus = 0 /\ latest.graph <= a.stamp
                     => h[a.stamp].focus = old.focus
    BY <2>2, <2>3, <2>12 DEF Fresh
  <2>13. h[Seen'] = new  BY <1>2, <2>3
  <2>14. Fresh(h)' /\ Showing(h)'
    <3>1. CASE /\ m.kind = "snapshot" /\ view' = m.graph /\ UNCHANGED viewFocus
               /\ latest' = [latest EXCEPT !.graph = m.stamp, !.load = m.stamp]
      <4>1. new.graph = m.graph /\ new.focus = 0  BY <2>5, <3>1 DEF Follows
      <4>2. latest'.graph = Seen' /\ latest'.load = Seen'  BY <1>2, <1>6, <3>1
      <4>3. \A a \in answers : a.stamp <= Seen' /\ Seen' <= a.stamp => h[a.stamp] = h[Seen']
        BY <1>2, <1>4
      <4>4. Fresh(h)'  BY <1>3, <4>2, <4>3 DEF Fresh
      <4>5. ClearPending'
        <5>1. PICK b \in answers : b.kind = "load" /\ b.stamp = Seen + 1  BY <2>8, <3>1
        <5> QED  BY <1>2, <1>3, <5>1 DEF ClearPending
      <4>6. view'.revision <= h[Seen'].graph.revision
        <5>1. view' = new.graph /\ new.graph.revision \in Int
          BY <2>4, <3>1, <4>1 DEF Shown, Graph
        <5> QED  BY <2>13, <5>1
      <4>7. view' = h[Seen'].graph  BY <2>13, <3>1, <4>1
      <4> QED  BY <4>4, <4>5, <4>6, <4>7 DEF Showing
    <3>2. CASE /\ m.kind = "patch" /\ view' = Patched(view, m.graph) /\ UNCHANGED viewFocus
               /\ latest' = [latest EXCEPT !.graph = m.stamp]
      <4>1. /\ new.graph = Patched(old.graph, m.graph)
            /\ new.graph.revision = m.graph.revision
            /\ new.graph.revision = old.graph.revision + 1
            /\ new.focus = old.focus
        BY <2>5, <3>2 DEF Follows
      <4>2. latest'.graph = Seen' /\ latest'.load = latest.load /\ latest'.focus = latest.focus
        BY <1>2, <1>6, <3>2
      <4>3. \A a \in answers : a.stamp <= Seen' /\ Seen' <= a.stamp => h[a.stamp] = h[Seen']
        BY <1>2, <1>4
      <4>4. Fresh(h)'
        <5>1. ASSUME NEW a \in answers, a.stamp <= Seen', latest.focus <= a.stamp,
                     latest.load <= a.stamp
              PROVE  h[a.stamp].focus = h[Seen'].focus
          BY <2>10, <2>12, <2>13, <4>1, <5>1
        <5> QED  BY <1>3, <4>2, <4>3, <5>1 DEF Fresh
      <4>5. view'.revision <= h[Seen'].graph.revision
        <5>1. view.revision \in Int /\ new.graph.revision \in Int /\ old.graph.revision \in Int
          BY <2>4 DEF Shown, Graph, TypeInv, RendererTypes
        <5>2. view'.revision \in {view.revision, m.graph.revision}  BY <3>2 DEF Patched
        <5> QED  BY <2>11, <2>13, <4>1, <5>1, <5>2
      <4>6. view' = h[Seen'].graph \/ ResyncPending'
        BY <1>5, <2>11, <2>13, <3>2, <4>1
      <4> QED  BY <1>5, <2>9, <2>11, <2>13, <3>2, <4>1, <4>4, <4>5, <4>6 DEF Showing
    <3>3. CASE /\ m.kind = "focus" /\ viewFocus' = m.focus /\ UNCHANGED view
               /\ latest' = [latest EXCEPT !.focus = m.stamp]
      <4>1. new.graph = old.graph /\ new.focus = m.focus  BY <2>5, <3>3 DEF Follows
      <4>2. latest'.graph = latest.graph /\ latest'.load = latest.load /\ latest'.focus = Seen'
        BY <1>2, <1>6, <3>3
      <4>3. \A a \in answers : a.stamp <= Seen' /\ Seen' <= a.stamp => h[a.stamp] = h[Seen']
        BY <1>2, <1>4
      <4>4. viewFocus' # 0 /\ viewFocus' = new.focus
        BY <1>2, <3>3, <4>1, EventKinds, BridgeAssumption
      <4>5. Fresh(h)'
        <5>1. ASSUME NEW a \in answers, a.stamp <= Seen', latest.graph <= a.stamp
              PROVE  h[a.stamp].graph = h[Seen'].graph
          BY <2>10, <2>12, <2>13, <4>1, <5>1
        <5> QED  BY <1>3, <4>2, <4>3, <4>4, <5>1 DEF Fresh
      <4> QED  BY <1>5, <2>11, <2>13, <3>3, <4>1, <4>4, <4>5 DEF Showing
    <3> QED  BY <1>1, <3>1, <3>2, <3>3 DEF ReceiveEvent
  <2> QED  BY <1>3, <2>1, <2>2, <2>6, <2>7, <2>14 DEF Recorded
<1> QED  BY <1>2, <1>7 DEF GoodInv
-----------------------------------------------------------------------------
(***************************************************************************)
(* The renderer receives an answer.                                        *)
(***************************************************************************)
LEMMA AnsweredOrder ==
  ASSUME BridgeInv, NEW a \in answers,
         ResyncAnswered(a) \/ LoadAnswered(a) \/ PublishAnswered(a)
  PROVE  /\ OrderInv'
         /\ Seen' = Seen /\ a.stamp <= Seen
         /\ answers' = answers \ {a}
         /\ UNCHANGED <<snapshot, focus, shared, emitted, calls, events, page, latest>>
<1> USE DEF BridgeInv
<1>1. /\ answers' = answers \ {a}
      /\ UNCHANGED <<snapshot, focus, shared, emitted, calls, events, page, latest>>
      /\ \A i \in DOMAIN events : events[i].stamp > a.stamp
  BY DEF ResyncAnswered, LoadAnswered, PublishAnswered, Arrives, backendVars
<1>2. Seen' = Seen  BY <1>1 DEF Seen
<1>3. OrderInv'  BY <1>1, <1>2 DEF OrderInv
<1>4. a.stamp <= Seen
  <2>1. a.stamp \in Nat /\ a.stamp <= emitted /\ emitted \in Nat /\ Seen \in Nat
    BY AnswerKinds DEF TypeInv, WireTypes, BackendTypes, OrderInv
  <2>2. events \in Seq(Event)  BY DEF TypeInv, WireTypes
  <2>3. CASE Len(events) = 0  BY <2>1, <2>3 DEF Seen
  <2>4. CASE Len(events) # 0
    <3>1. 1 \in 1..Len(events) /\ DOMAIN events = 1..Len(events)  BY <2>2, <2>4
    <3>2. events[1].stamp = Seen + 1 /\ events[1].stamp > a.stamp
      BY <1>1, <3>1 DEF OrderInv
    <3> QED  BY <2>1, <3>2
  <2> QED  BY <2>3, <2>4
<1> QED  BY <1>1, <1>2, <1>3, <1>4

LEMMA AnsweredBridge ==
  ASSUME BridgeInv, NEW a \in answers,
         ResyncAnswered(a) \/ LoadAnswered(a) \/ PublishAnswered(a)
  PROVE  OrderInv' /\ GoodInv'
<1> USE DEF BridgeInv
<1>1. /\ OrderInv'
      /\ Seen' = Seen /\ a.stamp <= Seen
      /\ answers' = answers \ {a}
      /\ UNCHANGED <<snapshot, focus, shared, emitted, calls, events, page, latest>>
  BY AnsweredOrder
<1>2. latest \in [graph : Nat, load : Nat, focus : Nat] /\ Seen \in Nat
  BY DEF TypeInv, RendererTypes, OrderInv
<1>3. /\ a.stamp \in Nat /\ a.graph \in Graph
      /\ a.kind = "load" => a.focus = 0
      /\ a.kind = "publish" => a.focus # 0
  <2>1. a \in LoadAnswer \cup ResyncAnswer \cup PublishAnswer  BY DEF TypeInv, WireTypes
  <2> QED  BY <2>1, AnswerKinds, BridgeAssumption
<1>4. ASSUME ~crossed', ~shared'  PROVE ~SharesIds(snapshot'.nodes) /\ Clears' /\ Recorded'
  <2>1. ~crossed  BY <1>4 DEF ResyncAnswered, LoadAnswered, PublishAnswered
  <2>2. ~SharesIds(snapshot.nodes) /\ Clears /\ Recorded  BY <1>1, <1>4, <2>1 DEF GoodInv
  <2>3. PICK h \in History : Told(h) /\ Fresh(h) /\ Showing(h)  BY <2>2 DEF Recorded
  <2>4. PICK now : now = h[Seen]  OBVIOUS
  <2>5. now \in Shown  BY <1>2, <2>3, <2>4 DEF History
  <2>6. Told(h)'  BY <1>1, <2>3 DEF Told
  <2>7. Clears'
    <3> SUFFICES ASSUME NEW i \in 1..Len(events), events[i].kind = "snapshot"
                 PROVE  \E b \in answers' : b.kind = "load" /\ b.stamp = Seen + i
      BY <1>1 DEF Clears
    <3>1. PICK b \in answers : b.kind = "load" /\ b.stamp = Seen + i  BY <2>2 DEF Clears
    <3>2. b.stamp > Seen  BY <1>2, <3>1
    <3>3. b # a  BY <1>1, <1>2, <1>3, <3>2
    <3> QED  BY <1>1, <3>1, <3>3
  <2>8. /\ a.focus = h[a.stamp].focus
        /\ a.kind # "publish" => a.graph = h[a.stamp].graph
    BY <2>3 DEF Told
  <2>9. /\ latest.graph <= a.stamp => h[a.stamp].graph = now.graph
        /\ latest.focus <= a.stamp /\ latest.load <= a.stamp => h[a.stamp].focus = now.focus
        /\ a.kind = "resync" /\ viewFocus = 0 /\ latest.graph <= a.stamp
             => h[a.stamp].focus = now.focus
    BY <1>1, <2>3, <2>4 DEF Fresh
  <2>10. /\ view.revision <= now.graph.revision
         /\ view = now.graph \/ ResyncPending
         /\ \/ ClearPending
            \/ viewFocus # 0 /\ viewFocus = now.focus
            \/ viewFocus = 0 /\ (now.focus = 0 \/ ResyncPending)
    BY <2>3, <2>4 DEF Showing
  <2>11. h[Seen'] = now  BY <1>1, <2>4
  <2>12. Fresh(h)' /\ Showing(h)'
    <3>1. CASE ResyncAnswered(a)
      <4>1. /\ a.kind = "resync" /\ latest.graph <= a.stamp
            /\ view' = IF a.graph.revision >= view.revision THEN a.graph ELSE view
            /\ viewFocus' = IF viewFocus = 0 THEN a.focus ELSE viewFocus
        <5>1. ~(a.stamp < latest.graph)  BY <1>4, <3>1, Zenon DEF ResyncAnswered
        <5> QED  BY <1>2, <1>3, <3>1, <5>1 DEF ResyncAnswered
      <4>2. a.graph = now.graph  BY <2>8, <2>9, <4>1
      <4>3. now.graph.revision \in Int /\ view.revision \in Int
        BY <2>5 DEF Shown, Graph, TypeInv, RendererTypes
      <4>4. view' = now.graph  BY <2>10, <4>1, <4>2, <4>3
      <4>5. viewFocus = 0 => viewFocus' = now.focus  BY <2>8, <2>9, <4>1
      <4>6. viewFocus # 0 => viewFocus' = viewFocus  BY <4>1
      <4>7. viewFocus' = 0 => viewFocus = 0  BY <4>6
      <4>8. ClearPending => ClearPending'
        BY <1>1, <4>1 DEF ClearPending
      <4>9. Fresh(h)'  BY <1>1, <2>3, <4>7 DEF Fresh
      <4>10. view'.revision <= h[Seen'].graph.revision  BY <2>11, <4>3, <4>4
      <4>11. \/ ClearPending'
             \/ viewFocus' # 0 /\ viewFocus' = now.focus
             \/ viewFocus' = 0 /\ now.focus = 0
        BY <2>10, <4>5, <4>6, <4>8
      <4> QED  BY <2>11, <4>4, <4>9, <4>10, <4>11 DEF Showing
    <3>2. CASE LoadAnswered(a)
      <4>1. /\ a.kind = "load" /\ latest.graph <= a.stamp /\ latest.focus <= a.stamp
            /\ view' = a.graph /\ viewFocus' = 0
        <5>1. ~(a.stamp < latest.graph) /\ ~(a.stamp < latest.focus)
          BY <1>4, <3>2, Zenon DEF LoadAnswered
        <5> QED  BY <1>2, <1>3, <3>2, <5>1 DEF LoadAnswered
      <4>2. a.stamp <= latest.load /\ latest.load <= latest.graph
        BY <1>1, <4>1 DEF OrderInv
      <4>3. latest.load <= a.stamp /\ latest.graph = latest.load /\ latest.focus <= latest.load
        BY <1>2, <1>3, <4>1, <4>2
      <4>4. a.graph = now.graph /\ now.focus = 0
        BY <1>3, <2>8, <2>9, <4>1, <4>3
      <4>5. Fresh(h)'
        <5>1. ASSUME NEW b \in answers, b.stamp <= Seen, latest.graph <= b.stamp
              PROVE  h[b.stamp].focus = now.focus
          <6>1. b.stamp \in Nat  BY AnswerKinds DEF TypeInv, WireTypes
          <6>2. latest.focus <= b.stamp /\ latest.load <= b.stamp
            BY <1>2, <4>3, <5>1, <6>1
          <6> QED  BY <2>3, <2>4, <5>1, <6>2 DEF Fresh
        <5> QED  BY <1>1, <2>3, <2>4, <5>1 DEF Fresh
      <4>6. view'.revision <= h[Seen'].graph.revision
        <5>1. now.graph.revision \in Int  BY <2>5 DEF Shown, Graph
        <5> QED  BY <2>11, <4>1, <4>4, <5>1
      <4> QED  BY <2>11, <4>1, <4>4, <4>5, <4>6 DEF Showing
    <3>3. CASE PublishAnswered(a)
      <4>1. /\ a.kind = "publish" /\ latest.focus <= a.stamp /\ latest.load <= a.stamp
            /\ view' = view /\ viewFocus' = a.focus
        <5>1. ~(a.stamp < latest.focus) /\ ~(a.stamp < latest.load)
          BY <1>4, <3>3, Zenon DEF PublishAnswered
        <5> QED  BY <1>2, <1>3, <3>3, <5>1 DEF PublishAnswered
      <4>2. viewFocus' # 0 /\ viewFocus' = now.focus  BY <1>3, <2>8, <2>9, <4>1
      <4>3. Fresh(h)'  BY <1>1, <2>3, <4>2 DEF Fresh
      <4>4. ResyncPending => ResyncPending'  BY <1>1, <4>1 DEF ResyncPending
      <4> QED  BY <2>10, <2>11, <4>1, <4>2, <4>3, <4>4 DEF Showing
    <3> QED  BY <3>1, <3>2, <3>3
  <2> QED  BY <1>1, <2>2, <2>3, <2>6, <2>7, <2>12 DEF Recorded
<1> QED  BY <1>1, <1>4 DEF GoodInv

-----------------------------------------------------------------------------
LEMMA StepBridge == BridgeInv /\ [Next]_vars => BridgeInv'
<1> SUFFICES ASSUME BridgeInv, [Next]_vars  PROVE OrderInv' /\ GoodInv'
  BY StepTypes DEF BridgeInv
<1>1. CASE UNCHANGED vars
  <2>1. /\ UNCHANGED <<snapshot, focus, shared, emitted, calls, answers, events, page>>
        /\ UNCHANGED <<view, viewFocus, latest, crossed>>
    BY <1>1 DEF vars, backendVars, rendererVars
  <2>2. Seen' = Seen  BY <2>1 DEF Seen
  <2>3. OrderInv'  BY <2>1, <2>2 DEF BridgeInv, OrderInv
  <2>4. ResyncPending' = ResyncPending /\ ClearPending' = ClearPending
    BY <2>1, <2>2 DEF ResyncPending, ClearPending
  <2>5. GoodInv'
    BY <2>1, <2>2, <2>4 DEF BridgeInv, GoodInv, Recorded, Told, Fresh, Showing, Clears
  <2> QED  BY <2>3, <2>5
<1>2. CASE Next
  BY <1>2, LoadBridge, LoadFailsBridge, ResyncBridge, PublishBridge, RefreshBridge,
     RequestBridge, ReloadBridge, ReceiveBridge, AnsweredBridge DEF Next
<1> QED  BY <1>1, <1>2

\* "Resync returns one authoritative renderer view": for any projects, paths,
\* operations and page reloads, a page with nothing under way shows the graph
\* and the focus of the backend, unless an answer was overtaken by a younger
\* event, a load failed half way or outlived its page, or two nodes of a
\* refreshed graph had one identity.
THEOREM QuietPageIsCurrent == Spec => []QuietViewIsCurrent
<1>1. BridgeInv => QuietViewIsCurrent
  <2> SUFFICES ASSUME BridgeInv, Quiet, ~crossed, ~shared
               PROVE  view = snapshot /\ viewFocus = focus
    BY DEF QuietViewIsCurrent
  <2>1. PICK h \in History : Told(h) /\ Showing(h)  BY DEF BridgeInv, GoodInv, Recorded
  <2>2. Seen = emitted
    <3>1. events = <<>> /\ emitted \in Nat  BY DEF Quiet, BridgeInv, TypeInv, BackendTypes
    <3>2. Len(events) = 0  BY <3>1
    <3> QED  BY <3>1, <3>2 DEF Seen
  <2>3. h[Seen] = [graph |-> snapshot, focus |-> focus]  BY <2>1, <2>2 DEF Told
  <2>4. ~ResyncPending /\ ~ClearPending  BY DEF Quiet, ResyncPending, ClearPending
  <2> QED  BY <2>1, <2>3, <2>4 DEF Showing
<1> QED  BY <1>1, InitBridge, StepBridge, PTL DEF Spec
=============================================================================
