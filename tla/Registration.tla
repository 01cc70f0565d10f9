---------------------------- MODULE Registration ----------------------------
(***************************************************************************)
(* The registration requests of src/src/proc/processor and the queries of  *)
(* src/src/proc/query they are made of, over the graph that Neo4j holds.   *)
(*                                                                         *)
(* An HTTP worker thread handles one request at a time.  A handler is a    *)
(* sequence of queries; each query is one transaction of the database, and *)
(* between two queries of a request the queries of other workers run.      *)
(*                                                                         *)
(* Every query may fail.  Through the DatabaseManager (discover) a query   *)
(* that fails is retried and in the end returns null; with a plain         *)
(* connection it throws.  A retried query may have been applied before its *)
(* answer was lost; an action named ...Lost is that first round.  A query  *)
(* that only reads has none: asked again, it reads again.                  *)
(*                                                                         *)
(* The graph is counted, not drawn: how many Scene nodes have a key, how   *)
(* many UserDevice nodes with a key are linked from them, how many links   *)
(* lead from one scene to another, which devices have nodes that no scene  *)
(* leads to.  A count stops at Many.  Transforms are in Alignment.         *)
(***************************************************************************)
EXTENDS Naturals, FiniteSets

CONSTANTS
  Workers,       \* HTTP worker threads
  Scenes, Devices,
  EmptyKey,      \* the key of a scene that a request does not name
  NoScene,       \* scene_list of a request is empty
  NoDevice,      \* the scene of a request has no device
  Asked,         \* bound: the requests that clients make
  MaxFaults,     \* bound: queries that fail
  MaxLinks       \* bound: links counted from one scene to another

ASSUME KeysDistinct ==
  /\ EmptyKey \notin Scenes
  /\ NoScene \notin Scenes \cup {EmptyKey}
  /\ NoDevice \notin Devices
ASSUME MaxFaultsNat == MaxFaults \in Nat
ASSUME MaxLinksPositive == MaxLinks \in Nat \ {0}

Many == 2        \* bound of the other counts: two stands for two or more
Capped(n, bound) == IF n > bound THEN bound ELSE n

Keys == Scenes \cup {EmptyKey}
Kinds == {"SCENE_ENTER", "SCENE_LEAVE", "DEVICE_ALIGN", "DEVICE_GET", "SCENE_CRT", "SCENE_DEL"}
MemberKinds == {"SCENE_ENTER", "SCENE_LEAVE", "DEVICE_ALIGN"}
DeviceKinds == MemberKinds \cup {"DEVICE_GET"}

\* What the handlers look at: the first scene of the message and, in the
\* device requests, its first device.  A handler that finds no device, or asks
\* for one in whatever scene, does not look at the scene's key: EmptyKey.
Requests ==
  {r \in [kind : Kinds, scene : Keys \cup {NoScene}, device : Devices \cup {NoDevice}] :
     /\ r.scene = NoScene \/ r.kind \notin DeviceKinds => r.device = NoDevice
     /\ r.kind \in DeviceKinds /\ (r.device = NoDevice \/ r.kind = "DEVICE_GET")
          => r.scene \in {NoScene, EmptyKey}}

ASSUME AskedAreRequests == Asked \subseteq Requests

NoRequest == [kind |-> "SCENE_CRT", scene |-> NoScene, device |-> NoDevice]

VARIABLES
  discover,    \* neo4j.discover: queries go through the DatabaseManager
  nodes,       \* nodes[k]: Scene nodes with key k
  regs,        \* regs[k][d]: UserDevice nodes with key d linked from scene k
  links,       \* links[j][k]: TRANSFORM edges from scene j to scene k
  orphans,     \* devices with UserDevice nodes that no scene is linked to
  pc, req,     \* a worker's place in its handler, and the request
  others,      \* registered_scenes of an alignment, as rows per scene
  err,         \* current_err_code
  faults,      \* queries that failed so far
  disturbed,   \* history: while a worker was at its request another one
               \* changed the same registration, or one of its queries failed
  tainted      \* history: scenes created twice, by overlapping requests, by
               \* an explicit second create, or by a query that was retried

graphVars == <<nodes, regs, links, orphans>>
workerVars == <<pc, req, others, err>>
historyVars == <<disturbed, tainted>>
vars == <<discover, graphVars, workerVars, faults, historyVars>>

Steps == {"idle", "exists", "create", "lookup", "link", "leave",
          "update", "rows", "scenelinks", "get", "delete", "respond", "dead"}
Errors == {"NO_ERROR", "INSUFF_DATA_ERROR", "PROCESSING_ERROR", "NOT_FOUND",
           "SceneException"}

NoRows == [k \in Keys |-> 0]

Init ==
  /\ discover \in BOOLEAN
  /\ nodes = [k \in Keys |-> 0]
  /\ regs = [k \in Keys |-> [d \in Devices |-> 0]]
  /\ links = [j \in Keys |-> NoRows]
  /\ orphans = {}
  /\ pc = [w \in Workers |-> "idle"]
  /\ req = [w \in Workers |-> NoRequest]
  /\ others = [w \in Workers |-> NoRows]
  /\ err = [w \in Workers |-> "NO_ERROR"]
  /\ faults = 0
  /\ disturbed = [w \in Workers |-> FALSE]
  /\ tainted = {}

-----------------------------------------------------------------------------
(* What the queries do to the graph. *)

\* CREATE (scn:Scene {key: ...}).  Without a key in the message the node gets
\* a new uuid, which process_registration_message does not learn.
Created(k) == IF k = EmptyKey THEN nodes
              ELSE [nodes EXCEPT ![k] = Capped(@ + 1, Many)]

\* MATCH (scn:Scene {key: k}) CREATE (scn)-[:TRANSFORM]->(:UserDevice {key: d}):
\* a new UserDevice for each Scene node that matches.
Linked(k, d) == [regs EXCEPT ![k][d] = Capped(@ + nodes[k], Many)]

\* MATCH (scn:Scene {key: k})-[:TRANSFORM]->(ud:UserDevice {key: d}) DETACH DELETE ud
RemovedOne(k, d) == [regs EXCEPT ![k][d] = @ - 1]   \* slip: one row, unseen
RemovedAll(k, d) ==                              \* slip: no {key: k}
  [j \in Keys |-> [regs[j] EXCEPT ![d] = 0]]
Removed(k, d) == [regs EXCEPT ![k][d] = 0]

\* MATCH (a {key: j}), (b {key: k}) CREATE (a)-[:TRANSFORM]->(b)
SceneLinked(j, k) ==
  [links EXCEPT ![j][k] = Capped(@ + nodes[j] * nodes[k], MaxLinks)]

\* MATCH (scn:Scene {key: k}) DETACH DELETE scn
Detached(k) == [j \in Keys |-> [i \in Keys |->
                  IF j = k \/ i = k THEN 0 ELSE links[j][i]]]

-----------------------------------------------------------------------------
Scene(w) == req[w].scene
Device(w) == req[w].device
Busy(w) == pc[w] # "idle"

Goto(w, step) == pc' = [pc EXCEPT ![w] = step]

\* A null pointer is followed, and the process ends with all its threads.
Crash == pc' = [v \in Workers |-> "dead"]

\* The handler sets current_err_code, which makes it skip to the response.
Fail(w, code) ==
  /\ pc' = [pc EXCEPT ![w] = "respond"]
  /\ err' = [err EXCEPT ![w] = code]

\* A query of worker w fails, or its answer is lost.
Fault(w) ==
  /\ faults < MaxFaults
  /\ faults' = faults + 1

Disturb(S) == disturbed' = [w \in Workers |-> disturbed[w] \/ w \in S]

\* The other workers whose request is about one of the devices D of scene k;
\* a device query is about the device in every scene.
Rivals(w, k, D) ==
  {v \in Workers \ {w} : /\ Busy(v) /\ Device(v) \in D
                         /\ Scene(v) = k \/ req[v].kind = "DEVICE_GET"}

Creators(k) == {v \in Workers : /\ Busy(v) /\ Scene(v) = k
                                /\ req[v].kind \in {"SCENE_ENTER", "SCENE_CRT"}}

-----------------------------------------------------------------------------
(* A request arrives and leaves. *)

FirstStep(kind) ==
  CASE kind = "SCENE_ENTER" -> "exists"
    [] kind = "SCENE_LEAVE" -> "leave"
    [] kind = "DEVICE_ALIGN" -> "update"
    [] kind = "DEVICE_GET" -> "get"
    [] kind = "SCENE_CRT" -> "create"
    [] kind = "SCENE_DEL" -> "delete"

\* handleRequest passes the request on to the processor, which first looks
\* for a scene and, for the device requests, for a device.  Without a scene
\* the handlers of MemberKinds throw when they build the response.
Begin(w, r) ==
  /\ pc[w] = "idle"
  /\ req' = [req EXCEPT ![w] = r]
  /\ IF \/ r.scene = NoScene
        \/ r.kind \in DeviceKinds /\ r.device = NoDevice
        \/ r.kind = "SCENE_DEL" /\ r.scene = EmptyKey
     THEN Fail(w, CASE r.scene # NoScene -> "INSUFF_DATA_ERROR"
                    [] r.scene = NoScene /\ r.kind \in MemberKinds -> "SceneException"
                    [] OTHER -> "PROCESSING_ERROR")
     ELSE Goto(w, FirstStep(r.kind)) /\ UNCHANGED err
  /\ tainted' = IF /\ r.kind \in {"SCENE_ENTER", "SCENE_CRT"}
                   /\ r.scene \in Scenes
                   /\ \/ Creators(r.scene) # {}
                      \/ r.kind = "SCENE_CRT" /\ nodes[r.scene] > 0
                THEN tainted \cup {r.scene} ELSE tainted
  /\ UNCHANGED <<discover, graphVars, others, faults, disturbed>>

\* The response goes out and the locals of the handler are gone.
Respond(w) ==
  /\ pc[w] = "respond"
  /\ Goto(w, "idle")
  /\ req' = [req EXCEPT ![w] = NoRequest]
  /\ err' = [err EXCEPT ![w] = "NO_ERROR"]
  /\ disturbed' = [disturbed EXCEPT ![w] = FALSE]
  /\ UNCHANGED <<discover, graphVars, others, faults, tainted>>

-----------------------------------------------------------------------------
(* process_registration_message. *)

\* A query of a creating request fails: it can run twice, or be answered as
\* if its subject were not there.
CreatorFault(w) ==
  /\ Fault(w)
  /\ Disturb({w})
  /\ tainted' = tainted \cup ({Scene(w)} \cap Scenes)

\* scene_exists
SceneExists(w) ==
  /\ pc[w] = "exists"
  /\ Goto(w, IF nodes[Scene(w)] > 0 THEN "lookup" ELSE "create")
  /\ UNCHANGED <<discover, graphVars, req, others, err, faults,
                 historyVars>>

\* A null result counts as "no such scene"; an exception ends the request.
SceneExistsFails(w) ==
  /\ pc[w] = "exists"
  /\ CreatorFault(w)
  /\ IF discover THEN Goto(w, "create") /\ UNCHANGED err
                 ELSE Fail(w, "PROCESSING_ERROR")
  /\ UNCHANGED <<discover, graphVars, req, others>>

\* process_create_message, for the request itself or for the first device
\* that registers to an unknown scene.
CreateScene(w) ==
  /\ pc[w] = "create"
  /\ nodes' = Created(Scene(w))
  /\ Goto(w, IF req[w].kind = "SCENE_ENTER" THEN "link" ELSE "respond")
  /\ UNCHANGED <<discover, regs, links, orphans, req, others, err, faults,
                 historyVars>>

\* The node is created, but the manager sees an exception and tries again.
CreateSceneLost(w) ==
  /\ pc[w] = "create" /\ discover
  /\ CreatorFault(w)
  /\ nodes' = Created(Scene(w))
  /\ UNCHANGED <<discover, regs, links, orphans, workerVars>>

\* Not created, or created without an answer: either is answered as failed.
CreateSceneFails(w) ==
  /\ pc[w] = "create"
  /\ CreatorFault(w)
  /\ \/ UNCHANGED nodes
     \/ nodes' = Created(Scene(w))
  /\ Fail(w, "PROCESSING_ERROR")
  /\ UNCHANGED <<discover, regs, links, orphans, req, others>>

\* is_ud_registered.  The registrations of the device in other scenes are
\* queried next, and not looked at: previously_registered starts false (line
\* 33) and is only ever cleared (lines 120 to 122), so no transform is looked
\* for (lines 137 to 167), a new UserDevice is created (line 169) and no link
\* is made between scenes (lines 191 to 195).
NeverRegistered(w) == FALSE                     \* slip: the rows not read
AlwaysRegistered(w) == TRUE                     \* slip: result_found unset
IsRegistered(w) == regs[Scene(w)][Device(w)] > 0

Lookup(w) ==
  /\ pc[w] = "lookup"
  /\ Goto(w, IF IsRegistered(w) THEN "respond" ELSE "link")
  /\ UNCHANGED <<discover, graphVars, req, others, err, faults, historyVars>>

\* A failed query counts as "not registered".
LookupFails(w) ==
  /\ pc[w] = "lookup"
  /\ CreatorFault(w)
  /\ Goto(w, "link")
  /\ UNCHANGED <<discover, graphVars, req, others, err>>

\* register_device_to_scene
LinkDevice(w) ==
  /\ pc[w] = "link"
  /\ regs' = Linked(Scene(w), Device(w))
  /\ Goto(w, "respond")
  /\ Disturb(Rivals(w, Scene(w), {Device(w)}))
  /\ UNCHANGED <<discover, nodes, links, orphans, req, others, err, faults,
                 tainted>>

LinkDeviceLost(w) ==
  /\ pc[w] = "link" /\ discover
  /\ Fault(w)
  /\ regs' = Linked(Scene(w), Device(w))
  /\ Disturb(Rivals(w, Scene(w), {Device(w)}) \cup {w})
  /\ tainted' = tainted \cup ({Scene(w)} \cap Scenes)
  /\ UNCHANGED <<discover, nodes, links, orphans, workerVars>>

\* The failure is logged and nothing else: the request is answered as done.
LinkDeviceFails(w) ==
  /\ pc[w] = "link"
  /\ Fault(w)
  /\ \/ UNCHANGED regs
     \/ regs' = Linked(Scene(w), Device(w))
  /\ Disturb(Rivals(w, Scene(w), {Device(w)}) \cup {w})
  /\ Goto(w, "respond")
  /\ UNCHANGED <<discover, nodes, links, orphans, req, others, err, tainted>>

-----------------------------------------------------------------------------
(* process_deregistration_message and process_delete_message. *)

\* remove_device_from_scene; what it finds makes no difference.
RemoveDevice(w) ==
  /\ pc[w] = "leave"
  /\ regs' = Removed(Scene(w), Device(w))
  /\ Goto(w, "respond")
  /\ Disturb(Rivals(w, Scene(w), {Device(w)}))
  /\ UNCHANGED <<discover, nodes, links, orphans, req, others, err, faults,
                 tainted>>

\* The device is removed, and the query runs again and finds nothing.
RemoveDeviceLost(w) ==
  /\ pc[w] = "leave" /\ discover
  /\ Fault(w)
  /\ regs' = Removed(Scene(w), Device(w))
  /\ Disturb(Rivals(w, Scene(w), {Device(w)}))
  /\ UNCHANGED <<discover, nodes, links, orphans, workerVars, tainted>>

\* Not removed, or removed without an answer: either is answered as done.
RemoveDeviceFails(w) ==
  /\ pc[w] = "leave"
  /\ Fault(w)
  /\ \/ UNCHANGED regs
     \/ regs' = Removed(Scene(w), Device(w))
  /\ Goto(w, "respond")
  /\ Disturb(Rivals(w, Scene(w), {Device(w)}) \cup {w})
  /\ UNCHANGED <<discover, nodes, links, orphans, req, others, err, tainted>>

RegsDetached(k) == [regs EXCEPT ![k] = [d \in Devices |-> 0]]

\* DETACH DELETE takes the links of the scene away, those to devices too; the
\* nodes of its devices stay, and no query leads to them but a device query.
Left(k) == {d \in Devices : regs[k][d] > 0}

Deleted(k) ==
  /\ nodes' = [nodes EXCEPT ![k] = 0]
  /\ regs' = RegsDetached(k)
  /\ links' = Detached(k)
  /\ orphans' = orphans \cup Left(k)

DeleteScene(w) ==
  /\ pc[w] = "delete"
  /\ Deleted(Scene(w))
  /\ Goto(w, "respond")
  /\ Disturb(Rivals(w, Scene(w), Devices))
  /\ UNCHANGED <<discover, req, others, err, faults, tainted>>

DeleteSceneLost(w) ==
  /\ pc[w] = "delete" /\ discover
  /\ Fault(w)
  /\ Deleted(Scene(w))
  /\ Disturb(Rivals(w, Scene(w), Devices))
  /\ UNCHANGED <<discover, workerVars, tainted>>

DeleteSceneFails(w) ==
  /\ pc[w] = "delete"
  /\ Fault(w)
  /\ UNCHANGED graphVars \/ Deleted(Scene(w))
  /\ Fail(w, "PROCESSING_ERROR")
  /\ Disturb(Rivals(w, Scene(w), Devices) \cup {w})
  /\ UNCHANGED <<discover, req, others, tainted>>

-----------------------------------------------------------------------------
(* process_device_alignment_message. *)

\* update_device_registration: if no link is found, NOT_FOUND.
UpdateRegistration(w) ==
  /\ pc[w] = "update"
  /\ IF IsRegistered(w)
     THEN Goto(w, "rows") /\ UNCHANGED err
     ELSE Fail(w, "NOT_FOUND")
  /\ UNCHANGED <<discover, graphVars, req, others, faults, historyVars>>

UpdateRegistrationFails(w) ==
  /\ pc[w] = "update"
  /\ Fault(w)
  /\ Fail(w, IF discover THEN "NOT_FOUND" ELSE "PROCESSING_ERROR")
  /\ Disturb({w})
  /\ UNCHANGED <<discover, graphVars, req, others, tainted>>

\* The rows of get_registrations: one for each link to a device with this key.
Rows(w) == [k \in Keys |-> regs[k][Device(w)]]

\* get_registrations returns a null pointer when it finds no row, and
\* process_UDUD_transformation calls num_scenes() on it.
GetRows(w) ==
  /\ pc[w] = "rows"
  /\ \/ /\ Rows(w) = NoRows
        /\ Crash
        /\ UNCHANGED others
     \/ /\ Rows(w) # NoRows
        /\ others' = [others EXCEPT ![w] = Rows(w)]
        /\ Goto(w, "scenelinks")
  /\ UNCHANGED <<discover, graphVars, req, err, faults, historyVars>>

\* Its query fails: the same null pointer.
GetRowsFails(w) ==
  /\ pc[w] = "rows"
  /\ Fault(w)
  /\ Disturb({w})
  /\ Crash
  /\ UNCHANGED <<discover, graphVars, req, others, err, tainted>>

\* if (scene1_key != scene2_key)
OtherRows(w) == {j \in Keys \ {Scene(w)} : others[w][j] > 0}

\* process_UDUD_transformation is over, or left by an exception.
NoMoreRows(w) == others' = [others EXCEPT ![w] = NoRows]

\* get_scene_link looks for a property "key" of the link it finds, which no
\* query sets, so it returns 0 and create_scene_link adds a link.  If one of
\* the scenes is gone no row is returned, and that throws.
LinkScenes(w) ==
  /\ pc[w] = "scenelinks"
  /\ \E j \in OtherRows(w) :
       /\ links' = SceneLinked(j, Scene(w))
       /\ IF nodes[j] = 0 \/ nodes[Scene(w)] = 0
          THEN Fail(w, "PROCESSING_ERROR") /\ NoMoreRows(w)
          ELSE /\ others' = [others EXCEPT ![w][j] = @ - 1]
               /\ UNCHANGED <<pc, err>>
  /\ UNCHANGED <<discover, nodes, regs, orphans, req, faults, historyVars>>

\* A link is made, and the query runs again and makes another one.
LinkScenesLost(w) ==
  /\ pc[w] = "scenelinks" /\ discover
  /\ Fault(w)
  /\ \E j \in OtherRows(w) : links' = SceneLinked(j, Scene(w))
  /\ UNCHANGED <<discover, nodes, regs, orphans, workerVars, historyVars>>

\* create_scene_link throws, or returns null, which it turns into a throw.
LinkScenesFails(w) ==
  /\ pc[w] = "scenelinks"
  /\ \E j \in OtherRows(w) : links' \in {links, SceneLinked(j, Scene(w))}
  /\ Fault(w)
  /\ Fail(w, "PROCESSING_ERROR")
  /\ NoMoreRows(w)
  /\ Disturb({w})
  /\ UNCHANGED <<discover, nodes, regs, orphans, req, tainted>>

LinkScenesDone(w) ==
  /\ pc[w] = "scenelinks" /\ OtherRows(w) = {}
  /\ NoMoreRows(w)
  /\ Goto(w, "respond")
  /\ UNCHANGED <<discover, graphVars, req, err, faults, historyVars>>

-----------------------------------------------------------------------------
(* process_device_get_message. *)

\* MATCH (ud:UserDevice {key: d}) RETURN ud, of which the first row is taken:
\* whatever scene a node belongs to, or none.
InScenes(d) == {k \in Keys : regs[k][d] > 0}
FoundInScene(w) == IsRegistered(w)              \* slip: as is_ud_registered
Found(w) == InScenes(Device(w)) # {} \/ Device(w) \in orphans

GetDevice(w) ==
  /\ pc[w] = "get"
  /\ IF Found(w) THEN Goto(w, "respond") /\ UNCHANGED err
                 ELSE Fail(w, "NOT_FOUND")
  /\ UNCHANGED <<discover, graphVars, req, others, faults, historyVars>>

GetDeviceFails(w) ==
  /\ pc[w] = "get"
  /\ Fault(w)
  /\ Fail(w, "PROCESSING_ERROR")
  /\ Disturb({w})
  /\ UNCHANGED <<discover, graphVars, req, others, tainted>>

-----------------------------------------------------------------------------
Enter(w) ==
  \/ SceneExists(w) \/ SceneExistsFails(w)
  \/ CreateScene(w) \/ CreateSceneLost(w) \/ CreateSceneFails(w)
  \/ Lookup(w) \/ LookupFails(w)
  \/ LinkDevice(w) \/ LinkDeviceLost(w) \/ LinkDeviceFails(w)

Leave(w) ==
  \/ RemoveDevice(w) \/ RemoveDeviceLost(w) \/ RemoveDeviceFails(w)
  \/ DeleteScene(w) \/ DeleteSceneLost(w) \/ DeleteSceneFails(w)

Align(w) ==
  \/ UpdateRegistration(w) \/ UpdateRegistrationFails(w)
  \/ GetRows(w) \/ GetRowsFails(w)
  \/ LinkScenes(w) \/ LinkScenesLost(w) \/ LinkScenesFails(w) \/ LinkScenesDone(w)

Next ==
  \E w \in Workers :
    \/ \E r \in Asked : Begin(w, r)
    \/ Enter(w) \/ Leave(w) \/ Align(w) \/ Respond(w)
    \/ GetDevice(w) \/ GetDeviceFails(w)

Spec == Init /\ [][Next]_vars

-----------------------------------------------------------------------------
TypeOK ==
  /\ discover \in BOOLEAN
  /\ nodes \in [Keys -> 0..Many]
  /\ regs \in [Keys -> [Devices -> 0..Many]]
  /\ links \in [Keys -> [Keys -> 0..MaxLinks]]
  /\ orphans \in SUBSET Devices
  /\ pc \in [Workers -> Steps]
  /\ req \in [Workers -> Requests]
  /\ others \in [Workers -> [Keys -> 0..Many]]
  /\ err \in [Workers -> Errors]
  /\ faults \in 0..MaxFaults
  /\ disturbed \in [Workers -> BOOLEAN]
  /\ tainted \in SUBSET Scenes

\* Registering again changes nothing: unless creating requests for a scene
\* overlapped or a query was lost, there is one node for the scene and one
\* for each device registered to it, which gets each event once.  Where the
\* uniqueness constraint on Scene.key that docs/pages/deploy.rst recommends
\* is installed, the database refuses the second node, and its request takes
\* CreateSceneFails; the constraint says nothing of the devices.
RegisteredOnce ==
  \A k \in Scenes \ tainted :
    nodes[k] <= 1 /\ \A d \in Devices : regs[k][d] <= 1

Answering(w, kind, code) ==
  /\ pc[w] = "respond" /\ ~disturbed[w]
  /\ req[w].kind = kind /\ err[w] = code
  /\ Scene(w) \in Scenes \/ kind = "DEVICE_GET"

\* An answer is true of the database when it is sent, unless another request
\* for the same registration was served meanwhile or a query failed:
\* NO_ERROR to a registration means registered, NO_ERROR to a deregistration
\* means not registered, an alignment is NOT_FOUND only for a device that is
\* not registered, a device query only for one that is in no scene, and a
\* device that is found is in a scene or was left behind by a deleted one.
AnswersTrue ==
  \A w \in Workers :
    LET registered == regs[Scene(w)][Device(w)] > 0 IN
    /\ Answering(w, "SCENE_ENTER", "NO_ERROR") => registered
    /\ Answering(w, "SCENE_LEAVE", "NO_ERROR") => ~registered
    /\ Answering(w, "DEVICE_ALIGN", "NO_ERROR") => registered
    /\ Answering(w, "DEVICE_ALIGN", "NOT_FOUND") => ~registered
    /\ Answering(w, "DEVICE_GET", "NOT_FOUND") => InScenes(Device(w)) = {}
    /\ Answering(w, "DEVICE_GET", "NO_ERROR") =>
         InScenes(Device(w)) # {} \/ Device(w) \in orphans

\* The null pointer of get_registrations is followed only when the device
\* was deregistered, or its scene deleted, between the two queries of an
\* alignment, or when the second query failed.
CrashNeedsRival ==
  [][Crash => \E w \in Workers : pc[w] = "rows" /\ disturbed'[w]]_vars

\* The scenes and the registrations of the graph change as SceneRegistry
\* says: on behalf of a request that is under way, about the scene and the
\* device it names, and never by an alignment.  A scene goes with the request
\* that deletes it and not with its last device, although the comment at
\* lines 285 and 286 of message_processor.cpp says that.
Registry ==
  INSTANCE SceneRegistry WITH
    Nothing <- NoRequest,
    scenes <- {k \in Keys : nodes[k] > 0},
    members <- {m \in Keys \X Devices : regs[m[1]][m[2]] > 0},
    asking <- req

ImplementsRegistry == Registry!Spec

\* "Overwrite an existing scene-scene link between scene A and scene B"
\* (docs/pages/algorithm.rst line 34): aligning again adds no second link.
\* Scenes created twice are left out: they have two nodes to link.
OneSceneLink ==
  \A j, k \in Scenes \ tainted : links[j][k] + links[k][j] <= 1
=============================================================================
