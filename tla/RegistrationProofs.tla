------------------------- MODULE RegistrationProofs -------------------------
(***************************************************************************)
(* Proofs about Registration: for any number of workers, scenes, devices   *)
(* and failing queries, types are kept, scenes and registrations    *)
(* are made once, answers are true, the process crashes only where         *)
(* something came between, and the requests keep the promises of           *)
(* SceneRegistry.                                                          *)
(***************************************************************************)
EXTENDS Registration, TLAPS

-----------------------------------------------------------------------------
(* Counts. *)

LEMMA CappedCount ==
  ASSUME NEW n \in Nat, NEW bound \in Nat \ {0}
  PROVE  Capped(n, bound) \in 0..bound
  BY DEF Capped

LEMMA PairCount ==
  ASSUME NEW m \in 0..Many, NEW n \in 0..Many
  PROVE  m * n \in Nat
<1>1. m \in {0, 1, 2} /\ n \in {0, 1, 2}
  BY DEF Many
<1> QED
  BY <1>1

\* What a creation, a registration and a link between scenes change.
LEMMA CreatedNodes ==
  ASSUME NEW k \in Keys, nodes \in [Keys -> 0..Many]
  PROVE  /\ Created(k) \in [Keys -> 0..Many]
         /\ \A j \in Keys : Created(k)[j] =
              IF j = k /\ k # EmptyKey THEN Capped(nodes[j] + 1, Many) ELSE nodes[j]
<1>1. \A j \in Keys : Capped(nodes[j] + 1, Many) \in 0..Many
  BY DEF Capped, Many
<1> QED
  BY <1>1 DEF Created

LEMMA LinkedDevices ==
  ASSUME NEW k \in Keys, NEW d \in Devices, nodes \in [Keys -> 0..Many],
         regs \in [Keys -> [Devices -> 0..Many]]
  PROVE  /\ Linked(k, d) \in [Keys -> [Devices -> 0..Many]]
         /\ \A j \in Keys, e \in Devices : Linked(k, d)[j][e] =
              IF j = k /\ e = d THEN Capped(regs[j][e] + nodes[k], Many) ELSE regs[j][e]
<1>1. Capped(regs[k][d] + nodes[k], Many) \in 0..Many
  BY DEF Capped, Many
<1> QED
  BY <1>1 DEF Linked

LEMMA RemovedDevices ==
  ASSUME NEW k \in Keys, NEW d \in Devices, regs \in [Keys -> [Devices -> 0..Many]]
  PROVE  /\ Removed(k, d) \in [Keys -> [Devices -> 0..Many]]
         /\ \A j \in Keys, e \in Devices : Removed(k, d)[j][e] =
              IF j = k /\ e = d THEN 0 ELSE regs[j][e]
  BY DEF Removed, Many

LEMMA DetachedDevices ==
  ASSUME NEW k \in Keys, regs \in [Keys -> [Devices -> 0..Many]]
  PROVE  /\ RegsDetached(k) \in [Keys -> [Devices -> 0..Many]]
         /\ \A j \in Keys, e \in Devices : RegsDetached(k)[j][e] =
              IF j = k THEN 0 ELSE regs[j][e]
  BY DEF RegsDetached, Many

LEMMA DetachedScenes ==
  ASSUME NEW k \in Keys, links \in [Keys -> [Keys -> 0..MaxLinks]]
  PROVE  /\ Detached(k) \in [Keys -> [Keys -> 0..MaxLinks]]
         /\ \A i, j \in Keys : Detached(k)[i][j] =
              IF i = k \/ j = k THEN 0 ELSE links[i][j]
  BY MaxLinksPositive DEF Detached

LEMMA LinkedScenes ==
  ASSUME NEW j \in Keys, NEW k \in Keys, nodes \in [Keys -> 0..Many],
         links \in [Keys -> [Keys -> 0..MaxLinks]]
  PROVE  SceneLinked(j, k) \in [Keys -> [Keys -> 0..MaxLinks]]
<1> DEFINE n == Capped(links[j][k] + nodes[j] * nodes[k], MaxLinks)
<1>1. n \in 0..MaxLinks
  <2>1. nodes[j] * nodes[k] \in Nat /\ links[j][k] \in Nat
    BY PairCount, MaxLinksPositive
  <2> HIDE DEF n
  <2> QED
    BY <2>1, MaxLinksPositive, CappedCount DEF n
<1> HIDE DEF n
<1>2. SceneLinked(j, k) = [links EXCEPT ![j][k] = n]
  BY DEF SceneLinked, n
<1> QED
  BY <1>1, <1>2, MaxLinksPositive

-----------------------------------------------------------------------------
(* Types and places. *)

GraphTyped ==
  /\ nodes \in [Keys -> 0..Many]
  /\ regs \in [Keys -> [Devices -> 0..Many]]
  /\ links \in [Keys -> [Keys -> 0..MaxLinks]]
  /\ orphans \in SUBSET Devices

WorkersTyped ==
  /\ pc \in [Workers -> Steps]
  /\ req \in [Workers -> Requests]
  /\ others \in [Workers -> [Keys -> 0..Many]]
  /\ err \in [Workers -> Errors]

HistoryTyped ==
  /\ discover \in BOOLEAN
  /\ faults \in 0..MaxFaults
  /\ disturbed \in [Workers -> BOOLEAN]
  /\ tainted \in SUBSET Scenes

\* A worker is in the handler of its request, which names what it needs.
Placed ==
  \A w \in Workers :
    /\ pc[w] = "idle" => req[w] = NoRequest
    /\ pc[w] \in {"exists", "lookup", "link"} => req[w].kind = "SCENE_ENTER"
    /\ pc[w] = "create" => req[w].kind \in {"SCENE_ENTER", "SCENE_CRT"}
    /\ pc[w] = "leave" => req[w].kind = "SCENE_LEAVE"
    /\ pc[w] \in {"update", "rows", "scenelinks"} => req[w].kind = "DEVICE_ALIGN"
    /\ pc[w] = "get" => req[w].kind = "DEVICE_GET"
    /\ pc[w] = "delete" => req[w].kind = "SCENE_DEL" /\ Scene(w) \in Scenes
    /\ pc[w] \notin {"idle", "respond", "dead"} =>
         /\ Scene(w) \in Keys
         /\ req[w].kind \in DeviceKinds => Device(w) \in Devices

PlacedInv == GraphTyped /\ WorkersTyped /\ HistoryTyped /\ Placed

LEMMA RequestFields ==
  /\ NoRequest \in Requests
  /\ \A r \in Requests : /\ r.kind \in Kinds /\ r.scene \in Keys \cup {NoScene}
                         /\ r.device \in Devices \cup {NoDevice}
                         /\ r.kind \notin DeviceKinds => r.device = NoDevice
  BY DEF Requests, NoRequest, Kinds, DeviceKinds, MemberKinds

LEMMA InitPlaced == Init => PlacedInv
<1> SUFFICES ASSUME Init
             PROVE  PlacedInv
  OBVIOUS
<1>1. GraphTyped
  BY MaxLinksPositive DEF Init, GraphTyped, NoRows, Many
<1>2. WorkersTyped
  BY RequestFields DEF Init, WorkersTyped, Steps, Errors, NoRows, Many
<1>3. HistoryTyped
  BY MaxFaultsNat DEF Init, HistoryTyped
<1>4. Placed
  BY DEF Init, Placed
<1> QED
  BY <1>1, <1>2, <1>3, <1>4 DEF PlacedInv

LEMMA GraphPreserved ==
  PlacedInv /\ [Next]_vars => GraphTyped'
<1> SUFFICES ASSUME PlacedInv, [Next]_vars
             PROVE  GraphTyped'
  OBVIOUS
<1> USE DEF PlacedInv, GraphTyped, Placed, Scene, Device, graphVars
<1>1. ASSUME NEW w \in Workers, NEW r \in Requests, Begin(w, r) PROVE GraphTyped'
  BY <1>1 DEF Begin
<1>2. ASSUME NEW w \in Workers, SceneExists(w) PROVE GraphTyped'
  BY <1>2 DEF SceneExists
<1>3. ASSUME NEW w \in Workers, SceneExistsFails(w) PROVE GraphTyped'
  BY <1>3 DEF SceneExistsFails
<1>4. ASSUME NEW w \in Workers, CreateScene(w) PROVE GraphTyped'
  BY <1>4, CreatedNodes DEF CreateScene
<1>5. ASSUME NEW w \in Workers, CreateSceneLost(w) PROVE GraphTyped'
  BY <1>5, CreatedNodes DEF CreateSceneLost
<1>6. ASSUME NEW w \in Workers, CreateSceneFails(w) PROVE GraphTyped'
  BY <1>6, CreatedNodes DEF CreateSceneFails
<1>7. ASSUME NEW w \in Workers, Lookup(w) PROVE GraphTyped'
  BY <1>7 DEF Lookup
<1>8. ASSUME NEW w \in Workers, LookupFails(w) PROVE GraphTyped'
  BY <1>8 DEF LookupFails
<1>9. ASSUME NEW w \in Workers, LinkDevice(w) PROVE GraphTyped'
  BY <1>9, LinkedDevices DEF LinkDevice, DeviceKinds, MemberKinds
<1>10. ASSUME NEW w \in Workers, LinkDeviceLost(w) PROVE GraphTyped'
  BY <1>10, LinkedDevices DEF LinkDeviceLost, DeviceKinds, MemberKinds
<1>11. ASSUME NEW w \in Workers, LinkDeviceFails(w) PROVE GraphTyped'
  BY SMTT(30), <1>11, LinkedDevices DEF LinkDeviceFails, DeviceKinds, MemberKinds
<1>12. ASSUME NEW w \in Workers, RemoveDevice(w) PROVE GraphTyped'
  BY <1>12, RemovedDevices DEF RemoveDevice, DeviceKinds, MemberKinds
<1>12a. ASSUME NEW w \in Workers, RemoveDeviceLost(w) PROVE GraphTyped'
  BY <1>12a, RemovedDevices DEF RemoveDeviceLost, DeviceKinds, MemberKinds
<1>13. ASSUME NEW w \in Workers, RemoveDeviceFails(w) PROVE GraphTyped'
  <2>1. Removed(Scene(w), Device(w)) \in [Keys -> [Devices -> 0..Many]]
    BY <1>13, RemovedDevices DEF RemoveDeviceFails, DeviceKinds, MemberKinds
  <2>2. regs' \in {regs, Removed(Scene(w), Device(w))}
    BY <1>13 DEF RemoveDeviceFails
  <2> QED
    BY <1>13, <2>1, <2>2 DEF RemoveDeviceFails
<1>14. ASSUME NEW w \in Workers, DeleteScene(w) PROVE GraphTyped'
  <2>1. Scene(w) \in Keys
    BY <1>14 DEF DeleteScene
  <2>2. /\ RegsDetached(Scene(w)) \in [Keys -> [Devices -> 0..Many]]
        /\ Detached(Scene(w)) \in [Keys -> [Keys -> 0..MaxLinks]]
        /\ Left(Scene(w)) \subseteq Devices
        /\ [nodes EXCEPT ![Scene(w)] = 0] \in [Keys -> 0..Many]
    BY <2>1, DetachedDevices, DetachedScenes DEF Left, Many
  <2>3. Deleted(Scene(w)) \/ UNCHANGED graphVars
    BY <1>14 DEF DeleteScene
  <2> QED
    BY <2>2, <2>3 DEF Deleted
<1>14a. ASSUME NEW w \in Workers, DeleteSceneLost(w) PROVE GraphTyped'
  <2>1. Scene(w) \in Keys
    BY <1>14a DEF DeleteSceneLost
  <2>2. /\ RegsDetached(Scene(w)) \in [Keys -> [Devices -> 0..Many]]
        /\ Detached(Scene(w)) \in [Keys -> [Keys -> 0..MaxLinks]]
        /\ Left(Scene(w)) \subseteq Devices
        /\ [nodes EXCEPT ![Scene(w)] = 0] \in [Keys -> 0..Many]
    BY <2>1, DetachedDevices, DetachedScenes DEF Left, Many
  <2>3. Deleted(Scene(w))
    BY <1>14a DEF DeleteSceneLost
  <2> QED
    BY <2>2, <2>3 DEF Deleted
<1>15. ASSUME NEW w \in Workers, DeleteSceneFails(w) PROVE GraphTyped'
  <2>1. Scene(w) \in Keys
    BY <1>15 DEF DeleteSceneFails
  <2>2. /\ RegsDetached(Scene(w)) \in [Keys -> [Devices -> 0..Many]]
        /\ Detached(Scene(w)) \in [Keys -> [Keys -> 0..MaxLinks]]
        /\ Left(Scene(w)) \subseteq Devices
        /\ [nodes EXCEPT ![Scene(w)] = 0] \in [Keys -> 0..Many]
    BY <2>1, DetachedDevices, DetachedScenes DEF Left, Many
  <2>3. Deleted(Scene(w)) \/ UNCHANGED graphVars
    BY <1>15 DEF DeleteSceneFails
  <2> QED
    BY <2>2, <2>3 DEF Deleted
<1>16. ASSUME NEW w \in Workers, UpdateRegistration(w) PROVE GraphTyped'
  BY <1>16 DEF UpdateRegistration
<1>17. ASSUME NEW w \in Workers, UpdateRegistrationFails(w) PROVE GraphTyped'
  BY <1>17 DEF UpdateRegistrationFails
<1>18. ASSUME NEW w \in Workers, GetRows(w) PROVE GraphTyped'
  BY <1>18 DEF GetRows
<1>19. ASSUME NEW w \in Workers, GetRowsFails(w) PROVE GraphTyped'
  BY <1>19 DEF GetRowsFails
<1>20. ASSUME NEW w \in Workers, LinkScenes(w) PROVE GraphTyped'
  BY <1>20, LinkedScenes DEF LinkScenes, OtherRows
<1>20a. ASSUME NEW w \in Workers, LinkScenesLost(w) PROVE GraphTyped'
  BY <1>20a, LinkedScenes DEF LinkScenesLost, OtherRows
<1>21. ASSUME NEW w \in Workers, LinkScenesFails(w) PROVE GraphTyped'
  <2>1. PICK j \in Keys : links' \in {links, SceneLinked(j, Scene(w))}
    BY <1>21 DEF LinkScenesFails, OtherRows
  <2>2. SceneLinked(j, Scene(w)) \in [Keys -> [Keys -> 0..MaxLinks]]
    BY <1>21, LinkedScenes DEF LinkScenesFails
  <2> QED
    BY <1>21, <2>1, <2>2 DEF LinkScenesFails
<1>22. ASSUME NEW w \in Workers, LinkScenesDone(w) PROVE GraphTyped'
  BY <1>22 DEF LinkScenesDone
<1>23. ASSUME NEW w \in Workers, GetDevice(w) PROVE GraphTyped'
  BY <1>23 DEF GetDevice
<1>24. ASSUME NEW w \in Workers, GetDeviceFails(w) PROVE GraphTyped'
  BY <1>24 DEF GetDeviceFails
<1>25. ASSUME NEW w \in Workers, Respond(w) PROVE GraphTyped'
  BY <1>25 DEF Respond
<1>26. CASE UNCHANGED vars
  BY <1>26 DEF vars
<1> QED
  BY AskedAreRequests, <1>1, <1>2, <1>3, <1>4, <1>5, <1>6, <1>7, <1>8, <1>9, <1>10, <1>11, <1>12, <1>12a, <1>13,
      <1>14, <1>14a, <1>15, <1>16, <1>17, <1>18, <1>19, <1>20, <1>20a, <1>21, <1>22, <1>23, <1>24,
      <1>25, <1>26
     DEF Next, Enter, Leave, Align

LEMMA WorkersPreserved ==
  PlacedInv /\ [Next]_vars => WorkersTyped'
<1> SUFFICES ASSUME PlacedInv, [Next]_vars
             PROVE  WorkersTyped'
  OBVIOUS
<1> USE DEF PlacedInv, GraphTyped, WorkersTyped, Steps, Errors, Many, NoRows, workerVars
<1>1. ASSUME NEW w \in Workers, NEW r \in Requests, Begin(w, r) PROVE WorkersTyped'
  <2>1. /\ req' = [req EXCEPT ![w] = r] /\ others' = others
        /\ \/ \E code \in Errors : Fail(w, code)
           \/ Goto(w, FirstStep(r.kind)) /\ err' = err
    BY <1>1 DEF Begin
  <2>2. FirstStep(r.kind) \in Steps
    BY RequestFields DEF FirstStep, Kinds
  <2> QED
    BY <2>1, <2>2 DEF Fail, Goto
<1>2. ASSUME NEW w \in Workers, SceneExists(w) PROVE WorkersTyped'
  BY <1>2 DEF SceneExists, Goto
<1>3. ASSUME NEW w \in Workers, SceneExistsFails(w) PROVE WorkersTyped'
  BY <1>3 DEF SceneExistsFails, Goto, Fail
<1>4. ASSUME NEW w \in Workers, CreateScene(w) PROVE WorkersTyped'
  BY <1>4 DEF CreateScene, Goto
<1>5. ASSUME NEW w \in Workers, CreateSceneLost(w) PROVE WorkersTyped'
  BY <1>5 DEF CreateSceneLost
<1>6. ASSUME NEW w \in Workers, CreateSceneFails(w) PROVE WorkersTyped'
  BY <1>6 DEF CreateSceneFails, Fail
<1>7. ASSUME NEW w \in Workers, Lookup(w) PROVE WorkersTyped'
  BY <1>7 DEF Lookup, Goto
<1>8. ASSUME NEW w \in Workers, LookupFails(w) PROVE WorkersTyped'
  BY <1>8 DEF LookupFails, Goto
<1>9. ASSUME NEW w \in Workers, LinkDevice(w) PROVE WorkersTyped'
  BY <1>9 DEF LinkDevice, Goto
<1>10. ASSUME NEW w \in Workers, LinkDeviceLost(w) PROVE WorkersTyped'
  BY <1>10 DEF LinkDeviceLost
<1>11. ASSUME NEW w \in Workers, LinkDeviceFails(w) PROVE WorkersTyped'
  BY <1>11 DEF LinkDeviceFails, Goto
<1>12. ASSUME NEW w \in Workers, RemoveDevice(w) PROVE WorkersTyped'
  BY <1>12 DEF RemoveDevice, Goto
<1>12a. ASSUME NEW w \in Workers, RemoveDeviceLost(w) PROVE WorkersTyped'
  BY <1>12a DEF RemoveDeviceLost
<1>13. ASSUME NEW w \in Workers, RemoveDeviceFails(w) PROVE WorkersTyped'
  BY <1>13 DEF RemoveDeviceFails, Goto
<1>14. ASSUME NEW w \in Workers, DeleteScene(w) PROVE WorkersTyped'
  BY <1>14 DEF DeleteScene, Goto
<1>14a. ASSUME NEW w \in Workers, DeleteSceneLost(w) PROVE WorkersTyped'
  BY <1>14a DEF DeleteSceneLost
<1>15. ASSUME NEW w \in Workers, DeleteSceneFails(w) PROVE WorkersTyped'
  BY <1>15 DEF DeleteSceneFails, Fail
<1>16. ASSUME NEW w \in Workers, UpdateRegistration(w) PROVE WorkersTyped'
  BY <1>16 DEF UpdateRegistration, Goto, Fail
<1>17. ASSUME NEW w \in Workers, UpdateRegistrationFails(w) PROVE WorkersTyped'
  BY <1>17 DEF UpdateRegistrationFails, Fail
<1>18. ASSUME NEW w \in Workers, GetRows(w) PROVE WorkersTyped'
  <2>1. Device(w) \in Devices
    BY <1>18 DEF GetRows, Placed, DeviceKinds, MemberKinds
  <2>2. Rows(w) \in [Keys -> 0..Many]
    BY <2>1 DEF Rows
  <2> QED
    BY <1>18, <2>2 DEF GetRows, Crash, Goto
<1>19. ASSUME NEW w \in Workers, GetRowsFails(w) PROVE WorkersTyped'
  BY <1>19 DEF GetRowsFails, Crash
<1>20. ASSUME NEW w \in Workers, LinkScenes(w) PROVE WorkersTyped'
  <2>1. PICK j \in OtherRows(w) :
          \/ Fail(w, "PROCESSING_ERROR") /\ NoMoreRows(w)
          \/ others' = [others EXCEPT ![w][j] = @ - 1] /\ UNCHANGED <<pc, err>>
    BY <1>20 DEF LinkScenes
  <2>2. j \in Keys /\ others[w][j] - 1 \in 0..Many
    BY <2>1 DEF OtherRows
  <2>3. req' = req
    BY <1>20 DEF LinkScenes
  <2>4. CASE Fail(w, "PROCESSING_ERROR") /\ NoMoreRows(w)
    BY <2>3, <2>4 DEF Fail, NoMoreRows
  <2>5. CASE others' = [others EXCEPT ![w][j] = @ - 1] /\ UNCHANGED <<pc, err>>
    BY <2>2, <2>3, <2>5
  <2> QED
    BY <2>1, <2>4, <2>5
<1>20a. ASSUME NEW w \in Workers, LinkScenesLost(w) PROVE WorkersTyped'
  BY <1>20a DEF LinkScenesLost
<1>21. ASSUME NEW w \in Workers, LinkScenesFails(w) PROVE WorkersTyped'
  BY <1>21 DEF LinkScenesFails, Fail, NoMoreRows
<1>22. ASSUME NEW w \in Workers, LinkScenesDone(w) PROVE WorkersTyped'
  BY <1>22 DEF LinkScenesDone, NoMoreRows, Goto
<1>23. ASSUME NEW w \in Workers, GetDevice(w) PROVE WorkersTyped'
  BY <1>23 DEF GetDevice, Goto, Fail
<1>24. ASSUME NEW w \in Workers, GetDeviceFails(w) PROVE WorkersTyped'
  BY <1>24 DEF GetDeviceFails, Fail
<1>25. ASSUME NEW w \in Workers, Respond(w) PROVE WorkersTyped'
  BY <1>25, RequestFields DEF Respond, Goto
<1>26. CASE UNCHANGED vars
  BY <1>26 DEF vars
<1> QED
  BY AskedAreRequests, <1>1, <1>2, <1>3, <1>4, <1>5, <1>6, <1>7, <1>8, <1>9, <1>10, <1>11, <1>12, <1>12a, <1>13,
      <1>14, <1>14a, <1>15, <1>16, <1>17, <1>18, <1>19, <1>20, <1>20a, <1>21, <1>22, <1>23, <1>24,
      <1>25, <1>26
     DEF Next, Enter, Leave, Align

LEMMA HistoryPreserved ==
  PlacedInv /\ [Next]_vars => HistoryTyped'
<1> SUFFICES ASSUME PlacedInv, [Next]_vars
             PROVE  HistoryTyped'
  OBVIOUS
<1> USE MaxFaultsNat DEF PlacedInv, HistoryTyped, historyVars
<1>1. ASSUME NEW w \in Workers, NEW r \in Requests, Begin(w, r) PROVE HistoryTyped'
  BY <1>1 DEF Begin
<1>2. ASSUME NEW w \in Workers, SceneExists(w) PROVE HistoryTyped'
  BY <1>2 DEF SceneExists
<1>3. ASSUME NEW w \in Workers, SceneExistsFails(w) PROVE HistoryTyped'
  BY <1>3 DEF SceneExistsFails, CreatorFault, Fault, Disturb
<1>4. ASSUME NEW w \in Workers, CreateScene(w) PROVE HistoryTyped'
  BY <1>4 DEF CreateScene
<1>5. ASSUME NEW w \in Workers, CreateSceneLost(w) PROVE HistoryTyped'
  BY <1>5 DEF CreateSceneLost, CreatorFault, Fault, Disturb
<1>6. ASSUME NEW w \in Workers, CreateSceneFails(w) PROVE HistoryTyped'
  BY <1>6 DEF CreateSceneFails, CreatorFault, Fault, Disturb
<1>7. ASSUME NEW w \in Workers, Lookup(w) PROVE HistoryTyped'
  BY <1>7 DEF Lookup
<1>8. ASSUME NEW w \in Workers, LookupFails(w) PROVE HistoryTyped'
  BY <1>8 DEF LookupFails, CreatorFault, Fault, Disturb
<1>9. ASSUME NEW w \in Workers, LinkDevice(w) PROVE HistoryTyped'
  BY <1>9 DEF LinkDevice, Disturb
<1>10. ASSUME NEW w \in Workers, LinkDeviceLost(w) PROVE HistoryTyped'
  BY <1>10 DEF LinkDeviceLost, Fault, Disturb
<1>11. ASSUME NEW w \in Workers, LinkDeviceFails(w) PROVE HistoryTyped'
  BY <1>11 DEF LinkDeviceFails, Fault, Disturb
<1>12. ASSUME NEW w \in Workers, RemoveDevice(w) PROVE HistoryTyped'
  BY <1>12 DEF RemoveDevice, Disturb
<1>12a. ASSUME NEW w \in Workers, RemoveDeviceLost(w) PROVE HistoryTyped'
  BY <1>12a DEF RemoveDeviceLost, Fault, Disturb
<1>13. ASSUME NEW w \in Workers, RemoveDeviceFails(w) PROVE HistoryTyped'
  BY <1>13 DEF RemoveDeviceFails, Fault, Disturb
<1>14. ASSUME NEW w \in Workers, DeleteScene(w) PROVE HistoryTyped'
  BY <1>14 DEF DeleteScene, Disturb
<1>14a. ASSUME NEW w \in Workers, DeleteSceneLost(w) PROVE HistoryTyped'
  BY <1>14a DEF DeleteSceneLost, Fault, Disturb
<1>15. ASSUME NEW w \in Workers, DeleteSceneFails(w) PROVE HistoryTyped'
  BY <1>15 DEF DeleteSceneFails, Fault, Disturb
<1>16. ASSUME NEW w \in Workers, UpdateRegistration(w) PROVE HistoryTyped'
  BY <1>16 DEF UpdateRegistration
<1>17. ASSUME NEW w \in Workers, UpdateRegistrationFails(w) PROVE HistoryTyped'
  BY <1>17 DEF UpdateRegistrationFails, Fault, Disturb
<1>18. ASSUME NEW w \in Workers, GetRows(w) PROVE HistoryTyped'
  BY <1>18 DEF GetRows
<1>19. ASSUME NEW w \in Workers, GetRowsFails(w) PROVE HistoryTyped'
  BY <1>19 DEF GetRowsFails, Fault, Disturb
<1>20. ASSUME NEW w \in Workers, LinkScenes(w) PROVE HistoryTyped'
  BY <1>20 DEF LinkScenes
<1>20a. ASSUME NEW w \in Workers, LinkScenesLost(w) PROVE HistoryTyped'
  BY <1>20a DEF LinkScenesLost, Fault
<1>21. ASSUME NEW w \in Workers, LinkScenesFails(w) PROVE HistoryTyped'
  BY <1>21 DEF LinkScenesFails, Fault, Disturb
<1>22. ASSUME NEW w \in Workers, LinkScenesDone(w) PROVE HistoryTyped'
  BY <1>22 DEF LinkScenesDone
<1>23. ASSUME NEW w \in Workers, GetDevice(w) PROVE HistoryTyped'
  BY <1>23 DEF GetDevice
<1>24. ASSUME NEW w \in Workers, GetDeviceFails(w) PROVE HistoryTyped'
  BY <1>24 DEF GetDeviceFails, Fault, Disturb
<1>25. ASSUME NEW w \in Workers, Respond(w) PROVE HistoryTyped'
  BY <1>25 DEF Respond
<1>26. CASE UNCHANGED vars
  BY <1>26 DEF vars
<1> QED
  BY AskedAreRequests, <1>1, <1>2, <1>3, <1>4, <1>5, <1>6, <1>7, <1>8, <1>9, <1>10, <1>11, <1>12, <1>12a, <1>13,
      <1>14, <1>14a, <1>15, <1>16, <1>17, <1>18, <1>19, <1>20, <1>20a, <1>21, <1>22, <1>23, <1>24,
      <1>25, <1>26
     DEF Next, Enter, Leave, Align

LEMMA PlacedPreserved ==
  PlacedInv /\ [Next]_vars => Placed'
<1> SUFFICES ASSUME PlacedInv, [Next]_vars
             PROVE  Placed'
  OBVIOUS
<1> USE DEF PlacedInv, WorkersTyped, Placed, Scene, Device, workerVars
<1>1. ASSUME NEW w \in Workers, NEW r \in Requests, Begin(w, r) PROVE Placed'
  BY <1>1, RequestFields DEF Begin, Fail, Goto, FirstStep, Kinds, DeviceKinds, MemberKinds, Keys
<1>2. ASSUME NEW w \in Workers, SceneExists(w) PROVE Placed'
  BY <1>2 DEF SceneExists, Goto
<1>3. ASSUME NEW w \in Workers, SceneExistsFails(w) PROVE Placed'
  BY <1>3 DEF SceneExistsFails, Goto, Fail
<1>4. ASSUME NEW w \in Workers, CreateScene(w) PROVE Placed'
  BY <1>4 DEF CreateScene, Goto
<1>5. ASSUME NEW w \in Workers, CreateSceneLost(w) PROVE Placed'
  BY <1>5 DEF CreateSceneLost
<1>6. ASSUME NEW w \in Workers, CreateSceneFails(w) PROVE Placed'
  BY <1>6 DEF CreateSceneFails, Fail
<1>7. ASSUME NEW w \in Workers, Lookup(w) PROVE Placed'
  BY <1>7 DEF Lookup, Goto
<1>8. ASSUME NEW w \in Workers, LookupFails(w) PROVE Placed'
  BY <1>8 DEF LookupFails, Goto
<1>9. ASSUME NEW w \in Workers, LinkDevice(w) PROVE Placed'
  BY <1>9 DEF LinkDevice, Goto
<1>10. ASSUME NEW w \in Workers, LinkDeviceLost(w) PROVE Placed'
  BY <1>10 DEF LinkDeviceLost
<1>11. ASSUME NEW w \in Workers, LinkDeviceFails(w) PROVE Placed'
  BY <1>11 DEF LinkDeviceFails, Goto
<1>12. ASSUME NEW w \in Workers, RemoveDevice(w) PROVE Placed'
  BY <1>12 DEF RemoveDevice, Goto
<1>12a. ASSUME NEW w \in Workers, RemoveDeviceLost(w) PROVE Placed'
  BY <1>12a DEF RemoveDeviceLost
<1>13. ASSUME NEW w \in Workers, RemoveDeviceFails(w) PROVE Placed'
  BY <1>13 DEF RemoveDeviceFails, Goto
<1>14. ASSUME NEW w \in Workers, DeleteScene(w) PROVE Placed'
  BY <1>14 DEF DeleteScene, Goto
<1>14a. ASSUME NEW w \in Workers, DeleteSceneLost(w) PROVE Placed'
  BY <1>14a DEF DeleteSceneLost
<1>15. ASSUME NEW w \in Workers, DeleteSceneFails(w) PROVE Placed'
  BY <1>15 DEF DeleteSceneFails, Fail
<1>16. ASSUME NEW w \in Workers, UpdateRegistration(w) PROVE Placed'
  BY <1>16 DEF UpdateRegistration, Goto, Fail
<1>17. ASSUME NEW w \in Workers, UpdateRegistrationFails(w) PROVE Placed'
  BY <1>17 DEF UpdateRegistrationFails, Fail
<1>18. ASSUME NEW w \in Workers, GetRows(w) PROVE Placed'
  BY <1>18 DEF GetRows, Crash, Goto
<1>19. ASSUME NEW w \in Workers, GetRowsFails(w) PROVE Placed'
  BY <1>19 DEF GetRowsFails, Crash
<1>20. ASSUME NEW w \in Workers, LinkScenes(w) PROVE Placed'
  BY <1>20 DEF LinkScenes, Fail
<1>20a. ASSUME NEW w \in Workers, LinkScenesLost(w) PROVE Placed'
  BY <1>20a DEF LinkScenesLost
<1>21. ASSUME NEW w \in Workers, LinkScenesFails(w) PROVE Placed'
  BY <1>21 DEF LinkScenesFails, Fail
<1>22. ASSUME NEW w \in Workers, LinkScenesDone(w) PROVE Placed'
  BY <1>22 DEF LinkScenesDone, Goto
<1>23. ASSUME NEW w \in Workers, GetDevice(w) PROVE Placed'
  BY <1>23 DEF GetDevice, Goto, Fail
<1>24. ASSUME NEW w \in Workers, GetDeviceFails(w) PROVE Placed'
  BY <1>24 DEF GetDeviceFails, Fail
<1>25. ASSUME NEW w \in Workers, Respond(w) PROVE Placed'
  BY <1>25 DEF Respond, Goto
<1>26. CASE UNCHANGED vars
  BY <1>26 DEF vars
<1> QED
  BY AskedAreRequests, <1>1, <1>2, <1>3, <1>4, <1>5, <1>6, <1>7, <1>8, <1>9, <1>10, <1>11, <1>12, <1>12a, <1>13,
      <1>14, <1>14a, <1>15, <1>16, <1>17, <1>18, <1>19, <1>20, <1>20a, <1>21, <1>22, <1>23, <1>24,
      <1>25, <1>26
     DEF Next, Enter, Leave, Align

-----------------------------------------------------------------------------
(* What a step does to the graph. *)

Creates(w) == /\ pc[w] = "create" /\ nodes' = Created(Scene(w))
              /\ UNCHANGED <<regs, links, orphans>>
Registers(w) == /\ pc[w] = "link" /\ regs' = Linked(Scene(w), Device(w))
                /\ UNCHANGED <<nodes, links, orphans>>
Deregisters(w) == /\ pc[w] = "leave" /\ regs' = Removed(Scene(w), Device(w))
                  /\ UNCHANGED <<nodes, links, orphans>>
Deletes(w) == pc[w] = "delete" /\ Deleted(Scene(w))
LinksTo(w, j) == /\ pc[w] = "scenelinks" /\ links' = SceneLinked(j, Scene(w))
                 /\ UNCHANGED <<nodes, regs, orphans>>

Effect == \/ UNCHANGED graphVars
          \/ \E w \in Workers :
               \/ Creates(w) \/ Registers(w) \/ Deregisters(w) \/ Deletes(w)
               \/ \E j \in OtherRows(w) : LinksTo(w, j)

LEMMA StepEffect ==
  [Next]_vars => Effect
<1> SUFFICES ASSUME [Next]_vars
             PROVE  Effect
  OBVIOUS
<1> USE DEF Effect, Creates, Registers, Deregisters, Deletes, LinksTo, graphVars
<1>1. ASSUME NEW w \in Workers, NEW r \in Requests, Begin(w, r) PROVE Effect
  BY <1>1 DEF Begin
<1>2. ASSUME NEW w \in Workers, SceneExists(w) PROVE Effect
  BY <1>2 DEF SceneExists
<1>3. ASSUME NEW w \in Workers, SceneExistsFails(w) PROVE Effect
  BY <1>3 DEF SceneExistsFails
<1>4. ASSUME NEW w \in Workers, CreateScene(w) PROVE Effect
  BY <1>4 DEF CreateScene
<1>5. ASSUME NEW w \in Workers, CreateSceneLost(w) PROVE Effect
  BY <1>5 DEF CreateSceneLost
<1>6. ASSUME NEW w \in Workers, CreateSceneFails(w) PROVE Effect
  BY <1>6 DEF CreateSceneFails
<1>7. ASSUME NEW w \in Workers, Lookup(w) PROVE Effect
  BY <1>7 DEF Lookup
<1>8. ASSUME NEW w \in Workers, LookupFails(w) PROVE Effect
  BY <1>8 DEF LookupFails
<1>9. ASSUME NEW w \in Workers, LinkDevice(w) PROVE Effect
  BY <1>9 DEF LinkDevice
<1>10. ASSUME NEW w \in Workers, LinkDeviceLost(w) PROVE Effect
  BY <1>10 DEF LinkDeviceLost
<1>11. ASSUME NEW w \in Workers, LinkDeviceFails(w) PROVE Effect
  BY <1>11 DEF LinkDeviceFails
<1>12. ASSUME NEW w \in Workers, RemoveDevice(w) PROVE Effect
  BY <1>12 DEF RemoveDevice
<1>12a. ASSUME NEW w \in Workers, RemoveDeviceLost(w) PROVE Effect
  BY <1>12a DEF RemoveDeviceLost
<1>13. ASSUME NEW w \in Workers, RemoveDeviceFails(w) PROVE Effect
  BY <1>13 DEF RemoveDeviceFails
<1>14. ASSUME NEW w \in Workers, DeleteScene(w) PROVE Effect
  BY <1>14 DEF DeleteScene
<1>14a. ASSUME NEW w \in Workers, DeleteSceneLost(w) PROVE Effect
  BY <1>14a DEF DeleteSceneLost
<1>15. ASSUME NEW w \in Workers, DeleteSceneFails(w) PROVE Effect
  BY <1>15 DEF DeleteSceneFails
<1>16. ASSUME NEW w \in Workers, UpdateRegistration(w) PROVE Effect
  BY <1>16 DEF UpdateRegistration
<1>17. ASSUME NEW w \in Workers, UpdateRegistrationFails(w) PROVE Effect
  BY <1>17 DEF UpdateRegistrationFails
<1>18. ASSUME NEW w \in Workers, GetRows(w) PROVE Effect
  BY <1>18 DEF GetRows
<1>19. ASSUME NEW w \in Workers, GetRowsFails(w) PROVE Effect
  BY <1>19 DEF GetRowsFails
<1>20. ASSUME NEW w \in Workers, LinkScenes(w) PROVE Effect
  BY <1>20 DEF LinkScenes
<1>20a. ASSUME NEW w \in Workers, LinkScenesLost(w) PROVE Effect
  BY <1>20a DEF LinkScenesLost
<1>21. ASSUME NEW w \in Workers, LinkScenesFails(w) PROVE Effect
  BY <1>21 DEF LinkScenesFails
<1>22. ASSUME NEW w \in Workers, LinkScenesDone(w) PROVE Effect
  BY <1>22 DEF LinkScenesDone
<1>23. ASSUME NEW w \in Workers, GetDevice(w) PROVE Effect
  BY <1>23 DEF GetDevice
<1>24. ASSUME NEW w \in Workers, GetDeviceFails(w) PROVE Effect
  BY <1>24 DEF GetDeviceFails
<1>25. ASSUME NEW w \in Workers, Respond(w) PROVE Effect
  BY <1>25 DEF Respond
<1>26. CASE UNCHANGED vars
  BY <1>26 DEF vars
<1> QED
  BY AskedAreRequests, <1>1, <1>2, <1>3, <1>4, <1>5, <1>6, <1>7, <1>8, <1>9, <1>10, <1>11, <1>12, <1>12a, <1>13,
      <1>14, <1>14a, <1>15, <1>16, <1>17, <1>18, <1>19, <1>20, <1>20a, <1>21, <1>22, <1>23, <1>24,
      <1>25, <1>26
     DEF Next, Enter, Leave, Align

LEMMA CreatesWhat ==
  ASSUME PlacedInv, NEW w \in Workers, Creates(w)
  PROVE  /\ Scene(w) \in Keys
         /\ \A k \in Keys : nodes'[k] = IF k = Scene(w) /\ k # EmptyKey
                                        THEN Capped(nodes[k] + 1, Many) ELSE nodes[k]
<1>1. Scene(w) \in Keys
  BY DEF PlacedInv, Creates, Placed
<1> QED
  BY <1>1, CreatedNodes DEF PlacedInv, Creates, GraphTyped

LEMMA RegistersWhat ==
  ASSUME PlacedInv, NEW w \in Workers, Registers(w)
  PROVE  /\ Scene(w) \in Keys /\ Device(w) \in Devices
         /\ \A k \in Keys, d \in Devices :
              regs'[k][d] = IF k = Scene(w) /\ d = Device(w)
                            THEN Capped(regs[k][d] + nodes[k], Many) ELSE regs[k][d]
<1>1. Scene(w) \in Keys /\ Device(w) \in Devices
  BY DEF PlacedInv, Registers, Placed, DeviceKinds, MemberKinds
<1> QED
  BY <1>1, LinkedDevices DEF PlacedInv, Registers, GraphTyped

LEMMA DeregistersWhat ==
  ASSUME PlacedInv, NEW w \in Workers, Deregisters(w)
  PROVE  /\ Scene(w) \in Keys /\ Device(w) \in Devices
         /\ \A k \in Keys, d \in Devices :
              regs'[k][d] = IF k = Scene(w) /\ d = Device(w) THEN 0 ELSE regs[k][d]
<1>1. Scene(w) \in Keys /\ Device(w) \in Devices
  BY DEF PlacedInv, Deregisters, Placed, DeviceKinds, MemberKinds
<1> QED
  BY <1>1, RemovedDevices DEF PlacedInv, Deregisters, GraphTyped

LEMMA DeletesWhat ==
  ASSUME PlacedInv, NEW w \in Workers, Deletes(w)
  PROVE  /\ Scene(w) \in Scenes
         /\ \A k \in Keys : nodes'[k] = IF k = Scene(w) THEN 0 ELSE nodes[k]
         /\ \A k \in Keys, d \in Devices :
              regs'[k][d] = IF k = Scene(w) THEN 0 ELSE regs[k][d]
         /\ \A j, k \in Keys :
              links'[j][k] = IF j = Scene(w) \/ k = Scene(w) THEN 0 ELSE links[j][k]
<1>1. Scene(w) \in Scenes /\ Scene(w) \in Keys
  BY DEF PlacedInv, Deletes, Placed, Keys
<1>2. GraphTyped
  BY DEF PlacedInv
<1>3. \A k \in Keys : nodes'[k] = IF k = Scene(w) THEN 0 ELSE nodes[k]
  BY <1>1, <1>2 DEF Deletes, Deleted, GraphTyped
<1> QED
  BY <1>1, <1>2, <1>3, DetachedDevices, DetachedScenes DEF Deletes, Deleted, GraphTyped

LEMMA Counts ==
  ASSUME PlacedInv
  PROVE  /\ \A k \in Keys : nodes[k] \in {0, 1, 2}
         /\ \A k \in Keys, d \in Devices : regs[k][d] \in {0, 1, 2}
  BY DEF PlacedInv, GraphTyped, Many

\* A registration is a relationship of a Scene node: without the node there is
\* none.  MadeOnce needs it when a scene is created.
OfScenes == \A k \in Keys, d \in Devices : regs[k][d] > 0 => nodes[k] > 0

LEMMA OfScenesPreserved ==
  PlacedInv /\ OfScenes /\ [Next]_vars => OfScenes'
<1> SUFFICES ASSUME PlacedInv, OfScenes, [Next]_vars
             PROVE  OfScenes'
  OBVIOUS
<1>1. CASE UNCHANGED graphVars
  BY <1>1 DEF OfScenes, graphVars
<1>2. ASSUME NEW w \in Workers, Creates(w) PROVE OfScenes'
  <2>1. \A k \in Keys : nodes[k] > 0 => nodes'[k] > 0
    BY <1>2, CreatesWhat, Counts DEF Capped, Many
  <2> QED
    BY <1>2, <2>1 DEF Creates, OfScenes
<1>3. ASSUME NEW w \in Workers, Registers(w) PROVE OfScenes'
  <2>1. \A k \in Keys, d \in Devices : regs'[k][d] > 0 => regs[k][d] > 0 \/ nodes[k] > 0
    BY <1>3, RegistersWhat, Counts DEF Capped, Many
  <2> QED
    BY <1>3, <2>1 DEF Registers, OfScenes
<1>4. ASSUME NEW w \in Workers, Deregisters(w) PROVE OfScenes'
  <2>1. \A k \in Keys, d \in Devices : regs'[k][d] > 0 => regs[k][d] > 0
    BY <1>4, DeregistersWhat
  <2> QED
    BY <1>4, <2>1 DEF Deregisters, OfScenes
<1>5. ASSUME NEW w \in Workers, Deletes(w) PROVE OfScenes'
  BY <1>5, DeletesWhat DEF OfScenes
<1>6. ASSUME NEW w \in Workers, NEW j \in OtherRows(w), LinksTo(w, j)
      PROVE  OfScenes'
  BY <1>6 DEF LinksTo, OfScenes
<1> QED
  BY <1>1, <1>2, <1>3, <1>4, <1>5, <1>6, StepEffect DEF Effect

-----------------------------------------------------------------------------
(* One node for a scene, and one for a device registered to it. *)

\* At most one request can create scene k or register to it; it only creates
\* what is not there.
MadeOnce(k) ==
  /\ nodes[k] <= 1 /\ \A d \in Devices : regs[k][d] <= 1
  /\ \A v, w \in Creators(k) : v = w
  /\ \A w \in Workers : Scene(w) = k =>
       /\ pc[w] = "create" => nodes[k] = 0
       /\ pc[w] = "link" => regs[k][Device(w)] = 0

OnceInv == \A k \in Scenes \ tainted : MadeOnce(k)

\* A step of w that makes nobody a creator of k, adds nothing to scene k and
\* comes to a creation or a registration only if there is nothing.
LEMMA StaysOnce ==
  ASSUME PlacedInv, NEW k \in Scenes, MadeOnce(k), NEW w \in Workers, pc[w] # "idle",
         nodes'[k] \in {nodes[k], 0},
         \A d \in Devices : regs'[k][d] \in {regs[k][d], 0},
         req' = req, NEW step \in Steps \ {"idle"},
         pc' = [pc EXCEPT ![w] = step] \/ pc' = pc,
         Scene(w) = k => /\ step = "create" => nodes[k] = 0
                         /\ step = "link" => regs[k][Device(w)] = 0 /\ Device(w) \in Devices
  PROVE  MadeOnce(k)'
<1>1. /\ k \in Keys /\ nodes[k] \in {0, 1, 2} /\ \A d \in Devices : regs[k][d] \in {0, 1, 2}
      /\ pc \in [Workers -> Steps] /\ Placed
  BY Counts DEF PlacedInv, WorkersTyped, Keys
<1>2. \A v \in Workers : /\ Scene(v)' = Scene(v) /\ Device(v)' = Device(v)
                         /\ Busy(v)' <=> Busy(v)
  BY <1>1 DEF Scene, Device, Busy
<1>3. Creators(k)' = Creators(k)
  BY <1>2 DEF Creators
<1>4. \A v \in Workers : pc[v] = "link" => Device(v) \in Devices
  BY <1>1 DEF Placed, DeviceKinds, MemberKinds
<1>5. \A v \in Workers : Scene(v) = k =>
        /\ pc'[v] = "create" => nodes[k] = 0
        /\ pc'[v] = "link" => regs[k][Device(v)] = 0 /\ Device(v) \in Devices
  BY <1>1, <1>4 DEF MadeOnce
<1>6. nodes'[k] <= 1 /\ \A d \in Devices : regs'[k][d] <= 1
  BY <1>1 DEF MadeOnce
<1>7. \A v, u \in Creators(k) : v = u
  BY DEF MadeOnce
<1> QED
  BY <1>1, <1>2, <1>3, <1>5, <1>6, <1>7 DEF MadeOnce

\* Whoever registers a device to k is the only creator of k, and the device is
\* not registered.
LEMMA RegistersOnce ==
  ASSUME PlacedInv, NEW k \in Scenes, MadeOnce(k), NEW w \in Workers, pc[w] = "link",
         Registers(w) \/ UNCHANGED graphVars, nodes' = nodes, req' = req,
         pc' = [pc EXCEPT ![w] = "respond"]
  PROVE  MadeOnce(k)'
<1>1. /\ k \in Keys /\ nodes[k] \in {0, 1, 2} /\ \A d \in Devices : regs[k][d] \in {0, 1, 2}
      /\ pc \in [Workers -> Steps] /\ Placed
  BY Counts DEF PlacedInv, WorkersTyped, Keys
<1>2. CASE UNCHANGED graphVars \/ Scene(w) # k
  <2>1. \A d \in Devices : regs'[k][d] = regs[k][d]
    BY <1>1, <1>2, RegistersWhat DEF graphVars
  <2> QED
    BY <1>2, <2>1, StaysOnce DEF Steps
<1>3. CASE Registers(w) /\ Scene(w) = k
  <2>1. Device(w) \in Devices /\ \A d \in Devices :
          regs'[k][d] = IF d = Device(w) THEN Capped(regs[k][d] + nodes[k], Many)
                                         ELSE regs[k][d]
    BY <1>1, <1>3, RegistersWhat
  <2>2. nodes[k] <= 1 /\ regs[k][Device(w)] = 0
    BY <1>3 DEF MadeOnce
  <2>3. \A d \in Devices : regs'[k][d] <= 1
    BY <1>1, <2>1, <2>2 DEF MadeOnce, Capped, Many
  <2>4. w \in Creators(k)
    BY <1>1, <1>3 DEF Placed, Creators, Busy
  <2>5. pc'[w] = "respond" /\ \A v \in Workers \ {w} : pc'[v] = pc[v]
    BY <1>1
  <2>6. Creators(k)' = Creators(k)
    BY <2>5 DEF Creators, Busy, Scene
  <2>7. ASSUME NEW v \in Workers, Scene(v) = k
        PROVE  pc'[v] \notin {"create", "link"}
    <3>1. CASE v # w
      <4>1. v \notin Creators(k)
        BY <2>4, <3>1 DEF MadeOnce
      <4> QED
        BY <1>1, <2>5, <2>7, <3>1, <4>1 DEF Creators, Busy, Placed
    <3> QED
      BY <2>5, <3>1
  <2> QED
    BY <2>2, <2>3, <2>6, <2>7 DEF MadeOnce, Scene, Device
<1> QED
  BY <1>2, <1>3

\* With the process every request ends where it is.
LEMMA CrashesOnce ==
  ASSUME PlacedInv, NEW k \in Scenes, MadeOnce(k), Crash, req' = req, nodes' = nodes,
         regs' = regs
  PROVE  MadeOnce(k)'
<1>1. \A v \in Workers : pc'[v] = "dead" /\ req'[v] = req[v]
  BY DEF Crash
<1>2. Creators(k)' \subseteq Creators(k)
  <2>1. ASSUME NEW v \in Workers, pc[v] = "idle" PROVE Scene(v) # k
    BY <2>1, KeysDistinct DEF PlacedInv, Placed, NoRequest, Scene
  <2> QED
    BY <1>1, <2>1 DEF Creators, Busy, Scene
<1> QED
  BY <1>1, <1>2 DEF MadeOnce

LEMMA OncePreserved ==
  PlacedInv /\ OfScenes /\ OnceInv /\ [Next]_vars => OnceInv'
<1> SUFFICES ASSUME PlacedInv, OfScenes, OnceInv, [Next]_vars,
                    NEW k \in Scenes, k \notin tainted'
             PROVE  MadeOnce(k)'
  BY DEF OnceInv
<1>0. /\ k \in Keys /\ k # EmptyKey /\ nodes[k] \in {0, 1, 2}
      /\ \A d \in Devices : regs[k][d] \in {0, 1, 2}
      /\ \A w \in Workers : pc[w] \in Steps /\ Scene(w) = req[w].scene
      /\ \A w \in Workers : pc[w] = "link" => Device(w) \in Devices
  BY Counts, KeysDistinct
     DEF PlacedInv, WorkersTyped, Placed, Keys, DeviceKinds, MemberKinds, Scene
<1>k. tainted \subseteq tainted' => k \notin tainted /\ MadeOnce(k)
  BY DEF OnceInv
<1> USE DEF Steps, graphVars, workerVars, historyVars
<1>1. ASSUME NEW w \in Workers, NEW r \in Requests, Begin(w, r) PROVE MadeOnce(k)'
  <2>1. k \notin tainted /\ MadeOnce(k)
    BY <1>1, <1>k DEF Begin
  <2>2. r.kind \in {"SCENE_ENTER", "SCENE_CRT"} /\ r.scene = k =>
          Creators(k) = {} /\ (r.kind = "SCENE_CRT" => ~(nodes[k] > 0))
    BY <1>1 DEF Begin
  <2>3. /\ pc[w] = "idle" /\ req' = [req EXCEPT ![w] = r]
        /\ UNCHANGED <<nodes, regs>>
        /\ \/ pc' = [pc EXCEPT ![w] = "respond"]
           \/ pc' = [pc EXCEPT ![w] = FirstStep(r.kind)]
    BY <1>1 DEF Begin, Fail, Goto
  <2>4. /\ FirstStep(r.kind) \notin {"idle", "link"}
        /\ FirstStep(r.kind) = "create" => r.kind = "SCENE_CRT"
    BY RequestFields DEF FirstStep, Kinds
  <2>5. PICK step : /\ pc' = [pc EXCEPT ![w] = step] /\ step \notin {"idle", "link"}
                    /\ step = "create" => r.kind = "SCENE_CRT"
    BY <2>3, <2>4
  <2>6. /\ pc'[w] = step /\ req'[w] = r
        /\ \A v \in Workers \ {w} : pc'[v] = pc[v] /\ req'[v] = req[v]
    BY <2>3, <2>5 DEF PlacedInv, WorkersTyped
  <2>7. \A v, u \in Creators(k)' : v = u
    <3>1. Creators(k)' \subseteq Creators(k) \cup {w}
      BY <2>6 DEF Creators, Busy, Scene
    <3>2. w \in Creators(k)' => Creators(k) = {}
      BY <2>2, <2>6 DEF Creators, Scene
    <3> QED
      BY <3>1, <3>2, <2>1 DEF MadeOnce
  <2>8. ASSUME NEW v \in Workers, Scene(v)' = k
        PROVE  /\ pc'[v] = "create" => nodes'[k] = 0
               /\ pc'[v] = "link" => regs'[k][Device(v)'] = 0
    <3>1. CASE v = w
      BY <1>0, <2>2, <2>3, <2>5, <2>6, <2>8, <3>1 DEF Scene
    <3>2. CASE v # w
      BY <2>1, <2>3, <2>6, <2>8, <3>2 DEF MadeOnce, Scene, Device
    <3> QED
      BY <3>1, <3>2
  <2> QED
    BY <2>1, <2>3, <2>7, <2>8 DEF MadeOnce
<1>2. ASSUME NEW w \in Workers, SceneExists(w) PROVE MadeOnce(k)'
  <2>1. k \notin tainted /\ MadeOnce(k)
    BY <1>2, <1>k DEF SceneExists
  <2>2. PICK step \in {"lookup", "create"} :
          pc' = [pc EXCEPT ![w] = step] /\ (step = "create" => ~(nodes[Scene(w)] > 0))
    BY <1>2 DEF SceneExists, Goto
  <2>3. pc[w] # "idle" /\ req' = req /\ nodes' = nodes /\ regs' = regs
    BY <1>2 DEF SceneExists
  <2>4. Scene(w) = k /\ step = "create" => nodes[k] = 0
    BY <1>0, <2>2
  <2> QED
    BY <2>1, <2>2, <2>3, <2>4, StaysOnce
<1>3. ASSUME NEW w \in Workers, SceneExistsFails(w) PROVE MadeOnce(k)'
  <2>1. k \notin tainted /\ MadeOnce(k)
    BY <1>3, <1>k DEF SceneExistsFails, CreatorFault
  <2> QED
    BY <1>3, <1>0, <2>1, StaysOnce DEF SceneExistsFails, CreatorFault, Goto, Fail
<1>4. ASSUME NEW w \in Workers, CreateScene(w) PROVE MadeOnce(k)'
  <2>1. k \notin tainted /\ MadeOnce(k)
    BY <1>4, <1>k DEF CreateScene
  <2>2. Creates(w)
    BY <1>4 DEF CreateScene, Creates
  <2>3. /\ pc[w] = "create" /\ req' = req /\ regs' = regs
        /\ nodes'[k] = IF k = Scene(w) THEN Capped(nodes[k] + 1, Many) ELSE nodes[k]
    BY <1>0, <1>4, <2>2, CreatesWhat DEF CreateScene
  <2>4. PICK step \in {"link", "respond"} :
          /\ pc' = [pc EXCEPT ![w] = step]
          /\ step = "link" => req[w].kind = "SCENE_ENTER"
    BY <1>4 DEF CreateScene, Goto
  <2>5. CASE Scene(w) # k
    BY <2>1, <2>3, <2>4, <2>5, StaysOnce
  <2>6. CASE Scene(w) = k
    <3>1. nodes[k] = 0 /\ w \in Creators(k)
      <4>1. req[w].kind \in {"SCENE_ENTER", "SCENE_CRT"}
        BY <2>3 DEF PlacedInv, Placed
      <4> QED
        BY <4>1, <2>1, <2>3, <2>6 DEF MadeOnce, Creators, Busy
    <3>2. nodes'[k] = 1
      BY <3>1, <2>3, <2>6 DEF Capped, Many
    <3>3. \A d \in Devices : regs[k][d] = 0
      BY <1>0, <3>1 DEF OfScenes
    <3>4. req[w].kind \in {"SCENE_ENTER", "SCENE_CRT"}
          /\ (req[w].kind = "SCENE_ENTER" => Device(w) \in Devices)
      BY <2>3 DEF PlacedInv, Placed, DeviceKinds, MemberKinds
    <3>5. /\ pc'[w] = step
          /\ \A v \in Workers \ {w} : pc'[v] = pc[v]
      BY <1>0, <2>4 DEF PlacedInv, WorkersTyped
    <3>6. Creators(k)' = Creators(k)
      BY <2>3, <2>4, <3>5 DEF Creators, Busy, Scene
    <3>7. ASSUME NEW v \in Workers, Scene(v) = k
          PROVE  /\ pc'[v] # "create"
                 /\ pc'[v] = "link" => regs[k][Device(v)] = 0
      <4>1. CASE v = w
        BY <2>4, <3>3, <3>4, <3>5, <4>1
      <4>2. CASE v # w
        <5>1. v \notin Creators(k)
          BY <2>1, <3>1, <4>2 DEF MadeOnce
        <5>2. pc[v] \notin {"create", "link"}
          BY <3>7, <5>1 DEF Creators, Busy, PlacedInv, Placed
        <5> QED
          BY <3>5, <4>2, <5>2
      <4> QED
        BY <4>1, <4>2
    <3> QED
      BY <2>1, <2>3, <3>2, <3>6, <3>7 DEF MadeOnce, Scene, Device
  <2> QED
    BY <2>5, <2>6
<1>5. ASSUME NEW w \in Workers, CreateSceneLost(w) PROVE MadeOnce(k)'
  <2>1. k \notin tainted /\ MadeOnce(k) /\ Scene(w) # k
    BY <1>5, <1>k DEF CreateSceneLost, CreatorFault
  <2>2. Creates(w) \/ UNCHANGED graphVars
    BY <1>5 DEF CreateSceneLost, Creates
  <2>3. nodes'[k] = nodes[k] /\ regs' = regs
    BY <1>0, <2>1, <2>2, CreatesWhat DEF Creates
  <2> QED
    BY <1>5, <1>0, <2>1, <2>3, StaysOnce DEF CreateSceneLost, Fail
<1>6. ASSUME NEW w \in Workers, CreateSceneFails(w) PROVE MadeOnce(k)'
  <2>1. k \notin tainted /\ MadeOnce(k) /\ Scene(w) # k
    BY <1>6, <1>k DEF CreateSceneFails, CreatorFault
  <2>2. Creates(w) \/ UNCHANGED graphVars
    BY <1>6 DEF CreateSceneFails, Creates
  <2>3. nodes'[k] = nodes[k] /\ regs' = regs
    BY <1>0, <2>1, <2>2, CreatesWhat DEF Creates
  <2> QED
    BY <1>6, <1>0, <2>1, <2>3, StaysOnce DEF CreateSceneFails, Fail
<1>7. ASSUME NEW w \in Workers, Lookup(w) PROVE MadeOnce(k)'
  <2>1. k \notin tainted /\ MadeOnce(k)
    BY <1>7, <1>k DEF Lookup
  <2>2. PICK step \in {"respond", "link"} :
          /\ pc' = [pc EXCEPT ![w] = step]
          /\ step = "link" => ~(regs[Scene(w)][Device(w)] > 0)
    BY <1>7 DEF Lookup, IsRegistered, Goto
  <2>3. pc[w] = "lookup" /\ req' = req /\ nodes' = nodes /\ regs' = regs
    BY <1>7 DEF Lookup
  <2>4. Device(w) \in Devices
    BY <2>3 DEF PlacedInv, Placed, DeviceKinds, MemberKinds
  <2>5. Scene(w) = k /\ step = "link" => regs[k][Device(w)] = 0
    BY <1>0, <2>2, <2>4
  <2> QED
    BY <2>1, <2>2, <2>3, <2>4, <2>5, StaysOnce
<1>8. ASSUME NEW w \in Workers, LookupFails(w) PROVE MadeOnce(k)'
  <2>1. k \notin tainted /\ MadeOnce(k)
    BY <1>8, <1>k DEF LookupFails, CreatorFault
  <2> QED
    BY <1>8, <1>0, <2>1, StaysOnce DEF LookupFails, CreatorFault, Goto
<1>9. ASSUME NEW w \in Workers, LinkDevice(w) PROVE MadeOnce(k)'
  <2>1. k \notin tainted /\ MadeOnce(k)
    BY <1>9, <1>k DEF LinkDevice
  <2>2. Registers(w) \/ UNCHANGED graphVars
    BY <1>9 DEF LinkDevice, Registers
  <2>3. /\ pc[w] = "link" /\ req' = req /\ nodes' = nodes
        /\ pc' = [pc EXCEPT ![w] = "respond"]
    BY <1>9 DEF LinkDevice, Goto
  <2> QED
    BY <2>1, <2>2, <2>3, RegistersOnce
<1>10. ASSUME NEW w \in Workers, LinkDeviceLost(w) PROVE MadeOnce(k)'
  <2>1. k \notin tainted /\ MadeOnce(k) /\ Scene(w) # k
    BY <1>10, <1>k DEF LinkDeviceLost
  <2>2. Registers(w)
    BY <1>10 DEF LinkDeviceLost, Registers
  <2>3. nodes' = nodes /\ \A d \in Devices : regs'[k][d] = regs[k][d]
    BY <1>0, <2>1, <2>2, RegistersWhat DEF Registers
  <2> QED
    BY <1>10, <1>0, <2>1, <2>3, StaysOnce DEF LinkDeviceLost
<1>11. ASSUME NEW w \in Workers, LinkDeviceFails(w) PROVE MadeOnce(k)'
  <2>1. k \notin tainted /\ MadeOnce(k)
    BY <1>11, <1>k DEF LinkDeviceFails
  <2>2. Registers(w) \/ UNCHANGED graphVars
    BY <1>11 DEF LinkDeviceFails, Registers
  <2>3. /\ pc[w] = "link" /\ req' = req /\ nodes' = nodes
        /\ pc' = [pc EXCEPT ![w] = "respond"]
    BY <1>11 DEF LinkDeviceFails, Goto
  <2> QED
    BY <2>1, <2>2, <2>3, RegistersOnce
<1>12. ASSUME NEW w \in Workers, RemoveDevice(w) PROVE MadeOnce(k)'
  <2>1. k \notin tainted /\ MadeOnce(k)
    BY <1>12, <1>k DEF RemoveDevice
  <2>2. Deregisters(w) \/ UNCHANGED graphVars
    BY <1>12 DEF RemoveDevice, Deregisters
  <2>3. nodes' = nodes /\ \A d \in Devices : regs'[k][d] \in {regs[k][d], 0}
    BY <1>0, <2>2, DeregistersWhat DEF Deregisters
  <2> QED
    BY <1>12, <1>0, <2>1, <2>3, StaysOnce DEF RemoveDevice, Goto
<1>12a. ASSUME NEW w \in Workers, RemoveDeviceLost(w) PROVE MadeOnce(k)'
  <2>1. k \notin tainted /\ MadeOnce(k)
    BY <1>12a, <1>k DEF RemoveDeviceLost
  <2>2. Deregisters(w)
    BY <1>12a DEF RemoveDeviceLost, Deregisters
  <2>3. nodes' = nodes /\ \A d \in Devices : regs'[k][d] \in {regs[k][d], 0}
    BY <1>0, <2>2, DeregistersWhat DEF Deregisters
  <2> QED
    BY <1>12a, <1>0, <2>1, <2>3, StaysOnce DEF RemoveDeviceLost
<1>13. ASSUME NEW w \in Workers, RemoveDeviceFails(w) PROVE MadeOnce(k)'
  <2>1. k \notin tainted /\ MadeOnce(k)
    BY <1>13, <1>k DEF RemoveDeviceFails
  <2>2. Deregisters(w) \/ UNCHANGED graphVars
    BY <1>13 DEF RemoveDeviceFails, Deregisters
  <2>3. nodes' = nodes /\ \A d \in Devices : regs'[k][d] \in {regs[k][d], 0}
    BY <1>0, <2>2, DeregistersWhat DEF Deregisters
  <2> QED
    BY <1>13, <1>0, <2>1, <2>3, StaysOnce DEF RemoveDeviceFails, Goto
<1>14. ASSUME NEW w \in Workers, DeleteScene(w) PROVE MadeOnce(k)'
  <2>1. k \notin tainted /\ MadeOnce(k)
    BY <1>14, <1>k DEF DeleteScene
  <2>2. Deletes(w) \/ UNCHANGED graphVars
    BY <1>14 DEF DeleteScene, Deletes
  <2>3. /\ nodes'[k] \in {nodes[k], 0}
        /\ \A d \in Devices : regs'[k][d] \in {regs[k][d], 0}
    BY <1>0, <2>2, DeletesWhat
  <2> QED
    BY <1>14, <1>0, <2>1, <2>3, StaysOnce DEF DeleteScene, Goto, Fail
<1>14a. ASSUME NEW w \in Workers, DeleteSceneLost(w) PROVE MadeOnce(k)'
  <2>1. k \notin tainted /\ MadeOnce(k)
    BY <1>14a, <1>k DEF DeleteSceneLost
  <2>2. Deletes(w)
    BY <1>14a DEF DeleteSceneLost, Deletes
  <2>3. /\ nodes'[k] \in {nodes[k], 0}
        /\ \A d \in Devices : regs'[k][d] \in {regs[k][d], 0}
    BY <1>0, <2>2, DeletesWhat
  <2> QED
    BY <1>14a, <1>0, <2>1, <2>3, StaysOnce DEF DeleteSceneLost
<1>15. ASSUME NEW w \in Workers, DeleteSceneFails(w) PROVE MadeOnce(k)'
  <2>1. k \notin tainted /\ MadeOnce(k)
    BY <1>15, <1>k DEF DeleteSceneFails
  <2>2. Deletes(w) \/ UNCHANGED graphVars
    BY <1>15 DEF DeleteSceneFails, Deletes
  <2>3. /\ nodes'[k] \in {nodes[k], 0}
        /\ \A d \in Devices : regs'[k][d] \in {regs[k][d], 0}
    BY <1>0, <2>2, DeletesWhat
  <2> QED
    BY <1>15, <1>0, <2>1, <2>3, StaysOnce DEF DeleteSceneFails, Goto, Fail
<1>16. ASSUME NEW w \in Workers, UpdateRegistration(w) PROVE MadeOnce(k)'
  <2>1. k \notin tainted /\ MadeOnce(k)
    BY <1>16, <1>k DEF UpdateRegistration
  <2> QED
    BY <1>16, <1>0, <2>1, StaysOnce DEF UpdateRegistration, IsRegistered, Goto, Fail
<1>17. ASSUME NEW w \in Workers, UpdateRegistrationFails(w) PROVE MadeOnce(k)'
  <2>1. k \notin tainted /\ MadeOnce(k)
    BY <1>17, <1>k DEF UpdateRegistrationFails
  <2> QED
    BY <1>17, <1>0, <2>1, StaysOnce DEF UpdateRegistrationFails, Fail
<1>18. ASSUME NEW w \in Workers, GetRows(w) PROVE MadeOnce(k)'
  <2>1. k \notin tainted /\ MadeOnce(k)
    BY <1>18, <1>k DEF GetRows
  <2>2. pc[w] = "rows" /\ req' = req /\ nodes' = nodes /\ regs' = regs
    BY <1>18 DEF GetRows
  <2>3. CASE Crash
    BY <2>1, <2>2, <2>3, CrashesOnce
  <2>4. CASE pc' = [pc EXCEPT ![w] = "scenelinks"]
    BY <2>1, <2>2, <2>4, StaysOnce
  <2> QED
    BY <1>18, <2>3, <2>4 DEF GetRows, Goto
<1>19. ASSUME NEW w \in Workers, GetRowsFails(w) PROVE MadeOnce(k)'
  <2>1. k \notin tainted /\ MadeOnce(k)
    BY <1>19, <1>k DEF GetRowsFails
  <2>2. Crash /\ req' = req /\ nodes' = nodes /\ regs' = regs
    BY <1>19 DEF GetRowsFails
  <2> QED
    BY <2>1, <2>2, CrashesOnce
<1>20. ASSUME NEW w \in Workers, LinkScenes(w) PROVE MadeOnce(k)'
  <2>1. k \notin tainted /\ MadeOnce(k)
    BY <1>20, <1>k DEF LinkScenes
  <2> QED
    BY <1>20, <1>0, <2>1, StaysOnce DEF LinkScenes, Fail
<1>20a. ASSUME NEW w \in Workers, LinkScenesLost(w) PROVE MadeOnce(k)'
  <2>1. k \notin tainted /\ MadeOnce(k)
    BY <1>20a, <1>k DEF LinkScenesLost
  <2> QED
    BY <1>20a, <1>0, <2>1, StaysOnce DEF LinkScenesLost
<1>21. ASSUME NEW w \in Workers, LinkScenesFails(w) PROVE MadeOnce(k)'
  <2>1. k \notin tainted /\ MadeOnce(k)
    BY <1>21, <1>k DEF LinkScenesFails
  <2> QED
    BY <1>21, <1>0, <2>1, StaysOnce DEF LinkScenesFails, Fail
<1>22. ASSUME NEW w \in Workers, LinkScenesDone(w) PROVE MadeOnce(k)'
  <2>1. k \notin tainted /\ MadeOnce(k)
    BY <1>22, <1>k DEF LinkScenesDone
  <2> QED
    BY <1>22, <1>0, <2>1, StaysOnce DEF LinkScenesDone, Goto
<1>23. ASSUME NEW w \in Workers, GetDevice(w) PROVE MadeOnce(k)'
  <2>1. k \notin tainted /\ MadeOnce(k)
    BY <1>23, <1>k DEF GetDevice
  <2> QED
    BY <1>23, <1>0, <2>1, StaysOnce DEF GetDevice, Goto, Fail
<1>24. ASSUME NEW w \in Workers, GetDeviceFails(w) PROVE MadeOnce(k)'
  <2>1. k \notin tainted /\ MadeOnce(k)
    BY <1>24, <1>k DEF GetDeviceFails
  <2> QED
    BY <1>24, <1>0, <2>1, StaysOnce DEF GetDeviceFails, Fail
<1>25. ASSUME NEW w \in Workers, Respond(w) PROVE MadeOnce(k)'
  <2>1. k \notin tainted /\ MadeOnce(k)
    BY <1>25, <1>k DEF Respond
  <2>2. /\ pc' = [pc EXCEPT ![w] = "idle"] /\ req' = [req EXCEPT ![w] = NoRequest]
        /\ nodes' = nodes /\ regs' = regs
    BY <1>25 DEF Respond, Goto
  <2>3. /\ pc'[w] = "idle"
        /\ \A v \in Workers \ {w} : pc'[v] = pc[v] /\ req'[v] = req[v]
    BY <2>2 DEF PlacedInv, WorkersTyped
  <2>4. Creators(k)' \subseteq Creators(k)
    BY <2>3 DEF Creators, Busy, Scene
  <2>5. \A v \in Workers : pc'[v] \in {"create", "link"} =>
          pc'[v] = pc[v] /\ Scene(v)' = Scene(v) /\ Device(v)' = Device(v)
    BY <2>3 DEF Scene, Device
  <2> QED
    BY <2>1, <2>2, <2>4, <2>5 DEF MadeOnce
<1>26. CASE UNCHANGED vars
  <2>1. k \notin tainted /\ MadeOnce(k)
    BY <1>26, <1>k DEF vars
  <2>2. UNCHANGED <<pc, req, nodes, regs>>
    BY <1>26 DEF vars
  <2> QED
    BY <2>1, <2>2 DEF MadeOnce, Creators, Busy, Scene, Device
<1> QED
  BY AskedAreRequests, <1>1, <1>2, <1>3, <1>4, <1>5, <1>6, <1>7, <1>8, <1>9, <1>10, <1>11, <1>12, <1>12a, <1>13,
      <1>14, <1>14a, <1>15, <1>16, <1>17, <1>18, <1>19, <1>20, <1>20a, <1>21, <1>22, <1>23, <1>24,
      <1>25, <1>26
     DEF Next, Enter, Leave, Align

-----------------------------------------------------------------------------
(* The promises of SceneRegistry. *)

\* A step that takes a request, or answers it, leaves the graph alone.
LEMMA StepRequests ==
  ASSUME PlacedInv, [Next]_vars
  PROVE  \/ req' = req
         \/ /\ UNCHANGED graphVars
            /\ \E w \in Workers :
                 \/ /\ req[w] = NoRequest
                    /\ \E r \in Requests : req' = [req EXCEPT ![w] = r]
                 \/ req' = [req EXCEPT ![w] = NoRequest]
<1>1. ASSUME NEW w \in Workers, NEW r \in Requests, Begin(w, r)
      PROVE  /\ UNCHANGED graphVars /\ req[w] = NoRequest
             /\ req' = [req EXCEPT ![w] = r]
  BY <1>1 DEF Begin, PlacedInv, Placed
<1>2. ASSUME NEW w \in Workers, Enter(w) PROVE req' = req
  BY <1>2 DEF Enter, SceneExists, SceneExistsFails, CreateScene, CreateSceneLost,
       CreateSceneFails, Lookup, LookupFails, LinkDevice, LinkDeviceLost,
       LinkDeviceFails, workerVars
<1>3. ASSUME NEW w \in Workers, Leave(w) PROVE req' = req
  BY <1>3 DEF Leave, RemoveDevice, RemoveDeviceLost, RemoveDeviceFails, DeleteScene,
       DeleteSceneLost, DeleteSceneFails, workerVars
<1>4. ASSUME NEW w \in Workers, Align(w) PROVE req' = req
  BY <1>4 DEF Align, UpdateRegistration, UpdateRegistrationFails, GetRows,
       GetRowsFails, LinkScenes, LinkScenesLost, LinkScenesFails, LinkScenesDone,
       workerVars
<1>5. ASSUME NEW w \in Workers, GetDevice(w) \/ GetDeviceFails(w) PROVE req' = req
  BY <1>5 DEF GetDevice, GetDeviceFails
<1>6. ASSUME NEW w \in Workers, Respond(w)
      PROVE  UNCHANGED graphVars /\ req' = [req EXCEPT ![w] = NoRequest]
  BY <1>6 DEF Respond
<1>7. CASE UNCHANGED vars
  BY <1>7 DEF vars, workerVars
<1> QED
  BY AskedAreRequests, <1>1, <1>2, <1>3, <1>4, <1>5, <1>6, <1>7 DEF Next

LEMMA InitPromised == Init => Registry!Init
  BY DEF Init, Registry!Init

LEMMA StepPromised ==
  PlacedInv /\ [Next]_vars => [Registry!Next]_(Registry!vars)
<1> SUFFICES ASSUME PlacedInv, [Next]_vars
             PROVE  [Registry!Next]_(Registry!vars)
  OBVIOUS
<1> DEFINE scenes == {k \in Keys : nodes[k] > 0}
           members == {m \in Keys \X Devices : regs[m[1]][m[2]] > 0}
<1>0. /\ \A k \in Keys : nodes[k] \in {0, 1, 2}
      /\ \A k \in Keys, d \in Devices : regs[k][d] \in {0, 1, 2}
  BY Counts
<1>1. CASE UNCHANGED graphVars /\ req' = req
  BY <1>1 DEF graphVars, Registry!vars
<1>2. ASSUME UNCHANGED graphVars, NEW w \in Workers,
             \/ /\ req[w] = NoRequest
                /\ \E r \in Requests : req' = [req EXCEPT ![w] = r]
             \/ req' = [req EXCEPT ![w] = NoRequest]
      PROVE  Registry!Next
  BY <1>2 DEF graphVars, Registry!Next, Registry!Call, Registry!Return
<1>3. ASSUME NEW w \in Workers, Creates(w), req' = req
      PROVE  [Registry!Next]_(Registry!vars)
  <2>1. /\ Scene(w) \in Keys
        /\ \A k \in Keys : nodes'[k] = IF k = Scene(w) /\ k # EmptyKey
                                       THEN Capped(nodes[k] + 1, Many) ELSE nodes[k]
        /\ regs' = regs /\ req[w].kind \in {"SCENE_ENTER", "SCENE_CRT"}
    BY <1>3, CreatesWhat DEF Creates, PlacedInv, Placed
  <2>2. CASE Scene(w) = EmptyKey
    <3>1. scenes' = scenes /\ members' = members
      BY <2>1, <2>2
    <3> QED
      BY <1>3, <3>1 DEF Registry!vars
  <2>3. CASE Scene(w) # EmptyKey
    <3>1. \A k \in Keys : nodes'[k] > 0 <=> nodes[k] > 0 \/ k = Scene(w)
      BY <1>0, <2>1, <2>3 DEF Capped, Many
    <3>2. scenes' = scenes \cup {Scene(w)} /\ members' = members
      BY <2>1, <3>1
    <3>3. Registry!Create(w)
      BY <1>3, <2>1, <3>2 DEF Registry!Create, Scene
    <3> QED
      BY <3>3 DEF Registry!Next
  <2> QED
    BY <2>2, <2>3
<1>4. ASSUME NEW w \in Workers, Registers(w), req' = req
      PROVE  [Registry!Next]_(Registry!vars)
  <2>1. /\ Scene(w) \in Keys /\ Device(w) \in Devices
        /\ \A k \in Keys, d \in Devices :
             regs'[k][d] = IF k = Scene(w) /\ d = Device(w)
                           THEN Capped(regs[k][d] + nodes[k], Many) ELSE regs[k][d]
        /\ nodes' = nodes /\ req[w].kind = "SCENE_ENTER"
    BY <1>4, RegistersWhat DEF Registers, PlacedInv, Placed
  <2>2. CASE nodes[Scene(w)] = 0
    <3>1. \A k \in Keys, d \in Devices : regs'[k][d] = regs[k][d]
      BY <1>0, <2>1, <2>2 DEF Capped, Many
    <3>2. scenes' = scenes /\ members' = members
      BY <2>1, <3>1
    <3> QED
      BY <1>4, <3>2 DEF Registry!vars
  <2>3. CASE nodes[Scene(w)] > 0
    <3>1. \A k \in Keys, d \in Devices :
            regs'[k][d] > 0 <=> regs[k][d] > 0 \/ (k = Scene(w) /\ d = Device(w))
      BY <1>0, <2>1, <2>3 DEF Capped, Many
    <3>2. members' = members \cup {<<Scene(w), Device(w)>>} /\ scenes' = scenes
      BY <2>1, <3>1
    <3>3. Registry!Join(w)
      BY <1>4, <2>1, <2>3, <3>2 DEF Registry!Join, Scene, Device
    <3> QED
      BY <3>3 DEF Registry!Next
  <2> QED
    BY <1>0, <2>1, <2>2, <2>3
<1>5. ASSUME NEW w \in Workers, Deregisters(w), req' = req
      PROVE  Registry!Next
  <2>1. /\ Scene(w) \in Keys /\ Device(w) \in Devices
        /\ \A k \in Keys, d \in Devices :
             regs'[k][d] = IF k = Scene(w) /\ d = Device(w) THEN 0 ELSE regs[k][d]
        /\ nodes' = nodes /\ req[w].kind = "SCENE_LEAVE"
    BY <1>5, DeregistersWhat DEF Deregisters, PlacedInv, Placed
  <2>2. members' = members \ {<<Scene(w), Device(w)>>} /\ scenes' = scenes
    BY <2>1
  <2>3. Registry!Part(w)
    BY <1>5, <2>1, <2>2 DEF Registry!Part, Scene, Device
  <2> QED
    BY <2>3 DEF Registry!Next
<1>6. ASSUME NEW w \in Workers, Deletes(w), req' = req
      PROVE  Registry!Next
  <2>1. /\ Scene(w) \in Keys
        /\ \A k \in Keys : nodes'[k] = IF k = Scene(w) THEN 0 ELSE nodes[k]
        /\ \A k \in Keys, d \in Devices :
             regs'[k][d] = IF k = Scene(w) THEN 0 ELSE regs[k][d]
        /\ req[w].kind = "SCENE_DEL"
    BY <1>6, DeletesWhat DEF Deletes, PlacedInv, Placed, Keys
  <2>2. scenes' = scenes \ {Scene(w)} /\ members' = {m \in members : m[1] # Scene(w)}
    BY <2>1
  <2>3. Registry!Drop(w)
    BY <1>6, <2>1, <2>2 DEF Registry!Drop, Scene
  <2> QED
    BY <2>3 DEF Registry!Next
<1>7. ASSUME NEW w \in Workers, NEW j \in OtherRows(w), LinksTo(w, j), req' = req
      PROVE  [Registry!Next]_(Registry!vars)
  BY <1>7 DEF LinksTo, Registry!vars
<1> QED
  BY <1>1, <1>2, <1>3, <1>4, <1>5, <1>6, <1>7, StepEffect, StepRequests DEF Effect

-----------------------------------------------------------------------------
(* What a worker has read is so when it answers, unless it was disturbed. *)

\* What holds at each place of a handler that nothing came between.
Known(w) ==
  /\ pc[w] \in {"lookup", "link"} /\ Scene(w) \in Scenes => nodes[Scene(w)] > 0
  /\ pc[w] \in {"rows", "scenelinks"} => regs[Scene(w)][Device(w)] > 0
  /\ Answering(w, "SCENE_ENTER", "NO_ERROR") => regs[Scene(w)][Device(w)] > 0
  /\ Answering(w, "SCENE_LEAVE", "NO_ERROR") => ~(regs[Scene(w)][Device(w)] > 0)
  /\ Answering(w, "DEVICE_ALIGN", "NO_ERROR") => regs[Scene(w)][Device(w)] > 0
  /\ Answering(w, "DEVICE_ALIGN", "NOT_FOUND") => ~(regs[Scene(w)][Device(w)] > 0)
  /\ Answering(w, "DEVICE_GET", "NOT_FOUND") => InScenes(Device(w)) = {}
  /\ Answering(w, "DEVICE_GET", "NO_ERROR") =>
       InScenes(Device(w)) # {} \/ Device(w) \in orphans

\* Until it answers a handler has met no error, and an answer that claims
\* something about a device names one.
Claims(w) ==
  /\ pc[w] \notin {"respond", "dead"} => err[w] = "NO_ERROR"
  /\ pc[w] = "respond" /\ req[w].kind \in DeviceKinds /\ err[w] \in {"NO_ERROR", "NOT_FOUND"}
       => Device(w) \in Devices

Sound(w) == Claims(w) /\ (~disturbed[w] => Known(w))

SoundInv == \A w \in Workers : Sound(w)

\* A step of worker w, as the others see it.
Aside(w) ==
  \A v \in Workers \ {w} :
    /\ pc'[v] \in {pc[v], "dead"} /\ req'[v] = req[v] /\ err'[v] = err[v]
    /\ disturbed[v] => disturbed'[v]

Disturbs(w, D) == \A v \in Rivals(w, Scene(w), D) : disturbed'[v]

Noticed(w) ==
  \/ UNCHANGED <<regs, orphans>> /\ (nodes' = nodes \/ Creates(w))
  \/ (Registers(w) \/ Deregisters(w)) /\ Disturbs(w, {Device(w)})
  \/ Deletes(w) /\ Disturbs(w, Devices)

LEMMA SoundAside ==
  ASSUME PlacedInv, NEW w \in Workers, NEW v \in Workers \ {w}, Sound(v),
         Aside(w), Noticed(w)
  PROVE  Sound(v)'
<1>0. /\ \A k \in Keys : nodes[k] \in {0, 1, 2}
      /\ \A k \in Keys, d \in Devices : regs[k][d] \in {0, 1, 2}
      /\ Scenes \subseteq Keys
  BY Counts DEF Keys
<1>1. /\ pc'[v] \in {pc[v], "dead"} /\ err'[v] = err[v]
      /\ disturbed[v] => disturbed'[v]
      /\ Scene(v)' = Scene(v) /\ Device(v)' = Device(v) /\ req'[v] = req[v]
  BY DEF Aside, Scene, Device
<1>2. Claims(v)'
  BY <1>1 DEF Sound, Claims
<1> SUFFICES ASSUME ~disturbed'[v], pc'[v] = pc[v], Busy(v) PROVE Known(v)'
  BY <1>1, <1>2 DEF Sound, Known, Answering, Busy
<1>3. Known(v) /\ ~disturbed[v] /\ Claims(v)
  BY <1>1 DEF Sound
<1>4. \A D : Disturbs(w, D) /\ Device(v) \in D =>
        Scene(v) # Scene(w) /\ req[v].kind # "DEVICE_GET"
  BY DEF Disturbs, Rivals
<1>5. pc[v] \in {"lookup", "link", "rows", "scenelinks"} =>
        Scene(v) \in Keys /\ Device(v) \in Devices
  BY DEF PlacedInv, Placed, DeviceKinds, MemberKinds
<1>6. \A kind \in DeviceKinds : \A code \in {"NO_ERROR", "NOT_FOUND"} :
        Answering(v, kind, code)' =>
          /\ Answering(v, kind, code) /\ Device(v) \in Devices /\ req[v].kind = kind
          /\ Scene(v) \in Keys \/ kind = "DEVICE_GET"
  BY <1>0, <1>1, <1>3 DEF Answering, Claims
<1>7. /\ Scene(v) \in Keys /\ Device(v) \in Devices =>
           (regs'[Scene(v)][Device(v)] > 0 <=> regs[Scene(v)][Device(v)] > 0)
      /\ req[v].kind = "DEVICE_GET" /\ Device(v) \in Devices =>
           /\ \A k \in Keys : regs'[k][Device(v)] = regs[k][Device(v)]
           /\ Device(v) \in orphans' <=> Device(v) \in orphans
      /\ Scene(v) \in Keys /\ Device(v) \in Devices /\ nodes[Scene(v)] > 0 =>
           nodes'[Scene(v)] > 0
  <2>1. CASE UNCHANGED <<regs, orphans>> /\ nodes' = nodes
    BY <2>1
  <2>2. CASE Creates(w)
    BY <1>0, <2>2, CreatesWhat DEF Creates, Capped, Many
  <2>3. CASE Registers(w) /\ Disturbs(w, {Device(w)})
    <3>1. /\ \A k \in Keys, d \in Devices :
               k # Scene(w) \/ d # Device(w) => regs'[k][d] = regs[k][d]
          /\ nodes' = nodes /\ orphans' = orphans
      BY <2>3, RegistersWhat DEF Registers
    <3> QED
      BY <1>4, <2>3, <3>1
  <2>4. CASE Deregisters(w) /\ Disturbs(w, {Device(w)})
    <3>1. /\ \A k \in Keys, d \in Devices :
               k # Scene(w) \/ d # Device(w) => regs'[k][d] = regs[k][d]
          /\ nodes' = nodes /\ orphans' = orphans
      BY <2>4, DeregistersWhat DEF Deregisters
    <3> QED
      BY <1>4, <2>4, <3>1
  <2>5. CASE Deletes(w) /\ Disturbs(w, Devices)
    <3>1. /\ \A k \in Keys : k # Scene(w) => nodes'[k] = nodes[k]
          /\ \A k \in Keys, d \in Devices : k # Scene(w) => regs'[k][d] = regs[k][d]
      BY <2>5, DeletesWhat
    <3> QED
      BY <1>4, <2>5, <3>1
  <2> QED
    BY <2>1, <2>2, <2>3, <2>4, <2>5 DEF Noticed
<1>8. req[v].kind = "DEVICE_GET" /\ Device(v) \in Devices =>
        InScenes(Device(v))' = InScenes(Device(v))
  BY <1>1, <1>7 DEF InScenes
<1>9. {"SCENE_ENTER", "SCENE_LEAVE", "DEVICE_ALIGN", "DEVICE_GET"} = DeviceKinds
  BY DEF DeviceKinds, MemberKinds
<1> QED
  BY <1>0, <1>1, <1>3, <1>5, <1>6, <1>7, <1>8, <1>9 DEF Known

\* A query of w failed: w is disturbed, and claims nothing but its error.
LEMMA SoundFaulted ==
  ASSUME PlacedInv, NEW w \in Workers, Sound(w), pc[w] \notin {"idle", "respond", "dead"},
         req'[w] = req[w], disturbed'[w], err'[w] = err[w] \/ pc'[w] \in {"respond", "dead"}
  PROVE  Sound(w)'
<1>1. req[w].kind \in DeviceKinds => Device(w) \in Devices
  BY DEF PlacedInv, Placed
<1> QED
  BY <1>1 DEF Sound, Claims, Device

Does(w) == Aside(w) /\ Noticed(w) /\ Sound(w)'

LEMMA SoundStep ==
  ASSUME PlacedInv, SoundInv, [Next]_vars
  PROVE  (\E w \in Workers : Does(w)) \/ UNCHANGED vars
<1>0. /\ \A w \in Workers : Sound(w)
      /\ pc \in [Workers -> Steps] /\ err \in [Workers -> Errors]
      /\ req \in [Workers -> Requests] /\ disturbed \in [Workers -> BOOLEAN]
      /\ \A k \in Keys : nodes[k] \in {0, 1, 2}
      /\ \A k \in Keys, d \in Devices : regs[k][d] \in {0, 1, 2}
  BY Counts DEF SoundInv, PlacedInv, WorkersTyped, HistoryTyped
<1>p. \A w \in Workers : pc[w] \notin {"idle", "respond", "dead"} =>
        /\ err[w] = "NO_ERROR" /\ Scene(w) \in Keys
        /\ req[w].kind \in DeviceKinds => Device(w) \in Devices
  BY <1>0 DEF Sound, Claims, PlacedInv, Placed
<1> USE DEF graphVars, workerVars, historyVars
<1>1. ASSUME NEW w \in Workers, NEW r \in Requests, Begin(w, r) PROVE Does(w)
  <2>1. Aside(w)
    BY <1>1, <1>0 DEF Begin, Aside, Goto, Fail
  <2>2. Noticed(w)
    BY <1>1 DEF Begin, Noticed
  <2>3. /\ pc[w] = "idle" /\ req'[w] = r
        /\ \/ /\ pc'[w] = "respond"
              /\ err'[w] \in {"INSUFF_DATA_ERROR", "SceneException", "PROCESSING_ERROR"}
           \/ pc'[w] = FirstStep(r.kind) /\ err'[w] = err[w]
    BY <1>1, <1>0 DEF Begin, Goto, Fail
  <2>4. FirstStep(r.kind) \in {"exists", "leave", "update", "get", "create", "delete"}
    BY RequestFields DEF FirstStep, Kinds
  <2>5. err[w] = "NO_ERROR"
    BY <1>0, <2>3 DEF Sound, Claims
  <2>6. Sound(w)'
    BY <2>3, <2>4, <2>5 DEF Sound, Claims, Known, Answering
  <2> QED
    BY <2>1, <2>2, <2>6 DEF Does
<1>2. ASSUME NEW w \in Workers, SceneExists(w) PROVE Does(w)
  <2>1. Aside(w)
    BY <1>2, <1>0 DEF SceneExists, Aside, Goto
  <2>2. Noticed(w)
    BY <1>2 DEF SceneExists, Noticed
  <2>3. \E step \in {"lookup", "create"} :
          /\ pc'[w] = step /\ err'[w] = err[w] /\ req'[w] = req[w]
          /\ disturbed'[w] = disturbed[w] /\ nodes' = nodes /\ pc[w] = "exists"
          /\ step = "lookup" => nodes[Scene(w)] > 0
    BY <1>2, <1>0 DEF SceneExists, Goto
  <2>4. Sound(w)'
    BY <1>p, <2>3 DEF Sound, Claims, Known, Answering, Scene
  <2> QED
    BY <2>1, <2>2, <2>4 DEF Does
<1>3. ASSUME NEW w \in Workers, SceneExistsFails(w) PROVE Does(w)
  <2>1. Aside(w)
    BY <1>3, <1>0 DEF SceneExistsFails, Aside, CreatorFault, Disturb, Goto, Fail
  <2>2. Noticed(w)
    BY <1>3 DEF SceneExistsFails, Noticed
  <2>3. /\ pc[w] \notin {"idle", "respond", "dead"} /\ req'[w] = req[w]
        /\ disturbed'[w] /\ (err'[w] = err[w] \/ pc'[w] \in {"respond", "dead"})
    BY <1>3, <1>0 DEF SceneExistsFails, CreatorFault, Disturb, Goto, Fail
  <2>4. Sound(w)'
    BY <1>0, <2>3, SoundFaulted
  <2> QED
    BY <2>1, <2>2, <2>4 DEF Does
<1>4. ASSUME NEW w \in Workers, CreateScene(w) PROVE Does(w)
  <2>1. Aside(w)
    BY <1>4, <1>0 DEF CreateScene, Aside, Goto
  <2>2. Noticed(w)
    BY <1>4 DEF CreateScene, Noticed, Creates
  <2>3. \E step \in {"link", "respond"} :
          /\ pc'[w] = step /\ err'[w] = err[w] /\ req'[w] = req[w]
          /\ disturbed'[w] = disturbed[w] /\ pc[w] = "create" /\ Creates(w)
          /\ step = "respond" => req[w].kind # "SCENE_ENTER"
    BY <1>4, <1>0 DEF CreateScene, Goto, Creates
  <2>5. /\ req[w].kind \in {"SCENE_ENTER", "SCENE_CRT"}
        /\ Scene(w) \in Scenes => nodes'[Scene(w)] > 0
    BY <1>0, <2>3, CreatesWhat, KeysDistinct
       DEF PlacedInv, Placed, Creates, Capped, Many
  <2>4. Sound(w)'
    BY <1>p, <2>3, <2>5
       DEF Sound, Claims, Known, Answering, Scene, DeviceKinds, MemberKinds
  <2> QED
    BY <2>1, <2>2, <2>4 DEF Does
<1>5. ASSUME NEW w \in Workers, CreateSceneLost(w) PROVE Does(w)
  <2>1. Aside(w)
    BY <1>5, <1>0 DEF CreateSceneLost, Aside, CreatorFault, Disturb
  <2>2. Noticed(w)
    BY <1>5 DEF CreateSceneLost, Noticed, Creates
  <2>3. /\ pc[w] \notin {"idle", "respond", "dead"} /\ req'[w] = req[w]
        /\ disturbed'[w] /\ (err'[w] = err[w] \/ pc'[w] \in {"respond", "dead"})
    BY <1>5, <1>0 DEF CreateSceneLost, CreatorFault, Disturb
  <2>4. Sound(w)'
    BY <1>0, <2>3, SoundFaulted
  <2> QED
    BY <2>1, <2>2, <2>4 DEF Does
<1>6. ASSUME NEW w \in Workers, CreateSceneFails(w) PROVE Does(w)
  <2>1. Aside(w)
    BY <1>6, <1>0 DEF CreateSceneFails, Aside, CreatorFault, Disturb, Fail
  <2>2. Noticed(w)
    BY <1>6 DEF CreateSceneFails, Noticed, Creates
  <2>3. /\ pc[w] \notin {"idle", "respond", "dead"} /\ req'[w] = req[w]
        /\ disturbed'[w] /\ (err'[w] = err[w] \/ pc'[w] \in {"respond", "dead"})
    BY <1>6, <1>0 DEF CreateSceneFails, CreatorFault, Disturb, Fail
  <2>4. Sound(w)'
    BY <1>0, <2>3, SoundFaulted
  <2> QED
    BY <2>1, <2>2, <2>4 DEF Does
<1>7. ASSUME NEW w \in Workers, Lookup(w) PROVE Does(w)
  <2>1. Aside(w)
    BY <1>7, <1>0 DEF Lookup, Aside, Goto
  <2>2. Noticed(w)
    BY <1>7 DEF Lookup, Noticed
  <2>3. \E step \in {"link", "respond"} :
          /\ pc'[w] = step /\ err'[w] = err[w] /\ req'[w] = req[w]
          /\ disturbed'[w] = disturbed[w] /\ pc[w] = "lookup"
          /\ nodes' = nodes /\ regs' = regs
          /\ step = "respond" => regs[Scene(w)][Device(w)] > 0
    BY <1>7, <1>0 DEF Lookup, Goto, IsRegistered
  <2>5. req[w].kind = "SCENE_ENTER" /\ Device(w) \in Devices
    BY <2>3 DEF PlacedInv, Placed, DeviceKinds, MemberKinds
  <2>4. Sound(w)'
    BY <1>0, <1>p, <2>3, <2>5 DEF Sound, Claims, Known, Answering, Scene, Device
  <2> QED
    BY <2>1, <2>2, <2>4 DEF Does
<1>8. ASSUME NEW w \in Workers, LookupFails(w) PROVE Does(w)
  <2>1. Aside(w)
    BY <1>8, <1>0 DEF LookupFails, Aside, CreatorFault, Disturb, Goto
  <2>2. Noticed(w)
    BY <1>8 DEF LookupFails, Noticed
  <2>3. /\ pc[w] \notin {"idle", "respond", "dead"} /\ req'[w] = req[w]
        /\ disturbed'[w] /\ (err'[w] = err[w] \/ pc'[w] \in {"respond", "dead"})
    BY <1>8, <1>0 DEF LookupFails, CreatorFault, Disturb, Goto
  <2>4. Sound(w)'
    BY <1>0, <2>3, SoundFaulted
  <2> QED
    BY <2>1, <2>2, <2>4 DEF Does
<1>9. ASSUME NEW w \in Workers, LinkDevice(w) PROVE Does(w)
  <2>1. Aside(w)
    BY <1>9, <1>0 DEF LinkDevice, Aside, Goto, Disturb
  <2>2. Noticed(w)
    <3>1. Disturbs(w, {Device(w)})
      BY <1>9 DEF LinkDevice, Disturbs, Disturb, Rivals
    <3> QED
      BY <1>9, <3>1 DEF LinkDevice, Noticed, Registers
  <2>3. /\ pc'[w] = "respond" /\ err'[w] = err[w] /\ req'[w] = req[w]
        /\ disturbed'[w] = disturbed[w] /\ pc[w] = "link" /\ Registers(w)
    BY <1>9, <1>0 DEF LinkDevice, Goto, Disturb, Rivals, Registers
  <2>5. /\ req[w].kind = "SCENE_ENTER" /\ Device(w) \in Devices
        /\ nodes[Scene(w)] > 0 => regs'[Scene(w)][Device(w)] > 0
    BY <1>0, <2>3, RegistersWhat
       DEF PlacedInv, Placed, DeviceKinds, MemberKinds, Capped, Many
  <2>4. Sound(w)'
    BY <1>0, <1>p, <2>3, <2>5 DEF Sound, Claims, Known, Answering, Scene, Device
  <2> QED
    BY <2>1, <2>2, <2>4 DEF Does
<1>10. ASSUME NEW w \in Workers, LinkDeviceLost(w) PROVE Does(w)
  <2>1. Aside(w)
    BY <1>10, <1>0 DEF LinkDeviceLost, Aside, Disturb
  <2>2. Noticed(w)
    <3>1. Disturbs(w, {Device(w)})
      BY <1>10 DEF LinkDeviceLost, Disturbs, Disturb, Rivals
    <3> QED
      BY <1>10, <3>1 DEF LinkDeviceLost, Noticed, Registers
  <2>3. /\ pc[w] \notin {"idle", "respond", "dead"} /\ req'[w] = req[w]
        /\ disturbed'[w] /\ (err'[w] = err[w] \/ pc'[w] \in {"respond", "dead"})
    BY <1>10, <1>0 DEF LinkDeviceLost, Disturb
  <2>4. Sound(w)'
    BY <1>0, <2>3, SoundFaulted
  <2> QED
    BY <2>1, <2>2, <2>4 DEF Does
<1>11. ASSUME NEW w \in Workers, LinkDeviceFails(w) PROVE Does(w)
  <2>1. Aside(w)
    BY <1>11, <1>0 DEF LinkDeviceFails, Aside, Disturb, Goto
  <2>2. Noticed(w)
    <3>1. Disturbs(w, {Device(w)})
      BY <1>11 DEF LinkDeviceFails, Disturbs, Disturb, Rivals
    <3> QED
      BY <1>11, <3>1 DEF LinkDeviceFails, Noticed, Registers
  <2>3. /\ pc[w] \notin {"idle", "respond", "dead"} /\ req'[w] = req[w]
        /\ disturbed'[w] /\ (err'[w] = err[w] \/ pc'[w] \in {"respond", "dead"})
    BY <1>11, <1>0 DEF LinkDeviceFails, Disturb, Goto
  <2>4. Sound(w)'
    BY <1>0, <2>3, SoundFaulted
  <2> QED
    BY <2>1, <2>2, <2>4 DEF Does
<1>12. ASSUME NEW w \in Workers, RemoveDevice(w) PROVE Does(w)
  <2>1. Aside(w)
    BY <1>12, <1>0 DEF RemoveDevice, Aside, Goto, Disturb
  <2>2. Noticed(w)
    <3>1. Disturbs(w, {Device(w)})
      BY <1>12 DEF RemoveDevice, Disturbs, Disturb, Rivals
    <3> QED
      BY <1>12, <3>1 DEF RemoveDevice, Noticed, Deregisters
  <2>3. /\ pc'[w] = "respond" /\ err'[w] = err[w] /\ req'[w] = req[w]
        /\ disturbed'[w] = disturbed[w] /\ pc[w] = "leave" /\ Deregisters(w)
    BY <1>12, <1>0 DEF RemoveDevice, Goto, Disturb, Rivals, Deregisters
  <2>5. /\ req[w].kind = "SCENE_LEAVE" /\ Device(w) \in Devices
        /\ regs'[Scene(w)][Device(w)] = 0
    BY <1>0, <2>3, DeregistersWhat DEF PlacedInv, Placed, DeviceKinds, MemberKinds
  <2>4. Sound(w)'
    BY <1>0, <1>p, <2>3, <2>5 DEF Sound, Claims, Known, Answering, Scene, Device
  <2> QED
    BY <2>1, <2>2, <2>4 DEF Does
<1>12a. ASSUME NEW w \in Workers, RemoveDeviceLost(w) PROVE Does(w)
  <2>1. Aside(w)
    BY <1>12a, <1>0 DEF RemoveDeviceLost, Aside, Disturb
  <2>2. Noticed(w)
    <3>1. Disturbs(w, {Device(w)})
      BY <1>12a DEF RemoveDeviceLost, Disturbs, Disturb, Rivals
    <3> QED
      BY <1>12a, <3>1 DEF RemoveDeviceLost, Noticed, Deregisters
  <2>3. pc'[w] = "leave" /\ err'[w] = err[w] /\ pc[w] = "leave"
    BY <1>12a DEF RemoveDeviceLost
  <2>4. Sound(w)'
    BY <1>p, <2>3 DEF Sound, Claims, Known, Answering
  <2> QED
    BY <2>1, <2>2, <2>4 DEF Does
<1>13. ASSUME NEW w \in Workers, RemoveDeviceFails(w) PROVE Does(w)
  <2>1. Aside(w)
    BY <1>13, <1>0 DEF RemoveDeviceFails, Aside, Goto, Disturb
  <2>2. Noticed(w)
    <3>1. Disturbs(w, {Device(w)})
      BY <1>13 DEF RemoveDeviceFails, Disturbs, Disturb, Rivals
    <3> QED
      BY <1>13, <3>1 DEF RemoveDeviceFails, Noticed, Deregisters
  <2>3. /\ pc[w] \notin {"idle", "respond", "dead"} /\ req'[w] = req[w]
        /\ disturbed'[w] /\ (err'[w] = err[w] \/ pc'[w] \in {"respond", "dead"})
    BY <1>13, <1>0 DEF RemoveDeviceFails, Goto, Disturb
  <2>4. Sound(w)'
    BY <1>0, <2>3, SoundFaulted
  <2> QED
    BY <2>1, <2>2, <2>4 DEF Does
<1>14. ASSUME NEW w \in Workers, DeleteScene(w) PROVE Does(w)
  <2>1. Aside(w)
    BY <1>14, <1>0 DEF DeleteScene, Aside, Goto, Disturb
  <2>2. Noticed(w)
    <3>1. Disturbs(w, Devices)
      BY <1>14 DEF DeleteScene, Disturbs, Disturb, Rivals
    <3> QED
      BY <1>14, <3>1 DEF DeleteScene, Noticed, Deletes
  <2>3. /\ pc'[w] = "respond" /\ err'[w] = err[w] /\ req'[w] = req[w]
        /\ req[w].kind = "SCENE_DEL"
    BY <1>14, <1>0 DEF DeleteScene, Goto, PlacedInv, Placed
  <2>4. Sound(w)'
    BY <2>3 DEF Sound, Claims, Known, Answering, DeviceKinds, MemberKinds
  <2> QED
    BY <2>1, <2>2, <2>4 DEF Does
<1>14a. ASSUME NEW w \in Workers, DeleteSceneLost(w) PROVE Does(w)
  <2>1. Aside(w)
    BY <1>14a, <1>0 DEF DeleteSceneLost, Aside, Disturb
  <2>2. Noticed(w)
    <3>1. Disturbs(w, Devices)
      BY <1>14a DEF DeleteSceneLost, Disturbs, Disturb, Rivals
    <3> QED
      BY <1>14a, <3>1 DEF DeleteSceneLost, Noticed, Deletes
  <2>3. pc'[w] = "delete" /\ err'[w] = err[w] /\ pc[w] = "delete"
    BY <1>14a DEF DeleteSceneLost
  <2>4. Sound(w)'
    BY <1>p, <2>3 DEF Sound, Claims, Known, Answering
  <2> QED
    BY <2>1, <2>2, <2>4 DEF Does
<1>15. ASSUME NEW w \in Workers, DeleteSceneFails(w) PROVE Does(w)
  <2>1. Aside(w)
    BY <1>15, <1>0 DEF DeleteSceneFails, Aside, Fail, Disturb
  <2>2. Noticed(w)
    <3>1. Disturbs(w, Devices)
      BY <1>15 DEF DeleteSceneFails, Disturbs, Disturb, Rivals
    <3> QED
      BY <1>15, <3>1 DEF DeleteSceneFails, Noticed, Deletes
  <2>3. /\ pc[w] \notin {"idle", "respond", "dead"} /\ req'[w] = req[w]
        /\ disturbed'[w] /\ (err'[w] = err[w] \/ pc'[w] \in {"respond", "dead"})
    BY <1>15, <1>0 DEF DeleteSceneFails, Fail, Disturb
  <2>4. Sound(w)'
    BY <1>0, <2>3, SoundFaulted
  <2> QED
    BY <2>1, <2>2, <2>4 DEF Does
<1>16. ASSUME NEW w \in Workers, UpdateRegistration(w) PROVE Does(w)
  <2>1. Aside(w)
    BY <1>16, <1>0 DEF UpdateRegistration, Aside, Goto, Fail
  <2>2. Noticed(w)
    BY <1>16 DEF UpdateRegistration, Noticed
  <2>3. /\ req'[w] = req[w] /\ disturbed'[w] = disturbed[w]
        /\ pc[w] = "update" /\ regs' = regs
        /\ \/ /\ pc'[w] = "rows" /\ err'[w] = err[w]
              /\ regs[Scene(w)][Device(w)] > 0
           \/ /\ pc'[w] = "respond" /\ err'[w] = "NOT_FOUND"
              /\ ~(regs[Scene(w)][Device(w)] > 0)
    BY <1>16, <1>0 DEF UpdateRegistration, Goto, Fail, IsRegistered
  <2>5. req[w].kind = "DEVICE_ALIGN" /\ Device(w) \in Devices
    BY <2>3 DEF PlacedInv, Placed, DeviceKinds, MemberKinds
  <2>4. Sound(w)'
    BY <1>p, <2>3, <2>5 DEF Sound, Claims, Known, Answering, Scene, Device
  <2> QED
    BY <2>1, <2>2, <2>4 DEF Does
<1>17. ASSUME NEW w \in Workers, UpdateRegistrationFails(w) PROVE Does(w)
  <2>1. Aside(w)
    BY <1>17, <1>0 DEF UpdateRegistrationFails, Aside, Fail, Disturb
  <2>2. Noticed(w)
    BY <1>17 DEF UpdateRegistrationFails, Noticed
  <2>3. /\ pc[w] \notin {"idle", "respond", "dead"} /\ req'[w] = req[w]
        /\ disturbed'[w] /\ (err'[w] = err[w] \/ pc'[w] \in {"respond", "dead"})
    BY <1>17, <1>0 DEF UpdateRegistrationFails, Fail, Disturb
  <2>4. Sound(w)'
    BY <1>0, <2>3, SoundFaulted
  <2> QED
    BY <2>1, <2>2, <2>4 DEF Does
<1>18. ASSUME NEW w \in Workers, GetRows(w) PROVE Does(w)
  <2>1. Aside(w)
    BY <1>18, <1>0 DEF GetRows, Aside, Crash, Goto
  <2>2. Noticed(w)
    BY <1>18 DEF GetRows, Noticed
  <2>3. /\ err'[w] = err[w] /\ req'[w] = req[w] /\ disturbed'[w] = disturbed[w]
        /\ pc[w] = "rows" /\ pc'[w] \in {"dead", "scenelinks"} /\ regs' = regs
    BY <1>18, <1>0 DEF GetRows, Goto, Crash
  <2>4. Sound(w)'
    BY <1>0, <1>p, <2>3 DEF Sound, Claims, Known, Answering, Scene, Device
  <2> QED
    BY <2>1, <2>2, <2>4 DEF Does
<1>19. ASSUME NEW w \in Workers, GetRowsFails(w) PROVE Does(w)
  <2>1. Aside(w)
    BY <1>19, <1>0 DEF GetRowsFails, Aside, Disturb, Crash
  <2>2. Noticed(w)
    BY <1>19 DEF GetRowsFails, Noticed
  <2>3. /\ pc[w] \notin {"idle", "respond", "dead"} /\ req'[w] = req[w]
        /\ disturbed'[w] /\ (err'[w] = err[w] \/ pc'[w] \in {"respond", "dead"})
    BY <1>19, <1>0 DEF GetRowsFails, Disturb, Crash
  <2>4. Sound(w)'
    BY <1>0, <2>3, SoundFaulted
  <2> QED
    BY <2>1, <2>2, <2>4 DEF Does
<1>20. ASSUME NEW w \in Workers, LinkScenes(w) PROVE Does(w)
  <2>1. Aside(w)
    BY <1>20, <1>0 DEF LinkScenes, Aside, Fail
  <2>2. Noticed(w)
    BY <1>20 DEF LinkScenes, Noticed
  <2>3. /\ req'[w] = req[w] /\ disturbed'[w] = disturbed[w]
        /\ pc[w] = "scenelinks" /\ regs' = regs
        /\ \/ pc'[w] = pc[w] /\ err'[w] = err[w]
           \/ pc'[w] = "respond" /\ err'[w] = "PROCESSING_ERROR"
    BY <1>20, <1>0 DEF LinkScenes, Fail
  <2>4. Sound(w)'
    BY <1>0, <1>p, <2>3 DEF Sound, Claims, Known, Answering, Scene, Device
  <2> QED
    BY <2>1, <2>2, <2>4 DEF Does
<1>20a. ASSUME NEW w \in Workers, LinkScenesLost(w) PROVE Does(w)
  <2>1. Aside(w)
    BY <1>20a DEF LinkScenesLost, Aside
  <2>2. Noticed(w)
    BY <1>20a DEF LinkScenesLost, Noticed
  <2>3. /\ req'[w] = req[w] /\ disturbed'[w] = disturbed[w] /\ regs' = regs
        /\ pc[w] = "scenelinks" /\ pc'[w] = pc[w] /\ err'[w] = err[w]
    BY <1>20a DEF LinkScenesLost
  <2>4. Sound(w)'
    BY <1>0, <1>p, <2>3 DEF Sound, Claims, Known, Answering, Scene, Device
  <2> QED
    BY <2>1, <2>2, <2>4 DEF Does
<1>21. ASSUME NEW w \in Workers, LinkScenesFails(w) PROVE Does(w)
  <2>1. Aside(w)
    BY <1>21, <1>0 DEF LinkScenesFails, Aside, Fail, Disturb
  <2>2. Noticed(w)
    BY <1>21 DEF LinkScenesFails, Noticed
  <2>3. /\ pc[w] \notin {"idle", "respond", "dead"} /\ req'[w] = req[w]
        /\ disturbed'[w] /\ (err'[w] = err[w] \/ pc'[w] \in {"respond", "dead"})
    BY <1>21, <1>0 DEF LinkScenesFails, Fail, Disturb
  <2>4. Sound(w)'
    BY <1>0, <2>3, SoundFaulted
  <2> QED
    BY <2>1, <2>2, <2>4 DEF Does
<1>22. ASSUME NEW w \in Workers, LinkScenesDone(w) PROVE Does(w)
  <2>1. Aside(w)
    BY <1>22, <1>0 DEF LinkScenesDone, Aside, Goto
  <2>2. Noticed(w)
    BY <1>22 DEF LinkScenesDone, Noticed
  <2>3. /\ err'[w] = err[w] /\ req'[w] = req[w] /\ disturbed'[w] = disturbed[w]
        /\ pc[w] = "scenelinks" /\ pc'[w] = "respond" /\ regs' = regs
    BY <1>22, <1>0 DEF LinkScenesDone, Goto
  <2>5. req[w].kind = "DEVICE_ALIGN" /\ Device(w) \in Devices
    BY <2>3 DEF PlacedInv, Placed, DeviceKinds, MemberKinds
  <2>4. Sound(w)'
    BY <1>0, <1>p, <2>3, <2>5 DEF Sound, Claims, Known, Answering, Scene, Device
  <2> QED
    BY <2>1, <2>2, <2>4 DEF Does
<1>23. ASSUME NEW w \in Workers, GetDevice(w) PROVE Does(w)
  <2>1. Aside(w)
    BY <1>23, <1>0 DEF GetDevice, Aside, Goto, Fail
  <2>2. Noticed(w)
    BY <1>23 DEF GetDevice, Noticed
  <2>3. /\ req'[w] = req[w] /\ disturbed'[w] = disturbed[w]
        /\ pc[w] = "get" /\ pc'[w] = "respond" /\ regs' = regs /\ orphans' = orphans
        /\ \/ err'[w] = err[w] /\ Found(w)
           \/ err'[w] = "NOT_FOUND" /\ ~Found(w)
    BY <1>23, <1>0 DEF GetDevice, Goto, Fail
  <2>5. req[w].kind = "DEVICE_GET" /\ Device(w) \in Devices
    BY <2>3 DEF PlacedInv, Placed, DeviceKinds, MemberKinds
  <2>6. InScenes(Device(w))' = InScenes(Device(w))
    BY <2>3 DEF InScenes, Device
  <2>4. Sound(w)'
    BY <1>p, <2>3, <2>5, <2>6
       DEF Sound, Claims, Known, Answering, Scene, Device, Found
  <2> QED
    BY <2>1, <2>2, <2>4 DEF Does
<1>24. ASSUME NEW w \in Workers, GetDeviceFails(w) PROVE Does(w)
  <2>1. Aside(w)
    BY <1>24, <1>0 DEF GetDeviceFails, Aside, Fail, Disturb
  <2>2. Noticed(w)
    BY <1>24 DEF GetDeviceFails, Noticed
  <2>3. /\ pc[w] \notin {"idle", "respond", "dead"} /\ req'[w] = req[w]
        /\ disturbed'[w] /\ (err'[w] = err[w] \/ pc'[w] \in {"respond", "dead"})
    BY <1>24, <1>0 DEF GetDeviceFails, Fail, Disturb
  <2>4. Sound(w)'
    BY <1>0, <2>3, SoundFaulted
  <2> QED
    BY <2>1, <2>2, <2>4 DEF Does
<1>25. ASSUME NEW w \in Workers, Respond(w) PROVE Does(w)
  <2>1. Aside(w)
    BY <1>25, <1>0 DEF Respond, Aside, Goto
  <2>2. Noticed(w)
    BY <1>25 DEF Respond, Noticed
  <2>3. pc'[w] = "idle" /\ err'[w] = "NO_ERROR"
    BY <1>25, <1>0 DEF Respond, Goto
  <2>4. Sound(w)'
    BY <2>3 DEF Sound, Claims, Known, Answering
  <2> QED
    BY <2>1, <2>2, <2>4 DEF Does
<1> QED
  BY AskedAreRequests, <1>1, <1>2, <1>3, <1>4, <1>5, <1>6, <1>7, <1>8, <1>9, <1>10, <1>11, <1>12, <1>12a, <1>13,
      <1>14, <1>14a, <1>15, <1>16, <1>17, <1>18, <1>19, <1>20, <1>20a, <1>21, <1>22, <1>23, <1>24,
      <1>25
     DEF Next, Enter, Leave, Align

LEMMA SoundPreserved ==
  PlacedInv /\ SoundInv /\ [Next]_vars => SoundInv'
<1> SUFFICES ASSUME PlacedInv, SoundInv, [Next]_vars, NEW v \in Workers
             PROVE  Sound(v)'
  BY DEF SoundInv
<1>1. Sound(v)
  BY DEF SoundInv
<1>2. ASSUME NEW w \in Workers, Does(w) PROVE Sound(v)'
  BY <1>1, <1>2, SoundAside DEF Does
<1>3. CASE UNCHANGED vars
  BY <1>1, <1>3
     DEF vars, graphVars, workerVars, historyVars, Sound, Claims, Known, Answering,
         Scene, Device, InScenes
<1> QED
  BY <1>2, <1>3, SoundStep

\* The null pointer of an alignment is followed by a worker that was disturbed.
LEMMA CrashDisturbed ==
  ASSUME PlacedInv, SoundInv, Next, Crash
  PROVE  \E w \in Workers : pc[w] = "rows" /\ disturbed'[w]
<1>0. /\ pc \in [Workers -> Steps] /\ disturbed \in [Workers -> BOOLEAN]
      /\ \A k \in Keys, d \in Devices : regs[k][d] \in {0, 1, 2}
      /\ \A w \in Workers : pc'[w] = "dead"
  BY Counts DEF PlacedInv, WorkersTyped, HistoryTyped, Crash
<1>1. ASSUME NEW w \in Workers, NEW r \in Requests, Begin(w, r) PROVE FALSE
  <2>1. FirstStep(r.kind) # "dead"
    BY RequestFields DEF FirstStep, Kinds
  <2> QED
    BY <1>0, <1>1, <2>1 DEF Begin, Goto, Fail
<1>2. ASSUME NEW w \in Workers, Enter(w) PROVE FALSE
  BY <1>0, <1>2
     DEF Enter, SceneExists, SceneExistsFails, CreateScene, CreateSceneLost,
         CreateSceneFails, Lookup, LookupFails, LinkDevice, LinkDeviceLost,
         LinkDeviceFails, Goto, Fail, workerVars
<1>3. ASSUME NEW w \in Workers, Leave(w) PROVE FALSE
  BY <1>0, <1>3
     DEF Leave, RemoveDevice, RemoveDeviceLost, RemoveDeviceFails, DeleteScene,
         DeleteSceneLost, DeleteSceneFails, Goto, Fail, workerVars
<1>4. ASSUME NEW w \in Workers, Align(w), ~GetRows(w), ~GetRowsFails(w) PROVE FALSE
  BY <1>0, <1>4
     DEF Align, UpdateRegistration, UpdateRegistrationFails, LinkScenes, LinkScenesLost,
         LinkScenesFails, LinkScenesDone, Goto, Fail, workerVars
<1>5. ASSUME NEW w \in Workers, GetRows(w) PROVE pc[w] = "rows" /\ disturbed'[w]
  <2>1. pc[w] = "rows" /\ Rows(w) = NoRows /\ disturbed'[w] = disturbed[w]
    BY <1>0, <1>5 DEF GetRows, Goto, historyVars
  <2>2. Scene(w) \in Keys /\ Device(w) \in Devices
    BY <2>1 DEF PlacedInv, Placed, DeviceKinds, MemberKinds
  <2>3. regs[Scene(w)][Device(w)] = 0
    BY <2>1, <2>2 DEF Rows, NoRows
  <2>4. ~disturbed[w] => regs[Scene(w)][Device(w)] > 0
    BY <2>1 DEF SoundInv, Sound, Known
  <2> QED
    BY <2>1, <2>3, <2>4
<1>6. ASSUME NEW w \in Workers, GetRowsFails(w) PROVE pc[w] = "rows" /\ disturbed'[w]
  BY <1>6 DEF GetRowsFails, Disturb
<1>7. ASSUME NEW w \in Workers, Respond(w) \/ GetDevice(w) \/ GetDeviceFails(w) PROVE FALSE
  BY <1>0, <1>7 DEF Respond, GetDevice, GetDeviceFails, Goto, Fail
<1> QED
  BY AskedAreRequests, <1>1, <1>2, <1>3, <1>4, <1>5, <1>6, <1>7 DEF Next

-----------------------------------------------------------------------------
(* The theorems. *)

RegistrationInv == PlacedInv /\ OfScenes /\ OnceInv /\ SoundInv

\* Everything the handlers of processor and the queries of query rely on is
\* kept by every step of theirs.
THEOREM RegistrationSafe == Spec => []RegistrationInv
<1>1. Init => RegistrationInv
  <2> SUFFICES ASSUME Init
               PROVE  RegistrationInv
    OBVIOUS
  <2>1. PlacedInv
    BY InitPlaced
  <2>2. OfScenes
    BY DEF Init, OfScenes, NoRows
  <2>3. OnceInv
    BY DEF Init, OnceInv, MadeOnce, Creators, Busy, Keys
  <2>4. SoundInv
    BY DEF Init, SoundInv, Sound, Claims, Known, Answering
  <2> QED
    BY <2>1, <2>2, <2>3, <2>4 DEF RegistrationInv
<1>2. RegistrationInv /\ [Next]_vars => RegistrationInv'
  <2>1. PlacedInv /\ [Next]_vars => PlacedInv'
    BY GraphPreserved, WorkersPreserved, HistoryPreserved, PlacedPreserved DEF PlacedInv
  <2> QED
    BY <2>1, OfScenesPreserved, OncePreserved, SoundPreserved DEF RegistrationInv
<1> QED
  BY <1>1, <1>2, PTL DEF Spec

\* Counts, requests and error codes keep their types.
THEOREM RegistrationTypeOK == Spec => []TypeOK
<1>1. RegistrationInv => TypeOK
  BY DEF RegistrationInv, PlacedInv, GraphTyped, WorkersTyped, HistoryTyped, TypeOK
<1> QED
  BY <1>1, RegistrationSafe, PTL

\* process_registration_message, repeated, makes one scene and one registration,
\* if no two requests that create the scene overlapped and no query was lost.
THEOREM RegistrationOnce == Spec => []RegisteredOnce
<1>1. RegistrationInv => RegisteredOnce
  BY DEF RegistrationInv, OnceInv, MadeOnce, RegisteredOnce
<1> QED
  BY <1>1, RegistrationSafe, PTL

\* The error code that a handler answers with is true of the graph, unless
\* another request for the same registration or a failure came between.
THEOREM RegistrationAnswersTrue == Spec => []AnswersTrue
<1>1. RegistrationInv => AnswersTrue
  <2> SUFFICES ASSUME RegistrationInv, NEW w \in Workers
               PROVE  /\ Sound(w)
                      /\ Known(w) \/ disturbed[w]
    BY DEF AnswersTrue, Answering, Known
  <2> QED
    BY DEF RegistrationInv, SoundInv, Sound
<1> QED
  BY <1>1, RegistrationSafe, PTL

\* The null pointer of get_registrations is followed by
\* process_UDUD_transformation only if the registration that
\* update_device_registration found was taken away meanwhile, or a query failed.
THEOREM RegistrationCrashNeedsRival == Spec => CrashNeedsRival
<1>1. RegistrationInv /\ [Next]_vars =>
        [Crash => \E w \in Workers : pc[w] = "rows" /\ disturbed'[w]]_vars
  BY CrashDisturbed DEF RegistrationInv
<1> QED
  BY <1>1, RegistrationSafe, PTL DEF Spec, CrashNeedsRival

\* Every query of every handler, applied once, twice or not at all, is a step
\* that its request asked for.
THEOREM RegistrationImplementsRegistry == Spec => ImplementsRegistry
<1>1. RegistrationInv /\ [Next]_vars => [Registry!Next]_(Registry!vars)
  BY StepPromised DEF RegistrationInv
<1> QED
  BY <1>1, InitPromised, RegistrationSafe, PTL DEF Spec, ImplementsRegistry, Registry!Spec

=============================================================================
