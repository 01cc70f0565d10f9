-------------------------- MODULE AlignmentProofs --------------------------
(***************************************************************************)
(* Proofs about Alignment, for any workers, scenes, devices and transforms *)
(* given: that what it stores are transforms, and that the links agree     *)
(* with the registrations they were computed from.                         *)
(*                                                                         *)
(* Two alignments of one pair of scenes overlap in every order.  What holds *)
(* throughout is that a pair which is due has its link already, or that    *)
(* the worker which changed one of its registrations last still will make  *)
(* it: the other registration is as that worker has read it or will read it. *)
(***************************************************************************)
EXTENDS Alignment, TransformProofs

Requests == [device : Devices, scene : Scenes, given : Given]
Links == [from : Scenes, to : Scenes, trans : SavedTransforms]

\* The locals of a handler.
Handling == \A w \in Workers : pc[w] # "idle" => req[w] \in Requests

\* Worker w has stored its transform on the edge from scene k and will link
\* scene j to it, with the transform that is stored for j.
Pending(w, d, j, k) ==
  /\ pc[w] \in {"rows", "scenelinks"}
  /\ Device(w) = d /\ Scene(w) = k
  /\ stored[d][k] = Saved(Message(w))
  /\ pc[w] = "scenelinks" => rows[w][j] = stored[d][j]

Linked(d, p) == \E l \in links : {l.from, l.to} = p /\ Explains(l, d)

Accounted(d, p) ==
  \E j, k \in Scenes :
    /\ p = {j, k} /\ j # k
    /\ stored[d][j] # None /\ stored[d][k] # None
    /\ Linked(d, p) \/ \E w \in Workers : Pending(w, d, j, k)

DueAccounted == \A d \in Devices : \A p \in due[d] : Accounted(d, p)

AlignmentInv == TypeOK /\ Handling /\ DueAccounted

-----------------------------------------------------------------------------
(* The transforms that are stored and linked. *)

LEMMA NoneIsNoTransform == None \notin SavedTransforms /\ None \notin Scenes \cup Devices
BY NoneDistinct DEF SavedTransforms

LEMMA IdentitySaved == Saved(Identity) \in SavedTransforms
<1>1. Identity \in Rigid
  BY UnitRotation DEF Identity, Rigid
<1> QED BY <1>1, SavedLoads DEF SavedTransforms

LEMMA MessageSaved ==
  ASSUME NEW w \in Workers, req[w] \in Requests
  PROVE  /\ Message(w) \in Rigid
         /\ Saved(Message(w)) \in SavedTransforms
         /\ Loaded(Saved(Message(w))) = Message(w)
<1>1. req[w].given \in [tran : Int, rot : Angles]
  BY GivenSaved DEF Requests
<1>2. Message(w) \in Rigid
  BY <1>1, LoadedRotation DEF Message
<1> QED BY <1>2, SavedLoads DEF SavedTransforms

LEMMA LinkSaved ==
  ASSUME NEW w \in Workers, req[w] \in Requests,
         NEW j \in Scenes, rows[w][j] \in SavedTransforms
  PROVE  /\ Link(w, j) \in Links /\ Link(w, j).from = j /\ Link(w, j).to = Scene(w)
         /\ Add(Loaded(rows[w][j]), Loaded(Link(w, j).trans)) = Message(w)
<1>1. Message(w) \in Rigid /\ Loaded(rows[w][j]) \in Rigid
  BY MessageSaved, LoadedRotation DEF SavedTransforms
<1> DEFINE t == Relative(Loaded(rows[w][j]), Message(w))
<1>2. t \in Rigid /\ Add(Loaded(rows[w][j]), t) = Message(w)
  BY <1>1, AddRelative
<1> HIDE DEF t
<1>3. Saved(t) \in SavedTransforms /\ Loaded(Saved(t)) = t
  BY <1>2, SavedLoads DEF SavedTransforms
<1>4. Link(w, j) = [from |-> j, to |-> Scene(w), trans |-> Saved(t)]
  BY DEF Link, t
<1>5. Scene(w) \in Scenes
  BY DEF Scene, Requests
<1> QED BY <1>2, <1>3, <1>4, <1>5 DEF Links

-----------------------------------------------------------------------------
(* Types. *)

LEMMA EndedTypes ==
  ASSUME TypeOK, Handling, NEW w \in Workers, Ended(w)
  PROVE  /\ pc' \in [Workers -> {"idle", "update", "rows", "scenelinks"}]
         /\ req' \in [Workers -> [device : Maybe(Devices), scene : Maybe(Scenes),
                                  given : Maybe(Given)]]
         /\ rows' \in [Workers -> [Scenes -> Maybe(SavedTransforms)]]
         /\ Handling'
<1>1. NoRequest \in [device : Maybe(Devices), scene : Maybe(Scenes), given : Maybe(Given)]
  BY DEF NoRequest, Maybe
<1>2. NoRows \in [Scenes -> Maybe(SavedTransforms)]
  BY DEF NoRows, Maybe
<1>3. Handling'
  BY DEF Ended, Handling, TypeOK
<1> QED BY <1>1, <1>2, <1>3 DEF Ended, TypeOK

LEMMA CrashTypes ==
  ASSUME TypeOK, Crash
  PROVE  /\ pc' \in [Workers -> {"idle", "update", "rows", "scenelinks"}]
         /\ req' \in [Workers -> [device : Maybe(Devices), scene : Maybe(Scenes),
                                  given : Maybe(Given)]]
         /\ rows' \in [Workers -> [Scenes -> Maybe(SavedTransforms)]]
         /\ Handling'
         /\ due' \in [Devices -> SUBSET SUBSET Scenes]
<1>1. NoRequest \in [device : Maybe(Devices), scene : Maybe(Scenes), given : Maybe(Given)]
  BY DEF NoRequest, Maybe
<1>2. NoRows \in [Scenes -> Maybe(SavedTransforms)]
  BY DEF NoRows, Maybe
<1>3. Handling'
  BY DEF Crash, Handling
<1>4. due' \in [Devices -> SUBSET SUBSET Scenes]
  BY DEF Crash, TypeOK
<1> QED BY <1>1, <1>2, <1>3, <1>4 DEF Crash

LEMMA UndueTypes ==
  ASSUME TypeOK, NEW D, NEW k
  PROVE  Undue(D, k) \in [Devices -> SUBSET SUBSET Scenes]
BY DEF Undue, TypeOK

LEMMA UpdatedTypes ==
  ASSUME TypeOK, Handling, NEW w \in Workers, pc[w] # "idle"
  PROVE  Updated(w) \in [Devices -> [Scenes -> Maybe(SavedTransforms)]]
<1>1. req[w] \in Requests /\ Saved(Message(w)) \in SavedTransforms
  BY MessageSaved DEF Handling
<1> QED BY <1>1 DEF Updated, TypeOK, Maybe

LEMMA OtherRowsTypes ==
  ASSUME TypeOK, Handling, NEW w \in Workers, pc[w] # "idle", NEW j \in OtherRows(w)
  PROVE  /\ req[w] \in Requests /\ j \in Scenes /\ j # Scene(w)
         /\ rows[w][j] \in SavedTransforms
         /\ Link(w, j) \in Links
<1>1. req[w] \in Requests /\ j \in Scenes /\ j # Scene(w)
  BY DEF Handling, OtherRows
<1>2. rows[w][j] \in SavedTransforms
  BY <1>1 DEF TypeOK, OtherRows, Maybe
<1> QED BY <1>1, <1>2, LinkSaved

LEMMA FaultTypes ==
  ASSUME TypeOK, Fault
  PROVE  faults' \in 0..MaxFaults
BY BoundsNat DEF TypeOK, Fault

Typed == TypeOK /\ Handling

LEMMA InitTyped == Init => Typed
<1> SUFFICES ASSUME Init PROVE TypeOK /\ Handling
  BY DEF Typed
<1>1. NoRows \in [Scenes -> Maybe(SavedTransforms)]
  BY DEF NoRows, Maybe
<1>2. NoRequest \in [device : Maybe(Devices), scene : Maybe(Scenes), given : Maybe(Given)]
  BY DEF NoRequest, Maybe
<1>3. asked \in 0..MaxAlignments /\ changed \in 0..MaxOthers /\ faults \in 0..MaxFaults
  BY BoundsNat DEF Init
<1> QED BY <1>1, <1>2, <1>3 DEF Init, TypeOK, Handling

LEMMA NextTyped ==
  ASSUME Typed, [Next]_vars
  PROVE  Typed'
<1> USE DEF Typed
<1>1. ASSUME NEW d \in Devices, NEW k \in Scenes, Register(d, k)
      PROVE  Typed'
  <2>1. stored' \in [Devices -> [Scenes -> Maybe(SavedTransforms)]]
    BY <1>1, IdentitySaved DEF Register, TypeOK, Maybe
  <2>2. changed' \in 0..MaxOthers
    BY <1>1, BoundsNat DEF Register, Changes, TypeOK
  <2>3. due' \in [Devices -> SUBSET SUBSET Scenes]
    BY <1>1, UndueTypes DEF Register
  <2> QED BY <1>1, <2>1, <2>2, <2>3 DEF Register, TypeOK, Handling, workerVars
<1>2. ASSUME NEW d \in Devices, NEW k \in Scenes, Deregister(d, k)
      PROVE  Typed'
  <2>1. stored' \in [Devices -> [Scenes -> Maybe(SavedTransforms)]]
    BY <1>2 DEF Deregister, TypeOK, Maybe
  <2>2. changed' \in 0..MaxOthers
    BY <1>2, BoundsNat DEF Deregister, Changes, TypeOK
  <2>3. due' \in [Devices -> SUBSET SUBSET Scenes]
    BY <1>2, UndueTypes DEF Deregister
  <2> QED BY <1>2, <2>1, <2>2, <2>3 DEF Deregister, TypeOK, Handling, workerVars
<1>3. ASSUME NEW k \in Scenes, DeleteScene(k)
      PROVE  Typed'
  <2>1. stored' \in [Devices -> [Scenes -> Maybe(SavedTransforms)]]
    BY <1>3 DEF DeleteScene, TypeOK, Maybe
  <2>2. changed' \in 0..MaxOthers
    BY <1>3, BoundsNat DEF DeleteScene, Changes, TypeOK
  <2>3. due' \in [Devices -> SUBSET SUBSET Scenes]
    BY <1>3, UndueTypes DEF DeleteScene
  <2> QED BY <1>3, <2>1, <2>2, <2>3 DEF DeleteScene, TypeOK, Handling, workerVars
<1>4. ASSUME NEW w \in Workers, NEW d \in Devices, NEW k \in Scenes,
             NEW s \in Given \cup {None}, Begin(w, d, k, s)
      PROVE  Typed'
  <2>1. asked' \in 0..MaxAlignments
    BY <1>4, BoundsNat DEF Begin, TypeOK
  <2>2. CASE Crash
    BY <1>4, <2>1, <2>2, CrashTypes DEF Begin, TypeOK, graphVars
  <2>3. CASE s # None /\ pc' = [pc EXCEPT ![w] = "update"]
             /\ req' = [req EXCEPT ![w] = [device |-> d, scene |-> k, given |-> s]]
             /\ UNCHANGED <<rows, due>>
    <3>1. [device |-> d, scene |-> k, given |-> s] \in Requests
      BY <2>3 DEF Requests
    <3>2. [device |-> d, scene |-> k, given |-> s] \in
            [device : Maybe(Devices), scene : Maybe(Scenes), given : Maybe(Given)]
      BY DEF Maybe
    <3>3. Handling'
      BY <2>3, <3>1 DEF Handling, TypeOK
    <3> QED BY <1>4, <2>1, <2>3, <3>2, <3>3 DEF Begin, TypeOK, graphVars
  <2> QED BY <1>4, <2>2, <2>3 DEF Begin
<1>5. ASSUME NEW w \in Workers, UpdateRegistration(w)
      PROVE  Typed'
  <2>1. CASE Fail(w) /\ UNCHANGED stored
    BY <1>5, <2>1, EndedTypes, UndueTypes DEF UpdateRegistration, Fail, TypeOK
  <2>2. CASE /\ stored' = Updated(w)
             /\ pc' = [pc EXCEPT ![w] = "rows"]
             /\ due' = [due EXCEPT ![Device(w)] = @ \cup
                  {{j, Scene(w)} : j \in {i \in Scenes \ {Scene(w)} : stored[Device(w)][i] # None}}]
             /\ UNCHANGED <<req, rows>>
    <3>1. pc[w] = "update" /\ req[w] \in Requests
      BY <1>5 DEF UpdateRegistration, Handling
    <3>2. stored' \in [Devices -> [Scenes -> Maybe(SavedTransforms)]]
      BY <2>2, <3>1, UpdatedTypes
    <3>3. Scene(w) \in Scenes
      BY <3>1 DEF Scene, Requests
    <3> DEFINE pairs == {{j, Scene(w)} :
                 j \in {i \in Scenes \ {Scene(w)} : stored[Device(w)][i] # None}}
    <3>4. due' \in [Devices -> SUBSET SUBSET Scenes]
      <4>1. pairs \subseteq SUBSET Scenes
        BY <3>3
      <4>2. due' = [due EXCEPT ![Device(w)] = @ \cup pairs]
        BY <2>2
      <4> HIDE DEF pairs
      <4> QED BY <4>1, <4>2 DEF TypeOK
    <3>5. Handling'
      BY <2>2, <3>1 DEF Handling, TypeOK
    <3> QED BY <1>5, <2>2, <3>2, <3>4, <3>5 DEF UpdateRegistration, TypeOK
  <2> QED BY <1>5, <2>1, <2>2 DEF UpdateRegistration
<1>6. ASSUME NEW w \in Workers, UpdateRegistrationFails(w)
      PROVE  Typed'
  <2>1. stored' \in [Devices -> [Scenes -> Maybe(SavedTransforms)]]
    BY <1>6, UpdatedTypes DEF UpdateRegistrationFails, TypeOK
  <2> QED BY <1>6, <2>1, EndedTypes, UndueTypes, FaultTypes
          DEF UpdateRegistrationFails, Fail, TypeOK
<1>7. ASSUME NEW w \in Workers, GetRows(w)
      PROVE  Typed'
  <2>1. CASE Crash
    BY <1>7, <2>1, CrashTypes DEF GetRows, TypeOK, graphVars
  <2>2. CASE /\ rows' = [rows EXCEPT ![w] = stored[Device(w)]]
             /\ pc' = [pc EXCEPT ![w] = "scenelinks"]
             /\ UNCHANGED <<req, due>>
    <3>1. pc[w] = "rows" /\ req[w] \in Requests
      BY <1>7 DEF GetRows, Handling
    <3>2. stored[Device(w)] \in [Scenes -> Maybe(SavedTransforms)]
      BY <3>1 DEF TypeOK, Device, Requests
    <3>3. Handling'
      BY <2>2, <3>1 DEF Handling, TypeOK
    <3> QED BY <1>7, <2>2, <3>2, <3>3 DEF GetRows, TypeOK, graphVars
  <2> QED BY <1>7, <2>1, <2>2 DEF GetRows
<1>8. ASSUME NEW w \in Workers, GetRowsFails(w)
      PROVE  Typed'
  BY <1>8, CrashTypes, FaultTypes DEF GetRowsFails, TypeOK, graphVars
<1>9. ASSUME NEW w \in Workers, NEW j \in Scenes, LinkScenes(w, j)
      PROVE  Typed'
  <2>1. Link(w, j) \in Links
    BY <1>9, OtherRowsTypes DEF LinkScenes
  <2>2. CASE /\ links' = links \cup {Link(w, j)}
             /\ rows' = [rows EXCEPT ![w][j] = None]
             /\ UNCHANGED <<pc, req, due>>
    <3>1. links' \subseteq [from : Scenes, to : Scenes, trans : SavedTransforms]
      BY <2>1, <2>2 DEF TypeOK, Links
    <3>2. rows' \in [Workers -> [Scenes -> Maybe(SavedTransforms)]]
      BY <2>2 DEF TypeOK, Maybe
    <3> QED BY <1>9, <2>2, <3>1, <3>2 DEF LinkScenes, TypeOK, Handling
  <2>3. CASE Fail(w) /\ UNCHANGED links
    BY <1>9, <2>3, EndedTypes, UndueTypes DEF LinkScenes, Fail, TypeOK
  <2> QED BY <1>9, <2>2, <2>3 DEF LinkScenes
<1>10. ASSUME NEW w \in Workers, NEW j \in Scenes, LinkScenesFails(w, j)
       PROVE  Typed'
  <2>1. Link(w, j) \in Links
    BY <1>10, OtherRowsTypes DEF LinkScenesFails
  <2>2. links' \subseteq [from : Scenes, to : Scenes, trans : SavedTransforms]
    BY <1>10, <2>1 DEF LinkScenesFails, TypeOK, Links
  <2> QED BY <1>10, <2>2, EndedTypes, UndueTypes, FaultTypes
          DEF LinkScenesFails, Fail, TypeOK
<1>11. ASSUME NEW w \in Workers, Respond(w)
       PROVE  Typed'
  BY <1>11, EndedTypes DEF Respond, TypeOK, graphVars
<1>12. CASE UNCHANGED vars
  BY <1>12 DEF vars, graphVars, workerVars, TypeOK, Handling
<1> QED BY <1>1, <1>2, <1>3, <1>4, <1>5, <1>6, <1>7, <1>8, <1>9, <1>10, <1>11, <1>12
        DEF Next

(***************************************************************************)
(* Whatever is stored on an edge, read into a row or put on a link is a    *)
(* translation and three angles: set_rotation and update_vectors lead from *)
(* angles to rotations and back.                                           *)
(***************************************************************************)
THEOREM AlignmentTypeOK == Spec => []TypeOK
<1>1. Spec => []Typed
  <2> USE InitTyped, NextTyped
  <2> QED BY PTL DEF Spec
<1>2. Typed => TypeOK
  BY DEF Typed
<1> QED BY <1>1, <1>2, PTL

-----------------------------------------------------------------------------
(* The pairs that are due. *)

\* A pair stays accounted for as long as its registrations, its links and the
\* workers that will link it stay.
LEMMA AccountStays ==
  ASSUME TypeOK, NEW d \in Devices, NEW p, Accounted(d, p),
         \A k \in p \cap Scenes : stored'[d][k] = stored[d][k],
         \A l \in links : {l.from, l.to} = p => l \in links',
         \A w \in Workers, j, k \in Scenes :
           p = {j, k} /\ Pending(w, d, j, k) => Pending(w, d, j, k)'
  PROVE  Accounted(d, p)'
<1>1. PICK j, k \in Scenes :
        /\ p = {j, k} /\ j # k
        /\ stored[d][j] # None /\ stored[d][k] # None
        /\ Linked(d, p) \/ \E w \in Workers : Pending(w, d, j, k)
  BY DEF Accounted
<1>2. stored'[d][j] = stored[d][j] /\ stored'[d][k] = stored[d][k]
  BY <1>1
<1>3. ASSUME Linked(d, p)
      PROVE  Linked(d, p)'
  <2>1. PICK l \in links : {l.from, l.to} = p /\ Explains(l, d)
    BY <1>3 DEF Linked
  <2>2. l \in links' /\ stored'[d][l.from] = stored[d][l.from]
        /\ stored'[d][l.to] = stored[d][l.to]
    BY <1>1, <1>2, <2>1
  <2>3. Explains(l, d)'
    BY <2>1, <2>2 DEF Explains
  <2> QED BY <2>1, <2>2, <2>3 DEF Linked
<1>4. Linked(d, p)' \/ \E w \in Workers : Pending(w, d, j, k)'
  BY <1>1, <1>3
<1> QED BY <1>1, <1>2, <1>4 DEF Accounted

\* When a handler ends with an error nothing is due any longer of its scene
\* and device, so of the pairs that remain another worker takes care.
LEMMA FailAccounts ==
  ASSUME AlignmentInv, NEW w \in Workers, Fail(w), pc[w] # "idle",
         links \subseteq links',
         \A d \in Devices, k \in Scenes :
           d # Device(w) \/ k # Scene(w) => stored'[d][k] = stored[d][k]
  PROVE  DueAccounted'
<1> SUFFICES ASSUME NEW d \in Devices, NEW p \in due'[d]
             PROVE  Accounted(d, p)'
  BY DEF DueAccounted
<1>1. p \in due[d] /\ (d # Device(w) \/ Scene(w) \notin p)
  BY DEF Fail, Undue, AlignmentInv, TypeOK
<1>2. Accounted(d, p) /\ TypeOK
  BY <1>1 DEF AlignmentInv, DueAccounted
<1>3. \A k \in p \cap Scenes : stored'[d][k] = stored[d][k]
  BY <1>1
<1>4. ASSUME NEW v \in Workers, NEW j \in Scenes, NEW k \in Scenes,
             p = {j, k}, Pending(v, d, j, k)
      PROVE  Pending(v, d, j, k)'
  <2>1. v # w
    BY <1>1, <1>4 DEF Pending
  <2>2. pc'[v] = pc[v] /\ req'[v] = req[v] /\ rows'[v] = rows[v]
    BY <1>2, <2>1 DEF Fail, Ended, TypeOK
  <2>3. stored'[d][k] = stored[d][k] /\ stored'[d][j] = stored[d][j]
    BY <1>3, <1>4
  <2> QED BY <1>4, <2>2, <2>3 DEF Pending, Device, Scene, Message
<1> QED BY <1>2, <1>3, <1>4, AccountStays

LEMMA CrashAccounts ==
  ASSUME AlignmentInv, Crash, UNCHANGED graphVars
  PROVE  DueAccounted'
<1> SUFFICES ASSUME NEW d \in Devices, NEW p \in due'[d]
             PROVE  Accounted(d, p)'
  BY DEF DueAccounted
<1>1. p \in due[d] /\ \A w \in Workers : Device(w) = d => Scene(w) \notin p
  BY DEF Crash, AlignmentInv, TypeOK
<1>2. Accounted(d, p) /\ TypeOK
  BY <1>1 DEF AlignmentInv, DueAccounted
<1>3. \A w \in Workers, j, k \in Scenes : p = {j, k} => ~Pending(w, d, j, k)
  BY <1>1 DEF Pending
<1> QED BY <1>2, <1>3, AccountStays DEF graphVars

\* Another request of the devices D and scene k.
LEMMA OtherAccounts ==
  ASSUME AlignmentInv, NEW D \in SUBSET Devices, NEW k \in Scenes,
         due' = Undue(D, k), UNCHANGED workerVars,
         \A d \in Devices, j \in Scenes :
           d \notin D \/ j # k => stored'[d][j] = stored[d][j],
         \A l \in links : l \in links' \/ (D = Devices /\ k \in {l.from, l.to})
  PROVE  DueAccounted'
<1> SUFFICES ASSUME NEW d \in Devices, NEW p \in due'[d]
             PROVE  Accounted(d, p)'
  BY DEF DueAccounted
<1>1. p \in due[d] /\ (d \notin D \/ k \notin p)
  BY DEF Undue, AlignmentInv, TypeOK
<1>2. Accounted(d, p) /\ TypeOK
  BY <1>1 DEF AlignmentInv, DueAccounted
<1>3. \A j \in p \cap Scenes : stored'[d][j] = stored[d][j]
  BY <1>1
<1>4. \A l \in links : {l.from, l.to} = p => l \in links'
  BY <1>1
<1>5. ASSUME NEW w \in Workers, NEW i \in Scenes, NEW j \in Scenes,
             p = {i, j}, Pending(w, d, i, j)
      PROVE  Pending(w, d, i, j)'
  BY <1>3, <1>5 DEF Pending, Device, Scene, Message, workerVars
<1> QED BY <1>2, <1>3, <1>4, <1>5, AccountStays

\* The worker that stores a transform will link every other scene of the
\* device to its own, as of now and whatever was under way before.
LEMMA UpdateAccounts ==
  ASSUME AlignmentInv, NEW w \in Workers, pc[w] = "update",
         stored[Device(w)][Scene(w)] # None,
         stored' = Updated(w),
         pc' = [pc EXCEPT ![w] = "rows"],
         due' = [due EXCEPT ![Device(w)] = @ \cup
                   {{j, Scene(w)} : j \in {i \in Scenes \ {Scene(w)} :
                                             stored[Device(w)][i] # None}}],
         UNCHANGED <<links, req, rows>>
  PROVE  DueAccounted'
<1> SUFFICES ASSUME NEW d \in Devices, NEW p \in due'[d]
             PROVE  Accounted(d, p)'
  BY DEF DueAccounted
<1>1. TypeOK /\ req[w] \in Requests
  BY DEF AlignmentInv, Handling
<1>2. Device(w) \in Devices /\ Scene(w) \in Scenes
  BY <1>1 DEF Device, Scene, Requests
<1>3. \A e \in Devices, k \in Scenes :
        stored'[e][k] = IF e = Device(w) /\ k = Scene(w) THEN Saved(Message(w))
                        ELSE stored[e][k]
  BY <1>1, <1>2 DEF Updated, TypeOK
<1>4. CASE d = Device(w) /\ Scene(w) \in p
  <2>1. PICK j \in Scenes : p = {j, Scene(w)} /\ j # Scene(w) /\ stored[d][j] # None
    <3>1. CASE p \in due[d]
      <4>1. Accounted(d, p)
        BY <3>1 DEF AlignmentInv, DueAccounted
      <4> QED BY <1>4, <4>1 DEF Accounted
    <3>2. CASE p \notin due[d]
      <4>1. p \in {{j, Scene(w)} : j \in {i \in Scenes \ {Scene(w)} :
                                           stored[Device(w)][i] # None}}
        BY <1>1, <1>4, <3>2 DEF TypeOK
      <4> QED BY <1>4, <4>1
    <3> QED BY <3>1, <3>2
  <2>2. Saved(Message(w)) # None
    BY <1>1, MessageSaved, NoneIsNoTransform
  <2>3. stored'[d][j] # None /\ stored'[d][Scene(w)] # None
    BY <1>2, <1>3, <1>4, <2>1, <2>2
  <2>4. Pending(w, d, j, Scene(w))'
    <3>1. pc'[w] = "rows" /\ req'[w] = req[w]
      BY <1>1 DEF TypeOK
    <3>2. stored'[d][Scene(w)] = Saved(Message(w))
      BY <1>2, <1>3, <1>4
    <3> QED BY <1>4, <3>1, <3>2 DEF Pending, Device, Scene, Message
  <2> QED BY <1>2, <2>1, <2>3, <2>4 DEF Accounted, Scene
<1>5. CASE d # Device(w) \/ Scene(w) \notin p
  <2>1. p \in due[d]
    BY <1>1, <1>5 DEF TypeOK
  <2>2. Accounted(d, p)
    BY <2>1 DEF AlignmentInv, DueAccounted
  <2>3. \A k \in p \cap Scenes : stored'[d][k] = stored[d][k]
    BY <1>3, <1>5
  <2>4. ASSUME NEW v \in Workers, NEW j \in Scenes, NEW k \in Scenes,
               p = {j, k}, Pending(v, d, j, k)
        PROVE  Pending(v, d, j, k)'
    <3>1. v # w
      BY <2>4 DEF Pending
    <3>2. pc'[v] = pc[v] /\ req'[v] = req[v] /\ rows'[v] = rows[v]
      BY <1>1, <3>1 DEF TypeOK
    <3>3. stored'[d][k] = stored[d][k] /\ stored'[d][j] = stored[d][j]
      BY <2>3, <2>4
    <3> QED BY <2>4, <3>2, <3>3 DEF Pending, Device, Scene, Message
  <2> QED BY <1>1, <2>2, <2>3, <2>4, AccountStays
<1> QED BY <1>4, <1>5

\* A worker reads the other registrations after it has stored its own.
LEMMA ReadAccounts ==
  ASSUME AlignmentInv, NEW w \in Workers, pc[w] = "rows",
         rows' = [rows EXCEPT ![w] = stored[Device(w)]],
         pc' = [pc EXCEPT ![w] = "scenelinks"],
         UNCHANGED <<req, due, graphVars>>
  PROVE  DueAccounted'
<1> SUFFICES ASSUME NEW d \in Devices, NEW p \in due[d]
             PROVE  Accounted(d, p)'
  BY DEF DueAccounted
<1>1. Accounted(d, p) /\ TypeOK
  BY DEF AlignmentInv, DueAccounted
<1>2. ASSUME NEW v \in Workers, NEW j \in Scenes, NEW k \in Scenes,
             p = {j, k}, Pending(v, d, j, k)
      PROVE  Pending(v, d, j, k)'
  <2>1. CASE v = w
    <3>1. pc'[w] = "scenelinks" /\ rows'[w] = stored[d]
      BY <1>1, <1>2, <2>1 DEF Pending, TypeOK
    <3> QED BY <1>2, <2>1, <3>1 DEF Pending, Device, Scene, Message, graphVars
  <2>2. CASE v # w
    <3>1. pc'[v] = pc[v] /\ rows'[v] = rows[v]
      BY <1>1, <2>2 DEF TypeOK
    <3> QED BY <1>2, <3>1 DEF Pending, Device, Scene, Message, graphVars
  <2> QED BY <2>1, <2>2
<1> QED BY <1>1, <1>2, AccountStays DEF graphVars

\* A link that is made of registrations as they still are explains them.
LEMMA LinkAccounts ==
  ASSUME AlignmentInv, NEW w \in Workers, pc[w] = "scenelinks",
         NEW i \in OtherRows(w),
         links' = links \cup {Link(w, i)},
         rows' = [rows EXCEPT ![w][i] = None],
         UNCHANGED <<scenes, stored, pc, req, due>>
  PROVE  DueAccounted'
<1> SUFFICES ASSUME NEW d \in Devices, NEW p \in due[d]
             PROVE  Accounted(d, p)'
  BY DEF DueAccounted
<1>1. TypeOK /\ Handling /\ Accounted(d, p)
  BY DEF AlignmentInv, DueAccounted
<1>2. /\ req[w] \in Requests /\ i \in Scenes /\ i # Scene(w)
      /\ rows[w][i] \in SavedTransforms
  BY <1>1, OtherRowsTypes
<1>3. CASE p = {i, Scene(w)} /\ Pending(w, d, i, Scene(w))
  <2>1. stored[d][i] = rows[w][i] /\ stored[d][Scene(w)] = Saved(Message(w))
    BY <1>3 DEF Pending
  <2> DEFINE l == Link(w, i)
  <2>2. l \in links' /\ l.from = i /\ l.to = Scene(w)
        /\ Add(Loaded(rows[w][i]), Loaded(l.trans)) = Message(w)
    BY <1>2, LinkSaved
  <2> HIDE DEF l
  <2>3. Loaded(Saved(Message(w))) = Message(w)
    BY <1>2, MessageSaved
  <2>4. Explains(l, d)
    BY <2>1, <2>2, <2>3 DEF Explains
  <2>5. Linked(d, p)'
    BY <1>3, <2>2, <2>4 DEF Linked, Explains
  <2>6. Scene(w) \in Scenes /\ stored[d][i] # None /\ stored[d][Scene(w)] # None
    BY <1>2, <2>1, MessageSaved, NoneIsNoTransform DEF Scene, Requests
  <2> QED BY <1>2, <1>3, <2>5, <2>6 DEF Accounted
<1>4. CASE ~(p = {i, Scene(w)} /\ Pending(w, d, i, Scene(w)))
  <2>1. ASSUME NEW v \in Workers, NEW j \in Scenes, NEW k \in Scenes,
               p = {j, k}, Pending(v, d, j, k)
        PROVE  Pending(v, d, j, k)'
    <3>1. v # w \/ j # i
      BY <1>4, <2>1 DEF Pending
    <3>2. rows'[v][j] = rows[v][j]
      BY <1>1, <1>2, <3>1 DEF TypeOK
    <3> QED BY <2>1, <3>2 DEF Pending, Device, Scene, Message
  <2> QED BY <1>1, <2>1, AccountStays
<1> QED BY <1>3, <1>4

\* A worker that has no row left has nothing pending.
LEMMA RespondAccounts ==
  ASSUME AlignmentInv, NEW w \in Workers, Respond(w)
  PROVE  DueAccounted'
<1> SUFFICES ASSUME NEW d \in Devices, NEW p \in due[d]
             PROVE  Accounted(d, p)'
  BY DEF DueAccounted, Respond
<1>1. Accounted(d, p) /\ TypeOK
  BY DEF AlignmentInv, DueAccounted
<1>2. PICK j, k \in Scenes :
        /\ p = {j, k} /\ j # k
        /\ stored[d][j] # None /\ stored[d][k] # None
        /\ Linked(d, p) \/ \E v \in Workers : Pending(v, d, j, k)
  BY <1>1 DEF Accounted
<1>4. ASSUME NEW v \in Workers, NEW a \in Scenes, NEW b \in Scenes,
             p = {a, b}, Pending(v, d, a, b)
      PROVE  Pending(v, d, a, b)'
  <2>1. CASE v = w
    <3>1. stored[d][a] # None /\ a # b
      BY <1>2, <1>4
    <3> QED BY <1>4, <2>1, <3>1 DEF Pending, Respond, OtherRows
  <2>2. CASE v # w
    <3>1. pc'[v] = pc[v] /\ req'[v] = req[v] /\ rows'[v] = rows[v]
      BY <1>1, <2>2 DEF Respond, Ended, TypeOK
    <3> QED BY <1>4, <3>1 DEF Pending, Device, Scene, Message, Respond, graphVars
  <2> QED BY <2>1, <2>2
<1> QED BY <1>1, <1>4, AccountStays DEF Respond, graphVars

LEMMA NextAccounted ==
  ASSUME AlignmentInv, [Next]_vars
  PROVE  DueAccounted'
<1>1. ASSUME NEW d \in Devices, NEW k \in Scenes, Register(d, k)
      PROVE  DueAccounted'
  <2>1. {d} \in SUBSET Devices
    OBVIOUS
  <2>2. due' = Undue({d}, k) /\ UNCHANGED <<links, workerVars>>
    BY <1>1 DEF Register
  <2>3. \A e \in Devices, j \in Scenes :
          e \notin {d} \/ j # k => stored'[e][j] = stored[e][j]
    BY <1>1 DEF Register, AlignmentInv, TypeOK
  <2> QED BY <2>1, <2>2, <2>3, OtherAccounts
<1>2. ASSUME NEW d \in Devices, NEW k \in Scenes, Deregister(d, k)
      PROVE  DueAccounted'
  <2>1. {d} \in SUBSET Devices
    OBVIOUS
  <2>2. due' = Undue({d}, k) /\ UNCHANGED <<links, workerVars>>
    BY <1>2 DEF Deregister
  <2>3. \A e \in Devices, j \in Scenes :
          e \notin {d} \/ j # k => stored'[e][j] = stored[e][j]
    BY <1>2 DEF Deregister, AlignmentInv, TypeOK
  <2> QED BY <2>1, <2>2, <2>3, OtherAccounts
<1>3. ASSUME NEW k \in Scenes, DeleteScene(k)
      PROVE  DueAccounted'
  <2>1. Devices \in SUBSET Devices
    OBVIOUS
  <2> QED BY <1>3, <2>1, OtherAccounts DEF DeleteScene, AlignmentInv, TypeOK
<1>4. ASSUME NEW w \in Workers, NEW d \in Devices, NEW k \in Scenes,
             NEW s \in Given \cup {None}, Begin(w, d, k, s)
      PROVE  DueAccounted'
  <2>1. CASE Crash
    BY <1>4, <2>1, CrashAccounts DEF Begin
  <2>2. CASE /\ pc' = [pc EXCEPT ![w] = "update"]
             /\ req' = [req EXCEPT ![w] = [device |-> d, scene |-> k, given |-> s]]
             /\ UNCHANGED <<rows, due, graphVars>>
    <3> SUFFICES ASSUME NEW e \in Devices, NEW p \in due[e]
                 PROVE  Accounted(e, p)'
      BY <2>2 DEF DueAccounted
    <3>1. Accounted(e, p) /\ TypeOK
      BY DEF AlignmentInv, DueAccounted
    <3>2. ASSUME NEW v \in Workers, NEW i \in Scenes, NEW j \in Scenes,
                 p = {i, j}, Pending(v, e, i, j)
          PROVE  Pending(v, e, i, j)'
      <4>1. v # w
        BY <1>4, <3>2 DEF Pending, Begin
      <4>2. pc'[v] = pc[v] /\ req'[v] = req[v]
        BY <2>2, <3>1, <4>1 DEF TypeOK
      <4> QED BY <2>2, <3>2, <4>2 DEF Pending, Device, Scene, Message, graphVars
    <3> QED BY <2>2, <3>1, <3>2, AccountStays DEF graphVars
  <2> QED BY <1>4, <2>1, <2>2 DEF Begin
<1>5. ASSUME NEW w \in Workers, UpdateRegistration(w)
      PROVE  DueAccounted'
  <2>1. CASE Fail(w) /\ UNCHANGED stored
    BY <1>5, <2>1, FailAccounts DEF UpdateRegistration
  <2>2. CASE /\ stored[Device(w)][Scene(w)] # None
             /\ stored' = Updated(w)
             /\ pc' = [pc EXCEPT ![w] = "rows"]
             /\ due' = [due EXCEPT ![Device(w)] = @ \cup
                  {{j, Scene(w)} : j \in {i \in Scenes \ {Scene(w)} :
                                            stored[Device(w)][i] # None}}]
             /\ UNCHANGED <<req, rows>>
    BY <1>5, <2>2, UpdateAccounts DEF UpdateRegistration
  <2> QED BY <1>5, <2>1, <2>2 DEF UpdateRegistration
<1>6. ASSUME NEW w \in Workers, UpdateRegistrationFails(w)
      PROVE  DueAccounted'
  <2>1. \A d \in Devices, k \in Scenes :
          d # Device(w) \/ k # Scene(w) => stored'[d][k] = stored[d][k]
    BY <1>6 DEF UpdateRegistrationFails, Updated, AlignmentInv, TypeOK
  <2> QED BY <1>6, <2>1, FailAccounts DEF UpdateRegistrationFails
<1>7. ASSUME NEW w \in Workers, GetRows(w)
      PROVE  DueAccounted'
  BY <1>7, CrashAccounts, ReadAccounts DEF GetRows
<1>8. ASSUME NEW w \in Workers, GetRowsFails(w)
      PROVE  DueAccounted'
  BY <1>8, CrashAccounts DEF GetRowsFails
<1>9. ASSUME NEW w \in Workers, NEW j \in Scenes, LinkScenes(w, j)
      PROVE  DueAccounted'
  <2>1. CASE Fail(w) /\ UNCHANGED links
    BY <1>9, <2>1, FailAccounts DEF LinkScenes
  <2>2. CASE /\ links' = links \cup {Link(w, j)}
             /\ rows' = [rows EXCEPT ![w][j] = None]
             /\ UNCHANGED <<pc, req, due>>
    BY <1>9, <2>2, LinkAccounts DEF LinkScenes
  <2> QED BY <1>9, <2>1, <2>2 DEF LinkScenes
<1>10. ASSUME NEW w \in Workers, NEW j \in Scenes, LinkScenesFails(w, j)
       PROVE  DueAccounted'
  BY <1>10, FailAccounts DEF LinkScenesFails
<1>11. ASSUME NEW w \in Workers, Respond(w)
       PROVE  DueAccounted'
  BY <1>11, RespondAccounts
<1>12. CASE UNCHANGED vars
  BY <1>12 DEF vars, graphVars, workerVars, AlignmentInv, DueAccounted, Accounted,
               Linked, Explains, Pending, Device, Scene, Message
<1> QED BY <1>1, <1>2, <1>3, <1>4, <1>5, <1>6, <1>7, <1>8, <1>9, <1>10, <1>11, <1>12
        DEF Next

LEMMA AlignmentInvariant == Spec => []AlignmentInv
<1>1. Init => AlignmentInv
  BY InitTyped DEF AlignmentInv, Typed, Init, DueAccounted
<1>2. AlignmentInv /\ [Next]_vars => AlignmentInv'
  <2> SUFFICES ASSUME AlignmentInv, [Next]_vars PROVE AlignmentInv'
    OBVIOUS
  <2>1. Typed'
    BY NextTyped DEF AlignmentInv, Typed
  <2> QED BY <2>1, NextAccounted DEF AlignmentInv, Typed
<1> QED BY <1>1, <1>2, PTL DEF Spec

(***************************************************************************)
(* Of any number of alignments of a device, in any order, with requests    *)
(* that fail and registrations and scenes that come and go: once none is   *)
(* under way for the two scenes of a pair that is due, a link between them *)
(* leads from the transform that is stored for the one to that for the     *)
(* other.                                                                  *)
(***************************************************************************)
THEOREM AlignmentLinkExplainsDevices == Spec => []LinkExplainsDevices
<1>1. AlignmentInv => LinkExplainsDevices
  <2> SUFFICES ASSUME AlignmentInv,
                      NEW d \in Devices, NEW p \in due[d],
                      \A k \in p : ~Aligning(d, k)
               PROVE  \E l \in links : {l.from, l.to} = p /\ Explains(l, d)
    BY DEF LinkExplainsDevices
  <2>1. Accounted(d, p)
    BY DEF AlignmentInv, DueAccounted
  <2>2. \A w \in Workers, j, k \in Scenes : p = {j, k} => ~Pending(w, d, j, k)
    BY DEF Pending, Aligning
  <2> QED BY <2>1, <2>2 DEF Accounted, Linked
<1> QED BY <1>1, AlignmentInvariant, PTL
=============================================================================
