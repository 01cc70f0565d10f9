------------------------------ MODULE Alignment ------------------------------
(***************************************************************************)
(* What alignments make of the transforms in the database.  A device that  *)
(* is registered to several scenes says how it lies in one of them, and    *)
(* the request stores that and derives from it how the other scenes of the *)
(* device lie in that one.                                                 *)
(*                                                                         *)
(* Registration models every query of every request over a graph that is   *)
(* only counted.  Here the graph holds the transforms; of the requests,    *)
(* alignments are modelled query by query, the others by the one query     *)
(* each in which they change what alignments read.  Scenes and devices     *)
(* that are there twice are left to Registration.                          *)
(***************************************************************************)
EXTENDS Transforms, FiniteSets

CONSTANTS
  Workers,        \* HTTP worker threads
  Scenes, Devices,
  None,           \* no registration, no transform, no request
  Given,          \* transforms that requests give, as six numbers (Saved)
  MaxAlignments,  \* bound: alignments that are asked for
  MaxOthers,      \* bound: other requests that change something
  MaxFaults       \* bound: queries of alignments that fail

ASSUME GivenSaved == Given \subseteq [tran : Int, rot : Angles]
ASSUME NoneDistinct == None \notin Scenes \cup Devices \cup [tran : Int, rot : Angles]
ASSUME BoundsNat == {MaxAlignments, MaxOthers, MaxFaults} \subseteq Nat

VARIABLES
  scenes,    \* keys with a Scene node
  stored,    \* stored[d][k]: the transform on the edge from scene k to device
             \* d, or None
  links,     \* the edges between scenes
  pc, req,   \* a worker's place in process_device_alignment_message, and its
             \* request
  rows,      \* registered_scenes, as transforms by scene
  asked,     \* alignments so far
  changed,   \* other requests so far
  faults,    \* queries that failed so far
  due        \* history: due[d] holds the pairs {j, k} of scenes of d whose
             \* registrations were last changed by an alignment, of the one
             \* while the other was there, that has not failed

graphVars == <<scenes, stored, links>>
workerVars == <<pc, req, rows>>
vars == <<graphVars, workerVars, asked, changed, faults, due>>

SavedTransforms == [tran : Int, rot : Angles]
NoRows == [k \in Scenes |-> None]
NoRequest == [device |-> None, scene |-> None, given |-> None]

Init ==
  /\ scenes = {}
  /\ stored = [d \in Devices |-> NoRows]
  /\ links = {}
  /\ pc = [w \in Workers |-> "idle"]
  /\ req = [w \in Workers |-> NoRequest]
  /\ rows = [w \in Workers |-> NoRows]
  /\ asked = 0
  /\ changed = 0
  /\ faults = 0
  /\ due = [d \in Devices |-> {}]

-----------------------------------------------------------------------------
Device(w) == req[w].device
Scene(w) == req[w].scene

\* The transform of the message's device, as the parser builds it.
Message(w) == Loaded(req[w].given)

\* No pair with scene k is due for the devices D any longer.
Undue(D, k) ==
  [d \in Devices |-> IF d \in D THEN {p \in due[d] : k \notin p} ELSE due[d]]

\* A query fails, or its answer is lost.
Fault == faults < MaxFaults /\ faults' = faults + 1

\* The locals of a handler are gone.
Ended(w) ==
  /\ pc' = [pc EXCEPT ![w] = "idle"]
  /\ req' = [req EXCEPT ![w] = NoRequest]
  /\ rows' = [rows EXCEPT ![w] = NoRows]

\* The request is answered with an error.
Fail(w) ==
  /\ Ended(w)
  /\ due' = Undue({Device(w)}, Scene(w))

\* A null pointer is followed: all requests end with the process, which is
\* started again over the same database.
Crash ==
  /\ pc' = [w \in Workers |-> "idle"]
  /\ req' = [w \in Workers |-> NoRequest]
  /\ rows' = [w \in Workers |-> NoRows]
  /\ due' = [d \in Devices |->
       {p \in due[d] : \A w \in Workers : Device(w) = d => Scene(w) \notin p}]

-----------------------------------------------------------------------------
(* The other requests. *)

Changes == changed < MaxOthers /\ changed' = changed + 1

\* register_device_to_scene, of a device that is not registered to the scene:
\* with the identity, whatever the message says (new_transform).  A scene
\* that is not there was created before.
Register(d, k) ==
  /\ Changes
  /\ stored[d][k] = None
  /\ scenes' = scenes \cup {k}
  /\ stored' = [stored EXCEPT ![d][k] = Saved(Identity)]
  /\ due' = Undue({d}, k)
  /\ UNCHANGED <<links, workerVars, asked, faults>>

\* remove_device_from_scene
Deregister(d, k) ==
  /\ Changes
  /\ stored[d][k] # None
  /\ stored' = [stored EXCEPT ![d][k] = None]
  /\ due' = Undue({d}, k)
  /\ UNCHANGED <<scenes, links, workerVars, asked, faults>>

\* MATCH (scn:Scene {key: k}) DETACH DELETE scn
DeleteScene(k) ==
  /\ Changes
  /\ k \in scenes
  /\ scenes' = scenes \ {k}
  /\ stored' = [d \in Devices |-> [stored[d] EXCEPT ![k] = None]]
  /\ links' = {l \in links : l.from # k /\ l.to # k}
  /\ due' = Undue(Devices, k)
  /\ UNCHANGED <<workerVars, asked, faults>>

-----------------------------------------------------------------------------
(* process_device_alignment_message. *)

\* A message whose device has no transform gets a device with a null pointer
\* for one, and update_device_registration follows it.
Begin(w, d, k, s) ==
  /\ pc[w] = "idle" /\ asked < MaxAlignments
  /\ asked' = asked + 1
  /\ \/ /\ s = None
        /\ Crash
     \/ /\ s # None
        /\ pc' = [pc EXCEPT ![w] = "update"]
        /\ req' = [req EXCEPT ![w] = [device |-> d, scene |-> k, given |-> s]]
        /\ UNCHANGED <<rows, due>>
  /\ UNCHANGED <<graphVars, changed, faults>>

Updated(w) == [stored EXCEPT ![Device(w)][Scene(w)] = Saved(Message(w))]

\* update_device_registration; a query that is run again does the same again.
UpdateRegistration(w) ==
  LET d == Device(w)
      k == Scene(w)
      others == {j \in Scenes \ {k} : stored[d][j] # None}
  IN
  /\ pc[w] = "update"
  /\ \/ /\ stored[d][k] = None            \* NOT_FOUND
        /\ Fail(w)
        /\ UNCHANGED stored
     \/ /\ stored[d][k] # None
        /\ stored' = Updated(w)
        /\ pc' = [pc EXCEPT ![w] = "rows"]
        /\ due' = [due EXCEPT ![d] = @ \cup {{j, k} : j \in others}]
        /\ UNCHANGED <<req, rows>>
  /\ UNCHANGED <<scenes, links, asked, changed, faults>>

\* It fails, and may have been applied all the same.
UpdateRegistrationFails(w) ==
  /\ pc[w] = "update"
  /\ Fault
  /\ \/ UNCHANGED stored
     \/ stored[Device(w)][Scene(w)] # None /\ stored' = Updated(w)
  /\ Fail(w)
  /\ UNCHANGED <<scenes, links, asked, changed>>

\* get_registrations, and the null pointer that it returns for no rows.
GetRows(w) ==
  /\ pc[w] = "rows"
  /\ \/ /\ stored[Device(w)] = NoRows
        /\ Crash
     \/ /\ stored[Device(w)] # NoRows
        /\ rows' = [rows EXCEPT ![w] = stored[Device(w)]]
        /\ pc' = [pc EXCEPT ![w] = "scenelinks"]
        /\ UNCHANGED <<req, due>>
  /\ UNCHANGED <<graphVars, asked, changed, faults>>

\* Its query fails: the same null pointer.
GetRowsFails(w) ==
  /\ pc[w] = "rows"
  /\ Fault
  /\ Crash
  /\ UNCHANGED <<graphVars, asked, changed>>

\* if (scene1_key != scene2_key)
OtherRows(w) == {j \in Scenes \ {Scene(w)} : rows[w][j] # None}

\* The link from scene j of a row to the scene of the message.  The transform
\* of the row is the one that was read, that of the message is its own.
LinkUnsaved(w, j) ==                       \* slip: the matrix itself
  [from |-> j, to |-> Scene(w),
   trans |-> Relative(Loaded(rows[w][j]), Message(w))]
LinkBackwards(w, j) ==                     \* slip: the inverse not of the row
  [from |-> j, to |-> Scene(w),
   trans |-> Saved(Relative(Message(w), Loaded(rows[w][j])))]
Link(w, j) ==
  [from |-> j, to |-> Scene(w),
   trans |-> Saved(Relative(Loaded(rows[w][j]), Message(w)))]

\* get_scene_link: 1 or 2 for a link that is there, as its property "key" says
\* which way it leads.  No query writes that property, so links that are there
\* are never found, and update_scene_link is never called.
GetSceneLink(j, k) ==
  IF \E l \in links : {l.from, l.to} = {j, k} /\ "key" \in DOMAIN l.trans
  THEN 1 ELSE 0

\* create_scene_link.  If one of the scenes is gone it throws, and the rest of
\* the rows is dropped.
LinkScenes(w, j) ==
  /\ pc[w] = "scenelinks" /\ j \in OtherRows(w)
  /\ GetSceneLink(j, Scene(w)) = 0
  /\ \/ /\ {j, Scene(w)} \subseteq scenes
        /\ links' = links \cup {Link(w, j)}
        /\ rows' = [rows EXCEPT ![w][j] = None]
        /\ UNCHANGED <<pc, req, due>>
     \/ /\ ~({j, Scene(w)} \subseteq scenes)
        /\ Fail(w)
        /\ UNCHANGED links
  /\ UNCHANGED <<scenes, stored, asked, changed, faults>>

\* Its query fails, and may have been applied all the same.
LinkScenesFails(w, j) ==
  /\ pc[w] = "scenelinks" /\ j \in OtherRows(w)
  /\ Fault
  /\ \/ UNCHANGED links
     \/ {j, Scene(w)} \subseteq scenes /\ links' = links \cup {Link(w, j)}
  /\ Fail(w)
  /\ UNCHANGED <<scenes, stored, asked, changed>>

\* NO_ERROR is answered.
Respond(w) ==
  /\ pc[w] = "scenelinks" /\ OtherRows(w) = {}
  /\ Ended(w)
  /\ UNCHANGED <<graphVars, asked, changed, faults, due>>

-----------------------------------------------------------------------------
Next ==
  \/ \E d \in Devices, k \in Scenes : Register(d, k) \/ Deregister(d, k)
  \/ \E k \in Scenes : DeleteScene(k)
  \/ \E w \in Workers :
       \/ \E d \in Devices, k \in Scenes, s \in Given \cup {None} :
            Begin(w, d, k, s)
       \/ UpdateRegistration(w) \/ UpdateRegistrationFails(w)
       \/ GetRows(w) \/ GetRowsFails(w)
       \/ \E j \in Scenes : LinkScenes(w, j) \/ LinkScenesFails(w, j)
       \/ Respond(w)

Spec == Init /\ [][Next]_vars

-----------------------------------------------------------------------------
Maybe(S) == S \cup {None}

TypeOK ==
  /\ scenes \subseteq Scenes
  /\ stored \in [Devices -> [Scenes -> Maybe(SavedTransforms)]]
  /\ links \subseteq [from : Scenes, to : Scenes, trans : SavedTransforms]
  /\ pc \in [Workers -> {"idle", "update", "rows", "scenelinks"}]
  /\ req \in [Workers -> [device : Maybe(Devices), scene : Maybe(Scenes),
                          given : Maybe(Given)]]
  /\ rows \in [Workers -> [Scenes -> Maybe(SavedTransforms)]]
  /\ asked \in 0..MaxAlignments
  /\ changed \in 0..MaxOthers
  /\ faults \in 0..MaxFaults
  /\ due \in [Devices -> SUBSET SUBSET Scenes]

Aligning(d, k) == \E w \in Workers : Device(w) = d /\ Scene(w) = k

\* A link takes how device d lies in one of its scenes to how it lies in the
\* other.
Explains(l, d) ==
  Add(Loaded(stored[d][l.from]), Loaded(l.trans)) = Loaded(stored[d][l.to])

\* Once no alignment of the two registrations is under way, some link between
\* the two scenes agrees with both, whatever other requests did meanwhile:
\* an alignment stores its transform before it reads the others, so that of
\* two alignments at least one sees what the other stored.
LinkExplainsDevices ==
  \A d \in Devices : \A p \in due[d] :
    (\A k \in p : ~Aligning(d, k)) =>
      \E l \in links : {l.from, l.to} = p /\ Explains(l, d)
=============================================================================
