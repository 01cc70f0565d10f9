---------------------------- MODULE SceneRegistry ----------------------------
(***************************************************************************)
(* What the scene and registration requests promise: a set of scenes and   *)
(* the devices that are members of them.  Either changes only on behalf of *)
(* a request that is under way, in the way that request asks for, and      *)
(* about the scene and the device that it names.  A request may take       *)
(* effect once, several times or, if something fails, not at all.          *)
(***************************************************************************)
CONSTANTS
  Workers,   \* whoever may ask, one request at a time
  Keys,      \* the keys of scenes
  Requests,  \* records with a kind, a scene and a device
  Nothing    \* the one of them that asks for nothing

VARIABLES
  scenes,    \* the scenes there are
  members,   \* pairs of a scene and a device that is registered to it
  asking     \* asking[w]: the request of w, or Nothing

vars == <<scenes, members, asking>>

Init ==
  /\ scenes = {}
  /\ members = {}
  /\ asking = [w \in Workers |-> Nothing]

Call(w) ==
  /\ asking[w] = Nothing
  /\ \E r \in Requests : asking' = [asking EXCEPT ![w] = r]
  /\ UNCHANGED <<scenes, members>>

Return(w) ==
  /\ asking' = [asking EXCEPT ![w] = Nothing]
  /\ UNCHANGED <<scenes, members>>

\* A scene is made for whoever creates it or enters it.
Create(w) ==
  /\ asking[w].kind \in {"SCENE_CRT", "SCENE_ENTER"}
  /\ asking[w].scene \in Keys
  /\ scenes' = scenes \cup {asking[w].scene}
  /\ UNCHANGED <<members, asking>>

\* Only a scene that is there can be entered.
Join(w) ==
  /\ asking[w].kind = "SCENE_ENTER"
  /\ asking[w].scene \in scenes
  /\ members' = members \cup {<<asking[w].scene, asking[w].device>>}
  /\ UNCHANGED <<scenes, asking>>

\* A device leaves one scene and stays in the others.  The scene stays, also
\* without devices: the handler calls remove_device_from_scene and no more,
\* although the comment above it says that the scene goes with its last device.
Part(w) ==
  /\ asking[w].kind = "SCENE_LEAVE"
  /\ members' = members \ {<<asking[w].scene, asking[w].device>>}
  /\ UNCHANGED <<scenes, asking>>

\* With a scene go all its members.
Drop(w) ==
  /\ asking[w].kind = "SCENE_DEL"
  /\ scenes' = scenes \ {asking[w].scene}
  /\ members' = {m \in members : m[1] # asking[w].scene}
  /\ UNCHANGED asking

Next ==
  \E w \in Workers :
    Call(w) \/ Return(w) \/ Create(w) \/ Join(w) \/ Part(w) \/ Drop(w)

Spec == Init /\ [][Next]_vars
=============================================================================
