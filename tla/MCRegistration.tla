--------------------------- MODULE MCRegistration ---------------------------
(***************************************************************************)
(* Instances of Registration for TLC: two workers, two scenes, one device, *)
(* at most one query that fails.                                           *)
(***************************************************************************)
EXTENDS Registration, TLC

CONSTANTS w1, w2, s1, s2, d1

MCWorkers == {w1, w2}
OneWorker == {w1}
MCScenes == {s1, s2}
MCDevices == {d1}

\* Every kind of request about one scene; the registration of its device to
\* another one; a registration that names no scene; and two that are refused,
\* without a scene and without a device.
Ask(kind, scene, device) == {[kind |-> kind, scene |-> scene, device |-> device]}
MCAsked ==
  UNION {Ask("SCENE_ENTER", s1, d1), Ask("SCENE_LEAVE", s1, d1),
         Ask("DEVICE_ALIGN", s1, d1), Ask("DEVICE_GET", EmptyKey, d1),
         Ask("SCENE_CRT", s1, NoDevice), Ask("SCENE_DEL", s1, NoDevice),
         Ask("SCENE_ENTER", s2, d1), Ask("SCENE_ENTER", EmptyKey, d1),
         Ask("SCENE_ENTER", NoScene, NoDevice),
         Ask("SCENE_LEAVE", EmptyKey, NoDevice)}
Symmetry == Permutations(MCWorkers)

\* One worker, and the requests that the run RegistrationLinks needs.
LinkRequests ==
  UNION {Ask(kind, k, d1) : kind \in {"SCENE_ENTER", "DEVICE_ALIGN"}, k \in MCScenes}
=============================================================================
