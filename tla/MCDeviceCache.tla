--------------------------- MODULE MCDeviceCache ---------------------------
(***************************************************************************)
(* Instances of DeviceCache for TLC: two scenes, one with two client       *)
(* devices and one to which nobody registers, and a scene_list of at most  *)
(* two keys, so that a scene can be added twice.                           *)
(***************************************************************************)
EXTENDS DeviceCache

CONSTANTS k1, k2, d1, d2

MCScenes == {k1, k2}
MCDevices == {d1, d2}
MCClients == (k1 :> {d1, d2}) @@ (k2 :> {})
=============================================================================
