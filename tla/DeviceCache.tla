----------------------------- MODULE DeviceCache -----------------------------
(***************************************************************************)
(* The scene cache of src/src/cache/include/device_cache.h, the loader     *)
(* thread that refreshes it from Neo4j (cache_loader.h, loader_process.h)  *)
(* and the HTTP requests that add and remove scenes (cache_handler.h).     *)
(*                                                                         *)
(* scene_list and cache_entries change under the write lock and entries    *)
(* are read and replaced under the read lock, so each of those calls is    *)
(* one step; inside an entry CacheEntry says what a step does.  The copy   *)
(* that load_scenes takes of scene_list is under no lock and has a         *)
(* beginning and an end.  What Neo4j holds is changed by registrations,    *)
(* here and on other servers, at any time (environment).                   *)
(*                                                                         *)
(* An address list is represented by the set of devices it reaches.        *)
(***************************************************************************)
EXTENDS Naturals, Sequences, SequencesExt

CONSTANTS
  Scenes, Devices,
  Clients,     \* Clients[k]: the devices that ever register to scene k
  Absent,      \* no entry in cache_entries
  MaxListed    \* bound: length of scene_list

ASSUME ClientsAreDevices == Clients \in [Scenes -> SUBSET Devices]
ASSUME AbsentIsNoList == \A S \in SUBSET Devices : Absent # S
ASSUME MaxListedNat == MaxListed \in Nat

VARIABLES
  registered,    \* environment: the devices linked to each scene in Neo4j
  scene_list, cache_entries,
  lpc,           \* the loader's place in load_scenes
  scene_keys,    \* its copy of scene_list, less the scenes it is done with
  new_devices,   \* the answer to its last query
  health,        \* "ok", "undefined" once undefined behaviour ran, "crashed"
  raced,         \* history: scene_list changed during the copy
  doubled,       \* history: scenes that were listed twice at some time
  removed,       \* history: scenes removed since the pass of the loader began
  steady, gone   \* history: the devices of each scene that were registered,
                 \* or not registered, all through the pass

cacheVars == <<scene_list, cache_entries>>
loaderVars == <<lpc, scene_keys, new_devices>>
historyVars == <<raced, doubled, removed, steady, gone>>
vars == <<registered, cacheVars, loaderVars, health, historyVars>>

LoaderSteps == {"asleep", "copying", "scene", "loaded"}

Init ==
  /\ registered = [k \in Scenes |-> {}]
  /\ scene_list = <<>>
  /\ cache_entries = [k \in Scenes |-> Absent]
  /\ lpc = "asleep"
  /\ scene_keys = <<>>
  /\ new_devices = {}
  /\ health = "ok"
  /\ raced = FALSE
  /\ doubled = {}
  /\ removed = {}
  /\ steady = [k \in Scenes |-> {}]
  /\ gone = [k \in Scenes |-> {}]

Listed(k) == Contains(scene_list, k)

\* The process, and with it every thread, is there.
Running == health # "crashed"

\* The pass can no longer promise anything about scene k.
Forget(k) == /\ steady' = [steady EXCEPT ![k] = {}]
             /\ gone' = [gone EXCEPT ![k] = {}]

-----------------------------------------------------------------------------
(* Environment: registrations as the loader's query sees them. *)

Register(d, k) ==
  /\ Running
  /\ d \in Clients[k] \ registered[k]
  /\ registered' = [registered EXCEPT ![k] = @ \cup {d}]
  /\ gone' = [gone EXCEPT ![k] = @ \ {d}]
  /\ UNCHANGED <<cacheVars, loaderVars, health, raced, doubled, removed, steady>>

Deregister(d, k) ==
  /\ Running
  /\ d \in registered[k]
  /\ registered' = [registered EXCEPT ![k] = @ \ {d}]
  /\ steady' = [steady EXCEPT ![k] = @ \ {d}]
  /\ UNCHANGED <<cacheVars, loaderVars, health, raced, doubled, removed, gone>>

-----------------------------------------------------------------------------
(* The HTTP requests PUT and DELETE /v1/scene/cache/<key>. *)

\* scene_list.push_back(scene_key), whether or not it is listed
NotListed(k) == scene_list        \* slip: push_back forgotten
Pushed(k) == Append(scene_list, k)

\* cache_entries[scene_key] = new DeviceCacheEntry(): an empty list
NoEntry(k) == cache_entries       \* slip: only listed
FreshEntry(k) == [cache_entries EXCEPT ![k] = {}]

AddScene(k) ==
  /\ Running
  /\ Len(scene_list) < MaxListed
  /\ scene_list' = Pushed(k)
  /\ cache_entries' = FreshEntry(k)
  /\ raced' = (raced \/ lpc = "copying")
  /\ doubled' = IF Listed(k) THEN doubled \cup {k} ELSE doubled
  /\ Forget(k)
  /\ UNCHANGED <<registered, loaderVars, health, removed>>

\* scene_list.erase(std::find(...))
StillListed(k) == scene_list      \* slip: the key stays listed
Unlisted(k) == RemoveFirst(scene_list, k)

\* delete cache_entries[scene_key]; cache_entries.erase(scene_key)
EntryErased(k) == [cache_entries EXCEPT ![k] = Absent]

RemoveScene(k) ==
  /\ Running
  /\ Listed(k)
  /\ scene_list' = Unlisted(k)
  /\ cache_entries' = EntryErased(k)
  /\ raced' = (raced \/ lpc = "copying")
  /\ removed' = IF lpc = "asleep" THEN removed ELSE removed \cup {k}
  /\ Forget(k)
  /\ UNCHANGED <<registered, loaderVars, health, doubled>>

\* scene_list.erase(std::find(...)) of a key that is not listed erases end(),
\* which is undefined.  libstdc++ then drops the last element, whatever it
\* is; with an empty list it destroys a string that does not exist.
RemoveUnlistedScene(k) ==
  /\ Running
  /\ ~Listed(k)
  /\ \/ health' = "crashed" /\ UNCHANGED cacheVars
     \/ /\ scene_list # <<>>
        /\ health' = "undefined"
        /\ scene_list' = Front(scene_list)
        /\ cache_entries' = EntryErased(k)
  /\ raced' = (raced \/ lpc = "copying")
  /\ removed' = IF lpc = "asleep" THEN removed ELSE removed \cup {k}
  /\ UNCHANGED <<registered, loaderVars, doubled, steady, gone>>

-----------------------------------------------------------------------------
(* The loader thread: load_data calls load_scenes, sleeps, and so on. *)

\* std::vector<std::string> scene_keys = cache->get_scenes() begins; a pass
\* can promise something of the scenes listed now.
BeginListCopy ==
  /\ Running
  /\ lpc = "asleep"
  /\ lpc' = "copying"
  /\ scene_keys' = scene_list
  /\ steady' = [k \in Scenes |-> IF Listed(k) THEN registered[k] ELSE {}]
  /\ gone' = [k \in Scenes |-> IF Listed(k) THEN Clients[k] \ registered[k]
                                            ELSE {}]
  /\ UNCHANGED <<registered, cacheVars, new_devices, health, raced, doubled,
                 removed>>

\* The copy ends.  If the list changed meanwhile the copy was undefined: it
\* reads freed memory, or it happens to see the old or the new list.
EndListCopy ==
  /\ Running
  /\ lpc = "copying"
  /\ lpc' = "scene"
  /\ IF raced
     THEN \/ health' = "crashed" /\ UNCHANGED scene_keys
          \/ health' = "undefined" /\ scene_keys' \in {scene_keys, scene_list}
     ELSE UNCHANGED <<health, scene_keys>>
  /\ raced' = FALSE
  /\ UNCHANGED <<registered, cacheVars, new_devices, doubled, removed, steady,
                 gone>>

\* The query of load_scene: the devices with a TRANSFORM from this scene.
SceneColumn(k) == {k}             \* slip: RETURN scn
AnyScene(k) == UNION {registered[s] : s \in Scenes}  \* slip: no key filter
Matching(k) == registered[k]

QueryScene ==
  /\ Running
  /\ lpc = "scene"
  /\ scene_keys # <<>>
  /\ new_devices' = Matching(Head(scene_keys))
  /\ lpc' = "loaded"
  /\ UNCHANGED <<registered, cacheVars, scene_keys, health, historyVars>>

\* execute throws, or returns no results: the scene is skipped in this pass,
\* the others are not.
PassAbandoned == <<>>             \* slip: the exception ends the loop
Skipped == Tail(scene_keys)

QueryFails ==
  /\ Running
  /\ lpc = "scene"
  /\ scene_keys # <<>>
  /\ scene_keys' = Skipped
  /\ Forget(Head(scene_keys))
  /\ UNCHANGED <<registered, cacheVars, lpc, new_devices, health, raced,
                 doubled, removed>>

\* set_addresses replaces the whole list.
Merged(k) == cache_entries[k] \cup new_devices   \* slip: appended
FirstOnly(k) == IF cache_entries[k] = {} THEN new_devices ELSE cache_entries[k]
                                                \* slip: loaded only once
Replaced(k) == new_devices

\* if (new_devices.size() > 0) cache->set_devices(scene_key, new_devices):
\* operator[] makes a null entry for a scene that is gone, and set_devices
\* calls set_addresses on it.
StoreDevices ==
  LET k == Head(scene_keys) IN
  /\ Running
  /\ lpc = "loaded"
  /\ \/ /\ new_devices = {}
        /\ UNCHANGED <<cache_entries, health>>
     \/ /\ new_devices # {} /\ cache_entries[k] # Absent
        /\ cache_entries' = [cache_entries EXCEPT ![k] = Replaced(k)]
        /\ UNCHANGED health
     \/ /\ new_devices # {} /\ cache_entries[k] = Absent
        /\ health' = "crashed"
        /\ UNCHANGED cache_entries
  /\ scene_keys' = Tail(scene_keys)
  /\ new_devices' = {}
  /\ lpc' = "scene"
  /\ UNCHANGED <<registered, scene_list, historyVars>>

PassDone == lpc = "scene" /\ scene_keys = <<>>

\* The loop over scene_keys ends; usleep(interval).  The history of the pass
\* is of no more use.
EndPass ==
  /\ Running
  /\ PassDone
  /\ lpc' = "asleep"
  /\ removed' = {}
  /\ steady' = [k \in Scenes |-> {}]
  /\ gone' = [k \in Scenes |-> {}]
  /\ UNCHANGED <<registered, cacheVars, scene_keys, new_devices, health, raced,
                 doubled>>

Loader ==
  \/ BeginListCopy \/ EndListCopy \/ QueryScene \/ QueryFails
  \/ StoreDevices \/ EndPass

Environment ==
  \E k \in Scenes : \E d \in Devices : Register(d, k) \/ Deregister(d, k)

CacheRequest ==
  \E k \in Scenes : AddScene(k) \/ RemoveScene(k) \/ RemoveUnlistedScene(k)

Next == Loader \/ Environment \/ CacheRequest

Spec == Init /\ [][Next]_vars

\* The loader thread is scheduled again and again, and a query that is asked
\* again and again is answered now and then.
Fairness ==
  /\ WF_vars(BeginListCopy \/ EndListCopy \/ StoreDevices \/ EndPass)
  /\ WF_vars(QueryScene \/ QueryFails)
  /\ \A k \in Scenes :
       SF_vars(scene_keys # <<>> /\ Head(scene_keys) = k /\ QueryScene)

FairSpec == Spec /\ Fairness

-----------------------------------------------------------------------------
TypeOK ==
  /\ registered \in [Scenes -> SUBSET Devices]
  /\ scene_list \in Seq(Scenes)
  /\ cache_entries \in [Scenes -> {Absent} \cup SUBSET Devices]
  /\ lpc \in LoaderSteps
  /\ scene_keys \in Seq(Scenes)
  /\ new_devices \in SUBSET Devices
  /\ health \in {"ok", "undefined", "crashed"}
  /\ raced \in BOOLEAN
  /\ doubled \in SUBSET Scenes
  /\ removed \in SUBSET Scenes
  /\ steady \in [Scenes -> SUBSET Devices]
  /\ gone \in [Scenes -> SUBSET Devices]

\* Every entry is listed, so the loader refreshes it: as long as nobody
\* removes a scene that is not cached, no entry is forgotten in the map.
EntryIsListed ==
  health = "ok" => \A k \in Scenes : cache_entries[k] # Absent => Listed(k)

\* Every listed scene has an entry, unless it was added twice: then one
\* remove_scene takes the entry away and leaves the key in the list.
ListedHasEntry ==
  health = "ok" =>
    \A k \in Scenes \ doubled : Listed(k) => cache_entries[k] # Absent

\* The loader crashes in set_devices only on a scene that was removed during
\* this pass, after its list was copied, or that was added twice.
CrashExplained ==
  [][health = "ok" /\ health' = "crashed" /\ lpc = "loaded" /\ lpc' = "scene"
       => Head(scene_keys) \in removed \cup doubled]_vars

\* No scene is ever streamed to a device that never registered to it: the
\* list of one scene is not stored under another.
OnlyClients ==
  \A k \in Scenes : cache_entries[k] # Absent => cache_entries[k] \subseteq Clients[k]

\* One pass of the loader is enough: when it ends, every scene that stayed in
\* the cache and whose query was answered has all the devices that were
\* registered to it throughout.
PassDelivers ==
  health = "ok" /\ PassDone =>
    \A k \in Scenes : cache_entries[k] # Absent => steady[k] \subseteq cache_entries[k]

\* And it has none of the devices that were not, as long as one other device
\* kept the scene's answer from being empty.
PassForgets ==
  health = "ok" /\ PassDone =>
    \A k \in Scenes :
      cache_entries[k] # Absent /\ steady[k] # {} => gone[k] \cap cache_entries[k] = {}

\* A scene that keeps its entry and has a stable, non-empty set of
\* registrations has exactly that set in the cache again and again.
CacheCatchesUp ==
  \A k \in Scenes : \A S \in SUBSET Clients[k] \ {{}} :
    <>[](health = "ok" /\ registered[k] = S /\ cache_entries[k] # Absent)
      => []<>(cache_entries[k] = S)

\* "Registration information is kept up-to-date in a cache ... a separate
\* background thread periodically loads updated values" (docs/pages/arch.rst
\* lines 47 to 49): after a pass with every query answered, no device that
\* was not registered is in the cache.
CacheUpToDate ==
  health = "ok" /\ PassDone =>
    \A k \in Scenes : cache_entries[k] # Absent => gone[k] \cap cache_entries[k] = {}
=============================================================================
