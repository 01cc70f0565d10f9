---------------------------- MODULE SceneRoutes ----------------------------
(***************************************************************************)
(* How a request finds its handler: SceneHandlerFactory reads the method   *)
(* and the elements of the path.  The order of the alternatives is that of *)
(* the code; what none of them takes has no handler.                       *)
(*                                                                         *)
(* A GET of /v1/scene without a key reads past the end of the path.  Its   *)
(* outcome is undefined, no document asks for it, and it is left out here. *)
(***************************************************************************)
EXTENDS Naturals, Sequences

CONSTANT NoKey

Handler(name, kind, key) == [handler |-> name, kind |-> kind, key |-> key]
NoHandler == Handler("none", "none", NoKey)

PostRoute(p) ==
  LET n == Len(p) IN
  CASE n = 2 /\ p[2] = "scene" -> Handler("base", "SCENE_CRT", NoKey)
    [] n = 3 /\ p[2] = "scene" /\ p[3] = "query" -> Handler("base", "SCENE_GET", NoKey)
    [] n = 3 /\ p[2] = "scene" /\ p[3] # "query" -> Handler("update", "SCENE_UPD", p[3])
    [] n = 2 /\ p[2] = "register" -> Handler("base", "SCENE_ENTER", NoKey)
    [] n = 2 /\ p[2] = "deregister" -> Handler("base", "SCENE_LEAVE", NoKey)
    [] n = 2 /\ p[2] = "align" -> Handler("base", "DEVICE_ALIGN", NoKey)
    [] n = 3 /\ p[2] = "device" /\ p[3] = "query" -> Handler("base", "DEVICE_GET", NoKey)
    [] OTHER -> NoHandler

\* createRequestHandler.
Route(method, p) ==
  LET n == Len(p)
      scene == n > 1 /\ p[1] = "v1" /\ p[2] = "scene"
      cache == n = 4 /\ scene /\ p[3] = "cache"
      asset == n = 5 /\ scene /\ p[4] = "asset"
      put == method = "PUT"
      change == method \in {"PUT", "DELETE"} IN
  CASE n > 1 /\ p[1] = "v1" /\ method = "POST" -> PostRoute(p)
    [] n = 3 /\ scene /\ put -> Handler("base", "SCENE_CRT", p[3])
    [] cache ->
         IF change THEN Handler("cache", IF put THEN "CACHE_ADD" ELSE "CACHE_DEL", p[4])
                   ELSE NoHandler
    [] n = 3 /\ scene /\ method = "DELETE" -> Handler("key", "SCENE_DEL", p[3])
    [] asset ->
         IF change THEN Handler("asset", IF put THEN "ASSET_ADD" ELSE "ASSET_DEL", p[3])
                   ELSE NoHandler
    [] method = "GET" /\ n >= 3 /\ scene /\ ~cache /\ ~asset -> Handler("key", "SCENE_GET", p[3])
    [] method = "GET" /\ p = <<"health">> -> Handler("heartbeat", "none", NoKey)
    [] OTHER -> NoHandler
=============================================================================
