--------------------------- MODULE MCSceneStore ----------------------------
(***************************************************************************)
(* Instances of SceneStore for TLC: two workers, one key of a client and   *)
(* one generated key, up to two scenes, one query that fails, responses    *)
(* that hold one scene unless they are asked for less.                     *)
(***************************************************************************)
EXTENDS SceneStore, TLC

CONSTANTS w1, w2, k1, f1, n1, n2

MCWorkers == {w1, w2}
OneWorker == {w1}
MCKeys == {k1}
MCFresh == {f1}
MCIds == {n1, n2}
MCWords == {NoText, "n", "a"}
MCKeyOrder == <<k1, f1>>

\* A private scene of a user with all details; a public one, which is also a
\* search around a place; a search for private scenes by owner and name; one
\* for scenes with a tag; and one that, used as an update, takes an asset and a
\* tag away and, as a search, is too narrow.
A == Array([t \in MCWords |-> IF t = "a" THEN 1 ELSE 0])
Named == "name" :> Text("n")
Private == Named @@ "private" :> Flag("true") @@ "user" :> Text("n")
           @@ "latitude" :> Number("50") @@ "assets" :> A @@ "tags" :> A
Place == Named @@ "latitude" :> Number("50") @@ "distance" :> Number("9")
Owner == Named @@ "public" :> Flag("false") @@ "user" :> Text("n")
Tagged == "tags" :> A
Narrow == Tagged @@ "assets" :> A
          @@ "latitude" :> Number("50") @@ "distance" :> Number("tiny")
Keyed(members) == members @@ "key" :> Text(k1)
Paged(start, records) ==
  "start_record" :> Number(start) @@ "num_records" :> Number(records)

Ask(op, k, list, body) == {[op |-> op, key |-> k, list |-> list, body |-> body]}
Plain(op, k, body) == Ask(op, k, NoMembers, body)
MCAsked ==
  UNION {Plain("post", NoKey, Private), Plain("post", NoKey, NoDoc),
         Plain("post", NoKey, Keyed(Place)), Plain("put", k1, Private),
         Plain("update", k1, NoDoc),
         Ask("update", k1, "operation" :> Number("REMOVE"), Narrow),
         Ask("update", k1, "operation" :> Number("other"), Named @@ Narrow),
         Plain("query", NoKey, Place), Plain("query", NoKey, Narrow),
         Plain("query", NoKey, Owner), Plain("query", NoKey, Keyed(Named)),
         Ask("query", NoKey, Paged(0, 2), Tagged),
         Ask("query", NoKey, Paged(1, 1), Named),
         Ask("query", NoKey, Paged(0, -1), Named),
         Plain("get", k1, NoMembers), Plain("delete", k1, NoMembers),
         Plain("asset_add", k1, NoMembers), Plain("asset_del", k1, NoMembers)}

\* One client creates a private scene; another one asks for scenes and says
\* neither key nor name.
MCSearch == Plain("put", k1, Private) \cup Plain("query", NoKey, NoMembers)
Symmetry == Permutations(MCWorkers) \cup Permutations(MCIds)

-----------------------------------------------------------------------------
\* Every list with up to three attributes set, and every scene and device with
\* any attributes set, is written and read again: all comes back but what
\* ListReadsBack and SceneReadsBack leave out.
Texted == DOMAIN NewList \ {"msg_type", "operation", "err_code", "num_records",
                            "start_record"}
ASSUME ListsReadBack ==
  \A S \in UNION {kSubset(n, Texted) : n \in 0..3}, records \in {-1, 1, 3}, scenes \in 0..2 :
    ListReadsBack([a \in DOMAIN NewList |->
                     CASE a \in S -> a [] a = "num_records" -> records
                       [] OTHER -> NewList[a]], scenes)

Other(x, a) ==
  CASE a \in {"assets", "tags"} -> [t \in Words |-> 1]
    [] a \notin {"assets", "tags"} -> IF x[a] = "true" THEN "false" ELSE "1"
Variants(x) == {[a \in DOMAIN x |-> IF a \in S THEN Other(x, a) ELSE x[a]] :
                  S \in SUBSET DOMAIN x}
ASSUME ScenesReadBack == \A scene \in Variants(NewScene) : SceneReadsBack(scene)
ASSUME DevicesReadBack == \A device \in Variants(NewDevice) : DeviceReadsBack(device)
=============================================================================
