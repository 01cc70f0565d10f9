------------------------- MODULE SceneStoreProofs --------------------------
(***************************************************************************)
(* Proofs about SceneStore.  The first half follows a request through the  *)
(* tables of SceneJson and the routes of SceneRoutes: the lemmas up to     *)
(* MessageOf say which query, key and document it becomes.  HandlingInv,   *)
(* the inductive invariant, says that what a worker holds is just that,    *)
(* and AppliedLeaves and Retrieved say what a query does to a node and     *)
(* which rows it shows.  The theorems rest on these.                       *)
(***************************************************************************)
EXTENDS SceneStore, SequenceTheorems, FiniteSetTheorems, TLAPS

-----------------------------------------------------------------------------
(* What a document is read as. *)

LEMMA OneRow ==
  ASSUME NEW x, NEW reads, NEW m, NEW a \in DOMAIN x, NEW i \in DOMAIN reads,
         i \in Int,
         \A j \in DOMAIN reads : reads[j].attribute = a <=> j = i
  PROVE  Filled(x, reads, m)[a] =
           IF reads[i].name \in DOMAIN m /\ m[reads[i].name].type \in reads[i].types
           THEN Taken(reads[i], m) ELSE x[a]
<1> DEFINE Hits == {j \in DOMAIN reads : /\ reads[j].attribute = a
                                         /\ reads[j].name \in DOMAIN m
                                         /\ m[reads[j].name].type \in reads[j].types}
<1>1. Filled(x, reads, m)[a] = IF Hits = {} THEN x[a] ELSE Taken(reads[Max(Hits)], m)
  BY DEF Filled
<1>2. Hits = {} \/ Hits = {i}
  OBVIOUS
<1>3. Max({i}) = i
  BY DEF Max
<1> QED
  BY <1>1, <1>2, <1>3

\* Of two members that go into one attribute the later one counts.
LEMMA TwoRows ==
  ASSUME NEW x, NEW reads, NEW m, NEW a \in DOMAIN x,
         NEW i \in DOMAIN reads, NEW j \in DOMAIN reads, i \in Int, j \in Int, i < j,
         \A h \in DOMAIN reads : reads[h].attribute = a <=> h \in {i, j}
  PROVE  LET Given(h) == /\ reads[h].name \in DOMAIN m
                         /\ m[reads[h].name].type \in reads[h].types IN
         Filled(x, reads, m)[a] =
           IF Given(j) THEN Taken(reads[j], m)
           ELSE IF Given(i) THEN Taken(reads[i], m) ELSE x[a]
<1> DEFINE Given(h) == /\ reads[h].name \in DOMAIN m
                       /\ m[reads[h].name].type \in reads[h].types
           Hits == {h \in DOMAIN reads : /\ reads[h].attribute = a
                                         /\ reads[h].name \in DOMAIN m
                                         /\ m[reads[h].name].type \in reads[h].types}
<1>1. Filled(x, reads, m)[a] = IF Hits = {} THEN x[a] ELSE Taken(reads[Max(Hits)], m)
  BY DEF Filled
<1>2. CASE Given(j)
  <2>1. j \in Hits /\ \A h \in Hits : h \in Int /\ j >= h
    BY <1>2
  <2>2. Max(Hits) = j
    <3> HIDE DEF Hits
    <3> QED BY <2>1 DEF Max
  <2> QED
    BY <1>1, <1>2, <2>1, <2>2
<1>3. CASE ~Given(j) /\ Given(i)
  <2>1. Hits = {i}
    BY <1>3
  <2>2. Max({i}) = i
    BY DEF Max
  <2> QED
    BY <1>1, <1>3, <2>1, <2>2
<1>4. CASE ~Given(j) /\ ~Given(i)
  <2>1. Hits = {}
    BY <1>4
  <2> QED
    BY <1>1, <1>4, <2>1
<1> QED
  BY <1>2, <1>3, <1>4

LEMMA SceneTable ==
  /\ DOMAIN SceneReads = 1..15
  /\ SceneReads[1] = [name |-> "key", types |-> Texts, attribute |-> "key"]
  /\ SceneReads[2] = [name |-> "name", types |-> Texts, attribute |-> "name"]
  /\ SceneReads[6] = [name |-> "public", types |-> Flags, attribute |-> "public"]
  /\ SceneReads[7] = [name |-> "private", types |-> Flags, attribute |-> "public"]
  /\ SceneReads[12] = [name |-> "assets", types |-> Lists, attribute |-> "assets"]
  /\ SceneReads[13] = [name |-> "tags", types |-> Lists, attribute |-> "tags"]
  /\ \A i \in 1..15 : SceneReads[i].attribute # "user"
  /\ \A i \in 1..15 : SceneReads[i].attribute = "key" <=> i = 1
  /\ \A i \in 1..15 : SceneReads[i].attribute = "name" <=> i = 2
  /\ \A i \in 1..15 : SceneReads[i].attribute = "public" <=> i \in {6, 7}
  /\ \A i \in 1..15 : SceneReads[i].attribute = "assets" <=> i = 12
  /\ \A i \in 1..15 : SceneReads[i].attribute = "tags" <=> i = 13
<1>1. DOMAIN SceneReads = 1..15
  BY DEF SceneReads, Reads, Read
<1>2. SceneReads[1] = [name |-> "key", types |-> Texts, attribute |-> "key"]
  BY DEF SceneReads, Reads, Read
<1>3. SceneReads[2] = [name |-> "name", types |-> Texts, attribute |-> "name"]
  BY DEF SceneReads, Reads, Read
<1>4. SceneReads[6] = [name |-> "public", types |-> Flags, attribute |-> "public"]
  BY DEF SceneReads, Reads, Read
<1>5. SceneReads[7] = [name |-> "private", types |-> Flags, attribute |-> "public"]
  BY DEF SceneReads, Reads, Read
<1>6. SceneReads[12] = [name |-> "assets", types |-> Lists, attribute |-> "assets"]
  BY DEF SceneReads, Reads, Read
<1>7. \A i \in 1..15 : SceneReads[i].attribute # "user"
  BY DEF SceneReads, Reads, Read
<1>8. \A i \in 1..15 : SceneReads[i].attribute = "key" <=> i = 1
  BY DEF SceneReads, Reads, Read
<1>9. \A i \in 1..15 : SceneReads[i].attribute = "name" <=> i = 2
  BY DEF SceneReads, Reads, Read
<1>10. \A i \in 1..15 : SceneReads[i].attribute = "public" <=> i \in {6, 7}
  BY DEF SceneReads, Reads, Read
<1>11. \A i \in 1..15 : SceneReads[i].attribute = "assets" <=> i = 12
  BY DEF SceneReads, Reads, Read
<1>12. SceneReads[13] = [name |-> "tags", types |-> Lists, attribute |-> "tags"]
  BY DEF SceneReads, Reads, Read
<1>13. \A i \in 1..15 : SceneReads[i].attribute = "tags" <=> i = 13
  BY DEF SceneReads, Reads, Read
<1> QED
  BY <1>1, <1>2, <1>3, <1>4, <1>5, <1>6, <1>7, <1>8, <1>9, <1>10, <1>11, <1>12, <1>13

LEMMA ListTable ==
  /\ DOMAIN ListReads = 1..16
  /\ ListReads[2] = [name |-> "operation", types |-> Ints, attribute |-> "operation"]
  /\ ListReads[15] = [name |-> "num_records", types |-> Ints, attribute |-> "num_records"]
  /\ ListReads[16] = [name |-> "start_record", types |-> Ints, attribute |-> "start_record"]
  /\ \A i \in 1..16 : ListReads[i].attribute = "operation" <=> i = 2
  /\ \A i \in 1..16 : ListReads[i].attribute = "num_records" <=> i = 15
  /\ \A i \in 1..16 : ListReads[i].attribute = "start_record" <=> i = 16
<1>1. DOMAIN ListReads = 1..16
  BY DEF ListReads, Reads, Read
<1>2. ListReads[2] = [name |-> "operation", types |-> Ints, attribute |-> "operation"]
  BY DEF ListReads, Reads, Read
<1>3. ListReads[15] = [name |-> "num_records", types |-> Ints, attribute |-> "num_records"]
  BY DEF ListReads, Reads, Read
<1>4. ListReads[16] = [name |-> "start_record", types |-> Ints, attribute |-> "start_record"]
  BY DEF ListReads, Reads, Read
<1>5. \A i \in 1..16 : ListReads[i].attribute = "operation" <=> i = 2
  BY DEF ListReads, Reads, Read
<1>6. \A i \in 1..16 : ListReads[i].attribute = "num_records" <=> i = 15
  BY DEF ListReads, Reads, Read
<1>7. \A i \in 1..16 : ListReads[i].attribute = "start_record" <=> i = 16
  BY DEF ListReads, Reads, Read
<1> QED
  BY <1>1, <1>2, <1>3, <1>4, <1>5, <1>6, <1>7

LEMMA TakenValue ==
  ASSUME NEW row, NEW m, row.name \notin {"private", "transform"}
  PROVE  Taken(row, m) = m[row.name].value
  BY DEF Taken

LEMMA TakenPrivate ==
  ASSUME NEW row, NEW m, row.name = "private"
  PROVE  Taken(row, m) = Negated[m["private"].value]
  BY DEF Taken

Said(m, n, default) == IF n \in DOMAIN m THEN m[n].value ELSE default

LEMMA SceneRead ==
  ASSUME NEW m, IsDocument(m, SceneReads)
  PROVE  LET x == Filled(NewScene, SceneReads, m) IN
         /\ x.user = NoText
         /\ x.key = Said(m, "key", NoText)
         /\ x.name = Said(m, "name", NoText)
         /\ x.assets = Said(m, "assets", NoArray)
         /\ x.tags = Said(m, "tags", NoArray)
         /\ x.public = IF "private" \in DOMAIN m THEN Negated[m["private"].value]
                       ELSE Said(m, "public", "true")
<1> DEFINE x == Filled(NewScene, SceneReads, m)
<1>0. {"user", "key", "name", "assets", "tags", "public"} \subseteq DOMAIN NewScene
  BY DEF NewScene
<1>n. /\ NewScene["user"] = NoText /\ NewScene["key"] = NoText /\ NewScene["name"] = NoText
      /\ NewScene["assets"] = NoArray /\ NewScene["tags"] = NoArray
      /\ NewScene["public"] = "true"
  BY DEF NewScene
<1>t. \A i \in 1..15 : SceneReads[i].name \in DOMAIN m
                         => m[SceneReads[i].name].type \in SceneReads[i].types
  BY SceneTable DEF IsDocument, WellTyped
<1>1. x.user = NoText
  <2>1. \A j \in DOMAIN SceneReads : SceneReads[j].attribute # "user"
    BY SceneTable
  <2> QED BY <1>0, <2>1 DEF Filled, NewScene
<1>2. x.key = Said(m, "key", NoText)
  <2>1. x["key"] = IF SceneReads[1].name \in DOMAIN m
                     /\ m[SceneReads[1].name].type \in SceneReads[1].types
                   THEN Taken(SceneReads[1], m) ELSE NewScene["key"]
    BY <1>0, SceneTable, OneRow
  <2> QED BY <2>1, <1>t, <1>n, SceneTable, TakenValue DEF Said
<1>3. x.name = Said(m, "name", NoText)
  <2>1. x["name"] = IF SceneReads[2].name \in DOMAIN m
                      /\ m[SceneReads[2].name].type \in SceneReads[2].types
                   THEN Taken(SceneReads[2], m) ELSE NewScene["name"]
    BY <1>0, SceneTable, OneRow
  <2> QED BY <2>1, <1>t, <1>n, SceneTable, TakenValue DEF Said
<1>4. x.assets = Said(m, "assets", NoArray)
  <2>1. x["assets"] = IF SceneReads[12].name \in DOMAIN m
                        /\ m[SceneReads[12].name].type \in SceneReads[12].types
                   THEN Taken(SceneReads[12], m) ELSE NewScene["assets"]
    BY <1>0, SceneTable, OneRow
  <2> QED BY <2>1, <1>t, <1>n, SceneTable, TakenValue DEF Said
<1>6. x.tags = Said(m, "tags", NoArray)
  <2>1. x["tags"] = IF SceneReads[13].name \in DOMAIN m
                      /\ m[SceneReads[13].name].type \in SceneReads[13].types
                   THEN Taken(SceneReads[13], m) ELSE NewScene["tags"]
    BY <1>0, SceneTable, OneRow
  <2> QED BY <2>1, <1>t, <1>n, SceneTable, TakenValue DEF Said
<1>5. x.public = IF "private" \in DOMAIN m THEN Negated[m["private"].value]
                 ELSE Said(m, "public", "true")
  <2> DEFINE Given(h) == /\ SceneReads[h].name \in DOMAIN m
                         /\ m[SceneReads[h].name].type \in SceneReads[h].types
  <2>1. x["public"] = IF Given(7) THEN Taken(SceneReads[7], m)
                      ELSE IF Given(6) THEN Taken(SceneReads[6], m) ELSE NewScene["public"]
    <3>1. /\ "public" \in DOMAIN NewScene /\ 6 \in DOMAIN SceneReads /\ 7 \in DOMAIN SceneReads
          /\ \A h \in DOMAIN SceneReads : SceneReads[h].attribute = "public" <=> h \in {6, 7}
      BY <1>0, SceneTable
    <3> QED
      BY <3>1, TwoRows
  <2>2. Given(7) <=> "private" \in DOMAIN m
    BY <1>t, SceneTable
  <2>3. Given(6) <=> "public" \in DOMAIN m
    BY <1>t, SceneTable
  <2> QED BY <2>1, <2>2, <2>3, SceneTable, TakenValue, TakenPrivate, <1>n DEF Said
<1> QED
  BY <1>1, <1>2, <1>3, <1>4, <1>5, <1>6

LEMMA ListRead ==
  ASSUME NEW m, IsDocument(m, ListReads)
  PROVE  LET x == Filled(NewList, ListReads, m) IN
         /\ x.operation = Said(m, "operation", "APPEND")
         /\ x.num_records = Said(m, "num_records", DefaultRecords)
         /\ x.start_record = Said(m, "start_record", 0)
<1> DEFINE x == Filled(NewList, ListReads, m)
<1>0. {"operation", "num_records", "start_record"} \subseteq DOMAIN NewList
  BY DEF NewList
<1>n. /\ NewList["operation"] = "APPEND" /\ NewList["num_records"] = DefaultRecords
      /\ NewList["start_record"] = 0
  BY DEF NewList
<1>t. \A i \in 1..16 : ListReads[i].name \in DOMAIN m
                         => m[ListReads[i].name].type \in ListReads[i].types
  BY ListTable DEF IsDocument, WellTyped
<1>1. x.operation = Said(m, "operation", "APPEND")
  <2>1. x["operation"] = IF ListReads[2].name \in DOMAIN m
                           /\ m[ListReads[2].name].type \in ListReads[2].types
                         THEN Taken(ListReads[2], m) ELSE NewList["operation"]
    BY <1>0, ListTable, OneRow
  <2> QED BY <2>1, <1>t, <1>n, ListTable, TakenValue DEF Said
<1>2. x.num_records = Said(m, "num_records", DefaultRecords)
  <2>1. x["num_records"] = IF ListReads[15].name \in DOMAIN m
                             /\ m[ListReads[15].name].type \in ListReads[15].types
                           THEN Taken(ListReads[15], m) ELSE NewList["num_records"]
    BY <1>0, ListTable, OneRow
  <2> QED BY <2>1, <1>t, <1>n, ListTable, TakenValue DEF Said
<1>3. x.start_record = Said(m, "start_record", 0)
  <2>1. x["start_record"] = IF ListReads[16].name \in DOMAIN m
                              /\ m[ListReads[16].name].type \in ListReads[16].types
                            THEN Taken(ListReads[16], m) ELSE NewList["start_record"]
    BY <1>0, ListTable, OneRow
  <2> QED BY <2>1, <1>t, <1>n, ListTable, TakenValue DEF Said
<1> QED
  BY <1>1, <1>2, <1>3

-----------------------------------------------------------------------------
(* What a handler makes of a request. *)

LEMMA Routes ==
  ASSUME NEW k, k # "query"
  PROVE  /\ Route("POST", <<"v1", "scene">>) = Handler("base", "SCENE_CRT", NoKey)
         /\ Route("POST", <<"v1", "scene", "query">>) = Handler("base", "SCENE_GET", NoKey)
         /\ Route("POST", <<"v1", "scene", k>>) = Handler("update", "SCENE_UPD", k)
         /\ Route("PUT", <<"v1", "scene", k>>) = Handler("base", "SCENE_CRT", k)
         /\ Route("GET", <<"v1", "scene", k>>) = Handler("key", "SCENE_GET", k)
         /\ Route("DELETE", <<"v1", "scene", k>>) = Handler("key", "SCENE_DEL", k)
         /\ Route("PUT", <<"v1", "scene", k, "asset", "a">>) = Handler("asset", "ASSET_ADD", k)
         /\ Route("DELETE", <<"v1", "scene", k, "asset", "a">>) = Handler("asset", "ASSET_DEL", k)
<1>1. Route("POST", <<"v1", "scene">>) = Handler("base", "SCENE_CRT", NoKey)
  BY DEF Route, PostRoute, Handler
<1>2. Route("POST", <<"v1", "scene", "query">>) = Handler("base", "SCENE_GET", NoKey)
  BY DEF Route, PostRoute, Handler
<1>3. Route("POST", <<"v1", "scene", k>>) = Handler("update", "SCENE_UPD", k)
  BY DEF Route, PostRoute, Handler
<1>4. Route("PUT", <<"v1", "scene", k>>) = Handler("base", "SCENE_CRT", k)
  BY DEF Route, Handler
<1>5. Route("GET", <<"v1", "scene", k>>) = Handler("key", "SCENE_GET", k)
  BY DEF Route, Handler
<1>6. Route("DELETE", <<"v1", "scene", k>>) = Handler("key", "SCENE_DEL", k)
  BY DEF Route, Handler
<1>7. Route("PUT", <<"v1", "scene", k, "asset", "a">>) = Handler("asset", "ASSET_ADD", k)
  BY DEF Route, Handler
<1>8. Route("DELETE", <<"v1", "scene", k, "asset", "a">>) = Handler("asset", "ASSET_DEL", k)
  BY DEF Route, Handler
<1> QED
  BY <1>1, <1>2, <1>3, <1>4, <1>5, <1>6, <1>7, <1>8

LEMMA HandledBy ==
  ASSUME NEW r, IsRequest(r)
  PROVE  /\ r.op = "post" => Handled(r) = Handler("base", "SCENE_CRT", NoKey)
         /\ r.op = "query" => Handled(r) = Handler("base", "SCENE_GET", NoKey)
         /\ r.op = "update" => Handled(r) = Handler("update", "SCENE_UPD", r.key)
         /\ r.op = "put" => Handled(r) = Handler("base", "SCENE_CRT", r.key)
         /\ r.op = "get" => Handled(r) = Handler("key", "SCENE_GET", r.key)
         /\ r.op = "delete" => Handled(r) = Handler("key", "SCENE_DEL", r.key)
         /\ r.op = "asset_add" => Handled(r) = Handler("asset", "ASSET_ADD", r.key)
         /\ r.op = "asset_del" => Handled(r) = Handler("asset", "ASSET_DEL", r.key)
<1>1. CASE r.op = "post"
  <2>1. Method(r) = "POST" /\ Path(r) = <<"v1", "scene">>
    BY <1>1 DEF Method, Path
  <2> QED BY <1>1, <2>1, Routes DEF Handled
<1>2. CASE r.op = "query"
  <2>1. Method(r) = "POST" /\ Path(r) = <<"v1", "scene", "query">>
    BY <1>2 DEF Method, Path
  <2> QED BY <1>2, <2>1, Routes DEF Handled
<1>k. r.op \notin {"post", "query"} => r.key # "query"
  BY KeysAreNames DEF IsRequest
<1>3. CASE r.op = "update"
  <2>1. Method(r) = "POST" /\ Path(r) = <<"v1", "scene", r.key>>
    BY <1>3 DEF Method, Path
  <2> QED BY <1>3, <1>k, <2>1, Routes DEF Handled
<1>4. CASE r.op = "put"
  <2>1. Method(r) = "PUT" /\ Path(r) = <<"v1", "scene", r.key>>
    BY <1>4 DEF Method, Path
  <2> QED BY <1>4, <1>k, <2>1, Routes DEF Handled
<1>5. CASE r.op = "get"
  <2>1. Method(r) = "GET" /\ Path(r) = <<"v1", "scene", r.key>>
    BY <1>5 DEF Method, Path
  <2> QED BY <1>5, <1>k, <2>1, Routes DEF Handled
<1>6. CASE r.op = "delete"
  <2>1. Method(r) = "DELETE" /\ Path(r) = <<"v1", "scene", r.key>>
    BY <1>6 DEF Method, Path
  <2> QED BY <1>6, <1>k, <2>1, Routes DEF Handled
<1>7. CASE r.op = "asset_add"
  <2>1. Method(r) = "PUT" /\ Path(r) = <<"v1", "scene", r.key, "asset", "a">>
    BY <1>7 DEF Method, Path
  <2> QED BY <1>7, <1>k, <2>1, Routes DEF Handled
<1>8. CASE r.op = "asset_del"
  <2>1. Method(r) = "DELETE" /\ Path(r) = <<"v1", "scene", r.key, "asset", "a">>
    BY <1>8 DEF Method, Path
  <2> QED BY <1>8, <1>k, <2>1, Routes DEF Handled
<1> QED
  BY <1>1, <1>2, <1>3, <1>4, <1>5, <1>6, <1>7, <1>8 DEF IsRequest, Ops

LEMMA NoRequestIsRequest == IsRequest(NoRequest)
<1>1. DOMAIN NoMembers = {}
  BY DEF NoMembers
<1>2. IsDocument(NoMembers, ListReads)
  BY <1>1 DEF IsDocument, WellTyped
<1> QED
  BY <1>2 DEF IsRequest, NoRequest, Ops, WithBody

LEMMA SceneOf ==
  ASSUME NEW r, IsRequest(r)
  PROVE  /\ r.op \in {"post", "put", "query"} => Scene(r) = SentScene(r)
         /\ r.op = "update" => Scene(r) = UpdateScene(r)
         /\ r.op \in {"asset_add", "asset_del"} => Scene(r) = AssetScene
         /\ r.op \in {"get", "delete"} => Scene(r) = NewScene
<1>1. CASE r.op \in {"post", "put", "query"}
  <2>1. Handled(r).handler = "base"
    BY <1>1, HandledBy DEF Handler
  <2> QED BY <1>1, <2>1 DEF Scene
<1>2. CASE r.op = "update"
  <2>1. Handled(r).handler = "update"
    BY <1>2, HandledBy DEF Handler
  <2> QED BY <1>2, <2>1 DEF Scene
<1>3. CASE r.op \in {"asset_add", "asset_del"}
  <2>1. Handled(r).handler = "asset"
    BY <1>3, HandledBy DEF Handler
  <2> QED BY <1>3, <2>1 DEF Scene
<1>4. CASE r.op \in {"get", "delete"}
  <2>1. Handled(r).handler = "key"
    BY <1>4, HandledBy DEF Handler
  <2> QED BY <1>4, <2>1 DEF Scene
<1> QED
  BY <1>1, <1>2, <1>3, <1>4 DEF IsRequest, Ops

LEMMA ListOf ==
  ASSUME NEW r, IsRequest(r)
  PROVE  /\ r.op \in WithBody => List(r) = SentList(r)
         /\ r.op = "asset_add" => List(r) = AssetList("ASSET_ADD")
         /\ r.op = "asset_del" => List(r) = AssetList("ASSET_DEL")
         /\ r.op \in {"get", "delete"} => List(r) = NewList
<1>1. CASE r.op \in WithBody
  <2>1. Handled(r).handler \in {"base", "update"}
    BY <1>1, HandledBy DEF Handler, WithBody
  <2> QED BY <1>1, <2>1 DEF List, WithBody
<1>2. CASE r.op = "asset_add"
  <2>1. Handled(r).handler = "asset" /\ Handled(r).kind = "ASSET_ADD"
    BY <1>2, HandledBy DEF Handler
  <2> QED BY <1>2, <2>1 DEF List, WithBody
<1>3. CASE r.op = "asset_del"
  <2>1. Handled(r).handler = "asset" /\ Handled(r).kind = "ASSET_DEL"
    BY <1>3, HandledBy DEF Handler
  <2> QED BY <1>3, <2>1 DEF List, WithBody
<1>4. CASE r.op \in {"get", "delete"}
  <2>1. Handled(r).handler = "key"
    BY <1>4, HandledBy DEF Handler
  <2> QED BY <1>4, <2>1 DEF List, WithBody
<1> QED
  BY <1>1, <1>2, <1>3, <1>4 DEF IsRequest, Ops, WithBody

LEMMA TypeOf ==
  ASSUME NEW r, IsRequest(r)
  PROVE  /\ r.op \in {"post", "put"} => QueryType(r) = "CREATE"
         /\ r.op \in {"get", "query"} => QueryType(r) = "GET"
         /\ r.op \in {"update", "asset_add", "asset_del"} => QueryType(r) = "UPDATE"
         /\ r.op = "delete" => QueryType(r) = "DELETE"
<1>1. CASE r.op \in {"post", "put"}
  <2>1. Handled(r).kind = "SCENE_CRT"
    BY <1>1, HandledBy DEF Handler
  <2> QED BY <1>1, <2>1 DEF QueryType
<1>2. CASE r.op \in {"get", "query"}
  <2>1. Handled(r).kind = "SCENE_GET"
    BY <1>2, HandledBy DEF Handler
  <2> QED BY <1>2, <2>1 DEF QueryType
<1>3. CASE r.op \in {"update", "asset_add", "asset_del"}
  <2>1. Handled(r).kind \in {"SCENE_UPD", "ASSET_ADD", "ASSET_DEL"}
    BY <1>3, HandledBy DEF Handler
  <2> QED BY <1>3, <2>1 DEF QueryType
<1>4. CASE r.op = "delete"
  <2>1. Handled(r).kind = "SCENE_DEL"
    BY <1>4, HandledBy DEF Handler
  <2> QED BY <1>4, <2>1 DEF QueryType
<1> QED
  BY <1>1, <1>2, <1>3, <1>4 DEF IsRequest, Ops

\* A scene that comes from a document, or from none, has no user.
IsScene(doc) ==
  /\ doc.user = NoText
  /\ doc.public \in {"true", "false"}
  /\ doc.name \in Words
  /\ doc.assets \in Arrays /\ doc.tags \in Arrays

LEMMA NewSceneIsScene == IsScene(NewScene) /\ IsScene(AssetScene)
<1>1. NoText \in Words /\ "a" \in Words
  BY WordsGiven
<1>2. NoArray \in Arrays /\ [NoArray EXCEPT !["a"] = 1] \in Arrays
  BY DEF NoArray, Arrays
<1> QED
  BY <1>1, <1>2 DEF IsScene, NewScene, AssetScene

LEMMA SentIsScene ==
  ASSUME NEW r, IsRequest(r), r.body # NoDoc
  PROVE  IsScene(SentScene(r))
<1> DEFINE m == r.body
           x == Filled(NewScene, SceneReads, m)
<1>1. IsDocument(m, SceneReads)
  BY DEF IsRequest
<1>2. SentScene(r) = x
  BY DEF SentScene
<1>3. /\ x.user = NoText
      /\ x.name = Said(m, "name", NoText)
      /\ x.assets = Said(m, "assets", NoArray)
      /\ x.tags = Said(m, "tags", NoArray)
      /\ x.public = IF "private" \in DOMAIN m THEN Negated[m["private"].value]
                    ELSE Said(m, "public", "true")
  BY <1>1, SceneRead
<1>4. NoText \in Words /\ NoArray \in Arrays
  BY WordsGiven DEF NoArray, Arrays
<1>5. x.name \in Words /\ x.assets \in Arrays /\ x.tags \in Arrays
  BY <1>1, <1>3, <1>4 DEF IsDocument, Said
<1>6. /\ "private" \in DOMAIN m => m["private"].type \in Flags
      /\ "public" \in DOMAIN m => m["public"].type \in Flags
  BY <1>1, SceneTable DEF IsDocument, WellTyped
<1>7. x.public \in {"true", "false"}
  BY <1>1, <1>3, <1>6 DEF IsDocument, Said, Negated
<1> QED
  BY <1>2, <1>3, <1>5, <1>7 DEF IsScene

LEMMA MessageScene ==
  ASSUME NEW r, IsRequest(r), Scene(r) # NoDoc
  PROVE  IsScene(Scene(r))
<1>1. CASE r.body = NoDoc
  BY <1>1, SceneOf, NewSceneIsScene DEF SentScene, UpdateScene, IsRequest, Ops
<1>2. CASE r.body # NoDoc
  BY <1>2, SceneOf, NewSceneIsScene, SentIsScene DEF UpdateScene, IsRequest, Ops
<1> QED
  BY <1>1, <1>2

LEMMA NotEmpty ==
  /\ "a" # NoText /\ "true" # NoText /\ "false" # NoText
  /\ \A k \in Keys \cup Fresh : k # NoText /\ k # NoKey
<1>1. "a" # NoText
  BY Zenon DEF NoText
<1>2. "true" # NoText
  BY Zenon DEF NoText
<1>3. "false" # NoText
  BY Zenon DEF NoText
<1> QED
  BY <1>1, <1>2, <1>3, KeysAreNames

\* The key that a request is about: the one in the path or, when it has none
\* there, the one in the body.
BodyKey(r) ==
  IF r.body # NoDoc /\ "key" \in DOMAIN r.body THEN r.body["key"].value ELSE NoKey

LEMMA KeyOfMessage ==
  ASSUME NEW r \in Asked \cup {NoRequest}
  PROVE  /\ r.op \notin {"post", "query"} => MessageKey(r) = r.key /\ r.key \in Keys \cup Fresh
         /\ r.op \in {"post", "query"} => /\ r.key = NoKey /\ MessageKey(r) = BodyKey(r)
                                          /\ BodyKey(r) \in Keys \cup {NoKey}
<1>0. IsRequest(r)
  BY AskedAreRequests, NoRequestIsRequest
<1>1. CASE r.op \notin {"post", "query"}
  <2>1. r.key \in Keys \cup Fresh
    BY <1>0, <1>1 DEF IsRequest
  <2>2. Handled(r).key = r.key
    BY <1>0, <1>1, HandledBy DEF Handler, IsRequest, Ops
  <2>3. Handled(r).key # NoKey
    BY <2>1, <2>2, NotEmpty
  <2>4. MessageKey(r) = Handled(r).key
    BY <2>3 DEF MessageKey
  <2> QED
    BY <1>1, <2>1, <2>2, <2>4
<1>2. CASE r.op \in {"post", "query"}
  <2>1. Handled(r).key = NoKey
    BY <1>0, <1>2, HandledBy DEF Handler
  <2>2. Scene(r) = SentScene(r)
    BY <1>0, <1>2, SceneOf
  <2>3. r.key = NoKey
    BY <1>0, <1>2 DEF IsRequest
  <2>4. CASE r.body = NoDoc
    <3>1. Scene(r) = NoDoc
      BY <2>2, <2>4 DEF SentScene
    <3>2. MessageKey(r) = NoKey
      BY <2>1, <3>1 DEF MessageKey
    <3> QED
      BY <1>2, <2>3, <2>4, <3>2 DEF BodyKey
  <2>5. CASE r.body # NoDoc
    <3>1. IsDocument(r.body, SceneReads)
      BY <1>0, <2>5 DEF IsRequest
    <3>2. Scene(r) = Filled(NewScene, SceneReads, r.body)
      BY <2>2, <2>5 DEF SentScene
    <3>3. Scene(r).key = Said(r.body, "key", NoText)
      BY <3>1, <3>2, SceneRead
    <3>4. Scene(r) # NoDoc
      BY <2>2, <2>5, NoDocIsNone DEF NoRequest
    <3>5. "key" \in DOMAIN r.body => r.body["key"].value \in Keys
      BY <3>1 DEF IsDocument
    <3> QED
      BY <1>2, <2>1, <2>3, <2>5, <3>3, <3>4, <3>5, NotEmpty DEF BodyKey, MessageKey, Said
  <2> QED
    BY <2>4, <2>5
<1> QED
  BY <1>1, <1>2

LEMMA MessageOf ==
  ASSUME NEW r \in Asked \cup {NoRequest}
  PROVE  /\ IsRequest(r)
         /\ Message(r).type = QueryType(r)
         /\ Message(r).type \in {"CREATE", "GET", "UPDATE", "DELETE"}
         /\ Message(r).scene = Scene(r)
         /\ Message(r).scene # NoDoc => IsScene(Message(r).scene)
         /\ Message(r).operation = List(r).operation
         /\ Message(r).start \in Int /\ Message(r).records \in Int
<1>0. IsRequest(r)
  BY AskedAreRequests, NoRequestIsRequest
<1>1. Message(r).type = QueryType(r)
  BY DEF Message
<1>2. QueryType(r) \in {"CREATE", "GET", "UPDATE", "DELETE"}
  BY <1>0, TypeOf DEF IsRequest, Ops
<1>3. /\ Message(r).scene = Scene(r)
      /\ Message(r).operation = List(r).operation
      /\ Message(r).start = List(r).start_record
      /\ Message(r).records = List(r).num_records
  BY DEF Message
<1>4. Message(r).scene # NoDoc => IsScene(Message(r).scene)
  BY <1>0, <1>3, MessageScene
<1>5. List(r).start_record \in Int /\ List(r).num_records \in Int
  <2>1. DefaultRecords \in Int
    BY BoundsAreNumbers
  <2>n. NewList["start_record"] = 0 /\ NewList["num_records"] = DefaultRecords
    BY DEF NewList
  <2>2. CASE r.op \in WithBody
    <3>1. IsDocument(r.list, ListReads)
      BY <1>0 DEF IsRequest
    <3>2. List(r) = Filled(NewList, ListReads, r.list)
      BY <1>0, <2>2, ListOf DEF SentList
    <3>3. /\ List(r).num_records = Said(r.list, "num_records", DefaultRecords)
          /\ List(r).start_record = Said(r.list, "start_record", 0)
      BY <3>1, <3>2, ListRead
    <3>4. /\ "num_records" \in DOMAIN r.list => r.list["num_records"].value \in Int
          /\ "start_record" \in DOMAIN r.list => r.list["start_record"].value \in Int
      BY <3>1 DEF IsDocument
    <3> QED
      BY <2>1, <3>3, <3>4 DEF Said
  <2>3. CASE r.op \in {"asset_add", "asset_del"}
    <3>1. PICK kind : List(r) = AssetList(kind)
      BY <1>0, <2>3, ListOf
    <3>2. AssetList(kind)["start_record"] = 0 /\ AssetList(kind)["num_records"] = DefaultRecords
      BY DEF AssetList, NewList
    <3> QED
      BY <2>1, <3>1, <3>2
  <2>4. CASE r.op \in {"get", "delete"}
    BY <1>0, <2>1, <2>n, <2>4, ListOf
  <2> QED
    BY <1>0, <2>2, <2>3, <2>4 DEF IsRequest, Ops, WithBody
<1> QED
  BY <1>0, <1>1, <1>2, <1>3, <1>4, <1>5

-----------------------------------------------------------------------------
(* What a query does to the nodes. *)

\* An array after an update: what APPEND adds is there, what REMOVE names is
\* not, and but for that nothing is gone.
LEMMA CombinedArray ==
  ASSUME NEW old \in Arrays, NEW given \in Arrays, NEW op
  PROVE  LET new == Combined(old, given, op) IN
         /\ new \in Arrays
         /\ op = "APPEND" => \A t \in Words : given[t] <= new[t]
         /\ op = "REMOVE" => Elements(given) \cap Elements(new) = {}
         /\ \A t \in Words : old[t] <= new[t] \/ (op = "REMOVE" /\ t \in Elements(given))
<1> DEFINE new == Combined(old, given, op)
<1>0. \A t \in Words : old[t] \in Nat /\ given[t] \in Nat
  BY DEF Arrays
<1>1. CASE op = "APPEND"
  <2>1. new = [t \in Words |-> old[t] + given[t]]
    BY <1>1 DEF Combined
  <2>2. new \in Arrays
    BY <1>0, <2>1 DEF Arrays
  <2>3. \A t \in Words : given[t] <= new[t] /\ old[t] <= new[t]
    BY <1>0, <2>1
  <2> QED
    BY <1>1, <2>2, <2>3
<1>2. CASE op = "REMOVE"
  <2>1. new = [t \in Words |-> IF given[t] = 0 THEN old[t] ELSE 0]
    BY <1>2 DEF Combined
  <2>2. new \in Arrays
    BY <1>0, <2>1 DEF Arrays
  <2>3. Elements(given) \cap Elements(new) = {}
    BY <2>1 DEF Elements
  <2>4. \A t \in Words : old[t] <= new[t] \/ t \in Elements(given)
    BY <1>0, <2>1 DEF Elements
  <2> QED
    BY <1>2, <2>2, <2>3, <2>4
<1>3. CASE op \notin {"APPEND", "REMOVE"}
  <2>1. new = old
    BY <1>3 DEF Combined
  <2> QED
    BY <1>0, <1>3, <2>1
<1> QED
  BY <1>1, <1>2, <1>3

LEMMA UpdatedNode ==
  ASSUME NEW node \in Node, NEW doc, IsScene(doc), NEW op
  PROVE  LET new == Updated(node, doc, op) IN
         /\ new \in Node
         /\ new.key = node.key
         /\ new.public = doc.public
         /\ new.user = node.user
         /\ new.name = IF doc.name # NoText THEN doc.name ELSE node.name
         /\ new.assets = Combined(node.assets, doc.assets, op)
         /\ new.tags = Combined(node.tags, doc.tags, op)
<1> DEFINE assets == Combined(node.assets, doc.assets, op)
           tags == Combined(node.tags, doc.tags, op)
<1>1. assets \in Arrays /\ tags \in Arrays
  BY CombinedArray DEF IsScene, Node
<1>2. Updated(node, doc, op) = [node EXCEPT !.public = doc.public,
                                !.name = IF doc.name # NoText THEN doc.name ELSE node.name,
                                !.user = IF doc.user # NoText THEN doc.user ELSE node.user,
                                !.assets = assets, !.tags = tags]
  BY DEF Updated, Node
<1> DEFINE name == IF doc.name # NoText THEN doc.name ELSE node.name
<1>3. name \in Words
  BY DEF IsScene, Node
<1> HIDE DEF assets, tags, name
<1>4. Updated(node, doc, op) =
        [key |-> node.key, public |-> doc.public, user |-> node.user, name |-> name,
         assets |-> assets, tags |-> tags]
  BY <1>2 DEF IsScene, Node, name
<1>5. Updated(node, doc, op) \in Node
  BY <1>1, <1>3, <1>4 DEF IsScene, Node
<1> QED
  BY <1>4, <1>5 DEF assets, tags, name

\* What the query of a message m, about the key k, can make of the node i: new.
Leaves(i, new, k, m) ==
  \/ new = store[i]
  \/ /\ m.type = "CREATE" /\ i \notin Stored
     /\ new = NewNode(k, m.scene)
  \/ /\ m.type = "UPDATE" /\ i \in Holding(k)
     /\ new = Updated(store[i], m.scene, m.operation)
  \/ /\ m.type = "DELETE" /\ i \in Holding(k)
     /\ new = NoNode

LEMMA AppliedLeaves ==
  ASSUME store \in [Ids -> Node \cup {NoNode}],
         NEW w \in Workers, NEW after \in Applied(w),
         msg[w].type \in {"CREATE", "GET", "UPDATE", "DELETE"}
  PROVE  /\ DOMAIN after = Ids
         /\ after = [i \in Ids |-> after[i]]
         /\ \A i \in Ids : Leaves(i, after[i], key[w], msg[w])
<1>1. CASE msg[w].type = "CREATE"
  <2>1. Applied(w) = Creations(key[w], msg[w].scene)
    BY <1>1 DEF Applied
  <2>2. PICK n \in Ids \ Stored : after = [store EXCEPT ![n] = NewNode(key[w], msg[w].scene)]
    BY <2>1 DEF Creations
  <2> QED
    BY <1>1, <2>2 DEF Leaves
<1>2. CASE msg[w].type = "UPDATE"
  <2>1. Applied(w) = {UpdateAll(key[w], msg[w].scene, msg[w].operation)}
    BY <1>2 DEF Applied
  <2>2. /\ DOMAIN after = Ids
        /\ after = [i \in Ids |-> after[i]]
        /\ \A i \in Ids : after[i] = IF i \in Holding(key[w])
                                    THEN Updated(store[i], msg[w].scene, msg[w].operation)
                                    ELSE store[i]
    BY <2>1 DEF UpdateAll
  <2> QED
    BY <1>2, <2>2 DEF Leaves
<1>3. CASE msg[w].type = "DELETE"
  <2>1. Applied(w) = {Delete(key[w])}
    BY <1>3 DEF Applied
  <2>2. /\ DOMAIN after = Ids
        /\ after = [i \in Ids |-> after[i]]
        /\ \A i \in Ids : after[i] = IF i \in Holding(key[w]) THEN NoNode ELSE store[i]
    BY <2>1 DEF Delete
  <2> QED
    BY <1>3, <2>2 DEF Leaves
<1>4. CASE msg[w].type = "GET"
  <2>1. Applied(w) = {store}
    BY <1>4 DEF Applied
  <2> QED
    BY <2>1 DEF Leaves
<1> QED
  BY <1>1, <1>2, <1>3, <1>4

LEMMA NewNodeTyped ==
  ASSUME NEW k \in Keys \cup Fresh, NEW doc, IsScene(doc)
  PROVE  NewNode(k, doc) \in Node
<1>1. NoText \in Words
  BY WordsGiven
<1> QED
  BY <1>1 DEF NewNode, Node, IsScene

-----------------------------------------------------------------------------
(* The inductive invariant: what a worker holds at each place follows from *)
(* the request that it handles.                                            *)

Handling(w) ==
  LET k == MessageKey(req[w]) IN
  /\ req[w] \in Asked \cup {NoRequest}
  /\ pc[w] = "idle" => key[w] = NoKey /\ err[w] = "NO_ERROR"
  /\ pc[w] = "query" => ~Refused(msg[w])
  /\ pc[w] # "respond" => rows[w] = <<>> /\ err[w] = "NO_ERROR"
  /\ pc[w] # "idle" =>
       IF msg[w].type = "CREATE" /\ k = NoKey /\ ~Refused(msg[w])
       THEN key[w] \in Fresh ELSE key[w] = k

HandlingInv ==
  /\ TypeOK
  /\ msg = [w \in Workers |-> Message(req[w])]
  /\ \A w \in Workers : Handling(w)

\* What the invariant says of the query that a worker makes.
LEMMA QueryOf ==
  ASSUME HandlingInv, NEW w \in Workers
  PROVE  /\ msg[w] = Message(req[w])
         /\ IsRequest(req[w])
         /\ msg[w].type \in {"CREATE", "GET", "UPDATE", "DELETE"}
         /\ msg[w].scene # NoDoc => IsScene(msg[w].scene)
         /\ msg[w].start \in Int /\ msg[w].records \in Int
         /\ pc[w] = "query" => msg[w].scene # NoDoc
         /\ pc[w] = "query" /\ msg[w].type # "GET" => key[w] \in Keys \cup Fresh
<1>1. req[w] \in Asked \cup {NoRequest} /\ msg[w] = Message(req[w])
  BY DEF HandlingInv, Handling
<1>2. pc[w] = "query" => msg[w].scene # NoDoc
  BY DEF HandlingInv, Handling, Refused
<1>3. ASSUME pc[w] = "query", msg[w].type # "GET"
      PROVE  key[w] \in Keys \cup Fresh
  <2>1. ~Refused(msg[w])
    BY <1>3 DEF HandlingInv, Handling
  <2>2. CASE MessageKey(req[w]) = NoKey
    <3>1. req[w].op \in {"post", "query"}
      BY <1>1, <2>2, KeyOfMessage, NotEmpty
    <3>2. req[w].op = "post"
      BY <1>1, <1>3, <3>1, MessageOf, TypeOf
    <3>3. msg[w].type = "CREATE"
      BY <1>1, <3>2, MessageOf, TypeOf
    <3> QED
      BY <1>3, <2>1, <2>2, <3>3 DEF HandlingInv, Handling
  <2>3. CASE MessageKey(req[w]) # NoKey
    <3>1. key[w] = MessageKey(req[w])
      BY <1>3, <2>3 DEF HandlingInv, Handling
    <3> QED
      BY <1>1, <2>3, <3>1, KeyOfMessage
  <2> QED
    BY <2>2, <2>3
<1> QED
  BY <1>1, <1>2, <1>3, MessageOf

\* The store has nodes only after the query of a worker, too.
LEMMA AppliedTyped ==
  ASSUME HandlingInv, NEW w \in Workers, pc[w] = "query", NEW after \in Applied(w)
  PROVE  after \in [Ids -> Node \cup {NoNode}]
<1>1. store \in [Ids -> Node \cup {NoNode}]
  BY DEF HandlingInv, TypeOK
<1>2. /\ msg[w].type \in {"CREATE", "GET", "UPDATE", "DELETE"}
      /\ IsScene(msg[w].scene)
      /\ msg[w].type # "GET" => key[w] \in Keys \cup Fresh
  BY QueryOf
<1>3. /\ after = [i \in Ids |-> after[i]]
      /\ \A i \in Ids : Leaves(i, after[i], key[w], msg[w])
  BY <1>1, <1>2, AppliedLeaves
<1>4. ASSUME NEW i \in Ids
      PROVE  after[i] \in Node \cup {NoNode}
  <2>1. CASE msg[w].type = "CREATE" /\ after[i] = NewNode(key[w], msg[w].scene)
    BY <1>2, <2>1, NewNodeTyped
  <2>2. CASE i \in Holding(key[w]) /\ \E op : after[i] = Updated(store[i], msg[w].scene, op)
    <3>1. store[i] \in Node
      BY <1>1, <2>2 DEF Holding, Stored
    <3> QED
      BY <1>2, <2>2, <3>1, UpdatedNode
  <2> QED
    BY <1>1, <1>3, <2>1, <2>2 DEF Leaves
<1> QED
  BY <1>3, <1>4

-----------------------------------------------------------------------------
(* What a retrieval shows. *)

LEMMA OrderOf ==
  ASSUME NEW I, IsFiniteSet(I), NEW s \in Orders(I)
  PROVE  /\ Cardinality(I) \in Nat
         /\ s \in [1..Cardinality(I) -> I]
         /\ s \in Seq(I) /\ Len(s) = Cardinality(I)
         /\ \A i, j \in 1..Cardinality(I) : s[i] = s[j] => i = j
         /\ \A x \in I : \E i \in 1..Cardinality(I) : s[i] = x
<1> DEFINE n == Cardinality(I)
<1>1. n \in Nat
  BY FS_CardinalityType
<1>2. /\ s \in [1..n -> I]
      /\ \A i, j \in 1..n : i # j => s[i] # s[j]
  BY DEF Orders, SetToSeqs
<1>3. s \in Injection(1..n, I)
  BY <1>2 DEF Injection, IsInjective
<1>4. IsFiniteSet(1..n) /\ Cardinality(1..n) = n
  BY <1>1, FS_Interval
<1>5. s \in Surjection(1..n, I)
  BY <1>1, <1>3, <1>4, FS_Injection
<1>6. \A x \in I : \E i \in 1..n : s[i] = x
  BY <1>5 DEF Surjection
<1> QED
  BY <1>1, <1>2, <1>6

\* The rows of a response are consecutive in one of the orders in which they
\* may come, from the start that was asked for on, if no key was.
RowsFrom(w, after, code, I, s, first, size) ==
  LET n == Cardinality(I) IN
  /\ IsFiniteSet(I) /\ n \in Nat
  /\ ~ByDistance(w) => I = Selection(w)
  /\ s \in Orders(I)
  /\ key[w] = NoKey => /\ s \in KeyOrders(I)
                       /\ first = msg[w].start /\ msg[w].records \in Nat
                       /\ size = IF n < first THEN 0
                                 ELSE IF n < first + msg[w].records THEN n - first
                                 ELSE msg[w].records
  /\ key[w] # NoKey => first = 0 /\ size = n
  /\ Len(after) = IF DefaultRecords < size THEN DefaultRecords ELSE size
  /\ DOMAIN after = 1..Len(after)
  /\ \A i \in DOMAIN after : first + i \in 1..n /\ after[i] = store[s[first + i]]
  /\ code = IF size = 0 THEN "NOT_FOUND" ELSE "NO_ERROR"
RowsAre(w, after, code) ==
  \E I \in SUBSET Selection(w), s \in Seq(Ids), first \in Nat, size \in Nat :
    RowsFrom(w, after, code, I, s, first, size)

LEMMA Retrieved ==
  ASSUME HandlingInv, NEW w \in Workers, Retrieve(w)
  PROVE  \E after \in Seq(Node), code \in Errors :
           /\ rows' = [rows EXCEPT ![w] = after]
           /\ Answer(w, code)
           /\ RowsAre(w, after, code)
<1>0. /\ msg[w].type = "GET" /\ WellFormed(w)
      /\ msg[w].start \in Int /\ msg[w].records \in Int
  BY QueryOf DEF Retrieve, AtQuery
<1>i. PICK I \in IF ByDistance(w) THEN SUBSET Selection(w) ELSE {Selection(w)} :
        \E page \in Pages(w, I) :
          /\ rows' = [rows EXCEPT ![w] = Printed([i \in DOMAIN page |-> store[page[i]]])]
          /\ Answer(w, IF page = <<>> THEN "NOT_FOUND" ELSE "NO_ERROR")
  BY DEF Retrieve
<1>1. PICK page \in Pages(w, I) :
        /\ rows' = [rows EXCEPT ![w] = Printed([i \in DOMAIN page |-> store[page[i]]])]
        /\ Answer(w, IF page = <<>> THEN "NOT_FOUND" ELSE "NO_ERROR")
  BY <1>i
<1> DEFINE n == Cardinality(I)
<1>2. I \in SUBSET Selection(w) /\ (~ByDistance(w) => I = Selection(w))
  BY <1>i
<1>3. IsFiniteSet(I) /\ \A i \in I : i \in Ids /\ store[i] \in Node
  <2>1. \A i \in Selection(w) : i \in Ids /\ store[i] \in Node
    BY DEF HandlingInv, TypeOK, Selection, Stored
  <2>2. I \in SUBSET Ids
    BY <1>2, <2>1
  <2> QED
    BY <1>2, <2>1, <2>2, IdsFinite, FS_Subset
<1>4. PICK s \in Seq(I), first \in Nat, size \in Nat :
        /\ s \in Orders(I)
        /\ key[w] = NoKey => /\ s \in KeyOrders(I)
                             /\ first = msg[w].start /\ msg[w].records \in Nat
                             /\ size = IF n < first THEN 0
                                       ELSE IF n < first + msg[w].records THEN n - first
                                       ELSE msg[w].records
        /\ key[w] # NoKey => first = 0 /\ size = n
        /\ page \in Seq(I) /\ Len(page) = size
        /\ \A i \in 1..size : first + i \in 1..n /\ page[i] = s[first + i]
  <2>1. CASE key[w] # NoKey
    <3>1. page \in Orders(I)
      BY <1>1, <2>1 DEF Pages
    <3>2. n \in Nat /\ page \in Seq(I) /\ Len(page) = n
      BY <1>3, <3>1, OrderOf
    <3> USE <3>2
    <3> WITNESS page \in Seq(I), 0 \in Nat, n \in Nat
    <3> QED
      BY <2>1, <3>1, <3>2
  <2>2. CASE key[w] = NoKey
    <3> DEFINE a == msg[w].start
               r == msg[w].records
               size == IF n < a THEN 0 ELSE IF n < a + r THEN n - a ELSE r
               last == IF n < a + r THEN n ELSE a + r
    <3>1. PICK s \in KeyOrders(I) : page = Page(msg[w], s)
      BY <1>1, <2>2 DEF Pages
    <3>2. s \in Orders(I)
      BY <3>1 DEF KeyOrders
    <3>3. n \in Nat /\ s \in Seq(I) /\ Len(s) = n /\ s \in [1..n -> I]
      BY <1>3, <3>2, OrderOf
    <3>4. a \in Nat /\ r \in Nat
      <4>1. "inp_skip" \in Uses("GET", msg[w].operation, NoKey, msg[w].scene)
        BY DEF Uses
      <4> QED
        BY <1>0, <2>2, <4>1 DEF WellFormed
    <3>5. Min({a + r, n}) = last
      <4>1. last \in {a + r, n} /\ \A y \in {a + r, n} : last <= y
        BY <3>3, <3>4
      <4> QED
        BY <3>3, <3>4, <4>1 DEF Min
    <3>6. page = SubSeq(s, a + 1, last)
      BY <3>1, <3>3, <3>5 DEF Page
    <3>7. last \in Int /\ a + 1 \in Int /\ \A i \in (a + 1)..last : s[i] \in I
      BY <3>3, <3>4
    <3>8. /\ page \in Seq(I)
          /\ Len(page) = IF a + 1 <= last THEN last - (a + 1) + 1 ELSE 0
          /\ \A i \in 1..(last - (a + 1) + 1) : page[i] = s[a + 1 + i - 1]
      <4> HIDE DEF last, a
      <4> QED BY <3>6, <3>7, SubSeqProperties
    <3>9. size \in Nat /\ Len(page) = size
      BY SMTT(30), <3>3, <3>4, <3>8
    <3>10. ASSUME NEW i \in 1..size
           PROVE  a + i \in 1..n /\ page[i] = s[a + i]
      <4>1. a + i \in 1..n /\ i \in 1..(last - (a + 1) + 1) /\ a + 1 + i - 1 = a + i
        <5>1. a \in Int /\ r \in Int /\ n \in Int /\ i \in Int /\ 1 <= i /\ i <= size
          BY <3>3, <3>4, <3>9
        <5>2. a + i <= n
          BY <3>4, <5>1
        <5>3. i <= last - a
          BY <3>4, <5>1
        <5>4. last \in Int
          BY <5>1
        <5> HIDE DEF a, last
        <5> QED BY <3>4, <5>1, <5>2, <5>3, <5>4
      <4>2. page[i] = s[a + 1 + i - 1]
        <5> HIDE DEF a, last, size
        <5> QED BY <3>8, <4>1
      <4> QED
        <5> HIDE DEF a, last, size
        <5> QED BY <4>1, <4>2
    <3> USE <3>3, <3>4, <3>9
    <3> WITNESS s \in Seq(I), a \in Nat, size \in Nat
    <3> QED
      BY <2>2, <3>1, <3>2, <3>4, <3>8, <3>9, <3>10
  <2> QED
    BY <2>1, <2>2
<1> DEFINE all == [i \in DOMAIN page |-> store[page[i]]]
           after == Printed(all)
           length == IF DefaultRecords < size THEN DefaultRecords ELSE size
           code == IF page = <<>> THEN "NOT_FOUND" ELSE "NO_ERROR"
<1>5. /\ DOMAIN page = 1..size
      /\ page = <<>> <=> size = 0
      /\ \A i \in 1..size : page[i] \in I
  BY <1>4
<1>6. all \in Seq(Node) /\ Len(all) = size /\ \A i \in 1..size : all[i] = store[s[first + i]]
  BY <1>3, <1>4, <1>5
<1>7. after = SubSeq(all, 1, length)
  <2>1. NewList.num_records = DefaultRecords
    BY DEF NewList
  <2>2. DefaultRecords # -1
    BY BoundsAreNumbers
  <2> QED
    BY <1>6, <2>1, <2>2 DEF Printed, Returned
<1>8. length \in Nat /\ length <= size
  BY BoundsAreNumbers
<1>9. \A i \in 1..length : all[i] \in Node
  BY <1>6, <1>8
<1>10. after \in Seq(Node) /\ Len(after) = length /\ \A i \in 1..length : after[i] = all[i]
  <2> HIDE DEF all, length
  <2>1. /\ SubSeq(all, 1, length) \in Seq(Node)
        /\ Len(SubSeq(all, 1, length)) = IF 1 <= length THEN length - 1 + 1 ELSE 0
        /\ \A i \in 1..(length - 1 + 1) : SubSeq(all, 1, length)[i] = all[1 + i - 1]
    BY <1>8, <1>9, SubSeqProperties
  <2> QED
    BY <1>7, <1>8, <2>1
<1>11. RowsAre(w, after, code)
  <2>1. s \in Seq(Ids)
    BY <1>3, <1>4
  <2>2. n \in Nat
    BY <1>3, FS_CardinalityType
  <2> HIDE DEF after, n
  <2>3. DOMAIN after = 1..length
    BY <1>8, <1>10
  <2>4. ASSUME NEW i \in 1..length
        PROVE  first + i \in 1..n /\ after[i] = store[s[first + i]]
    <3>1. i \in 1..size
      BY <1>8
    <3> HIDE DEF length, all
    <3> QED
      BY <1>4, <1>6, <1>10, <3>1
  <2>5. code = IF size = 0 THEN "NOT_FOUND" ELSE "NO_ERROR"
    BY <1>5
  <2>6. RowsFrom(w, after, code, I, s, first, size)
    BY <1>2, <1>3, <1>4, <1>10, <2>2, <2>3, <2>4, <2>5 DEF n, RowsFrom
  <2> QED
    <3> HIDE DEF code
    <3> QED
      BY <1>2, <2>1, <2>6 DEF RowsAre
<1> HIDE DEF after
<1> QED
  BY <1>1, <1>10, <1>11 DEF Errors, after

LEMMA RetrievedRows ==
  ASSUME HandlingInv, NEW w \in Workers, Retrieve(w)
  PROVE  \E after \in Seq(Node), code \in Errors :
           rows' = [rows EXCEPT ![w] = after] /\ Answer(w, code)
BY Retrieved

-----------------------------------------------------------------------------
(* The invariant is inductive. *)

LEMMA HandlingInit == Init => HandlingInv
<1> SUFFICES ASSUME Init PROVE HandlingInv
  OBVIOUS
<1>1. NoRequest \in Asked \cup {NoRequest}
  OBVIOUS
<1>2. \A w \in Workers : msg[w] = Message(NoRequest) /\ req[w] = NoRequest
  BY DEF Init, NoMessage
<1>3. Message(NoRequest).type \in {"CREATE", "GET", "UPDATE", "DELETE"}
  BY MessageOf
<1>4. TypeOK
  BY <1>2, <1>3, BoundsAreNumbers DEF Init, TypeOK, Errors
<1>5. msg = [w \in Workers |-> Message(req[w])]
  BY <1>2 DEF Init, NoMessage
<1>6. \A w \in Workers : Handling(w)
  BY DEF Init, Handling
<1> QED
  BY <1>4, <1>5, <1>6 DEF HandlingInv

\* The variables of the other workers stay as they are.
LEMMA OthersStay ==
  ASSUME HandlingInv, NEW w \in Workers, NEW v \in Workers, v # w,
         req'[v] = req[v], msg'[v] = msg[v], pc'[v] = pc[v], key'[v] = key[v],
         err'[v] = err[v], rows'[v] = rows[v]
  PROVE  Handling(v)'
BY DEF HandlingInv, Handling, Refused, MessageKey

LEMMA HandlingStep == HandlingInv /\ [Next]_vars => HandlingInv'
<1> SUFFICES ASSUME HandlingInv, [Next]_vars PROVE HandlingInv'
  OBVIOUS
<1>0. UNCHANGED vars => HandlingInv'
  BY DEF vars, requestVars, answerVars, HandlingInv, TypeOK, Handling, Refused, MessageKey
<1> SUFFICES ASSUME NEW w \in Workers,
                    \/ \E r \in Asked : Begin(w, r)
                    \/ QueryMalformed(w) \/ Change(w) \/ Retrieve(w)
                    \/ QueryLost(w) \/ QueryFails(w) \/ Respond(w)
             PROVE  HandlingInv'
  BY <1>0 DEF Next
<1> USE DEF HandlingInv
<1>1. ASSUME NEW r \in Asked, Begin(w, r)
      PROVE  HandlingInv'
  <2> DEFINE m == Message(r)
  <2>1. /\ MessageKey(r) \in Keys \cup Fresh \cup {NoKey}
        /\ m.type \in {"CREATE", "GET", "UPDATE", "DELETE"}
    BY MessageOf, KeyOfMessage
  <2>2. PICK k \in IF m.type = "CREATE" /\ MessageKey(r) = NoKey /\ ~Refused(m)
                   THEN Fresh \ issued ELSE {MessageKey(r)} :
          key' = [key EXCEPT ![w] = k] /\ issued' = issued \cup ({k} \cap Fresh)
    BY <1>1 DEF Begin
  <2> HIDE DEF m
  <2>3. /\ req' = [req EXCEPT ![w] = r] /\ msg' = [msg EXCEPT ![w] = m] /\ pc[w] = "idle"
        /\ UNCHANGED <<store, rows, faults, failed, disturbed>>
        /\ IF Refused(m) THEN /\ pc' = [pc EXCEPT ![w] = "respond"]
                              /\ err' = [err EXCEPT ![w] = "PROCESSING_ERROR"]
           ELSE pc' = [pc EXCEPT ![w] = "query"] /\ UNCHANGED err
    BY <1>1 DEF Begin, m
  <2>4. msg' = [v \in Workers |-> Message(req'[v])]
    BY <2>3 DEF TypeOK, m
  <2>5. TypeOK'
    BY <2>1, <2>2, <2>3 DEF TypeOK, Errors
  <2>6. ASSUME NEW v \in Workers, v # w PROVE Handling(v)'
    BY <2>2, <2>3, <2>6, OthersStay DEF TypeOK
  <2>7. Handling(w)'
    <3>1. req'[w] = r /\ msg'[w] = m /\ key'[w] = k /\ rows'[w] = <<>> /\ m = Message(r)
      BY <2>2, <2>3 DEF TypeOK, Handling, m
    <3>2. CASE Refused(m)
      <4>1. pc'[w] = "respond"
        BY <2>3, <3>2 DEF TypeOK
      <4>2. k = MessageKey(r)
        BY <2>2, <3>2 DEF m
      <4> QED
        BY <3>1, <3>2, <4>1, <4>2 DEF Handling
    <3>3. CASE ~Refused(m)
      <4>1. pc'[w] = "query" /\ err'[w] = "NO_ERROR"
        BY <2>3, <3>3 DEF TypeOK, Handling
      <4>2. IF m.type = "CREATE" /\ MessageKey(r) = NoKey /\ ~Refused(m)
            THEN k \in Fresh ELSE k = MessageKey(r)
        BY <2>2 DEF m
      <4> QED
        BY <3>1, <3>3, <4>1, <4>2 DEF Handling
    <3> QED
      BY <3>2, <3>3
  <2> QED
    BY <2>4, <2>5, <2>6, <2>7
<1>2. ASSUME QueryMalformed(w) \/ Change(w) \/ Retrieve(w) \/ QueryLost(w) \/ QueryFails(w)
      PROVE  HandlingInv'
  <2>1. /\ pc[w] = "query"
        /\ UNCHANGED <<issued, req, msg, key>>
        /\ store' = store \/ store' \in Applied(w)
        /\ faults' = faults \/ (faults < MaxFaults /\ faults' = faults + 1)
        /\ failed' = failed \/ failed' = [failed EXCEPT ![w] = TRUE]
    BY <1>2 DEF QueryMalformed, Change, Retrieve, QueryLost, QueryFails, AtQuery, Fault,
                requestVars, answerVars
  <2>2. disturbed' \in [Workers -> BOOLEAN]
    BY <1>2 DEF QueryMalformed, Change, Retrieve, QueryLost, QueryFails, Disturb, TypeOK
  <2>3. \/ UNCHANGED <<pc, err>>
        \/ \E code \in Errors : Answer(w, code)
    BY <1>2 DEF QueryMalformed, Change, Retrieve, QueryLost, QueryFails, answerVars, Errors
  <2>4. store' \in [Ids -> Node \cup {NoNode}]
    BY <2>1, AppliedTyped DEF TypeOK
  <2>5. \/ rows' = rows
        \/ /\ \E s \in Seq(Node) : rows' = [rows EXCEPT ![w] = s]
           /\ \E code \in Errors : Answer(w, code)
    <3>1. CASE Retrieve(w)
      <4>1. PICK s \in Seq(Node), code \in Errors :
              rows' = [rows EXCEPT ![w] = s] /\ Answer(w, code)
        BY <3>1, RetrievedRows
      <4> QED
        BY <4>1
    <3> QED
      BY <1>2, <3>1 DEF QueryMalformed, Change, QueryLost, QueryFails, answerVars
  <2>6. TypeOK'
    <3>1. /\ pc' \in [Workers -> {"idle", "query", "respond"}]
          /\ err' \in [Workers -> Errors]
      <4>1. CASE UNCHANGED <<pc, err>>
        BY <4>1 DEF TypeOK
      <4>2. ASSUME NEW code \in Errors, Answer(w, code)
            PROVE  /\ pc' \in [Workers -> {"idle", "query", "respond"}]
                   /\ err' \in [Workers -> Errors]
        BY <4>2 DEF TypeOK, Answer
      <4> QED
        BY <2>3, <4>1, <4>2
    <3>2. rows' \in [Workers -> Seq(Node)]
      BY <2>5 DEF TypeOK
    <3>3. faults' \in 0..MaxFaults
      BY <2>1, BoundsAreNumbers DEF TypeOK
    <3>4. failed' \in [Workers -> BOOLEAN]
      BY <2>1 DEF TypeOK
    <3> QED
      BY <2>1, <2>2, <2>4, <3>1, <3>2, <3>3, <3>4 DEF TypeOK
  <2>7. ASSUME NEW v \in Workers, v # w PROVE Handling(v)'
    BY <2>1, <2>3, <2>5, <2>7, OthersStay DEF TypeOK, Answer
  <2>8. Handling(w)'
    BY <2>1, <2>3, <2>5 DEF TypeOK, Answer, Handling, Refused, MessageKey
  <2> QED
    BY <2>1, <2>6, <2>7, <2>8
<1>3. ASSUME Respond(w) PROVE HandlingInv'
  <2>1. /\ req' = [req EXCEPT ![w] = NoRequest] /\ msg' = [msg EXCEPT ![w] = Message(NoRequest)]
        /\ pc' = [pc EXCEPT ![w] = "idle"] /\ key' = [key EXCEPT ![w] = NoKey]
        /\ err' = [err EXCEPT ![w] = "NO_ERROR"] /\ rows' = [rows EXCEPT ![w] = <<>>]
        /\ failed' = [failed EXCEPT ![w] = FALSE] /\ disturbed' = [disturbed EXCEPT ![w] = FALSE]
        /\ UNCHANGED <<store, issued, faults>>
    BY <1>3 DEF Respond, NoMessage
  <2>2. Message(NoRequest).type \in {"CREATE", "GET", "UPDATE", "DELETE"}
    BY MessageOf
  <2>3. TypeOK'
    BY <2>1, <2>2 DEF TypeOK, Errors
  <2>4. msg' = [v \in Workers |-> Message(req'[v])]
    BY <2>1 DEF TypeOK
  <2>5. ASSUME NEW v \in Workers, v # w PROVE Handling(v)'
    BY <2>1, <2>5, OthersStay DEF TypeOK
  <2>6. Handling(w)'
    BY <2>1 DEF TypeOK, Handling
  <2> QED
    BY <2>3, <2>4, <2>5, <2>6
<1> QED
  BY <1>1, <1>2, <1>3

\* Every variable has its type: the nodes have a key, a public flag and texts,
\* the keys handed out are generated ones, and a response shows nodes.
THEOREM StoreTypeOK == Spec => []TypeOK
<1>1. Init => HandlingInv
  BY HandlingInit
<1>2. HandlingInv /\ [Next]_vars => HandlingInv'
  BY HandlingStep
<1>3. HandlingInv => TypeOK
  BY DEF HandlingInv
<1> QED
  BY <1>1, <1>2, <1>3, PTL DEF Spec

LEMMA AlwaysHandling == Spec => []HandlingInv
<1>1. Init => HandlingInv
  BY HandlingInit
<1>2. HandlingInv /\ [Next]_vars => HandlingInv'
  BY HandlingStep
<1> QED
  BY <1>1, <1>2, PTL DEF Spec

-----------------------------------------------------------------------------
(* The query and its parameters. *)

\* Of a request that brings a scene without a user and whose values are in
\* range, the query names no parameter that it is not given.
LEMMA GeneratorsAgree ==
  ASSUME NEW type \in {"CREATE", "GET", "UPDATE", "DELETE"}, NEW k, NEW doc,
         IsScene(doc), NEW op, type # "GET" => k # NoKey,
         doc.latitude # "below", doc.distance # "tiny"
  PROVE  Uses(type, op, k, doc) \subseteq Gives(type, k, doc)
<1>f. FilterUses(doc) \subseteq {"inp_public"}
  <2>1. CASE doc.public = "true"
    BY <2>1 DEF FilterUses
  <2>2. CASE doc.public = "false"
    BY <2>2 DEF FilterUses, IsScene
  <2> QED
    BY <2>1, <2>2 DEF IsScene
<1>1. CASE type \in {"CREATE", "UPDATE"}
  <2>1. Uses(type, op, k, doc) =
          {"inp_key", "inp_active", "inp_public"}
          \cup If(doc.name # NoText, {"inp_name"})
          \cup If(doc.latitude # "-9999", {"inp_lat"})
          \cup If(doc.user # NoText, {"inp_user"})
          \cup If(type = "CREATE" \/ op \in {"APPEND", "REMOVE"}, ArrayUses(doc))
    BY <1>1 DEF Uses
  <2> QED
    BY <1>1, <2>1 DEF Gives, If, NoPlace
<1>2. CASE type = "DELETE"
  <2>1. Uses(type, op, k, doc) = {"inp_key"}
    BY <1>2 DEF Uses
  <2> QED
    BY <1>2, <2>1 DEF Gives, If
<1>3. CASE type = "GET" /\ k # NoKey
  <2>1. Uses(type, op, k, doc) = {"inp_key"} \cup FilterUses(doc)
    BY <1>3 DEF Uses
  <2> QED
    BY <1>f, <1>3, <2>1 DEF Gives, If
<1>4. CASE type = "GET" /\ k = NoKey
  <2>1. Uses(type, op, k, doc) =
          {"inp_skip", "inp_limit"}
          \cup If(doc.name # NoText, {"inp_name"} \cup FilterUses(doc))
          \cup If(doc.tags # NoArray, {"inp_tags"})
          \cup If(doc.latitude \notin NoPlace /\ doc.distance # "0",
                  {"inp_lat", "inp_distance"})
    BY <1>4 DEF Uses
  <2> QED
    BY <1>f, <1>4, <2>1 DEF Gives, If, ArrayUses
<1> QED
  BY <1>1, <1>2, <1>3, <1>4

LEMMA InRangeIsWellFormed ==
  ASSUME HandlingInv, NEW w \in Workers, pc[w] = "query", InRange(msg[w])
  PROVE  WellFormed(w)
<1>1. /\ IsScene(msg[w].scene)
      /\ msg[w].type \in {"CREATE", "GET", "UPDATE", "DELETE"}
      /\ msg[w].type # "GET" => key[w] # NoKey
  BY QueryOf, NotEmpty
<1>2. Uses(msg[w].type, msg[w].operation, key[w], msg[w].scene)
        \subseteq Gives(msg[w].type, key[w], msg[w].scene)
  BY <1>1, GeneratorsAgree DEF InRange
<1> QED
  BY <1>2 DEF InRange, WellFormed

Step(w) ==
  \/ \E r \in Asked : Begin(w, r)
  \/ QueryMalformed(w) \/ Change(w) \/ Retrieve(w)
  \/ QueryLost(w) \/ QueryFails(w)
  \/ Respond(w)

LEMMA StepOfOther ==
  ASSUME HandlingInv, NEW w \in Workers, Step(w), NEW v \in Workers, v # w
  PROVE  /\ req'[v] = req[v] /\ msg'[v] = msg[v] /\ pc'[v] = pc[v] /\ key'[v] = key[v]
         /\ err'[v] = err[v] /\ rows'[v] = rows[v]
         /\ failed'[v] = failed[v]
<1>1. CASE \E r \in Asked : Begin(w, r)
  BY <1>1 DEF Begin, HandlingInv, TypeOK
<1>2. CASE QueryMalformed(w) \/ Change(w) \/ QueryLost(w) \/ QueryFails(w)
  BY <1>2 DEF QueryMalformed, Change, QueryLost, QueryFails, Fault, Answer, requestVars,
              answerVars, HandlingInv, TypeOK
<1>3. CASE Retrieve(w)
  <2>1. UNCHANGED <<req, msg, key, failed>>
    BY <1>3 DEF Retrieve, requestVars
  <2>2. PICK after \in Seq(Node), code \in Errors :
          rows' = [rows EXCEPT ![w] = after] /\ Answer(w, code)
    BY <1>3, RetrievedRows
  <2> QED
    BY <2>1, <2>2 DEF Answer, HandlingInv, TypeOK
<1>4. CASE Respond(w)
  BY <1>4 DEF Respond, HandlingInv, TypeOK
<1> QED
  BY <1>1, <1>2, <1>3, <1>4 DEF Step

\* A request whose values are in range, and that brings a scene and says whose
\* scenes it asks for, is never answered with PROCESSING_ERROR but when the
\* database failed: the text of a query and its parameters are put together by
\* two functions with conditions of their own.
THEOREM StoreNoFalseError == Spec => []NoFalseError
<1>1. Init => NoFalseError
  BY DEF Init, NoFalseError
<1>2. ASSUME HandlingInv, NoFalseError, [Next]_vars
      PROVE  NoFalseError'
  <2>0. CASE UNCHANGED vars
    BY <1>2, <2>0 DEF vars, requestVars, answerVars, NoFalseError, Refused, InRange
  <2>1. ASSUME NEW w \in Workers, Step(w)
        PROVE  NoFalseError'
    <3>1. ASSUME NEW v \in Workers, v # w, err'[v] = "PROCESSING_ERROR"
          PROVE  failed'[v] \/ Refused(msg'[v]) \/ ~InRange(msg'[v])
      BY <1>2, <2>1, <3>1, StepOfOther DEF NoFalseError
    <3>2. ASSUME err'[w] = "PROCESSING_ERROR"
          PROVE  failed'[w] \/ Refused(msg'[w]) \/ ~InRange(msg'[w])
      <4>1. ASSUME NEW r \in Asked, Begin(w, r)
            PROVE  Refused(msg'[w])
        <5>1. msg'[w] = Message(r)
          BY <1>2, <4>1 DEF Begin, HandlingInv
        <5>2. err[w] = "NO_ERROR"
          BY <1>2, <4>1 DEF Begin, HandlingInv, Handling
        <5> QED
          BY <1>2, <3>2, <4>1, <5>1, <5>2 DEF Begin, HandlingInv, TypeOK
      <4>2. CASE QueryMalformed(w)
        <5>1. ~InRange(msg[w])
          BY <1>2, <4>2, InRangeIsWellFormed DEF QueryMalformed
        <5> QED
          BY <4>2, <5>1 DEF QueryMalformed, requestVars
      <4>3. CASE Change(w)
        <5>1. err'[w] = "NO_ERROR"
          BY <1>2, <4>3 DEF Change, Answer, HandlingInv, TypeOK
        <5> QED
          BY <3>2, <5>1
      <4>4. CASE Retrieve(w)
        <5>1. PICK after \in Seq(Node), code \in Errors :
                rows' = [rows EXCEPT ![w] = after] /\ Answer(w, code) /\ RowsAre(w, after, code)
          BY <1>2, <4>4, Retrieved
        <5>2. err'[w] = code
          BY <1>2, <5>1 DEF Answer, HandlingInv, TypeOK
        <5>3. code # "PROCESSING_ERROR"
          BY <5>1 DEF RowsAre, RowsFrom
        <5> QED
          BY <3>2, <5>2, <5>3
      <4>5. CASE QueryLost(w) \/ QueryFails(w)
        BY <1>2, <4>5 DEF QueryLost, QueryFails, Fault, HandlingInv, TypeOK
      <4>6. CASE Respond(w)
        <5>1. err'[w] = "NO_ERROR"
          BY <1>2, <4>6 DEF Respond, HandlingInv, TypeOK
        <5> QED
          BY <3>2, <5>1
      <4> QED
        BY <2>1, <4>1, <4>2, <4>3, <4>4, <4>5, <4>6 DEF Step
    <3> QED
      BY <3>1, <3>2 DEF NoFalseError
  <2> QED
    BY <1>2, <2>0, <2>1 DEF Next, Step
<1> QED
  BY <1>1, <1>2, AlwaysHandling, PTL DEF Spec

\* Whoever asks by key or by name is shown public scenes only, with this key or
\* this name: a request for private scenes is refused, as its user is not read
\* from the document.  Whoever gives tags and no key is shown scenes with them.
THEOREM StoreRowsConfined == Spec => []RowsConfined
<1> DEFINE Confined(w) ==
      LET doc == msg[w].scene
          named == key[w] = NoKey /\ doc.name # NoText IN
      msg[w].type = "GET" /\ doc # NoDoc =>
        \A i \in DOMAIN rows[w] :
          /\ key[w] # NoKey \/ named => rows[w][i].public = "true"
          /\ key[w] # NoKey => rows[w][i].key = key[w]
          /\ named => rows[w][i].name = doc.name
          /\ key[w] = NoKey => Elements(doc.tags) \subseteq Elements(rows[w][i].tags)
<1>0. RowsConfined <=> \A w \in Workers : Confined(w)
  BY DEF RowsConfined
<1>1. Init => RowsConfined
  BY DEF Init, RowsConfined
<1>2. ASSUME HandlingInv, RowsConfined, [Next]_vars
      PROVE  RowsConfined'
  <2>0. CASE UNCHANGED vars
    BY <1>2, <2>0 DEF vars, requestVars, answerVars, RowsConfined
  <2>1. ASSUME NEW w \in Workers, Step(w)
        PROVE  RowsConfined'
    <3>1. ASSUME NEW v \in Workers, v # w
          PROVE  Confined(v)'
      <4>1. msg'[v] = msg[v] /\ key'[v] = key[v] /\ rows'[v] = rows[v]
        BY <1>2, <2>1, <3>1, StepOfOther
      <4>2. Confined(v)
        BY <1>0, <1>2
      <4> QED
        BY <4>1, <4>2
    <3>2. Confined(w)'
      <4>1. CASE rows'[w] = <<>>
        BY <4>1
      <4>2. CASE Retrieve(w)
        <5>1. PICK after \in Seq(Node), code \in Errors :
                rows' = [rows EXCEPT ![w] = after] /\ RowsAre(w, after, code)
          BY <1>2, <4>2, Retrieved
        <5>2. /\ rows'[w] = after /\ UNCHANGED <<msg, key>>
              /\ pc[w] = "query" /\ msg[w].type = "GET"
          BY <1>2, <4>2, <5>1 DEF Retrieve, AtQuery, requestVars, HandlingInv, TypeOK
        <5>3. msg[w].scene.public = "true"
          <6>1. IsScene(msg[w].scene)
            BY <1>2, <5>2, QueryOf
          <6>2. ~Refused(msg[w])
            BY <1>2, <5>2 DEF HandlingInv, Handling
          <6> QED
            BY <5>2, <6>1, <6>2 DEF IsScene, Refused
        <5>4. ASSUME NEW i \in DOMAIN after
              PROVE  \E x \in Selection(w) : after[i] = store[x]
          <6>1. PICK I \in SUBSET Selection(w), s \in Seq(Ids), first \in Nat, size \in Nat :
                  RowsFrom(w, after, code, I, s, first, size)
            BY <5>1 DEF RowsAre
          <6>2. s \in [1..Cardinality(I) -> I] /\ first + i \in 1..Cardinality(I)
            BY <5>4, <6>1, OrderOf DEF RowsFrom
          <6> QED
            BY <5>4, <6>1, <6>2 DEF RowsFrom
        <5>5. ASSUME NEW x \in Selection(w)
              PROVE  /\ key[w] # NoKey \/ msg[w].scene.name # NoText =>
                          store[x].public = "true"
                     /\ key[w] # NoKey => store[x].key = key[w]
                     /\ key[w] = NoKey /\ msg[w].scene.name # NoText =>
                          store[x].name = msg[w].scene.name
                     /\ key[w] = NoKey =>
                          Elements(msg[w].scene.tags) \subseteq Elements(store[x].tags)
          BY <5>3, <5>5 DEF Selection, Selected, Visible
        <5> QED
          BY <5>2, <5>4, <5>5
      <4>3. CASE QueryMalformed(w) \/ Change(w) \/ QueryLost(w) \/ QueryFails(w)
        BY <1>2, <4>1, <4>3 DEF QueryMalformed, Change, QueryLost, QueryFails, Fault,
                                answerVars, HandlingInv, Handling
      <4>4. CASE Respond(w) \/ \E r \in Asked : Begin(w, r)
        BY <1>2, <4>1, <4>4 DEF Respond, Begin, HandlingInv, Handling, TypeOK
      <4> QED
        BY <2>1, <4>2, <4>3, <4>4 DEF Step
    <3> QED
      BY <3>1, <3>2 DEF RowsConfined
  <2> QED
    BY <1>2, <2>0, <2>1 DEF Next, Step
<1> QED
  BY <1>1, <1>2, AlwaysHandling, PTL DEF Spec

-----------------------------------------------------------------------------
(* What a step does to the nodes. *)

LEMMA StoreOfStep ==
  ASSUME HandlingInv, NEW w \in Workers, Step(w)
  PROVE  \/ store' = store
         \/ /\ pc[w] = "query" /\ msg[w].type # "GET"
            /\ key[w] \in Keys \cup Fresh
            /\ IsScene(msg[w].scene)
            /\ store' \in Applied(w)
            /\ \A i \in Ids : Leaves(i, store'[i], key[w], msg[w])
<1>1. store' = store \/ (pc[w] = "query" /\ store' \in Applied(w))
  BY DEF Step, Begin, QueryMalformed, Change, Retrieve, QueryLost, QueryFails, Fault, Respond
<1>2. store \in [Ids -> Node \cup {NoNode}]
  BY DEF HandlingInv, TypeOK
<1>3. CASE pc[w] = "query" /\ store' \in Applied(w) /\ msg[w].type # "GET"
  <2>1. /\ key[w] \in Keys \cup Fresh
        /\ IsScene(msg[w].scene)
        /\ msg[w].type \in {"CREATE", "GET", "UPDATE", "DELETE"}
    BY <1>3, QueryOf
  <2> QED
    BY <1>2, <1>3, <2>1, AppliedLeaves
<1>4. CASE store' \in Applied(w) /\ msg[w].type = "GET"
  BY <1>4 DEF Applied
<1> QED
  BY <1>1, <1>3, <1>4

\* A step only changes nodes that have, or get, the key of a request whose
\* query it runs; a node that stays keeps its key, no update takes a name or
\* an owner away from it, and none takes away an asset or a tag, or a copy of
\* one, but those that a request with the operation REMOVE names.
THEOREM StoreChangesOwn == Spec => ChangesOwn
<1> DEFINE Own ==
      \A i \in Ids :
        /\ store'[i] # store[i] =>
             \E w \in Workers : /\ pc[w] = "query" /\ key[w] # NoKey
                               /\ key[w] \in {KeyOf(i), KeyOf(i)'}
        /\ i \in Stored /\ i \in Stored' =>
             /\ store'[i].key = store[i].key
             /\ store[i].name # NoText => store'[i].name # NoText
             /\ store[i].user # NoText => store'[i].user # NoText
             /\ \A field \in {"assets", "tags"}, t \in Words :
                  \/ store[i][field][t] <= store'[i][field][t]
                  \/ \E w \in Workers : Removes(w, i, field, t)
<1>1. HandlingInv /\ [Next]_vars => [Own]_vars
  <2> SUFFICES ASSUME HandlingInv, NEW w \in Workers, Step(w) PROVE Own
    BY DEF Next, Step
  <2>1. CASE store' = store
    <3>1. ASSUME NEW i \in Stored, NEW field \in {"assets", "tags"}, NEW t \in Words
          PROVE  store[i][field][t] <= store'[i][field][t]
      <4>1. store[i] \in Node
        BY DEF HandlingInv, TypeOK, Stored
      <4>2. store[i][field][t] \in Nat
        BY <4>1 DEF Node, Arrays
      <4> QED
        BY <2>1, <4>2
    <3> QED
      BY <2>1, <3>1
  <2>2. CASE /\ pc[w] = "query" /\ msg[w].type # "GET"
             /\ key[w] \in Keys \cup Fresh
             /\ IsScene(msg[w].scene)
             /\ \A i \in Ids : Leaves(i, store'[i], key[w], msg[w])
    <3> SUFFICES ASSUME NEW i \in Ids
                 PROVE  /\ store'[i] # store[i] =>
                             \E v \in Workers : /\ pc[v] = "query" /\ key[v] # NoKey
                                               /\ key[v] \in {KeyOf(i), KeyOf(i)'}
                        /\ i \in Stored /\ i \in Stored' =>
                             /\ store'[i].key = store[i].key
                             /\ store[i].name # NoText => store'[i].name # NoText
                             /\ store[i].user # NoText => store'[i].user # NoText
                             /\ \A field \in {"assets", "tags"}, t \in Words :
                                  \/ store[i][field][t] <= store'[i][field][t]
                                  \/ \E v \in Workers : Removes(v, i, field, t)
      OBVIOUS
    <3>0. Leaves(i, store'[i], key[w], msg[w])
      BY <2>2
    <3>k. key[w] # NoKey
      BY <2>2, NotEmpty
    <3>1. CASE store'[i] = store[i]
      <4>1. i \in Stored => store[i] \in Node
        BY DEF HandlingInv, TypeOK, Stored
      <4>2. i \in Stored => \A field \in {"assets", "tags"}, t \in Words :
                                store[i][field][t] \in Nat
        BY <4>1 DEF Node, Arrays
      <4> QED
        BY <3>1, <4>2
    <3>2. CASE i \notin Stored /\ store'[i] = NewNode(key[w], msg[w].scene)
      <4>1. store'[i] \in Node
        BY <2>2, <3>2, NewNodeTyped
      <4>2. store'[i] # NoNode /\ store'[i].key = key[w]
        BY <3>2, <4>1, NoNodeIsNone DEF NewNode
      <4>3. KeyOf(i)' = key[w]
        BY <4>2 DEF KeyOf
      <4> QED
        BY <2>2, <3>2, <3>k, <4>3
    <3>3. CASE /\ msg[w].type = "UPDATE" /\ i \in Holding(key[w])
               /\ store'[i] = Updated(store[i], msg[w].scene, msg[w].operation)
      <4>1. store[i] \in Node /\ store[i] # NoNode /\ store[i].key = key[w]
        BY <3>3 DEF HandlingInv, TypeOK, Holding, Stored
      <4>2. KeyOf(i) = key[w]
        BY <4>1 DEF KeyOf
      <4>3. /\ store'[i].key = store[i].key
            /\ store'[i].user = store[i].user
            /\ store'[i].name = IF msg[w].scene.name # NoText THEN msg[w].scene.name
                                ELSE store[i].name
        BY <2>2, <3>3, <4>1, UpdatedNode
      <4>4. ASSUME NEW field \in {"assets", "tags"}, NEW t \in Words
            PROVE  store[i][field][t] <= store'[i][field][t] \/ Removes(w, i, field, t)
        <5>1. store'[i][field] = Combined(store[i][field], msg[w].scene[field], msg[w].operation)
          BY <2>2, <3>3, <4>1, UpdatedNode
        <5>2. store[i][field] \in Arrays /\ msg[w].scene[field] \in Arrays
          BY <2>2, <4>1 DEF Node, IsScene
        <5>3. \/ store[i][field][t] <= store'[i][field][t]
              \/ msg[w].operation = "REMOVE" /\ t \in Elements(msg[w].scene[field])
          BY <5>1, <5>2, CombinedArray
        <5> QED
          BY <2>2, <3>3, <4>2, <5>3 DEF Removes
      <4> QED
        BY <2>2, <3>k, <4>2, <4>3, <4>4
    <3>4. CASE i \in Holding(key[w]) /\ store'[i] = NoNode
      <4>1. KeyOf(i) = key[w]
        BY <3>4 DEF KeyOf, Holding, Stored
      <4>2. i \notin Stored'
        BY <3>4 DEF Stored
      <4> QED
        BY <2>2, <3>k, <4>1, <4>2
    <3> QED
      BY <3>0, <3>1, <3>2, <3>3, <3>4 DEF Leaves
  <2> QED
    BY <2>1, <2>2, StoreOfStep
<1> QED
  BY <1>1, AlwaysHandling, PTL DEF Spec, ChangesOwn

-----------------------------------------------------------------------------
(* What a request says of a scene, and what its query makes of it. *)

LEMMA SaidBySent ==
  ASSUME NEW r, IsRequest(r), r.body # NoDoc, NEW doc, doc = SentScene(r)
  PROVE  /\ doc.public = SaysPublic(r)
         /\ doc.name # NoText <=> Says(r, "name")
         /\ Says(r, "name") => doc.name = r.body["name"].value
         /\ doc.assets = Listed(r, "assets") /\ doc.tags = Listed(r, "tags")
<1> DEFINE m == r.body
<1>1. IsDocument(m, SceneReads)
  BY DEF IsRequest
<1>2. /\ doc.name = Said(m, "name", NoText)
      /\ doc.assets = Said(m, "assets", NoArray)
      /\ doc.tags = Said(m, "tags", NoArray)
      /\ doc.public = IF "private" \in DOMAIN m THEN Negated[m["private"].value]
                      ELSE Said(m, "public", "true")
  BY <1>1, SceneRead DEF SentScene
<1>3. /\ doc.name # NoText <=> Says(r, "name")
      /\ Says(r, "name") => doc.name = r.body["name"].value
  BY <1>2 DEF Said, Says
<1>4. doc.assets = Listed(r, "assets") /\ doc.tags = Listed(r, "tags")
  BY <1>2 DEF Said, Listed
<1>5. doc.public = SaysPublic(r)
  <2>1. /\ "private" \in DOMAIN m => m["private"].type \in Flags
        /\ "public" \in DOMAIN m => m["public"].type \in Flags
    BY <1>1, SceneTable DEF IsDocument, WellTyped
  <2>2. /\ "private" \in DOMAIN m => m["private"].value \in {"true", "false"}
        /\ "public" \in DOMAIN m => m["public"].value \in {"true", "false"}
    BY <1>1, <2>1 DEF IsDocument
  <2>3. /\ Says(r, "private") <=> "private" \in DOMAIN m
        /\ Says(r, "public") <=> "public" \in DOMAIN m
    BY <2>2, NotEmpty DEF Says
  <2>4. CASE "private" \in DOMAIN m
    <3>1. SaysPublic(r) = IF m["private"].value = "true" THEN "false" ELSE "true"
      BY <2>3, <2>4 DEF SaysPublic
    <3>2. Negated[m["private"].value] = IF m["private"].value = "true" THEN "false" ELSE "true"
      BY <2>2, <2>4 DEF Negated
    <3> QED
      BY <1>2, <2>4, <3>1, <3>2
  <2>5. CASE "private" \notin DOMAIN m /\ "public" \in DOMAIN m
    <3>1. SaysPublic(r) = m["public"].value
      BY <2>3, <2>5 DEF SaysPublic
    <3> QED
      BY <1>2, <2>5, <3>1 DEF Said
  <2>6. CASE "private" \notin DOMAIN m /\ "public" \notin DOMAIN m
    <3>1. SaysPublic(r) = "true"
      BY <2>3, <2>6 DEF SaysPublic
    <3> QED
      BY <1>2, <2>6, <3>1 DEF Said
  <2> QED
    BY <2>4, <2>5, <2>6
<1> QED
  BY <1>3, <1>4, <1>5

LEMMA CreatedReflects ==
  ASSUME NEW r, IsRequest(r), r.op \in {"post", "put"}, Scene(r) # NoDoc, NEW k
  PROVE  Reflects(NewNode(k, Scene(r)), r)
<1> DEFINE node == NewNode(k, Scene(r))
<1>1. Scene(r) = SentScene(r) /\ r.body # NoDoc
  BY SceneOf DEF SentScene
<1>2. /\ node.public = Scene(r).public /\ node.name = Scene(r).name
      /\ node["assets"] = Scene(r).assets /\ node["tags"] = Scene(r).tags
  BY DEF NewNode
<1>3. /\ node.public = SaysPublic(r)
      /\ Says(r, "name") => node.name = r.body["name"].value
      /\ node.name # NoText => Says(r, "name")
      /\ \A n \in {"assets", "tags"} : node[n] = Listed(r, n)
  BY <1>1, <1>2, SaidBySent
<1> QED
  BY <1>1, <1>3 DEF Reflects

LEMMA UpdatedReflects ==
  ASSUME NEW r, IsRequest(r), r.op \in {"update", "asset_add", "asset_del"},
         NEW node \in Node
  PROVE  Reflects(Updated(node, Scene(r), List(r).operation), r)
<1> DEFINE new == Updated(node, Scene(r), List(r).operation)
<1>1. CASE r.op \in {"asset_add", "asset_del"}
  <2>1. Scene(r) = AssetScene /\ IsScene(AssetScene)
    BY <1>1, SceneOf, NewSceneIsScene
  <2>2. AssetScene.assets["a"] = 1 /\ AssetScene.assets \in Arrays /\ "a" \in Words
    BY WordsGiven, NewSceneIsScene DEF AssetScene, NewScene, NoArray, IsScene
  <2>3. /\ new.assets \in Arrays
        /\ List(r).operation = "APPEND" => 1 <= new.assets["a"]
        /\ List(r).operation = "REMOVE" => "a" \notin Elements(new.assets)
    <3>1. new.assets = Combined(node.assets, AssetScene.assets, List(r).operation)
      BY <2>1, UpdatedNode
    <3>2. node.assets \in Arrays
      BY DEF Node
    <3>3. "a" \in Elements(AssetScene.assets)
      BY <2>2 DEF Elements
    <3> QED
      BY <2>2, <3>1, <3>2, <3>3, CombinedArray
  <2>4. List(r).operation = IF r.op = "asset_add" THEN "APPEND" ELSE "REMOVE"
    <3>1. CASE r.op = "asset_add"
      <4>1. AssetList("ASSET_ADD").operation = "APPEND"
        BY DEF AssetList, NewList
      <4> QED
        BY <3>1, <4>1, ListOf
    <3>2. CASE r.op = "asset_del"
      <4>1. AssetList("ASSET_DEL").operation = "REMOVE"
        BY DEF AssetList, NewList
      <4> QED
        BY <3>2, <4>1, ListOf
    <3> QED
      BY <1>1, <3>1, <3>2
  <2>5. CASE r.op = "asset_add"
    BY <2>2, <2>3, <2>4, <2>5 DEF Reflects, Elements, Arrays
  <2>6. CASE r.op = "asset_del"
    BY <2>3, <2>4, <2>6 DEF Reflects
  <2> QED
    BY <1>1, <2>5, <2>6
<1>2. CASE r.op = "update" /\ r.body = NoDoc
  BY <1>2 DEF Reflects
<1>3. CASE r.op = "update" /\ r.body # NoDoc
  <2>1. Scene(r) = SentScene(r) /\ IsScene(Scene(r))
    BY <1>3, SceneOf, SentIsScene DEF UpdateScene
  <2>2. /\ new.public = Scene(r).public
        /\ new.name = IF Scene(r).name # NoText THEN Scene(r).name ELSE node.name
    BY <2>1, UpdatedNode
  <2>3. /\ new.public = SaysPublic(r)
        /\ Says(r, "name") => new.name = r.body["name"].value
    BY <1>3, <2>1, <2>2, SaidBySent
  <2>4. ASSUME NEW n \in {"assets", "tags"}
        PROVE  /\ List(r).operation = "APPEND" =>
                    \A t \in Words : Listed(r, n)[t] <= new[n][t]
               /\ List(r).operation = "REMOVE" =>
                    Elements(Listed(r, n)) \cap Elements(new[n]) = {}
    <3>1. new[n] = Combined(node[n], Scene(r)[n], List(r).operation)
      BY <2>1, UpdatedNode
    <3>2. Listed(r, n) = Scene(r)[n]
      BY <1>3, <2>1, SaidBySent
    <3>3. node[n] \in Arrays /\ Scene(r)[n] \in Arrays
      BY <2>1 DEF Node, IsScene
    <3> QED
      BY <3>1, <3>2, <3>3, CombinedArray
  <2> QED
    BY <1>3, <2>3, <2>4 DEF Reflects
<1> QED
  BY <1>1, <1>2, <1>3

-----------------------------------------------------------------------------
(* Answers tell what happened. *)

\* AnswersTrue for one worker, with the key of its query for the key that its
\* request is about.
Truthful(w) ==
  pc[w] = "respond" /\ ~disturbed[w] =>
    /\ err[w] = "NO_ERROR" =>
         /\ req[w].op \in {"post", "put"} =>
              \E i \in Holding(key[w]) : Reflects(store[i], req[w])
         /\ req[w].op \in {"update", "asset_add", "asset_del"} =>
              \A i \in Holding(key[w]) : Reflects(store[i], req[w])
         /\ req[w].op = "delete" => Holding(key[w]) = {}
         /\ req[w].op \in {"get", "query"} =>
              /\ rows[w] # <<>>
              /\ \A j \in DOMAIN rows[w] : \E i \in Stored :
                   /\ rows[w][j] = store[i]
                   /\ key[w] # NoKey => store[i].key = key[w]
    /\ req[w].op = "get" /\ err[w] = "NOT_FOUND" =>
         \A i \in Holding(key[w]) : store[i].public = "false"

\* A request that is not disturbed by a step of another worker keeps the nodes
\* that have its key.
LEMMA HeldStay ==
  ASSUME HandlingInv, NEW w \in Workers, Step(w), NEW v \in Workers, v # w,
         pc[v] # "idle", ~disturbed'[v]
  PROVE  /\ ~disturbed[v]
         /\ key[v] = NoKey => store' = store
         /\ Holding(key[v])' = Holding(key[v])
         /\ \A i \in Holding(key[v]) : i \in Stored' /\ store'[i] = store[i]
<1>0. key'[v] = key[v]
  BY StepOfOther
<1>1. CASE UNCHANGED <<store, disturbed>> \/ Respond(w)
  <2>1. ~disturbed[v] /\ store' = store
    BY <1>1 DEF Respond, HandlingInv, TypeOK
  <2> QED
    BY <1>0, <2>1 DEF Holding, Stored
<1>2. CASE Disturb(w)
  <2>1. ~disturbed[v] /\ (store' # store => key[v] \notin {key[w], NoKey})
    BY <1>2 DEF Disturb
  <2>2. CASE store' = store
    BY <1>0, <2>1, <2>2 DEF Holding, Stored
  <2>3. CASE store' # store
    <3>1. /\ IsScene(msg[w].scene) /\ key[w] \in Keys \cup Fresh
          /\ \A i \in Ids : Leaves(i, store'[i], key[w], msg[w])
      BY <2>3, StoreOfStep
    <3>2. ASSUME NEW i \in Ids
          PROVE  \/ store'[i] = store[i]
                 \/ /\ i \notin Holding(key[v])
                    /\ store'[i] = NoNode \/ store'[i].key = key[w]
      <4>0. Leaves(i, store'[i], key[w], msg[w])
        BY <3>1
      <4>1. CASE i \notin Stored /\ store'[i] = NewNode(key[w], msg[w].scene)
        BY <4>1 DEF Holding, NewNode
      <4>2. CASE /\ i \in Holding(key[w])
                 /\ store'[i] = Updated(store[i], msg[w].scene, msg[w].operation)
        <5>1. store[i] \in Node /\ store[i].key = key[w]
          BY <4>2 DEF HandlingInv, TypeOK, Holding, Stored
        <5>2. store'[i].key = key[w]
          BY <3>1, <4>2, <5>1, UpdatedNode
        <5> QED
          BY <2>1, <2>3, <5>1, <5>2 DEF Holding
      <4>3. CASE i \in Holding(key[w]) /\ store'[i] = NoNode
        BY <2>1, <2>3, <4>3 DEF Holding
      <4> QED
        BY <4>0, <4>1, <4>2, <4>3 DEF Leaves
    <3>3. \A i \in Holding(key[v]) : store'[i] = store[i] /\ i \in Ids /\ store[i] # NoNode
      BY <3>2 DEF Holding, Stored
    <3>4. Holding(key[v])' = {i \in Ids : store'[i] # NoNode /\ store'[i].key = key[v]}
      BY <1>0 DEF Holding, Stored
    <3>5. Holding(key[v]) = {i \in Ids : store[i] # NoNode /\ store[i].key = key[v]}
      BY DEF Holding, Stored
    <3>6. ASSUME NEW i \in Holding(key[v])'
          PROVE  i \in Holding(key[v])
      BY <2>1, <2>3, <3>2, <3>4, <3>5, <3>6
    <3>7. Holding(key[v])' = Holding(key[v])
      BY <3>3, <3>4, <3>5, <3>6
    <3> QED
      BY <2>1, <2>3, <3>3, <3>7 DEF Stored
  <2> QED
    BY <2>2, <2>3
<1> QED
  BY <1>1, <1>2 DEF Step, Begin, QueryMalformed, Change, Retrieve, QueryLost, QueryFails

LEMMA TruthfulOther ==
  ASSUME HandlingInv, NEW w \in Workers, Step(w), NEW v \in Workers, v # w, Truthful(v)
  PROVE  Truthful(v)'
<1> SUFFICES ASSUME pc[v] = "respond", ~disturbed'[v]
             PROVE  Truthful(v)'
  BY StepOfOther DEF Truthful
<1>1. /\ req'[v] = req[v] /\ key'[v] = key[v] /\ err'[v] = err[v] /\ rows'[v] = rows[v]
      /\ pc'[v] = pc[v]
  BY StepOfOther
<1>2. /\ ~disturbed[v]
      /\ key[v] = NoKey => store' = store
      /\ Holding(key[v])' = Holding(key[v])
      /\ \A i \in Holding(key[v]) : i \in Stored' /\ store'[i] = store[i]
  BY HeldStay
<1> DEFINE r == req[v]
<1>3. CASE r.op \in {"get", "query"} /\ err[v] = "NO_ERROR"
  <2>1. ASSUME NEW j \in DOMAIN rows[v]
        PROVE  \E i \in Stored' : /\ rows[v][j] = store'[i]
                                  /\ key[v] # NoKey => store'[i].key = key[v]
    <3>1. PICK i \in Stored : rows[v][j] = store[i] /\ (key[v] # NoKey => store[i].key = key[v])
      BY <1>2, <1>3 DEF Truthful
    <3>2. CASE key[v] = NoKey
      BY <1>2, <3>1, <3>2 DEF Stored
    <3>3. CASE key[v] # NoKey
      <4>1. i \in Holding(key[v])
        BY <3>1, <3>3 DEF Holding
      <4> QED
        BY <1>2, <3>1, <3>3, <4>1
    <3> QED
      BY <3>2, <3>3
  <2>2. rows[v] # <<>>
    BY <1>2, <1>3 DEF Truthful
  <2> QED
    BY <1>1, <1>3, <2>1, <2>2 DEF Truthful
<1>4. CASE ~(r.op \in {"get", "query"} /\ err[v] = "NO_ERROR")
  <2>1. /\ err[v] = "NO_ERROR" /\ r.op \in {"post", "put"} =>
             \E i \in Holding(key[v]) : Reflects(store'[i], r)
        /\ err[v] = "NO_ERROR" /\ r.op \in {"update", "asset_add", "asset_del"} =>
             \A i \in Holding(key[v]) : Reflects(store'[i], r)
        /\ err[v] = "NO_ERROR" /\ r.op = "delete" => Holding(key[v]) = {}
        /\ r.op = "get" /\ err[v] = "NOT_FOUND" =>
             \A i \in Holding(key[v]) : store'[i].public = "false"
    BY <1>2 DEF Truthful
  <2> QED
    BY <1>1, <1>2, <1>4, <2>1 DEF Truthful
<1> QED
  BY <1>3, <1>4

LEMMA TruthfulOwn ==
  ASSUME HandlingInv, NEW w \in Workers, Step(w), Truthful(w)
  PROVE  Truthful(w)'
<1> DEFINE r == req[w]
<1>1. CASE \/ \E q \in Asked : Begin(w, q)
           \/ QueryMalformed(w) \/ QueryLost(w) \/ QueryFails(w) \/ Respond(w)
  <2>1. pc'[w] # "respond" \/ err'[w] = "PROCESSING_ERROR"
    <3>1. CASE \E q \in Asked : Begin(w, q)
      BY <3>1 DEF Begin, HandlingInv, TypeOK
    <3>2. CASE QueryMalformed(w) \/ QueryFails(w)
      BY <3>2 DEF QueryMalformed, QueryFails, Answer, HandlingInv, TypeOK
    <3>3. CASE QueryLost(w)
      BY <3>3 DEF QueryLost, Fault, HandlingInv, TypeOK
    <3>4. CASE Respond(w)
      BY <3>4 DEF Respond, HandlingInv, TypeOK
    <3> QED
      BY <1>1, <3>1, <3>2, <3>3, <3>4
  <2> QED
    BY <2>1 DEF Truthful
<1>r. /\ IsRequest(r) /\ r \in Asked \cup {NoRequest} /\ msg[w] = Message(r)
      /\ msg[w].type = QueryType(r)
      /\ msg[w].scene = Scene(r) /\ msg[w].operation = List(r).operation
      /\ pc[w] = "query" => Scene(r) # NoDoc
  <2>1. r \in Asked \cup {NoRequest} /\ msg[w] = Message(r)
    BY DEF HandlingInv, Handling
  <2>2. pc[w] = "query" => msg[w].scene # NoDoc
    BY QueryOf
  <2> QED
    BY <2>1, <2>2, MessageOf
<1>2. CASE Change(w)
  <2>0. /\ pc[w] = "query" /\ msg[w].type # "GET"
        /\ req'[w] = r /\ key'[w] = key[w] /\ err'[w] = "NO_ERROR"
        /\ store' \in Applied(w)
    BY <1>2 DEF Change, Answer, requestVars, HandlingInv, TypeOK
  <2>t. store \in [Ids -> Node \cup {NoNode}]
    BY DEF HandlingInv, TypeOK
  <2>1. CASE r.op \in {"post", "put"}
    <3>1. msg[w].type = "CREATE"
      BY <1>r, <2>1, TypeOf
    <3>2. PICK i \in Ids \ Stored : store' = [store EXCEPT ![i] = NewNode(key[w], Scene(r))]
      BY <1>r, <2>0, <3>1 DEF Applied, Creations
    <3>3. IsScene(Scene(r)) /\ key[w] \in Keys \cup Fresh
      BY <1>r, <2>0, QueryOf
    <3>4. store'[i] = NewNode(key[w], Scene(r)) /\ store'[i] # NoNode
      BY <2>t, <3>2, <3>3, NewNodeTyped, NoNodeIsNone
    <3>5. store'[i].key = key[w]
      BY <3>4 DEF NewNode
    <3>6. i \in Holding(key[w])'
      BY <2>0, <3>4, <3>5 DEF Holding, Stored
    <3>7. Reflects(store'[i], r)
      BY <1>r, <2>0, <2>1, <3>4, CreatedReflects
    <3> QED
      BY <2>0, <2>1, <3>6, <3>7 DEF Truthful
  <2>2. CASE r.op \in {"update", "asset_add", "asset_del"}
    <3>1. msg[w].type = "UPDATE"
      BY <1>r, <2>2, TypeOf
    <3>2. store' = UpdateAll(key[w], Scene(r), List(r).operation)
      BY <1>r, <2>0, <3>1 DEF Applied
    <3>3. ASSUME NEW i \in Holding(key[w])'
          PROVE  Reflects(store'[i], r)
      <4>1. i \in Ids /\ store'[i].key = key[w] /\ store'[i] # NoNode
        BY <2>0, <3>3 DEF Holding, Stored
      <4>2. i \in Holding(key[w])
        BY <3>2, <4>1 DEF UpdateAll, Holding, Stored
      <4>3. store[i] \in Node
        BY <2>t, <4>1, <4>2 DEF Holding, Stored
      <4>4. store'[i] = Updated(store[i], Scene(r), List(r).operation)
        BY <3>2, <4>1, <4>2 DEF UpdateAll
      <4> QED
        BY <1>r, <2>2, <4>3, <4>4, UpdatedReflects
    <3> QED
      BY <2>0, <2>2, <3>3 DEF Truthful
  <2>3. CASE r.op = "delete"
    <3>1. msg[w].type = "DELETE"
      BY <1>r, <2>3, TypeOf
    <3>2. store' = Delete(key[w])
      BY <2>0, <3>1 DEF Applied
    <3>3. Holding(key[w])' = {}
      BY <2>0, <3>2 DEF Delete, Holding, Stored
    <3> QED
      BY <2>0, <2>3, <3>3 DEF Truthful
  <2> QED
    BY <1>r, <2>0, <2>1, <2>2, <2>3, TypeOf DEF IsRequest, Ops
<1>3. CASE Retrieve(w)
  <2>1. PICK after \in Seq(Node), code \in Errors :
          rows' = [rows EXCEPT ![w] = after] /\ Answer(w, code) /\ RowsAre(w, after, code)
    BY <1>3, Retrieved
  <2>2. PICK I \in SUBSET Selection(w), s \in Seq(Ids), first \in Nat, size \in Nat :
          RowsFrom(w, after, code, I, s, first, size)
    BY <2>1 DEF RowsAre
  <2>3. /\ req'[w] = r /\ key'[w] = key[w] /\ store' = store
        /\ rows'[w] = after /\ err'[w] = code /\ pc[w] = "query" /\ msg[w].type = "GET"
    BY <1>3, <2>1 DEF Retrieve, AtQuery, Answer, requestVars, HandlingInv, TypeOK
  <2>4. r.op \in {"get", "query"}
    BY <1>r, <2>3, TypeOf DEF IsRequest, Ops
  <2>5. ASSUME code = "NO_ERROR"
        PROVE  /\ after # <<>>
               /\ \A j \in DOMAIN after : \E i \in Stored :
                    after[j] = store[i] /\ (key[w] # NoKey => store[i].key = key[w])
    <3>1. size # 0
      BY <2>2, <2>5 DEF RowsFrom
    <3>2. Len(after) # 0
      BY <2>2, <3>1, BoundsAreNumbers DEF RowsFrom
    <3>3. ASSUME NEW j \in DOMAIN after
          PROVE  \E i \in Stored : after[j] = store[i] /\ (key[w] # NoKey => store[i].key = key[w])
      <4>1. s \in [1..Cardinality(I) -> I] /\ first + j \in 1..Cardinality(I)
        BY <2>2, <3>3, OrderOf DEF RowsFrom
      <4>2. after[j] = store[s[first + j]] /\ s[first + j] \in Selection(w)
        BY <2>2, <3>3, <4>1 DEF RowsFrom
      <4> QED
        BY <4>2 DEF Selection, Selected
    <3> QED
      BY <3>2, <3>3
  <2>6. ASSUME r.op = "get", code = "NOT_FOUND", NEW i \in Holding(key[w])
        PROVE  store[i].public = "false"
    <3>1. key[w] # NoKey
      BY <1>r, <2>3, <2>6, KeyOfMessage, NotEmpty DEF HandlingInv, Handling
    <3>2. ~ByDistance(w)
      <4>1. Uses("GET", msg[w].operation, key[w], msg[w].scene)
              = {"inp_key"} \cup FilterUses(msg[w].scene)
        BY <3>1 DEF Uses
      <4>2. "inp_distance" \notin FilterUses(msg[w].scene)
        <5>1. IsScene(msg[w].scene)
          BY <2>3, QueryOf
        <5> QED
          BY <5>1 DEF FilterUses, IsScene
      <4> QED
        BY <4>1, <4>2 DEF ByDistance
    <3>3. I = Selection(w) /\ IsFiniteSet(I) /\ Cardinality(I) = 0
      BY <2>2, <2>6, <3>1, <3>2 DEF RowsFrom
    <3>4. Selection(w) = {}
      BY <3>3, FS_EmptySet
    <3>5. ~Visible(msg[w].scene, store[i])
      BY <2>6, <3>1, <3>4 DEF Selection, Selected, Holding
    <3>6. msg[w].scene = NewScene
      BY <1>r, <2>6, SceneOf
    <3>7. NewScene["public"] = "true"
      BY DEF NewScene
    <3>8. store[i].public # "true"
      BY <3>5, <3>6, <3>7 DEF Visible
    <3>9. store[i] \in Node
      BY <2>6 DEF HandlingInv, TypeOK, Holding, Stored
    <3> QED
      BY <3>8, <3>9 DEF Node
  <2>7. Holding(key[w])' = Holding(key[w]) /\ Stored' = Stored
    BY <2>3 DEF Holding, Stored
  <2> QED
    BY <2>3, <2>4, <2>5, <2>6, <2>7 DEF Truthful
<1> QED
  BY <1>1, <1>2, <1>3 DEF Step

\* The key that a client means is the one that its query is about.
LEMMA KeyMeant ==
  ASSUME HandlingInv, NEW w \in Workers, pc[w] # "idle"
  PROVE  Meant(w) = key[w]
<1> DEFINE r == req[w]
<1>1. r \in Asked \cup {NoRequest} /\ (MessageKey(r) # NoKey => key[w] = MessageKey(r))
  BY DEF HandlingInv, Handling
<1>2. r.key # NoKey => r.key = key[w]
  BY <1>1, KeyOfMessage
<1>3. ASSUME r.key = NoKey, r.body # NoDoc, Says(r, "key")
      PROVE  r.body["key"].value = key[w]
  <2>1. "key" \in DOMAIN r.body
    BY <1>3 DEF Says
  <2>2. r.op \in {"post", "query"}
    BY <1>1, <1>3, KeyOfMessage, NotEmpty
  <2>3. MessageKey(r) = r.body["key"].value
    BY <1>1, <1>3, <2>1, <2>2, KeyOfMessage DEF BodyKey
  <2>4. r.body["key"].value \in Keys
    BY <1>1, <1>3, <2>1, MessageOf DEF IsRequest, IsDocument
  <2> QED
    BY <1>1, <2>3, <2>4, NotEmpty
<1> QED
  BY <1>2, <1>3 DEF Meant

\* An answer tells what happened, as long as no other request changed the scene
\* in between: after a 200 a created scene is there as it was sent, an update
\* shows in every scene with its key and a delete leaves none; what a get or a
\* query shows is there; and a get that finds nothing says so only when no
\* public scene has the key.  Document, path, handler, query and a second try
\* together must not lose any of it.
THEOREM StoreAnswersTrue == Spec => []AnswersTrue
<1> DEFINE AllTruthful == \A w \in Workers : Truthful(w)
<1>1. Init => AllTruthful
  BY DEF Init, Truthful
<1>2. ASSUME HandlingInv, AllTruthful, [Next]_vars
      PROVE  AllTruthful'
  <2>0. CASE UNCHANGED vars
    BY <1>2, <2>0 DEF vars, requestVars, answerVars, Truthful, Holding, Stored
  <2>1. ASSUME NEW w \in Workers, Step(w)
        PROVE  AllTruthful'
    BY <1>2, <2>1, TruthfulOwn, TruthfulOther
  <2> QED
    BY <1>2, <2>0, <2>1 DEF Next, Step
<1>3. HandlingInv /\ AllTruthful => AnswersTrue
  <2> SUFFICES ASSUME HandlingInv, AllTruthful, NEW w \in Workers,
                      pc[w] = "respond", ~disturbed[w]
               PROVE  LET r == req[w]
                          mine == {store[i] : i \in Holding(Meant(w))} IN
                      /\ Status(w) = 200 /\ err[w] = "NO_ERROR" =>
                           /\ r.op \in {"post", "put"} => \E node \in mine : Reflects(node, r)
                           /\ r.op \in {"update", "asset_add", "asset_del"} =>
                                \A node \in mine : Reflects(node, r)
                           /\ r.op = "delete" => mine = {}
                           /\ r.op \in {"get", "query"} =>
                                /\ rows[w] # <<>>
                                /\ \A shown \in Response(w) : \E i \in Stored :
                                     shown = [store[i] EXCEPT !.public = shown.public]
                      /\ r.op = "get" /\ Status(w) = 404 =>
                           \A node \in mine : node.public = "false"
    BY DEF AnswersTrue
  <2> DEFINE r == req[w]
  <2>1. Meant(w) = key[w]
    BY KeyMeant
  <2>2. Truthful(w)
    OBVIOUS
  <2>3. ASSUME r.op \in {"get", "query"}, err[w] = "NO_ERROR"
        PROVE  /\ rows[w] # <<>>
               /\ \A shown \in Response(w) : \E i \in Stored :
                    shown = [store[i] EXCEPT !.public = shown.public]
    <3>1. ASSUME NEW j \in DOMAIN rows[w]
          PROVE  \E i \in Stored : Shown(rows[w][j]) =
                   [store[i] EXCEPT !.public = Shown(rows[w][j]).public]
      <4>1. PICK i \in Stored : rows[w][j] = store[i]
        BY <2>2, <2>3, <3>1 DEF Truthful
      <4>2. store[i] \in Node
        BY <4>1 DEF HandlingInv, TypeOK, Stored
      <4>3. Shown(store[i]) = [store[i] EXCEPT !.public = Shown(store[i]).public]
        BY <4>2 DEF Shown, Node
      <4> QED
        BY <4>1, <4>3
    <3>2. rows[w] # <<>>
      BY <2>2, <2>3 DEF Truthful
    <3> QED
      BY <3>1, <3>2 DEF Response
  <2>4. Status(w) = 404 => err[w] = "NOT_FOUND"
    BY DEF Status
  <2>5. ASSUME err[w] = "NO_ERROR"
        PROVE  /\ r.op \in {"post", "put"} =>
                    \E node \in {store[i] : i \in Holding(key[w])} : Reflects(node, r)
               /\ r.op \in {"update", "asset_add", "asset_del"} =>
                    \A node \in {store[i] : i \in Holding(key[w])} : Reflects(node, r)
               /\ r.op = "delete" => {store[i] : i \in Holding(key[w])} = {}
    BY <2>2, <2>5 DEF Truthful
  <2>6. r.op = "get" /\ Status(w) = 404 =>
          \A node \in {store[i] : i \in Holding(key[w])} : node.public = "false"
    BY <2>2, <2>4 DEF Truthful
  <2> QED
    BY ZenonT(60), <2>1, <2>3, <2>5, <2>6
<1> QED
  BY <1>1, <1>2, <1>3, AlwaysHandling, PTL DEF Spec

-----------------------------------------------------------------------------
(* Pages. *)

LEMMA RankIsNumber ==
  ASSUME NEW k \in Keys \cup Fresh
  PROVE  Rank(k) \in Nat
<1>1. \E i \in DOMAIN KeyOrder : KeyOrder[i] = k
  BY KeysOrdered
<1>2. Rank(k) \in DOMAIN KeyOrder
  BY <1>1 DEF Rank
<1>3. DOMAIN KeyOrder = 1..Len(KeyOrder) /\ Len(KeyOrder) \in Nat
  BY KeysOrdered
<1> QED
  BY <1>2, <1>3

\* Of nodes in the order of their keys, fewer than p have a key before that of
\* the p-th, and at least p have one that is not after it.
LEMMA PlaceInOrder ==
  ASSUME NEW I, IsFiniteSet(I), \A i \in I : store[i] \in Node,
         NEW s \in KeyOrders(I), NEW p \in 1..Cardinality(I)
  PROVE  LET k == store[s[p]].key IN
         /\ Cardinality({i \in I : Rank(store[i].key) < Rank(k)}) < p
         /\ Cardinality({i \in I : Rank(store[i].key) <= Rank(k)}) >= p
<1> DEFINE n == Cardinality(I)
           k == store[s[p]].key
           Before == {i \in I : Rank(store[i].key) < Rank(k)}
           Upto == {i \in I : Rank(store[i].key) <= Rank(k)}
           First(q) == {s[i] : i \in 1..q}
<1>1. /\ n \in Nat /\ s \in [1..n -> I]
      /\ \A i, j \in 1..n : s[i] = s[j] => i = j
      /\ \A x \in I : \E i \in 1..n : s[i] = x
  BY OrderOf DEF KeyOrders
<1>2. \A i, j \in 1..n : i < j => Rank(store[s[i]].key) <= Rank(store[s[j]].key)
  BY <1>1 DEF KeyOrders
<1>3. \A i \in I : Rank(store[i].key) \in Nat
  BY RankIsNumber DEF Node
<1>4. p \in Nat /\ p >= 1 /\ p <= n /\ s[p] \in I
  BY <1>1
<1>5. ASSUME NEW q \in 0..n
      PROVE  IsFiniteSet(First(q)) /\ Cardinality(First(q)) = q
  <2> DEFINE f == [i \in 1..q |-> s[i]]
  <2>1. IsFiniteSet(1..q) /\ Cardinality(1..q) = q
    BY FS_Interval
  <2>2. f \in Surjection(1..q, First(q))
    BY DEF Surjection
  <2>3. f \in Injection(1..q, First(q))
    <3>1. \A i, j \in 1..q : f[i] = f[j] => i = j
      BY <1>1
    <3>2. f \in [1..q -> First(q)]
      OBVIOUS
    <3> QED
      BY <3>1, <3>2 DEF Injection, IsInjective
  <2> HIDE DEF f, First
  <2> QED
    BY <2>1, <2>2, <2>3, FS_Surjection
<1>6. Before \subseteq First(p - 1)
  <2> SUFFICES ASSUME NEW x \in I, Rank(store[x].key) < Rank(k)
               PROVE  x \in First(p - 1)
    OBVIOUS
  <2>1. PICK i \in 1..n : s[i] = x
    BY <1>1
  <2>2. i # p
    BY <1>3, <1>4, <2>1
  <2>3. ~(p < i)
    <3>1. p < i => Rank(k) <= Rank(store[x].key)
      BY <1>2, <1>4, <2>1
    <3> QED
      BY <1>3, <1>4, <3>1
  <2>4. i \in 1..(p - 1)
    BY <1>1, <1>4, <2>2, <2>3
  <2> QED
    BY <2>1, <2>4
<1>7. First(p) \subseteq Upto
  <2> SUFFICES ASSUME NEW i \in 1..p
               PROVE  s[i] \in I /\ Rank(store[s[i]].key) <= Rank(k)
    OBVIOUS
  <2>1. i \in 1..n /\ s[i] \in I
    BY <1>1, <1>4
  <2>2. CASE i < p
    BY <1>2, <1>4, <2>1, <2>2
  <2>3. CASE i = p
    BY <1>3, <1>4, <2>3
  <2> QED
    BY <1>4, <2>1, <2>2, <2>3
<1>8. Cardinality(Before) < p
  <2>1. p - 1 \in 0..n
    BY <1>1, <1>4
  <2>2. IsFiniteSet(First(p - 1)) /\ Cardinality(First(p - 1)) = p - 1
    BY <1>5, <2>1
  <2>3. IsFiniteSet(Before) /\ Cardinality(Before) <= p - 1
    <3> HIDE DEF Before, First
    <3> QED BY <1>6, <2>2, FS_Subset
  <2>4. Cardinality(Before) \in Nat
    <3> HIDE DEF Before
    <3> QED BY <2>3, FS_CardinalityType
  <2> QED
    <3> HIDE DEF Before
    <3> QED BY <1>4, <2>3, <2>4
<1>9. Cardinality(Upto) >= p
  <2>1. IsFiniteSet(First(p)) /\ Cardinality(First(p)) = p
    BY <1>1, <1>4, <1>5
  <2>2. IsFiniteSet(Upto)
    BY FS_Subset
  <2>3. Cardinality(Upto) \in Nat
    <3> HIDE DEF Upto
    <3> QED BY <2>2, FS_CardinalityType
  <2>4. Cardinality(First(p)) <= Cardinality(Upto)
    <3> HIDE DEF Upto, First
    <3> QED BY <1>7, <2>2, FS_Subset
  <2> QED
    <3> HIDE DEF Upto, First
    <3> QED BY <1>4, <2>1, <2>3, <2>4
<1> QED
  BY <1>8, <1>9

\* PagesTile for one worker.
Tiled(w) ==
  LET start == msg[w].start
      Before(k) == {i \in Selection(w) : Rank(store[i].key) < Rank(k)}
      Upto(k) == {i \in Selection(w) : Rank(store[i].key) <= Rank(k)}
      answered == /\ req[w].op = "query" /\ pc[w] = "respond" /\ ~disturbed[w]
                  /\ err[w] # "PROCESSING_ERROR"
                  /\ key[w] = NoKey /\ ~ByDistance(w) IN
  answered =>
    /\ \A i \in DOMAIN rows[w] :
         /\ Cardinality(Before(rows[w][i].key)) < start + i
         /\ Cardinality(Upto(rows[w][i].key)) >= start + i
    /\ Len(rows[w]) < Min({msg[w].records, DefaultRecords}) =>
         Cardinality(Selection(w)) <= start + Len(rows[w])

LEMMA PageTiles ==
  ASSUME HandlingInv, NEW w \in Workers, key[w] = NoKey, ~ByDistance(w),
         NEW after, NEW code, RowsAre(w, after, code)
  PROVE  /\ \A i \in DOMAIN after :
              /\ Cardinality({x \in Selection(w) :
                                Rank(store[x].key) < Rank(after[i].key)}) < msg[w].start + i
              /\ Cardinality({x \in Selection(w) :
                                Rank(store[x].key) <= Rank(after[i].key)}) >= msg[w].start + i
         /\ Len(after) < Min({msg[w].records, DefaultRecords}) =>
              Cardinality(Selection(w)) <= msg[w].start + Len(after)
<1> DEFINE I == Selection(w)
           n == Cardinality(I)
<1>1. PICK s \in Seq(Ids), first \in Nat, size \in Nat : RowsFrom(w, after, code, I, s, first, size)
  BY DEF RowsAre, RowsFrom
<1>2. \A i \in I : store[i] \in Node
  BY DEF HandlingInv, TypeOK, Selection, Stored
<1>3. /\ IsFiniteSet(I) /\ n \in Nat /\ s \in KeyOrders(I)
      /\ first = msg[w].start /\ msg[w].records \in Nat
      /\ size = IF n < first THEN 0
                ELSE IF n < first + msg[w].records THEN n - first
                ELSE msg[w].records
      /\ Len(after) = IF DefaultRecords < size THEN DefaultRecords ELSE size
      /\ \A i \in DOMAIN after : first + i \in 1..n /\ after[i] = store[s[first + i]]
  BY <1>1 DEF RowsFrom
<1>4. ASSUME NEW i \in DOMAIN after
      PROVE  /\ Cardinality({x \in I : Rank(store[x].key) < Rank(after[i].key)}) < first + i
             /\ Cardinality({x \in I : Rank(store[x].key) <= Rank(after[i].key)}) >= first + i
  <2>1. first + i \in 1..n /\ after[i] = store[s[first + i]]
    BY <1>3
  <2> DEFINE p == first + i
  <2>2. p \in 1..Cardinality(I) /\ s \in KeyOrders(I)
    BY <1>3, <2>1
  <2>3. /\ Cardinality({x \in I : Rank(store[x].key) < Rank(store[s[p]].key)}) < p
        /\ Cardinality({x \in I : Rank(store[x].key) <= Rank(store[s[p]].key)}) >= p
    <3>1. IsFiniteSet(I)
      BY <1>3
    <3>2. \A x \in I : store[x] \in Node
      BY <1>2
    <3> HIDE DEF I, p
    <3> QED BY <2>2, <3>1, <3>2, PlaceInOrder
  <2> QED
    BY <2>1, <2>3
<1>5. ASSUME Len(after) < Min({msg[w].records, DefaultRecords})
      PROVE  n <= first + Len(after)
  <2>1. DefaultRecords \in Nat
    BY BoundsAreNumbers
  <2>2. \A a, b \in Nat : Min({a, b}) = IF a <= b THEN a ELSE b
    <3>1. ASSUME NEW a \in Nat, NEW b \in Nat
          PROVE  Min({a, b}) = IF a <= b THEN a ELSE b
      <4> DEFINE m == IF a <= b THEN a ELSE b
      <4>1. m \in {a, b} /\ \A y \in {a, b} : m <= y
        OBVIOUS
      <4>2. \A y \in {a, b} : (\A z \in {a, b} : y <= z) => y = m
        OBVIOUS
      <4> QED
        BY <4>1, <4>2 DEF Min
    <3> QED
      BY <3>1
  <2>3. Len(after) \in Int
    BY <1>3, <2>1
  <2>4. Min({msg[w].records, DefaultRecords}) =
          IF msg[w].records <= DefaultRecords THEN msg[w].records ELSE DefaultRecords
    BY <1>3, <2>1, <2>2
  <2>5. Len(after) < msg[w].records /\ Len(after) < DefaultRecords
    BY SMTT(30), <1>3, <1>5, <2>1, <2>3, <2>4
  <2> HIDE DEF n
  <2> QED
    BY <1>3, <2>1, <2>5
<1> QED
  BY <1>3, <1>4, <1>5

\* Pages tile what a query finds: each scene that is shown has the place in
\* the order of the keys that the start of the page and its place in the page
\* give it, and a page that is shorter than was asked for, and than a response
\* can be, is the last one.
THEOREM StorePagesTile == Spec => []PagesTile
<1> DEFINE AllTiled == \A w \in Workers : Tiled(w)
<1>0. AllTiled => PagesTile
  BY DEF Tiled, PagesTile
<1>1. Init => AllTiled
  BY DEF Init, Tiled
<1>2. ASSUME HandlingInv, AllTiled, [Next]_vars
      PROVE  AllTiled'
  <2>0. CASE UNCHANGED vars
    BY <1>2, <2>0 DEF vars, requestVars, answerVars, Tiled, ByDistance, Selection, Stored
  <2>1. ASSUME NEW w \in Workers, Step(w)
        PROVE  AllTiled'
    <3>1. ASSUME NEW v \in Workers, v # w
          PROVE  Tiled(v)'
      <4> SUFFICES ASSUME pc[v] = "respond", ~disturbed'[v], key[v] = NoKey
                   PROVE  Tiled(v)'
        BY <1>2, <2>1, <3>1, StepOfOther DEF Tiled
      <4>1. /\ req'[v] = req[v] /\ msg'[v] = msg[v] /\ pc'[v] = pc[v] /\ key'[v] = key[v]
            /\ err'[v] = err[v] /\ rows'[v] = rows[v]
        BY <1>2, <2>1, <3>1, StepOfOther
      <4>2. ~disturbed[v] /\ store' = store
        BY <1>2, <2>1, <3>1, HeldStay
      <4>3. Tiled(v)
        BY <1>2
      <4> QED
        BY <4>1, <4>2, <4>3 DEF Tiled, ByDistance, Selection, Stored
    <3>2. Tiled(w)'
      <4>1. CASE \/ \E r \in Asked : Begin(w, r)
                 \/ QueryMalformed(w) \/ QueryLost(w) \/ QueryFails(w) \/ Respond(w)
        <5>1. pc'[w] # "respond" \/ err'[w] = "PROCESSING_ERROR"
          <6>1. CASE \E r \in Asked : Begin(w, r)
            BY <1>2, <6>1 DEF Begin, HandlingInv, TypeOK
          <6>2. CASE QueryMalformed(w) \/ QueryFails(w)
            BY <1>2, <6>2 DEF QueryMalformed, QueryFails, Answer, HandlingInv, TypeOK
          <6>3. CASE QueryLost(w)
            BY <1>2, <6>3 DEF QueryLost, Fault, HandlingInv, TypeOK
          <6>4. CASE Respond(w)
            BY <1>2, <6>4 DEF Respond, HandlingInv, TypeOK
          <6> QED
            BY <4>1, <6>1, <6>2, <6>3, <6>4
        <5> QED
          BY <5>1 DEF Tiled
      <4>2. CASE Change(w)
        <5>1. req'[w] = req[w] /\ msg[w].type # "GET"
          BY <4>2 DEF Change, requestVars
        <5>2. req[w].op # "query"
          BY <1>2, <5>1, QueryOf, MessageOf, TypeOf DEF HandlingInv, Handling
        <5> QED
          BY <5>1, <5>2 DEF Tiled
      <4>3. CASE Retrieve(w)
        <5>1. PICK after \in Seq(Node), code \in Errors :
                rows' = [rows EXCEPT ![w] = after] /\ RowsAre(w, after, code)
          BY <1>2, <4>3, Retrieved
        <5>2. rows'[w] = after /\ UNCHANGED <<store, msg, key>>
          BY <1>2, <4>3, <5>1 DEF Retrieve, requestVars, HandlingInv, TypeOK
        <5>3. /\ ByDistance(w)' = ByDistance(w)
              /\ Selection(w)' = Selection(w)
          BY <5>2 DEF ByDistance, Selection, Stored
        <5>4. CASE key[w] = NoKey /\ ~ByDistance(w)
          <6>1. /\ \A i \in DOMAIN after :
                     /\ Cardinality({x \in Selection(w) :
                          Rank(store[x].key) < Rank(after[i].key)}) < msg[w].start + i
                     /\ Cardinality({x \in Selection(w) :
                          Rank(store[x].key) <= Rank(after[i].key)}) >= msg[w].start + i
                /\ Len(after) < Min({msg[w].records, DefaultRecords}) =>
                     Cardinality(Selection(w)) <= msg[w].start + Len(after)
            BY <1>2, <5>1, <5>4, PageTiles
          <6> QED
            BY <5>2, <5>3, <6>1 DEF Tiled
        <5>5. CASE ~(key[w] = NoKey /\ ~ByDistance(w))
          BY <5>2, <5>3, <5>5 DEF Tiled
        <5> QED
          BY <5>4, <5>5
      <4> QED
        BY <2>1, <4>1, <4>2, <4>3 DEF Step
    <3> QED
      BY <3>1, <3>2
  <2> QED
    BY <1>2, <2>0, <2>1 DEF Next, Step
<1> QED
  BY <1>0, <1>1, <1>2, AlwaysHandling, PTL DEF Spec

=============================================================================
