---------------------------- MODULE SceneStore -----------------------------
(***************************************************************************)
(* The scene documents: how the HTTP handlers turn a request into one      *)
(* query, which properties the query names and which parameters are given  *)
(* with it, and what it does to the Scene nodes that Neo4j holds.          *)
(*                                                                         *)
(* A worker thread handles one request, of one query, at a time.  Other    *)
(* workers' queries run between the arrival of a request and its response. *)
(* As in Registration a query can fail, and a query that failed may have   *)
(* been applied; the DatabaseManager (Discover) runs it again.             *)
(*                                                                         *)
(* Of a scene's details the name, the latitude, the assets and the tags    *)
(* stand for all: description, thumbnail and region are written as the     *)
(* name is.                                                                *)
(***************************************************************************)
EXTENDS SceneRoutes, SceneJson, FiniteSets, SequencesExt

CONSTANTS
  Workers,       \* HTTP worker threads
  Keys,          \* keys that clients choose
  Fresh,         \* keys that create_uuid generates
  KeyOrder,      \* the keys as the database orders them
  Ids,           \* bound: the identities that Scene nodes can have
  NoNode,        \* an identity that no node has
  NoDoc,         \* a message without scenes
  Discover,      \* neo4j.discover: queries go through the DatabaseManager
  Asked,         \* bound: the requests that clients make
  MaxFaults,     \* bound: queries that fail
  MaxCopies      \* bound: how often appends store a text in a scene

\* A key "query" is left out: POST /v1/scene/query is a search.
ASSUME KeysAreNames == {NoKey, NoText, "query"} \cap (Keys \cup Fresh) = {}
ASSUME KeysOrdered ==
  /\ KeyOrder \in Seq(Keys \cup Fresh)
  /\ \A k \in Keys \cup Fresh : \E i \in DOMAIN KeyOrder : KeyOrder[i] = k
ASSUME IdsFinite == IsFiniteSet(Ids)
ASSUME BoundsAreNumbers ==
  MaxFaults \in Nat /\ MaxCopies \in Nat /\ DefaultRecords \in Nat \ {0}

\* latitude is -9999 unless given, a distance 0; "below" and "tiny" stand for
\* values under -9999 and under 0.01.
Node == [key : Keys \cup Fresh, public : {"true", "false"}, user : Words,
         name : Words, assets : Arrays, tags : Arrays]
ASSUME WordsGiven == {NoText, "a"} \subseteq Words
ASSUME NoNodeIsNone == NoNode \notin Node

-----------------------------------------------------------------------------
(* What a client asks for, and the request that the API pages give for it. *)

Ops == {"post", "put", "get", "update", "delete", "query", "asset_add",
        "asset_del"}
WithBody == {"post", "put", "update", "query"}

\* list and body: the members of the JSON document and of its first scene.
\* A key is in the path or, if the body of a post or a query has one, there.
NoMembers == [n \in {} |-> 0]

\* Members are of the types that the API pages give them, which are those that
\* are read, and a key that is given is one.
WellTyped(m, reads) ==
  \A i \in DOMAIN reads :
    reads[i].name \in DOMAIN m => m[reads[i].name].type \in reads[i].types
IsDocument(m, reads) ==
  /\ WellTyped(m, reads)
  /\ \A n \in DOMAIN m :
       /\ m[n].type \in Flags => m[n].value \in {"true", "false"}
       /\ n = "name" => m[n].value \in Words
       /\ n \in {"assets", "tags"} => m[n].value \in Arrays
       /\ n = "key" => m[n].value \in Keys
       /\ n \in {"start_record", "num_records"} => m[n].value \in Int

IsRequest(r) ==
  /\ IsDocument(r.list, ListReads)
  /\ r.body # NoDoc => IsDocument(r.body, SceneReads)
  /\ r.op \in Ops
  /\ r.key \in IF r.op \in {"post", "query"} THEN {NoKey}
               ELSE IF r.op = "put" THEN Keys ELSE Keys \cup Fresh
  /\ r.op \notin WithBody => r.list = NoMembers /\ r.body = NoMembers
ASSUME AskedAreRequests == \A r \in Asked : IsRequest(r)

NoRequest == [op |-> "query", key |-> NoKey, list |-> NoMembers, body |-> NoDoc]

Method(r) ==
  CASE r.op \in {"post", "update", "query"} -> "POST"
    [] r.op \in {"put", "asset_add"} -> "PUT"
    [] r.op \in {"delete", "asset_del"} -> "DELETE"
    [] r.op = "get" -> "GET"

Path(r) ==
  CASE r.op = "post" -> <<"v1", "scene">>
    [] r.op = "query" -> <<"v1", "scene", "query">>
    [] r.op \in {"asset_add", "asset_del"} -> <<"v1", "scene", r.key, "asset", "a">>
    [] OTHER -> <<"v1", "scene", r.key>>

-----------------------------------------------------------------------------
(* The handlers: which query, with which key and document. *)

Handled(r) == Route(Method(r), Path(r))

QueryType(r) ==
  LET kind == Handled(r).kind IN
  CASE kind = "SCENE_CRT" -> "CREATE"
    [] kind = "SCENE_GET" -> "GET"
    [] kind \in {"SCENE_UPD", "ASSET_ADD", "ASSET_DEL"} -> "UPDATE"
    [] kind = "SCENE_DEL" -> "DELETE"
    [] OTHER -> "none"

\* The lists and the scenes that the handlers build: from the document that
\* was sent, or new ones.
SentList(r) == Filled(NewList, ListReads, r.list)
SentScene(r) == IF r.body = NoDoc THEN NoDoc
                ELSE Filled(NewScene, SceneReads, r.body)
ASSUME NoDocIsNone == \A r \in Asked : r.body # NoDoc => SentScene(r) # NoDoc

AssetScene == [NewScene EXCEPT !.assets = [NoArray EXCEPT !["a"] = 1]]
AssetList(kind) ==
  [NewList EXCEPT !.operation = IF kind = "ASSET_ADD" THEN "APPEND" ELSE "REMOVE"]
UpdateScene(r) == IF r.body = NoDoc THEN NewScene ELSE SentScene(r)

Scene(r) ==
  LET handler == Handled(r).handler IN
  CASE handler = "base" -> SentScene(r)
    [] handler = "update" -> UpdateScene(r)
    [] handler = "asset" -> AssetScene
    [] OTHER -> NewScene

List(r) ==
  LET h == Handled(r) IN
  CASE h.handler \in {"base", "update"} -> SentList(r)
    [] h.handler = "asset" -> AssetList(h.kind)
    [] OTHER -> NewList

\* The key in the path replaces the one in the body.
MessageKey(r) ==
  CASE Handled(r).key # NoKey -> Handled(r).key
    [] Handled(r).key = NoKey /\ Scene(r) # NoDoc /\ Scene(r).key # NoText ->
         Scene(r).key
    [] OTHER -> NoKey

\* What a handler passes to the processor: the query to make, the first scene
\* of the list and, of the list, what the query depends on.
Message(r) ==
  [type |-> QueryType(r), scene |-> Scene(r), operation |-> List(r).operation,
   start |-> List(r).start_record, records |-> List(r).num_records]
NoMessage == Message(NoRequest)

\* process_*_message refuses these before it makes a query.
Refused(m) ==
  \/ m.scene = NoDoc
  \/ m.type = "GET" /\ m.scene.public = "false" /\ m.scene.user = NoText

-----------------------------------------------------------------------------
(* The text of the query and its parameters are generated apart. *)

NoPlace == {"-9999", "below"}
If(condition, S) == IF condition THEN S ELSE {}

FilterUses(doc) ==
  CASE doc.public = "true" -> {"inp_public"}
    [] doc.public = "false" /\ doc.user # NoText -> {"inp_user"}
    [] OTHER -> {}

ArrayUses(doc) == If(doc.assets # NoArray, {"inp_assets"})
                  \cup If(doc.tags # NoArray, {"inp_tags"})

\* generate_scene_crud_query: the parameters that the query names.
\* Of the operations APPEND and REMOVE alone look at the arrays of an update.
Uses(type, op, key, doc) ==
  CASE type \in {"CREATE", "UPDATE"} ->
         {"inp_key", "inp_active", "inp_public"}
         \cup If(doc.name # NoText, {"inp_name"})
         \cup If(doc.latitude # "-9999", {"inp_lat"})
         \cup If(doc.user # NoText, {"inp_user"})
         \cup If(type = "CREATE" \/ op \in {"APPEND", "REMOVE"}, ArrayUses(doc))
    [] type = "DELETE" -> {"inp_key"}
    [] type = "GET" /\ key # NoKey -> {"inp_key"} \cup FilterUses(doc)
    [] type = "GET" /\ key = NoKey ->
         {"inp_skip", "inp_limit"}
         \cup If(doc.name # NoText, {"inp_name"} \cup FilterUses(doc))
         \cup If(doc.tags # NoArray, {"inp_tags"})
         \cup If(doc.latitude \notin NoPlace /\ doc.distance # "0",
                 {"inp_lat", "inp_distance"})

\* slip: no arrays with an update
GivesAssetsOnce(type, key, doc) ==
  {"inp_key", "inp_active", "inp_public", "inp_name", "inp_lat", "inp_user",
   "inp_distance", "inp_skip", "inp_limit"}
  \cup If(type # "UPDATE", ArrayUses(doc))

\* generate_query_parameters: the parameters that are given with it.  A
\* delete passes no scene.
Gives(type, key, doc) ==
  If(key # NoKey, {"inp_key"})
  \cup If(key = NoKey /\ type = "GET", {"inp_skip", "inp_limit"})
  \cup If(type # "DELETE",
          {"inp_active", "inp_public"}
          \cup If(doc.name # NoText, {"inp_name"})
          \cup If(doc.latitude \notin NoPlace, {"inp_lat"})
          \cup If(doc.distance \notin {"0", "tiny"} /\ type = "GET" /\ key = NoKey,
                  {"inp_distance"})
          \cup If(doc.user # NoText \/ doc.public = "true", {"inp_user"})
          \cup ArrayUses(doc))

-----------------------------------------------------------------------------
VARIABLES
  store,       \* the Scene nodes by their identities
  issued,      \* keys that create_uuid has returned
  pc, req,     \* a worker's place, and its request
  msg,         \* the list that its handler built
  key,         \* the key that its query is about
  err, rows,   \* error code of its response, and the scenes it shows
  faults,      \* queries that failed so far
  failed,      \* history: a query of this request failed
  disturbed    \* history: another request changed a scene of this one's

requestVars == <<req, msg, key>>
answerVars == <<err, rows>>
vars == <<store, issued, pc, requestVars, answerVars, faults, failed,
          disturbed>>

Errors == {"NO_ERROR", "PROCESSING_ERROR", "NOT_FOUND"}

TypeOK ==
  /\ store \in [Ids -> Node \cup {NoNode}]
  /\ issued \subseteq Fresh
  /\ pc \in [Workers -> {"idle", "query", "respond"}]
  /\ req \in [Workers -> Asked \cup {NoRequest}]
  /\ \A w \in Workers : msg[w].type \in {"CREATE", "GET", "UPDATE", "DELETE"}
  /\ key \in [Workers -> Keys \cup Fresh \cup {NoKey}]
  /\ err \in [Workers -> Errors]
  /\ rows \in [Workers -> Seq(Node)]
  /\ faults \in 0..MaxFaults
  /\ failed \in [Workers -> BOOLEAN]
  /\ disturbed \in [Workers -> BOOLEAN]

Init ==
  /\ store = [i \in Ids |-> NoNode]
  /\ issued = {}
  /\ pc = [w \in Workers |-> "idle"]
  /\ req = [w \in Workers |-> NoRequest]
  /\ msg = [w \in Workers |-> NoMessage]
  /\ key = [w \in Workers |-> NoKey]
  /\ err = [w \in Workers |-> "NO_ERROR"]
  /\ rows = [w \in Workers |-> <<>>]
  /\ faults = 0
  /\ failed = [w \in Workers |-> FALSE]
  /\ disturbed = [w \in Workers |-> FALSE]

-----------------------------------------------------------------------------
(* What a query does to the nodes, and what it shows of them. *)

\* slip: the user is looked at, the public flag is not
VisibleByUser(doc, node) == doc.user # NoText => node.user = doc.user
Visible(doc, node) ==
  IF doc.public = "true" THEN node.public = "true"
                         ELSE doc.user # NoText => node.user = doc.user

\* Without a name the query has no properties to filter by.  By key it takes
\* no notice of tags.
Selected(k, doc, node) ==
  IF k # NoKey
  THEN node.key = k /\ Visible(doc, node)
  ELSE /\ doc.name # NoText => node.name = doc.name /\ Visible(doc, node)
       /\ Elements(doc.tags) \subseteq Elements(node.tags)

NewNode(k, doc) == [key |-> k, public |-> doc.public, user |-> doc.user,
                    name |-> doc.name, assets |-> doc.assets, tags |-> doc.tags]

\* An array of a node, old, after an update that brings another one: an array
\* without elements is not looked at, nor any with another operation.
Combined(old, given, op) ==
  CASE op = "APPEND" -> [t \in Words |-> old[t] + given[t]]
    [] op = "REMOVE" -> [t \in Words |-> IF given[t] = 0 THEN old[t] ELSE 0]
    [] OTHER -> old

\* slip: the fields of the document, given or not
UpdatedWhole(node, doc, op) == NewNode(node.key, doc)
Updated(node, doc, op) ==
  [node EXCEPT
     !.public = doc.public,
     !.name = IF doc.name # NoText THEN doc.name ELSE @,
     !.user = IF doc.user # NoText THEN doc.user ELSE @,
     !.assets = Combined(@, doc.assets, op),
     !.tags = Combined(@, doc.tags, op)]

Stored == {i \in Ids : store[i] # NoNode}
Holding(k) == {i \in Stored : store[i].key = k}

UpdateAll(k, doc, op) ==
  [i \in Ids |-> IF i \in Holding(k) THEN Updated(store[i], doc, op) ELSE store[i]]

Delete(k) == [i \in Ids |-> IF i \in Holding(k) THEN NoNode ELSE store[i]]

\* assign_scene_properties copies the properties of a node to the document
\* that is sent back.  It leaves public out: each scene is shown as public.
Shown(node) == [node EXCEPT !.public = NewScene.public]

\* The orders in which the rows of a set of nodes may come; those of a query
\* without a key come in the order of the keys.
Rank(k) == CHOOSE i \in DOMAIN KeyOrder : KeyOrder[i] = k
Orders(I) == SetToSeqs(I)
KeyOrders(I) ==
  {s \in Orders(I) : \A i, j \in DOMAIN s :
     i < j => Rank(store[s[i]].key) <= Rank(store[s[j]].key)}

\* SKIP start_record LIMIT num_records
PageAfterLimit(m, s) ==               \* slip: the two values exchanged
  SubSeq(s, m.records + 1, Len(s))
Page(m, s) == SubSeq(s, m.start + 1, Min({m.start + m.records, Len(s)}))

\* The rows go into a new list, of which to_msg_string writes what that
\* list's own num_records allows.
Printed(s) == SubSeq(s, 1, Returned(NewList, Len(s)))

\* What the store can be after the query of w: a new node may get any identity
\* that is free.
Creations(k, doc) ==
  {[store EXCEPT ![i] = NewNode(k, doc)] : i \in Ids \ Stored}
AppliedOwnKey(w) ==                 \* slip: the key of the message for a create
  IF msg[w].type = "CREATE"
  THEN Creations(MessageKey(req[w]), msg[w].scene) ELSE {store}
Applied(w) ==
  LET m == msg[w] IN
  CASE m.type = "CREATE" -> Creations(key[w], m.scene)
    [] m.type = "UPDATE" -> {UpdateAll(key[w], m.scene, m.operation)}
    [] m.type = "DELETE" -> {Delete(key[w])}
    [] m.type = "GET" -> {store}

-----------------------------------------------------------------------------
Creating == {w \in Workers : pc[w] = "query" /\ msg[w].type = "CREATE"}
Room == Cardinality(Creating) < Cardinality(Ids \ Stored)

\* The bound on the copies of a text, as Room is that on the nodes.
Appends(m) == /\ m.type = "UPDATE" /\ m.operation = "APPEND"
              /\ m.scene.assets # NoArray \/ m.scene.tags # NoArray
Appending == {w \in Workers : pc[w] = "query" /\ Appends(msg[w])}
Few == \A i \in Stored, field \in {"assets", "tags"}, t \in Words :
         store[i][field][t] + Cardinality(Appending) < MaxCopies

Disturb(w) ==
  disturbed' = [v \in Workers |->
    \/ disturbed[v]
    \/ /\ v # w /\ pc[v] # "idle" /\ store' # store
       /\ key[v] \in {key[w], NoKey}]

\* The request goes to its handler, which reads the document and builds the
\* query.  A create without a key generates one.
Begin(w, r) ==
  LET m == Message(r) IN
  /\ pc[w] = "idle"
  /\ m.type = "CREATE" => Room
  /\ Appends(m) => Few
  /\ req' = [req EXCEPT ![w] = r]
  /\ msg' = [msg EXCEPT ![w] = m]
  /\ \E k \in IF m.type = "CREATE" /\ MessageKey(r) = NoKey /\ ~Refused(m)
              THEN Fresh \ issued ELSE {MessageKey(r)} :
       /\ key' = [key EXCEPT ![w] = k]
       /\ issued' = issued \cup ({k} \cap Fresh)
  /\ IF Refused(m)
     THEN /\ pc' = [pc EXCEPT ![w] = "respond"]
          /\ err' = [err EXCEPT ![w] = "PROCESSING_ERROR"]
     ELSE pc' = [pc EXCEPT ![w] = "query"] /\ UNCHANGED err
  /\ UNCHANGED <<store, rows, faults, failed, disturbed>>

Respond(w) ==
  /\ pc[w] = "respond"
  /\ pc' = [pc EXCEPT ![w] = "idle"]
  /\ req' = [req EXCEPT ![w] = NoRequest]
  /\ msg' = [msg EXCEPT ![w] = NoMessage]
  /\ key' = [key EXCEPT ![w] = NoKey]
  /\ err' = [err EXCEPT ![w] = "NO_ERROR"]
  /\ rows' = [rows EXCEPT ![w] = <<>>]
  /\ failed' = [failed EXCEPT ![w] = FALSE]
  /\ disturbed' = [disturbed EXCEPT ![w] = FALSE]
  /\ UNCHANGED <<store, issued, faults>>

\* A query that names a parameter it is not given, or that skips or takes a
\* negative number of rows, is refused by Neo4j, each time it is tried.
WellFormed(w) ==
  LET m == msg[w]
      uses == Uses(m.type, m.operation, key[w], m.scene) IN
  /\ uses \subseteq Gives(m.type, key[w], m.scene)
  /\ "inp_skip" \in uses => m.start >= 0 /\ m.records >= 0

AtQuery(w, type) == pc[w] = "query" /\ msg[w].type = type
Answer(w, code) ==
  /\ pc' = [pc EXCEPT ![w] = "respond"]
  /\ err' = [err EXCEPT ![w] = code]

QueryMalformed(w) ==
  /\ pc[w] = "query" /\ ~WellFormed(w)
  /\ Answer(w, "PROCESSING_ERROR")
  /\ UNCHANGED <<store, issued, requestVars, rows, faults, failed,
                 disturbed>>

\* A create, an update or a delete; that it finds no node is no error.
Change(w) ==
  /\ pc[w] = "query" /\ WellFormed(w) /\ msg[w].type # "GET"
  /\ store' \in Applied(w)
  /\ Disturb(w)
  /\ Answer(w, "NO_ERROR")
  /\ UNCHANGED <<issued, requestVars, rows, faults, failed>>

\* process_retrieve_message.  Which scenes lie within a distance is left
\* open: any of those selected may.
Selection(w) ==
  {i \in Stored : Selected(key[w], msg[w].scene, store[i])}
ByDistance(w) ==
  "inp_distance" \in Uses("GET", msg[w].operation, key[w], msg[w].scene)

Pages(w, I) == IF key[w] # NoKey THEN Orders(I)
               ELSE {Page(msg[w], s) : s \in KeyOrders(I)}

Retrieve(w) ==
  /\ AtQuery(w, "GET") /\ WellFormed(w)
  /\ \E I \in IF ByDistance(w) THEN SUBSET Selection(w) ELSE {Selection(w)} :
       \E page \in Pages(w, I) :
         /\ rows' = [rows EXCEPT ![w] =
                       Printed([i \in DOMAIN page |-> store[page[i]]])]
         /\ Answer(w, IF page = <<>> THEN "NOT_FOUND" ELSE "NO_ERROR")
  /\ UNCHANGED <<store, issued, requestVars, faults, failed,
                 disturbed>>

Fault(w) ==
  /\ pc[w] = "query" /\ WellFormed(w) /\ faults < MaxFaults
  /\ faults' = faults + 1
  /\ failed' = [failed EXCEPT ![w] = TRUE]

\* The manager gets no answer to a query that was applied, and tries again.
QueryLost(w) ==
  /\ Fault(w) /\ Discover /\ msg[w].type # "GET"
  /\ msg[w].type = "CREATE" => Room
  /\ Appends(msg[w]) => Few
  /\ store' \in Applied(w)
  /\ Disturb(w)
  /\ UNCHANGED <<issued, pc, requestVars, answerVars>>

\* The request ends without an answer of the database, its query applied or
\* not.
QueryFails(w) ==
  /\ Fault(w)
  /\ UNCHANGED store \/ store' \in Applied(w)
  /\ Disturb(w)
  /\ Answer(w, "PROCESSING_ERROR")
  /\ UNCHANGED <<issued, requestVars, rows>>

Next ==
  \E w \in Workers :
    \/ \E r \in Asked : Begin(w, r)
    \/ QueryMalformed(w) \/ Change(w) \/ Retrieve(w)
    \/ QueryLost(w) \/ QueryFails(w)
    \/ Respond(w)

Spec == Init /\ [][Next]_vars

-----------------------------------------------------------------------------
(* Safety. *)

InRange(m) ==
  /\ m.scene.latitude # "below" /\ m.scene.distance # "tiny"
  /\ m.start >= 0 /\ m.records >= 0

\* The two generators agree: a request whose values are in range, that brings
\* a scene and says whose scenes it asks for, is only answered with
\* PROCESSING_ERROR when the database failed it.  Each query is put together
\* in one function and its parameters in another, whose conditions differ
\* field by field; at the values that InRange leaves out they disagree.  A
\* database with the uniqueness constraint that the deployment page recommends
\* refuses a create of a key that a node has: it fails the query.
NoFalseError ==
  \A w \in Workers :
    err[w] = "PROCESSING_ERROR" =>
      failed[w] \/ Refused(msg[w]) \/ ~InRange(msg[w])

\* Who asks by key or by name is shown public scenes only, and only scenes
\* that have this key or this name, whatever else the request says: a request
\* for private scenes by user is refused, as its user is not read.  Who gives
\* tags, and no key, is shown scenes that have them all.
RowsConfined ==
  \A w \in Workers :
    LET doc == msg[w].scene
        named == key[w] = NoKey /\ doc.name # NoText IN
    msg[w].type = "GET" /\ doc # NoDoc =>
      \A i \in DOMAIN rows[w] :
        /\ key[w] # NoKey \/ named => rows[w][i].public = "true"
        /\ key[w] # NoKey => rows[w][i].key = key[w]
        /\ named => rows[w][i].name = doc.name
        /\ key[w] = NoKey => Elements(doc.tags) \subseteq Elements(rows[w][i].tags)

\* Pages tile what a query finds: each scene that is shown has the place in
\* the order of the keys that the start of the page and its place in the page
\* give it, and a page that is shorter than was asked for, and than a response
\* can be, is the last one.  The start, the length and the number of scenes
\* that are written come from three lists.
PagesTile ==
  \A w \in Workers :
    LET start == msg[w].start
        Before(k) == {i \in Selection(w) : Rank(store[i].key) < Rank(k)}
        Upto(k) == {i \in Selection(w) : Rank(store[i].key) <= Rank(k)}
        answered == /\ req[w].op = "query" /\ pc[w] = "respond" /\ ~disturbed[w]
                    /\ err[w] # "PROCESSING_ERROR"
                    /\ key[w] = NoKey /\ ~ByDistance(w) IN
    answered =>
      /\ \A i \in DOMAIN rows[w] :
           /\ Cardinality(Before(rows[w][i].key)) < start + i
           /\ Cardinality(Upto(rows[w][i].key)) >= start + i
      /\ Len(rows[w]) < Min({msg[w].records, DefaultRecords}) =>
           Cardinality(Selection(w)) <= start + Len(rows[w])

\* The comment of the query generator: a query is for the private scenes of
\* the user, or for public ones only.  Without key, name and region it is for
\* all scenes.
QueryConfined ==
  \A w \in Workers :
    msg[w].scene # NoDoc /\ msg[w].scene.public = "true" =>
      \A i \in DOMAIN rows[w] : rows[w][i].public = "true"

\* Status line: the asset handler sets none.
Status(w) ==
  CASE Handled(req[w]).handler = "asset" \/ err[w] = "NO_ERROR" -> 200
    [] Handled(req[w]).handler # "asset" /\ err[w] = "NOT_FOUND" -> 404
    [] OTHER -> 500

Response(w) == {Shown(rows[w][i]) : i \in DOMAIN rows[w]}

\* What the JSON members of the request say of a scene, but for its user.  An
\* empty text says nothing.  An update adds the elements of its arrays to those
\* of the scene, or takes them away: an append that runs twice adds them twice.
Says(r, n) == n \in DOMAIN r.body /\ r.body[n].value # NoText
SaysPublic(r) ==
  CASE Says(r, "private") -> IF r.body.private.value = "true" THEN "false" ELSE "true"
    [] ~Says(r, "private") /\ Says(r, "public") -> r.body.public.value
    [] OTHER -> "true"

Listed(r, n) == IF n \in DOMAIN r.body THEN r.body[n].value ELSE NoArray

Reflects(node, r) ==
  /\ r.op = "asset_add" => "a" \in Elements(node.assets)
  /\ r.op = "asset_del" => "a" \notin Elements(node.assets)
  /\ r.op \in {"post", "put", "update"} /\ r.body # NoDoc =>
       /\ node.public = SaysPublic(r)
       /\ Says(r, "name") => node.name = r.body.name.value
       /\ r.op = "update" => \A n \in {"assets", "tags"} :
            /\ List(r).operation = "APPEND" => \A t \in Words : Listed(r, n)[t] <= node[n][t]
            /\ List(r).operation = "REMOVE" =>
                 Elements(Listed(r, n)) \cap Elements(node[n]) = {}
       /\ r.op # "update" =>
            /\ node.name # NoText => Says(r, "name")
            /\ \A n \in {"assets", "tags"} : node[n] = Listed(r, n)

\* The key that the client of w asks about, or else the one generated for it.
Meant(w) ==
  LET r == req[w] IN
  CASE r.key # NoKey -> r.key
    [] r.key = NoKey /\ r.body # NoDoc /\ Says(r, "key") -> r.body.key.value
    [] OTHER -> key[w]

\* The answer tells what happened, as long as no other request changed the
\* scene in between: after a 200 a created scene is there as it was sent,
\* every scene with the key of an update shows it and none with the key of a
\* delete is left; a scene that a get or a query shows is there and, but for
\* its public flag, as it is shown; and a get that finds nothing says so only
\* when no public scene has the key.  Whatever the client asked must come
\* through the JSON document, the path, the handler, the query and, when an
\* answer is lost, the second try.
AnswersTrue ==
  \A w \in Workers :
    LET r == req[w]
        mine == {store[i] : i \in Holding(Meant(w))} IN
    pc[w] = "respond" /\ ~disturbed[w] =>
      /\ Status(w) = 200 /\ err[w] = "NO_ERROR" =>
           /\ r.op \in {"post", "put"} => \E node \in mine : Reflects(node, r)
           /\ r.op \in {"update", "asset_add", "asset_del"} =>
                \A node \in mine : Reflects(node, r)
           /\ r.op = "delete" => mine = {}
           /\ r.op \in {"get", "query"} =>
                /\ rows[w] # <<>>
                /\ \A shown \in Response(w) : \E i \in Stored :
                     shown = [store[i] EXCEPT !.public = shown.public]
      /\ r.op = "get" /\ Status(w) = 404 => \A node \in mine : node.public = "false"

\* A step only changes nodes that have, or get, the key of a request whose
\* query it runs; a node that stays keeps its key, no update takes a name or
\* an owner away from it, and none takes away an asset or a tag, or a copy of
\* one, but those that a request with the operation REMOVE names.
KeyOf(i) == IF store[i] = NoNode THEN NoKey ELSE store[i].key
Removes(w, i, field, t) ==
  /\ pc[w] = "query" /\ key[w] = KeyOf(i)
  /\ msg[w].type = "UPDATE" /\ msg[w].operation = "REMOVE"
  /\ t \in Elements(msg[w].scene[field])
ChangesOwn ==
  [][\A i \in Ids :
       /\ store'[i] # store[i] =>
            \E w \in Workers : /\ pc[w] = "query" /\ key[w] # NoKey
                              /\ key[w] \in {KeyOf(i), KeyOf(i)'}
       /\ i \in Stored /\ i \in Stored' =>
            /\ store'[i].key = store[i].key
            /\ store[i].name # NoText => store'[i].name # NoText
            /\ store[i].user # NoText => store'[i].user # NoText
            /\ \A field \in {"assets", "tags"}, t \in Words :
                 \/ store[i][field][t] <= store'[i][field][t]
                 \/ \E w \in Workers : Removes(w, i, field, t)]_vars
=============================================================================
