# Crazy Ivan in TLA+

Crazy Ivan keeps scenes, the devices registered to them and the coordinate
transforms between them in Neo4j, serves them over HTTP, and forwards UDP
events about a scene to the devices registered to it.  This directory models
the parts of `src/src` in which threads, queries and failures meet, checks the
models with TLC, and proves with TLAPS, for any number of threads, scenes,
devices and failures, every safety property that TLC checks.

Paths below are relative to `src/src` unless they say otherwise.

## The system

One process runs these threads, started in `CrazyIvan::main`
(`app/include/ivan_application.h`), which then serves HTTP until it is told to
stop, clears `is_app_running` and waits for the event stream:

* HTTP workers, one request each at a time, from Poco's default thread pool;
* the loader (`load_data`), which refreshes the cache every five seconds;
* the event stream (`event_stream`), which receives UDP messages and has each
  sent on by an `EventSender`, on a thread of the same default pool or, when
  that has none to spare, on its own.

| part | state | operations | talks to |
|---|---|---|---|
| **Cache entry** `DeviceCacheEntry` (`cache/include/device_cache.h`) | two copies of an address list, the id of the published one, a counter of readers per copy, `write_guard` | `get_addresses` (no lock), `set_addresses` | called by the event senders and the loader through the device cache |
| **Device cache** `DeviceCache`, `CacheLoader`, `CacheUpdateHandler` | `scene_list`, the map `cache_entries`, a read-write lock | `add_scene`, `remove_scene`, `get_scenes`, `get_devices`, `set_devices`, `load_scenes` | queries through the database manager; read by the event stream |
| **Registration** `MessageProcessor`, the query helpers | the graph in Neo4j | register, deregister, align, create and delete a scene | a sequence of queries per request |
| **Scene documents** `CrudMessageProcessor`, `BaseQueryHelper` | the Scene nodes in Neo4j | create, get, update, delete, query, add or remove an asset | one query per request |
| **HTTP routing** `SceneHandlerFactory` and the handlers | none | from a method and a path to a handler, from its result to a status | the processor, the device cache |
| **Event stream** `event_stream`, `EventSender`, `IvanErrorHandler` | a vector of 12 senders and an index, the thread pool | receive, start, run, `joinAll`, clean up | reads the device cache |
| **Database manager** `DatabaseManager` | one connection, the service it belongs to, a count of failures, a read-write lock | `execute`, discover, replace the connection | every query, if `neo4j.discover` is set |
| **Transforms** `Transform` | two vectors and a matrix | translate, rotate, invert, add | what alignments store and derive |
| **Documents** `SceneData`, `UserDevice`, `SceneList`, `JsonSceneList` | fields of one request | parse, print | handlers and processors |
| **Account manager**, **start-up** | the users of a file; the configuration | check a password; read a profile, register with Consul | -- |

What is hard about it:

* readers of an address list take no lock, and the list is replaced under
  them;
* the cache changes between the steps of a pass of the loader;
* a request is several transactions, with the transactions of other requests
  between them, and checks in one what it relies on in the next; two alignments
  of one device compute links from transforms that the other is changing;
* a query may fail, may be applied and then fail, and is then run again;
* the senders share a pool with the HTTP server and a fixed vector with each
  other;
* the shared connection is replaced while others use it;
* the text of a query and its parameters come from two functions that must
  agree, and the page that a query asks for, the rows it returns and the rows
  that are printed come from three lists;
* main waits for one of the threads that use its locals, and not for the others.

`PROJECT.json` lists the hazards line by line, with the properties that look
at each.

## The modules

| module | models | runs |
|---|---|---|
| `CacheEntry` | one `DeviceCacheEntry`, load by load and store by store | `CacheEntry`, `CacheEntryTorn` |
| `AddressList` | what an entry promises; `CacheEntry` implements it | `CacheEntry` |
| `CacheEntryProofs` | proofs about `CacheEntry` | |
| `DeviceCache` | the scene list, the entries, the loader's pass, cache requests, registrations as environment | `DeviceCache`, `DeviceCacheStale` |
| `DeviceCacheProofs` | proofs about `DeviceCache` | |
| `Registration` | the requests that register, deregister, align and look up devices and create and delete scenes, query by query | `Registration`, `RegistrationLinks` |
| `SceneRegistry` | what those requests promise; `Registration` implements it | `Registration` |
| `RegistrationProofs` | proofs about `Registration` | |
| `Transforms` | the arithmetic of `Transform`, exact over quarter turns | `Alignment` |
| `TransformProofs` | proofs about `Transforms`: rotations are a group, stored transforms read back | |
| `Alignment` | the transforms that alignments store, and the links they derive from them | `Alignment` |
| `AlignmentProofs` | proofs about `Alignment` | |
| `SceneJson` | what the JSON of a request sets and what a response shows | `SceneStore` |
| `SceneRoutes` | the routing table | `SceneStore` |
| `SceneStore` | the scene requests from document to answer: handler, query text, parameters, effect, pages, response | `SceneStore`, `SceneStoreFilter` |
| `SceneStoreProofs` | proofs about `SceneStore`, `SceneJson` and `SceneRoutes` | |
| `EventStream` | the receiving loop, the senders, the pool, and the shutdown by main | `EventStream`, `EventStreamOverrun` |
| `EventStreamProofs` | proofs about `EventStream` | |
| `DatabaseManager` | `execute` and the change of connection | `DatabaseManager` |
| `DatabaseManagerProofs` | proofs about `DatabaseManager` | |
| `MC...` | the instances for TLC | |

`MC<module>` extends its module and names model values and sets, and the laws
of pure definitions that TLC evaluates; each `.cfg` gives the constants their
values and replaces nothing.  Definitions whose comment begins with "slip" are
wrong on purpose and used by nothing: each is a change of the definition below
it that a property must notice.

### How state and actions correspond to the code

**CacheEntry.**  `current`, `addresses`, `counter` and `guard` are the fields
of the class.  An address list is the number of its update, for readers can
only tell lists apart by age.  Atomic loads, increments and decrements are one
step each.  The copy of a vector and the move into one are not atomic: they
begin and end, and a copy that overlaps a move is a data race, whose result is
`Torn`.  A reader goes `LoadId`, `RaiseCounter`, begin and end of the copy,
then lowers the counter; a writer takes `write_guard`, spins until the counter
of the spare copy is 0, moves, flips the id, and returns.

**AddressList** has one list that is replaced at one instant.  The refinement
maps `list` to `Published`, a reader's `since` to the list published when it
loaded the id, and its `answer` to what it copied, settled when the copy ends.
A call that no update overlaps is answered with the published list; one that
is overlapped may get any list from the one it began with to the next, or a
torn copy: this is what is left of "the latest complete list".

**DeviceCache.**  `add_scene` and `remove_scene` hold the write lock, reads and
replacements of an entry the read lock, so each is one step; what happens
inside an entry is `CacheEntry`.  The copy that `load_scenes` makes of the
scene list is under no lock and can overlap a change: its result is then
undefined (`EndListCopy`).  The loader goes scene by scene through its copy, queries, and
stores only answers that are not empty, as the code does.  A null entry that
is followed ends the process.  Registrations change at any time.

**Registration.**  A worker's `pc` is the query that it runs next.  Each query
is an action, with an action each for what the `DatabaseManager` or a plain
connection does when it fails: `...Lost` (applied, not answered, run again;
for each query that changes the graph but `UpdateRegistration`, which then sets
the same properties again) and `...Fails` (given up, applied or not).  The answer to each is what the
helper and the processor make of it, which differs from query to query: an
exception, a null result read as "nothing found", a failure that is only
logged.  The graph is counted: nodes per key, devices per scene, links per
pair.  `orphans` holds devices whose `UserDevice` nodes stayed behind when their
scene was deleted: only the device query (`GetDevice`), which asks for a node of
the device in whatever scene, finds them.  `disturbed` marks requests whose
registration was changed by another request meanwhile, `tainted` scenes that
were created twice.  The refinement of `SceneRegistry` maps its scenes to the
keys that have a node, its members to the pairs that have a link.

**Alignment** has the transforms that `Registration` leaves out.  `stored[d][k]`
is the transform on the edge from scene k to device d, `links` the edges
between scenes.  Alignments go query by query, as there; the other requests
take part with the one query each that changes what alignments read, and a
crash is followed by a restart over the same database.  A link is computed by
`Relative`: the inverse of the stored row, then the transform of the message.
`due` is history: the pairs of scenes that an alignment promised to link.

**Transforms.**  An angle is a number of quarter turns, so that sine and cosine
are whole and a rotation is a matrix over -1..1, a function of its rows (the
code writes columns first); a translation is one number,
since the code only adds translations and negates them.  `Rotate`, `Add` and
`Invert` multiply, add and transpose in the order of the code; `Euler` is what
the queries write of a matrix and `Loaded` what the parser makes of it again.

**SceneJson.**  `ListReads`, `SceneReads` and `DeviceReads` say, member by
member in the order of `JsonSceneList`, which type is accepted and which
attribute is set; `ListWrites`, `SceneWrites` and `DeviceWrites` what
`to_msg_string` prints and when it leaves a member out.

**SceneStore.**  A client asks for an operation; `Method` and `Path` are what
the API pages (`src/docs/pages`) tell it to send, and the document goes through
the tables of `SceneJson` into `msg`.  From there all is the code:
`Route` picks the handler, `Message` and `MessageKey` are what the handler
passes on, `Uses` and `Gives` are the parameters that the query names and is
given, `Applied` and `Selected` its effect and its rows, `Shown` what the
response says of a row, `Status` the status line.  A query that names a
parameter that is not given fails.  Description, thumbnail and region are
written as the name is, so a name stands for all of them; which scenes lie
within a distance is left open.  Assets and tags are arrays of texts, of which
only what they hold how often matters: `Arrays` counts copies.  `Combined` is
what an update makes of one: APPEND adds the elements given, whether or not the
scene has them, REMOVE takes every copy of those given, and any other operation
leaves the array alone.  A query without a key asks for the tags that all its
scenes must have.  A node has an identity, so that two scenes may have one key;
`Words` are the texts that clients write, `NoText` the empty one.
The assumptions of the module say what a request is: members of the types of the
API pages, keys that are keys, a document that is there not read as none
(`NoDocIsNone`).  Keys have an
order, as in the query's ORDER BY; its SKIP and LIMIT come from the request, the
number of rows printed from the response list, whose `num_records` stays at the
default.

**EventStream.**  Messages are numbered as they come.  `evt_senders` has one
more element than the vector of the code, for the word behind it.  The loop
goes receive, store, check, join, start; a runner looks up the devices, sends,
deletes.  A pool thread is also taken and given back by HTTP connections.
Using the word behind the vector, a deleted sender or a freed event makes
`health` "undefined".  `mpc` is the place of main: serving, waiting for
`is_sender_running` to be false, returned, exited.  The stream raises that flag
itself when it begins and clears it when it ends; main looks at it only then,
so a stream that has not begun is not waited for.  After main has returned,
whoever uses its locals makes `health` "undefined" (`UsedAfterReturn`).

**DatabaseManager.**  A caller's `pc` is its place in `execute` or in
`set_new_connection`.  Connections are numbered; a null pointer, a deleted
connection and a dangling service crash.  `gone` says that the connection was
deleted and the new one threw (`ConnectThrows`), so that the pointer to it is
left dangling.  Read-write locks are modelled by who
holds them.

## What is checked

Passing runs.  Each property has, in `PROJECT.json`, a change of the code that
violates it.

* **CacheEntry** (two readers, two writers, three updates: 76,555 states).
  A writer never works on the published copy (`PublishedNotWritten`); a reader
  that raised its counter while its copy was still published gets a whole list
  (`PinnedReadWhole`); no whole list is older than the one published when the
  call began (`ReadNotStale`); the entry behaves as one list that is replaced at
  an instant, but for calls that an update overlaps (`ImplementsAddressList`, a
  refinement of `AddressList`); readers that keep coming do not starve a writer
  (`WriterNotStarved`).
* **DeviceCache** (two scenes, two devices, a list of at most two; nobody
  registers to the second scene: 121,816 states).  List and entries agree but for scenes added twice
  (`EntryIsListed`, `ListedHasEntry`), which with scenes removed during a pass
  are the only reasons to crash (`CrashExplained`); no scene gets another
  scene's devices (`OnlyClients`); one pass delivers what was registered
  throughout and, for scenes that are not empty, forgets what was not
  (`PassDelivers`, `PassForgets`); the cache catches up (`CacheCatchesUp`).
* **Registration** (two workers, two scenes, one device, one failure:
  ten requests: 893,949 states, up to symmetry).  Who did not race and lost no
  query is registered once (`RegisteredOnce`); answers, those of the device query too, are true of the
  database when they are sent (`AnswersTrue`); a null pointer is followed only
  after a rival request or a failure (`CrashNeedsRival`); the graph changes only
  as requests under way ask for (`ImplementsRegistry`, a refinement of
  `SceneRegistry`).
* **Alignment** (two workers, three scenes of one device, two transforms that do
  not commute, three alignments, three other requests, one failure: 108,069
  states, up to symmetry).  Once no alignment of two registrations is under way,
  some link between their scenes turns the one stored transform into the other,
  whatever was deregistered, deleted or aligned meanwhile
  (`LinkExplainsDevices`).  TLC also evaluates `TransformAlgebra`, for all 64
  triples of quarter turns and each two of them: what is saved of a rotation is
  that rotation when it is loaded again, `Invert` undoes `Add`, and `Relative`
  leads from the one transform to the other.
* **SceneStore** (two workers, one key of a client and one generated, up to two
  scenes, a response of one record, one failure: 334,446 states, up to
  symmetry).  A request is refused only if the database failed it, or at the
  boundary values of distance and latitude and the negative pages that `InRange`
  leaves out, where query and parameters disagree (`NoFalseError`); who asks by key or name sees public scenes only, and those
  with this key or name, and who gives tags scenes with all of them
  (`RowsConfined`); the pages of a query tile what it
  finds (`PagesTile`); answers tell what happened (`AnswersTrue`); a request
  changes only scenes with its key and takes no name or owner away, and no copy
  of an asset or a tag that it does not ask to remove (`ChangesOwn`).  TLC also evaluates, for many documents, that a list, a scene
  and a device read back what was printed of them, but for what the code loses
  (`ListsReadBack`, `ScenesReadBack`, `DevicesReadBack`).
* **EventStream** (two slots, two threads, four messages, a shutdown at any
  time: 54,796 states).  No running sender is deleted inside the loop
  (`SenderAlive`); unless the word behind the vector was used, nothing undefined
  happens (`NothingUndefined`) and no message is lost (`NoneLost`); main returns
  only after a stream that began has ended (`MainOutlivesStream`); each message
  is dealt with, unless the process ends (`EventsDealtWith`); after a request to
  terminate the process ends, or the stream waits for one more message
  (`ShutdownEnds`).
* **DatabaseManager** (three callers, `max_failures` 2, `max_retries` 2, six
  failures: 267,438 states).  No query runs on a deleted connection
  (`QueryOnLiveConnection`); a crash needs a first connection still to come or
  a discovery or a connection that failed (`CrashExplained`); the connection is replaced only for
  failures of its own, give or take one per other caller (`SwitchJustified`);
  calls return and leave the lock (`CallReturns`).

Runs that find the code to differ from what is said of it:

* **CacheEntryTorn**, `ReadComplete`.  Two updates between a reader's load of
  the id and its increment of the counter let the second one move into the
  copy that the reader copies.  The class calls itself thread-safe.
* **DeviceCacheStale**, `CacheUpToDate`.  An empty answer is not stored, so
  the last device of a scene gets its events forever.
* **RegistrationLinks**, `OneSceneLink`.  `get_scene_link` looks for a
  property that no query sets, so each alignment adds a link instead of
  updating the one there is.
* **EventStreamOverrun**, `WaitLosesNothing`.  The index into the vector of
  senders is tested after it has been used: the thirteenth message in a row is
  stored behind the vector and never sent.
* **SceneStoreFilter**, `QueryConfined`.  A public query that names neither
  key, name nor region gets no filter and finds everybody's private scenes.

Other differences met on the way, without a run of their own:

* the comment above `process_deregistration_message` says that a scene is
  removed with its last device and the paths through it moved
  (`proc/processor/message_processor.cpp:285-286`); the handler removes the
  device and no more, so the scene stays, with its links.  `Part` in
  `SceneRegistry` promises what the handler does, so `ImplementsRegistry` says
  nothing against it;
* a registration whose query fails is logged and answered as a success, with
  the event information that is meant for one that was registered
  (`proc/query/device_query_helper.cpp:333`,
  `proc/processor/message_processor.cpp:214`); `LinkDeviceFails` does the same;
* adding and removing a scene "stops the world" according to
  `cache/include/device_cache.h:83`, but the loader copies the list of scenes
  without the lock (line 96);
* failures are counted since the last change of connection and add up across
  successes (`app/include/database_manager.h:162`), where
  `src/docs/pages/config.rst:196` speaks of failures in a row;
* an asset request, or an update that does not mention `public`, makes a
  private scene public (`controller/include/asset_update_handler.h:82`,
  `proc/query/include/base_query_helper.h:185`); `Updated` does the same;
* the user of a scene is printed but never read
  (`api/json_scene_list.cpp:603`), and the header that names the principal is
  not looked at: a private query is always refused, and a private scene cannot
  be found by its key or name, where `Scene_API.rst` says that devices find
  scenes by any attribute;
* `assign_scene_properties` does not read `public` back, so a private scene is
  shown as public (`base_query_helper.h:94`); `Shown` does the same;
* the encryption password is read into the key and the IV into the salt; a
  given `event_destination_port` must be a string and is then asked for an
  integer (`api/json_scene_list.cpp:137`); a new list leaves its port without a
  value and compares it with 0 when it is printed
  (`api/include/scene_list.h:56`);
* an asset that is added twice, by a client or by the retry of a query whose
  answer was lost, is stored twice, and one DELETE removes both
  (`proc/query/include/base_query_helper.h:208`);
* `num_records` -1 prints all records, but is refused as the LIMIT of a query;
  a query's answer is printed up to the default of ten records, whatever
  `num_records` asked for (`api/json_scene_list.cpp:567`), and always says
  `start_record` 0;
* an asset request that fails is answered with status 200;
* an update or a delete of a key that no scene has is answered as done;
* the API page takes distances in kilometers
  (`src/docs/pages/Scene_API.rst:82`), the query in metres
  (`base_query_helper.h:275`);
* a scene created with the key `query` cannot be updated, and a GET of
  `/v1/scene` reads past the path (`controller/include/scene_handler_factory.h`);
* a deleted scene leaves its `UserDevice` nodes in the graph
  (`proc/processor/crud_message_processor.cpp:291`), where a device query still
  finds them;
* an alignment whose device has no transform follows a null pointer; so does
  the next step after `get_registrations` finds nothing;
* the comment at `model/transform.cpp:64` and `algorithm.rst` multiply from the
  right, the code from the left;
* a new scene's registration would compute with the transform of the message
  although the identity was stored (not reachable, `previously_registered` is
  never set), and the query of `update_scene_link` sets with ":" where Cypher
  wants "=" (never called);
* the UDP service is never registered with Consul, the HTTP service twice
  (`app/include/ivan_application.h:499`);
* the shutdown that `app/include/ivan_application.h:535` calls graceful waits
  for a stream that has begun, not for one that has not, not for the loader and
  not for the senders: when its loop ends, the stream deletes the senders in its
  vector, those that pool threads still run too
  (`app/include/event_stream_process.h:211`);
* when `get_neo4j_interface` throws, `internal_connection` still points to the
  connection that was deleted for it (`app/include/database_manager.h:92`).

`src/docs/pages/deploy.rst:53-60` highly recommends, but does not require, a
uniqueness constraint on the key of a scene.  The models do without it: a key
may have two scenes.  With it the database refuses the second creation, which
in the models is a query that fails (`CreateSceneFails`, `QueryFails`); so what
is said of duplicates is said of a database without it, and all else of both.

### Bounds

* Three updates are enough for `CacheEntry`: one to fill the spare copy, one
  that comes back to the first copy while a reader is late, one more to make
  version order visible.  The proofs have no bound.
* A list of two keys in `DeviceCache` holds both scenes, or one of them twice,
  which is the case the code mishandles; two devices let one stay while the
  other leaves.  They may register to one scene only: the other one has the
  cache requests and the place in the list that a pass can trip over.
* Two workers make every race of a check and an act; a count of two stands
  for two or more, since nothing in the code tells more nodes or links apart.
  One failure can hit each query of each request; `RegistrationLinks` takes
  one worker and counts two links.  `Asked` has every kind of request about one
  scene, the registration of its device to a second one, which an alignment
  then links, and the requests without a scene or a device; each worker may make
  any of them, any number of times.
* `SceneStore`: two scenes with one key tell an update of all from one of the
  first, with two keys an update of one from an update of all.  `MCAsked`
  names the requests: each handler, with documents that take each branch of
  the query generator.  `Discover` is TRUE, which allows all that a plain
  connection does and the retries too.  A response of one record, for the ten of
  the code, makes two scenes two pages.  `MaxCopies` bounds the copies of an
  asset or tag at two, so that an array can hold one twice; a request or a retry
  that would append more is not made.
* `Alignment`: with three scenes an alignment of one links two others, and a
  second alignment can change one of them meanwhile; three other requests
  register the device to all three, or to two and then take one registration or
  scene away.
  The transforms do not commute, so that a product in the wrong order shows.
* `EventStream`: two slots stand for the twelve, so the third message in a row
  meets the end of the vector; a fourth comes after the overrun or the wait.
  With two threads the pool is full when both are busy.
* `DatabaseManager`: with `max_failures` 2 the third failure replaces the
  connection, so six failures replace it twice while failures of both other
  callers are still to be counted.

### Fairness

* `CacheEntry`: weak fairness of each thread inside a call.  The scheduler
  lets every running thread go on; nobody has to call.
* `DeviceCache`: weak fairness of the loader's own steps, and of "its query is
  answered or fails"; strong fairness of a successful query per scene.  A
  database that is asked every five seconds forever answers now and then;
  without that nothing could catch up.
* `EventStream`: weak fairness of the stream's steps but receiving, of each
  runner's steps, of main's once it is told to terminate, and of the end of each
  HTTP connection, which the server's time-outs enforce.  Messages, requests and
  the signal to terminate need not come.
* `DatabaseManager`: weak fairness of each caller inside a call.
* `Registration`, `Alignment` and `SceneStore` have no liveness properties.

Deadlock is checked in the runs of `SceneStore`.  The others really may stop:
the process crashes or returns (`DeviceCache`, `Registration`, `EventStream`,
`DatabaseManager`), or a bound on updates or requests is used up (`CacheEntry`,
`Alignment`).  That nobody waits for ever there is what `WriterNotStarved`,
`ShutdownEnds` and `CallReturns` say.

## What is proved

Each module that has runs, and `Transforms`, has proofs, in a module of their own
that extends it.  Every safety property of the passing runs is a theorem, for
constants of which only the assumptions named in the module are known.  Each
proof has one inductive invariant, found by asking what the properties rest on;
a lemma per conjunct, or per group of them, has a step per action.

### The cache entry (`CacheEntryProofs`)

For any finite set of readers (counters count them), any writers, any number of
updates, `NoWriter` no writer and `Torn` no version:

| theorem | property |
|---|---|
| `EntrySafe` | `SafetyInv` |
| `EntryTypeOK` | `TypeOK` |
| `EntryPublishedNotWritten` | `PublishedNotWritten` |
| `EntryPinnedReadWhole` | `PinnedReadWhole` |
| `EntryReadNotStale` | `ReadNotStale` |
| `EntryImplementsAddressList` | `ImplementsAddressList` |

`PinnedReadWhole` and `ReadNotStale` are not inductive.  `SafetyInv` adds what
they rest on:

* `CounterExact`: a counter is the cardinality of the readers between their
  increment and decrement.  Without it "the counter is 0" would not mean that
  nobody is there (nor that a decrement stays in the natural numbers, which
  `TypePreserved` needs).
* `GuardHeld`: who is inside `set_addresses` holds `write_guard`; so there is
  one such writer, and the id it read cannot have been flipped by another.
* `PublishedNotWritten`: hence a writer works on the spare copy.
* `PinnedProtected`: no writer is past the spin on a copy that a pinned reader
  is counted on.  When the writer leaves the spin nobody is counted; when a
  reader becomes pinned its copy is the published one, which no writer works
  on.
* `SpareVersion`: the spare copy holds an older list, or after the move the
  next one; with it a flip publishes the next version.
* `FloorRespected`: what a reader is about to copy is no older than the id it
  loaded, because a copy that has been overwritten holds a newer list.

The refinement needs one conjunct more, `AnswerAllowed` (`AnswerPreserved`): what
a reader is copying is an answer that `AddressList` allows, and the published
list itself as long as nothing was published since it loaded the id.  With it
`InitRefines` and `StepRefines` map each step to a step or a stutter: the flip
of the id is `Publish`, the end of a copy `Answer`.

### The database manager (`DatabaseManagerProofs`)

For any finite set of callers, `NoCaller` none of them, and any limits:

| theorem | property |
|---|---|
| `ManagerSafe` | `ConnectionInv` |
| `ManagerTypeOK` | `TypeOK` |
| `ManagerQueryOnLiveConnection` | `QueryOnLiveConnection` |
| `ManagerCrashExplained` | `CrashExplained` |
| `ManagerSwitchJustified` | `SwitchJustified` |

The properties speak of a pointer, and none is inductive.  `ConnectionInv` adds
where each caller is when a pointer changes:

* `TriesLeft`: whoever is inside a try was allowed it, so that `retries` keeps
  its type when the try ends.
* `LockHeld`: the writer is in `set_new_connection` and nobody queries
  meanwhile, so `ConnectAgain` deletes nothing in use.
* `OneFirst`: the first connection is made under no lock, but by one caller,
  the one that found `initialized` false, and while there is none.
* `NothingBefore`: as long as there is none nobody queries or has failed, so
  nobody writes: `ConnectFirst` deletes nothing either.
* `ServiceExplained`: `connected_service` is left deleted only inside
  `set_new_connection` or by a discovery that failed.

All of these but `TypeOK`, `TriesLeft` and `CrashExplained` are claimed only
while the process runs: a crash stops every caller where it is.

`SwitchJustified` counts.  `FailuresMet` adds to what is counted the callers whose
query failed and who have not counted it (`Failed`): together they exceed the
failures met on this connection by less than the number of callers.  A change of
connection makes one caller stop being one of them, and resets both counts; so
at most one failure of each other caller is carried over.

### The event stream (`EventStreamProofs`)

For any positive number of slots, any finite set of pool threads and any number
of messages:

| theorem | property |
|---|---|
| `StreamSafe` | `StreamInv` |
| `StreamTypeOK` | `TypeOK` |
| `StreamSenderAlive` | `SenderAlive` |
| `StreamNothingUndefined` | `NothingUndefined` |
| `StreamNoneLost` | `NoneLost` |
| `StreamWithinMain` | `MainOutlivesStream` |

* `Handshake`: `is_sender_running` is true exactly while the stream is between
  its first and its last step, so main, which waits for it, is outlived by
  nothing that began.
* `SlotsFilled`: every slot below the index, and a stored one, holds a received
  and undeleted sender that no other slot holds.
* `RunsFromSlots`: every pool thread runs the sender of a slot below the index,
  the stream the one at it.  So what `Store` deletes nobody runs: the index
  came back to 0 only after a `joinAll`.
* `EachOnce`, until the vector is overrun: a message is live and unsent until its
  own run sends it, and freed after that.

### The device cache (`DeviceCacheProofs`)

For any scenes, devices, clients and length of `scene_list`:

| theorem | property |
|---|---|
| `CacheSafe` | `CacheInv` |
| `CacheTypeOK` | `TypeOK` |
| `CacheEntryIsListed` | `EntryIsListed` |
| `CacheListedHasEntry` | `ListedHasEntry` |
| `CacheOnlyClients` | `OnlyClients` |
| `CachePassDelivers` | `PassDelivers` |
| `CachePassForgets` | `PassForgets` |
| `CacheCrashExplained` | `CrashExplained` |

* `Clientele`: only clients are registered, found by the query and cached.
* `ListMatchesEntries`: an entry is listed; a scene that was not added twice is
  listed once, and then has its entry.
* `PassUnderWay`: a scene with something to promise is still in the loader's
  copy of the list, or in the cache as promised; what the query has just found
  keeps the promise for the scene at the head.

The lemmas `FirstPlace`, `WithoutPlace`, `UnlistedKeys` and `KeysLeft` say what
removing the first occurrence of a key, and taking the tail, leave in a list.
After undefined behaviour only `TypeOK` and `Clientele` are claimed.

### The registration requests (`RegistrationProofs`)

For any workers, scenes, devices and number of failures, `EmptyKey`, `NoScene`
and `NoDevice` no scene and no device:

| theorem | property |
|---|---|
| `RegistrationSafe` | `RegistrationInv` |
| `RegistrationTypeOK` | `TypeOK` |
| `RegistrationOnce` | `RegisteredOnce` |
| `RegistrationAnswersTrue` | `AnswersTrue` |
| `RegistrationCrashNeedsRival` | `CrashNeedsRival` |
| `RegistrationImplementsRegistry` | `ImplementsRegistry` |

* `Placed`: a worker is in the handler of its request, which names the scene and
  the device that the handler needs.
* `Effect` (`StepEffect`): a step leaves the graph alone or is one creation,
  registration, deregistration, deletion or link of one worker, which
  `CreatesWhat` to `DeletesWhat` spell out count by count.  `OfScenes`, that
  devices are counted only for scenes that have a node, and the refinement are
  shown from these five, not from the 28 actions.
* `OnceInv`: of a scene that is not tainted there is one creator at most, and it
  is before a creation only if there is no scene, before a registration only if
  there is none (`StaysOnce`, `RegistersOnce`).
* `SoundInv`: what a worker has read still holds, and so does what it answers,
  unless it is marked disturbed.  `SoundAside` shows that a step of another
  worker either leaves it so or marks it; this is the claim that `Rivals` names
  every request that can interfere.  `CrashNeedsRival` follows: a worker before
  `get_registrations` that is not disturbed still has its registration.

### The scene requests (`SceneStoreProofs`)

For any workers, requests that a client can make, keys and their order, texts,
finite set of identities, length of a response and number of failures:

| theorem | property |
|---|---|
| `StoreTypeOK` | `TypeOK` |
| `StoreNoFalseError` | `NoFalseError` |
| `StoreRowsConfined` | `RowsConfined` |
| `StorePagesTile` | `PagesTile` |
| `StoreAnswersTrue` | `AnswersTrue` |
| `StoreChangesOwn` | `ChangesOwn` |

The first half of the proof is about the path of a request: what a document is
read as (`SceneRead`, `ListRead`), the handler it gets (`HandledBy`), its key
(`KeyOfMessage`) and its message (`MessageOf`).  The inductive invariant,
`HandlingInv`, says that a worker holds just that: `msg` is the message of
its request, and `key` its key or, for a create without one, one that was
generated.  The theorems follow from it and from what one query does:

* `NoFalseError` from `GeneratorsAgree`: for every document that can be read, the
  parameters named by the one function of the query generator are given by
  the other, unless the distance or the latitude is out of range.
* `ChangesOwn` from `AppliedLeaves`: nodes with other keys stay.
* `RowsConfined` from `Retrieved`: a row is a selected node, and `MessageOf`
  shows that no message has a user.
* `AnswersTrue` is strengthened to `Truthful`, in terms of the key of the query
  where the property is in terms of the key that the client asks about
  (`KeyMeant`): who is not disturbed keeps the nodes with its key (`HeldStay`), and
  an update makes each of them reflect the document (`UpdatedReflects`): they
  have at least what it appends and nothing of what it removes, so that an
  update that was lost and runs again, and appends again, reflects it too.
* `PagesTile` from `PlaceInOrder`: in a sequence that enumerates a finite set in
  the order of the keys, the i-th element has fewer than i before it and at
  least i up to it; a page is such a sequence from its start on.

### The transforms (`TransformProofs`)

A rotation in quarter turns is a signed permutation matrix whose number of
reversals is even if the permutation is, and odd if it is not (`Rotations`).
These are closed under products and inverses (`TimesRotation`,
`InverseRotation`), and each turn about an axis is one (`TurnRotation`), so all
that messages and rows bring are (`LoadedRotation`).

* `SavedLoads`: for every translation and rotation, `Loaded(Saved(t)) = t`.
  `TurnsEntries` gives the nine entries of the matrix of three angles, and
  `EulerAngles` the sines and cosines of the angles extracted from a matrix.
  There are two cases (`RotationEntries`): the last entry of the first row is
  zero, and the last column is a direction; or it is not, the middle angle is a
  right one, and the first and the third turn about one axis.
* `AddRelative`: `Add(b, Relative(b, a)) = a`, from the group laws alone.
* `TransformAlgebraHolds`: `TransformAlgebra`, which TLC evaluates, from these.

### The alignments (`AlignmentProofs`)

For any workers, scenes, devices, transforms that requests give, and numbers of
alignments, other requests and failures, `None` no scene, no device and no
transform:

| theorem | property |
|---|---|
| `AlignmentTypeOK` | `TypeOK` |
| `AlignmentLinkExplainsDevices` | `LinkExplainsDevices` |

`LinkExplainsDevices` speaks of pairs of scenes of which no alignment is under
way.  The inductive invariant accounts for the others too (`DueAccounted`): a
pair that is due has both registrations, and either a link that explains them
or a worker that will make one (`Pending`), because what is stored for its own
scene is the transform of its message, and what is stored for the other scene
is what it has read or has still to read.  Of two alignments of a pair the one
that stored last is that worker, whatever the other has read
(`UpdateAccounts`).  It gives up its pairs when it fails or the process ends
(`FailAccounts`, `CrashAccounts`), or turns them into links (`LinkAccounts`,
where `SavedLoads` and `AddRelative` are needed).

### Only model-checked

* All liveness (`WriterNotStarved`, `CacheCatchesUp`, `EventsDealtWith`,
  `ShutdownEnds`, `CallReturns`): fairness and `ENABLED` are out of the prover's
  reach.
* That lists, scenes and devices read back what was printed of them
  (`ListsReadBack`, `ScenesReadBack`, `DevicesReadBack`), which TLC evaluates.
* The properties that the code violates.

## Not modelled

* **The search for a path of links** (`calculate_scene_scene_transform`) and
  **`update_scene_link`**: never reached, see `NeverRegistered` and
  `GetSceneLink`; the cases in which a transform is applied inverted or cleared
  are reached by tests only.
* **Authentication**: one look-up in a map that does not change after
  start-up.
* **Start-up, configuration, Consul, Vault, TLS**: third-party calls in a
  row.  The threads that start-up begins, and their end, are in `EventStream`.
* **The loader after main**: it is detached and never stopped, and uses the cache
  and the profile, which are locals of main.  What it does then is undefined,
  which is all that `UsedAfterReturn` says of it.
* **Encryption** of events, and what JSON, numbers and times look like.  A body
  that is not JSON is answered by the handler and reaches nothing else; a given
  event port fails an assertion of the JSON library and is left out.
* **Neo4j**: a query is atomic and its effect is that of its text.

## Plan

Done: all modules above, and the proofs of every safety property of the passing
runs.

Left:

1. `SceneJson`: proofs that what is printed reads back, for any values of the
   attributes, where TLC evaluates it for chosen ones.
2. An abstract specification of the scene requests, a map from identities to
   scenes that requests change at one instant, and `SceneStore` shown to
   implement it from `AppliedLeaves` and `Retrieved`.
