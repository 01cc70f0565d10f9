----------------------------- MODULE EventStream -----------------------------
(***************************************************************************)
(* The event stream of src/src/app/include/event_stream_process.h: one     *)
(* thread receives UDP messages and has each forwarded by an EventSender,  *)
(* which runs on a thread of the default pool, or on the stream's own      *)
(* thread when the pool, which the HTTP server shares, has none to spare.  *)
(*                                                                         *)
(* Messages are numbered as they are received; number n stands for the     *)
(* message, its copy in dynamic memory and the EventSender built for it.   *)
(* Which devices a sender reaches is the business of DeviceCache.          *)
(*                                                                         *)
(* main (ivan_application.h) starts the stream's thread and the loader's,  *)
(* serves HTTP until it is told to stop, and returns when the stream says  *)
(* that it has ended.  The configuration and the cache that all threads    *)
(* use are locals of main.                                                 *)
(***************************************************************************)
EXTENDS Naturals, FiniteSets

CONSTANTS
  Slots,      \* size of evt_senders: 12 in the code
  Threads,    \* threads of Poco::ThreadPool::defaultPool()
  Stream,     \* the thread of event_stream
  MaxEvents   \* bound: messages received

ASSUME SlotsPositive == Slots \in Nat \ {0}
ASSUME ThreadsFinite == IsFiniteSet(Threads)
ASSUME StreamNotPooled == Stream \notin Threads
ASSUME MaxEventsNat == MaxEvents \in Nat

Events == 1..MaxEvents
NoEvent == 0                       \* a null EventSender
Runners == Threads \cup {Stream}

VARIABLES
  is_app_running, is_sender_running,
  mpc,           \* the place of main
  spc,           \* the place of event_stream in its loop
  sender_index,
  evt_senders,   \* its elements, and at Slots the word behind the last one
  received,      \* messages received so far
  rpc, job,      \* a runner's place in EventSender::run, and whose run it is
  deleted,       \* EventSender objects that were deleted
  event,         \* the copy of a message: "live", "freed" or "leaked"
  sent,          \* how often a message was sent to the devices
  health,        \* "ok", "undefined" once undefined behaviour ran, "crashed"
  overrun        \* history: evt_senders was used at Slots

mainVars == <<is_app_running, is_sender_running, mpc>>
streamVars == <<spc, sender_index, evt_senders, received>>
senderVars == <<rpc, job, event, sent>>
vars == <<mainVars, streamVars, senderVars, deleted, health, overrun>>

MainSteps == {"serving", "waiting", "returned", "exited"}
StreamSteps == {"begin", "loop", "receive", "store", "check", "join", "start", "inline",
                "rejoin", "cleanup", "ended"}
RunnerSteps == {"free", "http", "lookup", "send", "delete"}

Init ==
  /\ is_app_running = TRUE
  /\ is_sender_running = FALSE
  /\ mpc = "serving"
  /\ spc = "begin"
  /\ sender_index = 0
  /\ evt_senders = [i \in 0..Slots |-> NoEvent]
  /\ received = 0
  /\ rpc = [t \in Runners |-> "free"]
  /\ job = [t \in Runners |-> NoEvent]
  /\ deleted = {}
  /\ event = [n \in Events |-> "live"]
  /\ sent = [n \in Events |-> 0]
  /\ health = "ok"
  /\ overrun = FALSE

Running == health # "crashed" /\ mpc # "exited"
At(step) == Running /\ spc = step
Free(t) == rpc[t] = "free"
AllFree == \A t \in Threads : Free(t)
Sending(t) == rpc[t] \in {"lookup", "send", "delete"}

-----------------------------------------------------------------------------
(* The environment: connections of the HTTP server. *)

\* joinAll holds the lock of the pool, so no thread is taken while it waits;
\* the server is stopped before is_app_running is cleared.
HttpBegins(t) ==
  /\ Running /\ is_app_running
  /\ spc \notin {"join", "rejoin"}
  /\ Free(t)
  /\ rpc' = [rpc EXCEPT ![t] = "http"]
  /\ UNCHANGED <<mainVars, streamVars, job, event, sent, deleted, health,
                 overrun>>

HttpEnds(t) ==
  /\ Running
  /\ rpc[t] = "http"
  /\ rpc' = [rpc EXCEPT ![t] = "free"]
  /\ UNCHANGED <<mainVars, streamVars, job, event, sent, deleted, health,
                 overrun>>

-----------------------------------------------------------------------------
(* main. *)

\* Told to stop, it stops the server and clears is_app_running.
Terminate ==
  /\ Running /\ mpc = "serving"
  /\ is_app_running' = FALSE
  /\ mpc' = "waiting"
  /\ UNCHANGED <<is_sender_running, streamVars, senderVars, deleted, health,
                 overrun>>

\* while (is_sender_running) usleep(1000000); and main returns.
NotAwaited == TRUE              \* slip: it returns at once
StreamOver == ~is_sender_running

Return ==
  /\ Running /\ mpc = "waiting"
  /\ StreamOver
  /\ mpc' = "returned"
  /\ UNCHANGED <<is_app_running, is_sender_running, streamVars, senderVars,
                 deleted, health, overrun>>

\* The loader, which nothing stops, a connection that has not ended, or a
\* stream that only begins now uses the cache or the configuration.
UsedAfterReturn ==
  /\ Running /\ mpc = "returned"
  /\ health' \in {"undefined", "crashed"}
  /\ UNCHANGED <<mainVars, streamVars, senderVars, deleted, overrun>>

\* uninitialize, and the end of the process.
Exit ==
  /\ Running /\ mpc = "returned"
  /\ mpc' = "exited"
  /\ UNCHANGED <<is_app_running, is_sender_running, streamVars, senderVars,
                 deleted, health, overrun>>

-----------------------------------------------------------------------------
(* event_stream. *)

\* is_sender_running is set before anything else.  The stream is over at once
\* if no port is configured or the socket cannot be opened.
NotRaised == is_sender_running  \* slip: only cleared, never set
Raised == TRUE

Begin ==
  /\ At("begin") /\ mpc # "returned"
  /\ is_sender_running' = Raised
  /\ spc' \in {"loop", "cleanup"}
  /\ UNCHANGED <<is_app_running, mpc, sender_index, evt_senders, received,
                 senderVars, deleted, health, overrun>>

\* while (is_app_running)
Loop ==
  /\ At("loop")
  /\ spc' = IF is_app_running THEN "receive" ELSE "cleanup"
  /\ UNCHANGED <<mainVars, sender_index, evt_senders, received, senderVars,
                 deleted, health, overrun>>

\* The call that blocks returns, which it does for a message only; one that
\* comes after the end of the server is dropped.
Receive ==
  /\ At("receive")
  /\ \/ /\ is_app_running
        /\ received < MaxEvents
        /\ received' = received + 1
        /\ spc' = "store"
     \/ /\ ~is_app_running
        /\ spc' = "loop"
        /\ UNCHANGED received
  /\ UNCHANGED <<mainVars, sender_index, evt_senders, senderVars, deleted,
                 health, overrun>>

\* The left-over sender of the slot is deleted and the new one stored.  At
\* Slots that is the word behind the vector: what is read there is whatever
\* was written there, or anything, and then deleting it ends the process.
Store ==
  /\ At("store")
  /\ deleted' = deleted \cup ({evt_senders[sender_index]} \ {NoEvent})
  /\ evt_senders' = [evt_senders EXCEPT ![sender_index] = received]
  /\ spc' = "check"
  /\ IF sender_index = Slots
     THEN overrun' = TRUE /\ health' \in {"undefined", "crashed"}
     ELSE UNCHANGED <<overrun, health>>
  /\ UNCHANGED <<mainVars, sender_index, received, senderVars>>

\* if (sender_index == 12)
Check ==
  /\ At("check")
  /\ spc' = IF sender_index = Slots THEN "join" ELSE "start"
  /\ UNCHANGED <<mainVars, sender_index, evt_senders, received, senderVars,
                 deleted, health, overrun>>

\* joinAll(); sender_index = 0;
IndexKept == sender_index       \* slip: no sender_index = 0
FirstIndex == 0
NotWaited == TRUE               \* slip: no joinAll
Joined == AllFree

Join ==
  /\ At("join")
  /\ Joined
  /\ sender_index' = FirstIndex
  /\ spc' = "start"
  /\ UNCHANGED <<mainVars, evt_senders, received, senderVars, deleted, health,
                 overrun>>

SameIndex == sender_index       \* slip: no increment
NextIndex == sender_index + 1

FirstSender == evt_senders[0]   \* slip: start(*(evt_senders[0]))
StoredSender == evt_senders[sender_index]

StartPooled(t) ==
  /\ At("start")
  /\ Free(t)
  /\ rpc' = [rpc EXCEPT ![t] = "lookup"]
  /\ job' = [job EXCEPT ![t] = StoredSender]
  /\ sender_index' = NextIndex
  /\ spc' = "loop"
  /\ UNCHANGED <<mainVars, evt_senders, received, event, sent, deleted, health,
                 overrun>>

\* NoThreadAvailableException: evt_senders[sender_index]->run()
StartInline ==
  /\ At("start")
  /\ \A t \in Threads : ~Free(t)
  /\ rpc' = [rpc EXCEPT ![Stream] = "lookup"]
  /\ job' = [job EXCEPT ![Stream] = StoredSender]
  /\ spc' = "inline"
  /\ UNCHANGED <<mainVars, sender_index, evt_senders, received, event, sent,
                 deleted, health, overrun>>

\* The inline run is over; joinAll(); sender_index = 0;
Rejoin ==
  /\ At("rejoin")
  /\ Joined
  /\ sender_index' = FirstIndex
  /\ spc' = "loop"
  /\ UNCHANGED <<mainVars, evt_senders, received, senderVars, deleted, health,
                 overrun>>

\* Out of the loop: the senders in the vector are deleted, running or not,
\* and is_sender_running is cleared.
Cleanup ==
  /\ At("cleanup")
  /\ deleted' = deleted \cup ({evt_senders[i] : i \in 0..Slots-1} \ {NoEvent})
  /\ is_sender_running' = FALSE
  /\ spc' = "ended"
  /\ UNCHANGED <<is_app_running, mpc, sender_index, evt_senders, received,
                 senderVars, health, overrun>>

-----------------------------------------------------------------------------
(* EventSender::run of the sender job[t], on runner t. *)

\* What becomes of health when the sender object, and then its event, is
\* used: a deleted object or a freed event is undefined behaviour.
Gone(t) == job[t] \in deleted \/ event[job[t]] = "freed"
Used(t) == IF Gone(t) THEN health' \in {"undefined", "crashed"}
                      ELSE UNCHANGED health

\* cache->get_devices(event_items[0]) finds the scene.
Lookup(t) ==
  /\ Running /\ rpc[t] = "lookup"
  /\ rpc' = [rpc EXCEPT ![t] = "send"]
  /\ Used(t)
  /\ UNCHANGED <<mainVars, streamVars, job, event, sent, deleted, overrun>>

ThreadLost == "lost"            \* slip: uncaught, the thread never returns
ThreadBack == "free"

\* It throws: the scene is not in the cache.  The event is not deleted.  A
\* pool thread leaves the exception to the error handler; on the thread of
\* event_stream it ends the loop.
LookupThrows(t) ==
  /\ Running /\ rpc[t] = "lookup"
  /\ rpc' = [rpc EXCEPT ![t] = ThreadBack]
  /\ event' = [event EXCEPT ![job[t]] = IF @ = "live" THEN "leaked" ELSE @]
  /\ spc' = IF t = Stream THEN "cleanup" ELSE spc
  /\ Used(t)
  /\ UNCHANGED <<mainVars, sender_index, evt_senders, received, job, sent,
                 deleted, overrun>>

\* The loop over the devices; a device that cannot be reached is skipped.
Send(t) ==
  /\ Running /\ rpc[t] = "send"
  /\ rpc' = [rpc EXCEPT ![t] = "delete"]
  /\ sent' = [sent EXCEPT ![job[t]] = IF @ = 2 THEN 2 ELSE @ + 1]
  /\ Used(t)
  /\ UNCHANGED <<mainVars, streamVars, job, event, deleted, overrun>>

\* delete[] event, and the run is over.
NotFreed(t) == event            \* slip: the event is left
Freed(t) == [event EXCEPT ![job[t]] = "freed"]

Finish(t) ==
  /\ Running /\ rpc[t] = "delete"
  /\ rpc' = [rpc EXCEPT ![t] = "free"]
  /\ event' = Freed(t)
  /\ spc' = IF t = Stream THEN "rejoin" ELSE spc
  /\ Used(t)
  /\ UNCHANGED <<mainVars, sender_index, evt_senders, received, job, sent,
                 deleted, overrun>>

-----------------------------------------------------------------------------
RunnerNext(t) == Lookup(t) \/ LookupThrows(t) \/ Send(t) \/ Finish(t)

MainNext == Return \/ Exit

StreamNext ==
  \/ Begin \/ Loop \/ Store \/ Check \/ Join \/ StartInline \/ Rejoin \/ Cleanup
  \/ \E t \in Threads : StartPooled(t)

Next ==
  \/ Receive \/ StreamNext
  \/ Terminate \/ MainNext \/ UsedAfterReturn
  \/ \E t \in Runners : RunnerNext(t)
  \/ \E t \in Threads : HttpBegins(t) \/ HttpEnds(t)

Spec == Init /\ [][Next]_vars

\* The threads are scheduled; a connection of the HTTP server ends, or idles
\* until the server gives its thread back.
Fairness ==
  /\ WF_vars(StreamNext) /\ WF_vars(MainNext)
  /\ \A t \in Runners : WF_vars(RunnerNext(t))
  /\ \A t \in Threads : WF_vars(HttpEnds(t))

FairSpec == Spec /\ Fairness

-----------------------------------------------------------------------------
TypeOK ==
  /\ is_app_running \in BOOLEAN /\ is_sender_running \in BOOLEAN
  /\ mpc \in MainSteps
  /\ spc \in StreamSteps
  /\ sender_index \in 0..Slots
  /\ evt_senders \in [0..Slots -> 0..MaxEvents]
  /\ received \in 0..MaxEvents
  /\ rpc \in [Runners -> RunnerSteps]
  /\ job \in [Runners -> 0..MaxEvents]
  /\ deleted \in SUBSET Events
  /\ event \in [Events -> {"live", "freed", "leaked"}]
  /\ sent \in [Events -> 0..2]
  /\ health \in {"ok", "undefined", "crashed"}
  /\ overrun \in BOOLEAN

InLoop == spc \notin {"cleanup", "ended"}

\* While the stream is in its loop, the sender that a thread runs is not
\* deleted to make room for another message: a slot is used again only after
\* a joinAll.
SenderAlive ==
  Running /\ InLoop => \A t \in Runners : Sending(t) => job[t] \notin deleted

\* As long as no message is stored behind the vector, no event is sent twice
\* or freed twice, and nothing undefined happens inside the loop, shutdown
\* under way or not.
NothingUndefined ==
  ~overrun /\ InLoop /\ mpc \in {"serving", "waiting"} =>
    health = "ok" /\ \A n \in Events : sent[n] <= 1

InHand(n) == n = received /\ spc \in {"store", "check", "join", "start"}
InRun(n) == \E t \in Runners : Sending(t) /\ job[t] = n
Settled(n) == \/ event[n] = "leaked"
              \/ event[n] = "freed" /\ sent[n] > 0

\* And no message gets lost: each one received is in the hands of the stream
\* or of one runner, or it was sent, or its scene is not in the cache.
NoneLost ==
  ~overrun => \A n \in 1..received : InHand(n) \/ InRun(n) \/ Settled(n)

\* Main's locals outlive the stream: main has only returned if the stream has
\* ended, or was never begun.  (If it was not, its first step comes too late:
\* the flag that main waits for is set by the thread itself.)
MainOutlivesStream ==
  mpc \in {"returned", "exited"} => spc \in {"begin", "ended"}

\* Every message received is dealt with, unless there was undefined
\* behaviour: neither the wait for the pool nor a full pool holds it forever.
\* Only the end of the process, which waits for the stream but not for the
\* senders, cuts it short.
EventsDealtWith ==
  \A n \in Events :
    received >= n ~> Settled(n) \/ health # "ok" \/ mpc = "exited"

\* Once termination is requested the process ends, unless the stream has come
\* back to the socket, where the next message ends it: neither a joinAll nor
\* the handshake between main and the stream keeps it.
ShutdownEnds ==
  ~is_app_running ~> ~Running \/ spc = "receive"

\* "if we have used up all the space in our array of senders, then we should
\* wait for other threads to complete before pulling the next message" (lines
\* 189 to 191): waiting loses no message, so that a message is in somebody's
\* hands or settled whenever the next one is pulled.
WaitLosesNothing ==
  At("receive") => \A n \in 1..received : InRun(n) \/ Settled(n)
=============================================================================
