--------------------------- MODULE DatabaseManager ---------------------------
(***************************************************************************)
(* DatabaseManager of src/src/app/include/database_manager.h: the queries  *)
(* of all threads go through one connection to Neo4j.  A query runs under  *)
(* the read lock of conn_usage_lock; when too many have failed, a thread   *)
(* discovers another instance and replaces the connection under the write  *)
(* lock.  The first call of all makes the first connection, under no lock. *)
(*                                                                         *)
(* Connections are numbered as they are made; 0 is the null pointer the    *)
(* manager starts with.  Whether a query, a discovery or a connection      *)
(* succeeds is up to the environment.                                      *)
(***************************************************************************)
EXTENDS Naturals, FiniteSets

CONSTANTS
  Callers,      \* threads that call execute
  NoCaller,     \* nobody holds the write lock
  max_failures, \* 5 in the code
  max_retries,  \* 11 in the code
  MaxFaults     \* bound: queries, discoveries and connections that fail

ASSUME CallersFinite == IsFiniteSet(Callers)
ASSUME NoCallerIsNone == NoCaller \notin Callers
ASSUME LimitsNat == max_failures \in Nat /\ max_retries \in Nat /\ MaxFaults \in Nat

VARIABLES
  initialized, failures,
  connection,    \* internal_connection
  gone,          \* internal_connection was deleted and not replaced
  service,       \* connected_service: "null", "held" or "dangling"
  writer,        \* who holds conn_usage_lock for writing
  pc,            \* a caller's place in execute
  retries,
  used,          \* the connection a caller's query runs on
  health,        \* "ok" or "crashed": a null, deleted or dangling pointer
  faults,        \* failed queries, discoveries and connections so far
  failedHere,    \* history: queries that failed on this connection
  undiscovered   \* history: find_new_connection failed

connVars == <<initialized, failures, connection, gone, service>>
callVars == <<pc, retries, used, writer>>
historyVars == <<failedHere, undiscovered>>
vars == <<connVars, callVars, health, faults, historyVars>>

Steps == {"idle", "top", "discover", "connect", "read", "query", "failed",
          "lock", "test"}

Init ==
  /\ initialized = FALSE
  /\ failures = 0
  /\ connection = 0
  /\ gone = FALSE
  /\ service = "null"
  /\ writer = NoCaller
  /\ pc = [c \in Callers |-> "idle"]
  /\ retries = [c \in Callers |-> 0]
  /\ used = [c \in Callers |-> 0]
  /\ health = "ok"
  /\ faults = 0
  /\ failedHere = 0
  /\ undiscovered = FALSE

At(c, step) == health = "ok" /\ pc[c] = step
Goto(c, step) == pc' = [pc EXCEPT ![c] = step]

\* Those who hold conn_usage_lock for reading.
Reading == {c \in Callers : pc[c] = "query"}

Fault ==
  /\ faults < MaxFaults
  /\ faults' = faults + 1

-----------------------------------------------------------------------------
(* execute. *)

Call(c) ==
  /\ At(c, "idle")
  /\ Goto(c, "top")
  /\ retries' = [retries EXCEPT ![c] = 0]
  /\ UNCHANGED <<connVars, used, writer, health, faults, historyVars>>

OneMoreTry(c) == retries[c] <= max_retries  \* slip: off by one
MayTry(c) == retries[c] < max_retries

\* while (retries < max_retries): whoever finds initialized false connects.
Top(c) ==
  /\ At(c, "top")
  /\ MayTry(c)
  /\ initialized' = TRUE
  /\ Goto(c, IF initialized THEN "read" ELSE "discover")
  /\ UNCHANGED <<failures, connection, gone, service, retries, used, writer,
                 health, faults, historyVars>>

GiveUp(c) ==
  /\ At(c, "top")
  /\ ~MayTry(c)
  /\ Goto(c, "idle")
  /\ UNCHANGED <<connVars, retries, used, writer, health, faults, historyVars>>

\* The read lock is taken and internal_connection followed.
ReadLock(c) ==
  /\ At(c, "read")
  /\ writer = NoCaller
  /\ Goto(c, "query")
  /\ used' = [used EXCEPT ![c] = connection]
  /\ health' = IF connection = 0 \/ gone THEN "crashed" ELSE "ok"
  /\ UNCHANGED <<connVars, retries, writer, faults, historyVars>>

\* The connection a query runs on was deleted under it.
Deleted(c) == used[c] # connection \/ gone

QuerySucceeds(c) ==
  /\ At(c, "query")
  /\ Goto(c, "idle")
  /\ health' = IF Deleted(c) THEN "crashed" ELSE "ok"
  /\ UNCHANGED <<connVars, retries, used, writer, faults, failedHere,
                 undiscovered>>

\* The exception leaves the scope of the read lock before it is counted.
QueryFails(c) ==
  /\ At(c, "query")
  /\ Fault
  /\ Goto(c, "failed")
  /\ health' = IF Deleted(c) THEN "crashed" ELSE "ok"
  /\ failedHere' = failedHere + 1
  /\ UNCHANGED <<connVars, retries, used, writer, undiscovered>>

\* failures++
CountFailure(c) ==
  /\ At(c, "failed")
  /\ failures' = failures + 1
  /\ Goto(c, "lock")
  /\ UNCHANGED <<initialized, connection, gone, service, retries, used, writer,
                 health, faults, historyVars>>

-----------------------------------------------------------------------------
(* set_new_connection and find_new_connection. *)

ReadersIgnored == writer = NoCaller         \* slip: not the write lock
WriteLockFree == writer = NoCaller /\ Reading = {}

WriteLock(c) ==
  /\ At(c, "lock")
  /\ WriteLockFree
  /\ writer' = c
  /\ Goto(c, "test")
  /\ UNCHANGED <<connVars, retries, used, health, faults, historyVars>>

\* The scoped lock is released and execute tries again.
Retry(c) ==
  /\ writer' = NoCaller
  /\ retries' = [retries EXCEPT ![c] = @ + 1]
  /\ Goto(c, "top")

TooManyFailures == failures > max_failures

KeepConnection(c) ==
  /\ At(c, "test")
  /\ ~TooManyFailures
  /\ Retry(c)
  /\ UNCHANGED <<connVars, used, health, faults, historyVars>>

\* if (connected_service) delete connected_service
DropService(c) ==
  /\ At(c, "test")
  /\ TooManyFailures
  /\ service' = IF service = "held" THEN "dangling" ELSE service
  /\ health' = IF service = "dangling" THEN "crashed" ELSE "ok"
  /\ Goto(c, "discover")
  /\ UNCHANGED <<initialized, failures, connection, gone, retries, used, writer,
                 faults, historyVars>>

\* connected_service = internal_profile->get_service(service_name)
Discover(c) ==
  /\ At(c, "discover")
  /\ service' = "held"
  /\ Goto(c, "connect")
  /\ UNCHANGED <<initialized, failures, connection, gone, retries, used, writer,
                 health, faults, historyVars>>

\* get_service throws, and with it find_new_connection and execute.
LockKept(c) == writer                        \* slip: unlock() not reached
LockReleased(c) == IF writer = c THEN NoCaller ELSE writer

DiscoverThrows(c) ==
  /\ At(c, "discover")
  /\ Fault
  /\ undiscovered' = TRUE
  /\ writer' = LockReleased(c)
  /\ Goto(c, "idle")
  /\ UNCHANGED <<connVars, retries, used, health, failedHere>>

\* get_service finds no instance, and the null pointer is followed.
DiscoverNone(c) ==
  /\ At(c, "discover")
  /\ Fault
  /\ undiscovered' = TRUE
  /\ service' = "null"
  /\ health' = "crashed"
  /\ UNCHANGED <<initialized, failures, connection, gone, callVars, failedHere>>

FailuresKept == failures                    \* slip: no failures = 0
NoFailures == 0

\* delete internal_connection; internal_connection = ...; failures = 0.  What
\* was deleted by an earlier try that threw is deleted again.
ConnectAgain(c) ==
  /\ At(c, "connect")
  /\ writer = c
  /\ connection' = connection + 1
  /\ failures' = NoFailures
  /\ failedHere' = 0
  /\ health' = IF gone THEN "crashed" ELSE "ok"
  /\ Retry(c)
  /\ UNCHANGED <<initialized, gone, service, used, faults, undiscovered>>

ConnectFirst(c) ==
  /\ At(c, "connect")
  /\ writer # c
  /\ connection' = connection + 1
  /\ failedHere' = 0
  /\ Goto(c, "read")
  /\ UNCHANGED <<initialized, failures, gone, service, retries, used, writer,
                 health, faults, undiscovered>>

\* get_neo4j_interface throws, and with it execute.  The old connection is
\* deleted by then, and internal_connection still points to it.
ConnectThrows(c) ==
  /\ At(c, "connect")
  /\ Fault
  /\ undiscovered' = TRUE
  /\ gone' = (connection > 0)
  /\ health' = IF gone THEN "crashed" ELSE "ok"
  /\ writer' = LockReleased(c)
  /\ Goto(c, "idle")
  /\ UNCHANGED <<initialized, failures, connection, service, retries, used,
                 failedHere>>

-----------------------------------------------------------------------------
Continue(c) ==
  \/ Top(c) \/ GiveUp(c) \/ ReadLock(c) \/ QuerySucceeds(c) \/ QueryFails(c)
  \/ CountFailure(c) \/ WriteLock(c) \/ KeepConnection(c) \/ DropService(c)
  \/ Discover(c) \/ DiscoverThrows(c) \/ DiscoverNone(c)
  \/ ConnectAgain(c) \/ ConnectFirst(c) \/ ConnectThrows(c)

Next == \E c \in Callers : Call(c) \/ Continue(c)

Spec == Init /\ [][Next]_vars

\* A thread inside execute is scheduled, and every query comes to an end.
Fairness == \A c \in Callers : WF_vars(Continue(c))

FairSpec == Spec /\ Fairness

-----------------------------------------------------------------------------
TypeOK ==
  /\ initialized \in BOOLEAN
  /\ failures \in Nat
  /\ connection \in Nat
  /\ gone \in BOOLEAN
  /\ service \in {"null", "held", "dangling"}
  /\ writer \in Callers \cup {NoCaller}
  /\ pc \in [Callers -> Steps]
  /\ retries \in [Callers -> 0..max_retries]
  /\ used \in [Callers -> Nat]
  /\ health \in {"ok", "crashed"}
  /\ faults \in 0..MaxFaults
  /\ failedHere \in Nat
  /\ undiscovered \in BOOLEAN

\* No connection is deleted while a query runs on it, although the first one
\* is made under no lock, nor does a query run on one that was deleted and
\* could not be replaced.
QueryOnLiveConnection ==
  \A c \in Callers : At(c, "query") => used[c] = connection /\ ~gone

\* A pointer goes wrong only before the first connection is there (another
\* caller passes line 120 or 151 while it is being made) or after
\* find_new_connection failed: it leaves connected_service deleted, or null, or
\* internal_connection deleted.
CrashExplained == health = "crashed" => connection = 0 \/ undiscovered

\* The connection is replaced only when more than max_failures queries failed
\* on it, give or take the one query of each other caller that failed on an
\* earlier connection and was counted late.
SwitchJustified ==
  \A c \in Callers :
    writer = c /\ pc[c] \in {"discover", "connect"} =>
      failedHere + Cardinality(Callers) - 1 > max_failures

\* A call returns once the others leave the lock to it: nobody goes away with
\* the lock, by whatever way execute is left.
CallReturns ==
  \A c \in Callers :
    <>[](health = "ok" /\ \A d \in Callers \ {c} : pc[d] = "idle")
      => []<>(pc[c] = "idle")
=============================================================================
