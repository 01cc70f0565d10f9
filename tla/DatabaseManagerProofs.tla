----------------------- MODULE DatabaseManagerProofs -----------------------
(***************************************************************************)
(* Proofs about DatabaseManager, for any set of callers and any limits.    *)
(***************************************************************************)
EXTENDS DatabaseManager, FiniteSetTheorems, TLAPS

\* Who makes the first connection, under no lock.
First(c) == pc[c] \in {"discover", "connect"} /\ writer # c

\* Every try that was begun was allowed.
TriesLeft ==
  \A c \in Callers : pc[c] \notin {"idle", "top"} => retries[c] < max_retries

\* A writer is in set_new_connection, and nobody queries meanwhile.
LockHeld ==
  /\ \A c \in Callers : pc[c] = "test" => writer = c
  /\ writer # NoCaller => /\ pc[writer] \in {"test", "discover", "connect"}
                          /\ \A c \in Callers : pc[c] # "query"

\* Until initialized is set nobody is past the test of it; then one caller at
\* most makes the first connection.
OneFirst ==
  /\ ~initialized => connection = 0 /\ \A c \in Callers : pc[c] \in {"idle", "top"}
  /\ \A c \in Callers : First(c) => connection = 0
  /\ \A c, d \in Callers : First(c) /\ First(d) => c = d

\* Without a connection there is no query, so no failure and no lock.
NothingBefore ==
  connection = 0 =>
    /\ writer = NoCaller
    /\ \A c \in Callers : pc[c] \in {"idle", "top", "read", "discover", "connect"}

\* The service is only left deleted by a discovery that failed,
\* and the connection by one that did not connect.
ServiceExplained ==
  service = "dangling" =>
    undiscovered \/ (writer # NoCaller /\ pc[writer] = "discover")

GoneExplained == gone => undiscovered

Working ==
  health = "ok" => /\ LockHeld
                   /\ OneFirst
                   /\ NothingBefore
                   /\ ServiceExplained
                   /\ GoneExplained
                   /\ \A c \in Callers : pc[c] = "query" => used[c] = connection /\ ~gone

\* Callers whose query failed and who have not counted it yet.
Failed == {c \in Callers : pc[c] = "failed"}

\* What is counted, and what is still to be counted, was met on this connection
\* but for one query of each other caller; who replaces it has counted enough.
FailuresMet ==
  /\ connection = 0 => failures = 0
  /\ \A c \in Callers :
       failures + Cardinality(Failed) < failedHere + Cardinality(Callers)
  /\ \A c \in Callers :
       writer = c /\ pc[c] \in {"discover", "connect"} => failures > max_failures

ConnectionInv == TypeOK /\ TriesLeft /\ Working /\ CrashExplained

-----------------------------------------------------------------------------
LEMMA InitConnection == Init => ConnectionInv
<1> SUFFICES ASSUME Init
             PROVE  ConnectionInv
  OBVIOUS
<1>1. TypeOK
  <2>1. 0 \in 0..max_retries /\ 0 \in 0..MaxFaults
    BY LimitsNat
  <2>2. /\ pc \in [Callers -> Steps]
        /\ retries \in [Callers -> 0..max_retries]
        /\ used \in [Callers -> Nat]
    BY <2>1 DEF Init, Steps
  <2>3. faults \in 0..MaxFaults
    BY <2>1 DEF Init
  <2> QED
    BY <2>2, <2>3 DEF Init, TypeOK
<1>2. TriesLeft
  BY DEF Init, TriesLeft
<1>3. Working
  BY DEF Init, Working, LockHeld, OneFirst, NothingBefore, ServiceExplained,
         GoneExplained, First
<1>4. CrashExplained
  BY DEF Init, CrashExplained
<1> QED
  BY <1>1, <1>2, <1>3, <1>4 DEF ConnectionInv

\* The types, and with them that no call tries more often than it may.
LEMMA TypePreserved ==
  TypeOK /\ TriesLeft /\ [Next]_vars => TypeOK' /\ TriesLeft'
<1> SUFFICES ASSUME TypeOK, TriesLeft, [Next]_vars
             PROVE  TypeOK' /\ TriesLeft'
  OBVIOUS
<1> USE LimitsNat DEF TypeOK, TriesLeft, Steps, At, Goto
<1>1. ASSUME NEW c \in Callers, Call(c) PROVE TypeOK' /\ TriesLeft'
  BY <1>1 DEF Call, connVars, historyVars
<1>2. ASSUME NEW c \in Callers, Top(c) PROVE TypeOK' /\ TriesLeft'
  BY <1>2 DEF Top, MayTry, historyVars
<1>3. ASSUME NEW c \in Callers, GiveUp(c) PROVE TypeOK' /\ TriesLeft'
  BY <1>3 DEF GiveUp, connVars, historyVars
<1>4. ASSUME NEW c \in Callers, ReadLock(c) PROVE TypeOK' /\ TriesLeft'
  BY <1>4 DEF ReadLock, connVars, historyVars
<1>5. ASSUME NEW c \in Callers, QuerySucceeds(c) PROVE TypeOK' /\ TriesLeft'
  BY <1>5 DEF QuerySucceeds, connVars
<1>6. ASSUME NEW c \in Callers, QueryFails(c) PROVE TypeOK' /\ TriesLeft'
  BY <1>6 DEF QueryFails, Fault, connVars
<1>7. ASSUME NEW c \in Callers, CountFailure(c) PROVE TypeOK' /\ TriesLeft'
  BY <1>7 DEF CountFailure, historyVars
<1>8. ASSUME NEW c \in Callers, WriteLock(c) PROVE TypeOK' /\ TriesLeft'
  BY <1>8 DEF WriteLock, connVars, historyVars
<1>9. ASSUME NEW c \in Callers, KeepConnection(c) PROVE TypeOK' /\ TriesLeft'
  BY <1>9 DEF KeepConnection, Retry, connVars, historyVars
<1>10. ASSUME NEW c \in Callers, DropService(c) PROVE TypeOK' /\ TriesLeft'
  BY <1>10 DEF DropService, historyVars
<1>11. ASSUME NEW c \in Callers, Discover(c) PROVE TypeOK' /\ TriesLeft'
  BY <1>11 DEF Discover, historyVars
<1>12. ASSUME NEW c \in Callers, DiscoverThrows(c) PROVE TypeOK' /\ TriesLeft'
  BY <1>12 DEF DiscoverThrows, Fault, LockReleased, connVars
<1>13. ASSUME NEW c \in Callers, DiscoverNone(c) PROVE TypeOK' /\ TriesLeft'
  BY <1>13 DEF DiscoverNone, Fault, callVars
<1>14. ASSUME NEW c \in Callers, ConnectAgain(c) PROVE TypeOK' /\ TriesLeft'
  BY <1>14 DEF ConnectAgain, Retry, NoFailures
<1>15. ASSUME NEW c \in Callers, ConnectFirst(c) PROVE TypeOK' /\ TriesLeft'
  BY <1>15 DEF ConnectFirst
<1>16. ASSUME NEW c \in Callers, ConnectThrows(c) PROVE TypeOK' /\ TriesLeft'
  BY <1>16 DEF ConnectThrows, Fault, LockReleased
<1>17. CASE UNCHANGED vars
  BY <1>17 DEF vars, connVars, callVars, historyVars
<1> QED
  BY <1>1, <1>2, <1>3, <1>4, <1>5, <1>6, <1>7, <1>8, <1>9, <1>10, <1>11, <1>12,
     <1>13, <1>14, <1>15, <1>16, <1>17 DEF Next, Continue

\* What holds as long as the process runs, and why it stops if it does.
LEMMA WorkingPreserved ==
  ConnectionInv /\ [Next]_vars => Working' /\ CrashExplained'
<1> SUFFICES ASSUME ConnectionInv, [Next]_vars
             PROVE  Working' /\ CrashExplained'
  OBVIOUS
<1> USE NoCallerIsNone DEF ConnectionInv, TypeOK, Steps, Working, CrashExplained,
        LockHeld, OneFirst, NothingBefore, ServiceExplained, GoneExplained,
        First, At, Goto
<1>1. ASSUME NEW c \in Callers, Call(c) PROVE Working' /\ CrashExplained'
  BY <1>1 DEF Call, connVars, historyVars
<1>2. ASSUME NEW c \in Callers, Top(c) PROVE Working' /\ CrashExplained'
  BY <1>2 DEF Top, MayTry, historyVars
<1>3. ASSUME NEW c \in Callers, GiveUp(c) PROVE Working' /\ CrashExplained'
  BY <1>3 DEF GiveUp, connVars, historyVars
<1>4. ASSUME NEW c \in Callers, ReadLock(c) PROVE Working' /\ CrashExplained'
  BY <1>4 DEF ReadLock, connVars, historyVars
<1>5. ASSUME NEW c \in Callers, QuerySucceeds(c) PROVE Working' /\ CrashExplained'
  BY <1>5 DEF QuerySucceeds, Deleted, connVars
<1>6. ASSUME NEW c \in Callers, QueryFails(c) PROVE Working' /\ CrashExplained'
  BY <1>6 DEF QueryFails, Deleted, Fault, connVars
<1>7. ASSUME NEW c \in Callers, CountFailure(c) PROVE Working' /\ CrashExplained'
  BY <1>7 DEF CountFailure, historyVars
<1>8. ASSUME NEW c \in Callers, WriteLock(c) PROVE Working' /\ CrashExplained'
  BY <1>8 DEF WriteLock, WriteLockFree, Reading, connVars, historyVars
<1>9. ASSUME NEW c \in Callers, KeepConnection(c) PROVE Working' /\ CrashExplained'
  BY <1>9 DEF KeepConnection, Retry, connVars, historyVars
<1>10. ASSUME NEW c \in Callers, DropService(c) PROVE Working' /\ CrashExplained'
  BY <1>10 DEF DropService, historyVars
<1>11. ASSUME NEW c \in Callers, Discover(c) PROVE Working' /\ CrashExplained'
  BY <1>11 DEF Discover, historyVars
<1>12. ASSUME NEW c \in Callers, DiscoverThrows(c) PROVE Working' /\ CrashExplained'
  BY <1>12 DEF DiscoverThrows, Fault, LockReleased, connVars
<1>13. ASSUME NEW c \in Callers, DiscoverNone(c) PROVE Working' /\ CrashExplained'
  BY <1>13 DEF DiscoverNone, Fault, callVars
<1>14. ASSUME NEW c \in Callers, ConnectAgain(c) PROVE Working' /\ CrashExplained'
  BY <1>14 DEF ConnectAgain, Retry, NoFailures
<1>15. ASSUME NEW c \in Callers, ConnectFirst(c) PROVE Working' /\ CrashExplained'
  BY <1>15 DEF ConnectFirst
<1>16. ASSUME NEW c \in Callers, ConnectThrows(c) PROVE Working' /\ CrashExplained'
  BY <1>16 DEF ConnectThrows, Fault, LockReleased
<1>17. CASE UNCHANGED vars
  BY <1>17 DEF vars, connVars, callVars, historyVars
<1> QED
  BY <1>1, <1>2, <1>3, <1>4, <1>5, <1>6, <1>7, <1>8, <1>9, <1>10, <1>11, <1>12,
     <1>13, <1>14, <1>15, <1>16, <1>17 DEF Next, Continue

LEMMA FailedFinite ==
  ASSUME NEW S \in SUBSET Callers
  PROVE  /\ IsFiniteSet(S) /\ Cardinality(S) \in Nat
         /\ Cardinality(S) <= Cardinality(Callers)
  BY CallersFinite, FS_Subset, FS_CardinalityType

\* Failures move from "failed" to the count; a new connection starts with those
\* that are still to be counted.
LEMMA FailuresPreserved ==
  ConnectionInv /\ FailuresMet /\ [Next]_vars => FailuresMet'
<1> SUFFICES ASSUME ConnectionInv, FailuresMet, [Next]_vars
             PROVE  FailuresMet'
  OBVIOUS
<1>0. /\ failures \in Nat /\ failedHere \in Nat /\ connection \in Nat
      /\ pc \in [Callers -> Steps] /\ max_failures \in Nat
      /\ Cardinality(Callers) \in Nat /\ Cardinality(Failed) \in Nat
      /\ IsFiniteSet(Failed)
  BY LimitsNat, FailedFinite DEF ConnectionInv, TypeOK, Failed
<1> DEFINE Others == /\ UNCHANGED <<failures, failedHere>>
                     /\ connection' = connection
                     /\ Failed' = Failed
                     /\ \A c \in Callers :
                          writer' = c /\ pc'[c] \in {"discover", "connect"} =>
                            failures > max_failures
<1>1. Others => FailuresMet'
  BY <1>0 DEF FailuresMet
<1> USE <1>0, NoCallerIsNone DEF At, Goto, Failed
<1>2. ASSUME NEW c \in Callers, Call(c) PROVE Others
  BY <1>2 DEF Call, connVars, historyVars, FailuresMet, ConnectionInv, Working, LockHeld, OneFirst
<1>3. ASSUME NEW c \in Callers, Top(c) PROVE Others
  BY <1>3 DEF Top, MayTry, historyVars, FailuresMet, ConnectionInv, Working, LockHeld, OneFirst
<1>4. ASSUME NEW c \in Callers, GiveUp(c) PROVE Others
  BY <1>4 DEF GiveUp, connVars, historyVars, FailuresMet, ConnectionInv, Working, LockHeld, OneFirst
<1>5. ASSUME NEW c \in Callers, ReadLock(c) PROVE Others
  BY <1>5 DEF ReadLock, connVars, historyVars, FailuresMet, ConnectionInv, Working, LockHeld, OneFirst
<1>6. ASSUME NEW c \in Callers, QuerySucceeds(c) PROVE Others
  BY <1>6 DEF QuerySucceeds, connVars, FailuresMet, ConnectionInv, Working, LockHeld, OneFirst
<1>7. ASSUME NEW c \in Callers, WriteLock(c) PROVE Others
  BY <1>7 DEF WriteLock, connVars, historyVars, FailuresMet, ConnectionInv, Working, LockHeld, OneFirst
<1>8. ASSUME NEW c \in Callers, KeepConnection(c) PROVE Others
  BY <1>8 DEF KeepConnection, Retry, connVars, historyVars, FailuresMet, ConnectionInv, Working, LockHeld, OneFirst
<1>9. ASSUME NEW c \in Callers, DropService(c) PROVE Others
  BY <1>9 DEF DropService, TooManyFailures, historyVars, FailuresMet, ConnectionInv, Working, LockHeld, OneFirst
<1>10. ASSUME NEW c \in Callers, Discover(c) PROVE Others
  BY <1>10 DEF Discover, historyVars, FailuresMet, ConnectionInv, Working, LockHeld, OneFirst
<1>11. ASSUME NEW c \in Callers, DiscoverThrows(c) PROVE Others
  BY <1>11 DEF DiscoverThrows, LockReleased, connVars, FailuresMet, ConnectionInv, Working, LockHeld, OneFirst
<1>12. ASSUME NEW c \in Callers, DiscoverNone(c) PROVE Others
  BY <1>12 DEF DiscoverNone, callVars, FailuresMet, ConnectionInv, Working, LockHeld, OneFirst
<1>13. ASSUME NEW c \in Callers, QueryFails(c) PROVE FailuresMet'
  <2>1. /\ failures' = failures /\ failedHere' = failedHere + 1
        /\ connection' = connection /\ writer' = writer
        /\ pc' = [pc EXCEPT ![c] = "failed"] /\ pc[c] = "query"
    BY <1>13 DEF QueryFails, connVars
  <2>2. Failed' = Failed \cup {c} /\ c \notin Failed
    BY <2>1
  <2> HIDE DEF Failed
  <2>3. Cardinality(Failed \cup {c}) = Cardinality(Failed) + 1
    BY <1>0, <2>2, FS_AddElement
  <2>4. Cardinality(Failed') = Cardinality(Failed) + 1
    BY <2>2, <2>3
  <2> QED
    BY <2>1, <2>4 DEF FailuresMet
<1>14. ASSUME NEW c \in Callers, CountFailure(c) PROVE FailuresMet'
  <2>1. /\ failures' = failures + 1 /\ failedHere' = failedHere
        /\ connection' = connection /\ writer' = writer
        /\ pc' = [pc EXCEPT ![c] = "lock"] /\ pc[c] = "failed"
    BY <1>14 DEF CountFailure, historyVars
  <2>2. Failed' = Failed \ {c} /\ c \in Failed
    BY <2>1
  <2>3. connection # 0
    BY <1>14, <2>1 DEF CountFailure, ConnectionInv, Working, NothingBefore
  <2> HIDE DEF Failed
  <2>4. Cardinality(Failed \ {c}) = Cardinality(Failed) - 1
    BY <1>0, <2>2, FS_RemoveElement
  <2>5. Cardinality(Failed') = Cardinality(Failed) - 1
    BY <2>2, <2>4
  <2> QED
    BY <2>1, <2>3, <2>5 DEF FailuresMet
<1>15. ASSUME NEW c \in Callers, ConnectAgain(c) PROVE FailuresMet'
  <2>1. /\ failures' = 0 /\ failedHere' = 0 /\ writer' = NoCaller
        /\ pc' = [pc EXCEPT ![c] = "top"] /\ pc[c] = "connect"
    BY <1>15 DEF ConnectAgain, Retry, NoFailures
  <2>2. Failed' = Failed /\ c \in Callers \ Failed
    BY <2>1
  <2>3. Cardinality(Failed) < Cardinality(Callers)
    BY <2>2, CallersFinite, FS_Subset
  <2> QED
    BY <2>1, <2>2, <2>3 DEF FailuresMet
<1>16. ASSUME NEW c \in Callers, ConnectFirst(c) PROVE FailuresMet'
  <2>1. /\ failures' = failures /\ failedHere' = 0 /\ writer' = writer
        /\ pc' = [pc EXCEPT ![c] = "read"] /\ pc[c] = "connect" /\ writer # c
        /\ connection = 0 /\ health = "ok"
    BY <1>16 DEF ConnectFirst, ConnectionInv, Working, OneFirst, First
  <2>2. /\ failures = 0 /\ writer = NoCaller
        /\ \A d \in Callers : pc[d] # "failed"
    BY <2>1 DEF FailuresMet, ConnectionInv, Working, NothingBefore
  <2>3. Failed' = {}
    BY <2>1, <2>2
  <2>4. Cardinality(Failed') = 0 /\ Cardinality(Callers) > 0
    BY <2>3, CallersFinite, FS_EmptySet
  <2> QED
    BY <2>1, <2>2, <2>4 DEF FailuresMet
<1>17. ASSUME NEW c \in Callers, ConnectThrows(c) PROVE Others
  BY <1>17 DEF ConnectThrows, LockReleased, FailuresMet, ConnectionInv, Working, LockHeld, OneFirst
<1>18. CASE UNCHANGED vars
  BY <1>1, <1>18 DEF vars, connVars, callVars, historyVars, FailuresMet
<1> QED
  BY <1>1, <1>2, <1>3, <1>4, <1>5, <1>6, <1>7, <1>8, <1>9, <1>10, <1>11, <1>12, <1>13, <1>14, <1>15, <1>16, <1>17, <1>18 DEF Next, Continue

-----------------------------------------------------------------------------
\* The inductive invariant: the write lock, the first connection and the
\* service are where the code at its place supposes them.
THEOREM ManagerSafe == Spec => []ConnectionInv
<1>1. ConnectionInv /\ [Next]_vars => ConnectionInv'
  BY TypePreserved, WorkingPreserved DEF ConnectionInv
<1> QED
  BY InitConnection, <1>1, PTL DEF Spec

\* Every variable of the manager keeps its type; no call tries too often.
THEOREM ManagerTypeOK == Spec => []TypeOK
<1>1. ConnectionInv => TypeOK
  BY DEF ConnectionInv
<1> QED
  BY ManagerSafe, <1>1, PTL

\* set_new_connection deletes no connection that a query of execute runs on.
THEOREM ManagerQueryOnLiveConnection == Spec => []QueryOnLiveConnection
<1>1. ConnectionInv => QueryOnLiveConnection
  BY DEF ConnectionInv, Working, QueryOnLiveConnection, At
<1> QED
  BY ManagerSafe, <1>1, PTL

\* find_new_connection and execute follow a null, deleted or dangling pointer
\* only before the first connection is made or after find_new_connection failed.
THEOREM ManagerCrashExplained == Spec => []CrashExplained
<1>1. ConnectionInv => CrashExplained
  BY DEF ConnectionInv
<1> QED
  BY ManagerSafe, <1>1, PTL

\* set_new_connection replaces a connection only when more than max_failures
\* queries failed on it, give or take one of each other caller.
THEOREM ManagerSwitchJustified == Spec => []SwitchJustified
<1>1. Init => FailuresMet
  <2> SUFFICES ASSUME Init PROVE FailuresMet
    OBVIOUS
  <2>1. Failed = {}
    BY DEF Init, Failed
  <2>2. Cardinality(Failed) = 0
    BY <2>1, FS_EmptySet
  <2>3. \A c \in Callers : Cardinality(Callers) \in Nat \ {0}
    BY CallersFinite, FS_EmptySet, FS_CardinalityType
  <2>4. failures = 0 /\ failedHere = 0 /\ \A c \in Callers : writer # c
    BY NoCallerIsNone DEF Init
  <2> HIDE DEF Failed
  <2> QED
    BY <2>2, <2>3, <2>4 DEF FailuresMet
<1>2. ConnectionInv /\ FailuresMet => SwitchJustified
  <2> SUFFICES ASSUME ConnectionInv, FailuresMet, NEW c \in Callers,
                      writer = c, pc[c] \in {"discover", "connect"}
               PROVE  failedHere + Cardinality(Callers) - 1 > max_failures
    BY DEF SwitchJustified
  <2>1. /\ failures \in Nat /\ failedHere \in Nat /\ max_failures \in Nat
        /\ Cardinality(Callers) \in Nat /\ Cardinality(Failed) \in Nat
    BY LimitsNat, FailedFinite DEF ConnectionInv, TypeOK, Failed
  <2> QED
    BY <2>1 DEF FailuresMet
<1> QED
  BY ManagerSafe, <1>1, <1>2, FailuresPreserved, PTL DEF Spec
=============================================================================
