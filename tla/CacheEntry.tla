----------------------------- MODULE CacheEntry -----------------------------
(***************************************************************************)
(* DeviceCacheEntry of src/src/cache/include/device_cache.h: the address   *)
(* list of one scene, kept twice.  One copy is published by                *)
(* current_vector_id; a writer fills the other one and then flips the id.  *)
(* Readers take no lock: they load the id, raise the counter of the copy   *)
(* it names, copy that vector and lower the counter.  A writer holds       *)
(* write_guard and spins until nobody is counted on the copy it is about   *)
(* to overwrite.                                                           *)
(*                                                                         *)
(* An address list is represented by its version: the n-th list moved into *)
(* the entry is n, the empty list of a new entry is 0.  The two non-atomic *)
(* accesses, the copy of a vector and the move into one, have a beginning  *)
(* and an end.  A read of a vector that overlaps a move into it is a data  *)
(* race, whose outcome is Torn.                                            *)
(***************************************************************************)
EXTENDS Naturals, FiniteSets

CONSTANTS
  Readers,    \* threads that call get_addresses
  Writers,    \* threads that call set_addresses
  NoWriter,   \* write_guard is free
  Torn,       \* what a racing read returns
  MaxWrites   \* bound: calls of set_addresses

ASSUME ReadersFinite == IsFiniteSet(Readers)
ASSUME NoWriterIsNone == NoWriter \notin Writers
ASSUME TornIsNoList == Torn \notin Nat
ASSUME MaxWritesNat == MaxWrites \in Nat

Buffers == {0, 1}
Other(b) == 1 - b

VARIABLES
  current,    \* current_vector_id
  addresses,  \* device_addresses_0 and device_addresses_1, as versions
  counter,    \* addresses0_counter and addresses1_counter
  guard,      \* the writer that holds write_guard, or NoWriter
  rpc, rbuf,  \* a reader's place in get_addresses, and the branch it took
  got,        \* its return_vector
  wpc, wbuf,  \* a writer's place in set_addresses, and the branch it took
  floor,      \* history: the version published when the reader loaded the id
  pinned      \* history: the reader's copy was still the published one when
              \* the reader raised its counter

readerVars == <<rpc, rbuf, got, floor, pinned>>
writerVars == <<wpc, wbuf, guard>>
vars == <<current, addresses, counter, readerVars, writerVars>>

ReaderSteps == {"idle", "loaded", "counted", "copying", "copied"}
WriterSteps == {"idle", "locked", "clear", "moving", "moved", "flipped"}

Init ==
  /\ current = 0
  /\ addresses = [b \in Buffers |-> 0]
  /\ counter = [b \in Buffers |-> 0]
  /\ guard = NoWriter
  /\ rpc = [r \in Readers |-> "idle"]
  /\ rbuf = [r \in Readers |-> 0]
  /\ got = [r \in Readers |-> 0]
  /\ wpc = [w \in Writers |-> "idle"]
  /\ wbuf = [w \in Writers |-> 1]
  /\ floor = [r \in Readers |-> 0]
  /\ pinned = [r \in Readers |-> FALSE]

-----------------------------------------------------------------------------
(* The readers. *)

Moving(b) == \E w \in Writers : wpc[w] = "moving" /\ wbuf[w] = b
Copying(r, b) == rpc[r] = "copying" /\ rbuf[r] = b

\* The version readers find by way of current_vector_id.
Published == addresses[current]

\* The branch of line 32: the copy that current_vector_id names.
BranchSwapped == Other(current)  \* slip: the two branches exchanged
Branch == current

\* if (current_vector_id.load() == 0)
LoadId(r) ==
  /\ rpc[r] = "idle"
  /\ rpc' = [rpc EXCEPT ![r] = "loaded"]
  /\ rbuf' = [rbuf EXCEPT ![r] = Branch]
  /\ floor' = [floor EXCEPT ![r] = Published]
  /\ pinned' = [pinned EXCEPT ![r] = FALSE]
  /\ UNCHANGED <<current, addresses, counter, got, writerVars>>

\* addresses0_counter++, or addresses1_counter++
RaiseCounter(r) ==
  /\ rpc[r] = "loaded"
  /\ rpc' = [rpc EXCEPT ![r] = "counted"]
  /\ counter' = [counter EXCEPT ![rbuf[r]] = @ + 1]
  /\ pinned' = [pinned EXCEPT ![r] = (rbuf[r] = current)]
  /\ UNCHANGED <<current, addresses, rbuf, got, floor, writerVars>>

\* return_vector = device_addresses_x begins; it races with a move under way.
BeginCopy(r) ==
  /\ rpc[r] = "counted"
  /\ rpc' = [rpc EXCEPT ![r] = "copying"]
  /\ got' = [got EXCEPT ![r] = IF Moving(rbuf[r]) THEN Torn
                                                  ELSE addresses[rbuf[r]]]
  /\ UNCHANGED <<current, addresses, counter, rbuf, floor, pinned, writerVars>>

EndCopy(r) ==
  /\ rpc[r] = "copying"
  /\ rpc' = [rpc EXCEPT ![r] = "copied"]
  /\ UNCHANGED <<current, addresses, counter, rbuf, got, floor, pinned,
                 writerVars>>

\* addressesx_counter--, and return
LowerCounter(r) ==
  /\ rpc[r] = "copied"
  /\ rpc' = [rpc EXCEPT ![r] = "idle"]
  /\ counter' = [counter EXCEPT ![rbuf[r]] = @ - 1]
  /\ UNCHANGED <<current, addresses, rbuf, got, floor, pinned, writerVars>>

-----------------------------------------------------------------------------
(* The writers. *)

\* Versions are handed out in the order of the writes, which write_guard
\* makes a total order: the next one follows the latest of the two copies.
Latest == IF addresses[0] > addresses[1] THEN addresses[0] ELSE addresses[1]

\* Line 52: the lock is free.
GuardIgnored == TRUE  \* slip: no lock_guard
GuardFree == guard = NoWriter

\* Lines 56 and 59: nobody is counted on the copy to be overwritten.
SpinSkipped(w) == TRUE                              \* slip: no spin
SpinOnPublished(w) == counter[Other(wbuf[w])] = 0   \* slip: the other counter
SpinOver(w) == counter[wbuf[w]] = 0

\* std::lock_guard lock(write_guard); if (current_vector_id == 0)
LockGuard(w) ==
  /\ wpc[w] = "idle"
  /\ Latest < MaxWrites
  /\ GuardFree
  /\ guard' = w
  /\ wpc' = [wpc EXCEPT ![w] = "locked"]
  /\ wbuf' = [wbuf EXCEPT ![w] = Other(current)]
  /\ UNCHANGED <<current, addresses, counter, readerVars>>

\* The spin ends: while (addressesx_counter.load() > 0) yield();
SpinEnds(w) ==
  /\ wpc[w] = "locked"
  /\ SpinOver(w)
  /\ wpc' = [wpc EXCEPT ![w] = "clear"]
  /\ UNCHANGED <<current, addresses, counter, readerVars, wbuf, guard>>

\* device_addresses_x = std::move(updated_addresses) begins; whoever is
\* copying that vector now has a torn copy.
BeginMove(w) ==
  /\ wpc[w] = "clear"
  /\ wpc' = [wpc EXCEPT ![w] = "moving"]
  /\ got' = [r \in Readers |-> IF Copying(r, wbuf[w]) THEN Torn ELSE got[r]]
  /\ UNCHANGED <<current, addresses, counter, rpc, rbuf, floor, pinned, wbuf,
                 guard>>

EndMove(w) ==
  /\ wpc[w] = "moving"
  /\ wpc' = [wpc EXCEPT ![w] = "moved"]
  /\ addresses' = [addresses EXCEPT ![wbuf[w]] = Latest + 1]
  /\ UNCHANGED <<current, counter, readerVars, wbuf, guard>>

NextIdNoWrap == current + 1   \* slip: no % 2
NextId == (current + 1) % 2

\* current_vector_id = (current_vector_id + 1) % 2
Flip(w) ==
  /\ wpc[w] = "moved"
  /\ wpc' = [wpc EXCEPT ![w] = "flipped"]
  /\ current' = NextId
  /\ UNCHANGED <<addresses, counter, readerVars, wbuf, guard>>

\* The lock_guard leaves its scope.
UnlockGuard(w) ==
  /\ wpc[w] = "flipped"
  /\ wpc' = [wpc EXCEPT ![w] = "idle"]
  /\ guard' = NoWriter
  /\ UNCHANGED <<current, addresses, counter, readerVars, wbuf>>

-----------------------------------------------------------------------------
ReaderNext(r) ==
  LoadId(r) \/ RaiseCounter(r) \/ BeginCopy(r) \/ EndCopy(r) \/ LowerCounter(r)

WriterNext(w) ==
  \/ LockGuard(w) \/ SpinEnds(w) \/ BeginMove(w)
  \/ EndMove(w) \/ Flip(w) \/ UnlockGuard(w)

Next ==
  \/ \E r \in Readers : ReaderNext(r)
  \/ \E w \in Writers : WriterNext(w)

Spec == Init /\ [][Next]_vars

\* A thread inside get_addresses or set_addresses is scheduled again sooner
\* or later; nobody is obliged to make another call.
Fairness ==
  /\ \A r \in Readers : WF_vars(rpc[r] # "idle" /\ ReaderNext(r))
  /\ \A w \in Writers : WF_vars(wpc[w] # "idle" /\ WriterNext(w))

FairSpec == Spec /\ Fairness

-----------------------------------------------------------------------------
Counted(b) ==
  {r \in Readers : rpc[r] \in {"counted", "copying", "copied"} /\ rbuf[r] = b}

TypeOK ==
  /\ current \in Buffers
  /\ addresses \in [Buffers -> Nat]
  /\ counter \in [Buffers -> Nat]
  /\ guard \in Writers \cup {NoWriter}
  /\ rpc \in [Readers -> ReaderSteps]
  /\ rbuf \in [Readers -> Buffers]
  /\ got \in [Readers -> Nat \cup {Torn}]
  /\ wpc \in [Writers -> WriterSteps]
  /\ wbuf \in [Writers -> Buffers]
  /\ floor \in [Readers -> Nat]
  /\ pinned \in [Readers -> BOOLEAN]

\* From the choice of the branch (line 55) to the flip (line 62) a writer
\* works on the copy that is not published, whatever other writers do: the
\* id it read at line 55 is not stale when it moves the new list in.
PublishedNotWritten ==
  \A w \in Writers :
    wpc[w] \in {"locked", "clear", "moving", "moved"} => wbuf[w] # current

\* A reader that is counted while its copy is still the published one gets a
\* whole list: the spin of lines 56 and 59 keeps every writer out of it.
PinnedReadWhole ==
  \A r \in Readers :
    pinned[r] /\ rpc[r] \in {"copying", "copied"} => got[r] # Torn

\* No whole read is older than what was published when get_addresses loaded
\* the id, even if writers replaced both copies meanwhile.
ReadNotStale ==
  \A r \in Readers :
    rpc[r] \in {"copying", "copied"} /\ got[r] # Torn => got[r] >= floor[r]

\* Reads and updates of an entry are those of a list that is replaced at one
\* instant, when the id flips: who is not interfered with reads the published
\* list, and others read no list older than the one they began with and none
\* that is more than one ahead, or a torn one.
PublishedList ==
  INSTANCE AddressList WITH
    list <- Published,
    call <- [r \in Readers |-> CASE rpc[r] = "idle" -> "out"
                                 [] rpc[r] = "copied" -> "answered"
                                 [] OTHER -> "in"],
    since <- floor,
    answer <- [r \in Readers |-> IF rpc[r] = "copied" THEN got[r] ELSE 0]

ImplementsAddressList == PublishedList!Spec

\* Readers that come and go forever do not keep a writer spinning: new ones
\* are counted on the published copy, so the other copy's counter drains.
WriterNotStarved ==
  \A w \in Writers : wpc[w] = "locked" ~> wpc[w] = "idle"

\* "Get the latest complete list of addresses" (line 28) of "an entry in a
\* thread-safe cache" (line 15): get_addresses returns a complete list.
ReadComplete ==
  \A r \in Readers : rpc[r] = "copied" => got[r] # Torn
=============================================================================
