-------------------------- MODULE CacheEntryProofs --------------------------
(***************************************************************************)
(* Proofs about CacheEntry, for any finite set of readers, any set of      *)
(* writers and any number of writes.                                       *)
(***************************************************************************)
EXTENDS CacheEntry, FiniteSetTheorems, TLAPS

CountedSteps == {"counted", "copying", "copied"}
AtWork == {"locked", "clear", "moving", "moved"}
PastSpin == {"clear", "moving", "moved"}

\* The holder of write_guard is the only writer inside set_addresses.
GuardHeld == \A w \in Writers : wpc[w] # "idle" => guard = w

\* A counter is the number of readers between its increment and decrement.
CounterExact == \A b \in Buffers : counter[b] = Cardinality(Counted(b))

\* No writer got past the spin on a copy that a pinned reader is counted on.
PinnedProtected ==
  \A r \in Readers, w \in Writers :
    pinned[r] /\ rpc[r] \in CountedSteps /\ wpc[w] \in PastSpin
      => wbuf[w] # rbuf[r]

\* The spare copy holds an older list, or the next one once it is moved in.
SpareVersion ==
  IF \E w \in Writers : wpc[w] = "moved"
  THEN addresses[Other(current)] = Published + 1
  ELSE addresses[Other(current)] <= Published

\* What a reader is about to copy, or copied, is at least what it saw
\* published.
FloorRespected ==
  \A r \in Readers :
    /\ rpc[r] # "idle" => /\ floor[r] <= addresses[rbuf[r]]
                          /\ floor[r] <= Published
    /\ rpc[r] \in {"copying", "copied"} =>
         got[r] = Torn \/ got[r] >= floor[r]

SafetyInv ==
  /\ TypeOK
  /\ GuardHeld
  /\ PublishedNotWritten
  /\ CounterExact
  /\ PinnedProtected
  /\ PinnedReadWhole
  /\ SpareVersion
  /\ FloorRespected

-----------------------------------------------------------------------------
\* Every variable keeps its type: in particular a counter never goes below 0,
\* which needs CounterExact.
LEMMA TypePreserved == TypeOK /\ CounterExact /\ [Next]_vars => TypeOK'
<1> SUFFICES ASSUME TypeOK, CounterExact, [Next]_vars
             PROVE  TypeOK'
  OBVIOUS
<1> USE DEF TypeOK, Buffers, ReaderSteps, WriterSteps
<1>1. ASSUME NEW r \in Readers, LoadId(r) PROVE TypeOK'
  BY <1>1 DEF LoadId, Branch, Published, writerVars
<1>2. ASSUME NEW r \in Readers, RaiseCounter(r) PROVE TypeOK'
  BY <1>2 DEF RaiseCounter, writerVars
<1>3. ASSUME NEW r \in Readers, BeginCopy(r) PROVE TypeOK'
  BY <1>3 DEF BeginCopy, writerVars
<1>4. ASSUME NEW r \in Readers, EndCopy(r) PROVE TypeOK'
  BY <1>4 DEF EndCopy, writerVars
<1>5. ASSUME NEW r \in Readers, LowerCounter(r) PROVE TypeOK'
  <2>1. r \in Counted(rbuf[r]) /\ Counted(rbuf[r]) \subseteq Readers
    BY <1>5 DEF LowerCounter, Counted
  <2>2. IsFiniteSet(Counted(rbuf[r]))
    BY <2>1, ReadersFinite, FS_Subset
  <2>3. counter[rbuf[r]] # 0
    BY <2>1, <2>2, FS_EmptySet DEF CounterExact
  <2> QED BY <1>5, <2>3 DEF LowerCounter, writerVars
<1>6. ASSUME NEW w \in Writers, LockGuard(w) PROVE TypeOK'
  BY <1>6 DEF LockGuard, Other, readerVars
<1>7. ASSUME NEW w \in Writers, SpinEnds(w) PROVE TypeOK'
  BY <1>7 DEF SpinEnds, readerVars
<1>8. ASSUME NEW w \in Writers, BeginMove(w) PROVE TypeOK'
  BY <1>8 DEF BeginMove
<1>9. ASSUME NEW w \in Writers, EndMove(w) PROVE TypeOK'
  BY <1>9 DEF EndMove, Latest, readerVars
<1>10. ASSUME NEW w \in Writers, Flip(w) PROVE TypeOK'
  BY <1>10 DEF Flip, NextId, readerVars
<1>11. ASSUME NEW w \in Writers, UnlockGuard(w) PROVE TypeOK'
  BY <1>11 DEF UnlockGuard, readerVars
<1>12. CASE UNCHANGED vars
  BY <1>12 DEF vars, readerVars, writerVars
<1> QED
  BY <1>1, <1>2, <1>3, <1>4, <1>5, <1>6, <1>7, <1>8, <1>9, <1>10, <1>11, <1>12
     DEF Next, ReaderNext, WriterNext

\* The two counters stay exact: readers lower the counter they raised, and
\* nobody else touches either.
LEMMA CounterPreserved ==
  TypeOK /\ CounterExact /\ [Next]_vars => CounterExact'
<1> SUFFICES ASSUME TypeOK, CounterExact, [Next]_vars
             PROVE  CounterExact'
  OBVIOUS
<1> USE DEF TypeOK
<1>1. ASSUME NEW r \in Readers, RaiseCounter(r) PROVE CounterExact'
  <2> SUFFICES ASSUME NEW b \in Buffers
               PROVE  counter'[b] = Cardinality(Counted(b)')
    BY DEF CounterExact
  <2>1. IsFiniteSet(Counted(b))
    BY ReadersFinite, FS_Subset DEF Counted
  <2>2. CASE b = rbuf[r]
    <3>1. Counted(b)' = Counted(b) \cup {r} /\ r \notin Counted(b)
      BY <1>1, <2>2 DEF RaiseCounter, Counted
    <3>2. counter'[b] = counter[b] + 1
      BY <1>1, <2>2 DEF RaiseCounter
    <3>3. Cardinality(Counted(b) \cup {r}) = Cardinality(Counted(b)) + 1
      BY <2>1, <3>1, FS_AddElement
    <3>4. counter[b] = Cardinality(Counted(b))
      BY DEF CounterExact
    <3> QED BY <3>1, <3>2, <3>3, <3>4
  <2>3. CASE b # rbuf[r]
    BY <1>1, <2>3 DEF RaiseCounter, Counted, CounterExact
  <2> QED BY <2>2, <2>3
<1>2. ASSUME NEW r \in Readers, LowerCounter(r) PROVE CounterExact'
  <2> SUFFICES ASSUME NEW b \in Buffers
               PROVE  counter'[b] = Cardinality(Counted(b)')
    BY DEF CounterExact
  <2>1. IsFiniteSet(Counted(b))
    BY ReadersFinite, FS_Subset DEF Counted
  <2>2. CASE b = rbuf[r]
    <3>1. Counted(b)' = Counted(b) \ {r} /\ r \in Counted(b)
      BY <1>2, <2>2 DEF LowerCounter, Counted
    <3>2. counter'[b] = counter[b] - 1
      BY <1>2, <2>2 DEF LowerCounter
    <3>3. Cardinality(Counted(b) \ {r}) = Cardinality(Counted(b)) - 1
      BY <2>1, <3>1, FS_RemoveElement
    <3>4. counter[b] = Cardinality(Counted(b))
      BY DEF CounterExact
    <3> QED BY <3>1, <3>2, <3>3, <3>4
  <2>3. CASE b # rbuf[r]
    BY <1>2, <2>3 DEF LowerCounter, Counted, CounterExact
  <2> QED BY <2>2, <2>3
<1>3. ASSUME NEW r \in Readers, LoadId(r) \/ BeginCopy(r) \/ EndCopy(r)
      PROVE  CounterExact'
  <2>1. counter' = counter
    BY <1>3 DEF LoadId, BeginCopy, EndCopy
  <2>2. \A b \in Buffers : Counted(b)' = Counted(b)
    BY <1>3 DEF LoadId, BeginCopy, EndCopy, Counted, Buffers, Branch
  <2> QED BY <2>1, <2>2 DEF CounterExact
<1>4. ASSUME UNCHANGED <<counter, rpc, rbuf>> PROVE CounterExact'
  BY <1>4 DEF CounterExact, Counted
<1>5. ASSUME NEW w \in Writers, WriterNext(w) PROVE UNCHANGED <<counter, rpc, rbuf>>
  BY <1>5 DEF WriterNext, LockGuard, SpinEnds, BeginMove, EndMove, Flip, NextId,
              UnlockGuard, readerVars
<1>6. CASE UNCHANGED vars
  BY <1>4, <1>6 DEF vars, readerVars
<1> QED BY <1>1, <1>2, <1>3, <1>4, <1>5, <1>6 DEF Next, ReaderNext

\* write_guard is a mutex, so a writer's view of the published copy cannot
\* go stale: only the holder flips the id.
LEMMA GuardPreserved ==
  TypeOK /\ GuardHeld /\ PublishedNotWritten /\ [Next]_vars
    => GuardHeld' /\ PublishedNotWritten'
<1> SUFFICES ASSUME TypeOK, GuardHeld, PublishedNotWritten, [Next]_vars
             PROVE  GuardHeld' /\ PublishedNotWritten'
  OBVIOUS
<1> USE DEF TypeOK, GuardHeld, PublishedNotWritten, WriterSteps, Buffers
<1>1. ASSUME NEW r \in Readers, ReaderNext(r)
      PROVE  GuardHeld' /\ PublishedNotWritten'
  BY <1>1 DEF ReaderNext, LoadId, RaiseCounter, BeginCopy, EndCopy,
              LowerCounter, writerVars
<1>2. ASSUME NEW w \in Writers, LockGuard(w)
      PROVE  GuardHeld' /\ PublishedNotWritten'
  BY <1>2, NoWriterIsNone DEF LockGuard, GuardFree, Other
<1>3. ASSUME NEW w \in Writers, SpinEnds(w) \/ BeginMove(w) \/ EndMove(w)
      PROVE  GuardHeld' /\ PublishedNotWritten'
  BY <1>3 DEF SpinEnds, BeginMove, EndMove
<1>4. ASSUME NEW w \in Writers, Flip(w)
      PROVE  GuardHeld' /\ PublishedNotWritten'
  BY <1>4 DEF Flip, NextId
<1>5. ASSUME NEW w \in Writers, UnlockGuard(w)
      PROVE  GuardHeld' /\ PublishedNotWritten'
  BY <1>5 DEF UnlockGuard
<1>6. CASE UNCHANGED vars
  BY <1>6 DEF vars, writerVars
<1> QED
  BY <1>1, <1>2, <1>3, <1>4, <1>5, <1>6 DEF Next, WriterNext

\* A pinned reader's counter keeps every writer before the spin of its copy,
\* so no move overlaps its copying.
LEMMA PinnedPreserved ==
  SafetyInv /\ [Next]_vars => PinnedProtected' /\ PinnedReadWhole'
<1> SUFFICES ASSUME SafetyInv, [Next]_vars
             PROVE  PinnedProtected' /\ PinnedReadWhole'
  OBVIOUS
<1> USE DEF SafetyInv, TypeOK, PinnedProtected, PinnedReadWhole,
            CountedSteps, PastSpin
<1>1. ASSUME NEW r \in Readers, LoadId(r)
      PROVE  PinnedProtected' /\ PinnedReadWhole'
  BY <1>1 DEF LoadId, writerVars, ReaderSteps
<1>2. ASSUME NEW r \in Readers, RaiseCounter(r)
      PROVE  PinnedProtected' /\ PinnedReadWhole'
  BY ZenonT(60), <1>2 DEF RaiseCounter, PublishedNotWritten, writerVars, ReaderSteps
<1>3. ASSUME NEW r \in Readers, BeginCopy(r)
      PROVE  PinnedProtected' /\ PinnedReadWhole'
  <2>1. pinned[r] => ~Moving(rbuf[r])
    BY <1>3 DEF BeginCopy, Moving
  <2>2. addresses[rbuf[r]] # Torn
    BY TornIsNoList
  <2> QED BY <1>3, <2>1, <2>2 DEF BeginCopy, writerVars, ReaderSteps
<1>4. ASSUME NEW r \in Readers, EndCopy(r) \/ LowerCounter(r)
      PROVE  PinnedProtected' /\ PinnedReadWhole'
  BY <1>4 DEF EndCopy, LowerCounter, writerVars, ReaderSteps
<1>5. ASSUME NEW w \in Writers, LockGuard(w)
      PROVE  PinnedProtected' /\ PinnedReadWhole'
  BY <1>5 DEF LockGuard, readerVars, WriterSteps
<1>6. ASSUME NEW w \in Writers, SpinEnds(w)
      PROVE  PinnedProtected' /\ PinnedReadWhole'
  <2>1. Counted(wbuf[w]) \subseteq Readers
    BY DEF Counted
  <2>2. Cardinality(Counted(wbuf[w])) = 0
    BY <1>6 DEF SpinEnds, SpinOver, CounterExact
  <2>3. Counted(wbuf[w]) = {}
    BY <2>1, <2>2, ReadersFinite, FS_Subset, FS_EmptySet
  <2>4. \A r \in Readers : rpc[r] \in CountedSteps => rbuf[r] # wbuf[w]
    BY <2>3 DEF Counted
  <2> QED BY <1>6, <2>4 DEF SpinEnds, readerVars, WriterSteps
<1>7. ASSUME NEW w \in Writers, BeginMove(w)
      PROVE  PinnedProtected' /\ PinnedReadWhole'
  <2>1. \A r \in Readers : pinned[r] => ~Copying(r, wbuf[w])
    BY <1>7 DEF BeginMove, Copying
  <2> QED BY <1>7, <2>1 DEF BeginMove, WriterSteps
<1>8. ASSUME NEW w \in Writers, EndMove(w) \/ Flip(w) \/ UnlockGuard(w)
      PROVE  PinnedProtected' /\ PinnedReadWhole'
  BY <1>8 DEF EndMove, Flip, NextId, UnlockGuard, readerVars, WriterSteps
<1>9. CASE UNCHANGED vars
  BY <1>9 DEF vars, readerVars, writerVars
<1> QED
  BY <1>1, <1>2, <1>3, <1>4, <1>5, <1>6, <1>7, <1>8, <1>9
     DEF Next, ReaderNext, WriterNext

\* Only the holder of write_guard moves and flips, so versions alternate
\* between the two copies in the order of the writes.
LEMMA VersionsPreserved ==
  SafetyInv /\ [Next]_vars => SpareVersion'
<1> SUFFICES ASSUME SafetyInv, [Next]_vars
             PROVE  SpareVersion'
  OBVIOUS
<1> USE DEF SafetyInv, TypeOK, Buffers, Other, Published
<1>1. ASSUME NEW r \in Readers, ReaderNext(r)
      PROVE  UNCHANGED <<current, addresses, wpc>>
  BY <1>1 DEF ReaderNext, LoadId, RaiseCounter, BeginCopy, EndCopy,
              LowerCounter, writerVars
<1>2. ASSUME UNCHANGED <<current, addresses, wpc>>
      PROVE  SpareVersion'
  BY <1>2 DEF SpareVersion
<1>3. ASSUME NEW w \in Writers, LockGuard(w) \/ SpinEnds(w) \/ BeginMove(w)
      PROVE  SpareVersion'
  <2>1. UNCHANGED <<current, addresses>>
    BY <1>3 DEF LockGuard, SpinEnds, BeginMove
  <2>2. (\E v \in Writers : wpc[v] = "moved")' <=>
          (\E v \in Writers : wpc[v] = "moved")
    BY <1>3 DEF LockGuard, SpinEnds, BeginMove, WriterSteps
  <2> QED BY <2>1, <2>2 DEF SpareVersion
<1>4. ASSUME NEW w \in Writers, EndMove(w)
      PROVE  SpareVersion'
  <2>1. wbuf[w] = Other(current)
    BY <1>4 DEF EndMove, PublishedNotWritten
  <2>2. \A v \in Writers : wpc[v] # "moved"
    BY <1>4 DEF EndMove, GuardHeld
  <2>3. Latest = addresses[current]
    BY <2>2 DEF Latest, SpareVersion
  <2>4. (\E v \in Writers : wpc[v] = "moved")'
    BY <1>4 DEF EndMove
  <2> QED BY <1>4, <2>1, <2>3, <2>4 DEF EndMove, SpareVersion
<1>5. ASSUME NEW w \in Writers, Flip(w)
      PROVE  SpareVersion'
  <2>1. current' = Other(current)
    BY <1>5 DEF Flip, NextId
  <2>2. \A v \in Writers : wpc'[v] # "moved"
    BY <1>5 DEF Flip, NextId, GuardHeld
  <2>3. addresses[Other(current)] = Published + 1
    BY <1>5 DEF Flip, NextId, SpareVersion
  <2> QED BY <1>5, <2>1, <2>2, <2>3 DEF Flip, NextId, SpareVersion
<1>6. ASSUME NEW w \in Writers, UnlockGuard(w)
      PROVE  SpareVersion'
  <2>1. (\E v \in Writers : wpc[v] = "moved")' <=>
          (\E v \in Writers : wpc[v] = "moved")
    BY <1>6 DEF UnlockGuard, WriterSteps
  <2> QED BY <1>6, <2>1 DEF UnlockGuard, SpareVersion
<1>7. CASE UNCHANGED vars
  BY <1>2, <1>7 DEF vars, writerVars
<1> QED
  BY <1>1, <1>2, <1>3, <1>4, <1>5, <1>6, <1>7 DEF Next, WriterNext

\* Neither copy ever goes back to an older list, so what a reader saw
\* published is a lower bound on what it can copy whole.
LEMMA FloorPreserved ==
  SafetyInv /\ [Next]_vars => FloorRespected'
<1> SUFFICES ASSUME SafetyInv, [Next]_vars
             PROVE  FloorRespected'
  OBVIOUS
<1> USE DEF SafetyInv, TypeOK, Buffers, FloorRespected, ReaderSteps
<1>1. ASSUME NEW r \in Readers, LoadId(r)
      PROVE  FloorRespected'
  BY <1>1 DEF LoadId, Branch, Published, writerVars
<1>2. ASSUME NEW r \in Readers, RaiseCounter(r) \/ EndCopy(r) \/ LowerCounter(r)
      PROVE  FloorRespected'
  BY <1>2 DEF RaiseCounter, EndCopy, LowerCounter, Published
<1>3. ASSUME NEW r \in Readers, BeginCopy(r)
      PROVE  FloorRespected'
  BY <1>3 DEF BeginCopy, Published
<1>4. ASSUME NEW w \in Writers,
             LockGuard(w) \/ SpinEnds(w) \/ UnlockGuard(w) \/ BeginMove(w)
      PROVE  FloorRespected'
  BY <1>4 DEF LockGuard, SpinEnds, UnlockGuard, BeginMove, readerVars, Published
<1>5. ASSUME NEW w \in Writers, EndMove(w)
      PROVE  FloorRespected'
  <2>1. wbuf[w] # current
    BY <1>5 DEF EndMove, PublishedNotWritten
  <2>2. \A b \in Buffers : addresses'[b] \in Nat /\ addresses'[b] >= addresses[b]
    BY <1>5 DEF EndMove, Latest
  <2> QED BY <1>5, <2>1, <2>2 DEF EndMove, readerVars, Published
<1>6. ASSUME NEW w \in Writers, Flip(w)
      PROVE  FloorRespected'
  <2>1. Published' = Published + 1
    BY <1>6 DEF Flip, NextId, SpareVersion, Other, Published
  <2>2. Published \in Nat /\ UNCHANGED <<addresses, rpc, rbuf, got, floor>>
    BY <1>6 DEF Flip, NextId, readerVars, Published
  <2> QED BY <2>1, <2>2
<1>7. CASE UNCHANGED vars
  BY <1>7 DEF vars, readerVars, Published
<1> QED
  BY <1>1, <1>2, <1>3, <1>4, <1>5, <1>6, <1>7 DEF Next, ReaderNext, WriterNext

-----------------------------------------------------------------------------
LEMMA InitSafe == Init => SafetyInv
<1> SUFFICES ASSUME Init PROVE SafetyInv
  OBVIOUS
<1>1. TypeOK
  BY DEF Init, TypeOK, Buffers, ReaderSteps, WriterSteps
<1>2. CounterExact
  <2>1. \A b \in Buffers : Counted(b) = {}
    BY DEF Init, Counted
  <2> QED BY <2>1, FS_EmptySet DEF Init, CounterExact
<1>3. GuardHeld /\ PublishedNotWritten /\ PinnedProtected /\ PinnedReadWhole
  BY DEF Init, GuardHeld, PublishedNotWritten, PinnedProtected,
         PinnedReadWhole, CountedSteps
<1>4. SpareVersion /\ FloorRespected
  BY DEF Init, SpareVersion, FloorRespected, Published, Other, Buffers
<1> QED BY <1>1, <1>2, <1>3, <1>4 DEF SafetyInv

LEMMA StepSafe == SafetyInv /\ [Next]_vars => SafetyInv'
  BY TypePreserved, CounterPreserved, GuardPreserved, PinnedPreserved,
     VersionsPreserved, FloorPreserved DEF SafetyInv

\* The conjunction of all the named parts is an invariant of the entry.
THEOREM EntrySafe == Spec => []SafetyInv
  BY InitSafe, StepSafe, PTL DEF Spec

\* Type correctness, for every number of readers, writers and writes.
THEOREM EntryTypeOK == Spec => []TypeOK
<1>1. SafetyInv => TypeOK
  BY DEF SafetyInv
<1> QED BY <1>1, EntrySafe, PTL

\* No writer ever works on the copy that current_vector_id publishes.
THEOREM EntryPublishedNotWritten == Spec => []PublishedNotWritten
<1>1. SafetyInv => PublishedNotWritten
  BY DEF SafetyInv
<1> QED BY <1>1, EntrySafe, PTL

\* A reader counted on a copy while that copy is published copies it whole.
THEOREM EntryPinnedReadWhole == Spec => []PinnedReadWhole
<1>1. SafetyInv => PinnedReadWhole
  BY DEF SafetyInv
<1> QED BY <1>1, EntrySafe, PTL

\* A whole read returns nothing older than what was published at its start.
THEOREM EntryReadNotStale == Spec => []ReadNotStale
<1>1. SafetyInv => ReadNotStale
  BY DEF SafetyInv, FloorRespected, ReadNotStale
<1> QED BY <1>1, EntrySafe, PTL

-----------------------------------------------------------------------------
(* The entry implements AddressList. *)

\* What a reader copies is an answer that AddressList allows; and as long as
\* nothing was published since its call began, its copy is the published one.
AnswerAllowed ==
  \A r \in Readers : rpc[r] # "idle" =>
    /\ floor[r] = Published => rbuf[r] = current
    /\ rpc[r] \in {"copying", "copied"} =>
         got[r] \in PublishedList!Answers(floor[r], Published)

LEMMA AnswerPreserved ==
  SafetyInv /\ AnswerAllowed /\ [Next]_vars => AnswerAllowed'
<1> SUFFICES ASSUME SafetyInv, AnswerAllowed, [Next]_vars
             PROVE  AnswerAllowed'
  OBVIOUS
<1> USE DEF SafetyInv, TypeOK, Buffers, ReaderSteps, AnswerAllowed,
            PublishedList!Answers
<1>1. Published \in Nat
  BY DEF Published
<1>2. ASSUME NEW r \in Readers, LoadId(r) PROVE AnswerAllowed'
  BY <1>2 DEF LoadId, Branch, Published, writerVars
<1>3. ASSUME NEW r \in Readers, RaiseCounter(r) \/ EndCopy(r) \/ LowerCounter(r)
      PROVE  AnswerAllowed'
  BY <1>3 DEF RaiseCounter, EndCopy, LowerCounter, Published
<1>4. ASSUME NEW r \in Readers, BeginCopy(r) PROVE AnswerAllowed'
  <2>1. Published' = Published /\ floor' = floor /\ rbuf' = rbuf /\ current' = current
    BY <1>4 DEF BeginCopy, Published
  <2>2. got'[r] \in PublishedList!Answers(floor[r], Published)
    <3>1. CASE Moving(rbuf[r])
      <4>1. rbuf[r] # current
        BY <3>1 DEF Moving, PublishedNotWritten
      <4>2. floor[r] # Published
        BY <1>4, <4>1 DEF BeginCopy
      <4> QED BY <1>4, <3>1, <4>2 DEF BeginCopy
    <3>2. CASE ~Moving(rbuf[r]) /\ floor[r] = Published
      BY <1>4, <3>2 DEF BeginCopy, Published
    <3>3. CASE ~Moving(rbuf[r]) /\ floor[r] # Published
      <4>1. floor[r] <= addresses[rbuf[r]]
        BY <1>4 DEF BeginCopy, FloorRespected
      <4>2. addresses[rbuf[r]] <= Published + 1
        BY DEF SpareVersion, Published, Other
      <4> QED BY <1>1, <1>4, <3>3, <4>1, <4>2 DEF BeginCopy
    <3> QED BY <3>1, <3>2, <3>3
  <2> QED BY <1>4, <2>1, <2>2 DEF BeginCopy
<1>5. ASSUME NEW w \in Writers, LockGuard(w) \/ SpinEnds(w) \/ UnlockGuard(w)
      PROVE  AnswerAllowed'
  BY <1>5 DEF LockGuard, SpinEnds, UnlockGuard, readerVars, Published
<1>6. ASSUME NEW w \in Writers, BeginMove(w) PROVE AnswerAllowed'
  <2>1. wbuf[w] # current
    BY <1>6 DEF BeginMove, PublishedNotWritten
  <2>2. \A r \in Readers : Copying(r, wbuf[w]) => floor[r] # Published
    BY <2>1 DEF Copying
  <2> QED BY <1>6, <2>2 DEF BeginMove, Published
<1>7. ASSUME NEW w \in Writers, EndMove(w) PROVE AnswerAllowed'
  <2>1. Published' = Published
    BY <1>7 DEF EndMove, PublishedNotWritten, Published
  <2> QED BY <1>7, <2>1 DEF EndMove, readerVars
<1>8. ASSUME NEW w \in Writers, Flip(w) PROVE AnswerAllowed'
  <2>1. Published' = Published + 1
    BY <1>8 DEF Flip, NextId, SpareVersion, Other, Published
  <2>2. \A r \in Readers : rpc[r] # "idle" => floor[r] <= Published
    BY DEF FloorRespected
  <2>3. UNCHANGED <<rpc, rbuf, got, floor>>
    BY <1>8 DEF Flip, readerVars
  <2> QED BY <1>1, <2>1, <2>2, <2>3
<1>9. CASE UNCHANGED vars
  BY <1>9 DEF vars, readerVars, Published
<1> QED
  BY <1>2, <1>3, <1>4, <1>5, <1>6, <1>7, <1>8, <1>9 DEF Next, ReaderNext, WriterNext

LEMMA InitRefines == Init => PublishedList!Init /\ AnswerAllowed
  BY DEF Init, PublishedList!Init, AnswerAllowed, Published, Buffers

\* A call begins with the load of the id, is answered at the end of the copy
\* and ends with the decrement; a flip publishes; the rest is a stutter.
LEMMA StepRefines ==
  SafetyInv /\ AnswerAllowed /\ [Next]_vars
    => [PublishedList!Next]_(PublishedList!vars)
<1> SUFFICES ASSUME SafetyInv, AnswerAllowed, [Next]_vars
             PROVE  [PublishedList!Next]_(PublishedList!vars)
  OBVIOUS
<1> USE DEF SafetyInv, TypeOK, Buffers, ReaderSteps, PublishedList!vars
<1>1. ASSUME NEW r \in Readers, LoadId(r) PROVE PublishedList!Next
  <2>1. PublishedList!Call(r)
    BY <1>1 DEF LoadId, PublishedList!Call, Published
  <2> QED BY <2>1 DEF PublishedList!Next
<1>2. ASSUME NEW r \in Readers, RaiseCounter(r) \/ BeginCopy(r)
      PROVE  UNCHANGED PublishedList!vars
  BY <1>2 DEF RaiseCounter, BeginCopy, Published
<1>3. ASSUME NEW r \in Readers, EndCopy(r) PROVE PublishedList!Next
  <2>1. got[r] \in PublishedList!Answers(floor[r], Published)
    BY <1>3 DEF EndCopy, AnswerAllowed
  <2>2. PublishedList!Answer(r)
    BY <1>3, <2>1 DEF EndCopy, PublishedList!Answer, Published
  <2> QED BY <2>2 DEF PublishedList!Next
<1>4. ASSUME NEW r \in Readers, LowerCounter(r) PROVE PublishedList!Next
  <2>1. PublishedList!Return(r)
    BY <1>4 DEF LowerCounter, PublishedList!Return, Published
  <2> QED BY <2>1 DEF PublishedList!Next
<1>5. ASSUME NEW w \in Writers, LockGuard(w) \/ SpinEnds(w) \/ UnlockGuard(w)
      PROVE  UNCHANGED PublishedList!vars
  BY <1>5 DEF LockGuard, SpinEnds, UnlockGuard, readerVars, Published
<1>6. ASSUME NEW w \in Writers, BeginMove(w) PROVE UNCHANGED PublishedList!vars
  BY <1>6 DEF BeginMove, Copying, Published
<1>7. ASSUME NEW w \in Writers, EndMove(w) PROVE UNCHANGED PublishedList!vars
  <2>1. Published' = Published
    BY <1>7 DEF EndMove, PublishedNotWritten, Published
  <2> QED BY <1>7, <2>1 DEF EndMove, readerVars
<1>8. ASSUME NEW w \in Writers, Flip(w) PROVE PublishedList!Next
  <2>1. Published' = Published + 1
    BY <1>8 DEF Flip, NextId, SpareVersion, Other, Published
  <2>2. PublishedList!Publish
    BY <1>8, <2>1 DEF Flip, readerVars, PublishedList!Publish
  <2> QED BY <2>2 DEF PublishedList!Next
<1>9. CASE UNCHANGED vars
  BY <1>9 DEF vars, readerVars, Published
<1> QED
  BY <1>1, <1>2, <1>3, <1>4, <1>5, <1>6, <1>7, <1>8, <1>9
     DEF Next, ReaderNext, WriterNext

\* The entry behaves as a list that is replaced at one instant, up to the
\* torn copies that AddressList allows.
THEOREM EntryImplementsAddressList == Spec => ImplementsAddressList
  BY InitSafe, StepSafe, InitRefines, AnswerPreserved, StepRefines, PTL
     DEF Spec, ImplementsAddressList, PublishedList!Spec
=============================================================================
