-------------------------- MODULE EventStreamProofs --------------------------
(***************************************************************************)
(* Proofs about EventStream: for any number of slots, pool threads and     *)
(* messages, main waits for the stream, a slot of evt_senders is used      *)
(* again only when the sender in it is done, and, until a message is       *)
(* stored behind the vector, every message is sent and freed once or known *)
(* to be dropped.                                                          *)
(***************************************************************************)
EXTENDS EventStream, TLAPS

\* is_sender_running says where the stream is, and main waits for it.
Handshake ==
  /\ is_sender_running <=> spc \notin {"begin", "ended"}
  /\ MainOutlivesStream

\* The slot at sender_index holds a sender that is about to be started.
Stored == spc \in {"check", "join", "start", "inline"}

\* Every slot below sender_index, and a stored one, holds a sender of its own
\* that was received and is not deleted.
SlotsFilled ==
  /\ deleted \subseteq 1..received
  /\ \A i \in 0..Slots : evt_senders[i] <= received
  /\ \A i, j \in 0..Slots :
       evt_senders[i] = evt_senders[j] => i = j \/ evt_senders[i] = NoEvent
  /\ \A i \in 0..Slots :
       i < sender_index \/ (i = sender_index /\ Stored) => evt_senders[i] # NoEvent
  /\ InLoop => \A i \in 0..Slots : evt_senders[i] \notin deleted
  /\ spc = "store" => /\ received > 0 /\ received \notin deleted
                      /\ \A i \in 0..Slots : evt_senders[i] # received
  /\ spc = "join" => sender_index = Slots
  /\ spc \in {"start", "inline"} => sender_index < Slots

\* A pool thread runs the sender of a slot below sender_index, the stream the
\* one at sender_index.
RunsFromSlots ==
  /\ \A t \in Runners : Sending(t) => job[t] # NoEvent /\ job[t] <= received
  /\ InLoop => \A t \in Threads : Sending(t) =>
       \E i \in 0..Slots : i < sender_index /\ job[t] = evt_senders[i]
  /\ Sending(Stream) <=> spc = "inline"
  /\ spc = "inline" => job[Stream] = evt_senders[sender_index]

\* A message is live and unsent until its own run sends it and then frees it.
EachOnce ==
  /\ spc \in {"check", "start", "inline"} =>
       evt_senders[sender_index] = received /\ sender_index < Slots
  /\ spc # "join"
  /\ \A n \in Events : n > received \/ InHand(n) => event[n] = "live" /\ sent[n] = 0
  /\ \A t \in Runners : Sending(t) =>
       /\ ~InHand(job[t]) /\ event[job[t]] = "live"
       /\ sent[job[t]] = IF rpc[t] = "delete" THEN 1 ELSE 0
  /\ \A t, u \in Runners : Sending(t) /\ Sending(u) /\ job[t] = job[u] => t = u
  /\ \A n \in Events : sent[n] <= 1
  /\ \A n \in 1..received : InHand(n) \/ InRun(n) \/ Settled(n)
  /\ InLoop /\ mpc \in {"serving", "waiting"} => health = "ok"

StreamInv ==
  /\ TypeOK
  /\ Handshake
  /\ SlotsFilled
  /\ RunsFromSlots
  /\ ~overrun => EachOnce

-----------------------------------------------------------------------------
LEMMA InitStream == Init => StreamInv
<1> SUFFICES ASSUME Init
             PROVE  StreamInv
  OBVIOUS
<1> USE SlotsPositive, MaxEventsNat DEF Init, NoEvent, Events
<1>1. TypeOK
  <2>1. /\ evt_senders \in [0..Slots -> 0..MaxEvents]
        /\ rpc \in [Runners -> RunnerSteps] /\ job \in [Runners -> 0..MaxEvents]
    BY DEF RunnerSteps
  <2>2. /\ event \in [Events -> {"live", "freed", "leaked"}]
        /\ sent \in [Events -> 0..2] /\ deleted \in SUBSET Events
    OBVIOUS
  <2>3. sender_index \in 0..Slots /\ received \in 0..MaxEvents
    OBVIOUS
  <2> HIDE DEF Events, NoEvent
  <2> QED
    BY <2>1, <2>2, <2>3 DEF TypeOK, MainSteps, StreamSteps
<1>2. Handshake
  BY DEF Handshake, MainOutlivesStream
<1>3. SlotsFilled
  BY DEF SlotsFilled, InLoop, Stored
<1>4. RunsFromSlots
  BY DEF RunsFromSlots, InLoop, Sending, Runners
<1>5. EachOnce
  BY DEF EachOnce, InLoop, InHand, Sending
<1> QED
  BY <1>1, <1>2, <1>3, <1>4, <1>5 DEF StreamInv

-----------------------------------------------------------------------------
LEMMA TypePreserved == StreamInv /\ [Next]_vars => TypeOK'
<1> SUFFICES ASSUME StreamInv, [Next]_vars
             PROVE  TypeOK'
  OBVIOUS
<1> USE SlotsPositive, MaxEventsNat, StreamNotPooled
    DEF TypeOK, StreamInv, At, Events, NoEvent, Runners, MainSteps, StreamSteps,
        RunnerSteps, mainVars, streamVars, senderVars
<1>1. CASE Terminate
  BY <1>1 DEF Terminate
<1>2. CASE Return
  BY <1>2 DEF Return
<1>3. CASE Exit
  BY <1>3 DEF Exit
<1>4. CASE UsedAfterReturn
  BY <1>4 DEF UsedAfterReturn
<1>5. CASE Begin
  BY <1>5 DEF Begin, Raised
<1>6. CASE Loop
  BY <1>6 DEF Loop
<1>7. CASE Receive
  BY <1>7 DEF Receive
<1>8. CASE Store
  <2>1. evt_senders[sender_index] \in 0..MaxEvents
    OBVIOUS
  <2>2. \A n \in deleted' : n \in Events
    BY <1>8, <2>1 DEF Store
  <2> QED
    BY <1>8, <2>2 DEF Store
<1>9. CASE Check
  BY <1>9 DEF Check
<1>10. CASE Join
  BY <1>10 DEF Join, FirstIndex
<1>11. CASE StartInline
  BY <1>11 DEF StartInline, StoredSender
<1>12. CASE Rejoin
  BY <1>12 DEF Rejoin, FirstIndex
<1>13. CASE Cleanup
  <2>1. \A i \in 0..Slots-1 : evt_senders[i] \in 0..MaxEvents
    OBVIOUS
  <2>2. \A n \in deleted' : n \in Events
    BY <1>13, <2>1 DEF Cleanup
  <2> QED
    BY <1>13, <2>2 DEF Cleanup
<1>14. ASSUME NEW t \in Threads, StartPooled(t) PROVE TypeOK'
  BY <1>14 DEF StartPooled, StoredSender, NextIndex, SlotsFilled
<1>15. ASSUME NEW t \in Threads, HttpBegins(t) PROVE TypeOK'
  BY <1>15 DEF HttpBegins
<1>16. ASSUME NEW t \in Threads, HttpEnds(t) PROVE TypeOK'
  BY <1>16 DEF HttpEnds
<1>17. ASSUME NEW t \in Runners, Lookup(t) PROVE TypeOK'
  BY <1>17 DEF Lookup, Used
<1>18. ASSUME NEW t \in Runners, LookupThrows(t) PROVE TypeOK'
  BY <1>18 DEF LookupThrows, Used, ThreadBack
<1>19. ASSUME NEW t \in Runners, Send(t) PROVE TypeOK'
  <2>1. \A n \in Events : (IF sent[n] = 2 THEN 2 ELSE sent[n] + 1) \in 0..2
    OBVIOUS
  <2>2. sent' \in [Events -> 0..2]
    BY <1>19, <2>1 DEF Send
  <2> QED
    BY <1>19, <2>2 DEF Send, Used
<1>20. ASSUME NEW t \in Runners, Finish(t) PROVE TypeOK'
  BY <1>20 DEF Finish, Used, Freed
<1>21. CASE UNCHANGED vars
  BY <1>21 DEF vars
<1> QED
  BY <1>1, <1>2, <1>3, <1>4, <1>5, <1>6, <1>7, <1>8, <1>9, <1>10, <1>11, <1>12,
     <1>13, <1>14, <1>15, <1>16, <1>17, <1>18, <1>19, <1>20, <1>21
     DEF Next, StreamNext, MainNext, RunnerNext

LEMMA HandshakePreserved == StreamInv /\ [Next]_vars => Handshake'
<1> SUFFICES ASSUME StreamInv, [Next]_vars
             PROVE  Handshake'
  OBVIOUS
<1> USE StreamNotPooled
    DEF StreamInv, TypeOK, Handshake, MainOutlivesStream, At, RunsFromSlots, Sending,
        Runners, mainVars, streamVars, senderVars
<1>1. CASE Terminate
  BY <1>1 DEF Terminate
<1>2. CASE Return
  BY <1>2 DEF Return, StreamOver
<1>3. CASE Exit
  BY <1>3 DEF Exit
<1>4. CASE UsedAfterReturn
  BY <1>4 DEF UsedAfterReturn
<1>5. CASE Begin
  BY <1>5 DEF Begin, Raised, Running
<1>6. CASE Loop
  BY <1>6 DEF Loop
<1>7. CASE Receive
  BY <1>7 DEF Receive
<1>8. CASE Store
  BY <1>8 DEF Store
<1>9. CASE Check
  BY <1>9 DEF Check
<1>10. CASE Join
  BY <1>10 DEF Join, FirstIndex, Joined, AllFree, Free
<1>11. CASE StartInline
  BY <1>11 DEF StartInline, StoredSender
<1>12. CASE Rejoin
  BY <1>12 DEF Rejoin, FirstIndex, Joined, AllFree, Free
<1>13. CASE Cleanup
  BY <1>13 DEF Cleanup
<1>14. ASSUME NEW t \in Threads, StartPooled(t) PROVE Handshake'
  BY <1>14 DEF StartPooled, StoredSender, NextIndex, Free
<1>15. ASSUME NEW t \in Threads, HttpBegins(t) PROVE Handshake'
  BY <1>15 DEF HttpBegins, Free
<1>16. ASSUME NEW t \in Threads, HttpEnds(t) PROVE Handshake'
  BY <1>16 DEF HttpEnds
<1>17. ASSUME NEW t \in Runners, Lookup(t) PROVE Handshake'
  BY <1>17 DEF Lookup, Used, Gone
<1>18. ASSUME NEW t \in Runners, LookupThrows(t) PROVE Handshake'
  BY <1>18 DEF LookupThrows, Used, Gone, ThreadBack
<1>19. ASSUME NEW t \in Runners, Send(t) PROVE Handshake'
  BY <1>19 DEF Send, Used, Gone
<1>20. ASSUME NEW t \in Runners, Finish(t) PROVE Handshake'
  BY <1>20 DEF Finish, Used, Gone, Freed
<1>21. CASE UNCHANGED vars
  BY <1>21 DEF vars
<1> QED
  BY <1>1, <1>2, <1>3, <1>4, <1>5, <1>6, <1>7, <1>8, <1>9, <1>10, <1>11, <1>12,
     <1>13, <1>14, <1>15, <1>16, <1>17, <1>18, <1>19, <1>20, <1>21
     DEF Next, StreamNext, MainNext, RunnerNext

LEMMA SlotsPreserved == StreamInv /\ [Next]_vars => SlotsFilled'
<1> SUFFICES ASSUME StreamInv, [Next]_vars
             PROVE  SlotsFilled'
  OBVIOUS
<1> USE SlotsPositive, MaxEventsNat, StreamNotPooled
    DEF StreamInv, TypeOK, SlotsFilled, RunsFromSlots, Stored, InLoop, At, Sending,
        Events, NoEvent, Runners, mainVars, streamVars, senderVars
<1>1. CASE Terminate
  BY <1>1 DEF Terminate
<1>2. CASE Return
  BY <1>2 DEF Return
<1>3. CASE Exit
  BY <1>3 DEF Exit
<1>4. CASE UsedAfterReturn
  BY <1>4 DEF UsedAfterReturn
<1>5. CASE Begin
  BY <1>5 DEF Begin, Raised
<1>6. CASE Loop
  BY <1>6 DEF Loop
<1>7. CASE Receive
  BY <1>7 DEF Receive
<1>8. CASE Store
  <2>1. /\ spc = "store" /\ spc' = "check" /\ sender_index \in 0..Slots
        /\ UNCHANGED <<received, sender_index>>
        /\ deleted' = deleted \cup ({evt_senders[sender_index]} \ {0})
        /\ evt_senders' = [evt_senders EXCEPT ![sender_index] = received]
    BY <1>8 DEF Store
  <2>2. evt_senders[sender_index] \in 0..received /\ received > 0
    BY <2>1
  <2>3. \A n \in deleted' : n \in 1..received'
    BY <2>1, <2>2
  <2>4. \A i \in 0..Slots :
          /\ evt_senders'[i] = IF i = sender_index THEN received ELSE evt_senders[i]
          /\ evt_senders'[i] \notin deleted'
    BY <2>1, <2>2
  <2>5. \A i, j \in 0..Slots :
          evt_senders'[i] = evt_senders'[j] => i = j \/ evt_senders'[i] = 0
    BY <2>1, <2>2, <2>4
  <2>6. \A i \in 0..Slots : evt_senders'[i] <= received'
    BY <2>1, <2>2, <2>4
  <2>7. \A i \in 0..Slots : i < sender_index => evt_senders[i] # 0
    OBVIOUS
  <2>8. \A i \in 0..Slots : i < sender_index \/ i = sender_index =>
          evt_senders'[i] # 0
    BY <2>2, <2>4, <2>7
  <2> QED
    BY <2>1, <2>3, <2>4, <2>5, <2>6, <2>8
<1>9. CASE Check
  BY <1>9 DEF Check
<1>10. CASE Join
  BY <1>10 DEF Join, FirstIndex, Joined, AllFree, Free
<1>11. CASE StartInline
  BY <1>11 DEF StartInline, StoredSender
<1>12. CASE Rejoin
  BY <1>12 DEF Rejoin, FirstIndex, Joined, AllFree, Free
<1>13. CASE Cleanup
  <2>1. /\ spc = "cleanup" /\ spc' = "ended"
        /\ UNCHANGED <<received, evt_senders, sender_index>>
        /\ deleted' = deleted \cup ({evt_senders[i] : i \in 0..Slots-1} \ {0})
    BY <1>13 DEF Cleanup
  <2>2. \A i \in 0..Slots-1 : i \in 0..Slots /\ evt_senders[i] \in 0..received
    OBVIOUS
  <2>3. \A n \in deleted' : n \in 1..received'
    BY <2>1, <2>2
  <2> QED
    BY <2>1, <2>3
<1>14. ASSUME NEW t \in Threads, StartPooled(t) PROVE SlotsFilled'
  BY <1>14 DEF StartPooled, StoredSender, NextIndex, Free
<1>15. ASSUME NEW t \in Threads, HttpBegins(t) PROVE SlotsFilled'
  BY <1>15 DEF HttpBegins, Free
<1>16. ASSUME NEW t \in Threads, HttpEnds(t) PROVE SlotsFilled'
  BY <1>16 DEF HttpEnds
<1>17. ASSUME NEW t \in Runners, Lookup(t) PROVE SlotsFilled'
  BY <1>17 DEF Lookup, Used, Gone
<1>18. ASSUME NEW t \in Runners, LookupThrows(t) PROVE SlotsFilled'
  BY <1>18 DEF LookupThrows, Used, Gone, ThreadBack
<1>19. ASSUME NEW t \in Runners, Send(t) PROVE SlotsFilled'
  BY <1>19 DEF Send, Used, Gone
<1>20. ASSUME NEW t \in Runners, Finish(t) PROVE SlotsFilled'
  BY <1>20 DEF Finish, Used, Gone, Freed
<1>21. CASE UNCHANGED vars
  BY <1>21 DEF vars
<1> QED
  BY <1>1, <1>2, <1>3, <1>4, <1>5, <1>6, <1>7, <1>8, <1>9, <1>10, <1>11, <1>12,
     <1>13, <1>14, <1>15, <1>16, <1>17, <1>18, <1>19, <1>20, <1>21
     DEF Next, StreamNext, MainNext, RunnerNext

LEMMA RunsPreserved == StreamInv /\ [Next]_vars => RunsFromSlots'
<1> SUFFICES ASSUME StreamInv, [Next]_vars
             PROVE  RunsFromSlots'
  OBVIOUS
<1> USE SlotsPositive, MaxEventsNat, StreamNotPooled
    DEF StreamInv, TypeOK, SlotsFilled, RunsFromSlots, Stored, InLoop, At, Sending,
        Events, NoEvent, Runners, mainVars, streamVars, senderVars
<1>1. CASE Terminate
  BY <1>1 DEF Terminate
<1>2. CASE Return
  BY <1>2 DEF Return
<1>3. CASE Exit
  BY <1>3 DEF Exit
<1>4. CASE UsedAfterReturn
  BY <1>4 DEF UsedAfterReturn
<1>5. CASE Begin
  BY <1>5 DEF Begin, Raised
<1>6. CASE Loop
  BY <1>6 DEF Loop
<1>7. CASE Receive
  BY <1>7 DEF Receive
<1>8. CASE Store
  BY <1>8 DEF Store
<1>9. CASE Check
  BY <1>9 DEF Check
<1>10. CASE Join
  BY <1>10 DEF Join, FirstIndex, Joined, AllFree, Free
<1>11. CASE StartInline
  BY <1>11 DEF StartInline, StoredSender
<1>12. CASE Rejoin
  BY <1>12 DEF Rejoin, FirstIndex, Joined, AllFree, Free
<1>13. CASE Cleanup
  BY <1>13 DEF Cleanup
<1>14. ASSUME NEW t \in Threads, StartPooled(t) PROVE RunsFromSlots'
  BY <1>14 DEF StartPooled, StoredSender, NextIndex, Free
<1>15. ASSUME NEW t \in Threads, HttpBegins(t) PROVE RunsFromSlots'
  BY <1>15 DEF HttpBegins, Free
<1>16. ASSUME NEW t \in Threads, HttpEnds(t) PROVE RunsFromSlots'
  BY <1>16 DEF HttpEnds
<1>17. ASSUME NEW t \in Runners, Lookup(t) PROVE RunsFromSlots'
  BY <1>17 DEF Lookup, Used, Gone
<1>18. ASSUME NEW t \in Runners, LookupThrows(t) PROVE RunsFromSlots'
  BY <1>18 DEF LookupThrows, Used, Gone, ThreadBack
<1>19. ASSUME NEW t \in Runners, Send(t) PROVE RunsFromSlots'
  BY <1>19 DEF Send, Used, Gone
<1>20. ASSUME NEW t \in Runners, Finish(t) PROVE RunsFromSlots'
  BY <1>20 DEF Finish, Used, Gone, Freed
<1>21. CASE UNCHANGED vars
  BY <1>21 DEF vars
<1> QED
  BY <1>1, <1>2, <1>3, <1>4, <1>5, <1>6, <1>7, <1>8, <1>9, <1>10, <1>11, <1>12,
     <1>13, <1>14, <1>15, <1>16, <1>17, <1>18, <1>19, <1>20, <1>21
     DEF Next, StreamNext, MainNext, RunnerNext

LEMMA OncePreserved == StreamInv /\ [Next]_vars => (~overrun' => EachOnce')
<1> SUFFICES ASSUME StreamInv, [Next]_vars, ~overrun'
             PROVE  EachOnce'
  OBVIOUS
<1>0. ~overrun /\ EachOnce
  <2>1. overrun' \in BOOLEAN /\ (overrun' = overrun \/ overrun' = TRUE)
    BY DEF Next, StreamNext, MainNext, RunnerNext, vars, Terminate, Return, Exit,
           UsedAfterReturn, Begin, Loop, Receive, Store, Check, Join, StartPooled,
           StartInline, Rejoin, Cleanup, HttpBegins, HttpEnds, Lookup, LookupThrows,
           Send, Finish, StreamInv, TypeOK
  <2> QED
    BY <2>1 DEF StreamInv, TypeOK
<1> USE SlotsPositive, MaxEventsNat, StreamNotPooled
    DEF StreamInv, TypeOK, SlotsFilled, RunsFromSlots, EachOnce, Stored, InLoop, At,
        Running, InHand, InRun, Settled, Sending, Events, NoEvent, Runners, mainVars,
        streamVars, senderVars
<1>1. CASE Terminate
  BY <1>1 DEF Terminate
<1>2. CASE Return
  BY <1>2 DEF Return
<1>3. CASE Exit
  BY <1>3 DEF Exit
<1>4. CASE UsedAfterReturn
  BY <1>4 DEF UsedAfterReturn
<1>5. CASE Begin
  BY <1>5 DEF Begin, Raised
<1>6. CASE Loop
  BY <1>6 DEF Loop
<1>7. CASE Receive
  BY <1>7 DEF Receive
<1>8. CASE Store
  BY <1>8 DEF Store
<1>9. CASE Check
  BY <1>9 DEF Check
<1>10. CASE Join
  BY <1>10 DEF Join, FirstIndex, Joined, AllFree, Free
<1>11. CASE StartInline
  BY SMTT(30), <1>11 DEF StartInline, StoredSender
<1>12. CASE Rejoin
  BY <1>12 DEF Rejoin, FirstIndex, Joined, AllFree, Free
<1>13. CASE Cleanup
  BY <1>13 DEF Cleanup
<1>14. ASSUME NEW t \in Threads, StartPooled(t) PROVE EachOnce'
  <2>1. /\ spc = "start" /\ spc' = "loop" /\ ~Sending(t) /\ t \in Runners
        /\ rpc' = [rpc EXCEPT ![t] = "lookup"]
        /\ job' = [job EXCEPT ![t] = received] /\ InHand(received)
        /\ received \in Nat /\ (received = 0 \/ received \in Events)
        /\ UNCHANGED <<mainVars, received, event, sent, health>>
    BY <1>0, <1>14 DEF StartPooled, StoredSender, NextIndex, Free
  <2>2. received \in Events /\ event[received] = "live" /\ sent[received] = 0
    BY <1>0, <2>1
  <2>3. rpc \in [Runners -> RunnerSteps] /\ job \in [Runners -> 0..MaxEvents]
    OBVIOUS
  <2> HIDE DEF StreamInv, TypeOK, SlotsFilled, RunsFromSlots, EachOnce
  <2>4. \A u \in Runners : /\ rpc'[u] = IF u = t THEN "lookup" ELSE rpc[u]
                           /\ job'[u] = IF u = t THEN received ELSE job[u]
    BY <2>1, <2>3
  <2>5. \A u \in Runners : Sending(u)' <=> u = t \/ Sending(u)
    BY <2>4
  <2>6. \A u \in Runners : Sending(u) => job[u] # received
    BY <1>0, <2>1 DEF EachOnce
  <2> QED
    BY <1>0, <2>1, <2>2, <2>4, <2>5, <2>6 DEF EachOnce
<1>15. ASSUME NEW t \in Threads, HttpBegins(t) PROVE EachOnce'
  BY <1>15 DEF HttpBegins, Free
<1>16. ASSUME NEW t \in Threads, HttpEnds(t) PROVE EachOnce'
  BY <1>16 DEF HttpEnds
<1>17. ASSUME NEW t \in Runners, Lookup(t) PROVE EachOnce'
  BY <1>17 DEF Lookup, Used, Gone
<1>18. ASSUME NEW t \in Runners, LookupThrows(t) PROVE EachOnce'
  BY <1>18 DEF LookupThrows, Used, Gone, ThreadBack
<1>19. ASSUME NEW t \in Runners, Send(t) PROVE EachOnce'
  <2>1. /\ t \in Runners /\ rpc[t] = "send" /\ rpc' = [rpc EXCEPT ![t] = "delete"]
        /\ UNCHANGED <<mainVars, streamVars, job, event, deleted>>
        /\ sent' = [sent EXCEPT ![job[t]] = IF @ = 2 THEN 2 ELSE @ + 1]
    BY <1>19 DEF Send
  <2>2. /\ job[t] \in 1..received /\ job[t] \in Events
        /\ sent[job[t]] = 0 /\ event[job[t]] = "live"
    BY <1>0, <2>1
  <2>3. InLoop => health' = health
    BY <1>19, <2>1, <2>2 DEF Send, Used, Gone
  <2>4. /\ rpc \in [Runners -> RunnerSteps] /\ received \in 0..MaxEvents
        /\ \A u \in Runners : Sending(u) => job[u] \in 1..received
    OBVIOUS
  <2>5. \A n \in Events : sent'[n] = IF n = job[t] THEN 1 ELSE sent[n]
    BY <2>1, <2>2
  <2> HIDE DEF StreamInv, TypeOK, SlotsFilled, RunsFromSlots, EachOnce
  <2>6. \A u \in Runners : rpc'[u] = IF u = t THEN "delete" ELSE rpc[u]
    BY <2>1, <2>4
  <2>7. \A u \in Runners : Sending(u)' <=> Sending(u)
    BY <2>1, <2>6
  <2> HIDE DEF Sending, Settled, InHand
  <2>8. \A n \in 1..received : InHand(n)' \/ InRun(n)' \/ Settled(n)'
    <3>1. \A n \in 1..received : InHand(n) \/ InRun(n) \/ Settled(n)
      BY <1>0 DEF EachOnce
    <3>2. \A n \in 1..received : (InHand(n) => InHand(n)') /\ (InRun(n) => InRun(n)')
      BY <2>1, <2>7 DEF InHand
    <3>3. \A n \in 1..received : Settled(n) => Settled(n)'
      BY <2>1, <2>2, <2>5 DEF Settled
    <3> QED
      BY <2>1, <3>1, <3>2, <3>3
  <2>9. \A u \in Runners : Sending(u)' =>
          /\ ~InHand(job[u])' /\ event'[job'[u]] = "live"
          /\ sent'[job'[u]] = IF rpc'[u] = "delete" THEN 1 ELSE 0
    <3> SUFFICES ASSUME NEW u \in Runners, Sending(u)
                 PROVE  /\ ~InHand(job[u])' /\ event'[job'[u]] = "live"
                        /\ sent'[job'[u]] = IF rpc'[u] = "delete" THEN 1 ELSE 0
      BY <2>7
    <3>1. ~InHand(job[u]) /\ event[job[u]] = "live" /\ job[u] \in Events
      BY <1>0, <2>4 DEF EachOnce
    <3>2. u # t => /\ job[u] # job[t]
                  /\ sent[job[u]] = IF rpc[u] = "delete" THEN 1 ELSE 0
      BY <1>0, <2>1 DEF EachOnce, Sending
    <3> QED
      BY <2>1, <2>5, <2>6, <3>1, <3>2 DEF InHand
  <2>10. \A n \in Events : n > received' \/ InHand(n)' =>
           event'[n] = "live" /\ sent'[n] = 0
    <3>1. ~InHand(job[t]) /\ job[t] <= received
      BY <1>0, <2>1, <2>4 DEF EachOnce, Sending
    <3> QED
      BY <1>0, <2>1, <2>4, <2>5, <3>1 DEF EachOnce, InHand
  <2> QED
    BY <1>0, <2>1, <2>3, <2>5, <2>7, <2>8, <2>9, <2>10 DEF EachOnce
<1>20. ASSUME NEW t \in Runners, Finish(t) PROVE EachOnce'
  BY SMTT(30), <1>20 DEF Finish, Used, Gone, Freed
<1>21. CASE UNCHANGED vars
  BY <1>21 DEF vars
<1> QED
  BY <1>1, <1>2, <1>3, <1>4, <1>5, <1>6, <1>7, <1>8, <1>9, <1>10, <1>11, <1>12,
     <1>13, <1>14, <1>15, <1>16, <1>17, <1>18, <1>19, <1>20, <1>21
     DEF Next, StreamNext, MainNext, RunnerNext

-----------------------------------------------------------------------------
\* The inductive invariant: main and the stream agree on where the stream is,
\* a slot holds a sender of its own, a runner runs the sender of a slot, and
\* until the vector overruns every message is where it was put once.
THEOREM StreamSafe == Spec => []StreamInv
<1>1. StreamInv /\ [Next]_vars => StreamInv'
  BY TypePreserved, HandshakePreserved, SlotsPreserved, RunsPreserved, OncePreserved
     DEF StreamInv
<1> QED
  BY InitStream, <1>1, PTL DEF Spec

\* Every variable of the stream keeps its type.
THEOREM StreamTypeOK == Spec => []TypeOK
<1>1. StreamInv => TypeOK
  BY DEF StreamInv
<1> QED
  BY StreamSafe, <1>1, PTL

\* event_stream deletes no sender that a thread runs as long as it loops: a
\* slot is used again only after a joinAll.
THEOREM StreamSenderAlive == Spec => []SenderAlive
<1>1. StreamInv => SenderAlive
  BY SlotsPositive, StreamNotPooled
     DEF StreamInv, TypeOK, SlotsFilled, RunsFromSlots, SenderAlive, Runners
<1> QED
  BY StreamSafe, <1>1, PTL

\* As long as event_stream stores nothing behind evt_senders, nothing
\* undefined happens in its loop and no message is sent twice.
THEOREM StreamNothingUndefined == Spec => []NothingUndefined
<1>1. StreamInv => NothingUndefined
  BY DEF StreamInv, EachOnce, NothingUndefined
<1> QED
  BY StreamSafe, <1>1, PTL

\* And no message that event_stream received is lost.
THEOREM StreamNoneLost == Spec => []NoneLost
<1>1. StreamInv => NoneLost
  BY DEF StreamInv, EachOnce, NoneLost
<1> QED
  BY StreamSafe, <1>1, PTL

\* main returns, and takes the cache and the configuration with it, only
\* before the stream began or after it ended.
THEOREM StreamWithinMain == Spec => []MainOutlivesStream
<1>1. StreamInv => MainOutlivesStream
  BY DEF StreamInv, Handshake
<1> QED
  BY StreamSafe, <1>1, PTL
=============================================================================
