---------------------------- MODULE AddressList ----------------------------
(***************************************************************************)
(* What an entry of the device cache promises to the threads that share    *)
(* it, apart from how its two copies and its counters keep that promise.   *)
(* Lists are numbered in the order in which they are published.  An update *)
(* takes effect at one instant.  A reader that nobody interferes with gets *)
(* the published list.  If a list is published during its call, it may get *)
(* any list from the one published when it began to the next one to be     *)
(* published, or a torn copy.  CacheEntry implements this.                 *)
(***************************************************************************)
EXTENDS Integers

CONSTANTS Readers, Torn

VARIABLES
  list,      \* the published list
  call,      \* a reader is out of get_addresses, in it, or has its answer
  since,     \* the list that was published when its call began
  answer     \* what its call returns

vars == <<list, call, since, answer>>

Init ==
  /\ list = 0
  /\ call = [r \in Readers |-> "out"]
  /\ since = [r \in Readers |-> 0]
  /\ answer = [r \in Readers |-> 0]

\* The answers to a call that began with list s and is answered with list l.
Answers(s, l) == IF s = l THEN {s} ELSE (s .. l + 1) \cup {Torn}

Call(r) ==
  /\ call[r] = "out"
  /\ call' = [call EXCEPT ![r] = "in"]
  /\ since' = [since EXCEPT ![r] = list]
  /\ UNCHANGED <<list, answer>>

Answer(r) ==
  /\ call[r] = "in"
  /\ call' = [call EXCEPT ![r] = "answered"]
  /\ \E v \in Answers(since[r], list) : answer' = [answer EXCEPT ![r] = v]
  /\ UNCHANGED <<list, since>>

Return(r) ==
  /\ call[r] = "answered"
  /\ call' = [call EXCEPT ![r] = "out"]
  /\ answer' = [answer EXCEPT ![r] = 0]
  /\ UNCHANGED <<list, since>>

Publish ==
  /\ list' = list + 1
  /\ UNCHANGED <<call, since, answer>>

Next == Publish \/ \E r \in Readers : Call(r) \/ Answer(r) \/ Return(r)

Spec == Init /\ [][Next]_vars
=============================================================================
