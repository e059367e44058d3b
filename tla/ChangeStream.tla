---------------------------- MODULE ChangeStream ----------------------------
(***************************************************************************)
(* What a live connection promises its client, whatever the transport: it  *)
(* is a stream that begins at the client's cursor and hands over the       *)
(* changes that are kept, in order, each once and none left out, until it  *)
(* ends.  ledger/consumers.py is to implement this.                        *)
(***************************************************************************)
EXTENDS Integers

CONSTANTS
  Conns,   \* connections
  NoCursor \* the connection has no stream

VARIABLES
  last,     \* the number of changes ever committed
  log,      \* the changes that are kept
  position, \* how far a stream has come
  received  \* the changes its client has got since the stream began

streamVars == <<last, log, position, received>>

Init ==
  /\ last = 0 /\ log = {}
  /\ position = [c \in Conns |-> NoCursor]
  /\ received = [c \in Conns |-> {}]

Commit ==
  /\ last' = last + 1
  /\ log' = log \cup {last'}
  /\ UNCHANGED <<position, received>>

\* Old changes are dropped, the newest never.
Drop ==
  /\ log' \subseteq log /\ last \in log'
  /\ UNCHANGED <<last, position, received>>

Begin(c) ==
  /\ position[c] = NoCursor
  /\ \E k \in 0..last : position' = [position EXCEPT ![c] = k]
  /\ received' = [received EXCEPT ![c] = {}]
  /\ UNCHANGED <<last, log>>

Between(from, to) == {k \in log : from < k /\ k <= to}

HandOver(c) ==
  /\ position[c] # NoCursor
  /\ \E k \in Between(position[c], last) :
       /\ position' = [position EXCEPT ![c] = k]
       /\ received' = [received EXCEPT ![c] = @ \cup Between(position[c], k)]
  /\ UNCHANGED <<last, log>>

End(c) ==
  /\ position[c] # NoCursor
  /\ position' = [position EXCEPT ![c] = NoCursor]
  /\ received' = [received EXCEPT ![c] = {}]
  /\ UNCHANGED <<last, log>>

Next == Commit \/ Drop \/ \E c \in Conns : Begin(c) \/ HandOver(c) \/ End(c)

Spec == Init /\ [][Next]_streamVars
=============================================================================
