----------------------------- MODULE LinkTable ------------------------------
(***************************************************************************)
(* What the link table promises the host, whatever loop() does to keep the *)
(* promise: a link is connected, or taken by an accepted connection, only  *)
(* while it is free; servers accept up to the limit the host has set; one  *)
(* CIPSEND at a time is under way, for an open link, and ends with that    *)
(* link; and the single-link/multi-link mode changes only while nothing is *)
(* open and nothing listens.                                               *)
(***************************************************************************)
EXTENDS Integers, FiniteSets

CONSTANTS
  Link,       \* link ids; 0 is the only one of single-link mode
  Ports       \* ports a server can listen on

VARIABLES
  conn,       \* conn[l]: Free, Outgoing, or the server port l was accepted on
  sending,    \* link whose payload is being collected, or None
  listening,  \* ports with a running server
  mux,        \* 0: single-link mode, 1: multi-link mode
  limit       \* AT+CIPSERVERMAXCONN

Free     == -1
Outgoing == 0
None     == -1

vars == <<conn, sending, listening, mux, limit>>

Init ==
  /\ conn = [l \in Link |-> Free]
  /\ sending = None
  /\ listening = {}
  /\ mux = 0
  /\ limit = 5

Served == {l \in Link : conn[l] \in listening}

Connect(l) ==
  /\ conn[l] = Free
  /\ mux = 0 => l = 0
  /\ conn' = [conn EXCEPT ![l] = Outgoing]
  /\ UNCHANGED <<sending, listening, mux, limit>>

Accept(l, p) ==
  /\ conn[l] = Free
  /\ p \in listening
  /\ Cardinality(Served) < limit
  /\ conn' = [conn EXCEPT ![l] = p]
  /\ UNCHANGED <<sending, listening, mux, limit>>

\* A close takes the pending CIPSEND of a closed link with it.
Close(D) ==
  /\ \A l \in D : conn[l] # Free
  /\ conn' = [l \in Link |-> IF l \in D THEN Free ELSE conn[l]]
  /\ sending' = IF sending \in D THEN None ELSE sending
  /\ UNCHANGED <<listening, mux, limit>>

BeginSend(l) ==
  /\ sending = None
  /\ conn[l] # Free
  /\ sending' = l
  /\ UNCHANGED <<conn, listening, mux, limit>>

EndSend ==
  /\ sending # None
  /\ sending' = None
  /\ UNCHANGED <<conn, listening, mux, limit>>

SetMux(m) ==
  /\ \A l \in Link : conn[l] = Free
  /\ listening = {}
  /\ sending = None
  /\ mux' = m
  /\ UNCHANGED <<conn, sending, listening, limit>>

Listen(p) ==
  /\ mux = 1
  /\ p \notin listening
  /\ listening' = listening \cup {p}
  /\ UNCHANGED <<conn, sending, mux, limit>>

\* The links the server accepted stay open, and count for no server.
Unlisten(p) ==
  /\ p \in listening
  /\ listening' = listening \ {p}
  /\ UNCHANGED <<conn, sending, mux, limit>>

SetLimit(n) ==
  /\ limit' = n
  /\ UNCHANGED <<conn, sending, listening, mux>>

Next ==
  \/ \E l \in Link : Connect(l) \/ BeginSend(l) \/ (\E p \in Ports : Accept(l, p))
  \/ \E D \in SUBSET Link : Close(D)
  \/ EndSend
  \/ \E m \in {0, 1} : SetMux(m)
  \/ \E p \in Ports : Listen(p) \/ Unlisten(p)
  \/ \E n \in 1..5 : SetLimit(n)

Spec == Init /\ [][Next]_vars
=============================================================================
