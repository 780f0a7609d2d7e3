----------------------------- MODULE EventsHub -----------------------------
(***************************************************************************)
(* The events hub for one user: a change counter, a timer that collects    *)
(* the changes of a burst into one event, and a bounded channel for each   *)
(* websocket connection.  Every event means "list again", so a channel is  *)
(* the number of events in it.                                             *)
(***************************************************************************)
EXTENDS Naturals

CONSTANTS Conns,   \* websocket connections of the user, one per client
          Buffer   \* capacity of a subscriber's channel, 4 in the code

ASSUME BufferAssumption == Buffer \in Nat \ {0}

VARIABLES version,  \* Hub.versions: one more for each Publish
          pending,  \* Hub.pending: the timer of the burst is armed
          firing,   \* timer callbacks between their two critical sections
          subs,     \* Hub.subs: connections that are subscribed
          inbox     \* events in the channel of each connection

hubVars == <<version, pending, firing, subs, inbox>>

HubInit ==
  /\ version = 0 /\ pending = FALSE /\ firing = 0
  /\ subs = {} /\ inbox = [c \in Conns |-> 0]

\* The counter moves at once; the event joins the burst that is collected, if
\* there is one, and else arms the timer.
Publish ==
  /\ version' = version + 1
  /\ pending' = TRUE
  /\ UNCHANGED <<firing, subs, inbox>>

\* The callback closes the burst in one critical section ...
TimerFires ==
  /\ pending
  /\ pending' = FALSE /\ firing' = firing + 1
  /\ UNCHANGED <<version, subs, inbox>>

\* ... and delivers it in the next, dropping it where the channel is full.
\* Mutant: an event goes into a channel that is full.
FanOutFull ==
  /\ firing > 0
  /\ firing' = firing - 1
  /\ inbox' = [c \in Conns |-> IF c \in subs THEN inbox[c] + 1 ELSE inbox[c]]
  /\ UNCHANGED <<version, pending, subs>>
FanOut ==
  /\ firing > 0
  /\ firing' = firing - 1
  /\ inbox' = [c \in Conns |-> IF c \in subs /\ inbox[c] < Buffer THEN inbox[c] + 1 ELSE inbox[c]]
  /\ UNCHANGED <<version, pending, subs>>

Subscribe(c) ==
  /\ subs' = subs \cup {c} /\ inbox' = [inbox EXCEPT ![c] = 0]
  /\ UNCHANGED <<version, pending, firing>>

Unsubscribe(c) ==
  /\ subs' = subs \ {c} /\ inbox' = [inbox EXCEPT ![c] = 0]
  /\ UNCHANGED <<version, pending, firing>>

\* The write loop of the connection sends one event to the client.
Send(c) ==
  /\ inbox[c] > 0
  /\ inbox' = [inbox EXCEPT ![c] = @ - 1]
  /\ UNCHANGED <<version, pending, firing, subs>>

\* A new process starts with an empty hub.
HubReset ==
  /\ version' = 0 /\ pending' = FALSE /\ firing' = 0
  /\ subs' = {} /\ inbox' = [c \in Conns |-> 0]

HubTypeOK ==
  /\ version \in Nat /\ pending \in BOOLEAN /\ firing \in Nat
  /\ subs \subseteq Conns /\ inbox \in [Conns -> 0..Buffer]

=============================================================================
