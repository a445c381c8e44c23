----------------------------- MODULE EventFeed -----------------------------
(***************************************************************************)
(* What the event streams of the RPC server promise, whatever happens to   *)
(* handlers, completion queue and frames: events of a type are numbered as *)
(* they are published; a subscriber is sent ever newer ones; an event may  *)
(* be dropped unseen, but not in front of a subscriber that waits for it.  *)
(***************************************************************************)
EXTENDS Naturals

CONSTANTS
  Types,        \* the types of events
  Subscribers,  \* the calls that subscribe to a type
  TypeOf        \* the type each of them subscribes to

VARIABLES
  published,  \* per type, how many events there were
  dropped,    \* per type, how many of them are gone
  sent,       \* per subscriber, the last event it was sent
  waiting     \* the subscribers that have nothing under way and wait for an event

vars == <<published, dropped, sent, waiting>>

Init ==
  /\ published = [t \in Types |-> 0]
  /\ dropped = [t \in Types |-> 0]
  /\ sent = [s \in Subscribers |-> 0]
  /\ waiting = {}

Pending(t) == dropped[t] < published[t]

Publish(t) ==
  /\ published' = [published EXCEPT ![t] = @ + 1]
  /\ UNCHANGED <<dropped, sent, waiting>>

(* A subscriber is sent the oldest event there is, once.                   *)
Deliver(s) ==
  /\ Pending(TypeOf[s])
  /\ sent[s] <= dropped[TypeOf[s]]
  /\ sent' = [sent EXCEPT ![s] = dropped[TypeOf[s]] + 1]
  /\ waiting' = waiting \ {s}
  /\ UNCHANGED <<published, dropped>>

(* It waits only when there is none.                                       *)
Wait(s) ==
  /\ s \notin waiting
  /\ ~ Pending(TypeOf[s])
  /\ waiting' = waiting \cup {s}
  /\ UNCHANGED <<published, dropped, sent>>

(* The oldest event of each type goes, when nobody waits for one of them.  *)
DropFronts ==
  /\ \A s \in waiting : ~ Pending(TypeOf[s])
  /\ dropped' = [t \in Types |-> IF Pending(t) THEN dropped[t] + 1 ELSE dropped[t]]
  /\ UNCHANGED <<published, sent, waiting>>

Next ==
  \/ \E t \in Types : Publish(t)
  \/ \E s \in Subscribers : Deliver(s) \/ Wait(s)
  \/ DropFronts

Spec == Init /\ [][Next]_vars
=============================================================================
