---------------------------- MODULE QueueNumbers ----------------------------
(***************************************************************************)
(* What generate_queue_number promises (queues/services.py): a queue       *)
(* number is issued in a scope (branch, date, lane), is above every number *)
(* issued in that scope before, and so belongs to one ticket.  How the     *)
(* number is found is left open here; QueueLifecycle, where a ticket moves *)
(* between scopes as its booking is rescheduled, implements it.            *)
(***************************************************************************)
EXTENDS Integers

CONSTANTS
  Tickets,
  Scopes,      \* branch, booking date and queue type
  Unissued,    \* the scope of a ticket that does not exist yet
  MaxNumber    \* bound on the numbers of a scope

(* What the theorems assume of the constants.                              *)
NumbersAssumption == MaxNumber \in Nat /\ Unissued \notin Scopes

VARIABLES
  scope,       \* the scope a ticket's booking and lane put it in
  number,      \* QueueTicket.queue_number, without its lane letter
  lastNumber   \* QueueNumberSequence.last_number, 0 while there is no row

numberVars == <<scope, number, lastNumber>>

NumbersTypeOK ==
  /\ scope \in [Tickets -> Scopes \cup {Unissued}]
  /\ number \in [Tickets -> 0..MaxNumber]
  /\ lastNumber \in [Scopes -> 0..MaxNumber]

NumbersInit ==
  /\ scope = [t \in Tickets |-> Unissued]
  /\ number = [t \in Tickets |-> 0]
  /\ lastNumber = [s \in Scopes |-> 0]

(* Ticket t enters scope s, or stays in it, with a number of its own.      *)
Issue(t, s) ==
  \E n \in 1..MaxNumber :
    /\ n > lastNumber[s]
    /\ number' = [number EXCEPT ![t] = n]
    /\ scope' = [scope EXCEPT ![t] = s]
    /\ lastNumber' = [lastNumber EXCEPT ![s] = n]

NumbersNext == \E t \in Tickets, s \in Scopes : Issue(t, s)

NumbersSpec == NumbersInit /\ [][NumbersNext]_numberVars

(* No two tickets of a scope carry the same number, although tickets leave *)
(* and enter scopes after numbers were issued there.                       *)
NumbersUnique ==
  \A t, u \in Tickets :
    t # u /\ scope[t] \in Scopes /\ scope[t] = scope[u] => number[t] # number[u]

(* What makes it inductive: a scope's sequence is never behind its tickets. *)
NumbersCovered ==
  \A t \in Tickets : scope[t] \in Scopes => number[t] <= lastNumber[scope[t]]
=============================================================================
