------------------------- MODULE QueueNumbersProofs -------------------------
(***************************************************************************)
(* Proofs about module QueueNumbers, for any number of tickets, scopes and *)
(* numbers.                                                                *)
(***************************************************************************)
EXTENDS QueueNumbers, TLAPS

(* Uniqueness is not inductive alone: a fresh number differs from those of *)
(* the scope it enters because the sequence covers them all.               *)
NumbersInv == NumbersTypeOK /\ NumbersCovered /\ NumbersUnique

-----------------------------------------------------------------------------
(* What issuing does to a well-typed state: the ticket's number is the     *)
(* scope's last one, and above the one the scope had.                      *)
LEMMA IssueRaises ==
  ASSUME NumbersAssumption, NumbersTypeOK, NEW t \in Tickets, NEW s \in Scopes, Issue(t, s)
  PROVE  /\ NumbersTypeOK'
         /\ number'[t] \in Nat /\ scope'[t] = s
         /\ lastNumber'[s] = number'[t] /\ number'[t] > lastNumber[s]
         /\ \A u \in Tickets \ {t} : number'[u] = number[u] /\ scope'[u] = scope[u]
         /\ \A v \in Scopes \ {s} : lastNumber'[v] = lastNumber[v]
<1>1. PICK n \in 1..MaxNumber :
        /\ n > lastNumber[s]
        /\ number' = [number EXCEPT ![t] = n]
        /\ scope' = [scope EXCEPT ![t] = s]
        /\ lastNumber' = [lastNumber EXCEPT ![s] = n]
  BY DEF Issue
<1>2. n \in 0..MaxNumber /\ n \in Nat
  BY DEF NumbersAssumption
<1> QED
  BY <1>1, <1>2 DEF NumbersTypeOK, NumbersAssumption

(* A scope's sequence keeps covering the numbers of its tickets.           *)
LEMMA IssueCovers ==
  ASSUME NumbersAssumption, NumbersTypeOK, NumbersCovered, NEW t \in Tickets, NEW s \in Scopes, Issue(t, s)
  PROVE  NumbersCovered'
<1> SUFFICES ASSUME NEW u \in Tickets, scope'[u] \in Scopes
             PROVE  number'[u] <= lastNumber'[scope'[u]]
  BY DEF NumbersCovered
<1>1. CASE u = t
  BY <1>1, IssueRaises
<1>2. CASE u # t
  <2>1. number'[u] = number[u] /\ scope'[u] = scope[u] /\ number[u] <= lastNumber[scope[u]]
    BY <1>2, IssueRaises DEF NumbersCovered
  <2>2. lastNumber[scope[u]] <= lastNumber'[scope[u]]
    <3>1. /\ lastNumber[scope[u]] \in 0..MaxNumber
          /\ lastNumber'[scope[u]] \in 0..MaxNumber
      BY <2>1, IssueRaises DEF NumbersTypeOK
    <3> QED
      BY <2>1, <3>1, IssueRaises DEF NumbersAssumption
  <2>3. /\ number[u] \in Int
        /\ lastNumber[scope[u]] \in Int
        /\ lastNumber'[scope[u]] \in Int
    BY <2>1, IssueRaises DEF NumbersTypeOK, NumbersAssumption
  <2> QED
    BY <2>1, <2>2, <2>3
<1> QED
  BY <1>1, <1>2

(* A fresh number collides with none of the scope it enters.               *)
LEMMA IssueUnique ==
  ASSUME NumbersAssumption, NumbersTypeOK, NumbersCovered, NumbersUnique,
         NEW t \in Tickets, NEW s \in Scopes, Issue(t, s)
  PROVE  NumbersUnique'
<1> SUFFICES ASSUME NEW u \in Tickets, NEW v \in Tickets,
                    u # v, scope'[u] \in Scopes, scope'[u] = scope'[v]
             PROVE  number'[u] # number'[v]
  BY DEF NumbersUnique
<1>1. ASSUME NEW w \in Tickets, w # t, scope'[w] = s
      PROVE  number'[w] # number'[t]
  <2>1. number'[w] = number[w] /\ number[w] <= lastNumber[s]
    BY <1>1, IssueRaises DEF NumbersCovered
  <2>2. number[w] \in Int /\ lastNumber[s] \in Int /\ number'[t] \in Int
    BY IssueRaises DEF NumbersTypeOK, NumbersAssumption
  <2> QED
    BY <2>1, <2>2, IssueRaises
<1>2. CASE u = t \/ v = t
  BY <1>1, <1>2, IssueRaises
<1>3. CASE u # t /\ v # t
  BY <1>3, IssueRaises DEF NumbersUnique
<1> QED
  BY <1>2, <1>3

-----------------------------------------------------------------------------
(* The strengthening holds in every reachable state.                       *)
LEMMA NumbersInvariant ==
  ASSUME NumbersAssumption
  PROVE  NumbersSpec => []NumbersInv
<1>1. NumbersInit => NumbersInv
  BY DEF NumbersAssumption, NumbersInit, NumbersInv, NumbersTypeOK, NumbersCovered, NumbersUnique
<1>2. NumbersInv /\ [NumbersNext]_numberVars => NumbersInv'
  <2> SUFFICES ASSUME NumbersInv, [NumbersNext]_numberVars
               PROVE  NumbersInv'
    OBVIOUS
  <2>1. ASSUME NEW t \in Tickets, NEW s \in Scopes, Issue(t, s)
        PROVE  NumbersInv'
    BY <2>1, IssueRaises, IssueCovers, IssueUnique DEF NumbersInv
  <2>2. CASE UNCHANGED numberVars
    BY <2>2 DEF numberVars, NumbersInv, NumbersTypeOK, NumbersCovered, NumbersUnique
  <2> QED
    BY <2>1, <2>2 DEF NumbersNext
<1> QED
  BY <1>1, <1>2, PTL DEF NumbersSpec

(* Type correctness of scopes, numbers and sequences.                      *)
THEOREM NumbersTypeCorrect ==
  ASSUME NumbersAssumption
  PROVE  NumbersSpec => []NumbersTypeOK
<1>1. NumbersInv => NumbersTypeOK
  BY DEF NumbersInv
<1> QED
  BY <1>1, NumbersInvariant, PTL

(* No two tickets of a branch, date and lane ever carry the same number,   *)
(* however tickets move between dates and lanes.                           *)
THEOREM IssuedNumbersUnique ==
  ASSUME NumbersAssumption
  PROVE  NumbersSpec => []NumbersUnique
<1>1. NumbersInv => NumbersUnique
  BY DEF NumbersInv
<1> QED
  BY <1>1, NumbersInvariant, PTL

(* A scope's sequence is never behind the numbers on its tickets.          *)
THEOREM SequenceCovers ==
  ASSUME NumbersAssumption
  PROVE  NumbersSpec => []NumbersCovered
<1>1. NumbersInv => NumbersCovered
  BY DEF NumbersInv
<1> QED
  BY <1>1, NumbersInvariant, PTL
=============================================================================
