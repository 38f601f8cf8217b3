-------------------------- MODULE OrderedDelivery --------------------------
(***************************************************************************)
(* What a runtime channel promises to those who send commands over it and  *)
(* take events in: the contract that AgentSessions and                     *)
(* DevcontainerLifecycle build on with their queues, and that              *)
(* RuntimeChannel is shown to keep.                                        *)
(*                                                                         *)
(* Whoever holds the slot handles commands in the order they were sent,    *)
(* each at most once and with one event.  When something is lost, so is    *)
(* everything behind it: the holder's work is cut at one point, and        *)
(* nothing sent to this holder afterwards gets through.  A command of one  *)
(* holder is never answered by another.                                    *)
(***************************************************************************)
EXTENDS Naturals, Sequences, TLAPS

VARIABLES
    held,       \* some connection holds the slot
    intact,     \* nothing sent to its holder has been lost
    pending,    \* the set of commands sent to the holder whose events may still come
    sent,       \* commands sent so far, numbered from 1
    taken       \* commands whose events were taken in, in that order

vars == <<held, intact, pending, sent, taken>>

Init ==
    /\ held = FALSE
    /\ intact = FALSE
    /\ pending = {}
    /\ sent = 0
    /\ taken = <<>>

\* A registration is accepted, perhaps of a connection that is already dead.
Claim ==
    /\ ~held
    /\ held' = TRUE
    /\ intact' \in BOOLEAN
    /\ UNCHANGED <<pending, sent, taken>>

Send ==
    /\ held
    /\ sent' = sent + 1
    /\ pending' = pending \cup (IF intact THEN {sent'} ELSE {})
    /\ UNCHANGED <<held, intact, taken>>

\* The event of the oldest command comes first.
TakeIn ==
    /\ \E n \in pending :
          /\ \A m \in pending : n <= m
          /\ taken' = Append(taken, n)
          /\ pending' = pending \ {n}
    /\ UNCHANGED <<held, intact, sent>>

\* What is pending is cut short, for good: whatever was sent after what is lost is
\* lost too.
Lose ==
    /\ held
    /\ intact' = FALSE
    /\ pending' \subseteq pending
    /\ \A m \in pending', n \in pending \ pending' : m < n
    /\ UNCHANGED <<held, sent, taken>>

\* The slot is released, with what was pending.
Release ==
    /\ held
    /\ held' = FALSE
    /\ intact' = FALSE
    /\ pending' = {}
    /\ UNCHANGED <<sent, taken>>

Next == Claim \/ Send \/ TakeIn \/ Lose \/ Release

Spec == Init /\ [][Next]_vars

\* Events are taken in in the order their commands were sent, and never twice.
InOrder == \A m, n \in DOMAIN taken : m < n => taken[m] < taken[n]

-----------------------------------------------------------------------------
\* What follows from the contract.

Types ==
    /\ sent \in Nat
    /\ taken \in Seq(Nat)
    /\ pending \subseteq Nat

\* Whatever is pending was sent, and after everything taken in.
Queued ==
    \A n \in pending :
        /\ n <= sent
        /\ \A i \in 1 .. Len(taken) : taken[i] < n

Received ==
    /\ \A i \in 1 .. Len(taken) : taken[i] <= sent
    /\ \A i, j \in 1 .. Len(taken) : i < j => taken[i] < taken[j]

\* InOrder is not inductive: it takes the place of what is still to come.
Ordered == Types /\ Queued /\ Received

\* The oldest of what is pending becomes the last of what is taken in.
LEMMA TakeInIsOrdered ==
    ASSUME Ordered, TakeIn
    PROVE  Ordered'
<1> USE DEF Ordered, Types, Queued, Received
<1>1. PICK n \in pending : /\ \A m \in pending : n <= m
                           /\ taken' = Append(taken, n)
                           /\ pending' = pending \ {n}
  BY DEF TakeIn
<1>2. n \in Nat /\ n <= sent /\ sent' = sent
  BY DEF TakeIn
<1>3. /\ taken' \in Seq(Nat)
      /\ Len(taken') = Len(taken) + 1
      /\ \A i \in 1 .. Len(taken) : taken'[i] = taken[i]
      /\ taken'[Len(taken) + 1] = n
  BY <1>1, <1>2
<1>4. \A i \in 1 .. Len(taken') :
          \/ i \in 1 .. Len(taken) /\ taken'[i] = taken[i]
          \/ i = Len(taken) + 1 /\ taken'[i] = n
  BY <1>3
<1>5. \A m \in pending' : m \in Nat /\ n < m
  BY <1>1, <1>2
<1>6. Queued'
  BY <1>1, <1>2, <1>4, <1>5
<1>7. Received'
  <2>1. \A i \in 1 .. Len(taken') : taken'[i] <= sent'
    BY <1>2, <1>4
  <2>2. ASSUME NEW i \in 1 .. Len(taken'), NEW j \in 1 .. Len(taken'), i < j
        PROVE  taken'[i] < taken'[j]
    <3>1. i \in 1 .. Len(taken) /\ taken'[i] = taken[i]
      BY <1>3, <1>4, <2>2
    <3> QED
      BY <1>1, <1>4, <2>2, <3>1
  <2> QED
    BY <2>1, <2>2
<1> QED
  BY <1>1, <1>2, <1>3, <1>6, <1>7

\* What keeps the contract takes events in in the order of their commands and
\* never twice, for any number of commands, losses and holders.
THEOREM EventsComeInOrder == Spec => []InOrder
<1>1. Init => Ordered
  BY DEF Init, Ordered, Types, Queued, Received
<1>2. Ordered /\ [Next]_vars => Ordered'
  <2> SUFFICES ASSUME Ordered, [Next]_vars PROVE Ordered'
    OBVIOUS
  <2> USE DEF Ordered, Types, Queued, Received
  <2>1. CASE Claim
    BY <2>1 DEF Claim
  <2>2. CASE Send
    BY <2>2 DEF Send
  <2>3. CASE TakeIn
    BY <2>3, TakeInIsOrdered
  <2>4. CASE Lose
    BY <2>4 DEF Lose
  <2>5. CASE Release
    BY <2>5 DEF Release
  <2>6. CASE UNCHANGED vars
    BY <2>6 DEF vars
  <2> QED
    BY <2>1, <2>2, <2>3, <2>4, <2>5, <2>6 DEF Next
<1>3. Ordered => InOrder
  BY DEF Ordered, Types, Received, InOrder
<1> QED
  BY <1>1, <1>2, <1>3, PTL DEF Spec
=============================================================================
