------------------------------ MODULE LastGood ------------------------------
(***************************************************************************)
(* What a cached listing promises its callers: one request at a time on    *)
(* behalf of everybody waiting, whose result all of them get; the last     *)
(* good value when that request fails; an error only as long as there has  *)
(* never been one.                                                         *)
(***************************************************************************)
EXTENDS FiniteSets

CONSTANTS
  Caller,
  Value,
  NoValue,  \* nothing was fetched yet
  Error     \* the answer of a request that failed

VARIABLES
  good,     \* the last value fetched
  waiting,  \* callers waiting for the request in flight
  answer    \* what each caller was told last

vars == <<good, waiting, answer>>

Init ==
  /\ good = NoValue
  /\ waiting = {}
  /\ answer = [c \in Caller |-> NoValue]

Tell(C, v) == answer' = [c \in Caller |-> IF c \in C THEN v ELSE answer[c]]

\* A caller is served what there is, or waits for the request in flight.
Serve(c) ==
  /\ c \notin waiting
  /\ good # NoValue
  /\ Tell({c}, good)
  /\ UNCHANGED <<good, waiting>>

Wait(c) ==
  /\ c \notin waiting
  /\ waiting' = waiting \cup {c}
  /\ UNCHANGED <<good, answer>>

Refresh(v) ==
  /\ waiting # {}
  /\ good' = v
  /\ Tell(waiting, v)
  /\ waiting' = {}

Fail ==
  /\ waiting # {}
  /\ Tell(waiting, IF good = NoValue THEN Error ELSE good)
  /\ waiting' = {}
  /\ UNCHANGED good

Next ==
  \/ \E c \in Caller : Serve(c) \/ Wait(c)
  \/ \E v \in Value : Refresh(v)
  \/ Fail

Spec == Init /\ [][Next]_vars

\* Nobody waits for ever.
FairSpec == Spec /\ WF_vars((\E v \in Value : Refresh(v)) \/ Fail)
=============================================================================
