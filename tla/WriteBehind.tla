---------------------------- MODULE WriteBehind ----------------------------
(***************************************************************************)
(* What the session code expects of the scheduler: each update it submits  *)
(* is applied to the database at most once, and the updates of an account  *)
(* whose session goes on are applied in the order of their submission.     *)
(* One that fails is given up alone; only the end of the process may lose  *)
(* others, and then it loses all that wait.                                *)
(***************************************************************************)
EXTENDS Naturals, Sequences

CONSTANTS Accounts,
          Steady,     \* accounts whose session does not end
          Updates     \* numbered in the order in which they are submitted

VARIABLES submitted,  \* the updates submitted so far
          pending,    \* those of them that wait, by account
          log         \* the updates applied, in order, by account

vars == <<submitted, pending, log>>

Init ==
  /\ submitted = {}
  /\ pending = [a \in Accounts |-> {}]
  /\ log = [a \in Accounts |-> <<>>]

Submit(a, u) ==
  /\ \A v \in submitted : v < u
  /\ submitted' = submitted \cup {u}
  /\ pending' = [pending EXCEPT ![a] = @ \cup {u}]
  /\ log' = log

\* u is the next update of a to be handled.
Due(a, u) ==
  /\ u \in pending[a]
  /\ a \in Steady => \A v \in pending[a] : u <= v
  /\ pending' = [pending EXCEPT ![a] = @ \ {u}]

Apply(a, u) ==
  /\ Due(a, u)
  /\ log' = [log EXCEPT ![a] = Append(@, u)]
  /\ submitted' = submitted

Fail(a, u) ==
  /\ Due(a, u)
  /\ UNCHANGED <<log, submitted>>

Crash ==
  /\ pending' = [a \in Accounts |-> {}]
  /\ UNCHANGED <<log, submitted>>

Next ==
  \/ \E a \in Accounts, u \in Updates : Submit(a, u) \/ Apply(a, u) \/ Fail(a, u)
  \/ Crash

Spec == Init /\ [][Next]_vars
=============================================================================
