------------------------- MODULE ConnectionInitializer -------------------------
(***************************************************************************)
(* Running the connection initializers of a config before the handshake:  *)
(* `impl ConnectionInitializer for (A, B)` and                              *)
(* `ConcurrentConnectionFuture<N>` in bindings/rust/extended/s2n-tls/src/  *)
(* config.rs, driven by the connection's polling loop.                     *)
(*                                                                         *)
(* Hook i's initialize_connection returns Err, Ok(None) (done at once) or  *)
(* Ok(Some(future)).  Each poll of a future answers Pending, Ready(Ok) or   *)
(* Ready(Err) as it likes, except that after MaxPolls - 1 Pendings it must *)
(* be Ready.  One poll of the combined future is one step: the loop over   *)
(* the slots runs to its end or to the first error without yielding.       *)
(***************************************************************************)
EXTENDS Naturals, FiniteSets

CONSTANTS
  N,         \* number of initializers composed (2 for the tuple impl)
  MaxPolls   \* bound on the polls one future needs before it is Ready

ASSUME InitAssumption == N \in Nat \ {0} /\ MaxPolls \in Nat \ {0}

Hooks == 1 .. N

VARIABLES
  stage,   \* "start", "polling", "ok" or "err": the initializer phase of the connection
  invoked, \* the hooks whose initialize_connection has been called
  slot,    \* ConcurrentConnectionFuture::futures: "some" or "none" per hook
  inner,   \* what hook i last answered: "absent" (no future), "pending", "ok", "err"
  polls    \* how many times hook i's future has been polled

vars == <<stage, invoked, slot, inner, polls>>

Init ==
  /\ stage = "start"
  /\ invoked = {}
  /\ slot = [i \in Hooks |-> "none"]
  /\ inner = [i \in Hooks |-> "absent"]
  /\ polls = [i \in Hooks |-> 0]

\* The hooks before the first one in `r` that failed, that one included.
UpToFirstErr(r, S) == {i \in S : \A j \in S : j < i => r[j] # "err"}

\* initialize_connection of the tuple: each hook in order, returning at the
\* first Err (`?`); no future gives Ok(None), futures are wrapped in a
\* ConcurrentConnectionFuture with every slot Some (a single future is
\* returned as it is, which behaves as a combination of one).  The
\* connection polls what it got; an error or Ok(None) ends the phase.
InitializeConnection ==
  /\ stage = "start"
  /\ \E r \in [Hooks -> {"err", "none", "some"}] :
       LET called == UpToFirstErr(r, Hooks)
           failed == \E i \in called : r[i] = "err"
           futs   == {i \in called : r[i] = "some"}
       IN  /\ invoked' = called
           /\ stage' = IF failed THEN "err"
                       ELSE IF futs = {} THEN "ok" ELSE "polling"
           /\ slot' = [i \in Hooks |-> IF ~failed /\ i \in futs THEN "some" ELSE "none"]
           /\ inner' = [i \in Hooks |-> CASE r[i] = "err" /\ i \in called -> "err"
                                          [] i \in futs -> "pending"
                                          [] OTHER -> "absent"]
  /\ UNCHANGED polls

\* What the futures may answer to one poll.
Answers(S) == [S -> {"pending", "ok", "err"}]
Allowed(o) == \A i \in DOMAIN o : o[i] = "pending" => polls[i] + 1 < MaxPolls

\* Mutant of Poll: a slot whose future completed with Ok is not emptied.
Poll_NoClear ==
  /\ stage = "polling"
  /\ LET active == {i \in Hooks : slot[i] = "some"} IN
     \E o \in Answers(active) :
       LET polled == UpToFirstErr(o, active)
           failed == \E i \in polled : o[i] = "err"
           pending == \E i \in polled : o[i] = "pending"
       IN  /\ Allowed(o)
           /\ slot' = [i \in Hooks |-> slot[i]]
           /\ inner' = [i \in Hooks |-> IF i \in polled THEN o[i] ELSE inner[i]]
           /\ polls' = [i \in Hooks |-> IF i \in polled THEN polls[i] + 1 ELSE polls[i]]
           /\ stage' = IF failed THEN "err" ELSE IF pending THEN "polling" ELSE "ok"
  /\ UNCHANGED invoked

\* Mutant of Poll: a Pending answer does not mark the pass pending.
Poll_NoPendingFlag ==
  /\ stage = "polling"
  /\ LET active == {i \in Hooks : slot[i] = "some"} IN
     \E o \in Answers(active) :
       LET polled == UpToFirstErr(o, active)
           failed == \E i \in polled : o[i] = "err"
           pending == \E i \in polled : o[i] = "pending"
       IN  /\ Allowed(o)
           /\ slot' = [i \in Hooks |-> IF i \in polled /\ o[i] = "ok" THEN "none" ELSE slot[i]]
           /\ inner' = [i \in Hooks |-> IF i \in polled THEN o[i] ELSE inner[i]]
           /\ polls' = [i \in Hooks |-> IF i \in polled THEN polls[i] + 1 ELSE polls[i]]
           /\ stage' = IF failed THEN "err" ELSE "ok"
  /\ UNCHANGED invoked

\* ConcurrentConnectionFuture::poll: for every slot still Some, in order,
\* poll its future; Ready(Err) returns the error at once (`result?`, the
\* slot left Some), Ready(Ok) empties the slot, Pending marks the pass
\* pending.  After the loop: Pending if any was pending, else Ready(Ok).
Poll ==
  /\ stage = "polling"
  /\ LET active == {i \in Hooks : slot[i] = "some"} IN
     \E o \in Answers(active) :
       LET polled == UpToFirstErr(o, active)
           failed == \E i \in polled : o[i] = "err"
           pending == \E i \in polled : o[i] = "pending"
       IN  /\ Allowed(o)
           /\ slot' = [i \in Hooks |-> IF i \in polled /\ o[i] = "ok" THEN "none" ELSE slot[i]]
           /\ inner' = [i \in Hooks |-> IF i \in polled THEN o[i] ELSE inner[i]]
           /\ polls' = [i \in Hooks |-> IF i \in polled THEN polls[i] + 1 ELSE polls[i]]
           /\ stage' = IF failed THEN "err" ELSE IF pending THEN "polling" ELSE "ok"
  /\ UNCHANGED invoked

\* The handshake starts, or the connection reports the error: this phase is over.
Finished ==
  /\ stage \in {"ok", "err"}
  /\ UNCHANGED vars

Next == InitializeConnection \/ Poll \/ Finished

Spec == Init /\ [][Next]_vars

-----------------------------------------------------------------------------
(* Properties                                                              *)

TypeOK ==
  /\ stage \in {"start", "polling", "ok", "err"}
  /\ invoked \subseteq Hooks
  /\ slot \in [Hooks -> {"some", "none"}]
  /\ inner \in [Hooks -> {"absent", "pending", "ok", "err"}]
  /\ polls \in [Hooks -> 0 .. MaxPolls]

\* A future that has answered Ready is never polled again (polling a
\* finished future breaks the Future contract): every poll of a hook's
\* future finds it pending.
NoPollAfterReady ==
  [][\A i \in Hooks : polls'[i] # polls[i] => inner[i] = "pending"]_vars

\* The handshake may start only when every initializer was called and every
\* future it returned has completed with Ok.
CompleteOnlyIfAllSucceeded ==
  stage = "ok" => invoked = Hooks /\ \A i \in Hooks : inner[i] \in {"absent", "ok"}

=============================================================================
