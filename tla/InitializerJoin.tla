---------------------------- MODULE InitializerJoin ----------------------------
(***************************************************************************)
(* What composing connection initializers promises, with no slots, no      *)
(* futures and no polling order: the N initializers of a connection settle *)
(* one by one or several at a time, each with Ok or Err, and an outcome    *)
(* once known is never revised.  The phase fails as soon as one of them    *)
(* has failed, completes only when all of them have succeeded, and does    *)
(* not change afterwards.  ConnectionInitializer implements this under the *)
(* mapping of ConnectionInitializerProofs.                                 *)
(***************************************************************************)
EXTENDS Naturals

CONSTANT N

Hooks == 1 .. N

VARIABLES
  phase,  \* "running", "ok" or "err"
  result  \* per initializer: "unknown", "ok" or "err"

jvars == <<phase, result>>

Init ==
  /\ phase = "running"
  /\ result = [i \in Hooks |-> "unknown"]

\* The phase a set of outcomes determines.
PhaseOf(res) ==
  IF \E i \in Hooks : res[i] = "err" THEN "err"
  ELSE IF \A i \in Hooks : res[i] = "ok" THEN "ok"
  ELSE "running"

\* Some initializers whose outcome is unknown settle, each with Ok or Err.
Settle ==
  /\ phase = "running"
  /\ \E S \in SUBSET {i \in Hooks : result[i] = "unknown"} :
       \E v \in [S -> {"ok", "err"}] :
         /\ result' = [i \in Hooks |-> IF i \in S THEN v[i] ELSE result[i]]
         /\ phase' = PhaseOf(result')

Next == Settle

Spec == Init /\ [][Next]_jvars

=============================================================================
