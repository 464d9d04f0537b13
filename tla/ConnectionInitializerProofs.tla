---------------------- MODULE ConnectionInitializerProofs ----------------------
(***************************************************************************)
(* Proofs about ConnectionInitializer for every number of initializers and *)
(* every poll bound.                                                       *)
(*                                                                         *)
(* CompleteOnlyIfAllSucceeded is not inductive: a Poll step that finds no  *)
(* future pending reaches "ok", and that is right only because every slot  *)
(* still Some holds a future that last answered Pending and every emptied  *)
(* slot holds one that answered Ok (or never existed).  IInv records this  *)
(* correspondence between the slots and the futures' answers, that a slot  *)
(* is Some only while its future may still be polled, and that nothing     *)
(* has happened before initialize_connection.                              *)
(***************************************************************************)
EXTENDS ConnectionInitializer, WellFoundedInduction, TLAPS

\* Slot i of the combined future is Some exactly while hook i's future is
\* pending; an empty slot's future completed with Ok or never existed.
SlotsTrackFutures ==
  \A i \in Hooks :
    /\ slot[i] = "some" <=> inner[i] = "pending"
    /\ slot[i] = "none" => inner[i] \in {"absent", "ok"}

IInv ==
  /\ TypeOK
  /\ stage = "start" =>
       /\ invoked = {}
       /\ slot = [i \in Hooks |-> "none"]
       /\ polls = [i \in Hooks |-> 0]
  /\ stage \in {"polling", "ok"} => invoked = Hooks /\ SlotsTrackFutures
  /\ stage = "polling" => \A i \in Hooks : slot[i] = "some" => polls[i] < MaxPolls
  /\ stage = "ok" => \A i \in Hooks : slot[i] = "none"
  /\ stage = "polling" => \E i \in Hooks : slot[i] = "some"
  /\ stage = "err" => \E i \in invoked : inner[i] = "err"

-----------------------------------------------------------------------------

\* A non-empty set of naturals has a least element.
LEMMA NatSetHasMin ==
  ASSUME NEW E \in SUBSET Nat, E # {}
  PROVE  \E m \in E : \A k \in E : m <= k
<1>1. PICK m \in E : \A y \in E : ~(<<y, m>> \in OpToRel(<, Nat))
  BY NatLessThanWellFounded, WFMin
<1>2. \A y \in E : ~(y < m)
  <2> SUFFICES ASSUME NEW y \in E, y < m PROVE FALSE
    OBVIOUS
  <2>1. <<y, m>> \in OpToRel(<, Nat)
    BY DEF OpToRel
  <2>2. QED
    BY <1>1, <2>1
<1>3. QED
  BY <1>2

\* When none of the hooks visited before the first Err answered Err, there
\* was no Err: the loop visited every hook of S.
LEMMA UpToNoErr ==
  ASSUME NEW r, NEW S \in SUBSET Hooks, ~\E i \in UpToFirstErr(r, S) : r[i] = "err"
  PROVE  UpToFirstErr(r, S) = S
<1>1. SUFFICES ASSUME NEW i \in S, i \notin UpToFirstErr(r, S) PROVE FALSE
  BY DEF UpToFirstErr
<1>2. PICK j \in S : j < i /\ r[j] = "err"
  BY <1>1 DEF UpToFirstErr
<1> DEFINE E == {k \in S : r[k] = "err"}
<1>3. E \subseteq Nat /\ E # {}
  <2>1. S \subseteq Nat
    BY InitAssumption DEF Hooks
  <2>2. j \in E
    BY <1>2 DEF E
  <2>3. QED
    BY <2>1, <2>2 DEF E
<1>4. PICK m \in E : \A k \in E : m <= k
  BY <1>3, NatSetHasMin
<1>5. m \in UpToFirstErr(r, S)
  BY <1>4, InitAssumption DEF UpToFirstErr, Hooks, E
<1>6. QED
  BY <1>4, <1>5 DEF E

-----------------------------------------------------------------------------

LEMMA IInvInit == Init => IInv
BY InitAssumption DEF Init, IInv, TypeOK, Hooks

\* initialize_connection of the tuple: either an Err ends the phase, or
\* every hook was called and its slot holds its future exactly when it
\* returned one.
LEMMA IInvInitialize ==
  ASSUME IInv, InitializeConnection
  PROVE  IInv'
<1> USE DEF IInv
<1>1. PICK r \in [Hooks -> {"err", "none", "some"}] :
        LET called == UpToFirstErr(r, Hooks)
            failed == \E i \in called : r[i] = "err"
            futs   == {i \in called : r[i] = "some"}
        IN  /\ invoked' = called
            /\ stage' = IF failed THEN "err"
                        ELSE IF futs = {} THEN "ok" ELSE "polling"
            /\ slot' = [i \in Hooks |-> IF ~failed /\ i \in futs THEN "some" ELSE "none"]
            /\ inner' = [i \in Hooks |-> CASE r[i] = "err" /\ i \in called -> "err"
                                           [] i \in futs -> "pending"
                                           [] OTHER -> "absent"]
  BY DEF InitializeConnection
<1> DEFINE called == UpToFirstErr(r, Hooks)
           failed == \E i \in called : r[i] = "err"
           futs   == {i \in called : r[i] = "some"}
<1>2. stage = "start" /\ polls' = polls /\ polls = [i \in Hooks |-> 0]
  BY DEF InitializeConnection
<1>3. called \subseteq Hooks
  BY DEF UpToFirstErr
<1>4. TypeOK'
  BY <1>1, <1>2, <1>3, InitAssumption DEF TypeOK
<1>5. CASE failed
  <2>1. PICK i \in called : r[i] = "err"
    BY <1>5
  <2>2. i \in invoked' /\ inner'[i] = "err"
    BY <1>1, <1>3, <2>1
  <2>3. QED
    BY <1>1, <1>4, <1>5, <2>2
<1>6. CASE ~failed
  <2>1. called = Hooks
    BY <1>6, UpToNoErr
  <2>2. \A i \in Hooks : inner'[i] = IF r[i] = "some" THEN "pending" ELSE "absent"
    BY <1>1, <1>6, <2>1
  <2>3. \A i \in Hooks : slot'[i] = IF r[i] = "some" THEN "some" ELSE "none"
    BY <1>1, <1>6, <2>1
  <2>4. stage' = IF futs = {} THEN "ok" ELSE "polling"
    BY <1>1, <1>6
  <2>5. SlotsTrackFutures'
    BY <2>2, <2>3 DEF SlotsTrackFutures
  <2>6. stage' = "ok" => \A i \in Hooks : slot'[i] = "none"
    BY <2>1, <2>3, <2>4
  <2>7. stage' = "polling" => \A i \in Hooks : slot'[i] = "some" => polls'[i] < MaxPolls
    BY <1>2, InitAssumption
  <2>8. stage' = "polling" => \E i \in Hooks : slot'[i] = "some"
    <3> SUFFICES ASSUME stage' = "polling" PROVE \E i \in Hooks : slot'[i] = "some"
      OBVIOUS
    <3>1. PICK i \in futs : TRUE
      BY <2>4
    <3>2. i \in Hooks /\ r[i] = "some"
      BY <1>3, <3>1
    <3>3. QED
      BY <2>3, <3>2
  <2>9. QED
    BY <1>1, <1>4, <2>1, <2>4, <2>5, <2>6, <2>7, <2>8
<1>7. QED
  BY <1>5, <1>6

\* One poll of the combined future: the slots still Some are polled in
\* order up to the first Err; a Ready(Ok) empties its slot.
LEMMA IInvPoll ==
  ASSUME IInv, Poll
  PROVE  IInv'
<1> USE DEF IInv
<1> DEFINE active == {i \in Hooks : slot[i] = "some"}
<1>1. PICK o \in Answers(active) :
        LET polled == UpToFirstErr(o, active)
            failed == \E i \in polled : o[i] = "err"
            pending == \E i \in polled : o[i] = "pending"
        IN  /\ Allowed(o)
            /\ slot' = [i \in Hooks |-> IF i \in polled /\ o[i] = "ok" THEN "none" ELSE slot[i]]
            /\ inner' = [i \in Hooks |-> IF i \in polled THEN o[i] ELSE inner[i]]
            /\ polls' = [i \in Hooks |-> IF i \in polled THEN polls[i] + 1 ELSE polls[i]]
            /\ stage' = IF failed THEN "err" ELSE IF pending THEN "polling" ELSE "ok"
  BY DEF Poll
<1> DEFINE polled == UpToFirstErr(o, active)
           failed == \E i \in polled : o[i] = "err"
           pending == \E i \in polled : o[i] = "pending"
<1>2. stage = "polling" /\ UNCHANGED invoked
  BY DEF Poll
<1>3. polled \subseteq active /\ o \in [active -> {"pending", "ok", "err"}]
  BY DEF UpToFirstErr, Answers
<1>4. \A i \in polled : polls[i] < MaxPolls
  BY <1>2, <1>3
<1>5. TypeOK'
  <2>1. polls' \in [Hooks -> 0 .. MaxPolls]
    BY <1>1, <1>3, <1>4, InitAssumption DEF TypeOK
  <2>2. inner' \in [Hooks -> {"absent", "pending", "ok", "err"}]
    BY <1>1, <1>3 DEF TypeOK
  <2>3. slot' \in [Hooks -> {"some", "none"}]
    BY <1>1 DEF TypeOK
  <2>4. QED
    BY <1>1, <1>2, <2>1, <2>2, <2>3 DEF TypeOK
<1>6. CASE failed
  <2>1. PICK i \in polled : o[i] = "err"
    BY <1>6
  <2>2. i \in Hooks /\ invoked = Hooks
    BY <1>2, <1>3
  <2>3. inner'[i] = "err"
    BY <1>1, <2>1, <2>2
  <2>4. QED
    BY <1>1, <1>2, <1>5, <1>6, <2>2, <2>3
<1>7. CASE ~failed
  <2>1. polled = active
    BY <1>7, UpToNoErr
  <2>2. \A i \in active : o[i] \in {"pending", "ok"}
    BY <1>3, <1>7, <2>1
  <2>3. \A i \in active :
          /\ slot'[i] = IF o[i] = "ok" THEN "none" ELSE "some"
          /\ inner'[i] = o[i]
          /\ polls'[i] = polls[i] + 1
    BY <1>1, <2>1
  <2>4. \A i \in Hooks \ active :
          /\ slot'[i] = "none" /\ slot[i] = "none"
          /\ inner'[i] = inner[i] /\ polls'[i] = polls[i]
    BY <1>1, <1>3, <2>1 DEF TypeOK
  <2>5. SlotsTrackFutures'
    <3> SUFFICES ASSUME NEW i \in Hooks
                 PROVE  /\ slot'[i] = "some" <=> inner'[i] = "pending"
                        /\ slot'[i] = "none" => inner'[i] \in {"absent", "ok"}
      BY DEF SlotsTrackFutures
    <3>1. CASE i \in active
      BY <2>2, <2>3, <3>1
    <3>2. CASE i \notin active
      BY <1>2, <2>4, <3>2 DEF SlotsTrackFutures
    <3>3. QED
      BY <3>1, <3>2
  <2>6. stage' = "polling" => \A i \in Hooks : slot'[i] = "some" => polls'[i] < MaxPolls
    <3> SUFFICES ASSUME NEW i \in Hooks, slot'[i] = "some" PROVE polls'[i] < MaxPolls
      OBVIOUS
    <3>1. i \in active /\ o[i] = "pending"
      BY <2>2, <2>3, <2>4
    <3>2. polls[i] + 1 < MaxPolls
      BY <1>1, <3>1 DEF Allowed, Answers
    <3>3. QED
      BY <2>3, <3>1, <3>2
  <2>7. stage' = "ok" => \A i \in Hooks : slot'[i] = "none"
    <3> SUFFICES ASSUME stage' = "ok", NEW i \in Hooks PROVE slot'[i] = "none"
      OBVIOUS
    <3>1. ~pending
      BY <1>1, <1>7
    <3>2. i \in active => o[i] = "ok"
      BY <2>1, <2>2, <3>1
    <3>3. QED
      BY <2>3, <2>4, <3>2
  <2>8. stage' = "polling" => \E i \in Hooks : slot'[i] = "some"
    <3> SUFFICES ASSUME stage' = "polling" PROVE \E i \in Hooks : slot'[i] = "some"
      OBVIOUS
    <3>1. PICK i \in polled : o[i] = "pending"
      BY <1>1, <1>7
    <3>2. i \in active
      BY <2>1, <3>1
    <3>3. QED
      BY <2>3, <3>1, <3>2
  <2>9. QED
    BY <1>1, <1>2, <1>5, <1>7, <2>5, <2>6, <2>7, <2>8
<1>8. QED
  BY <1>6, <1>7

LEMMA IInvStep == IInv /\ [Next]_vars => IInv'
<1> SUFFICES ASSUME IInv, [Next]_vars PROVE IInv'
  OBVIOUS
<1>1. CASE Finished \/ UNCHANGED vars
  BY <1>1 DEF Finished, vars, IInv, TypeOK, SlotsTrackFutures
<1>2. QED
  BY <1>1, IInvInitialize, IInvPoll DEF Next

\* The strengthening holds in every reachable state.
THEOREM InitializerInvariant == Spec => []IInv
BY IInvInit, IInvStep, PTL DEF Spec

\* For every number of initializers and every poll bound, the handshake
\* starts only after every initialize_connection was called and every
\* future it returned completed with Ok.
THEOREM InitializerSafety == Spec => []CompleteOnlyIfAllSucceeded
<1>1. IInv => CompleteOnlyIfAllSucceeded
  BY DEF IInv, SlotsTrackFutures, CompleteOnlyIfAllSucceeded
<1>2. QED
  BY <1>1, InitializerInvariant, PTL

\* A future that answered Ready is never polled again: only Poll counts
\* polls, it polls only slots still Some, and under IInv a Some slot's
\* future last answered Pending.
THEOREM PollOnlyPending == Spec => NoPollAfterReady
<1>1. IInv /\ [Next]_vars => \A i \in Hooks : polls'[i] # polls[i] => inner[i] = "pending"
  <2> SUFFICES ASSUME IInv, [Next]_vars, NEW i \in Hooks, polls'[i] # polls[i]
               PROVE  inner[i] = "pending"
    OBVIOUS
  <2>1. CASE InitializeConnection \/ Finished \/ UNCHANGED vars
    BY <2>1 DEF InitializeConnection, Finished, vars
  <2>2. CASE Poll
    <3> DEFINE active == {j \in Hooks : slot[j] = "some"}
    <3>1. PICK o \in Answers(active) :
            polls' = [j \in Hooks |-> IF j \in UpToFirstErr(o, active) THEN polls[j] + 1 ELSE polls[j]]
      BY <2>2 DEF Poll
    <3>2. i \in active
      BY <3>1 DEF UpToFirstErr
    <3>3. stage = "polling"
      BY <2>2 DEF Poll
    <3>4. QED
      BY <3>2, <3>3 DEF IInv, SlotsTrackFutures
  <2>3. QED
    BY <2>1, <2>2 DEF Next
<1>2. QED
  BY <1>1, InitializerInvariant, PTL DEF Spec, NoPollAfterReady

-----------------------------------------------------------------------------
(* Refinement: the combinator implements the join of its initializers.     *)

\* What each initializer has reported, as the join sees it: nothing before
\* it was called or while its future is pending, Err if it or its future
\* failed, Ok if it returned no future or its future completed with Ok.
Reported ==
  [i \in Hooks |-> IF i \notin invoked \/ inner[i] = "pending" THEN "unknown"
                   ELSE IF inner[i] = "err" THEN "err" ELSE "ok"]

\* Before initialize_connection and while the combined future is polled,
\* the phase is running.
JoinPhase == IF stage \in {"start", "polling"} THEN "running" ELSE stage

AJ == INSTANCE InitializerJoin WITH phase <- JoinPhase, result <- Reported

\* The initializer phase implements InitializerJoin: outcomes become known
\* only by initialize_connection or a poll, are never revised, and the
\* phase ends with Err exactly when one initializer failed and with Ok
\* exactly when all succeeded.
JoinSpec == AJ!Spec

\* In every reachable state the phase is the one the reported outcomes
\* determine: polling means some future is still pending and none failed,
\* ok means all succeeded, err means one failed.
LEMMA PhaseFromReported == IInv => JoinPhase = AJ!PhaseOf(Reported)
<1> SUFFICES ASSUME IInv PROVE JoinPhase = AJ!PhaseOf(Reported)
  OBVIOUS
<1> USE DEF IInv
<1>1. CASE stage = "start"
  <2>1. 1 \in Hooks /\ Reported[1] = "unknown"
    BY <1>1, InitAssumption DEF Hooks, Reported
  <2>2. \A i \in Hooks : Reported[i] = "unknown"
    BY <1>1 DEF Reported
  <2>3. QED
    BY <1>1, <2>1, <2>2 DEF JoinPhase, AJ!PhaseOf, AJ!Hooks, Hooks
<1>2. CASE stage = "polling"
  <2>1. \A i \in Hooks : Reported[i] # "err"
    BY <1>2 DEF Reported, SlotsTrackFutures, TypeOK
  <2>2. \E i \in Hooks : Reported[i] = "unknown"
    BY <1>2 DEF Reported, SlotsTrackFutures
  <2>3. QED
    BY <1>2, <2>1, <2>2 DEF JoinPhase, AJ!PhaseOf, AJ!Hooks, Hooks
<1>3. CASE stage = "ok"
  <2>1. \A i \in Hooks : Reported[i] = "ok"
    BY <1>3 DEF Reported, SlotsTrackFutures
  <2>2. QED
    BY <1>3, <2>1 DEF JoinPhase, AJ!PhaseOf, AJ!Hooks, Hooks
<1>4. CASE stage = "err"
  <2>1. \E i \in Hooks : Reported[i] = "err"
    BY <1>4 DEF Reported, TypeOK
  <2>2. QED
    BY <1>4, <2>1 DEF JoinPhase, AJ!PhaseOf, AJ!Hooks, Hooks
<1>5. QED
  BY <1>1, <1>2, <1>3, <1>4 DEF TypeOK

\* The join's phase agrees with the outcomes the join has seen.
JoinConsistent == JoinPhase = AJ!PhaseOf(Reported)

\* An outcome already reported stays as it is: initialize_connection runs
\* before any is known, and a poll reaches only slots still Some, whose
\* futures are pending.
LEMMA ReportedStable ==
  ASSUME IInv, [Next]_vars
  PROVE  \A i \in Hooks : Reported[i] # "unknown" => Reported'[i] = Reported[i]
<1> SUFFICES ASSUME NEW i \in Hooks, Reported[i] # "unknown"
             PROVE  Reported'[i] = Reported[i]
  OBVIOUS
<1>1. i \in invoked /\ inner[i] # "pending"
  BY DEF Reported
<1>2. CASE InitializeConnection
  BY <1>1, <1>2 DEF InitializeConnection, IInv
<1>3. CASE Poll
  <2> DEFINE active == {j \in Hooks : slot[j] = "some"}
  <2>1. stage = "polling" /\ invoked' = invoked
    BY <1>3 DEF Poll
  <2>2. slot[i] = "none"
    BY <1>1, <2>1 DEF IInv, SlotsTrackFutures, TypeOK
  <2>3. PICK o \in Answers(active) :
          inner' = [j \in Hooks |-> IF j \in UpToFirstErr(o, active) THEN o[j] ELSE inner[j]]
    BY <1>3 DEF Poll
  <2>4. i \notin UpToFirstErr(o, active)
    BY <2>2 DEF UpToFirstErr
  <2>5. QED
    BY <2>1, <2>3, <2>4 DEF Reported
<1>4. CASE Finished \/ UNCHANGED vars
  BY <1>4 DEF Finished, vars, Reported
<1>5. QED
  BY <1>2, <1>3, <1>4 DEF Next

\* Each step of the combinator is a Settle of the join, the initializers
\* whose outcome it revealed settling, or changes nothing the join sees.
LEMMA JoinStep ==
  ASSUME IInv, JoinConsistent', [Next]_vars
  PROVE  [AJ!Next]_AJ!jvars
<1>1. CASE Finished \/ UNCHANGED vars
  BY <1>1 DEF Finished, vars, AJ!jvars, JoinPhase, Reported
<1>2. CASE InitializeConnection \/ Poll
  <2>1. JoinPhase = "running"
    BY <1>2 DEF InitializeConnection, Poll, JoinPhase
  <2> DEFINE S == {i \in Hooks : Reported[i] = "unknown" /\ Reported'[i] # "unknown"}
             v == [i \in S |-> Reported'[i]]
  <2>2. Reported \in [Hooks -> {"unknown", "ok", "err"}]
        /\ Reported' \in [Hooks -> {"unknown", "ok", "err"}]
    BY DEF Reported
  <2>3. S \in SUBSET {i \in Hooks : Reported[i] = "unknown"}
    BY DEF S
  <2>4. v \in [S -> {"ok", "err"}]
    BY <2>2 DEF S, v
  <2>5. Reported' = [i \in Hooks |-> IF i \in S THEN v[i] ELSE Reported[i]]
    <3>1. \A i \in Hooks : Reported[i] # "unknown" => Reported'[i] = Reported[i]
      BY ReportedStable
    <3>2. QED
      BY <2>2, <3>1 DEF S, v
  <2>6. JoinPhase' = AJ!PhaseOf(Reported')
    BY DEF JoinConsistent
  <2>7. AJ!Settle
    BY <2>1, <2>3, <2>4, <2>5, <2>6 DEF AJ!Settle, AJ!Hooks, Hooks
  <2>8. QED
    BY <2>7 DEF AJ!Next
<1>3. QED
  BY <1>1, <1>2 DEF Next

LEMMA JoinInit == Init => AJ!Init
BY DEF Init, AJ!Init, AJ!Hooks, Hooks, JoinPhase, Reported

\* For every number of initializers and every poll bound, the combinator
\* implements the join: outcomes are revealed only by initialize_connection
\* and polls, never revised, and the phase ends with Err exactly when an
\* initializer failed and with Ok exactly when all of them succeeded.
THEOREM JoinRefinement == Spec => JoinSpec
<1>1. Spec => [](IInv /\ JoinConsistent)
  BY InitializerInvariant, PhaseFromReported, PTL DEF JoinConsistent
<1>2. QED
  BY <1>1, JoinInit, JoinStep, PTL DEF Spec, JoinSpec, AJ!Spec

=============================================================================


