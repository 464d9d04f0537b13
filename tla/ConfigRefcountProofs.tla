------------------------ MODULE ConfigRefcountProofs ------------------------
(***************************************************************************)
(* Proofs about ConfigRefcount, for every finite set of Config values and  *)
(* every usize width larger than it.                                       *)
(*                                                                         *)
(* NoUseAfterFree and FreedAtMostOnce are not inductive:                 *)
(* a Clone step is safe only because the count equals the number of       *)
(* holders, so it cannot be 0 while a live value exists.  RefInv adds that *)
(* equation and what it implies about who may still be inside Drop.        *)
(***************************************************************************)
EXTENDS ConfigRefcount, FiniteSetTheorems, TLAPS

\* The strengthening of the safety properties that every step preserves.
RefInv ==
  /\ TypeOK
  \* the atomic counter counts exactly the Builder's and the live Configs
  /\ refcount = Cardinality(Holders)
  \* the Context box and the s2n_config are allocated and freed together
  /\ ctx = cfg
  /\ frees = IF cfg = "freed" THEN 1 ELSE 0
  \* before Builder::new no Config value exists
  /\ cfg = "unallocated" => \A h \in Handles : hstate[h] = "none"
  \* a holder or a thread about to free means the memory is still there
  /\ Holders \cup LastReleasers # {} => cfg = "alive"
  \* only the thread whose fetch_sub saw 1 may free, and then nobody holds
  /\ LastReleasers # {} => Holders = {}
  /\ \A h, g \in LastReleasers : h = g
  \* a Builder's Config is the only holder
  /\ \A b \in Handles : hstate[b] = "builder" => Holders = {b}

-----------------------------------------------------------------------------
(* Arithmetic on the wrapping counter, for counts below the modulus.       *)

LEMMA DecrementNoWrap ==
  ASSUME NEW n \in Nat, NEW m \in Nat, 1 <= n, n < m
  PROVE  (n + m - 1) % m = n - 1
BY SMT

LEMMA IncrementNoWrap ==
  ASSUME NEW n \in Nat, NEW m \in Nat, n + 1 < m
  PROVE  (n + 1) % m = n + 1
BY SMT

\* The usize modulus exceeds the number of Config values.
LEMMA UsizePositive ==
  /\ Cardinality(Handles) \in Nat
  /\ UsizeModulus \in Nat \ {0, 1}
<1>1. Cardinality(Handles) \in Nat /\ Cardinality(Handles) # 0
  BY HandlesAssumption, FS_CardinalityType, FS_EmptySet
<1>2. QED
  BY <1>1, UsizeAssumption

\* Holders is a finite set no larger than Handles.
LEMMA HoldersFinite ==
  ASSUME TypeOK
  PROVE  /\ IsFiniteSet(Holders)
         /\ Cardinality(Holders) <= Cardinality(Handles)
BY HandlesAssumption, FS_Subset DEF Holders

-----------------------------------------------------------------------------

\* Every step keeps the variables in their types.
LEMMA TypeStep == TypeOK /\ [Next]_vars => TypeOK'
<1> SUFFICES ASSUME TypeOK, [Next]_vars PROVE TypeOK'
  OBVIOUS
<1>1. ASSUME NEW b \in Handles, New(b) PROVE TypeOK'
  BY <1>1, UsizePositive DEF New, TypeOK, HandleStates, Memory
<1>2. ASSUME NEW h \in Handles, DropStart(h) PROVE TypeOK'
  BY <1>2, UsizePositive DEF DropStart, TypeOK, HandleStates
<1>3. ASSUME NEW b \in Handles, Build(b) PROVE TypeOK'
  BY <1>3, UsizePositive DEF Build, DropStart, TypeOK, HandleStates
<1>4. ASSUME NEW h \in Handles, NEW g \in Handles, Clone(h, g) PROVE TypeOK'
  BY <1>4, UsizePositive DEF Clone, TypeOK, HandleStates
<1>5. ASSUME NEW h \in Handles, DropReturn(h) PROVE TypeOK'
  BY <1>5 DEF DropReturn, TypeOK, HandleStates
<1>6. ASSUME NEW h \in Handles, DropFree(h) PROVE TypeOK'
  BY <1>6 DEF DropFree, TypeOK, HandleStates, Memory
<1>7. CASE Terminated \/ UNCHANGED vars
  BY <1>7 DEF Terminated, vars, TypeOK
<1>8. QED
  BY <1>1, <1>2, <1>3, <1>4, <1>5, <1>6, <1>7 DEF Next

\* Type correctness of every reachable state.
THEOREM TypeCorrect == Spec => []TypeOK
<1>1. Init => TypeOK
  BY UsizePositive DEF Init, TypeOK, HandleStates, Memory
<1>2. QED
  BY <1>1, TypeStep, PTL DEF Spec

-----------------------------------------------------------------------------
(* The inductive invariant.                                                *)

\* A finite set with cardinality 1 that contains h is {h}.
LEMMA CardOneIsSingleton ==
  ASSUME NEW S, NEW h \in S, IsFiniteSet(S), Cardinality(S) = 1
  PROVE  S = {h}
<1>1. IsFiniteSet(S \ {h}) /\ Cardinality(S \ {h}) = 0
  BY FS_RemoveElement
<1>2. S \ {h} = {}
  BY <1>1, FS_EmptySet
<1>3. QED
  BY <1>2

LEMMA RefInvInit == Init => RefInv
<1> SUFFICES ASSUME Init PROVE RefInv
  OBVIOUS
<1>1. TypeOK
  BY UsizePositive DEF Init, TypeOK, HandleStates, Memory
<1>2. Holders = {} /\ LastReleasers = {}
  BY DEF Init, Holders, LastReleasers
<1>3. QED
  BY <1>1, <1>2, FS_EmptySet DEF Init, RefInv

\* Builder::new makes b the only holder, with count 1.
LEMMA RefInvNew ==
  ASSUME RefInv, NEW b \in Handles, New(b)
  PROVE  RefInv'
<1> USE DEF RefInv
<1>1. \A h \in Handles : hstate[h] = "none"
  BY DEF New
<1>2. Holders' = {b} /\ LastReleasers' = {}
  BY <1>1 DEF New, Holders, LastReleasers, TypeOK
<1>3. Cardinality(Holders') = 1
  BY <1>2, FS_Singleton
<1>4. TypeOK'
  BY TypeStep DEF Next
<1>5. frees' = 0
  BY DEF New
<1>6. \A g \in Handles : hstate'[g] = "builder" => g = b
  BY <1>1 DEF New, TypeOK
<1>7. QED
  BY <1>2, <1>3, <1>4, <1>5, <1>6 DEF New

\* The fetch_sub of Drop on a holder h.
LEMMA RefInvDropStart ==
  ASSUME RefInv, NEW h \in Handles, DropStart(h)
  PROVE  RefInv'
<1> USE DEF RefInv
<1>1. h \in Holders
  BY DEF DropStart, Holders
<1>2. IsFiniteSet(Holders) /\ Cardinality(Holders) <= Cardinality(Handles)
  BY HoldersFinite
<1>3. LastReleasers = {} /\ cfg = "alive"
  BY <1>1
<1>4. refcount \in 1 .. Cardinality(Handles)
  BY <1>1, <1>2, FS_EmptySet, FS_CardinalityType
<1>5. refcount' = refcount - 1
  BY <1>4, UsizePositive, UsizeAssumption, DecrementNoWrap DEF DropStart
<1>6. Holders' = Holders \ {h}
  BY DEF DropStart, Holders, TypeOK
<1>7. refcount' = Cardinality(Holders')
  BY <1>1, <1>2, <1>5, <1>6, FS_RemoveElement
<1>8. TypeOK'
  BY TypeStep DEF Next
<1>9. CASE refcount = 1
  <2>1. Holders = {h}
    BY <1>1, <1>2, <1>9, CardOneIsSingleton
  <2>2. Holders' = {} /\ LastReleasers' = {h}
    BY <1>3, <1>6, <1>9, <2>1 DEF DropStart, LastReleasers, TypeOK
  <2>3. \A b \in Handles : hstate'[b] # "builder"
    BY <2>1 DEF DropStart, Holders, TypeOK
  <2>4. QED
    BY <1>3, <1>7, <1>8, <2>2, <2>3 DEF DropStart
<1>10. CASE refcount # 1
  <2>1. LastReleasers' = {}
    BY <1>3, <1>10 DEF DropStart, LastReleasers, TypeOK
  <2>2. \A b \in Handles : hstate'[b] = "builder" => Holders' = {b}
    BY <1>1, <1>6 DEF DropStart, Holders, TypeOK
  <2>3. QED
    BY <1>3, <1>7, <1>8, <2>1, <2>2 DEF DropStart
<1>11. QED
  BY <1>9, <1>10

\* Builder::build, on success and on error.
LEMMA RefInvBuild ==
  ASSUME RefInv, NEW b \in Handles, Build(b)
  PROVE  RefInv'
<1> USE DEF RefInv
<1>1. CASE DropStart(b)
  BY <1>1, RefInvDropStart
<1>2. CASE hstate' = [hstate EXCEPT ![b] = "live"]
           /\ UNCHANGED <<obs, refcount, ctx, cfg, frees>>
  <2>1. Holders = {b}
    BY DEF Build
  <2>2. Holders' = Holders /\ LastReleasers' = LastReleasers
    BY <1>2, <2>1 DEF Build, Holders, LastReleasers, TypeOK
  <2>3. \A g \in Handles : hstate'[g] # "builder"
    BY <1>2, <2>1 DEF Holders, TypeOK
  <2>4. TypeOK'
    BY TypeStep DEF Next
  <2>5. cfg = "alive" /\ cfg' = cfg /\ refcount' = refcount /\ ctx' = ctx /\ frees' = frees
    BY <1>2, <2>1
  <2>6. QED
    BY <2>2, <2>3, <2>4, <2>5
<1>3. QED
  BY <1>1, <1>2 DEF Build

\* Config::clone from a live h into an unused g.
LEMMA RefInvClone ==
  ASSUME RefInv, NEW h \in Handles, NEW g \in Handles, Clone(h, g)
  PROVE  RefInv'
<1> USE DEF RefInv
<1>1. h \in Holders /\ g \notin Holders
  BY DEF Clone, Holders
<1>2. LastReleasers = {} /\ cfg = "alive"
  BY <1>1
<1>3. \A b \in Handles : hstate[b] # "builder"
  BY <1>1 DEF Clone
<1>4. Holders' = Holders \cup {g} /\ LastReleasers' = {}
  BY <1>2 DEF Clone, Holders, LastReleasers, TypeOK
<1>5. IsFiniteSet(Holders) /\ Cardinality(Holders) <= Cardinality(Handles)
  BY HoldersFinite
<1>6. IsFiniteSet(Holders') /\ Cardinality(Holders') = Cardinality(Holders) + 1
  BY <1>1, <1>4, <1>5, FS_AddElement
<1>7. Cardinality(Holders') <= Cardinality(Handles)
  <2>1. Holders' \subseteq Handles
    BY <1>4 DEF Holders
  <2>2. QED
    BY <2>1, HandlesAssumption, FS_Subset
<1>8. refcount' = Cardinality(Holders')
  <2>1. refcount \in Nat /\ refcount + 1 < UsizeModulus
    BY <1>5, <1>6, <1>7, UsizePositive, UsizeAssumption, FS_CardinalityType
  <2>2. (refcount + 1) % UsizeModulus = refcount + 1
    BY <2>1, UsizePositive, IncrementNoWrap
  <2>3. QED
    BY <1>6, <2>2 DEF Clone
<1>9. \A b \in Handles : hstate'[b] # "builder"
  BY <1>3 DEF Clone, TypeOK
<1>10. TypeOK'
  BY TypeStep DEF Next
<1>11. QED
  BY <1>2, <1>4, <1>8, <1>9, <1>10 DEF Clone

\* The early return of Drop.
LEMMA RefInvDropReturn ==
  ASSUME RefInv, NEW h \in Handles, DropReturn(h)
  PROVE  RefInv'
<1> USE DEF RefInv
<1>1. Holders' = Holders /\ LastReleasers' = LastReleasers
  BY DEF DropReturn, Holders, LastReleasers, TypeOK
<1>2. \A b \in Handles : hstate'[b] = "builder" => hstate[b] = "builder"
  BY DEF DropReturn, TypeOK
<1>3. TypeOK'
  BY TypeStep DEF Next
<1>4. QED
  BY <1>1, <1>2, <1>3 DEF DropReturn

\* The last Drop frees the Context and the s2n_config.
LEMMA RefInvDropFree ==
  ASSUME RefInv, NEW h \in Handles, DropFree(h)
  PROVE  RefInv'
<1> USE DEF RefInv
<1>1. h \in LastReleasers
  BY DEF DropFree, LastReleasers
<1>2. Holders = {} /\ LastReleasers = {h} /\ cfg = "alive" /\ frees = 0
  BY <1>1
<1>3. Holders' = {} /\ LastReleasers' = {}
  BY <1>2 DEF DropFree, Holders, LastReleasers, TypeOK
<1>4. \A b \in Handles : hstate'[b] # "builder"
  BY <1>2 DEF DropFree, Holders, TypeOK
<1>5. TypeOK'
  BY TypeStep DEF Next
<1>6. QED
  BY <1>2, <1>3, <1>4, <1>5 DEF DropFree

LEMMA RefInvStep == RefInv /\ [Next]_vars => RefInv'
<1> SUFFICES ASSUME RefInv, [Next]_vars PROVE RefInv'
  OBVIOUS
<1>1. CASE Terminated \/ UNCHANGED vars
  BY <1>1 DEF Terminated, vars, RefInv, Holders, LastReleasers, TypeOK
<1>2. QED
  BY <1>1, RefInvNew, RefInvBuild, RefInvClone, RefInvDropStart,
     RefInvDropReturn, RefInvDropFree DEF Next

\* RefInv holds in every reachable state.
THEOREM RefInvariant == Spec => []RefInv
BY RefInvInit, RefInvStep, PTL DEF Spec

\* The Config life cycle is memory safe for every number of Config values:
\* no Config value that can still reach the Context finds it freed, the
\* config is freed at most once.
THEOREM RefcountSafety ==
  Spec => [](NoUseAfterFree /\ FreedAtMostOnce)
<1>1. RefInv => NoUseAfterFree /\ FreedAtMostOnce
  <2> SUFFICES ASSUME RefInv
               PROVE  NoUseAfterFree /\ FreedAtMostOnce
    OBVIOUS
  <2>1. NoUseAfterFree
    BY DEF RefInv, NoUseAfterFree
  <2>2. FreedAtMostOnce
    BY DEF RefInv, FreedAtMostOnce
  <2>3. QED
    BY <2>1, <2>2
<1>2. QED
  BY <1>1, RefInvariant, PTL

-----------------------------------------------------------------------------
(* Refinement: the counter implements the abstract shared handle.          *)

\* The owners of the abstract handle are the Builder's and the live Config
\* values; the abstract resource is the s2n_config.
AH == INSTANCE SharedHandle WITH owners <- Holders, resource <- cfg

\* The Config life cycle implements SharedHandle: every clone, drop and free
\* of the code is a share, a release, a free or nothing of the abstract
\* handle, and an unowned config is eventually freed.
AbstractSpec == AH!Spec

LEMMA RefineInit == Init => AH!Init
BY DEF Init, AH!Init, Holders

\* Each step of the code is a step of SharedHandle or leaves its state alone.
LEMMA RefineStep == RefInv /\ [Next]_vars => [AH!Next]_AH!avars
<1> SUFFICES ASSUME RefInv, [Next]_vars PROVE [AH!Next]_AH!avars
  OBVIOUS
<1> USE DEF RefInv, TypeOK
<1>1. ASSUME NEW b \in Handles, New(b) PROVE AH!Create(b)
  <2>1. \A h \in Handles : hstate[h] = "none"
    BY <1>1 DEF New
  <2>2. Holders' = {b}
    BY <1>1, <2>1 DEF New, Holders
  <2>3. QED
    BY <1>1, <2>2 DEF New, AH!Create
<1>2. ASSUME NEW h \in Handles, DropStart(h) PROVE AH!Release(h)
  BY <1>2 DEF DropStart, AH!Release, Holders
<1>3. ASSUME NEW b \in Handles, Build(b) PROVE [AH!Next]_AH!avars
  <2>1. CASE DropStart(b)
    BY <2>1, <1>2 DEF AH!Next
  <2>2. CASE hstate' = [hstate EXCEPT ![b] = "live"]
             /\ UNCHANGED <<obs, refcount, ctx, cfg, frees>>
    <3>1. Holders' = Holders
      BY <1>3, <2>2 DEF Build, Holders
    <3>2. QED
      BY <2>2, <3>1 DEF AH!avars
  <2>3. QED
    BY <1>3, <2>1, <2>2 DEF Build
<1>4. ASSUME NEW h \in Handles, NEW g \in Handles, Clone(h, g) PROVE AH!Share(h, g)
  BY <1>4 DEF Clone, AH!Share, Holders
<1>5. ASSUME NEW h \in Handles, DropReturn(h) PROVE UNCHANGED AH!avars
  BY <1>5 DEF DropReturn, AH!avars, Holders
<1>6. ASSUME NEW h \in Handles, DropFree(h) PROVE AH!Free
  <2>1. h \in LastReleasers
    BY <1>6 DEF DropFree, LastReleasers
  <2>2. Holders = {} /\ cfg = "alive"
    BY <2>1
  <2>3. Holders' = Holders
    BY <1>6 DEF DropFree, Holders
  <2>4. QED
    BY <1>6, <2>2, <2>3 DEF DropFree, AH!Free
<1>7. CASE Terminated \/ UNCHANGED vars
  BY <1>7 DEF Terminated, vars, AH!avars, Holders
<1>8. QED
  BY <1>1, <1>2, <1>3, <1>4, <1>5, <1>6, <1>7 DEF Next, AH!Next

\* The safety part of the refinement, for every number of Config values:
\* the code never frees an owned config, never revives a freed one, and
\* changes ownership only as SharedHandle allows.
THEOREM Refinement == Spec => AH!SafeSpec
BY RefineInit, RefineStep, RefInvariant, PTL DEF Spec, AH!SafeSpec


\* s2n_config_free runs at most once, whichever threads clone and drop the
\* Config values and in whatever order their fetch_sub calls land.
THEOREM FreedOnce == Spec => []FreedAtMostOnce
BY RefcountSafety, PTL

=============================================================================
