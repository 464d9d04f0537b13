------------------------- MODULE JunitCompareProofs -------------------------
(***************************************************************************)
(* Proofs about the compare command of junit-snapshot, for every set of    *)
(* names and kinds and every bound on the suites and cases of a result.    *)
(*                                                                         *)
(* What key.split("::") computes for which names is left to TLC (the run  *)
(* of ReportExact checks that splittable names round-trip).  The theorem   *)
(* here takes the round trip as its hypothesis and proves that everything  *)
(* else compare does, the two maps, the last-wins insertion and the three  *)
(* counts, is exact.  From it, two keys are equal exactly when             *)
(* their tests are (KeyMatchesTest); with UniqueTests, every baseline test *)
(* has one entry, so baseline_test_map holds that entry's status           *)
(* (BaselineMapAt); and the missing keys correspond one to one with the    *)
(* baseline tests the current results lack (MissingCount).                 *)
(***************************************************************************)
EXTENDS JunitCompare, FiniteSetTheorems, TLAPS

\* The test, and the test with its status, at entry e of result r.
TestAt(r, e) == <<r[e[1]].name, r[e[1]].cases[e[2]].name>>
OutAt(r, e) == <<r[e[1]].name, r[e[1]].cases[e[2]].name, StatusAt(r, e)>>

\* Once compare has run, the report is the comparison of the two inputs.
JInv ==
  /\ baseline \in Results
  /\ current \in Results
  /\ ran => report = Compare(baseline, current)

-----------------------------------------------------------------------------
(* Entries and keys.                                                       *)

\* The positions of a bounded result are finitely many pairs of numbers.
LEMMA EntriesFinite ==
  ASSUME NEW r \in Results
  PROVE  /\ Entries(r) \subseteq (1 .. MaxSuites) \X (1 .. MaxCases)
         /\ IsFiniteSet(Entries(r))
<1>1. PICK k \in 0 .. MaxSuites : r \in [1 .. k -> Suites]
  BY DEF Results, BoundedSeq
<1>2. ASSUME NEW i \in 1 .. k PROVE DOMAIN r[i].cases \subseteq 1 .. MaxCases
  <2>1. r[i].cases \in BoundedSeq(TestCases, MaxCases)
    BY <1>1 DEF Suites
  <2>2. PICK m \in 0 .. MaxCases : r[i].cases \in [1 .. m -> TestCases]
    BY <2>1 DEF BoundedSeq
  <2>3. QED
    BY <2>2, CompareAssumption
<1>3. Entries(r) \subseteq (1 .. MaxSuites) \X (1 .. MaxCases)
  BY <1>1, <1>2, CompareAssumption DEF Entries
<1>4. IsFiniteSet((1 .. MaxSuites) \X (1 .. MaxCases))
  <2>1. IsFiniteSet(1 .. MaxSuites) /\ IsFiniteSet(1 .. MaxCases)
    BY CompareAssumption, FS_Interval
  <2>2. QED
    BY <2>1, FS_Product
<1>5. QED
  BY <1>3, <1>4, FS_Subset

\* A pair <<a, b>> is a test of r exactly when some suite of r named a
\* has a case named b: the search `exists` of compare is membership.
LEMMA TestsMember ==
  ASSUME NEW r, NEW a, NEW b
  PROVE  <<a, b>> \in Tests(r) <=>
           \E i \in DOMAIN r : r[i].name = a /\ \E j \in DOMAIN r[i].cases : r[i].cases[j].name = b
<1>1. ASSUME <<a, b>> \in Tests(r)
      PROVE  \E i \in DOMAIN r : r[i].name = a /\ \E j \in DOMAIN r[i].cases : r[i].cases[j].name = b
  <2>1. PICK e \in Entries(r) : <<a, b>> = <<r[e[1]].name, r[e[1]].cases[e[2]].name>>
    BY <1>1 DEF Tests
  <2>2. PICK i \in DOMAIN r : \E j \in DOMAIN r[i].cases : e = <<i, j>>
    BY DEF Entries
  <2>3. PICK j \in DOMAIN r[i].cases : e = <<i, j>>
    BY <2>2
  <2>4. r[i].name = a /\ r[i].cases[j].name = b
    BY <2>1, <2>3
  <2>5. QED
    BY <2>3, <2>4
<1>2. ASSUME NEW i \in DOMAIN r, r[i].name = a,
             NEW j \in DOMAIN r[i].cases, r[i].cases[j].name = b
      PROVE  <<a, b>> \in Tests(r)
  <2>1. <<i, j>> \in Entries(r)
    BY DEF Entries
  <2>2. <<a, b>> = <<r[<<i, j>>[1]].name, r[<<i, j>>[1]].cases[<<i, j>>[2]].name>>
    BY <1>2
  <2>3. QED
    BY <2>1, <2>2 DEF Tests
<1>3. QED
  BY <1>1, <1>2

\* Keys that round-trip are equal exactly when their tests are.
LEMMA KeyMatchesTest ==
  ASSUME NEW r1, NEW r2, KeysRoundTrip(r1), KeysRoundTrip(r2),
         NEW e1 \in Entries(r1), NEW e2 \in Entries(r2)
  PROVE  KeyAt(r1, e1) = KeyAt(r2, e2) <=> TestAt(r1, e1) = TestAt(r2, e2)
<1>1. SplitSep[KeyAt(r1, e1)] = TestAt(r1, e1) /\ SplitSep[KeyAt(r2, e2)] = TestAt(r2, e2)
  BY DEF KeysRoundTrip, TestAt
<1>2. TestAt(r1, e1) = TestAt(r2, e2) => KeyAt(r1, e1) = KeyAt(r2, e2)
  BY DEF TestAt, KeyAt, Key
<1>3. QED
  BY <1>1, <1>2

\* Without duplicate tests, a test has one entry.
LEMMA UniqueEntry ==
  ASSUME NEW r \in Results, UniqueTests(r),
         NEW e1 \in Entries(r), NEW e2 \in Entries(r), TestAt(r, e1) = TestAt(r, e2)
  PROVE  e1 = e2
<1> DEFINE f == [e \in Entries(r) |-> TestAt(r, e)]
<1>1. f \in Surjection(Entries(r), Tests(r))
  BY DEF Surjection, Tests, TestAt
<1>2. Cardinality(Tests(r)) = Cardinality(Entries(r))
  BY DEF UniqueTests
<1>3. f \in Injection(Entries(r), Tests(r))
  BY <1>1, <1>2, EntriesFinite, FS_Surjection
<1>4. QED
  BY <1>3 DEF Injection, IsInjective

\* With no duplicates and round-tripping keys, baseline_test_map holds,
\* under each baseline key, the status of that key's one entry.
LEMMA BaselineMapAt ==
  ASSUME NEW r \in Results, KeysRoundTrip(r), UniqueTests(r), NEW e \in Entries(r)
  PROVE  /\ KeyAt(r, e) \in DOMAIN BaselineMap(r)
         /\ BaselineMap(r)[KeyAt(r, e)] = StatusAt(r, e)
<1> DEFINE k == KeyAt(r, e)
           P(x) == /\ KeyAt(r, x) = k
                   /\ \A f \in Entries(r) : KeyAt(r, f) = k => ~Before(x, f)
<1>1. \A f \in Entries(r) : KeyAt(r, f) = k => f = e
  BY KeyMatchesTest, UniqueEntry
<1>2. ~Before(e, e)
  <2>1. e[1] \in Nat /\ e[2] \in Nat
    BY EntriesFinite
  <2>2. QED
    BY <2>1 DEF Before
<1>3. P(e)
  BY <1>1, <1>2
<1>4. P(CHOOSE x \in Entries(r) : P(x)) /\ (CHOOSE x \in Entries(r) : P(x)) \in Entries(r)
  BY <1>3
<1>5. (CHOOSE x \in Entries(r) : P(x)) = e
  BY <1>1, <1>4
<1>6. QED
  BY <1>5 DEF BaselineMap

-----------------------------------------------------------------------------
(* The comparison.                                                         *)

\* For round-tripping keys and a baseline without duplicates, compare
\* reports a difference exactly when the two results disagree on some
\* test's outcome, and counts as missing exactly the baseline tests that
\* the current results lack.
LEMMA CompareExact ==
  ASSUME NEW base \in Results, NEW cur \in Results,
         KeysRoundTrip(base), KeysRoundTrip(cur), UniqueTests(base)
  PROVE  /\ Compare(base, cur).differs <=> Outcomes(base) # Outcomes(cur)
         /\ Compare(base, cur).missing = Cardinality(Tests(base) \ Tests(cur))
<1> DEFINE bmap == BaselineMap(base)
           found(e) == KeyAt(cur, e) \in DOMAIN bmap
           different == {e \in Entries(cur) : found(e) /\ bmap[KeyAt(cur, e)] # StatusAt(cur, e)}
           new == {e \in Entries(cur) : ~found(e)}
           exists(p) == \E i \in DOMAIN cur :
                          cur[i].name = p[1] /\ \E j \in DOMAIN cur[i].cases : cur[i].cases[j].name = p[2]
           missing == {k \in DOMAIN bmap : Len(SplitSep[k]) = 2 /\ ~exists(SplitSep[k])}
           B == Entries(base)
           C == Entries(cur)
<1>1. /\ Compare(base, cur).differs = (different \cup new \cup missing # {})
      /\ Compare(base, cur).missing = Cardinality(missing)
  BY DEF Compare, bmap, found, different, new, exists, missing
<1>2. DOMAIN bmap = {KeyAt(base, e) : e \in B}
  BY DEF BaselineMap, bmap, B
<1>3. ASSUME NEW e \in B
      PROVE  KeyAt(base, e) \in missing <=> TestAt(base, e) \notin Tests(cur)
  <2>1. SplitSep[KeyAt(base, e)] = TestAt(base, e)
    BY DEF KeysRoundTrip, TestAt, B
  <2>2. exists(TestAt(base, e)) <=> TestAt(base, e) \in Tests(cur)
    BY TestsMember DEF exists, TestAt
  <2>3. KeyAt(base, e) \in DOMAIN bmap
    BY <1>2
  <2>4. QED
    BY <2>1, <2>2, <2>3 DEF missing, TestAt
<1>4. ASSUME NEW f \in C
      PROVE  found(f) <=> TestAt(cur, f) \in Tests(base)
  <2>1. found(f) <=> \E e \in B : KeyAt(cur, f) = KeyAt(base, e)
    BY <1>2 DEF found
  <2>2. (\E e \in B : KeyAt(cur, f) = KeyAt(base, e)) <=> \E e \in B : TestAt(cur, f) = TestAt(base, e)
    BY KeyMatchesTest DEF B, C
  <2>3. QED
    BY <2>1, <2>2 DEF Tests, TestAt, B
<1>5. ASSUME NEW f \in C, NEW e \in B, TestAt(cur, f) = TestAt(base, e)
      PROVE  bmap[KeyAt(cur, f)] = StatusAt(base, e)
  <2>1. KeyAt(cur, f) = KeyAt(base, e)
    BY <1>5, KeyMatchesTest DEF B, C
  <2>2. QED
    BY <2>1, BaselineMapAt DEF bmap, B
<1>6. Cardinality(missing) = Cardinality(Tests(base) \ Tests(cur))
  <2> DEFINE T == Tests(base) \ Tests(cur)
             g == [k \in missing |-> SplitSep[k]]
  <2>1. ASSUME NEW k \in missing
        PROVE  \E e \in B : k = KeyAt(base, e) /\ g[k] = TestAt(base, e) /\ TestAt(base, e) \in T
    <3>1. PICK e \in B : k = KeyAt(base, e)
      BY <1>2 DEF missing
    <3>2. g[k] = TestAt(base, e)
      BY <3>1 DEF g, KeysRoundTrip, TestAt, B
    <3>3. TestAt(base, e) \in T
      BY <1>3, <3>1 DEF T, Tests, TestAt, B
    <3>4. QED
      BY <3>1, <3>2, <3>3
  <2>2. g \in Injection(missing, T)
    <3>1. g \in [missing -> T]
      BY <2>1 DEF g
    <3>2. ASSUME NEW k1 \in missing, NEW k2 \in missing, g[k1] = g[k2] PROVE k1 = k2
      <4>1. PICK e1 \in B : k1 = KeyAt(base, e1) /\ g[k1] = TestAt(base, e1)
        BY <2>1
      <4>2. PICK e2 \in B : k2 = KeyAt(base, e2) /\ g[k2] = TestAt(base, e2)
        BY <2>1
      <4>3. QED
        BY <3>2, <4>1, <4>2, KeyMatchesTest DEF B
    <3>3. QED
      BY <3>1, <3>2 DEF Injection, IsInjective
  <2>3. g \in Surjection(missing, T)
    <3>1. ASSUME NEW p \in T PROVE \E k \in missing : g[k] = p
      <4>1. PICK e \in B : p = TestAt(base, e)
        BY DEF T, Tests, TestAt, B
      <4>2. KeyAt(base, e) \in missing
        BY <1>3, <4>1 DEF T
      <4>3. g[KeyAt(base, e)] = p
        BY <4>1, <4>2 DEF g, KeysRoundTrip, TestAt, B
      <4>4. QED
        BY <4>2, <4>3
    <3>2. QED
      BY <2>2, <3>1 DEF Injection, Surjection
  <2>4. IsFiniteSet(missing)
    <3> DEFINE h == [e \in B |-> KeyAt(base, e)]
    <3>1. h \in Surjection(B, DOMAIN bmap)
      BY <1>2 DEF h, Surjection
    <3>2. IsFiniteSet(DOMAIN bmap)
      BY <3>1, EntriesFinite, FS_Surjection DEF B
    <3>3. QED
      BY <3>2, FS_Subset DEF missing
  <2>5. QED
    BY <2>2, <2>3, <2>4, FS_Bijection DEF ExistsBijection, Bijection, T
<1>7. Outcomes(base) = {OutAt(base, e) : e \in B} /\ Outcomes(cur) = {OutAt(cur, f) : f \in C}
  BY DEF Outcomes, OutAt, B, C
<1>8. ASSUME different \cup new \cup missing = {} PROVE Outcomes(base) = Outcomes(cur)
  <2>1. ASSUME NEW e \in B PROVE \E f \in C : OutAt(cur, f) = OutAt(base, e)
    <3>1. TestAt(base, e) \in Tests(cur)
      BY <1>3, <1>8
    <3>2. PICK f \in C : TestAt(cur, f) = TestAt(base, e)
      BY <3>1 DEF Tests, TestAt, C
    <3>3. found(f)
      BY <1>4, <3>2 DEF Tests, TestAt, B
    <3>4. bmap[KeyAt(cur, f)] = StatusAt(cur, f)
      BY <1>8, <3>3 DEF different
    <3>5. bmap[KeyAt(cur, f)] = StatusAt(base, e)
      BY <1>5, <3>2
    <3>6. QED
      BY <3>2, <3>4, <3>5 DEF OutAt, TestAt
  <2>2. ASSUME NEW f \in C PROVE \E e \in B : OutAt(base, e) = OutAt(cur, f)
    <3>1. found(f)
      BY <1>8 DEF new
    <3>2. PICK e \in B : TestAt(cur, f) = TestAt(base, e)
      BY <1>4, <3>1 DEF Tests, TestAt, B
    <3>3. bmap[KeyAt(cur, f)] = StatusAt(cur, f)
      BY <1>8, <3>1 DEF different
    <3>4. bmap[KeyAt(cur, f)] = StatusAt(base, e)
      BY <1>5, <3>2
    <3>5. QED
      BY <3>2, <3>3, <3>4 DEF OutAt, TestAt
  <2>3. QED
    BY <1>7, <2>1, <2>2
<1>9. ASSUME different \cup new \cup missing # {} PROVE Outcomes(base) # Outcomes(cur)
  <2>1. CASE new # {}
    <3>1. PICK f \in new : TRUE
      BY <2>1
    <3>2. TestAt(cur, f) \notin Tests(base)
      BY <1>4, <3>1 DEF new, C
    <3>3. \A e \in B : OutAt(base, e) # OutAt(cur, f)
      BY <3>2 DEF Tests, TestAt, OutAt, B
    <3>4. QED
      BY <1>7, <3>1, <3>3 DEF new, C
  <2>2. CASE different # {}
    <3>1. PICK f \in different : TRUE
      BY <2>2
    <3>2. PICK e \in B : TestAt(cur, f) = TestAt(base, e)
      BY <1>4, <3>1 DEF different, Tests, TestAt, B, C
    <3>3. StatusAt(base, e) # StatusAt(cur, f)
      BY <1>5, <3>1, <3>2 DEF different, C
    <3>4. ASSUME NEW e2 \in B, OutAt(base, e2) = OutAt(cur, f) PROVE FALSE
      <4>1. TestAt(base, e2) = TestAt(base, e) /\ StatusAt(base, e2) = StatusAt(cur, f)
        BY <3>2, <3>4 DEF OutAt, TestAt
      <4>2. e2 = e
        BY <4>1, UniqueEntry DEF B
      <4>3. QED
        BY <3>3, <4>1, <4>2
    <3>5. QED
      BY <1>7, <3>1, <3>4 DEF different, C
  <2>3. CASE missing # {}
    <3>1. PICK k \in missing : TRUE
      BY <2>3
    <3>2. PICK e \in B : k = KeyAt(base, e)
      BY <1>2, <3>1 DEF missing
    <3>3. TestAt(base, e) \notin Tests(cur)
      BY <1>3, <3>1, <3>2
    <3>4. \A f \in C : OutAt(cur, f) # OutAt(base, e)
      BY <3>3 DEF Tests, TestAt, OutAt, C
    <3>5. QED
      BY <1>7, <3>4
  <2>4. QED
    BY <1>9, <2>1, <2>2, <2>3
<1>10. QED
  BY <1>1, <1>6, <1>8, <1>9
-----------------------------------------------------------------------------
(* The command.                                                            *)

LEMMA JInvInit == Init => JInv
BY DEF Init, JInv

LEMMA JInvStep == JInv /\ [Next]_vars => JInv'
BY DEF JInv, Next, RunCompare, vars

\* compare's report is exact whenever the baseline has no duplicate test
\* and every key it formats splits back into its suite and test: the only
\* way compare misjudges a baseline without duplicates is through the key
\* encoding, for every set of names and every size of the two JUnit files.
ExactWhenKeysRoundTrip ==
  ran /\ KeysRoundTrip(baseline) /\ KeysRoundTrip(current) /\ UniqueTests(baseline)
    => ReportMatchesReference

\* The maps, the last-wins insertion and the counts of compare are exact
\* for every pair of results whose keys round-trip and whose baseline has
\* no duplicate test.
THEOREM CompareExactOnRoundTrip == Spec => []ExactWhenKeysRoundTrip
<1>1. JInv => ExactWhenKeysRoundTrip
  BY CompareExact DEF JInv, ExactWhenKeysRoundTrip, ReportMatchesReference
<1>2. QED
  BY JInvInit, JInvStep, <1>1, PTL DEF Spec

=============================================================================
