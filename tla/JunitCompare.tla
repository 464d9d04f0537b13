----------------------------- MODULE JunitCompare -----------------------------
(***************************************************************************)
(* The `compare` command of tools/junit-snapshot (src/main.rs): a current  *)
(* JUnit result is compared with a baseline snapshot, test by test, and    *)
(* the command fails ("Test results differ from baseline") when anything   *)
(* differs.                                                                *)
(*                                                                         *)
(* Test names are strings, and the comparison joins suite and test name    *)
(* into a key with format!("{}::{}") and later splits keys on "::", so a   *)
(* name is a sequence of characters here and both conversions are modelled *)
(* by what they do.  A test case keeps only which of failure, error and    *)
(* skipped it carries; messages, timing and printing are left out.         *)
(***************************************************************************)
EXTENDS Naturals, Sequences, FiniteSets

CONSTANTS
  SuiteNames,  \* suite names (sequences of characters) results may contain
  CaseNames,   \* test case names results may contain
  CaseKinds,   \* which of "failure", "error", "skipped" a test case may carry
  MaxSuites,   \* bound on the suites of one result
  MaxCases     \* bound on the test cases of one suite

ASSUME CompareAssumption ==
  /\ CaseKinds \subseteq SUBSET {"failure", "error", "skipped"}
  /\ MaxSuites \in Nat /\ MaxCases \in Nat

\* The separator of the key format and of key.split.
Sep == <<":", ":">>

\* format!("{}::{}", suite.name, test_case.name)
Key(s, t) == s \o Sep \o t

\* Whether the separator occurs in str at position i.
MatchAt(str, i) == SubSeq(str, i, i + Len(Sep) - 1) = Sep

\* str.split("::").collect(): the pieces between the non-overlapping
\* occurrences of the separator, found from left to right.
SplitSep[str \in Seq(STRING)] ==
  LET at == {i \in 1 .. Len(str) - Len(Sep) + 1 : MatchAt(str, i)}
  IN  IF at = {} THEN <<str>>
      ELSE LET i == CHOOSE i \in at : \A j \in at : i <= j
           IN  <<SubSeq(str, 1, i - 1)>> \o SplitSep[SubSeq(str, i + Len(Sep), Len(str))]

TestCases == [name : CaseNames, kinds : CaseKinds]

\* The status chain of the comparison: failure, then error, then skipped.
Status(tc) ==
  CASE "failure" \in tc.kinds -> "FAIL"
    [] "error" \in tc.kinds   -> "ERROR"
    [] "skipped" \in tc.kinds -> "SKIP"
    [] OTHER                  -> "PASS"

\* A parsed JUnit result: its test suites in file order.
BoundedSeq(S, n) == UNION {[1 .. k -> S] : k \in 0 .. n}
Suites == [name : SuiteNames, cases : BoundedSeq(TestCases, MaxCases)]
Results == BoundedSeq(Suites, MaxSuites)

\* The positions <<suite, case>> of a result's test cases, and the key and
\* status of the case at a position.
Entries(r) == UNION {{<<i, j>> : j \in DOMAIN r[i].cases} : i \in DOMAIN r}
KeyAt(r, e) == Key(r[e[1]].name, r[e[1]].cases[e[2]].name)
StatusAt(r, e) == Status(r[e[1]].cases[e[2]])
Before(e, f) == e[1] < f[1] \/ (e[1] = f[1] /\ e[2] < f[2])

\* baseline_test_map: every baseline case inserted under its key in file
\* order, so a later case with the same key replaces an earlier one.
BaselineMap(r) ==
  [k \in {KeyAt(r, e) : e \in Entries(r)} |->
     LET last == CHOOSE e \in Entries(r) :
                   /\ KeyAt(r, e) = k
                   /\ \A f \in Entries(r) : KeyAt(r, f) = k => ~Before(e, f)
     IN  StatusAt(r, last)]

\* Mutant of Compare: the loop over the baseline looking for missing tests
\* is left out.
Compare_NoMissing(base, cur) ==
  LET bmap == BaselineMap(base)
      found(e) == KeyAt(cur, e) \in DOMAIN bmap
      matching == {e \in Entries(cur) : found(e) /\ bmap[KeyAt(cur, e)] = StatusAt(cur, e)}
      different == {e \in Entries(cur) : found(e) /\ bmap[KeyAt(cur, e)] # StatusAt(cur, e)}
      new == {e \in Entries(cur) : ~found(e)}
  IN  [total |-> Cardinality(Entries(cur)), matching |-> Cardinality(matching),
       different |-> Cardinality(different), new |-> Cardinality(new), missing |-> 0,
       differs |-> different \cup new # {}]

\* The comparison: every current case is looked up by its key and counted
\* as matching, different or new; then every baseline key that splits into
\* exactly two parts, suite and test, with no such test in any current
\* suite of that name counts as missing.  Any different, new or missing
\* test sets has_differences, which makes the command return an error.
Compare(base, cur) ==
  LET bmap == BaselineMap(base)
      found(e) == KeyAt(cur, e) \in DOMAIN bmap
      matching == {e \in Entries(cur) : found(e) /\ bmap[KeyAt(cur, e)] = StatusAt(cur, e)}
      different == {e \in Entries(cur) : found(e) /\ bmap[KeyAt(cur, e)] # StatusAt(cur, e)}
      new == {e \in Entries(cur) : ~found(e)}
      exists(p) == \E i \in DOMAIN cur :
                     cur[i].name = p[1] /\ \E j \in DOMAIN cur[i].cases : cur[i].cases[j].name = p[2]
      missing == {k \in DOMAIN bmap : Len(SplitSep[k]) = 2 /\ ~exists(SplitSep[k])}
  IN  [total |-> Cardinality(Entries(cur)), matching |-> Cardinality(matching),
       different |-> Cardinality(different), new |-> Cardinality(new),
       missing |-> Cardinality(missing), differs |-> different \cup new \cup missing # {}]

VARIABLES
  baseline, \* the loaded baseline snapshot's test results
  current,  \* the parsed current JUnit file
  ran,      \* whether the comparison has run
  report    \* the comparison's counters and outcome

vars == <<baseline, current, ran, report>>

\* The counters before the comparison, all zero.
NoReport == [total |-> 0, matching |-> 0, different |-> 0, new |-> 0,
             missing |-> 0, differs |-> FALSE]

Init ==
  /\ baseline \in Results
  /\ current \in Results
  /\ ran = FALSE
  /\ report = NoReport

\* The Compare arm of main after both inputs are loaded: the comparison,
\* the summary, and Err exactly when differences were found.
RunCompare ==
  /\ ~ran
  /\ ran' = TRUE
  /\ report' = Compare(baseline, current)
  /\ UNCHANGED <<baseline, current>>

Next == RunCompare

Spec == Init /\ [][Next]_vars

-----------------------------------------------------------------------------
(* Reference: what the comparison is meant to tell.                        *)

\* The tests of a result as <<suite name, test name>>, and with their status.
Tests(r) == {<<r[e[1]].name, r[e[1]].cases[e[2]].name>> : e \in Entries(r)}
Outcomes(r) == {<<r[e[1]].name, r[e[1]].cases[e[2]].name, StatusAt(r, e)>> : e \in Entries(r)}

\* Every test's key splits back into its suite and test name.
KeysRoundTrip(r) == \A e \in Entries(r) : SplitSep[KeyAt(r, e)] = <<r[e[1]].name, r[e[1]].cases[e[2]].name>>

\* No test appears twice in the baseline.
UniqueTests(r) == Cardinality(Tests(r)) = Cardinality(Entries(r))

TypeOK ==
  /\ baseline \in Results
  /\ current \in Results
  /\ ran \in BOOLEAN
  /\ report \in [total : Nat, matching : Nat, different : Nat,
                  new : Nat, missing : Nat, differs : BOOLEAN]

\* compare's verdict and missing count are those of the reference: it
\* fails exactly when some test's status changed, a test appeared or a test
\* disappeared, and it counts as missing exactly the baseline tests the
\* current results lack.
ReportMatchesReference ==
  /\ report.differs <=> Outcomes(baseline) # Outcomes(current)
  /\ report.missing = Cardinality(Tests(baseline) \ Tests(current))

\* Whether the separator occurs inside name n.
HasSep(n) == \E i \in 1 .. Len(n) - 1 : MatchAt(n, i)

\* The suite and test names the key format carries through split("::"):
\* neither contains "::", the suite name does not end with ':' and the test
\* name does not begin with ':' (else "a:" and "b" give "a:::b", which
\* splits into "a" and ":b").
NamesSplittable(r) ==
  \A e \in Entries(r) :
    LET s == r[e[1]].name
        t == r[e[1]].cases[e[2]].name
    IN  /\ ~HasSep(s) /\ (s = <<>> \/ s[Len(s)] # ":")
        /\ ~HasSep(t) /\ (t = <<>> \/ t[1] # ":")

\* When every suite and test name is splittable and the baseline has no
\* duplicate test, every key compare builds splits back into its suite and
\* test, and the report of compare is exact.  Names that are not
\* splittable are the ones on which compare misjudges (see
\* NoSilentlyMissingTest); duplicates are compared last-wins.
ReportExact ==
  ran /\ NamesSplittable(baseline) /\ NamesSplittable(current) /\ UniqueTests(baseline)
    => /\ KeysRoundTrip(baseline) /\ KeysRoundTrip(current)
       /\ ReportMatchesReference

\* "All tests match the baseline" is printed only when every baseline test
\* is still among the current results.
NoSilentlyMissingTest ==
  ran /\ ~report.differs => Tests(baseline) \subseteq Tests(current)

=============================================================================
