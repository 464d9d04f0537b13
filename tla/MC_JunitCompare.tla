---------------------------- MODULE MC_JunitCompare ----------------------------
EXTENDS JunitCompare

\* Names over the characters "a", "b" and ":": plain ones, a test name
\* with a colon that stays clear of the separator, and ones whose colons
\* meet the key separator inside a name or at its edge.
MC_SuiteNames == {<<"a">>, <<"a", ":">>}
MC_CaseNames == {<<"b">>, <<"b", ":">>, <<":", "b">>, <<"b", ":", ":", "b">>}

\* A passing test, a failure, and a skipped test.
MC_CaseKinds == {{}, {"failure"}, {"skipped"}}

=============================================================================
