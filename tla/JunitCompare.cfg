CONSTANTS
  SuiteNames <- MC_SuiteNames
  CaseNames <- MC_CaseNames
  CaseKinds <- MC_CaseKinds
  MaxSuites = 2
  MaxCases = 1
SPECIFICATION Spec
INVARIANTS
  ReportExact
CHECK_DEADLOCK FALSE
