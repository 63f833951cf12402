\* Profiles whose experts are hit equally often or not, some of them more often
\* than single precision numbers count.
CONSTANTS
  Layers = 2
  Experts = 5
  Workload = "long"
  Profiles <- MCProfiles
  BudgetSets <- MCBudgets
  Exact = 4
  Spacings = {1, 2, 4, 8}
SPECIFICATION TuningSpec
INVARIANT PlansCoverWhatTheyExpect
