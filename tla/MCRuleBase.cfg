CONSTANTS
  Names <- MCNames
  Any = "#"
  Wide = "*"
  Empty = ""
  Fold <- MCFold
  Values = {"yes"}
  SetKeys <- MCSetKeys
  Filters <- MCFilters
  Queries <- MCQueries
  Expires <- MCExpires
  MaxRules = 3
  MaxTime = 2
SPECIFICATION Spec
INVARIANT SelectionFollowsReadme OneRulePerKey PersistentExactlyWide
