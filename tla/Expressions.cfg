SPECIFICATION Spec
CONSTANTS
  Calls <- MCCalls
  Nodes <- MCNodes
  Height <- MCHeight
INVARIANTS
  TypeOK
  PlaceholdersMatch
  NamesAgree
  MergeKeepsMeaning
  SortKeyTyped
  SuggestionAccepted
  MeansTheSame
CHECK_DEADLOCK FALSE
