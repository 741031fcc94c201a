CONSTANTS
  DescribeIds = {"d1", "d2"}
  Tongue = {"en-us", "fr-fr"}
  Intent = {"time", "news"}
  Catalogues <- MCCatalogues
  AllowLists <- MCAllowLists
SPECIFICATION Spec
INVARIANTS
  AnswersAreOwn
  KnownIsComplete
  AllMeansAll
  AllowedIsReadable
CHECK_DEADLOCK FALSE
