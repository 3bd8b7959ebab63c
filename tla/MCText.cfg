CONSTANTS
  Ids = {"a", "b", "x"}
  Ints = {"0", "1"}
  Strs = {"s"}
  Vocabularies <- MCVocabularies
  NoForm <- Reading
INIT Init
NEXT Next
INVARIANTS AcceptedIsGrammar GrammarIsAccepted RoundTrip RolesFit
CHECK_DEADLOCK FALSE
