SPECIFICATION Spec
CONSTANTS
  Texts <- MCTexts
  AllWords <- MCWords
  Simple <- MCSimple
INVARIANTS ParserDecides TableauIsFormula ProgramIsFormula
PROPERTY TranslationEnds
