SPECIFICATION Spec
CONSTANTS
  Texts <- MCTexts
  AllWords <- MCWords
  Simple <- MCSimple
INVARIANT OneElse
