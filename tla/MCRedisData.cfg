SPECIFICATION Spec
CONSTANTS
  text = text
  word = word
  long = long
INVARIANTS
  CommandsAgree
  ChangesAreSignalled
  SlavesAgree
  EncodingsAreSound
  FunctionsAgree
