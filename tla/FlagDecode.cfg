SPECIFICATION Spec
CONSTANTS
  Raws <- MCRaws
INVARIANTS
  TypeOK
  TextKeepsValue
  NoBitTwice
  SetFlagIsNamed
