SPECIFICATION Spec
CONSTANTS
  Arguments <- MCArguments
  Documents <- MCDocuments
  Text <- MCText
  Letters = {"C", "D"}
INVARIANTS
  TypeOK
  StringsSurvive
  FilesInOrder
  OnlyIncompleteTerminates
  OnlyAcceptedIsPacked
