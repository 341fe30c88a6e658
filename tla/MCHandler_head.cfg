SPECIFICATION Spec
CONSTANTS
  Tables <- MCTables
  Uris <- AllUris
  Methods = {"GET", "HEAD", "POST", "DELETE", "PUT"}
  Payloads <- MCPayloads
  Lengths = {0, 4}
  Tree <- MCTree
  ErrorPages <- MCErrorPages
  Unreserved <- MCUnreserved
  ServerMax = 3
  MaxForms = 2
  MaxChanges = 2
INVARIANT HeadHasNoBody
CHECK_DEADLOCK FALSE
