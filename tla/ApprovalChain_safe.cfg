CONSTANTS
  boss = boss
  o1 = o1
  o2 = o2
  o3 = o3
  care = care
  aide = aide
  Unknown = Unknown
  NoLimit = NoLimit
  People = {boss, o1, o2, o3, care, aide}
  Owners = {boss, o1, o2, o3}
  Members = {care}
  OrgAdmins = {aide}
  Requesters = {boss}
  a1 = a1
  a2 = a2
  Approvals = {a1, a2}
  Amounts = {2, Unknown}
  Rulebooks <- Books
  MaxChanges = 2
SPECIFICATION Spec
INVARIANTS
  DelegatedWithinLimit
  RoutedViewIsTrue
PROPERTIES
  DecidedByEnough
SYMMETRY Symmetric
CHECK_DEADLOCK FALSE
