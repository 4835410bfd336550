SPECIFICATION FairSpec
CONSTANTS
  a1 = a1
  a2 = a2
  a3 = a3
  Accounts = {a1, a2, a3}
  Admins = {admin}
  Email <- Addresses
  Slug <- Names
  MaxActs = 3
INVARIANTS
  TypeOK
  WholeAccounts
PROPERTIES
  ErasedWasDeleted
  ErasedUnlessReferred
CHECK_DEADLOCK FALSE
