SPECIFICATION FairSpec
CONSTANTS
  a1 = a1
  a2 = a2
  a3 = a3
  Accounts = {a1, a2, a3}
  Admins = {admin}
  Email <- Addresses
  Slug <- Names
  MaxActs = 2
PROPERTIES
  Erased
CHECK_DEADLOCK FALSE
