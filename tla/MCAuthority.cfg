SPECIFICATION AuthoritySpec
CONSTANTS
  MaxUint = 2
  NoFile = NoFile
INVARIANTS
  AuthorityTypeOK
  IssuedCovered
PROPERTIES
  FreshTokens
