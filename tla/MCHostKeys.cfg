SPECIFICATION Spec
CONSTANTS
  Hosts = {h1}
  Prints = {k1, k2}
  NoPrint = NoPrint
  Corrupt = Corrupt
  NoChallenge = NoChallenge
  Sessions = {s1}
  Dialogs = {d1, d2}
  MaxPending <- MCMaxPending
  MaxIds <- MCMaxIds
INVARIANTS
  CredentialsOnlyToVouchedKeys
  TrustIsTheUsersWord
  TrustIsDurable
  ForgottenStaysForgotten
PROPERTIES
  EditsAreNotOverwritten
