\* Users and the test contract move one token and grant allowances, minting off.
SPECIFICATION Spec
CONSTANTS
  Account = {alice, bob}
  Package = {token, relay}
  Token = token
  Relay = relay
  MaxU256 = 1
  InstallSupplies = {1}
  InstallEventsModes = {1}
  InstallMintBurn = {0}
  CallAmounts = {0, 1}
  InstallLists <- NoLists
  BadgeLists <- NoLists
  Named <- Principals
  Called <- LedgerCalls
SYMMETRY AccountSymmetry
VIEW State
INVARIANTS TypeOK
PROPERTIES ImplementsCEP18 ChecksPrecedeWrites DeclaredIsWhatIsRead CallersPassWhatIsRead ResultIsCurrent
