\* Minting on or off, with badges given at installation and changed later.
SPECIFICATION Spec
CONSTANTS
  Account = {alice, bob}
  Package = {token, relay}
  Token = token
  Relay = relay
  MaxU256 = 2
  InstallSupplies = {1}
  InstallEventsModes = {0, 1, 2}
  InstallMintBurn = {0, 1}
  CallAmounts = {1, 2}
  InstallLists <- UserLists
  BadgeLists <- UserLists
  Named <- Principals
  Called <- MinterCalls
SYMMETRY AccountSymmetry
VIEW State
PROPERTIES ImplementsCEP18 ChecksPrecedeWrites AdminUnlessInstallerIsMinter
