\* An Admin that passes lists to change_security.
SPECIFICATION Spec
CONSTANTS
  Account = {alice, bob}
  Package = {token, relay}
  Token = token
  Relay = relay
  MaxU256 = 1
  InstallSupplies = {1}
  InstallEventsModes = {0}
  InstallMintBurn = {1}
  CallAmounts = {0}
  InstallLists <- NoLists
  BadgeLists <- UserLists
  Named <- Principals
  Called <- MinterCalls
VIEW State
PROPERTY CommentedListsAreRead
