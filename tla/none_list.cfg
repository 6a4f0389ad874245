\* The last Admin, which puts itself on admin_list and none_list.
SPECIFICATION Spec
CONSTANTS
  Account = {alice, bob}
  Package = {token}
  Token = token
  MaxU256 = 1
  InstallSupplies = {1}
  InstallEventsModes = {0}
  InstallMintBurn = {1, 2}
  CallAmounts = {0}
  InstallLists <- NoLists
  BadgeLists <- UserLists
VIEW ContractState
PROPERTY DocumentedNoneStrength
