\* Every u8 given as enable_mint_burn.
SPECIFICATION Spec
CONSTANTS
  Account = {alice, bob}
  Package = {token}
  Token = token
  MaxU256 = 1
  InstallSupplies = {1}
  InstallEventsModes = {0}
  InstallMintBurn = {1, 2}
  CallAmounts = {0}
  InstallLists <- NoLists
  BadgeLists <- UserLists
VIEW ContractState
INVARIANT DocumentedMintBurnModes
