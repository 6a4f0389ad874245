\* Every combination of badge lists, at installation and in change_security, over two
\* users, a contract and the token's own key; the ledger itself stands still.
SPECIFICATION Spec
CONSTANTS
  Account = {alice, bob}
  Package = {token, dex}
  Token = token
  MaxU256 = 1
  InstallSupplies = {1}
  InstallEventsModes = {0, 1, 2}
  InstallMintBurn = {0, 1, 2}
  CallAmounts = {0}
  InstallLists <- PrincipalLists
  BadgeLists <- PrincipalLists
SYMMETRY AccountSymmetry
VIEW ContractState
PROPERTIES AdminRemains BadgesChangedByOtherAdmin ImplementsTokenLedger
