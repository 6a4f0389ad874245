\* Mint and burn disabled: two users, a contract that may hold tokens and
\* allowances, the token's own package, a supply of one unit.
SPECIFICATION Spec
CONSTANTS
  Account = {alice, bob}
  Package = {token, dex}
  Token = token
  MaxU256 = 1
  InstallSupplies = {0, 1}
  InstallEventsModes = {1, 2}
  InstallMintBurn = {0}
  CallAmounts = {0, 1}
  InstallLists <- NoLists
  BadgeLists <- NoLists
SYMMETRY AccountSymmetry
VIEW ContractState
INVARIANTS TypeOK SupplyIsSumOfBalances NoSelfAllowance
PROPERTIES NoMiddleman AllowanceOnlyGrantedOrSpent EventsTellEveryChange ImplementsTokenLedger
