\* Mint and burn enabled or not, two users with changing badges, amounts up to the
\* width of the counters.
SPECIFICATION Spec
CONSTANTS
  Account = {alice, bob}
  Package = {token}
  Token = token
  MaxU256 = 2
  InstallSupplies = {0, 2}
  InstallEventsModes = {0, 1}
  InstallMintBurn = {0, 1}
  CallAmounts = {0, 1, 2}
  InstallLists <- NoLists
  BadgeLists <- UserLists
SYMMETRY AccountSymmetry
VIEW ContractState
INVARIANTS SupplyIsSumOfBalances
PROPERTIES OnlyMintOverflows SupplyChangesAreAuthorised EventsTellEveryChange ImplementsTokenLedger
