\* alice offers, bob takes, either may pass tokens on or back.
SPECIFICATION HistSpec
CONSTANTS
  Account = {alice, bob}
  Package = {token}
  Token = token
  MaxU256 = 2
  InstallSupplies = {2}
  InstallEventsModes = {0}
  InstallMintBurn = {0}
  CallAmounts = {1, 2}
  InstallLists <- NoLists
  BadgeLists <- NoLists
  Owner = alice
  Spender = bob
  MaxOffered = 4
VIEW StateAndHistory
INVARIANT TakenWithinOffers
