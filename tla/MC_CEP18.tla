---- MODULE MC_CEP18 ----
EXTENDS EventReplay, LedgerRefinement, TLC

\* Accounts are told apart by nothing in the code.
AccountSymmetry == Permutations(Account)

\* No step reads the record of the previous call, so states that differ only in it have the
\* same successors; action properties are still evaluated on every step.
ContractState == state

NoLists        == {{}}
UserLists      == SUBSET Account
PrincipalLists == SUBSET (Key \ {Token})
====
