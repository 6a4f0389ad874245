---- MODULE MC_Execution ----
EXTENDS Execution, TLC

AccountSymmetry == Permutations(Account)

\* No step reads the record of the last deploy.
State == <<ledger, copy, run>>

NoLists   == {{}}
UserLists == SUBSET Account

\* All keys that ever call the token.
Principals == Account \cup {Relay}

\* Entry points that move tokens and grants, the reads, and all of the test contract.
LedgerCalls == {"call", "init", "transfer", "transfer_from", "approve", "increase_allowance",
                "decrease_allowance"} \cup ReadOnly \cup TestEntryPoint

\* Entry points for Minters and Admins, init, which anyone may call again, and a read to tell
\* what the others did.
MinterCalls == {"call", "init", "mint", "burn", "change_security", "check_total_supply"}
====
