---- MODULE LedgerRefinement ----
(***************************************************************************)
(* The contract of CEP18 implements the promise of TokenLedger.            *)
(***************************************************************************)
EXTENDS CEP18

Issuers  == {k \in Key : security_badges[k] \in {"Admin", "Minter"}}
Managers == {k \in Key : security_badges[k] = "Admin"}

\* The key the last call was made by, told from its call stack alone.
Actor == {k \in Key : deploy.stack # <<>> /\ ActsFor(deploy.stack, k)}

Ledger == INSTANCE TokenLedger WITH
    Holder   <- Key,
    Limit    <- MaxU256,
    created  <- initialized,
    elastic  <- enable_mint_burn # 0,
    tokens   <- balances,
    grants   <- allowances,
    issuers  <- Issuers,
    managers <- Managers,
    by       <- Actor

\* Every entry point, through every chain of contracts, does to the ledger what exactly one
\* holder was allowed to do, and a call that is refused does nothing.
ImplementsTokenLedger == Ledger!Spec
====
