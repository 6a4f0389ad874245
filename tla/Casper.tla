---- MODULE Casper ----
(***************************************************************************)
(* The part of the Casper platform the CEP-18 contract stands on: keys,    *)
(* 256-bit unsigned arithmetic and the call stack.  None of this is in the *)
(* repository; it is modelled from how cep18/src uses it.                  *)
(***************************************************************************)
EXTENDS Integers, Sequences, FiniteSets

CONSTANTS Account,  \* account hashes, the keys that sign deploys
          Package,  \* contract package hashes
          Token,    \* the package of the CEP-18 contract itself
          MaxU256   \* 2^256 - 1 on the platform

ASSUME CasperAssumption ==
    /\ IsFiniteSet(Account) /\ IsFiniteSet(Package)
    /\ Account \cap Package = {}
    /\ Token \in Package
    /\ MaxU256 \in Nat \ {0}

Key  == Account \cup Package
U256 == 0..MaxU256

(***************************************************************************)
(* U256::checked_add and checked_sub return None exactly when these hold;  *)
(* saturating_add and saturating_sub stop at the ends of the range.        *)
(***************************************************************************)
AddOverflows(a, b)  == a + b > MaxU256
SubUnderflows(a, b) == b > a

saturating_add(a, b) == IF AddOverflows(a, b) THEN MaxU256 ELSE a + b
saturating_sub(a, b) == IF SubUnderflows(a, b) THEN 0 ELSE a - b

(***************************************************************************)
(* runtime::get_call_stack(): who is executing, oldest frame first, the    *)
(* running contract last.  A deploy starts in a session of its signer,     *)
(* stored session code keeps acting for the signer, and a contract cannot  *)
(* call back into session code.  The token reads only the signer (first    *)
(* frame) and the frame below its own, so two frames between the two are   *)
(* enough to tell every case apart.                                        *)
(***************************************************************************)
Session(a)          == [kind |-> "Session", account_hash |-> a]
StoredSession(a, p) == [kind |-> "StoredSession", account_hash |-> a,
                        contract_package_hash |-> p]
StoredContract(p)   == [kind |-> "StoredContract", contract_package_hash |-> p]

\* The token calls nobody, so it is never a frame below another one.
Caller == Package \ {Token}

CallStack ==
         {<<Session(a), StoredContract(Token)>> : a \in Account}
    \cup {<<Session(a), StoredSession(a, p), StoredContract(Token)>> :
            a \in Account, p \in Caller}
    \cup {<<Session(a), StoredContract(p), StoredContract(Token)>> :
            a \in Account, p \in Caller}
    \cup {<<Session(a), StoredSession(a, q), StoredContract(p), StoredContract(Token)>> :
            a \in Account, p \in Caller, q \in Caller}
    \cup {<<Session(a), StoredContract(q), StoredContract(p), StoredContract(Token)>> :
            a \in Account, p \in Caller, q \in Caller}

\* runtime::get_caller(): the account that signed the deploy.
get_caller(stack) == stack[1].account_hash
====
