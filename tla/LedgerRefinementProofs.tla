---- MODULE LedgerRefinementProofs ----
(***************************************************************************)
(* The refinement, proved for every set of accounts and packages and every *)
(* width of the counters.                                                  *)
(***************************************************************************)
EXTENDS LedgerRefinement, CEP18Proofs

\* A call acts for one key and no other: the address the contract takes for its caller.
LEMMA ActsAlone ==
  ASSUME NEW stack \in CallStack, deploy'.stack = stack
  PROVE  Actor' = {get_immediate_caller_address(stack)}
<1> DEFINE caller == get_immediate_caller_address(stack)
<1>1. caller \in Key /\ ActsFor(stack, caller)
  BY CallerActs
<1>2. stack # <<>>
  BY DEF CallStack, Session, StoredSession, StoredContract
<1>3. ASSUME NEW k \in Key, ActsFor(stack, k) PROVE k = caller
  <2> USE DEF Session, StoredSession, StoredContract, Caller, ActsFor,
              get_immediate_caller_address, call_stack_element_to_address
  <2>1. ASSUME NEW a \in Account, stack = <<Session(a), StoredContract(Token)>>
        PROVE  k = caller
    BY <1>3, <2>1
  <2>2. ASSUME NEW a \in Account, NEW p \in Caller,
               stack = <<Session(a), StoredSession(a, p), StoredContract(Token)>>
        PROVE  k = caller
    BY <1>3, <2>2
  <2>3. ASSUME NEW a \in Account, NEW p \in Caller,
               stack = <<Session(a), StoredContract(p), StoredContract(Token)>>
        PROVE  k = caller
    BY <1>3, <2>3
  <2>4. ASSUME NEW a \in Account, NEW p \in Caller, NEW q \in Caller,
               stack = <<Session(a), StoredSession(a, q), StoredContract(p),
                         StoredContract(Token)>>
        PROVE  k = caller
    BY <1>3, <2>4
  <2>5. ASSUME NEW a \in Account, NEW p \in Caller, NEW q \in Caller,
               stack = <<Session(a), StoredContract(q), StoredContract(p),
                         StoredContract(Token)>>
        PROVE  k = caller
    BY <1>3, <2>5
  <2>6. QED
    BY <2>1, <2>2, <2>3, <2>4, <2>5 DEF CallStack
<1>4. Actor' = {k \in Key : stack # <<>> /\ ActsFor(stack, k)}
  BY DEF Actor
<1>5. QED
  BY <1>1, <1>2, <1>3, <1>4

\* A call that leaves the state as it is does nothing to the ledger.
LEMMA NothingDone ==
  ASSUME UNCHANGED state, NEW k
  PROVE  Ledger!Step(k)
BY DEF state, config, Issuers, Managers, Ledger!Step, Ledger!Nothing, Ledger!rights

\* What the refinement needs of an amount.
LEMMA AmountWithinLimit ==
  ASSUME NEW amount \in U256
  PROVE  amount \in 0..MaxU256 /\ amount \in Nat
BY CasperAssumption DEF U256

LEMMA InstallCreates ==
  ASSUME SupplyInv, Install
  PROVE  Ledger!Next
<1>1. PICK caller \in Account, supply \in InstallSupplies, mode \in InstallEventsModes,
           mint_burn \in InstallMintBurn, admin_list \in InstallLists,
           minter_list \in InstallLists :
        install_contract(caller, supply, mode, mint_burn, admin_list, minter_list)
  BY DEF Install
<1> DEFINE stack == <<Session(caller), StoredContract(Token)>>
<1>2. /\ stack \in CallStack /\ get_caller(stack) = caller /\ caller \in Key
      /\ supply \in 0..MaxU256
      /\ get_immediate_caller_address(stack) = caller
  <2>1. supply \in U256
    BY CEP18Assumption
  <2>2. get_immediate_caller_address(stack) = caller
    BY DEF get_immediate_caller_address, call_stack_element_to_address, Session
  <2>3. QED
    BY <2>1, <2>2, InstallStack, AmountWithinLimit
<1>3. deploy'.stack = stack
  BY <1>1 DEF install_contract, Revert, Return
<1>4. Actor' = {caller}
  BY <1>2, <1>3, ActsAlone
<1>5. Ledger!Step(caller)
  <2>1. CASE UNCHANGED state
    BY <2>1, NothingDone
  <2>2. CASE ~UNCHANGED state
    <3>1. /\ ~initialized /\ initialized'
          /\ balances' = [balances EXCEPT ![caller] = supply]
          /\ UNCHANGED allowances
      BY <1>1, <1>2, <2>2 DEF install_contract, Revert
    <3>2. balances' = [k \in Key |-> IF k = caller THEN supply ELSE 0]
      BY <1>2, <3>1 DEF SupplyInv
    <3>3. /\ Managers' \subseteq Issuers' /\ Issuers' \subseteq Key
          /\ (enable_mint_burn # 0)' \in BOOLEAN
      BY DEF Managers, Issuers
    <3>4. Ledger!Create(caller, supply)
      BY <3>1, <3>2, <3>3 DEF Ledger!Create
    <3>5. QED
      BY <1>2, <3>4 DEF Ledger!Step
  <2>3. QED
    BY <2>1, <2>2
<1>6. QED
  BY <1>2, <1>4, <1>5 DEF Ledger!Next

LEMMA ApproveGrants ==
  ASSUME SupplyInv, initialized, NEW stack \in CallStack, NEW spender \in Key,
         NEW amount \in U256,
         \/ approve(stack, spender, amount)
         \/ decrease_allowance(stack, spender, amount)
         \/ increase_allowance(stack, spender, amount)
  PROVE  Ledger!Step(get_immediate_caller_address(stack))
<1> DEFINE owner == get_immediate_caller_address(stack)
<1>1. CASE UNCHANGED state
  BY <1>1, NothingDone
<1>2. CASE ~UNCHANGED state
  <2>1. owner \in Key
    BY CallerActs
  <2>2. allowances[<<owner, spender>>] \in U256
    BY <2>1 DEF SupplyInv, TypeOK
  <2>3. /\ saturating_add(allowances[<<owner, spender>>], amount) \in U256
        /\ saturating_sub(allowances[<<owner, spender>>], amount) \in U256
    BY <2>2, SaturatingTyped
  <2>4. /\ owner # spender
        /\ \E n \in U256 : write_allowance_to(owner, spender, n)
        /\ UNCHANGED <<balances, total_supply, security_badges, config>>
    BY <1>2, <2>3 DEF approve, decrease_allowance, increase_allowance, spender_error, Revert, Ok
  <2>5. PICK n \in U256 : write_allowance_to(owner, spender, n)
    BY <2>4
  <2>6. Ledger!Grant(owner, spender, n)
    BY <2>4, <2>5
       DEF Ledger!Grant, Ledger!rights, write_allowance_to, config, Issuers, Managers
  <2>7. QED
    BY <2>6, AmountWithinLimit DEF Ledger!Step
<1>3. QED
  BY <1>1, <1>2

\* A transfer that passes its checks moves tokens the sender has.
LEMMA TransferMoves ==
  ASSUME SupplyInv, NEW sender \in Key, NEW recipient \in Key, NEW amount \in U256,
         sender # recipient, amount # 0,
         transfer_balance_error(sender, recipient, amount) = Ok,
         transfer_balance(sender, recipient, amount)
  PROVE  Ledger!Move(sender, recipient, amount)
<1>1. balances[sender] \in Nat /\ amount \in Nat
  BY AmountWithinLimit DEF SupplyInv, TypeOK
<1>2. amount <= balances[sender]
  BY <1>1 DEF transfer_balance_error, SubUnderflows, Ok
<1>3. balances' = [balances EXCEPT ![sender] = @ - amount, ![recipient] = @ + amount]
  BY DEF transfer_balance
<1>4. QED
  BY <1>2, <1>3 DEF Ledger!Move

LEMMA TransferPays ==
  ASSUME SupplyInv, initialized, NEW stack \in CallStack, NEW recipient \in Key,
         NEW amount \in U256, transfer(stack, recipient, amount)
  PROVE  Ledger!Step(get_immediate_caller_address(stack))
<1> DEFINE sender == get_immediate_caller_address(stack)
<1>1. CASE UNCHANGED state
  BY <1>1, NothingDone
<1>2. CASE ~UNCHANGED state
  <2>1. /\ transfer_error(sender, recipient, amount) = Ok
        /\ transfer_balance(sender, recipient, amount)
        /\ UNCHANGED <<allowances, total_supply, security_badges, config>>
    BY <1>2 DEF transfer, Revert
  <2>2. /\ sender # recipient
        /\ transfer_balance_error(sender, recipient, amount) = Ok
    BY <2>1 DEF transfer_error, Ok
  <2>3. amount # 0
    BY <1>2, <2>1 DEF transfer_balance, state
  <2>4. Ledger!Move(sender, recipient, amount)
    BY <2>1, <2>2, <2>3, CallerActs, TransferMoves
  <2>5. Ledger!Pay(sender, recipient, amount)
    BY <2>1, <2>4 DEF Ledger!Pay, Ledger!rights, config, Issuers, Managers
  <2>6. QED
    BY <2>5, AmountWithinLimit DEF Ledger!Step
<1>3. QED
  BY <1>1, <1>2

LEMMA TransferFromCollects ==
  ASSUME SupplyInv, initialized, NEW stack \in CallStack, NEW owner \in Key,
         NEW recipient \in Key, NEW amount \in U256,
         transfer_from(stack, owner, recipient, amount)
  PROVE  Ledger!Step(get_immediate_caller_address(stack))
<1> DEFINE spender == get_immediate_caller_address(stack)
<1>1. CASE UNCHANGED state
  BY <1>1, NothingDone
<1>2. CASE ~UNCHANGED state
  <2>1. spender \in Key
    BY CallerActs
  <2>2. /\ transfer_from_error(spender, owner, recipient, amount) = Ok
        /\ amount # 0
        /\ transfer_balance(owner, recipient, amount)
        /\ write_allowance_to(owner, spender, allowances[<<owner, spender>>] - amount)
        /\ UNCHANGED <<total_supply, security_badges, config>>
    BY <1>2 DEF transfer_from, Revert
  <2>3. /\ owner # recipient
        /\ ~SubUnderflows(allowances[<<owner, spender>>], amount)
        /\ transfer_balance_error(owner, recipient, amount) = Ok
    BY <2>2 DEF transfer_from_error, Ok
  <2>4. amount <= allowances[<<owner, spender>>]
    <3>1. allowances[<<owner, spender>>] \in U256
      BY <2>1 DEF SupplyInv, TypeOK
    <3>2. QED
      BY <2>3, <3>1, AmountWithinLimit DEF SubUnderflows
  <2>5. Ledger!Move(owner, recipient, amount)
    BY <2>2, <2>3, TransferMoves
  <2>6. allowances' = [allowances EXCEPT ![<<owner, spender>>] = @ - amount]
    BY <2>1, <2>2 DEF write_allowance_to, SupplyInv, TypeOK
  <2>7. Ledger!Collect(spender, owner, recipient, amount)
    BY <2>2, <2>4, <2>5, <2>6 DEF Ledger!Collect, Ledger!rights, config, Issuers, Managers
  <2>8. QED
    BY <2>7, AmountWithinLimit DEF Ledger!Step
<1>3. QED
  BY <1>1, <1>2

LEMMA MintIssues ==
  ASSUME SupplyInv, initialized, NEW stack \in CallStack, NEW owner \in Key,
         NEW amount \in U256, mint(stack, owner, amount)
  PROVE  Ledger!Step(get_immediate_caller_address(stack))
<1> DEFINE caller == get_immediate_caller_address(stack)
<1>1. CASE UNCHANGED state
  BY <1>1, NothingDone
<1>2. CASE ~UNCHANGED state
  <2>1. /\ mint_error(caller, owner, amount) = Ok
        /\ balances' = [balances EXCEPT ![owner] = @ + amount]
        /\ UNCHANGED <<allowances, security_badges, config>>
    BY <1>2 DEF mint, Revert
  <2>2. /\ enable_mint_burn # 0
        /\ security_badges[caller] \in {"Admin", "Minter"}
        /\ ~AddOverflows(total_supply, amount)
    BY <2>1 DEF mint_error, sec_check, Ok
  <2>3. caller \in Issuers
    BY <2>2, CallerActs DEF Issuers
  <2>4. Ledger!Supply + amount <= MaxU256
    <3>1. Ledger!Supply = total_supply
      BY DEF Ledger!Supply, Units, SupplyInv, SupplyIsSumOfBalances, Cardinality, Ledger!Cardinality
    <3>2. total_supply + amount <= MaxU256
      BY <2>2, CasperAssumption DEF AddOverflows, SupplyInv, TypeOK, U256
    <3>3. QED
      BY <3>1, <3>2
  <2>5. Ledger!Issue(caller, owner, amount)
    BY <2>1, <2>2, <2>3, <2>4 DEF Ledger!Issue, Ledger!rights, config, Issuers, Managers
  <2>6. QED
    BY <2>5, AmountWithinLimit DEF Ledger!Step
<1>3. QED
  BY <1>1, <1>2

LEMMA BurnRetires ==
  ASSUME SupplyInv, initialized, NEW stack \in CallStack, NEW owner \in Key,
         NEW amount \in U256, burn(stack, owner, amount)
  PROVE  Ledger!Step(get_immediate_caller_address(stack))
<1> DEFINE caller == get_immediate_caller_address(stack)
<1>1. CASE UNCHANGED state
  BY <1>1, NothingDone
<1>2. CASE ~UNCHANGED state
  <2>1. /\ burn_error(caller, owner, amount) = Ok
        /\ balances' = [balances EXCEPT ![owner] = @ - amount]
        /\ UNCHANGED <<allowances, security_badges, config>>
    BY <1>2 DEF burn, Revert
  <2>2. /\ enable_mint_burn # 0
        /\ owner = caller
        /\ ~SubUnderflows(balances[owner], amount)
    BY <2>1 DEF burn_error, Ok
  <2>3. amount <= balances[owner]
    BY <2>2, AmountWithinLimit DEF SubUnderflows, SupplyInv, TypeOK, U256
  <2>4. Ledger!Retire(caller, amount)
    BY <2>1, <2>2, <2>3 DEF Ledger!Retire, Ledger!rights, config, Issuers, Managers
  <2>5. QED
    BY <2>4, AmountWithinLimit DEF Ledger!Step
<1>3. QED
  BY <1>1, <1>2

LEMMA ChangeSecurityAppoints ==
  ASSUME SupplyInv, initialized, NEW stack \in CallStack, NEW admin_list \in SUBSET Key,
         NEW minter_list \in SUBSET Key, NEW none_list \in SUBSET Key,
         change_security(stack, admin_list, minter_list, none_list)
  PROVE  Ledger!Step(get_immediate_caller_address(stack))
<1> DEFINE caller == get_immediate_caller_address(stack)
           map    == badge_map(caller, admin_list, minter_list, none_list)
<1>1. CASE UNCHANGED state
  BY <1>1, NothingDone
<1>2. CASE ~UNCHANGED state
  <2>1. /\ change_security_error(caller) = Ok
        /\ change_sec_badge(map)
        /\ UNCHANGED <<balances, allowances, total_supply, config>>
    BY <1>2 DEF change_security, Revert
  <2>2. /\ enable_mint_burn # 0
        /\ security_badges[caller] = "Admin"
    BY <2>1 DEF change_security_error, sec_check, Ok
  <2>3. caller \in Key /\ caller \notin DOMAIN map
    BY CallerActs DEF badge_map
  <2>4. security_badges'[caller] = "Admin"
    BY <2>1, <2>2, <2>3 DEF change_sec_badge
  <2>5. caller \in Managers /\ caller \in Managers'
    BY <2>2, <2>3, <2>4 DEF Managers
  <2>6. Managers' \subseteq Issuers' /\ Issuers' \subseteq Key
    BY DEF Managers, Issuers
  <2>7. Ledger!Appoint(caller)
    BY <2>1, <2>2, <2>5, <2>6 DEF Ledger!Appoint, config
  <2>8. QED
    BY <2>7 DEF Ledger!Step
<1>3. QED
  BY <1>1, <1>2

LEMMA CallSteps ==
  ASSUME SupplyInv, initialized, NEW stack \in CallStack, Call(stack)
  PROVE  Ledger!Next
<1>1. ASSUME init(stack) PROVE Ledger!Step(get_immediate_caller_address(stack))
  BY <1>1, NothingDone DEF init, Revert
<1>2. Ledger!Step(get_immediate_caller_address(stack))
  BY <1>1, CallCases, ApproveGrants, TransferPays, TransferFromCollects, MintIssues,
     BurnRetires, ChangeSecurityAppoints
<1>3. deploy'.stack = stack
  <2>1. ASSUME NEW entry_point, NEW error, Revert(entry_point, stack, error)
        PROVE  deploy'.stack = stack
    BY <2>1 DEF Revert
  <2>2. ASSUME NEW entry_point, NEW event,
               Return(entry_point, stack, event) \/ Emit(entry_point, stack, event)
        PROVE  deploy'.stack = stack
    BY <2>2 DEF Return, Emit
  <2>3. QED
    BY <2>1, <2>2, CallCases
       DEF init, approve, decrease_allowance, increase_allowance, transfer, transfer_from,
           mint, burn, change_security
<1>4. Actor' = {get_immediate_caller_address(stack)}
  BY <1>3, ActsAlone
<1>5. QED
  BY <1>2, <1>4, CallerActs DEF Ledger!Next

LEMMA NextSteps == SupplyInv /\ [Next]_vars => [Ledger!Next]_(Ledger!vars)
<1> SUFFICES ASSUME SupplyInv, [Next]_vars PROVE [Ledger!Next]_(Ledger!vars)
  OBVIOUS
<1>1. CASE Next
  BY <1>1, InstallCreates, CallSteps DEF Next
<1>2. CASE UNCHANGED vars
  BY <1>2 DEF vars, state, config, Issuers, Managers, Actor, ActsFor, Ledger!vars, Ledger!rights
<1>3. QED
  BY <1>1, <1>2

LEMMA InitStarts == Init => Ledger!Init
<1> SUFFICES ASSUME Init PROVE Ledger!Init
  OBVIOUS
<1>1. Issuers = {} /\ Managers = {}
  BY DEF Init, Issuers, Managers, Absent
<1>2. Actor = {}
  BY DEF Init, Actor
<1>3. (enable_mint_burn # 0) = FALSE
  BY DEF Init
<1>4. QED
  BY <1>1, <1>2, <1>3 DEF Init, Ledger!Init

\* The contract implements the promise: whatever is deployed, each step does to the ledger
\* what its one actor is allowed to do, or nothing.
THEOREM CEP18ImplementsTokenLedger == Spec => ImplementsTokenLedger
<1>1. Spec => []SupplyInv
  BY InitSupply, NextSupply, PTL DEF Spec
<1>2. QED
  BY <1>1, InitStarts, NextSteps, PTL DEF Spec, Ledger!Spec, ImplementsTokenLedger
====
